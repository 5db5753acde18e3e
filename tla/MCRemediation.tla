----------------------------- MODULE MCRemediation ------------------------------
(* Instance of Remediation for TLC: variations of one run, each set of them   *)
(* around one hazard. A package b is at the top and nested in another version *)
(* from the same registry, so the two share a batch of the bulk endpoint.     *)
EXTENDS Remediation

Pre(ids) == [core |-> <<1, 0, 0>>, pre |-> ids]
V(a, b, c) == [core |-> <<a, b, c>>, pre |-> <<>>]
Word(place) == [num |-> FALSE, val |-> place]  \* alpha, beta, rc
Num(n) == [num |-> TRUE, val |-> n]

\* The chain semver.org orders, and some releases.
MCAscending ==
  << Pre(<<Word(1)>>), Pre(<<Word(1), Num(1)>>), Pre(<<Word(1), Word(2)>>), Pre(<<Word(2)>>),
     Pre(<<Word(2), Num(2)>>), Pre(<<Word(2), Num(11)>>), Pre(<<Word(3), Num(1)>>),
     V(1, 0, 0), V(1, 0, 1), V(1, 2, 0), V(1, 10, 0), V(2, 0, 0) >>
Versions == {MCAscending[i] : i \in DOMAIN MCAscending}

\* The order the properties speak of is the one that chain shows.
ASSUME ChainAssumption ==
  \A i, j \in DOMAIN MCAscending : Precedes(MCAscending[i], MCAscending[j]) <=> i < j

-------------------------------------------------------------------------------
(* The run that is varied *)

Package(name, version) ==
  [name |-> name, version |-> version, kind |-> "registry", hash |-> "sha512", scheme |-> "https",
   host |-> "npmjs", script |-> FALSE, funding |-> FALSE]
B(version) == [Package("b", version) EXCEPT !.host = "corp"]

Caret(version) == [op |-> "caret", version |-> version]
Declares == (<<"dependencies", "a">> :> Caret(V(1, 0, 0))) @@ (<<"devDependencies", "b">> :> Caret(V(1, 0, 0)))

Project0 ==
  [flavor |-> "npm", format |-> 3,
   packages |-> ("a" :> Package("a", V(1, 0, 0))) @@ ("b" :> B(V(1, 0, 1))) @@ ("a/b" :> B(V(2, 0, 0))),
   locked |-> Declares, heading |-> [name |-> "p", version |-> V(1, 0, 0)],
   manifest |-> [name |-> "p", version |-> V(1, 0, 0), ranges |-> Declares, overrides |-> <<>>, scripts |-> None],
   npmrc |-> <<[key |-> "min-release-age", value |-> 3]>>, workspace |-> None,
   broken |-> {}, orphans |-> {}, unused |-> {}]

Flags0 ==
  [rules |-> ("pinned-versions" :> "off"), severity |-> None, count |-> None, maxWarnings |-> None,
   minSeverity |-> None, strict |-> FALSE, integrity |-> TRUE, vuln |-> TRUE, deprecated |-> TRUE,
   license |-> TRUE, allowUnresolved |-> FALSE, failOnDeprecated |-> FALSE, verbose |-> FALSE,
   write |-> TRUE, json |-> FALSE]

World0 ==
  [mismatched |-> {}, deprecated |-> {}, deaf |-> [s \in {"integrity", "vuln", "deprecated"} |-> {}],
   advisories |-> [n \in {"a", "b", "g"} |-> {}], installed |-> TRUE, csv |-> "good",
   license |-> [k \in {"a", "b", "a/b", "g"} |-> "approved"], latest |-> [n \in {"a", "b", "g"} |-> V(1, 2, 0)]]

File(section) == [common |-> section, own |-> NoSection]
Own(section) == [common |-> NoSection, own |-> section]
Dir(canonical, deprecated, git) == [canonical |-> canonical, deprecated |-> deprecated, git |-> git]
Files(dirs, tool, explicit) == [dirs |-> dirs, tool |-> tool, explicit |-> explicit]
SharedFile(file) == Files(<<Dir(file, None, TRUE)>>, None, None)
Trusting == [NoSection EXCEPT !.hosts = {"corp"}]

Run0 == [command |-> "report", project |-> Project0, files |-> SharedFile(Own(Trusting)), flags |-> Flags0,
         world |-> World0, today |-> 5]

Advisory(id, range, severity) == [id |-> id, range |-> range, severity |-> severity]
Exception(rule, package, version, id, expires) ==
  [rule |-> rule, package |-> package, version |-> version, id |-> id, path |-> None, expires |-> expires]
Excepting(exceptions) == SharedFile(Own([Trusting EXCEPT !.exceptions = exceptions]))

-------------------------------------------------------------------------------
(* Ranges against versions *)

Ranges == {{{[op |-> op, version |-> v]}} : op \in {"<", "<=", ">=", "="}, v \in Versions}
          \cup {{{[op |-> ">=", version |-> V(1, 0, 0)], [op |-> "<", version |-> v]},
                 {[op |-> ">", version |-> V(1, 10, 0)]}} : v \in Versions} \cup {{{}}}
Matching ==
  {[Run0 EXCEPT !.project.packages = (k :> B(v)) @@ @,
                !.world.advisories["b"] = {Advisory("x", range, "high")}] :
     k \in {"b"}, v \in Versions, range \in Ranges}

-------------------------------------------------------------------------------
(* The scans, what they meet, what is excused, and the gate *)

Everything == {{[op |-> "<", version |-> V(1, 2, 0)]}}
Met ==
  {World0,
   [World0 EXCEPT !.mismatched = {"a"}],
   [World0 EXCEPT !.mismatched = {"b"}, !.deprecated = {"a"}],
   [World0 EXCEPT !.license["a"] = "rejected"], [World0 EXCEPT !.license["b"] = "unknown"],
   [World0 EXCEPT !.csv = "bad"], [World0 EXCEPT !.csv = None, !.license["a"] = "rejected"],
   [World0 EXCEPT !.installed = FALSE],
   [World0 EXCEPT !.deprecated = {"a", "b"}]}
  \cup {[World0 EXCEPT !.advisories["a"] = {Advisory(id, Everything, severity)}] :
          id \in {"x", None}, severity \in {"low", "high", "critical", Unknown}}
  \cup {[World0 EXCEPT !.advisories["b"] = {Advisory("x", range, "critical")}, !.deprecated = {"a"}] :
          range \in {Everything, None}}
Deaf ==
  {[s \in {"integrity", "vuln", "deprecated"} |-> IF s \in checks THEN hosts ELSE {}] :
     checks \in {{}, {"integrity"}, {"vuln", "deprecated"}}, hosts \in {{"npmjs"}, {"corp"}}}
Waivers ==
  {<<>>,
   <<Exception("vulnerable-package", "a", None, "x", None)>>,
   <<Exception("vulnerable-package", "b", V(1, 0, 1), None, 9), Exception("deprecated-package", "a", None, None, 5)>>,
   <<Exception("vulnerable-package", "a", None, None, 5), Exception("unresolved-package", None, None, "vuln", 9)>>,
   <<Exception("unresolved-package", "b", None, None, None), Exception("deprecated-package", "a", V(1, 0, 0), None, 9),
     Exception("secure-resolved", "b", None, None, None)>>}
Asked ==
  {Flags0, [Flags0 EXCEPT !.strict = TRUE], [Flags0 EXCEPT !.allowUnresolved = TRUE],
   [Flags0 EXCEPT !.failOnDeprecated = TRUE, !.integrity = FALSE],
   [Flags0 EXCEPT !.severity = "critical", !.count = 2, !.maxWarnings = 0], [Flags0 EXCEPT !.minSeverity = "low", !.license = FALSE],
   [Flags0 EXCEPT !.vuln = FALSE, !.deprecated = FALSE]}
Scanning ==
  {[Run0 EXCEPT !.world = [world EXCEPT !.deaf = deaf], !.flags = flags, !.files = Excepting(exceptions)] :
     world \in Met, deaf \in Deaf, flags \in Asked, exceptions \in Waivers}

-------------------------------------------------------------------------------
(* The rules *)

Odd == [Package("g", V(1, 0, 0)) EXCEPT !.script = TRUE, !.funding = TRUE]
Others ==
  {[Odd EXCEPT !.scheme = scheme, !.host = host, !.hash = hash] :
     scheme \in {"https", "http", "bad"}, host \in {"npmjs", "else"}, hash \in {"sha512", "sha1", None}}
  \cup {[Odd EXCEPT !.kind = kind, !.hash = None, !.scheme = "ssh", !.host = None] :
          kind \in {"git", "file", "bundled", "link", "workspace"}}
Entry(key, value) == [key |-> key, value |-> value]
Npmrcs ==
  {None, <<Entry(Secret, "plain"), Entry("registry", "http")>>, <<Entry(Secret, "env"), Entry("typo", "x")>>,
   <<Entry("strict-ssl", "false"), Entry("fund", "false")>>, <<Entry("registry", "not-a-url"), Entry("unsafe-perm", "true")>>,
   <<Entry("min-release-age", 3), Entry("package-lock", "false"), Entry("min-release-age", 1)>>}
Manifests ==
  {None, Project0.manifest,
   [Project0.manifest EXCEPT !.name = "q", !.version = V(1, 2, 0), !.overrides = ("b" :> Caret(V(1, 0, 0)))],
   [Project0.manifest EXCEPT !.version = None, !.ranges = (<<"peerDependencies", "z">> :> Caret(V(1, 0, 0))),
                             !.scripts = [pinned |-> [n \in {"a", "b", "g"} |-> None],
                                          bare   |-> [n \in {"a", "b", "g"} |-> "allowed"]]]}
Projects ==
  LET Varied(g, manifest, npmrc, flavor) ==
        [Project0 EXCEPT !.packages = ("g" :> g) @@ @, !.manifest = manifest, !.npmrc = npmrc, !.flavor = flavor,
                         !.orphans = {"g"}, !.unused = {<<"dependencies", "a">>},
                         !.broken = {[rule |-> "valid-structure", level |-> "warn"],
                                     [rule |-> "valid-pnpm-field", level |-> "error"]},
                         !.workspace = IF flavor = "npm" THEN None ELSE [cooldown |-> 60, blanket |-> TRUE]] IN
  {Varied(g, Project0.manifest, Project0.npmrc, "npm") : g \in Others}
  \cup {Varied(Odd, manifest, npmrc, flavor) : manifest \in Manifests, npmrc \in Npmrcs, flavor \in {"npm", "pnpm"}}
\* Version 1 has no packages map.
Formatted(project, format) ==
  IF format = 1 THEN [project EXCEPT !.format = 1, !.packages = <<>>, !.locked = None, !.orphans = {}]
  ELSE [project EXCEPT !.format = format]
RuleWaivers ==
  {<<>>, <<Exception("secure-resolved", "g", None, None, None), Exception("valid-npmrc", ".npmrc", None, None, 5)>>,
   <<Exception("no-remote-deps", "g", None, None, 9), Exception("valid-npmrc", ".npmrc", None, None, 9),
     Exception("lockfile-sync", "package.json#peerDependencies/z", None, None, 9)>>}
Ruling ==
  {[Run0 EXCEPT !.project = project, !.files = Excepting(exceptions), !.flags.rules = rules] :
     project \in Projects, exceptions \in RuleWaivers,
     rules \in {<<>>, ("valid-npmrc" :> "warn") @@ ("secure-resolved" :> "warn") @@ ("no-remote-deps" :> "error"),
                ("valid-npmrc" :> "off") @@ ("lockfile-sync" :> "off")}}
  \cup {[Run0 EXCEPT !.project = Formatted(project, format), !.command = command, !.flags.verbose = TRUE] :
          project \in {p \in Projects : p.flavor = "npm" /\ p.manifest # None}, command \in {"report", "audit"},
          format \in {1, 3}}

-------------------------------------------------------------------------------
(* Where the settings come from *)

Softer == [Trusting EXCEPT !.rules = ("valid-npmrc" :> "warn") @@ ("other-tool" :> "off"), !.count = 0, !.severity = "moderate"]
Stricter == [NoSection EXCEPT !.rules = ("secure-resolved" :> "error"), !.count = 5, !.hosts = {"corp"}]
Broken == [NoSection EXCEPT !.exceptions = <<Exception("no-such-rule", "a", None, None, None)>>]
Shareds == {None, File(Softer), [common |-> Softer, own |-> Stricter], Own(Broken), File(Broken),
            Own([Stricter EXCEPT !.rules = ("typo" :> "off")]), Own([Stricter EXCEPT !.count = -2])}
Shape(shape, file) == [shape |-> shape, common |-> file.common, own |-> file.own]
Explicits == {None, Shape("flat", Own([NoSection EXCEPT !.rules = ("secure-resolved" :> "off"), !.maxWarnings = 1])),
              Shape("shared", Own(Stricter))}
Placed == {Files(<<Dir(near, alias, git), Dir(far, None, TRUE)>>, tool, explicit) :
             near \in Shareds, alias \in {None, Own(Stricter)}, git \in BOOLEAN, far \in {None, File(Softer)},
             tool \in {None, Shape("flat", Own([NoSection EXCEPT !.rules = ("valid-npmrc" :> "off")]))},
             explicit \in Explicits}
Configuring ==
  {[Run0 EXCEPT !.files = files, !.command = command, !.flags.severity = severity,
                !.project.npmrc = <<Entry(Secret, "plain")>>,
                !.world.advisories["a"] = {Advisory("x", Everything, "moderate")}] :
     files \in Placed, command \in {"report", "audit"}, severity \in {None, "low"}}

-------------------------------------------------------------------------------
(* remediate *)

Declarations ==
  {Declares, (<<"peerDependencies", "a">> :> Caret(V(1, 0, 0))) @@ Declares,
   (<<"dependencies", "a">> :> [op |-> "other", version |-> None]) @@ Declares,
   (<<"dependencies", "b">> :> [op |-> "exact", version |-> V(1, 2, 0)])}
Latest == [World0.latest EXCEPT !["a"] = V(2, 0, 0)]
Remediating ==
  {[Run0 EXCEPT !.command = "remediate", !.world = [world EXCEPT !.latest = latest, !.deaf = deaf],
                !.project.manifest.ranges = declares, !.project.locked = locked, !.project.format = format,
                !.flags.write = how[1], !.flags.json = how[2], !.flags.deprecated = how[3]] :
     world \in {world \in Met : world.csv = "good" /\ world.installed /\ world.mismatched = {}},
     declares \in Declarations, locked \in {None, Declares},
     deaf \in {World0.deaf, [World0.deaf EXCEPT !["vuln"] = {"corp"}, !["deprecated"] = {"corp"}]},
     latest \in {Latest, [Latest EXCEPT !["a"] = None], [Latest EXCEPT !["a"] = V(1, 0, 0)]},
     format \in {3},
     how \in {<<TRUE, FALSE, TRUE>>, <<TRUE, TRUE, FALSE>>}}
  \cup {[Run0 EXCEPT !.command = "remediate", !.project = Formatted(Project0, 1)]}

MCRuns == Matching \cup Scanning \cup Ruling \cup Configuring \cup Remediating
===============================================================================
