------------------------------- MODULE AuditRules ------------------------------
(***************************************************************************)
(* The rules of `audit` (src/src/audit.js) and the checks of .npmrc they   *)
(* rest on (npmrc-validator.js): what each finds in one project.           *)
(*                                                                         *)
(* A project is a record:                                                  *)
(*   flavor      "npm" or "pnpm"                                           *)
(*   format      lockfileVersion; in a lockfile of version 1 there is no   *)
(*               packages map, and most rules find nothing                 *)
(*   packages    entry by key: [name, version, kind, hash, scheme, host,   *)
(*               script, funding]; kind is "registry" for what comes as a  *)
(*               tarball from anywhere, or "git", "file", "link",          *)
(*               "workspace", "bundled"; scheme is None without resolved   *)
(*   locked      ranges of the root entry, [op, version] by <<section,     *)
(*               name>>; or None                                           *)
(*   manifest    package.json: [name, version, ranges, overrides,          *)
(*               scripts], or None                                         *)
(*   npmrc       the entries [key, value] of .npmrc in order, or None      *)
(*   workspace   pnpm-workspace.yaml: [cooldown, blanket], or None         *)
(*   heading     [name, version] the lockfile gives the project            *)
(*   broken      what the validators of structure, manifest, workspace and *)
(*               pnpm field object to: [rule, level]                       *)
(*   orphans, unused   what pruner.js and usage-scanner.js name            *)
(***************************************************************************)
EXTENDS Advisories, TLC

\* A finding before its severity is known; forced is what the rule insists on.
\* A place is a tuple: the key of a package; or a file, "" for the lockfile, and
\* what tells the findings in it apart. Section and name come right behind the
\* file in a place within package.json.
Raw(at, forced) == [at |-> at, forced |-> forced]
Plain(places) == {Raw(at, None) : at \in places}
Keys(keys) == Plain({<<k>> : k \in keys})

\* package.json is absent: the rule says so and no more.
Skipped == {Raw(<<"package.json">>, "warn")}

\* What the rules are told by the configuration, beside their severity.
\* [trusted, remote, pinned: hosts; minVersion, minDays; allowHttp, allowSha1, allowGit, allowFile;
\*  scripts, ignored: names]

-------------------------------------------------------------------------------
(* .npmrc *)

Off == {"false", "0"}
Secret == "_authToken"

\* validateEntry: the first check that claims the entry wins.
NpmrcIssues(e, flavor) ==
  CASE e.key = Secret -> IF e.value = "env" THEN {} ELSE {"plaintext-secret"}
    [] e.key \in {"strict-ssl", "rejectunauthorized"} /\ e.value \in Off -> {"tls-off"}
    [] e.key = "unsafe-perm" /\ e.value = "true" -> {"unsafe-perm"}
    [] e.key = "registry" -> CASE e.value = "not-a-url" -> {"invalid-registry"}
                               [] e.value = "http"      -> {"insecure-registry"}
                               [] OTHER                 -> {}
    [] e.key = "package-lock" /\ flavor = "pnpm" -> {"pnpm-ignored"}
    [] e.key = "typo" /\ flavor # "pnpm" -> {"unknown-key"}
    [] OTHER -> {}

NpmrcSecurityCodes == {"plaintext-secret", "tls-off"}

NpmrcForced(code) ==
  CASE code \in NpmrcSecurityCodes  -> "error"
    [] code = "invalid-registry"    -> None
    [] OTHER                        -> "warn"

ValidNpmrc(p) ==
  IF p.npmrc = None THEN {}
  ELSE {Raw(<<".npmrc", code>>, NpmrcForced(code)) :
          code \in UNION {NpmrcIssues(p.npmrc[i], p.flavor) : i \in DOMAIN p.npmrc}}

\* Any line does.
NpmrcDisablesFund(p) ==
  p.npmrc # None /\ \E i \in DOMAIN p.npmrc : p.npmrc[i].key = "fund" /\ p.npmrc[i].value = "false"

-------------------------------------------------------------------------------
(* The packages of the lockfile *)

\* Neither the project's own folders nor a link to them.
Foreign(p) == {k \in DOMAIN p.packages : p.packages[k].kind \notin {"workspace", "link"}}

HygieneFaults(e, o) ==
  /\ e.kind # "bundled"
  /\ \/ e.hash = None /\ e.kind \notin {"git", "file"}
     \/ e.hash = "sha1" /\ ~o.allowSha1
     \/ e.hash = "placeholder"

IntegrityHygiene(p, o) == Keys({k \in Foreign(p) : HygieneFaults(p.packages[k], o)})

\* checkSpecialResolved, checkRegistryResolved: a scheme other than http and
\* https is passed.
Insecure(e, o) ==
  /\ e.scheme # None
  /\ \/ e.kind = "git" /\ ~o.allowGit
     \/ e.kind = "file" /\ ~o.allowFile
     \/ /\ e.kind \notin {"git", "file"}
        /\ \/ e.scheme = "bad"
           \/ e.scheme = "http" /\ ~o.allowHttp
           \/ e.scheme \in {"http", "https"} /\ e.host \notin o.trusted

SecureResolved(p, o) == Keys({k \in Foreign(p) : Insecure(p.packages[k], o)})

\* Tarballs over http(s) that are not git or file dependencies.
FromWeb(p) == {k \in Foreign(p) : /\ p.packages[k].kind \in {"registry", "bundled"}
                                  /\ p.packages[k].scheme \in {"http", "https"}}

NoRemoteDeps(p, o) == Keys({k \in FromWeb(p) : p.packages[k].host \notin o.remote})

\* Unconfigured is off.
ResolvedRegistryPin(p, o) ==
  Keys({k \in FromWeb(p) : o.pinned # {} /\ p.packages[k].host \notin o.pinned})

NoGitDeps(p) == Keys({k \in Foreign(p) : p.packages[k].kind = "git"})

\* resolveScriptApproval: the entry for name@version comes before the one for
\* name; manifest.scripts is None or has the verdict of either by name.
ScriptApproval(p, e) ==
  LET scripts == IF p.manifest = None THEN None ELSE p.manifest.scripts IN
  IF scripts = None THEN "pending"
  ELSE IF scripts.pinned[e.name] # None THEN scripts.pinned[e.name] ELSE scripts.bare[e.name]

ScriptsBlocked(p, o) ==
  {k \in Foreign(p) : LET e == p.packages[k] IN
     e.script /\ e.name \notin o.scripts /\ ScriptApproval(p, e) # "allowed"}

InstallScripts(p, o) == Keys(ScriptsBlocked(p, o))

NoFund(p) ==
  IF (\E k \in Foreign(p) : p.packages[k].funding) /\ ~NpmrcDisablesFund(p)
  THEN Plain({<<".npmrc">>}) ELSE {}

-------------------------------------------------------------------------------
(* package.json beside the lockfile *)

Floating(range) == range.op \in {"caret", "tilde"}
PinnedSections == {"dependencies", "devDependencies", "optionalDependencies"}

PinnedVersions(p, o) ==
  IF p.manifest = None THEN Skipped ELSE
  Plain(
    {<<"package.json">> \o d : d \in {d \in DOMAIN p.manifest.ranges :
       /\ d[1] \in PinnedSections
       /\ d[2] \notin o.ignored
       /\ Floating(p.manifest.ranges[d])}}
    \cup {<<"package.json", "overrides", n>> : n \in {n \in DOMAIN p.manifest.overrides :
            n \notin o.ignored /\ Floating(p.manifest.overrides[n])}})

\* checkSectionSync: both directions, and the packages map; peers need not be
\* installed. A package at the top has its name as key.
OutOfSync(p) ==
  LET declared == p.manifest.ranges
      locked == p.locked
      both == DOMAIN declared \cap DOMAIN locked IN
  {<<"package.json">> \o d : d \in (DOMAIN declared \ DOMAIN locked) \cup {d \in both : declared[d] # locked[d]}}
  \cup {<<"package.json">> \o d \o <<"not installed">> : d \in {d \in DOMAIN declared :
          d[1] # "peerDependencies" /\ d[2] \notin DOMAIN p.packages}}
  \cup {<<"package-lock.json">> \o d : d \in DOMAIN locked \ DOMAIN declared}

\* checkRootMetadataSync: where both files say it.
OffHeading(p) ==
  {field \in {"name", "version"} : /\ None \notin {p.manifest[field], p.heading[field]}
                                   /\ p.manifest[field] # p.heading[field]}

LockfileSync(p) ==
  IF p.manifest = None THEN Skipped ELSE
  Plain({<<"", field>> : field \in OffHeading(p)}
        \cup IF p.locked = None THEN {} ELSE OutOfSync(p))

UnusedDependencies(p) == IF p.manifest = None THEN Skipped ELSE Plain({<<"package.json">> \o d : d \in p.unused})

\* npmCooldownDays: npm's last entry decides, -1 being one that is no number.
LastAge(p) ==
  {p.npmrc[i].value : i \in {i \in DOMAIN p.npmrc :
     /\ p.npmrc[i].key = "min-release-age"
     /\ \A j \in DOMAIN p.npmrc : p.npmrc[j].key = "min-release-age" => j <= i}}

\* npm states the cooldown in days, pnpm in minutes.
MinutesPerDay == 1440
CooldownShort(p, o) ==
  IF p.flavor = "pnpm"
  THEN \/ p.workspace = None \/ p.workspace.cooldown = None
       \/ p.workspace.cooldown < o.minDays * MinutesPerDay
  ELSE p.npmrc = None \/ ~\E days \in LastAge(p) : days >= o.minDays

MinReleaseAge(p, o) ==
  LET file == IF p.flavor = "pnpm" THEN "pnpm-workspace.yaml" ELSE ".npmrc" IN
  Plain((IF CooldownShort(p, o) THEN {<<file>>} ELSE {})
        \cup IF p.flavor = "pnpm" /\ p.workspace # None /\ p.workspace.blanket THEN {<<file, "blanket">>} ELSE {})

\* A validator of its own judges these; an error takes the rule's severity.
JudgedFile(rule) ==
  CASE rule = "valid-structure"      -> ""
    [] rule = "valid-pnpm-workspace" -> "pnpm-workspace.yaml"
    [] OTHER                         -> "package.json"

Objections(p, rule) ==
  {Raw(<<JudgedFile(rule), b.level>>, IF b.level = "warn" THEN "warn" ELSE None) : b \in {b \in p.broken : b.rule = rule}}

-------------------------------------------------------------------------------
(* The table of rules *)

WarningRules == {"install-scripts", "no-git-deps", "no-remote-deps", "min-release-age",
                 "no-orphan-packages", "unused-dependencies", "no-fund", "valid-npmrc"}

Rules == {"lockfile-version", "valid-structure", "valid-package-json", "integrity-hygiene",
          "secure-resolved", "resolved-registry-pin", "pinned-versions", "lockfile-sync",
          "valid-pnpm-workspace", "valid-pnpm-field"} \cup WarningRules

DefaultSeverity == [r \in Rules |-> IF r \in WarningRules THEN "warn" ELSE "error"]

Flavors(rule) ==
  CASE rule \in {"valid-package-json", "pinned-versions", "valid-npmrc", "min-release-age"} ->
         {"npm", "pnpm"}
    [] rule \in {"valid-pnpm-workspace", "valid-pnpm-field"} -> {"pnpm"}
    [] OTHER -> {"npm"}

RuleCheck(rule, p, o) ==
  CASE rule = "lockfile-version"      -> IF p.format < o.minVersion THEN Plain({<<"">>}) ELSE {}
    [] rule = "valid-package-json"    -> IF p.manifest = None THEN Skipped ELSE Objections(p, rule)
    [] rule = "integrity-hygiene"     -> IntegrityHygiene(p, o)
    [] rule = "secure-resolved"       -> SecureResolved(p, o)
    [] rule = "install-scripts"       -> InstallScripts(p, o)
    [] rule = "no-git-deps"           -> NoGitDeps(p)
    [] rule = "no-remote-deps"        -> NoRemoteDeps(p, o)
    [] rule = "resolved-registry-pin" -> ResolvedRegistryPin(p, o)
    [] rule = "pinned-versions"       -> PinnedVersions(p, o)
    [] rule = "lockfile-sync"         -> LockfileSync(p)
    [] rule = "no-orphan-packages"    -> Keys(p.orphans)
    [] rule = "unused-dependencies"   -> UnusedDependencies(p)
    [] rule = "no-fund"               -> NoFund(p)
    [] rule = "valid-npmrc"           -> ValidNpmrc(p)
    [] rule = "min-release-age"       -> MinReleaseAge(p, o)
    [] OTHER                          -> Objections(p, rule)
================================================================================
