------------------------------ MODULE AuditConfig ------------------------------
(***************************************************************************)
(* Where the settings of `audit` and `report` come from                    *)
(* (src/src/audit-config.js, the flags of src/bin/cli.js), and the         *)
(* exceptions of .dependably (src/src/exceptions.js).                      *)
(*                                                                         *)
(* A section is [rules, maxWarnings, severity, count, exceptions, hosts],  *)
(* rules a function or None; severity and count are its failOn. A config   *)
(* file is a pair of sections, common and own. An exception is             *)
(* [rule, package, version, id, path, expires], each but the rule may be   *)
(* None; path stands for a selector no finding of this tool carries.       *)
(***************************************************************************)
EXTENDS AuditRules

Invalid == None  \* no configuration: the run ends with exit code 2 before it checks anything

NoSection == [rules |-> None, maxWarnings |-> None, severity |-> None, count |-> None,
              exceptions |-> <<>>, hosts |-> {}]

Or(a, b) == IF a # None THEN a ELSE b

-------------------------------------------------------------------------------
(* Exceptions *)

\* Found by the scans of `report`; an integrity mismatch has no rule here.
ScanRules == {"vulnerable-package", "deprecated-package", "unresolved-package"}

\* Mutant: the date is not looked at.
IsExpiredNever(ex, today) == FALSE

\* isExpired: midnight (UTC) of that day has passed, so on the day itself too.
IsExpired(ex, today) == ex.expires # None /\ ex.expires <= today

\* A probe is [rule, package, version, id]; all selectors must match.
MatchException(ex, probe) ==
  /\ ex.rule = probe.rule
  /\ ex.package # None => ex.package = probe.package /\ ex.version \in {None, probe.version}
  /\ ex.path = None
  /\ ex.id \in {None, probe.id}

\* validateExceptionSelectors, validateExceptionRule: strict in the own section.
OwnExceptionValid(ex) == ex.path = None /\ ex.rule \in Rules \cup ScanRules

-------------------------------------------------------------------------------
(* The files *)

\* findSharedConfig: from the working directory up to the repository root; of
\* two files in one directory the canonical one.
FindSharedConfig(dirs) ==
  LET has(i) == dirs[i].canonical # None \/ dirs[i].deprecated # None
      hits == {i \in DOMAIN dirs : has(i) /\ \A j \in 1..(i - 1) : ~has(j) /\ ~dirs[j].git} IN
  IF hits = {} THEN None
  ELSE LET d == dirs[Min(hits)] IN Or(d.canonical, d.deprecated)

\* Rules of `common` that this tool does not know belong to another one.
MergeRuleMaps(common, own) ==
  IF common = None /\ own = None THEN None
  ELSE (IF own = None THEN <<>> ELSE own)
       @@ IF common = None THEN <<>> ELSE [r \in DOMAIN common \cap Rules |-> common[r]]

ResolveToolSection(file) ==
  [rules       |-> MergeRuleMaps(file.common.rules, file.own.rules),
   maxWarnings |-> Or(file.own.maxWarnings, file.common.maxWarnings),
   severity    |-> Or(file.own.severity, file.common.severity),
   count       |-> Or(file.own.count, file.common.count),
   exceptions  |-> file.common.exceptions \o file.own.exceptions,
   hosts       |-> file.common.hosts \cup file.own.hosts]

FileValid(file) == \A i \in DOMAIN file.own.exceptions : OwnExceptionValid(file.own.exceptions[i])

\* mergeConfig: the tool's rules replace the shared ones as a whole.
MergeConfig(user) == (IF user = None THEN <<>> ELSE user) @@ DefaultSeverity

\* Options that no file of the model sets; the shared hosts are added to two.
DefaultHosts == {"npmjs"}
RuleOptions(hosts, pinned) ==
  [trusted |-> DefaultHosts \cup hosts, remote |-> DefaultHosts \cup {"github"} \cup hosts,
   pinned |-> pinned, minVersion |-> 3, minDays |-> 3, allowHttp |-> FALSE, allowSha1 |-> FALSE,
   allowGit |-> TRUE, allowFile |-> TRUE, scripts |-> {}, ignored |-> {}]

\* loadAuditConfig. files: [dirs, tool, explicit]; tool is .npm-checkrc.json,
\* explicit the file of --config, each None or [shape, common, own]; a flat
\* file has its settings in own and only rules and maxWarnings of them count.
LoadAuditConfig(files) ==
  LET found == FindSharedConfig(files.dirs)
      shared == IF found = None THEN NoSection ELSE ResolveToolSection(found)
      given == Or(files.explicit, files.tool)
      sectioned == files.explicit # None /\ files.explicit.shape = "shared"
      tool == CASE given = None -> NoSection
                [] sectioned    -> ResolveToolSection(given)
                [] OTHER        -> [NoSection EXCEPT !.rules = given.own.rules,
                                                     !.maxWarnings = given.own.maxWarnings]
      gate == IF sectioned THEN tool ELSE shared
      user == Or(tool.rules, shared.rules)
      set == Or(tool.maxWarnings, shared.maxWarnings) IN
  IF \/ found # None /\ ~FileValid(found)
     \/ sectioned /\ ~FileValid(given)
     \/ user # None /\ ~(DOMAIN user \subseteq Rules)
     \/ gate.count # None /\ set = None /\ gate.count < 0
  THEN Invalid
  ELSE [rules          |-> MergeConfig(user),
        options        |-> RuleOptions(shared.hosts \cup tool.hosts, {}),
        maxWarnings    |-> Or(Or(set, gate.count), -1),
        failOnSeverity |-> gate.severity,
        exceptions     |-> gate.exceptions]

-------------------------------------------------------------------------------
(* The flags *)

\* applyRuleOverrides: --rule <id>:<severity>; the options stay.
ApplyRuleOverrides(config, overrides) ==
  IF config = Invalid \/ ~(DOMAIN overrides \subseteq Rules) THEN Invalid
  ELSE [config EXCEPT !.rules = overrides @@ config.rules]

\* applyMaxWarnings: --fail-on count= comes before --max-warnings and --strict.
ApplyMaxWarnings(config, flags) ==
  IF config = Invalid THEN Invalid
  ELSE [config EXCEPT !.maxWarnings =
          Or(flags.count, Or(flags.maxWarnings, IF flags.strict THEN 0 ELSE config.maxWarnings))]

\* resolveSeverityGate
SeverityGate(flags) == Or(flags.severity, Or(flags.minSeverity, "high"))

\* assertFailOnSupported: audit knows no severity, and says so.
FailOnSupported(command, flags) == command = "audit" => flags.severity = None

Configured(files, flags) ==
  ApplyMaxWarnings(ApplyRuleOverrides(LoadAuditConfig(files), flags.rules), flags)
================================================================================
