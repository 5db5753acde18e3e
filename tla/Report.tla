--------------------------------- MODULE Report --------------------------------
(***************************************************************************)
(* One run of `report` or `audit` (src/src/report.js, the end of audit.js, *)
(* src/bin/cli.js): the settings are resolved, the rules run, each scan    *)
(* adds what it found, exceptions take findings out, and what is left      *)
(* decides the exit code. One action per stage, in the order of            *)
(* runReport; the stages wait for the registry, but nothing else changes   *)
(* their findings meanwhile.                                               *)
(*                                                                         *)
(* A run is asked for by [command, project, files, flags, world, today].   *)
(* world is what the scans meet:                                           *)
(*   mismatched, deprecated   keys of packages                             *)
(*   deaf         by scan, the registries that do not answer it            *)
(*   advisories   by package name                                          *)
(*   installed    node_modules is there; csv: the approved licenses, "bad" *)
(*                when they cannot be read; license: by key                *)
(***************************************************************************)
EXTENDS AuditConfig

CONSTANT Runs  \* the runs tried

\* splitPackageSelector: a version stands behind the name of its package.
ExceptionShape(ex) == ex.expires \in Int \cup {None} /\ (ex.version # None => ex.package # None)
SectionShape(section) ==
  LET exceptions == section.exceptions IN
  /\ exceptions \in Seq({exceptions[i] : i \in DOMAIN exceptions})
  /\ \A i \in DOMAIN exceptions : ExceptionShape(exceptions[i])
FileShape(file) == file # None => SectionShape(file.common) /\ SectionShape(file.own)

FilesShape(files) ==
  /\ DOMAIN files.dirs \subseteq Nat
  /\ \A i \in DOMAIN files.dirs : FileShape(files.dirs[i].canonical) /\ FileShape(files.dirs[i].deprecated)
  /\ FileShape(files.explicit)

JudgedFiles == {"", ".npmrc", "package.json", "package-lock.json", "pnpm-workspace.yaml"}

\* A key of packages is no file; remediate has read package.json.
ProjectShape(command, p) ==
  /\ p.flavor \in {"npm", "pnpm"}
  /\ IsFiniteSet(DOMAIN p.packages) /\ JudgedFiles \cap DOMAIN p.packages = {}
  /\ p.format = 1 => DOMAIN p.packages = {} /\ p.locked = None
  /\ \A k \in Candidates(p.packages) : p.packages[k].version \in Version
  /\ p.locked # None => IsFiniteSet(DOMAIN p.locked)
  /\ p.manifest # None =>
       /\ IsFiniteSet(DOMAIN p.manifest.ranges) /\ IsFiniteSet(DOMAIN p.manifest.overrides)
       /\ \A d \in DOMAIN p.manifest.ranges : DOMAIN p.manifest.ranges[d] = {"op", "version"}
  /\ command = "remediate" => p.manifest # None
  /\ IsFiniteSet(p.broken) /\ IsFiniteSet(p.orphans) /\ IsFiniteSet(p.unused)

\* A registry gives each of its advisories an id of its own, if any.
AdvisoriesShape(advisories) ==
  /\ IsFiniteSet(advisories)
  /\ \A a \in advisories :
       /\ a.severity \in {Levels[i] : i \in DOMAIN Levels} \cup {Unknown}
       /\ a.range # None => \A term \in a.range : term \subseteq Comparator
  /\ \A a, b \in advisories : a.id = b.id /\ a.id # None => a = b

\* What every run is, for any project, world, files and flags.
RunShape(r) ==
  /\ r.command \in {"report", "audit", "remediate"}
  /\ ProjectShape(r.command, r.project)
  /\ FilesShape(r.files)
  /\ {r.flags.severity, r.flags.minSeverity} \subseteq {Levels[i] : i \in DOMAIN Levels} \cup {None}
  /\ \A k \in Candidates(r.project.packages) : AdvisoriesShape(r.world.advisories[r.project.packages[k].name])
  /\ r.world.csv \in {None, "bad", "good"}
  /\ r.today \in Int

ASSUME RunsAssumption == None \notin {"error", "http"} /\ \A r \in Runs : RunShape(r)

VARIABLES
  run,         \* what was asked for
  pc,          \* the stage that is next
  config,      \* the settings in force
  buckets,     \* findings by section
  suppressed,  \* [finding, by]: taken out by the exception of that index
  licenses,    \* how the license stage ended: "checked", "failed", "skipped"
  status,      \* of each section, once assembled
  exit         \* the exit code

rvars == <<run, pc, config, buckets, suppressed, licenses, status, exit>>

\* RULE_SECTION, SECTIONS
RuleSection ==
  [r \in Rules |->
     CASE r \in {"lockfile-version", "valid-structure", "lockfile-sync"} -> "structure"
       [] r = "valid-package-json"    -> "package-json"
       [] r = "valid-npmrc"           -> "npmrc"
       [] r = "integrity-hygiene"     -> "integrity"
       [] r = "secure-resolved"       -> "resolved"
       [] r = "install-scripts"       -> "install-scripts"
       [] r = "no-git-deps"           -> "git"
       [] r = "no-remote-deps"        -> "remote"
       [] r = "resolved-registry-pin" -> "registry-pin"
       [] r = "pinned-versions"       -> "pinned"
       [] r = "no-orphan-packages"    -> "orphans"
       [] r = "unused-dependencies"   -> "unused"
       [] r = "no-fund"               -> "fund"
       [] r = "min-release-age"       -> "release-age"
       [] r \in {"valid-pnpm-workspace", "valid-pnpm-field"} -> "pnpm-config"]

Sections == {RuleSection[r] : r \in Rules} \cup {"vuln", "deprecated", "unresolved", "licenses"}

Finding(at, severity) ==
  [at |-> at, severity |-> severity, rule |-> None, check |-> None, name |-> None,
   version |-> None, id |-> None, ladder |-> None]

OfPackage(k, severity) ==
  [Finding(<<k>>, severity) EXCEPT !.name = run.project.packages[k].name,
                                   !.version = run.project.packages[k].version]

Packages == run.project.packages
Scanned == Candidates(Packages)
Add(section, found) == buckets' = [buckets EXCEPT ![section] = @ \cup found]
To(stage) == pc' = stage
Stop(code) == pc' = "end" /\ exit' = code

\* Stages whose registry calls reject on a version 1 lockfile.
NeedsPackagesMap == run.project.format = 1

-------------------------------------------------------------------------------
(* The settings, and the rules *)

Configure ==
  /\ pc \in {"report", "audit"}
  /\ config' = Configured(run.files, run.flags)
  /\ IF FailOnSupported(run.command, run.flags) /\ config' # Invalid
     THEN To("rules") /\ UNCHANGED exit
     ELSE Stop(2)
  /\ UNCHANGED <<run, buckets, suppressed, licenses, status>>

\* collectRuleFindings
RuleFindings(rule) ==
  {[Finding(raw.at, Or(raw.forced, config.rules[rule])) EXCEPT !.rule = rule] :
     raw \in RuleCheck(rule, run.project, config.options)}

RulesOn == {r \in Rules : run.project.flavor \in Flavors(r) /\ config.rules[r] # "off"}

\* deriveFindingPackage: the name behind the last node_modules/, or else the
\* place as it is written, if anything is.
Written(at) ==
  IF at[1] = "" THEN None ELSE IF Len(at) < 3 THEN at[1] ELSE at[1] \o "#" \o at[2] \o "/" \o at[3]

FindingPackage(f) ==
  IF f.at[1] \in DOMAIN Packages THEN Packages[f.at[1]].name ELSE Written(f.at)

\* No finding of a rule has a version or an id.
AuditProbes(f) == {[rule |-> f.rule, package |-> FindingPackage(f), version |-> None, id |-> None]}

\* The first live exception that matches, or 0.
Waiver(probes) ==
  LET hits == {i \in DOMAIN config.exceptions :
                 /\ ~IsExpired(config.exceptions[i], run.today)
                 /\ \E probe \in probes : MatchException(config.exceptions[i], probe)} IN
  IF hits = {} THEN 0 ELSE Min(hits)

\* runAudit, applyAuditExceptions, bucketAuditFindings
Audit ==
  /\ pc = "rules"
  /\ LET raw == UNION {RuleFindings(r) : r \in RulesOn}
         kept == {f \in raw : Waiver(AuditProbes(f)) = 0} IN
     /\ buckets' = [s \in Sections |-> {f \in kept : RuleSection[f.rule] = s}]
     /\ suppressed' = {[finding |-> f, by |-> Waiver(AuditProbes(f))] : f \in raw \ kept}
  /\ To(IF run.command = "audit" THEN "gate" ELSE "dedupe")
  /\ UNCHANGED <<run, config, licenses, status, exit>>

Worst(found) == IF \E f \in found : f.severity = "error" THEN "error" ELSE "warn"

\* dedupeRemoteFindings: a package both sections name is one cause; those left
\* out of `remote` are there as one finding per host, of the worst severity.
Twice == {f \in buckets["remote"] : \E g \in buckets["resolved"] : g.at = f.at}
HostOf(f) == Packages[f.at[1]].host

\* Mutant: the group keeps the severity of a warning.
GroupedAsWarnings(twice) == {Finding(<<"host", h>>, "warn") : h \in {HostOf(f) : f \in twice}}

Grouped(twice) ==
  {Finding(<<"host", h>>, Worst({f \in twice : HostOf(f) = h})) : h \in {HostOf(f) : f \in twice}}

Dedupe ==
  /\ pc = "dedupe"
  /\ IF run.flags.verbose THEN UNCHANGED buckets
     ELSE buckets' = [buckets EXCEPT !["remote"] = (@ \ Twice) \cup Grouped(Twice)]
  /\ To("integrity")
  /\ UNCHANGED <<run, config, suppressed, licenses, status, exit>>

-------------------------------------------------------------------------------
(* The scans *)

\* What a scan could not check: an error unless --allow-unresolved.
Gaps(check) == {k \in Scanned : Packages[k].host \in run.world.deaf[check]}
Unresolved(check) ==
  {[OfPackage(k, IF run.flags.allowUnresolved THEN "warn" ELSE "error") EXCEPT !.check = check] :
     k \in Gaps(check)}

\* A stage that is switched off adds nothing; one that rejects ends the run.
Scan(check, section, found, next) ==
  /\ IF run.flags[check] /\ NeedsPackagesMap
     THEN Stop(2) /\ UNCHANGED buckets
     ELSE /\ To(next) /\ UNCHANGED exit
          /\ IF ~run.flags[check] THEN UNCHANGED buckets
             ELSE buckets' = [buckets EXCEPT ![section] = @ \cup found,
                                             !["unresolved"] = @ \cup Unresolved(check)]
  /\ UNCHANGED <<run, config, suppressed, licenses, status>>

\* collectIntegrityFindings: errors that are not gaps.
Mismatches == {OfPackage(k, "error") : k \in (run.world.mismatched \cap Scanned) \ Gaps("integrity")}

Integrity == pc = "integrity" /\ Scan("integrity", "integrity", Mismatches, "vuln")

\* collectVulnFindings: an error that carries a reason is a gap, and an
\* advisory without an id is an error like any other.
Vulnerabilities ==
  {[OfPackage(v.at, v.severity) EXCEPT !.id = v.id, !.ladder = v.advisorySeverity] :
     v \in VulnFindings(Packages, run.world.advisories, run.world.deaf["vuln"],
                        SeverityGate(run.flags))}

Vuln == pc = "vuln" /\ Scan("vuln", "vuln", Vulnerabilities, "deprecated")

Deprecations ==
  {OfPackage(k, IF run.flags.failOnDeprecated THEN "error" ELSE "warn") :
     k \in (run.world.deprecated \cap Scanned) \ Gaps("deprecated")}

Deprecation ==
  pc = "deprecated" /\ Scan("deprecated", "deprecated", Deprecations,
                            IF run.project.flavor = "pnpm" THEN "exceptions" ELSE "license")

\* verifyPackageLicense, classifyLicenseResult, collectLicenseFindings
LicenseFindings ==
  {OfPackage(k, IF run.world.license[k] = "rejected" \/ run.flags.strict THEN "error" ELSE "warn") :
     k \in {k \in Foreign(run.project) : run.world.license[k] # "approved"}}

\* runLicenseStage: a check that fails is a finding, not a skip.
License ==
  /\ pc = "license"
  /\ LET wanted == run.flags.license /\ run.world.installed /\ run.world.csv # None
         fails == run.world.csv = "bad" \/ NeedsPackagesMap IN
     \/ ~wanted /\ licenses' = "skipped" /\ UNCHANGED buckets
     \/ wanted /\ fails /\ licenses' = "failed" /\ Add("licenses", {Finding(<<"csv">>, "error")})
     \/ wanted /\ ~fails /\ licenses' = "checked" /\ Add("licenses", LicenseFindings)
  /\ To("exceptions")
  /\ UNCHANGED <<run, config, suppressed, status, exit>>

-------------------------------------------------------------------------------
(* Exceptions of the scans, and the exit code *)

ScanExceptionRule ==
  [s \in {"vuln", "deprecated", "unresolved"} |->
     CASE s = "vuln"       -> "vulnerable-package"
       [] s = "deprecated" -> "deprecated-package"
       [] s = "unresolved" -> "unresolved-package"]

\* scanExceptionProbes: the id of a gap is the scan that has it.
ScanProbes(section, f) ==
  {[rule |-> ScanExceptionRule[section], package |-> f.name, version |-> f.version,
    id |-> IF section = "unresolved" THEN f.check ELSE f.id]}

Waived(section) == {f \in buckets[section] : Waiver(ScanProbes(section, f)) # 0}

ApplyScanExceptions ==
  /\ pc = "exceptions"
  /\ buckets' = [s \in Sections |->
       IF s \in DOMAIN ScanExceptionRule THEN buckets[s] \ Waived(s) ELSE buckets[s]]
  /\ suppressed' = suppressed \cup UNION {
       {[finding |-> f, by |-> Waiver(ScanProbes(s, f))] : f \in Waived(s)} :
       s \in DOMAIN ScanExceptionRule}
  /\ To("gate")
  /\ UNCHANGED <<run, config, licenses, status, exit>>

All == UNION {buckets[s] : s \in Sections}

\* SEVERITY_RANK of report.js: what is not on the ladder ranks lowest.
LadderRank(f) ==
  CASE f.ladder = Unknown -> 1
    [] f.ladder \notin {None, Unknown} -> SeverityRank(f.ladder)
    [] f.ladder = None    -> SeverityRank(IF f.severity = "error" THEN "high" ELSE "low")

\* Over all sections; one finding may be in two of them.
Count(severity) ==
  Cardinality(UNION {{<<s, f>> : f \in {f \in buckets[s] : f.severity = severity}} : s \in Sections})

WithinBudget == config.maxWarnings < 0 \/ Count("warn") <= config.maxWarnings

GateTripped ==
  run.command = "report"
    /\ \E f \in All : LadderRank(f) >= SeverityRank(SeverityGate(run.flags))

\* PNPM_LIVE_SECTIONS, NPM_NA_SECTIONS, SECTION_DESCRIBERS
PnpmLive == {"integrity", "vuln", "deprecated", "package-json", "npmrc", "pnpm-config", "pinned",
             "unresolved", "release-age"}

Skips(section) ==
  \/ run.project.flavor = "pnpm" /\ section \notin PnpmLive
  \/ run.project.flavor = "npm" /\ section = "pnpm-config"
  \/ section \in {"vuln", "deprecated"} /\ ~run.flags[section]
  \/ section = "integrity" /\ ~run.flags["integrity"] /\ buckets[section] = {}
  \/ /\ section \in {"integrity", "vuln", "deprecated"}
     /\ Scanned = {} /\ DOMAIN Packages # {} /\ buckets[section] = {}
  \/ section = "licenses" /\ licenses = "skipped"

\* assembleSections, describeSection; and the end of runAudit.
Assemble ==
  /\ pc = "gate"
  /\ status' = [s \in Sections |-> IF Skips(s) THEN "skip"
                                   ELSE IF buckets[s] = {} THEN "pass" ELSE Worst(buckets[s])]
  /\ Stop(IF Count("error") = 0 /\ WithinBudget /\ ~GateTripped THEN 0 ELSE 1)
  /\ UNCHANGED <<run, config, buckets, suppressed, licenses>>

-------------------------------------------------------------------------------
ReportInit ==
  /\ run \in Runs
  /\ pc = run.command
  /\ config = None
  /\ buckets = [s \in Sections |-> {}]
  /\ suppressed = {}
  /\ licenses = "skipped"
  /\ status = None
  /\ exit = None

ReportNext ==
  \/ Configure \/ Audit \/ Dedupe \/ Integrity \/ Vuln \/ Deprecation \/ License
  \/ ApplyScanExceptions \/ Assemble
================================================================================
