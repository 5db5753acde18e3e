------------------------------- MODULE Remediation ------------------------------
(***************************************************************************)
(* The three commands that judge a whole project: `report` and `audit`     *)
(* (Report), and `remediate` (src/src/remediate.js), which rewrites the    *)
(* ranges of what the scans name, one name after the other, asks the       *)
(* registry for the latest version of each, and writes both files at the   *)
(* end. The properties of a run of any of the three are stated here.       *)
(*                                                                         *)
(* For remediate, run.flags has write and json beside the rest, deprecated *)
(* is off with --no-deprecated, and run.world.latest gives the latest      *)
(* version by name: None if the registry has none, or does not answer.     *)
(***************************************************************************)
EXTENDS Report

VARIABLES
  flagged,  \* reasons by name
  plan,     \* outcomes: [name, did, section, from, to]
  disk      \* what the two files declare: [manifest, locked]

pvars == <<flagged, plan, disk>>
vars == <<rvars, pvars>>

Declared == run.project.manifest.ranges

-------------------------------------------------------------------------------
(* remediate *)

\* gatherFlagged: gaps are no findings here, and an advisory without an id
\* flags nothing.
Reasons(name) ==
  {r \in {"deprecated", "vulnerable"} :
     \/ /\ r = "deprecated" /\ run.flags["deprecated"]
        /\ \E k \in (run.world.deprecated \cap Scanned) \ Gaps("deprecated") : Packages[k].name = name
     \/ /\ r = "vulnerable"
        /\ \E f \in Vulnerabilities : f.severity = "error" /\ f.id # None /\ f.name = name}

Flagged == LET names == {Packages[k].name : k \in Scanned} IN
           [n \in {n \in names : Reasons(n) # {}} |-> Reasons(n)]

\* remediateDependencies; assertValidInputs refuses version 1.
Gather ==
  /\ pc = "remediate"
  /\ IF run.project.format = 1 THEN Stop(2) /\ UNCHANGED flagged
     ELSE To("bump") /\ flagged' = Flagged /\ UNCHANGED exit
  /\ UNCHANGED <<run, config, buckets, suppressed, licenses, status, plan, disk>>

\* DEP_SECTIONS, in the order they are searched.
DepSections == <<"dependencies", "devDependencies", "optionalDependencies", "peerDependencies">>

\* indexDirectDeps: the first section that declares a name, if any does.
DeclaredIn(name) ==
  {DepSections[i] : i \in {i \in DOMAIN DepSections :
     /\ <<DepSections[i], name>> \in DOMAIN Declared
     /\ \A j \in 1..(i - 1) : <<DepSections[j], name>> \notin DOMAIN Declared}}

\* topLevelVersions: a package at the top has its name as key.
Installed(name) == IF name \in DOMAIN Packages THEN Packages[name].version ELSE None

Outcome(name, did, section, from, to) ==
  [name |-> name, did |-> did, section |-> section, from |-> from, to |-> to]

\* rewriteRange: the operator stays.
RewriteRange(range, version) == [range EXCEPT !.version = version]

\* processFlagged for a name that package.json declares in section.
Judge(name, section) ==
  LET range == Declared[<<section, name>>]
      latest == run.world.latest[name]
      did == IF range.op \notin {"exact", "caret", "tilde"} THEN "skipped"
             ELSE IF latest = None THEN "warned"
             ELSE IF latest \in {Installed(name), range.version} THEN "guided" ELSE "bumped" IN
  Outcome(name, did, section, range, IF did = "bumped" THEN RewriteRange(range, latest) ELSE range)

ProcessFlagged(name) ==
  /\ pc = "bump"
  /\ name \in DOMAIN flagged \ {o.name : o \in plan}
  /\ plan' = plan \cup IF DeclaredIn(name) = {} THEN {Outcome(name, "guided", None, None, None)}
                       ELSE {Judge(name, section) : section \in DeclaredIn(name)}
  /\ UNCHANGED <<rvars, flagged, disk>>

Bumps == {o \in plan : o.did = "bumped"}

\* Ranges with the bumps in them; those a file does not declare are passed over.
Bumped(ranges) ==
  [d \in DOMAIN ranges |->
     IF \E o \in Bumps : <<o.section, o.name>> = d
     THEN (CHOOSE o \in Bumps : <<o.section, o.name>> = d).to ELSE ranges[d]]

\* Mutant: the root entry of the lockfile is left as it was.
LockfileUntouched == [manifest |-> Bumped(disk.manifest), locked |-> disk.locked]

\* applyBumps
ApplyBumps ==
  [manifest |-> Bumped(disk.manifest),
   locked   |-> IF disk.locked = None THEN None ELSE Bumped(disk.locked)]

\* runRemediateCommand: JSON is printed instead of writing.
Conclude ==
  /\ pc = "bump"
  /\ DOMAIN flagged = {o.name : o \in plan}
  /\ disk' = IF run.flags.write /\ ~run.flags.json /\ Bumps # {} THEN ApplyBumps ELSE disk
  /\ Stop(0)
  /\ UNCHANGED <<run, config, buckets, suppressed, licenses, status, flagged, plan>>

-------------------------------------------------------------------------------

Init ==
  /\ ReportInit
  /\ flagged = <<>>
  /\ plan = {}
  /\ disk = [manifest |-> IF run.project.manifest = None THEN <<>> ELSE Declared,
             locked   |-> run.project.locked]

Done == pc = "end" /\ UNCHANGED vars

Next ==
  \/ ReportNext /\ UNCHANGED pvars
  \/ Gather \/ Conclude \/ Done
  \/ \E name \in DOMAIN flagged : ProcessFlagged(name)

Spec == Init /\ [][Next]_vars

-------------------------------------------------------------------------------
(* Properties *)

Judged == pc = "end" /\ status # None

\* In force on that day, and about that package; own words for exceptions.js.
Excused(rule, name, version, id) ==
  \E i \in DOMAIN config.exceptions : LET ex == config.exceptions[i] IN
    /\ ex.rule = rule /\ (ex.expires = None \/ ex.expires > run.today) /\ ex.path = None
    /\ ex.package \in {None, name} /\ ex.version \in {None, version} /\ ex.id \in {None, id}

Answering(check) == {k \in Scanned : run.flags[check] /\ Packages[k].host \notin run.world.deaf[check]}

Affected(k, a) ==
  \/ Cardinality(VersionsAsked(Packages, k)) = 1
  \/ a.range # None /\ Within(Packages[k].version, a.range)

Serious(a) == a.severity = Unknown \/ SeverityRank(a.severity) >= SeverityRank(SeverityGate(run.flags))

\* A run of report ends with 0 only if no scan that was asked for has met a
\* mismatch, a gap, an advisory at the gate or a license that is not approved,
\* but for what an exception in force names; no exception can name a mismatch.
ScansEarnIt ==
  /\ Answering("integrity") \cap run.world.mismatched = {}
  /\ \A check \in {"integrity", "vuln", "deprecated"} : \A k \in Scanned \ Answering(check) :
       run.flags[check] /\ ~run.flags.allowUnresolved =>
         Excused("unresolved-package", Packages[k].name, Packages[k].version, check)
  /\ \A k \in Answering("vuln") : \A a \in run.world.advisories[Packages[k].name] :
       Affected(k, a) /\ Serious(a) =>
         Excused("vulnerable-package", Packages[k].name, Packages[k].version, a.id)
  /\ \A k \in Answering("deprecated") \cap run.world.deprecated :
       run.flags.failOnDeprecated =>
         Excused("deprecated-package", Packages[k].name, Packages[k].version, None)
  /\ run.flags["license"] /\ run.project.flavor = "npm" /\ run.world.installed /\ run.world.csv # None =>
       run.world.csv = "good" /\ \A k \in Foreign(run.project) : run.world.license[k] # "rejected"

\* The same for two rules: a secret in .npmrc or TLS turned off fails whatever
\* severity the rule is given, a tarball over plain http as long as it is an
\* error; a rule that is off is not asked.
RulesEarnIt ==
  /\ config.rules["valid-npmrc"] # "off" /\ run.project.npmrc # None =>
       \A i \in DOMAIN run.project.npmrc : LET e == run.project.npmrc[i] IN
         (e.key = Secret /\ e.value # "env") \/ (e.key = "strict-ssl" /\ e.value \in Off) =>
           Excused("valid-npmrc", ".npmrc", None, None)
  /\ config.rules["secure-resolved"] = "error" /\ run.project.flavor = "npm" =>
       \A k \in Foreign(run.project) :
         Packages[k].kind = "registry" /\ Packages[k].scheme = "http" =>
           Excused("secure-resolved", Packages[k].name, None, None)

ExitIsEarned == Judged /\ exit = 0 => (run.command = "report" => ScansEarnIt) /\ RulesEarnIt

\* Whatever a rule or a scan found is shown at the end in a section that is not
\* passed over, or is listed with the exception of its rule that took it out, or
\* stands behind its registry's one finding, which is no milder
\* (applyAuditExceptions, dedupeRemoteFindings, assembleSections).
Shown(section, f) == f \in buckets[section] /\ status[section] # "skip"
Listed(rule, f) == \E s \in suppressed : s.finding = f /\ config.exceptions[s.by].rule = rule
Behind(f) == \E g \in buckets["remote"] :
  /\ g.at = <<"host", HostOf(f)>>
  /\ f.severity = "error" => g.severity = "error"
ScanFindings ==
  [s \in DOMAIN ScanExceptionRule |->
     CASE s = "vuln"       -> IF run.flags["vuln"] THEN Vulnerabilities ELSE {}
       [] s = "deprecated" -> IF run.flags["deprecated"] THEN Deprecations ELSE {}
       [] s = "unresolved" -> UNION {Unresolved(c) : c \in {c \in {"integrity", "vuln", "deprecated"} : run.flags[c]}}]

NothingVanishes ==
  Judged =>
    /\ \A r \in RulesOn : \A f \in RuleFindings(r) :
         Shown(RuleSection[r], f) \/ Listed(r, f) \/ (r = "no-remote-deps" /\ Behind(f))
    /\ run.command = "report" =>
         \A s \in DOMAIN ScanFindings : \A f \in ScanFindings[s] :
           Shown(s, f) \/ Listed(ScanExceptionRule[s], f)

\* Where several versions of one name are asked about at once, an advisory is
\* held against exactly those its range covers in the published order of
\* semver (parseSemver to advisoryAppliesTo). The id tells the findings of one
\* advisory from the others.
AffectedExactly ==
  Judged /\ run.command = "report" =>
    \A k \in Answering("vuln") : \A a \in run.world.advisories[Packages[k].name] :
      Cardinality(VersionsAsked(Packages, k)) > 1 /\ a.range # None /\ a.id # None =>
        (Within(Packages[k].version, a.range)
           <=> \E f \in buckets["vuln"] \cup {s.finding : s \in suppressed} : f.at = <<k>> /\ f.id = a.id)

\* After remediate each package with an advisory at the gate or, unless told
\* otherwise, a deprecation has one outcome and no other package has one; only
\* ranges of those are changed, in both files alike, and keep their operator.
Deserving ==
  {Packages[k].name : k \in
     {k \in Scanned \ Gaps("vuln") : \E a \in run.world.advisories[Packages[k].name] :
        a.id # None /\ Affected(k, a) /\ Serious(a)}
     \cup (Answering("deprecated") \cap run.world.deprecated)}

PlanAccounts ==
  run.command = "remediate" /\ pc = "end" /\ exit = 0 =>
    /\ {o.name : o \in plan} = Deserving /\ Cardinality(plan) = Cardinality(Deserving)
    /\ \A d \in DOMAIN Declared : disk.manifest[d] # Declared[d] =>
         /\ d[2] \in Deserving /\ run.flags.write
         /\ disk.manifest[d] = [Declared[d] EXCEPT !.version = run.world.latest[d[2]]]
    /\ disk.locked # None =>
         \A d \in DOMAIN disk.locked \cap DOMAIN Declared :
           disk.locked[d] = IF disk.manifest[d] = Declared[d] THEN run.project.locked[d] ELSE disk.manifest[d]

\* What vuln.js says of an advisory it cannot match to a version: "record as a
\* warning, never a run-failing error". report ends with 1 for another reason.
UncertainNeverFails ==
  Judged /\ run.command = "report" /\ exit = 1 =>
    \/ Count("error") > 0 \/ ~WithinBudget
    \/ \E f \in All : ~(f \in buckets["vuln"] /\ f.severity = "warn") /\ LadderRank(f) >= SeverityRank(SeverityGate(run.flags))
===============================================================================
