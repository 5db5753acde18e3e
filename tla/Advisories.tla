------------------------------- MODULE Advisories ------------------------------
(***************************************************************************)
(* What the vulnerability scan makes of the registry's answer              *)
(* (src/src/vuln.js): which advisories apply to a locked version, matched  *)
(* without a semver library, and which of them fail the run. How the       *)
(* batches are asked for is in RegistryScan.                               *)
(*                                                                         *)
(* A version is [core, pre]: three numbers, and the identifiers of the     *)
(* pre-release, each [num, val]; an identifier that is not a number has    *)
(* its place in the alphabet as val. A range is a set of terms, a term a   *)
(* set of comparators [op, version]; the empty term is `*`. An advisory is *)
(* [id, range, severity].                                                  *)
(***************************************************************************)
EXTENDS Integers, Sequences, FiniteSets, FiniteSetsExt

CONSTANT None  \* nothing there; as a range: missing, or not of this grammar

Levels == <<"info", "low", "moderate", "high", "critical">>
Unknown == "unknown"  \* no severity, or one that is not on the ladder

\* SEVERITY_RANK of vuln.js: what is not on the ladder ranks above it.
SeverityRank(severity) ==
  IF severity = Unknown THEN Len(Levels) + 1
  ELSE CHOOSE i \in DOMAIN Levels : Levels[i] = severity

-------------------------------------------------------------------------------
(* Versions and ranges *)

Identifier == [num : BOOLEAN, val : Nat]
Version == [core : [1..3 -> Nat], pre : Seq(Identifier)]
Comparator == [op : {"<", "<=", ">", ">=", "="}, version : Version]

FirstNonZero(diffs, otherwise) ==
  LET at == {i \in DOMAIN diffs : diffs[i] # 0} IN
  IF at = {} THEN otherwise ELSE diffs[Min(at)]

\* Mutant: identifiers are compared as text, so 11 comes before 2.
ComparePreReleaseIdAsText(a, b) ==
  IF a.num /\ b.num /\ (a.val > 9) # (b.val > 9) THEN b.val - a.val ELSE a.val - b.val

ComparePreReleaseId(a, b) ==
  IF a.num = b.num THEN a.val - b.val ELSE IF a.num THEN -1 ELSE 1

\* A release is above the pre-releases of its core.
ComparePreRelease(a, b) ==
  CASE a = <<>> /\ b = <<>> -> 0
    [] a = <<>> /\ b # <<>> -> 1
    [] a # <<>> /\ b = <<>> -> -1
    [] OTHER ->
         FirstNonZero([i \in DOMAIN a \cap DOMAIN b |-> ComparePreReleaseId(a[i], b[i])],
                      Len(a) - Len(b))

CompareSemver(a, b) ==
  FirstNonZero([i \in 1..3 |-> a.core[i] - b.core[i]], ComparePreRelease(a.pre, b.pre))

SatisfiesComparator(v, comparator) ==
  LET cmp == CompareSemver(v, comparator.version) IN
  CASE comparator.op = "<"  -> cmp < 0
    [] comparator.op = "<=" -> cmp <= 0
    [] comparator.op = ">"  -> cmp > 0
    [] comparator.op = ">=" -> cmp >= 0
    [] comparator.op = "="  -> cmp = 0

SatisfiesRange(v, range) == \E term \in range : \A c \in term : SatisfiesComparator(v, c)

\* The order semver.org publishes (clause 11), in its words and not by
\* comparing: the first of major, minor and patch that differs decides, then
\* the first identifier that differs; a number is below a word, the shorter of
\* two equal beginnings below the longer, a pre-release below its release.
PrecedesId(a, b) == (a.num /\ ~b.num) \/ (a.num = b.num /\ a.val < b.val)

PrecedesPre(a, b) ==
  /\ a # <<>>
  /\ \/ b = <<>>
     \/ Len(a) < Len(b) /\ \A i \in DOMAIN a : a[i] = b[i]
     \/ \E i \in DOMAIN a \cap DOMAIN b : PrecedesId(a[i], b[i]) /\ \A j \in 1..(i - 1) : a[j] = b[j]

Precedes(a, b) ==
  \/ \E i \in 1..3 : a.core[i] < b.core[i] /\ \A j \in 1..(i - 1) : a.core[j] = b.core[j]
  \/ a.core = b.core /\ PrecedesPre(a.pre, b.pre)

\* A range puts a version there.
Within(v, range) ==
  \E term \in range : \A c \in term :
    \/ c.op \in {"<", "<="} /\ Precedes(v, c.version)
    \/ c.op \in {">", ">="} /\ Precedes(c.version, v)
    \/ c.op \in {"=", "<=", ">="} /\ v = c.version

-------------------------------------------------------------------------------
(* One answer: which advisories are recorded for which package, and how *)

\* A single version is the server's to judge: it was asked about that one.
AdvisoryAppliesTo(version, advisory, multiVersion) ==
  IF ~multiVersion THEN "yes"
  ELSE IF advisory.range = None THEN "uncertain"
  ELSE IF SatisfiesRange(version, advisory.range) THEN "yes" ELSE "no"

\* recordVuln: uncertain is never an error, whatever the severity.
VulnLevel(advisory, uncertain, minSeverity) ==
  IF ~uncertain /\ SeverityRank(advisory.severity) >= SeverityRank(minSeverity)
  THEN "error" ELSE "warn"

\* The entries the bulk endpoint is asked about (collectCandidates).
Candidates(packages) ==
  {k \in DOMAIN packages : packages[k].kind = "registry" /\ packages[k].version # None}

\* Versions of one name that share a unit: those of one registry.
VersionsAsked(packages, k) ==
  {packages[j].version : j \in {j \in Candidates(packages) :
     packages[j].name = packages[k].name /\ packages[j].host = packages[k].host}}

VulnFinding(packages, k, advisory, minSeverity) ==
  LET verdict == AdvisoryAppliesTo(packages[k].version, advisory,
                                   Cardinality(VersionsAsked(packages, k)) > 1) IN
  [at |-> k, name |-> packages[k].name, version |-> packages[k].version,
   id |-> advisory.id, advisorySeverity |-> advisory.severity, applies |-> verdict,
   severity |-> VulnLevel(advisory, verdict = "uncertain", minSeverity)]

\* recordResolvedUnit, over the units whose registry answered.
VulnFindings(packages, advisories, deaf, minSeverity) ==
  {f \in UNION {{VulnFinding(packages, k, a, minSeverity) : a \in advisories[packages[k].name]} :
                k \in {k \in Candidates(packages) : packages[k].host \notin deaf}} :
     f.applies # "no"}
================================================================================
