----------------------------- MODULE RegistryScan -----------------------------
(***************************************************************************)
(* The three scans that ask a registry about a lockfile: checkIntegrity    *)
(* (src/src/checker.js), checkDeprecations (src/src/deprecation.js) and    *)
(* checkVulnerabilities (src/src/vuln.js).                                 *)
(*                                                                         *)
(* Each collects candidates from the entries of the lockfile, forms fetch  *)
(* units from them and runs the units on a few concurrent lanes            *)
(* (mapWithConcurrency, the same function in the three files) that share   *)
(* one results object.  A lane is a chain of microtasks: other lanes run   *)
(* between the answer being recorded, the unit being counted complete and  *)
(* the next unit being taken.                                              *)
(*                                                                         *)
(* Abstractions.  The base of an entry is the one its resolved URL gives,   *)
(* or the default.  A request that fails, a 404, an answer without the     *)
(* data and a malformed one are one answer, "none": they differ in the     *)
(* reason reported.  A hash is a model value; an advisory is the versions  *)
(* it really affects, of those that were asked about, whether its range    *)
(* can be matched by satisfiesRange, and whether its severity reaches the  *)
(* threshold; at most one per name.                                        *)
(* Instead of a list of them a name may have something else, Malformed.    *)
(* An advisory that is not an object makes the recorder throw; what it had *)
(* recorded by then is never seen, as the call rejects.                    *)
(***************************************************************************)
EXTENDS Integers, Sequences, FiniteSets

CONSTANTS
  None,      \* null
  Malformed, \* what is no list, where the advisories of a name should be
  Scans,     \* the scans tried
  Sizes,     \* bound: entries of the lockfile, for each scan
  Bases,     \* registry bases
  Pinned,    \* the bases allowedHosts names, when it is given
  Names, Versions, Hashes,
  Limits,    \* values of options.concurrency
  Batches    \* values of options.batchSize

ASSUME ScanAssumption ==
  /\ Scans \subseteq {"integrity", "deprecation", "advisories"}
  /\ Sizes \in [Scans -> Nat] /\ Pinned \subseteq Bases
  /\ None \notin Bases \cup Names \cup Versions \cup Hashes
  /\ Limits \subseteq Int /\ Batches \subseteq Nat \ {0}

VARIABLES
  scan,     \* which of the three
  entries,  \* the entries of the lockfile, in file order
  options,
  units,    \* fetch units: what to ask, and the candidates it is for
  next,     \* the index shared by the lanes
  lane,     \* where each lane is, and its unit
  told,     \* history: what the registry answered to each unit
  results,
  completed,
  phase     \* of the call

Size == Sizes[scan]

vars == <<scan, entries, options, units, next, lane, told, results, completed, phase>>
given == <<scan, entries, options>>

Entry(kind) ==
  [kind : {"registry", "other"}, base : Bases, name : Names, version : Versions,
   locked : IF kind = "integrity" THEN SUBSET Hashes ELSE {{}}]
\* One entry of another kind stands for all: root, workspace, link, git, file...
Plain(e) == e.kind = "other" => e = [CHOOSE f \in Entry(scan) : TRUE EXCEPT !.kind = "other"]

Options ==
  [failOnUnresolved : BOOLEAN, failOnFound : BOOLEAN, offline : BOOLEAN, v1 : BOOLEAN,
   limit : Limits, batch : Batches, trusted : {Bases, Pinned}]

\* The options a scan does not have keep one value; so do the others when the
\* lockfile is refused or the concurrency makes no sense.
Offered(o) ==
  /\ o.v1 => o.limit < 1
  /\ o.limit < 1 => o.failOnUnresolved /\ o.batch = 1 /\ ~o.offline
  /\ scan # "deprecation" => ~o.failOnFound
  /\ scan = "integrity" => ~o.offline
  /\ scan # "advisories" => o.batch = 1
  /\ scan # "integrity" => o.trusted = Bases

NoResults == [valid |-> TRUE, good |-> 0, bad |-> 0, skipped |-> 0, unresolved |-> 0,
              scanned |-> 0, errors |-> {}, warnings |-> {}, details |-> <<>>]

Init ==
  /\ scan \in Scans
  /\ entries \in [1..Size -> Entry(scan)]
  /\ \A i \in 1..Size : Plain(entries[i])
  /\ options \in Options /\ Offered(options)
  /\ units = <<>> /\ told = <<>>
  /\ lane = <<>> /\ next = 1
  /\ results = NoResults
  /\ completed = 0
  /\ phase = "call"

-------------------------------------------------------------------------------
(* Candidates and fetch units *)

\* isVerifiableEntry, and the tests of the two collectCandidates.
Verifiable(e) == e.kind = "registry" /\ (scan = "integrity" => e.locked # {})
Candidates == {i \in 1..Size : Verifiable(entries[i])}
BaseOf(i) == entries[i].base

\* The numbers of S, in ascending order.
Ascending(S) ==
  [k \in 1..Cardinality(S) |-> CHOOSE i \in S : Cardinality({j \in S : j < i}) = k - 1]

\* For each candidate, the first that shares its key: where a Map meets the key.
FirstOf(key) ==
  [i \in Candidates |-> CHOOSE first \in Candidates :
     key[first] = key[i] /\ \A j \in Candidates : key[j] = key[i] => first <= j]

\* One unit for each place, in the order of the places: the candidates put there.
UnitsBy(place) ==
  LET places == Ascending({place[i] : i \in Candidates})
      members(k) == {i \in Candidates : place[i] = places[k]}
  IN [k \in DOMAIN places |-> [base |-> BaseOf(Ascending(members(k))[1]), members |-> members(k)]]

\* Mutant: the group key leaves the registry out.
GroupUnitsByName == UnitsBy(FirstOf([i \in Candidates |-> <<entries[i].name, entries[i].version>>]))
\* groupCandidates: one unit for each registry, name and version.
GroupUnits ==
  UnitsBy(FirstOf([i \in Candidates |-> <<BaseOf(i), entries[i].name, entries[i].version>>]))

\* buildUnits: the names of each registry, in slices of at most batchSize names.
BatchUnits ==
  LET registry == FirstOf([i \in Candidates |-> BaseOf(i)])
      name == FirstOf([i \in Candidates |-> <<BaseOf(i), entries[i].name>>])
      rank(i) == Cardinality({name[j] : j \in {j \in Candidates : BaseOf(j) = BaseOf(i)
                                                                 /\ name[j] < name[i]}})
  IN UnitsBy([i \in Candidates |-> registry[i] * (Size + 1) + rank(i) \div options.batch])

SingleUnits == UnitsBy([i \in Candidates |-> i])

Units == CASE scan = "integrity" -> SingleUnits
           [] scan = "deprecation" -> GroupUnits
           [] scan = "advisories" -> BatchUnits

-------------------------------------------------------------------------------
(* Recording an answer *)

\* What is recorded of the entries in S, in file order, when they are ...
Answered(r, S) == [r EXCEPT !.details = @ \o Ascending(S),
                            !.scanned = IF scan = "integrity" THEN @ ELSE @ + Cardinality(S)]
Good(r, S) == [r EXCEPT !.good = @ + Cardinality(S)]
Failed(r, S) == [r EXCEPT !.bad = @ + Cardinality(S), !.valid = @ /\ S = {}, !.errors = @ \cup S]
Warned(r, S) == [r EXCEPT !.bad = @ + Cardinality(S), !.warnings = @ \cup S]

\* recordIntegrityUnresolved, recordUnresolved and recordUnresolvedUnit.
Unresolved(r, S) ==
  LET q == [r EXCEPT !.unresolved = @ + Cardinality(S)] IN
  IF options.failOnUnresolved
  THEN [q EXCEPT !.valid = @ /\ S = {}, !.errors = @ \cup S,
                 !.bad = IF scan = "integrity" THEN @ + Cardinality(S) ELSE @]
  ELSE q

\* Every sha512 token of the lockfile is the registry's.
AllMatch(i, hash) == entries[i].locked = {hash}

\* recordIntegrityResult: what an entry is, by the hash that was published.
IntegrityOutcome(i, hash) == IF AllMatch(i, hash) THEN "good" ELSE "failed"

\* processUnit: what an entry is, by its manifest.
ManifestOutcome(deprecated) ==
  IF ~deprecated THEN "good" ELSE IF options.failOnFound THEN "failed" ELSE "warned"

Asked(u, n) == {entries[i].version : i \in {i \in u.members : entries[i].name = n}}

\* Mutant: the server's filter is trusted for any number of versions.
MultiVersionNever(u, n) == FALSE
MultiVersion(u, n) == Cardinality(Asked(u, n)) > 1

\* advisoryAppliesTo
Applies(u, i, a) ==
  IF ~MultiVersion(u, entries[i].name) THEN "yes"
  ELSE IF ~a.exact THEN "uncertain"
  ELSE IF entries[i].version \in a.hits THEN "yes" ELSE "no"

\* recordResolvedUnit and recordVuln: what an entry is, by the advisory for its name.
AdvisoryOutcome(u, i, a) ==
  CASE a \in {None, Malformed} -> "good"
    [] a \notin {None, Malformed} /\ Applies(u, i, a) = "no" -> "good"
    [] a \notin {None, Malformed} /\ Applies(u, i, a) = "yes" /\ a.high -> "failed"
    [] OTHER -> "warned"

\* scanUnit, processUnit, verifyIntegrityCandidate.
Outcome(u, i, answer) ==
  CASE answer.is # "data" -> "unresolved"
    [] answer.is = "data" /\ scan = "integrity" -> IntegrityOutcome(i, answer.data)
    [] answer.is = "data" /\ scan = "deprecation" -> ManifestOutcome(answer.data)
    [] OTHER -> AdvisoryOutcome(u, i, answer.data[entries[i].name])

\* All the entries of a unit are recorded, each as its outcome says.
Record(r, S, outcome) ==
  LET as(o) == {i \in S : outcome[i] = o} IN
  Unresolved(Warned(Failed(Good(Answered(r, S), as("good")), as("failed")), as("warned")),
             as("unresolved"))

\* What the registry may answer.  For the advisories of a name it sends those
\* that affect a version it was asked about; whether they affect others is not looked at.
Advisories(u) ==
  LET names == {entries[i].name : i \in u.members}
      about(n) == {None, Malformed}
                  \cup [hits : (SUBSET Asked(u, n)) \ {{}}, exact : BOOLEAN, high : BOOLEAN]
  IN {f \in [names -> UNION {about(n) : n \in names}] : \A n \in names : f[n] \in about(n)}

Reply(is, data) == [is |-> is, data |-> data]
\* The data: the published hash; whether the version is deprecated; advisories.
Answers(u) ==
  LET data == CASE scan = "integrity" -> Hashes
                [] scan = "deprecation" -> BOOLEAN
                [] scan = "advisories" -> Advisories(u)
      bad == IF scan = "advisories" THEN {"poison"} ELSE {}
  IN {Reply("data", x) : x \in data} \cup {Reply(is, None) : is \in {"none"} \cup bad}

-------------------------------------------------------------------------------
(* The call and its lanes *)

\* Mutant: no floor of one lane.
LaneCountUnfloored(n) == IF options.limit < n THEN options.limit ELSE n
\* Math.max(1, Math.min(limit, items.length || 1))
LaneCount(n) == LET items == IF n = 0 THEN 1 ELSE n
                    least == IF options.limit < items THEN options.limit ELSE items
                IN IF least < 1 THEN 1 ELSE least

Lane(at, u) == [at |-> at, unit |-> u]
Took(l) == IF l <= Len(units') THEN Lane("fetching", l) ELSE Lane("exited", 0)

Refuse == /\ phase = "call" /\ options.v1
          /\ phase' = "threw"
          /\ UNCHANGED <<given, units, next, lane, told, results, completed>>

\* The candidates are collected; offline, they are all skipped.
Offline ==
  /\ phase = "call" /\ ~options.v1 /\ options.offline
  /\ results' = [results EXCEPT !.skipped = Size]
  /\ phase' = "returned"
  /\ UNCHANGED <<given, units, next, lane, told, completed>>

\* The units are formed and every lane takes its first.
Begin ==
  /\ phase = "call" /\ ~options.v1 /\ ~options.offline
  /\ results' = [results EXCEPT !.skipped = Size - Cardinality(Candidates)]
  /\ units' = Units
  /\ told' = [u \in DOMAIN units' |-> Reply("unasked", None)]
  /\ lane' = [l \in 1..LaneCount(Len(units')) |-> Took(l)]
  /\ next' = Len(lane') + 1
  /\ phase' = "running"
  /\ UNCHANGED <<given, completed>>

\* hostAllowlist: an entry of another host is failed without being asked about.
Trusted(u) == u.base \in options.trusted

Distrust(l) ==
  /\ lane[l].at = "fetching"
  /\ LET u == units[lane[l].unit] IN
     /\ ~Trusted(u)
     /\ results' = Record(results, u.members, [i \in u.members |-> "failed"])
  /\ lane' = [lane EXCEPT ![l].at = "recorded"]
  /\ UNCHANGED <<given, units, next, told, completed, phase>>

\* The registry answers, or the request fails, and the answer is recorded.
Answer(l, answer) ==
  /\ lane[l].at = "fetching"
  /\ Trusted(units[lane[l].unit])
  /\ told' = [told EXCEPT ![lane[l].unit] = answer]
  /\ IF answer.is = "poison"
     THEN /\ lane' = [lane EXCEPT ![l].at = "threw"]
          /\ UNCHANGED results
     ELSE /\ lane' = [lane EXCEPT ![l].at = "recorded"]
          /\ LET u == units[lane[l].unit] IN
             results' = Record(results, u.members, [i \in u.members |-> Outcome(u, i, answer)])
  /\ UNCHANGED <<given, units, next, completed, phase>>

\* markCompleted, and `while (next < items.length)`: the lane reads nothing the
\* others write between the two.
Complete(l) ==
  /\ lane[l].at = "recorded"
  /\ completed' = completed + 1
  /\ results' = [results EXCEPT !.scanned = IF scan = "integrity" THEN completed' ELSE @]
  /\ IF next <= Len(units)
     THEN lane' = [lane EXCEPT ![l] = Lane("fetching", next)] /\ next' = next + 1
     ELSE lane' = [lane EXCEPT ![l] = Lane("exited", 0)] /\ UNCHANGED next
  /\ UNCHANGED <<given, units, told, phase>>

\* Mutant: the call returns when the last unit has been taken.
AllDoneTaken == next > Len(units)
\* Promise.all over the lanes.
AllDone == \A l \in DOMAIN lane : lane[l].at = "exited"

Settle ==
  /\ phase = "running"
  /\ \/ /\ \E l \in DOMAIN lane : lane[l].at = "threw"
        /\ phase' = "threw"
     \/ /\ AllDone
        /\ phase' = "returned"
  /\ UNCHANGED <<given, units, next, lane, told, results, completed>>

\* Nothing else happens once the call has settled and its lanes have ended.  A
\* call that can never settle is a deadlock, and no other step repeats a state.
Over == phase \in {"returned", "threw"} /\ UNCHANGED vars

Next ==
  \/ Refuse \/ Offline \/ Begin \/ Settle
  \/ \E l \in DOMAIN lane :
       \/ Distrust(l) \/ Complete(l)
       \/ lane[l].at = "fetching" /\ \E a \in Answers(units[lane[l].unit]) : Answer(l, a)
  \/ Over

Spec == Init /\ [][Next]_vars

-------------------------------------------------------------------------------
(* Properties *)

Returned == phase = "returned" /\ ~options.offline

\* Each entry of the lockfile is accounted for once in what the scan returns: no
\* candidate is lost between units, lanes and answers, and none is counted twice.
Accounted ==
  Returned =>
    /\ \A i \in Candidates : Cardinality({k \in DOMAIN results.details : results.details[k] = i}) = 1
    /\ Len(results.details) = Cardinality(Candidates)
    /\ results.scanned = Cardinality(Candidates)
    /\ Size = results.good + results.bad + results.skipped
                + IF scan = "integrity" /\ options.failOnUnresolved THEN 0 ELSE results.unresolved

\* The answers given to a request about i, at i's own registry.
ToldOf(i) == {told[u] : u \in {u \in DOMAIN units : i \in units[u].members
                                                    /\ units[u].base = BaseOf(i)}}
\* What the registry said of i itself.
Verdict(i, answer) ==
  LET about == answer.data[entries[i].name] IN
  CASE answer.is = "unasked" -> "untrusted"
    [] answer.is \notin {"unasked", "data"} -> "unresolved"
    [] answer.is = "data" /\ scan = "integrity" ->
         IF entries[i].locked = {answer.data} THEN "good" ELSE "bad"
    [] answer.is = "data" /\ scan = "deprecation" -> IF answer.data THEN "bad" ELSE "good"
    [] answer.is = "data" /\ scan = "advisories" /\ about = Malformed -> "unsaid"
    [] OTHER -> IF about # None /\ entries[i].version \in about.hits THEN "bad" ELSE "good"

\* "fail closed": the scan returns valid only if the entry's own registry was
\* asked about every candidate, answered, and said nothing against it that fails
\* the run; "unresolved" passes only with failOnUnresolved: false. What is no list is
\* "treated as no advisories rather than crashing the whole scan" (vuln.js:291-292).
FailClosed ==
  Returned /\ results.valid =>
    \A i \in Candidates : \E answer \in ToldOf(i) :
      CASE Verdict(i, answer) = "good" -> TRUE
        [] Verdict(i, answer) = "unsaid" -> TRUE
        [] Verdict(i, answer) = "unresolved" -> ~options.failOnUnresolved
        [] Verdict(i, answer) = "untrusted" -> FALSE
        [] OTHER -> CASE scan = "integrity" -> FALSE
                      [] scan = "deprecation" -> ~options.failOnFound
                      [] scan = "advisories" ->
                           \/ ~answer.data[entries[i].name].high
                           \/ /\ ~answer.data[entries[i].name].exact
                              /\ \E j \in Candidates :
                                   /\ BaseOf(j) = BaseOf(i)
                                   /\ entries[j].name = entries[i].name
                                   /\ entries[j].version # entries[i].version

\* "a patched sibling version isn't falsely flagged": an entry is an error only
\* if the registry said so of that very entry, whatever shares its name or unit.
NoFalseAlarm ==
  Returned =>
    \A i \in results.errors : \A answer \in ToldOf(i) : Verdict(i, answer) \notin {"good", "unsaid"}

\* Once the call has returned its results no lane touches them again.
QuietAfterReturn == [][phase = "returned" => UNCHANGED results]_vars
===============================================================================
