--------------------------- MODULE RegistryScanProofs --------------------------
(***************************************************************************)
(* RegistryScan, for any lockfile, registries, answers, batch size and     *)
(* number of lanes: the units share the candidates out among them, each    *)
(* unit is recorded once, and what the scan returns is the tally of the    *)
(* registry's answers: no entry is lost, none is counted twice, no failure *)
(* is missed and none is made up.                                          *)
(***************************************************************************)
EXTENDS RegistryScan, SequenceTheorems, FunctionTheorems, FiniteSetTheorems, WellFoundedInduction, TLAPS

-------------------------------------------------------------------------------
(* Numbers, and how many elements precede one *)

\* The library states well-foundedness of an operator; this is the set the next lemma needs.
LEMMA LessIsWellFounded == IsWellFoundedOn({ss \in Nat \X Nat : ss[1] < ss[2]}, Nat)
<1>1. OpToRel(<, Nat) = {ss \in Nat \X Nat : ss[1] < ss[2]}
  BY DEF OpToRel
<1> QED
  BY <1>1, NatLessThanWellFounded

\* A set of natural numbers that is not empty has a least element.
LEMMA LeastNumber ==
  ASSUME NEW T \in SUBSET Nat, T # {}
  PROVE  \E x \in T : \A y \in T : x <= y
<1> DEFINE R == {ss \in Nat \X Nat : ss[1] < ss[2]}
<1>1. PICK x \in T : \A y \in T : ~(<<y, x>> \in R)
  <2> HIDE DEF R
  <2>1. IsWellFoundedOn(R, Nat)
    BY LessIsWellFounded DEF R
  <2> QED
    BY <2>1, WFMin
<1>2. ASSUME NEW y \in T PROVE x <= y
  <2>1. SUFFICES ASSUME y < x PROVE FALSE
    OBVIOUS
  <2>2. <<y, x>> \in Nat \X Nat /\ <<y, x>>[1] < <<y, x>>[2]
    BY <2>1
  <2>3. <<y, x>> \in R
    BY <2>2, Zenon
  <2> QED
    BY <2>3, <1>1
<1> QED
  BY <1>2

\* A finite set in a strict order has, for each i up to its size, an element that i - 1 others precede.
LEMMA RankedElement ==
  ASSUME NEW S, IsFiniteSet(S), NEW R,
         \A x \in S : <<x, x>> \notin R,
         \A x, y, z \in S : <<x, y>> \in R /\ <<y, z>> \in R => <<x, z>> \in R,
         \A x, y \in S : x = y \/ <<x, y>> \in R \/ <<y, x>> \in R
  PROVE  /\ \A i \in 1..Cardinality(S) :
              \E x \in S : Cardinality({y \in S : <<y, x>> \in R}) = i - 1
         /\ \A x, y \in S : <<x, y>> \in R <=>
              Cardinality({z \in S : <<z, x>> \in R}) < Cardinality({z \in S : <<z, y>> \in R})
         /\ \A x \in S : Cardinality({y \in S : <<y, x>> \in R}) \in 0..(Cardinality(S) - 1)
<1> DEFINE Below(x) == {y \in S : <<y, x>> \in R}
           rank == [x \in S |-> Cardinality(Below(x))]
           n == Cardinality(S)
<1>1. n \in Nat
  BY FS_CardinalityType
<1>2. ASSUME NEW x \in S PROVE rank[x] \in 0..(n - 1)
  <2>1. IsFiniteSet(Below(x)) /\ Cardinality(Below(x)) <= n /\ (n = Cardinality(Below(x)) => S = Below(x))
    BY FS_Subset
  <2>2. x \notin Below(x)
    OBVIOUS
  <2>3. Cardinality(Below(x)) \in Nat /\ Cardinality(Below(x)) # n
    BY <2>1, <2>2, FS_CardinalityType
  <2> QED
    BY <1>1, <2>1, <2>3
<1>3. ASSUME NEW x \in S, NEW y \in S, <<x, y>> \in R PROVE rank[x] < rank[y]
  <2>1. Below(x) \subseteq Below(y) /\ x \in Below(y) /\ x \notin Below(x)
    BY <1>3
  <2>2. IsFiniteSet(Below(y))
    BY FS_Subset
  <2>3. Cardinality(Below(x)) <= Cardinality(Below(y)) /\ Cardinality(Below(x)) # Cardinality(Below(y))
    <3> HIDE DEF Below
    <3> QED
      BY <2>1, <2>2, FS_Subset
  <2> QED
    BY <1>2, <2>3
<1>4. ASSUME NEW x \in S, NEW y \in S, rank[x] < rank[y] PROVE <<x, y>> \in R
  <2>1. rank[x] \in Nat /\ rank[y] \in Nat /\ rank[x] < rank[y]
    BY <1>2, <1>4
  <2> HIDE DEF rank
  <2>2. x # y /\ ~(rank[y] < rank[x])
    BY <2>1
  <2> QED
    BY <2>2, <1>3
<1>5. rank \in Injection(S, 0..(n - 1))
  <2>1. rank \in [S -> 0..(n - 1)]
    BY <1>2
  <2>2. ASSUME NEW x \in S, NEW y \in S, rank[x] = rank[y] PROVE x = y
    <3>1. ~(rank[x] < rank[y]) /\ ~(rank[y] < rank[x])
      BY <1>2, <2>2
    <3> QED
      BY <3>1, <1>3
  <2> HIDE DEF rank
  <2> QED
    BY <2>1, <2>2, Fun_IsInj
<1>6. IsFiniteSet(0..(n - 1)) /\ Cardinality(0..(n - 1)) = n
  <2>1. 0 \in Int /\ n - 1 \in Int
    BY <1>1
  <2> QED
    BY <1>1, <2>1, FS_Interval, SMT
<1>7. rank \in Surjection(S, 0..(n - 1))
  <2> HIDE DEF rank
  <2> QED
    BY <1>5, <1>6, FS_Injection
<1>8. ASSUME NEW i \in 1..n PROVE \E x \in S : rank[x] = i - 1
  <2>1. i - 1 \in 0..(n - 1)
    BY <1>1
  <2>2. \A t \in 0..(n - 1) : \E x \in S : rank[x] = t
    <3> HIDE DEF rank, n
    <3> QED
      BY <1>7 DEF Surjection
  <2> QED
    BY <2>1, <2>2
<1> QED
  BY <1>2, <1>3, <1>4, <1>8

-------------------------------------------------------------------------------
(* The inductive invariant *)

Lanes == [at : {"fetching", "recorded", "exited", "threw"}, unit : Nat]
Tallies == [valid : BOOLEAN, good : Nat, bad : Nat, skipped : Int, unresolved : Nat, scanned : Nat,
            errors : SUBSET Nat, warnings : SUBSET Nat, details : Seq(Nat)]

TypeOK ==
  /\ scan \in Scans /\ entries \in [1..Size -> Entry(scan)] /\ options \in Options
  /\ phase \in {"call", "running", "threw", "returned"}
  /\ lane \in Seq(Lanes) /\ next \in Nat \ {0} /\ completed \in Nat /\ results \in Tallies

Begun == lane # <<>>

\* Before the lanes start; and a call that returns has started them, or is offline.
Fresh ==
  /\ phase = "call" => ~Begun /\ results = NoResults /\ completed = 0
  /\ ~Begun => phase # "running" /\ (phase = "returned" => options.offline)

\* The units share the candidates out, each unit to one registry.
Parted ==
  /\ units \in Seq([base : Bases, members : SUBSET Candidates])
  /\ \A i \in Candidates : \E u \in DOMAIN units : i \in units[u].members
  /\ \A u, v \in DOMAIN units : \A i \in units[u].members \cap units[v].members : u = v
  /\ \A u \in DOMAIN units : \A i \in units[u].members : units[u].base = BaseOf(i)
  /\ scan = "integrity" => Len(units) = Cardinality(Candidates)

\* Each lane that has not exited has a unit of its own; none exits before the last is taken.
Shared ==
  \A l \in DOMAIN lane :
    /\ lane[l].at # "exited" => /\ lane[l].unit \in DOMAIN units /\ lane[l].unit < next
                                /\ \A m \in DOMAIN lane :
                                     lane[m].at # "exited" /\ lane[m].unit = lane[l].unit => m = l
    /\ lane[l].at = "exited" => next > Len(units)

\* A lane has u, and has not recorded it.
Held(u) == \E l \in DOMAIN lane : lane[l].unit = u /\ lane[l].at \in {"fetching", "threw"}
Recorded(u) == u \in DOMAIN units /\ u < next /\ ~Held(u)
\* u has been counted complete.
Finished(u) == /\ u \in DOMAIN units /\ u < next
               /\ \A l \in DOMAIN lane : lane[l].at = "exited" \/ lane[l].unit # u

\* What an answer to u may be: the advisories for a name affect a version that was asked about.
Sayable(u, answer) ==
  /\ answer.is \in {"none", "data", "poison"}
  /\ answer.is = "data" /\ scan = "deprecation" => answer.data \in BOOLEAN
  /\ answer.is = "data" /\ scan = "advisories" =>
       \A i \in u.members :
         LET a == answer.data[entries[i].name] IN
         a \notin {None, Malformed} => \E j \in u.members : entries[j].name = entries[i].name
                                                           /\ entries[j].version \in a.hits

\* Only the trusted registries are asked; what has been recorded is an answer of theirs.
Heard ==
  /\ DOMAIN told = DOMAIN units
  /\ \A u \in DOMAIN units :
       /\ told[u] = Reply("unasked", None) \/ (Sayable(units[u], told[u]) /\ Trusted(units[u]))
       /\ Recorded(u) /\ Trusted(units[u]) => told[u].is \notin {"unasked", "poison"}

\* The unit of a candidate, the candidates recorded so far, and the outcome of each.
UnitOf(i) == CHOOSE u \in DOMAIN units : i \in units[u].members
Done == {i \in Candidates : Recorded(UnitOf(i))}
OutcomeOf(i) == IF Trusted(units[UnitOf(i)]) THEN Outcome(units[UnitOf(i)], i, told[UnitOf(i)])
                ELSE "failed"

\* s lists the members of S, each once.
Enumerates(s, S) ==
  /\ s \in Seq(S) /\ Len(s) = Cardinality(S)
  /\ \A x \in S : \E k \in DOMAIN s : s[k] = x
  /\ \A j, k \in DOMAIN s : s[j] = s[k] => j = k

With(S, outcome, o) == {i \in S : outcome[i] = o}
\* The unresolved entries that fail the run.
Open(S, outcome) == IF options.failOnUnresolved THEN With(S, outcome, "unresolved") ELSE {}

\* r is the tally of S, whose outcomes are given.
Tally(r, S, outcome) ==
  /\ Enumerates(r.details, S)
  /\ r.good = Cardinality(With(S, outcome, "good"))
  /\ r.unresolved = Cardinality(With(S, outcome, "unresolved"))
  /\ r.bad = Cardinality(With(S, outcome, "failed")) + Cardinality(With(S, outcome, "warned"))
               + IF scan = "integrity" THEN Cardinality(Open(S, outcome)) ELSE 0
  /\ r.errors = With(S, outcome, "failed") \cup Open(S, outcome)
  /\ r.valid <=> r.errors = {}

Counted ==
  /\ Tally(results, Done, [i \in Done |-> OutcomeOf(i)])
  /\ results.skipped = Size - Cardinality(Candidates)
  /\ results.scanned = IF scan = "integrity" THEN completed ELSE Cardinality(Done)
  /\ completed = Cardinality({u \in DOMAIN units : Finished(u)})

IInv ==
  /\ TypeOK /\ Fresh
  /\ Begun => Parted /\ Shared /\ Heard /\ Counted
  /\ Begun /\ phase = "returned" => AllDone
-------------------------------------------------------------------------------
(* Listing numbers, and forming units *)

\* A finite set of numbers is listed in ascending order, each number once.
LEMMA AscendingLists ==
  ASSUME NEW S \in SUBSET Nat, IsFiniteSet(S)
  PROVE  Enumerates(Ascending(S), S)
<1> DEFINE R == {ss \in S \X S : ss[1] < ss[2]}
           n == Cardinality(S)
           rank(i) == Cardinality({j \in S : j < i})
           L == Ascending(S)
<1>1. \A x, y \in S : <<x, y>> \in R <=> x < y
  OBVIOUS
<1>2. \A x \in S : {j \in S : <<j, x>> \in R} = {j \in S : j < x}
  BY <1>1
<1>3. /\ \A x \in S : <<x, x>> \notin R
      /\ \A x, y, z \in S : <<x, y>> \in R /\ <<y, z>> \in R => <<x, z>> \in R
      /\ \A x, y \in S : x = y \/ <<x, y>> \in R \/ <<y, x>> \in R
  BY <1>1
<1> HIDE DEF R
<1>4. \A k \in 1..n : \E x \in S : rank(x) = k - 1
  <2>1. \A k \in 1..n : \E x \in S : Cardinality({y \in S : <<y, x>> \in R}) = k - 1
    BY <1>3, RankedElement
  <2> QED
    BY <1>2, <2>1
<1>5. n \in Nat
  BY FS_CardinalityType
<1>6. L = [k \in 1..n |-> CHOOSE i \in S : rank(i) = k - 1]
  BY DEF Ascending
<1> HIDE DEF L, n, rank
<1>7. \A k \in 1..n : L[k] \in S /\ rank(L[k]) = k - 1
  BY <1>4, <1>6
<1>8. L \in [1..n -> S] /\ L \in Seq(S) /\ Len(L) = n /\ DOMAIN L = 1..n
  BY <1>5, <1>6, <1>7
<1>9. \A j, k \in 1..n : L[j] = L[k] => j = k
  BY <1>5, <1>7
<1>10. \A x \in S : \E k \in 1..n : L[k] = x
  <2>1. L \in Injection(1..n, S)
    BY <1>8, <1>9, Fun_IsInj
  <2>2. Cardinality(1..n) = Cardinality(S)
    <3>1. Cardinality(1..n) = n
      BY <1>5, FS_Interval, SMT
    <3> QED
      BY <3>1 DEF n
  <2>3. L \in Surjection(1..n, S)
    BY <2>1, <2>2, FS_Injection
  <2> QED
    BY <2>3 DEF Surjection
<1> QED
  BY <1>8, <1>9, <1>10 DEF Enumerates, L, n

\* Candidates are numbers of entries.
LEMMA CandidateNumbers ==
  ASSUME TypeOK
  PROVE  /\ Size \in Nat /\ Candidates \subseteq 1..Size /\ Candidates \subseteq Nat
         /\ IsFiniteSet(Candidates) /\ Cardinality(Candidates) \in Nat
         /\ \A i \in Candidates : BaseOf(i) \in Bases /\ entries[i] \in Entry(scan)
<1>1. Size \in Nat
  BY ScanAssumption DEF TypeOK, Size, ScanAssumption
<1>2. Candidates \subseteq 1..Size
  BY DEF Candidates
<1>3. IsFiniteSet(1..Size)
  BY <1>1, FS_Interval
<1>4. IsFiniteSet(Candidates)
  BY <1>2, <1>3, FS_Subset
<1>5. \A i \in Candidates : entries[i] \in Entry(scan)
  BY <1>2 DEF TypeOK
<1>6. \A i \in Candidates : BaseOf(i) \in Bases
  BY <1>5 DEF BaseOf, Entry
<1> QED
  BY <1>1, <1>2, <1>4, <1>5, <1>6, FS_CardinalityType

\* U shares the candidates out among its units, and so that place tells the units apart.
SharesOut(U, place) ==
  /\ U \in Seq([base : Bases, members : SUBSET Candidates])
  /\ \A i \in Candidates : \E u \in DOMAIN U : i \in U[u].members
  /\ \A u, v \in DOMAIN U : \A i \in U[u].members \cap U[v].members : u = v
  /\ \A u \in DOMAIN U : \E i \in U[u].members : U[u].base = BaseOf(i)
  /\ \A u \in DOMAIN U : \A i, j \in U[u].members : place[i] = place[j]

\* One unit for each place does.
LEMMA ByPlace ==
  ASSUME TypeOK, NEW place \in [Candidates -> Nat]
  PROVE  /\ SharesOut(UnitsBy(place), place)
         /\ Len(UnitsBy(place)) = Cardinality({place[i] : i \in Candidates})
<1> DEFINE P == {place[i] : i \in Candidates}
           L == Ascending(P)
           members(k) == {i \in Candidates : place[i] = L[k]}
           U == UnitsBy(place)
           n == Cardinality(P)
<1>1. Candidates \subseteq Nat /\ IsFiniteSet(Candidates)
  BY CandidateNumbers
<1>2. IsFiniteSet(P) /\ P \subseteq Nat
  <2>1. place \in Surjection(Candidates, P)
    BY DEF Surjection
  <2> QED
    BY <1>1, <2>1, FS_Surjection
<1>3. n \in Nat /\ L \in Seq(P) /\ Len(L) = n /\ DOMAIN L = 1..n
      /\ (\A x \in P : \E k \in DOMAIN L : L[k] = x) /\ \A j, k \in DOMAIN L : L[j] = L[k] => j = k
  <2>1. Enumerates(L, P)
    BY <1>2, AscendingLists
  <2> HIDE DEF L, P
  <2> QED
    BY <1>2, <2>1, FS_CardinalityType DEF Enumerates
<1>4. U = [k \in 1..n |-> [base |-> BaseOf(Ascending(members(k))[1]), members |-> members(k)]]
  BY <1>3 DEF UnitsBy
<1>5. ASSUME NEW k \in 1..n PROVE members(k) \subseteq Candidates /\ Ascending(members(k))[1] \in members(k)
  <2>1. L[k] \in P
    <3> HIDE DEF L, P
    <3> QED
      BY <1>3
  <2>2. members(k) # {} /\ members(k) \subseteq Candidates
    BY <2>1
  <2> DEFINE M == members(k)
  <2>3. IsFiniteSet(M) /\ M \in SUBSET Nat
    BY <1>1, <2>2, FS_Subset
  <2>4. Enumerates(Ascending(M), M) /\ Cardinality(M) \in Nat \ {0}
    BY <2>2, <2>3, AscendingLists, FS_CardinalityType, FS_EmptySet
  <2> HIDE DEF M
  <2>5. 1 \in DOMAIN Ascending(M) /\ Ascending(M)[1] \in M
    BY <2>4 DEF Enumerates
  <2> QED
    BY <2>2, <2>5 DEF M
<1> HIDE DEF L, U, n
<1>6. ASSUME NEW k \in 1..n
      PROVE  /\ U[k].members = members(k) /\ U[k].members \subseteq Candidates
             /\ U[k] \in [base : Bases, members : SUBSET Candidates]
             /\ \E i \in U[k].members : U[k].base = BaseOf(i)
  BY <1>4, <1>5, CandidateNumbers
<1>7. DOMAIN U = 1..n /\ Len(U) = n /\ U \in Seq([base : Bases, members : SUBSET Candidates])
  <2> DEFINE X == [base : Bases, members : SUBSET Candidates]
  <2>1. \A k \in 1..n : U[k] \in X
    BY <1>6
  <2> HIDE DEF X
  <2>2. DOMAIN U = 1..n /\ U = [k \in 1..n |-> U[k]]
    BY <1>4
  <2>3. U \in [1..n -> X]
    BY <2>1, <2>2
  <2>4. U \in Seq(X) /\ Len(U) = n
    BY <1>3, <2>3
  <2> QED
    BY <2>2, <2>4 DEF X
<1>8. ASSUME NEW i \in Candidates PROVE \E u \in DOMAIN U : i \in U[u].members
  <2>1. PICK k \in 1..n : L[k] = place[i]
    BY <1>3
  <2> QED
    BY <1>6, <1>7, <2>1
<1>9. \A u, v \in DOMAIN U : \A i \in U[u].members \cap U[v].members : u = v
  BY <1>3, <1>6, <1>7
<1>10. \A u \in DOMAIN U : \A i, j \in U[u].members : place[i] = place[j]
  BY <1>6, <1>7
<1>11. SharesOut(U, place)
  BY <1>6, <1>7, <1>8, <1>9, <1>10 DEF SharesOut
<1> QED
  BY <1>7, <1>11 DEF U, n

\* The first candidate of a key has that key.
LEMMA FirstHasKey ==
  ASSUME TypeOK, NEW key
  PROVE  /\ FirstOf(key) \in [Candidates -> Nat]
         /\ \A i \in Candidates : FirstOf(key)[i] \in Candidates /\ key[FirstOf(key)[i]] = key[i]
<1>1. Candidates \subseteq Nat
  BY CandidateNumbers
<1>2. ASSUME NEW i \in Candidates
      PROVE  \E first \in Candidates :
               key[first] = key[i] /\ \A j \in Candidates : key[j] = key[i] => first <= j
  <2> DEFINE T == {j \in Candidates : key[j] = key[i]}
  <2>1. T \in SUBSET Nat /\ T # {}
    BY <1>1
  <2> HIDE DEF T
  <2>2. \E x \in T : \A y \in T : x <= y
    BY <2>1, LeastNumber
  <2> QED
    BY <2>2 DEF T
<1> DEFINE first(i) == CHOOSE first \in Candidates :
                         key[first] = key[i] /\ \A j \in Candidates : key[j] = key[i] => first <= j
<1>3. \A i \in Candidates : first(i) \in Candidates /\ key[first(i)] = key[i]
  BY <1>2
<1>4. FirstOf(key) = [i \in Candidates |-> first(i)]
  BY DEF FirstOf
<1> HIDE DEF first
<1> QED
  BY <1>1, <1>3, <1>4

\* A pair of numbers, the second at most n, is told by one number.
LEMMA PairNumber ==
  ASSUME NEW n \in Nat, NEW a \in Nat, NEW b \in Nat, NEW s \in 0..n, NEW t \in 0..n,
         a * (n + 1) + s = b * (n + 1) + t
  PROVE  a = b
<1>1. ASSUME NEW x \in Nat, NEW y \in Nat, NEW q \in 0..n, NEW r \in 0..n, x < y
      PROVE  x * (n + 1) + q < y * (n + 1) + r
  <2>1. PICK d \in Nat : y = x + 1 + d
    <3>1. y - x - 1 \in Nat
      BY <1>1
    <3> QED
      BY <3>1
  <2>2. y * (n + 1) = x * (n + 1) + (n + 1) + d * (n + 1)
    BY <2>1
  <2>3. d * (n + 1) >= 0 /\ d * (n + 1) \in Int /\ x * (n + 1) \in Int
    OBVIOUS
  <2> QED
    BY <2>2, <2>3
<1>2. ~(a < b) /\ ~(b < a)
  <2>1. a < b => a * (n + 1) + s < b * (n + 1) + t
    BY <1>1
  <2>2. b < a => b * (n + 1) + t < a * (n + 1) + s
    BY <1>1
  <2>3. a * (n + 1) + s \in Int /\ b * (n + 1) + t \in Int
    OBVIOUS
  <2> QED
    BY <2>1, <2>2, <2>3
<1> QED
  BY <1>2

\* Whatever the scan, its units share the candidates out, each unit to one registry.
LEMMA UnitsShareOut ==
  ASSUME TypeOK
  PROVE  /\ \E place : SharesOut(Units, place)
         /\ \A u \in DOMAIN Units : \A i \in Units[u].members : Units[u].base = BaseOf(i)
         /\ scan = "integrity" => Len(Units) = Cardinality(Candidates)
<1> DEFINE Good1(U) == /\ \E place : SharesOut(U, place)
                       /\ \A u \in DOMAIN U : \A i \in U[u].members : U[u].base = BaseOf(i)
<1>1. ASSUME NEW place \in [Candidates -> Nat],
             \A i, j \in Candidates : place[i] = place[j] => BaseOf(i) = BaseOf(j)
      PROVE  Good1(UnitsBy(place))
  <2> DEFINE U == UnitsBy(place)
  <2>1. SharesOut(U, place)
    BY ByPlace
  <2> HIDE DEF U
  <2>2. ASSUME NEW u \in DOMAIN U, NEW i \in U[u].members PROVE U[u].base = BaseOf(i)
    <3>1. U[u].members \subseteq Candidates
      <4> DEFINE X == [base : Bases, members : SUBSET Candidates]
      <4>1. U \in Seq(X)
        BY <2>1 DEF SharesOut
      <4> HIDE DEF X
      <4>2. U[u] \in X
        BY <4>1
      <4> QED
        BY <4>2 DEF X
    <3>2. PICK j \in U[u].members : U[u].base = BaseOf(j)
      BY <2>1 DEF SharesOut
    <3>3. place[i] = place[j]
      BY <2>1, <3>2 DEF SharesOut
    <3> QED
      BY <1>1, <3>1, <3>2, <3>3
  <2> QED
    BY <2>1, <2>2 DEF U
<1> HIDE DEF Good1
<1>2. Good1(SingleUnits) /\ Len(SingleUnits) = Cardinality(Candidates)
  <2> DEFINE place == [i \in Candidates |-> i]
  <2>1. place \in [Candidates -> Nat] /\ {place[i] : i \in Candidates} = Candidates
    BY CandidateNumbers
  <2>2. \A i, j \in Candidates : place[i] = place[j] => BaseOf(i) = BaseOf(j)
    OBVIOUS
  <2>3. SingleUnits = UnitsBy(place)
    BY DEF SingleUnits
  <2> HIDE DEF place
  <2> QED
    BY <1>1, <2>1, <2>2, <2>3, ByPlace
<1>3. Good1(GroupUnits)
  <2> DEFINE key == [i \in Candidates |-> <<BaseOf(i), entries[i].name, entries[i].version>>]
             place == FirstOf(key)
  <2>1. \A i, j \in Candidates : key[i] = key[j] => BaseOf(i) = BaseOf(j)
    OBVIOUS
  <2>2. GroupUnits = UnitsBy(place)
    BY DEF GroupUnits
  <2> HIDE DEF key
  <2>3. place \in [Candidates -> Nat] /\ \A i \in Candidates : key[place[i]] = key[i]
    BY FirstHasKey
  <2> HIDE DEF place
  <2>4. \A i, j \in Candidates : place[i] = place[j] => BaseOf(i) = BaseOf(j)
    BY <2>1, <2>3
  <2> QED
    BY <1>1, <2>2, <2>3, <2>4
<1>4. Good1(BatchUnits)
  <2> DEFINE base == [i \in Candidates |-> BaseOf(i)]
             registry == FirstOf(base)
             name == FirstOf([i \in Candidates |-> <<BaseOf(i), entries[i].name>>])
             named(i) == {name[j] : j \in {j \in Candidates : BaseOf(j) = BaseOf(i) /\ name[j] < name[i]}}
             slice(i) == Cardinality(named(i)) \div options.batch
             place == [i \in Candidates |-> registry[i] * (Size + 1) + slice(i)]
  <2>1. BatchUnits = UnitsBy(place)
    BY DEF BatchUnits
  <2>2. \A i \in Candidates : name[i] \in Candidates
    BY FirstHasKey
  <2>3. registry \in [Candidates -> Nat]
        /\ \A i \in Candidates : registry[i] \in Candidates /\ base[registry[i]] = base[i]
    BY FirstHasKey
  <2> HIDE DEF registry, name
  <2>4. ASSUME NEW i \in Candidates PROVE slice(i) \in 0..Size
    <3>1. named(i) \subseteq 1..Size
      BY <2>2, CandidateNumbers
    <3>2. Size \in Nat /\ IsFiniteSet(1..Size) /\ Cardinality(1..Size) = Size
      BY CandidateNumbers, FS_Interval, SMT
    <3>3. Cardinality(named(i)) \in Nat /\ Cardinality(named(i)) <= Size
      <4> HIDE DEF named
      <4> QED
        BY <3>1, <3>2, FS_Subset, FS_CardinalityType
    <3>4. options.batch \in Nat \ {0}
      BY ScanAssumption DEF TypeOK, Options, ScanAssumption
    <3>5. \A x \in Nat, b \in Nat \ {0} : x \div b \in Nat /\ x \div b <= x
      OBVIOUS
    <3> HIDE DEF named
    <3> QED
      BY <3>2, <3>3, <3>4, <3>5
  <2> HIDE DEF slice
  <2>5. place \in [Candidates -> Nat]
    <3>1. ASSUME NEW i \in Candidates PROVE registry[i] * (Size + 1) + slice(i) \in Nat
      <4>1. registry[i] \in Nat /\ Size + 1 \in Nat /\ slice(i) \in Nat
        BY <2>3, <2>4, CandidateNumbers
      <4> QED
        BY <4>1
    <3> QED
      BY <3>1
  <2>6. ASSUME NEW i \in Candidates, NEW j \in Candidates, place[i] = place[j] PROVE BaseOf(i) = BaseOf(j)
    <3>1. registry[i] * (Size + 1) + slice(i) = registry[j] * (Size + 1) + slice(j)
      BY <2>6
    <3>2. registry[i] = registry[j]
      BY <2>3, <2>4, <3>1, CandidateNumbers, PairNumber
    <3> QED
      BY <2>3, <3>2
  <2> HIDE DEF place
  <2> QED
    BY <1>1, <2>1, <2>5, <2>6
<1>5. scan \in {"integrity", "deprecation", "advisories"}
  BY ScanAssumption DEF TypeOK, ScanAssumption
<1>6. Good1(Units)
  BY <1>2, <1>3, <1>4, <1>5 DEF Units
<1>7. scan = "integrity" => Len(Units) = Cardinality(Candidates)
  BY <1>2 DEF Units
<1> QED
  BY <1>6, <1>7 DEF Good1
-------------------------------------------------------------------------------
(* Recording *)

\* The fields of a tally.
LEMMA Parts ==
  ASSUME NEW r \in Tallies
  PROVE  /\ r.valid \in BOOLEAN /\ r.good \in Nat /\ r.bad \in Nat /\ r.skipped \in Int
         /\ r.unresolved \in Nat /\ r.scanned \in Nat /\ r.errors \in SUBSET Nat
         /\ r.warnings \in SUBSET Nat /\ r.details \in Seq(Nat)
  BY DEF Tallies

\* What each recorder adds, and what it leaves.
LEMMA WhenAnswered ==
  ASSUME NEW r \in Tallies, NEW S \in SUBSET Nat, IsFiniteSet(S)
  PROVE  LET q == Answered(r, S) IN
         /\ q \in Tallies /\ q.details = r.details \o Ascending(S)
         /\ q.scanned = IF scan = "integrity" THEN r.scanned ELSE r.scanned + Cardinality(S)
         /\ q.skipped = r.skipped /\ q.good = r.good /\ q.bad = r.bad
         /\ q.unresolved = r.unresolved /\ q.errors = r.errors /\ q.valid = r.valid
<1> DEFINE d == r.details \o Ascending(S)
           c == IF scan = "integrity" THEN r.scanned ELSE r.scanned + Cardinality(S)
           q == Answered(r, S)
<1>1. q = [r EXCEPT !.details = d, !.scanned = c]
  BY DEF Answered
<1>2. d \in Seq(Nat)
  <2> DEFINE s == Ascending(S)
  <2>1. s \in Seq(S)
    BY AscendingLists DEF Enumerates
  <2> HIDE DEF s
  <2>2. s \in Seq(Nat)
    <3>1. Len(s) \in Nat /\ s \in [1..Len(s) -> S]
      BY <2>1
    <3>2. s \in [1..Len(s) -> Nat]
      BY <3>1
    <3> QED
      BY <3>1, <3>2
  <2>3. r.details \in Seq(Nat)
    BY Parts
  <2> QED
    BY <2>2, <2>3 DEF s
<1>3. c \in Nat
  <2>1. Cardinality(S) \in Nat
    BY FS_CardinalityType
  <2>2. r.scanned \in Nat
    BY Parts
  <2> QED
    BY <2>1, <2>2
<1> HIDE DEF d, c, q
<1>4. q \in Tallies /\ q.details = d /\ q.scanned = c
  BY <1>1, <1>2, <1>3 DEF Tallies
<1>5. /\ q.skipped = r.skipped /\ q.good = r.good /\ q.bad = r.bad
      /\ q.unresolved = r.unresolved /\ q.errors = r.errors /\ q.valid = r.valid
  BY <1>1 DEF Tallies
<1> QED
  BY <1>4, <1>5 DEF d, c, q

\* Entries that are as they should be.
LEMMA WhenGood ==
  ASSUME NEW r \in Tallies, NEW S \in SUBSET Nat, Cardinality(S) \in Nat
  PROVE  LET q == Good(r, S) IN
         /\ q \in Tallies /\ q.details = r.details /\ q.scanned = r.scanned
         /\ q.skipped = r.skipped /\ q.good = r.good + Cardinality(S) /\ q.bad = r.bad
         /\ q.unresolved = r.unresolved /\ q.errors = r.errors /\ q.valid = r.valid
<1> DEFINE g == r.good + Cardinality(S)
           q == Good(r, S)
<1>1. q = [r EXCEPT !.good = g]
  BY DEF Good
<1>2. g \in Nat
  BY Parts
<1> HIDE DEF g, q
<1>3. q \in Tallies /\ q.good = g
  BY <1>1, <1>2 DEF Tallies
<1>4. /\ q.details = r.details /\ q.scanned = r.scanned /\ q.skipped = r.skipped /\ q.bad = r.bad
      /\ q.unresolved = r.unresolved /\ q.errors = r.errors /\ q.valid = r.valid
  BY <1>1 DEF Tallies
<1> QED
  BY <1>3, <1>4 DEF g, q

\* Entries that fail the run.
LEMMA WhenFailed ==
  ASSUME NEW r \in Tallies, NEW S \in SUBSET Nat, Cardinality(S) \in Nat
  PROVE  LET q == Failed(r, S) IN
         /\ q \in Tallies /\ q.details = r.details /\ q.scanned = r.scanned
         /\ q.skipped = r.skipped /\ q.good = r.good /\ q.bad = r.bad + Cardinality(S)
         /\ q.unresolved = r.unresolved
         /\ q.errors = r.errors \cup S /\ (q.valid <=> r.valid /\ S = {})
<1> DEFINE v == (r.valid /\ S = {})
           b == r.bad + Cardinality(S)
           e == r.errors \cup S
           q == Failed(r, S)
<1>1. q = [r EXCEPT !.bad = b, !.valid = v, !.errors = e]
  BY DEF Failed
<1>2. v \in BOOLEAN
  OBVIOUS
<1>3. b \in Nat
  BY Parts
<1>4. e \in SUBSET Nat
  BY Parts
<1> HIDE DEF v, b, e, q
<1>5. q \in Tallies /\ q.bad = b /\ q.valid = v /\ q.errors = e
  BY <1>1, <1>2, <1>3, <1>4 DEF Tallies
<1>6. /\ q.details = r.details /\ q.scanned = r.scanned /\ q.skipped = r.skipped
      /\ q.good = r.good /\ q.unresolved = r.unresolved
  BY <1>1 DEF Tallies
<1> QED
  BY <1>5, <1>6 DEF v, b, e, q

\* Entries that are told of, and do not fail the run.
LEMMA WhenWarned ==
  ASSUME NEW r \in Tallies, NEW S \in SUBSET Nat, Cardinality(S) \in Nat
  PROVE  LET q == Warned(r, S) IN
         /\ q \in Tallies /\ q.details = r.details /\ q.scanned = r.scanned
         /\ q.skipped = r.skipped /\ q.good = r.good /\ q.bad = r.bad + Cardinality(S)
         /\ q.unresolved = r.unresolved /\ q.errors = r.errors /\ q.valid = r.valid
<1> DEFINE b == r.bad + Cardinality(S)
           w == r.warnings \cup S
           q == Warned(r, S)
<1>1. q = [r EXCEPT !.bad = b, !.warnings = w]
  BY DEF Warned
<1>2. b \in Nat
  BY Parts
<1>3. w \in SUBSET Nat
  BY Parts
<1> HIDE DEF b, w, q
<1>4. q \in Tallies /\ q.bad = b
  BY <1>1, <1>2, <1>3 DEF Tallies
<1>5. /\ q.details = r.details /\ q.scanned = r.scanned /\ q.skipped = r.skipped /\ q.good = r.good
      /\ q.unresolved = r.unresolved /\ q.errors = r.errors /\ q.valid = r.valid
  BY <1>1 DEF Tallies
<1> QED
  BY <1>4, <1>5 DEF b, q

\* Entries nothing is known of, which fail the run unless it is told to let them pass.
LEMMA WhenUnresolved ==
  ASSUME NEW r \in Tallies, NEW S \in SUBSET Nat, Cardinality(S) \in Nat
  PROVE  LET q == Unresolved(r, S) IN
         /\ q \in Tallies /\ q.details = r.details /\ q.scanned = r.scanned
         /\ q.skipped = r.skipped /\ q.good = r.good /\ q.unresolved = r.unresolved + Cardinality(S)
         /\ options.failOnUnresolved =>
              /\ q.bad = r.bad + IF scan = "integrity" THEN Cardinality(S) ELSE 0
              /\ q.errors = r.errors \cup S
              /\ q.valid <=> r.valid /\ S = {}
         /\ ~options.failOnUnresolved => q.bad = r.bad /\ q.errors = r.errors /\ q.valid = r.valid
<1> DEFINE n == r.unresolved + Cardinality(S)
           v == (r.valid /\ S = {})
           b == IF scan = "integrity" THEN r.bad + Cardinality(S) ELSE r.bad
           e == r.errors \cup S
           p == [r EXCEPT !.unresolved = n]
           q == Unresolved(r, S)
<1>1. n \in Nat
  BY Parts
<1>2. v \in BOOLEAN
  OBVIOUS
<1>3. b \in Nat
  BY Parts
<1>4. e \in SUBSET Nat
  BY Parts
<1>5. /\ p.valid = r.valid /\ p.errors = r.errors /\ p.bad = r.bad
  BY DEF Tallies
<1>6. /\ options.failOnUnresolved => q = [p EXCEPT !.valid = v, !.errors = e, !.bad = b]
      /\ ~options.failOnUnresolved => q = p
  BY <1>5 DEF Unresolved
<1>7. b = r.bad + IF scan = "integrity" THEN Cardinality(S) ELSE 0
  BY Parts
<1> HIDE DEF n, v, b, e, q
<1>8. /\ q \in Tallies /\ q.details = r.details /\ q.scanned = r.scanned /\ q.skipped = r.skipped
      /\ q.good = r.good /\ q.unresolved = n
  <2>1. CASE options.failOnUnresolved
    <3>1. q = [p EXCEPT !.valid = v, !.errors = e, !.bad = b]
      BY <1>6, <2>1
    <3> QED
      BY <1>1, <1>2, <1>3, <1>4, <3>1 DEF Tallies
  <2>2. CASE ~options.failOnUnresolved
    <3>1. q = p
      BY <1>6, <2>2
    <3> QED
      BY <1>1, <3>1 DEF Tallies
  <2> QED
    BY <2>1, <2>2
<1>9. options.failOnUnresolved => q.bad = b /\ q.errors = e /\ q.valid = v
  BY <1>6 DEF Tallies
<1>10. ~options.failOnUnresolved => q.bad = r.bad /\ q.errors = r.errors /\ q.valid = r.valid
  BY <1>5, <1>6
<1> QED
  BY <1>7, <1>8, <1>9, <1>10 DEF n, v, e, q

\* What is recorded of each entry, and of no entry twice, is the sum of the parts.
LEMMA Recording ==
  ASSUME NEW r \in Tallies, NEW S \in SUBSET Nat, IsFiniteSet(S), NEW outcome
  PROVE  LET q == Record(r, S, outcome) IN
         /\ q \in Tallies
         /\ q.details = r.details \o Ascending(S)
         /\ q.scanned = IF scan = "integrity" THEN r.scanned ELSE r.scanned + Cardinality(S)
         /\ q.skipped = r.skipped
         /\ q.good = r.good + Cardinality(With(S, outcome, "good"))
         /\ q.unresolved = r.unresolved + Cardinality(With(S, outcome, "unresolved"))
         /\ q.bad = r.bad + Cardinality(With(S, outcome, "failed"))
                     + Cardinality(With(S, outcome, "warned"))
                     + IF scan = "integrity" THEN Cardinality(Open(S, outcome)) ELSE 0
         /\ q.errors = r.errors \cup With(S, outcome, "failed") \cup Open(S, outcome)
         /\ q.valid <=> r.valid /\ With(S, outcome, "failed") = {} /\ Open(S, outcome) = {}
<1> DEFINE as(o) == With(S, outcome, o)
           G == as("good")
           F == as("failed")
           W == as("warned")
           N == as("unresolved")
           a == Answered(r, S)
           b == Good(a, G)
           c == Failed(b, F)
           d == Warned(c, W)
           e == Unresolved(d, N)
<1>1. ASSUME NEW o PROVE as(o) \in SUBSET Nat /\ Cardinality(as(o)) \in Nat
  <2>1. as(o) \subseteq S
    BY DEF With
  <2> QED
    BY <2>1, FS_Subset, FS_CardinalityType
<1>2. e = Record(r, S, outcome)
  BY DEF Record, With
<1>3. /\ options.failOnUnresolved => Open(S, outcome) = N
      /\ ~options.failOnUnresolved => Open(S, outcome) = {}
  BY DEF Open
<1> HIDE DEF as
<1>4. /\ G \in SUBSET Nat /\ Cardinality(G) \in Nat /\ F \in SUBSET Nat /\ Cardinality(F) \in Nat
      /\ W \in SUBSET Nat /\ Cardinality(W) \in Nat /\ N \in SUBSET Nat /\ Cardinality(N) \in Nat
  BY <1>1
<1> HIDE DEF G, F, W, N
<1>5. /\ a \in Tallies /\ a.details = r.details \o Ascending(S)
      /\ a.scanned = IF scan = "integrity" THEN r.scanned ELSE r.scanned + Cardinality(S)
      /\ a.skipped = r.skipped /\ a.good = r.good /\ a.bad = r.bad /\ a.unresolved = r.unresolved
      /\ a.errors = r.errors /\ a.valid = r.valid
  BY WhenAnswered
<1> HIDE DEF a
<1>6. /\ b \in Tallies /\ b.details = a.details /\ b.scanned = a.scanned /\ b.skipped = a.skipped
      /\ b.good = a.good + Cardinality(G) /\ b.bad = a.bad /\ b.unresolved = a.unresolved
      /\ b.errors = a.errors /\ b.valid = a.valid
  BY <1>4, <1>5, WhenGood
<1> HIDE DEF b
<1>7. /\ c \in Tallies /\ c.details = b.details /\ c.scanned = b.scanned /\ c.skipped = b.skipped
      /\ c.good = b.good /\ c.bad = b.bad + Cardinality(F) /\ c.unresolved = b.unresolved
      /\ c.errors = b.errors \cup F /\ (c.valid <=> b.valid /\ F = {})
  BY <1>4, <1>6, WhenFailed
<1> HIDE DEF c
<1>8. /\ d \in Tallies /\ d.details = c.details /\ d.scanned = c.scanned /\ d.skipped = c.skipped
      /\ d.good = c.good /\ d.bad = c.bad + Cardinality(W) /\ d.unresolved = c.unresolved
      /\ d.errors = c.errors /\ d.valid = c.valid
  BY <1>4, <1>7, WhenWarned
<1> HIDE DEF d
<1>9. /\ e \in Tallies /\ e.details = d.details /\ e.scanned = d.scanned /\ e.skipped = d.skipped
      /\ e.good = d.good /\ e.unresolved = d.unresolved + Cardinality(N)
      /\ options.failOnUnresolved =>
           /\ e.bad = d.bad + IF scan = "integrity" THEN Cardinality(N) ELSE 0
           /\ e.errors = d.errors \cup N
           /\ e.valid <=> d.valid /\ N = {}
      /\ ~options.failOnUnresolved => e.bad = d.bad /\ e.errors = d.errors /\ e.valid = d.valid
  <2>1. d \in Tallies /\ N \in SUBSET Nat /\ Cardinality(N) \in Nat
    BY <1>4, <1>8
  <2> QED
    BY <2>1, WhenUnresolved, Zenon
<1> HIDE DEF e
<1>10. /\ e.details = r.details \o Ascending(S) /\ e.skipped = r.skipped
       /\ e.scanned = IF scan = "integrity" THEN r.scanned ELSE r.scanned + Cardinality(S)
       /\ e.good = r.good + Cardinality(G) /\ e.unresolved = r.unresolved + Cardinality(N)
  BY <1>5, <1>6, <1>7, <1>8, <1>9
<1>11. e.errors = r.errors \cup F \cup Open(S, outcome)
  BY <1>3, <1>5, <1>6, <1>7, <1>8, <1>9
<1>12. e.valid <=> r.valid /\ F = {} /\ Open(S, outcome) = {}
  BY <1>3, <1>5, <1>6, <1>7, <1>8, <1>9
<1>13. e.bad = r.bad + Cardinality(F) + Cardinality(W)
                 + IF scan = "integrity" THEN Cardinality(Open(S, outcome)) ELSE 0
  <2>1. r.bad \in Nat
    BY Parts
  <2>2. d.bad = r.bad + Cardinality(F) + Cardinality(W)
    BY <1>5, <1>6, <1>7, <1>8
  <2>3. Cardinality({}) = 0
    BY FS_EmptySet
  <2> QED
    BY <1>3, <1>4, <1>9, <2>1, <2>2, <2>3
<1> QED
  BY <1>2, <1>9, <1>10, <1>11, <1>12, <1>13 DEF as, G, F, W, N

\* A list of S and one of M, which S has nothing of, make one of both.
LEMMA EnumerateMore ==
  ASSUME NEW S, IsFiniteSet(S), NEW M, IsFiniteSet(M), S \cap M = {},
         NEW s, Enumerates(s, S), NEW m, Enumerates(m, M)
  PROVE  Enumerates(s \o m, S \cup M)
<1> DEFINE q == s \o m
<1>1. /\ s \in Seq(S) /\ Len(s) = Cardinality(S) /\ m \in Seq(M) /\ Len(m) = Cardinality(M)
      /\ Len(s) \in Nat /\ Len(m) \in Nat /\ DOMAIN s = 1..Len(s) /\ DOMAIN m = 1..Len(m)
  BY FS_CardinalityType DEF Enumerates
<1>2. /\ q \in Seq(S \cup M) /\ Len(q) = Len(s) + Len(m) /\ DOMAIN q = 1..(Len(s) + Len(m))
      /\ \A k \in 1..Len(s) : q[k] = s[k]
      /\ \A k \in 1..Len(m) : q[Len(s) + k] = m[k]
  <2>1. s \in Seq(S \cup M) /\ m \in Seq(S \cup M)
    BY <1>1
  <2> QED
    BY <1>1, <2>1
<1>3. Cardinality(S \cup M) = Len(s) + Len(m)
  <2>1. Cardinality(S \cup M) = Cardinality(S) + Cardinality(M) - Cardinality(S \cap M)
    BY FS_Union
  <2>2. Cardinality(S \cap M) = 0
    BY FS_EmptySet
  <2> QED
    BY <1>1, <2>1, <2>2
<1> HIDE DEF q
<1>4. ASSUME NEW x \in S \cup M PROVE \E k \in DOMAIN q : q[k] = x
  <2>1. CASE x \in S
    <3>1. PICK k \in DOMAIN s : s[k] = x
      BY <2>1 DEF Enumerates
    <3> QED
      BY <1>1, <1>2, <3>1
  <2>2. CASE x \in M
    <3>1. PICK k \in DOMAIN m : m[k] = x
      BY <2>2 DEF Enumerates
    <3>2. Len(s) + k \in DOMAIN q /\ q[Len(s) + k] = x
      BY <1>1, <1>2, <3>1
    <3> QED
      BY <3>2
  <2> QED
    BY <2>1, <2>2
<1>5. ASSUME NEW k \in DOMAIN q
      PROVE  \/ k \in DOMAIN s /\ q[k] = s[k] /\ q[k] \in S
             \/ k - Len(s) \in DOMAIN m /\ q[k] = m[k - Len(s)] /\ q[k] \in M
  <2>1. CASE k <= Len(s)
    <3>1. k \in DOMAIN s /\ q[k] = s[k]
      BY <1>1, <1>2, <2>1
    <3> QED
      BY <1>1, <3>1
  <2>2. CASE ~(k <= Len(s))
    <3>1. k - Len(s) \in 1..Len(m) /\ Len(s) + (k - Len(s)) = k
      BY <1>1, <1>2, <2>2
    <3>2. q[k] = m[k - Len(s)]
      BY <1>2, <3>1
    <3> QED
      BY <1>1, <3>1, <3>2
  <2> QED
    BY <2>1, <2>2
<1>6. ASSUME NEW j \in DOMAIN q, NEW k \in DOMAIN q, q[j] = q[k] PROVE j = k
  <2>1. \/ j \in DOMAIN s /\ k \in DOMAIN s /\ s[j] = s[k]
        \/ /\ j - Len(s) \in DOMAIN m /\ k - Len(s) \in DOMAIN m
           /\ m[j - Len(s)] = m[k - Len(s)]
    BY <1>5, <1>6
  <2>2. j \in Int /\ k \in Int
    BY <1>2
  <2> QED
    BY <1>1, <2>1, <2>2 DEF Enumerates
<1> QED
  BY <1>1, <1>2, <1>3, <1>4, <1>6 DEF Enumerates, q

\* The tally of S, and what is recorded of M, is the tally of both.
LEMMA TallyMore ==
  ASSUME NEW r \in Tallies, NEW S \in SUBSET Nat, IsFiniteSet(S),
         NEW M \in SUBSET Nat, IsFiniteSet(M), S \cap M = {},
         NEW old, NEW new, NEW all,
         \A i \in S : all[i] = old[i], \A i \in M : all[i] = new[i], Tally(r, S, old)
  PROVE  Tally(Record(r, M, new), S \cup M, all)
<1> DEFINE q == Record(r, M, new)
<1>1. /\ q \in Tallies
      /\ q.details = r.details \o Ascending(M)
      /\ q.good = r.good + Cardinality(With(M, new, "good"))
      /\ q.unresolved = r.unresolved + Cardinality(With(M, new, "unresolved"))
      /\ q.bad = r.bad + Cardinality(With(M, new, "failed")) + Cardinality(With(M, new, "warned"))
                  + IF scan = "integrity" THEN Cardinality(Open(M, new)) ELSE 0
      /\ q.errors = r.errors \cup With(M, new, "failed") \cup Open(M, new)
      /\ q.valid <=> r.valid /\ With(M, new, "failed") = {} /\ Open(M, new) = {}
  BY Recording
<1> HIDE DEF q
<1>2. ASSUME NEW o
      PROVE  /\ With(S \cup M, all, o) = With(S, old, o) \cup With(M, new, o)
             /\ Cardinality(With(S \cup M, all, o))
                  = Cardinality(With(S, old, o)) + Cardinality(With(M, new, o))
             /\ Cardinality(With(S, old, o)) \in Nat /\ Cardinality(With(M, new, o)) \in Nat
  <2>1. With(S, old, o) \subseteq S /\ With(M, new, o) \subseteq M
    BY DEF With
  <2>2. With(S \cup M, all, o) = With(S, old, o) \cup With(M, new, o)
    BY DEF With
  <2>3. IsFiniteSet(With(S, old, o)) /\ IsFiniteSet(With(M, new, o))
    BY <2>1, FS_Subset
  <2>4. With(S, old, o) \cap With(M, new, o) = {}
    BY <2>1
  <2>5. Cardinality(With(S, old, o)) \in Nat /\ Cardinality(With(M, new, o)) \in Nat
    BY <2>3, FS_CardinalityType
  <2> DEFINE X == With(S, old, o)
             Y == With(M, new, o)
  <2> HIDE DEF X, Y
  <2>6. Cardinality(X \cup Y) = Cardinality(X) + Cardinality(Y) - Cardinality(X \cap Y)
    BY <2>3, FS_Union DEF X, Y
  <2>7. Cardinality(X \cap Y) = 0
    BY <2>4, FS_EmptySet DEF X, Y
  <2>8. Cardinality(X \cup Y) = Cardinality(X) + Cardinality(Y)
    BY <2>5, <2>6, <2>7 DEF X, Y
  <2> QED
    BY <2>2, <2>5, <2>8 DEF X, Y
<1>3. /\ Open(S \cup M, all) = Open(S, old) \cup Open(M, new)
      /\ Cardinality(Open(S \cup M, all)) = Cardinality(Open(S, old)) + Cardinality(Open(M, new))
      /\ Cardinality(Open(S, old)) \in Nat /\ Cardinality(Open(M, new)) \in Nat
  <2>1. Cardinality({}) = 0
    BY FS_EmptySet
  <2>2. /\ With(S \cup M, all, "unresolved") = With(S, old, "unresolved") \cup With(M, new, "unresolved")
        /\ Cardinality(With(S \cup M, all, "unresolved"))
             = Cardinality(With(S, old, "unresolved")) + Cardinality(With(M, new, "unresolved"))
        /\ Cardinality(With(S, old, "unresolved")) \in Nat
        /\ Cardinality(With(M, new, "unresolved")) \in Nat
    BY <1>2
  <2>3. CASE options.failOnUnresolved
    <3>1. /\ Open(S \cup M, all) = With(S \cup M, all, "unresolved")
          /\ Open(S, old) = With(S, old, "unresolved") /\ Open(M, new) = With(M, new, "unresolved")
      BY <2>3 DEF Open
    <3> QED
      BY <2>2, <3>1
  <2>4. CASE ~options.failOnUnresolved
    <3>1. Open(S \cup M, all) = {} /\ Open(S, old) = {} /\ Open(M, new) = {}
      BY <2>4 DEF Open
    <3> QED
      BY <2>1, <3>1
  <2> QED
    BY <2>3, <2>4
<1>4. Enumerates(q.details, S \cup M)
  <2>1. Enumerates(r.details, S)
    BY DEF Tally
  <2>2. Enumerates(Ascending(M), M)
    BY AscendingLists
  <2>3. Enumerates(r.details \o Ascending(M), S \cup M)
    BY <2>1, <2>2, EnumerateMore
  <2> QED
    BY <1>1, <2>3
<1>5. /\ r.good = Cardinality(With(S, old, "good"))
      /\ r.unresolved = Cardinality(With(S, old, "unresolved"))
      /\ r.bad = Cardinality(With(S, old, "failed")) + Cardinality(With(S, old, "warned"))
                   + IF scan = "integrity" THEN Cardinality(Open(S, old)) ELSE 0
      /\ r.errors = With(S, old, "failed") \cup Open(S, old)
      /\ r.valid <=> r.errors = {}
  BY DEF Tally
<1>6. q.bad = Cardinality(With(S \cup M, all, "failed")) + Cardinality(With(S \cup M, all, "warned"))
               + IF scan = "integrity" THEN Cardinality(Open(S \cup M, all)) ELSE 0
  <2>1. /\ Cardinality(With(S \cup M, all, "failed"))
             = Cardinality(With(S, old, "failed")) + Cardinality(With(M, new, "failed"))
        /\ Cardinality(With(S, old, "failed")) \in Nat /\ Cardinality(With(M, new, "failed")) \in Nat
    BY <1>2
  <2>2. /\ Cardinality(With(S \cup M, all, "warned"))
             = Cardinality(With(S, old, "warned")) + Cardinality(With(M, new, "warned"))
        /\ Cardinality(With(S, old, "warned")) \in Nat /\ Cardinality(With(M, new, "warned")) \in Nat
    BY <1>2
  <2> QED
    BY <1>1, <1>3, <1>5, <2>1, <2>2
<1>7. q.errors = With(S \cup M, all, "failed") \cup Open(S \cup M, all)
  BY <1>1, <1>2, <1>3, <1>5
<1>8. q.valid <=> q.errors = {}
  BY <1>1, <1>5
<1> QED
  BY <1>1, <1>2, <1>4, <1>5, <1>6, <1>7, <1>8 DEF Tally, q
-------------------------------------------------------------------------------
(* The invariant *)

\* A candidate has one unit, which asks its own registry.
LEMMA OneUnit ==
  ASSUME TypeOK, Parted
  PROVE  /\ Len(units) \in Nat /\ DOMAIN units = 1..Len(units)
         /\ \A i \in Candidates : /\ UnitOf(i) \in DOMAIN units /\ i \in units[UnitOf(i)].members
                                  /\ units[UnitOf(i)].base = BaseOf(i)
         /\ \A u \in DOMAIN units :
              /\ units[u].members \in SUBSET Candidates /\ units[u].members \in SUBSET Nat
              /\ IsFiniteSet(units[u].members)
              /\ \A i \in units[u].members : UnitOf(i) = u
<1>1. Len(units) \in Nat /\ DOMAIN units = 1..Len(units)
      /\ \A u \in DOMAIN units : units[u].members \in SUBSET Candidates
  <2> DEFINE X == [base : Bases, members : SUBSET Candidates]
  <2>1. units \in Seq(X)
    BY DEF Parted
  <2> HIDE DEF X
  <2>2. Len(units) \in Nat /\ DOMAIN units = 1..Len(units) /\ \A u \in DOMAIN units : units[u] \in X
    BY <2>1
  <2> QED
    BY <2>2 DEF X
<1>2. ASSUME NEW u \in DOMAIN units
      PROVE  units[u].members \in SUBSET Nat /\ IsFiniteSet(units[u].members)
  BY <1>1, CandidateNumbers, FS_Subset
<1>3. ASSUME NEW i \in Candidates PROVE UnitOf(i) \in DOMAIN units /\ i \in units[UnitOf(i)].members
  <2>1. \E u \in DOMAIN units : i \in units[u].members
    BY DEF Parted
  <2> QED
    BY <2>1 DEF UnitOf
<1>4. ASSUME NEW i \in Candidates PROVE units[UnitOf(i)].base = BaseOf(i)
  BY <1>3 DEF Parted
<1>5. ASSUME NEW u \in DOMAIN units, NEW i \in units[u].members PROVE UnitOf(i) = u
  <2>1. i \in Candidates
    BY <1>1
  <2>2. UnitOf(i) \in DOMAIN units /\ i \in units[UnitOf(i)].members \cap units[u].members
    BY <1>3, <2>1
  <2> QED
    BY <2>2 DEF Parted
<1> QED
  BY <1>1, <1>2, <1>3, <1>4, <1>5

\* The start.
LEMMA InitInv == Init => IInv
<1> SUFFICES ASSUME Init PROVE IInv
  OBVIOUS
<1>1. ~Begun /\ phase = "call" /\ results = NoResults /\ completed = 0
  BY DEF Init, Begun
<1>2. results \in Tallies
  <2>1. <<>> \in Seq(Nat)
    OBVIOUS
  <2> QED
    BY <1>1, <2>1 DEF NoResults, Tallies
<1>3. TypeOK
  BY <1>2 DEF Init, TypeOK
<1>4. Fresh
  BY <1>1 DEF Fresh
<1> QED
  BY <1>1, <1>3, <1>4 DEF IInv

\* What the lockfile and the options tell does not change.
LEMMA SameGiven ==
  ASSUME UNCHANGED given
  PROVE  /\ Candidates' = Candidates /\ Size' = Size
         /\ \A i : BaseOf(i)' = BaseOf(i)
         /\ \A u : Trusted(u)' <=> Trusted(u)
         /\ \A u, n : Asked(u, n)' = Asked(u, n)
         /\ \A u, a : Sayable(u, a)' <=> Sayable(u, a)
         /\ \A u, i, a : Outcome(u, i, a)' = Outcome(u, i, a)
         /\ \A r, S, f : Tally(r, S, f)' <=> Tally(r, S, f)
<1> USE DEF given
<1>1. Size' = Size
  BY DEF Size
<1>2. Candidates' = Candidates
  BY <1>1 DEF Candidates, Verifiable
<1>3. \A i : BaseOf(i)' = BaseOf(i)
  BY DEF BaseOf
<1>4. \A u : Trusted(u)' <=> Trusted(u)
  BY DEF Trusted
<1>5. \A u, n : Asked(u, n)' = Asked(u, n)
  BY DEF Asked
<1>6. \A u, a : Sayable(u, a)' <=> Sayable(u, a)
  BY DEF Sayable
<1>7. \A u, i, a : Outcome(u, i, a)' = Outcome(u, i, a)
  BY <1>5 DEF Outcome, IntegrityOutcome, AllMatch, ManifestOutcome, AdvisoryOutcome, Applies, MultiVersion
<1>8. \A r, S, f : Tally(r, S, f)' <=> Tally(r, S, f)
  BY DEF Tally, Open
<1> QED
  BY <1>1, <1>2, <1>3, <1>4, <1>5, <1>6, <1>7, <1>8

\* What the phase does not change.
LEMMA Frame ==
  ASSUME UNCHANGED <<given, units, next, lane, told, results, completed>>
  PROVE  /\ Begun' <=> Begun
         /\ AllDone' <=> AllDone
         /\ Parted => Parted'
         /\ Shared => Shared'
         /\ Heard => Heard'
         /\ Counted => Counted'
<1>1. Begun' <=> Begun
  BY DEF Begun
<1>2. AllDone' <=> AllDone
  BY DEF AllDone
<1>3. Parted => Parted'
  BY SameGiven DEF Parted, given
<1>4. Shared => Shared'
  BY DEF Shared
<1>5. Heard => Heard'
  BY SameGiven DEF Heard, Recorded, Held
<1>6. Counted => Counted'
  <2>1. ASSUME NEW i PROVE UnitOf(i)' = UnitOf(i) /\ OutcomeOf(i)' = OutcomeOf(i)
    <3>1. UnitOf(i)' = UnitOf(i)
      BY DEF UnitOf
    <3> QED
      BY <3>1, SameGiven DEF OutcomeOf
  <2>2. ASSUME NEW u PROVE (Recorded(u)' <=> Recorded(u)) /\ (Finished(u)' <=> Finished(u))
    BY DEF Recorded, Held, Finished
  <2>3. Done' = Done
    BY <2>1, <2>2, SameGiven DEF Done
  <2> DEFINE F == [i \in Done |-> OutcomeOf(i)]
             C == {u \in DOMAIN units : Finished(u)}
  <2>4. F' = F /\ C' = C
    BY <2>1, <2>2, <2>3
  <2>5. Tally(results, Done, F)' <=> Tally(results, Done, F)
    <3> HIDE DEF F
    <3> QED
      BY <2>3, <2>4, SameGiven
  <2> HIDE DEF F, C
  <2>6. Candidates' = Candidates /\ Size' = Size /\ scan' = scan
    BY SameGiven DEF given
  <2> QED
    BY <2>3, <2>4, <2>5, <2>6 DEF Counted, F, C
<1> QED
  BY <1>1, <1>2, <1>3, <1>4, <1>5, <1>6
\* The call refuses, is offline, or settles: the lanes do nothing.
LEMMA Phases ==
  ASSUME IInv
  PROVE  /\ Refuse => IInv'
         /\ Offline => IInv'
         /\ Settle => IInv'
         /\ UNCHANGED vars => IInv'
<1>1. TypeOK /\ Fresh /\ (Begun => Parted /\ Shared /\ Heard /\ Counted)
      /\ (Begun /\ phase = "returned" => AllDone)
  BY DEF IInv
<1>2. ASSUME UNCHANGED <<given, units, next, lane, told, results, completed>>,
             phase' \in {"call", "running", "threw", "returned"}
      PROVE  TypeOK' /\ (Begun' => Parted' /\ Shared' /\ Heard' /\ Counted')
  <2>1. TypeOK'
    BY <1>1, <1>2 DEF TypeOK, given, Size
  <2> QED
    BY <1>1, <1>2, <2>1, Frame
<1>3. ASSUME Refuse PROVE IInv'
  <2>1. UNCHANGED <<given, units, next, lane, told, results, completed>> /\ phase' = "threw"
        /\ phase = "call"
    BY <1>3 DEF Refuse
  <2>2. Begun' <=> Begun
    BY <2>1, Frame
  <2>3. Fresh'
    BY <1>1, <2>1, <2>2 DEF Fresh
  <2> QED
    BY <1>2, <2>1, <2>3 DEF IInv
<1>4. ASSUME Offline PROVE IInv'
  <2>1. /\ UNCHANGED <<given, units, next, lane, told, completed>> /\ phase' = "returned"
        /\ phase = "call" /\ options.offline /\ results' = [results EXCEPT !.skipped = Size]
    BY <1>4 DEF Offline
  <2>2. ~Begun /\ ~Begun'
    BY <1>1, <2>1 DEF Fresh, Begun
  <2>3. options' = options
    BY <2>1 DEF given
  <2>4. Fresh'
    BY <2>1, <2>2, <2>3 DEF Fresh
  <2>5. results' \in Tallies
    <3>1. Size \in Int /\ results \in Tallies
      BY <1>1, CandidateNumbers DEF TypeOK
    <3> QED
      BY <2>1, <3>1 DEF Tallies
  <2>6. TypeOK'
    BY <1>1, <2>1, <2>5 DEF TypeOK, given, Size
  <2> QED
    BY <2>2, <2>4, <2>6 DEF IInv
<1>5. ASSUME Settle PROVE IInv'
  <2>1. /\ UNCHANGED <<given, units, next, lane, told, results, completed>>
        /\ phase = "running" /\ phase' \in {"threw", "returned"}
        /\ phase' = "returned" => AllDone
    BY <1>5 DEF Settle
  <2>2. (Begun' <=> Begun) /\ (AllDone' <=> AllDone)
    BY <2>1, Frame
  <2>3. Begun
    BY <1>1, <2>1 DEF Fresh
  <2>4. Fresh'
    BY <2>1, <2>2, <2>3 DEF Fresh
  <2> QED
    BY <1>2, <2>1, <2>2, <2>4 DEF IInv
<1>6. ASSUME UNCHANGED vars PROVE IInv'
  <2>1. UNCHANGED <<given, units, next, lane, told, results, completed>> /\ phase' = phase
    BY <1>6 DEF vars, given
  <2>2. (Begun' <=> Begun) /\ (AllDone' <=> AllDone) /\ options' = options
    BY <2>1, Frame DEF given
  <2>3. Fresh'
    BY <1>1, <2>1, <2>2 DEF Fresh
  <2>4. phase \in {"call", "running", "threw", "returned"}
    BY <1>1 DEF TypeOK
  <2> QED
    BY <1>1, <1>2, <2>1, <2>2, <2>3, <2>4 DEF IInv
<1> QED
  BY <1>3, <1>4, <1>5, <1>6

\* The tally of nothing.
LEMMA NothingTallied ==
  ASSUME NEW r \in Tallies, r.details = <<>>, r.good = 0, r.bad = 0, r.unresolved = 0,
         r.errors = {}, r.valid = TRUE, NEW outcome
  PROVE  Tally(r, {}, outcome)
<1>1. \A o : With({}, outcome, o) = {}
  BY DEF With
<1>2. Open({}, outcome) = {}
  BY <1>1 DEF Open
<1>3. Cardinality({}) = 0
  BY FS_EmptySet
<1>4. Enumerates(r.details, {})
  BY <1>3 DEF Enumerates
<1>5. /\ r.good = Cardinality(With({}, outcome, "good"))
      /\ r.unresolved = Cardinality(With({}, outcome, "unresolved"))
  BY <1>1, <1>3
<1>6. r.bad = Cardinality(With({}, outcome, "failed")) + Cardinality(With({}, outcome, "warned"))
                + IF scan = "integrity" THEN Cardinality(Open({}, outcome)) ELSE 0
  <2>1. Cardinality(With({}, outcome, "failed")) = 0 /\ Cardinality(With({}, outcome, "warned")) = 0
        /\ Cardinality(Open({}, outcome)) = 0
    BY <1>1, <1>2, <1>3
  <2> QED
    BY <2>1
<1> QED
  BY <1>1, <1>2, <1>4, <1>5, <1>6 DEF Tally

\* The lanes start: each has a unit of its own, or there is none left, and nothing is recorded.
LEMMA BeginStep ==
  ASSUME IInv, Begin
  PROVE  IInv'
<1> DEFINE N == Len(Units)
           K == LaneCount(N)
<1>1. TypeOK /\ results = NoResults /\ completed = 0
  BY DEF IInv, Fresh, Begin
<1>2. /\ results' = [results EXCEPT !.skipped = Size - Cardinality(Candidates)]
      /\ units' = Units /\ told' = [u \in DOMAIN units' |-> Reply("unasked", None)]
      /\ lane' = [l \in 1..LaneCount(Len(units')) |-> Took(l)]
      /\ next' = Len(lane') + 1 /\ phase' = "running"
      /\ UNCHANGED given /\ completed' = completed
  BY DEF Begin
<1>3. N \in Nat /\ DOMAIN Units = 1..N
  <2>1. PICK place : SharesOut(Units, place)
    BY <1>1, UnitsShareOut
  <2> DEFINE X == [base : Bases, members : SUBSET Candidates]
  <2>2. Units \in Seq(X)
    BY <2>1 DEF SharesOut
  <2> HIDE DEF X
  <2> QED
    BY <2>2
<1>4. K \in Nat \ {0} /\ (N = 0 => K = 1) /\ (N # 0 => K <= N)
  <2>1. options.limit \in Int
    BY <1>1, ScanAssumption DEF TypeOK, Options, ScanAssumption
  <2> QED
    BY <1>3, <2>1 DEF LaneCount
<1> HIDE DEF N, K
<1>5. /\ Len(units') = N /\ DOMAIN units' = 1..N
      /\ lane' = [l \in 1..K |-> Took(l)] /\ Len(lane') = K /\ DOMAIN lane' = 1..K
      /\ next' = K + 1
  BY <1>2, <1>3, <1>4 DEF N, K
<1>6. ASSUME NEW l \in 1..K
      PROVE  /\ l <= N => lane'[l] = Lane("fetching", l)
             /\ l > N => lane'[l] = Lane("exited", 0)
             /\ lane'[l] \in Lanes
  <2>1. lane'[l] = Took(l)
    BY <1>5
  <2>2. lane'[l] = IF l <= N THEN Lane("fetching", l) ELSE Lane("exited", 0)
    BY <1>5, <2>1 DEF Took
  <2> QED
    BY <1>3, <1>4, <2>2 DEF Lane, Lanes
<1>7. Begun'
  BY <1>4, <1>5 DEF Begun
<1>8. results' \in Tallies /\ results'.skipped = Size - Cardinality(Candidates)
      /\ results'.details = <<>> /\ results'.good = 0 /\ results'.bad = 0
      /\ results'.unresolved = 0 /\ results'.errors = {} /\ results'.valid = TRUE
      /\ results'.scanned = 0
  <2>1. Size - Cardinality(Candidates) \in Int
    BY <1>1, CandidateNumbers
  <2>2. results \in Tallies
    BY <1>1 DEF TypeOK
  <2> QED
    BY <1>1, <1>2, <2>1, <2>2 DEF Tallies, NoResults
<1>9. TypeOK'
  <2>1. lane' \in Seq(Lanes)
    <3>1. lane' \in [1..K -> Lanes]
      BY <1>5, <1>6
    <3> QED
      BY <1>4, <3>1
  <2>2. next' \in Nat \ {0} /\ completed' \in Nat
    <3>1. next' \in Nat \ {0}
      BY <1>4, <1>5
    <3>2. completed' = 0
      BY <1>1, <1>2
    <3> QED
      BY <3>1, <3>2
  <2> QED
    BY <1>1, <1>2, <1>8, <2>1, <2>2 DEF TypeOK, given, Size
<1>10. Fresh'
  BY <1>2, <1>7 DEF Fresh
<1>11. Parted'
  <2>1. PICK place : SharesOut(Units, place)
    BY <1>1, UnitsShareOut
  <2>2. /\ \A u \in DOMAIN Units : \A i \in Units[u].members : Units[u].base = BaseOf(i)
        /\ scan = "integrity" => Len(Units) = Cardinality(Candidates)
    BY <1>1, UnitsShareOut
  <2>3. /\ Candidates' = Candidates /\ (\A i : BaseOf(i)' = BaseOf(i)) /\ scan' = scan
    BY <1>2, SameGiven DEF given
  <2> QED
    BY <1>2, <2>1, <2>2, <2>3 DEF Parted, SharesOut
<1>12. Shared'
  <2>1. ASSUME NEW l \in 1..K
        PROVE  /\ lane'[l].at # "exited" => lane'[l].unit = l /\ l \in 1..N /\ l < next'
               /\ lane'[l].at = "exited" => next' > N
    <3>1. CASE l <= N
      BY <1>3, <1>4, <1>5, <1>6, <3>1 DEF Lane
    <3>2. CASE l > N
      BY <1>3, <1>4, <1>5, <1>6, <3>2 DEF Lane
    <3> QED
      BY <1>3, <3>1, <3>2
  <2> QED
    BY <1>5, <2>1 DEF Shared
<1>13. ASSUME NEW u PROVE ~Recorded(u)' /\ ~Finished(u)'
  <2> SUFFICES ASSUME u \in 1..N, u < next' PROVE Held(u)' /\ ~Finished(u)'
    BY <1>5 DEF Recorded, Finished
  <2>1. u \in 1..K /\ u <= N
    BY <1>3, <1>4, <1>5
  <2>2. lane'[u].at = "fetching" /\ lane'[u].unit = u /\ u \in DOMAIN lane'
    BY <1>5, <1>6, <2>1 DEF Lane
  <2> QED
    BY <2>2 DEF Held, Finished
<1>14. Heard'
  <2>1. \A u \in DOMAIN units' : told'[u] = Reply("unasked", None)
    BY <1>2
  <2>2. DOMAIN told' = DOMAIN units'
    BY <1>2
  <2> QED
    BY <1>13, <2>1, <2>2 DEF Heard
<1>15. Counted'
  <2>1. Done' = {}
    BY <1>13 DEF Done
  <2>2. {u \in DOMAIN units : Finished(u)}' = {}
    BY <1>13
  <2>3. \A f : Tally(results', {}, f)
    BY <1>8, NothingTallied
  <2>4. \A f : Tally(results, Done, f)'
    BY <1>2, <2>1, <2>3, SameGiven
  <2>5. Tally(results, Done, [i \in Done |-> OutcomeOf(i)])'
    BY <2>4
  <2>6. Cardinality({}) = 0
    BY FS_EmptySet
  <2>7. completed' = 0 /\ scan' = scan /\ Candidates' = Candidates /\ Size' = Size
    BY <1>1, <1>2, SameGiven DEF given
  <2> QED
    BY <1>8, <2>1, <2>2, <2>5, <2>6, <2>7 DEF Counted
<1> QED
  BY <1>2, <1>7, <1>9, <1>10, <1>11, <1>12, <1>14, <1>15 DEF IInv
\* The registry sends what may be said.
LEMMA AnswersSayable ==
  ASSUME TypeOK, NEW u, NEW answer \in Answers(u)
  PROVE  Sayable(u, answer)
<1>1. scan \in {"integrity", "deprecation", "advisories"}
  BY ScanAssumption DEF TypeOK, ScanAssumption
<1>2. answer.is \in {"none", "data", "poison"}
  BY DEF Answers, Reply
<1>3. ASSUME answer.is = "data", scan = "deprecation" PROVE answer.data \in BOOLEAN
  BY <1>3 DEF Answers, Reply
<1>4. ASSUME answer.is = "data", scan = "advisories", NEW i \in u.members,
             answer.data[entries[i].name] \notin {None, Malformed}
      PROVE  \E j \in u.members : /\ entries[j].name = entries[i].name
                                  /\ entries[j].version \in answer.data[entries[i].name].hits
  <2> DEFINE n == entries[i].name
             f == answer.data
  <2>1. f \in Advisories(u)
    BY <1>4 DEF Answers, Reply
  <2>2. n \in {entries[j].name : j \in u.members}
    OBVIOUS
  <2>3. f[n] \in {None, Malformed} \cup [hits : (SUBSET Asked(u, n)) \ {{}}, exact : BOOLEAN, high : BOOLEAN]
    <3> HIDE DEF n, f
    <3> QED
      BY <2>1, <2>2 DEF Advisories
  <2>4. f[n].hits \in (SUBSET Asked(u, n)) \ {{}}
    <3> HIDE DEF n, f
    <3>1. f[n] \notin {None, Malformed}
      BY <1>4 DEF n, f
    <3> QED
      BY <2>3, <3>1
  <2>5. PICK v : v \in f[n].hits /\ v \in Asked(u, n)
    <3> HIDE DEF n, f
    <3> QED
      BY <2>4
  <2>6. PICK j \in u.members : entries[j].name = n /\ entries[j].version = v
    BY <2>5 DEF Asked
  <2> QED
    BY <2>5, <2>6
<1> QED
  BY <1>2, <1>3, <1>4 DEF Sayable

\* A lane records its unit.
LEMMA RecordStep ==
  ASSUME IInv, NEW l \in DOMAIN lane, lane[l].at = "fetching", NEW w, w = lane[l].unit,
         UNCHANGED <<given, units, next, completed, phase>>,
         lane' = [lane EXCEPT ![l].at = "recorded"],
         DOMAIN told' = DOMAIN told, \A u \in DOMAIN units : u # w => told'[u] = told[u],
         told'[w] = Reply("unasked", None) \/ (Sayable(units[w], told'[w]) /\ Trusted(units[w])),
         Trusted(units[w]) => told'[w].is \notin {"unasked", "poison"},
         results' = Record(results, units[w].members,
                           [i \in units[w].members |->
                              IF Trusted(units[w]) THEN Outcome(units[w], i, told'[w]) ELSE "failed"])
  PROVE  IInv'
<1> DEFINE M == units[w].members
           old == [i \in Done |-> OutcomeOf(i)]
           new == [i \in M |-> IF Trusted(units[w]) THEN Outcome(units[w], i, told'[w]) ELSE "failed"]
           all == [i \in Done' |-> OutcomeOf(i)']
<1>1. Begun /\ TypeOK /\ Fresh /\ Parted /\ Shared /\ Heard /\ Counted
      /\ (phase = "returned" => AllDone)
  BY DEF IInv, Begun
<1>2. /\ w \in DOMAIN units /\ w < next
      /\ \A m \in DOMAIN lane : lane[m].at # "exited" /\ lane[m].unit = w => m = l
  BY <1>1 DEF Shared
<1>3. /\ DOMAIN lane' = DOMAIN lane /\ lane \in Seq(Lanes) /\ lane' \in Seq(Lanes) /\ lane' # <<>>
      /\ \A m \in DOMAIN lane : /\ lane'[m].unit = lane[m].unit
                                /\ m # l => lane'[m].at = lane[m].at
      /\ lane'[l].at = "recorded"
  <2>1. lane \in Seq(Lanes)
    BY <1>1 DEF TypeOK
  <2>2. lane[l] \in Lanes
    BY <2>1
  <2>3. [lane[l] EXCEPT !.at = "recorded"] \in Lanes
    BY <2>2 DEF Lanes
  <2>4. lane' = [lane EXCEPT ![l] = [lane[l] EXCEPT !.at = "recorded"]]
    OBVIOUS
  <2>5. lane' \in Seq(Lanes) /\ DOMAIN lane' = DOMAIN lane
    BY <2>1, <2>3, <2>4
  <2>6. \A m \in DOMAIN lane : /\ lane'[m].unit = lane[m].unit
                               /\ m # l => lane'[m].at = lane[m].at
    BY <2>1, <2>2, <2>4 DEF Lanes
  <2>7. lane'[l].at = "recorded"
    BY <2>2, <2>4 DEF Lanes
  <2> QED
    BY <2>1, <2>5, <2>6, <2>7
<1>4. Begun'
  BY <1>3 DEF Begun
<1>5. Shared'
  BY <1>1, <1>3 DEF Shared
<1>6. ASSUME NEW u PROVE /\ Recorded(u)' <=> Recorded(u) \/ u = w
                         /\ Finished(u)' <=> Finished(u)
  <2>1. Held(u)' <=> Held(u) /\ u # w
    BY <1>2, <1>3 DEF Held
  <2>2. Recorded(u)' <=> Recorded(u) \/ u = w
    BY <1>2, <2>1 DEF Recorded
  <2>3. Finished(u)' <=> Finished(u)
    BY <1>3 DEF Finished
  <2> QED
    BY <2>2, <2>3
<1>7. ~Recorded(w)
  BY DEF Recorded, Held
<1>8. Parted'
  BY <1>1, SameGiven DEF Parted, given
<1>9. Heard'
  <2>1. ASSUME NEW u \in DOMAIN units
        PROVE  /\ told'[u] = Reply("unasked", None) \/ (Sayable(units[u], told'[u]) /\ Trusted(units[u]))
               /\ Recorded(u)' /\ Trusted(units[u]) => told'[u].is \notin {"unasked", "poison"}
    <3>1. CASE u = w
      BY <3>1
    <3>2. CASE u # w
      BY <1>1, <1>6, <3>2 DEF Heard
    <3> QED
      BY <3>1, <3>2
  <2> QED
    BY <1>1, <2>1, SameGiven DEF Heard
<1>10. M \in SUBSET Candidates /\ M \in SUBSET Nat /\ IsFiniteSet(M)
       /\ \A i \in Candidates : i \in M <=> UnitOf(i) = w
  BY <1>1, <1>2, OneUnit
<1>11. Done \in SUBSET Nat /\ IsFiniteSet(Done)
  <2>1. Done \subseteq Candidates
    BY DEF Done
  <2> QED
    BY <1>1, <2>1, CandidateNumbers, FS_Subset
<1>12. Done' = Done \cup M /\ Done \cap M = {}
  <2>1. \A i : UnitOf(i)' = UnitOf(i)
    BY DEF UnitOf
  <2> QED
    BY <1>6, <1>7, <1>10, <2>1, SameGiven DEF Done
<1>13. \A i \in Done : all[i] = old[i]
  <2> SUFFICES ASSUME NEW i \in Done PROVE OutcomeOf(i)' = OutcomeOf(i)
    BY <1>12
  <2>1. UnitOf(i)' = UnitOf(i)
    BY DEF UnitOf
  <2>2. UnitOf(i) # w /\ UnitOf(i) \in DOMAIN units
    BY <1>7 DEF Done, Recorded
  <2>3. told'[UnitOf(i)] = told[UnitOf(i)]
    BY <2>2
  <2> QED
    BY <2>1, <2>3, SameGiven DEF OutcomeOf
<1>14. \A i \in M : all[i] = new[i]
  <2> SUFFICES ASSUME NEW i \in M
               PROVE OutcomeOf(i)' = IF Trusted(units[w]) THEN Outcome(units[w], i, told'[w]) ELSE "failed"
    BY <1>12
  <2>1. UnitOf(i)' = w
    BY <1>10 DEF UnitOf
  <2> QED
    BY <2>1, SameGiven DEF OutcomeOf
<1>15. results \in Tallies
  BY <1>1 DEF TypeOK
<1>16. Tally(results, Done, old)
  BY <1>1 DEF Counted
<1>17. results' = Record(results, M, new)
  OBVIOUS
<1> HIDE DEF M, old, new, all
<1>18. Tally(results', Done', all)
  BY <1>10, <1>11, <1>12, <1>13, <1>14, <1>15, <1>16, <1>17, TallyMore
<1>19. /\ results' \in Tallies /\ results'.skipped = results.skipped
       /\ results'.scanned = IF scan = "integrity" THEN results.scanned
                             ELSE results.scanned + Cardinality(M)
  BY <1>10, <1>15, <1>17, Recording
<1>20. TypeOK'
  BY <1>1, <1>3, <1>19 DEF TypeOK, given, Size
<1>21. Cardinality(Done') = Cardinality(Done) + Cardinality(M)
  <2>1. Cardinality(Done \cup M) = Cardinality(Done) + Cardinality(M) - Cardinality(Done \cap M)
    BY <1>10, <1>11, FS_Union
  <2>2. Cardinality(Done \cap M) = 0 /\ Cardinality(Done) \in Nat /\ Cardinality(M) \in Nat
    BY <1>10, <1>11, <1>12, FS_EmptySet, FS_CardinalityType
  <2> QED
    BY <1>12, <2>1, <2>2
<1>22. Counted'
  <2>1. Tally(results, Done, [i \in Done |-> OutcomeOf(i)])'
    BY <1>18, SameGiven DEF all
  <2>2. Candidates' = Candidates /\ Size' = Size /\ scan' = scan
    BY SameGiven DEF given
  <2> DEFINE C == {u \in DOMAIN units : Finished(u)}
  <2>3. C' = C
    BY <1>6
  <2> HIDE DEF C
  <2>4. /\ results.skipped = Size - Cardinality(Candidates)
        /\ results.scanned = IF scan = "integrity" THEN completed ELSE Cardinality(Done)
        /\ completed = Cardinality(C)
    BY <1>1 DEF Counted, C
  <2>5. /\ results'.skipped = Size' - Cardinality(Candidates')
        /\ results'.scanned = IF scan' = "integrity" THEN completed' ELSE Cardinality(Done')
        /\ completed' = Cardinality(C')
    BY <1>19, <1>21, <2>2, <2>3, <2>4
  <2> QED
    BY <2>1, <2>5 DEF Counted, C
<1>23. phase' # "returned"
  BY <1>1 DEF AllDone
<1>24. Fresh'
  <2>1. phase # "call"
    BY <1>1 DEF Fresh
  <2> QED
    BY <1>4, <2>1 DEF Fresh
<1> QED
  BY <1>5, <1>8, <1>9, <1>20, <1>22, <1>23, <1>24 DEF IInv
\* An entry of a host that is not trusted is failed without being asked about.
LEMMA DistrustStep ==
  ASSUME IInv, NEW l \in DOMAIN lane, Distrust(l)
  PROVE  IInv'
<1> DEFINE w == lane[l].unit
<1>1. /\ lane[l].at = "fetching" /\ ~Trusted(units[w])
      /\ results' = Record(results, units[w].members, [i \in units[w].members |-> "failed"])
      /\ lane' = [lane EXCEPT ![l].at = "recorded"]
      /\ UNCHANGED <<given, units, next, completed, phase>> /\ told' = told
  BY DEF Distrust
<1>2. Shared /\ Heard
  BY DEF IInv, Begun
<1>3. w \in DOMAIN units
  BY <1>1, <1>2 DEF Shared
<1>4. told[w] = Reply("unasked", None)
  BY <1>1, <1>2, <1>3 DEF Heard
<1> DEFINE f == [i \in units[w].members |->
                   IF Trusted(units[w]) THEN Outcome(units[w], i, told'[w]) ELSE "failed"]
<1>5. [i \in units[w].members |-> "failed"] = f
  BY <1>1
<1>6. results' = Record(results, units[w].members, f)
  BY <1>1, <1>5
<1>7. told'[w] = Reply("unasked", None) /\ (\A u \in DOMAIN units : u # w => told'[u] = told[u])
      /\ DOMAIN told' = DOMAIN told
  BY <1>1, <1>4
<1> HIDE DEF w
<1>8. w = lane[l].unit
  BY DEF w
<1> QED
  BY <1>1, <1>6, <1>7, <1>8, RecordStep

\* A trusted registry answers, and the lane records what it said.
LEMMA AnswerStep ==
  ASSUME IInv, NEW l \in DOMAIN lane, NEW answer \in Answers(units[lane[l].unit]),
         Answer(l, answer), answer.is # "poison"
  PROVE  IInv'
<1> DEFINE w == lane[l].unit
<1>1. /\ lane[l].at = "fetching" /\ Trusted(units[w])
      /\ told' = [told EXCEPT ![w] = answer]
      /\ lane' = [lane EXCEPT ![l].at = "recorded"]
      /\ results' = Record(results, units[w].members,
                           [i \in units[w].members |-> Outcome(units[w], i, answer)])
      /\ UNCHANGED <<given, units, next, completed, phase>>
  BY DEF Answer
<1>2. TypeOK /\ Shared /\ Heard
  BY DEF IInv, Begun
<1>3. w \in DOMAIN units
  BY <1>1, <1>2 DEF Shared
<1>4. Sayable(units[w], answer)
  BY <1>2, AnswersSayable
<1>5. told'[w] = answer /\ (\A u \in DOMAIN units : u # w => told'[u] = told[u])
      /\ DOMAIN told' = DOMAIN told
  BY <1>1, <1>2, <1>3 DEF Heard
<1>6. answer.is \notin {"unasked", "poison"}
  BY <1>4 DEF Sayable
<1> DEFINE f == [i \in units[w].members |->
                   IF Trusted(units[w]) THEN Outcome(units[w], i, told'[w]) ELSE "failed"]
<1>7. [i \in units[w].members |-> Outcome(units[w], i, answer)] = f
  BY <1>1, <1>5
<1>8. results' = Record(results, units[w].members, f)
  BY <1>1, <1>7
<1> HIDE DEF w
<1>9. w = lane[l].unit
  BY DEF w
<1>10. Sayable(units[w], told'[w]) /\ Trusted(units[w]) /\ told'[w].is \notin {"unasked", "poison"}
  BY <1>1, <1>4, <1>5, <1>6
<1>11. told'[w] = Reply("unasked", None) \/ (Sayable(units[w], told'[w]) /\ Trusted(units[w]))
  BY <1>10
<1>12. /\ lane[l].at = "fetching" /\ lane' = [lane EXCEPT ![l].at = "recorded"]
       /\ UNCHANGED <<given, units, next, completed, phase>>
  BY <1>1
<1>13. DOMAIN told' = DOMAIN told /\ \A u \in DOMAIN units : u # w => told'[u] = told[u]
  BY <1>5
<1>14. Trusted(units[w]) => told'[w].is \notin {"unasked", "poison"}
  BY <1>10
<1> QED
  BY <1>8, <1>9, <1>11, <1>12, <1>13, <1>14, RecordStep, Zenon

\* The recorder throws: the lane keeps its unit for good.
LEMMA ThrowStep ==
  ASSUME IInv, NEW l \in DOMAIN lane, NEW answer \in Answers(units[lane[l].unit]),
         Answer(l, answer), answer.is = "poison"
  PROVE  IInv'
<1> DEFINE w == lane[l].unit
<1>1. /\ lane[l].at = "fetching" /\ Trusted(units[w])
      /\ told' = [told EXCEPT ![w] = answer]
      /\ lane' = [lane EXCEPT ![l].at = "threw"] /\ results' = results
      /\ UNCHANGED <<given, units, next, completed, phase>>
  BY DEF Answer
<1>2. Begun /\ TypeOK /\ Fresh /\ Parted /\ Shared /\ Heard /\ Counted
      /\ (phase = "returned" => AllDone)
  BY DEF IInv, Begun
<1>3. w \in DOMAIN units
  BY <1>1, <1>2 DEF Shared
<1>4. told'[w] = answer /\ (\A u \in DOMAIN units : u # w => told'[u] = told[u])
      /\ DOMAIN told' = DOMAIN told /\ Sayable(units[w], answer)
  BY <1>1, <1>2, <1>3, AnswersSayable DEF Heard
<1>5. /\ DOMAIN lane' = DOMAIN lane /\ lane' \in Seq(Lanes) /\ lane' # <<>>
      /\ \A m \in DOMAIN lane : /\ lane'[m].unit = lane[m].unit
                                /\ m # l => lane'[m].at = lane[m].at
      /\ lane'[l].at = "threw"
  <2>1. lane \in Seq(Lanes)
    BY <1>2 DEF TypeOK
  <2>2. lane[l] \in Lanes
    BY <2>1
  <2>3. [lane[l] EXCEPT !.at = "threw"] \in Lanes
    BY <2>2 DEF Lanes
  <2>4. lane' = [lane EXCEPT ![l] = [lane[l] EXCEPT !.at = "threw"]]
    BY <1>1
  <2>5. lane' \in Seq(Lanes) /\ DOMAIN lane' = DOMAIN lane
    BY <2>1, <2>3, <2>4
  <2>6. \A m \in DOMAIN lane : /\ lane'[m].unit = lane[m].unit
                               /\ m # l => lane'[m].at = lane[m].at
    BY <2>1, <2>2, <2>4 DEF Lanes
  <2>7. lane'[l].at = "threw"
    BY <2>2, <2>4 DEF Lanes
  <2> QED
    BY <2>1, <2>5, <2>6, <2>7
<1>6. Begun'
  BY <1>5 DEF Begun
<1>7. Shared'
  BY <1>1, <1>2, <1>5 DEF Shared
<1>8. ASSUME NEW u PROVE (Recorded(u)' <=> Recorded(u)) /\ (Finished(u)' <=> Finished(u))
  <2>1. Held(u)' <=> Held(u)
    BY <1>1, <1>5 DEF Held
  <2> QED
    BY <1>1, <1>5, <2>1 DEF Recorded, Finished
<1>9. ~Recorded(w)
  BY <1>1 DEF Recorded, Held
<1> HIDE DEF w
<1>10. Parted'
  BY <1>1, <1>2, SameGiven DEF Parted, given
<1>11. Heard'
  <2>1. ASSUME NEW u \in DOMAIN units
        PROVE  /\ told'[u] = Reply("unasked", None) \/ (Sayable(units[u], told'[u]) /\ Trusted(units[u]))
               /\ Recorded(u)' /\ Trusted(units[u]) => told'[u].is \notin {"unasked", "poison"}
    <3>1. CASE u = w
      BY <1>1, <1>4, <1>8, <1>9, <3>1
    <3>2. CASE u # w
      BY <1>2, <1>4, <1>8, <3>2 DEF Heard
    <3> QED
      BY <3>1, <3>2
  <2> QED
    BY <1>1, <1>2, <1>4, <2>1, SameGiven DEF Heard
<1>12. Counted'
  <2>1. \A i : UnitOf(i)' = UnitOf(i)
    BY <1>1 DEF UnitOf
  <2>2. Done' = Done
    BY <1>1, <1>8, <2>1, SameGiven DEF Done
  <2>3. ASSUME NEW i \in Done PROVE OutcomeOf(i)' = OutcomeOf(i)
    <3>1. UnitOf(i) # w /\ UnitOf(i) \in DOMAIN units
      BY <1>9 DEF Done, Recorded
    <3>2. told'[UnitOf(i)] = told[UnitOf(i)]
      BY <1>4, <3>1
    <3> QED
      BY <1>1, <2>1, <3>2, SameGiven DEF OutcomeOf
  <2> DEFINE F == [i \in Done |-> OutcomeOf(i)]
             C == {u \in DOMAIN units : Finished(u)}
  <2>4. F' = F /\ C' = C
    BY <1>1, <1>8, <2>2, <2>3
  <2>5. Tally(results, Done, F)' <=> Tally(results, Done, F)
    <3> HIDE DEF F
    <3> QED
      BY <1>1, <2>2, <2>4, SameGiven
  <2> HIDE DEF F, C
  <2>6. Candidates' = Candidates /\ Size' = Size /\ scan' = scan
    BY <1>1, SameGiven DEF given
  <2> QED
    BY <1>1, <1>2, <2>2, <2>4, <2>5, <2>6 DEF Counted, F, C
<1>13. phase' # "returned"
  BY <1>1, <1>2 DEF AllDone
<1>14. Fresh'
  <2>1. phase # "call"
    BY <1>2 DEF Fresh
  <2> QED
    BY <1>1, <1>6, <2>1 DEF Fresh
<1>15. TypeOK'
  BY <1>1, <1>2, <1>5 DEF TypeOK, given, Size
<1> QED
  BY <1>7, <1>10, <1>11, <1>12, <1>13, <1>14, <1>15 DEF IInv

\* A lane counts its unit complete and takes the next, or exits when there is none.
LEMMA CompleteStep ==
  ASSUME IInv, NEW l \in DOMAIN lane, Complete(l)
  PROVE  IInv'
<1> DEFINE w == lane[l].unit
           more == next <= Len(units)
<1>1. /\ lane[l].at = "recorded" /\ completed' = completed + 1
      /\ results' = [results EXCEPT !.scanned = IF scan = "integrity" THEN completed' ELSE @]
      /\ more => lane' = [lane EXCEPT ![l] = Lane("fetching", next)] /\ next' = next + 1
      /\ ~more => lane' = [lane EXCEPT ![l] = Lane("exited", 0)] /\ next' = next
      /\ UNCHANGED <<given, units, told, phase>>
  BY DEF Complete
<1>2. Begun /\ TypeOK /\ Fresh /\ Parted /\ Shared /\ Heard /\ Counted
      /\ (phase = "returned" => AllDone)
  BY DEF IInv, Begun
<1>3. /\ w \in DOMAIN units /\ w < next
      /\ \A m \in DOMAIN lane : lane[m].at # "exited" /\ lane[m].unit = w => m = l
  BY <1>1, <1>2 DEF Shared
<1>4. Len(units) \in Nat /\ DOMAIN units = 1..Len(units) /\ next \in Nat \ {0}
  BY <1>2, OneUnit DEF TypeOK
<1>5. /\ DOMAIN lane' = DOMAIN lane /\ lane' \in Seq(Lanes) /\ lane' # <<>>
      /\ \A m \in DOMAIN lane : m # l => lane'[m] = lane[m]
      /\ more => lane'[l].at = "fetching" /\ lane'[l].unit = next
      /\ ~more => lane'[l].at = "exited"
  <2>1. lane \in Seq(Lanes)
    BY <1>2 DEF TypeOK
  <2>2. PICK x \in Lanes : /\ lane' = [lane EXCEPT ![l] = x]
                           /\ more => x.at = "fetching" /\ x.unit = next
                           /\ ~more => x.at = "exited"
    BY <1>1, <1>4 DEF Lanes, Lane
  <2> QED
    BY <2>1, <2>2
<1>6. Begun'
  BY <1>5 DEF Begun
<1> HIDE DEF w, more
<1>7. Shared'
  <2>1. CASE more
    <3>1. \A m \in DOMAIN lane : lane[m].at # "exited"
      BY <1>2, <1>4, <2>1 DEF Shared, more
    <3>2. \A m \in DOMAIN lane : lane[m].unit \in DOMAIN units /\ lane[m].unit < next
      BY <1>2, <3>1 DEF Shared
    <3>3. \A m \in DOMAIN lane : m # l => lane'[m] = lane[m]
      BY <1>5
    <3>4. lane'[l].at = "fetching" /\ lane'[l].unit = next /\ next' = next + 1 /\ next \in DOMAIN units
      BY <1>1, <1>4, <1>5, <2>1 DEF more
    <3>5. \A m \in DOMAIN lane : lane'[m].unit \in DOMAIN units /\ lane'[m].unit < next'
                                 /\ lane'[m].at # "exited"
      BY <1>4, <3>1, <3>2, <3>3, <3>4
    <3>6. ASSUME NEW m \in DOMAIN lane, NEW n \in DOMAIN lane, lane'[m].unit = lane'[n].unit PROVE m = n
      <4>1. CASE m # l /\ n # l
        BY <1>2, <3>1, <3>3, <3>6, <4>1 DEF Shared
      <4>2. CASE m = l /\ n # l
        BY <1>4, <3>2, <3>3, <3>4, <3>6, <4>2
      <4>3. CASE n = l /\ m # l
        BY <1>4, <3>2, <3>3, <3>4, <3>6, <4>3
      <4> QED
        BY <4>1, <4>2, <4>3
    <3> QED
      BY <1>1, <1>5, <3>5, <3>6 DEF Shared
  <2>2. CASE ~more
    <3>1. next' = next /\ next > Len(units) /\ lane'[l].at = "exited"
      BY <1>1, <1>4, <1>5, <2>2 DEF more
    <3>2. \A m \in DOMAIN lane : m # l => lane'[m] = lane[m]
      BY <1>5
    <3> QED
      BY <1>1, <1>2, <1>5, <3>1, <3>2 DEF Shared
  <2> QED
    BY <2>1, <2>2
<1>8. ASSUME NEW u \in DOMAIN units
      PROVE  /\ Recorded(u)' <=> Recorded(u)
             /\ Finished(u)' <=> Finished(u) \/ u = w
  <2>1. CASE more
    <3>1. Held(u)' <=> Held(u) \/ u = next
      BY <1>1, <1>5, <2>1 DEF Held
    <3>2. next' = next + 1
      BY <1>1, <2>1
    <3>3. Recorded(u)' <=> Recorded(u)
      <4>1. u < next' <=> u < next \/ u = next
        BY <1>4, <3>2
      <4>2. ~(u < next /\ u = next)
        BY <1>4
      <4>3. u = next => ~Held(u)
        BY <1>1, <1>2, <1>4 DEF Held, Shared
      <4> QED
        BY <1>1, <3>1, <4>1, <4>2, <4>3 DEF Recorded
    <3>4. u = next => ~Finished(u)'
      BY <1>5, <2>1 DEF Finished
    <3>5. ASSUME u # next PROVE Finished(u)' <=> Finished(u) \/ u = w
      <4>1. u < next' <=> u < next
        BY <1>4, <3>2, <3>5
      <4>2. lane'[l].unit # u
        BY <1>5, <2>1, <3>5
      <4>3. \A m \in DOMAIN lane : m # l => lane'[m] = lane[m]
        BY <1>5
      <4> QED
        BY <1>1, <1>3, <1>5, <4>1, <4>2, <4>3 DEF Finished, w
    <3>6. w # next /\ ~Finished(next)
      BY <1>3, <1>4 DEF Finished
    <3> QED
      BY <3>3, <3>4, <3>5, <3>6
  <2>2. CASE ~more
    <3>1. Held(u)' <=> Held(u)
      BY <1>1, <1>5, <2>2 DEF Held
    <3>2. \A m \in DOMAIN lane : m # l => lane'[m] = lane[m]
      BY <1>5
    <3>3. next' = next /\ lane'[l].at = "exited"
      BY <1>1, <1>5, <2>2
    <3> QED
      BY <1>1, <1>3, <1>5, <3>1, <3>2, <3>3 DEF Recorded, Finished, w
  <2> QED
    BY <2>1, <2>2
<1>9. ~Finished(w)
  BY <1>1 DEF Finished, w
<1>10. Parted'
  BY <1>1, <1>2, SameGiven DEF Parted, given
<1>11. Heard'
  BY <1>1, <1>2, <1>8, SameGiven DEF Heard
<1>12. /\ results' \in Tallies /\ results'.details = results.details /\ results'.good = results.good
       /\ results'.bad = results.bad /\ results'.unresolved = results.unresolved
       /\ results'.errors = results.errors /\ results'.valid = results.valid
       /\ results'.skipped = results.skipped
       /\ results'.scanned = IF scan = "integrity" THEN completed' ELSE results.scanned
  <2> DEFINE s == IF scan = "integrity" THEN completed' ELSE results.scanned
  <2>1. results \in Tallies /\ completed \in Nat
    BY <1>2 DEF TypeOK
  <2>2. s \in Nat
    BY <1>1, <2>1, Parts
  <2>3. results' = [results EXCEPT !.scanned = s]
    BY <1>1
  <2> HIDE DEF s
  <2>4. results' \in Tallies /\ results'.scanned = s
    BY <2>1, <2>2, <2>3 DEF Tallies
  <2>5. /\ results'.details = results.details /\ results'.good = results.good
        /\ results'.bad = results.bad /\ results'.unresolved = results.unresolved
        /\ results'.errors = results.errors /\ results'.valid = results.valid
        /\ results'.skipped = results.skipped
    BY <2>1, <2>3 DEF Tallies
  <2> QED
    BY <2>4, <2>5 DEF s
<1>13. Counted'
  <2>1. \A i : UnitOf(i)' = UnitOf(i)
    BY <1>1 DEF UnitOf
  <2>2. Done' = Done
    <3>1. ASSUME NEW i \in Candidates PROVE Recorded(UnitOf(i))' <=> Recorded(UnitOf(i))
      <4>1. UnitOf(i) \in DOMAIN units
        BY <1>2, OneUnit
      <4> QED
        BY <1>8, <2>1, <4>1
    <3> QED
      BY <1>1, <3>1, SameGiven DEF Done
  <2>3. ASSUME NEW i PROVE OutcomeOf(i)' = OutcomeOf(i)
    BY <1>1, <2>1, SameGiven DEF OutcomeOf
  <2> DEFINE F == [i \in Done |-> OutcomeOf(i)]
             C == {u \in DOMAIN units : Finished(u)}
  <2>4. F' = F /\ C' = C \cup {w}
    BY <1>1, <1>3, <1>8, <2>2, <2>3
  <2>5. w \notin C /\ IsFiniteSet(C)
    <3>1. C \subseteq DOMAIN units /\ IsFiniteSet(DOMAIN units)
      BY <1>4, FS_Interval
    <3> QED
      BY <1>9, <3>1, FS_Subset
  <2> HIDE DEF F, C
  <2>6. Cardinality(C') = Cardinality(C) + 1
    BY <2>4, <2>5, FS_AddElement
  <2>7. Tally(results, Done, F)
    BY <1>2 DEF Counted, F
  <2>8. Tally(results', Done, F)
    BY <1>12, <2>7 DEF Tally
  <2>9. Tally(results, Done, F)'
    BY <1>1, <2>2, <2>4, <2>8, SameGiven
  <2>10. Candidates' = Candidates /\ Size' = Size /\ scan' = scan
    BY <1>1, SameGiven DEF given
  <2>11. /\ results.skipped = Size - Cardinality(Candidates)
         /\ scan # "integrity" => results.scanned = Cardinality(Done)
         /\ completed = Cardinality(C)
    BY <1>2 DEF Counted, C
  <2>12. completed' = Cardinality(C')
    BY <1>1, <2>6, <2>11
  <2>13. /\ results'.skipped = Size' - Cardinality(Candidates')
         /\ results'.scanned = IF scan' = "integrity" THEN completed' ELSE Cardinality(Done')
    BY <1>12, <2>2, <2>10, <2>11
  <2> QED
    BY <2>9, <2>12, <2>13 DEF Counted, F, C
<1>14. phase' # "returned"
  BY <1>1, <1>2 DEF AllDone
<1>15. Fresh'
  <2>1. phase # "call"
    BY <1>2 DEF Fresh
  <2> QED
    BY <1>1, <1>6, <2>1 DEF Fresh
<1>16. TypeOK'
  <2>1. next' \in Nat \ {0}
    BY <1>1, <1>4
  <2>2. completed' \in Nat
    BY <1>1, <1>2 DEF TypeOK
  <2> QED
    BY <1>1, <1>2, <1>5, <1>12, <2>1, <2>2 DEF TypeOK, given, Size
<1> QED
  BY <1>7, <1>10, <1>11, <1>13, <1>14, <1>15, <1>16 DEF IInv

\* Every step keeps the invariant.
LEMMA NextInv == IInv /\ [Next]_vars => IInv'
<1> SUFFICES ASSUME IInv, [Next]_vars PROVE IInv'
  OBVIOUS
<1>1. CASE Refuse \/ Offline \/ Settle \/ UNCHANGED vars
  BY <1>1, Phases
<1>2. CASE Begin
  BY <1>2, BeginStep
<1>3. ASSUME NEW l \in DOMAIN lane, Distrust(l) PROVE IInv'
  BY <1>3, DistrustStep
<1>4. ASSUME NEW l \in DOMAIN lane, Complete(l) PROVE IInv'
  BY <1>4, CompleteStep
<1>5. ASSUME NEW l \in DOMAIN lane, NEW a \in Answers(units[lane[l].unit]), Answer(l, a) PROVE IInv'
  BY <1>5, AnswerStep, ThrowStep
<1> QED
  BY <1>1, <1>2, <1>3, <1>4, <1>5 DEF Next, Over

\* The invariant holds of every state of every scan.
THEOREM Invariance == Spec => []IInv
<1> QED
  BY InitInv, NextInv, PTL DEF Spec
-------------------------------------------------------------------------------
(* What the scan returns *)

\* Once the call has returned, every unit is recorded and counted, and so is every candidate.
LEMMA AllRecorded ==
  ASSUME IInv, Returned
  PROVE  /\ Begun /\ TypeOK /\ Parted /\ Heard /\ Counted
         /\ \A u \in DOMAIN units : Recorded(u) /\ Finished(u)
         /\ Done = Candidates
<1>1. Begun /\ TypeOK /\ Parted /\ Shared /\ Heard /\ Counted /\ AllDone
  BY DEF IInv, Fresh, Returned
<1>2. PICK l \in DOMAIN lane : lane[l].at = "exited"
  <2>1. lane \in Seq(Lanes) /\ lane # <<>>
    BY <1>1 DEF TypeOK, Begun
  <2>2. 1 \in DOMAIN lane
    BY <2>1
  <2> QED
    BY <1>1, <2>2 DEF AllDone
<1>3. next > Len(units)
  BY <1>1, <1>2 DEF Shared
<1>4. ASSUME NEW u \in DOMAIN units PROVE Recorded(u) /\ Finished(u)
  <2>1. u < next
    <3>1. Len(units) \in Nat /\ DOMAIN units = 1..Len(units) /\ next \in Nat
      BY <1>1, OneUnit DEF TypeOK
    <3> QED
      BY <1>3, <3>1
  <2>2. ~Held(u)
    BY <1>1 DEF AllDone, Held
  <2> QED
    BY <1>1, <2>1, <2>2 DEF Recorded, Finished, AllDone
<1>5. Done = Candidates
  BY <1>1, <1>4, OneUnit DEF Done
<1> QED
  BY <1>1, <1>4, <1>5

\* An entry is recorded as one of four things.
LEMMA FourOutcomes ==
  ASSUME NEW i
  PROVE  OutcomeOf(i) \in {"good", "failed", "warned", "unresolved"}
<1>1. ASSUME NEW u, NEW a PROVE Outcome(u, i, a) \in {"good", "failed", "warned", "unresolved"}
  BY DEF Outcome, IntegrityOutcome, ManifestOutcome, AdvisoryOutcome
<1> QED
  BY <1>1 DEF OutcomeOf

\* Two sets that make up S, and have nothing in common, share its number out.
LEMMA SplitSize ==
  ASSUME NEW S, IsFiniteSet(S), NEW A, NEW B, S = A \cup B, A \cap B = {}
  PROVE  /\ IsFiniteSet(A) /\ IsFiniteSet(B)
         /\ Cardinality(A) \in Nat /\ Cardinality(B) \in Nat
         /\ Cardinality(S) = Cardinality(A) + Cardinality(B)
<1>1. IsFiniteSet(A) /\ IsFiniteSet(B)
  BY FS_Subset
<1>2. Cardinality(A \cup B) = Cardinality(A) + Cardinality(B) - Cardinality(A \cap B)
  BY <1>1, FS_Union
<1>3. Cardinality(A \cap B) = 0 /\ Cardinality(A) \in Nat /\ Cardinality(B) \in Nat
  BY <1>1, FS_EmptySet, FS_CardinalityType
<1> QED
  BY <1>1, <1>2, <1>3

\* A scan that returns accounts for every entry once.
THEOREM AccountedHolds == Spec => []Accounted
<1>1. ASSUME IInv PROVE Accounted
  <2> SUFFICES ASSUME Returned
               PROVE  /\ \A i \in Candidates :
                           Cardinality({k \in DOMAIN results.details : results.details[k] = i}) = 1
                      /\ Len(results.details) = Cardinality(Candidates)
                      /\ results.scanned = Cardinality(Candidates)
                      /\ Size = results.good + results.bad + results.skipped
                                  + IF scan = "integrity" /\ options.failOnUnresolved THEN 0
                                    ELSE results.unresolved
    BY DEF Accounted
  <2> DEFINE F == [i \in Done |-> OutcomeOf(i)]
             G == With(Candidates, F, "good")
             B == With(Candidates, F, "failed")
             W == With(Candidates, F, "warned")
             N == With(Candidates, F, "unresolved")
  <2>1. /\ TypeOK /\ Parted /\ Counted /\ Done = Candidates
        /\ \A u \in DOMAIN units : Finished(u)
    BY <1>1, AllRecorded
  <2>2. Tally(results, Candidates, F)
    BY <2>1 DEF Counted
  <2>3. Size \in Nat /\ IsFiniteSet(Candidates) /\ Cardinality(Candidates) \in Nat
    BY <2>1, CandidateNumbers
  <2>4. \A i \in Candidates : F[i] \in {"good", "failed", "warned", "unresolved"}
    BY <2>1, FourOutcomes
  <2> HIDE DEF F
  <2>5. Enumerates(results.details, Candidates)
    BY <2>2 DEF Tally
  <2>6. ASSUME NEW i \in Candidates
        PROVE  Cardinality({k \in DOMAIN results.details : results.details[k] = i}) = 1
    <3>1. PICK k \in DOMAIN results.details : results.details[k] = i
      BY <2>5 DEF Enumerates
    <3>2. {j \in DOMAIN results.details : results.details[j] = i} = {k}
      BY <2>5, <3>1 DEF Enumerates
    <3> QED
      BY <3>2, FS_Singleton
  <2>7. Len(results.details) = Cardinality(Candidates)
    BY <2>5 DEF Enumerates
  <2>8. results.scanned = Cardinality(Candidates)
    <3>1. CASE scan = "integrity"
      <4>1. results.scanned = Cardinality({u \in DOMAIN units : Finished(u)})
        BY <2>1, <3>1 DEF Counted
      <4>2. {u \in DOMAIN units : Finished(u)} = 1..Len(units) /\ Len(units) \in Nat
        BY <2>1, OneUnit
      <4>3. Cardinality(1..Len(units)) = Len(units)
        <5> DEFINE n == Len(units)
        <5>1. n \in Nat
          BY <4>2
        <5> HIDE DEF n
        <5>2. Cardinality(1..n) = n
          BY <5>1, FS_Interval, SMT
        <5> QED
          BY <5>2 DEF n
      <4>4. Len(units) = Cardinality(Candidates)
        BY <2>1, <3>1 DEF Parted
      <4> QED
        BY <4>1, <4>2, <4>3, <4>4
    <3>2. CASE scan # "integrity"
      BY <2>1, <3>2 DEF Counted
    <3> QED
      BY <3>1, <3>2
  <2>9. /\ Candidates = G \cup (B \cup (W \cup N))
        /\ G \cap (B \cup (W \cup N)) = {} /\ B \cap (W \cup N) = {} /\ W \cap N = {}
    BY <2>4 DEF With
  <2> HIDE DEF G, B, W, N
  <2>10. /\ Cardinality(Candidates) = Cardinality(G) + Cardinality(B \cup (W \cup N))
         /\ IsFiniteSet(B \cup (W \cup N)) /\ Cardinality(G) \in Nat
    BY <2>3, <2>9, SplitSize
  <2>11. /\ Cardinality(B \cup (W \cup N)) = Cardinality(B) + Cardinality(W \cup N)
         /\ IsFiniteSet(W \cup N) /\ Cardinality(B) \in Nat
    BY <2>9, <2>10, SplitSize
  <2>12. /\ Cardinality(W \cup N) = Cardinality(W) + Cardinality(N)
         /\ Cardinality(W) \in Nat /\ Cardinality(N) \in Nat
    BY <2>9, <2>11, SplitSize
  <2>13. Size = Cardinality(G) + Cardinality(B) + Cardinality(W) + Cardinality(N) + results.skipped
    <3>1. results.skipped = Size - Cardinality(Candidates)
      BY <2>1 DEF Counted
    <3> QED
      BY <2>3, <2>10, <2>11, <2>12, <3>1
  <2>14. /\ results.good = Cardinality(G) /\ results.unresolved = Cardinality(N)
         /\ results.bad = Cardinality(B) + Cardinality(W)
                            + IF scan = "integrity" THEN Cardinality(Open(Candidates, F)) ELSE 0
    BY <2>2 DEF Tally, G, B, W, N
  <2>15. Size = results.good + results.bad + results.skipped
                  + IF scan = "integrity" /\ options.failOnUnresolved THEN 0 ELSE results.unresolved
    <3>0. results.skipped \in Int
      BY <2>1, Parts DEF TypeOK
    <3>1. Cardinality({}) = 0
      BY FS_EmptySet
    <3>2. CASE scan = "integrity" /\ options.failOnUnresolved
      <4>1. Open(Candidates, F) = N
        BY <3>2 DEF Open, N
      <4> QED
        BY <2>10, <2>11, <2>12, <2>13, <2>14, <3>0, <3>2, <4>1
    <3>3. CASE scan = "integrity" /\ ~options.failOnUnresolved
      <4>1. Open(Candidates, F) = {}
        BY <3>3 DEF Open
      <4> QED
        BY <2>10, <2>11, <2>12, <2>13, <2>14, <3>0, <3>1, <3>3, <4>1
    <3>4. CASE scan # "integrity"
      BY <2>10, <2>11, <2>12, <2>13, <2>14, <3>0, <3>4
    <3> QED
      BY <3>2, <3>3, <3>4
  <2> QED
    BY <2>6, <2>7, <2>8, <2>15
<1> QED
  BY <1>1, Invariance, PTL

\* What was told to the one unit of a candidate is all that was told of it.
LEMMA OneAnswer ==
  ASSUME IInv, Returned, NEW i \in Candidates
  PROVE  LET u == UnitOf(i) IN
         /\ u \in DOMAIN units /\ i \in units[u].members /\ units[u].members \subseteq Candidates
         /\ ToldOf(i) = {told[u]}
         /\ \/ told[u] = Reply("unasked", None) /\ ~Trusted(units[u])
            \/ told[u].is = "none" /\ Trusted(units[u])
            \/ told[u].is = "data" /\ Trusted(units[u])
         /\ told[u].is = "data" => Sayable(units[u], told[u])
<1> DEFINE u == UnitOf(i)
<1>1. TypeOK /\ Parted /\ Heard /\ \A v \in DOMAIN units : Recorded(v)
  BY AllRecorded
<1>2. /\ u \in DOMAIN units /\ i \in units[u].members /\ units[u].base = BaseOf(i)
      /\ units[u].members \subseteq Candidates
      /\ \A v \in DOMAIN units : i \in units[v].members => v = u
  BY <1>1, OneUnit
<1> HIDE DEF u
<1>3. ToldOf(i) = {told[u]}
  BY <1>2 DEF ToldOf
<1>4. /\ told[u] = Reply("unasked", None) \/ (Sayable(units[u], told[u]) /\ Trusted(units[u]))
      /\ Trusted(units[u]) => told[u].is \notin {"unasked", "poison"}
  BY <1>1, <1>2 DEF Heard
<1>5. Reply("unasked", None).is = "unasked"
  BY DEF Reply
<1>6. CASE told[u] = Reply("unasked", None)
  BY <1>2, <1>3, <1>4, <1>5, <1>6 DEF u
<1>7. CASE Sayable(units[u], told[u]) /\ Trusted(units[u])
  <2>1. told[u].is \in {"none", "data"}
    BY <1>4, <1>7 DEF Sayable
  <2> QED
    BY <1>2, <1>3, <1>7, <2>1 DEF u
<1> QED
  BY <1>4, <1>6, <1>7

\* A name and version that share a unit with another version of the name.
LEMMA SeveralVersions ==
  ASSUME TypeOK, NEW M \in SUBSET Candidates, NEW u, u.members = M, NEW i \in M
  PROVE  /\ MultiVersion(u, entries[i].name) =>
              \E j \in M : entries[j].name = entries[i].name /\ entries[j].version # entries[i].version
         /\ ~MultiVersion(u, entries[i].name) =>
              \A j \in M : entries[j].name = entries[i].name => entries[j].version = entries[i].version
<1> DEFINE n == entries[i].name
           A == Asked(u, n)
           v == entries[i].version
<1>1. \A x : x \in A <=> \E j \in M : entries[j].name = n /\ entries[j].version = x
  BY DEF Asked
<1>2. v \in A
  BY <1>1
<1>3. IsFiniteSet(A)
  <2> DEFINE T == {j \in M : entries[j].name = n}
             g == [j \in T |-> entries[j].version]
  <2>1. IsFiniteSet(T)
    BY CandidateNumbers, FS_Subset
  <2>2. A = {entries[j].version : j \in T}
    BY DEF Asked
  <2>3. g \in Surjection(T, A)
    BY <2>2 DEF Surjection
  <2> QED
    BY <2>1, <2>3, FS_Surjection
<1>4. MultiVersion(u, n) <=> Cardinality(A) > 1
  BY DEF MultiVersion
<1> HIDE DEF A, v, n
<1>5. ASSUME \A x \in A : x = v PROVE Cardinality(A) = 1
  <2>1. A = {v}
    BY <1>2, <1>5
  <2> QED
    BY <2>1, FS_Singleton
<1>6. ASSUME NEW x \in A, x # v PROVE Cardinality(A) > 1
  <2>1. IsFiniteSet({v}) /\ Cardinality({v}) = 1
    BY FS_Singleton
  <2>2. Cardinality({v} \cup {x}) = 2
    BY <1>6, <2>1, FS_AddElement
  <2>3. {v} \cup {x} \subseteq A
    BY <1>2, <1>6
  <2>4. Cardinality({v} \cup {x}) <= Cardinality(A) /\ Cardinality(A) \in Nat
    BY <1>3, <2>3, FS_Subset, FS_CardinalityType
  <2> QED
    BY <2>2, <2>4
<1>7. MultiVersion(u, n) => \E x \in A : x # v
  BY <1>4, <1>5
<1>8. ~MultiVersion(u, n) => \A x \in A : x = v
  BY <1>4, <1>6
<1> QED
  BY <1>1, <1>7, <1>8 DEF n, v

\* A scan that returns valid passed over nothing a registry said against an entry.
THEOREM FailClosedHolds == Spec => []FailClosed
<1>1. ASSUME IInv PROVE FailClosed
  <2> SUFFICES ASSUME Returned, results.valid, NEW i \in Candidates
               PROVE  \E answer \in ToldOf(i) :
                 CASE Verdict(i, answer) = "good" -> TRUE
                   [] Verdict(i, answer) = "unsaid" -> TRUE
                   [] Verdict(i, answer) = "unresolved" -> ~options.failOnUnresolved
                   [] Verdict(i, answer) = "untrusted" -> FALSE
                   [] OTHER -> CASE scan = "integrity" -> FALSE
                                 [] scan = "deprecation" -> ~options.failOnFound
                                 [] scan = "advisories" ->
                                      \/ ~answer.data[entries[i].name].high
                                      \/ /\ ~answer.data[entries[i].name].exact
                                         /\ \E j \in Candidates :
                                              /\ BaseOf(j) = BaseOf(i)
                                              /\ entries[j].name = entries[i].name
                                              /\ entries[j].version # entries[i].version
    BY DEF FailClosed
  <2> DEFINE w == UnitOf(i)
             u == units[w]
             answer == told[w]
             a == answer.data[entries[i].name]
  <2>1. TypeOK /\ Parted /\ Counted /\ Done = Candidates
    BY <1>1, AllRecorded
  <2>2. /\ w \in DOMAIN units /\ i \in u.members /\ u.members \subseteq Candidates
        /\ ToldOf(i) = {answer}
        /\ \/ answer = Reply("unasked", None) /\ ~Trusted(u)
           \/ answer.is = "none" /\ Trusted(u)
           \/ answer.is = "data" /\ Trusted(u)
        /\ answer.is = "data" => Sayable(u, answer)
    BY <1>1, OneAnswer
  <2>3. OutcomeOf(i) # "failed" /\ (options.failOnUnresolved => OutcomeOf(i) # "unresolved")
    <3> DEFINE F == [j \in Done |-> OutcomeOf(j)]
    <3>1. Tally(results, Candidates, F)
      BY <2>1 DEF Counted
    <3>2. F[i] = OutcomeOf(i)
      BY <2>1
    <3> HIDE DEF F
    <3>3. With(Candidates, F, "failed") = {} /\ Open(Candidates, F) = {}
      BY <3>1 DEF Tally
    <3> QED
      BY <3>2, <3>3 DEF With, Open
  <2>4. scan \in {"integrity", "deprecation", "advisories"}
    BY <2>1, ScanAssumption DEF TypeOK, ScanAssumption
  <2>5. Trusted(u) /\ OutcomeOf(i) = Outcome(u, i, answer)
    BY <2>3 DEF OutcomeOf
  <2>6. \A j \in u.members : BaseOf(j) = BaseOf(i)
    BY <2>1, <2>2 DEF Parted
  <2> HIDE DEF w, u, answer
  <2>7. CASE answer.is = "none"
    <3>1. Verdict(i, answer) = "unresolved"
      BY <2>7 DEF Verdict
    <3>2. Outcome(u, i, answer) = "unresolved"
      BY <2>7 DEF Outcome
    <3> QED
      BY <2>2, <2>3, <2>5, <3>1, <3>2
  <2>8. CASE answer.is = "data" /\ scan = "integrity"
    <3>1. Outcome(u, i, answer) = IntegrityOutcome(i, answer.data)
      BY <2>8 DEF Outcome
    <3>2. entries[i].locked = {answer.data}
      BY <2>3, <2>5, <3>1 DEF IntegrityOutcome, AllMatch
    <3>3. Verdict(i, answer) = "good"
      BY <2>8, <3>2 DEF Verdict
    <3> QED
      BY <2>2, <3>3
  <2>9. CASE answer.is = "data" /\ scan = "deprecation"
    <3>1. Outcome(u, i, answer) = ManifestOutcome(answer.data)
      BY <2>9 DEF Outcome
    <3>2. answer.data \in BOOLEAN
      BY <2>2, <2>9 DEF Sayable
    <3>3. CASE answer.data = FALSE
      <4>1. Verdict(i, answer) = "good"
        BY <2>9, <3>3 DEF Verdict
      <4> QED
        BY <2>2, <4>1
    <3>4. CASE answer.data = TRUE
      <4>1. Verdict(i, answer) = "bad"
        BY <2>9, <3>4 DEF Verdict
      <4>2. ~options.failOnFound
        BY <2>3, <2>5, <3>1, <3>4 DEF ManifestOutcome
      <4> QED
        BY <2>2, <2>9, <4>1, <4>2
    <3> QED
      BY <3>2, <3>3, <3>4
  <2>10. CASE answer.is = "data" /\ scan = "advisories"
    <3>1. Outcome(u, i, answer) = AdvisoryOutcome(u, i, a)
      BY <2>10 DEF Outcome
    <3>2. CASE ~(a \notin {None, Malformed} /\ entries[i].version \in a.hits)
      <4>1. Verdict(i, answer) \in {"good", "unsaid"}
        BY <2>10, <3>2 DEF Verdict
      <4> QED
        BY <2>2, <4>1
    <3>3. CASE a \notin {None, Malformed} /\ entries[i].version \in a.hits
      <4>1. Verdict(i, answer) = "bad"
        BY <2>10, <3>3 DEF Verdict
      <4>2. AdvisoryOutcome(u, i, a) # "failed"
        BY <2>3, <2>5, <3>1
      <4>3. \/ ~a.high
            \/ ~a.exact /\ MultiVersion(u, entries[i].name)
        BY <3>3, <4>2 DEF AdvisoryOutcome, Applies
      <4>4. MultiVersion(u, entries[i].name) =>
              \E j \in Candidates : /\ BaseOf(j) = BaseOf(i) /\ entries[j].name = entries[i].name
                                    /\ entries[j].version # entries[i].version
        BY <2>1, <2>2, <2>6, SeveralVersions
      <4> QED
        BY <2>2, <2>10, <4>1, <4>3, <4>4
    <3> QED
      BY <3>2, <3>3
  <2> QED
    BY <2>2, <2>4, <2>5, <2>7, <2>8, <2>9, <2>10
<1> QED
  BY <1>1, Invariance, PTL

\* A scan that returns calls no entry an error that its registry found nothing against.
THEOREM NoFalseAlarmHolds == Spec => []NoFalseAlarm
<1>1. ASSUME IInv PROVE NoFalseAlarm
  <2> SUFFICES ASSUME Returned, NEW i \in results.errors, NEW answer \in ToldOf(i)
               PROVE  Verdict(i, answer) \notin {"good", "unsaid"}
    BY DEF NoFalseAlarm
  <2> DEFINE w == UnitOf(i)
             u == units[w]
             a == answer.data[entries[i].name]
  <2>1. TypeOK /\ Parted /\ Counted /\ Done = Candidates
    BY <1>1, AllRecorded
  <2>2. i \in Candidates /\ OutcomeOf(i) \in {"failed", "unresolved"}
    <3> DEFINE F == [j \in Done |-> OutcomeOf(j)]
    <3>1. Tally(results, Candidates, F)
      BY <2>1 DEF Counted
    <3>2. \A j \in Candidates : F[j] = OutcomeOf(j)
      BY <2>1
    <3> HIDE DEF F
    <3>3. i \in With(Candidates, F, "failed") \cup Open(Candidates, F)
      BY <3>1 DEF Tally
    <3> QED
      BY <3>2, <3>3 DEF With, Open
  <2>3. /\ w \in DOMAIN units /\ i \in u.members /\ u.members \subseteq Candidates
        /\ answer = told[w]
        /\ \/ answer = Reply("unasked", None) /\ ~Trusted(u)
           \/ answer.is = "none" /\ Trusted(u)
           \/ answer.is = "data" /\ Trusted(u)
        /\ answer.is = "data" => Sayable(u, answer)
    BY <1>1, <2>2, OneAnswer
  <2>4. scan \in {"integrity", "deprecation", "advisories"}
    BY <2>1, ScanAssumption DEF TypeOK, ScanAssumption
  <2>5. Trusted(u) => Outcome(u, i, answer) \in {"failed", "unresolved"}
    BY <2>2, <2>3 DEF OutcomeOf
  <2> HIDE DEF w, u
  <2>6. CASE answer = Reply("unasked", None) \/ answer.is = "none"
    <3>1. answer.is \in {"unasked", "none"}
      BY <2>6 DEF Reply
    <3> QED
      BY <3>1 DEF Verdict
  <2>7. CASE answer.is = "data" /\ Trusted(u) /\ scan = "integrity"
    <3>1. IntegrityOutcome(i, answer.data) \in {"failed", "unresolved"}
      BY <2>5, <2>7 DEF Outcome
    <3>2. entries[i].locked # {answer.data}
      BY <3>1 DEF IntegrityOutcome, AllMatch
    <3> QED
      BY <2>7, <3>2 DEF Verdict
  <2>8. CASE answer.is = "data" /\ Trusted(u) /\ scan = "deprecation"
    <3>1. ManifestOutcome(answer.data) \in {"failed", "unresolved"}
      BY <2>5, <2>8 DEF Outcome
    <3>2. answer.data \in BOOLEAN
      BY <2>3, <2>8 DEF Sayable
    <3>3. answer.data = TRUE
      BY <3>1, <3>2 DEF ManifestOutcome
    <3> QED
      BY <2>8, <3>3 DEF Verdict
  <2>9. CASE answer.is = "data" /\ Trusted(u) /\ scan = "advisories"
    <3>1. AdvisoryOutcome(u, i, a) \in {"failed", "unresolved"}
      BY <2>5, <2>9 DEF Outcome
    <3>2. a \notin {None, Malformed} /\ Applies(u, i, a) = "yes"
      BY <3>1 DEF AdvisoryOutcome
    <3>3. entries[i].version \in a.hits
      <4>1. CASE MultiVersion(u, entries[i].name)
        BY <3>2, <4>1 DEF Applies
      <4>2. CASE ~MultiVersion(u, entries[i].name)
        <5>1. PICK j \in u.members : entries[j].name = entries[i].name /\ entries[j].version \in a.hits
          BY <2>3, <2>9, <3>2 DEF Sayable
        <5>2. entries[j].version = entries[i].version
          BY <2>1, <2>3, <4>2, <5>1, SeveralVersions
        <5> QED
          BY <5>1, <5>2
      <4> QED
        BY <4>1, <4>2
    <3> QED
      BY <2>9, <3>2, <3>3 DEF Verdict
  <2> QED
    BY <2>3, <2>4, <2>6, <2>7, <2>8, <2>9
<1> QED
  BY <1>1, Invariance, PTL

\* No lane touches the results of a call that has returned.
THEOREM QuietAfterReturnHolds == Spec => QuietAfterReturn
<1>1. ASSUME IInv, [Next]_vars, phase = "returned" PROVE UNCHANGED results
  <2>1. \A l \in DOMAIN lane : lane[l].at = "exited"
    BY <1>1 DEF IInv, Begun, AllDone
  <2>2. CASE UNCHANGED vars
    BY <2>2 DEF vars
  <2>3. CASE Next
    BY <1>1, <2>1, <2>3
       DEF Next, Refuse, Offline, Begin, Settle, Distrust, Complete, Answer, Over, vars
  <2> QED
    BY <1>1, <2>2, <2>3
<1>2. IInv /\ [Next]_vars => [phase = "returned" => UNCHANGED results]_vars
  BY <1>1
<1> QED
  BY <1>2, Invariance, PTL DEF Spec, QuietAfterReturn
===============================================================================
