--------------------------- MODULE RemediationProofs ---------------------------
(***************************************************************************)
(* The safety properties of report, audit and remediate, for every run of  *)
(* the shape that RunsAssumption states, and before them that what vuln.js *)
(* compares versions with is the order semver.org publishes.               *)
(***************************************************************************)
EXTENDS Remediation, FunctionTheorems, FiniteSetTheorems, WellFoundedInduction, TLAPS

-------------------------------------------------------------------------------
(* Numbers *)

\* The library states well-foundedness of an operator; this is the set the next lemma needs.
LEMMA LessIsWellFounded == IsWellFoundedOn({ss \in Nat \X Nat : ss[1] < ss[2]}, Nat)
<1>1. OpToRel(<, Nat) = {ss \in Nat \X Nat : ss[1] < ss[2]}
  BY DEF OpToRel
<1> QED
  BY <1>1, NatLessThanWellFounded

\* A set of natural numbers that is not empty has a least element.
LEMMA LeastNumber ==
  ASSUME NEW T \in SUBSET Nat, T # {}
  PROVE  \E x \in T : \A y \in T : x <= y
<1> DEFINE R == {ss \in Nat \X Nat : ss[1] < ss[2]}
<1>1. PICK x \in T : \A y \in T : ~(<<y, x>> \in R)
  <2> HIDE DEF R
  <2>1. IsWellFoundedOn(R, Nat)
    BY LessIsWellFounded DEF R
  <2> QED
    BY <2>1, WFMin
<1>2. ASSUME NEW y \in T PROVE x <= y
  <2>1. SUFFICES ASSUME y < x PROVE FALSE
    OBVIOUS
  <2>2. <<y, x>> \in Nat \X Nat /\ <<y, x>>[1] < <<y, x>>[2]
    BY <2>1
  <2>3. <<y, x>> \in R
    BY <2>2, Zenon
  <2> QED
    BY <2>3, <1>1
<1> QED
  BY <1>2

-------------------------------------------------------------------------------
(* The order of versions *)

\* The least of some numbers is one of them.
LEMMA MinIn ==
  ASSUME NEW S \in SUBSET Nat, S # {}
  PROVE  Min(S) \in S /\ \A y \in S : Min(S) <= y
BY LeastNumber DEF Min

\* What FirstNonZero returns is the first difference, or what is left if there is none.
LEMMA FirstNonZeroIs ==
  ASSUME NEW diffs, DOMAIN diffs \subseteq Nat, NEW otherwise
  PROVE  \/ (\A i \in DOMAIN diffs : diffs[i] = 0) /\ FirstNonZero(diffs, otherwise) = otherwise
         \/ \E i \in DOMAIN diffs : /\ diffs[i] # 0 /\ FirstNonZero(diffs, otherwise) = diffs[i]
                                    /\ \A j \in DOMAIN diffs : j < i => diffs[j] = 0
<1> DEFINE at == {i \in DOMAIN diffs : diffs[i] # 0}
<1>1. CASE at = {}
  BY <1>1 DEF FirstNonZero
<1>2. CASE at # {}
  <2>1. at \in SUBSET Nat
    OBVIOUS
  <2>2. Min(at) \in at /\ \A y \in at : Min(at) <= y
    <3> HIDE DEF at
    <3> QED
      BY <1>2, <2>1, MinIn
  <2>3. FirstNonZero(diffs, otherwise) = diffs[Min(at)]
    BY <1>2 DEF FirstNonZero
  <2>4. ASSUME NEW j \in DOMAIN diffs, j < Min(at) PROVE diffs[j] = 0
    BY <2>2, <2>4
  <2> QED
    BY <2>2, <2>3, <2>4
<1> QED
  BY <1>1, <1>2

\* Two identifiers are compared as their order says.
LEMMA IdsCompared ==
  ASSUME NEW a \in Identifier, NEW b \in Identifier
  PROVE  /\ ComparePreReleaseId(a, b) \in Int
         /\ ComparePreReleaseId(a, b) < 0 <=> PrecedesId(a, b)
         /\ ComparePreReleaseId(a, b) > 0 <=> PrecedesId(b, a)
         /\ ComparePreReleaseId(a, b) = 0 <=> a = b
<1>1. /\ a.num \in BOOLEAN /\ b.num \in BOOLEAN /\ a.val \in Nat /\ b.val \in Nat
      /\ a = b <=> a.num = b.num /\ a.val = b.val
  BY DEF Identifier
<1>2. CASE a.num = b.num
  BY <1>1, <1>2 DEF ComparePreReleaseId, PrecedesId
<1>3. CASE a.num = TRUE /\ b.num = FALSE
  <2>1. ComparePreReleaseId(a, b) = -1 /\ PrecedesId(a, b) /\ ~PrecedesId(b, a) /\ a # b
    BY <1>3, Zenon DEF ComparePreReleaseId, PrecedesId
  <2> QED
    BY <2>1
<1>4. CASE a.num = FALSE /\ b.num = TRUE
  <2>1. ComparePreReleaseId(a, b) = 1 /\ ~PrecedesId(a, b) /\ PrecedesId(b, a) /\ a # b
    BY <1>4, Zenon DEF ComparePreReleaseId, PrecedesId
  <2> QED
    BY <2>1
<1> QED
  BY <1>1, <1>2, <1>3, <1>4

\* No identifier precedes itself.
LEMMA IdsIrreflexive ==
  ASSUME NEW a \in Identifier, NEW b \in Identifier, PrecedesId(a, b)
  PROVE  a # b
<1>1. a.num = b.num => a.val < b.val
  BY Zenon DEF PrecedesId
<1>2. a.val \in Nat /\ b.val \in Nat
  BY DEF Identifier
<1> QED
  BY <1>1, <1>2

\* Two lists of identifiers that agree as far as both go are in the order of their lengths.
LEMMA PrefixesCompared ==
  ASSUME NEW a \in Seq(Identifier), NEW b \in Seq(Identifier), a # <<>>, b # <<>>,
         \A i \in DOMAIN a \cap DOMAIN b : a[i] = b[i]
  PROVE  /\ Len(a) - Len(b) < 0 <=> PrecedesPre(a, b)
         /\ Len(a) - Len(b) = 0 <=> a = b
<1>1. Len(a) \in Nat /\ Len(b) \in Nat /\ DOMAIN a = 1..Len(a) /\ DOMAIN b = 1..Len(b)
  OBVIOUS
<1>2. ASSUME NEW i \in DOMAIN a \cap DOMAIN b PROVE ~PrecedesId(a[i], b[i])
  <2>1. a[i] = b[i] /\ b[i] \in Identifier
    OBVIOUS
  <2> QED
    BY <2>1, IdsIrreflexive
<1>3. Len(a) < Len(b) => \A i \in DOMAIN a : a[i] = b[i]
  BY <1>1
<1>4. Len(a) = Len(b) => a = b
  BY <1>1
<1>5. Len(a) < Len(b) <=> PrecedesPre(a, b)
  BY <1>1, <1>2, <1>3 DEF PrecedesPre
<1>6. \A m, n \in Nat : (m - n < 0 <=> m < n) /\ (m - n = 0 <=> m = n)
  OBVIOUS
<1>7. Len(a) - Len(b) < 0 <=> PrecedesPre(a, b)
  BY <1>1, <1>5, <1>6, Zenon
<1>8. Len(a) - Len(b) = 0 <=> a = b
  BY <1>1, <1>4, <1>6, Zenon
<1> QED
  BY <1>7, <1>8

\* Two lists that first differ at i are in the order of their identifiers there.
LEMMA DifferencesCompared ==
  ASSUME NEW a \in Seq(Identifier), NEW b \in Seq(Identifier), NEW i \in DOMAIN a \cap DOMAIN b,
         a[i] # b[i], \A j \in DOMAIN a \cap DOMAIN b : j < i => a[j] = b[j]
  PROVE  PrecedesPre(a, b) <=> PrecedesId(a[i], b[i])
<1>1. /\ Len(a) \in Nat /\ Len(b) \in Nat /\ DOMAIN a = 1..Len(a) /\ DOMAIN b = 1..Len(b)
      /\ i \in Nat /\ a # <<>> /\ b # <<>>
  OBVIOUS
<1>2. \A j \in 1..(i - 1) : a[j] = b[j]
  BY <1>1
<1>3. ASSUME NEW h \in DOMAIN a \cap DOMAIN b, PrecedesId(a[h], b[h]), \A j \in 1..(h - 1) : a[j] = b[j]
      PROVE  h = i
  <2>1. a[h] # b[h]
    <3>1. a[h] \in Identifier /\ b[h] \in Identifier
      OBVIOUS
    <3> QED
      BY <1>3, <3>1, IdsIrreflexive
  <2> QED
    BY <1>1, <1>3, <2>1
<1> QED
  BY <1>1, <1>2, <1>3 DEF PrecedesPre

\* Two pre-releases of one core are compared as their order says, a release above them.
LEMMA PreReleasesCompared ==
  ASSUME NEW a \in Seq(Identifier), NEW b \in Seq(Identifier)
  PROVE  /\ ComparePreRelease(a, b) \in Int
         /\ ComparePreRelease(a, b) < 0 <=> PrecedesPre(a, b)
         /\ ComparePreRelease(a, b) > 0 <=> PrecedesPre(b, a)
         /\ ComparePreRelease(a, b) = 0 <=> a = b
<1>1. CASE a = <<>> /\ b = <<>>
  BY <1>1 DEF ComparePreRelease, PrecedesPre
<1>2. CASE a = <<>> /\ b # <<>>
  BY <1>2 DEF ComparePreRelease, PrecedesPre
<1>3. CASE a # <<>> /\ b = <<>>
  BY <1>3 DEF ComparePreRelease, PrecedesPre
<1>4. CASE a # <<>> /\ b # <<>>
  <2> DEFINE both == DOMAIN a \cap DOMAIN b
             diffs == [i \in both |-> ComparePreReleaseId(a[i], b[i])]
             rest == Len(a) - Len(b)
  <2>1. ComparePreRelease(a, b) = FirstNonZero(diffs, rest)
    BY <1>4 DEF ComparePreRelease
  <2>2. both \subseteq Nat /\ DOMAIN diffs = both /\ Len(a) \in Nat /\ Len(b) \in Nat
    OBVIOUS
  <2>3. ASSUME NEW i \in both
        PROVE  /\ diffs[i] \in Int /\ (diffs[i] < 0 <=> PrecedesId(a[i], b[i]))
               /\ (diffs[i] > 0 <=> PrecedesId(b[i], a[i])) /\ (diffs[i] = 0 <=> a[i] = b[i])
    <3>1. a[i] \in Identifier /\ b[i] \in Identifier
      OBVIOUS
    <3> QED
      BY <3>1, IdsCompared
  <2>4. CASE (\A i \in both : diffs[i] = 0) /\ ComparePreRelease(a, b) = rest
    <3>1. \A i \in both : a[i] = b[i]
      <4> HIDE DEF diffs
      <4> QED
        BY <2>3, <2>4
    <3>2. /\ Len(a) - Len(b) < 0 <=> PrecedesPre(a, b)
          /\ Len(b) - Len(a) < 0 <=> PrecedesPre(b, a)
          /\ Len(a) - Len(b) = 0 <=> a = b
      BY <1>4, <3>1, PrefixesCompared
    <3> QED
      BY <2>2, <2>4, <3>2
  <2>5. ASSUME NEW i \in both, diffs[i] # 0, ComparePreRelease(a, b) = diffs[i],
               \A j \in both : j < i => diffs[j] = 0
        PROVE  /\ ComparePreRelease(a, b) \in Int
               /\ ComparePreRelease(a, b) < 0 <=> PrecedesPre(a, b)
               /\ ComparePreRelease(a, b) > 0 <=> PrecedesPre(b, a)
               /\ ComparePreRelease(a, b) = 0 <=> a = b
    <3>1. a[i] # b[i] /\ \A j \in both : j < i => a[j] = b[j]
      <4> HIDE DEF diffs
      <4> QED
        BY <2>3, <2>5
    <3>2. PrecedesPre(a, b) <=> PrecedesId(a[i], b[i])
      BY <3>1, DifferencesCompared
    <3>3. PrecedesPre(b, a) <=> PrecedesId(b[i], a[i])
      BY <3>1, DifferencesCompared
    <3> HIDE DEF diffs
    <3> QED
      BY <2>3, <2>5, <3>1, <3>2, <3>3
  <2> QED
    <3> HIDE DEF diffs, rest
    <3> QED
      BY <2>1, <2>2, <2>4, <2>5, FirstNonZeroIs
<1> QED
  BY <1>1, <1>2, <1>3, <1>4

\* compareSemver decides as the published order does, for every two versions.
THEOREM SemverOrder ==
  ASSUME NEW a \in Version, NEW b \in Version
  PROVE  /\ CompareSemver(a, b) \in Int
         /\ CompareSemver(a, b) < 0 <=> Precedes(a, b)
         /\ CompareSemver(a, b) > 0 <=> Precedes(b, a)
         /\ CompareSemver(a, b) = 0 <=> a = b
<1> DEFINE diffs == [i \in 1..3 |-> a.core[i] - b.core[i]]
           rest == ComparePreRelease(a.pre, b.pre)
<1>1. /\ a.core \in [1..3 -> Nat] /\ b.core \in [1..3 -> Nat]
      /\ a.pre \in Seq(Identifier) /\ b.pre \in Seq(Identifier)
      /\ a = b <=> a.core = b.core /\ a.pre = b.pre
  BY DEF Version
<1>2. /\ rest \in Int /\ (rest < 0 <=> PrecedesPre(a.pre, b.pre))
      /\ (rest > 0 <=> PrecedesPre(b.pre, a.pre)) /\ (rest = 0 <=> a.pre = b.pre)
  BY <1>1, PreReleasesCompared
<1>3. \A i \in 1..3 : a.core[i] \in Nat /\ b.core[i] \in Nat /\ diffs[i] = a.core[i] - b.core[i]
  BY <1>1
<1>4. CompareSemver(a, b) = FirstNonZero(diffs, rest)
  BY DEF CompareSemver
<1>5. CASE (\A i \in 1..3 : diffs[i] = 0) /\ CompareSemver(a, b) = rest
  <2>1. \A i \in 1..3 : a.core[i] = b.core[i]
    BY <1>3, <1>5
  <2>2. a.core = b.core
    <3>1. a.core = [i \in 1..3 |-> a.core[i]] /\ b.core = [i \in 1..3 |-> b.core[i]]
      BY <1>1, Zenon
    <3>2. [i \in 1..3 |-> a.core[i]] = [i \in 1..3 |-> b.core[i]]
      BY <2>1, Zenon
    <3> QED
      BY <3>1, <3>2, Zenon
  <2> HIDE DEF diffs, rest
  <2> QED
    BY <1>1, <1>2, <1>3, <1>5, <2>1, <2>2 DEF Precedes
<1>6. ASSUME NEW i \in 1..3, diffs[i] # 0, CompareSemver(a, b) = diffs[i],
             \A j \in 1..3 : j < i => diffs[j] = 0
      PROVE  /\ CompareSemver(a, b) \in Int
             /\ CompareSemver(a, b) < 0 <=> Precedes(a, b)
             /\ CompareSemver(a, b) > 0 <=> Precedes(b, a)
             /\ CompareSemver(a, b) = 0 <=> a = b
  <2>1. a.core[i] # b.core[i] /\ \A j \in 1..3 : j < i => a.core[j] = b.core[j]
    BY <1>3, <1>6
  <2>2. a.core # b.core /\ \A j \in 1..(i - 1) : a.core[j] = b.core[j]
    BY <2>1
  <2>3. ASSUME NEW h \in 1..3, a.core[h] # b.core[h], \A j \in 1..(h - 1) : a.core[j] = b.core[j]
        PROVE  h = i
    BY <2>1, <2>3
  <2>4. \A h \in 1..3 : \A v, w \in Nat : v < w => v # w
    OBVIOUS
  <2>5. Precedes(a, b) <=> a.core[i] < b.core[i]
    BY <1>3, <2>2, <2>3 DEF Precedes
  <2>6. Precedes(b, a) <=> b.core[i] < a.core[i]
    BY <1>3, <2>2, <2>3 DEF Precedes
  <2> QED
    BY <1>3, <1>6, <2>2, <2>5, <2>6
<1> QED
  <2>1. DOMAIN diffs = 1..3 /\ 1..3 \subseteq Nat
    OBVIOUS
  <2> HIDE DEF diffs, rest
  <2> QED
    BY <1>4, <1>5, <1>6, <2>1, FirstNonZeroIs

\* The order of identifiers is transitive.
LEMMA IdsTransitive ==
  ASSUME NEW a \in Identifier, NEW b \in Identifier, NEW c \in Identifier,
         PrecedesId(a, b), PrecedesId(b, c)
  PROVE  PrecedesId(a, c)
<1>1. (a.num /\ ~b.num) \/ (a.num = b.num /\ a.val < b.val)
  BY Zenon DEF PrecedesId
<1>2. (b.num /\ ~c.num) \/ (b.num = c.num /\ b.val < c.val)
  BY Zenon DEF PrecedesId
<1>3. a.val \in Nat /\ b.val \in Nat /\ c.val \in Nat
  BY DEF Identifier
<1>4. a.val < b.val /\ b.val < c.val => a.val < c.val
  BY <1>3
<1> QED
  BY <1>1, <1>2, <1>4, Zenon DEF PrecedesId

\* So is the order of pre-releases.
LEMMA PreReleasesTransitive ==
  ASSUME NEW a \in Seq(Identifier), NEW b \in Seq(Identifier), NEW c \in Seq(Identifier),
         PrecedesPre(a, b), PrecedesPre(b, c)
  PROVE  PrecedesPre(a, c)
<1>1. /\ Len(a) \in Nat /\ DOMAIN a = 1..Len(a) /\ a # <<>>
      /\ Len(b) \in Nat /\ DOMAIN b = 1..Len(b) /\ b # <<>>
      /\ Len(c) \in Nat /\ DOMAIN c = 1..Len(c)
  BY DEF PrecedesPre
<1>2. CASE c = <<>>
  BY <1>1, <1>2 DEF PrecedesPre
<1>3. ASSUME c # <<>>, Len(a) < Len(b), \A i \in DOMAIN a : a[i] = b[i],
             Len(b) < Len(c), \A i \in DOMAIN b : b[i] = c[i]
      PROVE  PrecedesPre(a, c)
  <2>1. Len(a) < Len(c) /\ \A i \in DOMAIN a : a[i] = c[i]
    BY <1>1, <1>3
  <2> QED
    BY <1>1, <2>1 DEF PrecedesPre
<1>4. ASSUME c # <<>>, Len(a) < Len(b), \A i \in DOMAIN a : a[i] = b[i],
             NEW j \in DOMAIN b \cap DOMAIN c, PrecedesId(b[j], c[j]), \A h \in 1..(j - 1) : b[h] = c[h]
      PROVE  PrecedesPre(a, c)
  <2>1. CASE j \in DOMAIN a
    <3>1. PrecedesId(a[j], c[j]) /\ \A h \in 1..(j - 1) : a[h] = c[h]
      BY <1>1, <1>4, <2>1
    <3> QED
      BY <1>1, <2>1, <3>1 DEF PrecedesPre
  <2>2. CASE j \notin DOMAIN a
    <3>1. Len(a) < Len(c) /\ \A i \in DOMAIN a : a[i] = c[i]
      BY <1>1, <1>4, <2>2
    <3> QED
      BY <1>1, <3>1 DEF PrecedesPre
  <2> QED
    BY <2>1, <2>2
<1>5. ASSUME c # <<>>, Len(b) < Len(c), \A i \in DOMAIN b : b[i] = c[i],
             NEW i \in DOMAIN a \cap DOMAIN b, PrecedesId(a[i], b[i]), \A h \in 1..(i - 1) : a[h] = b[h]
      PROVE  PrecedesPre(a, c)
  <2>1. i \in DOMAIN c /\ PrecedesId(a[i], c[i]) /\ \A h \in 1..(i - 1) : a[h] = c[h]
    BY <1>1, <1>5
  <2> QED
    BY <1>1, <2>1 DEF PrecedesPre
<1>6. ASSUME c # <<>>,
             NEW i \in DOMAIN a \cap DOMAIN b, PrecedesId(a[i], b[i]), \A h \in 1..(i - 1) : a[h] = b[h],
             NEW j \in DOMAIN b \cap DOMAIN c, PrecedesId(b[j], c[j]), \A h \in 1..(j - 1) : b[h] = c[h]
      PROVE  PrecedesPre(a, c)
  <2>1. CASE i < j
    <3>1. i \in DOMAIN c /\ PrecedesId(a[i], c[i]) /\ \A h \in 1..(i - 1) : a[h] = c[h]
      BY <1>1, <1>6, <2>1
    <3> QED
      BY <1>1, <3>1 DEF PrecedesPre
  <2>2. CASE j < i
    <3>1. j \in DOMAIN a /\ PrecedesId(a[j], c[j]) /\ \A h \in 1..(j - 1) : a[h] = c[h]
      BY <1>1, <1>6, <2>2
    <3> QED
      BY <1>1, <3>1 DEF PrecedesPre
  <2>3. CASE i = j
    <3>1. a[i] \in Identifier /\ b[i] \in Identifier /\ c[i] \in Identifier
      BY <2>3
    <3>2. PrecedesId(a[i], c[i]) /\ \A h \in 1..(i - 1) : a[h] = c[h]
      BY <1>6, <2>3, <3>1, IdsTransitive
    <3> QED
      BY <1>1, <2>3, <3>2 DEF PrecedesPre
  <2> QED
    BY <1>1, <2>1, <2>2, <2>3
<1>7. \/ Len(a) < Len(b) /\ \A i \in DOMAIN a : a[i] = b[i]
      \/ \E i \in DOMAIN a \cap DOMAIN b : PrecedesId(a[i], b[i]) /\ \A j \in 1..(i - 1) : a[j] = b[j]
  BY <1>1 DEF PrecedesPre
<1>8. \/ c = <<>>
      \/ Len(b) < Len(c) /\ \A i \in DOMAIN b : b[i] = c[i]
      \/ \E i \in DOMAIN b \cap DOMAIN c : PrecedesId(b[i], c[i]) /\ \A j \in 1..(i - 1) : b[j] = c[j]
  BY <1>1 DEF PrecedesPre
<1> QED
  BY <1>2, <1>3, <1>4, <1>5, <1>6, <1>7, <1>8, Zenon

\* The published order is strict and total, and so what compareSemver decides is.
THEOREM SemverTotal ==
  /\ \A a, b \in Version : a = b \/ Precedes(a, b) \/ Precedes(b, a)
  /\ \A a, b \in Version : ~(Precedes(a, b) /\ Precedes(b, a)) /\ ~Precedes(a, a)
  /\ \A a, b, c \in Version : Precedes(a, b) /\ Precedes(b, c) => Precedes(a, c)
<1>1. ASSUME NEW a \in Version, NEW b \in Version
      PROVE  /\ a = b \/ Precedes(a, b) \/ Precedes(b, a)
             /\ ~(Precedes(a, b) /\ Precedes(b, a)) /\ ~(Precedes(a, b) /\ a = b)
  <2>1. \A n \in Int : (n < 0 \/ n > 0 \/ n = 0) /\ ~(n < 0 /\ n > 0) /\ ~(n < 0 /\ n = 0)
    OBVIOUS
  <2> QED
    BY <2>1, SemverOrder
<1>2. ASSUME NEW a \in Version, NEW b \in Version, NEW c \in Version, Precedes(a, b), Precedes(b, c)
      PROVE  Precedes(a, c)
  <2>1. /\ a.core \in [1..3 -> Nat] /\ b.core \in [1..3 -> Nat] /\ c.core \in [1..3 -> Nat]
        /\ a.pre \in Seq(Identifier) /\ b.pre \in Seq(Identifier) /\ c.pre \in Seq(Identifier)
    BY DEF Version
  <2>2. CASE a.core = b.core /\ b.core = c.core
    <3>1. PrecedesPre(a.pre, b.pre) /\ PrecedesPre(b.pre, c.pre)
      BY <1>2, <2>1, <2>2 DEF Precedes
    <3> QED
      BY <2>1, <2>2, <3>1, PreReleasesTransitive DEF Precedes
  <2>3. CASE a.core = b.core /\ b.core # c.core
    BY <1>2, <2>3 DEF Precedes
  <2>4. CASE a.core # b.core /\ b.core = c.core
    BY <1>2, <2>4 DEF Precedes
  <2>5. CASE a.core # b.core /\ b.core # c.core
    <3>1. PICK i \in 1..3 : a.core[i] < b.core[i] /\ \A j \in 1..(i - 1) : a.core[j] = b.core[j]
      BY <1>2, <2>5 DEF Precedes
    <3>2. PICK h \in 1..3 : b.core[h] < c.core[h] /\ \A j \in 1..(h - 1) : b.core[j] = c.core[j]
      BY <1>2, <2>5 DEF Precedes
    <3>3. \E m \in 1..3 : a.core[m] < c.core[m] /\ \A j \in 1..(m - 1) : a.core[j] = c.core[j]
      <4>1. \A j \in 1..3 : a.core[j] \in Nat /\ b.core[j] \in Nat /\ c.core[j] \in Nat
        BY <2>1
      <4>2. CASE i < h
        <5>1. b.core[i] = c.core[i] /\ \A j \in 1..(i - 1) : a.core[j] = c.core[j]
          BY <3>1, <3>2, <4>2
        <5> QED
          BY <3>1, <5>1
      <4>3. CASE h < i
        <5>1. a.core[h] = b.core[h] /\ \A j \in 1..(h - 1) : a.core[j] = c.core[j]
          BY <3>1, <3>2, <4>3
        <5> QED
          BY <3>2, <5>1
      <4>4. CASE h = i
        <5>1. a.core[i] < c.core[i] /\ \A j \in 1..(i - 1) : a.core[j] = c.core[j]
          BY <3>1, <3>2, <4>1, <4>4
        <5> QED
          BY <5>1
      <4> QED
        BY <4>2, <4>3, <4>4
    <3> QED
      BY <3>3 DEF Precedes
  <2> QED
    BY <2>2, <2>3, <2>4, <2>5
<1> QED
  BY <1>1, <1>2

\* A version satisfies a range just when the published order puts it there.
THEOREM RangesMatchOrder ==
  ASSUME NEW v \in Version, NEW range, \A term \in range : term \subseteq Comparator
  PROVE  SatisfiesRange(v, range) <=> Within(v, range)
<1>1. ASSUME NEW c \in Comparator
      PROVE  SatisfiesComparator(v, c) <=>
               \/ c.op \in {"<", "<="} /\ Precedes(v, c.version)
               \/ c.op \in {">", ">="} /\ Precedes(c.version, v)
               \/ c.op \in {"=", "<=", ">="} /\ v = c.version
  <2>1. c.op \in {"<", "<=", ">", ">=", "="} /\ c.version \in Version
    BY DEF Comparator
  <2>2. /\ CompareSemver(v, c.version) \in Int
        /\ CompareSemver(v, c.version) < 0 <=> Precedes(v, c.version)
        /\ CompareSemver(v, c.version) > 0 <=> Precedes(c.version, v)
        /\ CompareSemver(v, c.version) = 0 <=> v = c.version
    BY <2>1, SemverOrder
  <2>3. \A n \in Int : (n <= 0 <=> n < 0 \/ n = 0) /\ (n >= 0 <=> n > 0 \/ n = 0)
    OBVIOUS
  <2> DEFINE cmp == CompareSemver(v, c.version)
  <2>4. /\ c.op = "<"  => (SatisfiesComparator(v, c) <=> cmp < 0)
        /\ c.op = "<=" => (SatisfiesComparator(v, c) <=> cmp <= 0)
        /\ c.op = ">"  => (SatisfiesComparator(v, c) <=> cmp > 0)
        /\ c.op = ">=" => (SatisfiesComparator(v, c) <=> cmp >= 0)
        /\ c.op = "="  => (SatisfiesComparator(v, c) <=> cmp = 0)
    BY DEF SatisfiesComparator
  <2> QED
    BY <2>1, <2>2, <2>3, <2>4
<1> QED
  BY <1>1 DEF SatisfiesRange, Within

-------------------------------------------------------------------------------
(* Sections, settings and exceptions *)

\* The section of each rule, and where it is shown.
LEMMA RuleSections ==
  /\ \A r \in Rules :
       /\ RuleSection[r] \in Sections
       /\ RuleSection[r] \notin {"vuln", "deprecated", "unresolved", "licenses"}
       /\ RuleSection[r] = "remote" <=> r = "no-remote-deps"
       /\ "pnpm" \in Flavors(r) => RuleSection[r] \in PnpmLive
       /\ "npm" \in Flavors(r) => RuleSection[r] # "pnpm-config"
  /\ {"integrity", "remote", "resolved", "npmrc"} \subseteq Sections
  /\ {"vuln", "deprecated", "unresolved", "licenses"} \subseteq Sections
  /\ RuleSection["valid-npmrc"] = "npmrc" /\ RuleSection["secure-resolved"] = "resolved"
  /\ {"valid-npmrc", "secure-resolved", "no-remote-deps"} \subseteq Rules
<1>1. /\ RuleSection["lockfile-version"] = "structure"
      /\ RuleSection["valid-structure"] = "structure"
      /\ RuleSection["lockfile-sync"] = "structure"
      /\ RuleSection["valid-package-json"] = "package-json"
      /\ RuleSection["valid-npmrc"] = "npmrc"
      /\ RuleSection["integrity-hygiene"] = "integrity"
      /\ RuleSection["secure-resolved"] = "resolved"
      /\ RuleSection["install-scripts"] = "install-scripts"
      /\ RuleSection["no-git-deps"] = "git"
      /\ RuleSection["no-remote-deps"] = "remote"
      /\ RuleSection["resolved-registry-pin"] = "registry-pin"
      /\ RuleSection["pinned-versions"] = "pinned"
      /\ RuleSection["no-orphan-packages"] = "orphans"
      /\ RuleSection["unused-dependencies"] = "unused"
      /\ RuleSection["no-fund"] = "fund"
      /\ RuleSection["min-release-age"] = "release-age"
      /\ RuleSection["valid-pnpm-workspace"] = "pnpm-config"
      /\ RuleSection["valid-pnpm-field"] = "pnpm-config"
  <2>1. RuleSection["lockfile-version"] = "structure"
    BY DEF RuleSection, Rules, WarningRules
  <2>2. RuleSection["valid-structure"] = "structure"
    BY DEF RuleSection, Rules, WarningRules
  <2>3. RuleSection["lockfile-sync"] = "structure"
    BY DEF RuleSection, Rules, WarningRules
  <2>4. RuleSection["valid-package-json"] = "package-json"
    BY DEF RuleSection, Rules, WarningRules
  <2>5. RuleSection["valid-npmrc"] = "npmrc"
    BY DEF RuleSection, Rules, WarningRules
  <2>6. RuleSection["integrity-hygiene"] = "integrity"
    BY DEF RuleSection, Rules, WarningRules
  <2>7. RuleSection["secure-resolved"] = "resolved"
    BY DEF RuleSection, Rules, WarningRules
  <2>8. RuleSection["install-scripts"] = "install-scripts"
    BY DEF RuleSection, Rules, WarningRules
  <2>9. RuleSection["no-git-deps"] = "git"
    BY DEF RuleSection, Rules, WarningRules
  <2>10. RuleSection["no-remote-deps"] = "remote"
    BY DEF RuleSection, Rules, WarningRules
  <2>11. RuleSection["resolved-registry-pin"] = "registry-pin"
    BY DEF RuleSection, Rules, WarningRules
  <2>12. RuleSection["pinned-versions"] = "pinned"
    BY DEF RuleSection, Rules, WarningRules
  <2>13. RuleSection["no-orphan-packages"] = "orphans"
    BY DEF RuleSection, Rules, WarningRules
  <2>14. RuleSection["unused-dependencies"] = "unused"
    BY DEF RuleSection, Rules, WarningRules
  <2>15. RuleSection["no-fund"] = "fund"
    BY DEF RuleSection, Rules, WarningRules
  <2>16. RuleSection["min-release-age"] = "release-age"
    BY DEF RuleSection, Rules, WarningRules
  <2>17. RuleSection["valid-pnpm-workspace"] = "pnpm-config"
    BY DEF RuleSection, Rules, WarningRules
  <2>18. RuleSection["valid-pnpm-field"] = "pnpm-config"
    BY DEF RuleSection, Rules, WarningRules
  <2> QED
    BY <2>1, <2>2, <2>3, <2>4, <2>5, <2>6, <2>7, <2>8, <2>9, <2>10, <2>11, <2>12, <2>13, <2>14, <2>15, <2>16, <2>17, <2>18
<1>2. \A r \in Rules :
        /\ r \in {"valid-package-json", "pinned-versions", "valid-npmrc", "min-release-age"} =>
             Flavors(r) = {"npm", "pnpm"}
        /\ r \in {"valid-pnpm-workspace", "valid-pnpm-field"} => Flavors(r) = {"pnpm"}
        /\ r \notin {"valid-package-json", "pinned-versions", "valid-npmrc", "min-release-age",
                     "valid-pnpm-workspace", "valid-pnpm-field"} => Flavors(r) = {"npm"}
  BY DEF Flavors
<1>3. \A r \in Rules : RuleSection[r] \in Sections
  BY DEF Sections
<1>4. \A r \in Rules :
       /\ RuleSection[r] \notin {"vuln", "deprecated", "unresolved", "licenses"}
       /\ RuleSection[r] = "remote" <=> r = "no-remote-deps"
  BY <1>1 DEF Rules, WarningRules
<1>5. \A r \in Rules : "pnpm" \in Flavors(r) => RuleSection[r] \in PnpmLive
  BY <1>1, <1>2 DEF PnpmLive, Rules, WarningRules
<1>6. \A r \in Rules : "npm" \in Flavors(r) => RuleSection[r] # "pnpm-config"
  BY <1>1, <1>2 DEF Rules, WarningRules
<1>7. {"valid-npmrc", "secure-resolved", "no-remote-deps", "integrity-hygiene"} \subseteq Rules
  BY DEF Rules, WarningRules
<1>8. {"integrity", "remote", "resolved", "npmrc"} \subseteq Sections
  BY <1>1, <1>3, <1>7, Zenon
<1>9. {"vuln", "deprecated", "unresolved", "licenses"} \subseteq Sections
  BY DEF Sections
<1> QED
  BY <1>1, <1>3, <1>4, <1>5, <1>6, <1>7, <1>8, <1>9

\* Two of the rules.
LEMMA RuleNames == {"valid-npmrc", "secure-resolved"} \subseteq Rules
BY DEF Rules, WarningRules

\* The values of a function on a finite set are finitely many.
LEMMA ImageFinite ==
  ASSUME NEW S, IsFiniteSet(S), NEW f, NEW T, \A t \in T : \E x \in S : t = f[x]
  PROVE  IsFiniteSet(T)
<1> DEFINE D == {x \in S : f[x] \in T}
           g == [x \in D |-> f[x]]
<1>1. IsFiniteSet(D)
  BY FS_Subset
<1>2. g \in Surjection(D, T)
  <2>1. g \in [D -> T]
    OBVIOUS
  <2>2. ASSUME NEW t \in T PROVE \E x \in D : g[x] = t
    OBVIOUS
  <2> HIDE DEF D, g
  <2> QED
    BY <2>1, <2>2, Fun_IsSurj
<1> QED
  <2> HIDE DEF D, g
  <2> QED
    BY <1>1, <1>2, FS_Surjection

\* Sets of two and of eight are finite.
LEMMA SmallFinite ==
  /\ \A a, b : IsFiniteSet({a, b})
  /\ \A a, b, c, d, e, f, g, h : IsFiniteSet({a, b, c, d, e, f, g, h})
<1>1. ASSUME NEW a, NEW b PROVE IsFiniteSet({a, b})
  <2>1. {a, b} = {a} \cup {b}
    OBVIOUS
  <2>2. IsFiniteSet({a} \cup {b})
    BY FS_Singleton, FS_Union
  <2> QED
    BY <2>1, <2>2, Zenon
<1>2. ASSUME NEW a, NEW b, NEW c, NEW d PROVE IsFiniteSet({a, b, c, d})
  <2>1. {a, b, c, d} = {a, b} \cup {c, d}
    OBVIOUS
  <2>2. IsFiniteSet({a, b} \cup {c, d})
    BY <1>1, FS_Union
  <2> QED
    BY <2>1, <2>2, Zenon
<1>3. ASSUME NEW a, NEW b, NEW c, NEW d, NEW e, NEW f, NEW g, NEW h
      PROVE  IsFiniteSet({a, b, c, d, e, f, g, h})
  <2>1. {a, b, c, d, e, f, g, h} = {a, b, c, d} \cup {e, f, g, h}
    OBVIOUS
  <2>2. IsFiniteSet({a, b, c, d} \cup {e, f, g, h})
    BY <1>2, FS_Union
  <2> QED
    BY <2>1, <2>2, Zenon
<1> QED
  BY <1>1, <1>3

\* There are finitely many rules,
LEMMA RulesFinite == IsFiniteSet(Rules)
<1>1. IsFiniteSet(WarningRules)
  BY SmallFinite, Zenon DEF WarningRules
<1>2. IsFiniteSet({"lockfile-version", "valid-structure", "valid-package-json", "integrity-hygiene",
                   "secure-resolved", "resolved-registry-pin", "pinned-versions", "lockfile-sync"})
  BY SmallFinite, Zenon
<1>3. IsFiniteSet({"valid-pnpm-workspace", "valid-pnpm-field"})
  BY SmallFinite
<1>4. Rules = {"lockfile-version", "valid-structure", "valid-package-json", "integrity-hygiene",
               "secure-resolved", "resolved-registry-pin", "pinned-versions", "lockfile-sync"}
              \cup {"valid-pnpm-workspace", "valid-pnpm-field"} \cup WarningRules
  BY DEF Rules
<1> QED
  BY <1>1, <1>2, <1>3, <1>4, FS_Union

\* and of sections.
LEMMA SectionsFinite == IsFiniteSet(Sections)
<1>1. IsFiniteSet({RuleSection[r] : r \in Rules})
  <2>1. \A t \in {RuleSection[r] : r \in Rules} : \E x \in Rules : t = RuleSection[x]
    OBVIOUS
  <2> QED
    BY <2>1, RulesFinite, ImageFinite
<1>2. IsFiniteSet({"vuln", "deprecated", "unresolved", "licenses"})
  <2>1. {"vuln", "deprecated", "unresolved", "licenses"} = {"vuln", "deprecated"} \cup {"unresolved", "licenses"}
    OBVIOUS
  <2>2. IsFiniteSet({"vuln", "deprecated"} \cup {"unresolved", "licenses"})
    BY SmallFinite, FS_Union
  <2> QED
    BY <2>1, <2>2, Zenon
<1> QED
  BY <1>1, <1>2, FS_Union DEF Sections

\* What a list of exceptions is.
ExceptionsShape(exceptions) ==
  DOMAIN exceptions \subseteq Nat /\ \A i \in DOMAIN exceptions : ExceptionShape(exceptions[i])

\* A file gives the exceptions of its two sections, one after the other.
LEMMA FileExceptions ==
  ASSUME NEW file, file # None, FileShape(file)
  PROVE  ExceptionsShape(ResolveToolSection(file).exceptions)
<1> DEFINE a == file.common.exceptions
           b == file.own.exceptions
           A == {a[i] : i \in DOMAIN a}
           B == {b[i] : i \in DOMAIN b}
<1>1. a \in Seq(A) /\ b \in Seq(B) /\ (\A x \in A : ExceptionShape(x)) /\ (\A x \in B : ExceptionShape(x))
  <2>1. a \in Seq(A) /\ b \in Seq(B)
    BY DEF FileShape, SectionShape
  <2>2. \A i \in DOMAIN a : ExceptionShape(a[i])
    BY DEF FileShape, SectionShape
  <2>3. \A i \in DOMAIN b : ExceptionShape(b[i])
    BY DEF FileShape, SectionShape
  <2> QED
    BY <2>1, <2>2, <2>3
<1>2. ResolveToolSection(file).exceptions = a \o b
  BY DEF ResolveToolSection
<1> HIDE DEF a, b, A, B
<1>3. a \in Seq(A \cup B) /\ b \in Seq(A \cup B)
  BY <1>1
<1>4. a \o b \in Seq(A \cup B)
  BY <1>3
<1>5. DOMAIN (a \o b) \subseteq Nat /\ \A i \in DOMAIN (a \o b) : (a \o b)[i] \in A \cup B
  BY <1>4
<1> QED
  BY <1>1, <1>2, <1>5 DEF ExceptionsShape

\* The configuration of a run has exceptions of that shape, and plain http is not allowed.
LEMMA LoadedShape ==
  ASSUME NEW files, FilesShape(files), LoadAuditConfig(files) # Invalid
  PROVE  /\ ExceptionsShape(LoadAuditConfig(files).exceptions)
         /\ LoadAuditConfig(files).options.allowHttp = FALSE
<1> DEFINE found == FindSharedConfig(files.dirs)
           shared == IF found = None THEN NoSection ELSE ResolveToolSection(found)
           given == Or(files.explicit, files.tool)
           sectioned == files.explicit # None /\ files.explicit.shape = "shared"
           tool == CASE given = None -> NoSection
                     [] sectioned    -> ResolveToolSection(given)
                     [] OTHER        -> [NoSection EXCEPT !.rules = given.own.rules,
                                                          !.maxWarnings = given.own.maxWarnings]
           gate == IF sectioned THEN tool ELSE shared
           user == Or(tool.rules, shared.rules)
           set == Or(tool.maxWarnings, shared.maxWarnings)
           loaded == [rules          |-> MergeConfig(user),
                      options        |-> RuleOptions(shared.hosts \cup tool.hosts, {}),
                      maxWarnings    |-> Or(Or(set, gate.count), -1),
                      failOnSeverity |-> gate.severity,
                      exceptions     |-> gate.exceptions]
<1>1. found = None \/ FileShape(found)
  <2> DEFINE dirs == files.dirs
             has(i) == dirs[i].canonical # None \/ dirs[i].deprecated # None
             hits == {i \in DOMAIN dirs : has(i) /\ \A j \in 1..(i - 1) : ~has(j) /\ ~dirs[j].git}
  <2>1. CASE hits = {}
    BY <2>1 DEF FindSharedConfig
  <2>2. CASE hits # {}
    <3>1. hits \in SUBSET Nat
      BY DEF FilesShape
    <3>2. Min(hits) \in hits
      <4> HIDE DEF hits
      <4> QED
        BY <2>2, <3>1, MinIn
    <3>3. found = Or(dirs[Min(hits)].canonical, dirs[Min(hits)].deprecated)
      BY <2>2 DEF FindSharedConfig
    <3>4. Min(hits) \in DOMAIN files.dirs
      BY <3>2
    <3>5. FileShape(dirs[Min(hits)].canonical) /\ FileShape(dirs[Min(hits)].deprecated)
      <4> HIDE DEF hits
      <4> QED
        BY <3>4 DEF FilesShape
    <3> HIDE DEF hits, found
    <3> QED
      BY <3>3, <3>5 DEF Or
  <2> QED
    BY <2>1, <2>2
<1>2. ExceptionsShape(shared.exceptions)
  <2>1. CASE found = None
    BY <2>1 DEF NoSection, ExceptionsShape
  <2>2. CASE found # None
    <3>1. shared = ResolveToolSection(found)
      BY <2>2
    <3> HIDE DEF found
    <3> QED
      BY <1>1, <2>2, <3>1, FileExceptions
  <2> QED
    BY <2>1, <2>2
<1>3. ASSUME sectioned PROVE ExceptionsShape(tool.exceptions)
  <2>1. given = files.explicit /\ given # None /\ FileShape(given)
    BY <1>3 DEF Or, FilesShape
  <2>2. tool = ResolveToolSection(given)
    BY <1>3, <2>1
  <2> HIDE DEF tool, given
  <2> QED
    BY <2>1, <2>2, FileExceptions
<1>4. ExceptionsShape(gate.exceptions)
  <2> HIDE DEF shared, tool, sectioned
  <2> QED
    BY <1>2, <1>3
<1>5. LoadAuditConfig(files) = loaded
  <2>1. LoadAuditConfig(files) =
          IF \/ found # None /\ ~FileValid(found)
             \/ sectioned /\ ~FileValid(given)
             \/ user # None /\ ~(DOMAIN user \subseteq Rules)
             \/ gate.count # None /\ set = None /\ gate.count < 0
          THEN Invalid ELSE loaded
    BY DEF LoadAuditConfig
  <2> HIDE DEF found, sectioned, user, gate, set, loaded, given
  <2> QED
    BY <2>1
<1>6. loaded.exceptions = gate.exceptions /\ loaded.options = RuleOptions(shared.hosts \cup tool.hosts, {})
  <2> HIDE DEF found, sectioned, user, gate, set, given, shared, tool
  <2> QED
    OBVIOUS
<1> HIDE DEF loaded, gate, shared, tool
<1> QED
  BY <1>4, <1>5, <1>6 DEF RuleOptions

\* So has what the flags make of it.
LEMMA ConfiguredShape ==
  ASSUME NEW r \in Runs, Configured(r.files, r.flags) # Invalid
  PROVE  /\ ExceptionsShape(Configured(r.files, r.flags).exceptions)
         /\ Configured(r.files, r.flags).options.allowHttp = FALSE
<1> DEFINE loaded == LoadAuditConfig(r.files)
           ruled == ApplyRuleOverrides(loaded, r.flags.rules)
<1>1. ruled # Invalid /\ Configured(r.files, r.flags) =
        [ruled EXCEPT !.maxWarnings =
           Or(r.flags.count, Or(r.flags.maxWarnings, IF r.flags.strict THEN 0 ELSE ruled.maxWarnings))]
  BY DEF Configured, ApplyMaxWarnings
<1>2. loaded # Invalid /\ ruled = [loaded EXCEPT !.rules = r.flags.rules @@ loaded.rules]
  BY <1>1 DEF ApplyRuleOverrides
<1>3. ExceptionsShape(loaded.exceptions) /\ loaded.options.allowHttp = FALSE
  BY <1>2, LoadedShape, RunsAssumption DEF RunShape
<1>4. {"rules", "options", "maxWarnings", "exceptions"} \subseteq DOMAIN loaded
  BY <1>2 DEF LoadAuditConfig
<1> HIDE DEF loaded, ruled
<1>5. ruled.exceptions = loaded.exceptions /\ ruled.options = loaded.options /\ DOMAIN ruled = DOMAIN loaded
  BY <1>2, <1>4
<1>6. /\ Configured(r.files, r.flags).exceptions = ruled.exceptions
      /\ Configured(r.files, r.flags).options = ruled.options
  BY <1>1, <1>4, <1>5
<1> QED
  BY <1>3, <1>5, <1>6

-------------------------------------------------------------------------------
(* Findings and what takes them out *)

RuleWaiver(f) == Waiver(AuditProbes(f))
ScanWaiver(section, f) == Waiver(ScanProbes(section, f))

\* The finding has been taken out, by the exception that waives it.
RuleTaken(f) == RuleWaiver(f) # 0 /\ [finding |-> f, by |-> RuleWaiver(f)] \in suppressed
ScanTaken(section, f) ==
  ScanWaiver(section, f) # 0 /\ [finding |-> f, by |-> ScanWaiver(section, f)] \in suppressed

Kept(section, f) == f \in buckets[section] \/ ScanTaken(section, f)

Step == run' = run /\ config' = config

\* What only the run and its settings decide stays as they stay.
LEMMA PackagesStay ==
  ASSUME run' = run
  PROVE  /\ Packages' = Packages /\ Scanned' = Scanned /\ NeedsPackagesMap' = NeedsPackagesMap
         /\ \A f : HostOf(f)' = HostOf(f)
         /\ \A f : FindingPackage(f)' = FindingPackage(f)
         /\ \A c : Gaps(c)' = Gaps(c)
         /\ \A k, s : OfPackage(k, s)' = OfPackage(k, s)
<1>1. Packages' = Packages
  BY DEF Packages
<1>2. Scanned' = Scanned
  BY <1>1 DEF Scanned
<1>3. \A f : HostOf(f)' = HostOf(f)
  BY <1>1 DEF HostOf
<1>4. \A f : FindingPackage(f)' = FindingPackage(f)
  BY <1>1 DEF FindingPackage
<1>5. \A c : Gaps(c)' = Gaps(c)
  BY <1>1, <1>2 DEF Gaps
<1>6. \A k, s : OfPackage(k, s)' = OfPackage(k, s)
  BY DEF OfPackage
<1> QED
  BY <1>1, <1>2, <1>3, <1>4, <1>5, <1>6 DEF NeedsPackagesMap

\* So does what the scans find,
LEMMA ScansStay ==
  ASSUME run' = run
  PROVE  /\ \A c : Unresolved(c)' = Unresolved(c)
         /\ Mismatches' = Mismatches /\ Vulnerabilities' = Vulnerabilities
         /\ Deprecations' = Deprecations /\ LicenseFindings' = LicenseFindings
<1>1. \A c : Unresolved(c)' = Unresolved(c)
  BY PackagesStay DEF Unresolved
<1>2. Mismatches' = Mismatches
  BY PackagesStay DEF Mismatches
<1>3. Vulnerabilities' = Vulnerabilities
  BY PackagesStay DEF Vulnerabilities
<1>4. Deprecations' = Deprecations
  BY PackagesStay DEF Deprecations
<1>5. LicenseFindings' = LicenseFindings
  BY PackagesStay DEF LicenseFindings
<1> QED
  BY <1>1, <1>2, <1>3, <1>4, <1>5

\* and, as long as the settings stay, what the rules find.
LEMMA FindingsStay ==
  ASSUME Step
  PROVE  /\ RulesOn' = RulesOn
         /\ \A r : RuleFindings(r)' = RuleFindings(r)
         /\ \A c : Unresolved(c)' = Unresolved(c)
         /\ Mismatches' = Mismatches /\ Vulnerabilities' = Vulnerabilities
         /\ Deprecations' = Deprecations /\ LicenseFindings' = LicenseFindings
<1>1. run' = run /\ config' = config
  BY DEF Step
<1>2. RulesOn' = RulesOn
  BY <1>1 DEF RulesOn
<1>3. \A r : RuleFindings(r)' = RuleFindings(r)
  BY <1>1 DEF RuleFindings
<1> QED
  BY <1>1, <1>2, <1>3, ScansStay

\* And the exception that waives each.
LEMMA WaiversStay ==
  ASSUME Step
  PROVE  /\ \A p : Waiver(p)' = Waiver(p)
         /\ \A f : RuleWaiver(f)' = RuleWaiver(f)
         /\ \A s, f : ScanWaiver(s, f)' = ScanWaiver(s, f)
<1>1. run' = run /\ config' = config
  BY DEF Step
<1>2. \A p : Waiver(p)' = Waiver(p)
  BY <1>1 DEF Waiver
<1>3. \A f : AuditProbes(f)' = AuditProbes(f)
  BY <1>1, PackagesStay DEF AuditProbes
<1>4. \A f : RuleWaiver(f)' = RuleWaiver(f)
  BY <1>2, <1>3 DEF RuleWaiver
<1>5. \A s, f : ScanProbes(s, f)' = ScanProbes(s, f)
  BY DEF ScanProbes
<1>6. \A s, f : ScanWaiver(s, f)' = ScanWaiver(s, f)
  BY <1>2, <1>5 DEF ScanWaiver
<1> QED
  BY <1>2, <1>4, <1>6

\* An exception that takes a finding out names its rule, is in force and is about it.
LEMMA WaiverExcuses ==
  ASSUME run \in Runs, ExceptionsShape(config.exceptions), NEW probe, Waiver({probe}) # 0
  PROVE  /\ Waiver({probe}) \in DOMAIN config.exceptions
         /\ config.exceptions[Waiver({probe})].rule = probe.rule
         /\ Excused(probe.rule, probe.package, probe.version, probe.id)
<1> DEFINE hits == {i \in DOMAIN config.exceptions :
                      /\ ~IsExpired(config.exceptions[i], run.today)
                      /\ \E p \in {probe} : MatchException(config.exceptions[i], p)}
<1>1. hits # {} /\ Waiver({probe}) = Min(hits)
  BY DEF Waiver
<1>2. hits \in SUBSET Nat
  BY DEF ExceptionsShape
<1>3. Min(hits) \in hits
  <2> HIDE DEF hits
  <2> QED
    BY <1>1, <1>2, MinIn
<1>4. PICK i \in DOMAIN config.exceptions :
        /\ i = Waiver({probe}) /\ ~IsExpired(config.exceptions[i], run.today)
        /\ MatchException(config.exceptions[i], probe)
  BY <1>1, <1>3
<1> DEFINE ex == config.exceptions[i]
<1>5. ExceptionShape(ex) /\ run.today \in Int
  BY RunsAssumption DEF ExceptionsShape, RunShape
<1>6. ~IsExpired(ex, run.today) /\ MatchException(ex, probe)
  BY <1>4
<1> HIDE DEF ex
<1>7. ex.rule = probe.rule /\ ex.path = None /\ ex.id \in {None, probe.id}
  BY <1>6 DEF MatchException
<1>8. ex.package \in {None, probe.package} /\ ex.version \in {None, probe.version}
  BY <1>5, <1>6 DEF MatchException, ExceptionShape
<1>9. ex.expires = None \/ ex.expires > run.today
  BY <1>5, <1>6 DEF IsExpired, ExceptionShape
<1> QED
  BY <1>4, <1>7, <1>8, <1>9 DEF Excused, ex

\* The fields of a finding about a package.
LEMMA OfPackageIs ==
  ASSUME NEW k, NEW severity
  PROVE  LET f == OfPackage(k, severity) IN
         /\ DOMAIN f = {"at", "severity", "rule", "check", "name", "version", "id", "ladder"}
         /\ f.at = <<k>> /\ f.severity = severity /\ f.rule = None /\ f.check = None /\ f.id = None
         /\ f.name = Packages[k].name /\ f.version = Packages[k].version
<1> DEFINE bare == Finding(<<k>>, severity)
<1>1. /\ DOMAIN bare = {"at", "severity", "rule", "check", "name", "version", "id", "ladder"}
      /\ bare.at = <<k>> /\ bare.severity = severity /\ bare.rule = None /\ bare.check = None /\ bare.id = None
  BY DEF Finding
<1>2. OfPackage(k, severity) = [bare EXCEPT !.name = Packages[k].name, !.version = Packages[k].version]
  BY DEF OfPackage, Packages
<1> HIDE DEF bare
<1> QED
  BY <1>1, <1>2

\* What a gap is reported as.
LEMMA UnresolvedAre ==
  ASSUME NEW check
  PROVE  /\ \A f \in Unresolved(check) : f.id = None
         /\ \A k \in Gaps(check) : \E f \in Unresolved(check) :
              /\ f.at = <<k>> /\ f.check = check
              /\ f.name = Packages[k].name /\ f.version = Packages[k].version
              /\ ~run.flags.allowUnresolved => f.severity = "error"
<1> DEFINE level == IF run.flags.allowUnresolved THEN "warn" ELSE "error"
           gap(k) == [OfPackage(k, level) EXCEPT !.check = check]
<1>1. Unresolved(check) = {gap(k) : k \in Gaps(check)}
  BY DEF Unresolved
<1>2. ASSUME NEW k
      PROVE  /\ gap(k).id = None /\ gap(k).at = <<k>> /\ gap(k).check = check
             /\ gap(k).name = Packages[k].name /\ gap(k).version = Packages[k].version
             /\ ~run.flags.allowUnresolved => gap(k).severity = "error"
  <2>1. \A f : DOMAIN f = {"at", "severity", "rule", "check", "name", "version", "id", "ladder"} =>
          LET g == [f EXCEPT !.check = check] IN
          /\ g.id = f.id /\ g.at = f.at /\ g.check = check /\ g.name = f.name /\ g.version = f.version
          /\ g.severity = f.severity
    OBVIOUS
  <2> QED
    BY <2>1, OfPackageIs
<1> HIDE DEF gap
<1> QED
  BY <1>1, <1>2

Verdict(k, a) == AdvisoryAppliesTo(Packages[k].version, a, Cardinality(VersionsAsked(Packages, k)) > 1)
Level(k, a) == VulnLevel(a, Verdict(k, a) = "uncertain", SeverityGate(run.flags))
VulnOf(k, a) == [OfPackage(k, Level(k, a)) EXCEPT !.id = a.id, !.ladder = a.severity]

\* The findings of the vulnerability scan, one for each advisory that is not ruled out.
LEMMA VulnerabilitiesAre ==
  Vulnerabilities = UNION {{VulnOf(k, a) : a \in {a \in run.world.advisories[Packages[k].name] : Verdict(k, a) # "no"}} :
                           k \in Scanned \ Gaps("vuln")}
<1> DEFINE gate == SeverityGate(run.flags)
           raw(k, a) == VulnFinding(Packages, k, a, gate)
           found == VulnFindings(Packages, run.world.advisories, run.world.deaf["vuln"], gate)
           as(v) == [OfPackage(v.at, v.severity) EXCEPT !.id = v.id, !.ladder = v.advisorySeverity]
           asked == {k \in Candidates(Packages) : Packages[k].host \notin run.world.deaf["vuln"]}
<1>1. Vulnerabilities = {as(v) : v \in found}
  BY DEF Vulnerabilities
<1>2. found = {f \in UNION {{raw(k, a) : a \in run.world.advisories[Packages[k].name]} : k \in asked} :
                 f.applies # "no"}
  BY DEF VulnFindings
<1>3. asked = Scanned \ Gaps("vuln")
  BY DEF Scanned, Gaps
<1>4. ASSUME NEW k, NEW a
      PROVE  /\ raw(k, a).at = k /\ raw(k, a).severity = Level(k, a) /\ raw(k, a).id = a.id
             /\ raw(k, a).advisorySeverity = a.severity /\ raw(k, a).applies = Verdict(k, a)
  BY DEF VulnFinding, Level, Verdict
<1>5. ASSUME NEW k, NEW a PROVE as(raw(k, a)) = VulnOf(k, a)
  <2>1. /\ raw(k, a).at = k /\ raw(k, a).severity = Level(k, a) /\ raw(k, a).id = a.id
        /\ raw(k, a).advisorySeverity = a.severity
    BY <1>4
  <2> HIDE DEF raw
  <2>2. as(raw(k, a)) = [OfPackage(raw(k, a).at, raw(k, a).severity) EXCEPT
                           !.id = raw(k, a).id, !.ladder = raw(k, a).advisorySeverity]
    OBVIOUS
  <2> QED
    BY <2>1, <2>2, Zenon DEF VulnOf
<1> HIDE DEF raw, as, found, asked
<1>6. ASSUME NEW f PROVE f \in Vulnerabilities <=> \E k \in asked : \E a \in run.world.advisories[Packages[k].name] :
                                                     Verdict(k, a) # "no" /\ f = VulnOf(k, a)
  <2>1. f \in Vulnerabilities <=> \E v \in found : f = as(v)
    BY <1>1
  <2>2. \A v : v \in found <=> \E k \in asked : \E a \in run.world.advisories[Packages[k].name] :
                                  v = raw(k, a) /\ v.applies # "no"
    BY <1>2
  <2>3. ASSUME NEW v \in found, f = as(v)
        PROVE  \E k \in asked : \E a \in run.world.advisories[Packages[k].name] :
                 Verdict(k, a) # "no" /\ f = VulnOf(k, a)
    <3>1. PICK k \in asked : \E a \in run.world.advisories[Packages[k].name] : v = raw(k, a) /\ v.applies # "no"
      BY <2>2
    <3>2. PICK a \in run.world.advisories[Packages[k].name] : v = raw(k, a) /\ v.applies # "no"
      BY <3>1
    <3>3. raw(k, a).applies = Verdict(k, a) /\ as(raw(k, a)) = VulnOf(k, a)
      BY <1>4, <1>5
    <3>4. Verdict(k, a) # "no" /\ f = VulnOf(k, a)
      BY <2>3, <3>2, <3>3, Zenon
    <3> QED
      BY <3>4
  <2>4. ASSUME NEW k \in asked, NEW a \in run.world.advisories[Packages[k].name],
               Verdict(k, a) # "no", f = VulnOf(k, a)
        PROVE  \E v \in found : f = as(v)
    <3>1. raw(k, a).applies = Verdict(k, a) /\ as(raw(k, a)) = VulnOf(k, a)
      BY <1>4, <1>5
    <3>2. raw(k, a) \in found
      BY <2>2, <2>4, <3>1, Zenon
    <3> QED
      BY <2>4, <3>1, <3>2, Zenon
  <2> QED
    BY <2>1, <2>3, <2>4, Zenon
<1> QED
  BY <1>3, <1>6

\* The fields of each of them.
LEMMA VulnOfIs ==
  ASSUME NEW k, NEW a
  PROVE  /\ VulnOf(k, a).at = <<k>> /\ VulnOf(k, a).id = a.id /\ VulnOf(k, a).severity = Level(k, a)
         /\ VulnOf(k, a).name = Packages[k].name /\ VulnOf(k, a).version = Packages[k].version
<1>1. \A f : DOMAIN f = {"at", "severity", "rule", "check", "name", "version", "id", "ladder"} =>
        LET g == [f EXCEPT !.id = a.id, !.ladder = a.severity] IN
        /\ g.id = a.id /\ g.at = f.at /\ g.name = f.name /\ g.version = f.version
        /\ g.severity = f.severity
  OBVIOUS
<1> QED
  BY <1>1, OfPackageIs DEF VulnOf

\* The fields of what a rule finds.
LEMMA RuleFindingsAre ==
  ASSUME NEW r
  PROVE  /\ \A f \in RuleFindings(r) : f.rule = r /\ f.id = None
         /\ \A raw \in RuleCheck(r, run.project, config.options) : \E f \in RuleFindings(r) :
              f.at = raw.at /\ f.severity = Or(raw.forced, config.rules[r])
<1> DEFINE as(raw) == [Finding(raw.at, Or(raw.forced, config.rules[r])) EXCEPT !.rule = r]
<1>1. RuleFindings(r) = {as(raw) : raw \in RuleCheck(r, run.project, config.options)}
  BY DEF RuleFindings
<1>2. ASSUME NEW raw
      PROVE  /\ as(raw).rule = r /\ as(raw).id = None
             /\ as(raw).at = raw.at /\ as(raw).severity = Or(raw.forced, config.rules[r])
  BY DEF Finding
<1> HIDE DEF as
<1> QED
  BY <1>1, <1>2

-------------------------------------------------------------------------------
(* There are finitely many findings *)

\* A project has finitely many findings of the two plain kinds.
LEMMA PlainFinite ==
  ASSUME NEW S, IsFiniteSet(S)
  PROVE  /\ \A forced : IsFiniteSet({Raw(at, forced) : at \in S})
         /\ IsFiniteSet(Plain(S)) /\ IsFiniteSet(Keys(S))
<1>1. ASSUME NEW T, IsFiniteSet(T), NEW forced PROVE IsFiniteSet({Raw(at, forced) : at \in T})
  <2> DEFINE f == [at \in T |-> Raw(at, forced)]
  <2>1. \A t \in {Raw(at, forced) : at \in T} : \E x \in T : t = f[x]
    OBVIOUS
  <2> HIDE DEF f
  <2> QED
    BY <1>1, <2>1, ImageFinite
<1>2. ASSUME NEW T, IsFiniteSet(T) PROVE IsFiniteSet(Plain(T))
  BY <1>1, <1>2 DEF Plain
<1>3. IsFiniteSet({<<k>> : k \in S})
  <2> DEFINE f == [k \in S |-> <<k>>]
  <2>1. \A t \in {<<k>> : k \in S} : \E x \in S : t = f[x]
    OBVIOUS
  <2> HIDE DEF f
  <2> QED
    BY <2>1, ImageFinite
<1> QED
  BY <1>1, <1>2, <1>3 DEF Keys

\* Lengthening each member of a finite set leaves it finite.
LEMMA TagsFinite ==
  ASSUME NEW S, IsFiniteSet(S), NEW tag
  PROVE  IsFiniteSet({<<tag>> \o d : d \in S}) /\ IsFiniteSet({<<tag, d>> : d \in S})
<1>1. IsFiniteSet({<<tag>> \o d : d \in S})
  <2> DEFINE f == [d \in S |-> <<tag>> \o d]
  <2>1. \A t \in {<<tag>> \o d : d \in S} : \E x \in S : t = f[x]
    OBVIOUS
  <2> HIDE DEF f
  <2> QED
    BY <2>1, ImageFinite
<1>2. IsFiniteSet({<<tag, d>> : d \in S})
  <2> DEFINE f == [d \in S |-> <<tag, d>>]
  <2>1. \A t \in {<<tag, d>> : d \in S} : \E x \in S : t = f[x]
    OBVIOUS
  <2> HIDE DEF f
  <2> QED
    BY <2>1, ImageFinite
<1> QED
  BY <1>1, <1>2

\* So does naming it behind two others.
LEMMA TwoTagsFinite ==
  ASSUME NEW S, IsFiniteSet(S), NEW tag, NEW other
  PROVE  IsFiniteSet({<<tag, other, d>> : d \in S})
<1> DEFINE f == [d \in S |-> <<tag, other, d>>]
<1>1. \A t \in {<<tag, other, d>> : d \in S} : \E x \in S : t = f[x]
  OBVIOUS
<1> HIDE DEF f
<1> QED
  BY <1>1, ImageFinite

\* The rules about package.json find finitely many places.
LEMMA ManifestFinite ==
  ASSUME NEW command, NEW p, ProjectShape(command, p), NEW o
  PROVE  /\ IsFiniteSet(PinnedVersions(p, o)) /\ IsFiniteSet(LockfileSync(p))
         /\ IsFiniteSet(UnusedDependencies(p)) /\ IsFiniteSet(MinReleaseAge(p, o))
         /\ IsFiniteSet(Skipped)
<1>1. IsFiniteSet(Skipped)
  BY FS_Singleton DEF Skipped
<1>2. IsFiniteSet(UnusedDependencies(p))
  <2>1. IsFiniteSet(p.unused)
    BY DEF ProjectShape
  <2>2. IsFiniteSet({<<"package.json">> \o d : d \in p.unused})
    BY ONLY <2>1, TagsFinite
  <2> QED
    BY <1>1, <2>2, PlainFinite DEF UnusedDependencies
<1>3. IsFiniteSet(MinReleaseAge(p, o))
  <2> DEFINE file == IF p.flavor = "pnpm" THEN "pnpm-workspace.yaml" ELSE ".npmrc"
             a == IF CooldownShort(p, o) THEN {<<file>>} ELSE {}
             b == IF p.flavor = "pnpm" /\ p.workspace # None /\ p.workspace.blanket
                  THEN {<<file, "blanket">>} ELSE {}
  <2>1. IsFiniteSet(a) /\ IsFiniteSet(b)
    BY FS_Singleton, FS_EmptySet
  <2>2. MinReleaseAge(p, o) = Plain(a \cup b)
    BY DEF MinReleaseAge
  <2> HIDE DEF a, b
  <2> QED
    BY <2>1, <2>2, FS_Union, PlainFinite
<1>4. IsFiniteSet(PinnedVersions(p, o))
  <2>1. CASE p.manifest = None
    BY <1>1, <2>1 DEF PinnedVersions
  <2>2. CASE p.manifest # None
    <3> DEFINE a == {d \in DOMAIN p.manifest.ranges : /\ d[1] \in PinnedSections
                                                      /\ d[2] \notin o.ignored
                                                      /\ Floating(p.manifest.ranges[d])}
               b == {n \in DOMAIN p.manifest.overrides :
                       n \notin o.ignored /\ Floating(p.manifest.overrides[n])}
    <3>1. IsFiniteSet(a) /\ IsFiniteSet(b)
      BY <2>2, FS_Subset DEF ProjectShape
    <3>2. PinnedVersions(p, o) = Plain({<<"package.json">> \o d : d \in a}
                                       \cup {<<"package.json", "overrides", n>> : n \in b})
      BY <2>2 DEF PinnedVersions
    <3> HIDE DEF a, b
    <3>3. /\ IsFiniteSet({<<"package.json">> \o d : d \in a})
          /\ IsFiniteSet({<<"package.json", "overrides", n>> : n \in b})
      <4>1. IsFiniteSet({<<"package.json">> \o d : d \in a})
        BY ONLY <3>1, TagsFinite
      <4>2. IsFiniteSet({<<"package.json", "overrides", n>> : n \in b})
        <5>1. \A tag, other : IsFiniteSet({<<tag, other, n>> : n \in b})
          BY ONLY <3>1, TwoTagsFinite, Zenon
        <5> QED
          BY ONLY <5>1, Zenon
      <4> QED
        BY <4>1, <4>2
    <3>4. IsFiniteSet({<<"package.json">> \o d : d \in a} \cup {<<"package.json", "overrides", n>> : n \in b})
      BY <3>3, FS_Union
    <3> QED
      BY <3>2, <3>4, PlainFinite
  <2> QED
    BY <2>1, <2>2
<1>5. IsFiniteSet(LockfileSync(p))
  <2>1. CASE p.manifest = None
    BY <1>1, <2>1 DEF LockfileSync
  <2>2. CASE p.manifest # None
    <3> DEFINE a == {<<"", field>> : field \in OffHeading(p)}
               b == IF p.locked = None THEN {} ELSE OutOfSync(p)
    <3>1. IsFiniteSet(a)
      <4>1. IsFiniteSet({"name", "version"})
        <5>1. {"name", "version"} = {"name"} \cup {"version"}
          OBVIOUS
        <5>2. IsFiniteSet({"name"}) /\ IsFiniteSet({"version"})
          BY FS_Singleton
        <5>3. IsFiniteSet({"name"} \cup {"version"})
          BY ONLY <5>2, FS_Union, Zenon
        <5> QED
          BY ONLY <5>1, <5>3, Zenon
      <4>2. OffHeading(p) \subseteq {"name", "version"}
        BY DEF OffHeading
      <4>3. IsFiniteSet(OffHeading(p))
        BY <4>1, <4>2, FS_Subset
      <4> QED
        BY ONLY <4>3, TagsFinite
    <3>2. IsFiniteSet(b)
      <4>1. CASE p.locked = None
        BY <4>1, FS_EmptySet
      <4>2. CASE p.locked # None
        <5> DEFINE declared == p.manifest.ranges
                   locked == p.locked
                   both == DOMAIN declared \cap DOMAIN locked
                   x == (DOMAIN declared \ DOMAIN locked) \cup {d \in both : declared[d] # locked[d]}
                   y == {d \in DOMAIN declared : d[1] # "peerDependencies" /\ d[2] \notin DOMAIN p.packages}
                   z == DOMAIN locked \ DOMAIN declared
        <5>1. IsFiniteSet(DOMAIN declared) /\ IsFiniteSet(DOMAIN locked)
          BY <2>2, <4>2 DEF ProjectShape
        <5>2. x \subseteq DOMAIN declared /\ y \subseteq DOMAIN declared /\ z \subseteq DOMAIN locked
          OBVIOUS
        <5>3. OutOfSync(p) = {<<"package.json">> \o d : d \in x}
                               \cup {<<"package.json">> \o d \o <<"not installed">> : d \in y}
                               \cup {<<"package-lock.json">> \o d : d \in z}
          BY DEF OutOfSync
        <5>4. b = OutOfSync(p)
          BY <4>2
        <5> HIDE DEF x, y, z, declared, locked, b
        <5>5. IsFiniteSet(x) /\ IsFiniteSet(y) /\ IsFiniteSet(z)
          BY <5>1, <5>2, FS_Subset
        <5>6. /\ IsFiniteSet({<<"package.json">> \o d : d \in x})
              /\ IsFiniteSet({<<"package.json">> \o d \o <<"not installed">> : d \in y})
              /\ IsFiniteSet({<<"package-lock.json">> \o d : d \in z})
          <6>1. IsFiniteSet({<<"package.json">> \o d : d \in x}) /\ IsFiniteSet({<<"package-lock.json">> \o d : d \in z})
            BY ONLY <5>5, TagsFinite
          <6>2. IsFiniteSet({<<"package.json">> \o d \o <<"not installed">> : d \in y})
            <7> DEFINE f == [d \in y |-> <<"package.json">> \o d \o <<"not installed">>]
            <7>1. \A t \in {<<"package.json">> \o d \o <<"not installed">> : d \in y} : \E d \in y : t = f[d]
              OBVIOUS
            <7> HIDE DEF f
            <7> QED
              BY <5>5, <7>1, ImageFinite
          <6> QED
            BY <6>1, <6>2
        <5>7. IsFiniteSet({<<"package.json">> \o d : d \in x}
                            \cup {<<"package.json">> \o d \o <<"not installed">> : d \in y})
          BY ONLY <5>6, FS_Union, Zenon
        <5>8. IsFiniteSet(OutOfSync(p))
          <6> DEFINE s == {<<"package.json">> \o d : d \in x}
                            \cup {<<"package.json">> \o d \o <<"not installed">> : d \in y}
                     t == {<<"package-lock.json">> \o d : d \in z}
          <6>1. OutOfSync(p) = s \cup t /\ IsFiniteSet(s) /\ IsFiniteSet(t)
            BY <5>3, <5>6, <5>7
          <6> HIDE DEF s, t
          <6> QED
            BY ONLY <6>1, FS_Union, Zenon
        <5> QED
          BY <5>4, <5>8, Zenon
      <4> QED
        BY <4>1, <4>2
    <3>3. LockfileSync(p) = Plain(a \cup b)
      BY <2>2 DEF LockfileSync
    <3> HIDE DEF a, b
    <3> QED
      BY <3>1, <3>2, <3>3, FS_Union, PlainFinite
  <2> QED
    BY <2>1, <2>2
<1> QED
  BY <1>1, <1>2, <1>3, <1>4, <1>5

\* So does every other rule.
LEMMA RuleCheckFinite ==
  ASSUME NEW command, NEW p, ProjectShape(command, p), NEW o, NEW rule
  PROVE  IsFiniteSet(RuleCheck(rule, p, o))
<1>1. ASSUME NEW K \in SUBSET DOMAIN p.packages PROVE IsFiniteSet(Keys(K))
  BY FS_Subset, PlainFinite DEF ProjectShape
<1>2. Foreign(p) \subseteq DOMAIN p.packages /\ FromWeb(p) \subseteq DOMAIN p.packages
  BY DEF Foreign, FromWeb
<1>3. IsFiniteSet(IF p.format < o.minVersion THEN Plain({<<"">>}) ELSE {})
  BY FS_Singleton, FS_EmptySet, PlainFinite
<1>4. IsFiniteSet(Objections(p, rule))
  <2> DEFINE S == {b \in p.broken : b.rule = rule}
             f == [b \in S |-> Raw(<<JudgedFile(rule), b.level>>, IF b.level = "warn" THEN "warn" ELSE None)]
  <2>1. IsFiniteSet(S)
    BY FS_Subset DEF ProjectShape
  <2>2. \A t \in Objections(p, rule) : \E b \in S : t = f[b]
    BY DEF Objections
  <2> HIDE DEF S, f
  <2> QED
    BY <2>1, <2>2, ImageFinite
<1>5. IsFiniteSet(IF p.manifest = None THEN Skipped ELSE Objections(p, rule))
  BY <1>4, ManifestFinite
<1>6. IsFiniteSet(IntegrityHygiene(p, o))
  BY <1>1, <1>2 DEF IntegrityHygiene
<1>7. IsFiniteSet(SecureResolved(p, o))
  BY <1>1, <1>2 DEF SecureResolved
<1>8. IsFiniteSet(InstallScripts(p, o))
  <2>1. ScriptsBlocked(p, o) \in SUBSET DOMAIN p.packages
    BY <1>2 DEF ScriptsBlocked
  <2> QED
    BY <1>1, <2>1 DEF InstallScripts
<1>9. IsFiniteSet(NoGitDeps(p))
  BY <1>1, <1>2 DEF NoGitDeps
<1>10. IsFiniteSet(NoRemoteDeps(p, o)) /\ IsFiniteSet(ResolvedRegistryPin(p, o))
  BY <1>1, <1>2 DEF NoRemoteDeps, ResolvedRegistryPin
<1>11. IsFiniteSet(Keys(p.orphans))
  BY PlainFinite DEF ProjectShape
<1>12. IsFiniteSet(NoFund(p))
  BY FS_Singleton, FS_EmptySet, PlainFinite DEF NoFund
<1>13. IsFiniteSet(ValidNpmrc(p))
  <2>1. CASE p.npmrc = None
    BY <2>1, FS_EmptySet DEF ValidNpmrc
  <2>2. CASE p.npmrc # None
    <3> DEFINE codes == UNION {NpmrcIssues(p.npmrc[i], p.flavor) : i \in DOMAIN p.npmrc}
               f == [code \in codes |-> Raw(<<".npmrc", code>>, NpmrcForced(code))]
               all == {"plaintext-secret", "tls-off", "unsafe-perm", "invalid-registry",
                       "insecure-registry", "pnpm-ignored", "unknown-key"}
    <3>1. \A e : NpmrcIssues(e, p.flavor) \subseteq all
      BY DEF NpmrcIssues
    <3>2. IsFiniteSet(all)
      <4>1. all = {"plaintext-secret", "tls-off", "unsafe-perm", "invalid-registry",
                   "insecure-registry", "pnpm-ignored", "unknown-key", "unknown-key"}
        OBVIOUS
      <4>2. IsFiniteSet({"plaintext-secret", "tls-off", "unsafe-perm", "invalid-registry",
                         "insecure-registry", "pnpm-ignored", "unknown-key", "unknown-key"})
        BY SmallFinite, Zenon
      <4> QED
        BY <4>1, <4>2, Zenon
    <3> HIDE DEF all
    <3>3. IsFiniteSet(codes)
      BY <3>1, <3>2, FS_Subset
    <3>4. \A t \in ValidNpmrc(p) : \E code \in codes : t = f[code]
      BY <2>2 DEF ValidNpmrc
    <3> HIDE DEF codes, f
    <3> QED
      BY <3>3, <3>4, ImageFinite
  <2> QED
    BY <2>1, <2>2
<1>14. /\ IsFiniteSet(PinnedVersions(p, o)) /\ IsFiniteSet(LockfileSync(p))
       /\ IsFiniteSet(UnusedDependencies(p)) /\ IsFiniteSet(MinReleaseAge(p, o))
  BY ManifestFinite
<1> QED
  BY <1>3, <1>4, <1>5, <1>6, <1>7, <1>8, <1>9, <1>10, <1>11, <1>12, <1>13, <1>14 DEF RuleCheck

\* A run finds finitely much: the rules that are on,
LEMMA RuleFindingsFinite ==
  ASSUME run \in Runs
  PROVE  IsFiniteSet(UNION {RuleFindings(r) : r \in RulesOn})
<1>1. IsFiniteSet(RulesOn)
  BY RulesFinite, FS_Subset DEF RulesOn
<1>2. ASSUME NEW r PROVE IsFiniteSet(RuleFindings(r))
  <2> DEFINE S == RuleCheck(r, run.project, config.options)
             f == [raw \in S |-> [Finding(raw.at, Or(raw.forced, config.rules[r])) EXCEPT !.rule = r]]
  <2>1. IsFiniteSet(S)
    BY RuleCheckFinite, RunsAssumption DEF RunShape
  <2>2. \A t \in RuleFindings(r) : \E raw \in S : t = f[raw]
    BY DEF RuleFindings
  <2> HIDE DEF S, f
  <2> QED
    BY <2>1, <2>2, ImageFinite
<1>3. IsFiniteSet({RuleFindings(r) : r \in RulesOn})
  <2> DEFINE f == [r \in RulesOn |-> RuleFindings(r)]
  <2>1. \A t \in {RuleFindings(r) : r \in RulesOn} : \E r \in RulesOn : t = f[r]
    OBVIOUS
  <2> HIDE DEF f
  <2> QED
    BY <1>1, <2>1, ImageFinite
<1>4. \A T \in {RuleFindings(r) : r \in RulesOn} : IsFiniteSet(T)
  BY <1>2
<1> QED
  BY <1>3, <1>4, FS_UNION

\* and each scan.
LEMMA ScansFinite ==
  ASSUME run \in Runs
  PROVE  /\ IsFiniteSet(Scanned) /\ IsFiniteSet(Mismatches) /\ IsFiniteSet(Vulnerabilities)
         /\ IsFiniteSet(Deprecations) /\ IsFiniteSet(LicenseFindings)
         /\ \A check : IsFiniteSet(Unresolved(check))
<1>1. IsFiniteSet(DOMAIN Packages)
  BY RunsAssumption DEF RunShape, ProjectShape, Packages
<1>2. IsFiniteSet(Scanned)
  BY <1>1, FS_Subset DEF Scanned, Candidates
<1>3. IsFiniteSet(Mismatches)
  <2> DEFINE K == (run.world.mismatched \cap Scanned) \ Gaps("integrity")
             f == [k \in K |-> OfPackage(k, "error")]
  <2>1. IsFiniteSet(K)
    BY <1>2, FS_Subset
  <2>2. \A t \in Mismatches : \E k \in K : t = f[k]
    BY DEF Mismatches
  <2> HIDE DEF K, f
  <2> QED
    BY <2>1, <2>2, ImageFinite
<1>4. IsFiniteSet(Deprecations)
  <2> DEFINE K == (run.world.deprecated \cap Scanned) \ Gaps("deprecated")
             f == [k \in K |-> OfPackage(k, IF run.flags.failOnDeprecated THEN "error" ELSE "warn")]
  <2>1. IsFiniteSet(K)
    BY <1>2, FS_Subset
  <2>2. \A t \in Deprecations : \E k \in K : t = f[k]
    BY DEF Deprecations
  <2> HIDE DEF K, f
  <2> QED
    BY <2>1, <2>2, ImageFinite
<1>5. IsFiniteSet(LicenseFindings)
  <2> DEFINE K == {k \in Foreign(run.project) : run.world.license[k] # "approved"}
             f == [k \in K |-> OfPackage(k, IF run.world.license[k] = "rejected" \/ run.flags.strict
                                            THEN "error" ELSE "warn")]
  <2>1. IsFiniteSet(K)
    BY <1>1, FS_Subset DEF Foreign, Packages
  <2>2. \A t \in LicenseFindings : \E k \in K : t = f[k]
    BY DEF LicenseFindings
  <2> HIDE DEF K, f
  <2> QED
    BY <2>1, <2>2, ImageFinite
<1>6. ASSUME NEW check PROVE IsFiniteSet(Unresolved(check))
  <2> DEFINE K == Gaps(check)
             f == [k \in K |-> [OfPackage(k, IF run.flags.allowUnresolved THEN "warn" ELSE "error")
                                  EXCEPT !.check = check]]
  <2>1. IsFiniteSet(K)
    BY <1>2, FS_Subset DEF Gaps
  <2>2. \A t \in Unresolved(check) : \E k \in K : t = f[k]
    BY DEF Unresolved
  <2> HIDE DEF K, f
  <2> QED
    BY <2>1, <2>2, ImageFinite
<1>7. IsFiniteSet(Vulnerabilities)
  <2> DEFINE K == Scanned \ Gaps("vuln")
             A(k) == {a \in run.world.advisories[Packages[k].name] : Verdict(k, a) # "no"}
             F(k) == {VulnOf(k, a) : a \in A(k)}
             g == [k \in K |-> F(k)]
  <2>1. IsFiniteSet(K)
    BY <1>2, FS_Subset
  <2>2. ASSUME NEW k \in K PROVE IsFiniteSet(F(k))
    <3>1. k \in Candidates(run.project.packages)
      BY DEF Scanned, Packages
    <3>2. IsFiniteSet(run.world.advisories[Packages[k].name])
      BY <3>1, RunsAssumption DEF RunShape, AdvisoriesShape, Packages
    <3>3. IsFiniteSet(A(k))
      BY <3>2, FS_Subset
    <3> DEFINE f == [a \in A(k) |-> VulnOf(k, a)]
    <3>4. \A t \in F(k) : \E a \in A(k) : t = f[a]
      OBVIOUS
    <3> HIDE DEF A, F, f
    <3> QED
      BY <3>3, <3>4, ImageFinite
  <2>3. IsFiniteSet({F(k) : k \in K})
    <3>1. \A t \in {F(k) : k \in K} : \E k \in K : t = g[k]
      OBVIOUS
    <3> HIDE DEF g, K, F
    <3> QED
      BY <2>1, <3>1, ImageFinite
  <2>4. Vulnerabilities = UNION {F(k) : k \in K}
    BY VulnerabilitiesAre
  <2> HIDE DEF K, F
  <2>5. \A T \in {F(k) : k \in K} : IsFiniteSet(T)
    BY <2>2
  <2> QED
    BY <2>3, <2>4, <2>5, FS_UNION
<1> QED
  BY <1>2, <1>3, <1>4, <1>5, <1>6, <1>7

-------------------------------------------------------------------------------
(* The inductive invariant *)

AfterRules == {"dedupe", "integrity", "vuln", "deprecated", "license", "exceptions", "gate"}
AfterIntegrity == {"vuln", "deprecated", "license", "exceptions", "gate"}
AfterVuln == {"deprecated", "license", "exceptions", "gate"}
AfterDeprecation == {"license", "exceptions", "gate"}
AfterLicense == {"exceptions", "gate"}

Past(stages) == pc \in stages \/ Judged

StageInv ==
  /\ run \in Runs
  /\ pc \in {"report", "audit", "remediate", "rules", "bump", "end"} \cup AfterRules
  /\ pc \in {"report", "audit", "remediate"} => pc = run.command
  /\ pc \in AfterRules \ {"gate"} => run.command = "report"
  /\ pc \in {"rules", "gate"} => run.command # "remediate"
  /\ pc = "bump" => run.command = "remediate"
  /\ status # None => pc = "end" /\ run.command # "remediate"

ConfigInv ==
  Past({"rules"} \cup AfterRules) => config # Invalid /\ config = Configured(run.files, run.flags)

\* What the sections hold, and where a finding with the id of an advisory is from.
BucketsInv ==
  /\ DOMAIN buckets = Sections /\ \A s \in Sections : IsFiniteSet(buckets[s])
  /\ buckets["vuln"] \subseteq Vulnerabilities
  /\ \A s \in {"deprecated", "unresolved"} : \A f \in buckets[s] : f.id = None
  /\ \A t \in suppressed : t.finding.id = None \/ t.finding \in Vulnerabilities

RulesKept ==
  \A r \in RulesOn : \A f \in RuleFindings(r) :
    f \in buckets[RuleSection[r]] \/ RuleTaken(f) \/ (r = "no-remote-deps" /\ Behind(f))

GapsKept(check) == \A f \in Unresolved(check) : Kept("unresolved", f)

IntegrityKept == run.flags["integrity"] => Mismatches \subseteq buckets["integrity"] /\ GapsKept("integrity")
VulnKept == run.flags["vuln"] => (\A f \in Vulnerabilities : Kept("vuln", f)) /\ GapsKept("vuln")
DeprecationKept ==
  run.flags["deprecated"] => (\A f \in Deprecations : Kept("deprecated", f)) /\ GapsKept("deprecated")

LicenseKept ==
  run.project.flavor = "npm" /\ run.flags["license"] /\ run.world.installed /\ run.world.csv # None =>
    \/ \E f \in buckets["licenses"] : f.severity = "error"
    \/ run.world.csv # "bad" /\ LicenseFindings \subseteq buckets["licenses"]

\* What a stage has found is not lost by a later one.
FoundInv ==
  /\ pc = "dedupe" => \A r \in RulesOn : \A f \in RuleFindings(r) : f \in buckets[RuleSection[r]] \/ RuleTaken(f)
  /\ Past(AfterRules) => RulesKept
  /\ run.command = "report" =>
       /\ Past(AfterIntegrity) => IntegrityKept
       /\ Past(AfterVuln) => VulnKept
       /\ Past(AfterDeprecation) => DeprecationKept
       /\ Past(AfterLicense) => LicenseKept

VerdictInv ==
  Judged => /\ exit = 0 => \A s \in Sections : \A f \in buckets[s] : f.severity # "error"
            /\ \A s \in Sections : status[s] = "skip" => Skips(s)

ReportInv == StageInv /\ ConfigInv /\ BucketsInv /\ FoundInv /\ VerdictInv

\* remediate: the plan has one outcome for each flagged name it has come to; a
\* bump is of a range that package.json declares, to another version than it has.
PlanInv ==
  /\ pc \notin {"bump", "end"} => plan = {} /\ flagged = <<>>
  /\ pc = "bump" => flagged = Flagged
  /\ {o.name : o \in plan} \subseteq DOMAIN flagged
  /\ \A o, p \in plan : o.name = p.name => o = p
  /\ \A o \in Bumps : LET d == <<o.section, o.name>> IN
       /\ d \in DOMAIN Declared /\ o.to = [Declared[d] EXCEPT !.version = run.world.latest[o.name]]
       /\ run.world.latest[o.name] # Declared[d].version
  /\ pc # "end" => exit = None

Disk0 ==
  [manifest |-> IF run.project.manifest = None THEN <<>> ELSE Declared, locked |-> run.project.locked]

\* The files are as they were, or have all bumps; only at the end are they written.
DiskInv ==
  /\ \/ disk = Disk0
     \/ /\ pc = "end" /\ run.flags.write
        /\ disk = [manifest |-> Bumped(Disk0.manifest),
                   locked   |-> IF run.project.locked = None THEN None ELSE Bumped(run.project.locked)]
  /\ run.command = "remediate" /\ pc = "end" /\ exit = 0 =>
       flagged = Flagged /\ DOMAIN flagged = {o.name : o \in plan}

Inv == ReportInv /\ PlanInv /\ DiskInv

\* Nothing is taken out of a section or of the list of exceptions.
Grows ==
  /\ Step
  /\ \A s \in Sections : buckets[s] \subseteq buckets'[s]
  /\ suppressed \subseteq suppressed'

\* Then what the stages before have found is still kept.
LEMMA GrowsKeeps ==
  ASSUME Grows
  PROVE  /\ RulesKept => RulesKept'
         /\ IntegrityKept => IntegrityKept'
         /\ VulnKept => VulnKept'
         /\ DeprecationKept => DeprecationKept'
         /\ LicenseKept => LicenseKept'
<1>1. /\ run' = run /\ config' = config /\ \A s \in Sections : buckets[s] \subseteq buckets'[s]
      /\ suppressed \subseteq suppressed'
  BY DEF Grows, Step
<1>2. Step
  BY DEF Grows
<1>3. \A f : RuleTaken(f) => RuleTaken(f)'
  BY <1>1, <1>2, WaiversStay DEF RuleTaken
<1>4. {"vuln", "deprecated", "unresolved", "integrity", "licenses", "remote"} \subseteq Sections
  BY RuleSections
<1>5. \A f : Behind(f) => Behind(f)'
  BY <1>1, <1>4, PackagesStay DEF Behind
<1>6. ASSUME NEW s \in Sections, NEW f, Kept(s, f) PROVE Kept(s, f)'
  BY <1>1, <1>2, <1>6, WaiversStay DEF Kept, ScanTaken
<1>7. ASSUME NEW check, GapsKept(check) PROVE GapsKept(check)'
  BY <1>2, <1>4, <1>6, <1>7, FindingsStay DEF GapsKept
<1>8. RulesKept => RulesKept'
  <2>1. \A r \in RulesOn : RuleSection[r] \in Sections
    BY RuleSections DEF RulesOn
  <2>2. RulesOn' = RulesOn /\ \A r : RuleFindings(r)' = RuleFindings(r)
    BY <1>2, FindingsStay
  <2> QED
    BY <1>1, <1>3, <1>5, <2>1, <2>2 DEF RulesKept
<1>9. IntegrityKept => IntegrityKept'
  BY <1>1, <1>2, <1>4, <1>7, FindingsStay DEF IntegrityKept
<1>10. VulnKept => VulnKept'
  BY <1>1, <1>2, <1>4, <1>6, <1>7, FindingsStay DEF VulnKept
<1>11. DeprecationKept => DeprecationKept'
  BY <1>1, <1>2, <1>4, <1>6, <1>7, FindingsStay DEF DeprecationKept
<1>12. LicenseKept => LicenseKept'
  BY <1>1, <1>2, <1>4, FindingsStay DEF LicenseKept
<1> QED
  BY <1>8, <1>9, <1>10, <1>11, <1>12

\* What a scan does to the sections, and where the run goes on.
LEMMA ScanDoes ==
  ASSUME DOMAIN buckets = Sections, NEW check, NEW section \in Sections \ {"unresolved"}, NEW found, NEW next,
         Scan(check, section, found, next)
  PROVE  /\ Grows /\ UNCHANGED <<run, config, suppressed, licenses, status>>
         /\ DOMAIN buckets' = Sections
         /\ \A s \in Sections \ {section, "unresolved"} : buckets'[s] = buckets[s]
         /\ buckets'[section] \in {buckets[section], buckets[section] \cup found}
         /\ buckets'["unresolved"] \in {buckets["unresolved"], buckets["unresolved"] \cup Unresolved(check)}
         /\ \/ pc' = "end" /\ exit' = 2
            \/ /\ pc' = next /\ exit' = exit
               /\ run.flags[check] => found \subseteq buckets'[section] /\ Unresolved(check) \subseteq buckets'["unresolved"]
<1>1. UNCHANGED <<run, config, suppressed, licenses, status>>
  BY DEF Scan
<1>2. "unresolved" \in Sections
  BY RuleSections
<1> DEFINE full == [buckets EXCEPT ![section] = @ \cup found, !["unresolved"] = @ \cup Unresolved(check)]
<1>3. /\ DOMAIN full = Sections /\ \A s \in Sections \ {section, "unresolved"} : full[s] = buckets[s]
      /\ full[section] = buckets[section] \cup found
      /\ full["unresolved"] = buckets["unresolved"] \cup Unresolved(check)
  BY <1>2
<1>4. \/ buckets' = buckets /\ pc' = "end" /\ exit' = 2
      \/ buckets' = buckets /\ pc' = next /\ exit' = exit /\ ~run.flags[check]
      \/ buckets' = full /\ pc' = next /\ exit' = exit
  BY DEF Scan, To, Stop
<1> HIDE DEF full
<1> QED
  BY <1>1, <1>2, <1>3, <1>4 DEF Grows, Step

-------------------------------------------------------------------------------
(* The actions of report and audit keep the invariant *)

\* A run starts with it.
LEMMA InitReport ==
  ASSUME Init
  PROVE  ReportInv
<1>1. /\ run \in Runs /\ pc = run.command /\ buckets = [s \in Sections |-> {}] /\ suppressed = {} /\ status = None
  BY DEF Init, ReportInit
<1>2. run.command \in {"report", "audit", "remediate"}
  BY <1>1, RunsAssumption DEF RunShape
<1>3. ~Judged /\ pc \notin {"rules", "bump", "end"} \cup AfterRules
  BY <1>1, <1>2 DEF Judged, AfterRules
<1>4. StageInv
  BY <1>1, <1>2, <1>3 DEF StageInv, AfterRules
<1>5. ConfigInv
  BY <1>3 DEF ConfigInv, Past
<1>6. BucketsInv
  <2>1. {"vuln", "deprecated", "unresolved"} \subseteq Sections
    BY RuleSections
  <2> QED
    BY <1>1, <2>1, FS_EmptySet DEF BucketsInv
<1>7. FoundInv
  BY <1>3 DEF FoundInv, Past, AfterRules, AfterIntegrity, AfterVuln, AfterDeprecation, AfterLicense
<1>8. VerdictInv
  BY <1>3 DEF VerdictInv
<1> QED
  BY <1>4, <1>5, <1>6, <1>7, <1>8 DEF ReportInv

\* What the sections hold stays what it is when they stay.
LEMMA BucketsStay ==
  ASSUME BucketsInv, run' = run, buckets' = buckets, suppressed' = suppressed
  PROVE  BucketsInv'
BY ScansStay DEF BucketsInv

\* A run that ends without a verdict, or has its settings, has found nothing yet.
LEMMA ConfigureKeeps ==
  ASSUME ReportInv, Configure
  PROVE  ReportInv'
<1>1. /\ pc \in {"report", "audit"} /\ config' = Configured(run.files, run.flags)
      /\ UNCHANGED <<run, buckets, suppressed, licenses, status>>
      /\ (pc' = "rules" /\ config' # Invalid) \/ pc' = "end"
  BY DEF Configure, To, Stop
<1>2. run \in Runs /\ pc = run.command /\ status = None
  BY <1>1 DEF ReportInv, StageInv, AfterRules
<1>3. ~Judged'
  BY <1>1, <1>2 DEF Judged
<1>4. StageInv'
  BY <1>1, <1>2 DEF StageInv, AfterRules
<1>5. ConfigInv'
  BY <1>1, <1>3 DEF ConfigInv, Past, AfterRules
<1>6. BucketsInv'
  BY <1>1, BucketsStay DEF ReportInv
<1>7. FoundInv'
  BY <1>1, <1>3 DEF FoundInv, Past, AfterRules, AfterIntegrity, AfterVuln, AfterDeprecation, AfterLicense
<1>8. VerdictInv'
  BY <1>3 DEF VerdictInv
<1> QED
  BY <1>4, <1>5, <1>6, <1>7, <1>8 DEF ReportInv

\* Each finding of a rule is in its section, or taken out by an exception.
LEMMA AuditKeeps ==
  ASSUME ReportInv, Audit
  PROVE  ReportInv'
<1> DEFINE raw == UNION {RuleFindings(r) : r \in RulesOn}
           kept == {f \in raw : Waiver(AuditProbes(f)) = 0}
<1>1. /\ pc = "rules" /\ buckets' = [s \in Sections |-> {f \in kept : RuleSection[f.rule] = s}]
      /\ suppressed' = {[finding |-> f, by |-> Waiver(AuditProbes(f))] : f \in raw \ kept}
      /\ pc' = IF run.command = "audit" THEN "gate" ELSE "dedupe"
      /\ UNCHANGED <<run, config, licenses, status, exit>>
  BY DEF Audit, To
<1>2. /\ run \in Runs /\ status = None /\ run.command \in {"report", "audit"}
  BY <1>1, RunsAssumption DEF ReportInv, StageInv, AfterRules, RunShape
<1>3. ~Judged' /\ Step
  BY <1>1, <1>2 DEF Judged, Step
<1>4. \A f \in raw : \E r \in Rules : f.rule = r /\ f.id = None
  BY RuleFindingsAre DEF RulesOn
<1>5. StageInv'
  BY <1>1, <1>2 DEF StageInv, AfterRules
<1>6. ConfigInv'
  BY <1>1 DEF ReportInv, ConfigInv, Past, AfterRules, Judged
<1>7. BucketsInv'
  <2>1. IsFiniteSet(raw)
    BY <1>2, RuleFindingsFinite
  <2>2. \A s \in Sections : IsFiniteSet(buckets'[s])
    <3>1. \A s \in Sections : buckets'[s] \in SUBSET raw
      BY <1>1
    <3> QED
      BY <2>1, <3>1, FS_Subset
  <2>3. \A s \in {"vuln", "deprecated", "unresolved"} : buckets'[s] = {}
    <3>1. \A r \in Rules : RuleSection[r] \notin {"vuln", "deprecated", "unresolved"}
      BY RuleSections
    <3>2. {"vuln", "deprecated", "unresolved"} \subseteq Sections
      BY RuleSections
    <3> HIDE DEF raw
    <3> QED
      BY <1>1, <1>4, <3>1, <3>2
  <2>4. \A t \in suppressed' : t.finding.id = None
    <3> HIDE DEF raw
    <3> QED
      BY <1>1, <1>4
  <2>5. DOMAIN buckets' = Sections
    BY <1>1
  <2> QED
    BY <2>2, <2>3, <2>4, <2>5 DEF BucketsInv
<1>8. \A r \in RulesOn : \A f \in RuleFindings(r) :
        f \in buckets'[RuleSection[r]] \/ RuleTaken(f)'
  <2> SUFFICES ASSUME NEW r \in RulesOn, NEW f \in RuleFindings(r)
               PROVE  f \in buckets'[RuleSection[r]] \/ RuleTaken(f)'
    OBVIOUS
  <2>1. f \in raw /\ f.rule = r /\ RuleSection[r] \in Sections
    BY RuleFindingsAre, RuleSections DEF RulesOn
  <2>2. CASE RuleWaiver(f) = 0
    <3> HIDE DEF raw
    <3> QED
      BY <1>1, <2>1, <2>2 DEF RuleWaiver
  <2>3. CASE RuleWaiver(f) # 0
    <3>1. [finding |-> f, by |-> RuleWaiver(f)] \in suppressed'
      <4> HIDE DEF raw
      <4> QED
        BY <1>1, <2>1, <2>3 DEF RuleWaiver
    <3> QED
      BY <1>3, <2>3, <3>1, WaiversStay DEF RuleTaken
  <2> QED
    BY <2>2, <2>3
<1>9. FoundInv'
  <2>1. RulesOn' = RulesOn /\ \A r : RuleFindings(r)' = RuleFindings(r)
    BY <1>3, FindingsStay
  <2>2. RulesKept'
    BY <1>8, <2>1 DEF RulesKept
  <2>3. pc' = "dedupe" => ~Past(AfterIntegrity)' /\ ~Past(AfterVuln)' /\ ~Past(AfterDeprecation)' /\ ~Past(AfterLicense)'
    BY <1>3 DEF Past, AfterIntegrity, AfterVuln, AfterDeprecation, AfterLicense
  <2>4. run' = run
    BY <1>1
  <2>5. run.command = "report" => pc' = "dedupe"
    BY <1>1
  <2> HIDE DEF raw, kept
  <2> QED
    BY <1>8, <2>1, <2>2, <2>3, <2>4, <2>5 DEF FoundInv
<1>10. VerdictInv'
  BY <1>3 DEF VerdictInv
<1> QED
  BY <1>5, <1>6, <1>7, <1>9, <1>10 DEF ReportInv

\* A finding that dedupeRemoteFindings leaves out stands behind its host's.
LEMMA DedupeKeeps ==
  ASSUME ReportInv, Dedupe
  PROVE  ReportInv'
<1>1. /\ pc = "dedupe" /\ pc' = "integrity" /\ UNCHANGED <<run, config, suppressed, licenses, status, exit>>
      /\ \/ buckets' = buckets
         \/ buckets' = [buckets EXCEPT !["remote"] = (@ \ Twice) \cup Grouped(Twice)]
  BY DEF Dedupe, To
<1>2. /\ run \in Runs /\ status = None /\ run.command = "report" /\ DOMAIN buckets = Sections
  BY <1>1 DEF ReportInv, StageInv, BucketsInv, AfterRules
<1>3. ~Judged' /\ Step
  BY <1>1, <1>2 DEF Judged, Step
<1>4. {"remote", "vuln", "deprecated", "unresolved"} \subseteq Sections
  BY RuleSections
<1>5. /\ DOMAIN buckets' = Sections /\ \A s \in Sections \ {"remote"} : buckets'[s] = buckets[s]
      /\ buckets'["remote"] \in {buckets["remote"], (buckets["remote"] \ Twice) \cup Grouped(Twice)}
  BY <1>1, <1>2, <1>4
<1>6. StageInv'
  BY <1>1, <1>2 DEF StageInv, AfterRules
<1>7. ConfigInv'
  BY <1>1 DEF ReportInv, ConfigInv, Past, AfterRules, Judged
<1>8. BucketsInv'
  <2>1. IsFiniteSet(buckets["remote"])
    BY <1>4 DEF ReportInv, BucketsInv
  <2>2. IsFiniteSet(Twice)
    BY <2>1, FS_Subset DEF Twice
  <2>3. IsFiniteSet(Grouped(Twice))
    <3> DEFINE f == [x \in Twice |-> Finding(<<"host", HostOf(x)>>, Worst({y \in Twice : HostOf(y) = HostOf(x)}))]
    <3>1. \A t \in Grouped(Twice) : \E x \in Twice : t = f[x]
      BY DEF Grouped
    <3> HIDE DEF f
    <3> QED
      BY <2>2, <3>1, ImageFinite
  <2>4. IsFiniteSet((buckets["remote"] \ Twice) \cup Grouped(Twice))
    <3>1. IsFiniteSet(buckets["remote"] \ Twice)
      BY <2>1, FS_Subset
    <3> QED
      BY <2>3, <3>1, FS_Union
  <2>5. \A s \in Sections : IsFiniteSet(buckets'[s])
    BY <1>5, <2>1, <2>4 DEF ReportInv, BucketsInv
  <2>6. Vulnerabilities' = Vulnerabilities
    BY <1>1, ScansStay
  <2> QED
    BY <1>1, <1>4, <1>5, <2>5, <2>6 DEF ReportInv, BucketsInv
<1>9. FoundInv'
  <2>1. RulesOn' = RulesOn /\ (\A r : RuleFindings(r)' = RuleFindings(r)) /\ \A f : HostOf(f)' = HostOf(f)
    BY <1>1, <1>3, FindingsStay, PackagesStay
  <2>2. \A f : RuleTaken(f) => RuleTaken(f)'
    BY <1>1, <1>3, WaiversStay DEF RuleTaken
  <2>3. ASSUME NEW f \in Twice, buckets'["remote"] = (buckets["remote"] \ Twice) \cup Grouped(Twice)
        PROVE  Behind(f)'
    <3> DEFINE same == {x \in Twice : HostOf(x) = HostOf(f)}
               g == Finding(<<"host", HostOf(f)>>, Worst(same))
    <3>1. g \in Grouped(Twice)
      BY DEF Grouped
    <3>2. g.at = <<"host", HostOf(f)>> /\ g.severity = Worst(same)
      BY DEF Finding
    <3>3. f.severity = "error" => Worst(same) = "error"
      BY DEF Worst
    <3>4. g \in buckets'["remote"]
      BY <2>3, <3>1
    <3> HIDE DEF g, same
    <3> QED
      BY <2>1, <3>2, <3>3, <3>4 DEF Behind
  <2>4. RulesKept'
    <3> SUFFICES ASSUME NEW r \in RulesOn, NEW f \in RuleFindings(r)
                 PROVE  \/ f \in buckets'[RuleSection[r]] \/ RuleTaken(f)'
                        \/ r = "no-remote-deps" /\ Behind(f)'
      BY <2>1 DEF RulesKept
    <3>1. f \in buckets[RuleSection[r]] \/ RuleTaken(f)
      BY <1>1 DEF ReportInv, FoundInv
    <3>2. RuleSection[r] \in Sections /\ (RuleSection[r] = "remote" => r = "no-remote-deps")
      BY RuleSections DEF RulesOn
    <3> QED
      BY <1>5, <2>2, <2>3, <3>1, <3>2
  <2>5. ~Past(AfterIntegrity)' /\ ~Past(AfterVuln)' /\ ~Past(AfterDeprecation)' /\ ~Past(AfterLicense)'
    BY <1>1, <1>3 DEF Past, AfterIntegrity, AfterVuln, AfterDeprecation, AfterLicense
  <2> QED
    BY <1>1, <2>4, <2>5 DEF FoundInv
<1>10. VerdictInv'
  BY <1>3 DEF VerdictInv
<1> QED
  BY <1>6, <1>7, <1>8, <1>9, <1>10 DEF ReportInv

\* A finite section stays finite when finitely many findings are added.
LEMMA AddedFinite ==
  ASSUME NEW A, IsFiniteSet(A), NEW B, IsFiniteSet(B), NEW C \in {A, A \cup B}
  PROVE  IsFiniteSet(C)
<1>1. IsFiniteSet(A \cup B)
  BY FS_Union
<1> QED
  BY <1>1

\* What every scan keeps: its stage is before the end and it only adds.
LEMMA ScanKeeps ==
  ASSUME ReportInv, pc \in AfterRules \ {"gate"}, Grows, UNCHANGED <<run, config, suppressed, status>>,
         pc' \in {"vuln", "deprecated", "license", "exceptions", "end"}
  PROVE  /\ run \in Runs /\ run.command = "report" /\ ~Judged /\ ~Judged'
         /\ StageInv' /\ ConfigInv' /\ VerdictInv' /\ RulesKept'
<1>1. run \in Runs /\ run.command = "report" /\ status = None
  BY DEF ReportInv, StageInv, AfterRules
<1>2. ~Judged /\ ~Judged'
  BY <1>1 DEF Judged
<1>3. StageInv'
  BY <1>1 DEF StageInv, AfterRules
<1>4. ConfigInv'
  BY <1>2 DEF ReportInv, ConfigInv, Past
<1>5. VerdictInv'
  BY <1>2 DEF VerdictInv
<1>6. RulesKept'
  BY GrowsKeeps DEF ReportInv, FoundInv, Past, AfterRules
<1> QED
  BY <1>1, <1>2, <1>3, <1>4, <1>5, <1>6

\* A mismatch stays, and a package that could not be checked is listed.
LEMMA IntegrityStageKeeps ==
  ASSUME ReportInv, Integrity
  PROVE  ReportInv'
<1>1. pc = "integrity" /\ Scan("integrity", "integrity", Mismatches, "vuln") /\ DOMAIN buckets = Sections
  BY DEF Integrity, ReportInv, BucketsInv
<1>2. {"integrity", "vuln", "deprecated", "unresolved"} \subseteq Sections
  BY RuleSections
<1>3. /\ Grows /\ UNCHANGED <<run, config, suppressed, licenses, status>> /\ DOMAIN buckets' = Sections
      /\ \A s \in Sections \ {"integrity", "unresolved"} : buckets'[s] = buckets[s]
      /\ buckets'["integrity"] \in {buckets["integrity"], buckets["integrity"] \cup Mismatches}
      /\ buckets'["unresolved"] \in {buckets["unresolved"], buckets["unresolved"] \cup Unresolved("integrity")}
      /\ \/ pc' = "end"
         \/ /\ pc' = "vuln"
            /\ run.flags["integrity"] => Mismatches \subseteq buckets'["integrity"] /\ Unresolved("integrity") \subseteq buckets'["unresolved"]
  BY <1>1, <1>2, ScanDoes
<1>4. /\ run \in Runs /\ run.command = "report" /\ ~Judged'
      /\ StageInv' /\ ConfigInv' /\ VerdictInv' /\ RulesKept'
  BY <1>1, <1>3, ScanKeeps DEF AfterRules
<1>5. BucketsInv'
  <2>1. \A s \in Sections : IsFiniteSet(buckets'[s])
    <3>1. /\ \A s \in Sections : IsFiniteSet(buckets[s])
          /\ IsFiniteSet(Mismatches) /\ IsFiniteSet(Unresolved("integrity"))
      BY <1>4, ScansFinite DEF ReportInv, BucketsInv
    <3>2. IsFiniteSet(buckets'["integrity"]) /\ IsFiniteSet(buckets'["unresolved"])
      BY <1>2, <1>3, <3>1, AddedFinite
    <3> QED
      BY <1>3, <3>1, <3>2
  <2>2. \A f \in buckets'["unresolved"] : f.id = None
    BY <1>2, <1>3, UnresolvedAre DEF ReportInv, BucketsInv
  <2>3. buckets'["vuln"] = buckets["vuln"] /\ buckets'["deprecated"] = buckets["deprecated"] /\ Vulnerabilities' = Vulnerabilities
    BY <1>2, <1>3, ScansStay
  <2> QED
    BY <1>3, <2>1, <2>2, <2>3 DEF ReportInv, BucketsInv
<1>6. IntegrityKept' \/ pc' = "end"
  BY <1>3, ScansStay DEF IntegrityKept, GapsKept, Kept
<1>7. FoundInv'
  BY <1>3, <1>4, <1>6 DEF FoundInv, Past, AfterIntegrity, AfterVuln, AfterDeprecation, AfterLicense
<1> QED
  BY <1>4, <1>5, <1>7 DEF ReportInv

\* An advisory that applies stays.
LEMMA VulnStageKeeps ==
  ASSUME ReportInv, Vuln
  PROVE  ReportInv'
<1>1. pc = "vuln" /\ Scan("vuln", "vuln", Vulnerabilities, "deprecated") /\ DOMAIN buckets = Sections
  BY DEF Vuln, ReportInv, BucketsInv
<1>2. {"integrity", "vuln", "deprecated", "unresolved"} \subseteq Sections
  BY RuleSections
<1>3. /\ Grows /\ UNCHANGED <<run, config, suppressed, licenses, status>> /\ DOMAIN buckets' = Sections
      /\ \A s \in Sections \ {"vuln", "unresolved"} : buckets'[s] = buckets[s]
      /\ buckets'["vuln"] \in {buckets["vuln"], buckets["vuln"] \cup Vulnerabilities}
      /\ buckets'["unresolved"] \in {buckets["unresolved"], buckets["unresolved"] \cup Unresolved("vuln")}
      /\ \/ pc' = "end"
         \/ /\ pc' = "deprecated"
            /\ run.flags["vuln"] => Vulnerabilities \subseteq buckets'["vuln"] /\ Unresolved("vuln") \subseteq buckets'["unresolved"]
  BY <1>1, <1>2, ScanDoes
<1>4. /\ run \in Runs /\ run.command = "report" /\ ~Judged'
      /\ StageInv' /\ ConfigInv' /\ VerdictInv' /\ RulesKept'
  BY <1>1, <1>3, ScanKeeps DEF AfterRules
<1>5. BucketsInv'
  <2>1. \A s \in Sections : IsFiniteSet(buckets'[s])
    <3>1. /\ \A s \in Sections : IsFiniteSet(buckets[s])
          /\ IsFiniteSet(Vulnerabilities) /\ IsFiniteSet(Unresolved("vuln"))
      BY <1>4, ScansFinite DEF ReportInv, BucketsInv
    <3>2. IsFiniteSet(buckets'["vuln"]) /\ IsFiniteSet(buckets'["unresolved"])
      BY <1>2, <1>3, <3>1, AddedFinite
    <3> QED
      BY <1>3, <3>1, <3>2
  <2>2. \A f \in buckets'["unresolved"] : f.id = None
    BY <1>2, <1>3, UnresolvedAre DEF ReportInv, BucketsInv
  <2>3. buckets'["vuln"] \subseteq Vulnerabilities /\ buckets'["deprecated"] = buckets["deprecated"] /\ Vulnerabilities' = Vulnerabilities
    BY <1>2, <1>3, ScansStay DEF ReportInv, BucketsInv
  <2> QED
    BY <1>3, <2>1, <2>2, <2>3 DEF ReportInv, BucketsInv
<1>6. VulnKept' \/ pc' = "end"
  BY <1>3, ScansStay DEF VulnKept, GapsKept, Kept
<1>7. IntegrityKept'
  BY <1>1, <1>3, <1>4, GrowsKeeps DEF ReportInv, FoundInv, Past, AfterIntegrity
<1>8. FoundInv'
  BY <1>3, <1>4, <1>6, <1>7 DEF FoundInv, Past, AfterIntegrity, AfterVuln, AfterDeprecation, AfterLicense
<1> QED
  BY <1>4, <1>5, <1>8 DEF ReportInv

\* A deprecated package stays; pnpm has no license stage.
LEMMA DeprecationStageKeeps ==
  ASSUME ReportInv, Deprecation
  PROVE  ReportInv'
<1> DEFINE next == IF run.project.flavor = "pnpm" THEN "exceptions" ELSE "license"
<1>1. pc = "deprecated" /\ Scan("deprecated", "deprecated", Deprecations, next) /\ DOMAIN buckets = Sections
  BY DEF Deprecation, ReportInv, BucketsInv
<1> HIDE DEF next
<1>2. {"integrity", "vuln", "deprecated", "unresolved"} \subseteq Sections
  BY RuleSections
<1>3. /\ Grows /\ UNCHANGED <<run, config, suppressed, licenses, status>> /\ DOMAIN buckets' = Sections
      /\ \A s \in Sections \ {"deprecated", "unresolved"} : buckets'[s] = buckets[s]
      /\ buckets'["deprecated"] \in {buckets["deprecated"], buckets["deprecated"] \cup Deprecations}
      /\ buckets'["unresolved"] \in {buckets["unresolved"], buckets["unresolved"] \cup Unresolved("deprecated")}
      /\ \/ pc' = "end"
         \/ /\ pc' = next
            /\ run.flags["deprecated"] => Deprecations \subseteq buckets'["deprecated"] /\ Unresolved("deprecated") \subseteq buckets'["unresolved"]
  BY <1>1, <1>2, ScanDoes
<1>4. /\ run \in Runs /\ run.command = "report" /\ ~Judged'
      /\ StageInv' /\ ConfigInv' /\ VerdictInv' /\ RulesKept'
  BY <1>1, <1>3, ScanKeeps DEF AfterRules, next
<1>5. BucketsInv'
  <2>1. \A s \in Sections : IsFiniteSet(buckets'[s])
    <3>1. /\ \A s \in Sections : IsFiniteSet(buckets[s])
          /\ IsFiniteSet(Deprecations) /\ IsFiniteSet(Unresolved("deprecated"))
      BY <1>4, ScansFinite DEF ReportInv, BucketsInv
    <3>2. IsFiniteSet(buckets'["deprecated"]) /\ IsFiniteSet(buckets'["unresolved"])
      BY <1>2, <1>3, <3>1, AddedFinite
    <3> QED
      BY <1>3, <3>1, <3>2
  <2>2. \A f \in buckets'["unresolved"] : f.id = None
    BY <1>2, <1>3, UnresolvedAre DEF ReportInv, BucketsInv
  <2>3. \A f \in Deprecations : f.id = None
    BY OfPackageIs DEF Deprecations
  <2>4. \A f \in buckets'["deprecated"] : f.id = None
    BY <1>2, <1>3, <2>3 DEF ReportInv, BucketsInv
  <2>5. buckets'["vuln"] = buckets["vuln"] /\ Vulnerabilities' = Vulnerabilities
    BY <1>2, <1>3, ScansStay
  <2> QED
    BY <1>3, <2>1, <2>2, <2>4, <2>5 DEF ReportInv, BucketsInv
<1>6. DeprecationKept' \/ pc' = "end"
  BY <1>3, ScansStay DEF DeprecationKept, GapsKept, Kept
<1>7. IntegrityKept' /\ VulnKept'
  BY <1>1, <1>3, <1>4, GrowsKeeps DEF ReportInv, FoundInv, Past, AfterIntegrity, AfterVuln
<1>8. pc' = "exceptions" => LicenseKept'
  BY <1>3 DEF LicenseKept, next
<1>9. FoundInv'
  BY <1>3, <1>4, <1>6, <1>7, <1>8 DEF FoundInv, next, Past, AfterIntegrity, AfterVuln, AfterDeprecation, AfterLicense
<1> QED
  BY <1>4, <1>5, <1>9 DEF ReportInv

\* Licenses that cannot be checked are an error, those that are not approved stay.
LEMMA LicenseStageKeeps ==
  ASSUME ReportInv, License
  PROVE  ReportInv'
<1> DEFINE wanted == run.flags["license"] /\ run.world.installed /\ run.world.csv # None
<1>1. /\ pc = "license" /\ pc' = "exceptions" /\ DOMAIN buckets = Sections
      /\ UNCHANGED <<run, config, suppressed, status, exit>>
      /\ \/ ~wanted /\ buckets' = buckets
         \/ wanted /\ Add("licenses", {Finding(<<"csv">>, "error")})
         \/ wanted /\ run.world.csv # "bad" /\ Add("licenses", LicenseFindings)
  BY DEF License, To, ReportInv, BucketsInv
<1>2. {"licenses", "vuln", "deprecated", "unresolved"} \subseteq Sections
  BY RuleSections
<1>3. /\ DOMAIN buckets' = Sections /\ \A s \in Sections \ {"licenses"} : buckets'[s] = buckets[s]
      /\ \/ ~wanted /\ buckets'["licenses"] = buckets["licenses"]
         \/ wanted /\ buckets'["licenses"] = buckets["licenses"] \cup {Finding(<<"csv">>, "error")}
         \/ /\ wanted /\ run.world.csv # "bad"
            /\ buckets'["licenses"] = buckets["licenses"] \cup LicenseFindings
  BY <1>1, <1>2 DEF Add
<1> HIDE DEF wanted
<1>4. Grows
  BY <1>1, <1>3 DEF Grows, Step
<1>5. /\ run \in Runs /\ run.command = "report" /\ ~Judged'
      /\ StageInv' /\ ConfigInv' /\ VerdictInv' /\ RulesKept'
  BY <1>1, <1>4, ScanKeeps DEF AfterRules
<1>6. BucketsInv'
  <2>1. IsFiniteSet({Finding(<<"csv">>, "error")}) /\ IsFiniteSet(LicenseFindings)
    BY <1>5, ScansFinite, FS_Singleton
  <2>2. \A s \in Sections : IsFiniteSet(buckets'[s])
    <3>1. \A s \in Sections : IsFiniteSet(buckets[s])
      BY DEF ReportInv, BucketsInv
    <3>2. IsFiniteSet(buckets'["licenses"])
      BY <1>2, <1>3, <2>1, <3>1, AddedFinite
    <3> QED
      BY <1>3, <3>1, <3>2
  <2>3. Vulnerabilities' = Vulnerabilities
    BY <1>1, ScansStay
  <2> QED
    BY <1>1, <1>2, <1>3, <2>2, <2>3 DEF ReportInv, BucketsInv
<1>7. LicenseKept'
  <2>1. Finding(<<"csv">>, "error").severity = "error"
    BY DEF Finding
  <2>2. LicenseFindings' = LicenseFindings
    BY <1>1, ScansStay
  <2>3. CASE ~wanted
    BY <1>1, <2>3 DEF LicenseKept, wanted
  <2>4. CASE buckets'["licenses"] = buckets["licenses"] \cup {Finding(<<"csv">>, "error")}
    BY <2>1, <2>4 DEF LicenseKept
  <2>5. CASE run.world.csv # "bad" /\ buckets'["licenses"] = buckets["licenses"] \cup LicenseFindings
    BY <1>1, <2>2, <2>5 DEF LicenseKept
  <2> QED
    BY <1>3, <2>3, <2>4, <2>5
<1>8. IntegrityKept' /\ VulnKept' /\ DeprecationKept'
  BY <1>1, <1>4, <1>5, GrowsKeeps DEF ReportInv, FoundInv, Past, AfterIntegrity, AfterVuln, AfterDeprecation
<1>9. FoundInv'
  BY <1>1, <1>5, <1>7, <1>8 DEF FoundInv
<1> QED
  BY <1>5, <1>6, <1>9 DEF ReportInv

\* An exception that takes a finding out of its section lists it.
LEMMA ExceptionsStageKeeps ==
  ASSUME ReportInv, ApplyScanExceptions
  PROVE  ReportInv'
<1> DEFINE three == {"vuln", "deprecated", "unresolved"}
<1>1. /\ pc = "exceptions" /\ pc' = "gate" /\ UNCHANGED <<run, config, licenses, status, exit>>
      /\ buckets' = [s \in Sections |-> IF s \in three THEN buckets[s] \ Waived(s) ELSE buckets[s]]
      /\ suppressed' = suppressed \cup
           UNION {{[finding |-> f, by |-> Waiver(ScanProbes(s, f))] : f \in Waived(s)} : s \in three}
  BY DEF ApplyScanExceptions, ScanExceptionRule, To
<1>2. /\ run \in Runs /\ status = None /\ run.command = "report" /\ ~Judged /\ ~Judged'
  BY <1>1 DEF ReportInv, StageInv, Judged, AfterRules
<1>3. Step /\ three \subseteq Sections /\ {"remote", "integrity", "licenses"} \subseteq Sections \ three
  BY <1>1, RuleSections DEF Step
<1>4. /\ \A s \in Sections : buckets'[s] \subseteq buckets[s]
      /\ \A s \in Sections \ three : buckets'[s] = buckets[s]
      /\ DOMAIN buckets' = Sections
  BY <1>1
<1>5. StageInv'
  BY <1>1, <1>2 DEF StageInv, AfterRules
<1>6. ConfigInv'
  BY <1>1, <1>2 DEF ReportInv, ConfigInv, Past, AfterRules
<1>7. ASSUME NEW s \in three, NEW f, Kept(s, f) PROVE Kept(s, f)'
  <2>1. ScanTaken(s, f) => ScanTaken(s, f)'
    <3>1. suppressed \subseteq suppressed'
      BY <1>1
    <3> QED
      BY <1>3, <3>1, WaiversStay DEF ScanTaken
  <2>2. CASE f \in Waived(s)
    <3>1. ScanWaiver(s, f) # 0
      BY <2>2 DEF Waived, ScanWaiver
    <3>2. [finding |-> f, by |-> ScanWaiver(s, f)] \in suppressed'
      BY <1>1, <2>2 DEF ScanWaiver
    <3> QED
      BY <1>3, <3>1, <3>2, WaiversStay DEF Kept, ScanTaken
  <2>3. CASE f \in buckets[s] \ Waived(s)
    <3>1. f \in buckets'[s]
      BY <1>1, <1>3, <2>3
    <3> QED
      BY <3>1 DEF Kept
  <2> QED
    BY <1>7, <2>1, <2>2, <2>3 DEF Kept
<1>8. BucketsInv'
  <2>1. \A s \in Sections : IsFiniteSet(buckets'[s])
    <3>1. \A s \in Sections : IsFiniteSet(buckets[s]) /\ buckets'[s] \in SUBSET buckets[s]
      BY <1>4 DEF ReportInv, BucketsInv
    <3> QED
      BY <3>1, FS_Subset
  <2>2. Vulnerabilities' = Vulnerabilities
    BY <1>1, ScansStay
  <2>3. buckets'["vuln"] \subseteq Vulnerabilities
    BY <1>3, <1>4 DEF ReportInv, BucketsInv
  <2>4. \A s \in {"deprecated", "unresolved"} : \A f \in buckets'[s] : f.id = None
    BY <1>3, <1>4 DEF ReportInv, BucketsInv
  <2>5. ASSUME NEW t \in suppressed' PROVE t.finding.id = None \/ t.finding \in Vulnerabilities
    <3>1. CASE t \in suppressed
      BY <3>1 DEF ReportInv, BucketsInv
    <3>2. CASE t \notin suppressed
      <4>1. PICK s \in three : \E f \in Waived(s) : t = [finding |-> f, by |-> Waiver(ScanProbes(s, f))]
        BY <1>1, <3>2
      <4>2. t.finding \in buckets[s]
        BY <4>1 DEF Waived
      <4> QED
        BY <4>2 DEF ReportInv, BucketsInv
    <3> QED
      BY <3>1, <3>2
  <2> QED
    BY <1>4, <2>1, <2>2, <2>3, <2>4, <2>5 DEF BucketsInv
<1>9. RulesKept'
  <2>1. RulesOn' = RulesOn /\ \A r : RuleFindings(r)' = RuleFindings(r)
    BY <1>3, FindingsStay
  <2>2. suppressed \subseteq suppressed'
    BY <1>1
  <2>3. \A f : RuleTaken(f) => RuleTaken(f)'
    BY <1>3, <2>2, WaiversStay DEF RuleTaken
  <2>4. \A f : Behind(f) => Behind(f)'
    BY <1>1, <1>3, <1>4, PackagesStay DEF Behind
  <2>5. \A r \in RulesOn : RuleSection[r] \in Sections \ three
    BY RuleSections DEF RulesOn
  <2>6. RulesKept
    BY <1>1 DEF ReportInv, FoundInv, Past, AfterRules
  <2> HIDE DEF three
  <2> QED
    BY <1>4, <2>1, <2>3, <2>4, <2>5, <2>6 DEF RulesKept
<1>10. IntegrityKept /\ VulnKept /\ DeprecationKept /\ LicenseKept
  BY <1>1, <1>2 DEF ReportInv, FoundInv, Past, AfterIntegrity, AfterVuln, AfterDeprecation, AfterLicense
<1>11. IntegrityKept' /\ VulnKept' /\ DeprecationKept' /\ LicenseKept'
  <2>1. /\ \A c : Unresolved(c)' = Unresolved(c)
        /\ Mismatches' = Mismatches /\ Vulnerabilities' = Vulnerabilities
        /\ Deprecations' = Deprecations /\ LicenseFindings' = LicenseFindings
    BY <1>1, ScansStay
  <2>2. ASSUME NEW check, GapsKept(check) PROVE GapsKept(check)'
    BY <1>7, <2>1, <2>2 DEF GapsKept
  <2>3. IntegrityKept'
    BY <1>1, <1>3, <1>4, <1>10, <2>1, <2>2 DEF IntegrityKept
  <2>4. VulnKept'
    BY <1>1, <1>7, <1>10, <2>1, <2>2 DEF VulnKept
  <2>5. DeprecationKept'
    BY <1>1, <1>7, <1>10, <2>1, <2>2 DEF DeprecationKept
  <2>6. LicenseKept'
    BY <1>1, <1>3, <1>4, <1>10, <2>1 DEF LicenseKept
  <2> QED
    BY <2>3, <2>4, <2>5, <2>6
<1>12. FoundInv'
  BY <1>1, <1>9, <1>11 DEF FoundInv
<1>13. VerdictInv'
  BY <1>2 DEF VerdictInv
<1> QED
  BY <1>5, <1>6, <1>8, <1>12, <1>13 DEF ReportInv

\* No errors are counted only if there are none.
LEMMA NoneCounted ==
  ASSUME BucketsInv, NEW severity, Count(severity) = 0
  PROVE  \A s \in Sections : \A f \in buckets[s] : f.severity # severity
<1> DEFINE of(s) == {<<s, f>> : f \in {f \in buckets[s] : f.severity = severity}}
           counted == UNION {of(s) : s \in Sections}
<1>1. ASSUME NEW s \in Sections PROVE IsFiniteSet(of(s))
  <2> DEFINE F == {f \in buckets[s] : f.severity = severity}
             g == [f \in F |-> <<s, f>>]
  <2>1. IsFiniteSet(F)
    BY FS_Subset DEF BucketsInv
  <2>2. \A t \in of(s) : \E f \in F : t = g[f]
    OBVIOUS
  <2> HIDE DEF F, g, of
  <2> QED
    BY <2>1, <2>2, ImageFinite
<1>2. IsFiniteSet({of(s) : s \in Sections})
  <2> DEFINE g == [s \in Sections |-> of(s)]
  <2>1. \A t \in {of(s) : s \in Sections} : \E s \in Sections : t = g[s]
    OBVIOUS
  <2> HIDE DEF g, of
  <2> QED
    BY <2>1, SectionsFinite, ImageFinite
<1>3. IsFiniteSet(counted)
  <2>1. \A T \in {of(s) : s \in Sections} : IsFiniteSet(T)
    BY <1>1
  <2> HIDE DEF of
  <2> QED
    BY <1>2, <2>1, FS_UNION
<1>4. Cardinality(counted) = 0
  BY DEF Count
<1>5. counted = {}
  <2> HIDE DEF counted
  <2> QED
    BY <1>3, <1>4, FS_EmptySet
<1>6. ASSUME NEW s \in Sections, NEW f \in buckets[s], f.severity = severity PROVE FALSE
  <2>1. <<s, f>> \in of(s)
    BY <1>6
  <2> HIDE DEF of
  <2>2. <<s, f>> \in counted
    BY <2>1
  <2> QED
    BY <1>5, <2>2
<1> QED
  BY <1>6

\* The exit code is 0 only without errors, and only some sections are passed over.
LEMMA AssembleKeeps ==
  ASSUME ReportInv, Assemble
  PROVE  ReportInv'
<1>1. /\ pc = "gate" /\ pc' = "end" /\ UNCHANGED <<run, config, buckets, suppressed, licenses>>
      /\ status' = [s \in Sections |-> IF Skips(s) THEN "skip"
                                       ELSE IF buckets[s] = {} THEN "pass" ELSE Worst(buckets[s])]
      /\ exit' = IF Count("error") = 0 /\ WithinBudget /\ ~GateTripped THEN 0 ELSE 1
  BY DEF Assemble, Stop
<1>2. run \in Runs /\ run.command # "remediate"
  BY <1>1 DEF ReportInv, StageInv, AfterRules
<1>3. StageInv'
  BY <1>1, <1>2 DEF StageInv, AfterRules
<1>4. ConfigInv'
  BY <1>1 DEF ReportInv, ConfigInv, Past, AfterRules
<1>5. BucketsInv'
  BY <1>1, BucketsStay DEF ReportInv
<1>6. FoundInv'
  <2>1. Grows
    BY <1>1 DEF Grows, Step
  <2>2. RulesKept
    BY <1>1 DEF ReportInv, FoundInv, Past, AfterRules
  <2>3. run.command = "report" => IntegrityKept /\ VulnKept /\ DeprecationKept /\ LicenseKept
    BY <1>1 DEF ReportInv, FoundInv, Past, AfterIntegrity, AfterVuln, AfterDeprecation, AfterLicense
  <2>4. run' = run
    BY <1>1
  <2> QED
    BY <1>1, <2>1, <2>2, <2>3, <2>4, GrowsKeeps DEF FoundInv
<1>7. VerdictInv'
  <2>1. exit' = 0 => Count("error") = 0
    BY <1>1
  <2>2. exit' = 0 => \A s \in Sections : \A f \in buckets[s] : f.severity # "error"
    BY <2>1, NoneCounted DEF ReportInv
  <2>3. ASSUME NEW s \in Sections, status'[s] = "skip" PROVE Skips(s)
    <3>1. SUFFICES ASSUME ~Skips(s) PROVE FALSE
      OBVIOUS
    <3>2. status'[s] = IF Skips(s) THEN "skip" ELSE IF buckets[s] = {} THEN "pass" ELSE Worst(buckets[s])
      BY <1>1
    <3>3. status'[s] \in {"pass", "error", "warn"}
      BY <3>1, <3>2 DEF Worst
    <3> QED
      BY <2>3, <3>3
  <2>4. \A s : Skips(s)' <=> Skips(s)
    <3>1. Packages' = Packages /\ Scanned' = Scanned /\ run' = run /\ buckets' = buckets /\ licenses' = licenses
      BY <1>1, PackagesStay
    <3> QED
      BY <3>1 DEF Skips
  <2> QED
    BY <1>1, <2>2, <2>3, <2>4 DEF VerdictInv
<1> QED
  BY <1>3, <1>4, <1>5, <1>6, <1>7 DEF ReportInv

-------------------------------------------------------------------------------
(* remediate keeps it, and its own *)

\* A step that judges nothing keeps what report and audit know.
LEMMA ElsewhereKeeps ==
  ASSUME ReportInv, UNCHANGED <<run, config, buckets, suppressed, licenses, status>>,
         \/ pc' = pc /\ exit' = exit
         \/ run.command = "remediate" /\ pc \in {"remediate", "bump"} /\ pc' \in {"bump", "end"}
  PROVE  ReportInv'
<1>1. StageInv'
  BY DEF ReportInv, StageInv, AfterRules
<1>2. CASE pc' = pc /\ exit' = exit
  <2>1. Judged' <=> Judged
    BY <1>2 DEF Judged
  <2>2. ConfigInv'
    BY <1>2, <2>1 DEF ReportInv, ConfigInv, Past
  <2>3. BucketsInv'
    BY BucketsStay DEF ReportInv
  <2>4. Grows
    BY DEF Grows, Step
  <2>5. FoundInv'
    <3>1. pc = "dedupe" =>
            \A r \in RulesOn' : \A f \in RuleFindings(r)' : f \in buckets'[RuleSection[r]] \/ RuleTaken(f)'
      BY <2>4, FindingsStay, WaiversStay DEF Grows, ReportInv, FoundInv, RuleTaken
    <3>2. \A stages : Past(stages)' <=> Past(stages)
      BY <1>2, <2>1 DEF Past
    <3> QED
      BY <1>2, <2>4, <3>1, <3>2, GrowsKeeps DEF ReportInv, FoundInv
  <2>6. VerdictInv'
    <3>1. \A s : Skips(s)' <=> Skips(s)
      BY PackagesStay DEF Skips
    <3> QED
      BY <1>2, <2>1, <3>1 DEF ReportInv, VerdictInv
  <2> QED
    BY <1>1, <2>2, <2>3, <2>5, <2>6 DEF ReportInv
<1>3. CASE run.command = "remediate" /\ pc \in {"remediate", "bump"} /\ pc' \in {"bump", "end"}
  <2>1. ~Judged'
    BY <1>3 DEF ReportInv, StageInv, Judged
  <2>2. ConfigInv'
    BY <1>3, <2>1 DEF ConfigInv, Past, AfterRules
  <2>3. BucketsInv'
    BY BucketsStay DEF ReportInv
  <2>4. FoundInv'
    BY <1>3, <2>1 DEF FoundInv, Past, AfterRules
  <2>5. VerdictInv'
    BY <2>1 DEF VerdictInv
  <2> QED
    BY <1>1, <2>2, <2>3, <2>4, <2>5 DEF ReportInv
<1> QED
  BY <1>2, <1>3

\* What is flagged stays, as the run does.
LEMMA FlaggedStays ==
  ASSUME run' = run
  PROVE  /\ Flagged' = Flagged /\ Declared' = Declared /\ Disk0' = Disk0
         /\ \A name : DeclaredIn(name)' = DeclaredIn(name)
<1>1. \A name : Reasons(name)' = Reasons(name)
  BY PackagesStay, ScansStay DEF Reasons
<1>2. Flagged' = Flagged
  BY <1>1, PackagesStay DEF Flagged
<1>3. Declared' = Declared
  BY DEF Declared
<1> QED
  BY <1>2, <1>3 DEF Disk0, DeclaredIn

\* Of the sections that declare a name, one is taken.
LEMMA DeclaredInOne ==
  ASSUME NEW name
  PROVE  /\ \A s \in DeclaredIn(name) : <<s, name>> \in DOMAIN Declared
         /\ \A s, t \in DeclaredIn(name) : s = t
<1> DEFINE hits == {i \in DOMAIN DepSections : /\ <<DepSections[i], name>> \in DOMAIN Declared
                                               /\ \A j \in 1..(i - 1) : <<DepSections[j], name>> \notin DOMAIN Declared}
<1>1. DeclaredIn(name) = {DepSections[i] : i \in hits}
  BY DEF DeclaredIn
<1>2. DOMAIN DepSections = 1..4
  BY DEF DepSections
<1>3. ASSUME NEW i \in hits, NEW j \in hits PROVE i = j
  <2>1. i \in 1..4 /\ j \in 1..4 /\ j \notin 1..(i - 1) /\ i \notin 1..(j - 1)
    BY <1>2
  <2> QED
    BY <2>1
<1>4. \A i \in hits : <<DepSections[i], name>> \in DOMAIN Declared
  OBVIOUS
<1> HIDE DEF hits
<1> QED
  BY <1>1, <1>3, <1>4

\* What the outcome of a declared name is.
LEMMA JudgeIs ==
  ASSUME NEW name, NEW section
  PROVE  LET o == Judge(name, section)
             d == <<section, name>> IN
         /\ o.name = name /\ o.section = section
         /\ o.did = "bumped" =>
              /\ o.to = [Declared[d] EXCEPT !.version = run.world.latest[name]]
              /\ run.world.latest[name] # Declared[d].version
<1> DEFINE range == Declared[<<section, name>>]
           latest == run.world.latest[name]
           did == IF range.op \notin {"exact", "caret", "tilde"} THEN "skipped"
                  ELSE IF latest = None THEN "warned"
                  ELSE IF latest \in {Installed(name), range.version} THEN "guided" ELSE "bumped"
           to == IF did = "bumped" THEN RewriteRange(range, latest) ELSE range
<1>1. Judge(name, section) = Outcome(name, did, section, range, to)
  BY DEF Judge
<1>2. did = "bumped" => latest # range.version
  OBVIOUS
<1>3. did = "bumped" => to = [range EXCEPT !.version = latest]
  BY DEF RewriteRange
<1> HIDE DEF did, to, range, latest
<1>4. LET o == Outcome(name, did, section, range, to) IN
      o.name = name /\ o.section = section /\ o.did = did /\ o.to = to
  BY DEF Outcome
<1> QED
  BY <1>1, <1>2, <1>3, <1>4 DEF range, latest

\* A step of report or audit knows nothing of the plan.
LEMMA ReportSteps ==
  ASSUME ReportNext
  PROVE  /\ run' = run /\ pc \notin {"remediate", "bump", "end"} /\ pc' # "bump"
         /\ pc' # "end" => exit' = exit
<1>1. CASE Configure
  BY <1>1 DEF Configure, To, Stop
<1>2. CASE Audit
  BY <1>2 DEF Audit, To
<1>3. CASE Dedupe
  BY <1>3 DEF Dedupe, To
<1>4. CASE Integrity
  BY <1>4 DEF Integrity, Scan, To, Stop
<1>5. CASE Vuln
  BY <1>5 DEF Vuln, Scan, To, Stop
<1>6. CASE Deprecation
  BY <1>6 DEF Deprecation, Scan, To, Stop
<1>7. CASE License
  BY <1>7 DEF License, To
<1>8. CASE ApplyScanExceptions
  BY <1>8 DEF ApplyScanExceptions, To
<1>9. CASE Assemble
  BY <1>9 DEF Assemble, Stop
<1> QED
  BY <1>1, <1>2, <1>3, <1>4, <1>5, <1>6, <1>7, <1>8, <1>9 DEF ReportNext

\* Nor does it touch the files.
LEMMA ReportStepsKeep ==
  ASSUME Inv, ReportNext, UNCHANGED pvars
  PROVE  Inv'
<1>1. ReportInv'
  BY ConfigureKeeps, AuditKeeps, DedupeKeeps, IntegrityStageKeeps, VulnStageKeeps, DeprecationStageKeeps,
     LicenseStageKeeps, ExceptionsStageKeeps, AssembleKeeps DEF Inv, ReportNext
<1>2. /\ run' = run /\ pc \notin {"remediate", "bump", "end"} /\ pc' # "bump" /\ (pc' # "end" => exit' = exit)
      /\ plan' = plan /\ flagged' = flagged /\ disk' = disk
  BY ReportSteps DEF pvars
<1>3. plan' = {} /\ flagged' = <<>> /\ exit = None
  BY <1>2 DEF Inv, PlanInv
<1>4. PlanInv'
  BY <1>2, <1>3 DEF PlanInv, Bumps
<1>5. run.command = "remediate" => pc' # "end" \/ exit' # 0
  <2>1. CASE run.command = "remediate"
    <3>1. pc \notin {"report", "audit", "rules", "gate"} \cup (AfterRules \ {"gate"})
      BY <1>2, <2>1 DEF Inv, ReportInv, StageInv, AfterRules
    <3> QED
      BY <1>2, <3>1 DEF Inv, ReportInv, StageInv, AfterRules
  <2> QED
    BY <2>1
<1>6. DiskInv'
  BY <1>2, <1>5, FlaggedStays DEF Inv, DiskInv
<1> QED
  BY <1>1, <1>4, <1>6 DEF Inv

\* What is to be looked at is what is flagged.
LEMMA GatherKeeps ==
  ASSUME Inv, Gather
  PROVE  Inv'
<1>1. /\ pc = "remediate" /\ UNCHANGED <<run, config, buckets, suppressed, licenses, status, plan, disk>>
      /\ \/ pc' = "end" /\ exit' = 2 /\ flagged' = flagged
         \/ pc' = "bump" /\ exit' = exit /\ flagged' = Flagged
  BY DEF Gather, Stop, To
<1>2. run.command = "remediate" /\ plan = {} /\ exit = None
  BY <1>1 DEF Inv, ReportInv, StageInv, PlanInv, AfterRules
<1>3. ReportInv'
  BY <1>1, <1>2, ElsewhereKeeps DEF Inv
<1>4. PlanInv'
  BY <1>1, <1>2, FlaggedStays DEF PlanInv, Bumps
<1>5. DiskInv'
  BY <1>1, FlaggedStays DEF Inv, DiskInv
<1> QED
  BY <1>3, <1>4, <1>5 DEF Inv

\* A name has one outcome.
LEMMA ProcessFlaggedKeeps ==
  ASSUME Inv, NEW name, ProcessFlagged(name)
  PROVE  Inv'
<1> DEFINE new == IF DeclaredIn(name) = {} THEN {Outcome(name, "guided", None, None, None)}
                  ELSE {Judge(name, section) : section \in DeclaredIn(name)}
<1>1. /\ pc = "bump" /\ name \in DOMAIN flagged \ {o.name : o \in plan} /\ plan' = plan \cup new
      /\ UNCHANGED rvars /\ flagged' = flagged /\ disk' = disk
  BY DEF ProcessFlagged
<1>2. run' = run /\ pc' = pc /\ exit' = exit /\ UNCHANGED <<config, buckets, suppressed, licenses, status>>
  BY <1>1 DEF rvars
<1>3. ReportInv'
  BY <1>2, ElsewhereKeeps DEF Inv
<1>4. /\ \A o \in new : o.name = name
      /\ \A o, p \in new : o = p
      /\ \A o \in new : o.did = "bumped" => LET d == <<o.section, o.name>> IN
           /\ d \in DOMAIN Declared /\ o.to = [Declared[d] EXCEPT !.version = run.world.latest[o.name]]
           /\ run.world.latest[o.name] # Declared[d].version
  <2>1. CASE DeclaredIn(name) = {}
    <3> DEFINE guided == Outcome(name, "guided", None, None, None)
    <3>1. new = {guided}
      BY <2>1
    <3>2. guided.name = name /\ guided.did = "guided"
      BY DEF Outcome
    <3> HIDE DEF new, guided
    <3>3. \A o \in new : o = guided
      BY <3>1
    <3>4. \A o \in new : o.name = name /\ o.did # "bumped"
      BY <3>2, <3>3
    <3> QED
      BY <3>3, <3>4
  <2>2. CASE DeclaredIn(name) # {}
    <3>1. new = {Judge(name, section) : section \in DeclaredIn(name)}
      BY <2>2
    <3> HIDE DEF new
    <3>2. \A o, p \in new : o = p
      BY <3>1, DeclaredInOne
    <3>3. ASSUME NEW o \in new
          PROVE  /\ o.name = name
                 /\ o.did = "bumped" => LET d == <<o.section, o.name>> IN
                      /\ d \in DOMAIN Declared /\ o.to = [Declared[d] EXCEPT !.version = run.world.latest[o.name]]
                      /\ run.world.latest[o.name] # Declared[d].version
      <4>1. PICK section \in DeclaredIn(name) : o = Judge(name, section)
        BY <3>1
      <4>2. o.name = name /\ o.section = section /\ <<section, name>> \in DOMAIN Declared
        BY <4>1, JudgeIs, DeclaredInOne
      <4>3. o.did = "bumped" =>
              /\ o.to = [Declared[<<section, name>>] EXCEPT !.version = run.world.latest[name]]
              /\ run.world.latest[name] # Declared[<<section, name>>].version
        BY <4>1, JudgeIs
      <4> QED
        BY <4>2, <4>3
    <3> QED
      BY <3>2, <3>3
  <2> QED
    BY <2>1, <2>2
<1> HIDE DEF new
<1>5. PlanInv'
  <2>1. \A o, p \in plan' : o.name = p.name => o = p
    BY <1>1, <1>4 DEF Inv, PlanInv
  <2>2. {o.name : o \in plan'} \subseteq DOMAIN flagged'
    BY <1>1, <1>4 DEF Inv, PlanInv
  <2>3. Declared' = Declared /\ Flagged' = Flagged
    BY <1>2, FlaggedStays
  <2>4. \A o \in Bumps' : LET d == <<o.section, o.name>> IN
          /\ d \in DOMAIN Declared /\ o.to = [Declared[d] EXCEPT !.version = run.world.latest[o.name]]
          /\ run.world.latest[o.name] # Declared[d].version
    <3>1. Bumps' = {o \in plan' : o.did = "bumped"}
      BY DEF Bumps
    <3>2. Bumps = {o \in plan : o.did = "bumped"}
      BY DEF Bumps
    <3> QED
      BY <1>1, <1>4, <3>1, <3>2 DEF Inv, PlanInv
  <2> QED
    BY <1>1, <1>2, <2>1, <2>2, <2>3, <2>4 DEF Inv, PlanInv
<1>6. DiskInv'
  BY <1>1, <1>2, FlaggedStays DEF Inv, DiskInv
<1> QED
  BY <1>3, <1>5, <1>6 DEF Inv

\* Both files are written with the same bumps.
LEMMA ConcludeKeeps ==
  ASSUME Inv, Conclude
  PROVE  Inv'
<1>1. /\ pc = "bump" /\ pc' = "end" /\ exit' = 0 /\ DOMAIN flagged = {o.name : o \in plan}
      /\ \/ disk' = disk
         \/ run.flags.write /\ disk' = ApplyBumps
      /\ UNCHANGED <<run, config, buckets, suppressed, licenses, status, flagged, plan>>
  BY DEF Conclude, Stop
<1>2. run.command = "remediate" /\ flagged = Flagged /\ disk = Disk0
  BY <1>1 DEF Inv, ReportInv, StageInv, PlanInv, DiskInv
<1>3. ReportInv'
  BY <1>1, <1>2, ElsewhereKeeps DEF Inv
<1>4. Bumps' = Bumps /\ Declared' = Declared /\ Flagged' = Flagged /\ Disk0' = Disk0
  BY <1>1, FlaggedStays DEF Bumps
<1>5. PlanInv'
  BY <1>1, <1>4 DEF Inv, PlanInv
<1>6. \A ranges : Bumped(ranges)' = Bumped(ranges)
  BY <1>4 DEF Bumped
<1>7. ApplyBumps = [manifest |-> Bumped(Disk0.manifest),
                    locked   |-> IF run.project.locked = None THEN None ELSE Bumped(run.project.locked)]
  BY <1>2 DEF ApplyBumps, Disk0
<1>8. DiskInv'
  BY <1>1, <1>2, <1>4, <1>6, <1>7 DEF DiskInv
<1> QED
  BY <1>3, <1>5, <1>8 DEF Inv

\* The invariant holds throughout a run.
THEOREM Invariance == Spec => []Inv
<1>1. ASSUME Init PROVE Inv
  <2>1. ReportInv
    BY <1>1, InitReport
  <2>2. /\ run \in Runs /\ pc = run.command /\ exit = None /\ flagged = <<>> /\ plan = {} /\ disk = Disk0
    BY <1>1 DEF Init, ReportInit, Disk0
  <2>3. pc \in {"report", "audit", "remediate"}
    BY <2>2, RunsAssumption DEF RunShape
  <2> QED
    BY <2>1, <2>2, <2>3 DEF Inv, PlanInv, DiskInv, Bumps
<1>2. ASSUME Inv, [Next]_vars PROVE Inv'
  <2>1. ASSUME ReportNext /\ UNCHANGED pvars PROVE Inv'
    BY <1>2, <2>1, ReportStepsKeep
  <2>2. ASSUME Gather PROVE Inv'
    BY <1>2, <2>2, GatherKeeps
  <2>3. ASSUME Conclude PROVE Inv'
    BY <1>2, <2>3, ConcludeKeeps
  <2>4. ASSUME NEW name \in DOMAIN flagged, ProcessFlagged(name) PROVE Inv'
    BY <1>2, <2>4, ProcessFlaggedKeeps
  <2>5. ASSUME UNCHANGED vars PROVE Inv'
    <3>1. /\ UNCHANGED <<run, config, buckets, suppressed, licenses, status, pc, exit>>
          /\ flagged' = flagged /\ plan' = plan /\ disk' = disk
      BY <2>5 DEF vars, rvars, pvars
    <3>2. ReportInv'
      BY <1>2, <3>1, ElsewhereKeeps DEF Inv
    <3>3. Bumps' = Bumps /\ Declared' = Declared /\ Flagged' = Flagged /\ Disk0' = Disk0
      BY <3>1, FlaggedStays DEF Bumps
    <3>4. PlanInv'
      BY <1>2, <3>1, <3>3 DEF Inv, PlanInv
    <3>5. \A ranges : Bumped(ranges)' = Bumped(ranges)
      BY <3>3 DEF Bumped
    <3>6. DiskInv'
      BY <1>2, <3>1, <3>3, <3>5 DEF Inv, DiskInv
    <3> QED
      BY <3>2, <3>4, <3>6 DEF Inv
  <2> QED
    BY <1>2, <2>1, <2>2, <2>3, <2>4, <2>5 DEF Next, Done
<1> QED
  BY <1>1, <1>2, PTL DEF Spec

-------------------------------------------------------------------------------
(* What the invariant says of a run that has been judged *)

\* The stages are over, and what each of them left is known.
LEMMA EndFacts ==
  ASSUME Inv, Judged
  PROVE  /\ run \in Runs /\ RunShape(run) /\ ExceptionsShape(config.exceptions) /\ config.options.allowHttp = FALSE
         /\ RulesKept
         /\ run.command = "report" => IntegrityKept /\ VulnKept /\ DeprecationKept /\ LicenseKept
         /\ exit = 0 => \A s \in Sections : \A f \in buckets[s] : f.severity # "error"
         /\ \A s \in Sections : status[s] = "skip" => Skips(s)
<1>1. run \in Runs
  BY DEF Inv, ReportInv, StageInv
<1>2. RunShape(run)
  BY <1>1, RunsAssumption
<1>3. config # Invalid /\ config = Configured(run.files, run.flags)
  BY DEF Inv, ReportInv, ConfigInv, Past
<1>4. ExceptionsShape(config.exceptions) /\ config.options.allowHttp = FALSE
  BY <1>1, <1>3, ConfiguredShape
<1>5. /\ RulesKept
      /\ run.command = "report" => IntegrityKept /\ VulnKept /\ DeprecationKept /\ LicenseKept
  BY DEF Inv, ReportInv, FoundInv, Past
<1> QED
  BY <1>1, <1>2, <1>4, <1>5 DEF Inv, ReportInv, VerdictInv

\* An exception that took a finding of a rule out is of that rule and about its package.
LEMMA RuleTakenIs ==
  ASSUME Inv, Judged, NEW f, RuleTaken(f)
  PROVE  Listed(f.rule, f) /\ Excused(f.rule, FindingPackage(f), None, None)
<1> DEFINE probe == [rule |-> f.rule, package |-> FindingPackage(f), version |-> None, id |-> None]
<1>1. RuleWaiver(f) = Waiver({probe}) /\ Waiver({probe}) # 0
  BY DEF RuleWaiver, AuditProbes, RuleTaken
<1>2. probe.rule = f.rule /\ probe.package = FindingPackage(f) /\ probe.version = None /\ probe.id = None
  OBVIOUS
<1> HIDE DEF probe
<1>3. /\ config.exceptions[Waiver({probe})].rule = probe.rule
      /\ Excused(probe.rule, probe.package, probe.version, probe.id)
  BY <1>1, EndFacts, WaiverExcuses
<1>4. [finding |-> f, by |-> RuleWaiver(f)] \in suppressed
  BY DEF RuleTaken
<1> QED
  BY <1>1, <1>2, <1>3, <1>4 DEF Listed

\* So is one that took a finding of a scan out, and its version and id are right too.
LEMMA ScanTakenIs ==
  ASSUME Inv, Judged, NEW s, NEW f, ScanTaken(s, f)
  PROVE  /\ Listed(ScanExceptionRule[s], f)
         /\ Excused(ScanExceptionRule[s], f.name, f.version, IF s = "unresolved" THEN f.check ELSE f.id)
<1> DEFINE probe == [rule |-> ScanExceptionRule[s], package |-> f.name, version |-> f.version,
                     id |-> IF s = "unresolved" THEN f.check ELSE f.id]
<1>1. ScanWaiver(s, f) = Waiver({probe}) /\ Waiver({probe}) # 0
  BY DEF ScanWaiver, ScanProbes, ScanTaken
<1>2. /\ probe.rule = ScanExceptionRule[s] /\ probe.package = f.name /\ probe.version = f.version
      /\ probe.id = IF s = "unresolved" THEN f.check ELSE f.id
  OBVIOUS
<1> HIDE DEF probe
<1>3. /\ config.exceptions[Waiver({probe})].rule = probe.rule
      /\ Excused(probe.rule, probe.package, probe.version, probe.id)
  BY <1>1, EndFacts, WaiverExcuses
<1>4. [finding |-> f, by |-> ScanWaiver(s, f)] \in suppressed
  BY DEF ScanTaken
<1> QED
  BY <1>1, <1>2, <1>3, <1>4 DEF Listed

-------------------------------------------------------------------------------
(* NothingVanishes *)

\* A section that holds a finding of a rule that is on is shown.
LEMMA RuleShown ==
  ASSUME Inv, Judged, NEW r \in RulesOn, NEW f \in buckets[RuleSection[r]]
  PROVE  Shown(RuleSection[r], f)
<1>1. /\ r \in Rules /\ run.project.flavor \in Flavors(r) /\ run.project.flavor \in {"npm", "pnpm"}
  BY EndFacts DEF RulesOn, RunShape, ProjectShape
<1>2. /\ RuleSection[r] \in Sections /\ RuleSection[r] \notin {"vuln", "deprecated", "licenses"}
      /\ "pnpm" \in Flavors(r) => RuleSection[r] \in PnpmLive
      /\ "npm" \in Flavors(r) => RuleSection[r] # "pnpm-config"
  BY <1>1, RuleSections
<1>3. buckets[RuleSection[r]] # {}
  OBVIOUS
<1>4. ~Skips(RuleSection[r])
  BY <1>1, <1>2, <1>3 DEF Skips
<1> QED
  BY <1>2, <1>4, EndFacts DEF Shown

\* So is one that holds what a scan that is on has found.
LEMMA ScanShown ==
  ASSUME Inv, Judged, NEW s \in {"vuln", "deprecated", "unresolved"}, NEW f \in buckets[s],
         s # "unresolved" => run.flags[s]
  PROVE  Shown(s, f)
<1>1. s \in Sections
  BY RuleSections
<1>2. s \in PnpmLive /\ buckets[s] # {}
  BY DEF PnpmLive
<1>3. ~Skips(s)
  BY <1>2 DEF Skips
<1> QED
  BY <1>1, <1>3, EndFacts DEF Shown

\* For every run: each finding is shown, listed with the exception that took it
\* out, or behind its host's (applyAuditExceptions, assembleSections).
THEOREM NothingVanishesHolds == Spec => []NothingVanishes
<1>1. ASSUME Inv, Judged PROVE NothingVanishes
  <2>1. ASSUME NEW r \in RulesOn, NEW f \in RuleFindings(r)
        PROVE  Shown(RuleSection[r], f) \/ Listed(r, f) \/ (r = "no-remote-deps" /\ Behind(f))
    <3>1. f.rule = r
      BY RuleFindingsAre
    <3>2. f \in buckets[RuleSection[r]] \/ RuleTaken(f) \/ (r = "no-remote-deps" /\ Behind(f))
      BY <1>1, EndFacts DEF RulesKept
    <3>3. f \in buckets[RuleSection[r]] => Shown(RuleSection[r], f)
      BY <1>1, RuleShown
    <3>4. RuleTaken(f) => Listed(r, f)
      BY <1>1, <3>1, RuleTakenIs
    <3> QED
      BY <3>2, <3>3, <3>4
  <2>2. ASSUME run.command = "report", NEW s \in DOMAIN ScanFindings, NEW f \in ScanFindings[s]
        PROVE  Shown(s, f) \/ Listed(ScanExceptionRule[s], f)
    <3>1. s \in {"vuln", "deprecated", "unresolved"}
      BY DEF ScanFindings, ScanExceptionRule
    <3>2. ScanFindings[s] =
            CASE s = "vuln"       -> IF run.flags["vuln"] THEN Vulnerabilities ELSE {}
              [] s = "deprecated" -> IF run.flags["deprecated"] THEN Deprecations ELSE {}
              [] s = "unresolved" -> UNION {Unresolved(c) : c \in {c \in {"integrity", "vuln", "deprecated"} : run.flags[c]}}
      BY <2>2 DEF ScanFindings
    <3>3. IntegrityKept /\ VulnKept /\ DeprecationKept
      BY <1>1, <2>2, EndFacts
    <3>4. Kept(s, f) /\ (s # "unresolved" => run.flags[s])
      <4>1. CASE s = "vuln"
        BY <2>2, <3>2, <3>3, <4>1 DEF VulnKept
      <4>2. CASE s = "deprecated"
        BY <2>2, <3>2, <3>3, <4>2 DEF DeprecationKept
      <4>3. CASE s = "unresolved"
        <5>1. PICK c \in {"integrity", "vuln", "deprecated"} : run.flags[c] /\ f \in Unresolved(c)
          BY <2>2, <3>2, <4>3
        <5>2. GapsKept(c)
          BY <3>3, <5>1 DEF IntegrityKept, VulnKept, DeprecationKept
        <5> QED
          BY <4>3, <5>1, <5>2 DEF GapsKept
      <4> QED
        BY <3>1, <4>1, <4>2, <4>3
    <3>5. f \in buckets[s] => Shown(s, f)
      BY <1>1, <3>1, <3>4, ScanShown
    <3>6. ScanTaken(s, f) => Listed(ScanExceptionRule[s], f)
      BY <1>1, ScanTakenIs
    <3> QED
      BY <3>4, <3>5, <3>6 DEF Kept
  <2> QED
    BY <2>1, <2>2 DEF NothingVanishes
<1>2. Inv => NothingVanishes
  BY <1>1 DEF NothingVanishes
<1> QED
  BY <1>2, Invariance, PTL

-------------------------------------------------------------------------------
(* ExitIsEarned *)

\* The severities in their order.
LEMMA SeverityRanks ==
  /\ SeverityRank(Unknown) = 6
  /\ \A l \in {Levels[i] : i \in DOMAIN Levels} : SeverityRank(l) \in 1..5
<1>1. Len(Levels) = 5 /\ DOMAIN Levels = 1..5
  BY DEF Levels
<1>2. SeverityRank(Unknown) = 6
  BY <1>1 DEF SeverityRank
<1>3. ASSUME NEW i \in DOMAIN Levels PROVE SeverityRank(Levels[i]) \in 1..5
  <2>1. Levels[i] # Unknown
    BY DEF Levels, Unknown
  <2>2. SeverityRank(Levels[i]) = CHOOSE j \in DOMAIN Levels : Levels[j] = Levels[i]
    BY <2>1 DEF SeverityRank
  <2> QED
    BY <1>1, <2>2
<1> QED
  BY <1>2, <1>3

\* Of the versions of one name that are asked about there is at least one.
LEMMA VersionsAskedCount ==
  ASSUME RunShape(run), NEW k \in Scanned
  PROVE  /\ Cardinality(VersionsAsked(Packages, k)) \in Nat \ {0}
         /\ Packages[k].version \in Version
<1> DEFINE J == {j \in Candidates(Packages) : Packages[j].name = Packages[k].name /\ Packages[j].host = Packages[k].host}
           V == VersionsAsked(Packages, k)
           g == [j \in J |-> Packages[j].version]
<1>1. IsFiniteSet(Candidates(Packages))
  BY FS_Subset DEF Candidates, RunShape, ProjectShape, Packages
<1>2. IsFiniteSet(J)
  BY <1>1, FS_Subset
<1>3. V = {Packages[j].version : j \in J}
  BY DEF VersionsAsked
<1>4. \A t \in V : \E j \in J : t = g[j]
  BY <1>3
<1>5. k \in J
  BY DEF Scanned
<1>6. Packages[k].version \in V
  BY <1>3, <1>5
<1>7. IsFiniteSet(V)
  <2> HIDE DEF J, g, V
  <2> QED
    BY <1>2, <1>4, ImageFinite
<1>8. Cardinality(V) \in Nat /\ Cardinality(V) # 0
  <2> HIDE DEF V
  <2> QED
    BY <1>6, <1>7, FS_CardinalityType, FS_EmptySet
<1>9. Packages[k].version \in Version
  BY DEF RunShape, ProjectShape, Scanned, Packages
<1> QED
  BY <1>8, <1>9

\* An advisory is held against a package exactly if it affects it, and is an
\* error exactly if it is serious too.
LEMMA AffectedVerdict ==
  ASSUME RunShape(run), NEW k \in Scanned, NEW a \in run.world.advisories[Packages[k].name]
  PROVE  /\ Verdict(k, a) \in {"yes", "no", "uncertain"}
         /\ Verdict(k, a) = "yes" <=> Affected(k, a)
         /\ Cardinality(VersionsAsked(Packages, k)) > 1 /\ a.range # None =>
              (Verdict(k, a) # "no" <=> Within(Packages[k].version, a.range))
         /\ Verdict(k, a) # "no" => (Level(k, a) = "error" <=> Affected(k, a) /\ Serious(a))
<1> DEFINE n == Cardinality(VersionsAsked(Packages, k))
           v == Packages[k].version
<1>1. n \in Nat \ {0} /\ v \in Version
  BY VersionsAskedCount
<1>2. AdvisoriesShape(run.world.advisories[Packages[k].name])
  BY DEF RunShape, Scanned, Packages
<1>3. a.range # None => (SatisfiesRange(v, a.range) <=> Within(v, a.range))
  <2>1. a.range # None => \A term \in a.range : term \subseteq Comparator
    BY <1>2 DEF AdvisoriesShape
  <2> HIDE DEF v
  <2>2. ASSUME NEW range, \A term \in range : term \subseteq Comparator
        PROVE  SatisfiesRange(v, range) <=> Within(v, range)
    BY <1>1, <2>2, RangesMatchOrder
  <2> QED
    BY <2>1, <2>2
<1>4. Verdict(k, a) = IF ~(n > 1) THEN "yes" ELSE IF a.range = None THEN "uncertain"
                      ELSE IF SatisfiesRange(v, a.range) THEN "yes" ELSE "no"
  BY DEF Verdict, AdvisoryAppliesTo
<1>5. Affected(k, a) <=> n = 1 \/ (a.range # None /\ Within(v, a.range))
  BY DEF Affected
<1>6. n > 1 <=> n # 1
  BY <1>1
<1> HIDE DEF n, v
<1>7. /\ Verdict(k, a) \in {"yes", "no", "uncertain"}
      /\ Verdict(k, a) = "yes" <=> Affected(k, a)
      /\ n > 1 /\ a.range # None => (Verdict(k, a) # "no" <=> Within(v, a.range))
  BY <1>3, <1>4, <1>5, <1>6
<1>8. Serious(a) <=> SeverityRank(a.severity) >= SeverityRank(SeverityGate(run.flags))
  <2>1. SeverityGate(run.flags) \in {Levels[i] : i \in DOMAIN Levels}
    <3>1. "high" \in {Levels[i] : i \in DOMAIN Levels}
      <4>1. 4 \in DOMAIN Levels /\ Levels[4] = "high"
        BY DEF Levels
      <4> QED
        BY <4>1
    <3> QED
      BY <3>1 DEF RunShape, SeverityGate, Or
  <2> QED
    BY <2>1, SeverityRanks DEF Serious
<1>9. Level(k, a) = IF Verdict(k, a) # "uncertain" /\ Serious(a) THEN "error" ELSE "warn"
  BY <1>8 DEF Level, VulnLevel
<1> QED
  BY <1>7, <1>9 DEF n, v

\* Such a finding is among those of the scan.
LEMMA AffectedFound ==
  ASSUME RunShape(run), NEW k \in Answering("vuln"), NEW a \in run.world.advisories[Packages[k].name]
  PROVE  Verdict(k, a) # "no" => VulnOf(k, a) \in Vulnerabilities
<1>1. k \in Scanned \ Gaps("vuln")
  BY DEF Answering, Gaps
<1> QED
  BY <1>1, VulnerabilitiesAre

\* With exit code 0 the scans have found nothing that counts.
LEMMA ScansEarnItHolds ==
  ASSUME Inv, Judged, exit = 0, run.command = "report"
  PROVE  ScansEarnIt
<1>1. /\ RunShape(run) /\ IntegrityKept /\ VulnKept /\ DeprecationKept /\ LicenseKept
      /\ \A s \in Sections : \A f \in buckets[s] : f.severity # "error"
  BY EndFacts
<1>2. {"integrity", "vuln", "deprecated", "unresolved", "licenses"} \subseteq Sections
  BY RuleSections
<1>3. /\ ScanExceptionRule["vuln"] = "vulnerable-package" /\ ScanExceptionRule["deprecated"] = "deprecated-package"
      /\ ScanExceptionRule["unresolved"] = "unresolved-package"
  BY DEF ScanExceptionRule
<1>4. Answering("integrity") \cap run.world.mismatched = {}
  <2>1. SUFFICES ASSUME NEW k \in Answering("integrity") \cap run.world.mismatched PROVE FALSE
    OBVIOUS
  <2>2. run.flags["integrity"] /\ OfPackage(k, "error") \in Mismatches
    BY DEF Answering, Mismatches, Gaps
  <2>3. OfPackage(k, "error") \in buckets["integrity"]
    BY <1>1, <2>2 DEF IntegrityKept
  <2> QED
    BY <1>1, <1>2, <2>3, OfPackageIs
<1>5. ASSUME NEW check \in {"integrity", "vuln", "deprecated"}, NEW k \in Scanned \ Answering(check),
             run.flags[check], ~run.flags.allowUnresolved
      PROVE  Excused("unresolved-package", Packages[k].name, Packages[k].version, check)
  <2>1. k \in Gaps(check)
    BY <1>5 DEF Answering, Gaps
  <2>2. PICK f \in Unresolved(check) :
          /\ f.check = check /\ f.name = Packages[k].name /\ f.version = Packages[k].version /\ f.severity = "error"
    BY <1>5, <2>1, UnresolvedAre
  <2>3. GapsKept(check)
    BY <1>1, <1>5 DEF IntegrityKept, VulnKept, DeprecationKept
  <2>4. ScanTaken("unresolved", f)
    BY <1>1, <1>2, <2>2, <2>3 DEF GapsKept, Kept
  <2> QED
    BY <1>3, <2>2, <2>4, ScanTakenIs
<1>6. ASSUME NEW k \in Answering("vuln"), NEW a \in run.world.advisories[Packages[k].name],
             Affected(k, a), Serious(a)
      PROVE  Excused("vulnerable-package", Packages[k].name, Packages[k].version, a.id)
  <2> DEFINE f == VulnOf(k, a)
  <2>1. k \in Scanned /\ run.flags["vuln"]
    BY DEF Answering
  <2>2. Verdict(k, a) # "no" /\ Level(k, a) = "error"
    BY <1>1, <1>6, <2>1, AffectedVerdict
  <2>3. f \in Vulnerabilities
    BY <1>1, <2>2, AffectedFound
  <2>4. f.name = Packages[k].name /\ f.version = Packages[k].version /\ f.id = a.id /\ f.severity = "error"
    BY <2>2, VulnOfIs
  <2> HIDE DEF f
  <2>5. ScanTaken("vuln", f)
    BY <1>1, <1>2, <2>1, <2>3, <2>4 DEF VulnKept, Kept
  <2> QED
    BY <1>3, <2>4, <2>5, ScanTakenIs
<1>7. ASSUME NEW k \in Answering("deprecated") \cap run.world.deprecated, run.flags.failOnDeprecated
      PROVE  Excused("deprecated-package", Packages[k].name, Packages[k].version, None)
  <2> DEFINE f == OfPackage(k, "error")
  <2>1. run.flags["deprecated"] /\ f \in Deprecations
    BY <1>7 DEF Answering, Gaps, Deprecations
  <2>2. f.name = Packages[k].name /\ f.version = Packages[k].version /\ f.id = None /\ f.severity = "error"
    BY OfPackageIs
  <2> HIDE DEF f
  <2>3. ScanTaken("deprecated", f)
    BY <1>1, <1>2, <2>1, <2>2 DEF DeprecationKept, Kept
  <2> QED
    BY <1>3, <2>2, <2>3, ScanTakenIs
<1>8. ASSUME run.flags["license"], run.project.flavor = "npm", run.world.installed, run.world.csv # None
      PROVE  run.world.csv = "good" /\ \A k \in Foreign(run.project) : run.world.license[k] # "rejected"
  <2>1. run.world.csv # "bad" /\ LicenseFindings \subseteq buckets["licenses"]
    BY <1>1, <1>2, <1>8 DEF LicenseKept
  <2>2. run.world.csv = "good"
    BY <1>1, <1>8, <2>1 DEF RunShape
  <2>3. ASSUME NEW k \in Foreign(run.project), run.world.license[k] = "rejected" PROVE FALSE
    <3>1. OfPackage(k, "error") \in LicenseFindings
      BY <2>3 DEF LicenseFindings
    <3> QED
      BY <1>1, <1>2, <2>1, <3>1, OfPackageIs
  <2> QED
    BY <2>2, <2>3
<1> QED
  BY <1>4, <1>5, <1>6, <1>7, <1>8 DEF ScansEarnIt

\* Nor have the two rules.
LEMMA RulesEarnItHolds ==
  ASSUME Inv, Judged, exit = 0
  PROVE  RulesEarnIt
<1>1. /\ RunShape(run) /\ RulesKept /\ config.options.allowHttp = FALSE
      /\ \A s \in Sections : \A f \in buckets[s] : f.severity # "error"
  BY EndFacts
<1>2. "error" # None /\ "http" # None
  BY RunsAssumption
<1>3. ASSUME NEW r \in {"valid-npmrc", "secure-resolved"}, run.project.flavor \in Flavors(r), config.rules[r] # "off",
             NEW raw \in RuleCheck(r, run.project, config.options), Or(raw.forced, config.rules[r]) = "error"
      PROVE  \E f : f.at = raw.at /\ Excused(r, FindingPackage(f), None, None)
  <2>1. r \in Rules /\ RuleSection[r] \in Sections
    BY RuleSections, RuleNames
  <2>2. r \in RulesOn
    BY <1>3, <2>1 DEF RulesOn
  <2>3. PICK f \in RuleFindings(r) : f.at = raw.at /\ f.severity = "error" /\ f.rule = r
    BY <1>3, RuleFindingsAre
  <2>4. RuleTaken(f)
    BY <1>1, <2>1, <2>2, <2>3 DEF RulesKept
  <2> QED
    BY <2>3, <2>4, RuleTakenIs
<1>4. ASSUME config.rules["valid-npmrc"] # "off", run.project.npmrc # None, NEW i \in DOMAIN run.project.npmrc,
             NEW e, e = run.project.npmrc[i],
             (e.key = Secret /\ e.value # "env") \/ (e.key = "strict-ssl" /\ e.value \in Off)
      PROVE  Excused("valid-npmrc", ".npmrc", None, None)
  <2>1. PICK code \in NpmrcSecurityCodes : code \in NpmrcIssues(e, run.project.flavor)
    <3>1. CASE e.key = Secret /\ e.value # "env"
      BY <3>1 DEF NpmrcIssues, NpmrcSecurityCodes, Secret
    <3>2. CASE e.key = "strict-ssl" /\ e.value \in Off
      BY <3>2 DEF NpmrcIssues, NpmrcSecurityCodes, Secret
    <3> QED
      BY <1>4, <3>1, <3>2
  <2> DEFINE raw == Raw(<<".npmrc", code>>, NpmrcForced(code))
  <2>2. raw \in ValidNpmrc(run.project)
    BY <1>4, <2>1 DEF ValidNpmrc
  <2>3. RuleCheck("valid-npmrc", run.project, config.options) = ValidNpmrc(run.project)
    BY DEF RuleCheck
  <2>4. raw.at = <<".npmrc", code>> /\ raw.forced = "error"
    BY <2>1 DEF Raw, NpmrcForced, NpmrcSecurityCodes
  <2> HIDE DEF raw
  <2>5. run.project.flavor \in Flavors("valid-npmrc")
    BY <1>1 DEF Flavors, RunShape, ProjectShape
  <2>6. PICK f : f.at = raw.at /\ Excused("valid-npmrc", FindingPackage(f), None, None)
    BY <1>2, <1>3, <1>4, <2>2, <2>3, <2>4, <2>5 DEF Or
  <2>7. f.at[1] = ".npmrc" /\ ".npmrc" \notin DOMAIN Packages /\ Len(f.at) = 2
    <3>1. f.at = <<".npmrc", code>>
      BY <2>4, <2>6
    <3>2. JudgedFiles \cap DOMAIN Packages = {} /\ ".npmrc" \in JudgedFiles
      BY <1>1 DEF RunShape, ProjectShape, Packages, JudgedFiles
    <3> QED
      BY <3>1, <3>2
  <2>8. FindingPackage(f) = ".npmrc"
    BY <2>7 DEF FindingPackage, Written
  <2> QED
    BY <2>6, <2>8
<1>5. ASSUME config.rules["secure-resolved"] = "error", run.project.flavor = "npm", NEW k \in Foreign(run.project),
             Packages[k].kind = "registry", Packages[k].scheme = "http"
      PROVE  Excused("secure-resolved", Packages[k].name, None, None)
  <2> DEFINE raw == Raw(<<k>>, None)
  <2>1. Insecure(Packages[k], config.options)
    BY <1>1, <1>2, <1>5 DEF Insecure
  <2>2. raw \in SecureResolved(run.project, config.options)
    BY <1>5, <2>1 DEF SecureResolved, Keys, Plain, Packages
  <2>3. RuleCheck("secure-resolved", run.project, config.options) = SecureResolved(run.project, config.options)
    BY DEF RuleCheck
  <2>4. raw.at = <<k>> /\ raw.forced = None
    BY DEF Raw
  <2> HIDE DEF raw
  <2>5. run.project.flavor \in Flavors("secure-resolved")
    BY <1>5 DEF Flavors
  <2>6. PICK f : f.at = raw.at /\ Excused("secure-resolved", FindingPackage(f), None, None)
    BY <1>2, <1>3, <1>5, <2>2, <2>3, <2>4, <2>5 DEF Or
  <2>7. f.at[1] = k /\ k \in DOMAIN Packages
    <3>1. f.at = <<k>>
      BY <2>4, <2>6
    <3>2. k \in DOMAIN Packages
      BY <1>5 DEF Packages, Foreign
    <3> QED
      BY <3>1, <3>2
  <2>8. FindingPackage(f) = Packages[k].name
    BY <2>7 DEF FindingPackage, Written
  <2> QED
    BY <2>6, <2>8
<1> QED
  BY <1>4, <1>5 DEF RulesEarnIt

\* For every run: it ends with 0 only if what it was asked to look for is not
\* there, or is excused (GATE of report.js, applyScanExceptions).
THEOREM ExitIsEarnedHolds == Spec => []ExitIsEarned
<1>1. Inv => ExitIsEarned
  BY ScansEarnItHolds, RulesEarnItHolds DEF ExitIsEarned
<1> QED
  BY <1>1, Invariance, PTL

-------------------------------------------------------------------------------
(* AffectedExactly *)

\* For every run: of several versions of one name exactly those that the order
\* of semver puts into the range are held affected (advisoryAppliesTo).
THEOREM AffectedExactlyHolds == Spec => []AffectedExactly
<1>1. ASSUME Inv, Judged, run.command = "report", NEW k \in Answering("vuln"),
             NEW a \in run.world.advisories[Packages[k].name],
             Cardinality(VersionsAsked(Packages, k)) > 1, a.range # None, a.id # None
      PROVE  Within(Packages[k].version, a.range)
               <=> \E f \in buckets["vuln"] \cup {s.finding : s \in suppressed} : f.at = <<k>> /\ f.id = a.id
  <2>1. RunShape(run) /\ VulnKept
    BY <1>1, EndFacts
  <2>2. k \in Scanned /\ run.flags["vuln"]
    BY DEF Answering
  <2>3. Within(Packages[k].version, a.range) <=> Verdict(k, a) # "no"
    BY <1>1, <2>1, <2>2, AffectedVerdict
  <2>4. ASSUME Verdict(k, a) # "no"
        PROVE  \E f \in buckets["vuln"] \cup {s.finding : s \in suppressed} : f.at = <<k>> /\ f.id = a.id
    <3>1. VulnOf(k, a) \in Vulnerabilities
      BY <2>1, <2>4, AffectedFound
    <3>2. Kept("vuln", VulnOf(k, a))
      BY <2>1, <2>2, <3>1 DEF VulnKept
    <3>3. VulnOf(k, a) \in buckets["vuln"] \cup {s.finding : s \in suppressed}
      BY <3>2 DEF Kept, ScanTaken
    <3> QED
      BY <3>3, VulnOfIs
  <2>5. ASSUME NEW f \in buckets["vuln"] \cup {s.finding : s \in suppressed}, f.at = <<k>>, f.id = a.id
        PROVE  Verdict(k, a) # "no"
    <3>1. f \in Vulnerabilities
      BY <1>1, <2>5 DEF Inv, ReportInv, BucketsInv
    <3>2. PICK j \in Scanned \ Gaps("vuln") : \E b \in run.world.advisories[Packages[j].name] :
            Verdict(j, b) # "no" /\ f = VulnOf(j, b)
      BY <3>1, VulnerabilitiesAre
    <3>3. PICK b \in run.world.advisories[Packages[j].name] : Verdict(j, b) # "no" /\ f = VulnOf(j, b)
      BY <3>2
    <3>4. <<j>> = <<k>> /\ b.id = a.id
      BY <2>5, <3>3, VulnOfIs
    <3>5. j = k
      BY <3>4
    <3>6. AdvisoriesShape(run.world.advisories[Packages[k].name])
      BY <2>1, <2>2 DEF RunShape, Scanned, Packages
    <3>7. b = a
      BY <1>1, <3>4, <3>5, <3>6 DEF AdvisoriesShape
    <3> QED
      BY <3>3, <3>5, <3>7
  <2> QED
    BY <2>3, <2>4, <2>5
<1>2. Inv => AffectedExactly
  BY <1>1 DEF AffectedExactly
<1> QED
  BY <1>2, Invariance, PTL

-------------------------------------------------------------------------------
(* PlanAccounts *)

\* The names that are flagged are those that deserve it.
LEMMA FlaggedDeserving ==
  ASSUME RunShape(run)
  PROVE  DOMAIN Flagged = Deserving
<1> DEFINE names == {Packages[k].name : k \in Scanned}
           hit == {k \in Scanned \ Gaps("vuln") : \E a \in run.world.advisories[Packages[k].name] :
                     a.id # None /\ Affected(k, a) /\ Serious(a)}
           old == Answering("deprecated") \cap run.world.deprecated
<1>1. DOMAIN Flagged = {n \in names : Reasons(n) # {}}
  BY DEF Flagged
<1>2. Deserving = {Packages[k].name : k \in hit \cup old}
  BY DEF Deserving
<1>3. ASSUME NEW n
      PROVE  "vulnerable" \in Reasons(n) <=> \E k \in hit : Packages[k].name = n
  <2>1. "vulnerable" \in Reasons(n) <=>
          \E f \in Vulnerabilities : f.severity = "error" /\ f.id # None /\ f.name = n
    BY DEF Reasons
  <2>2. ASSUME NEW f \in Vulnerabilities, f.severity = "error", f.id # None, f.name = n
        PROVE  \E k \in hit : Packages[k].name = n
    <3>1. PICK k \in Scanned \ Gaps("vuln") : \E a \in run.world.advisories[Packages[k].name] :
            Verdict(k, a) # "no" /\ f = VulnOf(k, a)
      BY VulnerabilitiesAre
    <3>2. PICK a \in run.world.advisories[Packages[k].name] : Verdict(k, a) # "no" /\ f = VulnOf(k, a)
      BY <3>1
    <3>3. a.id # None /\ Level(k, a) = "error" /\ Packages[k].name = n
      BY <2>2, <3>2, VulnOfIs
    <3>4. Affected(k, a) /\ Serious(a)
      BY <3>2, <3>3, AffectedVerdict
    <3> QED
      BY <3>3, <3>4
  <2>3. ASSUME NEW k \in hit, Packages[k].name = n
        PROVE  \E f \in Vulnerabilities : f.severity = "error" /\ f.id # None /\ f.name = n
    <3>1. PICK a \in run.world.advisories[Packages[k].name] : a.id # None /\ Affected(k, a) /\ Serious(a)
      OBVIOUS
    <3>2. k \in Scanned \ Gaps("vuln")
      OBVIOUS
    <3>3. Verdict(k, a) = "yes" /\ Level(k, a) = "error"
      BY <3>1, <3>2, AffectedVerdict
    <3>4. VulnOf(k, a) \in Vulnerabilities
      BY <3>2, <3>3, VulnerabilitiesAre
    <3> QED
      BY <2>3, <3>1, <3>3, <3>4, VulnOfIs
  <2> QED
    BY <2>1, <2>2, <2>3
<1>4. ASSUME NEW n
      PROVE  "deprecated" \in Reasons(n) <=> \E k \in old : Packages[k].name = n
  <2>1. "deprecated" \in Reasons(n) <=>
          /\ run.flags["deprecated"]
          /\ \E k \in (run.world.deprecated \cap Scanned) \ Gaps("deprecated") : Packages[k].name = n
    BY DEF Reasons
  <2>2. \A k : k \in old <=> run.flags["deprecated"] /\ k \in (run.world.deprecated \cap Scanned) \ Gaps("deprecated")
    BY DEF Answering, Gaps
  <2> HIDE DEF old
  <2> QED
    BY <2>1, <2>2
<1>5. \A n : Reasons(n) # {} <=> "deprecated" \in Reasons(n) \/ "vulnerable" \in Reasons(n)
  BY DEF Reasons
<1>6. hit \subseteq Scanned /\ old \subseteq Scanned
  BY DEF Answering
<1> HIDE DEF hit, old
<1> QED
  BY <1>1, <1>2, <1>3, <1>4, <1>5, <1>6

\* A range has its bump in it, or is as it was.
LEMMA BumpedIs ==
  ASSUME PlanInv, NEW ranges
  PROVE  /\ DOMAIN Bumped(ranges) = DOMAIN ranges
         /\ \A d \in DOMAIN ranges :
              IF \E o \in Bumps : <<o.section, o.name>> = d
              THEN \E o \in Bumps : <<o.section, o.name>> = d /\ Bumped(ranges)[d] = o.to
              ELSE Bumped(ranges)[d] = ranges[d]
BY DEF Bumped

\* Two bumps of one range are the same.
LEMMA BumpsOne ==
  ASSUME PlanInv, NEW o \in Bumps, NEW p \in Bumps, <<o.section, o.name>> = <<p.section, p.name>>
  PROVE  o = p
BY DEF PlanInv, Bumps

\* A bump changes the version of the range, and nothing else.
LEMMA BumpChanges ==
  ASSUME RunShape(run), run.project.manifest # None, PlanInv, NEW o \in Bumps
  PROVE  LET d == <<o.section, o.name>> IN
         /\ d \in DOMAIN Declared /\ o.to = [Declared[d] EXCEPT !.version = run.world.latest[o.name]]
         /\ o.to # Declared[d]
<1> DEFINE d == <<o.section, o.name>>
           latest == run.world.latest[o.name]
<1>1. /\ d \in DOMAIN Declared /\ o.to = [Declared[d] EXCEPT !.version = latest]
      /\ latest # Declared[d].version
  BY DEF PlanInv
<1>2. DOMAIN Declared[d] = {"op", "version"}
  BY <1>1 DEF RunShape, ProjectShape, Declared
<1> HIDE DEF d, latest
<1>3. o.to.version = latest
  BY <1>1, <1>2
<1> QED
  BY <1>1, <1>3 DEF d, latest

\* There are as many outcomes as names.
LEMMA PlanCounted ==
  ASSUME RunShape(run), PlanInv, {o.name : o \in plan} = Deserving
  PROVE  Cardinality(plan) = Cardinality(Deserving)
<1> DEFINE f == [o \in plan |-> o.name]
<1>1. IsFiniteSet(Deserving)
  <2> DEFINE K == {k \in Scanned \ Gaps("vuln") : \E a \in run.world.advisories[Packages[k].name] :
                     a.id # None /\ Affected(k, a) /\ Serious(a)} \cup (Answering("deprecated") \cap run.world.deprecated)
             g == [k \in K |-> Packages[k].name]
  <2>1. IsFiniteSet(Candidates(Packages))
    BY FS_Subset DEF Candidates, RunShape, ProjectShape, Packages
  <2>2. K \subseteq Candidates(Packages)
    BY DEF Scanned, Answering
  <2>3. IsFiniteSet(K)
    <3> HIDE DEF K
    <3> QED
      BY <2>1, <2>2, FS_Subset
  <2>4. \A t \in Deserving : \E k \in K : t = g[k]
    BY DEF Deserving
  <2> HIDE DEF K, g
  <2> QED
    BY <2>3, <2>4, ImageFinite
<1>2. f \in Bijection(plan, Deserving)
  <2>1. f \in [plan -> Deserving]
    OBVIOUS
  <2>2. \A o, p \in plan : f[o] = f[p] => o = p
    BY DEF PlanInv
  <2>3. \A n \in Deserving : \E o \in plan : f[o] = n
    OBVIOUS
  <2> HIDE DEF f
  <2> QED
    BY <2>1, <2>2, <2>3, Fun_IsBij
<1>3. ExistsBijection(plan, Deserving)
  BY <1>2 DEF ExistsBijection
<1>4. ExistsBijection(Deserving, plan)
  BY <1>3, Fun_ExistsBijSymmetric
<1> QED
  BY <1>1, <1>4, FS_Bijection

\* For every run of remediate: one outcome for each name that deserves one and
\* no other, and both files changed alike (gatherFlagged, processFlagged,
\* applyBumps).
THEOREM PlanAccountsHolds == Spec => []PlanAccounts
<1>1. ASSUME Inv, run.command = "remediate", pc = "end", exit = 0
      PROVE  /\ {o.name : o \in plan} = Deserving /\ Cardinality(plan) = Cardinality(Deserving)
             /\ \A d \in DOMAIN Declared : disk.manifest[d] # Declared[d] =>
                  /\ d[2] \in Deserving /\ run.flags.write
                  /\ disk.manifest[d] = [Declared[d] EXCEPT !.version = run.world.latest[d[2]]]
             /\ disk.locked # None =>
                  \A d \in DOMAIN disk.locked \cap DOMAIN Declared :
                    disk.locked[d] = IF disk.manifest[d] = Declared[d] THEN run.project.locked[d] ELSE disk.manifest[d]
  <2>1. run \in Runs /\ RunShape(run)
    BY <1>1, RunsAssumption DEF Inv, ReportInv, StageInv
  <2>2. run.project.manifest # None
    BY <1>1, <2>1 DEF RunShape, ProjectShape
  <2>3. PlanInv /\ {o.name : o \in plan} = Deserving
    BY <1>1, <2>1, FlaggedDeserving DEF Inv, DiskInv
  <2>4. Cardinality(plan) = Cardinality(Deserving)
    BY <2>1, <2>3, PlanCounted
  <2>5. Disk0.manifest = Declared /\ Disk0.locked = run.project.locked
    BY <2>2 DEF Disk0
  <2>6. CASE disk = Disk0
    BY <2>3, <2>4, <2>5, <2>6
  <2>7. CASE /\ run.flags.write
             /\ disk = [manifest |-> Bumped(Disk0.manifest),
                        locked   |-> IF run.project.locked = None THEN None ELSE Bumped(run.project.locked)]
    <3>1. disk.manifest = Bumped(Declared)
      BY <2>5, <2>7
    <3>2. disk.locked = IF run.project.locked = None THEN None ELSE Bumped(run.project.locked)
      BY <2>7
    <3>3. ASSUME NEW d \in DOMAIN Declared, disk.manifest[d] # Declared[d]
          PROVE  /\ d[2] \in Deserving /\ run.flags.write
                 /\ disk.manifest[d] = [Declared[d] EXCEPT !.version = run.world.latest[d[2]]]
      <4>1. PICK o \in Bumps : <<o.section, o.name>> = d /\ Bumped(Declared)[d] = o.to
        BY <2>3, <3>1, <3>3, BumpedIs
      <4>2. o.to = [Declared[d] EXCEPT !.version = run.world.latest[o.name]]
        BY <2>1, <2>2, <2>3, <4>1, BumpChanges
      <4>3. d[2] = o.name
        BY <4>1
      <4>4. o.name \in Deserving
        BY <2>3 DEF Bumps
      <4> QED
        BY <2>7, <3>1, <4>1, <4>2, <4>3, <4>4
    <3>4. ASSUME disk.locked # None, NEW d \in DOMAIN disk.locked \cap DOMAIN Declared
          PROVE  disk.locked[d] = IF disk.manifest[d] = Declared[d] THEN run.project.locked[d] ELSE disk.manifest[d]
      <4>1. disk.locked = Bumped(run.project.locked) /\ d \in DOMAIN run.project.locked
        BY <2>3, <3>2, <3>4, BumpedIs
      <4>2. CASE \E o \in Bumps : <<o.section, o.name>> = d
        <5>1. PICK o \in Bumps : <<o.section, o.name>> = d /\ Bumped(Declared)[d] = o.to
          BY <2>3, <4>2, BumpedIs
        <5>2. PICK p \in Bumps : <<p.section, p.name>> = d /\ Bumped(run.project.locked)[d] = p.to
          BY <2>3, <4>1, <4>2, BumpedIs
        <5>3. o = p
          BY <2>3, <5>1, <5>2, BumpsOne
        <5>4. o.to # Declared[d]
          BY <2>1, <2>2, <2>3, <5>1, BumpChanges
        <5> QED
          BY <3>1, <4>1, <5>1, <5>2, <5>3, <5>4
      <4>3. CASE ~\E o \in Bumps : <<o.section, o.name>> = d
        <5>1. Bumped(Declared)[d] = Declared[d] /\ Bumped(run.project.locked)[d] = run.project.locked[d]
          BY <2>3, <4>1, <4>3, BumpedIs
        <5> QED
          BY <3>1, <4>1, <5>1
      <4> QED
        BY <4>2, <4>3
    <3> QED
      BY <2>3, <2>4, <3>3, <3>4
  <2> QED
    BY <1>1, <2>6, <2>7 DEF Inv, DiskInv
<1>2. Inv => PlanAccounts
  BY <1>1 DEF PlanAccounts
<1> QED
  BY <1>2, Invariance, PTL
===============================================================================
