----------------------------- MODULE PrunerProofs -----------------------------
(***************************************************************************)
(* The properties of Pruner, for every lockfile: the walk computes the     *)
(* least self-sufficient set of entries, and pruning to it changes no      *)
(* resolution.                                                             *)
(***************************************************************************)
EXTENDS Pruner, SequenceTheorems, FiniteSetTheorems, WellFoundedInduction, TLAPS

-------------------------------------------------------------------------------
(* Numbers *)

\* The library states well-foundedness of an operator; this is the set the next lemma needs.
LEMMA LessIsWellFounded == IsWellFoundedOn({ss \in Nat \X Nat : ss[1] < ss[2]}, Nat)
<1>1. OpToRel(<, Nat) = {ss \in Nat \X Nat : ss[1] < ss[2]}
  BY DEF OpToRel
<1> QED
  BY <1>1, NatLessThanWellFounded

\* A set of natural numbers that is not empty has a least element.
LEMMA LeastNumber ==
  ASSUME NEW T \in SUBSET Nat, T # {}
  PROVE  \E x \in T : \A y \in T : x <= y
<1> DEFINE R == {ss \in Nat \X Nat : ss[1] < ss[2]}
<1>1. PICK x \in T : \A y \in T : ~(<<y, x>> \in R)
  <2> HIDE DEF R
  <2>1. IsWellFoundedOn(R, Nat)
    BY LessIsWellFounded DEF R
  <2> QED
    BY <2>1, WFMin
<1>2. ASSUME NEW y \in T PROVE x <= y
  <2>1. SUFFICES ASSUME y < x PROVE FALSE
    OBVIOUS
  <2>2. <<y, x>> \in Nat \X Nat /\ <<y, x>>[1] < <<y, x>>[2]
    BY <2>1
  <2>3. <<y, x>> \in R
    BY <2>2, Zenon
  <2> QED
    BY <2>3, <1>1
<1> QED
  BY <1>2

-------------------------------------------------------------------------------

\* SelfSufficient, in the terms of the walk.
Closed(p, S) == Roots(p) \subseteq S /\ \A k \in S : Edges(p, k) \subseteq S
LeastClosed(p, S) == \A T \in SUBSET DOMAIN p : Closed(p, T) => S \subseteq T

IInv ==
  /\ TypeOK
  /\ phase \in {"walking", "found"} =>
       /\ reachable \subseteq DOMAIN packages
       /\ Roots(packages) \subseteq reachable
       /\ \A k \in reachable \ queue : Edges(packages, k) \subseteq reachable
       /\ LeastClosed(packages, reachable)
  /\ phase = "found" => queue = {}
  /\ phase = "idle" => calls = 0
  /\ phase = "returned" \/ calls >= 2 => LeastClosed(packages, DOMAIN packages)

-------------------------------------------------------------------------------
(* The search of visitDependency and Node's resolution agree *)

\* The i-th candidate is a key, nearer than the next by one level.
LEMMA CandidateAt ==
  ASSUME PrunerAssumption, NEW k \in Key, NEW n \in Names,
         NEW i \in DOMAIN ResolutionCandidates(k, n)
  PROVE  LET c == ResolutionCandidates(k, n)[i] IN
         /\ DOMAIN ResolutionCandidates(k, n) \subseteq 1..(Len(k.path) + 2)
         /\ c \in Key
         /\ Depth(k, c) = Len(k.path) + 2 - i
         /\ c = [dir |-> Top, path |-> <<n>>]
              \/ /\ c.dir = k.dir /\ Len(c.path) \in 1..(Len(k.path) + 1)
                 /\ c.path = Append(SubSeq(k.path, 1, Len(c.path) - 1), n)
<1> DEFINE own == Len(k.path)
           c == ResolutionCandidates(k, n)[i]
           Placed == /\ DOMAIN ResolutionCandidates(k, n) \subseteq 1..(own + 2)
                     /\ c \in Key
                     /\ Depth(k, c) = own + 2 - i
                     /\ c = [dir |-> Top, path |-> <<n>>]
                          \/ /\ c.dir = k.dir /\ Len(c.path) \in 1..(own + 1)
                             /\ c.path = Append(SubSeq(k.path, 1, Len(c.path) - 1), n)
<1>1. k.path \in Seq(Names) /\ k.dir \in Dirs /\ Top \in Dirs /\ own \in Nat
  BY PrunerAssumption DEF Key, PrunerAssumption
<1>2. DOMAIN ResolutionCandidates(k, n) = 1..(IF k.dir = Top THEN own + 1 ELSE own + 2)
  BY DEF ResolutionCandidates
<1>3. i \in 1..(own + 2) /\ (i = own + 2 => k.dir # Top)
  BY <1>1, <1>2
<1>4. ASSUME i <= own + 1 PROVE Placed
  <2> DEFINE level == own + 1 - i
  <2>1. c = [dir |-> k.dir, path |-> Append(SubSeq(k.path, 1, level), n)]
    BY <1>2, <1>4 DEF ResolutionCandidates, Installed
  <2>2. level \in 0..own
    BY <1>1, <1>3, <1>4
  <2>3. SubSeq(k.path, 1, level) \in Seq(Names) /\ Len(SubSeq(k.path, 1, level)) = level
    BY <1>1, <2>2
  <2>4. c.path \in Seq(Names) /\ Len(c.path) = level + 1
    BY <2>1, <2>3
  <2>5. c \in Key
    BY <2>1, <2>4, <1>1 DEF Key
  <2>6. Depth(k, c) = own + 2 - i
    BY <2>1, <2>4, <1>1, <1>3 DEF Depth
  <2>7. Len(c.path) - 1 = level
    BY <2>4, <2>2
  <2>8. DOMAIN ResolutionCandidates(k, n) \subseteq 1..(own + 2)
    BY <1>1, <1>2
  <2>9. Len(c.path) \in 1..(own + 1) /\ c.dir = k.dir
    BY <2>1, <2>2, <2>4, <1>1
  <2>10. c.path = Append(SubSeq(k.path, 1, Len(c.path) - 1), n)
    <3> HIDE DEF c, level
    <3>1. c.path = Append(SubSeq(k.path, 1, level), n)
      BY <2>1
    <3> QED
      BY <3>1, <2>7
  <2> QED
    BY <2>5, <2>6, <2>8, <2>9, <2>10
<1>5. ASSUME i = own + 2 PROVE Placed
  <2>1. c = [dir |-> Top, path |-> <<n>>]
    BY <1>1, <1>2, <1>5 DEF ResolutionCandidates
  <2>2. c \in Key
    BY <2>1, <1>1 DEF Key
  <2>3. Depth(k, c) = 0
    BY <2>1, <1>3, <1>5 DEF Depth
  <2> QED
    BY <2>1, <2>2, <2>3, <1>1, <1>2, <1>3, <1>5
<1>6. Placed
  <2> HIDE DEF Placed
  <2> QED
    BY <1>1, <1>3, <1>4, <1>5
<1> QED
  BY <1>6

\* Every visible copy is a candidate.
LEMMA VisibleIsCandidate ==
  ASSUME PrunerAssumption, NEW p, IsPackages(p), NEW k \in Key, NEW n \in Names,
         NEW c \in Visible(p, k, n)
  PROVE  \E i \in DOMAIN ResolutionCandidates(k, n) : ResolutionCandidates(k, n)[i] = c
<1> DEFINE own == Len(k.path)
<1>1. /\ k.path \in Seq(Names) /\ k.dir \in Dirs /\ own \in Nat
      /\ c \in Key /\ c.path \in Seq(Names)
  BY DEF Key, Visible, IsPackages
<1>2. c = [dir |-> c.dir, path |-> c.path]
  BY <1>1 DEF Key
<1>3. DOMAIN ResolutionCandidates(k, n) = 1..(IF k.dir = Top THEN own + 1 ELSE own + 2)
  BY DEF ResolutionCandidates
<1>4. CASE /\ c.dir = k.dir /\ Len(c.path) \in 1..(own + 1)
           /\ c.path = Append(SubSeq(k.path, 1, Len(c.path) - 1), n)
  <2> DEFINE i == own + 2 - Len(c.path)
  <2>0. ASSUME NEW a \in Nat, NEW b \in 1..(a + 1)
        PROVE  a + 2 - b \in 1..(a + 1) /\ a + 1 - (a + 2 - b) = b - 1
    OBVIOUS
  <2>1. i \in 1..(own + 1) /\ own + 1 - i = Len(c.path) - 1
    <3> HIDE DEF own
    <3> QED
      BY <1>1, <1>4, <2>0
  <2> HIDE DEF own, i
  <2>2. i \in DOMAIN ResolutionCandidates(k, n)
    BY <1>1, <1>3, <2>1
  <2> USE DEF own
  <2>3. ResolutionCandidates(k, n)[i] = Installed(k, own + 1 - i, n)
    <3>1. i <= own + 1
      BY <2>1, <1>1
    <3>2. i \in 1..(IF k.dir = Top THEN own + 1 ELSE own + 2)
      BY <2>2, <1>3
    <3> QED
      BY <3>1, <3>2 DEF ResolutionCandidates
  <2>4. Installed(k, own + 1 - i, n) = c
    BY <1>2, <1>4, <2>1 DEF Installed
  <2> QED
    BY <2>2, <2>3, <2>4
<1>5. CASE c = [dir |-> Top, path |-> <<n>>] /\ k.dir # Top
  <2>1. own + 2 \in DOMAIN ResolutionCandidates(k, n)
    BY <1>1, <1>3, <1>5
  <2>2. ResolutionCandidates(k, n)[own + 2] = c
    BY <1>1, <1>3, <1>5, <2>1 DEF ResolutionCandidates
  <2> QED
    BY <2>1, <2>2
<1>6. CASE c = [dir |-> Top, path |-> <<n>>] /\ k.dir = Top
  <2>1. Len(c.path) = 1 /\ SubSeq(k.path, 1, 0) = <<>> /\ Append(<<>>, n) = <<n>>
    BY <1>1, <1>6
  <2>2. c.path = Append(SubSeq(k.path, 1, Len(c.path) - 1), n)
    BY <1>6, <2>1
  <2> QED
    BY <1>1, <1>4, <1>6, <2>1, <2>2
<1> QED
  BY <1>4, <1>5, <1>6 DEF Visible

\* A candidate that is installed is visible.
LEMMA CandidateVisible ==
  ASSUME PrunerAssumption, NEW p, IsPackages(p), NEW k \in Key, NEW n \in Names,
         NEW i \in DOMAIN ResolutionCandidates(k, n),
         ResolutionCandidates(k, n)[i] \in DOMAIN p
  PROVE  ResolutionCandidates(k, n)[i] \in Visible(p, k, n)
BY CandidateAt DEF Visible

\* visitDependency finds what the dependency means.
LEMMA VisitIsResolved ==
  ASSUME PrunerAssumption, NEW p, IsPackages(p), NEW k \in Key, NEW n \in Names
  PROVE  VisitDependency(p, k, n) = Resolved(p, k, n)
<1> DEFINE seen == ResolutionCandidates(k, n)
           Present(j) == j \in DOMAIN seen /\ seen[j] \in DOMAIN p
           own == Len(k.path)
<1>1. own \in Nat /\ DOMAIN seen \subseteq 1..(own + 2)
  <2>1. DOMAIN seen = 1..(IF k.dir = Top THEN own + 1 ELSE own + 2)
    BY DEF ResolutionCandidates
  <2>2. own \in Nat
    BY DEF Key
  <2> QED
    BY <2>1, <2>2
<1>2. \A j : Present(j) => seen[j] \in Visible(p, k, n) /\ Depth(k, seen[j]) = own + 2 - j
  BY CandidateAt, CandidateVisible
<1>3. \A c \in Visible(p, k, n) : c \in DOMAIN p /\ \E j : Present(j) /\ seen[j] = c
  BY VisibleIsCandidate DEF Visible
<1>4. ASSUME NEW c \in VisitDependency(p, k, n) PROVE c \in Resolved(p, k, n)
  <2>1. PICK i \in DOMAIN seen : /\ c = seen[i] /\ seen[i] \in DOMAIN p
                                 /\ \A j \in 1..(i - 1) : seen[j] \notin DOMAIN p
    BY <1>4 DEF VisitDependency
  <2>2. c \in Visible(p, k, n) /\ Depth(k, c) = own + 2 - i
    BY <1>2, <2>1
  <2>3. ASSUME NEW d \in Visible(p, k, n) PROVE Depth(k, d) <= Depth(k, c)
    <3>1. PICK j : Present(j) /\ seen[j] = d
      BY <1>3, <2>3
    <3>2. Depth(k, d) = own + 2 - j
      BY <1>2, <3>1
    <3>3. i \in 1..(own + 2) /\ j \in 1..(own + 2) /\ ~(j \in 1..(i - 1))
      BY <1>1, <2>1, <3>1
    <3> HIDE DEF own
    <3> QED
      BY <1>1, <2>2, <3>2, <3>3
  <2> QED
    BY <2>2, <2>3 DEF Resolved
<1>5. ASSUME NEW c \in Resolved(p, k, n) PROVE c \in VisitDependency(p, k, n)
  <2>1. c \in Visible(p, k, n) /\ \A d \in Visible(p, k, n) : Depth(k, d) <= Depth(k, c)
    BY <1>5 DEF Resolved
  <2>2. PICK i : Present(i) /\ seen[i] = c
    BY <1>3, <2>1
  <2>3. ASSUME NEW j \in 1..(i - 1), seen[j] \in DOMAIN p PROVE FALSE
    <3>1. i \in 1..(own + 2) /\ Depth(k, c) = own + 2 - i
      BY <1>1, <1>2, <2>2
    <3>2. j \in DOMAIN seen
      <4>1. DOMAIN seen = 1..(IF k.dir = Top THEN own + 1 ELSE own + 2)
        BY DEF ResolutionCandidates
      <4> HIDE DEF own, seen
      <4> QED
        BY <1>1, <2>2, <2>3, <4>1
    <3>3. seen[j] \in Visible(p, k, n) /\ Depth(k, seen[j]) = own + 2 - j
      BY <1>2, <2>3, <3>2
    <3>4. own + 2 - j <= own + 2 - i
      BY <2>1, <3>1, <3>3
    <3> HIDE DEF own, seen
    <3> QED
      BY <1>1, <2>3, <3>1, <3>4
  <2> QED
    BY <2>2, <2>3 DEF VisitDependency
<1> QED
  BY <1>4, <1>5

\* What walkEntry visits is the link target and what the dependencies mean.
LEMMA EdgesAreNeeds ==
  ASSUME PrunerAssumption, NEW p, IsPackages(p), NEW k \in DOMAIN p
  PROVE  /\ Edges(p, k) = LinkTarget(p, k) \cup UNION {Resolved(p, k, n) : n \in Needed(p, k)}
         /\ Edges(p, k) \subseteq DOMAIN p
<1>1. Sections(p, k) = Needed(p, k) /\ Needed(p, k) \subseteq Names /\ k \in Key
  <2>1. p[k] \in Entry /\ k \in Key
    BY DEF IsPackages
  <2> QED
    BY <2>1 DEF Sections, Needed, IsRootLike, Entry
<1>2. \A n \in Needed(p, k) : VisitDependency(p, k, n) = Resolved(p, k, n)
  BY <1>1, VisitIsResolved
<1>3. \A n \in Needed(p, k) : Resolved(p, k, n) \subseteq DOMAIN p
  BY DEF Resolved, Visible
<1> QED
  BY <1>1, <1>2, <1>3 DEF Edges, LinkTarget

\* The walk's notion of closure is that of the reference.
LEMMA ClosedIsSelfSufficient ==
  ASSUME PrunerAssumption, NEW p, IsPackages(p), NEW S \in SUBSET DOMAIN p
  PROVE  Closed(p, S) <=> SelfSufficient(p, S)
<1>1. Roots(p) \subseteq S <=> \A k \in DOMAIN p : k.path = <<>> => k \in S
  BY DEF Roots, IsRootLike
<1>2. ASSUME NEW k \in S
      PROVE  Edges(p, k) \subseteq S
               <=> /\ p[k].link \in DOMAIN p => p[k].link \in S
                   /\ \A n \in Needed(p, k) : Resolved(p, k, n) \subseteq S
  BY EdgesAreNeeds, <1>2 DEF LinkTarget
<1> QED
  BY <1>1, <1>2 DEF Closed, SelfSufficient

-------------------------------------------------------------------------------
(* What removing entries does to the others *)

\* p without the entries outside R.
Kept(p, R) == [k \in DOMAIN p \cap R |-> p[k]]

\* A lockfile with entries removed is a lockfile, its other entries unchanged.
LEMMA KeptIsPackages ==
  ASSUME NEW p, IsPackages(p), NEW R
  PROVE  /\ IsPackages(Kept(p, R)) /\ DOMAIN Kept(p, R) = DOMAIN p \cap R
         /\ \A k \in DOMAIN p \cap R : Kept(p, R)[k] = p[k]
BY DEF IsPackages, Kept, Key

\* The same, for entries of the lockfile.
LEMMA KeptSubset ==
  ASSUME NEW p, IsPackages(p), NEW R \in SUBSET DOMAIN p
  PROVE  IsPackages(Kept(p, R)) /\ DOMAIN Kept(p, R) = R /\ \A k \in R : Kept(p, R)[k] = p[k]
<1>1. DOMAIN p \cap R = R
  OBVIOUS
<1>2. /\ IsPackages(Kept(p, R)) /\ DOMAIN Kept(p, R) = DOMAIN p \cap R
      /\ \A k \in DOMAIN p \cap R : Kept(p, R)[k] = p[k]
  BY KeptIsPackages
<1> QED
  BY <1>1, <1>2

\* If a copy is visible, the dependency means one.
LEMMA SomeDeepest ==
  ASSUME NEW p, IsPackages(p), NEW k \in Key, NEW n \in Names, Visible(p, k, n) # {}
  PROVE  Resolved(p, k, n) # {}
<1> DEFINE V == Visible(p, k, n)
           own == Len(k.path)
           above(c) == own + 1 - Depth(k, c)
           T == {above(c) : c \in V}
<1>1. own \in Nat /\ \A c \in V : Depth(k, c) \in 0..(own + 1)
  <2>1. own \in Nat
    BY DEF Key
  <2>2. ASSUME NEW c \in V PROVE Depth(k, c) \in 0..(own + 1)
    <3>1. CASE c = [dir |-> Top, path |-> <<n>>]
      <4>1. Len(c.path) = 1
        BY <3>1
      <4> QED
        BY <2>1, <4>1 DEF Depth
    <3>2. CASE c.dir = k.dir /\ Len(c.path) \in 1..(own + 1)
      BY <2>1, <3>2 DEF Depth
    <3> QED
      BY <2>2, <3>1, <3>2 DEF Visible
  <2> QED
    BY <2>1, <2>2
<1> HIDE DEF V, own
<1>2. \A c \in V : above(c) \in Nat
  BY <1>1
<1>3. T \in SUBSET Nat /\ T # {}
  BY <1>2 DEF V
<1>4. PICK x \in T : \A y \in T : x <= y
  <2> HIDE DEF T
  <2> QED
    BY <1>3, LeastNumber
<1>5. PICK c \in V : x = above(c)
  BY <1>4
<1>6. ASSUME NEW d \in V PROVE Depth(k, d) <= Depth(k, c)
  <2>1. above(c) <= above(d)
    BY <1>4, <1>5
  <2> QED
    BY <1>1, <2>1
<1> QED
  BY <1>5, <1>6 DEF Resolved, V

\* A dependency whose copy stays means the same copy afterwards.
LEMMA KeptResolution ==
  ASSUME NEW p, IsPackages(p), NEW R, NEW k \in Key, NEW n \in Names,
         Resolved(p, k, n) \subseteq R
  PROVE  Resolved(Kept(p, R), k, n) = Resolved(p, k, n)
<1>1. Visible(Kept(p, R), k, n) = Visible(p, k, n) \cap R
  <2>1. DOMAIN Kept(p, R) = DOMAIN p \cap R
    BY KeptIsPackages
  <2> QED
    BY <2>1, Zenon DEF Visible
<1>2. \A c \in Visible(p, k, n) : Depth(k, c) \in Int
  BY DEF Visible, Depth, IsPackages, Key
<1>3. CASE Visible(p, k, n) = {}
  BY <1>1, <1>3 DEF Resolved
<1>4. CASE Visible(p, k, n) # {}
  <2>1. PICK e : e \in Resolved(p, k, n)
    BY <1>4, SomeDeepest
  <2>2. e \in Visible(Kept(p, R), k, n) /\ \A d \in Visible(p, k, n) : Depth(k, d) <= Depth(k, e)
    BY <1>1, <2>1 DEF Resolved
  <2>3. ASSUME NEW c \in Resolved(Kept(p, R), k, n) PROVE c \in Resolved(p, k, n)
    <3>1. c \in Visible(p, k, n) /\ Depth(k, e) <= Depth(k, c)
      BY <1>1, <2>2 DEF Resolved
    <3>2. \A d \in Visible(p, k, n) : Depth(k, d) <= Depth(k, c)
      BY <1>1, <1>2, <2>2, <3>1
    <3> QED
      BY <3>1, <3>2 DEF Resolved
  <2>4. ASSUME NEW c \in Resolved(p, k, n) PROVE c \in Resolved(Kept(p, R), k, n)
    BY <1>1, <2>4 DEF Resolved
  <2> QED
    BY <2>3, <2>4
<1> QED
  BY <1>3, <1>4

\* Pruning to a closed set leaves its edges as they are.
LEMMA KeptEdges ==
  ASSUME PrunerAssumption, NEW p, IsPackages(p), NEW R \in SUBSET DOMAIN p, Closed(p, R)
  PROVE  /\ Roots(Kept(p, R)) = Roots(p)
         /\ \A k \in R : Edges(Kept(p, R), k) = Edges(p, k)
<1> DEFINE q == Kept(p, R)
<1>1. IsPackages(q) /\ DOMAIN q = R /\ \A k \in R : q[k] = p[k]
  BY KeptSubset
<1>2. Roots(q) = Roots(p)
  BY <1>1 DEF Roots, Closed
<1>3. ASSUME NEW k \in R PROVE Edges(q, k) = Edges(p, k)
  <2>1. k \in Key /\ Needed(p, k) \subseteq Names /\ Needed(q, k) = Needed(p, k)
    BY <1>1, <1>3 DEF IsPackages, Entry, Needed
  <2>2. /\ Edges(p, k) = LinkTarget(p, k) \cup UNION {Resolved(p, k, n) : n \in Needed(p, k)}
        /\ Edges(q, k) = LinkTarget(q, k) \cup UNION {Resolved(q, k, n) : n \in Needed(q, k)}
    BY <1>1, <1>3, EdgesAreNeeds
  <2>3. Edges(p, k) \subseteq R
    BY <1>3 DEF Closed
  <2>4. LinkTarget(q, k) = LinkTarget(p, k)
    BY <1>1, <1>3, <2>2, <2>3 DEF LinkTarget
  <2>5. ASSUME NEW n \in Needed(p, k) PROVE Resolved(q, k, n) = Resolved(p, k, n)
    BY <2>1, <2>2, <2>3, KeptResolution
  <2> QED
    BY <2>1, <2>2, <2>4, <2>5
<1> QED
  BY <1>2, <1>3

\* What encloses an entry of the least closed set is in it: the walk comes to a
\* nested package through the package around it.
LEMMA HostsAreReached ==
  ASSUME PrunerAssumption, NEW p, IsPackages(p), NEW R \in SUBSET DOMAIN p,
         Closed(p, R), LeastClosed(p, R),
         NEW k \in R, NEW h \in DOMAIN p, Encloses(h, k)
  PROVE  h \in R
<1> DEFINE T == {j \in R : \A g \in DOMAIN p : Encloses(g, j) => g \in R}
<1>1. Roots(p) \subseteq T
  <2>1. ASSUME NEW j \in Roots(p), NEW g \in DOMAIN p, Encloses(g, j) PROVE FALSE
    <3>1. j.path = <<>> /\ Len(g.path) < Len(j.path) /\ g.path \in Seq(Names)
      BY <2>1 DEF Roots, IsRootLike, Encloses, IsPackages, Key
    <3> QED
      BY <3>1
  <2> QED
    BY <2>1 DEF Closed
<1>2. ASSUME NEW j \in T, NEW c \in Edges(p, j), NEW g \in DOMAIN p, Encloses(g, c)
      PROVE  g \in R
  <2>1. j \in Key /\ g \in Key /\ c \in Key /\ p[j] \in Entry
    BY <1>2, EdgesAreNeeds DEF IsPackages
  <2>2. /\ j.path \in Seq(Names) /\ g.path \in Seq(Names) /\ c.path \in Seq(Names)
        /\ j = [dir |-> j.dir, path |-> j.path] /\ g = [dir |-> g.dir, path |-> g.path]
    BY <2>1 DEF Key
  <2>3. /\ g.dir = c.dir /\ Len(g.path) < Len(c.path)
        /\ g.path = SubSeq(c.path, 1, Len(g.path))
    BY <1>2 DEF Encloses
  <2>4. CASE c \in LinkTarget(p, j)
    <3>1. c.path = <<>>
      BY <2>1, <2>4, PrunerAssumption DEF LinkTarget, Entry, Link, IsPackages, PrunerAssumption
    <3> QED
      BY <2>2, <2>3, <3>1
  <2>5. CASE \E n \in Needed(p, j) : c = [dir |-> Top, path |-> <<n>>]
    <3>1. Len(c.path) = 1 /\ c.dir = Top
      BY <2>5
    <3>2. g.path = <<>>
      BY <2>2, <2>3, <3>1
    <3>3. g \in Roots(p)
      BY <3>2 DEF Roots, IsRootLike
    <3> QED
      BY <3>3 DEF Closed
  <2>6. ASSUME NEW n \in Names, c.dir = j.dir, Len(c.path) \in 1..(Len(j.path) + 1),
               c.path = Append(SubSeq(j.path, 1, Len(c.path) - 1), n)
        PROVE  g \in R
    <3> DEFINE l == Len(c.path) - 1
               m == Len(g.path)
    <3>1. l \in 0..Len(j.path) /\ m \in 0..l /\ Len(j.path) \in Nat
      BY <2>2, <2>3, <2>6
    <3>2. g.path = SubSeq(j.path, 1, m)
      <4>1. c.path = Append(SubSeq(j.path, 1, l), n)
        BY <2>6
      <4>2. g.path = SubSeq(c.path, 1, m)
        BY <2>3
      <4> HIDE DEF l, m
      <4>3. SubSeq(j.path, 1, l) \in Seq(Names) /\ Len(SubSeq(j.path, 1, l)) = l
        BY <2>2, <3>1
      <4>4. SubSeq(Append(SubSeq(j.path, 1, l), n), 1, m) = SubSeq(j.path, 1, m)
        BY <2>2, <3>1, <4>3
      <4> QED
        BY <4>1, <4>2, <4>4
    <3>3. CASE m < Len(j.path)
      <4>1. Encloses(g, j)
        BY <2>3, <2>6, <3>2, <3>3 DEF Encloses
      <4> QED
        BY <1>2, <4>1
    <3>4. CASE m = Len(j.path)
      <4>1. SubSeq(j.path, 1, Len(j.path)) = j.path
        BY <2>2
      <4>2. g = j
        BY <2>2, <2>3, <2>6, <3>2, <3>4, <4>1
      <4> QED
        BY <1>2, <4>2
    <3> QED
      BY <3>1, <3>3, <3>4
  <2>7. c \in LinkTarget(p, j) \/ \E n \in Needed(p, j) : c \in Visible(p, j, n)
    BY <1>2, EdgesAreNeeds DEF Resolved
  <2>8. Needed(p, j) \subseteq Names
    BY <2>1 DEF Needed, Entry
  <2> QED
    BY <2>4, <2>5, <2>6, <2>7, <2>8 DEF Visible
<1>3. ASSUME NEW j \in T PROVE Edges(p, j) \subseteq T
  BY <1>2, <1>3 DEF Closed
<1>4. Closed(p, T)
  BY <1>1, <1>3 DEF Closed
<1> QED
  BY <1>4 DEF LeastClosed

-------------------------------------------------------------------------------
(* The invariant *)

\* No prune has begun: nothing to show but types.
LEMMA IInvInit == Init => IInv
BY PrunerAssumption DEF Init, IInv, TypeOK, PrunerAssumption

\* The walk starts from the roots, which every closed set has.
LEMMA BeginStep == IInv /\ Begin => IInv'
<1> SUFFICES ASSUME IInv, Begin PROVE IInv'
  OBVIOUS
<1>1. /\ reachable' = Roots(packages) /\ queue' = Roots(packages) /\ phase' = "walking"
      /\ packages' = packages /\ calls' = calls + 1 /\ calls < MaxCalls
      /\ phase \in {"idle", "returned"}
  BY DEF Begin
<1>2. /\ IsPackages(packages) /\ calls \in 0..MaxCalls /\ MaxCalls \in Nat
      /\ phase = "idle" => calls = 0
      /\ phase = "returned" => LeastClosed(packages, DOMAIN packages)
  BY PrunerAssumption DEF IInv, TypeOK, PrunerAssumption
<1>3. Roots(packages) \subseteq DOMAIN packages /\ DOMAIN packages \subseteq Key
  BY <1>2 DEF Roots, IsPackages
<1>4. TypeOK'
  BY <1>1, <1>2, <1>3 DEF TypeOK
<1>5. LeastClosed(packages', reachable')
  BY <1>1 DEF LeastClosed, Closed
<1>6. calls' >= 2 => LeastClosed(packages', DOMAIN packages')
  BY <1>1, <1>2
<1> QED
  BY <1>1, <1>3, <1>4, <1>5, <1>6 DEF IInv

\* Walking an entry adds only what every closed set with that entry has.
LEMMA WalkEntryStep == ASSUME IInv, NEW k \in queue, WalkEntry(k) PROVE IInv'
<1>1. /\ reachable' = reachable \cup Fresh(k) /\ queue' = (queue \ {k}) \cup Fresh(k)
      /\ phase = "walking" /\ phase' = phase /\ packages' = packages /\ calls' = calls
  BY DEF WalkEntry
<1>2. /\ TypeOK /\ IsPackages(packages)
      /\ reachable \subseteq DOMAIN packages /\ Roots(packages) \subseteq reachable
      /\ \A j \in reachable \ queue : Edges(packages, j) \subseteq reachable
      /\ LeastClosed(packages, reachable)
      /\ calls >= 2 => LeastClosed(packages, DOMAIN packages)
  BY <1>1 DEF IInv, TypeOK
<1>3. k \in reachable /\ Edges(packages, k) \subseteq DOMAIN packages
  BY <1>2, EdgesAreNeeds, PrunerAssumption DEF TypeOK
<1>4. reachable' \subseteq DOMAIN packages /\ Edges(packages, k) \subseteq reachable'
  BY <1>1, <1>2, <1>3 DEF Fresh
<1>5. TypeOK'
  BY <1>1, <1>2, <1>4 DEF TypeOK, IsPackages
<1>6. ASSUME NEW j \in reachable' \ queue' PROVE Edges(packages, j) \subseteq reachable'
  <2>1. j \in reachable /\ (j = k \/ j \notin queue)
    BY <1>1, <1>6
  <2> QED
    BY <1>1, <1>2, <1>4, <2>1
<1>7. LeastClosed(packages, reachable')
  BY <1>1, <1>2, <1>3 DEF LeastClosed, Closed, Fresh
<1> QED
  BY <1>1, <1>2, <1>4, <1>5, <1>6, <1>7 DEF IInv

\* The walk ends with an empty queue.
LEMMA FoundStep == IInv /\ Found => IInv'
BY DEF IInv, TypeOK, Found

\* What the walk has found when its queue is empty.
LEMMA WalkDone ==
  IInv /\ phase = "found" => /\ reachable \in SUBSET DOMAIN packages
                             /\ Closed(packages, reachable) /\ LeastClosed(packages, reachable)
BY DEF IInv, Closed

\* A set closed in the pruned lockfile was closed before, so it is all of it.
LEMMA PruneStep == IInv /\ Prune => IInv'
<1> SUFFICES ASSUME IInv, Prune PROVE IInv'
  OBVIOUS
<1>1. /\ phase = "found" /\ packages' = Kept(packages, reachable) /\ phase' = "returned"
      /\ UNCHANGED <<reachable, queue, calls>>
  BY DEF Prune, Kept
<1>2. /\ reachable \in SUBSET DOMAIN packages /\ IsPackages(packages)
      /\ Closed(packages, reachable) /\ LeastClosed(packages, reachable)
  BY <1>1, WalkDone DEF IInv, TypeOK
<1>3. IsPackages(packages') /\ DOMAIN packages' = reachable
  BY <1>1, <1>2, KeptSubset
<1>4. TypeOK'
  BY <1>1, <1>3 DEF IInv, TypeOK
<1>5. ASSUME NEW T \in SUBSET reachable, Closed(packages', T) PROVE reachable \subseteq T
  <2>1. Closed(packages, T)
    BY <1>1, <1>2, <1>5, KeptEdges, PrunerAssumption DEF Closed
  <2> QED
    BY <1>2, <2>1 DEF LeastClosed
<1>6. LeastClosed(packages', DOMAIN packages')
  BY <1>3, <1>5 DEF LeastClosed
<1> QED
  BY <1>1, <1>4, <1>6 DEF IInv

\* Every step preserves the invariant.
LEMMA IInvNext == IInv /\ [Next]_vars => IInv'
<1> SUFFICES ASSUME IInv, [Next]_vars PROVE IInv'
  OBVIOUS
<1>1. CASE Refuse
  BY <1>1 DEF Refuse, IInv, TypeOK
<1>2. CASE Begin
  BY <1>2, BeginStep
<1>3. CASE \E k \in queue : WalkEntry(k)
  BY <1>3, WalkEntryStep
<1>4. CASE Found
  BY <1>4, FoundStep
<1>5. CASE Prune
  BY <1>5, PruneStep
<1>6. CASE UNCHANGED vars
  BY <1>6 DEF vars, IInv, TypeOK, LeastClosed, Closed, Roots, Edges
<1> QED
  BY <1>1, <1>2, <1>3, <1>4, <1>5, <1>6 DEF Next

\* The inductive invariant holds throughout, for every lockfile.
THEOREM Invariance == Spec => []IInv
<1> QED
  BY IInvInit, IInvNext, PTL DEF Spec

-------------------------------------------------------------------------------
(* The properties *)

\* Every step that changes the lockfile prunes it to the least closed set.
LEMMA OnlyPrunes ==
  ASSUME IInv, [Next]_vars, packages' # packages
  PROVE  /\ phase = "found" /\ packages' = Kept(packages, reachable)
         /\ reachable \in SUBSET DOMAIN packages /\ IsPackages(packages)
         /\ Closed(packages, reachable) /\ LeastClosed(packages, reachable)
<1>1. Prune
  BY DEF Next, Refuse, Begin, WalkEntry, Found, vars
<1> QED
  BY <1>1, WalkDone DEF Prune, Kept, IInv, TypeOK

\* The variables keep their types.
THEOREM TypeCorrect == Spec => []TypeOK
<1>1. IInv => TypeOK
  BY DEF IInv
<1> QED
  BY Invariance, <1>1, PTL

\* findOrphanedPackages keeps exactly what is needed: the least self-sufficient
\* set of entries under Node's resolution.
THEOREM KeepsExactlyNeededHolds == Spec => []KeepsExactlyNeeded
<1>1. IInv => KeepsExactlyNeeded
  <2> SUFFICES ASSUME IInv, phase = "found"
               PROVE  /\ SelfSufficient(packages, reachable)
                      /\ \A S \in SUBSET DOMAIN packages :
                           SelfSufficient(packages, S) => reachable \subseteq S
    BY DEF KeepsExactlyNeeded
  <2>1. IsPackages(packages)
    BY DEF IInv, TypeOK
  <2> QED
    BY WalkDone, <2>1, ClosedIsSelfSufficient, PrunerAssumption DEF LeastClosed
<1> QED
  BY Invariance, <1>1, PTL

\* Pruning changes no resolution of what stays.
THEOREM SameResolutionHolds == Spec => SameResolution
<1>1. ASSUME IInv, [Next]_vars, packages' # packages,
             NEW k \in DOMAIN packages', NEW n \in Needed(packages, k)
      PROVE  Resolved(packages', k, n) = Resolved(packages, k, n)
  <2>1. /\ packages' = Kept(packages, reachable) /\ reachable \in SUBSET DOMAIN packages
        /\ IsPackages(packages) /\ Closed(packages, reachable)
    BY <1>1, OnlyPrunes
  <2>2. k \in reachable /\ k \in DOMAIN packages
    BY <2>1, KeptSubset
  <2>3. k \in Key /\ n \in Names
    BY <2>1, <2>2 DEF IsPackages, Entry, Needed
  <2>4. Resolved(packages, k, n) \subseteq reachable
    BY <2>1, <2>2, EdgesAreNeeds, PrunerAssumption DEF Closed
  <2> QED
    BY <2>1, <2>3, <2>4, KeptResolution
<1>2. IInv /\ [Next]_vars
        => [\A k \in DOMAIN packages' : \A n \in Needed(packages, k) :
              Resolved(packages', k, n) = Resolved(packages, k, n)]_packages
  BY <1>1
<1> QED
  BY Invariance, <1>2, PTL DEF Spec, SameResolution

\* No entry stays whose enclosing package was removed.
THEOREM HostsStayHolds == Spec => HostsStay
<1>1. ASSUME IInv, [Next]_vars, packages' # packages,
             NEW k \in DOMAIN packages', NEW h \in DOMAIN packages, Encloses(h, k)
      PROVE  h \in DOMAIN packages'
  <2>1. /\ packages' = Kept(packages, reachable) /\ reachable \in SUBSET DOMAIN packages
        /\ IsPackages(packages) /\ Closed(packages, reachable)
        /\ LeastClosed(packages, reachable)
    BY <1>1, OnlyPrunes
  <2>2. DOMAIN packages' = reachable
    BY <2>1, KeptIsPackages
  <2> QED
    BY <1>1, <2>1, <2>2, HostsAreReached, PrunerAssumption
<1>2. IInv /\ [Next]_vars
        => [\A k \in DOMAIN packages' : \A h \in DOMAIN packages :
              Encloses(h, k) => h \in DOMAIN packages']_packages
  BY <1>1
<1> QED
  BY Invariance, <1>2, PTL DEF Spec, HostsStay

\* A second prune changes nothing.
THEOREM PruneOnceHolds == Spec => PruneOnce
<1>1. ASSUME IInv, [Next]_vars, packages' # packages, calls >= 2 PROVE FALSE
  <2>1. /\ packages' = Kept(packages, reachable) /\ reachable \in SUBSET DOMAIN packages
        /\ IsPackages(packages) /\ Closed(packages, reachable)
    BY <1>1, OnlyPrunes
  <2>2. DOMAIN packages \subseteq reachable
    BY <1>1, <2>1 DEF IInv, LeastClosed
  <2>3. packages' = packages
    BY <2>1, <2>2 DEF Kept, IsPackages
  <2> QED
    BY <1>1, <2>3
<1>2. IInv /\ [Next]_vars => [calls >= 2 => UNCHANGED packages]_packages
  BY <1>1
<1> QED
  BY Invariance, <1>2, PTL DEF Spec, PruneOnce
===============================================================================
