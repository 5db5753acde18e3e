------------------------------ MODULE FactsProofs ------------------------------
(***************************************************************************)
(* The safety properties of Facts, for every tree of the shape that        *)
(* TreesAssumption states: what the walk loads was read or is told, the    *)
(* uses of what was read are credited, and the record of a package is what *)
(* all entries of all lockfiles say of it. The recursive definitions of    *)
(* the model, closures and folds, are functions on an interval of numbers; *)
(* what they are at its end is shown step by step, by Upward.              *)
(***************************************************************************)
EXTENDS Facts, FunctionTheorems, FiniteSetTheorems, WellFoundedInduction, TLAPS

-------------------------------------------------------------------------------
(* Numbers, and functions defined by recursion *)

\* The library states well-foundedness of an operator; this is the set the next lemma needs.
LEMMA LessIsWellFounded == IsWellFoundedOn({ss \in Nat \X Nat : ss[1] < ss[2]}, Nat)
<1>1. OpToRel(<, Nat) = {ss \in Nat \X Nat : ss[1] < ss[2]}
  BY DEF OpToRel
<1> QED
  BY <1>1, NatLessThanWellFounded

\* A set of natural numbers that is not empty has a least element.
LEMMA LeastNumber ==
  ASSUME NEW T \in SUBSET Nat, T # {}
  PROVE  \E x \in T : \A y \in T : x <= y
<1> DEFINE R == {ss \in Nat \X Nat : ss[1] < ss[2]}
<1>1. PICK x \in T : \A y \in T : ~(<<y, x>> \in R)
  <2> HIDE DEF R
  <2>1. IsWellFoundedOn(R, Nat)
    BY LessIsWellFounded DEF R
  <2> QED
    BY <2>1, WFMin
<1>2. ASSUME NEW y \in T PROVE x <= y
  <2>1. SUFFICES ASSUME y < x PROVE FALSE
    OBVIOUS
  <2>2. <<y, x>> \in Nat \X Nat /\ <<y, x>>[1] < <<y, x>>[2]
    BY <2>1
  <2>3. <<y, x>> \in R
    BY <2>2, Zenon
  <2> QED
    BY <2>3, <1>1
<1> QED
  BY <1>2

\* One of numbers up to a bound that is not empty has a greatest element.
LEMMA GreatestNumber ==
  ASSUME NEW n \in Nat, NEW T \in SUBSET (0..n), T # {}
  PROVE  \E x \in T : \A y \in T : y <= x
<1> DEFINE D == {d \in Nat : n - d \in T}
<1>1. PICK t : t \in T
  OBVIOUS
<1>2. n - t \in D
  BY <1>1
<1>3. PICK d \in D : \A e \in D : d <= e
  BY <1>2, LeastNumber
<1>4. ASSUME NEW y \in T PROVE y <= n - d
  <2>1. n - y \in D
    OBVIOUS
  <2> QED
    BY <2>1, <1>3
<1> QED
  BY <1>3, <1>4

\* The least of some numbers is one of them.
LEMMA MinMember ==
  ASSUME NEW S \in SUBSET Nat, S # {}
  PROVE  Min(S) \in S /\ \A y \in S : Min(S) <= y
BY LeastNumber DEF Min

\* What holds of 0, and of a number if of the one before, holds up to n.
LEMMA Upward ==
  ASSUME NEW n \in Nat, NEW G \in SUBSET (0..n), 0 \in G,
         \A k \in 0..n : k \in G /\ k < n => k + 1 \in G
  PROVE  G = 0..n
<1> DEFINE T == (0..n) \ G
<1>1. SUFFICES ASSUME T # {} PROVE FALSE
  OBVIOUS
<1>2. PICK x \in T : \A y \in T : x <= y
  <2>1. T \in SUBSET Nat
    OBVIOUS
  <2> HIDE DEF T
  <2> QED
    BY <1>1, <2>1, LeastNumber
<1>3. x \in 1..n /\ x - 1 \in 0..n
  OBVIOUS
<1>4. x - 1 \in G
  BY <1>2, <1>3
<1> QED
  BY <1>3, <1>4

\* A function whose value at a number is made of that at a smaller one exists.
Solves(f, n, base, prev, step) == f[0] = base /\ \A i \in 1..n : f[i] = step[<<i, f[prev[i]]>>]

\* A function whose value at a number is a step from that at a smaller one exists.
LEMMA Recursion ==
  ASSUME NEW n \in Nat, NEW R, NEW base \in R,
         NEW prev \in [1..n -> Nat], \A i \in 1..n : prev[i] < i,
         NEW step \in [(1..n) \X R -> R]
  PROVE  \E f \in [0..n -> R] : Solves(f, n, base, prev, step)
<1> DEFINE Is(k, f) == f[0] = base /\ \A i \in 1..k : f[i] = step[<<i, f[prev[i]]>>]
           G == {k \in 0..n : \E f \in [0..k -> R] : Is(k, f)}
<1>1. 0 \in G
  <2>1. [i \in 0..0 |-> base] \in [0..0 -> R] /\ Is(0, [i \in 0..0 |-> base])
    OBVIOUS
  <2> HIDE DEF Is
  <2> QED
    BY <2>1
<1>2. ASSUME NEW k \in 0..n, k \in G, k < n PROVE k + 1 \in G
  <2>1. PICK f \in [0..k -> R] : Is(k, f)
    BY <1>2
  <2> DEFINE last == step[<<k + 1, f[prev[k + 1]]>>]
             g == [i \in 0..(k + 1) |-> IF i = k + 1 THEN last ELSE f[i]]
  <2>2. prev[k + 1] \in 0..k /\ k + 1 \in 1..n
    BY <1>2
  <2>3. last \in R
    BY <2>2
  <2>4. g \in [0..(k + 1) -> R]
    BY <2>3
  <2>5. \A i \in 0..k : g[i] = f[i]
    OBVIOUS
  <2>6. g[k + 1] = last
    OBVIOUS
  <2> HIDE DEF g
  <2>7. \A i \in 1..k : prev[i] \in 0..k
    BY <1>2
  <2>8. Is(k + 1, g)
    <3>1. g[0] = base
      BY <2>1, <2>5
    <3>2. ASSUME NEW i \in 1..(k + 1) PROVE g[i] = step[<<i, g[prev[i]]>>]
      <4>1. CASE i = k + 1
        BY <4>1, <2>2, <2>5, <2>6
      <4>2. CASE i # k + 1
        BY <4>2, <2>1, <2>5, <2>7
      <4> QED
        BY <4>1, <4>2
    <3> QED
      BY <3>1, <3>2
  <2>9. k + 1 \in 0..n
    BY <1>2
  <2> HIDE DEF Is
  <2> QED
    BY <2>4, <2>8, <2>9
<1> HIDE DEF G
<1>3. n \in G
  <2>1. G \subseteq 0..n
    BY DEF G
  <2>2. G = 0..n
    BY <2>1, <1>1, <1>2, Upward
  <2> QED
    BY <2>2
<1> QED
  BY <1>3 DEF G, Solves
-------------------------------------------------------------------------------
(* What an import resolves to *)

\* A file that is resolved to is there, and in the package it is said to be in.
Sound(t, r) == r.kind \in {"file", "asset"} => r.path \in DOMAIN t.files /\ r.pkg = PackageOf(t, r.path.at)

\* The first alternative that is not None is one of them.
LEMMA FirstOfGives ==
  ASSUME NEW alternatives, DOMAIN alternatives \subseteq Nat, FirstOf(alternatives) # None
  PROVE  \E i \in DOMAIN alternatives : FirstOf(alternatives) = alternatives[i]
<1> DEFINE some == {i \in DOMAIN alternatives : alternatives[i] # None}
<1>1. some \in SUBSET Nat /\ some # {} /\ FirstOf(alternatives) = alternatives[Min(some)]
  BY DEF FirstOf
<1>2. Min(some) \in some
  <2> HIDE DEF some
  <2> QED
    BY <1>1, MinMember
<1> QED
  BY <1>1, <1>2

\* An import that is not resolved claims no file.
LEMMA UnresolvedSound ==
  ASSUME NEW t
  PROVE  Sound(t, Unresolved)
BY DEF Sound, Unresolved

\* The first of sound alternatives is sound.
LEMMA FirstOfSound ==
  ASSUME NEW t, NEW all, DOMAIN all \subseteq Nat,
         \A i \in DOMAIN all : all[i] # None => Sound(t, all[i]),
         \E i \in DOMAIN all : all[i] = Unresolved
  PROVE  Sound(t, FirstOf(all))
<1>1. CASE FirstOf(all) # None
  BY <1>1, FirstOfGives
<1>2. CASE FirstOf(all) = None /\ \A i \in DOMAIN all : all[i] = None
  <2>1. Unresolved = None
    BY <1>2
  <2> QED
    BY <1>2, <2>1, UnresolvedSound
<1>3. CASE FirstOf(all) = None /\ \E i \in DOMAIN all : all[i] # None
  <2> DEFINE some == {i \in DOMAIN all : all[i] # None}
  <2>1. some \in SUBSET Nat /\ some # {} /\ FirstOf(all) = all[Min(some)]
    BY <1>3 DEF FirstOf
  <2>2. Min(some) \in some
    <3> HIDE DEF some
    <3> QED
      BY <2>1, MinMember
  <2> QED
    BY <1>3, <2>1, <2>2
<1> QED
  BY <1>1, <1>2, <1>3

\* The first candidate that is a file is one of the tree.
LEMMA FirstFileSound ==
  ASSUME NEW t, NEW candidates, DOMAIN candidates \subseteq Nat, FirstFile(t, candidates) # None
  PROVE  Sound(t, FirstFile(t, candidates))
<1> DEFINE there == {i \in DOMAIN candidates : IsFile(t, candidates[i])}
<1>1. /\ there \in SUBSET Nat /\ there # {}
      /\ FirstFile(t, candidates) = FileResolution(t, candidates[Min(there)])
  BY DEF FirstFile
<1>2. Min(there) \in there
  <2> HIDE DEF there
  <2> QED
    BY <1>1, MinMember
<1>3. ASSUME NEW p, IsFile(t, p)
      PROVE  Sound(t, FileResolution(t, p))
  <2>1. CASE TypesOnly(p)
    BY <2>1, UnresolvedSound DEF FileResolution
  <2>2. CASE ~TypesOnly(p)
    <3>1. /\ FileResolution(t, p).path = RealFile(t, p)
          /\ FileResolution(t, p).pkg = PackageOf(t, RealFile(t, p).at)
      BY <2>2 DEF FileResolution
    <3> QED
      BY <1>3, <3>1 DEF Sound, IsFile
  <2> QED
    BY <2>1, <2>2
<1> QED
  BY <1>1, <1>2, <1>3

\* A path with an extension put to it, or with one written in TypeScript for one of JavaScript, is a file of the tree.
LEMMA LoadAsFileSound ==
  ASSUME NEW t, NEW p, LoadAsFile(t, p) # None
  PROVE  Sound(t, LoadAsFile(t, p))
<1> DEFINE added(e) == [p EXCEPT !.exts = Append(@, e)]
           written == IF p.exts = <<>> \/ Last(p.exts) \notin DOMAIN TsForJs THEN <<>>
                      ELSE LET ts == TsForJs[Last(p.exts)] IN
                           [i \in DOMAIN ts |-> [p EXCEPT !.exts = Append(Front(@), ts[i])]]
           code == [i \in DOMAIN CodeExts |-> added(CodeExts[i])]
           candidates == <<p>> \o written \o code \o <<added("json")>>
<1>2. DOMAIN code = 1..9
  BY DEF CodeExts
<1> DEFINE S == {p, added("json")} \cup {written[i] : i \in DOMAIN written} \cup {code[i] : i \in DOMAIN code}
<1>3. <<p>> \in Seq(S) /\ <<added("json")>> \in Seq(S)
  OBVIOUS
<1>4. code \in Seq(S)
  <2>1. \A i \in 1..9 : code[i] \in S
    BY <1>2
  <2>2. code = [i \in 1..9 |-> code[i]]
    BY <1>2
  <2> HIDE DEF code, S
  <2>3. code \in [1..9 -> S]
    BY <2>1, <2>2
  <2>4. \A n \in Nat : [1..n -> S] \subseteq Seq(S)
    BY ONLY TRUE
  <2> QED
    BY <2>3, <2>4
<1>5. written \in Seq(S)
  <2>1. CASE p.exts = <<>> \/ Last(p.exts) \notin DOMAIN TsForJs
    <3>1. written = <<>>
      BY <2>1
    <3> QED
      BY <3>1
  <2>2. CASE ~(p.exts = <<>> \/ Last(p.exts) \notin DOMAIN TsForJs)
    <3> DEFINE ts == TsForJs[Last(p.exts)]
               names == [i \in DOMAIN ts |-> [p EXCEPT !.exts = Append(Front(@), ts[i])]]
    <3>1. PICK n \in {1, 2} : DOMAIN ts = 1..n
      BY <2>2 DEF TsForJs
    <3>2. written = names
      BY <2>2
    <3>3. DOMAIN names = 1..n /\ names = [i \in 1..n |-> names[i]]
      <4> HIDE DEF ts
      <4> QED
        BY <3>1
    <3> HIDE DEF names, written
    <3>4. \A i \in 1..n : names[i] \in S
      BY <3>2, <3>3
    <3>5. names \in [1..n -> S]
      <4> HIDE DEF S
      <4> QED
        BY <3>3, <3>4
    <3> HIDE DEF S
    <3> QED
      BY <3>1, <3>2, <3>5
  <2> QED
    BY <2>1, <2>2
<1> HIDE DEF written, code, S, added
<1>6. candidates \in Seq(S)
  BY <1>3, <1>4, <1>5
<1>7. LoadAsFile(t, p) = FirstFile(t, candidates)
  BY DEF LoadAsFile, written, code, added
<1>8. DOMAIN candidates \subseteq Nat
  <2> HIDE DEF candidates
  <2> QED
    BY <1>6
<1> HIDE DEF candidates
<1> QED
  BY <1>7, <1>8, FirstFileSound

\* So is the index of a directory,
LEMMA LoadAsIndexSound ==
  ASSUME NEW t, NEW p, LoadAsIndex(t, p) # None
  PROVE  Sound(t, LoadAsIndex(t, p))
<1> DEFINE candidates == [i \in DOMAIN CodeExts |-> [at |-> Append(p.at, "index"), exts |-> <<CodeExts[i]>>]]
<1>1. DOMAIN candidates \subseteq Nat
  BY DEF CodeExts
<1>2. LoadAsIndex(t, p) = FirstFile(t, candidates)
  BY DEF LoadAsIndex
<1> HIDE DEF candidates
<1> QED
  BY <1>1, <1>2, FirstFileSound

\* the entry its manifest names,
LEMMA LoadAsDirectorySound ==
  ASSUME NEW t, NEW p, LoadAsDirectory(t, p) # None
  PROVE  Sound(t, LoadAsDirectory(t, p))
<1> DEFINE manifest == Manifest(t, p.at)
           target(field) == [manifest[field] EXCEPT !.at = p.at \o @]
           Entry(field) ==
             IF manifest = None \/ manifest[field] = None THEN None
             ELSE FirstOf(<<LoadAsFile(t, target(field)), LoadAsIndex(t, target(field))>>)
           all == <<Entry("main"), Entry("module"), LoadAsIndex(t, p)>>
<1>1. LoadAsDirectory(t, p) = FirstOf(all)
  BY DEF LoadAsDirectory
<1>2. ASSUME NEW field, Entry(field) # None
      PROVE  Sound(t, Entry(field))
  <2> DEFINE f == LoadAsFile(t, target(field))
             x == LoadAsIndex(t, target(field))
  <2>1. Entry(field) = FirstOf(<<f, x>>)
    BY <1>2
  <2>2. f # None => Sound(t, f)
    BY LoadAsFileSound
  <2>3. x # None => Sound(t, x)
    BY LoadAsIndexSound
  <2> HIDE DEF f, x, Entry
  <2>4. DOMAIN <<f, x>> = {1, 2} /\ <<f, x>>[1] = f /\ <<f, x>>[2] = x
    OBVIOUS
  <2>5. \E i \in DOMAIN <<f, x>> : FirstOf(<<f, x>>) = <<f, x>>[i]
    BY <1>2, <2>1, <2>4, FirstOfGives
  <2> QED
    BY <1>2, <2>1, <2>2, <2>3, <2>4, <2>5
<1>3. LoadAsIndex(t, p) # None => Sound(t, LoadAsIndex(t, p))
  BY LoadAsIndexSound
<1> HIDE DEF Entry
<1>4. DOMAIN all = {1, 2, 3} /\ all[1] = Entry("main") /\ all[2] = Entry("module") /\ all[3] = LoadAsIndex(t, p)
  OBVIOUS
<1> HIDE DEF all
<1>5. \E i \in DOMAIN all : FirstOf(all) = all[i]
  BY <1>1, <1>4, FirstOfGives
<1> QED
  BY <1>1, <1>2, <1>3, <1>4, <1>5

\* what a path loads,
LEMMA LoadSound ==
  ASSUME NEW t, NEW p
  PROVE  Sound(t, Load(t, p))
<1> DEFINE f == LoadAsFile(t, p)
           d == LoadAsDirectory(t, p)
           all == <<f, d, Unresolved>>
<1>1. (f # None => Sound(t, f)) /\ (d # None => Sound(t, d)) /\ Sound(t, Unresolved)
  BY LoadAsFileSound, LoadAsDirectorySound, UnresolvedSound
<1>2. Load(t, p) = FirstOf(all)
  BY DEF Load
<1> HIDE DEF f, d
<1>3. DOMAIN all = {1, 2, 3} /\ all[1] = f /\ all[2] = d /\ all[3] = Unresolved
  OBVIOUS
<1> HIDE DEF all
<1> QED
  BY <1>1, <1>2, <1>3, FirstOfSound

\* what the exports of a package give,
LEMMA ResolvePackageSound ==
  ASSUME NEW t, NEW root, NEW spec, NEW mode
  PROVE  Sound(t, ResolvePackage(t, root, spec, mode))
<1> DEFINE d == LoadAsDirectory(t, [at |-> root, exts |-> <<>>])
           all == <<d, Unresolved>>
           result == ResolvePackage(t, root, spec, mode)
<1>1. Sound(t, FirstOf(all))
  <2>1. (d # None => Sound(t, d)) /\ Sound(t, Unresolved)
    BY LoadAsDirectorySound, UnresolvedSound
  <2> HIDE DEF d
  <2>2. DOMAIN all = {1, 2} /\ all[1] = d /\ all[2] = Unresolved
    OBVIOUS
  <2> HIDE DEF all
  <2> QED
    BY <2>1, <2>2, FirstOfSound
<1>2. result = Unresolved \/ (\E p : result = Load(t, p)) \/ result = FirstOf(all)
  <2> HIDE DEF all
  <2> QED
    BY Zenon DEF ResolvePackage, all
<1> HIDE DEF all, result
<1>3. Sound(t, result)
  BY <1>1, <1>2, LoadSound, UnresolvedSound
<1> QED
  BY <1>3 DEF result

\* and the file of a package, or of the project itself, that a name gives.
LEMMA ResolveNameSound ==
  ASSUME NEW t, NEW from, NEW spec, NEW mode
  PROVE  Sound(t, ResolveName(t, from, spec, mode)) /\ Sound(t, ResolveBare(t, from, spec, mode))
<1>1. Sound(t, [kind |-> "builtin"]) /\ Sound(t, [kind |-> "alias"])
  BY DEF Sound
<1> DEFINE bare == ResolveBare(t, from, spec, mode)
           name == ResolveName(t, from, spec, mode)
<1>2. bare = Unresolved \/ \E root : bare = ResolvePackage(t, root, spec, mode)
  BY Zenon DEF ResolveBare
<1>3. Sound(t, bare)
  <2> HIDE DEF bare
  <2> QED
    BY <1>2, ResolvePackageSound, UnresolvedSound
<1>4. name \in {[kind |-> "builtin"], [kind |-> "alias"], bare}
  BY Zenon DEF ResolveName
<1> QED
  BY <1>1, <1>3, <1>4

\* what is asked for by a name, a path or a url,
LEMMA ResolvePlainSound ==
  ASSUME NEW t, NEW from, NEW spec, NEW mode
  PROVE  Sound(t, ResolvePlain(t, from, spec, mode))
<1> DEFINE name == ResolveName(t, from, spec, mode)
           path == Inside(Up(from.at, Len(from.at) - 1 - spec.up), spec)
           result == ResolvePlain(t, from, spec, mode)
<1>1. result = [kind |-> "builtin"] \/ result = Unresolved \/ result = Load(t, path) \/ result = name
  <2> HIDE DEF name, path
  <2>1. result = CASE spec.form = "node" -> [kind |-> "builtin"]
                   [] spec.form = "url" -> Unresolved
                   [] spec.form = "relative" -> Load(t, path)
                   [] OTHER -> name
    BY Zenon DEF ResolvePlain, name, path
  <2> HIDE DEF result
  <2>2. CASE spec.form \in {"node", "url", "relative"}
    BY <2>1, <2>2
  <2>3. CASE spec.form \notin {"node", "url", "relative"}
    BY <2>1, <2>3
  <2> QED
    BY <2>2, <2>3
<1>2. Sound(t, [kind |-> "builtin"])
  BY DEF Sound
<1>3. Sound(t, result)
  <2> HIDE DEF result, path, name
  <2>1. Sound(t, name)
    BY ResolveNameSound DEF name
  <2> QED
    BY <1>1, <1>2, <2>1, LoadSound, UnresolvedSound
<1> QED
  BY <1>3

\* Whatever an import asks for, the file it is resolved to is there.
LEMMA ResolveSound ==
  ASSUME NEW t, NEW from, NEW spec, NEW mode
  PROVE  Sound(t, Resolve(t, from, spec, mode))
<1> DEFINE field == ResolveImportsField(t, from, spec, mode)
           plain == ResolvePlain(t, from, spec, mode)
           result == Resolve(t, from, spec, mode)
<1>1. Sound(t, field)
  <2>1. field = Unresolved \/ (\E p : field = Load(t, p)) \/ \E s : field = ResolvePlain(t, from, s, mode)
    BY Zenon DEF ResolveImportsField
  <2> HIDE DEF field
  <2> QED
    BY <2>1, LoadSound, ResolvePlainSound, UnresolvedSound
<1>2. result \in {field, plain}
  BY Zenon DEF Resolve
<1>3. Sound(t, plain)
  BY ResolvePlainSound
<1> HIDE DEF field, plain
<1> QED
  BY <1>1, <1>2, <1>3

-------------------------------------------------------------------------------
(* A walk upward through numbers, by jumps *)

\* The numbers up to n + 1 that the jumps come to from 1.
Orbit(n, next) ==
  {at \in 1..(n + 1) :
     \A S \in SUBSET (1..(n + 1)) : 1 \in S /\ (\A s \in S : s <= n => next[s] \in S) => at \in S}

\* The orbit holds 1 and where each of its numbers jumps, and is the least such set.
LEMMA OrbitClosed ==
  ASSUME NEW n \in Nat, NEW next \in [1..n -> 1..(n + 1)]
  PROVE  /\ Orbit(n, next) \subseteq 1..(n + 1) /\ 1 \in Orbit(n, next)
         /\ \A v \in Orbit(n, next) : v <= n => next[v] \in Orbit(n, next)
         /\ \A S \in SUBSET (1..(n + 1)) :
              1 \in S /\ (\A s \in S : s <= n => next[s] \in S) => Orbit(n, next) \subseteq S
<1>1. ASSUME NEW v \in Orbit(n, next), v <= n PROVE next[v] \in Orbit(n, next)
  <2>1. v \in 1..n /\ next[v] \in 1..(n + 1)
    BY <1>1 DEF Orbit
  <2>2. ASSUME NEW S \in SUBSET (1..(n + 1)), 1 \in S, \A s \in S : s <= n => next[s] \in S
        PROVE  next[v] \in S
    <3>1. v \in S
      BY <2>2 DEF Orbit
    <3> QED
      BY <1>1, <2>2, <3>1
  <2> QED
    BY <2>1, <2>2 DEF Orbit
<1> QED
  BY <1>1 DEF Orbit

\* What the jumps do not come to, one of them passes over, and what one passes over they do not come to.
LEMMA OrbitJumps ==
  ASSUME NEW n \in Nat, NEW next \in [1..n -> 1..(n + 1)], \A i \in 1..n : next[i] > i
  PROVE  /\ \A x \in 1..(n + 1) : x \notin Orbit(n, next) =>
              \E a \in Orbit(n, next) : a <= n /\ a < x /\ x < next[a]
         /\ \A a \in Orbit(n, next) : a <= n => \A x \in Orbit(n, next) : ~(a < x /\ x < next[a])
<1> DEFINE V == Orbit(n, next)
<1>1. /\ V \subseteq 1..(n + 1) /\ 1 \in V /\ \A v \in V : v <= n => next[v] \in V
      /\ \A S \in SUBSET (1..(n + 1)) : 1 \in S /\ (\A s \in S : s <= n => next[s] \in S) => V \subseteq S
  BY OrbitClosed
<1> HIDE DEF V
<1>2. ASSUME NEW x \in 1..(n + 1), x \notin V
      PROVE  \E a \in V : a <= n /\ a < x /\ x < next[a]
  <2> DEFINE below == {v \in V : v < x}
  <2>1. (\A v \in below : v \in 0..(n + 1)) /\ 1 \in below
    BY <1>1, <1>2
  <2>2. PICK a \in below : \A y \in below : y <= a
    <3> HIDE DEF below
    <3>1. below \in SUBSET (0..(n + 1)) /\ below # {} /\ n + 1 \in Nat
      BY <2>1
    <3> QED
      BY <3>1, GreatestNumber
  <2>3. a \in V /\ a < x /\ a \in 1..n
    BY <1>1, <2>2
  <2>4. next[a] \in V /\ next[a] \in 1..(n + 1) /\ next[a] > a
    BY <1>1, <2>3
  <2>5. ~(next[a] < x) /\ next[a] # x
    <3>1. ASSUME next[a] < x PROVE FALSE
      <4>1. next[a] \in below
        BY <2>4, <3>1
      <4>2. next[a] <= a
        BY <2>2, <4>1
      <4> QED
        BY <2>3, <2>4, <4>2
    <3> QED
      BY <1>2, <2>4, <3>1
  <2> QED
    BY <2>3, <2>4, <2>5
\* w has nothing of V within its jump.
<1> DEFINE Clear(w) == \A x \in V : ~(w < x /\ x < next[w])
           S == {w \in V : \A v \in V : v < w => Clear(v)}
<1>3. 1 \in S
  BY <1>1
<1>4. ASSUME NEW w \in S, w <= n PROVE next[w] \in S
  <2>1. w \in V /\ w \in 1..n /\ next[w] \in V /\ next[w] > w
    BY <1>1, <1>4
  <2>2. Clear(w)
    <3>1. SUFFICES ASSUME {x \in V : w < x /\ x < next[w]} # {} PROVE FALSE
      OBVIOUS
    <3> DEFINE within == {x \in V : w < x /\ x < next[w]}
    <3>2. (\A x \in within : x \in Nat) /\ within # {}
      BY <1>1, <3>1
    <3>3. PICK x \in within : \A y \in within : x <= y
      <4> HIDE DEF within
      <4>1. within \in SUBSET Nat
        BY <3>2
      <4> QED
        BY <3>2, <4>1, LeastNumber
    <3>4. x \in V /\ w < x /\ x < next[w] /\ x \in 1..(n + 1)
      BY <1>1, <3>3
    <3>5. V \ {x} \in SUBSET (1..(n + 1)) /\ 1 \in V \ {x}
      BY <1>1, <2>1, <3>4
    <3>6. ASSUME NEW u \in V \ {x}, u <= n PROVE next[u] \in V \ {x}
      <4>1. u \in V /\ u \in 1..n /\ next[u] \in V /\ next[u] > u
        BY <1>1, <3>6
      <4>2. CASE u = w
        BY <4>1, <4>2, <3>4
      <4>3. CASE u < w
        <5>1. Clear(u)
          BY <1>4, <4>1, <4>3
        <5>2. ~(u < w /\ w < next[u])
          BY <5>1, <2>1
        <5>3. next[u] <= w
          BY <4>1, <4>3, <5>2, <2>1, <1>1
        <5> QED
          BY <4>1, <5>3, <3>4, <2>1, <1>1
      <4>4. CASE w < u
        <5>1. CASE u < x
          <6>1. u \in within
            BY <4>1, <4>4, <5>1, <3>4, <2>1, <1>1
          <6> QED
            BY <6>1, <3>3, <5>1, <4>1, <3>4
        <5>2. CASE u > x
          BY <5>2, <4>1, <3>4, <1>1
        <5> QED
          BY <5>1, <5>2, <3>6, <4>1, <3>4
      <4> QED
        BY <4>1, <4>2, <4>3, <4>4, <2>1
    <3>7. V \subseteq V \ {x}
      BY <1>1, <3>5, <3>6
    <3> QED
      BY <3>4, <3>7
  <2>3. ASSUME NEW v \in V, v < next[w] PROVE Clear(v)
    <3>1. CASE v < w
      BY <1>4, <3>1
    <3>2. CASE v = w
      BY <2>2, <3>2
    <3>3. CASE w < v
      BY <2>2, <2>3, <3>3
    <3> QED
      BY <3>1, <3>2, <3>3, <2>1, <1>1
  <2> HIDE DEF Clear
  <2> QED
    BY <2>1, <2>3
<1>5. V \subseteq S
  <2>1. S \in SUBSET (1..(n + 1))
    BY <1>1
  <2> HIDE DEF S
  <2> QED
    BY <1>1, <1>3, <1>4, <2>1
<1>6. ASSUME NEW a \in V, a <= n PROVE Clear(a)
  <2>1. next[a] \in V /\ next[a] > a
    BY <1>1, <1>6
  <2>2. next[a] \in S
    BY <1>5, <2>1
  <2> HIDE DEF Clear
  <2> QED
    BY <1>6, <2>1, <2>2
<1> QED
  BY <1>2, <1>6 DEF V

Gathers(gathered, n, next, at) ==
  gathered[n + 1] = {} /\ \A i \in 1..n : gathered[i] = gathered[next[i]] \cup at[i]
Gathered(n, next, at) == UNION {at[v] : v \in Orbit(n, next) \ {n + 1}}

\* What is gathered on the way from 1 is what lies at the numbers the jumps come to.
LEMMA OrbitUnion ==
  ASSUME NEW n \in Nat, NEW next \in [1..n -> 1..(n + 1)], \A i \in 1..n : next[i] > i,
         NEW gathered, NEW at, Gathers(gathered, n, next, at)
  PROVE  gathered[1] = Gathered(n, next, at)
<1> DEFINE V == Orbit(n, next)
           all == UNION {at[v] : v \in V \ {n + 1}}
<1>1. /\ V \subseteq 1..(n + 1) /\ 1 \in V /\ \A v \in V : v <= n => next[v] \in V
      /\ \A S \in SUBSET (1..(n + 1)) : 1 \in S /\ (\A s \in S : s <= n => next[s] \in S) => V \subseteq S
  BY OrbitClosed
<1> HIDE DEF V
<1> USE DEF Gathers
<1>2. ASSUME NEW v \in V PROVE gathered[v] \subseteq all
  <2> DEFINE bad == {w \in V : ~(gathered[w] \subseteq all)}
  <2>1. SUFFICES ASSUME bad # {} PROVE FALSE
    OBVIOUS
  <2>2. \A w \in bad : w \in 0..(n + 1)
    <3>1. \A w \in bad : w \in V
      OBVIOUS
    <3>2. \A w \in V : w \in 1..(n + 1)
      BY <1>1
    <3>3. \A w \in 1..(n + 1) : w \in 0..(n + 1)
      OBVIOUS
    <3> HIDE DEF bad
    <3> QED
      BY <3>1, <3>2, <3>3
  <2>3. PICK w \in bad : \A y \in bad : y <= w
    <3> HIDE DEF bad
    <3>1. bad \in SUBSET (0..(n + 1)) /\ n + 1 \in Nat
      BY <2>2
    <3> QED
      BY <2>1, <3>1, GreatestNumber
  <2>4. w \in V /\ w \in 1..(n + 1) /\ ~(gathered[w] \subseteq all)
    BY <1>1, <2>3
  <2>5. w # n + 1
    BY <2>4
  <2>6. w \in 1..n /\ next[w] \in V /\ next[w] > w /\ next[w] \in 1..(n + 1)
    BY <1>1, <2>4, <2>5
  <2>7. gathered[next[w]] \subseteq all
    BY <2>3, <2>6
  <2>8. at[w] \subseteq all
    BY <2>4, <2>5
  <2> QED
    BY <2>4, <2>6, <2>7, <2>8
<1>3. \A v \in V : gathered[v] \subseteq gathered[1]
  <2> DEFINE S == {v \in 1..(n + 1) : gathered[v] \subseteq gathered[1]}
  <2>1. 1 \in S /\ \A s \in S : s <= n => next[s] \in S
    OBVIOUS
  <2>2. V \subseteq S
    <3>1. S \in SUBSET (1..(n + 1))
      OBVIOUS
    <3> HIDE DEF S
    <3> QED
      BY <1>1, <2>1, <3>1
  <2> QED
    BY <2>2
<1>4. all \subseteq gathered[1]
  <2>1. ASSUME NEW v \in V \ {n + 1} PROVE at[v] \subseteq gathered[1]
    <3>1. v \in 1..n
      BY <1>1
    <3> QED
      BY <1>3, <3>1
  <2> QED
    BY <2>1
<1>5. gathered[1] \subseteq all
  BY <1>1, <1>2
<1> QED
  BY <1>4, <1>5 DEF V, Gathered

-------------------------------------------------------------------------------
(* The script of a .svelte file *)

\* One turn of the pass: where it goes on, what it copies, what it accounts for.
Jump(markup, comments, at) ==
  IF markup[at].is \in comments
  THEN IF NextToken(markup, "-->", at) = 0 THEN Len(markup) + 1 ELSE NextToken(markup, "-->", at) + 1
  ELSE IF markup[at].is = "open" /\ NextToken(markup, "close", at) # 0
  THEN NextToken(markup, "close", at) + 1
  ELSE at + 1

Copies(markup, comments, at) ==
  IF markup[at].is \notin comments /\ markup[at].is = "open" /\ NextToken(markup, "close", at) # 0
  THEN (at + 1)..(NextToken(markup, "close", at) - 1) ELSE {}

Accounts(markup, comments, at) ==
  IF markup[at].is \in comments
  THEN IF NextToken(markup, "-->", at) = 0 THEN {} ELSE Consumed(markup, at, NextToken(markup, "-->", at))
  ELSE IF markup[at].is = "self-closing" THEN {at}
  ELSE IF markup[at].is = "open" /\ NextToken(markup, "close", at) # 0
  THEN at..NextToken(markup, "close", at)
  ELSE {}

\* The next token of a kind, if there is one, is one, with no other before it.
LEMMA NextTokenIs ==
  ASSUME NEW markup, NEW S, markup \in Seq(S), NEW kind, NEW from \in 1..Len(markup)
  PROVE  LET t == NextToken(markup, kind, from) IN
         /\ t = 0 \/ (t \in (from + 1)..Len(markup) /\ markup[t].is = kind)
         /\ \A u \in (from + 1)..Len(markup) : markup[u].is = kind => t # 0 /\ t <= u
<1> DEFINE at == {i \in (from + 1)..Len(markup) : markup[i].is = kind}
           t == NextToken(markup, kind, from)
<1>1. Len(markup) \in Nat
  OBVIOUS
<1>2. CASE at = {}
  <2>1. t = 0
    BY <1>2 DEF NextToken
  <2> QED
    BY <1>2, <2>1
<1>3. CASE at # {}
  <2>1. t = Min(at)
    BY <1>3 DEF NextToken
  <2>2. at \in SUBSET Nat
    BY <1>1
  <2>3. Min(at) \in at /\ \A y \in at : Min(at) <= y
    <3> HIDE DEF at
    <3> QED
      BY <1>3, <2>2, MinMember
  <2> HIDE DEF t
  <2>4. t \in (from + 1)..Len(markup) /\ markup[t].is = kind
    BY <2>1, <2>3
  <2>5. \A u \in (from + 1)..Len(markup) : markup[u].is = kind => t <= u
    BY <2>1, <2>3
  <2>6. t # 0
    BY <1>1, <2>4
  <2> QED
    BY <2>4, <2>5, <2>6 DEF t
<1> QED
  BY <1>2, <1>3

\* A jump in the markup of a component goes forward, at most past its end.
LEMMA JumpsForward ==
  ASSUME NEW markup, NEW S, markup \in Seq(S), NEW comments, NEW at \in 1..Len(markup)
  PROVE  Jump(markup, comments, at) \in (at + 1)..(Len(markup) + 1)
<1> DEFINE d == NextToken(markup, "-->", at)
           c == NextToken(markup, "close", at)
<1>1. Len(markup) \in Nat
  OBVIOUS
<1>2. (d = 0 \/ d \in (at + 1)..Len(markup)) /\ (c = 0 \/ c \in (at + 1)..Len(markup))
  BY NextTokenIs
<1>3. Jump(markup, comments, at) = IF markup[at].is \in comments THEN IF d = 0 THEN Len(markup) + 1 ELSE d + 1
                                   ELSE IF markup[at].is = "open" /\ c # 0 THEN c + 1 ELSE at + 1
  BY DEF Jump
<1> HIDE DEF d, c
<1> QED
  BY <1>1, <1>2, <1>3

Unfolds(pass, markup, comments) ==
  /\ ScriptPass(markup, comments) = pass[1]
  /\ pass[Len(markup) + 1].copied = {} /\ pass[Len(markup) + 1].accounted = {}
  /\ \A at \in 1..Len(markup) :
       LET rest == pass[Jump(markup, comments, at)] IN
       /\ pass[at].copied = rest.copied \cup Copies(markup, comments, at)
       /\ pass[at].accounted = rest.accounted \cup Accounts(markup, comments, at)

\* The pass is what its definition says of it: the definition by recursion has a solution.
LEMMA PassUnfolds ==
  ASSUME NEW markup, NEW S, markup \in Seq(S), NEW comments, "self-closing" \notin comments, "open" \notin comments
  PROVE  \E pass : Unfolds(pass, markup, comments)
<1> DEFINE n == Len(markup)
           end == Len(markup) + 1
           with(rest, copied, accounted) ==
             [copied |-> rest.copied \cup copied, accounted |-> rest.accounted \cup accounted]
           none == [copied |-> {}, accounted |-> {}]
           turn(pass, at) ==
             LET is == markup[at].is
                 dashes == NextToken(markup, "-->", at)
                 close == NextToken(markup, "close", at) IN
             CASE is \in comments /\ dashes = 0   -> pass[end]
               [] is \in comments /\ dashes > 0   -> with(pass[dashes + 1], {}, Consumed(markup, at, dashes))
               [] is = "self-closing"               -> with(pass[at + 1], {}, {at})
               [] is = "open" /\ close = 0          -> pass[at + 1]
               [] is = "open" /\ close > 0          -> with(pass[close + 1], (at + 1)..(close - 1), at..close)
               [] OTHER                             -> pass[at + 1]
           body(pass, at) == IF at = end THEN none ELSE turn(pass, at)
           Pass == CHOOSE p : p = [at \in 1..end |-> body(p, at)]
<1>1. ScriptPass(markup, comments) = Pass[1]
  BY DEF ScriptPass
<1>2. n \in Nat /\ end = n + 1
  OBVIOUS
<1> DEFINE R == [copied : SUBSET Int, accounted : SUBSET Int]
\* A turn leaves of the rest what a jump leads to, with what it copies and accounts for.
<1>3. ASSUME NEW p, NEW at \in 1..n
      PROVE  LET rest == p[Jump(markup, comments, at)]
                 after == with(rest, Copies(markup, comments, at), Accounts(markup, comments, at)) IN
             /\ turn(p, at).copied = after.copied /\ turn(p, at).accounted = after.accounted
             /\ rest \in R => turn(p, at) = after
  <2> DEFINE is == markup[at].is
             d == NextToken(markup, "-->", at)
             c == NextToken(markup, "close", at)
             j == Jump(markup, comments, at)
             a == Accounts(markup, comments, at)
             copies == Copies(markup, comments, at)
  <2>1. d \in Nat /\ c \in Nat
    BY <1>2, NextTokenIs
  <2>3. with(p[j], {}, {}).copied = p[j].copied /\ with(p[j], {}, {}).accounted = p[j].accounted
        /\ (p[j] \in R => with(p[j], {}, {}) = p[j])
    OBVIOUS
  <2>4. CASE is \in comments /\ d = 0
    <3>1. turn(p, at) = p[end] /\ j = end /\ copies = {} /\ a = {}
      BY <2>4 DEF Jump, Accounts, Copies
    <3> QED
      BY <2>3, <3>1
  <2>5. CASE is \in comments /\ d > 0
    <3>1. /\ turn(p, at) = with(p[d + 1], {}, Consumed(markup, at, d))
          /\ j = d + 1 /\ copies = {} /\ a = Consumed(markup, at, d)
      BY <2>1, <2>5 DEF Jump, Accounts, Copies
    <3> QED
      BY <3>1
  <2>6. CASE is \notin comments /\ is = "self-closing"
    <3>1. turn(p, at) = with(p[at + 1], {}, {at}) /\ j = at + 1 /\ copies = {} /\ a = {at}
      BY <2>6 DEF Jump, Accounts, Copies
    <3> QED
      BY <3>1
  <2>7. CASE is \notin comments /\ is = "open" /\ c = 0
    <3>1. turn(p, at) = p[at + 1] /\ j = at + 1 /\ copies = {} /\ a = {}
      BY <2>7 DEF Jump, Accounts, Copies
    <3> QED
      BY <2>3, <3>1
  <2>8. CASE is \notin comments /\ is = "open" /\ c > 0
    <3>1. /\ turn(p, at) = with(p[c + 1], (at + 1)..(c - 1), at..c)
          /\ j = c + 1 /\ copies = (at + 1)..(c - 1) /\ a = at..c
      BY <2>1, <2>8 DEF Jump, Accounts, Copies
    <3> QED
      BY <3>1
  <2>9. CASE is \notin comments /\ is \notin {"open", "self-closing"}
    <3>1. turn(p, at) = p[at + 1] /\ j = at + 1 /\ copies = {} /\ a = {}
      BY <2>9 DEF Jump, Accounts, Copies
    <3> QED
      BY <2>3, <3>1
  <2> QED
    BY <2>1, <2>4, <2>5, <2>6, <2>7, <2>8, <2>9
<1> DEFINE next == [at \in 1..n |-> Jump(markup, comments, at)]
           prev == [i \in 1..n |-> end - next[end - i]]
           step == [x \in (1..n) \X R |->
                      with(x[2], Copies(markup, comments, end - x[1]), Accounts(markup, comments, end - x[1]))]
<1>4. \A at \in 1..n : next[at] \in (at + 1)..end
  BY <1>2, JumpsForward
<1>5. \A i \in 1..n : end - i \in 1..n /\ prev[i] \in Nat /\ prev[i] < i
  <2> TAKE i \in 1..n
  <2>1. end - i \in 1..n /\ prev[i] = end - next[end - i]
    BY <1>2
  <2>2. next[end - i] \in (end - i + 1)..end
    BY <1>4, <2>1
  <2> HIDE DEF n, end, next, prev
  <2> QED
    BY <1>2, <2>1, <2>2
<1>6. none \in R
  OBVIOUS
<1>7. step \in [(1..n) \X R -> R]
  <2>1. ASSUME NEW i \in 1..n, NEW x \in R
        PROVE  with(x, Copies(markup, comments, end - i), Accounts(markup, comments, end - i)) \in R
    <3> DEFINE at == end - i
    <3>1. at \in 1..n
      BY <1>5
    <3> HIDE DEF at
    <3>2. NextToken(markup, "close", at) \in Int /\ NextToken(markup, "-->", at) \in Int
      BY <1>2, <3>1, NextTokenIs
    <3>3. Copies(markup, comments, at) \subseteq Int
      BY <3>1, <3>2 DEF Copies
    <3>4. Accounts(markup, comments, at) \subseteq Int
      BY <1>2, <3>1, <3>2 DEF Accounts, Consumed
    <3> QED
      BY <3>3, <3>4 DEF at
  <2> QED
    BY <2>1
<1>8. PICK f \in [0..n -> R] : Solves(f, n, none, prev, step)
  <2>1. prev \in [1..n -> Nat] /\ \A i \in 1..n : prev[i] < i
    BY <1>5
  <2> HIDE DEF prev, step, R, none, n
  <2> QED
    BY <1>2, <1>6, <1>7, <2>1, Recursion
<1> DEFINE g == [at \in 1..end |-> f[end - at]]
<1>9. g = [at \in 1..end |-> body(g, at)]
  <2>1. \A at \in 1..end : end - at \in 0..n
    BY <1>2
  <2>2. \A at \in 1..end : g[at] = f[end - at] /\ g[at] \in R
    BY <2>1
  <2> HIDE DEF g
  <2>3. ASSUME NEW at \in 1..end, at # end PROVE g[at] = turn(g, at)
    <3> DEFINE i == end - at
               j == Jump(markup, comments, at)
    <3>1. at \in 1..n /\ i \in 1..n /\ end - i = at
      BY <1>2, <2>3
    <3>2. next[at] = j /\ j \in 1..end /\ end - j \in 0..n
      BY <1>2, <1>4, <3>1
    <3>3. prev[i] = end - j
      BY <3>1, <3>2
    <3>4. f[i] = step[<<i, f[end - j]>>] /\ f[end - j] = g[j] /\ g[j] \in R
      <4> HIDE DEF prev, step, i, R
      <4> QED
        BY <1>8, <2>2, <3>1, <3>2, <3>3 DEF Solves
    <3>5. step[<<i, g[j]>>] = with(g[j], Copies(markup, comments, at), Accounts(markup, comments, at))
      <4>1. <<i, g[j]>> \in (1..n) \X R /\ <<i, g[j]>>[1] = i /\ <<i, g[j]>>[2] = g[j]
        BY <3>1, <3>4
      <4> HIDE DEF i, j, R
      <4> QED
        BY <3>1, <4>1
    <3>6. turn(g, at) = with(g[j], Copies(markup, comments, at), Accounts(markup, comments, at))
      <4> HIDE DEF turn, R, i, g
      <4> QED
        BY <1>3, <3>1, <3>4
    <3>7. g[at] = f[i]
      BY <2>2
    <3> QED
      BY <3>4, <3>5, <3>6, <3>7
  <2>4. g[end] = none
    <3>1. end \in 1..end /\ end - end = 0
      BY <1>2
    <3> QED
      BY <1>8, <2>2, <3>1 DEF Solves
  <2> HIDE DEF turn, none, end
  <2>5. \A at \in 1..end : g[at] = body(g, at)
    BY <2>3, <2>4
  <2>6. g = [at \in 1..end |-> g[at]]
    BY DEF g
  <2> HIDE DEF body
  <2> QED
    BY <2>5, <2>6, Zenon
<1>10. Pass = [at \in 1..end |-> body(Pass, at)]
  <2> HIDE DEF g, body
  <2> QED
    BY <1>9
<1> HIDE DEF Pass
<1>11. Pass[end] = none
  BY <1>2, <1>10
<1>12. \A at \in 1..n : Pass[at] = turn(Pass, at)
  <2>1. \A at \in 1..n : at \in 1..end /\ at # end
    BY <1>2
  <2> HIDE DEF turn
  <2> QED
    BY <1>10, <2>1
<1>13. ASSUME NEW at \in 1..n
       PROVE  LET rest == Pass[Jump(markup, comments, at)] IN
              /\ Pass[at].copied = rest.copied \cup Copies(markup, comments, at)
              /\ Pass[at].accounted = rest.accounted \cup Accounts(markup, comments, at)
  <2> HIDE DEF turn
  <2> QED
    BY <1>3, <1>12
<1> QED
  BY <1>1, <1>11, <1>13 DEF Unfolds

Jumping(next, markup, comments) == next = [at \in 1..Len(markup) |-> Jump(markup, comments, at)]

\* What a pass copies and accounts for is what its turns do.
LEMMA PassGathers ==
  ASSUME NEW markup, NEW S, markup \in Seq(S), NEW comments, "self-closing" \notin comments, "open" \notin comments,
         NEW next, Jumping(next, markup, comments)
  PROVE  /\ next \in [1..Len(markup) -> 1..(Len(markup) + 1)] /\ \A i \in 1..Len(markup) : next[i] > i
         /\ ScriptPass(markup, comments).copied =
              UNION {Copies(markup, comments, v) : v \in Orbit(Len(markup), next) \ {Len(markup) + 1}}
         /\ ScriptPass(markup, comments).accounted =
              UNION {Accounts(markup, comments, v) : v \in Orbit(Len(markup), next) \ {Len(markup) + 1}}
<1> DEFINE n == Len(markup)
<1>1. n \in Nat
  OBVIOUS
<1>2. \A at \in 1..n : Jump(markup, comments, at) \in (at + 1)..(n + 1)
  BY JumpsForward
<1>3. next \in [1..n -> 1..(n + 1)] /\ \A i \in 1..n : next[i] > i /\ next[i] = Jump(markup, comments, i)
  <2> HIDE DEF n
  <2> QED
    BY <1>1, <1>2 DEF n, Jumping
<1>4. PICK pass : Unfolds(pass, markup, comments)
  BY PassUnfolds
<1> DEFINE copied == [at \in 1..(n + 1) |-> pass[at].copied]
           accounted == [at \in 1..(n + 1) |-> pass[at].accounted]
           copies == [at \in 1..n |-> Copies(markup, comments, at)]
           accounts == [at \in 1..n |-> Accounts(markup, comments, at)]
<1>5. /\ copied[n + 1] = {} /\ accounted[n + 1] = {}
      /\ copied[1] = ScriptPass(markup, comments).copied /\ accounted[1] = ScriptPass(markup, comments).accounted
  BY <1>1, <1>4 DEF Unfolds
<1>6. \A i \in 1..n : copied[i] = copied[next[i]] \cup copies[i] /\ accounted[i] = accounted[next[i]] \cup accounts[i]
  <2>1. \A i \in 1..n : i \in 1..(n + 1) /\ next[i] \in 1..(n + 1)
    BY <1>1, <1>3
  <2> HIDE DEF n
  <2> QED
    BY <1>3, <1>4, <2>1 DEF n, Unfolds
<1>7. Orbit(n, next) \ {n + 1} \subseteq 1..n
  BY <1>1 DEF Orbit
<1>8. \A v \in Orbit(n, next) \ {n + 1} :
        copies[v] = Copies(markup, comments, v) /\ accounts[v] = Accounts(markup, comments, v)
  BY <1>7
<1> HIDE DEF copied, accounted, copies, accounts, n
<1>9. copied[1] = Gathered(n, next, copies)
  <2>1. Gathers(copied, n, next, copies)
    BY <1>5, <1>6 DEF Gathers
  <2> QED
    BY <1>1, <1>3, <2>1, OrbitUnion
<1>10. accounted[1] = Gathered(n, next, accounts)
  <2>1. Gathers(accounted, n, next, accounts)
    BY <1>5, <1>6 DEF Gathers
  <2> QED
    BY <1>1, <1>3, <2>1, OrbitUnion
<1>11. /\ {copies[v] : v \in Orbit(n, next) \ {n + 1}} = {Copies(markup, comments, v) : v \in Orbit(n, next) \ {n + 1}}
       /\ {accounts[v] : v \in Orbit(n, next) \ {n + 1}} = {Accounts(markup, comments, v) : v \in Orbit(n, next) \ {n + 1}}
  BY <1>8
<1> QED
  BY <1>3, <1>5, <1>9, <1>10, <1>11 DEF n, Gathered

\* A file with no tag outside what is accounted for, and without a comment that is only
\* text, has lost no script.
LEMMA NoScriptLost ==
  ASSUME NEW markup, NEW T, markup \in Seq(T), ~TrustedComment(markup), LostScripts(markup) = {}
  PROVE  ScriptPass(markup, {"comment"}).copied \subseteq ExtractSvelteScript(markup).copied
<1> DEFINE n == Len(markup)
           real == {"comment"}
           both == {"comment", "comment-in-text"}
           trueNext == [at \in 1..n |-> Jump(markup, real, at)]
           next == [at \in 1..n |-> Jump(markup, both, at)]
           V == Orbit(n, trueNext)
           W == Orbit(n, next)
           close(at) == NextToken(markup, "close", at)
           dashes(at) == NextToken(markup, "-->", at)
<1>1. n \in Nat /\ DOMAIN markup = 1..n
  OBVIOUS
<1>2. /\ trueNext \in [1..n -> 1..(n + 1)] /\ \A i \in 1..n : trueNext[i] > i
      /\ ScriptPass(markup, real).copied = UNION {Copies(markup, real, v) : v \in V \ {n + 1}}
  <2>1. "self-closing" \notin real /\ "open" \notin real /\ Jumping(trueNext, markup, real)
    BY DEF Jumping
  <2> HIDE DEF real, trueNext
  <2> QED
    BY <2>1, PassGathers
<1>3. /\ next \in [1..n -> 1..(n + 1)] /\ \A i \in 1..n : next[i] > i
      /\ ExtractSvelteScript(markup).copied = UNION {Copies(markup, both, v) : v \in W \ {n + 1}}
      /\ ExtractSvelteScript(markup).accounted = UNION {Accounts(markup, both, v) : v \in W \ {n + 1}}
  <2>1. "self-closing" \notin both /\ "open" \notin both /\ Jumping(next, markup, both)
    BY DEF Jumping
  <2>2. ExtractSvelteScript(markup) = ScriptPass(markup, both)
    BY DEF ExtractSvelteScript
  <2> HIDE DEF both, next
  <2> QED
    BY <2>1, <2>2, PassGathers
<1>4. \A i \in 1..n : trueNext[i] = Jump(markup, real, i) /\ next[i] = Jump(markup, both, i)
  OBVIOUS
<1> HIDE DEF trueNext, next
<1>5. /\ V \subseteq 1..(n + 1) /\ W \subseteq 1..(n + 1)
  BY DEF Orbit
<1>6. /\ \A x \in 1..(n + 1) : x \notin V => \E a \in V : a <= n /\ a < x /\ x < trueNext[a]
      /\ \A a \in V : a <= n => \A x \in V : ~(a < x /\ x < trueNext[a])
  BY <1>1, <1>2, OrbitJumps
<1>7. /\ \A x \in 1..(n + 1) : x \notin W => \E a \in W : a <= n /\ a < x /\ x < next[a]
      /\ \A a \in W : a <= n => \A x \in W : ~(a < x /\ x < next[a])
  BY <1>1, <1>3, OrbitJumps
<1> HIDE DEF V, W
<1>8. ASSUME NEW at \in 1..n
      PROVE  /\ close(at) = 0 \/ (close(at) \in (at + 1)..n /\ markup[close(at)].is = "close")
             /\ dashes(at) = 0 \/ (dashes(at) \in (at + 1)..n /\ markup[dashes(at)].is = "-->")
             /\ \A u \in (at + 1)..n : markup[u].is = "-->" => dashes(at) # 0 /\ dashes(at) <= u
             /\ \A u \in (at + 1)..n : markup[u].is = "close" => close(at) # 0 /\ close(at) <= u
  BY NextTokenIs
<1> HIDE DEF n
\* A tag in the script of another ends where that ends.
<1> DEFINE around(a, o) == a \in W /\ a <= n /\ markup[a].is = "open" /\ close(a) # 0 /\ a < o /\ o < close(a)
<1>81. ASSUME NEW a \in 1..n, NEW o \in 1..n, close(a) # 0, a < o, o < close(a) PROVE close(o) = close(a)
  <2>1. close(a) \in (o + 1)..n /\ markup[close(a)].is = "close"
    BY <1>1, <1>8, <1>81
  <2>2. close(o) # 0 /\ close(o) <= close(a)
    BY <1>8, <2>1
  <2>3. close(o) \in (a + 1)..n /\ markup[close(o)].is = "close"
    BY <1>1, <1>8, <1>81, <2>2
  <2>4. close(a) <= close(o)
    BY <1>8, <2>3
  <2>5. close(a) \in Nat /\ close(o) \in Nat
    BY <1>1, <2>1, <2>3
  <2> QED
    BY <2>2, <2>4, <2>5
<1> HIDE DEF around
\* A tag the pass over the real comments takes for script is one that extractSvelteScript comes
\* to, or is in the script of one.
<1> DEFINE bad == {o \in V : o <= n /\ markup[o].is = "open" /\ close(o) # 0 /\ o \notin W /\ ~\E a \in W : around(a, o)}
<1>9. ASSUME bad # {} PROVE FALSE
  <2>1. PICK o \in bad : \A y \in bad : o <= y
    <3>1. \A x \in bad : x \in Nat
      BY <1>1, <1>5
    <3> HIDE DEF bad
    <3>2. bad \in SUBSET Nat
      BY <3>1
    <3> QED
      BY <1>9, <3>2, LeastNumber
  <2>2. /\ o \in V /\ o \in 1..n /\ markup[o].is = "open" /\ close(o) # 0 /\ o \notin W
        /\ ~\E a \in W : around(a, o)
    BY <1>1, <1>5, <2>1
  <2> HIDE DEF bad
  <2>3. PICK a \in W : a <= n /\ a < o /\ o < next[a]
    BY <1>1, <1>7, <2>2
  <2>4. a \in 1..n /\ next[a] = Jump(markup, both, a)
    BY <1>1, <1>4, <1>5, <2>3
  <2>5. o \in Accounts(markup, both, a)
    <3>1. o \in ExtractSvelteScript(markup).accounted
      BY <1>1, <2>2 DEF LostScripts
    <3>2. PICK v \in W \ {n + 1} : o \in Accounts(markup, both, v)
      BY <1>3, <3>1
    <3>3. v \in 1..n /\ next[v] = Jump(markup, both, v)
      BY <1>1, <1>4, <1>5
    <3>4. v <= o /\ o < next[v]
      BY <1>1, <1>8, <2>2, <3>2, <3>3 DEF Accounts, Consumed, Jump
    <3>5. v # o
      BY <2>2
    <3>6. ~(v < a /\ a < next[v]) /\ ~(a < v /\ v < next[a])
      BY <1>7, <2>3, <2>4, <3>3
    <3>7. next[v] \in 1..(n + 1) /\ next[a] \in 1..(n + 1)
      BY <1>3, <2>4, <3>3
    <3>8. v = a
      BY <1>1, <2>2, <2>3, <2>4, <3>3, <3>4, <3>5, <3>6, <3>7
    <3> QED
      BY <3>2, <3>8
  <2>6. CASE markup[a].is \in both
    <3>1. dashes(a) # 0 /\ o \in Consumed(markup, a, dashes(a)) /\ next[a] = dashes(a) + 1
      BY <2>4, <2>5, <2>6 DEF Accounts, Jump
    <3>2. /\ dashes(a) \in (a + 1)..n /\ o <= dashes(a) /\ markup[dashes(a)].is = "-->"
          /\ \A i \in (a + 1)..(dashes(a) - 1) : markup[i].is \notin both
      BY <1>1, <1>8, <2>4, <3>1 DEF Consumed
    <3>3. CASE markup[a].is = "comment-in-text"
      <4>1. \A u \in (a + 1)..dashes(a) : markup[u].is \notin both
        BY <1>1, <2>4, <3>2
      <4> QED
        BY <1>1, <2>4, <3>2, <3>3, <4>1 DEF TrustedComment
    <3>4. CASE markup[a].is = "comment"
      <4>1. a \notin V
        <5>1. ASSUME a \in V PROVE FALSE
          <6>1. trueNext[a] = dashes(a) + 1
            BY <1>4, <2>4, <3>1, <3>4 DEF Jump
          <6>2. ~(a < o /\ o < trueNext[a])
            BY <1>6, <2>2, <2>4, <5>1
          <6> QED
            BY <1>1, <2>2, <2>3, <3>2, <6>1, <6>2
        <5> QED
          BY <5>1
      <4>2. PICK b \in V : b <= n /\ b < a /\ a < trueNext[b]
        BY <1>1, <1>6, <2>4, <4>1
      <4>3. b \in 1..n /\ trueNext[b] = Jump(markup, real, b) /\ trueNext[b] \in 1..(n + 1)
        BY <1>1, <1>2, <1>4, <1>5, <4>2
      <4>4. trueNext[b] <= o
        <5>1. ~(b < o /\ o < trueNext[b])
          BY <1>6, <2>2, <4>2
        <5> QED
          BY <1>1, <2>2, <2>3, <2>4, <4>2, <4>3, <5>1
      <4>5. CASE markup[b].is \in real
        <5>1. dashes(b) # 0 /\ trueNext[b] = dashes(b) + 1
          <6>1. ASSUME dashes(b) = 0 PROVE FALSE
            <7>1. trueNext[b] = n + 1
              BY <4>3, <4>5, <6>1 DEF Jump, n
            <7> QED
              BY <1>1, <2>2, <4>4, <7>1
          <6> QED
            BY <4>3, <4>5, <6>1 DEF Jump
        <5>2. dashes(b) \in (b + 1)..n /\ markup[dashes(b)].is = "-->"
          BY <1>8, <4>3, <5>1
        <5>3. dashes(b) # a
          BY <3>4, <5>2
        <5>4. dashes(b) \in (a + 1)..n
          BY <1>1, <2>4, <4>2, <4>3, <5>1, <5>2, <5>3
        <5>5. dashes(a) <= dashes(b)
          BY <1>8, <2>4, <5>2, <5>4
        <5> QED
          BY <1>1, <2>2, <3>2, <4>4, <5>1, <5>2, <5>5
      <4>6. CASE markup[b].is \notin real /\ markup[b].is = "open" /\ close(b) # 0
        <5>1. b \in W
          <6>1. ASSUME b \notin W PROVE FALSE
            <7>1. CASE \E c \in W : around(c, b)
              <8>1. PICK c \in W : around(c, b)
                BY <7>1
              <8>2. c \in 1..n /\ close(b) = close(c)
                BY <1>1, <1>5, <1>81, <4>3, <8>1 DEF around
              <8>3. next[c] = close(c) + 1 /\ trueNext[b] = close(b) + 1
                BY <1>4, <4>3, <4>6, <8>1, <8>2 DEF Jump, around
              <8>4. c < a /\ a < next[c]
                BY <1>1, <2>4, <4>2, <4>3, <8>1, <8>2, <8>3 DEF around
              <8> QED
                BY <1>7, <2>3, <8>1, <8>2, <8>4
            <7>2. CASE ~\E c \in W : around(c, b)
              <8>1. b \in bad
                BY <4>2, <4>6, <6>1, <7>2 DEF bad
              <8> QED
                BY <1>1, <2>1, <2>2, <2>3, <2>4, <4>2, <4>3, <8>1
            <7> QED
              BY <7>1, <7>2
          <6> QED
            BY <6>1
        <5>2. next[b] = trueNext[b]
          BY <1>4, <4>3, <4>6 DEF Jump
        <5>3. ~(b < a /\ a < next[b])
          BY <1>7, <2>3, <4>2, <5>1
        <5> QED
          BY <4>2, <5>2, <5>3
      <4>7. CASE markup[b].is \notin real /\ ~(markup[b].is = "open" /\ close(b) # 0)
        <5>1. trueNext[b] = b + 1
          BY <4>3, <4>7 DEF Jump
        <5> QED
          BY <1>1, <2>4, <4>2, <4>3, <5>1
      <4> QED
        BY <4>5, <4>6, <4>7
    <3> QED
      BY <2>6, <3>3, <3>4
  <2>7. CASE markup[a].is \notin both /\ markup[a].is = "open" /\ close(a) # 0
    <3>1. o \in a..close(a) /\ close(a) \in (a + 1)..n /\ markup[close(a)].is = "close"
      BY <1>8, <2>4, <2>5, <2>7 DEF Accounts
    <3>2. o # close(a)
      BY <2>2, <3>1
    <3>3. o \in (a + 1)..(close(a) - 1)
      BY <1>1, <2>2, <2>3, <2>4, <3>1, <3>2
    <3>4. around(a, o)
      BY <1>1, <2>3, <2>7, <3>1, <3>3 DEF around
    <3> QED
      BY <2>2, <2>3, <3>4
  <2>8. CASE markup[a].is \notin both /\ ~(markup[a].is = "open" /\ close(a) # 0)
    <3>1. o = a
      BY <2>5, <2>8 DEF Accounts
    <3> QED
      BY <1>1, <2>3, <2>4, <3>1
  <2> QED
    BY <2>6, <2>7, <2>8
<1>10. ASSUME NEW t \in ScriptPass(markup, real).copied PROVE t \in ExtractSvelteScript(markup).copied
  <2>1. PICK o \in V \ {n + 1} : t \in Copies(markup, real, o)
    BY <1>2, <1>10
  <2>2. o \in 1..n /\ markup[o].is = "open" /\ close(o) # 0 /\ t \in (o + 1)..(close(o) - 1)
    <3>1. o \in 1..(n + 1) /\ o # n + 1
      BY <1>5
    <3>2. markup[o].is = "open" /\ close(o) # 0 /\ t \in (o + 1)..(close(o) - 1)
      BY <2>1, Zenon DEF Copies
    <3> QED
      BY <1>1, <3>1, <3>2
  <2>3. CASE o \in W
    <3>1. t \in Copies(markup, both, o)
      BY <2>2 DEF Copies
    <3> QED
      BY <1>3, <2>1, <2>3, <3>1
  <2>4. CASE o \notin W
    <3>1. PICK a \in W : around(a, o)
      BY <1>1, <1>9, <2>1, <2>2, <2>4
    <3>2. a \in 1..n /\ close(o) = close(a)
      BY <1>1, <1>5, <1>81, <2>2, <3>1 DEF around
    <3>3. t \in Copies(markup, both, a)
      BY <1>1, <1>8, <2>2, <3>1, <3>2 DEF Copies, around
    <3>4. a # n + 1
      BY <1>1, <3>2
    <3> QED
      BY <1>3, <3>3, <3>4
  <2> QED
    BY <2>3, <2>4
<1> QED
  BY <1>10

-------------------------------------------------------------------------------
(* What the walk keeps *)

Project == {path \in DOMAIN tree.files : Own(path)}
Packages == {None} \cup {PackageOf(tree, path.at) : path \in DOMAIN tree.files}

\* The importer that a file becomes, by one of its imports, of the package it loads.
ImporterOf(path, i) ==
  [file |-> path, site |-> i, from |-> PackageOf(tree, path.at),
   bindings |-> Bindings(tree.files[path], i),
   referenced |-> Referenced(tree.files[path], i), opaque |-> Opaque(tree.files[path], i)]

Importers == UNION {{ImporterOf(path, i) : i \in DOMAIN tree.files[path].decls} : path \in DOMAIN tree.files}
Entries == [chain : Seq(Packages), importers : SUBSET Importers, dynamic : BOOLEAN, incomplete : BOOLEAN]
Items == [file : DOMAIN tree.files, next : Nat \ {0}, from : Packages, chain : Seq(Packages)]

Tables ==
  /\ resolution = [path \in DOMAIN tree.files |->
                     [i \in DOMAIN tree.files[path].decls |-> Resolved(path, tree.files[path].decls[i])]]
  /\ loads = [path \in DOMAIN tree.files |->
                [i \in DOMAIN tree.files[path].decls |-> Loaded(path, tree.files[path].decls[i])]]

Scans == {[file |-> path, sites |-> ResolvedSites(path)] : path \in Project}

Typed ==
  /\ tree \in Trees /\ Tables
  /\ phase \in {"files", "walk", "lockfiles", "done"}
  /\ todo \in Seq(Project)
  /\ files \in Seq(Scans)
  /\ queue \in Seq(Items)
  /\ visited \subseteq DOMAIN tree.files /\ parsed \subseteq visited
  /\ DOMAIN reached \subseteq Packages /\ reached \in [DOMAIN reached -> Entries]

Read == {files[n].file : n \in DOMAIN files}

Phases ==
  /\ phase # "files" => todo = <<>>
  /\ phase # "walk" => queue = <<>>
  /\ phase = "files" => visited = {} /\ pastBudget = {}
  /\ phase \in {"lockfiles", "done"} /\ pastBudget # {} => [file |-> None, kind |-> "walk"] \in unanalyzable

\* No source is lost, and what is lost of one that was scanned is told.
SourcesKept ==
  /\ \A path \in Sources : \/ \E n \in DOMAIN todo : todo[n] = path
                           \/ path \in Read
                           \/ [file |-> path, kind |-> "file"] \in unanalyzable
  /\ \A path \in Read :
       /\ tree.files[path].dynamic => path \in dynamicUnknown
       /\ FALSE \notin ParseErrors(tree.files[path]) => [file |-> path, kind |-> "file-partial"] \in unanalyzable

\* Each item of the queue is of the package its file is in, which has an entry.
QueueKnown ==
  \A n \in DOMAIN queue :
    /\ queue[n].from = PackageOf(tree, queue[n].file.at)
    /\ queue[n].from # None => queue[n].from \in DOMAIN reached

\* What has been loaded was parsed, or else is told, and the package of what was
\* parsed has an entry.
VisitedKnown ==
  /\ \A path \in visited : path \in parsed \/ path \in pastBudget
                           \/ [file |-> path, kind |-> "node-modules-file"] \in unanalyzable
  /\ \A path \in parsed :
       LET pkg == PackageOf(tree, path.at) IN
       pkg # None /\ pkg \in DOMAIN reached /\ (tree.files[path].dynamic => reached[pkg].dynamic)

\* What following an import of a file leaves behind.
Followed(path, i) ==
  LET r == resolution[path][i]
      pkg == PackageOf(tree, path.at)
      name == BareNameOf(tree.files[path].decls[i].spec) IN
  /\ r.kind = "unresolved" =>
       /\ name # None => name \in DOMAIN missing
       /\ name = None /\ pkg # None => pkg \in DOMAIN reached /\ reached[pkg].incomplete
  /\ r.kind \in {"file", "asset"} /\ r.pkg # None =>
       /\ r.pkg \in DOMAIN reached
       /\ r.pkg # pkg => ImporterOf(path, i) \in reached[r.pkg].importers
       /\ r.kind = "file" => r.path \in visited

Pending(path, i) == \E n \in DOMAIN queue : queue[n].file = path /\ queue[n].next <= i

\* Every import of a file whose imports are followed has been, or will be.
AllFollowed ==
  phase # "files" /\ tree.moduleGraph =>
    \A path \in Scanned : \A i \in SitesOf(tree.files[path]) :
      tree.files[path].decls[i].kind # "type-only-import" => Followed(path, i) \/ Pending(path, i)

WalkInv == Typed /\ Phases /\ SourcesKept /\ QueueKnown /\ VisitedKnown /\ AllFollowed

-------------------------------------------------------------------------------
(* The walk: what a step starts from *)

\* The tables hold what the imports resolve to, and the files they name are there.
LEMMA TablesSound ==
  ASSUME Typed, NEW path \in DOMAIN tree.files, NEW i \in DOMAIN tree.files[path].decls
  PROVE  /\ resolution[path][i] = Resolved(path, tree.files[path].decls[i])
         /\ Sound(tree, resolution[path][i])
         /\ ~PastBuiltin(tree.files[path].decls[i].spec) => loads[path][i] = resolution[path][i]
<1> DEFINE decl == tree.files[path].decls[i]
<1>1. resolution[path][i] = Resolved(path, decl) /\ loads[path][i] = Loaded(path, decl)
  BY DEF Typed, Tables
<1>2. decl.spec.form \in {"node", "url", "relative", "imports", "bare"}
  BY TreesAssumption DEF Typed, TreeShape, FileShape
<1>3. Sound(tree, Resolved(path, decl))
  <2> HIDE DEF decl
  <2> QED
    BY <1>2, ResolveSound DEF Resolved
<1> QED
  BY <1>1, <1>3 DEF Loaded

\* What an import loads, too, is there and in the package it is said to be in.
LEMMA LoadsSound ==
  ASSUME Typed, NEW path \in DOMAIN tree.files, NEW i \in DOMAIN tree.files[path].decls
  PROVE  Sound(tree, loads[path][i])
<1> DEFINE decl == tree.files[path].decls[i]
<1>1. loads[path][i] = Loaded(path, decl)
  BY DEF Typed, Tables
<1>2. Sound(tree, resolution[path][i]) /\ resolution[path][i] = Resolved(path, decl)
  BY TablesSound
<1> HIDE DEF decl
<1> QED
  BY <1>1, <1>2, ResolveNameSound DEF Loaded

\* Nothing has been read, and every source is still to be.
LEMMA WalkInit == Init => WalkInv
<1> SUFFICES ASSUME Init PROVE WalkInv
  OBVIOUS
<1>1. tree \in Trees /\ TreeShape(tree)
  BY TreesAssumption DEF Init
<1>0. /\ phase = "files" /\ todo = tree.sources /\ files = <<>> /\ queue = <<>>
      /\ visited = {} /\ parsed = {} /\ pastBudget = {} /\ reached = <<>>
  BY DEF Init
<1>2. tree.sources \in Seq(Project)
  BY <1>1 DEF TreeShape, Project, Own
<1>3. Typed
  <2>1. queue \in Seq(Items) /\ files \in Seq(Scans)
    <3>1. \A S : <<>> \in Seq(S)
      OBVIOUS
    <3> QED
      BY <1>0, <3>1, Zenon
  <2>2. visited = {} /\ parsed = {} /\ DOMAIN reached = {} /\ reached \in [DOMAIN reached -> Entries]
    <3>1. reached = <<>>
      BY DEF Init
    <3>2. reached \in [{} -> Entries]
      BY <3>1
    <3> QED
      BY <3>1, <3>2 DEF Init
  <2>3. Tables
    BY DEF Tables, Init
  <2> QED
    BY <1>0, <1>1, <1>2, <2>1, <2>2, <2>3 DEF Typed
<1>4. Phases
  BY DEF Phases, Init
<1>5. SourcesKept
  <2>1. DOMAIN files = {}
    BY <1>0
  <2> QED
    BY <1>0, <2>1 DEF SourcesKept, Sources, Read
<1>6. QueueKnown /\ VisitedKnown /\ AllFollowed
  <2>1. DOMAIN queue = {}
    BY <1>0
  <2> QED
    BY <1>0, <2>1 DEF QueueKnown, VisitedKnown, AllFollowed
<1> QED
  BY <1>3, <1>4, <1>5, <1>6 DEF WalkInv

\* What is true of the item whose imports are followed.
LEMMA ItemKnown ==
  ASSUME WalkInv, queue # <<>>
  PROVE  /\ 1 \in DOMAIN queue /\ Item = queue[1] /\ Item \in Items
         /\ Item.file \in DOMAIN tree.files /\ Item.next \in Nat /\ Item.next > 0 /\ Item.chain \in Seq(Packages)
         /\ Item.from = PackageOf(tree, Item.file.at)
         /\ Item.from # None => Item.from \in DOMAIN reached
<1>1. queue \in Seq(Items)
  BY DEF WalkInv, Typed
<1>2. 1 \in DOMAIN queue /\ Head(queue) = queue[1] /\ queue[1] \in Items
  BY <1>1
<1>3. Item.file \in DOMAIN tree.files /\ Item.next \in Nat /\ Item.next > 0 /\ Item.chain \in Seq(Packages)
  BY <1>2 DEF Item, Items
<1> QED
  BY <1>2, <1>3 DEF Item, WalkInv, QueueKnown

\* An import that is followed is resolved to what the tables say.
LEMMA FollowingKnown ==
  ASSUME WalkInv, NEW kinds, Following(kinds)
  PROVE  LET r == resolution[Item.file][Item.next] IN
         /\ queue # <<>> /\ phase = "walk"
         /\ Item.next \in DOMAIN ItemFile.decls /\ r.kind \in kinds
         /\ r.kind \in {"file", "asset"} =>
              r.path \in DOMAIN tree.files /\ r.pkg = PackageOf(tree, r.path.at) /\ r.pkg \in Packages
<1>1. queue # <<>> /\ phase = "walk" /\ Item.next \in DOMAIN ItemFile.decls
      /\ resolution[Item.file][Item.next].kind \in kinds
  BY DEF Following, SitesOf
<1>2. Sound(tree, resolution[Item.file][Item.next])
  BY <1>1, ItemKnown, TablesSound DEF WalkInv, ItemFile
<1> QED
  BY <1>1, <1>2 DEF Sound, Packages

-------------------------------------------------------------------------------
(* The walk: what a step leaves *)

\* Nothing that is known is forgotten.
Grows ==
  /\ \A pkg \in DOMAIN reached :
       /\ pkg \in DOMAIN reached'
       /\ reached[pkg].importers \subseteq reached'[pkg].importers
       /\ reached[pkg].dynamic => reached'[pkg].dynamic
       /\ reached[pkg].incomplete => reached'[pkg].incomplete
  /\ DOMAIN missing \subseteq DOMAIN missing' /\ visited \subseteq visited'

\* What has been followed remains so, as its traces only grow.
LEMMA StaysFollowed ==
  ASSUME Grows, UNCHANGED given, NEW path, NEW i, Followed(path, i)
  PROVE  Followed(path, i)'
BY DEF Grows, Followed, given, ImporterOf

\* An entry is written over one that knows less.
LEMMA WithGrows ==
  ASSUME WalkInv, NEW pkg \in Packages, NEW entry \in Entries, reached' = With(reached, pkg, entry),
         pkg \in DOMAIN reached =>
           /\ reached[pkg].importers \subseteq entry.importers
           /\ reached[pkg].dynamic => entry.dynamic
           /\ reached[pkg].incomplete => entry.incomplete
  PROVE  /\ DOMAIN reached' = DOMAIN reached \cup {pkg} /\ reached'[pkg] = entry
         /\ DOMAIN reached' \subseteq Packages /\ reached' \in [DOMAIN reached' -> Entries]
         /\ \A q \in DOMAIN reached :
              /\ q \in DOMAIN reached'
              /\ reached[q].importers \subseteq reached'[q].importers
              /\ reached[q].dynamic => reached'[q].dynamic
              /\ reached[q].incomplete => reached'[q].incomplete
<1>1. DOMAIN reached \subseteq Packages /\ \A q \in DOMAIN reached : reached[q] \in Entries
  BY DEF WalkInv, Typed
<1> QED
  BY <1>1 DEF With

\* What Reach says of a package.
LEMMA ReachKnown ==
  ASSUME WalkInv, NEW kinds, Following(kinds), NEW pkg \in Packages
  PROVE  /\ Reach(pkg) \in Entries
         /\ pkg \in DOMAIN reached =>
              /\ reached[pkg].importers \subseteq Reach(pkg).importers
              /\ Reach(pkg).dynamic = reached[pkg].dynamic /\ Reach(pkg).incomplete = reached[pkg].incomplete
         /\ Item.from # pkg => ImporterOf(Item.file, Item.next) \in Reach(pkg).importers
<1> DEFINE importer == [file |-> Item.file, site |-> Item.next, from |-> Item.from,
                        bindings |-> Bindings(ItemFile, Item.next),
                        referenced |-> Referenced(ItemFile, Item.next), opaque |-> Opaque(ItemFile, Item.next)]
           entry == IF pkg \in DOMAIN reached THEN reached[pkg]
                    ELSE [chain |-> Append(Item.chain, pkg), importers |-> {}, dynamic |-> FALSE, incomplete |-> FALSE]
<1>1. /\ Item.next \in DOMAIN ItemFile.decls /\ Item.file \in DOMAIN tree.files /\ Item.chain \in Seq(Packages)
      /\ Item.from = PackageOf(tree, Item.file.at)
  BY FollowingKnown, ItemKnown
<1>2. importer = ImporterOf(Item.file, Item.next) /\ importer \in Importers
  BY <1>1 DEF ImporterOf, Importers, ItemFile
<1>3. entry \in Entries
  <2>1. Append(Item.chain, pkg) \in Seq(Packages)
    BY <1>1
  <2>2. pkg \in DOMAIN reached => reached[pkg] \in Entries
    BY DEF WalkInv, Typed
  <2> QED
    BY <2>1, <2>2 DEF Entries
<1>4. Reach(pkg) = IF Item.from = pkg THEN entry ELSE [entry EXCEPT !.importers = @ \cup {importer}]
  BY DEF Reach
<1> HIDE DEF importer
<1>5. [entry EXCEPT !.importers = @ \cup {importer}] \in Entries
      /\ [entry EXCEPT !.importers = @ \cup {importer}].importers = entry.importers \cup {importer}
      /\ [entry EXCEPT !.importers = @ \cup {importer}].dynamic = entry.dynamic
      /\ [entry EXCEPT !.importers = @ \cup {importer}].incomplete = entry.incomplete
  <2> HIDE DEF entry
  <2> QED
    BY <1>2, <1>3 DEF Entries
<1>6. pkg \in DOMAIN reached => entry = reached[pkg]
  OBVIOUS
<1> HIDE DEF entry
<1> QED
  BY <1>2, <1>3, <1>4, <1>5, <1>6

\* Following one import on, what is pending but that import stays pending.
LEMMA QueueMoves ==
  ASSUME WalkInv, queue # <<>>
  PROVE  /\ Advance \in Seq(Items) /\ DOMAIN Advance = DOMAIN queue
         /\ Advance[1].file = Item.file /\ Advance[1].next = Item.next + 1 /\ Advance[1].from = Item.from
         /\ \A n \in DOMAIN queue : n # 1 => Advance[n] = queue[n]
         /\ Tail(queue) \in Seq(Items)
         /\ \A n \in DOMAIN Tail(queue) : n + 1 \in DOMAIN queue /\ Tail(queue)[n] = queue[n + 1]
         /\ \A n \in DOMAIN queue : n # 1 => n - 1 \in DOMAIN Tail(queue) /\ Tail(queue)[n - 1] = queue[n]
<1>1. queue \in Seq(Items) /\ 1 \in DOMAIN queue /\ Item = queue[1] /\ Item \in Items
  BY ItemKnown DEF WalkInv, Typed
<1>2. Advance = [queue EXCEPT ![1] = [Item EXCEPT !.next = Item.next + 1]]
  BY <1>1 DEF Advance
<1>3. /\ [Item EXCEPT !.next = Item.next + 1] \in Items
      /\ [Item EXCEPT !.next = Item.next + 1].next = Item.next + 1
      /\ [Item EXCEPT !.next = Item.next + 1].file = Item.file
      /\ [Item EXCEPT !.next = Item.next + 1].from = Item.from
  <2> DEFINE item == Item
  <2>1. item \in Items
    BY <1>1
  <2> HIDE DEF item
  <2>2. item.next + 1 \in Nat \ {0}
    BY <2>1 DEF Items
  <2>3. [item EXCEPT !.next = item.next + 1] \in Items
    BY <2>1, <2>2 DEF Items
  <2>4. /\ [item EXCEPT !.next = item.next + 1].next = item.next + 1
        /\ [item EXCEPT !.next = item.next + 1].file = item.file
        /\ [item EXCEPT !.next = item.next + 1].from = item.from
    BY <2>1 DEF Items
  <2> QED
    BY <2>3, <2>4 DEF item
<1>4. Advance \in Seq(Items) /\ DOMAIN Advance = DOMAIN queue /\ Advance[1] = [Item EXCEPT !.next = Item.next + 1]
      /\ \A n \in DOMAIN queue : n # 1 => Advance[n] = queue[n]
  BY <1>1, <1>2, <1>3
<1>5. /\ Tail(queue) \in Seq(Items)
      /\ \A n \in DOMAIN Tail(queue) : n + 1 \in DOMAIN queue /\ Tail(queue)[n] = queue[n + 1]
      /\ \A n \in DOMAIN queue : n # 1 => n - 1 \in DOMAIN Tail(queue) /\ Tail(queue)[n - 1] = queue[n]
  BY <1>1
<1> QED
  BY <1>3, <1>4, <1>5

\* A step that keeps the tree keeps all that is defined by it.
LEMMA GivenKept ==
  ASSUME UNCHANGED given
  PROVE  /\ Packages' = Packages /\ Items' = Items /\ Entries' = Entries /\ Project' = Project /\ Sources' = Sources
         /\ Tables => Tables'
         /\ Scans' = Scans
<1>1. tree' = tree /\ resolution' = resolution /\ loads' = loads
  BY DEF given
<1>2. Packages' = Packages /\ Project' = Project /\ Importers' = Importers /\ Sources' = Sources
  BY <1>1 DEF Packages, Project, Importers, ImporterOf, Own, Sources
<1>3. Items' = Items /\ Entries' = Entries
  BY <1>1, <1>2 DEF Items, Entries
<1>4. Tables => Tables'
  BY <1>1 DEF Tables, Resolved, Loaded
<1>5. Scans' = Scans
  BY <1>1, <1>2 DEF Scans, ResolvedSites
<1> QED
  BY <1>2, <1>3, <1>4, <1>5

\* A step of the walk goes on to the next import of the item, has followed the one
\* it was at, forgets nothing, and tells of what it loads.
Advances(file, site) ==
  /\ phase = "walk" /\ queue # <<>> /\ file = Item.file /\ site = Item.next
  /\ UNCHANGED <<given, phase, todo, files, dynamicUnknown>> /\ Grows /\ unanalyzable \subseteq unanalyzable'
  /\ DOMAIN reached' \subseteq Packages /\ reached' \in [DOMAIN reached' -> Entries]
  /\ queue' \in Seq(Items) /\ \A n \in DOMAIN Advance : n \in DOMAIN queue' /\ queue'[n] = Advance[n]
  /\ \A n \in DOMAIN queue' \ DOMAIN Advance :
       /\ queue'[n].from = PackageOf(tree, queue'[n].file.at)
       /\ queue'[n].from # None => queue'[n].from \in DOMAIN reached'
  /\ parsed \subseteq parsed' /\ parsed' \subseteq visited' /\ visited' \subseteq DOMAIN tree.files
  /\ pastBudget \subseteq pastBudget'
  /\ \A path \in visited' \ visited : path \in parsed' \/ path \in pastBudget'
                                      \/ [file |-> path, kind |-> "node-modules-file"] \in unanalyzable'
  /\ \A path \in parsed' \ parsed :
       /\ \E n \in DOMAIN queue' : queue'[n].file = path /\ queue'[n].next = 1
       /\ PackageOf(tree, path.at) # None /\ PackageOf(tree, path.at) \in DOMAIN reached'
       /\ tree.files[path].dynamic => reached'[PackageOf(tree, path.at)].dynamic
  /\ \/ site \notin SitesOf(tree.files[file]) \/ tree.files[file].decls[site].kind = "type-only-import"
     \/ Followed(file, site)'

\* A step that follows the next import of the first item, and leaves its trace, keeps the invariant.
LEMMA Advanced ==
  ASSUME WalkInv, NEW file, NEW site, Advances(file, site)
  PROVE  WalkInv'
<1> USE DEF Advances
<1>1. tree' = tree /\ resolution' = resolution /\ loads' = loads /\ phase' = "walk" /\ todo' = todo /\ files' = files
      /\ dynamicUnknown' = dynamicUnknown
  BY DEF given
<1>2. Packages' = Packages /\ Items' = Items /\ Entries' = Entries /\ Project' = Project
  BY GivenKept
<1>3. Typed'
  <2>1. Tables' /\ Scans' = Scans
    BY <1>1, <1>2, GivenKept DEF WalkInv, Typed
  <2>2. tree' \in Trees /\ todo' \in Seq(Project') /\ files' \in Seq(Scans')
    BY <1>1, <1>2, <2>1 DEF WalkInv, Typed
  <2> QED
    BY <1>1, <1>2, <2>1, <2>2 DEF Typed
<1>4. Phases'
  BY <1>1 DEF Phases, WalkInv
<1>5. SourcesKept'
  <2>1. Sources' = Sources /\ Read' = Read /\ unanalyzable \subseteq unanalyzable'
    BY <1>1 DEF Sources, Read
  <2> HIDE DEF Advances
  <2>2. SourcesKept
    BY DEF WalkInv
  <2>3. ASSUME NEW path \in Read, FALSE \notin ParseErrors(tree.files[path])
        PROVE  [file |-> path, kind |-> "file-partial"] \in unanalyzable'
    BY <2>1, <2>2, <2>3 DEF SourcesKept
  <2>4. \A path \in Sources : \/ \E n \in DOMAIN todo' : todo'[n] = path
                             \/ path \in Read
                             \/ [file |-> path, kind |-> "file"] \in unanalyzable'
    BY <1>1, <2>1, <2>2 DEF SourcesKept
  <2>5. \A path \in Read : tree.files[path].dynamic => path \in dynamicUnknown'
    BY <1>1, <2>2 DEF SourcesKept
  <2> QED
    BY <1>1, <2>1, <2>3, <2>4, <2>5 DEF SourcesKept
<1>6. QueueKnown'
  <2>1. ASSUME NEW n \in DOMAIN queue'
        PROVE  /\ queue'[n].from = PackageOf(tree, queue'[n].file.at)
               /\ queue'[n].from # None => queue'[n].from \in DOMAIN reached'
    <3>1. CASE n \in DOMAIN Advance /\ n # 1
      BY <3>1, QueueMoves DEF WalkInv, QueueKnown, Grows
    <3>2. CASE n = 1
      BY <3>2, QueueMoves, ItemKnown DEF Grows
    <3> QED
      BY <3>1, <3>2
  <2> QED
    BY <1>1, <2>1 DEF QueueKnown
<1>7. VisitedKnown'
  <2>1. ASSUME NEW path \in visited'
        PROVE  path \in parsed' \/ path \in pastBudget'
               \/ [file |-> path, kind |-> "node-modules-file"] \in unanalyzable'
    BY DEF WalkInv, VisitedKnown
  <2>2. ASSUME NEW path \in parsed'
        PROVE  LET pkg == PackageOf(tree, path.at) IN
               pkg # None /\ pkg \in DOMAIN reached' /\ (tree.files[path].dynamic => reached'[pkg].dynamic)
    BY DEF WalkInv, VisitedKnown, Grows
  <2> QED
    BY <1>1, <2>1, <2>2 DEF VisitedKnown
<1>8. AllFollowed'
  <2>1. SUFFICES ASSUME tree.moduleGraph, NEW path \in Scanned', NEW i \in SitesOf(tree.files[path]),
                        tree.files[path].decls[i].kind # "type-only-import"
                 PROVE  Followed(path, i)' \/ \E n \in DOMAIN queue' : queue'[n].file = path /\ queue'[n].next <= i
    BY <1>1 DEF AllFollowed, Pending
  <2>6. parsed' \subseteq DOMAIN tree.files
    OBVIOUS
  <2>2. i \in Nat /\ i > 0
    <3> HIDE DEF Advances
    <3>1. path \in DOMAIN tree.files
      <4>1. \A n \in DOMAIN files : files[n].file \in DOMAIN tree.files
        BY DEF WalkInv, Typed, Scans, Project
      <4> QED
        BY <1>1, <2>6, <4>1 DEF Scanned
    <3>2. tree.files[path].decls \in Seq({tree.files[path].decls[n] : n \in DOMAIN tree.files[path].decls})
      BY <3>1, TreesAssumption DEF WalkInv, Typed, TreeShape, FileShape
    <3> QED
      BY <3>2 DEF SitesOf
  <2>3. CASE path \in parsed' \ parsed
    BY <2>2, <2>3
  <2>4. CASE path \in Scanned
    <3>1. Followed(path, i) \/ Pending(path, i)
      BY <2>1, <2>4 DEF WalkInv, AllFollowed
    <3>2. CASE Followed(path, i)
      BY <3>2, <1>1, StaysFollowed DEF given
    <3>3. CASE Pending(path, i)
      <4>1. PICK n \in DOMAIN queue : queue[n].file = path /\ queue[n].next <= i
        BY <3>3 DEF Pending
      <4>2. CASE n # 1
        BY <4>1, <4>2, QueueMoves
      <4>3. CASE n = 1 /\ i # Item.next
        <5>1. Item.next \in Nat /\ Item.next + 1 <= i
          BY <2>2, <4>1, <4>3, ItemKnown
        <5> QED
          BY <4>1, <4>3, <5>1, QueueMoves, ItemKnown
      <4>4. CASE n = 1 /\ i = Item.next
        <5>1. path = file /\ i = site /\ ItemFile = tree.files[path]
          BY <4>1, <4>4, ItemKnown DEF ItemFile
        <5> QED
          BY <2>1, <4>4, <5>1
      <4> QED
        BY <4>2, <4>3, <4>4
    <3> QED
      BY <3>1, <3>2, <3>3
  <2>5. path \in Scanned \/ path \in parsed' \ parsed
    BY <1>1 DEF Scanned
  <2> QED
    BY <2>3, <2>4, <2>5
<1> QED
  BY <1>3, <1>4, <1>5, <1>6, <1>7, <1>8 DEF WalkInv

\* The steps that go on without loading anything.
LEMMA SkipKeeps ==
  ASSUME WalkInv, SkipNoLoad
  PROVE  WalkInv'
<1> PICK f, s : f = Item.file /\ s = Item.next
  OBVIOUS
<1>1. /\ phase = "walk" /\ queue # <<>> /\ queue' = Advance /\ tree.files[f] = ItemFile
      /\ s \notin SitesOf(ItemFile) \/ ItemFile.decls[s].kind = "type-only-import"
      /\ UNCHANGED <<given, phase, todo, files, unanalyzable, dynamicUnknown, visited, parsed, pastBudget, reached, missing>>
  BY DEF SkipNoLoad, ItemFile
<1>2. Grows
  BY <1>1 DEF Grows
<1>3. Advance \in Seq(Items)
  BY <1>1, QueueMoves
<1>4. Advances(f, s)
  BY <1>1, <1>2, <1>3 DEF Advances, WalkInv, Typed
<1> QED
  BY <1>4, Advanced

\* An import of a builtin, of an alias or of the project's own leaves no trace.
LEMMA ElsewhereKeeps ==
  ASSUME WalkInv, FollowElsewhere
  PROVE  WalkInv'
<1> PICK f, s : f = Item.file /\ s = Item.next
  OBVIOUS
<1> DEFINE r == resolution[f][s]
<1>1. /\ phase = "walk" /\ queue # <<>> /\ queue' = Advance /\ tree.files[f] = ItemFile
      /\ r.kind \in {"builtin", "alias", "file", "asset"} /\ (r.kind \in {"file", "asset"} => r.pkg = None)
      /\ UNCHANGED <<given, phase, todo, files, unanalyzable, dynamicUnknown, visited, parsed, pastBudget, reached, missing>>
  BY DEF FollowElsewhere, Following, ItemFile
<1>2. Grows
  BY <1>1 DEF Grows
<1>3. Advance \in Seq(Items)
  BY <1>1, QueueMoves
<1>4. Followed(f, s)'
  BY <1>1 DEF Followed, given
<1>5. Advances(f, s)
  BY <1>1, <1>2, <1>3, <1>4, SMTT(30) DEF Advances, WalkInv, Typed
<1> QED
  BY <1>5, Advanced

\* One that is not found has its name listed or its package incomplete.
LEMMA UnresolvedKeeps ==
  ASSUME WalkInv, FollowUnresolved
  PROVE  WalkInv'
<1> PICK f, s : f = Item.file /\ s = Item.next
  OBVIOUS
<1> DEFINE r == resolution[f][s]
           name == BareNameOf(tree.files[f].decls[s].spec)
           list == IF name \in DOMAIN missing THEN missing[name] ELSE <<>>
           from == PackageOf(tree, f.at)
<1>1. /\ phase = "walk" /\ queue # <<>> /\ queue' = Advance /\ tree.files[f] = ItemFile /\ r.kind = "unresolved"
      /\ UNCHANGED <<given, phase, todo, files, unanalyzable, dynamicUnknown, visited, parsed, pastBudget>>
      /\ IF name # None
         THEN /\ missing' = With(missing, name, IF Len(list) < Listed THEN Append(list, f) ELSE list)
              /\ UNCHANGED reached
         ELSE /\ reached' = IF Item.from = None THEN reached ELSE [reached EXCEPT ![Item.from].incomplete = TRUE]
              /\ UNCHANGED missing
  BY DEF FollowUnresolved, Following, ItemFile
<1>2. Advance \in Seq(Items) /\ Item.from = from /\ (from # None => from \in DOMAIN reached)
  BY <1>1, QueueMoves, ItemKnown
<1>3. DOMAIN reached \subseteq Packages /\ reached \in [DOMAIN reached -> Entries]
  BY DEF WalkInv, Typed
<1>4. /\ Grows /\ DOMAIN reached' \subseteq Packages /\ reached' \in [DOMAIN reached' -> Entries]
      /\ name # None => name \in DOMAIN missing'
      /\ name = None /\ from # None => from \in DOMAIN reached' /\ reached'[from].incomplete
  <2>1. CASE name # None
    <3>1. DOMAIN missing' = DOMAIN missing \cup {name} /\ reached' = reached
      BY <1>1, <2>1 DEF With
    <3> QED
      BY <1>1, <1>3, <2>1, <3>1 DEF Grows
  <2>2. CASE name = None /\ from = None
    BY <1>1, <1>2, <1>3, <2>2 DEF Grows
  <2>3. CASE name = None /\ from # None
    <3> DEFINE entry == [reached[from] EXCEPT !.incomplete = TRUE]
    <3>1. /\ entry \in Entries /\ entry.incomplete = TRUE
          /\ entry.importers = reached[from].importers /\ entry.dynamic = reached[from].dynamic
      <4>1. reached[from] \in Entries
        BY <1>2, <1>3, <2>3
      <4> QED
        BY <4>1 DEF Entries
    <3>2. reached' = [reached EXCEPT ![from] = entry] /\ missing' = missing
      BY <1>1, <1>2, <2>3
    <3> HIDE DEF entry
    <3>3. DOMAIN reached' = DOMAIN reached /\ reached'[from] = entry
          /\ \A q \in DOMAIN reached : q # from => reached'[q] = reached[q]
      BY <1>2, <1>3, <2>3, <3>2
    <3>4. reached' \in [DOMAIN reached -> Entries]
      BY <1>3, <3>1, <3>2
    <3> QED
      BY <1>1, <1>2, <1>3, <2>3, <3>1, <3>2, <3>3, <3>4 DEF Grows
  <2> QED
    BY <2>1, <2>2, <2>3
<1>5. Followed(f, s)'
  BY <1>1, <1>4 DEF Followed, given
<1>6. Advances(f, s)
  BY <1>1, <1>2, <1>4, <1>5 DEF Advances, WalkInv, Typed
<1> QED
  BY <1>6, Advanced

\* The entry a loaded file leaves is no less than Reach says.
LEMMA ReachedGrows ==
  ASSUME WalkInv, NEW kinds, Following(kinds), NEW pkg \in Packages, NEW entry \in Entries,
         reached' = Reached(pkg, entry), missing' = missing, visited \subseteq visited',
         entry.importers = Reach(pkg).importers,
         Reach(pkg).dynamic => entry.dynamic, Reach(pkg).incomplete => entry.incomplete
  PROVE  /\ Grows /\ DOMAIN reached' \subseteq Packages /\ reached' \in [DOMAIN reached' -> Entries]
         /\ pkg \in DOMAIN reached' /\ reached'[pkg] = entry
         /\ PackageOf(tree, Item.file.at) # pkg => ImporterOf(Item.file, Item.next) \in reached'[pkg].importers
<1>1. /\ pkg \in DOMAIN reached =>
           /\ reached[pkg].importers \subseteq Reach(pkg).importers
           /\ Reach(pkg).dynamic = reached[pkg].dynamic /\ Reach(pkg).incomplete = reached[pkg].incomplete
      /\ Item.from # pkg => ImporterOf(Item.file, Item.next) \in Reach(pkg).importers
  BY ReachKnown
<1>2. Item.from = PackageOf(tree, Item.file.at)
  BY FollowingKnown, ItemKnown
<1>3. /\ DOMAIN reached' = DOMAIN reached \cup {pkg} /\ reached'[pkg] = entry
      /\ DOMAIN reached' \subseteq Packages /\ reached' \in [DOMAIN reached' -> Entries]
      /\ \A q \in DOMAIN reached :
           /\ q \in DOMAIN reached'
           /\ reached[q].importers \subseteq reached'[q].importers
           /\ reached[q].dynamic => reached'[q].dynamic
           /\ reached[q].incomplete => reached'[q].incomplete
  BY <1>1, WithGrows DEF Reached
<1>4. Grows
  BY <1>3 DEF Grows
<1> QED
  BY <1>1, <1>2, <1>3, <1>4

\* Following a file or an asset leaves the import followed if the file is visited then.
LEMMA LoadFollowed ==
  ASSUME WalkInv, NEW kinds \in SUBSET {"file", "asset"}, Following(kinds), UNCHANGED given,
         NEW file, file = Item.file, NEW site, site = Item.next,
         LET r == resolution[file][site] IN
           /\ r.pkg \in DOMAIN reached'
           /\ PackageOf(tree, file.at) # r.pkg => ImporterOf(file, site) \in reached'[r.pkg].importers
           /\ r.kind = "file" => r.path \in visited'
  PROVE  Followed(file, site)'
<1>1. resolution[file][site].kind \in {"file", "asset"}
  BY FollowingKnown
<1>2. tree' = tree /\ resolution' = resolution
  BY DEF given
<1>3. ImporterOf(file, site)' = ImporterOf(file, site)
  BY <1>2 DEF ImporterOf
<1> QED
  BY <1>1, <1>2, <1>3 DEF Followed

\* One of a file met before, or of an asset, has its package credited.
LEMMA LoadedKeeps ==
  ASSUME WalkInv, FollowLoaded
  PROVE  WalkInv'
<1> PICK f, s : f = Item.file /\ s = Item.next
  OBVIOUS
<1> DEFINE r == resolution[f][s]
           kinds == {"file", "asset"}
<1>1. /\ Following(kinds) /\ r.pkg # None /\ (r.kind = "asset" \/ r.path \in visited)
      /\ reached' = Reached(r.pkg, Reach(r.pkg)) /\ queue' = Advance
      /\ UNCHANGED <<given, phase, todo, files, unanalyzable, dynamicUnknown, visited, parsed, pastBudget, missing>>
  BY DEF FollowLoaded
<1> HIDE DEF kinds
<1>2. /\ queue # <<>> /\ phase = "walk" /\ (r.kind \in {"file", "asset"} => r.pkg \in Packages) /\ r.kind \in kinds
  BY <1>1, FollowingKnown
<1>3. r.pkg \in Packages /\ kinds \in SUBSET {"file", "asset"}
  BY <1>2 DEF kinds
<1>4. Reach(r.pkg) \in Entries
  BY <1>1, <1>3, ReachKnown
<1>5. /\ Grows /\ DOMAIN reached' \subseteq Packages /\ reached' \in [DOMAIN reached' -> Entries]
      /\ r.pkg \in DOMAIN reached'
      /\ PackageOf(tree, f.at) # r.pkg => ImporterOf(f, s) \in reached'[r.pkg].importers
  BY <1>1, <1>3, <1>4, ReachedGrows
<1>6. Followed(f, s)'
  BY <1>1, <1>2, <1>3, <1>5, LoadFollowed DEF kinds
<1>7. Advance \in Seq(Items) /\ tree.files[f] = ItemFile
  BY <1>2, QueueMoves DEF ItemFile
<1>8. Advances(f, s)
  BY <1>1, <1>2, <1>5, <1>6, <1>7 DEF Advances, WalkInv, Typed
<1> QED
  BY <1>8, Advanced

\* One past the budget has its file told.
LEMMA PastBudgetKeeps ==
  ASSUME WalkInv, FollowPastBudget
  PROVE  WalkInv'
<1> PICK f, s : f = Item.file /\ s = Item.next
  OBVIOUS
<1> DEFINE r == resolution[f][s]
           kinds == {"file"}
<1>1. /\ Following(kinds) /\ r.pkg # None
      /\ visited' = visited \cup {r.path} /\ pastBudget' = pastBudget \cup {r.path}
      /\ reached' = Reached(r.pkg, Reach(r.pkg)) /\ queue' = Advance
      /\ UNCHANGED <<given, phase, todo, files, unanalyzable, dynamicUnknown, parsed, missing>>
  BY DEF FollowPastBudget
<1> HIDE DEF kinds
<1>2. /\ queue # <<>> /\ phase = "walk" /\ r.kind \in kinds
      /\ r.kind \in {"file", "asset"} => r.pkg \in Packages /\ r.path \in DOMAIN tree.files
  BY <1>1, FollowingKnown
<1>3. r.pkg \in Packages /\ r.path \in DOMAIN tree.files /\ kinds \in SUBSET {"file", "asset"}
  BY <1>2 DEF kinds
<1>4. Reach(r.pkg) \in Entries
  BY <1>1, <1>3, ReachKnown
<1>5. /\ Grows /\ DOMAIN reached' \subseteq Packages /\ reached' \in [DOMAIN reached' -> Entries]
      /\ r.pkg \in DOMAIN reached'
      /\ PackageOf(tree, f.at) # r.pkg => ImporterOf(f, s) \in reached'[r.pkg].importers
  BY <1>1, <1>3, <1>4, ReachedGrows
<1>6. Followed(f, s)'
  BY <1>1, <1>2, <1>3, <1>5, LoadFollowed
<1>7. Advance \in Seq(Items) /\ tree.files[f] = ItemFile
  BY <1>2, QueueMoves DEF ItemFile
<1>8. Advances(f, s)
  BY <1>1, <1>2, <1>3, <1>5, <1>6, <1>7 DEF Advances, WalkInv, Typed
<1> QED
  BY <1>8, Advanced

\* So has one that cannot be read.
LEMMA UnreadKeeps ==
  ASSUME WalkInv, FollowUnread
  PROVE  WalkInv'
<1> PICK f, s : f = Item.file /\ s = Item.next
  OBVIOUS
<1> DEFINE r == resolution[f][s]
           kinds == {"file"}
           entry == [Reach(r.pkg) EXCEPT !.incomplete = TRUE]
<1>1. /\ Following(kinds) /\ r.pkg # None
      /\ visited' = visited \cup {r.path} /\ reached' = Reached(r.pkg, entry) /\ queue' = Advance
      /\ unanalyzable' = unanalyzable \cup {[file |-> r.path, kind |-> "node-modules-file"]}
      /\ UNCHANGED <<given, phase, todo, files, dynamicUnknown, parsed, pastBudget, missing>>
  BY DEF FollowUnread
<1> HIDE DEF kinds
<1>2. /\ queue # <<>> /\ phase = "walk" /\ r.kind \in kinds
      /\ r.kind \in {"file", "asset"} => r.pkg \in Packages /\ r.path \in DOMAIN tree.files
  BY <1>1, FollowingKnown
<1>3. r.pkg \in Packages /\ r.path \in DOMAIN tree.files /\ kinds \in SUBSET {"file", "asset"}
  BY <1>2 DEF kinds
<1>4. /\ entry \in Entries /\ entry.importers = Reach(r.pkg).importers
      /\ entry.dynamic = Reach(r.pkg).dynamic /\ entry.incomplete
  <2>1. Reach(r.pkg) \in Entries
    BY <1>1, <1>3, ReachKnown
  <2> QED
    BY <2>1 DEF Entries
<1> HIDE DEF entry
<1>5. /\ Grows /\ DOMAIN reached' \subseteq Packages /\ reached' \in [DOMAIN reached' -> Entries]
      /\ r.pkg \in DOMAIN reached'
      /\ PackageOf(tree, f.at) # r.pkg => ImporterOf(f, s) \in reached'[r.pkg].importers
  BY <1>1, <1>3, <1>4, ReachedGrows
<1>6. Followed(f, s)'
  BY <1>1, <1>2, <1>3, <1>5, LoadFollowed
<1>7. Advance \in Seq(Items) /\ tree.files[f] = ItemFile
  BY <1>2, QueueMoves DEF ItemFile
<1>8. Advances(f, s)
  BY <1>1, <1>2, <1>3, <1>5, <1>6, <1>7 DEF Advances, WalkInv, Typed
<1> QED
  BY <1>8, Advanced

\* One that is read is put at the end of the queue.
LEMMA ParsedKeeps ==
  ASSUME WalkInv, FollowParsed
  PROVE  WalkInv'
<1> PICK f, s : f = Item.file /\ s = Item.next
  OBVIOUS
<1> DEFINE r == resolution[f][s]
           kinds == {"file"}
           entry == [Reach(r.pkg) EXCEPT !.dynamic = @ \/ tree.files[r.path].dynamic]
           item == [file |-> r.path, next |-> 1, from |-> r.pkg, chain |-> Reach(r.pkg).chain]
<1>1. /\ Following(kinds) /\ r.pkg # None
      /\ visited' = visited \cup {r.path} /\ parsed' = parsed \cup {r.path}
      /\ reached' = Reached(r.pkg, entry) /\ queue' = Append(Advance, item)
      /\ UNCHANGED <<given, phase, todo, files, unanalyzable, dynamicUnknown, pastBudget, missing>>
  BY DEF FollowParsed
<1> HIDE DEF kinds
<1>2. /\ queue # <<>> /\ phase = "walk" /\ r.kind \in kinds
      /\ r.kind \in {"file", "asset"} =>
           r.pkg \in Packages /\ r.path \in DOMAIN tree.files /\ r.pkg = PackageOf(tree, r.path.at)
  BY <1>1, FollowingKnown
<1>3. /\ r.pkg \in Packages /\ r.path \in DOMAIN tree.files /\ r.pkg = PackageOf(tree, r.path.at)
      /\ kinds \in SUBSET {"file", "asset"}
  BY <1>2 DEF kinds
<1>4. /\ entry \in Entries /\ entry.importers = Reach(r.pkg).importers
      /\ (Reach(r.pkg).dynamic => entry.dynamic) /\ (tree.files[r.path].dynamic => entry.dynamic)
      /\ entry.incomplete = Reach(r.pkg).incomplete
      /\ item \in Items
  <2>1. Reach(r.pkg) \in Entries
    BY <1>1, <1>3, ReachKnown
  <2>2. tree.files[r.path].dynamic \in BOOLEAN
    BY <1>3, TreesAssumption DEF WalkInv, Typed, TreeShape, FileShape
  <2>3. item \in Items
    BY <1>3, <2>1 DEF Entries, Items
  <2>4. (Reach(r.pkg).dynamic \/ tree.files[r.path].dynamic) \in BOOLEAN
    OBVIOUS
  <2> QED
    BY <2>1, <2>3, <2>4 DEF Entries
<1>5. item.file = r.path /\ item.next = 1 /\ item.from = r.pkg
  OBVIOUS
<1> HIDE DEF entry, item
<1>6. /\ Grows /\ DOMAIN reached' \subseteq Packages /\ reached' \in [DOMAIN reached' -> Entries]
      /\ r.pkg \in DOMAIN reached' /\ reached'[r.pkg] = entry
      /\ PackageOf(tree, f.at) # r.pkg => ImporterOf(f, s) \in reached'[r.pkg].importers
  BY <1>1, <1>3, <1>4, ReachedGrows
<1>7. Followed(f, s)'
  BY <1>1, <1>2, <1>3, <1>6, LoadFollowed
<1>8. tree.files[f] = ItemFile
  BY DEF ItemFile
<1>9. /\ queue' \in Seq(Items) /\ \A n \in DOMAIN Advance : n \in DOMAIN queue' /\ queue'[n] = Advance[n]
      /\ \A n \in DOMAIN queue' \ DOMAIN Advance : queue'[n] = item
      /\ \E n \in DOMAIN queue' : queue'[n] = item
  <2>1. Advance \in Seq(Items)
    BY <1>2, QueueMoves
  <2> DEFINE q == Advance
             qq == Append(q, item)
  <2> HIDE DEF q
  <2>2. /\ qq \in Seq(Items) /\ (\A n \in DOMAIN q : n \in DOMAIN qq /\ qq[n] = q[n])
        /\ (\A n \in DOMAIN qq \ DOMAIN q : qq[n] = item) /\ Len(qq) \in DOMAIN qq /\ qq[Len(qq)] = item
    BY <1>4, <2>1 DEF q
  <2> HIDE DEF qq
  <2>3. queue' = qq
    BY <1>1 DEF qq, q
  <2> QED
    BY <2>2, <2>3 DEF q
<1>10. /\ visited \subseteq DOMAIN tree.files /\ parsed \subseteq visited
  BY DEF WalkInv, Typed
<1>11. /\ parsed \subseteq parsed' /\ parsed' \subseteq visited' /\ visited' \subseteq DOMAIN tree.files
       /\ pastBudget \subseteq pastBudget' /\ unanalyzable \subseteq unanalyzable'
       /\ \A path \in visited' \ visited : path \in parsed'
  BY <1>1, <1>3, <1>10
<1>12. \A n \in DOMAIN queue' \ DOMAIN Advance :
         /\ queue'[n].from = PackageOf(tree, queue'[n].file.at)
         /\ queue'[n].from # None => queue'[n].from \in DOMAIN reached'
  BY <1>3, <1>5, <1>6, <1>9
<1>13. \A path \in parsed' \ parsed :
         /\ \E n \in DOMAIN queue' : queue'[n].file = path /\ queue'[n].next = 1
         /\ PackageOf(tree, path.at) # None /\ PackageOf(tree, path.at) \in DOMAIN reached'
         /\ tree.files[path].dynamic => reached'[PackageOf(tree, path.at)].dynamic
  <2>1. \A path \in parsed' \ parsed : path = r.path
    BY <1>1
  <2>2. \E n \in DOMAIN queue' : queue'[n].file = r.path /\ queue'[n].next = 1
    BY <1>5, <1>9
  <2>3. PackageOf(tree, r.path.at) # None /\ PackageOf(tree, r.path.at) \in DOMAIN reached'
    BY <1>1, <1>3, <1>6
  <2>4. tree.files[r.path].dynamic => reached'[PackageOf(tree, r.path.at)].dynamic
    BY <1>3, <1>4, <1>6
  <2> QED
    BY <2>1, <2>2, <2>3, <2>4
<1> HIDE DEF r
<1>14. Advances(f, s)
  BY <1>1, <1>2, <1>6, <1>7, <1>8, <1>9, <1>11, <1>12, <1>13 DEF Advances
<1> QED
  BY <1>14, Advanced

\* A step that leaves the walk as it is keeps what is known of it.
LEMMA RestKeeps ==
  ASSUME WalkInv, UNCHANGED <<given, todo, files, dynamicUnknown, walk>>, unanalyzable \subseteq unanalyzable',
         phase' \in {"files", "walk", "lockfiles", "done"}, phase = "files" <=> phase' = "files", Phases'
  PROVE  WalkInv'
<1>1. /\ tree' = tree /\ resolution' = resolution /\ loads' = loads /\ todo' = todo /\ files' = files
      /\ dynamicUnknown' = dynamicUnknown /\ queue' = queue /\ visited' = visited /\ parsed' = parsed
      /\ pastBudget' = pastBudget /\ reached' = reached /\ missing' = missing
  BY DEF given, walk
<1>2. Typed'
  <2>1. /\ Packages' = Packages /\ Items' = Items /\ Entries' = Entries /\ Project' = Project
        /\ Tables' /\ Scans' = Scans
    BY GivenKept DEF WalkInv, Typed
  <2> QED
    BY <1>1, <2>1 DEF WalkInv, Typed
<1>3. SourcesKept'
  BY <1>1 DEF WalkInv, SourcesKept, Sources, Read
<1>4. QueueKnown' /\ VisitedKnown'
  BY <1>1 DEF WalkInv, QueueKnown, VisitedKnown
<1>5. AllFollowed'
  <2>1. Grows
    BY <1>1 DEF Grows
  <2>2. SUFFICES ASSUME phase # "files", tree.moduleGraph, NEW path \in Scanned, NEW i \in SitesOf(tree.files[path]),
                        tree.files[path].decls[i].kind # "type-only-import"
                 PROVE  (Followed(path, i) \/ Pending(path, i))'
    BY <1>1 DEF AllFollowed, Scanned
  <2>3. Followed(path, i) \/ Pending(path, i)
    BY <2>2 DEF WalkInv, AllFollowed
  <2>4. Followed(path, i) => Followed(path, i)'
    BY <2>1, StaysFollowed
  <2>5. Pending(path, i) => Pending(path, i)'
    BY <1>1 DEF Pending
  <2> QED
    BY <2>3, <2>4, <2>5
<1> QED
  BY <1>2, <1>3, <1>4, <1>5 DEF WalkInv

\* An item whose imports are all followed leaves nothing behind.
LEMMA FollowedAllKeeps ==
  ASSUME WalkInv, FollowedAll
  PROVE  WalkInv'
<1>1. /\ phase = "walk" /\ queue # <<>> /\ Item.next > Len(ItemFile.decls) /\ queue' = Tail(queue)
      /\ tree' = tree /\ resolution' = resolution /\ loads' = loads /\ phase' = phase /\ todo' = todo /\ files' = files
      /\ unanalyzable' = unanalyzable /\ dynamicUnknown' = dynamicUnknown /\ visited' = visited /\ parsed' = parsed
      /\ pastBudget' = pastBudget /\ reached' = reached /\ missing' = missing /\ given' = given
  BY DEF FollowedAll, given
<1>2. /\ Tail(queue) \in Seq(Items)
      /\ \A n \in DOMAIN Tail(queue) : n + 1 \in DOMAIN queue /\ Tail(queue)[n] = queue[n + 1]
      /\ \A n \in DOMAIN queue : n # 1 => n - 1 \in DOMAIN Tail(queue) /\ Tail(queue)[n - 1] = queue[n]
  BY <1>1, QueueMoves
<1>3. Typed'
  <2>1. /\ Packages' = Packages /\ Items' = Items /\ Entries' = Entries /\ Project' = Project
        /\ Tables' /\ Scans' = Scans
    BY <1>1, GivenKept DEF WalkInv, Typed
  <2> QED
    BY <1>1, <1>2, <2>1 DEF WalkInv, Typed
<1>4. Phases'
  BY <1>1 DEF WalkInv, Phases
<1>5. SourcesKept'
  BY <1>1 DEF WalkInv, SourcesKept, Sources, Read
<1>6. VisitedKnown'
  BY <1>1 DEF WalkInv, VisitedKnown
<1>7. QueueKnown'
  BY <1>1, <1>2 DEF WalkInv, QueueKnown
<1>8. AllFollowed'
  <2>1. Grows
    BY <1>1 DEF Grows
  <2>2. SUFFICES ASSUME tree.moduleGraph, NEW path \in Scanned, NEW i \in SitesOf(tree.files[path]),
                        tree.files[path].decls[i].kind # "type-only-import"
                 PROVE  (Followed(path, i) \/ Pending(path, i))'
    BY <1>1 DEF AllFollowed, Scanned
  <2>3. Followed(path, i) \/ Pending(path, i)
    BY <1>1, <2>2 DEF WalkInv, AllFollowed
  <2>4. Followed(path, i) => Followed(path, i)'
    BY <1>1, <2>1, StaysFollowed
  <2>5. ASSUME NEW n \in DOMAIN queue, queue[n].file = path, queue[n].next <= i PROVE Pending(path, i)'
    <3>1. CASE n = 1
      <4>1. Item.file = path /\ Item.next <= i /\ Item.next \in Nat /\ Item.file \in DOMAIN tree.files
        BY <1>1, <2>5, <3>1, ItemKnown
      <4>2. ItemFile.decls \in Seq({ItemFile.decls[k] : k \in DOMAIN ItemFile.decls}) /\ i \in DOMAIN ItemFile.decls
        BY <2>2, <4>1, TreesAssumption DEF WalkInv, Typed, TreeShape, FileShape, ItemFile, SitesOf
      <4>3. i \in 1..Len(ItemFile.decls) /\ Len(ItemFile.decls) \in Nat
        BY <4>2
      <4> QED
        BY <1>1, <4>1, <4>3
    <3>2. CASE n # 1
      BY <1>1, <1>2, <2>5, <3>2 DEF Pending
    <3> QED
      BY <3>1, <3>2
  <2> QED
    BY <2>3, <2>4, <2>5 DEF Pending
<1> QED
  BY <1>3, <1>4, <1>5, <1>6, <1>7, <1>8 DEF WalkInv

\* A source is scanned or told.
LEMMA ReadSourceKeeps ==
  ASSUME WalkInv, ReadSource
  PROVE  WalkInv'
<1> PICK path : path = Head(todo)
  OBVIOUS
<1> DEFINE file == tree.files[path]
           scan == [file |-> path, sites |-> ResolvedSites(path)]
<1>1. /\ phase = "files" /\ todo # <<>> /\ todo' = Tail(todo) /\ phase' = phase
      /\ tree' = tree /\ resolution' = resolution /\ loads' = loads /\ queue' = queue /\ visited' = visited
      /\ parsed' = parsed /\ pastBudget' = pastBudget /\ reached' = reached /\ missing' = missing /\ given' = given
      /\ \/ /\ files' = Append(files, scan)
            /\ dynamicUnknown' = IF file.dynamic THEN dynamicUnknown \cup {path} ELSE dynamicUnknown
            /\ \E told \in ParseErrors(file) :
                 unanalyzable' = IF told THEN unanalyzable \cup {[file |-> path, kind |-> "file-partial"]}
                                 ELSE unanalyzable
         \/ /\ unanalyzable' = unanalyzable \cup {[file |-> path, kind |-> "file"]}
            /\ UNCHANGED <<files, dynamicUnknown>>
  BY DEF ReadSource, given, walk
<1>2. /\ todo \in Seq(Project) /\ path \in Project /\ Tail(todo) \in Seq(Project)
      /\ \A n \in DOMAIN todo : n # 1 => n - 1 \in DOMAIN Tail(todo) /\ Tail(todo)[n - 1] = todo[n]
      /\ 1 \in DOMAIN todo => todo[1] = path
  <2>1. todo \in Seq(Project) /\ todo # <<>>
    BY <1>1 DEF WalkInv, Typed
  <2> QED
    BY <2>1
<1>3. files \in Seq(Scans) /\ scan \in Scans
  BY <1>2 DEF WalkInv, Typed, Scans
<1>4. scan.file = path
  OBVIOUS
<1> HIDE DEF scan
<1>5. /\ Append(files, scan) \in Seq(Scans) /\ Len(files) + 1 \in DOMAIN Append(files, scan)
      /\ Append(files, scan)[Len(files) + 1] = scan
      /\ \A n \in DOMAIN files : n \in DOMAIN Append(files, scan) /\ Append(files, scan)[n] = files[n]
      /\ \A n \in DOMAIN Append(files, scan) : n \in DOMAIN files \/ Append(files, scan)[n] = scan
  BY <1>3
<1>6. Typed'
  <2>1. /\ Packages' = Packages /\ Items' = Items /\ Entries' = Entries /\ Project' = Project
        /\ Tables' /\ Scans' = Scans
    BY <1>1, GivenKept DEF WalkInv, Typed
  <2>2. files' \in Seq(Scans)
    BY <1>1, <1>3, <1>5
  <2> QED
    BY <1>1, <1>2, <2>1, <2>2 DEF WalkInv, Typed
<1>7. Phases'
  BY <1>1 DEF WalkInv, Phases
<1>8. /\ Read \subseteq Read' /\ unanalyzable \subseteq unanalyzable' /\ dynamicUnknown \subseteq dynamicUnknown'
      /\ \A q \in Read' : q \in Read \/ (q = path /\ path \in Read' /\ files' # files)
      /\ path \in Read' \/ [file |-> path, kind |-> "file"] \in unanalyzable'
  <2>1. CASE UNCHANGED files
    BY <1>1, <1>4, <1>5, <2>1 DEF Read
  <2>2. CASE files' # files
    <3>1. files' = Append(files, scan)
      BY <1>1, <2>2
    <3>2. \A q \in Read' : q \in Read \/ q = path
      BY <1>4, <1>5, <3>1 DEF Read
    <3>3. Read \subseteq Read' /\ path \in Read'
      BY <1>4, <1>5, <3>1 DEF Read
    <3> QED
      BY <1>1, <2>2, <3>2, <3>3
  <2> QED
    BY <2>1, <2>2
<1>9. SourcesKept'
  <2>1. ASSUME NEW q \in Sources
        PROVE  \/ \E n \in DOMAIN Tail(todo) : Tail(todo)[n] = q
               \/ q \in Read'
               \/ [file |-> q, kind |-> "file"] \in unanalyzable'
    <3>1. \/ \E n \in DOMAIN todo : todo[n] = q
          \/ q \in Read
          \/ [file |-> q, kind |-> "file"] \in unanalyzable
      BY DEF WalkInv, SourcesKept
    <3>2. ASSUME NEW n \in DOMAIN todo, todo[n] = q PROVE q = path \/ \E k \in DOMAIN Tail(todo) : Tail(todo)[k] = q
      BY <1>2, <3>2
    <3> QED
      BY <1>8, <3>1, <3>2
  <2>2. ASSUME NEW q \in Read'
        PROVE  /\ tree.files[q].dynamic => q \in dynamicUnknown'
               /\ FALSE \notin ParseErrors(tree.files[q]) => [file |-> q, kind |-> "file-partial"] \in unanalyzable'
    <3>1. CASE q \in Read
      BY <1>8, <3>1 DEF WalkInv, SourcesKept
    <3>2. CASE q \notin Read
      <4>1. q = path /\ files' # files
        BY <1>8, <3>2
      <4>2. PICK told \in ParseErrors(file) :
              unanalyzable' = IF told THEN unanalyzable \cup {[file |-> path, kind |-> "file-partial"]}
                              ELSE unanalyzable
        BY <1>1, <4>1
      <4>3. told \in BOOLEAN
        BY <4>2 DEF ParseErrors
      <4>4. FALSE \notin ParseErrors(file) => told
        BY <4>2, <4>3
      <4>5. FALSE \notin ParseErrors(file) => [file |-> path, kind |-> "file-partial"] \in unanalyzable'
        <5> SUFFICES ASSUME FALSE \notin ParseErrors(file)
                     PROVE  [file |-> path, kind |-> "file-partial"] \in unanalyzable'
          OBVIOUS
        <5>1. told
          BY <4>4
        <5> QED
          BY <4>2, <5>1
      <4>6. tree.files[q].dynamic => q \in dynamicUnknown'
        BY <1>1, <4>1
      <4> QED
        BY <4>1, <4>5, <4>6
    <3> QED
      BY <3>1, <3>2
  <2>3. Sources' = Sources
    BY <1>1 DEF Sources
  <2> QED
    BY <1>1, <2>1, <2>2, <2>3 DEF SourcesKept
<1>10. QueueKnown' /\ VisitedKnown' /\ AllFollowed'
  BY <1>1, <1>8 DEF WalkInv, Phases, Typed, QueueKnown, VisitedKnown, AllFollowed
<1> QED
  BY <1>6, <1>7, <1>9, <1>10 DEF WalkInv

\* What was scanned is what the walk starts from.
LEMMA StartWalkKeeps ==
  ASSUME WalkInv, StartWalk
  PROVE  WalkInv'
<1> DEFINE start == [n \in DOMAIN files |-> [file |-> files[n].file, next |-> 1, from |-> None, chain |-> <<>>]]
<1>1. /\ phase = "files" /\ todo = <<>> /\ phase' = (IF tree.moduleGraph THEN "walk" ELSE "lockfiles")
      /\ queue' = (IF tree.moduleGraph THEN start ELSE <<>>)
      /\ tree' = tree /\ resolution' = resolution /\ loads' = loads /\ todo' = todo /\ files' = files
      /\ unanalyzable' = unanalyzable /\ dynamicUnknown' = dynamicUnknown /\ visited' = visited /\ parsed' = parsed
      /\ pastBudget' = pastBudget /\ reached' = reached /\ missing' = missing /\ given' = given
  BY DEF StartWalk, given
<1>2. visited = {} /\ parsed = {} /\ pastBudget = {}
  BY <1>1 DEF WalkInv, Phases, Typed
<1>3. files \in Seq(Scans) /\ \A n \in DOMAIN files : files[n].file \in Project
  <2>1. files \in Seq(Scans)
    BY DEF WalkInv, Typed
  <2> QED
    BY <2>1 DEF Scans
<1>4. \A path \in Project : path \in DOMAIN tree.files /\ PackageOf(tree, path.at) = None
  BY DEF Project, Own, PackageOf
<1>5. \A n \in DOMAIN files : start[n] \in Items
  <2>1. \A S : <<>> \in Seq(S)
    OBVIOUS
  <2> QED
    BY <1>3, <1>4, <2>1 DEF Items, Packages
<1>6. start \in Seq(Items) /\ DOMAIN start = DOMAIN files
  <2>1. DOMAIN files = 1..Len(files) /\ Len(files) \in Nat
    BY <1>3
  <2>2. start = [n \in 1..Len(files) |-> start[n]]
    BY <2>1
  <2> HIDE DEF start
  <2>3. start \in [1..Len(files) -> Items]
    BY <1>5, <2>1, <2>2
  <2>4. \A n \in Nat : [1..n -> Items] \subseteq Seq(Items)
    OBVIOUS
  <2> QED
    BY <2>1, <2>2, <2>3, <2>4
<1>7. \A n \in DOMAIN files : start[n].file = files[n].file /\ start[n].next = 1 /\ start[n].from = None
  OBVIOUS
<1> HIDE DEF start
<1>8. queue' \in Seq(Items) /\ (tree.moduleGraph => queue' = start) /\ (~tree.moduleGraph => queue' = <<>>)
  <2>1. \A S : <<>> \in Seq(S)
    OBVIOUS
  <2> QED
    BY <1>1, <1>6, <2>1
<1>9. Typed'
  <2>1. /\ Packages' = Packages /\ Items' = Items /\ Entries' = Entries /\ Project' = Project
        /\ Tables' /\ Scans' = Scans
    BY <1>1, GivenKept DEF WalkInv, Typed
  <2> QED
    BY <1>1, <1>8, <2>1 DEF WalkInv, Typed
<1>10. Phases'
  BY <1>1, <1>2, <1>8 DEF Phases
<1>11. SourcesKept'
  BY <1>1 DEF WalkInv, SourcesKept, Sources, Read
<1>12. QueueKnown'
  <2>1. ~tree.moduleGraph => DOMAIN queue' = {}
    BY <1>8
  <2> QED
    BY <1>1, <1>3, <1>4, <1>6, <1>7, <1>8, <2>1 DEF QueueKnown
<1>13. VisitedKnown'
  BY <1>1, <1>2 DEF VisitedKnown
<1>14. AllFollowed'
  <2>1. SUFFICES ASSUME tree.moduleGraph, NEW path \in Read, NEW i \in SitesOf(tree.files[path])
                 PROVE  \E n \in DOMAIN queue' : queue'[n].file = path /\ queue'[n].next <= i
    BY <1>1, <1>2 DEF AllFollowed, Scanned, Read, Pending
  <2>2. PICK n \in DOMAIN files : files[n].file = path
    BY <2>1 DEF Read
  <2>3. path \in DOMAIN tree.files
    BY <1>3, <1>4, <2>2
  <2>4. tree.files[path].decls \in Seq({tree.files[path].decls[k] : k \in DOMAIN tree.files[path].decls})
    BY <2>3, TreesAssumption DEF WalkInv, Typed, TreeShape, FileShape
  <2>5. i \in Nat /\ 1 <= i
    BY <2>4 DEF SitesOf
  <2> QED
    BY <1>6, <1>7, <1>8, <2>1, <2>2, <2>5
<1> QED
  BY <1>9, <1>10, <1>11, <1>12, <1>13, <1>14 DEF WalkInv

\* Every step keeps the invariant.
LEMMA WalkStep ==
  ASSUME WalkInv, [Next]_vars
  PROVE  WalkInv'
<1>1. CASE EndWalk
  <2>1. Phases'
    BY <1>1 DEF EndWalk, WalkInv, Phases, walk
  <2> QED
    BY <1>1, <2>1, RestKeeps DEF EndWalk
<1>2. CASE ReadLockfile
  <2>1. Phases'
    BY <1>2 DEF ReadLockfile, WalkInv, Phases, walk
  <2> QED
    BY <1>2, <2>1, RestKeeps DEF ReadLockfile
<1>3. CASE Finish
  <2>1. Phases'
    BY <1>3 DEF Finish, WalkInv, Phases, walk
  <2> QED
    BY <1>3, <2>1, RestKeeps DEF Finish
<1>4. CASE UNCHANGED vars
  <2>1. Phases'
    BY <1>4 DEF vars, WalkInv, Phases, walk
  <2> QED
    BY <1>4, <2>1, RestKeeps DEF vars, WalkInv, Typed
<1>5. CASE Done
  BY <1>4, <1>5 DEF Done
<1> QED
  BY <1>1, <1>2, <1>3, <1>4, <1>5, ReadSourceKeeps, StartWalkKeeps, FollowedAllKeeps, SkipKeeps, UnresolvedKeeps,
     ElsewhereKeeps, LoadedKeeps, PastBudgetKeeps, UnreadKeeps, ParsedKeeps DEF Next

-------------------------------------------------------------------------------
(* What is lost is told *)

\* A file is told, or it was scanned and has left its traces.
Accounted(path) ==
  \/ Told(path)
  \/ /\ path \in Scanned /\ Traced(path)
     /\ ~BlindFile(path) => ImportsOf(path) \subseteq SitesOf(tree.files[path])

\* What was scanned is a file of the tree, a source if no package has it.
LEMMA ScannedKnown ==
  ASSUME WalkInv, NEW path \in Scanned
  PROVE  /\ path \in DOMAIN tree.files
         /\ path \in Read \/ PackageOf(tree, path.at) # None
         /\ Own(path) <=> PackageOf(tree, path.at) = None
<1>1. CASE path \in Read
  <2>1. path \in Project
    BY <1>1 DEF WalkInv, Typed, Scans, Read
  <2> QED
    BY <1>1, <2>1 DEF Project, Own, PackageOf
<1>2. CASE path \in parsed
  <2>1. path \in DOMAIN tree.files /\ PackageOf(tree, path.at) # None
    BY <1>2 DEF WalkInv, Typed, VisitedKnown
  <2> QED
    BY <2>1 DEF Own, PackageOf
<1> QED
  BY <1>1, <1>2 DEF Scanned, Read

\* When all is collected, each file that was scanned is accounted for.
LEMMA ScannedAccounted ==
  ASSUME WalkInv, Collected, NEW path \in Scanned
  PROVE  Accounted(path)
<1> DEFINE pkg == PackageOf(tree, path.at)
           file == tree.files[path]
<1>1. path \in DOMAIN tree.files /\ (path \in Read \/ pkg # None) /\ (Own(path) <=> pkg = None)
  BY ScannedKnown
<1>2. ASSUME tree.moduleGraph, NEW i \in SitesOf(file), file.decls[i].kind # "type-only-import"
      PROVE  Followed(path, i)
  <2>1. DOMAIN queue = {}
    BY DEF Collected, WalkInv, Phases
  <2> QED
    BY <1>2, <2>1 DEF Collected, WalkInv, AllFollowed, Pending
<1>3. file.dynamic => path \in dynamicUnknown \/ (pkg # None /\ reached[pkg].dynamic)
  <2>1. path \in Read \/ path \in parsed
    BY DEF Scanned, Read
  <2> QED
    BY <2>1 DEF WalkInv, SourcesKept, VisitedKnown
<1>4. ASSUME NEW i \in SitesOf(file) \cap ImportsOf(path), resolution[path][i].kind = "unresolved", tree.moduleGraph
      PROVE  \/ BareNameOf(file.decls[i].spec) \in DOMAIN missing
             \/ IF pkg = None THEN Own(path) ELSE reached[pkg].incomplete
  <2>1. Followed(path, i)
    BY <1>2, <1>4 DEF ImportsOf
  <2> QED
    BY <1>1, <1>4, <2>1 DEF Followed
<1>5. Traced(path)
  BY <1>3, <1>4 DEF Traced
<1>6. ASSUME ~BlindFile(path), ~Told(path) PROVE ImportsOf(path) \subseteq SitesOf(file)
  <2>1. CASE file.markup = None
    BY <2>1 DEF ImportsOf, SitesOf
  <2>2. CASE file.markup # None
    <3>1. Own(path) /\ ~TrustedComment(file.markup)
      BY <1>6, <2>2 DEF BlindFile
    <3>2. FALSE \in ParseErrors(file)
      BY <1>1, <1>6, <3>1 DEF WalkInv, SourcesKept, Told
    <3>3. LostScripts(file.markup) = {}
      BY <2>2, <3>2 DEF ParseErrors
    <3>4. file.markup \in Seq({file.markup[t] : t \in DOMAIN file.markup})
      BY <1>1, <2>2, TreesAssumption DEF WalkInv, Typed, TreeShape, FileShape
    <3> DEFINE markup == file.markup
    <3>5. ScriptPass(markup, {"comment"}).copied \subseteq ExtractSvelteScript(markup).copied
      <4> HIDE DEF markup
      <4> QED
        BY <3>1, <3>3, <3>4, NoScriptLost DEF markup
    <3> QED
      BY <2>2, <3>5 DEF ImportsOf, SitesOf
  <2> QED
    BY <2>1, <2>2
<1> QED
  BY <1>5, <1>6 DEF Accounted

\* What an accounted file loads by an edge that is not blind is accounted for.
LEMMA LoadedAccounted ==
  ASSUME WalkInv, Collected, NEW q \in DOMAIN tree.files, Accounted(q),
         NEW path \in LoadedFrom(q, BlindEdge), ~Own(path) \/ path \in Sources
  PROVE  path \in DOMAIN tree.files /\ Accounted(path)
<1> DEFINE file == tree.files[q]
<1>1. ~Told(q) /\ tree.moduleGraph /\ \E i \in ImportsOf(q) :
        ~BlindEdge(q, i) /\ loads[q][i].kind = "file" /\ loads[q][i].path = path
  BY DEF LoadedFrom
<1>2. PICK i \in ImportsOf(q) : ~BlindEdge(q, i) /\ loads[q][i].kind = "file" /\ loads[q][i].path = path
  BY <1>1
<1> DEFINE r == resolution[q][i]
<1>3. q \in Scanned /\ i \in SitesOf(file) /\ i \in DOMAIN file.decls /\ file.decls[i].kind # "type-only-import"
  BY <1>1, <1>2 DEF Accounted, BlindEdge, ImportsOf
<1>4. ~PastBuiltin(file.decls[i].spec) /\ (loads[q][i].kind = "file" /\ ~Own(loads[q][i].path) => loads[q][i].pkg # None)
  BY <1>2 DEF BlindEdge
<1>5. loads[q][i] = r /\ Sound(tree, r)
  BY <1>3, <1>4, TablesSound DEF WalkInv
<1>6. r.kind = "file" /\ r.path = path /\ path \in DOMAIN tree.files /\ r.pkg = PackageOf(tree, path.at)
  BY <1>2, <1>5 DEF Sound
<1>7. CASE Own(path)
  <2>1. path \in Read \/ [file |-> path, kind |-> "file"] \in unanalyzable
    <3>1. DOMAIN todo = {}
      BY DEF Collected, WalkInv, Phases
    <3> QED
      BY <1>7, <3>1 DEF WalkInv, SourcesKept
  <2>2. path \in Read => path \in Scanned
    BY DEF Scanned, Read
  <2> QED
    BY <1>6, <2>1, <2>2, ScannedAccounted DEF Accounted, Told
<1>8. CASE ~Own(path)
  <2>1. r.pkg # None
    BY <1>2, <1>4, <1>5, <1>8
  <2>2. Followed(q, i)
    <3>1. DOMAIN queue = {}
      BY DEF Collected, WalkInv, Phases
    <3> QED
      BY <1>1, <1>3, <3>1 DEF Collected, WalkInv, AllFollowed, Pending
  <2>3. path \in visited
    BY <1>6, <2>1, <2>2 DEF Followed
  <2>4. path \in parsed \/ path \in pastBudget \/ [file |-> path, kind |-> "node-modules-file"] \in unanalyzable
    BY <2>3 DEF WalkInv, VisitedKnown
  <2>5. path \in parsed => Accounted(path)
    BY ScannedAccounted DEF Scanned
  <2>6. path \in pastBudget => Told(path)
    BY DEF Told, Collected, WalkInv, Phases
  <2> QED
    BY <1>6, <2>4, <2>5, <2>6 DEF Accounted, Told
<1> QED
  BY <1>7, <1>8

\* What is loaded from the sources through files of which nothing is told is accounted for.
LEMMA UntoldAccounted ==
  ASSUME WalkInv, Collected, NEW path \in LoadedUntold(BlindEdge)
  PROVE  Accounted(path)
<1> DEFINE All == DOMAIN tree.files
           n == Cardinality(All)
           Relevant(p) == ~Own(p) \/ p \in Sources
           More(S) == S \cup {p \in UNION {LoadedFrom(q, BlindEdge) : q \in S} : Relevant(p)}
           body(f, k) == IF k = 0 THEN Sources ELSE LET before == f[k - 1] IN More(before)
           closure == CHOOSE f : f = [k \in 0..n |-> body(f, k)]
<1>1. LoadedUntold(BlindEdge) = closure[n]
  BY DEF LoadedUntold
<1>2. TreeShape(tree)
  BY TreesAssumption DEF WalkInv, Typed
<1>3. n \in Nat
  BY <1>2, FS_CardinalityType DEF TreeShape
<1>4. Sources \subseteq All
  BY <1>2 DEF TreeShape, Sources
<1>5. ASSUME NEW S \in SUBSET All PROVE More(S) \in SUBSET All
  <2>1. ASSUME NEW q \in S, NEW p \in LoadedFrom(q, BlindEdge) PROVE p \in All
    <3>1. PICK i \in DOMAIN tree.files[q].decls : loads[q][i].kind = "file" /\ loads[q][i].path = p
      BY <2>1 DEF LoadedFrom, ImportsOf
    <3> QED
      BY <3>1, LoadsSound DEF WalkInv, Sound
  <2> QED
    BY <2>1
<1> DEFINE prev == [k \in 1..n |-> k - 1]
           step == [x \in (1..n) \X SUBSET All |-> More(x[2])]
<1>6. PICK f \in [0..n -> SUBSET All] : Solves(f, n, Sources, prev, step)
  <2>1. prev \in [1..n -> Nat] /\ \A k \in 1..n : prev[k] < k
    BY <1>3
  <2>2. step \in [(1..n) \X SUBSET All -> SUBSET All]
    <3> HIDE DEF More
    <3> QED
      BY <1>5
  <2> HIDE DEF prev, step, n, All
  <2> QED
    BY <1>3, <1>4, <2>1, <2>2, Recursion
<1>7. f = [k \in 0..n |-> body(f, k)]
  <2>1. ASSUME NEW k \in 0..n, k # 0 PROVE f[k] = More(f[k - 1])
    <3>1. k \in 1..n /\ k - 1 \in 0..n /\ prev[k] = k - 1
      BY <1>3, <2>1
    <3>2. f[k - 1] \in SUBSET All /\ <<k, f[k - 1]>> \in (1..n) \X SUBSET All /\ <<k, f[k - 1]>>[2] = f[k - 1]
      BY <3>1
    <3>3. f[k] = step[<<k, f[k - 1]>>]
      <4> HIDE DEF step, prev, n
      <4> QED
        BY <1>6, <3>1 DEF Solves
    <3>4. step[<<k, f[k - 1]>>] = More(f[k - 1])
      <4> HIDE DEF More
      <4> QED
        BY <3>2
    <3> QED
      BY <3>3, <3>4
  <2>2. f[0] = Sources
    BY <1>6 DEF Solves
  <2>3. f = [k \in 0..n |-> f[k]]
    OBVIOUS
  <2> HIDE DEF More, n
  <2>4. \A k \in 0..n : f[k] = body(f, k)
    BY <2>1, <2>2
  <2> HIDE DEF body
  <2> QED
    BY <2>3, <2>4, Zenon
<1>8. closure = [k \in 0..n |-> body(closure, k)]
  <2> HIDE DEF body, n
  <2> QED
    BY <1>7
<1> HIDE DEF closure
<1>9. closure[0] = Sources /\ \A k \in 0..n : k # 0 => closure[k] = More(closure[k - 1])
  <2>1. 0 \in 0..n
    BY <1>3
  <2> HIDE DEF More, n
  <2> QED
    BY <1>8, <2>1
<1> DEFINE G == {k \in 0..n : closure[k] \subseteq All /\ \A p \in closure[k] : Accounted(p)}
<1>10. 0 \in G
  <2>1. ASSUME NEW p \in Sources PROVE Accounted(p)
    <3>1. p \in Read \/ [file |-> p, kind |-> "file"] \in unanalyzable
      <4>1. DOMAIN todo = {}
        BY DEF Collected, WalkInv, Phases
      <4> QED
        BY <4>1 DEF WalkInv, SourcesKept
    <3>2. p \in Read => p \in Scanned
      BY DEF Scanned, Read
    <3> QED
      BY <3>1, <3>2, ScannedAccounted DEF Accounted, Told
  <2> QED
    BY <1>3, <1>4, <1>9, <2>1
<1>11. ASSUME NEW k \in 0..n, k \in G, k < n PROVE k + 1 \in G
  <2>1. k + 1 \in 0..n /\ k + 1 # 0 /\ (k + 1) - 1 = k
    BY <1>3, <1>11
  <2>2. closure[k + 1] = More(closure[k])
    <3> HIDE DEF More
    <3> QED
      BY <1>9, <2>1
  <2>3. closure[k] \in SUBSET All /\ \A p \in closure[k] : Accounted(p)
    BY <1>11
  <2>4. More(closure[k]) \subseteq All
    <3> HIDE DEF More
    <3> QED
      BY <1>5, <2>3
  <2>5. ASSUME NEW p \in More(closure[k]) PROVE Accounted(p)
    <3>1. p \in closure[k] \/ (Relevant(p) /\ \E q \in closure[k] : p \in LoadedFrom(q, BlindEdge))
      BY <2>5
    <3> QED
      BY <2>3, <3>1, LoadedAccounted
  <2> HIDE DEF More
  <2> QED
    BY <2>1, <2>2, <2>4, <2>5
<1>12. G = 0..n
  <2>1. G \in SUBSET (0..n)
    OBVIOUS
  <2> HIDE DEF G, n
  <2> QED
    BY <1>3, <1>10, <1>11, <2>1, Upward
<1> QED
  <2>1. n \in G
    BY <1>3, <1>12
  <2> QED
    BY <1>1, <2>1

\* "The facts are complete OR say where they are not" (collect.js:10): a file the program
\* loads has been read, or it is told that it was not, or a file on the way to it was not.
THEOREM GapsToldHolds == Spec => []GapsTold
<1>1. WalkInv => GapsTold
  BY UntoldAccounted DEF GapsTold, Accounted
<1> QED
  BY <1>1, WalkInit, WalkStep, PTL DEF Spec

-------------------------------------------------------------------------------
(* Use is credited *)

\* What is taken is covered by what an importer records.
Covered(importer, t) ==
  /\ Uncounted(t) \/ Credited(importer, t)
  /\ t.part # None => Shown(importer, t)

\* What the two passes record of an import covers what the import itself takes,
LEMMA AtOnceCovered ==
  ASSUME NEW file, NEW i \in DOMAIN file.decls, file.decls[i].kind # "type-only-import",
         NEW importer, importer.bindings = Bindings(file, i), importer.referenced = Referenced(file, i),
         importer.opaque = Opaque(file, i),
         NEW t \in TakenAtOnce(file.decls[i])
  PROVE  Covered(importer, t)
<1> DEFINE decl == file.decls[i]
<1>1. CASE t = [part |-> None, how |-> "all"] /\ decl.style \in {"star", "rest", "other"}
  <2>1. importer.opaque /\ t.part = None
    BY <1>1 DEF Opaque
  <2> QED
    BY <2>1 DEF Covered, Credited
<1>2. ASSUME NEW n \in NamesGiven(decl), n.local = None \/ decl.kind = "export-from",
             t = [part |-> n.original, how |-> IF decl.kind = "export-from" THEN "handed on" ELSE "off the call"]
      PROVE  Covered(importer, t)
  <2>1. CASE n.original = None
    <3>1. t.part = None /\ t.how # "all"
      BY <1>2, <2>1
    <3> QED
      BY <3>1 DEF Covered, Uncounted
  <2>2. CASE n.original # None
    <3>1. n \in NamesOf(decl)
      BY <2>2 DEF NamesOf, NamesGiven
    <3>2. t.part \in Bindings(file, i)
      BY <1>2, <3>1 DEF Bindings
    <3>3. t.how = "off the call" \/ t.part \in Referenced(file, i)
      BY <1>2, <3>1 DEF Referenced
    <3> QED
      BY <3>2, <3>3 DEF Covered, Uncounted, Credited, Shown
  <2> QED
    BY <2>1, <2>2
<1> QED
  BY <1>1, <1>2 DEF TakenAtOnce

\* and what a use of one of its names takes.
LEMMA UseCovered ==
  ASSUME NEW file, FileShape(file), NEW i \in SitesOf(file), file.decls[i].kind # "type-only-import", ~Rebound(file, i),
         NEW use \in file.uses, use.shape # "name", i \in Means(file, use),
         NEW importer, importer.bindings = Bindings(file, i), importer.referenced = Referenced(file, i),
         importer.opaque = Opaque(file, i),
         NEW t \in TakenBy(file.decls[i], use)
  PROVE  Covered(importer, t)
<1> DEFINE decl == file.decls[i]
<1>1. i \in DOMAIN file.decls /\ decl.kind # "export-from"
  BY DEF Means, Binds
<1>2. use.local # None /\ use.shape \in {"member", "inspect", "value", "export", "declaration"}
  BY DEF FileShape
<1>3. ASSUME NEW n \in NamesGiven(decl), n.local = use.local, t = [part |-> n.original, how |-> use.shape]
      PROVE  Covered(importer, t)
  <2>1. CASE n.original = None
    <3>1. t.part = None /\ t.how # "all"
      BY <1>2, <1>3, <2>1
    <3> QED
      BY <3>1 DEF Covered, Uncounted
  <2>2. CASE n.original # None
    <3>1. n \in NamesOf(decl)
      BY <2>2 DEF NamesOf, NamesGiven
    <3>2. t.part \in Bindings(file, i)
      BY <1>3, <3>1 DEF Bindings
    <3>3. CASE use.shape \in {"export", "declaration"}
      <4>1. t.how \in {"export", "declaration"}
        BY <1>3, <3>3
      <4> QED
        BY <3>2, <4>1 DEF Covered, Uncounted, Shown
    <3>4. CASE use.shape \notin {"export", "declaration"}
      <4>1. ValueReference(use)
        BY <1>2, <3>4 DEF ValueReference
      <4>2. [site |-> i, original |-> n.original] \in BoundBy(file, use.local)
        BY <1>1, <1>3, <3>1 DEF BoundBy
      <4>3. n.original \in {b.original : b \in {b \in BoundBy(file, use.local) : b.site = i}}
        BY <4>2
      <4>4. t.part \in Referenced(file, i)
        BY <1>3, <4>1, <4>3 DEF Referenced
      <4> QED
        BY <3>2, <4>4 DEF Covered, Credited, Shown
    <3> QED
      BY <3>3, <3>4
  <2> QED
    BY <2>1, <2>2
<1>4. ASSUME decl.local = use.local
      PROVE  i \in Tracked(file, use.local)
  <2> DEFINE sites == {j \in SitesOf(file) : file.decls[j].local = use.local /\ file.decls[j].kind # "type-only-import"}
  <2>1. sites = {i}
    <3>1. \A j \in DOMAIN file.decls : j # i => file.decls[j].local # decl.local
      BY <1>2, <1>4 DEF Rebound
    <3> QED
      BY <1>4, <3>1 DEF SitesOf
  <2>2. Max(sites) = i
    <3>1. i \in Nat
      <4>1. file.decls \in Seq({file.decls[k] : k \in DOMAIN file.decls})
        BY DEF FileShape
      <4> QED
        BY <1>1, <4>1
    <3>2. Max(sites) = CHOOSE x \in {i} : \A y \in {i} : x >= y
      BY <2>1 DEF Max
    <3>3. \E x \in {i} : \A y \in {i} : x >= y
      BY <3>1
    <3> QED
      BY <3>2, <3>3
  <2> QED
    BY <2>1, <2>2 DEF Tracked
<1>5. ASSUME decl.local = use.local, use.shape # "inspect",
             t = [part |-> IF use.shape = "member" THEN use.member ELSE None,
                  how  |-> IF use.shape = "declaration" THEN "declaration" ELSE "all"]
      PROVE  Covered(importer, t)
  <2>1. i \in Tracked(file, use.local)
    BY <1>4, <1>5
  <2>2. CASE use.shape = "member"
    <3>1. t.part \in MembersUsed(file, i)
      BY <1>5, <2>1, <2>2 DEF MembersUsed
    <3>2. t.part \in Referenced(file, i) /\ t.part \in Bindings(file, i)
      BY <3>1 DEF Referenced, Bindings
    <3> QED
      BY <3>2 DEF Covered, Credited, Shown
  <2>3. CASE use.shape = "declaration"
    <3>1. t.part = None /\ t.how = "declaration"
      BY <1>5, <2>3
    <3> QED
      BY <3>1 DEF Covered, Uncounted
  <2>4. CASE use.shape \in {"value", "export"}
    <3>1. Opaque(file, i)
      BY <2>1, <2>4 DEF Opaque, Escapes
    <3> QED
      BY <3>1 DEF Covered, Credited, Shown
  <2> QED
    BY <1>2, <1>5, <2>2, <2>3, <2>4
<1> QED
  BY <1>3, <1>5 DEF TakenBy

\* So all a file takes is covered.
LEMMA UseRecorded ==
  ASSUME NEW file, FileShape(file), NEW i \in SitesOf(file), file.decls[i].kind # "type-only-import", ~Rebound(file, i),
         NEW importer, importer.bindings = Bindings(file, i), importer.referenced = Referenced(file, i),
         importer.opaque = Opaque(file, i),
         NEW t \in Takings(file, i)
  PROVE  Covered(importer, t)
<1> DEFINE decl == file.decls[i]
           uses == {u \in file.uses : u.shape # "name" /\ i \in Means(file, u)}
           takings == TakenAtOnce(decl) \cup UNION {TakenBy(decl, u) : u \in uses}
<1>1. ASSUME NEW s \in takings PROVE Covered(importer, s)
  <2>1. CASE s \in TakenAtOnce(decl)
    <3>1. i \in DOMAIN file.decls
      BY DEF SitesOf
    <3> QED
      BY <2>1, <3>1, AtOnceCovered
  <2>2. CASE s \notin TakenAtOnce(decl)
    <3>1. PICK use \in uses : s \in TakenBy(decl, use)
      BY <1>1, <2>2
    <3> QED
      BY <3>1, UseCovered
  <2> QED
    BY <2>1, <2>2
<1>2. t \in takings \/ \E s \in takings : t = ThroughPromise(s)
  BY Zenon DEF Takings
<1> HIDE DEF takings
<1>3. ASSUME NEW s \in takings, t = ThroughPromise(s) PROVE Covered(importer, t)
  <2>1. CASE s.part # None
    <3>1. t.part = None /\ t.how = "promise"
      BY <1>3, <2>1 DEF ThroughPromise
    <3> QED
      BY <3>1 DEF Covered, Uncounted
  <2>2. CASE s.part = None
    <3>1. t = s
      BY <1>3, <2>2 DEF ThroughPromise
    <3> QED
      BY <1>1, <3>1
  <2> QED
    BY <2>1, <2>2
<1> QED
  BY <1>1, <1>2, <1>3

\* Whatever a file that was read takes of an import, by the import or by a use of one of its
\* names, is recorded of the package the import loads, as that part or as any part; of what
\* scan.js is known not to count, the part is at least shown.
THEOREM UseCreditedHolds == Spec => []UseCredited
<1>1. ASSUME WalkInv, Collected, tree.moduleGraph, NEW path \in Scanned,
             NEW i \in ImportsOf(path) \cap SitesOf(tree.files[path]),
             resolution[path][i].kind \in {"file", "asset"},
             resolution[path][i].pkg \notin {None, PackageOf(tree, path.at)}, ~Rebound(tree.files[path], i)
      PROVE  \E importer \in reached[resolution[path][i].pkg].importers :
               /\ importer.file = path /\ importer.site = i
               /\ \A t \in Takings(tree.files[path], i) : Covered(importer, t)
  <2> DEFINE file == tree.files[path]
             pkg == resolution[path][i].pkg
  <2>1. path \in DOMAIN tree.files /\ FileShape(file)
    BY <1>1, ScannedKnown, TreesAssumption DEF WalkInv, Typed, TreeShape
  <2>2. i \in SitesOf(file) /\ file.decls[i].kind # "type-only-import"
    BY <1>1 DEF ImportsOf
  <2>3. Followed(path, i)
    <3>1. DOMAIN queue = {}
      BY <1>1 DEF Collected, WalkInv, Phases
    <3> QED
      BY <1>1, <2>2, <3>1 DEF Collected, WalkInv, AllFollowed, Pending
  <2>4. ImporterOf(path, i) \in reached[pkg].importers
    BY <1>1, <2>3 DEF Followed
  <2>5. /\ ImporterOf(path, i).file = path /\ ImporterOf(path, i).site = i
        /\ ImporterOf(path, i).bindings = Bindings(file, i)
        /\ ImporterOf(path, i).referenced = Referenced(file, i) /\ ImporterOf(path, i).opaque = Opaque(file, i)
    BY DEF ImporterOf
  <2>6. ASSUME NEW t \in Takings(file, i) PROVE Covered(ImporterOf(path, i), t)
    <3> DEFINE importer == ImporterOf(path, i)
    <3> HIDE DEF importer, file
    <3> QED
      BY <1>1, <2>1, <2>2, <2>5, <2>6, UseRecorded DEF importer, file
  <2> QED
    BY <2>4, <2>5, <2>6
<1>2. ASSUME WalkInv, Collected, tree.moduleGraph, NEW edge \in Edges, ~Rebound(tree.files[edge.path], edge.site)
      PROVE  \E importer \in Recorded(edge) : \A t \in TakingsOf(edge) : Covered(importer, t)
  <2>0. PICK path \in Scanned :
          edge \in {[path |-> path, site |-> i] :
                     i \in {i \in ImportsOf(path) \cap SitesOf(tree.files[path]) :
                              LET r == resolution[path][i] IN
                              r.kind \in {"file", "asset"} /\ r.pkg \notin {None, PackageOf(tree, path.at)}}}
    BY Zenon DEF Edges
  <2>1. PICK i \in ImportsOf(path) \cap SitesOf(tree.files[path]) :
          /\ resolution[path][i].kind \in {"file", "asset"}
          /\ resolution[path][i].pkg \notin {None, PackageOf(tree, path.at)}
          /\ edge = [path |-> path, site |-> i]
    BY <2>0
  <2>2. edge.path = path /\ edge.site = i
    BY <2>1
  <2>3. PICK importer \in reached[resolution[path][i].pkg].importers :
               /\ importer.file = path /\ importer.site = i
               /\ \A t \in Takings(tree.files[path], i) : Covered(importer, t)
    BY <1>1, <1>2, <2>1, <2>2
  <2>4. importer \in Recorded(edge) /\ TakingsOf(edge) = Takings(tree.files[path], i)
    BY <2>2, <2>3 DEF Recorded, TakingsOf
  <2> QED
    BY <2>3, <2>4
<1>3. WalkInv => UseCredited
  BY <1>2 DEF UseCredited, Covered
<1> QED
  BY <1>3, WalkInit, WalkStep, PTL DEF Spec

-------------------------------------------------------------------------------
(* Records that are merged *)

Strongest(D) == IF "runtime" \in D THEN "runtime" ELSE IF "dev" \in D THEN "dev" ELSE None

Records(H) == [dev : {"runtime", "dev", None}, optional : BOOLEAN, integrity : H]
Shaped(r) == r \in Records({r.integrity})

Disagree(R) == \E r, s \in R : None \notin {r.integrity, s.integrity} /\ r.integrity # s.integrity

\* A record is what a set of others says, if they are merged from a fold on.
Sums(fold, start, key, R) ==
  /\ fold = [packages |-> fold.packages, conflicts |-> fold.conflicts]
  /\ fold.packages = [k \in DOMAIN fold.packages |-> fold.packages[k]]
  /\ key \in DOMAIN fold.packages <=> R # {}
  /\ key \in DOMAIN start.packages => R # {}
  /\ key \in start.conflicts => key \in fold.conflicts
  /\ R = {} /\ key \in fold.conflicts => key \in start.conflicts
  /\ R # {} =>
       LET record == fold.packages[key] IN
       /\ Shaped(record)
       /\ record.dev = Strongest({r.dev : r \in R})
       /\ record.optional <=> \A r \in R : r.optional
       /\ record.integrity = None \/ \E r \in R : r.integrity = record.integrity
       /\ key \notin fold.conflicts => \A r \in R : r.integrity \in {None, record.integrity}
       /\ key \in fold.conflicts /\ key \notin start.conflicts => record.integrity = None /\ Disagree(R)
       /\ /\ key \in start.conflicts /\ key \in DOMAIN start.packages
          /\ R # {start.packages[key]} \/ start.packages[key].integrity = None
          => record.integrity = None

Contested(into, other, key, conflicts) ==
  \/ key \in conflicts
  \/ None \notin {into.integrity, other.integrity} /\ into.integrity # other.integrity

Merges(merged, into, other, key, conflicts) ==
  /\ Shaped(merged.record)
  /\ merged.record.dev = IF "runtime" \in {into.dev, other.dev} THEN "runtime"
                         ELSE IF into.dev = None THEN other.dev ELSE into.dev
  /\ merged.record.optional <=> into.optional /\ other.optional
  /\ merged.record.integrity = IF Contested(into, other, key, conflicts) THEN None
                               ELSE IF into.integrity = None THEN other.integrity ELSE into.integrity
  /\ merged.conflicts = IF Contested(into, other, key, conflicts) THEN conflicts \cup {key} ELSE conflicts

\* What mergeDiscovered makes of two records.
LEMMA MergeKnown ==
  ASSUME NEW into, Shaped(into), NEW other, Shaped(other), NEW key, NEW conflicts
  PROVE  Merges(MergeDiscovered(into, other, key, conflicts), into, other, key, conflicts)
<1> DEFINE dev == IF "runtime" \in {into.dev, other.dev} THEN "runtime"
                  ELSE IF into.dev = None THEN other.dev ELSE into.dev
           flags == MergeFlags(into, other)
           contested == Contested(into, other, key, conflicts)
           merged == MergeDiscovered(into, other, key, conflicts)
           hash == IF contested THEN None ELSE IF into.integrity = None THEN other.integrity ELSE into.integrity
<1>1. into \in Records({into.integrity}) /\ other \in Records({other.integrity})
  BY DEF Shaped
<1>2. dev \in {"runtime", "dev", None}
  BY <1>1 DEF Records
<1>3. /\ flags \in Records({into.integrity}) /\ flags.dev = dev /\ flags.integrity = into.integrity
      /\ flags.optional <=> into.optional /\ other.optional
  <2>1. flags = [into EXCEPT !.dev = dev, !.optional = into.optional /\ other.optional]
    BY DEF MergeFlags
  <2>2. (into.optional /\ other.optional) \in BOOLEAN
    OBVIOUS
  <2> HIDE DEF dev, flags
  <2> QED
    BY <1>1, <1>2, <2>1, <2>2 DEF Records
<1>4. /\ merged.record = [flags EXCEPT !.integrity = hash]
      /\ merged.conflicts = IF contested THEN conflicts \cup {key} ELSE conflicts
  <2> HIDE DEF flags
  <2> QED
    BY <1>3 DEF MergeDiscovered, Contested, flags
<1>5. [flags EXCEPT !.integrity = hash] \in Records({hash})
  <2> HIDE DEF flags, hash
  <2> QED
    BY <1>3 DEF Records
<1>6. merged.record \in Records({hash}) /\ merged.record.integrity = hash /\ merged.record.dev = dev
      /\ (merged.record.optional <=> flags.optional)
  <2> HIDE DEF flags, hash, merged, dev
  <2> QED
    BY <1>3, <1>4, <1>5 DEF Records
<1>7. Shaped(merged.record)
  BY <1>6 DEF Shaped
<1> QED
  <2> HIDE DEF merged, flags
  <2> QED
    BY <1>3, <1>4, <1>6, <1>7 DEF Merges, merged

\* One more sighting keeps the sum, of its key and of the others.
LEMMA SightedSums ==
  ASSUME NEW fold, NEW start, NEW key, NEW R, Sums(fold, start, key, R), NEW at, NEW record, Shaped(record),
         NEW S, S = (IF at = key THEN R \cup {record} ELSE R)
  PROVE  Sums(Sighted(fold, at, record), start, key, S)
<1> DEFINE next == Sighted(fold, at, record)
           into == fold.packages[at]
           merged == MergeDiscovered(into, record, at, fold.conflicts)
<1>0. \A D : Strongest(D) = IF "runtime" \in D THEN "runtime" ELSE IF "dev" \in D THEN "dev" ELSE None
  BY DEF Strongest
<1>1. CASE at \notin DOMAIN fold.packages /\ at = key
  <2>1. R = {} /\ S = {record}
    BY <1>1 DEF Sums
  <2>2. next = [fold EXCEPT !.packages = With(fold.packages, key, record)]
    BY <1>1 DEF Sighted
  <2>3. /\ next = [packages |-> next.packages, conflicts |-> next.conflicts]
        /\ next.packages = [k \in DOMAIN next.packages |-> next.packages[k]]
        /\ next.packages[key] = record /\ key \in DOMAIN next.packages /\ next.conflicts = fold.conflicts
    BY <2>2 DEF With, Sums
  <2> HIDE DEF next
  <2>4. record.dev = Strongest({r.dev : r \in S})
    <3>1. {r.dev : r \in S} = {record.dev} /\ record.dev \in {"runtime", "dev", None}
      BY <2>1 DEF Shaped, Records
    <3> QED
      BY <1>0, <3>1
  <2>5. key \in next.conflicts => key \in start.conflicts
    BY <2>1, <2>3 DEF Sums
  <2>6. key \in start.conflicts => key \in next.conflicts
    BY <2>3 DEF Sums
  <2>7. key \notin DOMAIN start.packages
    BY <2>1 DEF Sums
  <2>8. Sums(next, start, key, S)
    BY <2>1, <2>3, <2>4, <2>5, <2>6, <2>7 DEF Sums
  <2> QED
    BY <2>8 DEF next
<1>2. CASE at \in DOMAIN fold.packages /\ at = key
  <2> DEFINE contested == Contested(into, record, key, fold.conflicts)
             result == merged.record
  <2>1. R # {} /\ S = R \cup {record} /\ Shaped(into) /\ into = fold.packages[key]
    BY <1>2 DEF Sums
  <2>2. /\ Shaped(result)
        /\ result.dev = IF "runtime" \in {into.dev, record.dev} THEN "runtime"
                        ELSE IF into.dev = None THEN record.dev ELSE into.dev
        /\ result.optional <=> into.optional /\ record.optional
        /\ result.integrity = IF contested THEN None
                              ELSE IF into.integrity = None THEN record.integrity ELSE into.integrity
        /\ merged.conflicts = IF contested THEN fold.conflicts \cup {key} ELSE fold.conflicts
    <3>1. Merges(merged, into, record, key, fold.conflicts)
      <4> HIDE DEF into
      <4> QED
        BY <1>2, <2>1, MergeKnown
    <3> HIDE DEF into, merged
    <3> QED
      BY <3>1 DEF Merges
  <2>3. next = [packages |-> With(fold.packages, key, result), conflicts |-> merged.conflicts]
    BY <1>2 DEF Sighted
  <2>4. /\ next = [packages |-> next.packages, conflicts |-> next.conflicts]
        /\ next.packages = [k \in DOMAIN next.packages |-> next.packages[k]]
        /\ next.packages[key] = result /\ key \in DOMAIN next.packages /\ next.conflicts = merged.conflicts
    BY <2>3 DEF With
  <2>5. /\ into.dev = Strongest({r.dev : r \in R}) /\ (into.optional <=> \A r \in R : r.optional)
        /\ into.integrity = None \/ \E r \in R : r.integrity = into.integrity
        /\ key \notin fold.conflicts => \A r \in R : r.integrity \in {None, into.integrity}
        /\ key \in fold.conflicts /\ key \notin start.conflicts => into.integrity = None /\ Disagree(R)
        /\ key \in start.conflicts => key \in fold.conflicts
        /\ key \in DOMAIN start.packages => R # {}
    BY <2>1 DEF Sums
  <2>14. contested <=> \/ key \in fold.conflicts
                       \/ None \notin {into.integrity, record.integrity} /\ into.integrity # record.integrity
    BY DEF Contested
  <2> HIDE DEF next, merged, into, contested
  <2>6. result.dev = Strongest({r.dev : r \in S})
    <3>1. {r.dev : r \in S} = {r.dev : r \in R} \cup {record.dev}
      BY <2>1
    <3>2. record.dev \in {"runtime", "dev", None}
      BY DEF Shaped, Records
    <3> DEFINE D == {r.dev : r \in R}
    <3>3. into.dev = IF "runtime" \in D THEN "runtime" ELSE IF "dev" \in D THEN "dev" ELSE None
      BY <1>0, <2>5
    <3>4. Strongest({r.dev : r \in S}) = IF "runtime" \in D \cup {record.dev} THEN "runtime"
                                         ELSE IF "dev" \in D \cup {record.dev} THEN "dev" ELSE None
      BY <1>0, <3>1
    <3> HIDE DEF D
    <3> QED
      BY <2>2, <3>2, <3>3, <3>4, NoneAssumption
  <2>7. result.optional <=> \A r \in S : r.optional
    BY <2>1, <2>2, <2>5
  <2>8. result.integrity = None \/ \E r \in S : r.integrity = result.integrity
    BY <2>1, <2>2, <2>5
  <2>9. /\ key \in next.conflicts <=> contested
        /\ contested => result.integrity = None
    BY <2>2, <2>4, <2>14
  <2>10. ~contested => \A r \in S : r.integrity \in {None, result.integrity}
    BY <2>1, <2>2, <2>5, <2>14
  <2>11. contested /\ key \notin start.conflicts => Disagree(S)
    <3>1. CASE key \in fold.conflicts
      BY <2>1, <2>5, <3>1 DEF Disagree
    <3>2. CASE key \notin fold.conflicts /\ contested
      BY <2>1, <2>5, <2>14, <3>2 DEF Disagree
    <3> QED
      BY <3>1, <3>2
  <2>12. key \in start.conflicts => contested
    BY <2>5, <2>14
  <2> HIDE DEF contested, result
  <2>13. Sums(next, start, key, S)
    BY <2>1, <2>2, <2>4, <2>5, <2>6, <2>7, <2>8, <2>9, <2>10, <2>11, <2>12 DEF Sums
  <2> QED
    BY <2>13 DEF next
<1>3. CASE at # key
  <2>1. S = R /\ (key \in DOMAIN next.packages <=> key \in DOMAIN fold.packages)
        /\ (key \in DOMAIN fold.packages => next.packages[key] = fold.packages[key])
        /\ (key \in next.conflicts <=> key \in fold.conflicts)
        /\ next = [packages |-> next.packages, conflicts |-> next.conflicts]
        /\ next.packages = [k \in DOMAIN next.packages |-> next.packages[k]]
    <3>1. CASE at \notin DOMAIN fold.packages
      <4>1. next = [fold EXCEPT !.packages = With(fold.packages, at, record)]
        BY <3>1 DEF Sighted
      <4> QED
        BY <1>3, <4>1 DEF With, Sums
    <3>2. CASE at \in DOMAIN fold.packages
      <4>1. next = [packages |-> With(fold.packages, at, merged.record), conflicts |-> merged.conflicts]
        BY <3>2 DEF Sighted
      <4>2. merged.conflicts \in {fold.conflicts \cup {at}, fold.conflicts}
        BY DEF MergeDiscovered
      <4> HIDE DEF merged
      <4> QED
        BY <1>3, <4>1, <4>2 DEF With
    <3> QED
      BY <3>1, <3>2
  <2> HIDE DEF next
  <2>8. Sums(next, start, key, S)
    BY <2>1 DEF Sums
  <2> QED
    BY <2>8 DEF next
<1> QED
  BY <1>1, <1>2, <1>3

\* The folds over some keys and hashes.
Folds(K, H) == [packages : UNION {[D -> Records(H)] : D \in SUBSET K}, conflicts : SUBSET K]

\* A fold stays one over these keys and hashes with one more sighting.
LEMMA SightedTyped ==
  ASSUME NEW K, NEW H, None \in H, NEW fold \in Folds(K, H), NEW at \in K, NEW record \in Records(H)
  PROVE  Sighted(fold, at, record) \in Folds(K, H)
<1> DEFINE into == fold.packages[at]
           merged == MergeDiscovered(into, record, at, fold.conflicts)
<1>1. fold = [packages |-> fold.packages, conflicts |-> fold.conflicts] /\ fold.conflicts \in SUBSET K
  BY DEF Folds
<1>2. PICK D \in SUBSET K : fold.packages \in [D -> Records(H)]
  BY DEF Folds
<1>3. ASSUME NEW r \in Records(H)
      PROVE  With(fold.packages, at, r) \in [D \cup {at} -> Records(H)] /\ D \cup {at} \in SUBSET K
  BY <1>2 DEF With
<1>4. CASE at \notin DOMAIN fold.packages
  <2>1. Sighted(fold, at, record) = [packages |-> With(fold.packages, at, record), conflicts |-> fold.conflicts]
    BY <1>1, <1>4 DEF Sighted
  <2> QED
    BY <1>1, <1>3, <2>1 DEF Folds
<1>5. CASE at \in DOMAIN fold.packages
  <2>1. Sighted(fold, at, record) = [packages |-> With(fold.packages, at, merged.record), conflicts |-> merged.conflicts]
    BY <1>5 DEF Sighted
  <2>2. into \in Records(H)
    BY <1>2, <1>5
  <2>3. Shaped(into) /\ Shaped(record) /\ into.integrity \in H /\ record.integrity \in H
    BY <2>2 DEF Shaped, Records
  <2>4. Merges(merged, into, record, at, fold.conflicts)
    <3> HIDE DEF into
    <3> QED
      BY <2>3, MergeKnown
  <2> HIDE DEF merged, into
  <2>5. Shaped(merged.record) /\ merged.record.integrity \in H /\ merged.conflicts \in SUBSET K
    BY <1>1, <2>3, <2>4 DEF Merges
  <2>6. merged.record \in Records(H)
    BY <2>5 DEF Shaped, Records
  <2> QED
    BY <1>3, <2>1, <2>5, <2>6 DEF Folds
<1> QED
  BY <1>4, <1>5

\* What is known of a key before, and what is seen of it.
StartOf(start, key) == IF key \in DOMAIN start.packages THEN {start.packages[key]} ELSE {}
SeenOf(sightings, key, k) ==
  {sightings[i].record : i \in {i \in DOMAIN sightings : i <= k /\ sightings[i].key = key}}

\* The fold over all sightings is their sum, by induction on their number.
LEMMA SightAllSums ==
  ASSUME NEW start, start = [packages |-> start.packages, conflicts |-> start.conflicts],
         start.packages = [k \in DOMAIN start.packages |-> start.packages[k]],
         \A k \in DOMAIN start.packages : Shaped(start.packages[k]),
         NEW sightings, \A i \in DOMAIN sightings : Shaped(sightings[i].record),
         NEW last \in Nat, DOMAIN sightings \subseteq 1..last, NEW key
  PROVE  Sums(SightAll(start, sightings, last), start, key, StartOf(start, key) \cup SeenOf(sightings, key, last))
<1> DEFINE Turn(k, f) == IF k \in DOMAIN sightings THEN Sighted(f, sightings[k].key, sightings[k].record) ELSE f
           body(f, n) == IF n = 0 THEN start
                         ELSE IF n \in DOMAIN sightings THEN Sighted(f[n - 1], sightings[n].key, sightings[n].record)
                         ELSE f[n - 1]
           after == CHOOSE f : f = [n \in 0..last |-> body(f, n)]
           K == DOMAIN start.packages \cup start.conflicts \cup {sightings[i].key : i \in DOMAIN sightings}
           H == {None} \cup {start.packages[k].integrity : k \in DOMAIN start.packages}
                \cup {sightings[i].record.integrity : i \in DOMAIN sightings}
<1>1. SightAll(start, sightings, last) = after[last]
  BY DEF SightAll
<1>2. start \in Folds(K, H)
  <2>1. \A k \in DOMAIN start.packages : start.packages[k] \in Records(H)
    BY DEF Shaped, Records
  <2>2. DOMAIN start.packages \in SUBSET K /\ start.conflicts \in SUBSET K
    OBVIOUS
  <2> HIDE DEF K, H
  <2>3. start.packages \in [DOMAIN start.packages -> Records(H)]
    BY <2>1
  <2> QED
    BY <2>2, <2>3 DEF Folds
<1>3. ASSUME NEW k \in 1..last, NEW f \in Folds(K, H) PROVE Turn(k, f) \in Folds(K, H)
  <2>1. k \in DOMAIN sightings =>
          None \in H /\ sightings[k].key \in K /\ sightings[k].record \in Records(H)
    BY DEF Shaped, Records
  <2> HIDE DEF K, H
  <2> QED
    BY <2>1, SightedTyped
<1> DEFINE prev == [k \in 1..last |-> k - 1]
           step == [x \in (1..last) \X Folds(K, H) |-> Turn(x[1], x[2])]
<1> HIDE DEF K, H
<1>4. PICK f \in [0..last -> Folds(K, H)] : Solves(f, last, start, prev, step)
  <2>1. prev \in [1..last -> Nat] /\ \A k \in 1..last : prev[k] < k
    OBVIOUS
  <2>2. step \in [(1..last) \X Folds(K, H) -> Folds(K, H)]
    <3> HIDE DEF Turn
    <3> QED
      BY <1>3
  <2> HIDE DEF prev, step
  <2> QED
    BY <1>2, <2>1, <2>2, Recursion
<1>5. f = [n \in 0..last |-> body(f, n)]
  <2>1. ASSUME NEW n \in 0..last, n # 0 PROVE f[n] = body(f, n)
    <3>1. n \in 1..last /\ n - 1 \in 0..last /\ prev[n] = n - 1 /\ n > 0
      BY <2>1
    <3>2. f[n - 1] \in Folds(K, H) /\ <<n, f[n - 1]>> \in (1..last) \X Folds(K, H)
          /\ <<n, f[n - 1]>>[2] = f[n - 1] /\ <<n, f[n - 1]>>[1] = n
      BY <3>1
    <3>3. f[n] = step[<<n, f[n - 1]>>]
      <4> HIDE DEF step, prev
      <4> QED
        BY <1>4, <3>1 DEF Solves
    <3>4. step[<<n, f[n - 1]>>] = Turn(n, f[n - 1])
      <4> HIDE DEF Turn
      <4> QED
        BY <3>2
    <3>5. body(f, n) = Turn(n, f[n - 1])
      BY <3>1
    <3> QED
      BY <3>3, <3>4, <3>5
  <2>2. f[0] = body(f, 0)
    BY <1>4 DEF Solves
  <2>3. f = [n \in 0..last |-> f[n]]
    OBVIOUS
  <2> HIDE DEF body
  <2>4. \A n \in 0..last : f[n] = body(f, n)
    BY <2>1, <2>2
  <2> QED
    BY <2>3, <2>4, Zenon
<1>6. after = [n \in 0..last |-> body(after, n)]
  <2> HIDE DEF body
  <2> QED
    BY <1>5
<1> HIDE DEF after
<1>7. after[0] = start /\ \A n \in 1..last : after[n] = Turn(n, after[n - 1])
  <2>1. 0 \in 0..last /\ \A n \in 1..last : n \in 0..last /\ n > 0 /\ n # 0
    OBVIOUS
  <2>2. \A n \in 0..last : after[n] = body(after, n)
    <3> HIDE DEF body
    <3> QED
      BY <1>6
  <2> QED
    BY <2>1, <2>2
<1> DEFINE Said(k) == StartOf(start, key) \cup SeenOf(sightings, key, k)
           G == {k \in 0..last : Sums(after[k], start, key, Said(k))}
<1>8. 0 \in G
  <2>1. Said(0) = StartOf(start, key)
    BY DEF SeenOf
  <2>2. Sums(start, start, key, StartOf(start, key))
    <3>1. CASE key \notin DOMAIN start.packages
      BY <3>1 DEF Sums, StartOf
    <3>2. CASE key \in DOMAIN start.packages
      <4> DEFINE r == start.packages[key]
      <4>1. StartOf(start, key) = {r} /\ Shaped(r)
        BY <3>2 DEF StartOf
      <4>2. r.dev = Strongest({q.dev : q \in {r}})
        <5>1. r.dev \in {"runtime", "dev", None} /\ {q.dev : q \in {r}} = {r.dev}
          BY <4>1 DEF Shaped, Records
        <5> HIDE DEF r
        <5> QED
          BY <5>1 DEF Strongest
      <4> QED
        BY <3>2, <4>1, <4>2 DEF Sums
    <3> QED
      BY <3>1, <3>2
  <2>3. after[0] = start /\ 0 \in 0..last
    BY <1>7
  <2> HIDE DEF Said
  <2> QED
    BY <2>1, <2>2, <2>3
<1>9. ASSUME NEW k \in 0..last, k \in G, k < last PROVE k + 1 \in G
  <2> DEFINE at == sightings[k + 1].key
             record == sightings[k + 1].record
  <2>1. k + 1 \in 1..last /\ k + 1 \in 0..last /\ (k + 1) - 1 = k
    BY <1>9
  <2>2. after[k + 1] = Turn(k + 1, after[k]) /\ Sums(after[k], start, key, Said(k))
    <3> HIDE DEF Turn
    <3> QED
      BY <1>7, <1>9, <2>1
  <2>3. CASE k + 1 \notin DOMAIN sightings
    <3>1. Said(k + 1) = Said(k)
      BY <2>3 DEF SeenOf
    <3> QED
      BY <2>1, <2>2, <2>3, <3>1
  <2>4. CASE k + 1 \in DOMAIN sightings
    <3>1. Said(k + 1) = IF at = key THEN Said(k) \cup {record} ELSE Said(k)
      <4>1. SeenOf(sightings, key, k + 1) =
              IF at = key THEN SeenOf(sightings, key, k) \cup {record} ELSE SeenOf(sightings, key, k)
        <5>1. \A i \in DOMAIN sightings : i <= k + 1 <=> i <= k \/ i = k + 1
          OBVIOUS
        <5>2. CASE at = key
          BY <2>4, <5>1, <5>2 DEF SeenOf
        <5>3. CASE at # key
          BY <2>4, <5>1, <5>3 DEF SeenOf
        <5> QED
          BY <5>2, <5>3
      <4> QED
        BY <4>1
    <3>2. after[k + 1] = Sighted(after[k], at, record) /\ Shaped(record)
      BY <2>2, <2>4
    <3> HIDE DEF Said, at, record
    <3>3. Sums(after[k + 1], start, key, Said(k + 1))
      BY <2>2, <3>1, <3>2, SightedSums
    <3> QED
      BY <2>1, <3>3
  <2> QED
    BY <2>3, <2>4
<1>10. G = 0..last
  <2>1. G \in SUBSET (0..last)
    OBVIOUS
  <2> HIDE DEF G
  <2> QED
    BY <1>8, <1>9, <2>1, Upward
<1> QED
  <2>1. last \in G
    BY <1>10
  <2> QED
    BY <1>1, <2>1

-------------------------------------------------------------------------------
(* A set in a sequence *)

\* SetToSeq lists every element of a finite set.
LEMMA Sequenced ==
  ASSUME NEW S, IsFiniteSet(S)
  PROVE  /\ Cardinality(S) \in Nat
         /\ SetToSeq(S) \in [1..Cardinality(S) -> S]
         /\ \A x \in S : \E i \in 1..Cardinality(S) : SetToSeq(S)[i] = x
<1> DEFINE n == Cardinality(S)
           keys == SetToSeq(S)
<1>1. n \in Nat /\ ExistsBijection(1..n, S)
  BY FS_CardinalityType
<1>2. PICK f : f \in Bijection(1..n, S)
  BY <1>1 DEF ExistsBijection
<1>3. f \in [1..n -> S] /\ IsInjective(f)
  BY <1>2 DEF Bijection, Injection
<1>4. keys \in [1..n -> S] /\ IsInjective(keys)
  BY <1>3 DEF SetToSeq
<1> HIDE DEF keys
<1>5. keys \in Injection(1..n, S)
  BY <1>4 DEF Injection
<1>6. Cardinality(1..n) = n
  BY <1>1, FS_Interval, SMT
<1>7. keys \in Surjection(1..n, S)
  BY <1>5, <1>6, FS_Injection
<1>8. \A x \in S : \E i \in 1..n : keys[i] = x
  BY <1>7 DEF Surjection
<1> QED
  BY <1>1, <1>4, <1>8 DEF keys

\* What a function takes the elements of a finite set to is finite.
LEMMA FiniteValues ==
  ASSUME NEW S, IsFiniteSet(S), NEW f, DOMAIN f = S
  PROVE  IsFiniteSet({f[x] : x \in S})
<1> DEFINE T == {f[x] : x \in S}
           g == [x \in S |-> f[x]]
<1>1. g \in [S -> T] /\ \A t \in T : \E x \in S : g[x] = t
  OBVIOUS
<1> HIDE DEF g, T
<1>2. g \in Surjection(S, T)
  BY <1>1 DEF Surjection
<1>3. IsFiniteSet(T)
  BY <1>2, FS_Surjection
<1> QED
  BY <1>3 DEF T

-------------------------------------------------------------------------------
(* What one lockfile says *)

\* The entries of one lockfile for a package, and what its root says of it.
SeenIn(l, key) ==
  IF l.form = "npm"
  THEN {NpmSighting(l.entries[i]) : i \in {i \in NpmPackages(l) : NpmKey(l.entries[i]) = key}}
  ELSE {ParsePnpm(l, {}).packages[k] : k \in DOMAIN l.packages \cap {key}}
RootSays(l, key) ==
  (IF l.form = "npm" /\ l.root # None /\ key \in RootKeys(l, l.root.deps) THEN {"runtime"} ELSE {})
  \cup (IF l.form = "npm" /\ l.root # None /\ key \in RootKeys(l, l.root.devDeps \ l.root.deps) THEN {"dev"} ELSE {})
SaidIn(l, key) == {s.dev : s \in SeenIn(l, key)} \cup RootSays(l, key)

\* A package is known as R and D say: R are the entries for it, D what is said of
\* its being dev or not.
Fair(packages, conflicts, key, R, D) ==
  /\ key \in DOMAIN packages <=> R # {}
  /\ R = {} => D = {} /\ key \notin conflicts
  /\ R # {} =>
       LET record == packages[key] IN
       /\ Shaped(record)
       /\ record.dev = Strongest(D)
       /\ record.optional <=> \A r \in R : r.optional
       /\ record.integrity = None \/ \E r \in R : r.integrity = record.integrity
       /\ key \notin conflicts => \A r \in R : r.integrity \in {None, record.integrity}
       /\ key \in conflicts => record.integrity = None /\ Disagree(R)

\* A graph of a lockfile, parsed where some conflicts were known, says the same of one.
Says(graph, before, key, R, D) ==
  /\ key \in DOMAIN graph.packages <=> R # {}
  /\ R = {} => D = {} /\ (key \in graph.conflicts => key \in before)
  /\ key \in before => key \in graph.conflicts
  /\ R # {} =>
       LET record == graph.packages[key] IN
       /\ Shaped(record)
       /\ record.dev = Strongest(D)
       /\ record.optional <=> \A r \in R : r.optional
       /\ record.integrity = None \/ \E r \in R : r.integrity = record.integrity
       /\ key \notin graph.conflicts => \A r \in R : r.integrity \in {None, record.integrity}
       /\ key \in graph.conflicts /\ key \notin before => record.integrity = None /\ Disagree(R)

\* What is said of the dev of a package, said in two parts.
LEMMA StrongestOfTwo ==
  ASSUME NEW D, NEW E
  PROVE  Strongest(D \cup E) = Strongest({Strongest(D), Strongest(E)})
BY NoneAssumption DEF Strongest

\* What is said of the dev of a package is one of three, and one thing said is that.
LEMMA StrongestIs ==
  /\ \A D : Strongest(D) \in {"runtime", "dev", None}
  /\ \A d \in {"runtime", "dev", None} : Strongest({d}) = d
BY NoneAssumption DEF Strongest

\* What was known and what a graph says, merged, are known as both say.
LEMMA FairAdds ==
  ASSUME NEW packages, NEW before, NEW graph, NEW key, NEW R, NEW D, NEW S, NEW E, NEW fold,
         Fair(packages, before, key, R, D), Says(graph, before, key, S, E),
         Sums(fold, [packages |-> packages, conflicts |-> graph.conflicts], key,
              (IF R = {} THEN {} ELSE {packages[key]}) \cup (IF S = {} THEN {} ELSE {graph.packages[key]}))
  PROVE  Fair(fold.packages, fold.conflicts, key, R \cup S, D \cup E)
<1> DEFINE start == [packages |-> packages, conflicts |-> graph.conflicts]
           p == packages[key]
           g == graph.packages[key]
           Q == (IF R = {} THEN {} ELSE {p}) \cup (IF S = {} THEN {} ELSE {g})
           record == fold.packages[key]
<1>1. start.packages = packages /\ start.conflicts = graph.conflicts
  OBVIOUS
<1>2. Sums(fold, start, key, Q)
  OBVIOUS
<1>3. R # {} => /\ Shaped(p) /\ p.dev = Strongest(D) /\ (p.optional <=> \A r \in R : r.optional)
                /\ p.integrity = None \/ \E r \in R : r.integrity = p.integrity
                /\ key \notin before => \A r \in R : r.integrity \in {None, p.integrity}
                /\ key \in before => p.integrity = None /\ Disagree(R)
                /\ key \in DOMAIN packages
  BY DEF Fair
<1>4. S # {} => /\ Shaped(g) /\ g.dev = Strongest(E) /\ (g.optional <=> \A r \in S : r.optional)
                /\ g.integrity = None \/ \E r \in S : r.integrity = g.integrity
                /\ key \notin graph.conflicts => \A r \in S : r.integrity \in {None, g.integrity}
                /\ key \in graph.conflicts /\ key \notin before => g.integrity = None /\ Disagree(S)
  BY DEF Says
<1>5. /\ R = {} => D = {} /\ key \notin before /\ key \notin DOMAIN packages
      /\ S = {} => E = {} /\ (key \in graph.conflicts => key \in before)
      /\ key \in before => key \in graph.conflicts
  BY DEF Fair, Says
<1>6. /\ key \in DOMAIN fold.packages <=> Q # {}
      /\ key \in graph.conflicts => key \in fold.conflicts
      /\ Q = {} /\ key \in fold.conflicts => key \in graph.conflicts
      /\ Q # {} =>
           /\ Shaped(record) /\ record.dev = Strongest({r.dev : r \in Q})
           /\ record.optional <=> \A r \in Q : r.optional
           /\ record.integrity = None \/ \E r \in Q : r.integrity = record.integrity
           /\ key \notin fold.conflicts => \A r \in Q : r.integrity \in {None, record.integrity}
           /\ key \in fold.conflicts /\ key \notin graph.conflicts => record.integrity = None /\ Disagree(Q)
           /\ key \in graph.conflicts /\ key \in DOMAIN packages /\ (Q # {p} \/ p.integrity = None) =>
                record.integrity = None
  <2> HIDE DEF Q, record
  <2>1. Sums(fold, start, key, Q)
    BY <1>2
  <2> HIDE DEF start
  <2> QED
    BY <1>1, <2>1 DEF Sums, record, p
<1>7. Q = {} <=> R = {} /\ S = {}
  OBVIOUS
<1>8. \A D1 : Strongest(D1) \in {"runtime", "dev", None}
  BY StrongestIs
<1>9. Strongest({}) = None
  BY DEF Strongest
<1>10. Q # {} => record.dev = Strongest(D \cup E)
  <2>1. CASE R # {} /\ S # {}
    <3>1. {r.dev : r \in Q} = {p.dev, g.dev}
      BY <2>1
    <3> QED
      BY <1>3, <1>4, <1>6, <1>7, <2>1, <3>1, StrongestOfTwo
  <2>2. CASE R # {} /\ S = {}
    <3>1. {r.dev : r \in Q} = {Strongest(D)} /\ D \cup E = D
      BY <1>3, <1>5, <2>2
    <3> QED
      BY <1>6, <1>7, <2>2, <3>1, <1>8, StrongestIs
  <2>3. CASE R = {} /\ S # {}
    <3>1. {r.dev : r \in Q} = {Strongest(E)} /\ D \cup E = E
      BY <1>4, <1>5, <2>3
    <3> QED
      BY <1>6, <1>7, <2>3, <3>1, <1>8, StrongestIs
  <2> QED
    BY <1>7, <2>1, <2>2, <2>3
<1>11. \A r : r \in Q <=> (R # {} /\ r = p) \/ (S # {} /\ r = g)
  OBVIOUS
<1> HIDE DEF start, Q, p, g, record
<1>12. Q # {} => (record.optional <=> \A r \in R \cup S : r.optional)
  BY <1>3, <1>4, <1>6, <1>11
<1>13. Q # {} => record.integrity = None \/ \E r \in R \cup S : r.integrity = record.integrity
  BY <1>3, <1>4, <1>6, <1>11
<1>14. Q # {} /\ key \notin fold.conflicts => \A r \in R \cup S : r.integrity \in {None, record.integrity}
  BY <1>3, <1>4, <1>5, <1>6, <1>11
<1>15. Q # {} /\ key \in fold.conflicts => record.integrity = None
  <2>1. CASE key \notin graph.conflicts
    BY <1>6, <2>1
  <2>2. CASE key \in graph.conflicts /\ R = {}
    BY <1>4, <1>5, <1>6, <1>11, <2>2
  <2>3. CASE key \in graph.conflicts /\ R # {} /\ key \in before
    BY <1>3, <1>6, <2>3
  <2>4. CASE key \in graph.conflicts /\ R # {} /\ key \notin before
    <3>1. g \in Q /\ g.integrity = None /\ key \in DOMAIN packages
      BY <1>3, <1>4, <1>5, <1>11, <2>4
    <3>2. Q # {p} \/ p.integrity = None
      BY <3>1
    <3> QED
      BY <1>6, <2>4, <3>1, <3>2
  <2> QED
    BY <2>1, <2>2, <2>3, <2>4
<1>16. Q # {} /\ key \in fold.conflicts => Disagree(R \cup S)
  <2>1. CASE key \in graph.conflicts /\ key \in before
    BY <1>3, <1>5, <2>1 DEF Disagree
  <2>2. CASE key \in graph.conflicts /\ key \notin before
    BY <1>4, <1>5, <2>2 DEF Disagree
  <2>3. CASE key \notin graph.conflicts /\ key \in fold.conflicts /\ Q # {}
    <3>1. PICK r \in Q, s \in Q : None \notin {r.integrity, s.integrity} /\ r.integrity # s.integrity
      BY <1>6, <2>3 DEF Disagree
    <3>2. \A q \in Q : q.integrity # None => \E t \in R \cup S : t.integrity = q.integrity
      BY <1>3, <1>4, <1>11
    <3> QED
      BY <3>1, <3>2 DEF Disagree
  <2> QED
    BY <2>1, <2>2, <2>3
<1>17. R \cup S = {} => D \cup E = {} /\ key \notin fold.conflicts
  BY <1>5, <1>6, <1>7
<1>18. Q # {} <=> R \cup S # {}
  BY <1>7
<1> QED
  BY <1>6, <1>10, <1>12, <1>13, <1>14, <1>15, <1>16, <1>17, <1>18 DEF record, Fair

\* A package of the root is an entry.
LEMMA RootKeysKnown ==
  ASSUME NEW l, DOMAIN l.entries \in SUBSET Nat, NEW names, NEW key \in RootKeys(l, names)
  PROVE  \E i \in NpmPackages(l) : NpmKey(l.entries[i]) = key
<1>1. PICK n \in names : NpmResolve(l, None, <<>>, n) # None /\ key = NpmKey(NpmResolve(l, None, <<>>, n))
  BY DEF RootKeys
<1> DEFINE At(d, m) ==
             {i \in NpmPackages(l) : /\ l.entries[i].dir = d
                                     /\ l.entries[i].path = Append(SubSeq(<<>>, 1, m), n)}
           near == {m \in 0..Len(<<>>) : At(None, m) # {}}
           entry == NpmResolve(l, None, <<>>, n)
<1>2. entry = IF near # {} THEN l.entries[Min(At(None, Max(near)))]
              ELSE IF At(None, 0) # {} THEN l.entries[Min(At(None, 0))]
              ELSE None
  BY DEF NpmResolve
<1>3. \A d, m : At(d, m) \in SUBSET NpmPackages(l) /\ At(d, m) \in SUBSET Nat
  BY DEF NpmPackages
<1>4. near \in SUBSET {0} /\ \A m \in near : At(None, m) # {}
  <2>1. Len(<<>>) = 0
    OBVIOUS
  <2> HIDE DEF At
  <2> QED
    BY <2>1
<1> HIDE DEF At, near, entry
<1>5. ASSUME NEW d, NEW m, At(d, m) # {} PROVE Min(At(d, m)) \in NpmPackages(l)
  <2>1. Min(At(d, m)) \in At(d, m)
    BY <1>3, <1>5, MinMember
  <2> QED
    BY <1>3, <2>1
<1>6. ASSUME near # {} PROVE Max(near) \in near
  <2>1. near = {0}
    BY <1>4, <1>6
  <2>2. \E x \in near : \A y \in near : x >= y
    BY <2>1
  <2> QED
    BY <2>2 DEF Max
<1>7. CASE near # {}
  BY <1>1, <1>2, <1>4, <1>5, <1>6, <1>7 DEF entry
<1>8. CASE near = {} /\ At(None, 0) # {}
  BY <1>1, <1>2, <1>5, <1>8 DEF entry
<1>9. CASE near = {} /\ At(None, 0) = {}
  BY <1>1, <1>2, <1>9 DEF entry
<1> QED
  BY <1>7, <1>8, <1>9

\* A graph whose packages can be listed.
Listable(graph) ==
  /\ graph.packages = [k \in DOMAIN graph.packages |-> graph.packages[k]]
  /\ IsFiniteSet(DOMAIN graph.packages)
  /\ \A k \in DOMAIN graph.packages : Shaped(graph.packages[k])

\* An npm lockfile is parsed to what its entries and its root say.
LEMMA NpmSays ==
  ASSUME NEW l, LockShape(l), l.form = "npm", NEW before
  PROVE  /\ \A key : Says(ParseNpm(l, before), before, key, SeenIn(l, key), SaidIn(l, key))
         /\ Listable(ParseNpm(l, before))
         /\ \A key : IsFiniteSet(SeenIn(l, key))
<1> DEFINE last == Len(l.entries)
           sightings ==
             [i \in NpmPackages(l) |-> [key |-> NpmKey(l.entries[i]), record |-> NpmSighting(l.entries[i])]]
           start == [packages |-> <<>>, conflicts |-> before]
           fold == SightAll(start, sightings, last)
           runtime == IF l.root = None THEN {} ELSE RootKeys(l, l.root.deps)
           devOnly == IF l.root = None THEN {} ELSE RootKeys(l, l.root.devDeps \ l.root.deps)
           Asserted(key, record) ==
             IF key \in runtime THEN [record EXCEPT !.dev = "runtime"]
             ELSE IF key \in devOnly /\ record.dev = None THEN [record EXCEPT !.dev = "dev"]
             ELSE record
           graph == ParseNpm(l, before)
           Npm == NpmPackages(l)
<1>1. /\ graph.packages = [key \in DOMAIN fold.packages |-> Asserted(key, fold.packages[key])]
      /\ graph.conflicts = fold.conflicts
  BY DEF ParseNpm
<1>2. /\ l.entries \in Seq({l.entries[i] : i \in DOMAIN l.entries})
      /\ \A i \in DOMAIN l.entries : l.entries[i].optional \in BOOLEAN
  BY DEF LockShape
<1>3. last \in Nat /\ DOMAIN l.entries = 1..last /\ Npm \subseteq 1..last
  BY <1>2 DEF NpmPackages
<1>4. \A i \in Npm : Shaped(NpmSighting(l.entries[i]))
  BY <1>2 DEF Shaped, Records, NpmSighting, DevFromNpmFlags, NpmPackages
<1>5. /\ DOMAIN sightings = Npm
      /\ \A i \in Npm : sightings[i].key = NpmKey(l.entries[i]) /\ sightings[i].record = NpmSighting(l.entries[i])
  OBVIOUS
<1>6. /\ start = [packages |-> start.packages, conflicts |-> start.conflicts] /\ start.conflicts = before
      /\ start.packages = [k \in DOMAIN start.packages |-> start.packages[k]] /\ DOMAIN start.packages = {}
  OBVIOUS
<1> HIDE DEF sightings, start, fold, last, graph
<1>7. ASSUME NEW key PROVE Sums(fold, start, key, SeenIn(l, key))
  <2>1. Sums(fold, start, key, StartOf(start, key) \cup SeenOf(sightings, key, last))
    <3>1. DOMAIN sightings \subseteq 1..last /\ last \in Nat /\ \A i \in DOMAIN sightings : Shaped(sightings[i].record)
      BY <1>3, <1>4, <1>5
    <3>2. \A k \in DOMAIN start.packages : Shaped(start.packages[k])
      BY <1>6
    <3> QED
      BY <1>6, <3>1, <3>2, SightAllSums DEF fold
  <2>2. StartOf(start, key) = {}
    BY <1>6 DEF StartOf
  <2>3. SeenOf(sightings, key, last) = SeenIn(l, key)
    <3>1. \A i \in Npm : i <= last
      BY <1>3
    <3> QED
      BY <1>5, <3>1 DEF SeenOf, SeenIn
  <2> QED
    BY <2>1, <2>2, <2>3
<1>8. ASSUME NEW key PROVE IsFiniteSet(SeenIn(l, key))
  <2> DEFINE I == {i \in Npm : NpmKey(l.entries[i]) = key}
             f == [i \in I |-> NpmSighting(l.entries[i])]
  <2>1. IsFiniteSet(1..last) /\ I \subseteq 1..last
    BY <1>3, FS_Interval, SMT
  <2>2. IsFiniteSet(I)
    BY <2>1, FS_Subset
  <2>3. SeenIn(l, key) = {f[i] : i \in I} /\ DOMAIN f = I
    BY DEF SeenIn
  <2> HIDE DEF f, I
  <2> QED
    BY <2>2, <2>3, FiniteValues
<1>9. ASSUME NEW key, key \in runtime \cup devOnly PROVE SeenIn(l, key) # {}
  <2>1. DOMAIN l.entries \in SUBSET Nat
    BY <1>3
  <2>2. PICK i \in Npm : NpmKey(l.entries[i]) = key
    BY <1>9, <2>1, RootKeysKnown
  <2> QED
    BY <2>2 DEF SeenIn
<1>10. ASSUME NEW key
       PROVE  RootSays(l, key) = (IF key \in runtime THEN {"runtime"} ELSE {}) \cup (IF key \in devOnly THEN {"dev"} ELSE {})
  BY DEF RootSays
<1>11. ASSUME NEW key, NEW r, Shaped(r)
       PROVE  /\ Shaped(Asserted(key, r)) /\ (Asserted(key, r).optional <=> r.optional)
              /\ Asserted(key, r).integrity = r.integrity
              /\ Asserted(key, r).dev = IF key \in runtime THEN "runtime"
                                        ELSE IF key \in devOnly /\ r.dev = None THEN "dev" ELSE r.dev
  <2>1. r \in Records({r.integrity})
    BY <1>11 DEF Shaped
  <2>2. \A d \in {"runtime", "dev"} :
          /\ [r EXCEPT !.dev = d] \in Records({r.integrity}) /\ [r EXCEPT !.dev = d].dev = d
          /\ [r EXCEPT !.dev = d].optional = r.optional /\ [r EXCEPT !.dev = d].integrity = r.integrity
    BY <2>1 DEF Records
  <2> HIDE DEF runtime, devOnly
  <2> QED
    BY <1>11, <2>1, <2>2 DEF Shaped
<1> HIDE DEF runtime, devOnly, Asserted
<1>12. ASSUME NEW key PROVE Says(graph, before, key, SeenIn(l, key), SaidIn(l, key))
  <2> DEFINE R == SeenIn(l, key)
             D == SaidIn(l, key)
             record == graph.packages[key]
             r == fold.packages[key]
  <2>1. Sums(fold, start, key, R)
    BY <1>7
  <2> HIDE DEF R, D
  <2>2. /\ key \in DOMAIN fold.packages <=> R # {}
        /\ key \in before => key \in fold.conflicts
        /\ R = {} /\ key \in fold.conflicts => key \in before
        /\ R # {} =>
             /\ Shaped(r) /\ r.dev = Strongest({s.dev : s \in R})
             /\ r.optional <=> \A s \in R : s.optional
             /\ r.integrity = None \/ \E s \in R : s.integrity = r.integrity
             /\ key \notin fold.conflicts => \A s \in R : s.integrity \in {None, r.integrity}
             /\ key \in fold.conflicts /\ key \notin before => r.integrity = None /\ Disagree(R)
    BY <1>6, <2>1 DEF Sums
  <2>3. R = {} => D = {}
    <3>1. R = {} => key \notin runtime /\ key \notin devOnly
      BY <1>9 DEF R
    <3> QED
      BY <1>10, <3>1 DEF D, SaidIn, R
  <2>4. R # {} => record = Asserted(key, r)
    BY <1>1, <2>2
  <2>5. R # {} => record.dev = Strongest(D)
    <3>1. D = {s.dev : s \in R} \cup (IF key \in runtime THEN {"runtime"} ELSE {}) \cup (IF key \in devOnly THEN {"dev"} ELSE {})
      BY <1>10 DEF D, SaidIn, R
    <3>2. R # {} => record.dev = IF key \in runtime THEN "runtime"
                                 ELSE IF key \in devOnly /\ r.dev = None THEN "dev" ELSE r.dev
      BY <1>11, <2>2, <2>4
    <3> DEFINE E == {s.dev : s \in R}
    <3>3. R # {} => r.dev = IF "runtime" \in E THEN "runtime" ELSE IF "dev" \in E THEN "dev" ELSE None
      BY <2>2 DEF Strongest
    <3> HIDE DEF E
    <3>4. Strongest(D) = IF "runtime" \in D THEN "runtime" ELSE IF "dev" \in D THEN "dev" ELSE None
      BY DEF Strongest
    <3> HIDE DEF record, r
    <3> QED
      BY <3>1, <3>2, <3>3, <3>4, NoneAssumption DEF E
  <2>6. R # {} => /\ Shaped(record) /\ (record.optional <=> r.optional) /\ record.integrity = r.integrity
    BY <1>11, <2>2, <2>4
  <2>7. key \in DOMAIN graph.packages <=> R # {}
    BY <1>1, <2>2
  <2> HIDE DEF r, record
  <2>8. Says(graph, before, key, R, D)
    BY <1>1, <2>2, <2>3, <2>5, <2>6, <2>7 DEF Says, record
  <2> QED
    BY <2>8 DEF R, D
<1>13. Listable(graph)
  <2>1. \A k \in DOMAIN graph.packages : Shaped(graph.packages[k]) /\ SeenIn(l, k) # {}
    BY <1>12 DEF Says
  <2>2. graph.packages = [k \in DOMAIN graph.packages |-> graph.packages[k]]
    BY <1>1
  <2> DEFINE f == [i \in Npm |-> NpmKey(l.entries[i])]
             T == {f[i] : i \in Npm}
  <2>3. IsFiniteSet(1..last)
    BY <1>3, FS_Interval, SMT
  <2>4. IsFiniteSet(Npm)
    BY <1>3, <2>3, FS_Subset
  <2>5. DOMAIN graph.packages \subseteq T
    BY <2>1 DEF SeenIn
  <2>6. DOMAIN f = Npm
    OBVIOUS
  <2> HIDE DEF f
  <2>7. IsFiniteSet(T)
    BY <2>4, <2>6, FiniteValues
  <2> HIDE DEF T
  <2>8. IsFiniteSet(DOMAIN graph.packages)
    BY <2>5, <2>7, FS_Subset
  <2> QED
    BY <2>1, <2>2, <2>8 DEF Listable
<1> QED
  BY <1>8, <1>12, <1>13 DEF graph

\* A pnpm lockfile is parsed to what its packages say, and its importers of each.
LEMMA PnpmSays ==
  ASSUME NEW l, LockShape(l), l.form = "pnpm", NEW before
  PROVE  /\ \A key : Says(ParsePnpm(l, before), before, key, SeenIn(l, key), SaidIn(l, key))
         /\ Listable(ParsePnpm(l, before))
         /\ \A key : IsFiniteSet(SeenIn(l, key))
<1> DEFINE keys == DOMAIN l.packages
           Named(section) == (UNION {l.importers[i][section] : i \in DOMAIN l.importers}) \cap keys
           DevOf(key) == IF key \in Named("deps") THEN "runtime"
                         ELSE IF key \in Named("devDeps") THEN "dev" ELSE None
           graph == ParsePnpm(l, before)
           P == [key \in keys |-> [dev |-> DevOf(key), optional |-> FALSE, integrity |-> l.packages[key]]]
<1>1. graph.packages = P /\ graph.conflicts = before /\ ParsePnpm(l, {}).packages = P
  BY DEF ParsePnpm
<1>2. \A key : DevOf(key) \in {"runtime", "dev", None}
  OBVIOUS
<1> HIDE DEF DevOf, graph
<1>3. \A key \in keys : Shaped(P[key])
  BY <1>2 DEF Shaped, Records
<1>4. DOMAIN P = keys /\ IsFiniteSet(keys) /\ P = [k \in DOMAIN P |-> P[k]]
  BY DEF LockShape
<1> HIDE DEF P
<1>5. \A key : RootSays(l, key) = {} /\ SeenIn(l, key) = IF key \in keys THEN {P[key]} ELSE {}
  BY <1>1 DEF RootSays, SeenIn
<1>6. ASSUME NEW key PROVE Says(graph, before, key, SeenIn(l, key), SaidIn(l, key))
  <2>1. CASE key \notin keys
    BY <1>1, <1>4, <1>5, <2>1 DEF Says, SaidIn
  <2>2. CASE key \in keys
    <3>1. SeenIn(l, key) = {P[key]} /\ SaidIn(l, key) = {P[key].dev} /\ Shaped(P[key])
      BY <1>3, <1>5, <2>2 DEF SaidIn
    <3>2. P[key].dev \in {"runtime", "dev", None}
      BY <3>1 DEF Shaped, Records
    <3>3. P[key].dev = Strongest(SaidIn(l, key))
      BY <3>1, <3>2, StrongestIs
    <3> QED
      BY <1>1, <1>4, <2>2, <3>1, <3>3 DEF Says
  <2> QED
    BY <2>1, <2>2
<1>7. \A key : IsFiniteSet(SeenIn(l, key))
  BY <1>5, FS_EmptySet, FS_Singleton
<1>8. Listable(graph)
  BY <1>1, <1>3, <1>4 DEF Listable
<1> QED
  BY <1>6, <1>7, <1>8 DEF graph

\* addGraph: what was known and what the graph says are known.
LEMMA AddGraphFair ==
  ASSUME NEW known, NEW graph, Listable(graph),
         known.packages = [k \in DOMAIN known.packages |-> known.packages[k]],
         \A k \in DOMAIN known.packages : Shaped(known.packages[k]),
         NEW key, NEW R, NEW D, NEW S, NEW E,
         Fair(known.packages, known.conflicts, key, R, D), Says(graph, known.conflicts, key, S, E)
  PROVE  LET next == AddGraph(known, graph) IN
         /\ Fair(next.packages, next.conflicts, key, R \cup S, D \cup E)
         /\ next.packages = [k \in DOMAIN next.packages |-> next.packages[k]]
<1> DEFINE P == graph.packages
           keys == SetToSeq(DOMAIN P)
           n == Cardinality(DOMAIN P)
           sightings == [i \in DOMAIN keys |-> [key |-> keys[i], record |-> P[keys[i]]]]
           start == [packages |-> known.packages, conflicts |-> graph.conflicts]
           fold == SightAll(start, sightings, Len(keys))
           next == AddGraph(known, graph)
           Q == (IF R = {} THEN {} ELSE {known.packages[key]}) \cup (IF S = {} THEN {} ELSE {P[key]})
<1>1. next.packages = fold.packages /\ next.conflicts = fold.conflicts
  BY DEF AddGraph
<1>2. n \in Nat /\ keys \in [1..n -> DOMAIN P] /\ \A x \in DOMAIN P : \E i \in 1..n : keys[i] = x
  BY Sequenced DEF Listable
<1>3. DOMAIN keys = 1..n /\ Len(keys) = n
  BY <1>2
<1>4. \A i \in 1..n : keys[i] \in DOMAIN P /\ Shaped(P[keys[i]])
  <2> HIDE DEF P, keys, n
  <2>1. \A i \in 1..n : keys[i] \in DOMAIN P
    BY <1>2
  <2> QED
    BY <2>1 DEF Listable, P
<1>5. /\ DOMAIN sightings = 1..n
      /\ \A i \in 1..n : sightings[i].key = keys[i] /\ sightings[i].record = P[keys[i]]
  BY <1>3
<1>6. /\ start = [packages |-> start.packages, conflicts |-> start.conflicts]
      /\ start.packages = known.packages /\ start.conflicts = graph.conflicts
  OBVIOUS
<1> HIDE DEF keys, n, sightings, start, next
<1>7. Sums(fold, start, key, StartOf(start, key) \cup SeenOf(sightings, key, n))
  <2>1. \A k \in DOMAIN start.packages : Shaped(start.packages[k])
    BY <1>6
  <2>2. start.packages = [k \in DOMAIN start.packages |-> start.packages[k]]
    BY <1>6
  <2>3. DOMAIN sightings \subseteq 1..n /\ \A i \in DOMAIN sightings : Shaped(sightings[i].record)
    BY <1>4, <1>5
  <2> QED
    BY <1>2, <1>3, <1>6, <2>1, <2>2, <2>3, SightAllSums
<1>8. StartOf(start, key) = IF R = {} THEN {} ELSE {known.packages[key]}
  BY <1>6 DEF StartOf, Fair
<1>9. SeenOf(sightings, key, n) = IF S = {} THEN {} ELSE {P[key]}
  <2>1. SeenOf(sightings, key, n) = {sightings[i].record : i \in {i \in 1..n : keys[i] = key}}
    BY <1>2, <1>5 DEF SeenOf
  <2>2. CASE S = {}
    <3>1. key \notin DOMAIN P
      BY <2>2 DEF Says
    <3>2. {i \in 1..n : keys[i] = key} = {}
      BY <1>4, <3>1
    <3> QED
      BY <2>1, <2>2, <3>2
  <2>3. CASE S # {}
    <3>1. key \in DOMAIN P
      BY <2>3 DEF Says
    <3>2. PICK i \in 1..n : keys[i] = key
      BY <1>2, <3>1
    <3>3. \A j \in {j \in 1..n : keys[j] = key} : sightings[j].record = P[key]
      BY <1>5
    <3> HIDE DEF P
    <3> QED
      BY <2>1, <2>3, <3>2, <3>3
  <2> QED
    BY <2>2, <2>3
<1>10. Sums(fold, start, key, Q)
  <2>1. Q = StartOf(start, key) \cup SeenOf(sightings, key, n)
    <3> HIDE DEF P
    <3> QED
      BY <1>8, <1>9
  <2> HIDE DEF Q
  <2> QED
    BY <1>7, <2>1
<1>11. Fair(fold.packages, fold.conflicts, key, R \cup S, D \cup E)
  <2>1. Sums(fold, [packages |-> known.packages, conflicts |-> graph.conflicts], key, Q)
    BY <1>10 DEF start
  <2> HIDE DEF fold
  <2> QED
    BY <2>1, FairAdds
<1>12. fold.packages = [k \in DOMAIN fold.packages |-> fold.packages[k]]
  <2> HIDE DEF fold, Q
  <2> QED
    BY <1>10 DEF Sums
<1> QED
  <2> HIDE DEF fold
  <2> QED
    BY <1>1, <1>11, <1>12 DEF next

-------------------------------------------------------------------------------
(* The lockfiles *)

SeenAll(key) == UNION {SeenIn(l, key) : l \in LockfilesRead}
SaidAll(key) == UNION {SaidIn(l, key) : l \in LockfilesRead}

\* Every package is known as the lockfiles read so far say, and those left are the last.
MergeInv ==
  /\ tree \in Trees
  /\ lockfiles \in Seq({l \in {tree.lockfiles[i] : i \in DOMAIN tree.lockfiles} : LockShape(l)})
  /\ Len(lockfiles) <= Len(tree.lockfiles)
  /\ \A i \in DOMAIN lockfiles : lockfiles[i] = tree.lockfiles[Len(tree.lockfiles) - Len(lockfiles) + i]
  /\ found.packages = [k \in DOMAIN found.packages |-> found.packages[k]]
  /\ \A key : /\ Fair(found.packages, found.conflicts, key, SeenAll(key), SaidAll(key))
              /\ IsFiniteSet(SeenAll(key))

\* The sightings of a package are those of each lockfile read.
LEMMA SightingsAll == \A key : SightingsOf(key) = SeenAll(key)
BY DEF SightingsOf, SeenAll, SeenIn

\* What is said of its dev is what each of them says.
LEMMA SaidOfAll == \A key : SaidOf(key) = SaidAll(key)
<1> TAKE key
<1> DEFINE L == LockfilesRead
           rooted == {l \in L : l.form = "npm" /\ l.root # None}
           deps == [l \in {l \in L : l.form = "npm" /\ l.root # None} |-> l.root.deps]
           devDeps == [l \in DOMAIN deps |-> l.root.devDeps \ l.root.deps]
           roots(section) == {l \in L : l.form = "npm" /\ l.root # None /\ key \in RootKeys(l, section[l])}
<1>1. SaidOf(key) = {s.dev : s \in SightingsOf(key)}
                    \cup (IF roots(deps) # {} THEN {"runtime"} ELSE {})
                    \cup (IF roots(devDeps) # {} THEN {"dev"} ELSE {})
  BY DEF SaidOf
<1>2. \A l \in rooted : deps[l] = l.root.deps /\ devDeps[l] = l.root.devDeps \ l.root.deps
  OBVIOUS
<1>3. /\ roots(deps) = {l \in rooted : key \in RootKeys(l, l.root.deps)}
      /\ roots(devDeps) = {l \in rooted : key \in RootKeys(l, l.root.devDeps \ l.root.deps)}
  <2> HIDE DEF deps, devDeps
  <2> QED
    BY <1>2
<1>4. {s.dev : s \in SightingsOf(key)} = UNION {{s.dev : s \in SeenIn(l, key)} : l \in L}
  <2>1. SightingsOf(key) = UNION {SeenIn(l, key) : l \in L}
    BY SightingsAll DEF SeenAll
  <2> HIDE DEF L
  <2> QED
    BY <2>1
<1>5. UNION {RootSays(l, key) : l \in L} = (IF roots(deps) # {} THEN {"runtime"} ELSE {})
                                           \cup (IF roots(devDeps) # {} THEN {"dev"} ELSE {})
  <2>1. \A l \in L : RootSays(l, key) =
          (IF l \in roots(deps) THEN {"runtime"} ELSE {}) \cup (IF l \in roots(devDeps) THEN {"dev"} ELSE {})
    <3> HIDE DEF L, deps, devDeps, roots
    <3> QED
      BY <1>3 DEF RootSays
  <2>2. roots(deps) \subseteq L /\ roots(devDeps) \subseteq L
    OBVIOUS
  <2> HIDE DEF L, deps, devDeps, roots
  <2> QED
    BY <2>1, <2>2
<1>6. SaidAll(key) = (UNION {{s.dev : s \in SeenIn(l, key)} : l \in L}) \cup UNION {RootSays(l, key) : l \in L}
  <2>1. \A l : SaidIn(l, key) = {s.dev : s \in SeenIn(l, key)} \cup RootSays(l, key)
    BY DEF SaidIn
  <2> HIDE DEF L
  <2> QED
    BY <2>1 DEF SaidAll, L
<1> HIDE DEF L, deps, devDeps, roots
<1> QED
  BY <1>1, <1>4, <1>5, <1>6

\* Before the first lockfile nothing is known, and nothing said.
LEMMA MergeInit == Init => MergeInv
<1> SUFFICES ASSUME Init PROVE MergeInv
  OBVIOUS
<1>1. TreeShape(tree) /\ tree \in Trees
  BY TreesAssumption DEF Init
<1>2. lockfiles = tree.lockfiles /\ found.packages = <<>> /\ found.conflicts = {}
  BY DEF Init, Discovered
<1>3. tree.lockfiles \in Seq({l \in {tree.lockfiles[i] : i \in DOMAIN tree.lockfiles} : LockShape(l)})
  BY <1>1 DEF TreeShape
<1>4. Len(tree.lockfiles) \in Nat /\ DOMAIN tree.lockfiles = 1..Len(tree.lockfiles)
  BY <1>3
<1>5. LockfilesRead = {}
  BY <1>2, <1>4 DEF LockfilesRead
<1>6. \A key : SeenAll(key) = {} /\ SaidAll(key) = {}
  BY <1>5 DEF SeenAll, SaidAll
<1>7. \A key : Fair(found.packages, found.conflicts, key, SeenAll(key), SaidAll(key))
  BY <1>2, <1>6 DEF Fair
<1>8. found.packages = [k \in DOMAIN found.packages |-> found.packages[k]]
  BY <1>2
<1>9. \A i \in DOMAIN lockfiles : lockfiles[i] = tree.lockfiles[Len(tree.lockfiles) - Len(lockfiles) + i]
  <2> TAKE i \in DOMAIN lockfiles
  <2>1. Len(tree.lockfiles) - Len(lockfiles) + i = i
    BY <1>2, <1>4
  <2> QED
    BY <1>2, <2>1
<1>10. Len(lockfiles) <= Len(tree.lockfiles)
  BY <1>2, <1>4
<1>11. \A key : IsFiniteSet(SeenAll(key))
  BY <1>6, FS_EmptySet
<1>12. lockfiles \in Seq({l \in {tree.lockfiles[i] : i \in DOMAIN tree.lockfiles} : LockShape(l)})
  BY <1>2, <1>3
<1> QED
  BY <1>1, <1>7, <1>8, <1>9, <1>10, <1>11, <1>12 DEF MergeInv

\* Reading a lockfile keeps that.
LEMMA ReadLockfileKeeps == MergeInv /\ ReadLockfile => MergeInv'
<1> SUFFICES ASSUME MergeInv, ReadLockfile PROVE MergeInv'
  OBVIOUS
<1> DEFINE l == Head(lockfiles)
           n == Len(tree.lockfiles) - Len(lockfiles)
           Ls == {k \in {tree.lockfiles[i] : i \in DOMAIN tree.lockfiles} : LockShape(k)}
<1>1. lockfiles # <<>> /\ lockfiles' = Tail(lockfiles) /\ tree' = tree
  BY DEF ReadLockfile, given
<1>2. /\ tree \in Trees /\ lockfiles \in Seq(Ls) /\ Len(lockfiles) <= Len(tree.lockfiles)
      /\ \A i \in DOMAIN lockfiles : lockfiles[i] = tree.lockfiles[n + i]
  BY DEF MergeInv
<1>3. tree.lockfiles \in Seq(Ls)
  BY <1>2, TreesAssumption DEF TreeShape
<1> HIDE DEF Ls
<1>4. /\ Len(tree.lockfiles) \in Nat /\ Len(lockfiles) \in Nat \ {0} /\ n \in Nat
      /\ l \in Ls /\ l = tree.lockfiles[n + 1] /\ lockfiles' \in Seq(Ls) /\ Len(lockfiles') = Len(lockfiles) - 1
      /\ Len(tree.lockfiles) - Len(lockfiles') = n + 1
      /\ \A i \in DOMAIN lockfiles' : lockfiles'[i] = lockfiles[i + 1] /\ i + 1 \in DOMAIN lockfiles /\ i \in Nat
  BY <1>1, <1>2, <1>3
<1>5. \A i \in DOMAIN lockfiles' : lockfiles'[i] = tree.lockfiles[(n + 1) + i]
  <2> TAKE i \in DOMAIN lockfiles'
  <2>1. i \in Nat /\ n \in Nat
    BY <1>4
  <2> HIDE DEF n
  <2>2. n + (i + 1) = (n + 1) + i
    BY <2>1
  <2> QED
    BY <1>2, <1>4, <2>2
<1>6. LockfilesRead' = LockfilesRead \cup (IF l.form = "broken" THEN {} ELSE {l})
  <2>1. LockfilesRead = {tree.lockfiles[i] : i \in {i \in 1..n : tree.lockfiles[i].form # "broken"}}
    BY DEF LockfilesRead
  <2>2. LockfilesRead' = {tree.lockfiles[i] : i \in {i \in 1..(n + 1) : tree.lockfiles[i].form # "broken"}}
    BY <1>1, <1>4 DEF LockfilesRead
  <2>3. \A i : i \in 1..(n + 1) <=> i \in 1..n \/ i = n + 1
    BY <1>4
  <2> HIDE DEF l, n
  <2>4. CASE l.form = "broken"
    BY <1>4, <2>1, <2>2, <2>3, <2>4
  <2>5. CASE l.form # "broken"
    BY <1>4, <2>1, <2>2, <2>3, <2>5
  <2> QED
    BY <2>4, <2>5
<1>7. LockShape(l)
  BY <1>4 DEF Ls
<1>8. ASSUME \A key : Fair(found'.packages, found'.conflicts, key, SeenAll(key)', SaidAll(key)') /\ IsFiniteSet(SeenAll(key)'),
             found'.packages = [k \in DOMAIN found'.packages |-> found'.packages[k]]
      PROVE  MergeInv'
  <2>1. Len(lockfiles') <= Len(tree.lockfiles)
    BY <1>2, <1>4
  <2>2. \A i \in DOMAIN lockfiles' : lockfiles'[i] = tree.lockfiles[Len(tree.lockfiles) - Len(lockfiles') + i]
    BY <1>4, <1>5
  <2> QED
    BY <1>1, <1>2, <1>4, <1>8, <2>1, <2>2 DEF MergeInv, Ls
<1>9. CASE l.form = "broken"
  <2>1. found' = found
    BY <1>9 DEF ReadLockfile
  <2>2. LockfilesRead' = LockfilesRead
    BY <1>6, <1>9
  <2>3. \A key : SeenAll(key)' = SeenAll(key) /\ SaidAll(key)' = SaidAll(key)
    BY <2>2 DEF SeenAll, SaidAll
  <2> QED
    BY <1>8, <2>1, <2>3 DEF MergeInv
<1>10. CASE l.form # "broken"
  <2> DEFINE graph == IF l.form = "npm" THEN ParseNpm(l, found.conflicts) ELSE ParsePnpm(l, found.conflicts)
             next == AddGraph(found, graph)
  <2>1. found' = next
    BY <1>10 DEF ReadLockfile, AddLockfile
  <2>2. l.form \in {"npm", "pnpm"}
    BY <1>7, <1>10 DEF LockShape
  <2> HIDE DEF l
  <2>3. /\ \A key : Says(graph, found.conflicts, key, SeenIn(l, key), SaidIn(l, key))
        /\ Listable(graph) /\ \A key : IsFiniteSet(SeenIn(l, key))
    BY <1>7, <2>2, NpmSays, PnpmSays
  <2> HIDE DEF graph, next
  <2>4. /\ found.packages = [k \in DOMAIN found.packages |-> found.packages[k]]
        /\ \A key : Fair(found.packages, found.conflicts, key, SeenAll(key), SaidAll(key)) /\ IsFiniteSet(SeenAll(key))
    BY DEF MergeInv
  <2>5. \A key \in DOMAIN found.packages : Shaped(found.packages[key])
    BY <2>4 DEF Fair
  <2>6. ASSUME NEW key
        PROVE  /\ Fair(next.packages, next.conflicts, key, SeenAll(key) \cup SeenIn(l, key), SaidAll(key) \cup SaidIn(l, key))
               /\ next.packages = [k \in DOMAIN next.packages |-> next.packages[k]]
    BY <2>3, <2>4, <2>5, AddGraphFair DEF next
  <2>7. \A key : SeenAll(key)' = SeenAll(key) \cup SeenIn(l, key) /\ SaidAll(key)' = SaidAll(key) \cup SaidIn(l, key)
    <3>1. LockfilesRead' = LockfilesRead \cup {l}
      BY <1>6, <1>10
    <3> QED
      BY <3>1 DEF SeenAll, SaidAll
  <2>8. \A key : IsFiniteSet(SeenAll(key)')
    BY <2>3, <2>4, <2>7, FS_Union
  <2> QED
    BY <1>8, <2>1, <2>6, <2>7, <2>8
<1> QED
  BY <1>9, <1>10

\* No other step touches what is known.
LEMMA MergeStep == MergeInv /\ [Next]_vars => MergeInv'
<1> SUFFICES ASSUME MergeInv, [Next]_vars PROVE MergeInv'
  OBVIOUS
<1>1. CASE ReadLockfile
  BY <1>1, ReadLockfileKeeps
<1>2. CASE UNCHANGED <<tree, lockfiles, found>>
  <2>1. LockfilesRead' = LockfilesRead
    BY <1>2 DEF LockfilesRead
  <2>2. \A key : SeenAll(key)' = SeenAll(key) /\ SaidAll(key)' = SaidAll(key)
    BY <2>1 DEF SeenAll, SaidAll
  <2> QED
    BY <1>2, <2>2 DEF MergeInv
<1> QED
  BY <1>1, <1>2 DEF Next, vars, lock, given, ReadSource, StartWalk, FollowedAll, SkipNoLoad, FollowUnresolved,
     FollowElsewhere, FollowLoaded, FollowPastBudget, FollowUnread, FollowParsed, EndWalk, Finish, Done

\* Finite hashes, by their number.
LEMMA HashesCounted ==
  ASSUME NEW H, IsFiniteSet(H)
  PROVE  /\ \A h : H = {h} => Cardinality(H) = 1 /\ (CHOOSE x \in H : TRUE) = h
         /\ H = {} => Cardinality(H) = 0
         /\ \A g, h \in H : g # h => Cardinality(H) > 1
<1>1. \A h : H = {h} => Cardinality(H) = 1 /\ (CHOOSE x \in H : TRUE) = h
  BY FS_Singleton
<1>2. H = {} => Cardinality(H) = 0
  BY FS_EmptySet
<1>3. ASSUME NEW g \in H, NEW h \in H, g # h PROVE Cardinality(H) > 1
  <2>1. Cardinality({g}) = 1 /\ IsFiniteSet({g})
    BY FS_Singleton
  <2>2. Cardinality({g} \cup {h}) = 2
    BY <1>3, <2>1, FS_AddElement
  <2>3. Cardinality({g} \cup {h}) <= Cardinality(H) /\ Cardinality(H) \in Nat
    BY FS_Subset, FS_CardinalityType
  <2> QED
    BY <2>2, <2>3
<1> QED
  BY <1>1, <1>2, <1>3

\* "Order-independent, and independent of how the sightings are DISTRIBUTED"
\* (lockfile-graph.js:96): the record of a package is what all its entries say together.
THEOREM MergedFairlyHolds == Spec => []MergedFairly
<1>1. MergeInv => MergedFairly
  <2> SUFFICES ASSUME MergeInv, NEW key \in DOMAIN found.packages
               PROVE  LET record == found.packages[key]
                          hashes == {s.integrity : s \in SightingsOf(key)} \ {None} IN
                      /\ record.dev = IF "runtime" \in SaidOf(key) THEN "runtime"
                                      ELSE IF "dev" \in SaidOf(key) THEN "dev" ELSE None
                      /\ record.optional <=> \A s \in SightingsOf(key) : s.optional
                      /\ record.integrity = IF Cardinality(hashes) = 1 THEN CHOOSE h \in hashes : TRUE ELSE None
                      /\ key \in found.conflicts <=> Cardinality(hashes) > 1
    BY DEF MergedFairly
  <2> DEFINE R == SightingsOf(key)
             record == found.packages[key]
             f == [s \in R |-> s.integrity]
             hashes == {s.integrity : s \in R} \ {None}
  <2>1. Fair(found.packages, found.conflicts, key, R, SaidOf(key)) /\ IsFiniteSet(R)
    BY SightingsAll, SaidOfAll DEF MergeInv
  <2> HIDE DEF R
  <2>2. /\ record.dev = Strongest(SaidOf(key))
        /\ record.optional <=> \A s \in R : s.optional
        /\ record.integrity = None \/ \E s \in R : s.integrity = record.integrity
        /\ key \notin found.conflicts => \A s \in R : s.integrity \in {None, record.integrity}
        /\ key \in found.conflicts => record.integrity = None /\ Disagree(R)
    BY <2>1 DEF Fair
  <2>3. IsFiniteSet(hashes)
    <3>1. {f[s] : s \in R} = {s.integrity : s \in R} /\ DOMAIN f = R
      OBVIOUS
    <3> HIDE DEF f
    <3>3. IsFiniteSet({f[s] : s \in R})
      BY <2>1, <3>1, FiniteValues
    <3>2. IsFiniteSet({s.integrity : s \in R})
      BY <3>1, <3>3
    <3> QED
      BY <3>2, FS_Subset
  <2>4. \A h : h \in hashes <=> h # None /\ \E s \in R : s.integrity = h
    OBVIOUS
  <2> HIDE DEF hashes, record
  <2>5. CASE key \in found.conflicts
    <3>1. PICK g \in hashes, h \in hashes : g # h
      BY <2>2, <2>4, <2>5 DEF Disagree
    <3>2. Cardinality(hashes) > 1 /\ Cardinality(hashes) \in Nat
      BY <2>3, <3>1, HashesCounted, FS_CardinalityType
    <3>3. Cardinality(hashes) # 1
      BY <3>2
    <3> QED
      BY <2>2, <2>5, <3>2, <3>3 DEF Strongest, hashes, record, R
  <2>6. CASE key \notin found.conflicts
    <3>1. hashes = IF record.integrity = None THEN {} ELSE {record.integrity}
      BY <2>2, <2>4, <2>6
    <3>2. /\ Cardinality(hashes) = IF record.integrity = None THEN 0 ELSE 1
          /\ record.integrity # None => (CHOOSE h \in hashes : TRUE) = record.integrity
      BY <2>3, <3>1, HashesCounted
    <3>3. ~(Cardinality(hashes) > 1)
      BY <3>2
    <3>4. record.integrity = IF Cardinality(hashes) = 1 THEN CHOOSE h \in hashes : TRUE ELSE None
      <4>1. CASE record.integrity = None
        <5>1. Cardinality(hashes) # 1
          BY <3>2, <4>1
        <5> QED
          BY <4>1, <5>1
      <4>2. CASE record.integrity # None
        <5>1. Cardinality(hashes) = 1 /\ (CHOOSE h \in hashes : TRUE) = record.integrity
          BY <3>2, <4>2
        <5> QED
          BY <5>1, Zenon
      <4> QED
        BY <4>1, <4>2
    <3> QED
      BY <2>2, <2>6, <3>3, <3>4 DEF Strongest, hashes, record, R
  <2> QED
    BY <2>5, <2>6
<1> QED
  BY <1>1, MergeInit, MergeStep, PTL DEF Spec
================================================================================
