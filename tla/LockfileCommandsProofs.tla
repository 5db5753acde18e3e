------------------------ MODULE LockfileCommandsProofs ------------------------
(***************************************************************************)
(* The properties of LockfileCommands, for every project that npm may have *)
(* installed and every order of the commands. The invariant says how each  *)
(* form of the lockfile still stands for what was installed, and how the   *)
(* two agree; every command is a composition of few rewritings, and each   *)
(* of these keeps the invariant and what was locked.                       *)
(***************************************************************************)
EXTENDS LockfileCommands, SequenceTheorems, TLAPS

Specs == Versions \cup Loose \cup {Other, GitUrl, FileUrl, Missing}
Hashes == {None, Placeholder, Sha1, Relabelled, Local, True}

\* What an entry, or a node of the tree, still says of the package at k.
Stands(k, version, resolved, bundled) ==
  /\ version \in Specs
  /\ version = Missing => IsLink(origin[k])
  /\ k \in Packed => /\ version = origin[k].version /\ resolved = origin[k].resolved
                     /\ bundled => origin[k].inBundle

EntryFits(k, e) ==
  /\ DOMAIN e = {"version", "integrity", "resolved", "inBundle", "link", "deps", "dev"}
  /\ e.integrity \in Hashes /\ e.deps \subseteq Names /\ e.dev \subseteq Names
  /\ IsLink(e) => IsLink(origin[k]) /\ e.link.path = <<>>
  /\ InTop(k) => Stands(k, e.version, e.resolved, e.inBundle)

NodeFits(path, n) ==
  /\ DOMAIN n = {"version", "integrity", "resolved", "bundled", "requires"}
  /\ n.integrity \in Hashes /\ n.requires \subseteq Names
  /\ Stands(At(path), n.version, n.resolved, n.bundled)

\* Nothing is nested in what is not there.
NestedInMap(packages) ==
  \A k \in DOMAIN packages :
    InTop(k) => \A path \in Prefixes(k.path) : At(path) \in DOMAIN packages
NestedInTree(tree) == \A path \in DOMAIN tree : Prefixes(path) \subseteq DOMAIN tree

MapFits(packages) ==
  /\ DOMAIN packages \subseteq DOMAIN origin
  /\ \A k \in DOMAIN packages : EntryFits(k, packages[k])
  /\ NestedInMap(packages)

TreeFits(tree) ==
  /\ \A path \in DOMAIN tree : path # <<>> /\ At(path) \in DOMAIN origin
  /\ \A path \in DOMAIN tree : NodeFits(path, tree[path])
  /\ NestedInTree(tree)

\* Where both forms are there, the tree has what the map has, with its hash if that
\* is the true one, and with its version but for git.
Agree(packages, tree) ==
  \A k \in DOMAIN packages :
    InTop(k) =>
      /\ k.path \in DOMAIN tree
      /\ packages[k].integrity = True => tree[k.path].integrity = True
      /\ ~IsGitDep(origin[k]) => packages[k].version \in {Missing, tree[k.path].version}

\* The root entry has the dependencies of package.json that are installed.
Declares(l) ==
  l.root # None =>
    /\ l.root \in Root
    /\ \A n \in DOMAIN manifest.ranges : At(<<n>>) \in DOMAIN l.packages => n \in DOMAIN l.root.ranges

Fits(l) ==
  /\ DOMAIN l = {"version", "name", "packages", "root", "tree"}
  /\ l.version \in 1..3 /\ l.name \in {"old", "new"}
  /\ MapFits(l.packages) /\ TreeFits(l.tree) /\ Declares(l)
  /\ l.root = None => l.packages = <<>> /\ l.version # 3
  /\ l.version = 1 => l.root = None
  /\ l.version = 3 => l.tree = <<>>
  /\ l.version = 2 => Agree(l.packages, l.tree) \/ l.root = None

\* What the pinned ranges of package.json rest on.
Pinned(l) ==
  \A n \in DOMAIN manifest.ranges : LET k == At(<<n>>) IN
    /\ manifest.ranges[n] # Other /\ k \in DOMAIN origin => ~IsGitDep(origin[k])
    /\ manifest.ranges[n] \notin Loose \cup {Other} =>
         /\ manifest.ranges[n] # Missing
         /\ <<n>> \in DOMAIN Locked(l) /\ Locked(l)[<<n>>].version = manifest.ranges[n]

IInv ==
  /\ IsPackages(origin)
  /\ DOMAIN manifest = {"name", "ranges", "override"}
  /\ manifest.name = "new" /\ manifest.ranges \in Ranges
  /\ Fits(lock) /\ Pinned(lock)
  /\ FixedOrReported

\* What a rewriting of l to m keeps: what is locked, its version unless it is of
\* git or has none, its true hash, and its being valid but on the way to version 1.
Keeps(l, m) ==
  /\ \A path \in DOMAIN Locked(l) :
       /\ path \in DOMAIN Locked(m)
       /\ ~IsGitDep(origin[At(path)]) /\ Locked(l)[path].version # Missing =>
            Locked(m)[path].version = Locked(l)[path].version
       /\ Locked(l)[path].integrity = True => Locked(m)[path].integrity = True
  /\ Valid(l) /\ (m.version = 1 => l.version = 1) => Valid(m)
-------------------------------------------------------------------------------
(* The keys of the map and the paths of the tree *)

\* A path of the tree and its key in the map name one another.
LEMMA KeysArePaths ==
  /\ \A path : At(path).dir = Top /\ At(path).path = path
  /\ \A path : InTop(At(path)) <=> path # <<>>
  /\ \A p, q : At(p) = At(q) => p = q
  /\ IsPackages(origin) => \A k \in DOMAIN origin : InTop(k) => k = At(k.path)
BY DEF At, InTop, IsPackages

\* What a lockfile locks, in the form that npm installs from.
LEMMA LockedIs ==
  ASSUME NEW l, IsPackages(origin), Fits(l)
  PROVE  /\ \A path : path \in DOMAIN Locked(l) <=>
              IF InTree(l) THEN path \in DOMAIN l.tree
              ELSE path # <<>> /\ At(path) \in DOMAIN l.packages
         /\ \A path \in DOMAIN Locked(l) :
              /\ path # <<>> /\ At(path) \in DOMAIN origin
              /\ Locked(l)[path].version =
                   IF InTree(l) THEN l.tree[path].version ELSE l.packages[At(path)].version
              /\ Locked(l)[path].integrity =
                   IF InTree(l) THEN l.tree[path].integrity ELSE l.packages[At(path)].integrity
<1> DEFINE T == {k.path : k \in {k \in DOMAIN l.packages : InTop(k)}}
<1>1. DOMAIN l.packages \subseteq DOMAIN origin
  BY DEF Fits, MapFits
<1>2. \A path \in DOMAIN l.tree : path # <<>> /\ At(path) \in DOMAIN origin
  BY DEF Fits, TreeFits
<1>3. \A path : path \in T <=> path # <<>> /\ At(path) \in DOMAIN l.packages
  BY <1>1, KeysArePaths
<1>4. CASE InTree(l)
  <2>1. Locked(l) = [path \in DOMAIN l.tree |-> [version |-> l.tree[path].version,
                                                 integrity |-> l.tree[path].integrity]]
    BY <1>4 DEF Locked
  <2> QED
    BY <1>2, <1>4, <2>1
<1>5. CASE ~InTree(l)
  <2>1. Locked(l) = [path \in T |-> [version |-> l.packages[At(path)].version,
                                     integrity |-> l.packages[At(path)].integrity]]
    BY <1>5 DEF Locked
  <2> HIDE DEF T
  <2> QED
    BY <1>1, <1>3, <1>5, <2>1
<1> QED
  BY <1>4, <1>5

-------------------------------------------------------------------------------
(* From one form to the other *)

\* The map that is made from a tree stands for the same packages.
LEMMA MapOfTree ==
  ASSUME NEW tree, IsPackages(origin), TreeFits(tree)
  PROVE  LET m == PackagesFromTree(tree) IN
         /\ \A k : k \in DOMAIN m <=> InTop(k) /\ k = At(k.path) /\ k.path \in DOMAIN tree
         /\ \A path \in DOMAIN tree : /\ At(path) \in DOMAIN m
                                      /\ m[At(path)].version = tree[path].version
                                      /\ m[At(path)].integrity = tree[path].integrity
         /\ MapFits(m) /\ Agree(m, tree)
<1> DEFINE m == PackagesFromTree(tree)
           E(path) == PackageEntry(tree[path])
<1>1. \A path \in DOMAIN tree : path # <<>> /\ At(path) \in DOMAIN origin /\ NodeFits(path, tree[path])
  BY DEF TreeFits
<1>2. \A k : k \in DOMAIN m <=> InTop(k) /\ k = At(k.path) /\ k.path \in DOMAIN tree
  BY <1>1, KeysArePaths DEF PackagesFromTree
<1>3. \A path \in DOMAIN tree : At(path) \in DOMAIN m /\ m[At(path)] = E(path)
  BY KeysArePaths DEF PackagesFromTree
<1>4. \A path \in DOMAIN tree : E(path).version = tree[path].version /\ E(path).integrity = tree[path].integrity
  BY DEF PackageEntry
<1>5. ASSUME NEW path \in DOMAIN tree PROVE EntryFits(At(path), E(path))
  <2>1. /\ DOMAIN E(path) = {"version", "integrity", "resolved", "inBundle", "link", "deps", "dev"}
        /\ E(path).link = None /\ E(path).deps = tree[path].requires /\ E(path).dev = {}
        /\ E(path).inBundle = tree[path].bundled
        /\ E(path).resolved = IF tree[path].resolved = None /\ tree[path].version = GitUrl
                              THEN "git" ELSE tree[path].resolved
    BY DEF PackageEntry
  <2>2. At(path) \in Packed => origin[At(path)].version # GitUrl
    BY ProjectsAssumption DEF Packed, IsPackages, IsEntry, ProjectsAssumption, GitUrl, Missing
  <2>3. Stands(At(path), E(path).version, E(path).resolved, E(path).inBundle)
    BY <1>1, <1>4, <2>1, <2>2 DEF NodeFits, Stands
  <2> HIDE DEF E
  <2> QED
    BY <1>1, <1>4, <2>1, <2>3 DEF EntryFits, NodeFits, IsLink
<1>6. MapFits(m)
  <2>1. \A k \in DOMAIN m : k \in DOMAIN origin /\ EntryFits(k, m[k])
    BY <1>1, <1>2, <1>3, <1>5
  <2>2. NestedInMap(m)
    BY <1>2, <1>3 DEF TreeFits, NestedInTree, NestedInMap
  <2> QED
    BY <2>1, <2>2 DEF MapFits
<1>7. Agree(m, tree)
  BY <1>2, <1>3, <1>4 DEF Agree
<1> HIDE DEF m, E
<1> QED
  BY <1>2, <1>3, <1>4, <1>6, <1>7 DEF m
\* The tree that is made from a map stands for the same packages, and no node is
\* only a holder.
LEMMA TreeOfMap ==
  ASSUME NEW packages, IsPackages(origin), MapFits(packages)
  PROVE  LET t == DependenciesTree(packages) IN
         /\ \A path : path \in DOMAIN t <=> path # <<>> /\ At(path) \in DOMAIN packages
         /\ \A path \in DOMAIN t : /\ t[path].version = packages[At(path)].version
                                   /\ t[path].integrity = packages[At(path)].integrity
         /\ TreeFits(t) /\ Agree(packages, t)
<1> DEFINE t == DependenciesTree(packages)
           installed == {k.path : k \in {k \in DOMAIN packages : InTop(k)}}
           N(path) == LegacyNode(packages[At(path)])
<1>1. \A k \in DOMAIN packages : k \in DOMAIN origin /\ EntryFits(k, packages[k])
  BY DEF MapFits
<1>2. \A path : path \in installed <=> path # <<>> /\ At(path) \in DOMAIN packages
  BY <1>1, KeysArePaths
<1>3. \A path \in installed : Prefixes(path) \subseteq installed
  <2> SUFFICES ASSUME NEW path \in installed, NEW q \in Prefixes(path) PROVE q \in installed
    OBVIOUS
  <2>1. At(path) \in DOMAIN packages /\ path # <<>> /\ InTop(At(path)) /\ At(path).path = path
    BY <1>2, KeysArePaths
  <2>2. At(q) \in DOMAIN packages
    BY <2>1 DEF MapFits, NestedInMap
  <2>3. path \in Seq(Names)
    BY <1>1, <2>1 DEF IsPackages
  <2>4. q # <<>>
    <3>1. PICK i \in 1..(Len(path) - 1) : q = SubSeq(path, 1, i)
      BY DEF Prefixes
    <3>2. Len(q) = i
      BY <2>3, <3>1
    <3> QED
      BY <3>1, <3>2
  <2> QED
    BY <1>2, <2>2, <2>4
<1>4. t = [path \in installed |-> N(path)]
  <2>1. installed \cup UNION {Prefixes(p) : p \in installed} = installed
    BY <1>3
  <2>2. t = [path \in installed \cup UNION {Prefixes(p) : p \in installed} |->
               IF path \in installed THEN N(path) ELSE HolderNode]
    BY DEF DependenciesTree
  <2> HIDE DEF installed, t, N
  <2> QED
    BY <2>1, <2>2
<1>5. \A path : path \in DOMAIN t <=> path # <<>> /\ At(path) \in DOMAIN packages
  <2> HIDE DEF installed, t, N
  <2> QED
    BY <1>2, <1>4
<1>6. \A path \in DOMAIN t : t[path] = N(path)
  <2> HIDE DEF installed, t, N
  <2> QED
    BY <1>4
<1>7. \A path : N(path).version = packages[At(path)].version /\ N(path).integrity = packages[At(path)].integrity
  BY DEF LegacyNode
<1>8. ASSUME NEW path \in DOMAIN t PROVE NodeFits(path, N(path))
  <2>1. /\ DOMAIN N(path) = {"version", "integrity", "resolved", "bundled", "requires"}
        /\ N(path).requires = packages[At(path)].deps /\ N(path).bundled = FALSE
        /\ N(path).resolved = packages[At(path)].resolved
    BY DEF LegacyNode
  <2>2. At(path) \in DOMAIN packages /\ InTop(At(path))
    BY <1>5, KeysArePaths
  <2>3. Stands(At(path), N(path).version, N(path).resolved, N(path).bundled)
    BY <1>1, <1>7, <2>1, <2>2 DEF EntryFits, Stands
  <2> HIDE DEF N, t
  <2> QED
    BY <1>1, <1>7, <2>1, <2>2, <2>3 DEF EntryFits, NodeFits
<1> HIDE DEF t, N
<1>9. TreeFits(t)
  <2>1. NestedInTree(t)
    <3> HIDE DEF installed
    <3> QED
      BY <1>3, <1>4 DEF NestedInTree
  <2> QED
    BY <1>1, <1>5, <1>6, <1>8, <2>1 DEF TreeFits
<1>10. Agree(packages, t)
  <2> SUFFICES ASSUME NEW k \in DOMAIN packages, InTop(k)
               PROVE  /\ k.path \in DOMAIN t
                      /\ t[k.path].integrity = packages[k].integrity
                      /\ t[k.path].version = packages[k].version
    BY DEF Agree
  <2>1. k = At(k.path)
    BY <1>1, KeysArePaths
  <2>2. k.path # <<>>
    BY DEF InTop
  <2> QED
    BY <2>1, <2>2, <1>5, <1>6, <1>7
<1> QED
  BY <1>5, <1>6, <1>7, <1>9, <1>10 DEF t

-------------------------------------------------------------------------------
(* migrate *)

\* One version up from the tree: the map and its root entry are made from it.
LEMMA V1toV2Keeps ==
  ASSUME NEW l, IsPackages(origin), Fits(l), l.root = None,
         manifest.ranges \in Ranges
  PROVE  /\ Fits(V1toV2(l)) /\ Keeps(l, V1toV2(l))
         /\ V1toV2(l).version = 2 /\ V1toV2(l).root # None
<1> DEFINE m == V1toV2(l)
<1>1. /\ DOMAIN m = {"version", "name", "packages", "root", "tree"}
      /\ m.version = 2 /\ m.packages = PackagesFromTree(l.tree)
      /\ m.root = RootFromTree(l) /\ m.tree = l.tree
  BY DEF V1toV2, Fits
<1>2. TreeFits(l.tree) /\ InTree(l)
  BY DEF Fits, InTree
<1> HIDE DEF m
<1>3. m.root \in Root /\ m.root # None
  <2> DEFINE D == {n \in Names : <<n>> \in DOMAIN l.tree}
  <2>1. \A n \in D : l.tree[<<n>>].version \in Specs
    BY <1>2 DEF TreeFits, NodeFits, Stands
  <2>2. m.root.ranges = [n \in D |-> l.tree[<<n>>].version] /\ m.root.name = l.name
        /\ m.root = [name |-> m.root.name, ranges |-> m.root.ranges]
    BY <1>1 DEF RootFromTree
  <2>3. m.root.ranges \in [D -> Specs] /\ D \in SUBSET Names
    BY <2>1, <2>2
  <2>4. m.root.ranges \in Ranges
    <3> HIDE DEF D
    <3> QED
      BY <2>3 DEF Ranges, Specs
  <2>5. l.name \in {"old", "new"}
    BY DEF Fits
  <2>6. m.root \in Root
    BY <2>2, <2>4, <2>5 DEF Root
  <2> QED
    BY <2>6, ProjectsAssumption DEF ProjectsAssumption
<1>4. Declares(m)
  <2>1. DOMAIN m.root.ranges = {n \in Names : <<n>> \in DOMAIN l.tree}
    BY <1>1 DEF RootFromTree
  <2>3. DOMAIN manifest.ranges \subseteq Names
    BY DEF Ranges
  <2>2. \A path : At(path) \in DOMAIN m.packages => path \in DOMAIN l.tree
    BY <1>1, <1>2, MapOfTree, KeysArePaths
  <2> QED
    BY <1>3, <2>1, <2>2, <2>3 DEF Declares
<1>5. Fits(m)
  <2>1. MapFits(m.packages) /\ Agree(m.packages, m.tree)
    BY <1>1, <1>2, MapOfTree
  <2>2. m.name = l.name /\ l.name \in {"old", "new"}
    BY DEF m, V1toV2, Fits
  <2> QED
    BY <1>1, <1>2, <1>3, <1>4, <2>1, <2>2 DEF Fits
<1>6. ~InTree(m)
  BY <1>1, <1>3 DEF InTree
<1>7. \A path \in DOMAIN l.tree : /\ path # <<>> /\ At(path) \in DOMAIN m.packages
                                  /\ m.packages[At(path)].version = l.tree[path].version
                                  /\ m.packages[At(path)].integrity = l.tree[path].integrity
  BY <1>1, <1>2, MapOfTree DEF TreeFits
<1>8. \A path \in DOMAIN Locked(l) :
        /\ path \in DOMAIN Locked(m)
        /\ Locked(m)[path].version = Locked(l)[path].version
        /\ Locked(m)[path].integrity = Locked(l)[path].integrity
  BY <1>2, <1>5, <1>6, <1>7, LockedIs
<1>9. Valid(l) => Valid(m)
  <2> SUFFICES ASSUME Valid(l), NEW k \in DOMAIN m.packages
               PROVE  m.packages[k].version # Missing
    BY <1>1, <1>3 DEF Valid
  <2>1. l.version = 1
    BY DEF Valid
  <2>2. k = At(k.path) /\ k.path \in DOMAIN l.tree
    BY <1>1, <1>2, MapOfTree
  <2> QED
    BY <1>7, <2>1, <2>2 DEF Valid
<1> QED
  BY <1>1, <1>3, <1>5, <1>8, <1>9 DEF Keeps, m
\* A lockfile with a map and its root entry can do without its tree.
LEMMA V2toV3Keeps ==
  ASSUME NEW l, IsPackages(origin), Fits(l), l.version = 2, manifest.ranges \in Ranges
  PROVE  Fits(V2toV3(l)) /\ Keeps(l, V2toV3(l)) /\ V2toV3(l).version = 3
<1> DEFINE whole == IF l.root = None THEN V1toV2(l) ELSE l
           m == V2toV3(l)
<1>1. Fits(whole) /\ Keeps(l, whole) /\ whole.root # None /\ whole.version = 2
  <2>1. CASE l.root = None
    BY <2>1, V1toV2Keeps
  <2>2. CASE l.root # None
    BY <2>2 DEF Keeps
  <2> QED
    BY <2>1, <2>2
<1>2. m = [whole EXCEPT !.version = 3, !.tree = <<>>]
  BY DEF V2toV3
<1> HIDE DEF whole, m
<1>3. /\ DOMAIN m = {"version", "name", "packages", "root", "tree"}
      /\ m.version = 3 /\ m.tree = <<>>
      /\ m.packages = whole.packages /\ m.root = whole.root /\ m.name = whole.name
  BY <1>1, <1>2 DEF Fits
<1>4. TreeFits(m.tree)
  BY <1>3 DEF TreeFits, NestedInTree
<1>5. Declares(m)
  BY <1>1, <1>3 DEF Fits, Declares
<1>6. Fits(m)
  BY <1>1, <1>3, <1>4, <1>5 DEF Fits
<1>7. ~InTree(whole) /\ ~InTree(m)
  BY <1>1, <1>3 DEF InTree
<1>8. \A path \in DOMAIN Locked(whole) :
        /\ path \in DOMAIN Locked(m)
        /\ Locked(m)[path].version = Locked(whole)[path].version
        /\ Locked(m)[path].integrity = Locked(whole)[path].integrity
  BY <1>1, <1>3, <1>6, <1>7, LockedIs
<1>9. Valid(whole) => Valid(m)
  BY <1>1, <1>3 DEF Valid
<1>10. Valid(l) => Valid(whole)
  BY <1>1 DEF Keeps
<1> QED
  BY <1>1, <1>3, <1>6, <1>8, <1>9, <1>10 DEF Keeps, m

\* A tree is added to the map.
LEMMA V3toV2Keeps ==
  ASSUME NEW l, IsPackages(origin), Fits(l), l.version = 3
  PROVE  Fits(V3toV2(l)) /\ Keeps(l, V3toV2(l)) /\ V3toV2(l).version = 2
<1> DEFINE m == V3toV2(l)
<1>1. /\ DOMAIN m = {"version", "name", "packages", "root", "tree"}
      /\ m.version = 2 /\ m.tree = DependenciesTree(l.packages)
      /\ m.packages = l.packages /\ m.root = l.root /\ m.name = l.name
  BY DEF V3toV2, Fits
<1> HIDE DEF m
<1>2. l.root # None
  BY DEF Fits
<1>3. TreeFits(m.tree) /\ Agree(m.packages, m.tree)
  BY <1>1, TreeOfMap DEF Fits
<1>4. Fits(m)
  BY <1>1, <1>2, <1>3 DEF Fits, Declares
<1>5. ~InTree(l) /\ ~InTree(m)
  BY <1>1, <1>2 DEF InTree
<1>6. \A path \in DOMAIN Locked(l) :
        /\ path \in DOMAIN Locked(m)
        /\ Locked(m)[path].version = Locked(l)[path].version
        /\ Locked(m)[path].integrity = Locked(l)[path].integrity
  BY <1>1, <1>4, <1>5, LockedIs
<1>7. Valid(l) => Valid(m)
  BY <1>1 DEF Valid
<1> QED
  BY <1>1, <1>4, <1>6, <1>7 DEF Keeps, m

\* The map is dropped: the tree has whatever the map had, or is made from it.
LEMMA V2toV1Keeps ==
  ASSUME NEW l, IsPackages(origin), Fits(l), l.version = 2
  PROVE  Fits(V2toV1(l)) /\ Keeps(l, V2toV1(l)) /\ V2toV1(l).version = 1
<1> DEFINE m == V2toV1(l)
           t == IF l.tree = <<>> THEN DependenciesTree(l.packages) ELSE l.tree
<1>1. /\ DOMAIN m = {"version", "name", "packages", "root", "tree"}
      /\ m.version = 1 /\ m.tree = t /\ m.packages = <<>> /\ m.root = None /\ m.name = l.name
  BY DEF V2toV1, Fits
<1>2. TreeFits(t) /\ Agree(l.packages, t)
  <2>1. CASE l.tree = <<>>
    BY <2>1, TreeOfMap DEF Fits
  <2>2. CASE l.tree # <<>> /\ l.root # None
    BY <2>2 DEF Fits
  <2>3. CASE l.tree # <<>> /\ l.root = None
    <3>1. l.packages = <<>>
      BY <2>3 DEF Fits
    <3>2. Agree(l.packages, t)
      BY <3>1 DEF Agree
    <3> QED
      BY <2>3, <3>2 DEF Fits
  <2> QED
    BY <2>1, <2>2, <2>3
<1>3. l.root = None => \A path \in DOMAIN l.tree : path \in DOMAIN t /\ t[path] = l.tree[path]
  OBVIOUS
<1> HIDE DEF m, t
<1>4. MapFits(m.packages)
  BY <1>1 DEF MapFits, NestedInMap
<1>5. Fits(m)
  BY <1>1, <1>2, <1>4 DEF Fits, Declares
<1>6. InTree(m) /\ (InTree(l) <=> l.root = None)
  BY <1>1 DEF InTree
<1>7. ASSUME NEW path \in DOMAIN Locked(l)
      PROVE  /\ path \in DOMAIN Locked(m)
             /\ ~IsGitDep(origin[At(path)]) /\ Locked(l)[path].version # Missing =>
                  Locked(m)[path].version = Locked(l)[path].version
             /\ Locked(l)[path].integrity = True => Locked(m)[path].integrity = True
  <2>1. CASE InTree(l)
    BY <1>1, <1>3, <1>5, <1>6, <2>1, LockedIs
  <2>2. CASE ~InTree(l)
    <3>1. /\ At(path) \in DOMAIN l.packages /\ InTop(At(path)) /\ At(path).path = path
          /\ Locked(l)[path].version = l.packages[At(path)].version
          /\ Locked(l)[path].integrity = l.packages[At(path)].integrity
      BY <2>2, LockedIs, KeysArePaths
    <3>2. /\ path \in DOMAIN t
          /\ l.packages[At(path)].integrity = True => t[path].integrity = True
          /\ ~IsGitDep(origin[At(path)]) => l.packages[At(path)].version \in {Missing, t[path].version}
      BY <1>2, <3>1 DEF Agree
    <3> QED
      BY <1>1, <1>5, <1>6, <3>1, <3>2, LockedIs
  <2> QED
    BY <2>1, <2>2
<1> QED
  BY <1>1, <1>5, <1>7 DEF Keeps, m

\* What two rewritings keep, they keep together.
LEMMA KeepsTransitive ==
  ASSUME NEW l, NEW x, NEW m, Keeps(l, x), Keeps(x, m),
         \/ x.version = l.version \/ x.version = m.version
         \/ x.version # 1 /\ ~(l.version = 1 /\ m.version = 1)
  PROVE  Keeps(l, m)
BY DEF Keeps

\* migrate, to whatever version from whatever version.
LEMMA MigrateKeeps ==
  ASSUME NEW l, NEW target \in 1..3, IsPackages(origin), Fits(l), manifest.ranges \in Ranges
  PROVE  /\ Fits(MigrateToVersion(l, target)) /\ Keeps(l, MigrateToVersion(l, target))
         /\ MigrateToVersion(l, target).version = target
<1>1. l.version \in 1..3 /\ (l.version = 1 => l.root = None)
  BY DEF Fits
<1>2. CASE target = l.version
  <2>1. MigrateToVersion(l, target) = l
    BY <1>2 DEF MigrateToVersion
  <2> QED
    BY <1>2, <2>1 DEF Keeps
<1>3. CASE l.version = 1 /\ target = 2
  <2>1. MigrateToVersion(l, target) = V1toV2(l)
    BY <1>3 DEF MigrateToVersion
  <2> QED
    BY <1>1, <1>3, <2>1, V1toV2Keeps
<1>4. CASE l.version = 2 /\ target = 3
  <2>1. MigrateToVersion(l, target) = V2toV3(l)
    BY <1>4 DEF MigrateToVersion
  <2> QED
    BY <1>4, <2>1, V2toV3Keeps
<1>5. CASE l.version = 3 /\ target = 2
  <2>1. MigrateToVersion(l, target) = V3toV2(l)
    BY <1>5 DEF MigrateToVersion
  <2> QED
    BY <1>5, <2>1, V3toV2Keeps
<1>6. CASE l.version = 1 /\ target = 3
  <2> DEFINE x == V1toV2(l)
  <2>1. MigrateToVersion(l, target) = V2toV3(x)
    BY <1>6 DEF MigrateToVersion
  <2>2. Fits(x) /\ Keeps(l, x) /\ x.version = 2
    BY <1>1, <1>6, V1toV2Keeps
  <2> HIDE DEF x
  <2>3. Fits(V2toV3(x)) /\ Keeps(x, V2toV3(x)) /\ V2toV3(x).version = 3
    BY <2>2, V2toV3Keeps
  <2>4. Keeps(l, V2toV3(x))
    BY <1>6, <2>2, <2>3, KeepsTransitive
  <2> QED
    BY <1>6, <2>1, <2>3, <2>4
<1>7. CASE l.version = 2 /\ target = 1
  <2>1. MigrateToVersion(l, target) = V2toV1(l)
    BY <1>7 DEF MigrateToVersion
  <2> QED
    BY <1>7, <2>1, V2toV1Keeps
<1>8. CASE l.version = 3 /\ target = 1
  <2> DEFINE x == V3toV2(l)
  <2>1. MigrateToVersion(l, target) = V2toV1(x)
    BY <1>8 DEF MigrateToVersion
  <2>2. Fits(x) /\ Keeps(l, x) /\ x.version = 2
    BY <1>8, V3toV2Keeps
  <2> HIDE DEF x
  <2>3. Fits(V2toV1(x)) /\ Keeps(x, V2toV1(x)) /\ V2toV1(x).version = 1
    BY <2>2, V2toV1Keeps
  <2>4. Keeps(l, V2toV1(x))
    BY <1>8, <2>2, <2>3, KeepsTransitive
  <2> QED
    BY <1>8, <2>1, <2>3, <2>4
<1> QED
  BY <1>1, <1>2, <1>3, <1>4, <1>5, <1>6, <1>7, <1>8
-------------------------------------------------------------------------------
(* What changes hashes *)

\* The entry, or the node, but for its hash.
SameButHash(e, f) == f = e \/ \E hash \in Hashes : f = [e EXCEPT !.integrity = hash]

\* m is l with other hashes. A true one of the map stays there, and is in the tree,
\* or was already; a tree by itself is left alone.
Rehashed(l, m) ==
  /\ DOMAIN m = DOMAIN l
  /\ m.version = l.version /\ m.name = l.name /\ m.root = l.root
  /\ DOMAIN m.packages = DOMAIN l.packages /\ DOMAIN m.tree = DOMAIN l.tree
  /\ l.packages = <<>> => m.packages = <<>>
  /\ l.tree = <<>> => m.tree = <<>>
  /\ \A k \in DOMAIN l.packages : SameButHash(l.packages[k], m.packages[k])
  /\ \A path \in DOMAIN l.tree : SameButHash(l.tree[path], m.tree[path])
  /\ \A k \in DOMAIN l.packages :
       /\ l.packages[k].integrity = True => m.packages[k].integrity = True
       /\ m.packages[k].integrity = True /\ InTop(k) /\ k.path \in DOMAIN l.tree =>
            \/ m.tree[k.path].integrity = True
            \/ l.packages[k].integrity = True /\ m.tree[k.path] = l.tree[k.path]
  /\ InTree(l) => \A path \in DOMAIN l.tree : m.tree[path] = l.tree[path]

\* Changing hashes that way keeps what is locked.
LEMMA RehashedKeeps ==
  ASSUME NEW l, NEW m, IsPackages(origin), Fits(l), Rehashed(l, m)
  PROVE  Fits(m) /\ Keeps(l, m)
<1>1. ASSUME NEW k \in DOMAIN l.packages
      PROVE  /\ DOMAIN m.packages[k] = DOMAIN l.packages[k]
             /\ m.packages[k].integrity \in Hashes
             /\ l.packages[k].integrity = True => m.packages[k].integrity = True
             /\ m.packages[k].integrity = True /\ InTop(k) /\ k.path \in DOMAIN l.tree =>
                  \/ m.tree[k.path].integrity = True
                  \/ l.packages[k].integrity = True /\ m.tree[k.path] = l.tree[k.path]
             /\ m.packages[k].version = l.packages[k].version
             /\ m.packages[k].resolved = l.packages[k].resolved
             /\ m.packages[k].inBundle = l.packages[k].inBundle
             /\ m.packages[k].link = l.packages[k].link
             /\ m.packages[k].deps = l.packages[k].deps /\ m.packages[k].dev = l.packages[k].dev
  <2>1. DOMAIN l.packages[k] = {"version", "integrity", "resolved", "inBundle", "link", "deps", "dev"}
    BY DEF Fits, MapFits, EntryFits
  <2>2. /\ l.packages[k].integrity \in Hashes
        /\ SameButHash(l.packages[k], m.packages[k])
        /\ l.packages[k].integrity = True => m.packages[k].integrity = True
        /\ m.packages[k].integrity = True /\ InTop(k) /\ k.path \in DOMAIN l.tree =>
             \/ m.tree[k.path].integrity = True
             \/ l.packages[k].integrity = True /\ m.tree[k.path] = l.tree[k.path]
    BY DEF Fits, MapFits, EntryFits, Rehashed
  <2>3. CASE m.packages[k] = l.packages[k]
    BY <2>2, <2>3
  <2>4. CASE m.packages[k] # l.packages[k]
    <3>1. PICK hash \in Hashes : m.packages[k] = [l.packages[k] EXCEPT !.integrity = hash]
      BY <2>2, <2>4 DEF SameButHash
    <3> QED
      BY <2>1, <2>2, <3>1
  <2> QED
    BY <2>3, <2>4
<1>2. ASSUME NEW path \in DOMAIN l.tree
      PROVE  /\ DOMAIN m.tree[path] = DOMAIN l.tree[path]
             /\ m.tree[path].integrity \in Hashes
             /\ m.tree[path].version = l.tree[path].version
             /\ m.tree[path].resolved = l.tree[path].resolved
             /\ m.tree[path].bundled = l.tree[path].bundled
             /\ m.tree[path].requires = l.tree[path].requires
  <2>1. DOMAIN l.tree[path] = {"version", "integrity", "resolved", "bundled", "requires"}
    BY DEF Fits, TreeFits, NodeFits
  <2>2. l.tree[path].integrity \in Hashes /\ SameButHash(l.tree[path], m.tree[path])
    BY DEF Fits, TreeFits, NodeFits, Rehashed
  <2> QED
    BY <2>1, <2>2 DEF SameButHash
<1>3. /\ DOMAIN m = DOMAIN l
      /\ m.version = l.version /\ m.name = l.name /\ m.root = l.root
      /\ DOMAIN m.packages = DOMAIN l.packages /\ DOMAIN m.tree = DOMAIN l.tree
      /\ l.packages = <<>> => m.packages = <<>>
      /\ l.tree = <<>> => m.tree = <<>>
      /\ InTree(l) => \A path \in DOMAIN l.tree : m.tree[path] = l.tree[path]
  BY DEF Rehashed
<1>4. MapFits(m.packages)
  <2>1. \A k \in DOMAIN l.packages : EntryFits(k, l.packages[k]) => EntryFits(k, m.packages[k])
    BY <1>1 DEF EntryFits, IsLink
  <2> QED
    BY <1>3, <2>1 DEF Fits, MapFits, NestedInMap
<1>5. TreeFits(m.tree)
  <2>1. \A path \in DOMAIN l.tree : NodeFits(path, l.tree[path]) => NodeFits(path, m.tree[path])
    BY <1>2 DEF NodeFits
  <2> QED
    BY <1>3, <2>1 DEF Fits, TreeFits, NestedInTree
<1>6. Agree(l.packages, l.tree) => Agree(m.packages, m.tree)
  BY <1>1, <1>2, <1>3 DEF Agree
<1>7. Fits(m)
  BY <1>3, <1>4, <1>5, <1>6 DEF Fits, Declares
<1>8. InTree(m) <=> InTree(l)
  BY <1>3 DEF InTree
<1>9. \A path \in DOMAIN Locked(l) :
        /\ path \in DOMAIN Locked(m)
        /\ Locked(m)[path].version = Locked(l)[path].version
        /\ Locked(l)[path].integrity = True => Locked(m)[path].integrity = True
  BY <1>1, <1>2, <1>3, <1>7, <1>8, LockedIs
<1>10. Valid(l) => Valid(m)
  BY <1>1, <1>2, <1>3 DEF Valid, IsLink
<1> QED
  BY <1>7, <1>9, <1>10 DEF Keeps

\* fix may fill in placeholders.
LEMMA FillKeeps ==
  ASSUME NEW l, IsPackages(origin), Fits(l)
  PROVE  Fits(FillPlaceholderIntegrity(l)) /\ Keeps(l, FillPlaceholderIntegrity(l))
<1> DEFINE m == FillPlaceholderIntegrity(l)
           Filled(k) == IF WantsPlaceholder(k, l.packages[k]) /\ l.packages[k].integrity = None
                        THEN [l.packages[k] EXCEPT !.integrity = Placeholder] ELSE l.packages[k]
<1>1. DOMAIN l = {"version", "name", "packages", "root", "tree"}
  BY DEF Fits
<1>2. m = [l EXCEPT !.packages = [k \in DOMAIN l.packages |-> Filled(k)]]
  BY DEF FillPlaceholderIntegrity
<1>3. ASSUME NEW k \in DOMAIN l.packages
      PROVE  /\ SameButHash(l.packages[k], Filled(k))
             /\ Filled(k).integrity = True <=> l.packages[k].integrity = True
  <2>1. DOMAIN l.packages[k] = {"version", "integrity", "resolved", "inBundle", "link", "deps", "dev"}
    BY DEF Fits, MapFits, EntryFits
  <2>2. None # True /\ Placeholder # True /\ Placeholder \in Hashes
    BY ProjectsAssumption DEF ProjectsAssumption, Placeholder, True, Hashes
  <2> QED
    BY <2>1, <2>2 DEF SameButHash
<1> HIDE DEF Filled
<1>4. /\ DOMAIN m = DOMAIN l /\ m.version = l.version /\ m.name = l.name
      /\ m.root = l.root /\ m.tree = l.tree
      /\ m.packages = [k \in DOMAIN l.packages |-> Filled(k)]
  BY <1>1, <1>2
<1>5. l.packages = <<>> => m.packages = <<>>
  BY <1>4
<1>6. Rehashed(l, m)
  <2> HIDE DEF m
  <2> QED
    BY <1>3, <1>4, <1>5 DEF Rehashed, SameButHash
<1> QED
  BY <1>6, RehashedKeeps

\* upgrade-hashes relabels the sha1 digests of the map.
LEMMA UpgradeHashesKeeps ==
  ASSUME IsPackages(origin), Fits(lock), UpgradeHashes
  PROVE  Fits(lock') /\ Keeps(lock, lock')
<1>1. CASE lock.version = 1
  BY <1>1 DEF UpgradeHashes, Keeps
<1>2. CASE lock.version # 1
  <2> DEFINE l == lock
             m == lock'
             Upgraded(k) == UpgradeEntry(l.packages[k])
  <2>1. DOMAIN l = {"version", "name", "packages", "root", "tree"}
    BY DEF Fits
  <2>2. m = [l EXCEPT !.packages = [k \in DOMAIN l.packages |-> Upgraded(k)]]
    BY <1>2 DEF UpgradeHashes
  <2>3. ASSUME NEW k \in DOMAIN l.packages
        PROVE  /\ SameButHash(l.packages[k], Upgraded(k))
               /\ Upgraded(k).integrity = True <=> l.packages[k].integrity = True
    <3>1. /\ DOMAIN l.packages[k] = {"version", "integrity", "resolved", "inBundle", "link", "deps", "dev"}
          /\ l.packages[k].integrity \in Hashes
      BY DEF Fits, MapFits, EntryFits
    <3>2. /\ UpgradeHash(l.packages[k].integrity) \in Hashes
          /\ UpgradeHash(l.packages[k].integrity) = True <=> l.packages[k].integrity = True
      BY <3>1 DEF UpgradeHash, Sha1, Relabelled, True, Hashes
    <3> QED
      BY <3>1, <3>2 DEF SameButHash, UpgradeEntry
  <2> HIDE DEF Upgraded
  <2>4. /\ DOMAIN m = DOMAIN l /\ m.version = l.version /\ m.name = l.name
        /\ m.root = l.root /\ m.tree = l.tree
        /\ m.packages = [k \in DOMAIN l.packages |-> Upgraded(k)]
    BY <2>1, <2>2
  <2>5. l.packages = <<>> => m.packages = <<>>
    BY <2>4
  <2> HIDE DEF l, m
  <2>6. Rehashed(l, m)
    BY <2>3, <2>4, <2>5 DEF Rehashed, SameButHash
  <2> QED
    BY <2>6, RehashedKeeps DEF l, m
<1> QED
  BY <1>1, <1>2

\* fix-checksums gives both forms the hashes that were obtained.
LEMMA ChangesKeep ==
  ASSUME NEW l, NEW changes, IsPackages(origin), Fits(l),
         \A k \in DOMAIN changes : /\ changes[k] \in {True, Local}
                                   /\ k \in DOMAIN l.packages /\ NeedsFix(l.packages[k].integrity)
  PROVE  Fits(ApplyChanges(l, changes)) /\ Keeps(l, ApplyChanges(l, changes))
<1> DEFINE x == ApplyChangesToMap(l, changes)
           m == ApplyChanges(l, changes)
           Entry(k) == IF k \in DOMAIN changes
                       THEN [l.packages[k] EXCEPT !.integrity = changes[k]] ELSE l.packages[k]
           Node(path) == IF At(path) \in DOMAIN changes
                         THEN [l.tree[path] EXCEPT !.integrity = changes[At(path)]] ELSE l.tree[path]
<1>1. DOMAIN l = {"version", "name", "packages", "root", "tree"}
  BY DEF Fits
<1>2. /\ DOMAIN m = DOMAIN l /\ m.version = l.version /\ m.name = l.name /\ m.root = l.root
      /\ m.packages = [k \in DOMAIN l.packages |-> Entry(k)]
      /\ m.tree = [path \in DOMAIN l.tree |-> Node(path)]
  <2>1. x = [l EXCEPT !.packages = [k \in DOMAIN l.packages |-> Entry(k)]]
    BY DEF ApplyChangesToMap
  <2>2. m = [x EXCEPT !.tree = [path \in DOMAIN x.tree |->
               IF At(path) \in DOMAIN changes
               THEN [x.tree[path] EXCEPT !.integrity = changes[At(path)]] ELSE x.tree[path]]]
    BY DEF ApplyChanges
  <2> HIDE DEF x, m, Entry
  <2>3. /\ DOMAIN x = DOMAIN l /\ x.version = l.version /\ x.name = l.name /\ x.root = l.root
        /\ x.packages = [k \in DOMAIN l.packages |-> Entry(k)] /\ x.tree = l.tree
    BY <1>1, <2>1
  <2>4. m = [x EXCEPT !.tree = [path \in DOMAIN l.tree |-> Node(path)]]
    BY <2>2, <2>3
  <2> HIDE DEF Node
  <2> QED
    BY <1>1, <2>3, <2>4
<1> HIDE DEF x, m
<1>3. ASSUME NEW k \in DOMAIN changes
      PROVE  /\ changes[k] \in Hashes /\ k \in DOMAIN l.packages
             /\ l.packages[k].integrity # True
  BY ProjectsAssumption DEF ProjectsAssumption, NeedsFix, Hashes, True, Placeholder, Sha1
<1>4. ASSUME NEW k \in DOMAIN l.packages
      PROVE  /\ SameButHash(l.packages[k], Entry(k))
             /\ Entry(k).integrity = IF k \in DOMAIN changes THEN changes[k] ELSE l.packages[k].integrity
  <2>1. DOMAIN l.packages[k] = {"version", "integrity", "resolved", "inBundle", "link", "deps", "dev"}
    BY DEF Fits, MapFits, EntryFits
  <2> QED
    BY <1>3, <2>1 DEF SameButHash
<1>5. ASSUME NEW path \in DOMAIN l.tree
      PROVE  /\ SameButHash(l.tree[path], Node(path))
             /\ At(path) \in DOMAIN changes => Node(path).integrity = changes[At(path)]
             /\ At(path) \notin DOMAIN changes => Node(path) = l.tree[path]
  <2>1. DOMAIN l.tree[path] = {"version", "integrity", "resolved", "bundled", "requires"}
    BY DEF Fits, TreeFits, NodeFits
  <2> QED
    BY <1>3, <2>1 DEF SameButHash
<1> HIDE DEF Entry, Node
<1>6. l.packages = <<>> => m.packages = <<>>
  BY <1>2
<1>7. l.tree = <<>> => m.tree = <<>>
  BY <1>2
<1>8. ASSUME NEW k \in DOMAIN l.packages
      PROVE  /\ SameButHash(l.packages[k], m.packages[k])
             /\ l.packages[k].integrity = True => m.packages[k].integrity = True
             /\ m.packages[k].integrity = True /\ InTop(k) /\ k.path \in DOMAIN l.tree =>
                  \/ m.tree[k.path].integrity = True
                  \/ l.packages[k].integrity = True /\ m.tree[k.path] = l.tree[k.path]
  <2>1. InTop(k) => k = At(k.path)
    BY KeysArePaths DEF Fits, MapFits
  <2>2. m.packages[k] = Entry(k)
    BY <1>2
  <2>3. k.path \in DOMAIN l.tree => m.tree[k.path] = Node(k.path)
    BY <1>2
  <2> QED
    BY <1>3, <1>4, <1>5, <2>1, <2>2, <2>3
<1>9. InTree(l) => \A path \in DOMAIN l.tree : m.tree[path] = l.tree[path]
  <2>1. InTree(l) => DOMAIN changes = {}
    BY <1>3 DEF InTree, Fits
  <2> QED
    BY <1>2, <1>5, <2>1
<1>10. Rehashed(l, m)
  <2>1. \A path \in DOMAIN l.tree : SameButHash(l.tree[path], m.tree[path])
    BY <1>2, <1>5
  <2>2. DOMAIN m.packages = DOMAIN l.packages /\ DOMAIN m.tree = DOMAIN l.tree
    BY <1>2
  <2> HIDE DEF SameButHash
  <2> QED
    BY <1>2, <1>6, <1>7, <1>8, <1>9, <2>1, <2>2 DEF Rehashed
<1> QED
  BY <1>10, RehashedKeeps DEF m

-------------------------------------------------------------------------------
(* prune *)

\* There is a least set of entries that can be installed by itself, and it is what
\* prune keeps.
LEMMA LeastKept ==
  ASSUME NEW l
  PROVE  /\ Reachable(l) \subseteq DOMAIN Packages(l)
         /\ P!SelfSufficient(Packages(l), Reachable(l))
         /\ \A T \in SUBSET Reachable(l) : P!SelfSufficient(Packages(l), T) => T = Reachable(l)
<1> DEFINE p == Packages(l)
           Able(S) == P!SelfSufficient(p, S)
           Least(S) == Able(S) /\ \A T \in SUBSET S : Able(T) => T = S
           all == {S \in SUBSET DOMAIN p : Able(S)}
           core == {k \in DOMAIN p : \A S \in all : k \in S}
<1>1. \A k, n : P!Resolved(p, k, n) \subseteq DOMAIN p
  BY DEF P!Resolved, P!Visible
<1>2. DOMAIN p \in all
  BY <1>1 DEF P!SelfSufficient
<1>3. Able(core)
  BY <1>1 DEF P!SelfSufficient
<1>4. \E S \in SUBSET DOMAIN p : Least(S)
  <2>1. core \in SUBSET DOMAIN p
    OBVIOUS
  <2>2. \A T \in SUBSET core : Able(T) => T = core
    <3> HIDE DEF p, Able
    <3> QED
      BY <2>1
  <2> QED
    BY <1>3, <2>1, <2>2
<1>5. Reachable(l) = CHOOSE S \in SUBSET DOMAIN p : Least(S)
  BY DEF Reachable
<1> HIDE DEF Least, p
<1>6. Reachable(l) \in SUBSET DOMAIN p /\ Least(Reachable(l))
  BY <1>4, <1>5
<1> QED
  BY <1>6 DEF Least, p

\* A dependency of the project is at the top, or missing.
LEMMA DirectIsKept ==
  ASSUME NEW l, NEW n \in DOMAIN l.root.ranges, At(<<n>>) \in DOMAIN l.packages,
         IsPackages(origin), DOMAIN l.packages \subseteq DOMAIN origin
  PROVE  At(<<n>>) \in Reachable(l)
<1> DEFINE p == Packages(l)
<1>1. RootKey.path = <<>> /\ RootKey.dir = Top /\ Len(RootKey.path) = 0
  BY DEF RootKey, At
<1>2. /\ DOMAIN p = DOMAIN l.packages \cup {RootKey}
      /\ p[RootKey].deps = DOMAIN l.root.ranges
  BY DEF Packages
<1>3. RootKey \in Reachable(l)
  BY <1>1, <1>2, LeastKept DEF P!SelfSufficient
<1>4. n \in P!Needed(p, RootKey)
  BY <1>1, <1>2 DEF P!Needed
<1>5. P!Resolved(p, RootKey, n) \subseteq Reachable(l)
  BY <1>3, <1>4, LeastKept DEF P!SelfSufficient
<1> HIDE DEF p
<1>6. ASSUME NEW c \in P!Visible(p, RootKey, n) PROVE c = At(<<n>>)
  <2>1. c \in DOMAIN p
    BY DEF P!Visible
  <2>2. c = [dir |-> c.dir, path |-> c.path]
    BY <1>2, <2>1 DEF RootKey, At, IsPackages
  <2>3. CASE c = [dir |-> Top, path |-> <<n>>]
    BY <2>3 DEF At
  <2>4. CASE /\ c.dir = RootKey.dir /\ Len(c.path) \in 1..(Len(RootKey.path) + 1)
             /\ c.path = Append(SubSeq(RootKey.path, 1, Len(c.path) - 1), n)
    <3>1. Len(c.path) = 1
      BY <1>1, <2>4
    <3>2. SubSeq(RootKey.path, 1, 0) = <<>>
      BY <1>1
    <3>3. c.path = Append(<<>>, n)
      BY <2>4, <3>1, <3>2
    <3>4. c.path = <<n>>
      BY <3>3
    <3> QED
      BY <1>1, <2>2, <2>4, <3>4 DEF At
  <2> QED
    BY <2>3, <2>4 DEF P!Visible
<1>7. At(<<n>>) \in P!Resolved(p, RootKey, n)
  <2>1. At(<<n>>) \in P!Visible(p, RootKey, n)
    BY <1>2 DEF P!Visible, At
  <2>2. P!Depth(RootKey, At(<<n>>)) = 1
    BY <1>1 DEF P!Depth, At
  <2> QED
    BY <1>6, <2>1, <2>2 DEF P!Resolved
<1> QED
  BY <1>5, <1>7
\* The first elements of a sequence are also the first of one that continues any
\* longer part of it.
LEMMA CommonPrefix ==
  ASSUME NEW S, NEW s \in Seq(S), NEW n \in S, NEW m \in 0..Len(s), NEW i \in 1..m
  PROVE  SubSeq(Append(SubSeq(s, 1, m), n), 1, i) = SubSeq(s, 1, i)
<1> DEFINE a == Append(SubSeq(s, 1, m), n)
<1>1. SubSeq(s, 1, m) \in Seq(S) /\ Len(SubSeq(s, 1, m)) = m
  OBVIOUS
<1>2. \A j \in 1..m : SubSeq(s, 1, m)[j] = s[j]
  OBVIOUS
<1>3. a \in Seq(S) /\ Len(a) = m + 1 /\ \A j \in 1..m : a[j] = s[j]
  BY <1>1, <1>2
<1> HIDE DEF a
<1>4. /\ SubSeq(a, 1, i) \in Seq(S) /\ Len(SubSeq(a, 1, i)) = i
      /\ \A j \in 1..i : SubSeq(a, 1, i)[j] = a[j]
  BY <1>3
<1>5. /\ SubSeq(s, 1, i) \in Seq(S) /\ Len(SubSeq(s, 1, i)) = i
      /\ \A j \in 1..i : SubSeq(s, 1, i)[j] = s[j]
  OBVIOUS
<1>6. SubSeq(a, 1, i) = SubSeq(s, 1, i)
  <2> DEFINE b == SubSeq(a, 1, i)
             c == SubSeq(s, 1, i)
  <2>1. b \in Seq(S) /\ c \in Seq(S) /\ Len(b) = Len(c)
    BY <1>4, <1>5
  <2>2. \A j \in 1..Len(b) : b[j] = c[j]
    BY <1>3, <1>4, <1>5
  <2> HIDE DEF b, c
  <2>3. b = c
    BY <2>1, <2>2, SeqEqual
  <2> QED
    BY <2>3 DEF b, c
<1> QED
  BY <1>6 DEF a

\* What is nested stays with what it is nested in: whatever is found from there
\* is found in a node_modules around it.
LEMMA NestedIsKept ==
  ASSUME NEW l, IsPackages(origin), MapFits(l.packages), l.root \in Root
  PROVE  \A k \in Reachable(l) : InTop(k) => \A path \in Prefixes(k.path) : At(path) \in Reachable(l)
<1> DEFINE p == Packages(l)
           R == Reachable(l)
           Around(k) == InTop(k) => \A path \in Prefixes(k.path) : At(path) \in R
           T == {k \in R : Around(k)}
<1>1. /\ DOMAIN p = DOMAIN l.packages \cup {RootKey}
      /\ \A k \in DOMAIN l.packages : k # RootKey =>
           p[k].link = l.packages[k].link /\ p[k].deps = l.packages[k].deps /\ p[k].dev = l.packages[k].dev
      /\ p[RootKey].link = None /\ p[RootKey].deps = DOMAIN l.root.ranges /\ p[RootKey].dev = {}
  BY DEF Packages
<1>2. /\ RootKey = [dir |-> Top, path |-> <<>>]
      /\ \A k \in DOMAIN l.packages : /\ k = [dir |-> k.dir, path |-> k.path] /\ k.path \in Seq(Names)
                                      /\ k # RootKey /\ k # None
                                      /\ l.packages[k].deps \subseteq Names /\ l.packages[k].dev \subseteq Names
                                      /\ IsLink(l.packages[k]) => l.packages[k].link.path = <<>>
  BY DEF MapFits, EntryFits, IsPackages, RootKey, At
<1>3. DOMAIN l.root.ranges \subseteq Names
  BY DEF Root, Ranges
<1>4. /\ R \subseteq DOMAIN p /\ P!SelfSufficient(p, R)
      /\ \A S \in SUBSET R : P!SelfSufficient(p, S) => S = R
  BY LeastKept
<1> HIDE DEF p, R
<1>5. \A k \in DOMAIN p : k = [dir |-> k.dir, path |-> k.path] /\ k.path \in Seq(Names)
  <2>1. RootKey = [dir |-> RootKey.dir, path |-> RootKey.path] /\ RootKey.path \in Seq(Names)
    BY <1>2
  <2> QED
    BY <1>1, <1>2, <2>1
<1>6. \A k \in DOMAIN p : P!Needed(p, k) \subseteq Names
  BY <1>1, <1>2, <1>3 DEF P!Needed
<1>7. \A k \in DOMAIN p : k.path = <<>> => k \in T
  BY <1>4 DEF P!SelfSufficient, InTop
<1>8. ASSUME NEW k \in T, p[k].link \in DOMAIN p PROVE p[k].link \in T
  <2>1. p[k].link \in R
    BY <1>4, <1>8 DEF P!SelfSufficient
  <2>2. p[k].link.path = <<>>
    BY <1>1, <1>2, <1>4, <1>8 DEF IsLink
  <2> QED
    BY <2>1, <2>2 DEF InTop
<1>9. ASSUME NEW k \in T, NEW n \in P!Needed(p, k), NEW j \in P!Resolved(p, k, n) PROVE j \in T
  <2>1. j \in R /\ k \in DOMAIN p /\ n \in Names /\ j \in DOMAIN p
    BY <1>4, <1>6 DEF P!SelfSufficient
  <2> SUFFICES ASSUME InTop(j), NEW path \in Prefixes(j.path) PROVE At(path) \in R
    BY <2>1
  <2>2. PICK i \in 1..(Len(j.path) - 1) : path = SubSeq(j.path, 1, i)
    BY DEF Prefixes
  <2>3. /\ j.dir = k.dir /\ Len(j.path) \in 1..(Len(k.path) + 1)
        /\ j.path = Append(SubSeq(k.path, 1, Len(j.path) - 1), n)
    <3>1. CASE j = [dir |-> Top, path |-> <<n>>]
      <4>1. Len(j.path) = 1
        BY <3>1
      <4> QED
        BY <2>2, <4>1
    <3> QED
      BY <3>1 DEF P!Resolved, P!Visible
  <2>4. k.path \in Seq(Names) /\ k = [dir |-> k.dir, path |-> k.path] /\ k.dir = Top
    BY <1>5, <2>1, <2>3 DEF InTop
  <2>5. Len(j.path) - 1 \in 0..Len(k.path) /\ i \in 1..Len(k.path)
    BY <2>2, <2>3, <2>4
  <2>6. path = SubSeq(k.path, 1, i)
    <3> DEFINE m == Len(j.path) - 1
    <3>1. m \in 0..Len(k.path) /\ i \in 1..m
      BY <2>2, <2>5
    <3>2. path = SubSeq(Append(SubSeq(k.path, 1, m), n), 1, i)
      BY <2>2, <2>3
    <3> HIDE DEF m
    <3> QED
      BY <2>1, <2>4, <3>1, <3>2, CommonPrefix
  <2>7. CASE i = Len(k.path)
    <3>1. path = k.path
      BY <2>4, <2>6, <2>7
    <3> QED
      BY <2>4, <3>1 DEF At
  <2>8. CASE i # Len(k.path)
    <3>1. path \in Prefixes(k.path)
      BY <2>4, <2>5, <2>6, <2>8 DEF Prefixes
    <3>2. InTop(k)
      BY <2>4, <2>5 DEF InTop
    <3> QED
      BY <3>1, <3>2
  <2> QED
    BY <2>7, <2>8
<1>10. P!SelfSufficient(p, T)
  <2> HIDE DEF T
  <2> QED
    BY <1>7, <1>8, <1>9 DEF P!SelfSufficient
<1>11. T = R
  BY <1>4, <1>10
<1> QED
  BY <1>11 DEF R

\* prune leaves a lockfile that fits as before, with the pinned packages; what is
\* still locked is locked as before.
LEMMA PruneFits ==
  ASSUME IsPackages(origin), Fits(lock), Pinned(lock), Prune
  PROVE  /\ Fits(lock') /\ Pinned(lock') /\ (Valid(lock) => Valid(lock'))
         /\ \A path \in DOMAIN Locked(lock) \cap DOMAIN Locked(lock') :
              /\ Locked(lock')[path].version = Locked(lock)[path].version
              /\ Locked(lock')[path].integrity = Locked(lock)[path].integrity
<1> DEFINE l == lock
           m == lock'
<1>1. CASE l.root = None
  <2>1. lock' = lock
    BY <1>1 DEF Prune
  <2> QED
    BY <2>1
<1>2. CASE l.root # None
  <2>1. m = [l EXCEPT !.packages = [k \in Kept(l) |-> l.packages[k]]]
    BY <1>2 DEF Prune
  <2>2. l.root \in Root /\ l.version # 1
    BY <1>2 DEF Fits, Declares, Prune
  <2> HIDE DEF l, m
  <2>3. DOMAIN l = {"version", "name", "packages", "root", "tree"}
    BY DEF Fits, l
  <2>4. /\ DOMAIN m = DOMAIN l /\ m.version = l.version /\ m.name = l.name
        /\ m.root = l.root /\ m.tree = l.tree
        /\ m.packages = [k \in Kept(l) |-> l.packages[k]]
    BY <2>1, <2>3
  <2>5. /\ DOMAIN m.packages = DOMAIN l.packages \cap Reachable(l)
        /\ \A k \in DOMAIN m.packages : m.packages[k] = l.packages[k]
    BY <2>4 DEF Kept
  <2>6. MapFits(m.packages)
    <3>1. NestedInMap(m.packages)
      BY <2>2, <2>5, NestedIsKept DEF Fits, MapFits, NestedInMap, l
    <3> QED
      BY <2>5, <3>1 DEF Fits, MapFits, l
  <2>7. Agree(l.packages, l.tree) => Agree(m.packages, m.tree)
    BY <2>4, <2>5 DEF Agree
  <2>8. Fits(m)
    BY <1>2, <2>2, <2>4, <2>5, <2>6, <2>7 DEF Fits, Declares, l
  <2>9. ~InTree(l) /\ ~InTree(m)
    BY <1>2, <2>2, <2>4 DEF InTree, l
  <2>10. ASSUME NEW n \in DOMAIN manifest.ranges, manifest.ranges[n] \notin Loose \cup {Other}
         PROVE  <<n>> \in DOMAIN Locked(m) /\ Locked(m)[<<n>>].version = manifest.ranges[n]
    <3>1. /\ <<n>> \in DOMAIN Locked(l) /\ Locked(l)[<<n>>].version = manifest.ranges[n]
          /\ At(<<n>>) \in DOMAIN l.packages
      BY <2>9, <2>10, LockedIs DEF Pinned, l
    <3>2. n \in DOMAIN l.root.ranges
      BY <1>2, <3>1 DEF Fits, Declares, l
    <3>3. At(<<n>>) \in DOMAIN m.packages
      BY <2>5, <3>1, <3>2, DirectIsKept DEF Fits, MapFits, l
    <3> QED
      BY <2>5, <2>8, <2>9, <3>1, <3>3, LockedIs DEF l
  <2>11. Pinned(m)
    BY <2>10 DEF Pinned, l
  <2>12. Valid(l) => Valid(m)
    BY <2>2, <2>4, <2>5 DEF Valid
  <2>13. \A path \in DOMAIN Locked(l) \cap DOMAIN Locked(m) :
           /\ Locked(m)[path].version = Locked(l)[path].version
           /\ Locked(m)[path].integrity = Locked(l)[path].integrity
    BY <2>5, <2>8, <2>9, LockedIs DEF l
  <2> QED
    BY <2>8, <2>11, <2>12, <2>13 DEF l, m
<1> QED
  BY <1>1, <1>2
-------------------------------------------------------------------------------
(* fix and fix-checksums *)

\* The root identity is not locked.
LEMMA SyncKeeps ==
  ASSUME NEW l, IsPackages(origin), Fits(l), manifest.name = "new"
  PROVE  Fits(SyncRootIdentity(l)) /\ Keeps(l, SyncRootIdentity(l))
<1> DEFINE root == IF l.root = None THEN None ELSE [l.root EXCEPT !.name = manifest.name]
           m == SyncRootIdentity(l)
<1>1. m = [l EXCEPT !.name = manifest.name, !.root = root]
  BY DEF SyncRootIdentity
<1>2. l.root # None => /\ root \in Root /\ root # None
                       /\ DOMAIN root.ranges = DOMAIN l.root.ranges
  <2> SUFFICES ASSUME l.root # None
               PROVE  root \in Root /\ root # None /\ DOMAIN root.ranges = DOMAIN l.root.ranges
    OBVIOUS
  <2>1. l.root \in Root
    BY DEF Fits, Declares
  <2>2. root \in Root /\ root.ranges = l.root.ranges
    BY <2>1 DEF Root
  <2> QED
    BY <2>2, ProjectsAssumption DEF ProjectsAssumption
<1>3. l.root = None => root = None
  OBVIOUS
<1> HIDE DEF m, root
<1>4. /\ DOMAIN m = DOMAIN l /\ m.version = l.version /\ m.name = "new" /\ m.root = root
      /\ m.packages = l.packages /\ m.tree = l.tree
  BY <1>1 DEF Fits
<1>5. Fits(m)
  BY <1>2, <1>3, <1>4 DEF Fits, Declares
<1>6. InTree(m) <=> InTree(l)
  BY <1>2, <1>3, <1>4 DEF InTree
<1>7. Locked(m) = Locked(l)
  BY <1>4, <1>6 DEF Locked
<1>8. Valid(l) => Valid(m)
  BY <1>2, <1>4 DEF Valid
<1> QED
  BY <1>5, <1>7, <1>8 DEF Keeps, m

\* fix, with or without a migration and placeholders.
LEMMA FixKeeps ==
  ASSUME NEW normalizeTo \in 0..3, NEW fillMissing \in BOOLEAN, Fix(normalizeTo, fillMissing),
         IsPackages(origin), Fits(lock), manifest.ranges \in Ranges, manifest.name = "new"
  PROVE  Fits(lock') /\ Keeps(lock, lock')
<1> DEFINE l == lock
           synced == SyncRootIdentity(l)
           migrated == ApplyMigrations(synced, normalizeTo)
           m == lock'
<1>1. m = IF fillMissing THEN FillPlaceholderIntegrity(migrated) ELSE migrated
  BY DEF Fix
<1>2. Fits(synced) /\ Keeps(l, synced) /\ synced.version = l.version
  BY SyncKeeps DEF SyncRootIdentity, Fits
<1> HIDE DEF synced
<1>3. \A x : Keeps(x, x)
  BY DEF Keeps
<1>4. Fits(migrated) /\ Keeps(synced, migrated)
  BY <1>2, <1>3, MigrateKeeps DEF ApplyMigrations
<1> HIDE DEF migrated, l, m
<1>5. Fits(m) /\ Keeps(migrated, m) /\ m.version = migrated.version
  BY <1>1, <1>3, <1>4, FillKeeps DEF FillPlaceholderIntegrity, Fits
<1>6. Keeps(l, migrated)
  BY <1>2, <1>4, KeepsTransitive
<1>7. Keeps(l, m)
  BY <1>5, <1>6, KeepsTransitive
<1> QED
  BY <1>5, <1>7 DEF l, m

\* The map after fix-checksums.
LEMMA ChangesApplied ==
  ASSUME NEW l, NEW changes, Fits(l)
  PROVE  LET m == ApplyChanges(l, changes) IN
         /\ DOMAIN m.packages = DOMAIN l.packages
         /\ \A k \in DOMAIN l.packages : m.packages[k].integrity =
              IF k \in DOMAIN changes THEN changes[k] ELSE l.packages[k].integrity
<1> DEFINE x == ApplyChangesToMap(l, changes)
           m == ApplyChanges(l, changes)
           Entry(k) == IF k \in DOMAIN changes
                       THEN [l.packages[k] EXCEPT !.integrity = changes[k]] ELSE l.packages[k]
<1>1. DOMAIN l = {"version", "name", "packages", "root", "tree"}
  BY DEF Fits
<1>2. x = [l EXCEPT !.packages = [k \in DOMAIN l.packages |-> Entry(k)]]
  BY DEF ApplyChangesToMap
<1>3. ASSUME NEW k \in DOMAIN l.packages
      PROVE  Entry(k).integrity = IF k \in DOMAIN changes THEN changes[k] ELSE l.packages[k].integrity
  <2>1. "integrity" \in DOMAIN l.packages[k]
    BY DEF Fits, MapFits, EntryFits
  <2> QED
    BY <2>1
<1> HIDE DEF Entry
<1>4. "tree" \in DOMAIN x /\ "packages" \in DOMAIN x /\ x.packages = [k \in DOMAIN l.packages |-> Entry(k)]
  BY <1>1, <1>2
<1>5. m.packages = x.packages
  <2>1. m = [x EXCEPT !.tree = [path \in DOMAIN x.tree |->
               IF At(path) \in DOMAIN changes
               THEN [x.tree[path] EXCEPT !.integrity = changes[At(path)]] ELSE x.tree[path]]]
    BY DEF ApplyChanges
  <2> HIDE DEF x, m
  <2> QED
    BY <1>4, <2>1
<1> HIDE DEF x, m
<1> QED
  BY <1>3, <1>4, <1>5 DEF m

\* fix-checksums keeps what is locked, and tells of every hash it could not get.
LEMMA FixChecksumsKeeps ==
  ASSUME NEW localFallback \in BOOLEAN, FixChecksums(localFallback), IsPackages(origin), Fits(lock)
  PROVE  Fits(lock') /\ Keeps(lock, lock') /\ FixedOrReported'
<1> DEFINE Got(obtained) == {k \in Candidates : obtained[k] # None}
           Changes(obtained) == [k \in Got(obtained) |-> obtained[k]]
<1>1. PICK obtained \in Answers(localFallback) :
        lock' = ApplyChanges(lock, Changes(obtained)) /\ exit' = ExitOf(obtained)
  BY DEF FixChecksums
<1>2. origin' = origin
  BY DEF FixChecksums
<1> DEFINE changes == Changes(obtained)
<1>3. obtained \in [Candidates -> {None, True, Local}]
  BY DEF Answers
<1>4. DOMAIN changes = Got(obtained) /\ \A k \in DOMAIN changes : changes[k] = obtained[k]
  OBVIOUS
<1>5. \A k \in Candidates : k \in DOMAIN lock.packages /\ IsCandidate(k, lock.packages[k])
  BY DEF Candidates
<1>6. \A k \in DOMAIN changes : /\ changes[k] \in {True, Local}
                                /\ k \in DOMAIN lock.packages /\ NeedsFix(lock.packages[k].integrity)
  <2> HIDE DEF changes
  <2> QED
    BY <1>3, <1>4, <1>5 DEF IsCandidate
<1> HIDE DEF changes
<1>7. Fits(lock') /\ Keeps(lock, lock')
  BY <1>1, <1>6, ChangesKeep DEF changes
<1>8. /\ DOMAIN lock'.packages = DOMAIN lock.packages
      /\ \A k \in DOMAIN lock.packages : lock'.packages[k].integrity =
           IF k \in DOMAIN changes THEN changes[k] ELSE lock.packages[k].integrity
  BY <1>1, ChangesApplied DEF changes
<1>9. ASSUME exit' = 0, NEW k \in Packed \cap DOMAIN lock.packages, origin[k].resolved = "registry"
      PROVE  lock'.packages[k].integrity \in {True, Local, Relabelled}
  <2>1. \A j \in Candidates : obtained[j] # None
    BY <1>1, <1>3, <1>9 DEF ExitOf
  <2>2. CASE k \in Candidates
    <3>1. k \in DOMAIN changes
      BY <1>4, <2>1, <2>2
    <3> QED
      BY <1>6, <1>8, <3>1
  <2>3. CASE k \notin Candidates
    <3> DEFINE e == lock.packages[k]
    <3>1. /\ EntryFits(k, e) /\ InTop(k) /\ ~IsLink(origin[k]) /\ ~IsGitDep(origin[k])
          /\ origin[k].inBundle => origin[k].resolved # "registry"
      BY DEF Fits, MapFits, Packed, IsPackages, IsEntry
    <3>2. e.resolved = "registry" /\ ~e.inBundle
      BY <1>9, <3>1 DEF EntryFits, Stands
    <3>3. ~IsLink(e) /\ ~IsWorkspaceSource(k) /\ ~IsGitDep(e)
      BY <3>1, <3>2 DEF EntryFits, InTop, IsWorkspaceSource, IsGitDep
    <3>4. ~NeedsFix(e.integrity)
      BY <2>3, <3>2, <3>3 DEF Candidates, IsCandidate
    <3>5. e.integrity \in {True, Local, Relabelled}
      BY <3>1, <3>4 DEF EntryFits, NeedsFix, Hashes
    <3> QED
      BY <1>4, <1>8, <2>3, <3>5
  <2> QED
    BY <2>2, <2>3
<1>10. FixedOrReported'
  BY <1>2, <1>8, <1>9 DEF FixedOrReported, Packed
<1> QED
  BY <1>7, <1>10
-------------------------------------------------------------------------------
(* pin *)

\* What is pinned stays pinned when the lockfile is rewritten.
LEMMA PinnedKept ==
  ASSUME NEW l, NEW m, IsPackages(origin), Fits(l), Pinned(l), Keeps(l, m)
  PROVE  Pinned(m)
<1> SUFFICES ASSUME NEW n \in DOMAIN manifest.ranges, manifest.ranges[n] \notin Loose \cup {Other}
             PROVE  <<n>> \in DOMAIN Locked(m) /\ Locked(m)[<<n>>].version = manifest.ranges[n]
  BY DEF Pinned
<1>1. /\ manifest.ranges[n] # Missing /\ manifest.ranges[n] # Other
      /\ <<n>> \in DOMAIN Locked(l) /\ Locked(l)[<<n>>].version = manifest.ranges[n]
  BY DEF Pinned
<1>2. At(<<n>>) \in DOMAIN origin
  BY <1>1, LockedIs
<1>3. ~IsGitDep(origin[At(<<n>>)])
  BY <1>1, <1>2 DEF Pinned
<1> QED
  BY <1>1, <1>3 DEF Keeps

\* A pinned version is the one that the lockfile has at the top.
LEMMA PinnedToIsLocked ==
  ASSUME IsPackages(origin), Fits(lock), NEW n \in Pinnable
  PROVE  /\ n \in DOMAIN manifest.ranges /\ manifest.ranges[n] \in Loose
         /\ PinnedTo(n) # Missing /\ PinnedTo(n) \in Specs
         /\ <<n>> \in DOMAIN Locked(lock) /\ Locked(lock)[<<n>>].version = PinnedTo(n)
<1>1. /\ n \in DOMAIN manifest.ranges /\ manifest.ranges[n] \in Loose
      /\ ResolvedVersionFor(lock, n) # {}
  BY DEF Pinnable
<1>2. PinnedTo(n) \in ResolvedVersionFor(lock, n)
  BY <1>1 DEF PinnedTo
<1>3. CASE lock.version = 1
  <2>1. /\ PinnedTo(n) # Missing /\ <<n>> \in DOMAIN lock.tree
        /\ PinnedTo(n) = lock.tree[<<n>>].version
    BY <1>2, <1>3 DEF ResolvedVersionFor
  <2>2. PinnedTo(n) \in Specs
    BY <2>1 DEF Fits, TreeFits, NodeFits, Stands
  <2>3. InTree(lock)
    BY <1>3 DEF InTree
  <2> QED
    BY <1>1, <2>1, <2>2, <2>3, LockedIs
<1>4. CASE lock.version # 1
  <2>1. /\ PinnedTo(n) # Missing /\ At(<<n>>) \in DOMAIN lock.packages
        /\ PinnedTo(n) = lock.packages[At(<<n>>)].version
    BY <1>2, <1>4 DEF ResolvedVersionFor
  <2>2. ~InTree(lock)
    BY <1>4, <2>1 DEF InTree, Fits
  <2>3. <<n>> # <<>>
    OBVIOUS
  <2>4. InTop(At(<<n>>))
    BY <2>3, KeysArePaths
  <2>5. PinnedTo(n) \in Specs
    BY <2>1, <2>4 DEF Fits, MapFits, EntryFits, Stands
  <2> QED
    BY <1>1, <2>1, <2>2, <2>3, <2>5, LockedIs
<1> QED
  BY <1>3, <1>4

\* pin takes up what is locked, and tells the root entry.
LEMMA PinKeeps ==
  ASSUME IInv, Pin
  PROVE  /\ Keeps(lock, lock')
         /\ DOMAIN manifest' = DOMAIN manifest /\ manifest'.name = manifest.name
         /\ manifest'.ranges \in Ranges /\ DOMAIN manifest'.ranges = DOMAIN manifest.ranges
         /\ Fits(lock') /\ Pinned(lock)'
<1> DEFINE New(n) == IF n \in Pinnable THEN PinnedTo(n) ELSE manifest.ranges[n]
<1>1. /\ IsPackages(origin) /\ Fits(lock) /\ Pinned(lock)
      /\ DOMAIN manifest = {"name", "ranges", "override"} /\ manifest.ranges \in Ranges
      /\ origin' = origin
  BY DEF IInv, Pin, Done
<1>2. manifest' = [manifest EXCEPT !.ranges = [n \in DOMAIN manifest.ranges |-> New(n)],
                                   !.override = PinOverride(manifest.override)]
  BY DEF Pin
<1> HIDE DEF New
<1>3. /\ DOMAIN manifest' = DOMAIN manifest /\ manifest'.name = manifest.name
      /\ manifest'.ranges = [n \in DOMAIN manifest.ranges |-> New(n)]
  BY <1>1, <1>2
<1>4. manifest.ranges \in [DOMAIN manifest.ranges -> Specs] /\ DOMAIN manifest.ranges \in SUBSET Names
  BY <1>1 DEF Ranges, Specs
<1>5. manifest'.ranges \in [DOMAIN manifest.ranges -> Specs]
  BY <1>1, <1>3, <1>4, PinnedToIsLocked DEF New
<1>6. manifest'.ranges \in Ranges /\ DOMAIN manifest'.ranges = DOMAIN manifest.ranges
  BY <1>4, <1>5 DEF Ranges, Specs
<1>7. Fits(lock') /\ Locked(lock') = Locked(lock) /\ (Valid(lock) => Valid(lock'))
  <2>1. CASE lock.version = 1 \/ lock.root = None
    BY <1>1, <2>1 DEF Pin
  <2>2. CASE ~(lock.version = 1 \/ lock.root = None)
    <3> DEFINE l == lock
               m == lock'
               To(n) == IF n \in Pinnable THEN PinnedTo(n) ELSE l.root.ranges[n]
    <3>1. m = [l EXCEPT !.root.ranges = [n \in DOMAIN l.root.ranges |-> To(n)]]
      BY <2>2 DEF Pin, SyncLockfileRoot
    <3>2. l.root \in Root /\ DOMAIN l = {"version", "name", "packages", "root", "tree"}
      BY <1>1, <2>2 DEF Fits, Declares
    <3>3. l.root.ranges \in [DOMAIN l.root.ranges -> Specs] /\ DOMAIN l.root.ranges \in SUBSET Names
      BY <3>2 DEF Root, Ranges, Specs
    <3>4. [n \in DOMAIN l.root.ranges |-> To(n)] \in [DOMAIN l.root.ranges -> Specs]
      BY <1>1, <3>3, PinnedToIsLocked
    <3> HIDE DEF l, m, To
    <3>5. [n \in DOMAIN l.root.ranges |-> To(n)] \in Ranges
      BY <3>3, <3>4 DEF Ranges, Specs
    <3>6. /\ DOMAIN m = DOMAIN l /\ m.version = l.version /\ m.name = l.name
          /\ m.packages = l.packages /\ m.tree = l.tree
          /\ m.root = [l.root EXCEPT !.ranges = [n \in DOMAIN l.root.ranges |-> To(n)]]
      BY <3>1, <3>2
    <3>7. m.root \in Root /\ DOMAIN m.root.ranges = DOMAIN l.root.ranges
      BY <3>2, <3>5, <3>6 DEF Root
    <3>8. m.root # None
      BY <3>7, ProjectsAssumption DEF ProjectsAssumption
    <3>9. Fits(m)
      BY <1>1, <2>2, <3>6, <3>7, <3>8 DEF Fits, Declares, l
    <3>10. Locked(m) = Locked(l)
      BY <2>2, <3>6, <3>8 DEF Locked, InTree, l
    <3>11. Valid(l) => Valid(m)
      BY <3>6, <3>8 DEF Valid
    <3> QED
      BY <3>9, <3>10, <3>11 DEF l, m
  <2> QED
    BY <2>1, <2>2
<1>8. Keeps(lock, lock')
  BY <1>7 DEF Keeps
<1>9. Pinned(lock)'
  <2> SUFFICES ASSUME NEW n \in DOMAIN manifest.ranges
               PROVE  /\ New(n) # Other /\ At(<<n>>) \in DOMAIN origin => ~IsGitDep(origin[At(<<n>>)])
                      /\ New(n) \notin Loose \cup {Other} =>
                           /\ New(n) # Missing
                           /\ <<n>> \in DOMAIN Locked(lock) /\ Locked(lock)[<<n>>].version = New(n)
    BY <1>1, <1>3, <1>7 DEF Pinned
  <2>1. CASE n \in Pinnable
    BY <1>1, <2>1, PinnedToIsLocked DEF New, Pinned, Loose, Other
  <2>2. CASE n \notin Pinnable
    BY <1>1, <2>2 DEF New, Pinned
  <2> QED
    BY <2>1, <2>2
<1> QED
  BY <1>3, <1>6, <1>7, <1>8, <1>9
-------------------------------------------------------------------------------
(* The invariant *)

\* The tree that npm writes stands for the map that it writes.
LEMMA NpmTreeFits ==
  ASSUME IsPackages(origin), ProjectsAssumption
  PROVE  /\ TreeFits(NpmTree(origin)) /\ Agree(origin, NpmTree(origin))
         /\ \A path : path \in DOMAIN NpmTree(origin) <=> path # <<>> /\ At(path) \in DOMAIN origin
         /\ \A path \in DOMAIN NpmTree(origin) :
              ~IsLink(origin[At(path)]) /\ ~IsGitDep(origin[At(path)]) =>
                NpmTree(origin)[path].version = origin[At(path)].version
<1> DEFINE t == NpmTree(origin)
           T == {k.path : k \in {k \in DOMAIN origin : InTop(k)}}
           N(path) == NpmNode(origin[At(path)])
<1>1. \A path : path \in T <=> path # <<>> /\ At(path) \in DOMAIN origin
  BY KeysArePaths
<1>2. t = [path \in T |-> N(path)]
  BY DEF NpmTree
<1>3. ASSUME NEW path \in T
      PROVE  LET e == origin[At(path)] IN
             /\ DOMAIN N(path) = {"version", "integrity", "resolved", "bundled", "requires"}
             /\ N(path).integrity = e.integrity /\ N(path).requires = e.deps
             /\ N(path).bundled = e.inBundle
             /\ N(path).version = IF IsLink(e) THEN FileUrl ELSE IF IsGitDep(e) THEN GitUrl ELSE e.version
             /\ N(path).resolved = IF IsLink(e) \/ IsGitDep(e) THEN None ELSE e.resolved
  BY DEF NpmNode, LegacyNode
<1> HIDE DEF N, T, t
<1>4. ASSUME NEW path \in T PROVE NodeFits(path, N(path))
  <2> DEFINE e == origin[At(path)]
  <2>1. IsEntry(e) /\ (e.version = Missing <=> IsLink(e)) /\ InTop(At(path))
    BY <1>1, KeysArePaths DEF IsPackages
  <2>2. N(path).version \in Specs /\ N(path).version # Missing
    BY <1>3, <2>1 DEF IsEntry, Specs, FileUrl, GitUrl, Missing
  <2>3. At(path) \in Packed => ~IsLink(e) /\ ~IsGitDep(e)
    BY DEF Packed
  <2>4. Stands(At(path), N(path).version, N(path).resolved, N(path).bundled)
    BY <1>3, <2>2, <2>3 DEF Stands
  <2> QED
    BY <1>3, <2>1, <2>4 DEF NodeFits, IsEntry, Hashes
<1>5. NestedInTree(t)
  <2> SUFFICES ASSUME NEW path \in T, NEW q \in Prefixes(path) PROVE q \in T
    BY <1>2 DEF NestedInTree
  <2>1. At(path) \in DOMAIN origin /\ InTop(At(path)) /\ At(path).path = path
    BY <1>1, KeysArePaths
  <2>2. At(q) \in DOMAIN origin /\ path \in Seq(Names)
    BY <2>1 DEF IsPackages
  <2>3. PICK i \in 1..(Len(path) - 1) : q = SubSeq(path, 1, i)
    BY DEF Prefixes
  <2>4. Len(q) = i
    BY <2>2, <2>3
  <2>5. q # <<>>
    BY <2>3, <2>4
  <2> QED
    BY <1>1, <2>2, <2>5
<1>6. TreeFits(t)
  BY <1>1, <1>2, <1>4, <1>5 DEF TreeFits
<1>7. Agree(origin, t)
  <2> SUFFICES ASSUME NEW k \in DOMAIN origin, InTop(k)
               PROVE  /\ k.path \in T
                      /\ N(k.path).integrity = origin[k].integrity
                      /\ ~IsGitDep(origin[k]) => origin[k].version \in {Missing, N(k.path).version}
    BY <1>2 DEF Agree
  <2>1. k = At(k.path) /\ k.path \in T
    BY <1>1, KeysArePaths DEF InTop
  <2>2. IsLink(origin[k]) => origin[k].version = Missing
    BY DEF IsPackages
  <2> QED
    BY <1>3, <2>1, <2>2
<1>8. \A path \in T : ~IsLink(origin[At(path)]) /\ ~IsGitDep(origin[At(path)]) =>
        N(path).version = origin[At(path)].version
  BY <1>3
<1> QED
  BY <1>1, <1>2, <1>6, <1>7, <1>8 DEF t

\* A project as npm wrote it, or without its map.
LEMMA InitIInv == Init => IInv
<1> SUFFICES ASSUME Init PROVE IInv
  OBVIOUS
<1>1. PICK p \in Projects, version \in 1..3, damaged \in BOOLEAN :
        /\ damaged => version = 2
        /\ lock = AsWritten(p, version, damaged)
        /\ manifest = [name |-> "new", ranges |-> p.direct, override |-> p.override]
        /\ origin = p.packages
  BY DEF Init
<1>2. IsProject(p) /\ exit = None /\ None # 0
  BY ProjectsAssumption DEF ProjectsAssumption, Init
<1>3. IsPackages(origin) /\ p.direct \in Ranges
  BY <1>1, <1>2 DEF IsProject
<1>4. /\ DOMAIN manifest = {"name", "ranges", "override"}
      /\ manifest.name = "new" /\ manifest.ranges = p.direct
  BY <1>1
<1> DEFINE mapped == version # 1 /\ ~damaged
<1>5. /\ DOMAIN lock = {"version", "name", "packages", "root", "tree"}
      /\ lock.version = version /\ lock.name = "old"
      /\ lock.packages = IF mapped THEN origin ELSE <<>>
      /\ lock.root = IF mapped THEN [name |-> "old", ranges |-> p.direct] ELSE None
      /\ lock.tree = IF version = 3 THEN <<>> ELSE NpmTree(origin)
  BY <1>1 DEF AsWritten
<1> HIDE DEF mapped
<1>6. mapped => lock.root \in Root /\ lock.root # None /\ lock.root.ranges = p.direct
  <2>1. [name |-> "old", ranges |-> p.direct] \in Root
    BY <1>3 DEF Root
  <2> QED
    BY <1>5, <2>1, ProjectsAssumption DEF ProjectsAssumption
<1>7. MapFits(lock.packages)
  <2>1. CASE mapped
    <3>1. \A k \in DOMAIN origin : EntryFits(k, origin[k])
      BY <1>3 DEF IsPackages, IsEntry, EntryFits, Stands, Specs, Hashes, Packed, IsLink
    <3>2. NestedInMap(origin)
      BY <1>3 DEF IsPackages, NestedInMap
    <3> QED
      BY <1>5, <2>1, <3>1, <3>2 DEF MapFits
  <2>2. CASE ~mapped
    BY <1>5, <2>2 DEF MapFits, NestedInMap
  <2> QED
    BY <2>1, <2>2
<1>8. TreeFits(lock.tree)
  <2>1. TreeFits(<<>>)
    BY DEF TreeFits, NestedInTree
  <2> QED
    BY <1>3, <1>5, <2>1, NpmTreeFits, ProjectsAssumption
<1>9. Declares(lock)
  BY <1>4, <1>5, <1>6 DEF Declares
<1>10. Fits(lock)
  <2>1. lock.version = 2 => Agree(lock.packages, lock.tree) \/ lock.root = None
    BY <1>3, <1>5, NpmTreeFits, ProjectsAssumption
  <2>2. lock.root = None => lock.packages = <<>> /\ lock.version # 3
    BY <1>1, <1>5, <1>6 DEF mapped
  <2>3. lock.version = 1 => lock.root = None
    BY <1>5 DEF mapped
  <2> QED
    BY <1>5, <1>7, <1>8, <1>9, <2>1, <2>2, <2>3 DEF Fits
<1>11. Pinned(lock)
  <2> SUFFICES ASSUME NEW n \in DOMAIN p.direct
               PROVE  LET k == At(<<n>>) IN
                      /\ p.direct[n] # Other /\ k \in DOMAIN origin => ~IsGitDep(origin[k])
                      /\ p.direct[n] \notin Loose \cup {Other} =>
                           /\ p.direct[n] # Missing
                           /\ <<n>> \in DOMAIN Locked(lock) /\ Locked(lock)[<<n>>].version = p.direct[n]
    BY <1>4 DEF Pinned
  <2> DEFINE k == At(<<n>>)
  <2>1. /\ p.direct[n] \in Loose /\ k \in DOMAIN origin => ~IsGitDep(origin[k])
        /\ p.direct[n] \notin Loose \cup {Other} =>
             /\ k \in DOMAIN origin /\ ~IsLink(origin[k]) /\ ~IsGitDep(origin[k])
             /\ origin[k].version = p.direct[n]
    BY <1>1, <1>2 DEF IsProject
  <2>2. ASSUME p.direct[n] \notin Loose \cup {Other}
        PROVE  /\ p.direct[n] # Missing
               /\ <<n>> \in DOMAIN Locked(lock) /\ Locked(lock)[<<n>>].version = p.direct[n]
    <3>1. k \in DOMAIN origin /\ ~IsLink(origin[k]) /\ ~IsGitDep(origin[k]) /\ origin[k].version = p.direct[n]
      BY <2>1, <2>2
    <3>2. <<n>> # <<>>
      OBVIOUS
    <3>3. InTop(k)
      BY <3>2, KeysArePaths
    <3>4. p.direct[n] # Missing
      BY <1>3, <3>1, <3>3 DEF IsPackages
    <3>5. CASE mapped
      <4>1. ~InTree(lock)
        BY <1>5, <1>6, <3>5 DEF InTree, mapped
      <4>2. lock.packages = origin
        BY <1>5, <3>5
      <4>3. k \in DOMAIN lock.packages /\ lock.packages[k].version = p.direct[n]
        BY <3>1, <4>2
      <4>4. <<n>> \in DOMAIN Locked(lock)
        BY <1>3, <1>10, <3>2, <4>1, <4>3, LockedIs
      <4>5. Locked(lock)[<<n>>].version = lock.packages[k].version
        BY <1>3, <1>10, <4>1, <4>4, LockedIs
      <4> QED
        BY <3>4, <4>3, <4>4, <4>5
    <3>6. CASE ~mapped
      <4>1. InTree(lock)
        BY <1>5, <3>6 DEF InTree
      <4>2. <<n>> \in DOMAIN NpmTree(origin) /\ NpmTree(origin)[<<n>>].version = p.direct[n]
        BY <1>3, <3>1, <3>2, NpmTreeFits, ProjectsAssumption
      <4>3. lock.tree = NpmTree(origin)
        BY <1>1, <1>5, <3>6 DEF mapped
      <4> QED
        BY <1>3, <1>10, <3>4, <4>1, <4>2, <4>3, LockedIs
    <3> QED
      BY <3>5, <3>6
  <2> QED
    BY <2>1, <2>2
<1>12. FixedOrReported
  BY <1>2 DEF FixedOrReported
<1> QED
  BY <1>3, <1>4, <1>10, <1>11, <1>12 DEF IInv
\* What fits and what is pinned is a matter of origin and of what is declared.
LEMMA SameGiven ==
  ASSUME origin' = origin, manifest' = manifest
  PROVE  \A l : (Fits(l)' <=> Fits(l)) /\ (Pinned(l)' <=> Pinned(l))
BY DEF Fits, MapFits, TreeFits, EntryFits, NodeFits, Stands, Packed, NestedInMap, NestedInTree,
       Declares, Agree, Pinned

\* pin changes what is declared, but not what for.
LEMMA SameGivenPinned ==
  ASSUME origin' = origin, DOMAIN manifest'.ranges = DOMAIN manifest.ranges
  PROVE  \A l : Fits(l)' <=> Fits(l)
BY DEF Fits, MapFits, TreeFits, EntryFits, NodeFits, Stands, Packed, NestedInMap, NestedInTree,
       Declares, Agree

\* What each command does: the invariant holds after it, and but for prune, which
\* removes packages, it keeps what was locked.
LEMMA CommandKeeps ==
  ASSUME IInv, Next
  PROVE  IInv' /\ (Prune \/ Keeps(lock, lock'))
<1>1. /\ IsPackages(origin) /\ Fits(lock) /\ Pinned(lock)
      /\ manifest.name = "new" /\ manifest.ranges \in Ranges
  BY DEF IInv
<1>2. ASSUME Fits(lock'), Keeps(lock, lock'), UNCHANGED manifest, Done
      PROVE  IInv' /\ Keeps(lock, lock')
  <2>1. Pinned(lock')
    BY <1>1, <1>2, PinnedKept
  <2>2. origin' = origin /\ exit' = None /\ None # 0
    BY <1>2, ProjectsAssumption DEF Done, ProjectsAssumption
  <2>3. Fits(lock)' /\ Pinned(lock)'
    BY <1>2, <2>1, <2>2, SameGiven
  <2>4. FixedOrReported'
    BY <2>2 DEF FixedOrReported
  <2>5. IsPackages(origin)'
    BY <1>1, <2>2 
  <2> QED
    BY <1>2, <2>3, <2>4, <2>5 DEF IInv
<1>3. ASSUME NEW target \in 1..3, Migrate(target) PROVE IInv' /\ Keeps(lock, lock')
  BY <1>1, <1>2, <1>3, MigrateKeeps DEF Migrate
<1>4. CASE Upgrade
  BY <1>1, <1>2, <1>4, MigrateKeeps DEF Upgrade
<1>5. ASSUME NEW normalizeTo \in 0..3, NEW fillMissing \in BOOLEAN, Fix(normalizeTo, fillMissing)
      PROVE  IInv' /\ Keeps(lock, lock')
  <2>1. Fits(lock') /\ Keeps(lock, lock')
    BY <1>1, <1>5, FixKeeps
  <2> QED
    BY <1>2, <1>5, <2>1 DEF Fix
<1>6. CASE Dedupe
  <2>1. lock' = lock /\ Keeps(lock, lock)
    BY <1>6 DEF Dedupe, Keeps
  <2> QED
    BY <1>1, <1>2, <1>6, <2>1 DEF Dedupe
<1>7. CASE UpgradeHashes
  <2>1. Fits(lock') /\ Keeps(lock, lock')
    BY <1>1, <1>7, UpgradeHashesKeeps
  <2> QED
    BY <1>2, <1>7, <2>1 DEF UpgradeHashes
<1>8. ASSUME NEW localFallback \in BOOLEAN, FixChecksums(localFallback)
      PROVE  IInv' /\ Keeps(lock, lock')
  <2>1. Fits(lock') /\ Keeps(lock, lock') /\ FixedOrReported'
    BY <1>1, <1>8, FixChecksumsKeeps
  <2>2. manifest' = manifest /\ origin' = origin
    BY <1>8 DEF FixChecksums
  <2>3. Pinned(lock')
    BY <1>1, <2>1, PinnedKept
  <2>4. Fits(lock)' /\ Pinned(lock)'
    BY <2>1, <2>2, <2>3, SameGiven
  <2>5. IsPackages(origin)'
    BY <1>1, <2>2
  <2> QED
    BY <2>1, <2>2, <2>4, <2>5 DEF IInv
<1>9. CASE Prune
  <2>1. Fits(lock') /\ Pinned(lock')
    BY <1>1, <1>9, PruneFits
  <2>2. manifest' = manifest /\ origin' = origin /\ exit' = None /\ None # 0
    BY <1>9, ProjectsAssumption DEF Prune, Done, ProjectsAssumption
  <2>3. Fits(lock)' /\ Pinned(lock)'
    BY <2>1, <2>2, SameGiven
  <2>4. FixedOrReported'
    BY <2>2 DEF FixedOrReported
  <2>5. IsPackages(origin)'
    BY <1>1, <2>2
  <2> QED
    BY <1>9, <2>2, <2>3, <2>4, <2>5 DEF IInv
<1>10. CASE Pin
  <2>1. /\ Keeps(lock, lock')
        /\ DOMAIN manifest' = DOMAIN manifest /\ manifest'.name = manifest.name
        /\ manifest'.ranges \in Ranges /\ DOMAIN manifest'.ranges = DOMAIN manifest.ranges
        /\ Fits(lock') /\ Pinned(lock)'
    BY <1>10, PinKeeps
  <2>2. origin' = origin /\ exit' = None /\ None # 0
    BY <1>10, ProjectsAssumption DEF Pin, Done, ProjectsAssumption
  <2>3. Fits(lock)'
    BY <2>1, <2>2, SameGivenPinned
  <2>4. FixedOrReported'
    BY <2>2 DEF FixedOrReported
  <2>5. IsPackages(origin)'
    BY <1>1, <2>2
  <2>6. DOMAIN manifest = {"name", "ranges", "override"}
    BY DEF IInv
  <2>7. (DOMAIN manifest = {"name", "ranges", "override"} /\ manifest.name = "new" /\ manifest.ranges \in Ranges)'
    BY <1>1, <2>1, <2>6
  <2> QED
    BY <2>1, <2>3, <2>4, <2>5, <2>7 DEF IInv
<1> QED
  BY <1>3, <1>4, <1>5, <1>6, <1>7, <1>8, <1>9, <1>10 DEF Next
\* The invariant holds of every project, whatever commands run on it.
THEOREM Invariance == Spec => []IInv
<1>1. Init => IInv
  BY InitIInv
<1>2. IInv /\ [Next]_vars => IInv'
  <2> SUFFICES ASSUME IInv, [Next]_vars PROVE IInv'
    OBVIOUS
  <2>1. CASE Next
    BY <2>1, CommandKeeps
  <2>2. CASE UNCHANGED vars
    <3>1. lock' = lock /\ manifest' = manifest /\ origin' = origin /\ exit' = exit
      BY <2>2 DEF vars
    <3>2. IsPackages(origin)' /\ FixedOrReported'
      BY <3>1 DEF IInv, FixedOrReported, Packed
    <3>3. Fits(lock)' /\ Pinned(lock)'
      BY <3>1, SameGiven DEF IInv
    <3> QED
      BY <3>1, <3>2, <3>3 DEF IInv
  <2> QED
    BY <2>1, <2>2
<1> QED
  BY <1>1, <1>2, PTL DEF Spec

-------------------------------------------------------------------------------
(* The properties *)

\* fix-checksums that exits with 0 leaves no package from the registry without a
\* hash that was computed or obtained.
THEOREM FixedOrReportedHolds == Spec => []FixedOrReported
<1>1. IInv => FixedOrReported
  BY DEF IInv
<1> QED
  BY <1>1, Invariance, PTL

\* What pin wrote into package.json is the version that the project installs,
\* whatever form the lockfile takes afterwards.
THEOREM PinnedIsInstalledHolds == Spec => []PinnedIsInstalled
<1>1. IInv => PinnedIsInstalled
  BY DEF IInv, Pinned, PinnedIsInstalled
<1> QED
  BY <1>1, Invariance, PTL

\* No command but prune loses a locked package; none changes its version or
\* loses its true hash.
THEOREM LockedKeptHolds == Spec => LockedKept
<1>1. ASSUME IInv, Next, NEW path \in DOMAIN Locked(lock)
      PROVE  IF path \in DOMAIN Locked(lock')
             THEN At(path) \in Packed =>
                    /\ Locked(lock')[path].version = Locked(lock)[path].version
                    /\ Locked(lock)[path].integrity = True => Locked(lock')[path].integrity = True
             ELSE Prune
  <2>1. IsPackages(origin) /\ Fits(lock) /\ Pinned(lock)
    BY <1>1 DEF IInv
  <2>2. At(path) \in Packed => /\ Locked(lock)[path].version # Missing
                               /\ ~IsGitDep(origin[At(path)])
    <3> SUFFICES ASSUME At(path) \in Packed
                 PROVE  Locked(lock)[path].version # Missing /\ ~IsGitDep(origin[At(path)])
      OBVIOUS
    <3>1. InTop(At(path)) /\ ~IsLink(origin[At(path)]) /\ ~IsGitDep(origin[At(path)])
      BY DEF Packed
    <3>2. CASE InTree(lock)
      <4>1. path \in DOMAIN lock.tree /\ Locked(lock)[path].version = lock.tree[path].version
        BY <1>1, <2>1, <3>2, LockedIs
      <4> QED
        BY <2>1, <3>1, <4>1 DEF Fits, TreeFits, NodeFits, Stands
    <3>3. CASE ~InTree(lock)
      <4>1. /\ At(path) \in DOMAIN lock.packages
            /\ Locked(lock)[path].version = lock.packages[At(path)].version
        BY <1>1, <2>1, <3>3, LockedIs
      <4> QED
        BY <2>1, <3>1, <4>1 DEF Fits, MapFits, EntryFits, Stands
    <3> QED
      BY <3>2, <3>3
  <2>3. CASE Prune
    BY <1>1, <2>1, <2>3, PruneFits
  <2>4. CASE Keeps(lock, lock')
    BY <1>1, <2>2, <2>4 DEF Keeps
  <2> QED
    BY <1>1, <2>3, <2>4, CommandKeeps
<1>2. IInv /\ [Next]_vars =>
        [\A path \in DOMAIN Locked(lock) :
           IF path \in DOMAIN Locked(lock')
           THEN At(path) \in Packed =>
                  /\ Locked(lock')[path].version = Locked(lock)[path].version
                  /\ Locked(lock)[path].integrity = True => Locked(lock')[path].integrity = True
           ELSE Prune]_lock
  BY <1>1 DEF vars
<1> QED
  BY <1>2, Invariance, PTL DEF Spec, LockedKept

\* No command makes a valid lockfile invalid, but for the links that the tree of
\* version 1 has no place for.
THEOREM ValidStaysHolds == Spec => ValidStays
<1>1. ASSUME IInv, Next, Valid(lock), lock'.version = 1 => \A k \in DOMAIN origin : ~IsLink(origin[k])
      PROVE  Valid(lock')
  <2>1. IsPackages(origin) /\ Fits(lock) /\ Pinned(lock)
    BY <1>1 DEF IInv
  <2>2. IInv' /\ (Prune \/ Keeps(lock, lock'))
    BY <1>1, CommandKeeps
  <2>3. CASE Prune
    BY <1>1, <2>1, <2>3, PruneFits
  <2>4. CASE Keeps(lock, lock') /\ lock'.version # 1
    BY <1>1, <2>4 DEF Keeps
  <2>5. CASE lock'.version = 1
    <3>1. origin' = origin
      BY <1>1 DEF Next, Migrate, Upgrade, Fix, Dedupe, UpgradeHashes, FixChecksums, Prune, Pin, Done
    <3>2. \A path \in DOMAIN lock'.tree :
            At(path) \in DOMAIN origin' /\ (lock'.tree[path].version = Missing => IsLink(origin'[At(path)]))
      BY <2>2 DEF IInv, Fits, TreeFits, NodeFits, Stands
    <3> QED
      BY <1>1, <2>5, <3>1, <3>2 DEF Valid
  <2> QED
    BY <2>2, <2>3, <2>4, <2>5
<1>2. IInv /\ [Next]_vars =>
        [Valid(lock) /\ (lock'.version = 1 => \A k \in DOMAIN origin : ~IsLink(origin[k])) => Valid(lock')]_lock
  BY <1>1 DEF vars
<1> QED
  BY <1>2, Invariance, PTL DEF Spec, ValidStays
===============================================================================
