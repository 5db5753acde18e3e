---------------------------- MODULE LockfileCommands ---------------------------
(***************************************************************************)
(* The commands that rewrite a lockfile, in any order on one project:      *)
(* migrate and upgrade (src/src/migrator.js), fix (fixer.js), fix-checksums *)
(* (checksum-fixer.js), upgrade-hashes and dedupe (updater.js), prune       *)
(* (pruner.js), pin (pinner.js); and validate (validator.js), which says    *)
(* what a lockfile must look like.                                          *)
(*                                                                         *)
(* A lockfile holds the same packages in up to two forms: the `packages`   *)
(* map of versions 2 and 3, keyed as in Pruner, with the root entry ''      *)
(* apart; and the nested `dependencies` tree of versions 1 and 2, here a    *)
(* function from the path of names to the node, so nesting is a prefix.     *)
(* A command is one step: what may come between its file calls is in        *)
(* BackupStore, what its workers do in ParallelRun.                         *)
(***************************************************************************)
EXTENDS Integers, Sequences

CONSTANTS
  None,     \* nothing there
  Top,      \* the directory of the project
  Names,    \* package names
  Versions, \* versions of packages
  Projects  \* the projects tried: [packages, direct, ranges, override]

\* Version strings that are not versions: of npm 6 for what is not from a
\* registry, and of a node or a link that has none.
GitUrl == "git+url"
FileUrl == "file:"
Missing == ""

\* True is the hash the registry (or the packed file) has; Relabelled is a sha1
\* digest under the name of sha512.
Placeholder == "placeholder"
Sha1 == "sha1"
Relabelled == "relabelled"
Local == "local"
True == "true"

Loose == {"caret", "tilde"}
Other == "complex"  \* any range that is neither loose nor a version

\* What package.json and the root entry may declare.
Ranges == UNION {[D -> Versions \cup Loose \cup {Other, GitUrl, FileUrl, Missing}] : D \in SUBSET Names}
Root == [name : {"old", "new"}, ranges : Ranges]

VARIABLES
  lock,      \* the lockfile: [version, name, packages, root, tree]
  manifest,  \* package.json: [name, ranges, override]
  origin,    \* the packages as npm installed them
  exit       \* of the last command, when that was fix-checksums

vars == <<lock, manifest, origin, exit>>

At(path) == [dir |-> Top, path |-> path]
InTop(k) == k.dir = Top /\ k.path # <<>>

-------------------------------------------------------------------------------
(* The two forms *)

\* packageEntryToLegacyNode: what the tree keeps of an entry.
LegacyNode(e) ==
  [version |-> e.version, integrity |-> e.integrity, resolved |-> e.resolved,
   bundled |-> FALSE, requires |-> e.deps]

\* A node that was only made to hold its children.
HolderNode == [version |-> Missing, integrity |-> None, resolved |-> None,
               bundled |-> FALSE, requires |-> {}]

Prefixes(path) == {SubSeq(path, 1, i) : i \in 1..(Len(path) - 1)}

\* parseInstallPath, buildDependenciesTreeFromPackages
DependenciesTree(packages) ==
  LET installed == {k.path : k \in {k \in DOMAIN packages : InTop(k)}} IN
  [path \in installed \cup UNION {Prefixes(p) : p \in installed} |->
     IF path \in installed THEN LegacyNode(packages[At(path)]) ELSE HolderNode]

\* v1NodeToPackageEntry; v1GitResolved finds what is a git dependency.
PackageEntry(n) ==
  [version |-> n.version, integrity |-> n.integrity,
   resolved |-> IF n.resolved = None /\ n.version = GitUrl THEN "git" ELSE n.resolved,
   inBundle |-> n.bundled, link |-> None, deps |-> n.requires, dev |-> {}]

\* walkV1Tree.
PackagesFromTree(tree) == [k \in {At(path) : path \in DOMAIN tree} |-> PackageEntry(tree[k.path])]

\* The root entry of buildPackagesFromV1Tree: whatever is hoisted is direct.
RootFromTree(l) ==
  [name |-> l.name,
   ranges |-> [n \in {m \in Names : <<m>> \in DOMAIN l.tree} |-> l.tree[<<n>>].version]]

-------------------------------------------------------------------------------
(* migrate *)

\* Mutant: the root entry is forgotten.
V1toV2NoRoot(l) == [l EXCEPT !.version = 2, !.packages = PackagesFromTree(l.tree)]
V1toV2(l) == [l EXCEPT !.version = 2, !.packages = PackagesFromTree(l.tree), !.root = RootFromTree(l)]

\* A version 2 without its packages map gets it from the tree.
V2toV3(l) ==
  LET whole == IF l.root = None THEN V1toV2(l) ELSE l IN
  [whole EXCEPT !.version = 3, !.tree = <<>>]

V3toV2(l) == [l EXCEPT !.version = 2, !.tree = DependenciesTree(l.packages)]

V2toV1(l) ==
  LET tree == IF l.tree = <<>> THEN DependenciesTree(l.packages) ELSE l.tree IN
  [l EXCEPT !.version = 1, !.packages = <<>>, !.root = None, !.tree = tree]

\* migrateToVersion, runMigrationPath
MigrateToVersion(l, target) ==
  CASE target = l.version              -> l
    [] l.version = 1 /\ target = 2     -> V1toV2(l)
    [] l.version = 2 /\ target = 3     -> V2toV3(l)
    [] l.version = 3 /\ target = 2     -> V3toV2(l)
    [] l.version = 1 /\ target = 3     -> V2toV3(V1toV2(l))
    [] l.version = 2 /\ target = 1     -> V2toV1(l)
    [] l.version = 3 /\ target = 1     -> V2toV1(V3toV2(l))

Done == exit' = None /\ UNCHANGED origin

Migrate(target) ==
  /\ lock' = MigrateToVersion(lock, target)
  /\ UNCHANGED manifest /\ Done

\* runUpgradeCommand: nothing to do at version 3.
Upgrade ==
  /\ lock' = MigrateToVersion(lock, 3)
  /\ UNCHANGED manifest /\ Done

-------------------------------------------------------------------------------
(* fix *)

\* syncRootIdentity
SyncRootIdentity(l) ==
  [l EXCEPT !.name = manifest.name,
            !.root = IF l.root = None THEN None ELSE [l.root EXCEPT !.name = manifest.name]]

\* applyMigrations: what is asked for (0 is nothing), or away from version 1.
ApplyMigrations(l, normalizeTo) ==
  IF normalizeTo # 0 THEN MigrateToVersion(l, normalizeTo)
  ELSE IF l.version = 1 THEN MigrateToVersion(l, 2) ELSE l

\* The classification of forEachPackageEntry.
IsWorkspaceSource(k) == k.path = <<>>
IsLink(e) == e.link # None
IsGitDep(e) == e.resolved = "git"
IsFileDep(e) == e.resolved \in {"tarball-file", "directory"}

WantsPlaceholder(k, e) ==
  ~(IsWorkspaceSource(k) \/ IsLink(e) \/ IsGitDep(e) \/ IsFileDep(e) \/ e.inBundle)

FillPlaceholderIntegrity(l) ==
  [l EXCEPT !.packages =
     [k \in DOMAIN @ |-> IF WantsPlaceholder(k, @[k]) /\ @[k].integrity = None
                         THEN [@[k] EXCEPT !.integrity = Placeholder] ELSE @[k]]]

\* fixPackageLock; its deduplication preserves every entry.
Fix(normalizeTo, fillMissing) ==
  /\ LET migrated == ApplyMigrations(SyncRootIdentity(lock), normalizeTo) IN
     lock' = IF fillMissing THEN FillPlaceholderIntegrity(migrated) ELSE migrated
  /\ UNCHANGED manifest /\ Done

\* deduplicatePackages: there is nothing to collapse.
Dedupe == UNCHANGED <<lock, manifest>> /\ Done

\* upgradeIntegrityHashes, upgradeHash.
UpgradeHash(hash) == IF hash = Sha1 THEN Relabelled ELSE hash
UpgradeEntry(e) == [e EXCEPT !.integrity = UpgradeHash(@)]
UpgradeHashes ==
  /\ lock' = IF lock.version = 1 THEN lock
             ELSE [lock EXCEPT !.packages = [k \in DOMAIN @ |-> UpgradeEntry(@[k])]]
  /\ UNCHANGED manifest /\ Done

-------------------------------------------------------------------------------
(* fix-checksums *)

\* Mutant: a placeholder passes for a hash.
NeedsFixNoPlaceholder(hash) == hash \in {None, Sha1}
NeedsFix(hash) == hash \in {None, Placeholder, Sha1}

\* classifyEntry: what gets a hash at all.
IsCandidate(k, e) ==
  /\ ~IsWorkspaceSource(k) /\ ~IsLink(e)
  /\ NeedsFix(e.integrity)
  /\ ~e.inBundle /\ ~IsGitDep(e) /\ e.resolved # "directory"

Candidates == {k \in DOMAIN lock.packages : IsCandidate(k, lock.packages[k])}

\* What resolving a candidate may come to. A tarball is read or not; the registry
\* is asked about a version and has it, has it not, or cannot be reached; then the
\* installed directory may serve (tryLocalFallback).
Obtainable(e, localFallback) ==
  IF e.resolved = "tarball-file" THEN {True, None}
  ELSE {None} \cup (IF e.version \in {Missing, FileUrl, GitUrl} THEN {} ELSE {True})
              \cup (IF localFallback THEN {Local} ELSE {})

\* getDepsNode and applyChanges: both forms get the hash. Mutant: the map alone.
ApplyChangesToMap(l, changes) ==
  [l EXCEPT !.packages = [k \in DOMAIN @ |-> IF k \in DOMAIN changes
                                             THEN [@[k] EXCEPT !.integrity = changes[k]] ELSE @[k]]]
ApplyChanges(l, changes) ==
  [ApplyChangesToMap(l, changes) EXCEPT !.tree =
     [path \in DOMAIN @ |-> IF At(path) \in DOMAIN changes
                            THEN [@[path] EXCEPT !.integrity = changes[At(path)]] ELSE @[path]]]

\* fixChecksums and its command: `obtained` has an answer for every candidate.
ExitOf(obtained) == IF \E k \in DOMAIN obtained : obtained[k] = None THEN 1 ELSE 0

Answers(localFallback) ==
  {f \in [Candidates -> {None, True, Local}] :
     \A k \in Candidates : f[k] \in Obtainable(lock.packages[k], localFallback)}

FixChecksums(localFallback) ==
  /\ lock.version # 1
  /\ \E obtained \in Answers(localFallback) :
       LET changed == {k \in Candidates : obtained[k] # None} IN
       /\ lock' = ApplyChanges(lock, [k \in changed |-> obtained[k]])
       /\ exit' = ExitOf(obtained)
  /\ UNCHANGED <<manifest, origin>>

-------------------------------------------------------------------------------
(* prune and pin *)

RootKey == At(<<>>)
\* The map as Pruner sees it.
Packages(l) ==
  [k \in DOMAIN l.packages \cup {RootKey} |->
     IF k = RootKey THEN [deps |-> DOMAIN l.root.ranges, dev |-> {}, link |-> None]
     ELSE [deps |-> l.packages[k].deps, dev |-> l.packages[k].dev, link |-> l.packages[k].link]]

P == INSTANCE Pruner WITH Dirs <- {Top}, Lockfiles <- {}, MaxCalls <- 0, version <- 0,
                          packages <- <<>>, reachable <- {}, queue <- {}, phase <- "idle", calls <- 0

\* What findOrphanedPackages keeps (Pruner's KeepsExactlyNeeded, proved of it).
Reachable(l) ==
  CHOOSE S \in SUBSET DOMAIN Packages(l) :
    /\ P!SelfSufficient(Packages(l), S)
    /\ \A T \in SUBSET S : P!SelfSufficient(Packages(l), T) => T = S

Kept(l) == DOMAIN l.packages \cap Reachable(l)
Prune ==
  /\ lock.version # 1
  /\ lock' = IF lock.root = None THEN lock
             ELSE [lock EXCEPT !.packages = [k \in Kept(lock) |-> lock.packages[k]]]
  /\ UNCHANGED manifest /\ Done

\* resolvedVersionFor, and collectResolvedVersions for an override.
Copies(l, name) ==
  IF l.version = 1
  THEN {l.tree[p].version : p \in {p \in DOMAIN l.tree : p[Len(p)] = name}}
  ELSE {l.packages[k].version :
          k \in {k \in DOMAIN l.packages : k.path # <<>> /\ k.path[Len(k.path)] = name}}
\* Mutant: a nested copy of the name goes first.
ResolvedVersionNested(l, name) ==
  LET nested == {k \in DOMAIN l.packages : Len(k.path) = 2 /\ k.path[2] = name} IN
  IF nested # {} THEN {l.packages[k].version : k \in nested} ELSE Copies(l, name) \ {Missing}
ResolvedVersionFor(l, name) ==
  (IF l.version = 1
   THEN {l.tree[p].version : p \in {p \in DOMAIN l.tree : p = <<name>>}}
   ELSE {l.packages[k].version : k \in {k \in DOMAIN l.packages : k = At(<<name>>)}}) \ {Missing}

\* pinDependency
Pinnable == {n \in DOMAIN manifest.ranges :
               manifest.ranges[n] \in Loose /\ ResolvedVersionFor(lock, n) # {}}
PinnedTo(n) == CHOOSE v \in ResolvedVersionFor(lock, n) : TRUE

\* syncLockfileRoot: a range the root entry has as well.
SyncLockfileRoot(l) ==
  [l EXCEPT !.root.ranges = [n \in DOMAIN @ |-> IF n \in Pinnable THEN PinnedTo(n) ELSE @[n]]]

\* pinOverrides: the name has one version in the whole tree, or is left alone.
PinOverride(o) ==
  IF o = None THEN None
  ELSE LET versions == Copies(lock, o.name) \ {Missing} IN
       IF o.range \in Loose /\ \E v \in versions : versions = {v}
       THEN [o EXCEPT !.range = CHOOSE v \in versions : TRUE] ELSE o

Pin ==
  /\ manifest' = [manifest EXCEPT
       !.ranges = [n \in DOMAIN @ |-> IF n \in Pinnable THEN PinnedTo(n) ELSE @[n]],
       !.override = PinOverride(@)]
  /\ lock' = IF lock.version = 1 \/ lock.root = None THEN lock ELSE SyncLockfileRoot(lock)
  /\ Done

-------------------------------------------------------------------------------
(* validate *)

\* validateDependenciesTree at version 1, validatePackagesMap otherwise: every
\* entry has a version (a link may do without), and the map has a root.
Valid(l) ==
  IF l.version = 1 THEN \A path \in DOMAIN l.tree : l.tree[path].version # Missing
  ELSE /\ l.root # None
       /\ \A k \in DOMAIN l.packages :
            IsLink(l.packages[k]) \/ l.packages[k].version # Missing

-------------------------------------------------------------------------------
(* The project *)

\* A `packages` map as npm writes it: what is nested is in an installed package,
\* what is bundled has no source of its own, only a link (to a directory that is
\* not below a node_modules) has no version, and none is a placeholder.
IsEntry(e) ==
  /\ DOMAIN e = {"version", "integrity", "resolved", "inBundle", "link", "deps", "dev"}
  /\ e.integrity \in {None, Sha1, True} /\ e.deps \subseteq Names /\ e.dev \subseteq Names
  /\ e.version \in Versions \cup {Missing} /\ e.inBundle \in BOOLEAN
  /\ e.inBundle => e.resolved # "registry"
  /\ IsLink(e) => e.link.path = <<>>

IsPackages(packages) ==
  \A k \in DOMAIN packages :
    /\ k = [dir |-> k.dir, path |-> k.path] /\ k.path \in Seq(Names)
    /\ k \notin {None, At(<<>>)}
    /\ IsEntry(packages[k])
    /\ InTop(k) => /\ \A path \in Prefixes(k.path) : At(path) \in DOMAIN packages
                   /\ packages[k].version = Missing <=> IsLink(packages[k])

\* A loose range is not that of a git dependency, and an exact one is installed.
IsProject(p) ==
  /\ IsPackages(p.packages) /\ p.direct \in Ranges
  /\ \A n \in DOMAIN p.direct : LET k == At(<<n>>) IN
       /\ p.direct[n] \in Loose /\ k \in DOMAIN p.packages => ~IsGitDep(p.packages[k])
       /\ p.direct[n] \notin Loose \cup {Other} =>
            /\ k \in DOMAIN p.packages /\ ~IsLink(p.packages[k]) /\ ~IsGitDep(p.packages[k])
            /\ p.packages[k].version = p.direct[n]

ASSUME ProjectsAssumption ==
  /\ None \notin {0, Placeholder, Sha1, Relabelled, Local, True} \cup Root
  /\ Versions \cap {GitUrl, FileUrl, Missing} = {}
  /\ \A p \in Projects : IsProject(p)

\* npm 6 and 7 write the tree with what their own readers need.
NpmNode(e) ==
  [LegacyNode(e) EXCEPT
     !.bundled = e.inBundle,
     !.version = IF IsLink(e) THEN FileUrl ELSE IF IsGitDep(e) THEN GitUrl ELSE @,
     !.resolved = IF IsLink(e) \/ IsGitDep(e) THEN None ELSE @]
NpmTree(packages) ==
  [path \in {k.path : k \in {k \in DOMAIN packages : InTop(k)}} |-> NpmNode(packages[At(path)])]

\* A lockfile as npm wrote it, or a version 2 that a bad merge left without its map.
AsWritten(p, version, damaged) ==
  LET mapped == version # 1 /\ ~damaged IN
  [version |-> version, name |-> "old",
   packages |-> IF mapped THEN p.packages ELSE <<>>,
   root |-> IF mapped THEN [name |-> "old", ranges |-> p.direct] ELSE None,
   tree |-> IF version = 3 THEN <<>> ELSE NpmTree(p.packages)]

Init ==
  /\ \E p \in Projects, version \in 1..3, damaged \in BOOLEAN :
       /\ damaged => version = 2
       /\ lock = AsWritten(p, version, damaged)
       /\ manifest = [name |-> "new", ranges |-> p.direct, override |-> p.override]
       /\ origin = p.packages
  /\ exit = None

Next ==
  \/ \E target \in 1..3 : Migrate(target)
  \/ Upgrade
  \/ \E normalizeTo \in 0..3, fillMissing \in BOOLEAN : Fix(normalizeTo, fillMissing)
  \/ Dedupe
  \/ UpgradeHashes
  \/ \E localFallback \in BOOLEAN : FixChecksums(localFallback)
  \/ Prune
  \/ Pin

Spec == Init /\ [][Next]_vars

-------------------------------------------------------------------------------
(* Properties *)

\* What is installed from a registry or a file, and is no link.
Packed == {k \in DOMAIN origin : InTop(k) /\ ~IsLink(origin[k]) /\ ~IsGitDep(origin[k])}

\* The form npm installs from.
InTree(l) == l.version = 1 \/ l.root = None
Locked(l) ==
  IF InTree(l) THEN [path \in DOMAIN l.tree |-> [version |-> l.tree[path].version,
                                                 integrity |-> l.tree[path].integrity]]
  ELSE [path \in {k.path : k \in {k \in DOMAIN l.packages : InTop(k)}} |->
          [version |-> l.packages[At(path)].version, integrity |-> l.packages[At(path)].integrity]]

\* No command loses a locked package (only prune removes any), changes its version,
\* or loses a hash that was obtained from the registry, whichever of the two forms
\* of the lockfile the commands read and wrote on the way.
LockedKept ==
  [][\A path \in DOMAIN Locked(lock) :
       IF path \in DOMAIN Locked(lock')
       THEN At(path) \in Packed =>
              /\ Locked(lock')[path].version = Locked(lock)[path].version
              /\ Locked(lock)[path].integrity = True => Locked(lock')[path].integrity = True
       ELSE Prune]_lock

\* fix-checksums that exits with 0 leaves no package from the registry without
\* a hash, with a placeholder or with sha1, after whatever other commands.
FixedOrReported ==
  exit = 0 =>
    \A k \in Packed \cap DOMAIN lock.packages :
      origin[k].resolved = "registry" => lock.packages[k].integrity \in {True, Local, Relabelled}

\* An exact range in package.json is the version that the project installs,
\* however the lockfile was rewritten since (nothing but pin makes one exact).
PinnedIsInstalled ==
  \A n \in DOMAIN manifest.ranges :
    manifest.ranges[n] \notin Loose \cup {Other} =>
      <<n>> \in DOMAIN Locked(lock) /\ Locked(lock)[<<n>>].version = manifest.ranges[n]

\* No command makes a valid lockfile invalid, except that the tree has no place
\* for a link: migrating one to version 1 by way of it leaves a node without a version.
ValidStays ==
  [][Valid(lock) /\ (lock'.version = 1 => \A k \in DOMAIN origin : ~IsLink(origin[k])) => Valid(lock')]_lock

\* fix never stamps a placeholder on what has no registry hash: links, git and
\* file dependencies, bundled packages (CHANGELOG.md:145 and the comment at fixer.js:130).
StampsRegistryOnly ==
  \A k \in DOMAIN origin \cap DOMAIN lock.packages :
    lock.packages[k].integrity = Placeholder =>
      origin[k].resolved = "registry" /\ ~origin[k].inBundle
===============================================================================
