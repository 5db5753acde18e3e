-------------------------------- MODULE Pruner --------------------------------
(***************************************************************************)
(* src/src/pruner.js: which entries of a lockfile are reachable under      *)
(* Node's resolution, and the lockfile without the others; and the prune   *)
(* command of src/bin/cli.js that writes it back, to be pruned again.      *)
(*                                                                         *)
(* A key of `packages` is a directory of the project (Top, or the source   *)
(* directory of a workspace or of a file: dependency) and the names of the *)
(* node_modules levels below it: node_modules/a/node_modules/b is          *)
(* [dir |-> Top, path |-> <<"a", "b">>].  The dependency sections that are  *)
(* followed everywhere are one set, devDependencies the other.  The queue  *)
(* is a set: the walk may take its entries in any order.                   *)
(***************************************************************************)
EXTENDS Integers, Sequences

CONSTANTS
  None,      \* no link
  Top,       \* the directory of the project
  Dirs,      \* directories
  Names,     \* package names
  Lockfiles, \* the `packages` maps tried
  MaxCalls   \* bound: prunes of one lockfile

Key == [dir : Dirs, path : Seq(Names)]

\* npm links a name to a source directory, never to an installed package.
Link == [dir : Dirs, path : {<<>>}]
Entry == [deps : SUBSET Names, dev : SUBSET Names, link : Link \cup {None}]
IsPackages(p) == DOMAIN p \subseteq Key /\ p \in [DOMAIN p -> Entry]

ASSUME PrunerAssumption ==
  /\ Top \in Dirs /\ None \notin Key /\ MaxCalls \in Nat
  /\ \A p \in Lockfiles : IsPackages(p)

VARIABLES
  version,    \* lockfileVersion
  packages,   \* the map, as it is in the file
  reachable, queue,
  phase,      \* of the call
  calls       \* prunes begun

vars == <<version, packages, reachable, queue, phase, calls>>

Init ==
  /\ packages \in Lockfiles
  /\ version \in {1, 2, 3}
  /\ version = 1 => DOMAIN packages = {}
  /\ reachable = {} /\ queue = {}
  /\ phase = "idle" /\ calls = 0

-------------------------------------------------------------------------------
(* Resolution *)

\* Nothing installed under a node_modules.
IsRootLike(k) == k.path = <<>>

Installed(k, level, name) == [dir |-> k.dir, path |-> Append(SubSeq(k.path, 1, level), name)]

\* Mutant: the search starts in the parent's node_modules.
ResolutionCandidatesOutside(k, name) ==
  LET own == Len(k.path)
      levels == IF k.dir = Top THEN own + 1 ELSE own + 2
  IN [i \in 1..levels |-> IF i <= own + 1
                          THEN Installed(k, IF i = 1 /\ own > 0 THEN own - 1 ELSE own + 1 - i, name)
                          ELSE [dir |-> Top, path |-> <<name>>]]

\* The keys looked up for `name` from k: its own node_modules, those of each
\* package around it, and the project's.
ResolutionCandidates(k, name) ==
  LET own == Len(k.path)
      levels == IF k.dir = Top THEN own + 1 ELSE own + 2
  IN [i \in 1..levels |-> IF i <= own + 1 THEN Installed(k, own + 1 - i, name)
                          ELSE [dir |-> Top, path |-> <<name>>]]

\* Mutants: every candidate is visited; every copy of the name is.
VisitEvery(p, k, name) ==
  LET seen == ResolutionCandidates(k, name) IN {seen[i] : i \in DOMAIN seen} \cap DOMAIN p
VisitByName(p, k, name) == {c \in DOMAIN p : c.path # <<>> /\ c.path[Len(c.path)] = name}

\* visitDependency: the first candidate that exists, if any.
VisitDependency(p, k, name) ==
  LET seen == ResolutionCandidates(k, name) IN
  {seen[i] : i \in {i \in DOMAIN seen : /\ seen[i] \in DOMAIN p
                                        /\ \A j \in 1..(i - 1) : seen[j] \notin DOMAIN p}}

LinkTarget(p, k) == {p[k].link} \cap DOMAIN p
Sections(p, k) == IF IsRootLike(k) THEN p[k].deps \cup p[k].dev ELSE p[k].deps

\* What walkEntry visits.
Edges(p, k) == LinkTarget(p, k) \cup UNION {VisitDependency(p, k, n) : n \in Sections(p, k)}

-------------------------------------------------------------------------------
(* The walk *)

Refuse ==
  /\ phase = "idle" /\ version = 1
  /\ phase' = "threw"
  /\ UNCHANGED <<version, packages, reachable, queue, calls>>

\* Mutant: whatever anything depends on stays.
RootsDependedOn(p) == {k \in DOMAIN p : IsRootLike(k) \/ \E j \in DOMAIN p : k \in Edges(p, j)}
Roots(p) == {k \in DOMAIN p : IsRootLike(k)}

Begin ==
  /\ phase \in {"idle", "returned"} /\ version # 1
  /\ calls < MaxCalls
  /\ calls' = calls + 1
  /\ reachable' = Roots(packages)
  /\ queue' = reachable'
  /\ phase' = "walking"
  /\ UNCHANGED <<version, packages>>

\* Mutant: an entry is queued again whenever it is met.
FreshAgain(k) == Edges(packages, k)
\* visit: what is met for the first time.
Fresh(k) == Edges(packages, k) \ reachable

WalkEntry(k) ==
  /\ phase = "walking" /\ k \in queue
  /\ reachable' = reachable \cup Fresh(k)
  /\ queue' = (queue \ {k}) \cup Fresh(k)
  /\ UNCHANGED <<version, packages, phase, calls>>

\* findOrphanedPackages returns.
Found ==
  /\ phase = "walking" /\ queue = {}
  /\ phase' = "found"
  /\ UNCHANGED <<version, packages, reachable, queue, calls>>

\* prunePackages returns, and the command writes what it returned.
Prune ==
  /\ phase = "found"
  /\ packages' = [k \in DOMAIN packages \cap reachable |-> packages[k]]
  /\ phase' = "returned"
  /\ UNCHANGED <<version, reachable, queue, calls>>

Next == Refuse \/ Begin \/ (\E k \in queue : WalkEntry(k)) \/ Found \/ Prune

Spec == Init /\ [][Next]_vars /\ WF_vars(Next)

-------------------------------------------------------------------------------
(* Node's resolution, as a reference *)

\* The installed copies of `name` that are visible from k.
Visible(p, k, name) ==
  {c \in DOMAIN p :
     \/ c = [dir |-> Top, path |-> <<name>>]
     \/ /\ c.dir = k.dir /\ Len(c.path) \in 1..(Len(k.path) + 1)
        /\ c.path = Append(SubSeq(k.path, 1, Len(c.path) - 1), name)}

Depth(k, c) == IF c.dir = k.dir THEN Len(c.path) ELSE 0
\* The copy that `name` means in k: the most deeply nested visible one.
Resolved(p, k, name) ==
  {c \in Visible(p, k, name) : \A d \in Visible(p, k, name) : Depth(k, d) <= Depth(k, c)}

Needed(p, k) == IF k.path = <<>> THEN p[k].deps \cup p[k].dev ELSE p[k].deps

\* A set of entries that can be installed by itself.
SelfSufficient(p, S) ==
  /\ \A k \in DOMAIN p : k.path = <<>> => k \in S
  /\ \A k \in S : /\ p[k].link \in DOMAIN p => p[k].link \in S
                  /\ \A n \in Needed(p, k) : Resolved(p, k, n) \subseteq S

-------------------------------------------------------------------------------
(* Properties *)

TypeOK ==
  /\ reachable \subseteq Key /\ queue \subseteq reachable
  /\ IsPackages(packages) /\ calls \in 0..MaxCalls
  /\ phase \in {"idle", "walking", "found", "returned", "threw"}

\* What findOrphanedPackages keeps is the least set that holds the project and its
\* workspaces and everything they need, directly or not, as Node resolves it: no
\* needed package is an orphan, however deep it is nested, and no other is kept.
KeepsExactlyNeeded ==
  phase = "found" =>
    /\ SelfSufficient(packages, reachable)
    /\ \A S \in SUBSET DOMAIN packages : SelfSufficient(packages, S) => reachable \subseteq S

\* Pruning changes no resolution: every dependency of every entry that stays
\* means the same copy before and after.
SameResolution ==
  [][\A k \in DOMAIN packages' : \A n \in Needed(packages, k) :
       Resolved(packages', k, n) = Resolved(packages, k, n)]_packages

\* No entry is left whose enclosing package was removed.
Encloses(h, k) == /\ h.dir = k.dir /\ Len(h.path) < Len(k.path)
                  /\ h.path = SubSeq(k.path, 1, Len(h.path))
HostsStay ==
  [][\A k \in DOMAIN packages' : \A h \in DOMAIN packages :
       Encloses(h, k) => h \in DOMAIN packages']_packages

\* A pruned lockfile has nothing to prune.
PruneOnce == [][calls >= 2 => UNCHANGED packages]_packages

\* The walk ends, cycles included.
Terminates == phase = "walking" ~> phase = "found"
===============================================================================
