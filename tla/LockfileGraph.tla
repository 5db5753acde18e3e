----------------------------- MODULE LockfileGraph ------------------------------
(***************************************************************************)
(* What the lockfiles of a tree say of each package, and of what depends   *)
(* on what (src/src/facts/lockfile-graph.js). A package is known by its    *)
(* name and version, <<name, version>>, however often it is installed; the *)
(* sightings of it in one lockfile and in several are folded into one      *)
(* record [dev, optional, integrity], where dev is "runtime", "dev" or     *)
(* None. (The license and the address, of which the first one seen is      *)
(* kept, are left out.)                                                    *)
(*                                                                         *)
(* A lockfile is                                                           *)
(*   npm     entries: a sequence of [dir, path, version, link, dev,        *)
(*           extraneous, optional, integrity, deps], where dir is None or  *)
(*           a workspace and path the packages the entry is nested in, and *)
(*           itself; root: [deps, devDeps] or None                         *)
(*   pnpm    packages: a function from keys to hashes; snapshots: a set of *)
(*           [key, deps], one for each set of peers the package has;       *)
(*           importers: a sequence of [deps, devDeps], sets of keys        *)
(*   broken  not to be parsed                                              *)
(***************************************************************************)
EXTENDS Naturals, Sequences, FiniteSetsExt, SequencesExt

CONSTANT None

-------------------------------------------------------------------------------
(* Folding *)

\* What mergeDiscovered keeps of the flags.
MergeFlags(into, other) ==
  [into EXCEPT !.dev      = IF "runtime" \in {@, other.dev} THEN "runtime" ELSE IF @ = None THEN other.dev ELSE @,
               !.optional = @ /\ other.optional]

\* Mutant: a package on record as contested gets its hash back.
MergeForgetful(into, other, key, conflicts) ==
  LET flags == MergeFlags(into, other) IN
  IF other.integrity = None THEN [record |-> flags, conflicts |-> conflicts]
  ELSE IF into.integrity \in {None, other.integrity}
  THEN [record |-> [flags EXCEPT !.integrity = other.integrity], conflicts |-> conflicts]
  ELSE [record |-> [flags EXCEPT !.integrity = None], conflicts |-> conflicts \cup {key}]

\* mergeDiscovered: conflicts are the packages whose hash has been given up.
MergeDiscovered(into, other, key, conflicts) ==
  LET flags == MergeFlags(into, other) IN
  IF key \in conflicts \/ (None \notin {into.integrity, other.integrity} /\ into.integrity # other.integrity)
  THEN [record |-> [flags EXCEPT !.integrity = None], conflicts |-> conflicts \cup {key}]
  ELSE [record |-> [flags EXCEPT !.integrity = IF @ = None THEN other.integrity ELSE @], conflicts |-> conflicts]

\* A function with one more value, or another one.
With(f, x, v) == [y \in DOMAIN f \cup {x} |-> IF y = x THEN v ELSE f[y]]

\* One more sighting of a package.
Sighted(fold, key, sighting) ==
  IF key \notin DOMAIN fold.packages
  THEN [fold EXCEPT !.packages = With(@, key, sighting)]
  ELSE LET merged == MergeDiscovered(fold.packages[key], sighting, key, fold.conflicts) IN
       [packages |-> With(fold.packages, key, merged.record), conflicts |-> merged.conflicts]

\* Sightings [key, record] in the order of their numbers, up to the last.
SightAll(start, sightings, last) ==
  LET after[n \in 0..last] ==
        IF n = 0 THEN start
        ELSE IF n \in DOMAIN sightings THEN Sighted(after[n - 1], sightings[n].key, sightings[n].record)
        ELSE after[n - 1] IN
  after[last]

-------------------------------------------------------------------------------
(* package-lock.json *)

\* devDeclaredFromNpmFlags
DevFromNpmFlags(entry) == IF entry.extraneous THEN None ELSE IF entry.dev THEN "dev" ELSE "runtime"

NpmKey(entry) == <<Last(entry.path), entry.version>>

NpmSighting(entry) == [dev |-> DevFromNpmFlags(entry), optional |-> entry.optional, integrity |-> entry.integrity]

\* Links, and entries without a version, are no packages.
NpmPackages(lock) == {i \in DOMAIN lock.entries : ~lock.entries[i].link /\ lock.entries[i].version # None}

\* resolve: the nearest installation, up from the entry; then that of the root.
NpmResolve(lock, dir, path, name) ==
  LET At(d, n) ==
        {i \in NpmPackages(lock) : /\ lock.entries[i].dir = d
                                   /\ lock.entries[i].path = Append(SubSeq(path, 1, n), name)}
      near == {n \in 0..Len(path) : At(dir, n) # {}} IN
  IF near # {} THEN lock.entries[Min(At(dir, Max(near)))]
  ELSE IF At(None, 0) # {} THEN lock.entries[Min(At(None, 0))]
  ELSE None

\* The packages the root names in a section, as they are installed.
RootKeys(lock, names) ==
  {NpmKey(NpmResolve(lock, None, <<>>, n)) : n \in {n \in names : NpmResolve(lock, None, <<>>, n) # None}}

\* parsePackageLockJsonGraph. A package of a runtime section of the root ships; one
\* of the dev section is dev if nothing else is known of it.
ParseNpm(lock, conflicts) ==
  LET sightings ==
        [i \in NpmPackages(lock) |-> [key |-> NpmKey(lock.entries[i]), record |-> NpmSighting(lock.entries[i])]]
      fold == SightAll([packages |-> <<>>, conflicts |-> conflicts], sightings, Len(lock.entries))
      runtime == IF lock.root = None THEN {} ELSE RootKeys(lock, lock.root.deps)
      devOnly == IF lock.root = None THEN {} ELSE RootKeys(lock, lock.root.devDeps \ lock.root.deps)
      Asserted(key, record) ==
        IF key \in runtime THEN [record EXCEPT !.dev = "runtime"]
        ELSE IF key \in devOnly /\ record.dev = None THEN [record EXCEPT !.dev = "dev"]
        ELSE record
      EdgesOf(e) ==
        {<<NpmKey(e), NpmKey(NpmResolve(lock, e.dir, e.path, n))>> :
           n \in {n \in e.deps : NpmResolve(lock, e.dir, e.path, n) # None}} IN
  [packages |-> [key \in DOMAIN fold.packages |-> Asserted(key, fold.packages[key])],
   conflicts |-> fold.conflicts,
   roots |-> runtime \cup devOnly,
   edges |-> UNION {EdgesOf(lock.entries[i]) : i \in NpmPackages(lock)}]

-------------------------------------------------------------------------------
(* pnpm-lock.yaml *)

\* parsePnpmLockYamlGraph: only what an importer names is known to ship or not.
ParsePnpm(lock, conflicts) ==
  LET keys == DOMAIN lock.packages
      Named(section) == (UNION {lock.importers[i][section] : i \in DOMAIN lock.importers}) \cap keys
      DevOf(key) == IF key \in Named("deps") THEN "runtime"
                    ELSE IF key \in Named("devDeps") THEN "dev" ELSE None IN
  [packages |-> [key \in keys |-> [dev |-> DevOf(key), optional |-> FALSE, integrity |-> lock.packages[key]]],
   conflicts |-> conflicts,
   roots |-> Named("deps") \cup Named("devDeps"),
   edges |-> UNION {{<<s.key, to>> : to \in s.deps \cap keys} : s \in lock.snapshots}]

-------------------------------------------------------------------------------
(* All of them *)

Discovered == [packages |-> <<>>, conflicts |-> {}, roots |-> {}, edges |-> {}]

\* addGraph
AddGraph(found, graph) ==
  LET keys == SetToSeq(DOMAIN graph.packages)
      sightings == [i \in DOMAIN keys |-> [key |-> keys[i], record |-> graph.packages[keys[i]]]]
      fold == SightAll([packages |-> found.packages, conflicts |-> graph.conflicts], sightings, Len(keys)) IN
  [packages |-> fold.packages, conflicts |-> fold.conflicts,
   roots |-> found.roots \cup graph.roots, edges |-> found.edges \cup graph.edges]

\* One lockfile of discoverLockfileGraphs.
AddLockfile(found, lock) ==
  AddGraph(found, IF lock.form = "npm" THEN ParseNpm(lock, found.conflicts) ELSE ParsePnpm(lock, found.conflicts))
===============================================================================
