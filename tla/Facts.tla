--------------------------------- MODULE Facts ----------------------------------
(***************************************************************************)
(* collectImportFacts (src/src/facts/collect.js) over one tree: every      *)
(* source file of the project is read and scanned; the imports are then    *)
(* followed through node_modules (modulegraph.js), one import of one file  *)
(* at a time, first come first served, to the files they load, until none  *)
(* is left or the budget of files is spent; the lockfiles are read last.   *)
(* Nothing is judged here: what matters is that the facts are complete, or *)
(* say where they are not.                                                 *)
(*                                                                         *)
(* A tree has, besides what ModuleResolver takes from it,                  *)
(*   sources      the source files that .gitignore does not exclude, in    *)
(*                order                                                    *)
(*   lockfiles    the lockfiles, npm's before pnpm's                       *)
(*   maxFiles     the budget of the walk                                   *)
(*   moduleGraph  whether there is one                                     *)
(* and of each file of the tree, besides what ImportScan takes from it,    *)
(*   reads        what may come of reading it: "ok", "unreadable", "large" *)
(***************************************************************************)
EXTENDS ModuleResolver, FiniteSets, TLC

INSTANCE ImportScan
INSTANCE LockfileGraph

CONSTANTS
  Trees,   \* the trees the facts are collected of
  Listed   \* how many files are listed for a package that is not found

\* What every tree is. A source is no file of an installed package, as the walk
\* for sources passes over node_modules (sourcescan.js).
FileShape(file) ==
  /\ file.decls \in Seq({file.decls[i] : i \in DOMAIN file.decls})
  /\ \A i \in DOMAIN file.decls : file.decls[i].spec.form \in {"node", "url", "relative", "imports", "bare"}
  /\ file.markup # None => file.markup \in Seq({file.markup[t] : t \in DOMAIN file.markup})
  /\ file.dynamic \in BOOLEAN
  /\ \A u \in file.uses :
       u.local # None /\ u.shape \in {"member", "inspect", "value", "export", "name", "declaration"}

LockShape(l) ==
  /\ l.form \in {"npm", "pnpm", "broken"}
  /\ l.form = "npm" =>
       /\ l.entries \in Seq({l.entries[i] : i \in DOMAIN l.entries})
       /\ \A i \in DOMAIN l.entries : l.entries[i].optional \in BOOLEAN
  /\ l.form = "pnpm" => IsFiniteSet(DOMAIN l.packages)

TreeShape(t) ==
  /\ IsFiniteSet(DOMAIN t.files) /\ \A path \in DOMAIN t.files : FileShape(t.files[path])
  /\ t.sources \in Seq({path \in DOMAIN t.files : PackageRootOf(path.at) = None})
  /\ t.lockfiles \in Seq({l \in {t.lockfiles[i] : i \in DOMAIN t.lockfiles} : LockShape(l)})
  /\ t.moduleGraph \in BOOLEAN

ASSUME NoneAssumption == None \notin {"runtime", "dev"}
ASSUME TreesAssumption == \A t \in Trees : TreeShape(t)

VARIABLES
  tree, phase,
  resolution,      \* what each import of each file resolves to: the tree does not change
  loads,           \* history: what it loads, which differs where a builtin's name is taken
  todo,            \* source files still to read
  files,           \* those scanned, each with the installed package each import loads
  unanalyzable,    \* [file, kind]: what was not read
  dynamicUnknown,  \* source files with imports that cannot be known
  queue,           \* [file, next, from, chain]: files whose imports are followed
  visited, parsed, pastBudget,
  reached,         \* by package: [chain, importers, dynamic, incomplete]
  missing,         \* unresolvedByName: the files that ask for each name
  lockfiles, found, diagnostics

walk == <<queue, visited, parsed, pastBudget, reached, missing>>
lock == <<lockfiles, found, diagnostics>>
given == <<tree, resolution, loads>>
vars == <<given, phase, todo, files, unanalyzable, dynamicUnknown, walk, lock>>

Resolved(path, decl) == Resolve(tree, path, decl.spec, ModeFor(decl.kind))

\* A package of the name of a builtin is loaded by a path into it, or by a slash.
PastBuiltin(spec) == spec.form = "bare" /\ spec.name \in Builtins /\ (spec.slash \/ spec.at # <<>>)
Loaded(path, decl) ==
  IF PastBuiltin(decl.spec) THEN ResolveBare(tree, path, decl.spec, ModeFor(decl.kind)) ELSE Resolved(path, decl)

Init ==
  /\ tree \in Trees
  /\ resolution = [path \in DOMAIN tree.files |->
                     [i \in DOMAIN tree.files[path].decls |-> Resolved(path, tree.files[path].decls[i])]]
  /\ loads = [path \in DOMAIN tree.files |->
                [i \in DOMAIN tree.files[path].decls |-> Loaded(path, tree.files[path].decls[i])]]
  /\ phase = "files" /\ todo = tree.sources /\ files = <<>> /\ unanalyzable = {} /\ dynamicUnknown = {}
  /\ queue = <<>> /\ visited = {} /\ parsed = {} /\ pastBudget = {} /\ reached = <<>> /\ missing = <<>>
  /\ lockfiles = tree.lockfiles /\ found = Discovered
  /\ diagnostics = IF tree.lockfiles = <<>> THEN {"no lockfile"} ELSE {}

-------------------------------------------------------------------------------
(* The source files *)

\* The package each import of a source file names, and the copy it loads.
ResolvedSites(path) ==
  {LET r == resolution[path][i] IN
   [site      |-> i,
    package   |-> SpecifierToPackage(tree, path, tree.files[path].decls[i].spec),
    installed |-> IF r.kind \in {"file", "asset"} THEN r.pkg ELSE None] :
     i \in SitesOf(tree.files[path])}

ReadSource ==
  /\ phase = "files" /\ todo # <<>>
  /\ todo' = Tail(todo)
  /\ LET path == Head(todo)
         file == tree.files[path] IN
     \/ /\ file.reads \cap {"ok", "large"} # {}
        /\ files' = Append(files, [file |-> path, sites |-> ResolvedSites(path)])
        /\ dynamicUnknown' = IF file.dynamic THEN dynamicUnknown \cup {path} ELSE dynamicUnknown
        /\ \E told \in ParseErrors(file) :
             unanalyzable' = IF told THEN unanalyzable \cup {[file |-> path, kind |-> "file-partial"]}
                             ELSE unanalyzable
     \/ /\ "unreadable" \in file.reads
        /\ unanalyzable' = unanalyzable \cup {[file |-> path, kind |-> "file"]}
        /\ UNCHANGED <<files, dynamicUnknown>>
  /\ UNCHANGED <<given, phase, walk, lock>>

\* The walk starts at the files that were scanned.
StartWalk ==
  /\ phase = "files" /\ todo = <<>>
  /\ phase' = IF tree.moduleGraph THEN "walk" ELSE "lockfiles"
  /\ queue' = IF tree.moduleGraph
              THEN [n \in DOMAIN files |-> [file |-> files[n].file, next |-> 1, from |-> None, chain |-> <<>>]]
              ELSE <<>>
  /\ UNCHANGED <<given, todo, files, unanalyzable, dynamicUnknown, visited, parsed, pastBudget, reached, missing, lock>>

-------------------------------------------------------------------------------
(* The walk *)

Item == Head(queue)
ItemFile == tree.files[Item.file]
Advance == [queue EXCEPT ![1].next = @ + 1]
Following(kinds) ==
  /\ phase = "walk" /\ queue # <<>> /\ Item.next \in SitesOf(ItemFile)
  /\ ItemFile.decls[Item.next].kind # "type-only-import"
  /\ resolution[Item.file][Item.next].kind \in kinds

FollowedAll ==
  /\ phase = "walk" /\ queue # <<>> /\ Item.next > Len(ItemFile.decls)
  /\ queue' = Tail(queue)
  /\ UNCHANGED <<given, phase, todo, files, unanalyzable, dynamicUnknown, visited, parsed, pastBudget, reached, missing, lock>>

\* Script that was not extracted has no site; a type loads nothing.
SkipNoLoad ==
  /\ phase = "walk" /\ queue # <<>> /\ Item.next \in DOMAIN ItemFile.decls
  /\ Item.next \notin SitesOf(ItemFile) \/ ItemFile.decls[Item.next].kind = "type-only-import"
  /\ queue' = Advance
  /\ UNCHANGED <<given, phase, todo, files, unanalyzable, dynamicUnknown, visited, parsed, pastBudget, reached, missing, lock>>

\* A name that is not found is listed; any other path leaves its package incomplete.
FollowUnresolved ==
  /\ Following({"unresolved"})
  /\ queue' = Advance
  /\ LET name == BareNameOf(ItemFile.decls[Item.next].spec)
         list == IF name \in DOMAIN missing THEN missing[name] ELSE <<>> IN
     IF name # None
     THEN /\ missing' = With(missing, name, IF Len(list) < Listed THEN Append(list, Item.file) ELSE list)
          /\ UNCHANGED reached
     ELSE /\ reached' = IF Item.from = None THEN reached ELSE [reached EXCEPT ![Item.from].incomplete = TRUE]
          /\ UNCHANGED missing
  /\ UNCHANGED <<given, phase, todo, files, unanalyzable, dynamicUnknown, visited, parsed, pastBudget, lock>>

\* Builtins, aliases, and what counts as the project's own.
FollowElsewhere ==
  /\ Following({"builtin", "alias", "file", "asset"})
  /\ LET r == resolution[Item.file][Item.next] IN r.kind \in {"file", "asset"} => r.pkg = None
  /\ queue' = Advance
  /\ UNCHANGED <<given, phase, todo, files, unanalyzable, dynamicUnknown, visited, parsed, pastBudget, reached, missing, lock>>

\* reach: what is known of the package, with one more importer unless it is
\* the package itself.
Reach(pkg) ==
  LET importer == [file |-> Item.file, site |-> Item.next, from |-> Item.from,
                   bindings |-> Bindings(ItemFile, Item.next), referenced |-> Referenced(ItemFile, Item.next),
                   opaque |-> Opaque(ItemFile, Item.next)]
      entry == IF pkg \in DOMAIN reached THEN reached[pkg]
               ELSE [chain |-> Append(Item.chain, pkg), importers |-> {}, dynamic |-> FALSE, incomplete |-> FALSE] IN
  IF Item.from = pkg THEN entry ELSE [entry EXCEPT !.importers = @ \cup {importer}]

Reached(pkg, entry) == With(reached, pkg, entry)

FollowLoaded ==
  /\ Following({"file", "asset"})
  /\ LET r == resolution[Item.file][Item.next] IN
     /\ r.pkg # None
     /\ r.kind = "asset" \/ r.path \in visited
     /\ reached' = Reached(r.pkg, Reach(r.pkg))
  /\ queue' = Advance
  /\ UNCHANGED <<given, phase, todo, files, unanalyzable, dynamicUnknown, visited, parsed, pastBudget, missing, lock>>

FollowPastBudget ==
  /\ Following({"file"})
  /\ LET r == resolution[Item.file][Item.next] IN
     /\ r.pkg # None /\ r.path \notin visited
     /\ Cardinality(parsed) >= tree.maxFiles
     /\ visited' = visited \cup {r.path}
     /\ pastBudget' = pastBudget \cup {r.path}
     /\ reached' = Reached(r.pkg, Reach(r.pkg))
  /\ queue' = Advance
  /\ UNCHANGED <<given, phase, todo, files, unanalyzable, dynamicUnknown, parsed, missing, lock>>

\* The file cannot be read, is gone since it was found, or is too large.
FollowUnread ==
  /\ Following({"file"})
  /\ LET r == resolution[Item.file][Item.next] IN
     /\ r.pkg # None /\ r.path \notin visited
     /\ Cardinality(parsed) < tree.maxFiles
     /\ tree.files[r.path].reads \cap {"unreadable", "large"} # {}
     /\ visited' = visited \cup {r.path}
     /\ reached' = Reached(r.pkg, [Reach(r.pkg) EXCEPT !.incomplete = TRUE])
     /\ unanalyzable' = unanalyzable \cup {[file |-> r.path, kind |-> "node-modules-file"]}
  /\ queue' = Advance
  /\ UNCHANGED <<given, phase, todo, files, dynamicUnknown, parsed, pastBudget, missing, lock>>

FollowParsed ==
  /\ Following({"file"})
  /\ LET r == resolution[Item.file][Item.next]
         entry == Reach(r.pkg) IN
     /\ r.pkg # None /\ r.path \notin visited
     /\ Cardinality(parsed) < tree.maxFiles
     /\ "ok" \in tree.files[r.path].reads
     /\ visited' = visited \cup {r.path}
     /\ parsed' = parsed \cup {r.path}
     /\ reached' = Reached(r.pkg, [entry EXCEPT !.dynamic = @ \/ tree.files[r.path].dynamic])
     /\ queue' = Append(Advance, [file |-> r.path, next |-> 1, from |-> r.pkg, chain |-> entry.chain])
  /\ UNCHANGED <<given, phase, todo, files, unanalyzable, dynamicUnknown, pastBudget, missing, lock>>

EndWalk ==
  /\ phase = "walk" /\ queue = <<>>
  /\ phase' = "lockfiles"
  /\ unanalyzable' = IF pastBudget = {} THEN unanalyzable
                     ELSE unanalyzable \cup {[file |-> None, kind |-> "walk"]}
  /\ UNCHANGED <<given, todo, files, dynamicUnknown, walk, lock>>

-------------------------------------------------------------------------------
(* The lockfiles *)

ReadLockfile ==
  /\ phase = "lockfiles" /\ lockfiles # <<>>
  /\ lockfiles' = Tail(lockfiles)
  /\ IF Head(lockfiles).form = "broken"
     THEN diagnostics' = diagnostics \cup {"unparseable"} /\ UNCHANGED found
     ELSE found' = AddLockfile(found, Head(lockfiles)) /\ UNCHANGED diagnostics
  /\ UNCHANGED <<given, phase, todo, files, unanalyzable, dynamicUnknown, walk>>

Finish ==
  /\ phase = "lockfiles" /\ lockfiles = <<>>
  /\ phase' = "done"
  /\ UNCHANGED <<given, todo, files, unanalyzable, dynamicUnknown, walk, lock>>

Collected == phase = "done"

Done == Collected /\ UNCHANGED vars

Next ==
  \/ ReadSource \/ StartWalk
  \/ FollowedAll \/ SkipNoLoad \/ FollowUnresolved \/ FollowElsewhere \/ FollowLoaded
  \/ FollowPastBudget \/ FollowUnread \/ FollowParsed \/ EndWalk
  \/ ReadLockfile \/ Finish \/ Done

Spec == Init /\ [][Next]_vars

-------------------------------------------------------------------------------
(* What the facts must say *)

\* The imports the program has, in a .svelte file those of its scripts as its
\* compiler reads them.
ImportsOf(path) ==
  LET file == tree.files[path] IN
  {i \in DOMAIN file.decls :
     /\ file.decls[i].kind # "type-only-import"
     /\ file.markup # None => \E t \in ScriptPass(file.markup, {"comment"}).copied :
                                file.markup[t].decl = i}

Own(path) == PackageRootOf(path.at) = None
Sources == {tree.sources[n] : n \in DOMAIN tree.sources}
Scanned == {files[n].file : n \in DOMAIN files} \cup parsed

\* A "<!--" of the text whose "-->" is text as well, which extractSvelteScript
\* takes for a comment knowingly.
TrustedComment(markup) ==
  \E t \in DOMAIN markup :
    /\ markup[t].is = "comment-in-text"
    /\ NextToken(markup, "-->", t) > 0
    /\ \A u \in (t + 1)..NextToken(markup, "-->", t) : markup[u].is \notin {"comment", "comment-in-text"}

\* Where the code is known not to tell: a package without a package.json is taken
\* for the project's own; a name like a builtin's for the builtin; what is lost of
\* a .svelte file is told of the project's own only, unless the comment is trusted.
BlindFile(path) ==
  /\ tree.files[path].markup # None
  /\ ~Own(path) \/ TrustedComment(tree.files[path].markup)
BlindEdge(path, i) ==
  \/ BlindFile(path)
  \/ PastBuiltin(tree.files[path].decls[i].spec)
  \/ LET r == loads[path][i] IN r.kind = "file" /\ ~Own(r.path) /\ r.pkg = None

\* The file is among those not read, or not in full.
Told(path) ==
  \/ \E kind \in {"file", "file-partial", "node-modules-file"} : [file |-> path, kind |-> kind] \in unanalyzable
  \/ path \in pastBudget /\ [file |-> None, kind |-> "walk"] \in unanalyzable

\* What a file loads by edges that are not hidden, unless something of it is told.
LoadedFrom(path, hidden(_, _)) ==
  IF Told(path) \/ ~tree.moduleGraph THEN {}
  ELSE {loads[path][i].path : i \in {i \in ImportsOf(path) : ~hidden(path, i) /\ loads[path][i].kind = "file"}}

\* The files that are loaded from the sources through files of which nothing is told.
LoadedUntold(hidden(_, _)) ==
  LET Relevant(path) == ~Own(path) \/ path \in Sources
      closure[n \in 0..Cardinality(DOMAIN tree.files)] ==
        IF n = 0 THEN Sources
        ELSE LET before == closure[n - 1] IN
             before \cup {p \in UNION {LoadedFrom(q, hidden) : q \in before} : Relevant(p)} IN
  closure[Cardinality(DOMAIN tree.files)]

\* A file that was read leaves a trace of each import it could not follow, and of
\* those it cannot know.
Traced(path) ==
  LET pkg == PackageOf(tree, path.at) IN
  /\ tree.files[path].dynamic => path \in dynamicUnknown \/ (pkg # None /\ reached[pkg].dynamic)
  /\ \A i \in SitesOf(tree.files[path]) \cap ImportsOf(path) :
       resolution[path][i].kind = "unresolved" /\ tree.moduleGraph =>
         \/ BareNameOf(tree.files[path].decls[i].spec) \in DOMAIN missing
         \/ IF pkg = None THEN Own(path) ELSE reached[pkg].incomplete

\* "The facts are complete OR say where they are not" (collect.js:10): whatever
\* the budget, the failing reads and the layout, a file the program loads has
\* been read, or it is told that it was not, or a file on the way to it was not.
\* Exempt is what the code is known to leave out, the blind edges.
GapsTold ==
  Collected =>
    \A path \in LoadedUntold(BlindEdge) :
      \/ Told(path)
      \/ /\ path \in Scanned /\ Traced(path)
         /\ ~BlindFile(path) => ImportsOf(path) \subseteq SitesOf(tree.files[path])

\* The same of every edge: "a fact this walk could not establish is reported as a
\* gap, never silently dropped" (modulegraph.js:16). Not so.
NoEdge(path, i) == FALSE
NeverSilentlyDropped ==
  Collected => \A path \in LoadedUntold(NoEdge) : Told(path) \/ path \in Scanned

-------------------------------------------------------------------------------

NamesGiven(decl) == {decl.names[n] : n \in DOMAIN decl.names}

Binds(decl, local) ==
  decl.kind # "export-from" /\ (decl.local = local \/ \E n \in NamesGiven(decl) : n.local = local)

\* The imports a use means: those of its own block, else those of the top.
Means(file, use) ==
  LET of(block) == {i \in DOMAIN file.decls : file.decls[i].block = block /\ Binds(file.decls[i], use.local)} IN
  IF of(use.block) # {} THEN of(use.block) ELSE of("top")

\* Whole modules under one name in two blocks: only the last is followed.
Rebound(file, i) ==
  file.decls[i].local # None /\ \E j \in DOMAIN file.decls \ {i} : file.decls[j].local = file.decls[i].local

\* What the import itself takes of the module: [part, how], part None for what it may be.
TakenAtOnce(decl) ==
  {[part |-> n.original, how |-> IF decl.kind = "export-from" THEN "handed on" ELSE "off the call"] :
     n \in {n \in NamesGiven(decl) : n.local = None \/ decl.kind = "export-from"}}
  \cup (IF decl.style \in {"star", "rest", "other"} THEN {[part |-> None, how |-> "all"]} ELSE {})

\* What an occurrence of one of its names takes: the part of that name, or a
\* property of the whole module, or whatever the module is handed to takes of it.
TakenBy(decl, use) ==
  {[part |-> n.original, how |-> use.shape] : n \in {n \in NamesGiven(decl) : n.local = use.local}}
  \cup (IF decl.local # use.local \/ use.shape = "inspect" THEN {}
        ELSE {[part |-> IF use.shape = "member" THEN use.member ELSE None,
               how  |-> IF use.shape = "declaration" THEN "declaration" ELSE "all"]})

\* Through a property of a promise (then, catch), anything is.
ThroughPromise(t) == IF t.part # None THEN [part |-> None, how |-> "promise"] ELSE t

\* All that a file takes of what one of its imports loads.
Takings(file, i) ==
  LET decl == file.decls[i]
      uses == {u \in file.uses : u.shape # "name" /\ i \in Means(file, u)}
      takings == TakenAtOnce(decl) \cup UNION {TakenBy(decl, u) : u \in uses} IN
  IF decl.style = "promise" THEN {ThroughPromise(t) : t \in takings} ELSE takings

\* The imports of the files that were read that load another package: [path, site].
Edges ==
  UNION {{[path |-> path, site |-> i] :
            i \in {i \in ImportsOf(path) \cap SitesOf(tree.files[path]) :
                     LET r == resolution[path][i] IN
                     r.kind \in {"file", "asset"} /\ r.pkg \notin {None, PackageOf(tree, path.at)}}} :
          path \in Scanned}

Recorded(edge) ==
  {importer \in reached[resolution[edge.path][edge.site].pkg].importers :
     importer.file = edge.path /\ importer.site = edge.site}
TakingsOf(edge) == Takings(tree.files[edge.path], edge.site)
Credited(importer, t) == importer.opaque \/ t.part \in importer.referenced
Shown(importer, t) == importer.opaque \/ t.part \in importer.bindings

\* What the scan is known not to count as used, though "any occurrence counts", a
\* re-export too, and "a property-access binding is a reference by construction"
\* (types.d.ts:39-42): what is taken off the call (scan.js:217), re-exported by a list or
\* where it is declared (scan.js:393), or of a promise; and a part whose name is no
\* identifier.
Uncounted(t) ==
  \/ t.how \in {"off the call", "export", "declaration", "promise"}
  \/ t.part = None /\ t.how # "all"

\* A package that is used is credited with it: what a file that was read takes of an
\* import is recorded of the package the import loads, whatever else in the file has
\* that name, as the part it is or as any part at all; and of what is not counted, the
\* part is at least shown.
UseCredited ==
  Collected /\ tree.moduleGraph =>
    \A edge \in Edges : ~Rebound(tree.files[edge.path], edge.site) =>
      \E importer \in Recorded(edge) : \A t \in TakingsOf(edge) :
        /\ Uncounted(t) \/ Credited(importer, t)
        /\ t.part # None => Shown(importer, t)

-------------------------------------------------------------------------------

\* The lockfiles read so far.
LockfilesRead ==
  LET n == Len(tree.lockfiles) - Len(lockfiles) IN
  {tree.lockfiles[i] : i \in {i \in 1..n : tree.lockfiles[i].form # "broken"}}

\* What they say, each entry for itself, of a package.
SightingsOf(key) ==
  UNION {IF l.form = "npm"
         THEN {NpmSighting(l.entries[i]) : i \in {i \in NpmPackages(l) : NpmKey(l.entries[i]) = key}}
         ELSE {ParsePnpm(l, {}).packages[k] : k \in DOMAIN l.packages \cap {key}} : l \in LockfilesRead}

SaidOf(key) ==
  LET roots(section) ==
        {l \in LockfilesRead : l.form = "npm" /\ l.root # None /\ key \in RootKeys(l, section[l])}
      deps == [l \in {l \in LockfilesRead : l.form = "npm" /\ l.root # None} |-> l.root.deps]
      devDeps == [l \in DOMAIN deps |-> l.root.devDeps \ l.root.deps] IN
  {s.dev : s \in SightingsOf(key)}
  \cup (IF roots(deps) # {} THEN {"runtime"} ELSE {})
  \cup (IF roots(devDeps) # {} THEN {"dev"} ELSE {})

\* "Order-independent, and independent of how the sightings are DISTRIBUTED"
\* (lockfile-graph.js:96): after any of the lockfiles, the record of a package is what
\* all of its entries together say. It ships if one says so, is optional if
\* all do, and has a hash only if no two disagree, in one lockfile or two.
MergedFairly ==
  \A key \in DOMAIN found.packages :
    LET record == found.packages[key]
        hashes == {s.integrity : s \in SightingsOf(key)} \ {None} IN
    /\ record.dev = IF "runtime" \in SaidOf(key) THEN "runtime" ELSE IF "dev" \in SaidOf(key) THEN "dev" ELSE None
    /\ record.optional <=> \A s \in SightingsOf(key) : s.optional
    /\ record.integrity = IF Cardinality(hashes) = 1 THEN CHOOSE h \in hashes : TRUE ELSE None
    /\ key \in found.conflicts <=> Cardinality(hashes) > 1
================================================================================
