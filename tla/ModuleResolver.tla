----------------------------- MODULE ModuleResolver -----------------------------
(***************************************************************************)
(* Which installed file an import loads (src/src/facts/resolve.js and      *)
(* specifier.js): relative paths with their extensions tried in order, the *)
(* walk up the node_modules directories, the exports and imports maps of a *)
(* package.json, main and module, and the links a path goes through.       *)
(*                                                                         *)
(* A path is [at, exts]: the names from the root down, the last without    *)
(* its extensions, which are a sequence of their own (x.d.ts has two). The *)
(* name of a directory has none, so its path is the sequence of names.     *)
(*                                                                         *)
(* A tree has                                                              *)
(*   files      what each file holds, by its real path                     *)
(*   links      the real directory of each linked one                      *)
(*   manifests  by real directory, what a package.json that can be parsed  *)
(*              says: [main, module, exports, imports], each None if unset *)
(*   aliases    [dir, names, at] for each base of the paths of a tsconfig: *)
(*              the names it can be the start of (itself, or those of a    *)
(*              scope), and the rest of it                                 *)
(*                                                                         *)
(* A map of exports or imports is a sequence of [prefix, suffix, star,     *)
(* ways]; ways are its targets in order, [when, to] with the conditions    *)
(* that lead to the target, nested conditions and arrays flattened, and    *)
(* None for a target that is null.                                         *)
(*                                                                         *)
(* A specifier is [form, up, name, at, exts, slash]: "relative" (up levels *)
(* first), "bare" (a package's name and a path in it; slash for a slash at *)
(* the end), "imports" (a key with #), "node" (node:...) or "url".         *)
(***************************************************************************)
EXTENDS Naturals, Sequences, FiniteSetsExt, SequencesExt

CONSTANTS None, Builtins

CodeExts == <<"js", "mjs", "cjs", "ts", "tsx", "mts", "cts", "jsx", "svelte">>

TsForJs == [js |-> <<"ts", "tsx">>, mjs |-> <<"mts">>, cjs |-> <<"cts">>, jsx |-> <<"tsx">>]

Unresolved == [kind |-> "unresolved"]

\* a ?? b ?? ...
FirstOf(alternatives) ==
  LET some == {i \in DOMAIN alternatives : alternatives[i] # None} IN
  IF some = {} THEN None ELSE alternatives[Min(some)]

Up(at, n) == SubSeq(at, 1, n)

-------------------------------------------------------------------------------
(* The file system *)

\* realpath. The target of a link is a real directory.
RealPath(tree, at) ==
  LET linked == {p \in DOMAIN tree.links : IsPrefix(p, at)} IN
  IF linked = {} THEN at
  ELSE LET p == CHOOSE p \in linked : \A q \in linked : Len(q) <= Len(p) IN
       tree.links[p] \o SubSeq(at, Len(p) + 1, Len(at))

RealFile(tree, p) == [p EXCEPT !.at = RealPath(tree, p.at)]

\* kindOf
IsFile(tree, p) == RealFile(tree, p) \in DOMAIN tree.files
IsDir(tree, at) ==
  LET real == RealPath(tree, at) IN
  \/ \E p \in DOMAIN tree.files : IsStrictPrefix(real, p.at)
  \/ \E dir \in DOMAIN tree.manifests : IsPrefix(real, dir)

\* readPackageJson
Manifest(tree, at) ==
  LET real == RealPath(tree, at) IN
  IF real \in DOMAIN tree.manifests THEN tree.manifests[real] ELSE None

\* packageRootOf: what follows the last node_modules.
PackageRootOf(at) ==
  LET marks == {i \in DOMAIN at : at[i] = "node_modules"} IN
  IF marks = {} \/ Max(marks) = Len(at) THEN None ELSE Up(at, Max(marks) + 1)

\* packageOf: None for a file of the project, and for one of a package whose
\* package.json is missing or broken.
PackageOf(tree, at) ==
  LET root == PackageRootOf(at) IN
  IF root = None \/ Manifest(tree, root) = None THEN None ELSE root

-------------------------------------------------------------------------------
(* Files and directories *)

TypesOnly(p) ==
  Len(p.exts) >= 2 /\ p.exts[Len(p.exts) - 1] = "d" /\ Last(p.exts) \in {"ts", "mts", "cts"}

FileResolution(tree, p) ==
  IF TypesOnly(p) THEN Unresolved
  ELSE LET real == RealFile(tree, p) IN
       [kind |-> IF p.exts # <<>> /\ Contains(CodeExts, Last(p.exts)) THEN "file" ELSE "asset",
        path |-> real,
        pkg  |-> PackageOf(tree, real.at)]

FirstFile(tree, candidates) ==
  LET found == {i \in DOMAIN candidates : IsFile(tree, candidates[i])} IN
  IF found = {} THEN None ELSE FileResolution(tree, candidates[Min(found)])

LoadAsFile(tree, p) ==
  LET with(e) == [p EXCEPT !.exts = Append(@, e)]
      written == IF p.exts = <<>> \/ Last(p.exts) \notin DOMAIN TsForJs THEN <<>>
                 ELSE LET ts == TsForJs[Last(p.exts)] IN
                      [i \in DOMAIN ts |-> [p EXCEPT !.exts = Append(Front(@), ts[i])]] IN
  FirstFile(tree, <<p>> \o written \o [i \in DOMAIN CodeExts |-> with(CodeExts[i])] \o <<with("json")>>)

LoadAsIndex(tree, p) ==
  IF p.exts # <<>> \/ ~IsDir(tree, p.at) THEN None
  ELSE FirstFile(tree, [i \in DOMAIN CodeExts |-> [at |-> Append(p.at, "index"), exts |-> <<CodeExts[i]>>]])

LoadAsDirectory(tree, p) ==
  IF p.exts # <<>> \/ ~IsDir(tree, p.at) THEN None
  ELSE LET manifest == Manifest(tree, p.at)
           Entry(field) ==
             IF manifest = None \/ manifest[field] = None THEN None
             ELSE LET target == [manifest[field] EXCEPT !.at = p.at \o @] IN
                  FirstOf(<<LoadAsFile(tree, target), LoadAsIndex(tree, target)>>) IN
       FirstOf(<<Entry("main"), Entry("module"), LoadAsIndex(tree, p)>>)

Load(tree, p) == FirstOf(<<LoadAsFile(tree, p), LoadAsDirectory(tree, p), Unresolved>>)

Inside(dir, spec) == [at |-> dir \o spec.at, exts |-> spec.exts]

-------------------------------------------------------------------------------
(* Maps of exports and imports *)

ConditionsFor(mode) == {mode, "module-sync", "node", "default"}

\* bestPatternKey: the longest prefix, then the longest key.
BestPatternKey(map, spec) ==
  LET matching == {i \in DOMAIN map : /\ map[i].star
                                      /\ IsStrictPrefix(map[i].prefix, spec.at)
                                      /\ IsSuffix(map[i].suffix, spec.exts)}
      Better(i, j) == \/ Len(map[i].prefix) > Len(map[j].prefix)
                      \/ Len(map[i].prefix) = Len(map[j].prefix) /\ Len(map[i].suffix) > Len(map[j].suffix) IN
  IF matching = {} THEN None
  ELSE CHOOSE i \in matching : \A j \in matching \ {i} : Better(i, j) \/ (~Better(j, i) /\ i < j)

\* resolveTarget, resolveConditions: the first target whose conditions hold,
\* with what the star stands for put in.
ResolveTarget(key, spec, conditions) ==
  LET open == SelectSeq(key.ways, LAMBDA way : way.when \subseteq conditions) IN
  IF open = <<>> \/ Head(open).to = None THEN None
  ELSE LET to == Head(open).to IN
       IF ~key.star THEN to
       ELSE [to EXCEPT !.at   = @ \o SubSeq(spec.at, Len(key.prefix) + 1, Len(spec.at)),
                       !.exts = SubSeq(spec.exts, 1, Len(spec.exts) - Len(key.suffix)) \o @]

\* resolveExports: the exact key, else the best pattern.
ResolveExports(map, spec, mode) ==
  LET exact == {i \in DOMAIN map : ~map[i].star /\ map[i].prefix = spec.at /\ map[i].suffix = spec.exts}
      key == IF exact # {} THEN Min(exact) ELSE BestPatternKey(map, spec) IN
  IF key = None THEN None ELSE ResolveTarget(map[key], spec, ConditionsFor(mode))

-------------------------------------------------------------------------------
(* Specifiers *)

\* resolvePackage, resolveThroughExports
ResolvePackage(tree, root, spec, mode) ==
  LET manifest == Manifest(tree, root) IN
  IF manifest # None /\ manifest.exports # None
  THEN LET target == ResolveExports(manifest.exports, spec, mode) IN
       IF target = None \/ target.form # "relative" \/ target.up > 0 THEN Unresolved
       ELSE Load(tree, Inside(root, target))
  ELSE IF spec.at # <<>> THEN Load(tree, Inside(root, spec))
  ELSE FirstOf(<<LoadAsDirectory(tree, [at |-> root, exts |-> <<>>]), Unresolved>>)

\* resolveBare: the nearest node_modules at or above the file that has it.
ResolveBare(tree, from, spec, mode) ==
  LET dir == Front(from.at)
      Candidate(n) == Up(dir, n) \o <<"node_modules", spec.name>>
      levels == {n \in 0..Len(dir) : (n = 0 \/ dir[n] # "node_modules") /\ IsDir(tree, Candidate(n))} IN
  IF levels = {} THEN Unresolved ELSE ResolvePackage(tree, Candidate(Max(levels)), spec, mode)

\* AliasScope: a base, of a configuration at or above the file's directory, that the
\* specifier is, or is a path into.
IsAlias(tree, from, spec) ==
  \E a \in tree.aliases :
    /\ IsPrefix(a.dir, Front(from.at))
    /\ spec.name \in a.names
    /\ IsStrictPrefix(a.at, spec.at) \/ (a.at = spec.at /\ spec.exts = <<>>)

\* The part of resolve for names: a builtin, whatever follows its name, comes first.
ResolveName(tree, from, spec, mode) ==
  IF spec.name \in Builtins THEN [kind |-> "builtin"]
  ELSE IF IsAlias(tree, from, spec) THEN [kind |-> "alias"]
  ELSE ResolveBare(tree, from, spec, mode)

\* resolve, but for keys with #: what is left is bare.
ResolvePlain(tree, from, spec, mode) ==
  CASE spec.form = "node"     -> [kind |-> "builtin"]
    [] spec.form = "url"      -> Unresolved
    [] spec.form = "relative" -> Load(tree, Inside(Up(from.at, Len(from.at) - 1 - spec.up), spec))
    [] OTHER                  -> ResolveName(tree, from, spec, mode)

\* resolveImportsField: the nearest package.json that has the field. A target in its
\* directory is looked for there, any other as if the file had asked for it.
ResolveImportsField(tree, from, spec, mode) ==
  LET dir == Front(from.at)
      levels == {n \in 0..Len(dir) : Manifest(tree, Up(dir, n)) # None
                                     /\ Manifest(tree, Up(dir, n)).imports # None} IN
  IF levels = {} THEN Unresolved
  ELSE LET at == Up(dir, Max(levels))
           target == ResolveExports(Manifest(tree, at).imports, spec, mode) IN
       IF target = None THEN Unresolved
       ELSE IF target.form = "relative" /\ target.up = 0 THEN Load(tree, Inside(at, target))
       ELSE ResolvePlain(tree, from, target, mode)

Resolve(tree, from, spec, mode) ==
  IF spec.form = "imports" THEN ResolveImportsField(tree, from, spec, mode)
  ELSE ResolvePlain(tree, from, spec, mode)

\* modeFor
ModeFor(kind) == IF kind = "require" THEN "require" ELSE "import"

\* bareNameOf
BareNameOf(spec) == IF spec.form = "bare" THEN spec.name ELSE None

\* specifierToPackage
SpecifierToPackage(tree, from, spec) ==
  IF spec.form # "bare" \/ spec.name \in Builtins \/ IsAlias(tree, from, spec) THEN None ELSE spec.name
===============================================================================
