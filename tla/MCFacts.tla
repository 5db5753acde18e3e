-------------------------------- MODULE MCFacts ---------------------------------
(* Trees for Facts. *)
EXTENDS Facts

In(dir, base, ext) == [at |-> Append(dir, base), exts |-> <<ext>>]
Installed(name) == <<"node_modules", name>>

Bare(name) == [form |-> "bare", up |-> 0, name |-> name, at |-> <<>>, exts |-> <<>>, slash |-> FALSE]
Into(name, at) == [Bare(name) EXCEPT !.at = at]
Relative(up, at, exts) == [Bare(None) EXCEPT !.form = "relative", !.up = up, !.at = at, !.exts = exts]
Hash(at) == [Bare(None) EXCEPT !.form = "imports", !.at = at]

Alone(kind, spec) == [kind |-> kind, style |-> "plain", local |-> None, names |-> <<>>, block |-> "top", spec |-> spec]
Whole(kind, local, block, spec) == [Alone(kind, spec) EXCEPT !.local = local, !.block = block]
Named(kind, original, local, block, spec) ==
  [Alone(kind, spec) EXCEPT !.names = <<[original |-> original, local |-> local]>>, !.block = block]
Use(local, block, shape, member) == [local |-> local, block |-> block, shape |-> shape, member |-> member]

File(decls) == [decls |-> decls, uses |-> {}, dynamic |-> FALSE, markup |-> None, reads |-> {"ok"}]

Says == [main |-> None, module |-> None, exports |-> None, imports |-> None]
Key(prefix, suffix, star, ways) == [prefix |-> prefix, suffix |-> suffix, star |-> star, ways |-> ways]
Way(when, to) == [when |-> when, to |-> to]

\* With the files given, and without lockfiles.
Tree(contents, manifests, sources) ==
  [files |-> contents, manifests |-> manifests, links |-> <<>>, aliases |-> {}, sources |-> sources,
   lockfiles |-> <<>>, maxFiles |-> 99, moduleGraph |-> TRUE]

-------------------------------------------------------------------------------
(* A project with every kind of import *)

Main == In(<<"src">>, "main", "ts")
AEsm == In(Installed("a") \o <<"esm">>, "index", "mjs")
ALib == In(Installed("a") \o <<"lib">>, "index", "js")
AHelper == In(Installed("a") \o <<"esm">>, "helper", "ts")
NestedB == In(Installed("a") \o Installed("b"), "index", "js")
BIndex == In(Installed("b") \o <<"lib">>, "index", "js")
BUtil == In(Installed("b") \o <<"lib">>, "util", "js")
Store == <<"node_modules", ".pnpm", "c1">>
CIndex == In(Store \o Installed("c"), "index", "js")
DIndex == In(Store \o Installed("d"), "index", "cjs")

WholeFiles ==
  (Main :> [File(<<Named("import", "x", "x", "top", Bare("a")),
                   Named("require", "y", "x", "f", Into("b", <<"lib", "util">>)),
                   Named("require", "z", "x", "g", Into("a", <<"features", "log">>)),
                   Whole("require", "b", "top", Bare("b")),
                   Alone("import", Relative(0, <<"style">>, <<"css">>)),
                   Alone("import", Relative(0, <<"gone">>, <<"js">>)),
                   Alone("require", Bare("fs")),
                   Alone("import", Bare("@app")),
                   Alone("type-only-import", Bare("types")),
                   Alone("import", Bare("gone")),
                   [Alone("export-from", Bare("c")) EXCEPT !.style = "star"],
                   [Named("require", "p", "q", "h", Bare("d")) EXCEPT !.style = "rest"],
                   Named("export-from", "default", None, "top", Bare("a")),
                   Alone("require", Into("b", <<"lib", "deep", "more">>)),
                   Alone("dynamic-import", Hash(<<"store">>)),
                   Alone("import", Hash(<<"up">>)),
                   Alone("import", Hash(<<"fs">>))>>)
            EXCEPT !.uses = {Use("x", "top", "value", None), Use("x", "f", "member", "z"), Use("x", "g", "value", None),
                             Use("b", "top", "member", "run"), Use("b", "f", "inspect", None)},
                   !.dynamic = TRUE])
  @@ (In(<<"src">>, "style", "css") :> File(<<>>))
  @@ (AEsm :> File(<<Alone("import", Relative(0, <<"helper">>, <<"js">>)), Alone("import", Bare("b")),
                     Alone("import", Relative(1, <<"gone">>, <<>>))>>))
  @@ (AHelper :> [File(<<Whole("import", "c", "top", Bare("c")), Alone("import", Bare("gone"))>>)
                  EXCEPT !.uses = {Use("c", "top", "value", None)}])
  @@ (ALib :> File(<<Alone("require", Relative(0, <<"data">>, <<"json">>))>>))
  @@ (In(Installed("a") \o <<"lib">>, "data", "json") :> File(<<>>))
  @@ (NestedB :> [File(<<>>) EXCEPT !.dynamic = TRUE])
  @@ (BIndex :> File(<<Alone("require", Bare("a")), Alone("require", Relative(0, <<"util">>, <<>>))>>))
  @@ (BUtil :> File(<<Alone("require", Into("c", <<"package">>))>>))
  @@ (CIndex :> File(<<Alone("require", Bare("d"))>>))
  @@ (DIndex :> File(<<Alone("require", Bare("b"))>>))

WholeManifests ==
  (<<>> :> [Says EXCEPT !.imports = <<Key(<<"store">>, <<>>, FALSE, <<Way({}, Bare("c"))>>),
                                      Key(<<"up">>, <<>>, FALSE, <<Way({}, Relative(1, <<"gone">>, <<"js">>))>>),
                                      Key(<<"fs">>, <<>>, FALSE, <<Way({}, [Bare(None) EXCEPT !.form = "node"])>>)>>])
  @@ (Installed("a") :>
        [Says EXCEPT !.exports =
           <<Key(<<>>, <<>>, FALSE, <<Way({"import"}, Relative(0, <<"esm", "index">>, <<"mjs">>)),
                                      Way({"default"}, Relative(0, <<"lib", "index">>, <<"js">>))>>),
             Key(<<"features">>, <<>>, TRUE, <<Way({"browser"}, Relative(0, <<"web">>, <<"js">>)),
                                               Way({"node"}, Relative(0, <<"esm">>, <<>>))>>)>>])
  @@ (Installed("a") \o Installed("b") :> Says)
  @@ (Installed("b") :> [Says EXCEPT !.main = [at |-> <<"lib">>, exts |-> <<>>]])
  @@ (Store \o Installed("c") :> Says)
  @@ (Store \o Installed("d") :> [Says EXCEPT !.module = [at |-> <<"index">>, exts |-> <<"cjs">>]])

WholeTree ==
  [Tree(WholeFiles, WholeManifests, <<Main>>) EXCEPT
     !.links = Installed("c") :> Store \o Installed("c"),
     !.aliases = {[dir |-> <<"src">>, names |-> {"@app"}, at |-> <<>>],
                  [dir |-> <<"src">>, names |-> {"b"}, at |-> <<"lib", "deep">>],
                  [dir |-> <<"test">>, names |-> {"a"}, at |-> <<>>]}]

\* Any budget, any two files that may not be readable, or too large.
Budgets == 0..9
WholeTrees ==
  {[WholeTree EXCEPT !.maxFiles = n] : n \in Budgets}
  \cup {[WholeTree EXCEPT !.files[p].reads = {"ok", "unreadable"}, !.files[q].reads = {"large"}] :
          p \in DOMAIN WholeFiles, q \in DOMAIN WholeFiles \ {Main}}
  \cup {[WholeTree EXCEPT !.moduleGraph = FALSE]}

-------------------------------------------------------------------------------
(* One import in a .svelte file, anywhere among any Others tokens *)

Others == 3
Token(is, decl) == [is |-> is, decl |-> decl]
Kinds == {"open", "close", "self-closing", "comment", "comment-in-text", "-->"}
View == In(<<"src">>, "view", "svelte")
TinyPackage == (Installed("a") :> Says)
TinyFile == In(Installed("a"), "index", "js") :> File(<<>>)

MarkupTree(markup) ==
  LET view == [File(<<Alone("import", Bare("a"))>>) EXCEPT !.markup = markup] IN
  Tree((View :> view) @@ TinyFile, TinyPackage, <<View>>)

\* With the tag and its end, or without.
Scripts == {<<Token("open", 0), Token("code", 1), Token("close", 0)>>, <<Token("code", 1)>>}
Markups ==
  {SubSeq(others, 1, at) \o script \o SubSeq(others, at + 1, Others) :
     others \in [1..Others -> {Token(kind, 0) : kind \in Kinds}], at \in 0..Others, script \in Scripts}
MarkupTrees == {MarkupTree(m) : m \in Markups}

-------------------------------------------------------------------------------
(* Lockfiles that name one package up to three times *)

Entry(path, sighting) ==
  [dir |-> None, path |-> path, version |-> "1", link |-> FALSE, deps |-> {},
   dev |-> sighting.dev, extraneous |-> sighting.extraneous, optional |-> sighting.optional,
   integrity |-> sighting.integrity]
Seen(dev, extraneous, optional, hash) ==
  [dev |-> dev, extraneous |-> extraneous, optional |-> optional, integrity |-> hash]

Hashes == {None, "h1", "h2"}
Hashed == {Seen(FALSE, FALSE, FALSE, h) : h \in Hashes}
Flagged == {Seen(dev, extraneous, optional, None) : dev, extraneous, optional \in BOOLEAN}
Other == [Entry(<<"b">>, Seen(TRUE, FALSE, FALSE, None)) EXCEPT !.deps = {"a"}]
NpmLock(entries, deps, devDeps) ==
  [form |-> "npm", entries |-> entries, root |-> [deps |-> deps, devDeps |-> devDeps]]

One(seen) == NpmLock(<<Other, Entry(<<"a">>, seen)>>, {"b"}, {})
Two(hoisted, nested) == NpmLock(<<Entry(<<"a">>, hoisted), Other, Entry(<<"b", "a">>, nested)>>, {}, {"b"})
PnpmLock(hash, deps, devDeps) ==
  [form |-> "pnpm", packages |-> <<"a", "1">> :> hash, snapshots |-> {[key |-> <<"a", "1">>, deps |-> {<<"b", "1">>}]},
   importers |-> <<[deps |-> deps, devDeps |-> {}], [deps |-> {}, devDeps |-> devDeps]>>]

HashNpm == {One(s) : s \in Hashed} \cup {Two(s, t) : s, t \in Hashed}
HashPnpm == {PnpmLock(h, {}, {}) : h \in Hashes}
FlagNpm ==
  {One(s) : s \in Flagged} \cup {Two(s, t) : s, t \in Flagged}
  \cup {[One(s) EXCEPT !.root.devDeps = {"a"}] : s \in Flagged}
  \cup {[One(s) EXCEPT !.root.deps = {"a"}, !.root.devDeps = {"a"}] : s \in Flagged}
FlagPnpm == {PnpmLock(None, deps, devDeps) : deps, devDeps \in SUBSET {<<"a", "1">>}}

Broken == [form |-> "broken"]
\* A workspace has an installation of its own, a link, and an entry without a version.
Workspace ==
  NpmLock(<<Entry(<<"a">>, Seen(FALSE, FALSE, TRUE, "h1")),
            [Entry(<<"a">>, Seen(FALSE, FALSE, FALSE, "h2")) EXCEPT !.dir = "web", !.version = "2"],
            [Entry(<<"b">>, Seen(TRUE, FALSE, FALSE, None)) EXCEPT !.dir = "web", !.deps = {"a"}],
            [Entry(<<"web">>, Seen(FALSE, FALSE, FALSE, None)) EXCEPT !.link = TRUE],
            [Entry(<<"c">>, Seen(FALSE, FALSE, FALSE, None)) EXCEPT !.version = None]>>, {"a", "c"}, {"web"})

Locks ==
  {<<l>> : l \in FlagNpm \cup FlagPnpm \cup {Broken, Workspace}}
  \cup {<<l, m>> : l \in FlagNpm \cup {Broken, Workspace}, m \in FlagPnpm \cup {Two(s, s) : s \in Flagged} \cup {One(s) : s \in Flagged}}
  \cup {<<l, m, n>> : l, m \in HashNpm, n \in HashNpm \cup HashPnpm \cup {Broken}}

LockTrees == {[Tree(TinyFile, TinyPackage, <<>>) EXCEPT !.lockfiles = ls] : ls \in Locks}

-------------------------------------------------------------------------------
(* What is left out without a word *)

Outside == In(Installed("b"), "index", "js")

\* A package without a package.json that loads another; one with the name of a
\* builtin, asked for with a slash at the end; a comment in a package's .svelte file.
HiddenTrees ==
  {Tree((Main :> File(<<Alone("import", Bare("a"))>>))
        @@ (In(Installed("a"), "index", "js") :> File(<<Alone("require", Bare("b"))>>)) @@ (Outside :> File(<<>>)),
        Installed("b") :> Says, <<Main>>),
   Tree((Main :> File(<<Alone("require", [Bare("events") EXCEPT !.slash = TRUE])>>))
        @@ (In(Installed("events"), "index", "js") :> File(<<>>)), Installed("events") :> Says, <<Main>>),
   Tree((Main :> File(<<Alone("import", Bare("a"))>>))
        @@ (In(Installed("a"), "index", "svelte") :>
              [File(<<Alone("import", Bare("b"))>>) EXCEPT
                 !.markup = <<Token("comment-in-text", 0), Token("open", 0), Token("code", 1), Token("close", 0),
                              Token("comment", 0), Token("-->", 0)>>])
        @@ (Outside :> File(<<>>)), (Installed("a") :> Says) @@ (Installed("b") :> Says), <<Main>>)}

-------------------------------------------------------------------------------
(* One import, and what may be made of it *)

Part(kind, original, local) == Named(kind, original, local, "top", Bare("a"))
Module(kind, local) == Whole(kind, local, "top", Bare("a"))
Promised(decl) == [decl EXCEPT !.style = "promise"]

Imports ==
  {Module("import", "x"), Module("require", "x"), Module("dynamic-import", "x"),
   Part("import", "p", "x"), Part("require", "p", "x"), Part("dynamic-import", "p", "x"),
   Part("require", "p", None), Part("import", None, "x"), Part("require", None, "x"),
   Promised(Module("dynamic-import", "x")), Promised(Part("dynamic-import", "then", None)),
   Promised(Part("dynamic-import", "then", "x")),
   Part("export-from", "p", None), Part("export-from", None, None),
   [Part("require", "p", "x") EXCEPT !.style = "rest"], [Alone("require", Bare("a")) EXCEPT !.style = "other"],
   [Alone("export-from", Bare("a")) EXCEPT !.style = "star"]}
UsesOfX ==
  {{}} \cup {{Use("x", "top", shape, None)} : shape \in {"inspect", "value", "export", "name", "declaration"}}
  \cup {{Use("x", "f", "member", "q"), use} :
           use \in {Use("x", "top", "inspect", None), Use("x", "top", "export", None), Use("x", "f", "member", "r")}}

UseTree(decl, uses) ==
  Tree((Main :> [File(<<decl>>) EXCEPT !.uses = uses]) @@ TinyFile, TinyPackage, <<Main>>)
UseTrees == {UseTree(decl, uses) : decl \in Imports, uses \in UsesOfX}

MCTrees == UseTrees \cup WholeTrees \cup MarkupTrees \cup LockTrees \cup HiddenTrees
=================================================================================
