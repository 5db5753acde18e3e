------------------------------- MODULE ImportScan -------------------------------
(***************************************************************************)
(* The scan of one source file (src/src/facts/scan.js): its import sites,  *)
(* which of the names they bind the file refers to, and for a .svelte file *)
(* which text is taken for script at all.                                  *)
(*                                                                         *)
(* A file has                                                              *)
(*   decls   a sequence of import sites, in the order of the text:         *)
(*             kind    "import", "type-only-import", "export-from",        *)
(*                     "require" or "dynamic-import"                       *)
(*             local   the name given to all of the module, or None        *)
(*             names   those given to parts of it: [original, local],     *)
(*                     original is None for a key that is no identifier,   *)
(*                     local where the part has no name of its own (it is  *)
(*                     taken directly off the call, require("p").part, or  *)
(*                     destructured further)                               *)
(*             style   "star" (all is exported), "rest" (names and the     *)
(*                     rest), "other" (another use of a call), "promise"   *)
(*                     (an import() that is not awaited: what is named is  *)
(*                     the promise, or parts of it), or "plain"            *)
(*             block   the block it is declared in                         *)
(*             spec    what it imports                                     *)
(*   uses    occurrences of identifiers: [local, block, shape, member],    *)
(*           shape "member", "inspect" (typeof, a comparison...), "value"  *)
(*           (anything else that is evaluated), "export" (in an export     *)
(*           list), "name" (a property or a type of that name), or         *)
(*           "declaration" (the declaration itself is exported: nothing    *)
(*           else of that name occurs)                                     *)
(*   dynamic TRUE if it has an import of something that is not a literal   *)
(*   markup  None, or of a .svelte file its tokens: [is, decl], where is   *)
(*           is "open", "close" or "self-closing" of a script tag,         *)
(*           "comment", "comment-in-text" (the same signs in a string of   *)
(*           the markup), "-->", or "code", the import site of that index  *)
(***************************************************************************)
EXTENDS Naturals, Sequences, FiniteSets, FiniteSetsExt

CONSTANT None

-------------------------------------------------------------------------------
(* Script in a .svelte file *)

NextToken(markup, kind, from) ==
  LET at == {i \in (from + 1)..Len(markup) : markup[i].is = kind} IN
  IF at = {} THEN 0 ELSE Min(at)

\* Mutant: a comment around another one is trusted.
ConsumedAny(markup, from, to) == from..to

\* The span of a comment counts as accounted for unless another one opens in it.
Consumed(markup, from, to) ==
  IF \E i \in (from + 1)..(to - 1) : markup[i].is \in {"comment", "comment-in-text"} THEN {} ELSE from..to

\* One pass over the tokens, given those that open a comment: copied is what is left for
\* the parser, accounted what it knows to be script, comment or self-closing tag.
ScriptPass(markup, comments) ==
  LET end == Len(markup) + 1
      with(rest, copied, accounted) ==
        [copied |-> rest.copied \cup copied, accounted |-> rest.accounted \cup accounted]
      pass[at \in 1..end] ==
        IF at = end THEN [copied |-> {}, accounted |-> {}] ELSE
        LET is == markup[at].is
            dashes == NextToken(markup, "-->", at)
            close == NextToken(markup, "close", at) IN
        CASE is \in comments /\ dashes = 0   -> pass[end]
          [] is \in comments /\ dashes > 0   -> with(pass[dashes + 1], {}, Consumed(markup, at, dashes))
          [] is = "self-closing"               -> with(pass[at + 1], {}, {at})
          [] is = "open" /\ close = 0          -> pass[at + 1]
          [] is = "open" /\ close > 0          -> with(pass[close + 1], (at + 1)..(close - 1), at..close)
          [] OTHER                             -> pass[at + 1] IN
  pass[1]

\* extractSvelteScript. "<!--" in text or in an attribute is taken for a comment
\* as well.
ExtractSvelteScript(markup) == ScriptPass(markup, {"comment", "comment-in-text"})

\* findLostScriptWarnings: tags outside every span accounted for.
LostScripts(markup) ==
  {i \in DOMAIN markup : markup[i].is \in {"open", "self-closing", "close"}} \ ExtractSvelteScript(markup).accounted

-------------------------------------------------------------------------------
(* The two passes over the syntax tree *)

\* The sites the parser gets to see.
SitesOf(file) ==
  {i \in DOMAIN file.decls :
     file.markup = None \/ \E t \in ExtractSvelteScript(file.markup).copied : file.markup[t].decl = i}

\* Whether something is reported of the file: of a .svelte file it is if script may
\* be lost; if not, it is up to the text that was taken for script, a tag in it
\* included, whether that is a syntax error.
ParseErrors(file) ==
  IF file.markup = None THEN {FALSE}
  ELSE IF LostScripts(file.markup) # {} THEN {TRUE} ELSE BOOLEAN

\* trackedIdentifiers: one site for each name, the last one that is given it.
Tracked(file, local) ==
  LET sites == {i \in SitesOf(file) : file.decls[i].local = local /\ file.decls[i].kind # "type-only-import"} IN
  IF sites = {} THEN {} ELSE {Max(sites)}

\* originalName: a key that is no identifier is passed over.
NamesOf(decl) == {decl.names[n] : n \in {n \in DOMAIN decl.names : decl.names[n].original # None}}

\* Mutant: a name, too, keeps only the last site that binds it.
BoundByLast(file, local) ==
  LET sites == {i \in SitesOf(file) : \E n \in NamesOf(file.decls[i]) : n.local = local} IN
  UNION {{[site |-> i, original |-> n.original] : n \in {n \in NamesOf(file.decls[i]) : n.local = local}} :
           i \in {i \in sites : i = Max(sites)}}

\* namedLocals: every site that binds the name, with what it is a name for.
BoundBy(file, local) ==
  UNION {{[site |-> i, original |-> n.original] : n \in {n \in NamesOf(file.decls[i]) : n.local = local}} :
           i \in {i \in SitesOf(file) : file.decls[i].kind \notin {"export-from", "type-only-import"}}}

\* isValueReference
ValueReference(use) == use.shape \notin {"name", "export", "declaration"}

\* classifyUse, isSafeNonEscapingUse
Escapes(use) == use.shape \in {"value", "export", "name"}

\* Properties of the whole module.
MembersUsed(file, i) ==
  {u.member : u \in {u \in file.uses : u.shape = "member" /\ i \in Tracked(file, u.local)}}

\* What is seen of the site: names, whether they are referred to or not, and properties.
Bindings(file, i) ==
  (IF file.decls[i].kind = "type-only-import" THEN {} ELSE {n.original : n \in NamesOf(file.decls[i])})
  \cup MembersUsed(file, i)

\* What the site is known to use: names handed on, properties of the whole
\* module, and names that are bound and referred to.
Referenced(file, i) ==
  (IF file.decls[i].kind = "export-from" THEN {n.original : n \in NamesOf(file.decls[i])} ELSE {})
  \cup MembersUsed(file, i)
  \cup UNION {{b.original : b \in {b \in BoundBy(file, u.local) : b.site = i}} :
                u \in {u \in file.uses : ValueReference(u)}}

\* The site may use anything.
Opaque(file, i) ==
  \/ file.decls[i].style \in {"rest", "star", "other"} /\ file.decls[i].kind # "type-only-import"
  \/ \E u \in file.uses : Escapes(u) /\ i \in Tracked(file, u.local)
================================================================================
