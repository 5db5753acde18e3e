------------------------------- MODULE MCPruner --------------------------------
(* Instance of Pruner for TLC: two names and a workspace that may be linked. *)
EXTENDS Pruner, FiniteSetsExt, TLC

At(dir, path) == [dir |-> dir, path |-> path]
Holds(deps, dev, link) == [deps |-> deps, dev |-> dev, link |-> link]

Workspace == At("w", <<>>)
Deps(names) == {Holds(d, {}, None) : d \in SUBSET names}

\* What each key may hold; all but the project may also be absent.
MayHold ==
  Workspace :> {Holds({"a"}, {}, None), Holds({"a"}, {"b"}, None), Holds({"b"}, {}, None)}
  @@ At("top", <<"a">>) :> {Holds(d, e, None) : d \in SUBSET {"b", "w"}, e \in {{}, {"b"}}}
  @@ At("top", <<"b">>) :> Deps({"a"})
  @@ At("top", <<"a", "b">>) :> Deps({"a"})
  @@ At("w", <<"a">>) :> {Holds({"b"}, {}, None)}
  @@ At("top", <<"w">>) :> {Holds({}, {}, Workspace)}

Projects == {At("top", <<>>) :> Holds(d, {"b"}, None) : d \in SUBSET {"a", "w"}}
            \cup {At("top", <<>>) :> Holds({"a"}, {}, None)}

MCLockfiles ==
  LET with(k, maps) == maps \cup {m @@ (k :> e) : m \in maps, e \in MayHold[k]}
  IN {<<>>} \cup FoldSet(with, Projects, DOMAIN MayHold)
===============================================================================
