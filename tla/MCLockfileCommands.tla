-------------------------- MODULE MCLockfileCommands ---------------------------
(* Instance of LockfileCommands for TLC: a project with a dependency a, its   *)
(* dependency b at the top or nested with another version, and a workspace w. *)
EXTENDS LockfileCommands, TLC

Registry(version, hash, deps) ==
  [version |-> version, integrity |-> hash, resolved |-> "registry",
   inBundle |-> FALSE, link |-> None, deps |-> deps, dev |-> {}]
Bundled(version) == [Registry(version, None, {}) EXCEPT !.resolved = None, !.inBundle = TRUE]
From(kind) == [Registry("1.0.0", None, {}) EXCEPT !.resolved = kind]

Source == [dir |-> "packages/w", path |-> <<>>]
Workspace == (At(<<"w">>) :> [From("path") EXCEPT !.version = Missing, !.link = Source])
             @@ (Source :> [From(None) EXCEPT !.deps = {"b"}])

Project(hash, b, nested, around) ==
  [packages |-> (At(<<"a">>) :> Registry("1.0.0", hash, {"b"})) @@ (At(<<"b">>) :> b)
                @@ (IF nested = None THEN <<>> ELSE At(<<"a", "b">>) :> nested) @@ around,
   direct |-> IF around = <<>>
              THEN [a |-> "caret", b |-> IF b.resolved = "registry" THEN "tilde" ELSE Other]
              ELSE [a |-> "caret", w |-> Other],
   override |-> [name |-> "b", range |-> "tilde"]]

MCProjects ==
  {Project(None, Registry("1.0.0", Sha1, {}), nested, around) :
     nested \in {None, Registry("2.0.0", None, {}), Bundled("2.0.0")}, around \in {<<>>, Workspace}}
  \cup {Project(Sha1, From(kind), None, around) :
           kind \in {"git", "tarball-file", "directory"}, around \in {<<>>, Workspace}}

===============================================================================
