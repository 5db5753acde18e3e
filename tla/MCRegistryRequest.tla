--------------------------- MODULE MCRegistryRequest ---------------------------
(* Instance of RegistryRequest for TLC. *)
EXTENDS RegistryRequest

MCPaths == {<<>>, <<"p">>}
Layer(host, path, field, value) == <<[dart |-> [host |-> host, path |-> path], field |-> field, value |-> value]>>

\* A user layer, and a project layer that overrides it, narrows it or completes it.
MCNpmrcs == {
  <<Layer("h", <<>>, "_authtoken", "x"), Layer("h", <<"p">>, "_authtoken", None)>>,
  <<Layer("h", <<"p">>, "_authtoken", "x"), Layer("h", <<"p">>, "_authtoken", None)>>,
  <<Layer("h", <<>>, "username", "x"), Layer("h", <<>>, "_password", "y")>>,
  <<Layer("h", <<"p">>, "username", "x"), Layer("h", <<>>, "_password", "y")>>,
  <<Layer("h", <<"p">>, "_auth", "x"), Layer("o", <<>>, "_authtoken", "y")>>}
===============================================================================
