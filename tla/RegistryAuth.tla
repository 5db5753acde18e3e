----------------------------- MODULE RegistryAuth -----------------------------
(***************************************************************************)
(* src/src/registry-auth.js: which Authorization header a URL gets, from   *)
(* the layers of .npmrc files, lowest precedence first.                    *)
(*                                                                         *)
(* A nerf dart is a host and a path; keys are compared in lower case, so   *)
(* case is left out.  A layer is the sequence of its scoped credential     *)
(* entries [dart, field, value]; the value is None when a variable it      *)
(* refers to is unset or empty (expandEnvRefs).                            *)
(***************************************************************************)
EXTENDS Integers, Sequences

CONSTANTS None

Fields == {"_authtoken", "_auth", "username", "_password"}

\* The entries for a field of a dart, by layer and place in it, that no other one
\* comes after: there is one if there is any.
Deciding(layers, dart, field) ==
  LET set == UNION {{<<i, j>> : j \in {j \in DOMAIN layers[i] : /\ layers[i][j].dart = dart
                                                                /\ layers[i][j].field = field}} :
                      i \in DOMAIN layers}
  IN {p \in set : \A q \in set : q[1] < p[1] \/ (q[1] = p[1] /\ q[2] <= p[2])}

\* The fields of one dart after all the entries, in order: a later one overrides
\* an earlier one, and one that could not be expanded removes it.
FieldsOf(layers, dart) ==
  [f \in Fields |-> LET last == Deciding(layers, dart, f) IN
     IF last = {} THEN None ELSE LET p == CHOOSE p \in last : TRUE IN layers[p[1]][p[2]].value]

\* headerFor: the header, or <<>> for none.
HeaderFor(fields) ==
  CASE fields["_authtoken"] # None -> <<"Bearer", fields["_authtoken"]>>
    [] fields["_authtoken"] = None /\ fields["_auth"] # None -> <<"Basic", fields["_auth"]>>
    [] /\ fields["_authtoken"] = None /\ fields["_auth"] = None
       /\ fields["username"] # None /\ fields["_password"] # None
         -> <<"Basic", fields["username"], fields["_password"]>>
    [] OTHER -> <<>>

\* The darts that authFor looks up for a URL: every prefix of its path.
Dart(url, n) == [host |-> url.host, path |-> SubSeq(url.path, 1, n)]

\* authFor: nothing on a plaintext connection, else the header of the longest
\* prefix that has one.
AuthFor(layers, url) ==
  LET header == [n \in 0..Len(url.path) |-> HeaderFor(FieldsOf(layers, Dart(url, n)))]
      some == {n \in DOMAIN header : header[n] # <<>>}
  IN IF ~url.secure \/ some = {} THEN <<>>
     ELSE header[CHOOSE n \in some : \A m \in some : m <= n]
===============================================================================
