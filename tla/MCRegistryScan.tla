---------------------------- MODULE MCRegistryScan ----------------------------
(* Instance of RegistryScan for TLC. *)
EXTENDS RegistryScan, TLC

\* In the integrity scan every entry is a unit of its own, so two will do; the
\* other two group entries, and need a third beside a group.
MCSizes == [integrity |-> 2, deprecation |-> 3, advisories |-> 3]

\* No definition tells one name, version or hash from another.
DataSymmetry == Permutations(Names) \cup Permutations(Versions) \cup Permutations(Hashes)
===============================================================================
