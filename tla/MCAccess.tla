------------------------------- MODULE MCAccess -------------------------------
(* Small instances of Access. *)
EXTENDS Access, TLC

Symmetry == Permutations(Request) \cup Permutations(User)
=============================================================================
