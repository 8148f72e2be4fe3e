------------------------- MODULE MCValidationLease --------------------------
(* Instances of ValidationLease for TLC.  Only the order of the tokens' use   *)
(* matters, so the workers are interchangeable.                             *)
EXTENDS ValidationLease, TLC

Symmetry == Permutations(Workers)

=============================================================================
