-------------------------- MODULE MCValidationRun ---------------------------
(* Instances of ValidationRun for TLC: the requests are interchangeable.      *)
EXTENDS ValidationRun, TLC

Symmetry == Permutations(Updates)

=============================================================================
