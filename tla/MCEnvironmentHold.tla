-------------------------- MODULE MCEnvironmentHold ---------------------------
(* Instances of EnvironmentHold for TLC.  Requests are interchangeable.        *)
EXTENDS EnvironmentHold, TLC

Symmetry == Permutations(Requests)

=============================================================================
