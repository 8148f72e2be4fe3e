--------------------------- MODULE MCGitPublisher ---------------------------
(* Instances of GitPublisher for TLC.                                        *)
EXTENDS GitPublisher, TLC

CONSTANTS f1, f2, v1, v2, x1

\* Kargo has promoted a tag to the one file that holds one.
MCFirst == (f1 :> [version |-> v1, tag |-> x1]) @@ (f2 :> [version |-> v1, tag |-> Seed])

\* The whole app is published, or removed, or one environment of it is published.
MCJobs == {[f \in Files |-> v2], [f \in {f1} |-> Absent]}

Symmetry == Permutations(Tasks) \cup Permutations(Replicas)

=============================================================================
