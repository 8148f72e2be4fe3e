-------------------------- MODULE MCConfiguration --------------------------
(* Configuration with two clusters. *)
EXTENDS Configuration, TLC

CONSTANTS c1, c2, s1, s2

\* Unbound, on one cluster, on both, and with the second one active.
MCChoices ==
    {[refs |-> <<>>, active |-> None, all |-> FALSE]} \cup
    {[refs |-> <<c>>, active |-> None, all |-> FALSE] : c \in {c1, c2}} \cup
    {[refs |-> r, active |-> None, all |-> TRUE] : r \in {<<c1, c2>>, <<c2, c1>>}} \cup
    {[refs |-> r, active |-> r[2], all |-> FALSE] : r \in {<<c1, c2>>, <<c2, c1>>}}

\* As the environment, or all of its clusters, or one of them.
MCSelections == {{}, {"*"}, {c1}, {c2}}

Symmetry == Permutations({c1, c2}) \cup Permutations({s1, s2})
=============================================================================
