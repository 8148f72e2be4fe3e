--------------------------- MODULE ExclusiveLease ---------------------------
(***************************************************************************)
(* What the lease of a validation Stage promises: "Every lifecycle action  *)
(* (including settings transitions) uses a Stage CAS lease ... expired     *)
(* owners cannot save progress" (internal/kube/ephemeral_validation.go).   *)
(* One owner at a time works from the run that is saved, and only the last *)
(* owner to take the lease saves what it made of it.                       *)
(***************************************************************************)
CONSTANTS
    Owners,     \* whoever may take the lease
    Nobody,     \* no owner: the lease is free; not one of the Owners
    Runs        \* the values of the validation run

VARIABLES
    owner,      \* the last one to take the lease, as long as it may still save
    working,    \* is the owner at work?
    run         \* the saved run

vars == <<owner, working, run>>

Init == owner = Nobody /\ ~working /\ run \in Runs

\* The lease is free, or its owner has stopped working and its time is up.
Take(w) ==
    /\ ~working
    /\ owner' = w
    /\ working' = TRUE
    /\ UNCHANGED run

\* The owner's work ends, at its deadline at the latest.
Stop ==
    /\ working
    /\ working' = FALSE
    /\ UNCHANGED <<owner, run>>

\* The owner saves its progress, which frees the lease.
Save ==
    /\ owner # Nobody /\ ~working
    /\ owner' = Nobody
    /\ run' \in Runs
    /\ UNCHANGED working

\* The owner gives up or dies: nobody will save for it.
Lose ==
    /\ owner # Nobody
    /\ owner' = Nobody
    /\ working' = FALSE
    /\ UNCHANGED run

Next == (\E w \in Owners : Take(w)) \/ Stop \/ Save \/ Lose

Spec == Init /\ [][Next]_vars

=============================================================================
