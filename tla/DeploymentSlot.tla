--------------------------- MODULE DeploymentSlot ---------------------------
(***************************************************************************)
(* What the promotion queue of a Stage promises to its users, without the  *)
(* protocol that achieves it: the Stage is a slot that holds one attempt   *)
(* to deploy a freight at a time.  A new attempt starts only when the one  *)
(* before has ended, and under a name that sorts after it.                 *)
(***************************************************************************)
EXTENDS Naturals

CONSTANTS Names, Freights, NoFreight

VARIABLE attempt  \* the latest attempt: its name, its freight and its phase

Init == attempt = [name |-> 0, freight |-> NoFreight, phase |-> "None"]

Start ==
    /\ attempt.phase # "Active"
    /\ attempt' \in [name : Names, freight : Freights, phase : {"Active"}]
    /\ attempt'.name > attempt.name

End ==
    /\ attempt.phase = "Active"
    /\ \E phase \in {"Succeeded", "Failed"} :
          attempt' = [attempt EXCEPT !.phase = phase]

Next == Start \/ End

Spec == Init /\ [][Next]_attempt
=============================================================================
