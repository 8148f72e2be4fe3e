--------------------------- MODULE PromotionQueue ---------------------------
(***************************************************************************)
(* The promotion queue of one Kargo Stage, as Suparship's API replicas     *)
(* fill it (internal/kube: verified_release.go, promotion_name.go,         *)
(* kargo_store.go).                                                        *)
(*                                                                         *)
(* A request lists the Stage's Promotions, reserves a name in an           *)
(* annotation of the Stage (the Stage's resourceVersion is the CAS) and    *)
(* creates the Promotion under that name.  Nothing is locked: any number   *)
(* of requests, in any number of replicas, interleave between these calls, *)
(* fail in the middle of them, or disappear with their process.  Kargo     *)
(* runs the Promotions, records the result in the Stage's status, and      *)
(* garbage-collects the old ones.                                          *)
(*                                                                         *)
(* Promotion names are native Kargo names, <stage>.<ULID>.<freight>, of    *)
(* which only the order matters: they are the numbers 1..MaxName, and 0    *)
(* stands for the empty name, which sorts before every other.              *)
(***************************************************************************)
EXTENDS Naturals

CONSTANTS
    Requests,   \* goroutines that serve promotion requests, over all replicas
    Freights,   \* the releases a request may select
    NoFreight,  \* "": the Stage has never been promoted
    MaxName,    \* bound: how many names there are to generate
    MaxTries    \* attempts of the reservation on a conflict (retry.DefaultRetry: 5)

ASSUME NoFreightAssumption == NoFreight \notin Freights
ASSUME BoundsAssumption == MaxName \in Nat /\ MaxTries \in Nat \ {0}

VARIABLES
    \* the cluster
    promo,        \* name -> the Promotion CR: its phase and its freight
    collected,    \* the names of the Promotion CRs that Kargo has deleted
    last,         \* Stage status.lastPromotion.name, 0 before the first
    reservation,  \* Stage annotation suparship.io/promotion-reservation
    verified,     \* the freights with status.verifiedIn evidence for this Stage
    \* the requests, each on its own goroutine
    pc,           \* the API call that the request makes next
    want,         \* the freight that it asks for
    pred,         \* its predecessor: the latest attempt that it has seen
    held,         \* the promotion name that it has obtained, 0 before
    fresh,        \* is the resourceVersion of its copy of the Stage current?
    tries,        \* conflicting updates of the Stage so far
    reply,        \* what it answered
    since         \* history variable: lastPromotion.name when it arrived

cluster  == <<promo, collected, last, reservation, verified>>
requests == <<pc, want, pred, held, tries, reply, since>>
vars     == <<cluster, requests, fresh>>

Names     == 1..MaxName
Phases    == {"None", "Active", "Succeeded", "Failed"}
Steps     == {"idle", "list", "compare", "confirm", "reserve", "update",
              "create", "inspect"}
Reply     == [kind : {"none", "accepted", "busy", "error"}, name : 0..MaxName]

NoReply   == [kind |-> "none", name |-> 0]
Busy      == [kind |-> "busy", name |-> 0]
Error     == [kind |-> "error", name |-> 0]
Accept(n) == [kind |-> "accepted", name |-> n]

\* Pending, Running and the empty phase are all "Active"; Failed, Errored and
\* Aborted are all "Failed": the code never tells them apart.  A collected
\* Promotion is not seen again, its phase and freight stay for the properties
\* and for the Stage's history.
Active(n)   == promo[n].phase = "Active"
Terminal(n) == promo[n].phase \in {"Succeeded", "Failed"}
Created(n)  == promo[n].phase # "None"
Listed      == {n \in Names : promo[n].phase # "None"} \ collected

\* The successful Promotions of a set, and the latest of a set of names.
Succeeded(S)   == {n \in S : promo[n].phase = "Succeeded"}
IsMax(n, S)    == n \in S /\ \A m \in S : m <= n

\* status.freightHistory of the Stage: one entry for each success recorded.
History        == Succeeded(1..last)
InHistory(f)   == \E n \in History : promo[n].freight = f

\* getCurrentFreight: the newest entry of the history; before there is one,
\* the latest successful Promotion that is still there.
CurrentFreight(f) ==
    LET S == IF History # {} THEN History ELSE Succeeded(Listed)
    IN  \E n \in S : IsMax(n, S) /\ promo[n].freight = f

-----------------------------------------------------------------------------

TypeOK ==
    /\ promo \in [Names -> [phase : Phases, freight : Freights \cup {NoFreight}]]
    /\ collected \subseteq Names
    /\ last \in 0..MaxName
    /\ reservation \in [pred : 0..MaxName, name : 0..MaxName]
    /\ verified \subseteq Freights
    /\ pc \in [Requests -> Steps]
    /\ want \in [Requests -> Freights \cup {NoFreight}]
    /\ pred \in [Requests -> 0..MaxName]
    /\ held \in [Requests -> 0..MaxName]
    /\ fresh \in [Requests -> BOOLEAN]
    /\ tries \in [Requests -> 0..(MaxTries - 1)]
    /\ reply \in [Requests -> Reply]
    /\ since \in [Requests -> 0..MaxName]

Init ==
    /\ promo = [n \in Names |-> [phase |-> "None", freight |-> NoFreight]]
    /\ collected = {}
    /\ last = 0
    /\ reservation = [pred |-> 0, name |-> 0]
    /\ verified = {}
    /\ pc = [s \in Requests |-> "idle"]
    /\ want = [s \in Requests |-> NoFreight]
    /\ pred = [s \in Requests |-> 0]
    /\ held = [s \in Requests |-> 0]
    /\ fresh = [s \in Requests |-> FALSE]
    /\ tries = [s \in Requests |-> 0]
    /\ reply = [s \in Requests |-> NoReply]
    /\ since = [s \in Requests |-> 0]

-----------------------------------------------------------------------------
(* A request.  Every action is one call to the Kubernetes API.             *)

Goto(s, step) == pc' = [pc EXCEPT ![s] = step]

\* The request returns and its locals go out of scope (want and since stay
\* with an acceptance, for the properties).
Return(s, r) ==
    /\ Goto(s, "idle")
    /\ reply' = [reply EXCEPT ![s] = r]
    /\ pred' = [pred EXCEPT ![s] = 0]
    /\ held' = [held EXCEPT ![s] = 0]
    /\ fresh' = [fresh EXCEPT ![s] = FALSE]
    /\ tries' = [tries EXCEPT ![s] = 0]
    /\ IF r.kind = "accepted"
       THEN UNCHANGED <<want, since>>
       ELSE want' = [want EXCEPT ![s] = NoFreight] /\ since' = [since EXCEPT ![s] = 0]

\* PromoteVerifiedRelease for a freight that validateVerifiedRelease admits, or
\* PromoteFreight (rollback) for one of the Stage's own freightHistory.  The
\* evidence is never withdrawn, so the check and the arrival are one step.
Submit(s, f) ==
    /\ pc[s] = "idle"
    /\ f \in verified \/ InHistory(f)
    /\ Goto(s, "list")
    /\ want' = [want EXCEPT ![s] = f]
    /\ reply' = [reply EXCEPT ![s] = NoReply]
    /\ since' = [since EXCEPT ![s] = last]
    /\ UNCHANGED <<cluster, pred, held, fresh, tries>>

\* verifiedPromotionAttempt, the list: an active Promotion of another freight
\* refuses the request, one of the same freight answers it; otherwise the
\* latest name on the list, 0 for an empty list, is the predecessor.
ListPromotions(s) ==
    /\ pc[s] = "list"
    /\ UNCHANGED cluster
    /\ \/ /\ \E n \in Names : Active(n) /\ promo[n].freight # want[s]
          /\ Return(s, Busy)
       \/ /\ \A n \in Names : Active(n) => promo[n].freight = want[s]
          /\ \E n \in Names : Active(n) /\ Return(s, Accept(n))
       \/ /\ \A n \in Names : ~Active(n)
          /\ \E p \in Listed \cup {0} :
                /\ IsMax(p, Listed \cup {0})
                /\ pred' = [pred EXCEPT ![s] = p]
                /\ IF p # 0 /\ promo[p] = [phase |-> "Succeeded", freight |-> want[s]]
                   THEN Goto(s, "compare")
                   ELSE Goto(s, "reserve")
          /\ UNCHANGED <<want, held, fresh, tries, reply, since>>

\* The latest attempt has delivered this freight: is it still the Stage's?
CompareDestination(s) ==
    /\ pc[s] = "compare"
    /\ IF CurrentFreight(want[s]) THEN Goto(s, "confirm") ELSE Goto(s, "reserve")
    /\ UNCHANGED <<cluster, want, pred, held, fresh, tries, reply, since>>

\* Mutant: the destination's freight alone decides.
IsLatestByFreight(s) == TRUE

IsLatest(s) == last \in {0, pred[s]}

\* ... and is that attempt the last one that Kargo has recorded?
ConfirmLatest(s) ==
    /\ pc[s] = "confirm"
    /\ IF IsLatest(s)
       THEN Return(s, Accept(pred[s]))
       ELSE Goto(s, "reserve") /\ UNCHANGED <<want, pred, held, fresh, tries, reply, since>>
    /\ UNCHANGED cluster

Later(m, n) == IF m > n THEN m ELSE n

\* Mutant: the list alone decides, though Kargo collects old Promotions.
PredecessorFromList(p) == p

\* The predecessor, when p is the latest on the list: that, or the last attempt
\* in the Stage's status.
Predecessor(p) == Later(p, last)

\* The reservation continues predecessor p: requests that see p share its name.
Shared(p) == reservation.pred = p /\ reservation.name > p

\* Mutant: a late request replaces the reservation of those ahead of it.
NeverOvertaken(p) == FALSE

\* "Another caller advanced after our list."
Overtaken(p) == reservation.pred > p

\* reservePromotionName, the read: share the reservation that continues the
\* same predecessor, give way to one that is ahead, or set out to replace it.
ReadStage(s) ==
    /\ pc[s] = "reserve"
    /\ UNCHANGED cluster
    /\ LET p == Predecessor(pred[s]) IN
       \/ /\ Shared(p)
          /\ pred' = [pred EXCEPT ![s] = p]
          /\ held' = [held EXCEPT ![s] = reservation.name]
          /\ Goto(s, "create")
          /\ UNCHANGED <<want, fresh, tries, reply, since>>
       \/ /\ ~Shared(p) /\ Overtaken(p)
          /\ Return(s, Busy)
       \/ /\ ~Shared(p) /\ ~Overtaken(p)
          /\ pred' = [pred EXCEPT ![s] = p]
          /\ fresh' = [fresh EXCEPT ![s] = TRUE]
          /\ Goto(s, "update")
          /\ UNCHANGED <<want, held, tries, reply, since>>

\* A name that no Promotion, no reservation and no request has (ULIDs are
\* unique).  Replicas' clocks disagree, so it may sort anywhere.
Unused(n) ==
    /\ promo[n].phase = "None"
    /\ n # reservation.name
    /\ \A s \in Requests : held[s] # n

\* Mutant: the new name is not compared with the predecessor.
AnyOrder(s, n) == TRUE

\* Kargo would run a Promotion of name n after the predecessor.
InOrder(s, n) == n > pred[s]

\* Mutant: the Stage is written without a resourceVersion.
Unconditional(s) == TRUE

\* The API server takes the update: the Stage has not changed since the read.
NoConflict(s) == fresh[s]

\* RetryOnConflict has used up its attempts.
GivesUp(s) == tries[s] + 1 >= MaxTries

\* reservePromotionName, the write: refuse a name that Kargo would not order
\* after the predecessor; else update the Stage if nobody has since the read.
WriteReservation(s) ==
    /\ pc[s] = "update"
    /\ UNCHANGED <<promo, collected, last, verified>>
    /\ \E n \in {m \in Names : Unused(m)} :
       \/ /\ ~InOrder(s, n) \/ (~NoConflict(s) /\ GivesUp(s))
          /\ Return(s, Error)
          /\ UNCHANGED reservation
       \/ /\ InOrder(s, n) /\ NoConflict(s)
          /\ reservation' = [pred |-> pred[s], name |-> n]
          /\ held' = [held EXCEPT ![s] = n]
          /\ fresh' = [r \in Requests |-> FALSE]
          /\ Goto(s, "create")
          /\ UNCHANGED <<want, pred, tries, reply, since>>
       \/ /\ InOrder(s, n) /\ ~NoConflict(s) /\ ~GivesUp(s)
          /\ tries' = [tries EXCEPT ![s] = @ + 1]
          /\ Goto(s, "reserve")
          /\ UNCHANGED <<reservation, want, pred, held, fresh, reply, since>>

\* submitPromotion, the create.  The answer of a create that took effect may
\* still be lost; a name that is taken makes the request look at its owner.
CreatePromotion(s) ==
    /\ pc[s] = "create"
    /\ UNCHANGED <<last, reservation, verified>>
    /\ \/ /\ held[s] \notin Listed
          /\ promo' = [promo EXCEPT ![held[s]] = [phase |-> "Active", freight |-> want[s]]]
          /\ collected' = collected \ {held[s]}
          /\ Return(s, Accept(held[s])) \/ Return(s, Error)
       \/ /\ held[s] \in Listed
          /\ Goto(s, "inspect")
          /\ UNCHANGED <<promo, collected, want, pred, held, fresh, tries, reply, since>>

\* The Promotion that has the name does what this request asks for.
Joins(s) == promo[held[s]].freight = want[s] /\ promo[held[s]].phase # "Failed"

\* submitPromotion after AlreadyExists: read the Promotion that has the name
\* and answer with it, or with ErrPromotionBusy.
InspectExisting(s) ==
    /\ pc[s] = "inspect"
    /\ UNCHANGED cluster
    /\ \/ held[s] \notin Listed /\ Return(s, Error)
       \/ held[s] \in Listed /\ ~Joins(s) /\ Return(s, Busy)
       \/ held[s] \in Listed /\ Joins(s) /\ Return(s, Accept(held[s]))

\* Any call may fail, the context may end, the Stage may define no promotion
\* steps: the request returns the error, what it wrote to the cluster stays.
Fail(s) ==
    /\ pc[s] # "idle"
    /\ Return(s, Error)
    /\ UNCHANGED cluster

\* The process dies: like Fail, but nobody is answered.
Crash(s) ==
    /\ pc[s] # "idle"
    /\ Return(s, NoReply)
    /\ UNCHANGED cluster

-----------------------------------------------------------------------------
(* Kargo, external.                                                        *)

\* A freight passes the verification that this Stage asks for.
KargoVerify(f) ==
    /\ f \notin verified
    /\ verified' = verified \cup {f}
    /\ UNCHANGED <<promo, collected, last, reservation, requests, fresh>>

\* Kargo runs a Stage's Promotions one at a time, in the order of their names.
KargoFinish(n, phase) ==
    /\ Active(n)
    /\ \A m \in Names : Active(m) => n <= m
    /\ promo' = [promo EXCEPT ![n].phase = phase]
    /\ UNCHANGED <<collected, last, reservation, verified, requests, fresh>>

\* The Stage controller lags behind the Promotion controller: it records the
\* Promotions that have ended one after the other, each some time later.  The
\* write invalidates the copies of the Stage that requests have read.
KargoRecord(n) ==
    /\ Terminal(n) /\ n > last
    /\ \A m \in Names : Terminal(m) /\ m > last => n <= m
    /\ last' = n
    /\ fresh' = [s \in Requests |-> FALSE]
    /\ UNCHANGED <<promo, collected, reservation, verified, requests>>

\* Kargo collects old Promotions that its Stage has recorded.  It keeps the
\* last twenty, for two weeks: no request is that slow, so a name that a
\* request still holds is not collected.
KargoCollect(n) ==
    /\ Terminal(n) /\ n <= last /\ n \notin collected
    /\ \A s \in Requests : held[s] # n
    /\ collected' = collected \cup {n}
    /\ UNCHANGED <<promo, last, reservation, verified, requests, fresh>>

-----------------------------------------------------------------------------

RequestStep(s) ==
    \/ ListPromotions(s)
    \/ CompareDestination(s)
    \/ ConfirmLatest(s)
    \/ ReadStage(s)
    \/ WriteReservation(s)
    \/ CreatePromotion(s)
    \/ InspectExisting(s)

Next ==
    \/ \E s \in Requests, f \in Freights : Submit(s, f)
    \/ \E s \in Requests : RequestStep(s) \/ Fail(s) \/ Crash(s)
    \/ \E f \in Freights : KargoVerify(f)
    \/ \E n \in Names, phase \in {"Succeeded", "Failed"} : KargoFinish(n, phase)
    \/ \E n \in Names : KargoRecord(n) \/ KargoCollect(n)

Spec == Init /\ [][Next]_vars

-----------------------------------------------------------------------------
(* What the queue promises.                                                *)

\* However many requests race, the Stage never has two Promotions of
\* Suparship to run: "Competing submissions contend on a Stage annotation
\* reservation" (docs/verified-release-promotion.md).
AtMostOneActive ==
    \A m, n \in Names : Active(m) /\ Active(n) => m = n

\* A request that was accepted names a Promotion of the freight it asked for,
\* never the Promotion of the competitor with which it shared the name.
AcceptedOwnFreight ==
    \A s \in Requests :
        reply[s].kind = "accepted" =>
            /\ reply[s].name \in Names
            /\ promo[reply[s].name].phase # "None"
            /\ promo[reply[s].name].freight = want[s]

\* A Promotion is created at the end of the queue, after all that were ever
\* created or recorded: Kargo ignores one that sorts before its last.
CreatedInOrder ==
    [][\A n \in Names :
          Active(n)' /\ ~Active(n) =>
              n > last /\ \A m \in Names : promo[m].phase # "None" => m < n]_vars

\* An answer is never out of date: the Promotion it names is not older than
\* the last one Kargo had recorded when the request came, so a completed
\* Promotion "does not suppress an explicit redeployment after rollback".
AcceptedNotStale ==
    \A s \in Requests :
        reply[s].kind = "accepted" => reply[s].name >= since[s]

\* Requests that fail or crash never wedge the queue: once the Stage is quiet
\* and recorded, a lone request is not refused.  Whatever predecessor it sees
\* is not behind the reservation, and a name it would share is still free.
NeverWedged ==
    LET quiet == /\ \A s \in Requests : pc[s] = "idle"
                 /\ \A n \in Names : ~Active(n)
                 /\ \A n \in Names : Terminal(n) => n <= last
    IN  quiet =>
          \A p \in Listed \cup {0} : IsMax(p, Listed \cup {0}) =>
                /\ ~Overtaken(Predecessor(p))
                /\ Shared(Predecessor(p)) => reservation.name \notin Listed

\* All of it together: the Stage behaves like the slot of DeploymentSlot, which
\* one attempt at a time occupies, under ever greater names.  It is Slot!Spec, as
\* Attempt changes only with promo, in a form that TLC checks faster.
LatestAttempt(promotions) ==
    LET n == CHOOSE n \in 0..MaxName :
                /\ n # 0 => promotions[n].phase # "None"
                /\ \A m \in (n + 1)..MaxName : promotions[m].phase = "None"
    IN  [name    |-> n,
         freight |-> IF n = 0 THEN NoFreight ELSE promotions[n].freight,
         phase   |-> IF n = 0 THEN "None" ELSE promotions[n].phase]

Attempt == LatestAttempt(promo)

Slot == INSTANCE DeploymentSlot WITH attempt <- Attempt

SerialDeployment == Slot!Init /\ [][promo' = promo \/ Slot!Next]_Attempt

-----------------------------------------------------------------------------
(* Why it holds: the inductive invariant.                                  *)

\* The reservation is the front of the queue.  Whatever was created is either
\* the Promotion it reserves or an ended one, not beyond its predecessor.
QueueInv ==
    /\ reservation.pred # 0 => Terminal(reservation.pred)
    /\ \/ reservation.pred < reservation.name
       \/ reservation.pred = 0 /\ reservation.name = 0
    /\ \A n \in Names :
          Created(n) /\ n # reservation.name => Terminal(n) /\ n <= reservation.pred

\* The Stage records what has ended; only what is recorded is collected.
StageInv ==
    /\ last # 0 => Terminal(last)
    /\ \A n \in collected : Terminal(n) /\ n <= last

\* A request holds the reserved name or one that was created since, and is
\* not collected; its predecessor has ended, and is up to date with the Stage
\* as long as its copy of the Stage is.
RequestInv(s) ==
    /\ pc[s] = "idle" => held[s] = 0
    /\ pc[s] \in {"create", "inspect"} => held[s] # 0
    /\ pc[s] # "idle" => want[s] \in Freights
    /\ since[s] <= last
    /\ held[s] # 0 =>
          /\ held[s] = reservation.name \/ Created(held[s])
          /\ held[s] \notin collected
          /\ held[s] >= since[s]
    /\ pred[s] # 0 => Terminal(pred[s])
    /\ pc[s] \in {"compare", "confirm"} =>
          /\ pred[s] # 0
          /\ promo[pred[s]].freight = want[s]
    /\ pc[s] = "update" /\ fresh[s] =>
          /\ last <= pred[s]
          /\ ~Shared(pred[s]) /\ ~Overtaken(pred[s])

IInv ==
    /\ TypeOK
    /\ QueueInv
    /\ StageInv
    /\ \A s \in Requests : RequestInv(s)
    /\ AcceptedOwnFreight

=============================================================================
