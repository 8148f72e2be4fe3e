----------------------- MODULE PromotionQueueProofs -----------------------
(***************************************************************************)
(* The promotion queue, for any number of requests, freights, names and    *)
(* retries.                                                                *)
(***************************************************************************)
EXTENDS PromotionQueue, TLAPS

\* Every answer that Return gives is well-typed, and it leaves well-typed
\* locals behind.
LEMMA ReturnTypes ==
    ASSUME TypeOK, NEW s \in Requests, NEW r \in Reply, Return(s, r)
    PROVE  /\ pc' \in [Requests -> Steps]
           /\ want' \in [Requests -> Freights \cup {NoFreight}]
           /\ pred' \in [Requests -> 0..MaxName]
           /\ held' \in [Requests -> 0..MaxName]
           /\ fresh' \in [Requests -> BOOLEAN]
           /\ tries' \in [Requests -> 0..(MaxTries - 1)]
           /\ reply' \in [Requests -> Reply]
           /\ since' \in [Requests -> 0..MaxName]
  <1>1. 0 \in 0..MaxName /\ 0 \in 0..(MaxTries - 1)
    BY BoundsAssumption
  <1>2. "idle" \in Steps
    BY DEF Steps
  <1> QED
    BY <1>1, <1>2 DEF TypeOK, Return, Goto

LEMMA ReplyTypes ==
    /\ NoReply \in Reply /\ Busy \in Reply /\ Error \in Reply
    /\ \A n \in 0..MaxName : Accept(n) \in Reply
  BY BoundsAssumption DEF NoReply, Busy, Error, Accept, Reply

LEMMA TypePreserved ==
    ASSUME TypeOK, [Next]_vars
    PROVE  TypeOK'
  <1> USE BoundsAssumption
  <1>0. 0 \in 0..MaxName /\ 0 \in 0..(MaxTries - 1)
    OBVIOUS
  <1>1. ASSUME NEW s \in Requests, NEW f \in Freights, Submit(s, f)
        PROVE  TypeOK'
    BY <1>1, ReplyTypes DEF TypeOK, Submit, Goto, cluster, Steps
  <1>2. ASSUME NEW s \in Requests, ListPromotions(s)
        PROVE  TypeOK'
    <2>1. UNCHANGED cluster
      BY <1>2 DEF ListPromotions
    <2>2. CASE Return(s, Busy)
      BY <2>1, <2>2, ReturnTypes, ReplyTypes DEF TypeOK, cluster
    <2>3. CASE \E n \in Names : Return(s, Accept(n))
      <3>1. PICK n \in Names : Return(s, Accept(n))
        BY <2>3
      <3>2. Accept(n) \in Reply
        BY ReplyTypes DEF Names
      <3> QED
        BY <2>1, <3>1, <3>2, ReturnTypes DEF TypeOK, cluster
    <2>4. CASE /\ \E p \in Listed \cup {0} :
                    /\ pred' = [pred EXCEPT ![s] = p]
                    /\ Goto(s, "compare") \/ Goto(s, "reserve")
               /\ UNCHANGED <<want, held, fresh, tries, reply, since>>
      <3>1. PICK p \in 0..MaxName : /\ pred' = [pred EXCEPT ![s] = p]
                                    /\ Goto(s, "compare") \/ Goto(s, "reserve")
        <4>1. Listed \cup {0} \subseteq 0..MaxName
          BY <1>0 DEF Listed, Names
        <4> QED
          BY <2>4, <4>1
      <3>2. pc' \in [Requests -> Steps]
        BY <3>1 DEF TypeOK, Goto, Steps
      <3> QED
        BY <2>1, <2>4, <3>1, <3>2 DEF TypeOK, cluster
    <2> QED
      BY <1>2, <2>2, <2>3, <2>4 DEF ListPromotions
  <1>3. ASSUME NEW s \in Requests, CompareDestination(s)
        PROVE  TypeOK'
    BY <1>3 DEF TypeOK, CompareDestination, Goto, cluster, Steps
  <1>4. ASSUME NEW s \in Requests, ConfirmLatest(s)
        PROVE  TypeOK'
    <2>1. CASE Return(s, Accept(pred[s]))
      BY <1>4, <2>1, ReturnTypes, ReplyTypes DEF TypeOK, ConfirmLatest, cluster
    <2>2. CASE Goto(s, "reserve") /\ UNCHANGED <<want, pred, held, fresh, tries, reply, since>>
      BY <1>4, <2>2 DEF TypeOK, ConfirmLatest, Goto, cluster, Steps
    <2> QED
      BY <1>4, <2>1, <2>2 DEF ConfirmLatest
  <1>5. ASSUME NEW s \in Requests, ReadStage(s)
        PROVE  TypeOK'
    <2>1. UNCHANGED cluster /\ Predecessor(pred[s]) \in 0..MaxName
      BY <1>5 DEF TypeOK, ReadStage, Predecessor, Later
    <2>2. CASE Return(s, Busy)
      BY <2>1, <2>2, ReturnTypes, ReplyTypes DEF TypeOK, cluster
    <2>3. CASE ~Return(s, Busy)
      <3>1. /\ pred' = [pred EXCEPT ![s] = Predecessor(pred[s])]
            /\ held' = [held EXCEPT ![s] = reservation.name] \/ held' = held
            /\ fresh' = [fresh EXCEPT ![s] = TRUE] \/ fresh' = fresh
            /\ Goto(s, "create") \/ Goto(s, "update")
            /\ UNCHANGED <<want, tries, reply, since>>
        BY <1>5, <2>3 DEF ReadStage
      <3>2. pc' \in [Requests -> Steps]
        BY <3>1 DEF TypeOK, Goto, Steps
      <3>3. held' \in [Requests -> 0..MaxName] /\ fresh' \in [Requests -> BOOLEAN]
        BY <3>1 DEF TypeOK
      <3> QED
        BY <2>1, <3>1, <3>2, <3>3 DEF TypeOK, cluster
    <2> QED
      BY <2>2, <2>3
  <1>6. ASSUME NEW s \in Requests, WriteReservation(s)
        PROVE  TypeOK'
    <2>1. CASE Return(s, Error) /\ UNCHANGED reservation
      BY <1>6, <2>1, ReturnTypes, ReplyTypes DEF TypeOK, WriteReservation
    <2>2. CASE ~(Return(s, Error) /\ UNCHANGED reservation)
      <3>1. PICK n \in Names :
              \/ /\ reservation' = [pred |-> pred[s], name |-> n]
                 /\ held' = [held EXCEPT ![s] = n]
                 /\ fresh' = [r \in Requests |-> FALSE]
                 /\ Goto(s, "create")
                 /\ UNCHANGED <<want, pred, tries, reply, since>>
              \/ /\ ~GivesUp(s)
                 /\ tries' = [tries EXCEPT ![s] = @ + 1]
                 /\ Goto(s, "reserve")
                 /\ UNCHANGED <<reservation, want, pred, held, fresh, reply, since>>
        BY <1>6, <2>2 DEF WriteReservation
      <3>2. ~GivesUp(s) => tries[s] + 1 \in 0..(MaxTries - 1)
        BY DEF TypeOK, GivesUp
      <3>3. pc' \in [Requests -> Steps]
        BY <3>1 DEF TypeOK, Goto, Steps
      <3>4. tries' \in [Requests -> 0..(MaxTries - 1)]
        BY <3>1, <3>2 DEF TypeOK
      <3>5. /\ reservation' \in [pred : 0..MaxName, name : 0..MaxName]
            /\ held' \in [Requests -> 0..MaxName]
            /\ fresh' \in [Requests -> BOOLEAN]
        <4>1. n \in 0..MaxName /\ pred[s] \in 0..MaxName
          BY DEF TypeOK, Names
        <4>2. [pred |-> pred[s], name |-> n] \in [pred : 0..MaxName, name : 0..MaxName]
          BY <4>1
        <4> QED
          BY <3>1, <4>1, <4>2 DEF TypeOK
      <3>6. UNCHANGED <<promo, collected, last, verified, want, pred, reply, since>>
        BY <1>6, <3>1 DEF WriteReservation
      <3> QED
        BY <3>3, <3>4, <3>5, <3>6 DEF TypeOK
    <2> QED
      BY <2>1, <2>2
  <1>7. ASSUME NEW s \in Requests, CreatePromotion(s)
        PROVE  TypeOK'
    <2>1. CASE /\ promo' = [promo EXCEPT ![held[s]] = [phase |-> "Active", freight |-> want[s]]]
               /\ collected' = collected \ {held[s]}
               /\ Return(s, Accept(held[s])) \/ Return(s, Error)
      <3>1. promo' \in [Names -> [phase : Phases, freight : Freights \cup {NoFreight}]]
        BY <2>1 DEF TypeOK, Phases
      <3> QED
        BY <1>7, <2>1, <3>1, ReturnTypes, ReplyTypes DEF TypeOK, CreatePromotion
    <2>2. CASE /\ Goto(s, "inspect")
               /\ UNCHANGED <<promo, collected, want, pred, held, fresh, tries, reply, since>>
      BY <1>7, <2>2 DEF TypeOK, CreatePromotion, Goto, Steps
    <2> QED
      BY <1>7, <2>1, <2>2 DEF CreatePromotion
  <1>8. ASSUME NEW s \in Requests, InspectExisting(s)
        PROVE  TypeOK'
    <2>1. UNCHANGED cluster
      BY <1>8 DEF InspectExisting
    <2>2. \E r \in Reply : Return(s, r)
      BY <1>8, ReplyTypes DEF InspectExisting, TypeOK
    <2> QED
      BY <2>1, <2>2, ReturnTypes DEF TypeOK, cluster
  <1>9. ASSUME NEW s \in Requests, Fail(s) \/ Crash(s)
        PROVE  TypeOK'
    BY <1>9, ReturnTypes, ReplyTypes DEF TypeOK, Fail, Crash, cluster
  <1>10. ASSUME NEW f \in Freights, KargoVerify(f)
         PROVE  TypeOK'
    BY <1>10 DEF TypeOK, KargoVerify, requests
  <1>11. ASSUME NEW n \in Names, NEW phase \in {"Succeeded", "Failed"}, KargoFinish(n, phase)
         PROVE  TypeOK'
    <2>1. promo' \in [Names -> [phase : Phases, freight : Freights \cup {NoFreight}]]
      BY <1>11 DEF TypeOK, KargoFinish, Phases
    <2> QED
      BY <1>11, <2>1 DEF TypeOK, KargoFinish, requests
  <1>12. ASSUME NEW n \in Names, KargoRecord(n)
         PROVE  TypeOK'
    BY <1>12 DEF TypeOK, KargoRecord, requests, Names
  <1>13. ASSUME NEW n \in Names, KargoCollect(n)
         PROVE  TypeOK'
    BY <1>13 DEF TypeOK, KargoCollect, requests
  <1>14. CASE UNCHANGED vars
    BY <1>14 DEF TypeOK, vars, cluster, requests
  <1> QED
    BY <1>1, <1>2, <1>3, <1>4, <1>5, <1>6, <1>7, <1>8, <1>9, <1>10, <1>11,
       <1>12, <1>13, <1>14 DEF Next, RequestStep

-----------------------------------------------------------------------------

LEMMA InvInit == Init => IInv
  <1> SUFFICES ASSUME Init PROVE IInv
    OBVIOUS
  <1>1. TypeOK
    BY BoundsAssumption DEF Init, TypeOK, Phases, Steps, Reply, NoReply
  <1>2. QueueInv /\ StageInv
    BY DEF Init, QueueInv, StageInv, Created
  <1>3. ASSUME NEW s \in Requests PROVE RequestInv(s)
    BY DEF Init, RequestInv
  <1>4. AcceptedOwnFreight
    BY DEF Init, AcceptedOwnFreight, NoReply
  <1> QED
    BY <1>1, <1>2, <1>3, <1>4 DEF IInv

\* A request that only returns disturbs nothing, provided that an acceptance
\* names a created Promotion of its freight.
LEMMA ReturnInv ==
    ASSUME IInv, NEW s \in Requests, NEW r \in Reply, Return(s, r),
           UNCHANGED cluster,
           r.kind = "accepted" =>
             /\ r.name \in Names /\ Created(r.name)
             /\ promo[r.name].freight = want[s]
    PROVE  /\ QueueInv' /\ StageInv'
           /\ \A t \in Requests : RequestInv(t)'
           /\ AcceptedOwnFreight'
  <1> USE DEF IInv
  <1>1. QueueInv' /\ StageInv'
    BY DEF QueueInv, StageInv, cluster, Terminal, Created
  <1>2. ASSUME NEW t \in Requests PROVE RequestInv(t)'
    <2>1. CASE t = s
      BY <2>1, BoundsAssumption DEF Return, Goto, RequestInv, TypeOK, cluster
    <2>2. CASE t # s
      <3>1. /\ pc'[t] = pc[t] /\ want'[t] = want[t] /\ pred'[t] = pred[t]
            /\ held'[t] = held[t] /\ fresh'[t] = fresh[t] /\ since'[t] = since[t]
        BY <2>2 DEF Return, Goto, TypeOK
      <3> QED
        BY <3>1 DEF RequestInv, cluster, Terminal, Created, Shared, Overtaken
    <2> QED
      BY <2>1, <2>2
  <1>3. AcceptedOwnFreight'
    <2> SUFFICES ASSUME NEW t \in Requests, reply'[t].kind = "accepted"
                 PROVE  /\ reply'[t].name \in Names
                        /\ promo'[reply'[t].name].phase # "None"
                        /\ promo'[reply'[t].name].freight = want'[t]
      BY DEF AcceptedOwnFreight
    <2>1. CASE t = s
      BY <2>1 DEF Return, TypeOK, cluster, Created
    <2>2. CASE t # s
      BY <2>2 DEF Return, TypeOK, cluster, AcceptedOwnFreight
    <2> QED
      BY <2>1, <2>2
  <1> QED
    BY <1>1, <1>2, <1>3

\* A step of one request that leaves the cluster and every answer alone, and
\* keeps the request's own part of the invariant, keeps all of it.
LEMMA LocalInv ==
    ASSUME IInv, NEW s \in Requests,
           UNCHANGED <<cluster, reply>>,
           want' = [want EXCEPT ![s] = want'[s]],
           reply[s].kind # "accepted" \/ want'[s] = want[s],
           \A t \in Requests \ {s} :
              /\ pc'[t] = pc[t] /\ pred'[t] = pred[t] /\ held'[t] = held[t]
              /\ fresh'[t] = fresh[t] /\ since'[t] = since[t],
           RequestInv(s)'
    PROVE  /\ QueueInv' /\ StageInv'
           /\ \A t \in Requests : RequestInv(t)'
           /\ AcceptedOwnFreight'
  <1> USE DEF IInv
  <1>1. QueueInv' /\ StageInv'
    BY DEF QueueInv, StageInv, cluster, Terminal, Created
  <1>2. \A t \in Requests \ {s} : want'[t] = want[t]
    BY DEF TypeOK
  <1>3. ASSUME NEW t \in Requests PROVE RequestInv(t)'
    <2>1. CASE t # s
      BY <1>2, <2>1 DEF RequestInv, cluster, Terminal, Created, Shared, Overtaken
    <2> QED
      BY <2>1
  <1>4. AcceptedOwnFreight'
    BY <1>2 DEF AcceptedOwnFreight, cluster
  <1> QED
    BY <1>1, <1>3, <1>4

LEMMA SubmitInv ==
    ASSUME IInv, NEW s \in Requests, NEW f \in Freights, Submit(s, f)
    PROVE  /\ QueueInv' /\ StageInv'
           /\ \A t \in Requests : RequestInv(t)'
           /\ AcceptedOwnFreight'
  <1> USE DEF IInv
  <1>1. QueueInv' /\ StageInv'
    BY DEF Submit, QueueInv, StageInv, cluster, Terminal, Created
  <1>2. ASSUME NEW t \in Requests PROVE RequestInv(t)'
    <2>1. CASE t = s
      BY <2>1 DEF Submit, Goto, RequestInv, TypeOK, cluster, Terminal
    <2>2. CASE t # s
      BY <2>2 DEF Submit, Goto, RequestInv, TypeOK, cluster, Terminal, Created,
                  Shared, Overtaken
    <2> QED
      BY <2>1, <2>2
  <1>3. AcceptedOwnFreight'
    BY DEF Submit, AcceptedOwnFreight, NoReply, TypeOK, cluster
  <1> QED
    BY <1>1, <1>2, <1>3

LEMMA ListInv ==
    ASSUME IInv, NEW s \in Requests, ListPromotions(s)
    PROVE  /\ QueueInv' /\ StageInv'
           /\ \A t \in Requests : RequestInv(t)'
           /\ AcceptedOwnFreight'
  <1> USE DEF IInv
  <1>1. CASE Return(s, Busy)
    BY <1>1, ReturnInv, ReplyTypes DEF ListPromotions, Busy
  <1>2. CASE \E n \in Names : Active(n) /\ Return(s, Accept(n))
                             /\ promo[n].freight = want[s]
    <2>1. PICK n \in Names : /\ Active(n) /\ Return(s, Accept(n))
                             /\ promo[n].freight = want[s]
      BY <1>2
    <2>2. Accept(n) \in Reply /\ Accept(n).name = n /\ Created(n)
      BY <2>1, ReplyTypes DEF Names, Accept, Active, Created
    <2> QED
      BY <2>1, <2>2, ReturnInv DEF ListPromotions
  <1>3. CASE /\ \A n \in Names : ~Active(n)
             /\ ~Return(s, Busy)
    <2>1. PICK p \in Listed \cup {0} :
            /\ pred' = [pred EXCEPT ![s] = p]
            /\ \/ /\ p # 0
                  /\ promo[p] = [phase |-> "Succeeded", freight |-> want[s]]
                  /\ Goto(s, "compare")
               \/ Goto(s, "reserve")
            /\ UNCHANGED <<want, held, fresh, tries, reply, since>>
      BY <1>3 DEF ListPromotions
    <2>2. p # 0 => Terminal(p)
      BY <1>3, <2>1 DEF Listed, Active, Terminal, TypeOK, Phases
    <2>3. UNCHANGED cluster /\ pc[s] = "list"
      BY DEF ListPromotions
    <2>4. RequestInv(s)'
      BY <2>1, <2>2, <2>3 DEF RequestInv, Goto, TypeOK, cluster, Terminal, Created
    <2> QED
      BY <2>1, <2>3, <2>4, LocalInv DEF TypeOK, Goto
  <1> QED
    BY <1>1, <1>2, <1>3 DEF ListPromotions

LEMMA CompareInv ==
    ASSUME IInv, NEW s \in Requests, CompareDestination(s)
    PROVE  /\ QueueInv' /\ StageInv'
           /\ \A t \in Requests : RequestInv(t)'
           /\ AcceptedOwnFreight'
  <1> USE DEF IInv
  <1>1. RequestInv(s)'
    BY DEF CompareDestination, RequestInv, Goto, TypeOK, cluster, Terminal, Created
  <1> QED
    BY <1>1, LocalInv DEF CompareDestination, Goto, TypeOK

LEMMA ConfirmInv ==
    ASSUME IInv, NEW s \in Requests, ConfirmLatest(s)
    PROVE  /\ QueueInv' /\ StageInv'
           /\ \A t \in Requests : RequestInv(t)'
           /\ AcceptedOwnFreight'
  <1> USE DEF IInv
  <1>1. CASE Return(s, Accept(pred[s]))
    <2>1. /\ pred[s] \in Names /\ Created(pred[s])
          /\ promo[pred[s]].freight = want[s]
      <3>1. pred[s] # 0 /\ Terminal(pred[s]) /\ promo[pred[s]].freight = want[s]
        BY DEF ConfirmLatest, RequestInv
      <3>2. pred[s] \in Names
        BY <3>1 DEF TypeOK, Names
      <3> QED
        BY <3>1, <3>2 DEF Terminal, Created
    <2>2. Accept(pred[s]) \in Reply /\ Accept(pred[s]).name = pred[s]
      BY ReplyTypes DEF TypeOK, Accept
    <2> QED
      BY <1>1, <2>1, <2>2, ReturnInv DEF ConfirmLatest
  <1>2. CASE Goto(s, "reserve") /\ UNCHANGED <<want, pred, held, fresh, tries, reply, since>>
    <2>1. RequestInv(s)'
      BY <1>2 DEF ConfirmLatest, RequestInv, Goto, TypeOK, cluster, Terminal, Created
    <2> QED
      BY <1>2, <2>1, LocalInv DEF ConfirmLatest, Goto, TypeOK
  <1> QED
    BY <1>1, <1>2 DEF ConfirmLatest

LEMMA ReadInv ==
    ASSUME IInv, NEW s \in Requests, ReadStage(s)
    PROVE  /\ QueueInv' /\ StageInv'
           /\ \A t \in Requests : RequestInv(t)'
           /\ AcceptedOwnFreight'
  <1> USE DEF IInv
  <1> DEFINE p == Predecessor(pred[s])
  <1>1. /\ p \in 0..MaxName /\ p >= pred[s] /\ p >= last
        /\ p # 0 => Terminal(p)
    BY DEF Predecessor, Later, TypeOK, StageInv, RequestInv
  <1>2. CASE Return(s, Busy)
    BY <1>2, ReturnInv, ReplyTypes DEF ReadStage, Busy
  <1>3. CASE /\ Shared(p)
             /\ pred' = [pred EXCEPT ![s] = p]
             /\ held' = [held EXCEPT ![s] = reservation.name]
             /\ Goto(s, "create")
             /\ UNCHANGED <<want, fresh, tries, reply, since>>
    <2> HIDE DEF p
    <2>1. /\ reservation.name > p /\ reservation.name \in Names
          /\ reservation.name \notin collected
          /\ reservation.name >= since[s]
      BY <1>1, <1>3 DEF Shared, TypeOK, StageInv, RequestInv, Names
    <2>2. UNCHANGED cluster /\ pc[s] = "reserve"
      BY DEF ReadStage
    <2>3. RequestInv(s)'
      BY <1>1, <1>3, <2>1, <2>2 DEF RequestInv, Goto, TypeOK, cluster, Terminal, Names
    <2> QED
      BY <1>3, <2>2, <2>3, LocalInv DEF Goto, TypeOK
  <1>4. CASE /\ ~Shared(p) /\ ~Overtaken(p)
             /\ pred' = [pred EXCEPT ![s] = p]
             /\ fresh' = [fresh EXCEPT ![s] = TRUE]
             /\ Goto(s, "update")
             /\ UNCHANGED <<want, held, tries, reply, since>>
    <2> HIDE DEF p
    <2>2. UNCHANGED cluster /\ pc[s] = "reserve"
      BY DEF ReadStage
    <2>3. RequestInv(s)'
      BY <1>1, <1>4, <2>2 DEF RequestInv, Goto, TypeOK, cluster, Terminal, Created,
                              Shared, Overtaken
    <2> QED
      BY <1>4, <2>2, <2>3, LocalInv DEF Goto, TypeOK
  <1> QED
    BY <1>2, <1>3, <1>4 DEF ReadStage

\* A new reservation continues the Promotion that the old one reserved (or
\* nothing was ever reserved): it cannot leave an uncreated name behind.
LEMMA SuccessorOfReserved ==
    ASSUME IInv, NEW s \in Requests, pc[s] = "update", NoConflict(s)
    PROVE  /\ pred[s] = reservation.name
           /\ \A n \in Names : Created(n) => Terminal(n) /\ n <= pred[s]
  <1> USE DEF IInv
  <1>1. /\ last <= pred[s] /\ ~Shared(pred[s]) /\ ~Overtaken(pred[s])
        /\ pred[s] # 0 => Terminal(pred[s])
    BY DEF RequestInv, NoConflict
  <1>2. /\ pred[s] \in 0..MaxName
        /\ reservation.pred \in 0..MaxName /\ reservation.name \in 0..MaxName
    BY DEF TypeOK
  <1>3. CASE pred[s] = reservation.pred
    <2>1. reservation.name = 0 /\ pred[s] = 0
      BY <1>1, <1>2, <1>3 DEF Shared, QueueInv, Terminal, Created, Names
    <2> QED
      BY <1>2, <1>3, <2>1 DEF QueueInv, Names
  <1>4. CASE pred[s] # reservation.pred
    <2>1. pred[s] > reservation.pred /\ pred[s] \in Names /\ Terminal(pred[s])
      BY <1>1, <1>2, <1>4 DEF Overtaken, Names
    <2>2. pred[s] = reservation.name
      BY <1>2, <2>1 DEF QueueInv, Terminal, Created
    <2> QED
      BY <1>2, <2>1, <2>2 DEF QueueInv, Names
  <1> QED
    BY <1>3, <1>4

LEMMA WriteInv ==
    ASSUME IInv, NEW s \in Requests, WriteReservation(s)
    PROVE  /\ QueueInv' /\ StageInv'
           /\ \A t \in Requests : RequestInv(t)'
           /\ AcceptedOwnFreight'
  <1> USE DEF IInv
  <1>1. CASE Return(s, Error) /\ UNCHANGED reservation
    BY <1>1, ReturnInv, ReplyTypes DEF WriteReservation, Error, cluster
  <1>2. CASE \E n \in Names :
               /\ Unused(n) /\ InOrder(s, n) /\ NoConflict(s)
               /\ reservation' = [pred |-> pred[s], name |-> n]
               /\ held' = [held EXCEPT ![s] = n]
               /\ fresh' = [r \in Requests |-> FALSE]
               /\ Goto(s, "create")
               /\ UNCHANGED <<want, pred, tries, reply, since>>
    <2>1. PICK n \in Names :
               /\ Unused(n) /\ InOrder(s, n) /\ NoConflict(s)
               /\ reservation' = [pred |-> pred[s], name |-> n]
               /\ held' = [held EXCEPT ![s] = n]
               /\ fresh' = [r \in Requests |-> FALSE]
               /\ Goto(s, "create")
               /\ UNCHANGED <<want, pred, tries, reply, since>>
      BY <1>2
    <2>2. /\ pred[s] = reservation.name
          /\ \A m \in Names : Created(m) => Terminal(m) /\ m <= pred[s]
          /\ n > pred[s] /\ pred[s] \in 0..MaxName
          /\ last <= pred[s]
          /\ ~Created(n)
      BY <2>1, SuccessorOfReserved
         DEF WriteReservation, InOrder, NoConflict, RequestInv, Unused, TypeOK, Created
    <2>3. /\ UNCHANGED <<promo, collected, last, verified>>
          /\ pc[s] = "update"
      BY DEF WriteReservation
    <2>4. pred[s] # 0 => Terminal(pred[s])
      BY DEF RequestInv
    <2>5. QueueInv'
      BY <2>1, <2>2, <2>3, <2>4 DEF QueueInv, Terminal, Created, Names
    <2>6. StageInv'
      BY <2>3 DEF StageInv, Terminal
    <2>7. ASSUME NEW t \in Requests PROVE RequestInv(t)'
      <3>1. CASE t = s
        <4>1. n \notin collected /\ n # 0
          BY <2>2 DEF StageInv, Terminal, Created, Names
        <4>2. n >= since[s]
          BY <2>2 DEF RequestInv, TypeOK, Names
        <4> QED
          BY <2>1, <2>3, <3>1, <4>1, <4>2 DEF RequestInv, Goto, TypeOK, Terminal
      <3>2. CASE t # s
        <4>1. held[t] # 0 => Created(held[t])
          BY <2>2, <2>4 DEF RequestInv, Terminal, Created
        <4> QED
          BY <2>1, <2>3, <3>2, <4>1 DEF RequestInv, Goto, TypeOK, Terminal, Created
      <3> QED
        BY <3>1, <3>2
    <2>8. AcceptedOwnFreight'
      BY <2>1, <2>3 DEF AcceptedOwnFreight
    <2> QED
      BY <2>5, <2>6, <2>7, <2>8
  <1>3. CASE /\ ~NoConflict(s)
             /\ tries' = [tries EXCEPT ![s] = @ + 1]
             /\ Goto(s, "reserve")
             /\ UNCHANGED <<reservation, want, pred, held, fresh, reply, since>>
    <2>1. UNCHANGED cluster /\ pc[s] = "update"
      BY <1>3 DEF WriteReservation, cluster
    <2>2. RequestInv(s)'
      BY <1>3, <2>1 DEF RequestInv, Goto, TypeOK, cluster, Terminal, Created
    <2> QED
      BY <1>3, <2>1, <2>2, LocalInv DEF Goto, TypeOK
  <1> QED
    BY <1>1, <1>2, <1>3 DEF WriteReservation

LEMMA CreateInv ==
    ASSUME IInv, NEW s \in Requests, CreatePromotion(s)
    PROVE  /\ QueueInv' /\ StageInv'
           /\ \A t \in Requests : RequestInv(t)'
           /\ AcceptedOwnFreight'
  <1> USE DEF IInv
  <1>1. CASE /\ held[s] \notin Listed
             /\ promo' = [promo EXCEPT ![held[s]] = [phase |-> "Active", freight |-> want[s]]]
             /\ collected' = collected \ {held[s]}
             /\ Return(s, Accept(held[s])) \/ Return(s, Error)
    <2>0. PICK n \in Names : n = held[s]
      BY DEF CreatePromotion, RequestInv, TypeOK, Names
    <2>1. /\ n = reservation.name /\ ~Created(n)
          /\ n \notin collected /\ want[s] \in Freights
      BY <1>1, <2>0 DEF CreatePromotion, RequestInv, Listed, Created
    <2>2. /\ UNCHANGED <<last, reservation, verified, collected>>
          /\ promo' = [promo EXCEPT ![n] = [phase |-> "Active", freight |-> want[s]]]
      BY <1>1, <2>0, <2>1 DEF CreatePromotion
    <2>3. /\ Created(n)' /\ promo'[n].freight = want[s]
          /\ \A m \in Names \ {n} : promo'[m] = promo[m]
      BY <2>1, <2>2 DEF TypeOK, Created
    <2>4. \A m \in Names : Terminal(m) => m # n
      BY <2>1 DEF Terminal, Created
    <2>5. /\ reservation.pred # 0 => reservation.pred \in Names
          /\ last # 0 => last \in Names
          /\ \A t \in Requests : pred[t] # 0 => pred[t] \in Names
          /\ \A t \in Requests : held[t] # 0 => held[t] \in Names
          /\ collected \subseteq Names
      BY DEF TypeOK, Names
    <2>6. QueueInv'
      BY <2>1, <2>2, <2>3, <2>4, <2>5 DEF QueueInv, Terminal, Created
    <2>7. StageInv'
      BY <2>2, <2>3, <2>4, <2>5 DEF StageInv, Terminal
    <2>8. PICK r \in {Accept(n), Error} : Return(s, r)
      BY <1>1, <2>0
    <2>9. /\ \A t \in Requests \ {s} :
                /\ pc'[t] = pc[t] /\ want'[t] = want[t] /\ pred'[t] = pred[t]
                /\ held'[t] = held[t] /\ fresh'[t] = fresh[t] /\ since'[t] = since[t]
                /\ reply'[t] = reply[t]
          /\ pc'[s] = "idle" /\ held'[s] = 0 /\ pred'[s] = 0 /\ fresh'[s] = FALSE
          /\ reply'[s] = r
          /\ IF r.kind = "accepted" THEN want' = want /\ since' = since
                                    ELSE since'[s] = 0
      BY <2>8 DEF Return, Goto, TypeOK
    <2>10. ASSUME NEW t \in Requests PROVE RequestInv(t)'
      <3>1. CASE t = s
        BY <2>2, <2>9, <3>1 DEF RequestInv, TypeOK
      <3>2. CASE t # s
        BY <2>1, <2>2, <2>3, <2>4, <2>5, <2>9, <3>2
           DEF RequestInv, Terminal, Created, Shared, Overtaken
      <3> QED
        BY <3>1, <3>2
    <2>11. AcceptedOwnFreight'
      <3> SUFFICES ASSUME NEW t \in Requests, reply'[t].kind = "accepted"
                   PROVE  /\ reply'[t].name \in Names
                          /\ promo'[reply'[t].name].phase # "None"
                          /\ promo'[reply'[t].name].freight = want'[t]
        BY DEF AcceptedOwnFreight
      <3>1. CASE t = s
        BY <2>1, <2>3, <2>8, <2>9, <3>1 DEF Accept, Error, Created
      <3>2. CASE t # s
        <4>1. /\ reply[t].kind = "accepted"
              /\ reply[t].name \in Names /\ Created(reply[t].name)
              /\ promo[reply[t].name].freight = want[t]
          BY <2>9, <3>2 DEF AcceptedOwnFreight, Created
        <4>2. reply[t].name # n
          BY <2>1, <4>1
        <4> QED
          BY <2>3, <2>9, <3>2, <4>1, <4>2 DEF Created
      <3> QED
        BY <3>1, <3>2
    <2> QED
      BY <2>6, <2>7, <2>10, <2>11
  <1>2. CASE /\ Goto(s, "inspect")
             /\ UNCHANGED <<promo, collected, want, pred, held, fresh, tries, reply, since>>
    <2>1. UNCHANGED cluster /\ pc[s] = "create"
      BY <1>2 DEF CreatePromotion, cluster
    <2>2. RequestInv(s)'
      BY <1>2, <2>1 DEF RequestInv, Goto, TypeOK, cluster, Terminal, Created
    <2> QED
      BY <1>2, <2>1, <2>2, LocalInv DEF Goto, TypeOK
  <1> QED
    BY <1>1, <1>2 DEF CreatePromotion

LEMMA InspectInv ==
    ASSUME IInv, NEW s \in Requests, InspectExisting(s)
    PROVE  /\ QueueInv' /\ StageInv'
           /\ \A t \in Requests : RequestInv(t)'
           /\ AcceptedOwnFreight'
  <1> USE DEF IInv
  <1>1. CASE Return(s, Error) \/ Return(s, Busy)
    BY <1>1, ReturnInv, ReplyTypes DEF InspectExisting, Error, Busy
  <1>2. CASE held[s] \in Listed /\ Joins(s) /\ Return(s, Accept(held[s]))
    <2>1. /\ held[s] \in Names /\ Created(held[s])
          /\ promo[held[s]].freight = want[s]
      BY <1>2 DEF Listed, Joins, Created
    <2>2. Accept(held[s]) \in Reply /\ Accept(held[s]).name = held[s]
      BY ReplyTypes DEF TypeOK, Accept
    <2> QED
      BY <1>2, <2>1, <2>2, ReturnInv DEF InspectExisting
  <1> QED
    BY <1>1, <1>2 DEF InspectExisting

LEMMA FinishInv ==
    ASSUME IInv, NEW n \in Names, NEW phase \in {"Succeeded", "Failed"},
           KargoFinish(n, phase)
    PROVE  /\ QueueInv' /\ StageInv'
           /\ \A t \in Requests : RequestInv(t)'
           /\ AcceptedOwnFreight'
  <1> USE DEF IInv
  <1>1. /\ UNCHANGED <<collected, last, reservation, verified, requests, fresh>>
        /\ Active(n)
    BY DEF KargoFinish
  <1>2. \A m \in Names : /\ Terminal(m) => Terminal(m)'
                         /\ Created(m)' <=> Created(m)
                         /\ promo'[m].freight = promo[m].freight
    BY DEF KargoFinish, TypeOK, Terminal, Created, Active
  <1>3. /\ reservation.pred # 0 => reservation.pred \in Names
        /\ last # 0 => last \in Names
        /\ \A t \in Requests : pred[t] # 0 => pred[t] \in Names
        /\ \A t \in Requests : held[t] # 0 => held[t] \in Names
        /\ collected \subseteq Names
    BY DEF TypeOK, Names
  <1>4. QueueInv'
    BY <1>1, <1>2, <1>3 DEF QueueInv
  <1>5. StageInv'
    BY <1>1, <1>2, <1>3 DEF StageInv
  <1>6. ASSUME NEW t \in Requests PROVE RequestInv(t)'
    BY <1>1, <1>2, <1>3 DEF RequestInv, requests, Shared, Overtaken
  <1>7. AcceptedOwnFreight'
    BY <1>1, <1>2 DEF AcceptedOwnFreight, requests, Created
  <1> QED
    BY <1>4, <1>5, <1>6, <1>7

LEMMA RecordInv ==
    ASSUME IInv, NEW n \in Names, KargoRecord(n)
    PROVE  /\ QueueInv' /\ StageInv'
           /\ \A t \in Requests : RequestInv(t)'
           /\ AcceptedOwnFreight'
  <1> USE DEF IInv
  <1>1. /\ UNCHANGED <<promo, collected, reservation, verified, requests>>
        /\ Terminal(n) /\ last' = n /\ n > last
        /\ fresh' = [s \in Requests |-> FALSE]
    BY DEF KargoRecord
  <1>2. QueueInv'
    BY <1>1 DEF QueueInv, Terminal, Created
  <1>3. StageInv'
    BY <1>1 DEF StageInv, Terminal, TypeOK, Names
  <1>4. ASSUME NEW t \in Requests PROVE RequestInv(t)'
    BY <1>1 DEF RequestInv, requests, Terminal, Created, TypeOK, Names
  <1>5. AcceptedOwnFreight'
    BY <1>1 DEF AcceptedOwnFreight, requests
  <1> QED
    BY <1>2, <1>3, <1>4, <1>5

LEMMA CollectInv ==
    ASSUME IInv, NEW n \in Names, KargoCollect(n)
    PROVE  /\ QueueInv' /\ StageInv'
           /\ \A t \in Requests : RequestInv(t)'
           /\ AcceptedOwnFreight'
  <1> USE DEF IInv
  <1>1. /\ UNCHANGED <<promo, last, reservation, verified, requests, fresh>>
        /\ Terminal(n) /\ n <= last
        /\ \A t \in Requests : held[t] # n
        /\ collected' = collected \cup {n}
    BY DEF KargoCollect
  <1>2. QueueInv' /\ StageInv'
    BY <1>1 DEF QueueInv, StageInv, Terminal, Created
  <1>3. ASSUME NEW t \in Requests PROVE RequestInv(t)'
    BY <1>1 DEF RequestInv, requests, Terminal, Created, Shared, Overtaken
  <1>4. AcceptedOwnFreight'
    BY <1>1 DEF AcceptedOwnFreight, requests
  <1> QED
    BY <1>2, <1>3, <1>4

LEMMA UnchangedInv ==
    ASSUME IInv, UNCHANGED <<promo, collected, last, reservation, requests, fresh>>
    PROVE  /\ QueueInv' /\ StageInv'
           /\ \A t \in Requests : RequestInv(t)'
           /\ AcceptedOwnFreight'
  <1> USE DEF IInv
  <1>1. QueueInv' /\ StageInv'
    BY DEF QueueInv, StageInv, Terminal, Created
  <1>2. ASSUME NEW t \in Requests PROVE RequestInv(t)'
    BY DEF RequestInv, requests, Terminal, Created, Shared, Overtaken
  <1>3. AcceptedOwnFreight'
    BY DEF AcceptedOwnFreight, requests
  <1> QED
    BY <1>1, <1>2, <1>3

LEMMA InvStep ==
    ASSUME IInv, [Next]_vars
    PROVE  IInv'
  <1> USE DEF IInv
  <1>1. TypeOK'
    BY TypePreserved
  <1>2. ASSUME NEW s \in Requests, Fail(s) \/ Crash(s)
        PROVE  /\ QueueInv' /\ StageInv'
               /\ \A t \in Requests : RequestInv(t)'
               /\ AcceptedOwnFreight'
    BY <1>2, ReturnInv, ReplyTypes DEF Fail, Crash, Error, NoReply
  <1>3. ASSUME (\E f \in Freights : KargoVerify(f)) \/ UNCHANGED vars
        PROVE  /\ QueueInv' /\ StageInv'
               /\ \A t \in Requests : RequestInv(t)'
               /\ AcceptedOwnFreight'
    BY <1>3, UnchangedInv DEF KargoVerify, vars, cluster, requests
  <1>4. /\ QueueInv' /\ StageInv'
        /\ \A t \in Requests : RequestInv(t)'
        /\ AcceptedOwnFreight'
    BY <1>2, <1>3, SubmitInv, ListInv, CompareInv, ConfirmInv, ReadInv, WriteInv,
       CreateInv, InspectInv, FinishInv, RecordInv, CollectInv
       DEF Next, RequestStep
  <1> QED
    BY <1>1, <1>4

\* The inductive invariant holds whatever the number of requests, of freights,
\* of names and of retries.
THEOREM Invariance == Spec => []IInv
  BY InvInit, InvStep, PTL DEF Spec

\* Every variable always has its type.
THEOREM TypeCorrect == Spec => []TypeOK
  BY Invariance, PTL DEF IInv

-----------------------------------------------------------------------------

LEMMA OneActive == IInv => AtMostOneActive
  <1> SUFFICES ASSUME IInv, NEW m \in Names, NEW n \in Names, Active(m), Active(n)
               PROVE  m = n
    BY DEF AtMostOneActive
  <1>1. m = reservation.name /\ n = reservation.name
    BY DEF IInv, QueueInv, Active, Created, Terminal
  <1> QED
    BY <1>1

\* However many requests race for a Stage, fail and crash, it never has two
\* active Promotions: an active one is always the one that is reserved.
THEOREM AtMostOneActiveAlways == Spec => []AtMostOneActive
  BY Invariance, OneActive, PTL

\* A request that was accepted names a Promotion of its own freight.
THEOREM AcceptedOwnFreightAlways == Spec => []AcceptedOwnFreight
  BY Invariance, PTL DEF IInv

\* What a step does to the Promotions: it leaves them alone, it creates the one
\* that is reserved after all the others have ended, or it ends the active one.
LEMMA PromotionStep ==
    ASSUME IInv, [Next]_vars
    PROVE  \/ promo' = promo
           \/ \E n \in Names, f \in Freights :
                 /\ n = reservation.name /\ ~Created(n)
                 /\ \A m \in Names : Created(m) => Terminal(m) /\ m < n
                 /\ promo' = [promo EXCEPT ![n] = [phase |-> "Active", freight |-> f]]
                 /\ last < n
           \/ \E n \in Names, phase \in {"Succeeded", "Failed"} :
                 /\ Active(n)
                 /\ promo' = [promo EXCEPT ![n].phase = phase]
  <1> USE DEF IInv
  <1>1. ASSUME NEW s \in Requests, CreatePromotion(s), promo' # promo
        PROVE  \E n \in Names, f \in Freights :
                 /\ n = reservation.name /\ ~Created(n)
                 /\ \A m \in Names : Created(m) => Terminal(m) /\ m < n
                 /\ promo' = [promo EXCEPT ![n] = [phase |-> "Active", freight |-> f]]
                 /\ last < n
    <2>1. PICK n \in Names : n = held[s]
      BY <1>1 DEF CreatePromotion, RequestInv, TypeOK, Names
    <2>2. /\ n = reservation.name /\ ~Created(n) /\ want[s] \in Freights
          /\ promo' = [promo EXCEPT ![n] = [phase |-> "Active", freight |-> want[s]]]
      BY <1>1, <2>1 DEF CreatePromotion, RequestInv, Listed, Created
    <2>3. \A m \in Names : Created(m) => Terminal(m) /\ m < n
      BY <2>2 DEF QueueInv, TypeOK, Names
    <2>4. last < n
      BY <2>1, <2>3 DEF StageInv, TypeOK, Terminal, Created, Names
    <2> QED
      BY <2>2, <2>3, <2>4
  <1>2. ASSUME NEW n \in Names, NEW phase \in {"Succeeded", "Failed"},
               KargoFinish(n, phase)
        PROVE  Active(n) /\ promo' = [promo EXCEPT ![n].phase = phase]
    BY <1>2 DEF KargoFinish
  <1>3. ASSUME NEW s \in Requests, (\E f \in Freights : Submit(s, f)) \/ ListPromotions(s)
               \/ CompareDestination(s) \/ ConfirmLatest(s) \/ ReadStage(s)
               \/ WriteReservation(s) \/ InspectExisting(s) \/ Fail(s) \/ Crash(s)
        PROVE  promo' = promo
    BY <1>3 DEF Submit, ListPromotions, CompareDestination, ConfirmLatest, ReadStage,
                WriteReservation, InspectExisting, Fail, Crash, cluster
  <1>4. ASSUME (\E f \in Freights : KargoVerify(f)) \/ UNCHANGED vars
               \/ (\E n \in Names : KargoRecord(n) \/ KargoCollect(n))
        PROVE  promo' = promo
    BY <1>4 DEF KargoVerify, KargoRecord, KargoCollect, vars, cluster
  <1> QED
    BY <1>1, <1>2, <1>3, <1>4 DEF Next, RequestStep

\* Every Promotion that is created goes to the end of the queue, where Kargo
\* will run it.
THEOREM CreatedInOrderAlways == Spec => CreatedInOrder
  <1>1. ASSUME IInv, [Next]_vars
        PROVE  [\A n \in Names :
                  Active(n)' /\ ~Active(n) =>
                    n > last /\ \A m \in Names : promo[m].phase # "None" => m < n]_vars
    <2> SUFFICES ASSUME NEW n \in Names, Active(n)', ~Active(n)
                 PROVE  n > last /\ \A m \in Names : Created(m) => m < n
      BY DEF Created
    <2>1. CASE promo' = promo
      BY <2>1 DEF Active
    <2>2. ASSUME NEW k \in Names, NEW f \in Freights,
                 \A m \in Names : Created(m) => Terminal(m) /\ m < k,
                 promo' = [promo EXCEPT ![k] = [phase |-> "Active", freight |-> f]],
                 last < k
          PROVE  n > last /\ \A m \in Names : Created(m) => m < n
      <3>1. n = k
        BY <2>2 DEF Active, IInv, TypeOK
      <3> QED
        BY <2>2, <3>1 DEF IInv, TypeOK, Names
    <2>3. ASSUME NEW k \in Names, NEW phase \in {"Succeeded", "Failed"},
                 promo' = [promo EXCEPT ![k].phase = phase]
          PROVE  FALSE
      BY <2>3 DEF Active, IInv, TypeOK
    <2> QED
      BY <1>1, <2>1, <2>2, <2>3, PromotionStep
  <1> QED
    BY <1>1, Invariance, PTL DEF Spec, CreatedInOrder

LEMMA NotStaleStep ==
    ASSUME IInv, AcceptedNotStale, [Next]_vars
    PROVE  AcceptedNotStale'
  <1> USE DEF IInv
  <1>1. ASSUME NEW s \in Requests, NEW r \in Reply, Return(s, r),
               r.kind = "accepted" => r.name >= since[s]
        PROVE  AcceptedNotStale'
    BY <1>1 DEF AcceptedNotStale, Return, TypeOK
  <1>2. ASSUME NEW s \in Requests, ListPromotions(s)
        PROVE  AcceptedNotStale'
    <2>1. ASSUME NEW n \in Names, Active(n), Return(s, Accept(n))
          PROVE  AcceptedNotStale'
      <3>1. last <= n
        <4>1. n = reservation.name /\ reservation.pred < n
          BY <2>1 DEF QueueInv, Terminal, Created, Active, Names
        <4>2. last # 0 => last \in Names /\ last # n /\ Created(last)
          BY <2>1 DEF StageInv, Terminal, Active, Created, TypeOK, Names
        <4>3. last # 0 => last <= reservation.pred
          BY <4>1, <4>2 DEF QueueInv
        <4> QED
          BY <4>1, <4>3 DEF TypeOK, Names
      <3>2. n >= since[s]
        BY <3>1 DEF RequestInv, TypeOK, Names
      <3>3. Accept(n) \in Reply /\ Accept(n).name = n
        BY ReplyTypes DEF Accept, Names
      <3> QED
        BY <1>1, <2>1, <3>2, <3>3
    <2>2. CASE Return(s, Busy)
      BY <1>1, <2>2, ReplyTypes DEF Busy
    <2>3. CASE UNCHANGED <<want, held, fresh, tries, reply, since>>
      BY <2>3 DEF AcceptedNotStale
    <2> QED
      BY <1>2, <2>1, <2>2, <2>3 DEF ListPromotions
  <1>3. ASSUME NEW s \in Requests, ConfirmLatest(s)
        PROVE  AcceptedNotStale'
    <2>1. CASE IsLatest(s) /\ Return(s, Accept(pred[s]))
      <3>1. pred[s] >= since[s]
        BY <2>1 DEF IsLatest, RequestInv, TypeOK
      <3>2. Accept(pred[s]) \in Reply /\ Accept(pred[s]).name = pred[s]
        BY ReplyTypes DEF Accept, TypeOK
      <3> QED
        BY <1>1, <2>1, <3>1, <3>2
    <2>2. CASE UNCHANGED <<reply, since>>
      BY <2>2 DEF AcceptedNotStale
    <2> QED
      BY <1>3, <2>1, <2>2 DEF ConfirmLatest
  <1>4. ASSUME NEW s \in Requests, CreatePromotion(s) \/ InspectExisting(s)
        PROVE  AcceptedNotStale'
    <2>1. /\ Accept(held[s]) \in Reply /\ Accept(held[s]).name = held[s]
          /\ held[s] >= since[s]
      BY <1>4, ReplyTypes DEF CreatePromotion, InspectExisting, RequestInv, TypeOK, Accept
    <2>2. CASE Return(s, Accept(held[s]))
      BY <1>1, <2>1, <2>2
    <2>3. CASE Return(s, Busy) \/ Return(s, Error)
      BY <1>1, <2>3, ReplyTypes DEF Busy, Error
    <2>4. CASE UNCHANGED <<reply, since>>
      BY <2>4 DEF AcceptedNotStale
    <2> QED
      BY <1>4, <2>2, <2>3, <2>4 DEF CreatePromotion, InspectExisting
  <1>5. ASSUME NEW s \in Requests, ReadStage(s) \/ WriteReservation(s) \/ Fail(s) \/ Crash(s)
        PROVE  AcceptedNotStale'
    <2>1. CASE Return(s, Busy) \/ Return(s, Error) \/ Return(s, NoReply)
      BY <1>1, <2>1, ReplyTypes DEF Busy, Error, NoReply
    <2>2. CASE UNCHANGED <<reply, since>>
      BY <2>2 DEF AcceptedNotStale
    <2> QED
      BY <1>5, <2>1, <2>2 DEF ReadStage, WriteReservation, Fail, Crash
  <1>6. ASSUME NEW s \in Requests, NEW f \in Freights, Submit(s, f)
        PROVE  AcceptedNotStale'
    BY <1>6 DEF AcceptedNotStale, Submit, NoReply, TypeOK
  <1>7. CASE UNCHANGED <<reply, since>>
    BY <1>7 DEF AcceptedNotStale
  <1> QED
    BY <1>2, <1>3, <1>4, <1>5, <1>6, <1>7
       DEF Next, RequestStep, CompareDestination, KargoVerify, KargoFinish,
           KargoRecord, KargoCollect, requests, vars

\* An accepted request is answered with a Promotion no older than the one that
\* Kargo had recorded when it came.
THEOREM AcceptedNotStaleAlways == Spec => []AcceptedNotStale
  <1>1. Init => AcceptedNotStale
    BY DEF Init, AcceptedNotStale, NoReply
  <1> QED
    BY <1>1, NotStaleStep, Invariance, PTL DEF Spec

\* A quiet Stage never refuses a lone request.
THEOREM NeverWedgedAlways == Spec => []NeverWedged
  <1>1. IInv => NeverWedged
    <2> SUFFICES ASSUME IInv, \A n \in Names : Terminal(n) => n <= last,
                        NEW p \in Listed \cup {0}, IsMax(p, Listed \cup {0})
                 PROVE  /\ ~(reservation.pred > Later(p, last))
                        /\ reservation.name > Later(p, last) => reservation.name \notin Listed
      BY DEF NeverWedged, Predecessor, Shared, Overtaken
    <2>1. p \in 0..MaxName /\ last \in 0..MaxName /\ reservation.pred \in 0..MaxName
      BY BoundsAssumption DEF IInv, TypeOK, Listed, Names
    <2>2. reservation.pred <= last
      BY <2>1 DEF IInv, QueueInv, Names
    <2>3. reservation.name \in Listed => reservation.name <= p
      BY DEF IsMax
    <2> QED
      BY <2>1, <2>2, <2>3 DEF Later, Listed, Names
  <1> QED
    BY <1>1, Invariance, PTL

-----------------------------------------------------------------------------
(* The queue implements DeploymentSlot.                                    *)

LEMMA LatestIs ==
    ASSUME NEW p, NEW n \in 0..MaxName,
           n # 0 => p[n].phase # "None",
           \A m \in Names : p[m].phase # "None" => m <= n
    PROVE  LatestAttempt(p) =
              [name    |-> n,
               freight |-> IF n = 0 THEN NoFreight ELSE p[n].freight,
               phase   |-> IF n = 0 THEN "None" ELSE p[n].phase]
  <1> DEFINE Latest(k) == /\ k # 0 => p[k].phase # "None"
                          /\ \A m \in (k + 1)..MaxName : p[m].phase = "None"
  <1>1. Latest(n)
    BY BoundsAssumption DEF Names
  <1>2. ASSUME NEW k \in 0..MaxName, Latest(k) PROVE k = n
    <2>1. ~(k < n)
      BY <1>2, BoundsAssumption
    <2>2. ~(n < k)
      BY <1>2, BoundsAssumption DEF Names
    <2> QED
      BY <2>1, <2>2, BoundsAssumption
  <1>3. n = CHOOSE k \in 0..MaxName : Latest(k)
    BY <1>1, <1>2
  <1> QED
    BY <1>3 DEF LatestAttempt

\* The latest attempt, in terms of the reservation.
LEMMA AttemptIs ==
    ASSUME IInv
    PROVE  \E n \in 0..MaxName :
             /\ n # 0 => n \in Names /\ Created(n)
             /\ \A m \in Names : Created(m) => m <= n
             /\ Attempt = [name    |-> n,
                           freight |-> IF n = 0 THEN NoFreight ELSE promo[n].freight,
                           phase   |-> IF n = 0 THEN "None" ELSE promo[n].phase]
  <1> USE DEF IInv
  <1>1. PICK n \in 0..MaxName :
          /\ n # 0 => n \in Names /\ Created(n)
          /\ \A m \in Names : Created(m) => m <= n
    <2>1. CASE reservation.name \in Names /\ Created(reservation.name)
      <3>1. reservation.pred < reservation.name
        BY <2>1 DEF QueueInv, Names
      <3>2. ASSUME NEW m \in Names, Created(m) PROVE m <= reservation.name
        <4>1. m # reservation.name => m <= reservation.pred
          BY <3>2 DEF QueueInv
        <4>2. reservation.pred \in Nat /\ reservation.name \in Nat /\ m \in Nat
          BY DEF TypeOK, Names
        <4> QED
          BY <3>1, <4>1, <4>2
      <3>3. reservation.name \in 0..MaxName
        BY DEF TypeOK
      <3> QED
        BY <2>1, <3>2, <3>3
    <2>2. CASE ~(reservation.name \in Names /\ Created(reservation.name))
      <3>1. \A m \in Names : Created(m) => m <= reservation.pred
        BY <2>2 DEF QueueInv
      <3>2. reservation.pred # 0 => reservation.pred \in Names /\ Created(reservation.pred)
        BY DEF QueueInv, TypeOK, Terminal, Created, Names
      <3> QED
        BY <3>1, <3>2 DEF TypeOK
    <2> QED
      BY <2>1, <2>2
  <1> QED
    BY <1>1, LatestIs DEF Attempt, Created

LEMMA SlotStep ==
    ASSUME IInv, [Next]_vars
    PROVE  [Slot!Next]_Attempt
  <1> USE DEF IInv
  <1>1. PICK k \in 0..MaxName :
             /\ k # 0 => k \in Names /\ Created(k)
             /\ \A m \in Names : Created(m) => m <= k
             /\ Attempt = [name    |-> k,
                           freight |-> IF k = 0 THEN NoFreight ELSE promo[k].freight,
                           phase   |-> IF k = 0 THEN "None" ELSE promo[k].phase]
    BY AttemptIs
  <1>2. CASE promo' = promo
    BY <1>2 DEF Attempt
  <1>3. ASSUME NEW n \in Names, NEW f \in Freights, ~Created(n),
               \A m \in Names : Created(m) => Terminal(m) /\ m < n,
               promo' = [promo EXCEPT ![n] = [phase |-> "Active", freight |-> f]]
        PROVE  Slot!Start
    <2>1. Attempt.phase # "Active" /\ n > Attempt.name
      BY <1>1, <1>3 DEF Terminal, Names
    <2>2. /\ promo'[n] = [phase |-> "Active", freight |-> f]
          /\ \A m \in Names : promo'[m].phase # "None" => m <= n
      BY <1>3 DEF TypeOK, Created, Names
    <2>3. Attempt' = [name |-> n, freight |-> f, phase |-> "Active"]
      BY <2>2, LatestIs, BoundsAssumption DEF Attempt, Names
    <2> QED
      BY <2>1, <2>3 DEF Slot!Start
  <1>4. ASSUME NEW n \in Names, NEW phase \in {"Succeeded", "Failed"}, Active(n),
               promo' = [promo EXCEPT ![n].phase = phase]
        PROVE  Slot!End
    <2>1. n = reservation.name
      BY <1>4 DEF QueueInv, Active, Terminal, Created
    <2>2. k = n
      <3>1. reservation.pred < n
        BY <2>1 DEF QueueInv, Names
      <3>2. n <= k /\ k \in Names /\ Created(k)
        BY <1>1, <1>4 DEF Active, Created, Names
      <3>3. k # n => k <= reservation.pred
        BY <2>1, <3>2 DEF QueueInv
      <3> QED
        BY <3>1, <3>2, <3>3 DEF TypeOK, Names
    <2>3. Attempt = [name |-> n, freight |-> promo[n].freight, phase |-> "Active"]
      BY <1>1, <1>4, <2>2 DEF Active, Names
    <2>4. /\ promo'[n].phase = phase /\ promo'[n].freight = promo[n].freight
          /\ \A m \in Names : promo'[m].phase # "None" => m <= n
      BY <1>1, <1>4, <2>2 DEF TypeOK, Created
    <2>5. Attempt' = [name |-> n, freight |-> promo[n].freight, phase |-> phase]
      BY <2>4, LatestIs, BoundsAssumption DEF Attempt, Names
    <2> QED
      BY <2>3, <2>5 DEF Slot!End
  <1> QED
    BY <1>2, <1>3, <1>4, PromotionStep DEF Slot!Next

\* A Stage under the reservation protocol is a slot that one attempt at a time
\* occupies, under ever greater names.
THEOREM ImplementsSlot == Spec => SerialDeployment /\ Slot!Spec
  <1>1. Init => Slot!Init
    <2> SUFFICES ASSUME Init PROVE Attempt = [name |-> 0, freight |-> NoFreight, phase |-> "None"]
      BY DEF Slot!Init
    <2>1. \A m \in Names : promo[m].phase = "None"
      BY DEF Init
    <2> QED
      BY <2>1, LatestIs, BoundsAssumption DEF Attempt
  <1> QED
    BY <1>1, SlotStep, Invariance, PTL DEF Spec, SerialDeployment, Slot!Spec

=============================================================================
