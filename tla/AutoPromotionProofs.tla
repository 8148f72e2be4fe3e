-------------------------- MODULE AutoPromotionProofs --------------------------
(***************************************************************************)
(* What AutoPromotion promises, for any replicas, releases and sources and *)
(* any number of edits, publications and faults.                           *)
(***************************************************************************)
EXTENDS AutoPromotion, FiniteSetTheorems, WellFoundedInduction, TLAPS

-----------------------------------------------------------------------------
(* The newest of some releases.                                            *)

\* Releases are listed in a strict order.
LEMMA Ordered ==
    ASSUME NEW f \in Freight, NEW g \in Freight, NEW h \in Freight
    PROVE  /\ ~Before(f, f)
           /\ Before(f, g) /\ Before(g, h) => Before(f, h)
           /\ f = g \/ Before(f, g) \/ Before(g, f)
<1>1. /\ f \in Nat /\ g \in Nat /\ h \in Nat
      /\ Second[f] \in Nat /\ Second[g] \in Nat /\ Second[h] \in Nat
  BY AutoPromotionAssumption
<1> QED BY <1>1 DEF Before

\* Some numbers have a least one.
LEMMA LeastCount ==
    ASSUME NEW counts \in SUBSET Nat, counts # {}
    PROVE  \E n \in counts : \A m \in counts : n <= m
<1>1. \A less : IsWellFoundedOn(less, Nat) =>
          \E n \in counts : \A m \in counts : ~(<<m, n>> \in less)
  BY WFMin
<1>2. PICK n \in counts : \A m \in counts : ~(<<m, n>> \in OpToRel(<, Nat))
  BY <1>1, NatLessThanWellFounded, Zenon
<1>3. \A m \in Nat : m < n => <<m, n>> \in OpToRel(<, Nat)
  BY DEF OpToRel
<1>4. \A m \in counts : ~(m < n)
  BY <1>2, <1>3, Zenon
<1> QED BY <1>4

\* Of some releases, one is listed first: the one that the fewest precede.
LEMMA NewestIsOne ==
    ASSUME NEW releases \in SUBSET Freight, releases # {}
    PROVE  VerifiedReleaseDetails(releases) \in releases
<1> DEFINE earlier(f) == {g \in releases : Before(g, f)}
           counts     == {Cardinality(earlier(f)) : f \in releases}
<1>1. \A f : IsFiniteSet(earlier(f)) /\ Cardinality(earlier(f)) \in Nat
  <2>1. IsFiniteSet(releases)
    BY AutoPromotionAssumption, FS_Subset
  <2>2. \A f : earlier(f) \in SUBSET releases
    OBVIOUS
  <2> HIDE DEF earlier
  <2> QED BY <2>1, <2>2, FS_Subset, FS_CardinalityType
<1>2. \E n \in counts : \A m \in counts : n <= m
  <2>1. counts \subseteq Nat /\ counts # {}
    BY <1>1
  <2> HIDE DEF counts
  <2> QED BY <2>1, LeastCount
<1>3. PICK f \in releases : \A g \in releases : Cardinality(earlier(f)) <= Cardinality(earlier(g))
  BY <1>2
<1>4. ASSUME NEW g \in releases, Before(g, f)
      PROVE  FALSE
  <2>1. earlier(g) \in SUBSET earlier(f)
    BY <1>4, Ordered
  <2>2. g \in earlier(f) /\ g \notin earlier(g)
    BY <1>4, Ordered
  <2>3. Cardinality(earlier(g)) # Cardinality(earlier(f))
    BY <1>1, <2>1, <2>2, FS_Subset
  <2>4. Cardinality(earlier(g)) <= Cardinality(earlier(f))
    BY <1>1, <2>1, FS_Subset
  <2>5. Cardinality(earlier(f)) <= Cardinality(earlier(g))
    BY <1>3
  <2> HIDE DEF earlier
  <2> QED BY <1>1, <2>3, <2>4, <2>5
<1>5. \A g \in releases \ {f} : Before(f, g)
  BY <1>4, Ordered
<1> QED BY <1>5 DEF VerifiedReleaseDetails

-----------------------------------------------------------------------------
(* Types.                                                                  *)

LEMMA IdleRound == Idle \in Rounds /\ Idle.source \in Source /\ Idle.pc = "idle"
BY AutoPromotionAssumption DEF Idle, Rounds, Steps, Releases

LEMMA InitType == Init => TypeOK
<1> SUFFICES ASSUME Init PROVE TypeOK
  OBVIOUS
<1>1. NoFreight \in Releases /\ "None" \in Phases /\ 0 \in 0..Cooldown /\ Cooldown \in 0..Cooldown
  BY AutoPromotionAssumption DEF Releases, Phases
<1>2. app \in Apps /\ stage \in Stages /\ promo \in Promotions
  BY <1>1, IdleRound DEF Init, Apps, Stages, Promotions
<1>3. [freight |-> NoFreight, cooling |-> 0] \in Attempts
  BY <1>1 DEF Attempts
<1>4. /\ round \in [Promoters -> Rounds] /\ attempt \in [Replica -> Attempts]
      /\ since \in [Replica -> 0..Cooldown] /\ moved \subseteq Promoters /\ verified \in [Source -> SUBSET Freight]
  BY <1>1, <1>3, IdleRound DEF Init
<1>5. edits \in 0..MaxEdits /\ publications \in 0..MaxPublications /\ faults \in 0..MaxFaults
  BY AutoPromotionAssumption DEF Init
<1> QED BY <1>1, <1>2, <1>4, <1>5 DEF Init, TypeOK

\* The state of one round, and what a replica remembers.
LEMMA RoundTypes ==
    ASSUME TypeOK, NEW r \in Promoters
    PROVE  /\ round[r] \in Rounds /\ round[r].source \in Source /\ round[r].freight \in Releases
           /\ Done(r) => round' \in [Promoters -> Rounds]
           /\ \A pc \in Steps : GoTo(r, pc) => round' \in [Promoters -> Rounds]
<1>1. round[r] \in Rounds
  BY DEF TypeOK
<1>2. \A pc \in Steps : [round[r] EXCEPT !.pc = pc] \in Rounds
  BY <1>1 DEF Rounds
<1>3. Done(r) => round' \in [Promoters -> Rounds]
  BY IdleRound DEF Done, TypeOK
<1>4. \A pc \in Steps : GoTo(r, pc) => round' \in [Promoters -> Rounds]
  BY <1>2 DEF GoTo, TypeOK
<1> QED BY <1>1, <1>3, <1>4 DEF Rounds

LEMMA MemoryTypes ==
    ASSUME TypeOK, NEW r \in Replica
    PROVE  /\ r \in Promoters
           /\ attempt[r] \in Attempts /\ attempt[r].cooling \in 0..Cooldown
           /\ attempt[r].freight \in Releases
BY DEF TypeOK, Attempts, Promoters

\* The time until a release is tried again.
LEMMA AttemptTypes ==
    ASSUME TypeOK, NEW r, NEW notReady \in BOOLEAN
    PROVE  AfterError(r, notReady) \in [Replica -> Attempts]
<1>1. \A s \in Replica : [attempt[s] EXCEPT !.cooling = SoonAgain] \in Attempts
  BY MemoryTypes, AutoPromotionAssumption DEF Attempts
<1> QED BY <1>1 DEF AfterError, TypeOK

LEMMA FaultType ==
    ASSUME TypeOK, faults < MaxFaults, faults' = faults + 1
    PROVE  faults' \in 0..MaxFaults
BY AutoPromotionAssumption DEF TypeOK

LEMMA CreatesType ==
    ASSUME NEW f \in Releases, Creates(f)
    PROVE  promo' \in Promotions
BY DEF Creates, Promotions, Phases

LEMMA RoundType ==
    ASSUME TypeOK, NEW r \in Replica,
           List(r) \/ WaitForKargo(r) \/ ListReleases(r) \/ Choose(r)
    PROVE  TypeOK'
<1> USE MemoryTypes DEF config, kargo, history
<1>1. CASE List(r)
  <2>1. [pc |-> "listed", source |-> app.source, freight |-> NoFreight] \in Rounds
    BY DEF TypeOK, Apps, Rounds, Steps, Releases
  <2>2. round' \in [Promoters -> Rounds]
    BY <1>1, <2>1 DEF List, TypeOK
  <2> QED BY <1>1, <2>2 DEF List, TypeOK
<1>2. CASE WaitForKargo(r)
  <2>1. round' \in [Promoters -> Rounds]
    BY <1>2, RoundTypes DEF WaitForKargo
  <2>2. stage' \in Stages
    <3>1. stage \in Stages /\ [stage EXCEPT !.refresh = TRUE] \in Stages
      BY DEF TypeOK, Stages
    <3> QED BY <1>2, <3>1 DEF WaitForKargo
  <2> QED BY <1>2, <2>1, <2>2 DEF WaitForKargo, TypeOK
<1>3. CASE ListReleases(r)
  <2> DEFINE listed == {f \in Freight : verifiedReleasePolicy(f, round[r].source)}
  <2>1. listed # {} => VerifiedReleaseDetails(listed) \in Releases
    BY NewestIsOne DEF Releases
  <2>2. listed # {} =>
            [round[r] EXCEPT !.pc = "chosen", !.freight = VerifiedReleaseDetails(listed)] \in Rounds
    BY <2>1, RoundTypes DEF Rounds, Steps
  <2>3. \/ Done(r)
        \/ /\ listed # {}
           /\ round' = [round EXCEPT ![r] = [round[r] EXCEPT
                            !.pc = "chosen", !.freight = VerifiedReleaseDetails(listed)]]
    BY <1>3, Zenon DEF ListReleases
  <2> HIDE DEF listed
  <2>4. round' \in [Promoters -> Rounds]
    BY <2>2, <2>3, RoundTypes DEF TypeOK
  <2> QED BY <1>3, <2>4 DEF ListReleases, TypeOK
<1>4. CASE Choose(r)
  <2>1. round' \in [Promoters -> Rounds]
    BY <1>4, RoundTypes DEF Choose, Steps
  <2>2. [freight |-> round[r].freight, cooling |-> Cooldown] \in Attempts /\ Cooldown \in 0..Cooldown
    BY RoundTypes, AutoPromotionAssumption DEF Attempts
  <2>3. attempt' \in [Replica -> Attempts] /\ since' \in [Replica -> 0..Cooldown]
    BY <1>4, <2>2 DEF Choose, TypeOK
  <2> QED BY <1>4, <2>1, <2>3 DEF Choose, TypeOK
<1> QED BY <1>1, <1>2, <1>3, <1>4

LEMMA PromotesType ==
    ASSUME TypeOK, NEW r \in Promoters, Promotes(r)
    PROVE  TypeOK'
<1> USE DEF config, kargo, history
<1>1. CASE Load(r)
  <2>1. app.source \in Source
    BY DEF TypeOK, Apps
  <2>2. \A pc \in Steps : [round[r] EXCEPT !.pc = pc, !.source = app.source] \in Rounds
    BY <2>1, RoundTypes DEF Rounds
  <2>3. \/ Done(r)
        \/ \E pc \in Steps :
              round' = [round EXCEPT ![r] = [round[r] EXCEPT !.pc = pc, !.source = app.source]]
    <3>1. "submits" \in Steps /\ "prepared" \in Steps
      BY DEF Steps
    <3> QED BY <1>1, <3>1, Zenon DEF Load
  <2>4. round' \in [Promoters -> Rounds]
    BY <2>2, <2>3, RoundTypes DEF TypeOK
  <2>5. argo' \in {"none", "published", "exists"}
    BY <1>1 DEF Load, TypeOK
  <2> QED BY <1>1, <2>4, <2>5 DEF Load, TypeOK
<1>2. CASE WaitForTarget(r)
  <2>1. round' \in [Promoters -> Rounds]
    BY <1>2, RoundTypes DEF WaitForTarget, Steps
  <2>2. attempt' = attempt \/ attempt' = AfterError(r, TRUE)
    BY <1>2 DEF WaitForTarget
  <2>3. attempt' \in [Replica -> Attempts]
    BY <2>2, AttemptTypes DEF TypeOK
  <2> QED BY <1>2, <2>1, <2>3 DEF WaitForTarget, TypeOK
<1>3. CASE Validate(r)
  <2>1. round' \in [Promoters -> Rounds]
    BY <1>3, RoundTypes DEF Validate, Steps
  <2> QED BY <1>3, <2>1 DEF Validate, TypeOK
<1>4. CASE Submit(r)
  <2>1. promo' = promo \/ Creates(round[r].freight)
    BY <1>4 DEF Submit
  <2>2. promo' \in Promotions
    BY <2>1, RoundTypes, CreatesType DEF TypeOK
  <2>3. \A s \in Replica : Cooldown - attempt[s].cooling \in 0..Cooldown
    BY MemoryTypes, AutoPromotionAssumption
  <2>4. since' \in [Replica -> 0..Cooldown]
    BY <1>4, <2>3 DEF Submit, TypeOK
  <2>5. attempt' = attempt \/ attempt' = AfterError(r, FALSE)
    BY <1>4 DEF Submit
  <2>6. attempt' \in [Replica -> Attempts]
    BY <2>5, AttemptTypes DEF TypeOK
  <2>7. faults' \in 0..MaxFaults
    BY <1>4, FaultType DEF Submit, TypeOK
  <2>8. round' \in [Promoters -> Rounds]
    BY <1>4, RoundTypes DEF Submit
  <2> QED BY <1>4, <2>2, <2>4, <2>6, <2>7, <2>8 DEF Submit, TypeOK
<1> QED BY <1>1, <1>2, <1>3, <1>4 DEF Promotes

LEMMA KargoType ==
    ASSUME TypeOK, Kargo
    PROVE  TypeOK'
<1> USE DEF config, kargo, history
<1>1. CASE KargoSees
  BY <1>1 DEF KargoSees, TypeOK
<1>2. CASE KargoReconciles
  BY <1>2 DEF KargoReconciles, TypeOK, Stages
<1>3. CASE KargoAutoPromotes
  <2>1. verified[stage.source] \in SUBSET Freight
    BY DEF TypeOK, Stages
  <2>2. VerifiedReleaseDetails(verified[stage.source]) \in Releases
    BY <2>1, NewestIsOne DEF Releases, VerifiedReleaseDetails
  <2>3. Creates(VerifiedReleaseDetails(verified[stage.source]))
    BY <1>3, Zenon DEF KargoAutoPromotes
  <2>4. promo' \in Promotions
    BY <2>2, <2>3, CreatesType
  <2> QED BY <1>3, <2>4 DEF KargoAutoPromotes, TypeOK
<1>4. CASE KargoEnds
  <2>1. PICK k \in reconcile :
            stage' = [stage EXCEPT !.auto = k.policy, !.handled = k.refresh, !.promoting = Active]
    BY <1>4 DEF KargoEnds
  <2>2. k.policy \in BOOLEAN /\ k.refresh \in BOOLEAN /\ Active \in BOOLEAN
    BY DEF TypeOK, Active
  <2>3. stage' \in Stages
    BY <2>1, <2>2 DEF TypeOK, Stages
  <2> QED BY <1>4, <2>3 DEF KargoEnds, TypeOK
<1>5. CASE KargoSucceeds \/ KargoFails
  <2>1. promo.freight \in Releases /\ git \in Releases
    BY DEF TypeOK, Promotions
  <2>2. \A p \in Phases : [promo EXCEPT !.phase = p] \in Promotions
    BY DEF TypeOK, Promotions
  <2>3. promo' \in Promotions /\ git' \in Releases
    BY <1>5, <2>1, <2>2 DEF KargoSucceeds, KargoFails, Phases
  <2> QED BY <1>5, <2>3 DEF KargoSucceeds, KargoFails, TypeOK
<1>6. CASE KargoRecords
  <2>1. promo' \in Promotions
    BY <1>6 DEF KargoRecords, TypeOK, Promotions
  <2>2. promo.freight \in Releases /\ promo.phase \in Phases /\ stage.current \in Releases
    BY DEF TypeOK, Promotions, Stages
  <2>3. stage' \in Stages
    BY <1>6, <2>2 DEF KargoRecords, TypeOK, Stages
  <2> QED BY <1>6, <2>1, <2>3 DEF KargoRecords, TypeOK
<1>7. ASSUME NEW f \in Freight, NEW s \in Source, KargoVerifies(f, s)
      PROVE  TypeOK'
  BY <1>7 DEF KargoVerifies, TypeOK
<1> QED BY <1>1, <1>2, <1>3, <1>4, <1>5, <1>6, <1>7 DEF Kargo

LEMMA PeopleType ==
    ASSUME TypeOK, People
    PROVE  TypeOK'
<1> USE DEF config, kargo, history
<1>1. Edit => edits' \in 0..MaxEdits
  BY AutoPromotionAssumption DEF Edit, TypeOK
<1>2. CASE Pin \/ EditPipeline
  <2>1. app' \in Apps
    BY <1>2 DEF Pin, EditPipeline, TypeOK, Apps
  <2> QED BY <1>1, <1>2, <2>1 DEF Pin, EditPipeline, TypeOK
<1>3. CASE Publish
  <2>1. stage' \in Stages
    BY <1>3 DEF Publish, TypeOK, Apps, Stages
  <2>2. \A k \in [policy : BOOLEAN, refresh : BOOLEAN] :
            [k EXCEPT !.refresh = FALSE] \in [policy : BOOLEAN, refresh : BOOLEAN]
    OBVIOUS
  <2>3. reconcile' = {[k EXCEPT !.refresh = FALSE] : k \in reconcile}
    BY <1>3 DEF Publish
  <2>4. reconcile' \subseteq [policy : BOOLEAN, refresh : BOOLEAN]
    BY <2>2, <2>3 DEF TypeOK
  <2>5. publications' \in 0..MaxPublications
    BY <1>3, AutoPromotionAssumption DEF Publish, TypeOK
  <2>6. moved' \subseteq Promoters
    BY <1>3 DEF Publish, TypeOK
  <2> QED BY <1>3, <2>1, <2>4, <2>5, <2>6 DEF Publish, TypeOK
<1>4. ASSUME NEW f \in Freight, PromoteByHand(f)
      PROVE  TypeOK'
  <2>1. [pc |-> "due", source |-> app.source, freight |-> f] \in Rounds
    BY DEF TypeOK, Apps, Rounds, Steps, Releases
  <2>2. round' \in [Promoters -> Rounds]
    BY <1>4, <2>1 DEF PromoteByHand, TypeOK
  <2> QED BY <1>1, <1>4, <2>2 DEF PromoteByHand, TypeOK
<1> QED BY <1>2, <1>3, <1>4 DEF People

LEMMA NextType == TypeOK /\ [Next]_vars => TypeOK'
<1> SUFFICES ASSUME TypeOK, [Next]_vars PROVE TypeOK'
  OBVIOUS
<1> USE DEF config, kargo, history
<1>1. ASSUME NEW r \in Promoters, Fails(r)
      PROVE  TypeOK'
  <2>1. round' \in [Promoters -> Rounds] /\ attempt' \in [Replica -> Attempts]
    BY <1>1, RoundTypes, AttemptTypes DEF Fails
  <2>2. faults' \in 0..MaxFaults
    BY <1>1, FaultType DEF Fails
  <2> QED BY <1>1, <2>1, <2>2 DEF Fails, TypeOK
<1>2. ASSUME NEW r \in Replica, Restart(r)
      PROVE  TypeOK'
  <2>1. round' \in [Promoters -> Rounds] /\ faults' \in 0..MaxFaults
    BY <1>2, MemoryTypes, RoundTypes, FaultType DEF Restart
  <2>2. [freight |-> NoFreight, cooling |-> 0] \in Attempts /\ Cooldown \in 0..Cooldown
    BY AutoPromotionAssumption DEF Attempts, Releases
  <2>3. attempt' \in [Replica -> Attempts] /\ since' \in [Replica -> 0..Cooldown]
    BY <1>2, <2>2 DEF Restart, TypeOK
  <2> QED BY <1>2, <2>1, <2>3 DEF Restart, TypeOK
<1>3. CASE Minutes
  <2>1. \A a \in Attempts : [a EXCEPT !.cooling = IF @ = 0 THEN 0 ELSE @ - 1] \in Attempts
    BY AutoPromotionAssumption DEF Attempts
  <2>2. attempt' \in [Replica -> Attempts]
    BY <1>3, <2>1 DEF Minutes, TypeOK
  <2>3. \A n \in 0..Cooldown : (IF n = Cooldown THEN Cooldown ELSE n + 1) \in 0..Cooldown
    BY AutoPromotionAssumption
  <2>4. since' \in [Replica -> 0..Cooldown]
    BY <1>3, <2>3 DEF Minutes, TypeOK
  <2> QED BY <1>3, <2>2, <2>4 DEF Minutes, TypeOK
<1>4. CASE ArgoCreates
  BY <1>4 DEF ArgoCreates, TypeOK
<1>5. CASE UNCHANGED vars
  BY <1>5 DEF vars, TypeOK
<1>6. ASSUME NEW r \in Promoters, Promotes(r)
      PROVE  TypeOK'
  BY <1>6, PromotesType
<1>7. Replica \subseteq Promoters /\ Person \in Promoters
  BY DEF Promoters
<1> QED BY <1>1, <1>2, <1>3, <1>4, <1>5, <1>6, <1>7, RoundType, KargoType, PeopleType
        DEF Next, Round

\* Every state is well typed.
THEOREM TypeCorrect == Spec => []TypeOK
BY InitType, NextType, PTL DEF Spec

-----------------------------------------------------------------------------
(* One scheduler at a time.                                                *)

\* What a token that Kargo has got says of the configuration.
TokenInv ==
    /\ stage.refresh \/ stage.handled \/ (\E k \in reconcile : k.refresh) => ~policy
    /\ \A k \in reconcile : k.refresh /\ ~k.policy => ~seen

\* A refresh that was handled, with the policy, by one reconciliation at a time.
HandoffInv ==
    /\ \A k, l \in reconcile : k = l
    /\ stage.handled /\ ~stage.auto => ~seen /\ \A k \in reconcile : ~k.policy
    /\ handed => ~policy
    /\ OneScheduler

SchedulerInv == TokenInv /\ HandoffInv

LEMMA SchedulerInit == Init => SchedulerInv
BY DEF Init, SchedulerInv, TokenInv, HandoffInv, OneScheduler

LEMMA SchedulerNext == TypeOK /\ SchedulerInv /\ [Next]_vars => SchedulerInv'
<1> SUFFICES ASSUME TypeOK, SchedulerInv, [Next]_vars PROVE SchedulerInv'
  OBVIOUS
<1> USE DEF SchedulerInv, TokenInv, HandoffInv, OneScheduler
<1>1. stage \in Stages
  BY DEF TypeOK
<1>2. CASE UNCHANGED <<policy, seen, reconcile, stage, handed>>
  BY <1>2
<1>3. ASSUME NEW r \in Replica, WaitForKargo(r)
      PROVE  SchedulerInv'
  <2>1. UNCHANGED <<policy, seen, reconcile, handed>>
    BY <1>3 DEF WaitForKargo, config, kargo, history
  <2>2. /\ stage'.handled = stage.handled /\ stage'.auto = stage.auto
        /\ stage'.refresh => stage.refresh \/ ~policy
    BY <1>1, <1>3 DEF WaitForKargo, Stages
  <2> QED BY <2>1, <2>2
<1>4. ASSUME NEW r \in Replica, ListReleases(r)
      PROVE  SchedulerInv'
  BY <1>4 DEF ListReleases, SchedulerReady, config, kargo
<1>5. CASE Publish
  <2>1. /\ policy' = FALSE /\ UNCHANGED <<seen, handed>>
        /\ \A k \in reconcile' : \E l \in reconcile : k = [l EXCEPT !.refresh = FALSE]
    BY <1>5 DEF Publish, history
  <2>2. ~stage'.handled
    BY <1>1, <1>5 DEF Publish, Stages
  <2>3. \A k \in reconcile' : ~k.refresh /\ \E l \in reconcile : k.policy = l.policy
    BY <2>1 DEF TypeOK
  <2>4. \A k, l \in reconcile' : k = l
    BY <2>1
  <2> QED BY <2>1, <2>2, <2>3, <2>4
<1>6. CASE KargoSees
  BY <1>6 DEF KargoSees, config, history
<1>7. CASE KargoReconciles
  BY <1>7 DEF KargoReconciles, config, history
<1>8. CASE KargoEnds
  <2>1. PICK k \in reconcile :
            stage' = [stage EXCEPT !.auto = k.policy, !.handled = k.refresh, !.promoting = Active]
    BY <1>8 DEF KargoEnds
  <2>2. stage'.auto = k.policy /\ stage'.handled = k.refresh /\ stage'.refresh = stage.refresh
    BY <1>1, <2>1 DEF Stages
  <2>3. reconcile' = {} /\ UNCHANGED <<policy, seen, handed>>
    BY <1>8 DEF KargoEnds, config, history
  <2> QED BY <2>2, <2>3
<1>9. CASE KargoRecords
  <2>1. UNCHANGED <<policy, seen, reconcile, handed>>
    BY <1>9 DEF KargoRecords, config, kargo, history
  <2>2. /\ stage'.handled = stage.handled /\ stage'.auto = stage.auto
        /\ stage'.refresh = stage.refresh
    BY <1>1, <1>9 DEF KargoRecords, Stages
  <2> QED BY <2>1, <2>2
<1>10. ASSUME NEW r, List(r) \/ Choose(r) \/ Promotes(r) \/ Fails(r) \/ Restart(r)
       PROVE  UNCHANGED <<policy, seen, reconcile, stage, handed>>
  BY <1>10 DEF List, Choose, Promotes, Load, WaitForTarget, Validate, Submit, Fails, Restart, config, kargo, history
<1>11. ASSUME Pin \/ EditPipeline \/ \E f \in Freight : PromoteByHand(f)
       PROVE  UNCHANGED <<policy, seen, reconcile, stage, handed>>
  BY <1>11 DEF Pin, EditPipeline, PromoteByHand, config, kargo, history
<1>12. ASSUME \/ KargoAutoPromotes \/ KargoSucceeds \/ KargoFails
              \/ \E f \in Freight, s \in Source : KargoVerifies(f, s)
       PROVE  UNCHANGED <<policy, seen, reconcile, stage, handed>>
  BY <1>12 DEF KargoAutoPromotes, KargoSucceeds, KargoFails, KargoVerifies, config, kargo, history
<1>13. ASSUME Minutes \/ ArgoCreates \/ UNCHANGED vars
       PROVE  UNCHANGED <<policy, seen, reconcile, stage, handed>>
  BY <1>13 DEF Minutes, ArgoCreates, vars, config, kargo, history
<1> QED BY <1>2, <1>3, <1>4, <1>5, <1>6, <1>7, <1>8, <1>9, <1>10, <1>11, <1>12, <1>13
        DEF Next, Round, Kargo, People

\* Kargo never promotes by itself to what Suparship has taken over.
THEOREM OneSchedulerAlways == Spec => []OneScheduler
<1>1. SchedulerInv => OneScheduler
  BY DEF SchedulerInv, HandoffInv
<1> QED BY <1>1, SchedulerInit, SchedulerNext, TypeCorrect, PTL DEF Spec

-----------------------------------------------------------------------------
(* How often a release is promoted.                                        *)

\* A replica that is about to submit a release has created no Promotion since it chose
\* it; and one that has created a Promotion waits until the cooldown has passed.
Deciding == {"due", "prepared", "submits", "validated"}

SpacingInv ==
    \A r \in Replica :
        /\ round[r].pc \in Deciding => since[r] = Cooldown
        /\ since[r] + attempt[r].cooling >= Cooldown

LEMMA SpacingInit == Init => SpacingInv
BY AutoPromotionAssumption, IdleRound DEF Init, SpacingInv, Deciding, Promoters

\* What a step of a replica does to its attempt: nothing, or a new one if the last has
\* cooled, or that it is tried again soon because nothing was submitted, or that a
\* Promotion was created, or all is forgotten.
Spacing(r) ==
    \/ /\ round'[r].pc \in Deciding => round[r].pc \in Deciding
       /\ attempt'[r] = attempt[r] /\ since'[r] = since[r]
    \/ /\ Cooled(r, attempt'[r].freight)
       /\ attempt'[r].cooling = Cooldown /\ since'[r] = Cooldown
    \/ /\ round[r].pc \in Deciding /\ round'[r].pc \notin Deciding
       /\ attempt'[r].cooling = SoonAgain /\ since'[r] = since[r]
    \/ /\ round'[r].pc \notin Deciding
       /\ attempt'[r] = attempt[r] /\ since'[r] = Cooldown - attempt[r].cooling
    \/ /\ round'[r].pc \notin Deciding
       /\ attempt'[r].cooling = 0 /\ since'[r] = Cooldown

LEMMA ReplicaSpacing ==
    ASSUME TypeOK, NEW r \in Replica, Round(r) \/ Fails(r) \/ Restart(r)
    PROVE  Spacing(r)
<1> USE DEF history
<1>1. /\ round \in [Promoters -> Rounds] /\ r \in Promoters
      /\ attempt \in [Replica -> Attempts] /\ since \in [Replica -> 0..Cooldown]
  BY DEF TypeOK, Promoters
<1>2. round[r] \in Rounds /\ attempt[r] \in Attempts /\ Idle.pc \notin Deciding
  BY <1>1 DEF Idle, Deciding
<1>3. Done(r) => round'[r].pc \notin Deciding
  BY <1>1, <1>2 DEF Done
<1>4. \A pc : GoTo(r, pc) => round'[r].pc = pc
  BY <1>1, <1>2 DEF GoTo, Rounds
<1>5. CASE List(r)
  <2>1. round'[r].pc = "listed"
    BY <1>1, <1>5 DEF List
  <2> QED BY <1>5, <2>1 DEF List, Spacing, Deciding
<1>6. CASE WaitForKargo(r)
  BY <1>3, <1>6 DEF WaitForKargo, Spacing
<1>7. CASE ListReleases(r)
  <2> DEFINE f == VerifiedReleaseDetails({g \in Freight : verifiedReleasePolicy(g, round[r].source)})
  <2>1. Done(r) \/ round' = [round EXCEPT ![r] = [round[r] EXCEPT !.pc = "chosen", !.freight = f]]
    BY <1>7, Zenon DEF ListReleases
  <2>2. UNCHANGED <<attempt, since>>
    BY <1>7 DEF ListReleases
  <2> HIDE DEF f
  <2>3. round'[r].pc \notin Deciding
    BY <1>1, <1>2, <1>3, <2>1 DEF Rounds, Deciding
  <2> QED BY <2>2, <2>3 DEF Spacing
<1>8. CASE Choose(r)
  <2>1. CASE Done(r) /\ UNCHANGED <<attempt, since>>
    BY <1>3, <2>1 DEF Spacing
  <2>2. CASE /\ Cooled(r, round[r].freight)
             /\ attempt' = [attempt EXCEPT ![r] = [freight |-> round[r].freight, cooling |-> Cooldown]]
             /\ since' = [since EXCEPT ![r] = Cooldown]
    <3>1. /\ attempt'[r] = [freight |-> round[r].freight, cooling |-> Cooldown]
          /\ since'[r] = Cooldown
      BY <1>1, <2>2
    <3> QED BY <2>2, <3>1 DEF Spacing
  <2> QED BY <1>8, <2>1, <2>2, Zenon DEF Choose
<1>9. CASE Load(r)
  <2>1. round[r].pc \in Deciding /\ UNCHANGED <<attempt, since>>
    BY <1>9 DEF Load, At, Deciding
  <2> QED BY <2>1 DEF Spacing
<1>10. CASE WaitForTarget(r)
  <2>1. round[r].pc \in Deciding /\ UNCHANGED since
    BY <1>10 DEF WaitForTarget, At, Deciding
  <2>2. CASE UNCHANGED attempt
    BY <2>1, <2>2 DEF Spacing
  <2>3. CASE Done(r) /\ attempt' = AfterError(r, TRUE)
    <3>1. attempt'[r].cooling = SoonAgain
      BY <1>1, <1>2, <2>3 DEF AfterError, Attempts
    <3> QED BY <1>3, <2>1, <2>3, <3>1 DEF Spacing
  <2> QED BY <1>10, <2>2, <2>3 DEF WaitForTarget
<1>11. CASE Submit(r)
  <2>1. Done(r) /\ UNCHANGED attempt
    BY <1>11 DEF Submit, AfterError
  <2>2. \/ since' = since
        \/ since' = [s \in Replica |-> IF s = r THEN Cooldown - attempt[s].cooling ELSE since[s]]
    BY <1>11 DEF Submit
  <2>3. since'[r] = since[r] \/ since'[r] = Cooldown - attempt[r].cooling
    BY <1>1, <2>2
  <2> QED BY <1>3, <2>1, <2>3 DEF Spacing
<1>12. CASE Fails(r)
  BY <1>3, <1>12 DEF Fails, AfterError, Spacing
<1>13. CASE Restart(r)
  <2>1. Done(r) /\ attempt'[r].cooling = 0 /\ since'[r] = Cooldown
    BY <1>1, <1>13 DEF Restart
  <2> QED BY <1>3, <2>1 DEF Spacing
<1>14. CASE Validate(r)
  <2>1. round[r].pc \in Deciding /\ UNCHANGED <<attempt, since>>
    BY <1>14 DEF Validate, At, Deciding
  <2> QED BY <2>1 DEF Spacing
<1> QED BY <1>5, <1>6, <1>7, <1>8, <1>9, <1>10, <1>11, <1>12, <1>13, <1>14 DEF Round, Promotes

\* A step of one replica or of the person is none of another replica.
LEMMA OthersKeep ==
    ASSUME TypeOK, NEW r \in Promoters, Round(r) \/ Promotes(r) \/ Fails(r) \/ Restart(r),
           NEW s \in Replica, s # r
    PROVE  round'[s] = round[s] /\ attempt'[s] = attempt[s] /\ since'[s] = since[s]
<1>1. s \in Promoters
  BY DEF Promoters
<1> QED BY <1>1 DEF Round, List, WaitForKargo, ListReleases, Choose, Promotes, Load, WaitForTarget,
                    Validate, Submit, Fails, Restart, Done, GoTo, AfterError, history, TypeOK

\* Apart from the replicas' own steps, only time moves what they remember.
LEMMA OnlyTimePasses ==
    ASSUME TypeOK, ArgoCreates \/ Kargo \/ People \/ UNCHANGED vars, NEW r \in Replica
    PROVE  round'[r] = round[r] /\ UNCHANGED <<attempt, since>>
<1>1. r \in Promoters /\ r # Person
  BY AutoPromotionAssumption DEF Promoters
<1>2. CASE ArgoCreates \/ Kargo \/ UNCHANGED vars
  BY <1>2 DEF ArgoCreates, Kargo, KargoSees, KargoReconciles, KargoAutoPromotes, KargoEnds,
              KargoSucceeds, KargoFails, KargoRecords, KargoVerifies, vars, history
<1>3. CASE Pin \/ EditPipeline \/ Publish
  BY <1>3 DEF Pin, EditPipeline, Publish, history
<1>4. ASSUME NEW f \in Freight, PromoteByHand(f)
      PROVE  round'[r] = round[r] /\ UNCHANGED <<attempt, since>>
  BY <1>1, <1>4 DEF PromoteByHand, history, TypeOK
<1> QED BY <1>2, <1>3, <1>4 DEF People

LEMMA TimePasses ==
    ASSUME TypeOK, Minutes, NEW r \in Replica
    PROVE  /\ round'[r] = round[r]
           /\ attempt'[r].cooling = (IF attempt[r].cooling = 0 THEN 0 ELSE attempt[r].cooling - 1)
           /\ since'[r] = (IF since[r] = Cooldown THEN Cooldown ELSE since[r] + 1)
<1>1. attempt[r] \in Attempts
  BY DEF TypeOK
<1> QED BY <1>1 DEF Minutes, Attempts

LEMMA SpacingNext == TypeOK /\ SpacingInv /\ [Next]_vars => SpacingInv'
<1> SUFFICES ASSUME TypeOK, SpacingInv, [Next]_vars, NEW r \in Replica
             PROVE  /\ round'[r].pc \in Deciding => since'[r] = Cooldown
                    /\ since'[r] + attempt'[r].cooling >= Cooldown
  BY DEF SpacingInv
<1>1. /\ since[r] \in 0..Cooldown /\ attempt[r].cooling \in 0..Cooldown
      /\ round[r].pc \in Deciding => since[r] = Cooldown
      /\ since[r] + attempt[r].cooling >= Cooldown
      /\ Cooldown \in Nat /\ SoonAgain \in 0..Cooldown
  BY MemoryTypes, AutoPromotionAssumption DEF TypeOK, SpacingInv
<1>2. CASE Round(r) \/ Fails(r) \/ Restart(r)
  BY <1>1, <1>2, ReplicaSpacing DEF Spacing
<1>3. ASSUME NEW s \in Promoters, s # r, Round(s) \/ Promotes(s) \/ Fails(s) \/ Restart(s)
      PROVE  round'[r] = round[r] /\ attempt'[r] = attempt[r] /\ since'[r] = since[r]
  BY <1>3, OthersKeep
<1>4. CASE Minutes
  BY <1>1, <1>4, TimePasses
<1>5. CASE ArgoCreates \/ Kargo \/ People \/ UNCHANGED vars
  BY <1>1, <1>5, OnlyTimePasses
<1>6. Replica \subseteq Promoters /\ Person \in Promoters /\ Person # r
  BY AutoPromotionAssumption DEF Promoters
<1> QED BY <1>1, <1>2, <1>3, <1>4, <1>5, <1>6 DEF Next

\* Having created a Promotion of a release, a replica waits out the cooldown.
THEOREM RetriesAreSpacedAlways == Spec => RetriesAreSpaced
<1>1. Spec => []SpacingInv
  BY SpacingInit, SpacingNext, TypeCorrect, PTL DEF Spec
<1>2. TypeOK /\ SpacingInv /\ [Next]_vars =>
          [\A r \in Replica :
              attempt'[r].freight = attempt[r].freight /\ attempt'[r].cooling > attempt[r].cooling
              => since[r] = Cooldown]_vars
  <2> SUFFICES ASSUME TypeOK, SpacingInv, [Next]_vars, NEW r \in Replica,
                      attempt'[r].freight = attempt[r].freight,
                      attempt'[r].cooling > attempt[r].cooling
               PROVE  since[r] = Cooldown
    OBVIOUS
  <2>1. /\ since[r] \in 0..Cooldown /\ attempt[r].cooling \in 0..Cooldown
        /\ round[r].pc \in Deciding => since[r] = Cooldown
        /\ since[r] + attempt[r].cooling >= Cooldown
        /\ Cooldown \in Nat
    BY MemoryTypes, AutoPromotionAssumption DEF TypeOK, SpacingInv
  <2>2. CASE Round(r) \/ Fails(r) \/ Restart(r)
    BY <2>1, <2>2, ReplicaSpacing DEF Spacing, Cooled
  <2>3. ASSUME NEW s \in Promoters, s # r, Round(s) \/ Promotes(s) \/ Fails(s) \/ Restart(s)
        PROVE  attempt'[r] = attempt[r]
    BY <2>3, OthersKeep
  <2>4. CASE Minutes
    BY <2>1, <2>4, TimePasses
  <2>5. CASE ArgoCreates \/ Kargo \/ People \/ UNCHANGED vars
    BY <2>1, <2>5, OnlyTimePasses
  <2>6. Replica \subseteq Promoters /\ Person \in Promoters /\ Person # r
    BY AutoPromotionAssumption DEF Promoters
  <2> QED BY <2>1, <2>2, <2>3, <2>4, <2>5, <2>6 DEF Next
<1> QED BY <1>1, <1>2, TypeCorrect, PTL DEF Spec, RetriesAreSpaced

-----------------------------------------------------------------------------
(* What is promoted.                                                       *)

\* A release that was validated stays verified in the source it was validated for,
\* which is the Stage's until a publication changes it.
ValidatedInv ==
    \A r \in Promoters : round[r].pc = "validated" =>
        /\ round[r].freight \in verified[round[r].source]
        /\ r \in moved \/ round[r].source = stage.source

LEMMA ValidatedInit == Init => ValidatedInv
BY IdleRound DEF Init, ValidatedInv

\* Only a validation gets a request there, and leaves alone what it has read.
LEMMA OnlyValidated ==
    ASSUME TypeOK, NEW r \in Promoters, Round(r) \/ Promotes(r) \/ Fails(r) \/ Restart(r)
    PROVE  /\ \A q \in Promoters \ {r} : round'[q] = round[q]
           /\ \/ round'[r].pc # "validated" /\ UNCHANGED moved
              \/ Validate(r) /\ moved' = moved \ {r} /\ round'[r].pc = "validated"
              \/ Validate(r) /\ moved' = moved \ {r} /\ round'[r].pc # "validated"
           /\ UNCHANGED verified /\ stage'.source = stage.source
<1>1. /\ round \in [Promoters -> Rounds] /\ round[r] \in Rounds
      /\ stage \in Stages /\ [stage EXCEPT !.refresh = TRUE].source = stage.source
  BY DEF TypeOK, Stages
<1>2. UNCHANGED verified /\ stage'.source = stage.source
  BY <1>1 DEF Round, List, WaitForKargo, ListReleases, Choose, Promotes, Load, WaitForTarget,
              Validate, Submit, Fails, Restart
<1>3. \A q \in Promoters \ {r} : round'[q] = round[q]
  BY <1>1 DEF Round, List, WaitForKargo, ListReleases, Choose, Promotes, Load, WaitForTarget,
              Validate, Submit, Fails, Restart, Done, GoTo
<1>4. /\ Done(r) => round'[r].pc # "validated"
      /\ \A pc : GoTo(r, pc) => round'[r].pc = pc
  BY <1>1, IdleRound DEF Done, GoTo, Rounds
<1>5. CASE List(r) \/ WaitForKargo(r) \/ ListReleases(r) \/ Choose(r)
  <2>1. UNCHANGED moved
    BY <1>5 DEF List, WaitForKargo, ListReleases, Choose, history
  <2>2. round'[r].pc # "validated"
    BY <1>1, <1>4, <1>5 DEF List, WaitForKargo, ListReleases, Choose, Rounds
  <2> QED BY <1>2, <1>3, <2>1, <2>2
<1>6. CASE Load(r) \/ WaitForTarget(r) \/ Submit(r) \/ Fails(r) \/ Restart(r)
  <2>1. UNCHANGED moved
    BY <1>6 DEF Load, WaitForTarget, Submit, Fails, Restart, history
  <2>2. round'[r].pc # "validated"
    BY <1>1, <1>4, <1>6 DEF Load, WaitForTarget, Submit, Fails, Restart, Rounds
  <2> QED BY <1>2, <1>3, <2>1, <2>2
<1>7. CASE Validate(r)
  <2>1. moved' = moved \ {r}
    BY <1>7 DEF Validate
  <2> QED BY <1>2, <1>3, <1>7, <2>1
<1> QED BY <1>5, <1>6, <1>7 DEF Round, Promotes

LEMMA ValidatedNext == TypeOK /\ ValidatedInv /\ [Next]_vars => ValidatedInv'
<1> SUFFICES ASSUME TypeOK, ValidatedInv, [Next]_vars,
                    NEW q \in Promoters, round'[q].pc = "validated"
             PROVE  /\ round'[q].freight \in verified'[round'[q].source]
                    /\ q \in moved' \/ round'[q].source = stage'.source
  BY DEF ValidatedInv
<1>1. round[q].pc = "validated" => /\ round[q].freight \in verified[round[q].source]
                                   /\ q \in moved \/ round[q].source = stage.source
  BY DEF ValidatedInv
<1>2. ASSUME NEW r \in Promoters, Round(r) \/ Promotes(r) \/ Fails(r) \/ Restart(r)
      PROVE  /\ round'[q].freight \in verified'[round'[q].source]
             /\ q \in moved' \/ round'[q].source = stage'.source
  <2>1. CASE q # r
    BY <1>1, <1>2, <2>1, OnlyValidated
  <2>2. CASE q = r
    <3>1. Validate(r) /\ UNCHANGED verified /\ stage'.source = stage.source
      BY <1>2, <2>2, OnlyValidated
    <3>2. ~Done(r)
      BY <2>2, IdleRound DEF Done, TypeOK
    <3>3. verifiedReleasePolicy(round[r].freight, round[r].source) /\ GoTo(r, "validated")
      BY <3>1, <3>2 DEF Validate
    <3>4. round'[r].freight = round[r].freight /\ round'[r].source = round[r].source
      BY <3>3 DEF GoTo, TypeOK, Rounds
    <3> QED BY <2>2, <3>1, <3>3, <3>4 DEF verifiedReleasePolicy
  <2> QED BY <2>1, <2>2
<1>3. CASE Minutes \/ ArgoCreates \/ Pin \/ EditPipeline \/ UNCHANGED vars
  <2>1. UNCHANGED <<round, verified, moved, stage>>
    BY <1>3 DEF Minutes, ArgoCreates, Pin, EditPipeline, vars, history
  <2> QED BY <1>1, <2>1
<1>4. CASE Kargo
  <2>1. UNCHANGED <<round, moved>>
    BY <1>4 DEF Kargo, KargoSees, KargoReconciles, KargoAutoPromotes, KargoEnds, KargoSucceeds,
                KargoFails, KargoRecords, KargoVerifies, history
  <2>2. stage'.source = stage.source
    <3>1. stage \in Stages
      BY DEF TypeOK
    <3> QED BY <1>4, <3>1 DEF Kargo, KargoSees, KargoReconciles, KargoAutoPromotes, KargoEnds,
                KargoSucceeds, KargoFails, KargoRecords, KargoVerifies, Stages
  <2>3. \A s \in Source : verified[s] \subseteq verified'[s]
    BY <1>4 DEF Kargo, KargoSees, KargoReconciles, KargoAutoPromotes, KargoEnds, KargoSucceeds,
                KargoFails, KargoRecords, KargoVerifies, TypeOK
  <2> QED BY <1>1, <2>1, <2>2, <2>3, RoundTypes
<1>5. CASE Publish
  <2>1. /\ UNCHANGED <<round, verified>>
        /\ moved' = IF stage.source = app.source THEN moved
                    ELSE moved \cup {r \in Promoters : At(r, "validated")}
        /\ stage' = [stage EXCEPT !.source = app.source, !.refresh = FALSE, !.handled = FALSE]
    BY <1>5 DEF Publish
  <2>2. stage'.source = app.source
    BY <2>1 DEF TypeOK, Stages
  <2> QED BY <1>1, <2>1, <2>2 DEF At
<1>6. ASSUME NEW f \in Freight, PromoteByHand(f)
      PROVE  /\ round'[q].freight \in verified'[round'[q].source]
             /\ q \in moved' \/ round'[q].source = stage'.source
  <2>1. q # Person /\ round'[q] = round[q]
    BY <1>6 DEF PromoteByHand, TypeOK
  <2> QED BY <1>1, <1>6, <2>1 DEF PromoteByHand, history
<1>7. Replica \subseteq Promoters /\ Person \in Promoters
  BY DEF Promoters
<1> QED BY <1>2, <1>3, <1>4, <1>5, <1>6, <1>7 DEF Next, People

\* Whoever creates a Promotion, the release was verified in the source that the Stage
\* asks for, or asked for when it was validated.
THEOREM VerifiedAllTheWayAlways == Spec => VerifiedAllTheWay
<1>1. Spec => []ValidatedInv
  BY ValidatedInit, ValidatedNext, TypeCorrect, PTL DEF Spec
<1>2. TypeOK /\ ValidatedInv /\ [Next]_vars =>
          [promo'.phase = "Active" /\ ~Active
           => \/ promo'.freight \in verified[stage.source]
              \/ \E r \in moved : /\ round[r].pc = "validated" /\ round'[r] = Idle
                                 /\ promo'.freight = round[r].freight
                                 /\ promo'.freight \in verified[round[r].source]]_vars
  <2> SUFFICES ASSUME TypeOK, ValidatedInv, [Next]_vars, promo'.phase = "Active", ~Active
               PROVE  \/ promo'.freight \in verified[stage.source]
                      \/ \E r \in moved : /\ round[r].pc = "validated" /\ round'[r] = Idle
                                         /\ promo'.freight = round[r].freight
                                         /\ promo'.freight \in verified[round[r].source]
    OBVIOUS
  <2>1. promo' # promo
    BY DEF Active
  <2>2. ASSUME NEW r \in Promoters, Round(r) \/ Promotes(r) \/ Fails(r) \/ Restart(r)
        PROVE  \/ promo'.freight \in verified[stage.source]
               \/ \E q \in moved : /\ round[q].pc = "validated" /\ round'[q] = Idle
                                  /\ promo'.freight = round[q].freight
                                  /\ promo'.freight \in verified[round[q].source]
    <3>1. Submit(r)
      BY <2>1, <2>2 DEF Round, List, WaitForKargo, ListReleases, Choose, Promotes, Load,
                        WaitForTarget, Validate, Fails, Restart
    <3>2. round[r].pc = "validated" /\ Done(r) /\ Creates(round[r].freight)
      BY <2>1, <3>1 DEF Submit, At
    <3>3. round'[r] = Idle /\ promo'.freight = round[r].freight
      BY <3>2 DEF Done, Creates, TypeOK
    <3> QED BY <3>2, <3>3 DEF ValidatedInv
  <2>3. CASE Kargo
    <3>1. CASE KargoAutoPromotes
      <4> DEFINE known == verified[stage.source]
      <4>1. known \in SUBSET Freight
        BY DEF TypeOK, Stages
      <4>2. Creates(VerifiedReleaseDetails(known)) /\ VerifiedReleaseDetails(known) # NoFreight
        BY <3>1, Zenon DEF KargoAutoPromotes
      <4>3. VerifiedReleaseDetails(known) \in known
        BY <4>1, <4>2, NewestIsOne DEF VerifiedReleaseDetails
      <4>4. promo'.freight = VerifiedReleaseDetails(known)
        BY <4>2 DEF Creates
      <4> QED BY <4>3, <4>4
    <3>2. CASE KargoSucceeds \/ KargoFails \/ KargoRecords
      <4>1. promo'.phase # "Active"
        BY <3>2 DEF KargoSucceeds, KargoFails, KargoRecords, Active, TypeOK, Promotions
      <4> QED BY <4>1
    <3> QED BY <2>1, <2>3, <3>1, <3>2 DEF Kargo, KargoSees, KargoReconciles, KargoEnds,
                                          KargoVerifies
  <2>4. ~(Minutes \/ ArgoCreates \/ People \/ UNCHANGED vars)
    BY <2>1 DEF Minutes, ArgoCreates, People, Pin, EditPipeline, Publish, PromoteByHand, vars
  <2>5. Replica \subseteq Promoters /\ Person \in Promoters
    BY DEF Promoters
  <2> QED BY <2>2, <2>3, <2>4, <2>5 DEF Next
<1> QED BY <1>1, <1>2, TypeCorrect, PTL DEF Spec, VerifiedAllTheWay
=============================================================================
