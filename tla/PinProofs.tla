----------------------------- MODULE PinProofs ------------------------------
(***************************************************************************)
(* What an environment or an app is pinned to, for any number of requests, *)
(* builds, versions and faults.                                            *)
(*                                                                         *)
(* EnvironmentHold: what is saved is a hold or no hold, never a mixture,   *)
(* however requests overlap.  When they do not, a hold is paused exactly while *)
(* it lasts and resuming goes back to what the first hold replaced.        *)
(*                                                                         *)
(* TemplateCatalog (second part): an app is published as it is pinned, the *)
(* upgrade of one environment leaves the others, and the chart in Git for a *)
(* pin is that of the version.  The last needs that a version that an app is *)
(* pinned to stays available under its name, in the registry or archived, or *)
(* is lacking, through every sync, upload and fault (KeptInv).             *)
(***************************************************************************)
EXTENDS EnvironmentHold, TemplateCatalog, FiniteSetTheorems, TLAPS

\* The tags, apart: no image is the absent tag, and a preview's is no build.
LEMMA TagsApart ==
    /\ NoTag \notin Builds /\ Preview \notin Builds /\ Preview # NoTag
    /\ Builds \subseteq Tags /\ NoTag \in Tags /\ Preview \in Tags
    /\ 1 \in Builds
  BY BoundAssumption DEF NoTag, Builds, Preview, Tags

LEMMA IdleType == NoHold \in Holds /\ WellFormed(NoHold) /\ Idle.app = NoHold
  BY TagsApart DEF NoHold, Holds, WellFormed, Idle

\* A new hold is well-formed, whatever Kargo answers.
LEMMA HeldWellFormed ==
    ASSUME NEW hold \in Holds, WellFormed(hold),
           NEW op \in {"pin", "rollback"}, NEW goal \in Tags,
           op = "pin" => goal = Preview, op = "rollback" => goal \in Builds,
           NEW current \in Builds \cup {NoTag}
    PROVE  LET h == Held(hold, op, goal, Captured(hold, current))
           IN  h \in Holds /\ WellFormed(h) /\ h.from # "none"
  <1>1. /\ Captured(hold, current) \in Tags \ {Preview}
        /\ hold.before \in Tags \ {Preview}
    BY TagsApart DEF Captured, Holds, WellFormed
  <1> QED
    BY <1>1, TagsApart DEF Held, Holds, WellFormed

\* Lifting a hold leaves no hold, and no preview's image to force.
LEMMA LiftedWellFormed ==
    ASSUME NEW hold \in Holds, WellFormed(hold),
           NEW current \in Builds \cup {NoTag}, NEW newest \in Builds \cup {NoTag}
    PROVE  LET restore == Restored(hold, current, newest)
               h       == Lifted(hold, restore)
           IN  /\ restore \in Tags \ {Preview}
               /\ h \in Holds /\ WellFormed(h) /\ h.from = "none" /\ h.tag = restore
  <1>1. Restored(hold, current, newest) \in Tags \ {Preview}
    BY TagsApart DEF Restored, Holds, WellFormed
  <1> QED
    BY <1>1, TagsApart DEF Lifted, Holds, WellFormed

\* A publication writes a tag and a policy.
LEMMA PublishedType ==
    ASSUME TypeOK, NEW hold \in Holds
    PROVE  /\ Published(hold) \in [tag : Tags, auto : BOOLEAN]
           /\ Published(hold).auto = (hold.from = "none")
           /\ hold.tag # NoTag => Published(hold).tag = hold.tag
  BY DEF Published, TypeOK, Holds

-----------------------------------------------------------------------------
(* Whatever overlaps.                                                      *)

LEMMA IdleSound == Idle \in ReqStates /\ GoalOf(Idle) /\ WellFormed(Idle.app)
  BY IdleType, TagsApart DEF Idle, ReqStates, GoalOf, Ops, Steps

LEMMA HoldInit == Init => HoldInv
  <1> SUFFICES ASSUME Init PROVE HoldInv
    OBVIOUS
  <1>1. /\ app \in Holds /\ git \in [tag : Tags, auto : BOOLEAN]
        /\ stage \in [auto : BOOLEAN, newest : Builds, current : Builds,
                      history : SUBSET Builds]
    BY TagsApart, IdleType DEF Init
  <1>2. /\ queue \in Seq(Builds) /\ written \in BOOLEAN
        /\ begun \in 0..MaxRequests /\ faults \in 0..MaxFaults
        /\ ran \in Tags /\ last \in {"published", "nothing", "reverted", "failed"}
    <2>1. queue \in Seq(Builds)
      <3>1. queue = <<>>
        BY DEF Init
      <3> QED
        BY <3>1
    <2>3. written \in BOOLEAN
      BY DEF Init
    <2>2. begun \in 0..MaxRequests /\ faults \in 0..MaxFaults
      BY BoundAssumption DEF Init
    <2> QED
      BY <2>1, <2>2, <2>3, TagsApart DEF Init
  <1>3. \A r \in Requests : req[r] = Idle
    BY DEF Init
  <1>4. req \in [Requests -> ReqStates]
    BY IdleSound DEF Init
  <1>5. WellFormed(app) /\ ~written
    BY IdleType DEF Init
  <1> QED
    BY <1>1, <1>2, <1>3, <1>4, <1>5, IdleSound DEF HoldInv, TypeOK

\* Of a step of a request it is enough to look at that request.
LEMMA RequestStep ==
    ASSUME HoldInv, NEW r \in Requests, NEW q \in ReqStates,
           req' = [req EXCEPT ![r] = q], GoalOf(q), WellFormed(q.app),
           app' \in Holds, WellFormed(app'), git' \in [tag : Tags, auto : BOOLEAN],
           queue' \in Seq(Builds), written => queue' # <<>>, UNCHANGED <<stage, written>>,
           begun' \in 0..MaxRequests, faults' \in 0..MaxFaults, ran' \in Tags,
           last' \in {"published", "nothing", "reverted", "failed"}
    PROVE  HoldInv'
  <1>1. TypeOK'
    BY DEF HoldInv, TypeOK
  <1>2. \A s \in Requests : req'[s] = q \/ req'[s] = req[s]
    BY DEF HoldInv, TypeOK
  <1>3. \A s \in Requests : GoalOf(req'[s]) /\ WellFormed(req'[s].app)
    BY <1>2 DEF HoldInv
  <1>4. WellFormed(app)'
    BY DEF WellFormed
  <1>5. \A s \in Requests : GoalOf(req[s])' /\ WellFormed(req[s].app)'
    BY <1>3 DEF GoalOf, WellFormed
  <1>6. (written => queue # <<>>)'
    OBVIOUS
  <1> QED
    BY <1>1, <1>4, <1>5, <1>6 DEF HoldInv

\* What a request knows of itself.
LEMMA OfRequest ==
    ASSUME HoldInv, NEW r \in Requests
    PROVE  /\ req[r] \in ReqStates /\ GoalOf(req[r]) /\ WellFormed(req[r].app)
           /\ req[r].at \in Steps /\ req[r].op \in Ops
           /\ req[r].app \in Holds /\ req[r].goal \in Tags /\ req[r].held \in Holds
           /\ req \in [Requests -> ReqStates]
  BY DEF HoldInv, TypeOK, ReqStates

\* A step to another place of the code, and nothing else of the request.
LEMMA AtStep ==
    ASSUME HoldInv, NEW r \in Requests, NEW step \in Steps
    PROVE  LET q == [req[r] EXCEPT !.at = step]
           IN  /\ q \in ReqStates /\ q.at = step /\ q.op = req[r].op
               /\ q.app = req[r].app /\ q.goal = req[r].goal
               /\ Goto(r, step) => req' = [req EXCEPT ![r] = q]
  BY OfRequest DEF ReqStates, Goto

LEMMA LoadStep ==
    ASSUME HoldInv, NEW r \in Requests, NEW op \in Ops \ {"revert"}, NEW goal \in Tags,
           Load(r, op, goal)
    PROVE  HoldInv'
  <1> DEFINE q == [at |-> IF op = "edit" THEN "save" ELSE "capture",
                   op |-> op, app |-> app, goal |-> goal, held |-> NoHold]
  <1>1. op = "rollback" => goal \in Builds
    BY DEF Load, HoldInv, TypeOK
  <1>2. q \in ReqStates /\ GoalOf(q) /\ WellFormed(q.app)
    BY <1>1, IdleType DEF HoldInv, TypeOK, ReqStates, GoalOf, Load, Ops, Steps
  <1>3. req' = [req EXCEPT ![r] = q]
    BY DEF Load
  <1>4. begun' \in 0..MaxRequests
    BY BoundAssumption DEF Load, HoldInv, TypeOK
  <1> HIDE DEF q
  <1>5. UNCHANGED <<app, git, stage, queue, written, faults, ran, last>>
    BY DEF Load, kargo
  <1> QED
    BY <1>2, <1>3, <1>4, <1>5, RequestStep DEF HoldInv, TypeOK

LEMMA NotHeldStep ==
    ASSUME HoldInv, NEW r \in Requests, NotHeld(r)
    PROVE  HoldInv'
  <1>1. begun' \in 0..MaxRequests
    BY BoundAssumption DEF NotHeld, HoldInv, TypeOK
  <1>2. /\ req' = [req EXCEPT ![r] = Idle] /\ last' = "nothing"
        /\ UNCHANGED <<app, git, stage, queue, written, faults, ran>>
    BY DEF NotHeld, Return, kargo
  <1> QED
    BY <1>1, <1>2, IdleSound, RequestStep DEF HoldInv, TypeOK

\* The answers of Kargo that a request is given, and what it makes of them.
LEMMA CaptureAnswers ==
    ASSUME HoldInv, NEW r \in Requests, Capture(r)
    PROVE  \E current \in Builds \cup {NoTag}, newest \in Builds \cup {NoTag} :
              LET hold    == req[r].app
                  holds   == req[r].op \in {"pin", "rollback"}
                  restore == Restored(hold, current, newest)
              IN  /\ req' = [req EXCEPT ![r] = [req[r] EXCEPT !.at = "save",
                         !.goal = IF holds THEN @ ELSE restore,
                         !.app = IF holds
                                 THEN Held(hold, req[r].op, req[r].goal,
                                           Captured(hold, current))
                                 ELSE Lifted(hold, restore)]]
                  /\ ran' = IF ~holds \/ hold.from # "none" THEN ran
                            ELSE IF current = req[r].goal THEN NoTag ELSE current
                  /\ faults' \in 0..MaxFaults
                  /\ UNCHANGED <<app, git, stage, queue, written, begun, last>>
  <1>1. PICK current \in {stage.current, NoTag}, newest \in {stage.newest, NoTag} :
            LET hold    == req[r].app
                holds   == req[r].op \in {"pin", "rollback"}
                restore == Restored(hold, current, newest)
            IN  /\ IF NoTag \in {current, newest} THEN Fault ELSE UNCHANGED faults
                /\ req' = [req EXCEPT ![r].at = "save",
                       ![r].goal = IF holds THEN @ ELSE restore,
                       ![r].app = IF holds
                                  THEN Held(hold, req[r].op, req[r].goal,
                                            Captured(hold, current))
                                  ELSE Lifted(hold, restore)]
                /\ ran' = IF ~holds \/ hold.from # "none" THEN ran
                          ELSE IF current = req[r].goal THEN NoTag ELSE current
                /\ UNCHANGED <<app, git, kargo, begun, last>>
    BY DEF Capture
  <1>2. current \in Builds \cup {NoTag} /\ newest \in Builds \cup {NoTag}
    BY <1>1 DEF HoldInv, TypeOK
  <1>3. faults' \in 0..MaxFaults
    BY <1>1, BoundAssumption DEF Fault, HoldInv, TypeOK
  <1> QED
    BY <1>1, <1>2, <1>3, OfRequest DEF kargo

LEMMA CaptureStep ==
    ASSUME HoldInv, NEW r \in Requests, Capture(r)
    PROVE  HoldInv'
  <1>1. PICK current \in Builds \cup {NoTag}, newest \in Builds \cup {NoTag} :
              LET hold    == req[r].app
                  holds   == req[r].op \in {"pin", "rollback"}
                  restore == Restored(hold, current, newest)
              IN  /\ req' = [req EXCEPT ![r] = [req[r] EXCEPT !.at = "save",
                         !.goal = IF holds THEN @ ELSE restore,
                         !.app = IF holds
                                 THEN Held(hold, req[r].op, req[r].goal,
                                           Captured(hold, current))
                                 ELSE Lifted(hold, restore)]]
                  /\ ran' = IF ~holds \/ hold.from # "none" THEN ran
                            ELSE IF current = req[r].goal THEN NoTag ELSE current
                  /\ faults' \in 0..MaxFaults
                  /\ UNCHANGED <<app, git, stage, queue, written, begun, last>>
    BY CaptureAnswers
  <1>2. ran' \in Tags
    BY <1>1, TagsApart DEF HoldInv, TypeOK
  <1>3. PICK q \in ReqStates :
            /\ GoalOf(q) /\ WellFormed(q.app)
            /\ req' = [req EXCEPT ![r] = q]
    <2>1. CASE req[r].op \in {"pin", "rollback"}
      <3> DEFINE h == Held(req[r].app, req[r].op, req[r].goal,
                           Captured(req[r].app, current))
                 q == [req[r] EXCEPT !.at = "save", !.app = h]
      <3>1. h \in Holds /\ WellFormed(h)
        BY <2>1, OfRequest, HeldWellFormed DEF GoalOf
      <3>2. req' = [req EXCEPT ![r] = q]
        BY <1>1, <2>1, OfRequest DEF ReqStates
      <3> HIDE DEF h
      <3>3. q \in ReqStates /\ q.app = h /\ q.goal = req[r].goal /\ q.op = req[r].op
            /\ q.at = "save"
        BY <3>1, OfRequest DEF ReqStates, Steps
      <3> HIDE DEF q
      <3>4. GoalOf(q)
        BY <2>1, <3>3, OfRequest DEF GoalOf
      <3> QED
        BY <3>1, <3>2, <3>3, <3>4
    <2>2. CASE req[r].op \notin {"pin", "rollback"}
      <3> DEFINE restore == Restored(req[r].app, current, newest)
                 h == Lifted(req[r].app, restore)
                 q == [req[r] EXCEPT !.at = "save", !.goal = restore, !.app = h]
      <3>1. restore \in Tags /\ h \in Holds /\ WellFormed(h) /\ h.from = "none"
        BY OfRequest, LiftedWellFormed
      <3>2. req' = [req EXCEPT ![r] = q]
        BY <1>1, <2>2
      <3> HIDE DEF restore, h
      <3>3. q \in ReqStates /\ q.app = h /\ q.op = req[r].op /\ q.at = "save"
        BY <3>1, OfRequest DEF ReqStates, Steps
      <3> HIDE DEF q
      <3>4. GoalOf(q)
        BY <2>2, <3>1, <3>3, OfRequest DEF GoalOf
      <3> QED
        BY <3>1, <3>2, <3>3, <3>4
    <2> QED
      BY <2>1, <2>2
  <1> QED
    BY <1>1, <1>2, <1>3, RequestStep DEF HoldInv, TypeOK

LEMMA SaveStep ==
    ASSUME HoldInv, NEW r \in Requests, Save(r)
    PROVE  HoldInv'
  <1> DEFINE q == [req[r] EXCEPT !.at = "publish"]
  <1>1. /\ q \in ReqStates /\ q.at = "publish" /\ q.op = req[r].op
        /\ q.app = req[r].app /\ q.goal = req[r].goal
        /\ req' = [req EXCEPT ![r] = q]
    BY AtStep DEF Save, Steps
  <1> HIDE DEF q
  <1>2. GoalOf(q)
    BY <1>1, OfRequest DEF GoalOf, Save
  <1>3. app' = req[r].app /\ UNCHANGED <<git, stage, queue, written, begun, faults, ran, last>>
    BY DEF Save, kargo
  <1> QED
    BY <1>1, <1>2, <1>3, OfRequest, RequestStep DEF HoldInv, TypeOK

LEMMA PublishStep ==
    ASSUME HoldInv, NEW r \in Requests, Publish(r)
    PROVE  HoldInv'
  <1>1. git' \in [tag : Tags, auto : BOOLEAN]
    BY OfRequest, PublishedType DEF ToPublish, Publish, HoldInv
  <1>2. UNCHANGED <<app, stage, queue, written, begun, faults, ran>>
    BY DEF Publish, kargo
  <1>3. CASE Return(r, "reverted") \/ Return(r, "published")
    BY <1>1, <1>2, <1>3, IdleSound, RequestStep DEF Return, HoldInv, TypeOK
  <1>4. ASSUME NEW step \in {"promote", "clear"}, Goto(r, step), UNCHANGED last,
               step = "promote" => req[r].op = "rollback",
               step = "clear" => req[r].op = "unpin"
        PROVE  HoldInv'
    <2> DEFINE q == [req[r] EXCEPT !.at = step]
    <2>1. /\ q \in ReqStates /\ q.at = step /\ q.op = req[r].op
          /\ q.app = req[r].app /\ q.goal = req[r].goal
          /\ req' = [req EXCEPT ![r] = q]
      <3>1. step \in Steps
        BY DEF Steps
      <3> QED
        BY <1>4, <3>1, AtStep
    <2> HIDE DEF q
    <2>2. GoalOf(q)
      BY <1>4, <2>1, OfRequest DEF GoalOf, Publish
    <2> QED
      BY <1>1, <1>2, <1>4, <2>1, <2>2, OfRequest, RequestStep DEF HoldInv, TypeOK
  <1> QED
    BY <1>3, <1>4 DEF Publish

\* A request that only ends, or goes on to lift the hold of its rollback.
LEMMA FailStep ==
    ASSUME HoldInv, NEW r \in Requests,
           EditRollsBack(r) \/ Fails(r) \/ PromoteFails(r)
    PROVE  HoldInv'
  <1>1. faults' \in 0..MaxFaults
    BY BoundAssumption DEF EditRollsBack, Fails, PromoteFails, Fault, HoldInv, TypeOK
  <1>2. UNCHANGED <<git, stage, queue, written, begun, ran>>
    BY DEF EditRollsBack, Fails, PromoteFails, kargo
  <1>3. app' \in Holds /\ WellFormed(app')
    BY OfRequest DEF EditRollsBack, Fails, PromoteFails, HoldInv, TypeOK
  <1>4. CASE EditRollsBack(r) \/ Fails(r)
    BY <1>1, <1>2, <1>3, <1>4, IdleSound, RequestStep
       DEF EditRollsBack, Fails, Return, HoldInv, TypeOK
  <1>5. CASE PromoteFails(r)
    <2> DEFINE q == [req[r] EXCEPT !.at = "reload"]
    <2>1. /\ q \in ReqStates /\ q.at = "reload" /\ q.op = req[r].op
          /\ q.app = req[r].app /\ q.goal = req[r].goal
          /\ req' = [req EXCEPT ![r] = q]
      BY <1>5, AtStep DEF PromoteFails, Steps
    <2> HIDE DEF q
    <2>2. GoalOf(q) /\ UNCHANGED last
      BY <1>5, <2>1, OfRequest DEF GoalOf, PromoteFails
    <2> QED
      BY <1>1, <1>2, <1>3, <2>1, <2>2, OfRequest, RequestStep DEF HoldInv, TypeOK
  <1> QED
    BY <1>4, <1>5

LEMMA ClearStep ==
    ASSUME HoldInv, NEW r \in Requests, Clear(r)
    PROVE  HoldInv'
  <1>1. req[r].app.from = "none"
    BY OfRequest DEF GoalOf, Clear
  <1>2. app' \in Holds /\ WellFormed(app')
    BY <1>1, OfRequest, TagsApart DEF HoldInv, TypeOK, Clear, Holds, WellFormed
  <1>3. faults' \in 0..MaxFaults
    BY BoundAssumption DEF Clear, Fault, HoldInv, TypeOK
  <1>4. /\ req' = [req EXCEPT ![r] = Idle] /\ last' = "published"
        /\ UNCHANGED <<git, stage, queue, written, begun, ran>>
    BY DEF Clear, Return, kargo
  <1> QED
    BY <1>2, <1>3, <1>4, IdleSound, RequestStep DEF HoldInv, TypeOK

LEMMA PromoteStep ==
    ASSUME HoldInv, NEW r \in Requests, Promote(r)
    PROVE  HoldInv'
  <1>1. req[r].goal \in Builds
    BY OfRequest DEF GoalOf, Promote
  <1>2. queue' \in Seq(Builds) /\ queue' # <<>>
    BY <1>1 DEF HoldInv, TypeOK, Promote
  <1>3. /\ req' = [req EXCEPT ![r] = Idle] /\ last' = "published"
        /\ UNCHANGED <<app, git, stage, written, begun, faults, ran>>
    BY DEF Promote, Return
  <1> QED
    BY <1>2, <1>3, IdleSound, RequestStep DEF HoldInv, TypeOK

LEMMA ReloadStep ==
    ASSUME HoldInv, NEW r \in Requests, Reload(r)
    PROVE  HoldInv'
  <1> DEFINE q == [at |-> IF app.from = "none" THEN "publish" ELSE "capture",
                   op |-> "revert", app |-> app, goal |-> NoTag, held |-> req[r].app]
  <1>1. q \in ReqStates /\ GoalOf(q) /\ WellFormed(q.app)
    BY OfRequest, TagsApart DEF HoldInv, TypeOK, ReqStates, GoalOf, Ops, Steps
  <1>2. req' = [req EXCEPT ![r] = q]
    BY DEF Reload
  <1>3. UNCHANGED <<app, git, stage, queue, written, begun, faults, ran, last>>
    BY DEF Reload, kargo
  <1> HIDE DEF q
  <1> QED
    BY <1>1, <1>2, <1>3, RequestStep DEF HoldInv, TypeOK

LEMMA KargoStep ==
    ASSUME HoldInv,
           NewBuild \/ PolicySync \/ AutoPromote \/ KargoPush \/ KargoSucceed
    PROVE  HoldInv'
  <1>1. UNCHANGED others
    BY DEF NewBuild, PolicySync, AutoPromote, KargoPush, KargoSucceed
  <1>2. /\ git' \in [tag : Tags, auto : BOOLEAN]
        /\ stage' \in [auto : BOOLEAN, newest : Builds, current : Builds,
                       history : SUBSET Builds]
        /\ queue' \in Seq(Builds) /\ written' \in BOOLEAN
        /\ written' => queue' # <<>>
    <2>1. CASE NewBuild
      <3>1. stage.newest + 1 \in Builds
        BY <2>1, BoundAssumption DEF NewBuild, HoldInv, TypeOK, Builds
      <3> QED
        BY <2>1, <3>1 DEF NewBuild, HoldInv, TypeOK
    <2>2. CASE PolicySync
      BY <2>2 DEF PolicySync, HoldInv, TypeOK
    <2>3. CASE AutoPromote
      BY <2>3 DEF AutoPromote, HoldInv, TypeOK
    <2>4. CASE KargoPush
      BY <2>4, TagsApart DEF KargoPush, HoldInv, TypeOK
    <2>5. CASE KargoSucceed
      <3>1. queue # <<>> /\ Head(queue) \in Builds /\ Tail(queue) \in Seq(Builds)
        BY <2>5 DEF KargoSucceed, HoldInv, TypeOK
      <3> QED
        BY <2>5, <3>1 DEF KargoSucceed, HoldInv, TypeOK
    <2> QED
      BY <2>1, <2>2, <2>3, <2>4, <2>5
  <1>3. TypeOK'
    BY <1>1, <1>2 DEF HoldInv, TypeOK, others
  <1> QED
    BY <1>1, <1>2, <1>3 DEF HoldInv, GoalOf, WellFormed, others

LEMMA HoldNext ==
    ASSUME HoldInv, [Next]_vars
    PROVE  HoldInv'
  <1>1. CASE UNCHANGED vars
    BY <1>1 DEF HoldInv, TypeOK, GoalOf, WellFormed, vars
  <1>2. CASE Next
    BY <1>2, LoadStep, NotHeldStep, CaptureStep, SaveStep, PublishStep, FailStep,
       ClearStep, PromoteStep, ReloadStep, KargoStep DEF Next
  <1> QED
    BY <1>1, <1>2

\* What requests save is never a mixture of two holds, and a preview's image is
\* never forced on an environment that is not held, however requests overlap,
\* fail and die.
THEOREM HoldsAreWhole == Spec => []HoldInv
  <1>1. HoldInv /\ [Next]_vars => HoldInv'
    BY HoldNext
  <1> QED
    BY <1>1, HoldInit, PTL DEF Spec

-----------------------------------------------------------------------------
(* When requests do not overlap.                                           *)

LEMMA SerialInit == Init => SerialInv
  <1> SUFFICES ASSUME Init PROVE SerialInv
    OBVIOUS
  <1>1. \A r \in Requests : req[r] = Idle /\ req[r].at = "idle"
    BY DEF Init, Idle
  <1> QED
    BY <1>1, HoldInit
       DEF Init, NoHold, SerialInv, CopyInv, PauseInv, PauseAgrees, RanInv

\* The only request: what the others would have to satisfy is vacuous.
LEMMA SerialStep ==
    ASSUME Serial, SerialInv, HoldInv', NEW r \in Requests,
           \/ \E op \in Ops \ {"revert"}, goal \in Tags : Load(r, op, goal)
           \/ NotHeld(r) \/ Save(r) \/ Publish(r) \/ EditRollsBack(r) \/ Clear(r)
           \/ Promote(r) \/ PromoteFails(r) \/ Reload(r) \/ Fails(r)
    PROVE  SerialInv'
  <1>0. \A s \in Requests : s = r
    BY DEF Serial
  <1>1. req[r] \in ReqStates /\ req \in [Requests -> ReqStates] /\ GoalOf(req[r])
    BY OfRequest DEF SerialInv
  <1>2. CopyInv' /\ PauseInv' /\ RanInv'
    <2> USE <1>0, <1>1 DEF SerialInv, CopyInv, PauseInv, PauseAgrees, RanInv, Quiet,
                           ReqStates, Idle, Goto, Return
    <2>1. CASE \E op \in Ops \ {"revert"}, goal \in Tags : Load(r, op, goal)
      BY <2>1 DEF Load
    <2>2. CASE NotHeld(r)
      BY <2>2 DEF NotHeld
    <2>3. CASE Save(r)
      BY <2>3, OfRequest DEF Save, GoalOf, Ops
    <2>4. CASE Publish(r)
      <3>1. Published(ToPublish(r)).auto = (ToPublish(r).from = "none")
        BY DEF Published
      <3>2. CASE Return(r, "reverted")
        BY <2>4, <3>2 DEF Publish
      <3>3. CASE req[r].op # "revert" /\ Return(r, "published")
        BY <2>4, <3>1, <3>3 DEF Publish, ToPublish
      <3>4. CASE req[r].op \in {"rollback", "unpin"} /\ UNCHANGED last
                 /\ (Goto(r, "promote") \/ Goto(r, "clear"))
        <4>1. /\ UNCHANGED <<app, ran, last>> /\ req[r].app = app
              /\ git'.auto = (app.from = "none")
          BY <2>4, <3>1, <3>4 DEF Publish, ToPublish
        <4>2. /\ req'[r].at \in {"promote", "clear"} /\ req'[r].app = req[r].app
              /\ req'[r].op = req[r].op
          BY <3>4
        <4>3. CopyInv'
          BY <4>1, <4>2
        <4>4. PauseInv'
          BY <4>1, <4>2
        <4>5. RanInv'
          BY <4>1, <4>2
        <4> QED
          BY <4>3, <4>4, <4>5
      <3> QED
        BY <2>4, <3>2, <3>3, <3>4 DEF Publish
    <2>5. CASE EditRollsBack(r)
      BY <2>5 DEF EditRollsBack
    <2>6. CASE Clear(r)
      <3>1. req[r].app = app /\ app.from = "none" /\ app'.from = "none" /\ git.auto
        BY <2>6, OfRequest DEF Clear, GoalOf, Holds
      <3> QED
        BY <2>6, <3>1 DEF Clear
    <2>7. CASE Promote(r)
      BY <2>7 DEF Promote
    <2>8. CASE PromoteFails(r)
      BY <2>8 DEF PromoteFails
    <2>9. CASE Reload(r)
      BY <2>9 DEF Reload
    <2>10. CASE Fails(r)
      BY <2>10 DEF Fails
    <2> QED
      BY <2>1, <2>2, <2>3, <2>4, <2>5, <2>6, <2>7, <2>8, <2>9, <2>10
  <1> QED
    BY <1>2 DEF SerialInv

LEMMA SerialCapture ==
    ASSUME Serial, SerialInv, HoldInv', NEW r \in Requests, Capture(r)
    PROVE  SerialInv'
  <1>0. \A s \in Requests : s = r
    BY DEF Serial
  <1>1. PICK current \in Builds \cup {NoTag}, newest \in Builds \cup {NoTag} :
              LET hold    == req[r].app
                  holds   == req[r].op \in {"pin", "rollback"}
                  restore == Restored(hold, current, newest)
              IN  /\ req' = [req EXCEPT ![r] = [req[r] EXCEPT !.at = "save",
                         !.goal = IF holds THEN @ ELSE restore,
                         !.app = IF holds
                                 THEN Held(hold, req[r].op, req[r].goal,
                                           Captured(hold, current))
                                 ELSE Lifted(hold, restore)]]
                  /\ ran' = IF ~holds \/ hold.from # "none" THEN ran
                            ELSE IF current = req[r].goal THEN NoTag ELSE current
                  /\ faults' \in 0..MaxFaults
                  /\ UNCHANGED <<app, git, stage, queue, written, begun, last>>
    BY CaptureAnswers DEF SerialInv
  <1>2. /\ req[r] \in ReqStates /\ req \in [Requests -> ReqStates]
        /\ req[r].at = "capture" /\ req[r].app = app
        /\ ran # NoTag /\ app.from # "none" => app.before = ran
    BY OfRequest DEF SerialInv, CopyInv, RanInv, Capture
  <1>3. req'[r].at = "save" /\ req'[r].op = req[r].op /\ req'[r].op # "edit"
    <2>1. req[r].op # "edit"
      BY <1>2, OfRequest DEF SerialInv, HoldInv, GoalOf
    <2> QED
      BY <1>1, <1>2, <2>1 DEF ReqStates
  <1>4. CopyInv' /\ PauseInv'
    BY <1>0, <1>1, <1>3 DEF SerialInv, CopyInv, PauseInv, PauseAgrees, Quiet
  <1>5. CASE req[r].op \in {"pin", "rollback"}
    <2>1. req'[r].app = Held(app, req[r].op, req[r].goal, Captured(app, current))
      BY <1>1, <1>2, <1>5 DEF ReqStates
    <2>2. ran' # NoTag => req'[r].app.before = ran'
      BY <1>1, <1>2, <1>5, <2>1 DEF Held, Captured
    <2>3. ran' # NoTag /\ app.from # "none" => app.before = ran'
      BY <1>1, <1>2, <1>5
    <2>4. RanInv'
      BY <1>0, <1>1, <1>3, <1>5, <2>2, <2>3 DEF RanInv
    <2> QED
      BY <1>4, <2>4 DEF SerialInv
  <1>6. CASE req[r].op \notin {"pin", "rollback"}
    <2>1. ran' = ran /\ req'[r].app = Lifted(app, Restored(app, current, newest))
      BY <1>1, <1>2, <1>6 DEF ReqStates
    <2>2. ran # NoTag /\ req[r].op = "unpin" => req'[r].app.tag = ran
      BY <1>2, <2>1 DEF Lifted, Restored, SerialInv, RanInv
    <2>3. RanInv'
      BY <1>0, <1>1, <1>2, <1>3, <1>6, <2>1, <2>2 DEF RanInv
    <2> QED
      BY <1>4, <2>3 DEF SerialInv
  <1> QED
    BY <1>5, <1>6

LEMMA SerialKargo ==
    ASSUME SerialInv, HoldInv',
           NewBuild \/ PolicySync \/ AutoPromote \/ KargoPush \/ KargoSucceed
    PROVE  SerialInv'
  <1>1. UNCHANGED others /\ git'.auto = git.auto
    BY DEF NewBuild, PolicySync, AutoPromote, KargoPush, KargoSucceed, SerialInv,
           HoldInv, TypeOK
  <1> QED
    BY <1>1 DEF SerialInv, CopyInv, PauseInv, PauseAgrees, RanInv, Quiet, others

LEMMA SerialNext ==
    ASSUME Serial, SerialInv, [Next]_vars
    PROVE  SerialInv'
  <1>1. HoldInv'
    BY HoldNext DEF SerialInv
  <1>2. CASE UNCHANGED vars
    BY <1>1, <1>2 DEF SerialInv, CopyInv, PauseInv, PauseAgrees, RanInv, Quiet, vars
  <1>3. CASE Next
    BY <1>1, <1>3, SerialStep, SerialCapture, SerialKargo DEF Next
  <1> QED
    BY <1>2, <1>3

LEMMA SerialAlways == ASSUME Serial PROVE Spec => []SerialInv
  <1>1. SerialInv /\ [Next]_vars => SerialInv'
    BY SerialNext
  <1> QED
    BY <1>1, SerialInit, PTL DEF Spec

\* If requests do not overlap then after one that published, auto-promotion is
\* off exactly if the environment is held, whatever failed before it.
THEOREM PausedExactlyWhileHeld == ASSUME Serial PROVE Spec => []PauseAgrees
  <1>1. SerialInv => PauseAgrees
    BY DEF SerialInv, PauseInv
  <1> QED
    BY <1>1, SerialAlways, PTL

\* If requests do not overlap then resuming restores the image that the first of
\* the holds replaced.
THEOREM ResumingRestores == ASSUME Serial PROVE Spec => ResumeRestores
  <1>1. ASSUME SerialInv, [Next]_vars, NEW r \in Requests, Resumes(r), ran # NoTag
        PROVE  git'.tag = ran
    <2>0. \A s \in Requests : s = r
      BY DEF Serial
    <2>1. /\ req[r] \in ReqStates /\ req \in [Requests -> ReqStates]
          /\ req[r].op = "unpin" /\ req[r].at = "publish" /\ req'[r].at # "publish"
      BY <1>1, OfRequest DEF SerialInv, Resumes
    <2>2. req[r].app.tag = ran
      BY <1>1, <2>1 DEF SerialInv, RanInv
    <2>3. Publish(r)
      <3>1. ~Fails(r)
        BY <1>1, <2>1 DEF Fails, Return, Resumes, Idle
      <3>2. req' # req
        BY <2>1
      <3>3. ~(NewBuild \/ PolicySync \/ AutoPromote \/ KargoPush \/ KargoSucceed)
        BY <3>2 DEF NewBuild, PolicySync, AutoPromote, KargoPush, KargoSucceed, others
      <3>4. /\ ~\E op \in Ops \ {"revert"}, goal \in Tags : Load(r, op, goal)
            /\ ~NotHeld(r) /\ ~Capture(r) /\ ~Save(r) /\ ~EditRollsBack(r) /\ ~Clear(r)
            /\ ~Promote(r) /\ ~PromoteFails(r) /\ ~Reload(r)
        BY <2>1 DEF Load, NotHeld, Capture, Save, EditRollsBack, Clear, Promote,
                    PromoteFails, Reload
      <3>5. Next
        BY <1>1, <3>2 DEF vars
      <3> QED
        BY <2>0, <3>1, <3>3, <3>4, <3>5 DEF Next
    <2> QED
      BY <1>1, <2>1, <2>2, <2>3 DEF Publish, ToPublish, Published
  <1>2. SerialInv /\ [Next]_vars =>
            [\A r \in Requests : Resumes(r) /\ ran # NoTag => git'.tag = ran]_vars
    BY <1>1
  <1> QED
    BY <1>2, SerialAlways, PTL DEF Spec, ResumeRestores


-----------------------------------------------------------------------------
\* The request; the other jobs never publish.
Req       == job["request"]
AtPublish == Req.at = "publish"

\* What a job has in hand suits the step that it is at.
JobOK(j) ==
    /\ j.at \in {"alias", "archive"} =>
          j.new # Absent /\ (j.op = "import" \/ j.new.content.source \in Source)
    /\ j.op = "namespace" => j.of # {}
    /\ j.at = "repin" => j.op = "namespace"
    /\ j.prev # Absent => j.at = "publish"
    /\ j.op = "upgradeEnv" => j.prev # Absent /\ j.env \in Env

JobInv == \A p \in Process : job[p] # NoJob => JobOK(job[p])

\* Git shows the pins of the app, or those that it had when a request to publish
\* others has begun.
PinsInv ==
    ~owed => IF AtPublish THEN Req.prev # Absent => published = PinsIn(Req.prev)
             ELSE published = PinsIn(pinned)

\* The upgrade of one environment has changed the pin of no other that it listed.
UpgradeInv ==
    AtPublish /\ Req.prev # Absent =>
        /\ pinned.name = Req.prev.name \/ pinned.env = Follow
        /\ Req.op = "upgradeEnv" =>
             \A e \in Req.seen \ {Req.env} : PinOf(pinned, e) = PinOf(Req.prev, e)

\* A version that an app is pinned to, or was, is available under its name.
Kept(n, v) ==
    \/ [name |-> n, version |-> v] \in lacking
    \/ v \in ListTemplateVersions(n)

VersionsOf(a) == {a.version} \cup ({a.env[e] : e \in Env} \ {0})
AllKept(a)    == \A v \in VersionsOf(a) : Kept(a.name, v)

KeptInv == AllKept(pinned) /\ (AtPublish /\ Req.prev # Absent => AllKept(Req.prev))

-----------------------------------------------------------------------------
LEMMA NamesApart ==
    /\ Source \subseteq Names /\ Chart \in Names
    /\ 1 \in Versions /\ 0 \notin Versions /\ Versions \subseteq Nat
    /\ Wizard \notin Source /\ None \notin Source \cup {Wizard}
  BY CatalogAssumption DEF Names, Chart, Wizard, None, Versions

LEMMA AbsentApart ==
    /\ Absent \notin Content /\ Absent \notin AppSpecs
    /\ Absent \notin [name : Names, content : Content]
    /\ NoJob \notin Busy
  BY DEF Absent, Content, AppSpecs, NoJob, Busy

LEMMA FirstIsSource == First \in Source
  BY CatalogAssumption DEF First

LEMMA PinsType ==
    ASSUME NEW a \in AppSpecs, NEW e \in Env
    PROVE  /\ PinOf(a, e) \in Pins /\ PinsIn(a) \in [Env -> Pins]
           /\ [name |-> a.name, version |-> a.version] \in Pins
  BY DEF PinOf, PinsIn, Pins, AppSpecs

LEMMA FollowType == Follow \in [Env -> Versions \cup {0}]
  BY DEF Follow

\* Folding the pins of the listed environments into one keeps an app an app, with no
\* pin that it did not have.
LEMMA Collapsed ==
    ASSUME NEW a \in AppSpecs, NEW listed \in SUBSET Env
    PROVE  LET c == collapseConvergedTemplateVersions(a, listed)
           IN  /\ c \in AppSpecs /\ c.name = a.name
               /\ VersionsOf(c) \subseteq VersionsOf(a)
<1> DEFINE v    == {a.env[e] : e \in listed}
           env  == [e \in Env |-> IF e \in listed THEN 0 ELSE a.env[e]]
<1>1. CASE 0 \notin v /\ Cardinality(v) = 1
  <2>0. v # {}
    BY <1>1, FS_EmptySet
  <2>1. PICK x : x \in v /\ x = CHOOSE y \in v : TRUE
    BY <2>0
  <2>2. x \in Versions /\ x \in VersionsOf(a)
    BY <1>1, <2>1 DEF AppSpecs, VersionsOf
  <2> DEFINE c == [a EXCEPT !.version = x, !.env = env]
  <2>3. collapseConvergedTemplateVersions(a, listed) = c
    <3>1. collapseConvergedTemplateVersions(a, listed) =
            [a EXCEPT !.version = CHOOSE y \in v : TRUE,
                      !.env = [e \in Env |-> IF e \in listed THEN 0 ELSE @[e]]]
      BY <1>1 DEF collapseConvergedTemplateVersions
    <3>2. [a EXCEPT !.version = CHOOSE y \in v : TRUE,
                    !.env = [e \in Env |-> IF e \in listed THEN 0 ELSE @[e]]] =
          [a EXCEPT !.version = CHOOSE y \in v : TRUE, !.env = env]
      BY DEF AppSpecs
    <3> QED BY <2>1, <3>1, <3>2
  <2>4. env \in [Env -> Versions \cup {0}]
    BY DEF AppSpecs
  <2>5. /\ c \in AppSpecs /\ c.name = a.name /\ c.version = x
        /\ \A e \in Env : c.env[e] = IF e \in listed THEN 0 ELSE a.env[e]
    <3>1. c.env = env /\ c.version = x /\ c.name = a.name
      BY DEF AppSpecs
    <3>2. \A e \in Env : c.env[e] = IF e \in listed THEN 0 ELSE a.env[e]
      BY <3>1
    <3>3. c \in AppSpecs
      <4> HIDE DEF env
      <4> QED BY <2>2, <2>4 DEF AppSpecs
    <3> QED BY <3>1, <3>2, <3>3
  <2> HIDE DEF c
  <2>6. VersionsOf(c) \subseteq VersionsOf(a)
    BY <2>2, <2>5 DEF VersionsOf
  <2> QED BY <2>3, <2>5, <2>6
<1>2. CASE ~(0 \notin v /\ Cardinality(v) = 1)
  BY <1>2 DEF collapseConvergedTemplateVersions
<1> QED BY <1>1, <1>2

\* The targets of an upgrade of one environment.
TargetsKeep(a, e, v, seen, listed) ==
    LET f == Folds(TargetsFor(a, e, v), e, seen, listed)
    IN  /\ f \in AppSpecs /\ f.name = a.name
        /\ VersionsOf(f) \subseteq VersionsOf(a) \cup {v}
        /\ \A x \in seen \ {e} : PinOf(f, x) = PinOf(a, x)

LEMMA Targeted ==
    ASSUME NEW a \in AppSpecs, NEW e \in Env, NEW v \in Versions,
           NEW seen \in SUBSET Env, NEW listed \in SUBSET Env
    PROVE  TargetsKeep(a, e, v, seen, listed)
<1> DEFINE t == TargetsFor(a, e, v)
           f == Folds(t, e, seen, listed)
           c == collapseConvergedTemplateVersions(t, listed)
<1>1. /\ t \in AppSpecs /\ t.name = a.name /\ t.version = a.version
      /\ t.env = [a.env EXCEPT ![e] = IF v = a.version THEN 0 ELSE v]
  BY DEF TargetsFor, AppSpecs
<1>2. VersionsOf(t) \subseteq VersionsOf(a) \cup {v}
  BY <1>1 DEF VersionsOf, AppSpecs
<1>3. \A x \in Env \ {e} : PinOf(t, x) = PinOf(a, x)
  BY <1>1 DEF PinOf, AppSpecs
<1>4. c \in AppSpecs /\ c.name = t.name /\ VersionsOf(c) \subseteq VersionsOf(t)
  BY <1>1, Collapsed
<1>5. f = t \/ (f = c /\ \A x \in seen \ {e} : PinOf(c, x) = PinOf(t, x))
  BY DEF Folds
<1> HIDE DEF t, f, c
<1>6. /\ f \in AppSpecs /\ f.name = a.name
      /\ VersionsOf(f) \subseteq VersionsOf(a) \cup {v}
      /\ \A x \in seen \ {e} : PinOf(f, x) = PinOf(a, x)
  BY <1>1, <1>2, <1>3, <1>4, <1>5
<1> QED BY <1>6 DEF t, f, TargetsKeep

\* What a failed upgrade puts back.
LEMMA RestoredType ==
    ASSUME NEW j \in Busy, pinned \in AppSpecs
    PROVE  PinsRestored(j) \in AppSpecs
<1>1. CASE j.prev = Absent
  BY <1>1 DEF PinsRestored
<1>2. CASE j.prev # Absent
  <2>1. j.prev \in AppSpecs
    BY <1>2 DEF Busy
  <2> QED BY <1>2, <2>1 DEF PinsRestored, AppSpecs
<1> QED BY <1>1, <1>2

LEMMA BundleType ==
    ASSUME CatTypeOK, NEW pin \in Pins
    PROVE  LoadChartBundleVersion(pin) \in Content \cup {Absent}
  BY DEF LoadChartBundleVersion, CatTypeOK, Pins, Content

LEMMA SyncedType ==
    ASSUME CatTypeOK
    PROVE  syncChart(pinned) \in [Pins -> Content \cup {Absent}]
  BY BundleType DEF syncChart, CatTypeOK

LEMMA RegistryType ==
    ASSUME NEW r \in Registry
    PROVE  /\ PruneOrphanSources(r) \in Registry
           /\ Live(r) \subseteq Source
           /\ \A s \in Source : NameOf(s, r.ext[s]) \in Names
  BY NamesApart DEF Registry, PruneOrphanSources, Live, NameOf

LEMMA ResultType ==
    ASSUME NEW r \in Registry, NEW of, NEW got \in SUBSET Rows
    PROVE  PruneOrphanSources(ApplyResult(r, of, got)) \in Registry
  BY DEF Registry, PruneOrphanSources, ApplyResult

LEMMA NewJobType ==
    ASSUME NEW op \in {"sync", "namespace", "update", "drop", "import", "upgrade", "upgradeEnv"},
           NEW at \in {"put", "flag", "next", "alias", "archive", "repin", "publish", "drop"},
           NEW r \in Registry, NEW of \in SUBSET Source
    PROVE  /\ NewJob(op, at, r, of) \in Busy
           /\ NewJob(op, at, r, of) =
                [at |-> at, op |-> op, reg |-> r, of |-> of, todo |-> of, got |-> {},
                 new |-> Absent, names |-> {}, env |-> None, prev |-> Absent, seen |-> Env]
  BY DEF NewJob, Busy

LEMMA UnreadType == Unread \in Registry
  BY DEF Unread, Registry

-----------------------------------------------------------------------------
(* The types, and what each step of a job has in hand.                     *)

LEMMA BusyType ==
    ASSUME CatTypeOK, JobInv, NEW p \in Process, job[p].at # "idle"
    PROVE  job[p] \in Busy /\ JobOK(job[p])
  BY DEF CatTypeOK, JobInv, NoJob

JobsOK == job \in [Process -> {NoJob} \cup Busy] /\ JobInv

LEMMA JobMoves ==
    ASSUME CatTypeOK, JobInv, NEW p \in Process, NEW new \in {NoJob} \cup Busy,
           new # NoJob => JobOK(new), job' = [job EXCEPT ![p] = new]
    PROVE  JobsOK'
  BY DEF CatTypeOK, JobInv, JobsOK

LEMMA JobFinishes ==
    ASSUME CatTypeOK, JobInv, NEW p \in Process, Finishes(p)
    PROVE  JobsOK'
  BY JobMoves DEF Finishes

LEMMA JobDrops ==
    ASSUME CatTypeOK, JobInv, NEW names \in SUBSET Names, Drops(names)
    PROVE  JobsOK' /\ ~AtPublish'
<1> DEFINE new == IF names = {} THEN NoJob
                  ELSE [NewJob("drop", "drop", Unread, {}) EXCEPT !.names = names]
<1>1. new \in {NoJob} \cup Busy /\ (new # NoJob => JobOK(new)) /\ new.at # "publish"
  <2>1. CASE names = {}
    BY <2>1 DEF NoJob
  <2>2. CASE names # {}
    <3>1. /\ NewJob("drop", "drop", Unread, {}) \in Busy
          /\ NewJob("drop", "drop", Unread, {}) =
               [at |-> "drop", op |-> "drop", reg |-> Unread, of |-> {}, todo |-> {},
                got |-> {}, new |-> Absent, names |-> {}, env |-> None, prev |-> Absent,
                seen |-> Env]
      BY NewJobType, UnreadType
    <3> QED BY <2>2, <3>1 DEF Busy, JobOK
  <2> QED BY <2>1, <2>2
<1>2. job' = [job EXCEPT !["request"] = new] /\ "request" \in Process
  BY DEF Drops, Process
<1> HIDE DEF new
<1> QED BY <1>1, <1>2, JobMoves DEF AtPublish, Req, CatTypeOK

LEMMA JobRequested ==
    ASSUME CatTypeOK, JobInv, NEW new \in Busy, JobOK(new), Request(new)
    PROVE  /\ JobsOK' /\ edits' \in 0..MaxEdits
           /\ Req = NoJob /\ Req' = new /\ ~AtPublish
<1>1. "request" \in Process
  BY DEF Process
<1>2. JobsOK'
  BY <1>1, JobMoves DEF Request
<1>3. edits' \in 0..MaxEdits
  BY CatalogAssumption DEF Request, CatTypeOK
<1> QED BY <1>1, <1>2, <1>3 DEF Request, CatTypeOK, AtPublish, Req, NoJob

LEMMA JobSaved ==
    ASSUME CatTypeOK, JobInv, NEW p \in Process, job[p].at \in {"alias", "archive"},
           NEW got \in SUBSET Rows, AfterSave(p, got)
    PROVE  JobsOK' /\ job'[p].at # "publish"
<1> DEFINE new == [job[p] EXCEPT !.at = "next", !.new = Absent, !.got = @ \cup got]
<1>1. job[p] \in Busy /\ JobOK(job[p])
  BY BusyType
<1>2. new \in Busy /\ JobOK(new) /\ new.at # "publish"
  BY <1>1 DEF Busy, JobOK
<1>3. \/ job' = [job EXCEPT ![p] = NoJob]
      \/ job' = [job EXCEPT ![p] = new]
  BY DEF AfterSave
<1> HIDE DEF new
<1> QED BY <1>2, <1>3, JobMoves DEF CatTypeOK, NoJob

LEMMA FaultType ==
    ASSUME CatTypeOK, Failure
    PROVE  failures' \in 0..MaxFailures
  BY CatalogAssumption DEF Failure, CatTypeOK

LEMMA InitType == CatInit => CatTypeOK /\ JobInv
<1> SUFFICES ASSUME CatInit PROVE CatTypeOK /\ JobInv
  OBVIOUS
<1>1. upstream \in [Source -> Versions] /\ edits \in 0..MaxEdits /\ failures \in 0..MaxFailures
  BY NamesApart, CatalogAssumption DEF CatInit
<1>2. reg \in Registry
  BY NamesApart, FirstIsSource DEF CatInit, Registry, Rows
<1>3. /\ alias \in [Names -> Content \cup {Absent}]
      /\ charts \in [Pins -> Content \cup {Absent}]
  BY NamesApart, FirstIsSource DEF CatInit, Content
<1>4. archive \in [Names -> [Versions -> Source \cup {Wizard, None}]]
  BY FirstIsSource DEF CatInit
<1>5. pinned \in AppSpecs
  BY NamesApart, FollowType, CatalogAssumption DEF CatInit, AppSpecs
<1>6. published \in [Env -> Pins]
  <2>1. PICK e \in Env : TRUE
    BY CatalogAssumption
  <2> QED BY <1>5, <2>1, PinsType DEF CatInit
<1>7. job \in [Process -> {NoJob} \cup Busy] /\ JobInv
  BY DEF CatInit, JobInv
<1> QED BY <1>1, <1>2, <1>3, <1>4, <1>5, <1>6, <1>7 DEF CatInit, CatTypeOK
LEMMA EntryChanges ==
    ASSUME NEW A, NEW B, NEW C, NEW f \in [A -> [B -> C]],
           NEW a \in A, NEW b \in B, NEW c \in C,
           NEW g, g = [f EXCEPT ![a][b] = c]
    PROVE  g \in [A -> [B -> C]]
  OBVIOUS

LEMMA SyncStep ==
    ASSUME CatTypeOK, JobInv, NEW p \in Process, Syncing(p)
    PROVE  /\ CatTypeOK' /\ JobInv'
           /\ UNCHANGED <<pinned, repo, owed>> /\ (job'[p] = NoJob \/ job'[p].at # "publish")
           /\ job[p].at # "publish"
           /\ \A q \in Process \ {p} : job'[q] = job[q]
<1>1. ASSUME NEW s \in Source, SyncOne(p, s)
      PROVE  /\ CatTypeOK' /\ JobInv'
             /\ job'[p].at # "publish" /\ job[p].at # "publish"
             /\ \A q \in Process \ {p} : job'[q] = job[q]
  <2> DEFINE name == NameOf(s, job[p].reg.ext[s])
             rest == [job[p] EXCEPT !.todo = @ \ {s}]
             new  == [name |-> name, content |-> [source |-> s, version |-> upstream[s]]]
             next == [rest EXCEPT !.at = "alias", !.new = new]
  <2>1. job[p] \in Busy /\ JobOK(job[p]) /\ job[p].at = "next"
    BY <1>1, BusyType DEF SyncOne
  <2>2. job[p].reg \in Registry
    BY <2>1 DEF Busy
  <2>3. new \in [name : Names, content : Content]
    BY <2>2, RegistryType DEF CatTypeOK, Content
  <2>4. rest \in Busy /\ JobOK(rest) /\ next \in Busy /\ JobOK(next)
        /\ rest.at # "publish" /\ next.at # "publish"
    <3>1. new.content.source \in Source
      OBVIOUS
    <3> HIDE DEF new, name
    <3> QED BY <2>1, <2>3, <3>1, AbsentApart DEF Busy, JobOK
  <2>5. job' = [job EXCEPT ![p] = rest] \/ job' = [job EXCEPT ![p] = next]
    BY <1>1 DEF SyncOne
  <2>6. failures' \in 0..MaxFailures
    BY <1>1, FaultType DEF SyncOne, CatTypeOK
  <2> HIDE DEF rest, next
  <2>7. JobsOK'
    BY <2>4, <2>5, JobMoves
  <2> QED BY <1>1, <2>1, <2>4, <2>5, <2>6, <2>7 DEF SyncOne, CatTypeOK, JobsOK, catalog,
             repo
<1>2. ASSUME SaveAlias(p)
      PROVE  /\ CatTypeOK' /\ JobInv'
             /\ job'[p].at # "publish" /\ job[p].at # "publish"
             /\ \A q \in Process \ {p} : job'[q] = job[q]
  <2>1. job[p] \in Busy /\ JobOK(job[p]) /\ job[p].at = "alias"
    BY <1>2, BusyType DEF SaveAlias
  <2>2. job[p].new \in [name : Names, content : Content]
    BY <2>1 DEF Busy, JobOK
  <2>3. CASE alias' = [alias EXCEPT ![job[p].new.name] = job[p].new.content] /\ Goes(p, "archive")
             /\ lacking' \in SUBSET Pins /\ UNCHANGED failures
    <3> DEFINE new == [job[p] EXCEPT !.at = "archive"]
    <3>1. new \in Busy /\ JobOK(new) /\ new.at # "publish"
      BY <2>1 DEF Busy, JobOK
    <3>2. job' = [job EXCEPT ![p] = new]
      BY <2>3 DEF Goes
    <3> HIDE DEF new
    <3>3. JobsOK' /\ job'[p].at # "publish"
      BY <3>1, <3>2, JobMoves DEF CatTypeOK
    <3> QED BY <1>2, <2>1, <2>2, <2>3, <3>2, <3>3 DEF SaveAlias, CatTypeOK, JobsOK, repo
  <2>4. CASE Failure /\ AfterSave(p, {}) /\ UNCHANGED <<alias, lacking>>
    <3>1. JobsOK' /\ job'[p].at # "publish"
      BY <2>1, <2>4, JobSaved
    <3>2. failures' \in 0..MaxFailures
      BY <2>4, FaultType
    <3> QED BY <1>2, <2>1, <2>4, <3>1, <3>2 DEF SaveAlias, CatTypeOK, JobsOK, repo,
               AfterSave
  <2>5. lacking \in SUBSET Pins
    BY DEF CatTypeOK
  <2> QED BY <1>2, <2>3, <2>4, <2>5 DEF SaveAlias
<1>3. ASSUME SaveArchive(p)
      PROVE  /\ CatTypeOK' /\ JobInv'
             /\ job'[p].at # "publish" /\ job[p].at # "publish"
             /\ \A q \in Process \ {p} : job'[q] = job[q]
  <2> DEFINE new == job[p].new
             pin == [name |-> new.name, version |-> new.content.version]
             row == [name |-> new.name, source |-> new.content.source]
  <2>1. job[p] \in Busy /\ JobOK(job[p]) /\ job[p].at = "archive"
    BY <1>3, BusyType DEF SaveArchive
  <2>2. new \in [name : Names, content : Content]
    BY <2>1 DEF Busy, JobOK
  <2>3. pin \in Pins /\ new.content.source \in Source \cup {Wizard}
    BY <2>2 DEF Pins, Content
  <2>4. PICK got : AfterSave(p, got) /\ (got = {row} \/ got = {})
    BY <1>3 DEF SaveArchive
  <2>5. JobsOK' /\ job'[p].at # "publish" 
    <3>1. CASE got \in SUBSET Rows
      BY <2>1, <2>4, <3>1, JobSaved
    <3>2. CASE got \notin SUBSET Rows
      \* An uploaded chart has no source, and is nobody's row.
      <4>1. job[p].op = "import"
        BY <2>1, <2>2, <2>4, <3>2 DEF JobOK, Rows
      <4>2. AfterSave(p, {})
        BY <2>4, <4>1 DEF AfterSave
      <4> QED BY <2>1, <4>2, JobSaved
    <3> QED BY <3>1, <3>2
  <2>6. failures' \in 0..MaxFailures
    BY <1>3, FaultType DEF SaveArchive, CatTypeOK
  <2>7. archive' \in [Names -> [Versions -> Source \cup {Wizard, None}]]
    <3>1. archive' = archive
          \/ archive' = [archive EXCEPT ![pin.name][pin.version] = new.content.source]
      BY <1>3 DEF SaveArchive
    <3>2. pin.name \in Names /\ pin.version \in Versions
      BY <2>3 DEF Pins
    <3> HIDE DEF pin, new
    <3>3. archive \in [Names -> [Versions -> Source \cup {Wizard, None}]]
      BY DEF CatTypeOK
    <3>4. pin.name \in Names /\ pin.version \in Versions
          /\ new.content.source \in Source \cup {Wizard, None}
      BY <2>3, <3>2
    <3>5. CASE archive' = [archive EXCEPT ![pin.name][pin.version] = new.content.source]
      <4> DEFINE D == Source \cup {Wizard, None}
      <4> HIDE DEF D
      <4>1. archive \in [Names -> [Versions -> D]] /\ new.content.source \in D
        BY <3>3, <3>4 DEF D
      <4>2. archive' \in [Names -> [Versions -> D]]
        BY <3>4, <3>5, <4>1, EntryChanges
      <4> QED BY <4>2 DEF D
    <3> QED BY <3>1, <3>3, <3>5
  <2>8. lacking' \in SUBSET Pins
    BY <1>3, <2>3 DEF SaveArchive, CatTypeOK
  <2>9. \A q \in Process \ {p} : job'[q] = job[q]
    BY <2>4 DEF AfterSave, CatTypeOK
  <2> QED BY <1>3, <2>1, <2>5, <2>6, <2>7, <2>8, <2>9 DEF SaveArchive, CatTypeOK, JobsOK,
             repo
<1>4. ASSUME SaveRound(p)
      PROVE  /\ CatTypeOK' /\ JobInv'
             /\ job'[p].at # "publish" /\ job[p].at # "publish"
             /\ \A q \in Process \ {p} : job'[q] = job[q]
  <2>1. job[p] \in Busy /\ job[p].at = "next"
    BY <1>4, BusyType DEF SaveRound
  <2>2. JobsOK' /\ job' = [job EXCEPT ![p] = NoJob]
    BY <1>4, JobFinishes DEF SaveRound, Finishes
  <2>3. failures' \in 0..MaxFailures
    BY <1>4, FaultType DEF SaveRound, CatTypeOK
  <2>4. reg' \in Registry
    BY <1>4, <2>1, ResultType DEF SaveRound, CatTypeOK, Busy
  <2> QED BY <1>4, <2>1, <2>2, <2>3, <2>4 DEF SaveRound, CatTypeOK, JobsOK, repo, catalog,
             NoJob
<1> QED
  BY <1>1, <1>2, <1>3, <1>4 DEF Syncing, SyncOne, SaveAlias, SaveArchive, SaveRound
\* A step that leaves the app and its publication alone.
Apart ==
    /\ UNCHANGED <<pinned, repo, owed>>
    /\ Req' = Req \/ (~AtPublish /\ ~AtPublish')

LEMMA SyncApart ==
    ASSUME CatTypeOK, JobInv, NEW p \in Process, Syncing(p)
    PROVE  CatTypeOK' /\ JobInv' /\ Apart
<1>1. /\ CatTypeOK' /\ JobInv'
      /\ UNCHANGED <<pinned, repo, owed>> /\ (job'[p] = NoJob \/ job'[p].at # "publish")
      /\ job[p].at # "publish"
      /\ \A q \in Process \ {p} : job'[q] = job[q]
  BY SyncStep
<1>2. "request" \in Process
  BY DEF Process
<1>3. CASE p = "request"
  BY <1>1, <1>3 DEF Apart, AtPublish, Req, NoJob
<1>4. CASE p # "request"
  BY <1>1, <1>2, <1>4 DEF Apart, Req
<1> QED BY <1>1, <1>3, <1>4

RegistrySteps ==
    \/ runOneTemplateSync
    \/ \E s \in Source :
          \/ Release(s) \/ handleSyncOne(s) \/ handleNamespaceSource(s)
          \/ \E mode \in {"absent", "bare", "namespaced"} : EditRegistry(s, mode)
    \/ handleUpdateRegistry
    \/ \E n \in Names : DropTemplate(n) \/ handleDelete(n)
    \/ SaveFlag \/ TakeBack \/ SaveNamespaced
    \/ \E v \in Versions : handleImport(v)

LEMMA RequestApart ==
    ASSUME CatTypeOK, JobInv, NEW new \in Busy, JobOK(new), new.at # "publish", Request(new),
           UNCHANGED <<pinned, repo, owed>>
    PROVE  JobsOK' /\ edits' \in 0..MaxEdits /\ Apart
  BY JobRequested DEF Apart, AtPublish

\* A request goes on to another step.
LEMMA RequestGoes ==
    ASSUME CatTypeOK, JobInv, NEW at \in {"next", "repin", "publish"}, Req.at # "idle",
           Goes("request", at), at = "repin" => Req.op = "namespace",
           at # "publish" => Req.prev = Absent /\ Req.op # "upgradeEnv"
    PROVE  JobsOK' /\ Req' = [Req EXCEPT !.at = at]
<1> DEFINE new == [Req EXCEPT !.at = at]
<1>1. "request" \in Process
  BY DEF Process
<1>2. Req \in Busy /\ JobOK(Req)
  BY <1>1, BusyType DEF Req
<1>3. new \in Busy /\ JobOK(new)
  BY <1>2 DEF Busy, JobOK
<1>4. job' = [job EXCEPT !["request"] = new]
  BY DEF Goes, Req
<1> HIDE DEF new
<1>5. JobsOK'
  BY <1>1, <1>3, <1>4, JobMoves
<1>6. Req' = new
  BY <1>1, <1>4 DEF Req, CatTypeOK
<1> QED BY <1>5, <1>6 DEF new

LEMMA RegistryStep ==
    ASSUME CatTypeOK, JobInv, RegistrySteps
    PROVE  CatTypeOK' /\ JobInv' /\ Apart
<1>a. "request" \in Process /\ "ticker" \in Process
  BY DEF Process
<1>b. Req.at # "idle" => Req \in Busy /\ JobOK(Req)
  BY <1>a, BusyType DEF Req
<1>c. reg \in Registry
  BY DEF CatTypeOK
<1>1. CASE runOneTemplateSync
  <2>1. Live(reg) \in SUBSET Source
    BY <1>c, RegistryType
  <2>2. /\ NewJob("sync", "next", reg, Live(reg)) \in Busy
        /\ JobOK(NewJob("sync", "next", reg, Live(reg)))
    BY <1>c, <2>1, NewJobType DEF JobOK
  <2>3. JobsOK'
    BY <1>a, <1>1, <2>2, JobMoves DEF runOneTemplateSync
  <2> QED BY <1>1, <2>3 DEF runOneTemplateSync, CatTypeOK, JobsOK, Apart, Req, catalog, repo
<1>2. ASSUME NEW s \in Source, Release(s)
      PROVE  CatTypeOK' /\ JobInv' /\ Apart
  <2>1. upstream' \in [Source -> Versions]
    BY <1>2, CatalogAssumption DEF Release, CatTypeOK, Versions
  <2> QED BY <1>2, <2>1 DEF Release, CatTypeOK, JobInv, Apart, Req, catalog, repo
<1>3. ASSUME NEW s \in Source, handleSyncOne(s)
      PROVE  CatTypeOK' /\ JobInv' /\ Apart
  <2> DEFINE new == NewJob("sync", "next", reg, {s})
  <2>1. new \in Busy /\ JobOK(new) /\ new.at # "publish"
    BY <1>c, NewJobType DEF JobOK
  <2>2. JobsOK' /\ edits' \in 0..MaxEdits /\ Apart
    BY <1>3, <2>1, RequestApart DEF handleSyncOne
  <2> QED BY <1>3, <2>2 DEF handleSyncOne, CatTypeOK, JobsOK, catalog, repo
<1>4. ASSUME NEW s \in Source, handleNamespaceSource(s)
      PROVE  CatTypeOK' /\ JobInv' /\ Apart
  <2> DEFINE r     == [reg EXCEPT !.ext[s] = "namespaced"]
             names == {Chart} \cap {x.name : x \in {y \in reg.rows : y.source = s}}
             new   == [at |-> "flag", op |-> "namespace", reg |-> r, of |-> {s},
                       todo |-> {s}, got |-> {}, new |-> Absent, names |-> names,
                       env |-> None, prev |-> Absent, seen |-> Env]
  <2>1. r \in Registry /\ names \in SUBSET Names
    BY <1>c DEF Registry, Rows
  <2>2. new \in Busy /\ JobOK(new) /\ new.at # "publish"
    <3> HIDE DEF r, names
    <3> QED BY <2>1 DEF Busy, JobOK
  <2>3. Request(new)
    <3>1. [NewJob("namespace", "flag", r, {s}) EXCEPT !.names = names] = new
      <4> HIDE DEF r, names
      <4> QED BY DEF NewJob
    <3> QED BY <1>4, <3>1 DEF handleNamespaceSource
  <2> HIDE DEF new
  <2>4. JobsOK' /\ edits' \in 0..MaxEdits /\ Apart
    BY <1>4, <2>2, <2>3, RequestApart DEF handleNamespaceSource
  <2> QED BY <1>4, <2>4 DEF handleNamespaceSource, CatTypeOK, JobsOK, catalog, repo
<1>5. ASSUME NEW s \in Source, NEW mode \in {"absent", "bare", "namespaced"},
             EditRegistry(s, mode)
      PROVE  CatTypeOK' /\ JobInv' /\ Apart
  <2> DEFINE new == NewJob("update", "put", [reg EXCEPT !.ext[s] = mode], {})
  <2>1. new \in Busy /\ JobOK(new) /\ new.at # "publish"
    <3>1. [reg EXCEPT !.ext[s] = mode] \in Registry
      BY <1>c DEF Registry
    <3> QED BY <3>1, NewJobType DEF JobOK
  <2>2. JobsOK' /\ edits' \in 0..MaxEdits /\ Apart
    BY <1>5, <2>1, RequestApart DEF EditRegistry
  <2> QED BY <1>5, <2>2 DEF EditRegistry, CatTypeOK, JobsOK, catalog, repo
<1>6. CASE handleUpdateRegistry
  <2> DEFINE new == PruneOrphanSources(Req.reg)
  <2>1. Req \in Busy /\ Req.at = "put"
    BY <1>6, <1>b DEF handleUpdateRegistry, Req
  <2>2. Req.reg \in Registry /\ new \in Registry
    BY <2>1, RegistryType DEF Busy
  <2>3. JobsOK' /\ ~AtPublish'
    <3>1. CASE Drops({x.name : x \in Req.reg.rows \ new.rows})
      <4>1. {x.name : x \in Req.reg.rows \ new.rows} \in SUBSET Names
        BY <2>2 DEF Registry, Rows
      <4> QED BY <3>1, <4>1, JobDrops
    <3>2. CASE Finishes("request")
      BY <1>a, <3>2, JobFinishes DEF Finishes, AtPublish, Req, NoJob, CatTypeOK
    <3> QED BY <1>6, <3>1, <3>2 DEF handleUpdateRegistry, Req
  <2>4. failures' \in 0..MaxFailures
    BY <1>6, FaultType DEF handleUpdateRegistry, CatTypeOK
  <2> QED BY <1>6, <2>1, <2>2, <2>3, <2>4
      DEF handleUpdateRegistry, CatTypeOK, JobsOK, Apart, AtPublish, Req, catalog, repo
<1>7. ASSUME NEW n \in Names, DeletesTemplate(n)
      PROVE  /\ alias' \in [Names -> Content \cup {Absent}]
             /\ archive' \in [Names -> [Versions -> Source \cup {Wizard, None}]]
             /\ lacking' \in SUBSET Pins
             /\ failures' \in 0..MaxFailures
  <2>1. PICK gone, current : Deletes(n, gone, current)
    BY <1>7 DEF DeletesTemplate
  <2>2. /\ alias' \in [Names -> Content \cup {Absent}] /\ lacking' \in SUBSET Pins
        /\ archive' \in [Names -> [Versions -> Source \cup {Wizard, None}]]
    BY <2>1 DEF Deletes, CatTypeOK
  <2>3. failures' \in 0..MaxFailures
    BY <1>7, FaultType DEF DeletesTemplate, CatTypeOK
  <2> QED BY <2>2, <2>3
<1>8. ASSUME NEW n \in Names, DropTemplate(n)
      PROVE  CatTypeOK' /\ JobInv' /\ Apart
  <2>1. Req \in Busy /\ Req.at = "drop"
    BY <1>8, <1>b DEF DropTemplate, Req
  <2>2. JobsOK' /\ ~AtPublish'
    <3>1. Req.names \ {n} \in SUBSET Names
      BY <2>1 DEF Busy
    <3> QED BY <1>8, <3>1, JobDrops DEF DropTemplate, Req
  <2>3. /\ alias' \in [Names -> Content \cup {Absent}]
        /\ archive' \in [Names -> [Versions -> Source \cup {Wizard, None}]]
        /\ lacking' \in SUBSET Pins /\ failures' \in 0..MaxFailures
    BY <1>7, <1>8 DEF DropTemplate
  <2> QED BY <1>8, <2>1, <2>2, <2>3
      DEF DropTemplate, CatTypeOK, JobsOK, Apart, AtPublish, Req, repo
<1>9. ASSUME NEW n \in Names, handleDelete(n)
      PROVE  CatTypeOK' /\ JobInv' /\ Apart
  <2>1. edits' \in 0..MaxEdits
    BY <1>9, CatalogAssumption DEF handleDelete, CatTypeOK
  <2> QED BY <1>7, <1>9, <2>1 DEF handleDelete, CatTypeOK, JobInv, Apart, Req, repo
<1>10. CASE SaveFlag
  <2>1. Req \in Busy /\ Req.at = "flag" /\ JobOK(Req)
    BY <1>10, <1>b DEF SaveFlag, Req
  <2>2. JobsOK' /\ ~AtPublish'
    <3>1. CASE Goes("request", "next")
      <4>1. Req' = [Req EXCEPT !.at = "next"] /\ JobsOK'
        BY <2>1, <3>1, RequestGoes DEF JobOK
      <4> QED BY <2>1, <4>1 DEF AtPublish, Busy
    <3>2. CASE Finishes("request")
      BY <1>a, <3>2, JobFinishes DEF Finishes, AtPublish, Req, NoJob, CatTypeOK
    <3> QED BY <1>10, <3>1, <3>2 DEF SaveFlag
  <2>3. failures' \in 0..MaxFailures
    BY <1>10, FaultType DEF SaveFlag, CatTypeOK
  <2>4. reg' \in Registry
    BY <1>10, <1>c, <2>1 DEF SaveFlag, Busy, Req
  <2> QED BY <1>10, <2>1, <2>2, <2>3, <2>4
      DEF SaveFlag, CatTypeOK, JobsOK, Apart, AtPublish, Req, catalog, repo
<1>11. CASE TakeBack
  <2> DEFINE bare == [s \in Source |-> IF s \in Req.of THEN "bare" ELSE Req.reg.ext[s]]
  <2>1. Req \in Busy /\ Req.at = "next"
    BY <1>11, <1>b DEF TakeBack, Req
  <2>2. Req.reg \in Registry
    BY <2>1 DEF Busy
  <2>3. [Req.reg EXCEPT !.ext = bare] \in Registry
    BY <2>2 DEF Registry
  <2>4. reg' \in Registry
    BY <1>11, <1>c, <2>3 DEF TakeBack, Req
  <2>5. JobsOK' /\ ~AtPublish'
    BY <1>a, <1>11, JobFinishes DEF TakeBack, Finishes, AtPublish, Req, NoJob, CatTypeOK
  <2> QED BY <1>11, <2>1, <2>4, <2>5
      DEF TakeBack, CatTypeOK, JobsOK, Apart, AtPublish, Req, catalog, repo
<1>12. CASE SaveNamespaced
  <2> DEFINE new == [Req EXCEPT !.at = "repin", !.reg = Unread, !.got = {}]
  <2>1. Req \in Busy /\ JobOK(Req) /\ Req.at = "next" /\ Req.op = "namespace"
    BY <1>12, <1>b DEF SaveNamespaced, Req
  <2>2. new \in Busy /\ JobOK(new) /\ new.at # "publish"
    BY <2>1, UnreadType DEF Busy, JobOK
  <2>3. JobsOK' /\ ~AtPublish'
    <3>1. CASE job' = [job EXCEPT !["request"] = new]
      <4> HIDE DEF new
      <4> QED BY <1>a, <2>2, <3>1, JobMoves DEF AtPublish, Req, CatTypeOK
    <3>2. CASE Finishes("request")
      BY <1>a, <3>2, JobFinishes DEF Finishes, AtPublish, Req, NoJob, CatTypeOK
    <3> QED BY <1>12, <3>1, <3>2 DEF SaveNamespaced, Req
  <2>4. failures' \in 0..MaxFailures
    BY <1>12, FaultType DEF SaveNamespaced, CatTypeOK
  <2>5. reg' \in Registry
    BY <1>12, <1>c, <2>1, ResultType DEF SaveNamespaced, Busy, Req
  <2> QED BY <1>12, <2>1, <2>3, <2>4, <2>5
      DEF SaveNamespaced, CatTypeOK, JobsOK, Apart, AtPublish, Req, catalog, repo
<1>13. ASSUME NEW v \in Versions, handleImport(v)
       PROVE  CatTypeOK' /\ JobInv' /\ Apart
  <2> DEFINE chart == [name |-> Chart, content |-> [source |-> Wizard, version |-> v]]
             new   == [NewJob("import", "alias", Unread, {}) EXCEPT !.new = chart]
  <2>1. chart \in [name : Names, content : Content] /\ chart # Absent
    BY NamesApart, AbsentApart DEF Content
  <2>2. new \in Busy /\ JobOK(new) /\ new.at # "publish"
    <3> HIDE DEF chart
    <3>1. /\ NewJob("import", "alias", Unread, {}) \in Busy
          /\ NewJob("import", "alias", Unread, {}) =
               [at |-> "alias", op |-> "import", reg |-> Unread, of |-> {}, todo |-> {},
                got |-> {}, new |-> Absent, names |-> {}, env |-> None, prev |-> Absent,
                seen |-> Env]
      BY NewJobType, UnreadType
    <3> QED BY <2>1, <3>1 DEF Busy, JobOK
  <2>3. Request(new)
    BY <1>13 DEF handleImport
  <2> HIDE DEF new
  <2>4. JobsOK' /\ edits' \in 0..MaxEdits /\ Apart
    BY <1>13, <2>2, <2>3, RequestApart DEF handleImport
  <2> QED BY <1>13, <2>4 DEF handleImport, CatTypeOK, JobsOK, catalog, repo
<1> QED
  BY <1>1, <1>2, <1>3, <1>4, <1>5, <1>6, <1>8, <1>9, <1>10, <1>11, <1>12, <1>13
  DEF RegistrySteps
-----------------------------------------------------------------------------
(* A version that is kept under a name, or is lacking, stays so.           *)

LEMMA AliasKeeps ==
    ASSUME CatTypeOK, JobInv, NEW p \in Process, SaveAlias(p),
           NEW n \in Names, NEW v \in Versions, Kept(n, v)
    PROVE  Kept(n, v)'
<1> DEFINE new == job[p].new
           pin == [name |-> n, version |-> v]
<1>1. new \in [name : Names, content : Content] /\ new.content # Absent
  BY BusyType, AbsentApart DEF SaveAlias, Busy, JobOK
<1>2. pin \in Pins /\ pin.name = n /\ pin.version = v
  BY DEF Pins
<1> HIDE DEF new, pin
<1>3. CASE alias' = alias
  BY <1>3 DEF SaveAlias, Kept, ListTemplateVersions
<1>4. CASE /\ alias' = [alias EXCEPT ![new.name] = new.content]
           /\ lacking' = lacking \cup {x \in Pins :
                /\ x.name = new.name /\ x.version # new.content.version
                /\ alias[x.name] # Absent /\ alias[x.name].version = x.version
                /\ archive[x.name][x.version] = None}
  <2>1. archive' = archive
    BY DEF SaveAlias
  <2>2. CASE pin \in lacking \/ archive[n][v] # None
    BY <1>4, <2>1, <2>2 DEF Kept, ListTemplateVersions, pin
  <2>3. CASE /\ archive[n][v] = None /\ alias[n] # Absent /\ alias[n].version = v
    <3>1. CASE n # new.name
      BY <1>4, <2>1, <2>3, <3>1 DEF Kept, ListTemplateVersions, CatTypeOK
    <3>2. CASE n = new.name /\ v = new.content.version
      BY <1>1, <1>4, <2>1, <3>2 DEF Kept, ListTemplateVersions, CatTypeOK
    <3>3. CASE n = new.name /\ v # new.content.version
      <4>1. pin \in lacking'
        BY <1>2, <1>4, <2>3, <3>3
      <4> QED BY <4>1 DEF Kept, pin
    <3> QED BY <3>1, <3>2, <3>3
  <2> QED BY <2>2, <2>3 DEF Kept, ListTemplateVersions, pin
<1> QED BY <1>3, <1>4 DEF SaveAlias, new

LEMMA ArchiveKeeps ==
    ASSUME CatTypeOK, JobInv, NEW p \in Process, SaveArchive(p),
           NEW n \in Names, NEW v \in Versions, Kept(n, v)
    PROVE  Kept(n, v)'
<1> DEFINE new == job[p].new
<1>1. new \in [name : Names, content : Content] /\ new.content.source # None
  BY BusyType, NamesApart DEF SaveArchive, Busy, JobOK, Content
<1>2. \/ archive' = [archive EXCEPT ![new.name][new.content.version] = new.content.source]
      \/ archive' = archive
  BY DEF SaveArchive
<1>3. archive[n][v] # None => archive'[n][v] # None
  <2> HIDE DEF new
  <2> QED BY <1>1, <1>2 DEF CatTypeOK
<1>4. alias' = alias /\ lacking \subseteq lacking'
  BY DEF SaveArchive
<1> QED BY <1>3, <1>4 DEF Kept, ListTemplateVersions

LEMMA DropKeeps ==
    ASSUME CatTypeOK, NEW x \in Names, DeletesTemplate(x),
           NEW n \in Names, NEW v \in Versions, Kept(n, v)
    PROVE  Kept(n, v)'
<1>1. PICK gone, current : Deletes(x, gone, current)
  BY DEF DeletesTemplate
<1> DEFINE pin == [name |-> n, version |-> v]
<1>2. pin \in Pins /\ pin.name = n /\ pin.version = v
  BY DEF Pins
<1>3. CASE n # x
  BY <1>1, <1>3 DEF Deletes, Kept, ListTemplateVersions, CatTypeOK
<1>4. CASE pin \in lacking \/ (n = x /\ v \in gone)
  <2>1. pin \in lacking'
    BY <1>1, <1>2, <1>4 DEF Deletes
  <2> QED BY <2>1 DEF Kept
<1>5. CASE n = x /\ v \notin gone /\ archive[n][v] # None
  BY <1>1, <1>5 DEF Deletes, Kept, ListTemplateVersions, CatTypeOK
<1>6. CASE n = x /\ v \notin gone /\ archive[n][v] = None /\ alias[n] # Absent /\ alias[n].version = v
  <2>1. CASE current
    <3>1. pin \in lacking'
      BY <1>1, <1>2, <1>6, <2>1 DEF Deletes
    <3> QED BY <3>1 DEF Kept
  <2>2. CASE ~current
    <3>1. alias' = alias
      BY <1>1, <2>2 DEF Deletes
    <3> QED BY <1>6, <3>1 DEF Kept, ListTemplateVersions
  <2> QED BY <2>1, <2>2
<1> QED BY <1>3, <1>4, <1>5, <1>6 DEF Kept, ListTemplateVersions

LEMMA KeptStays ==
    ASSUME CatTypeOK, JobInv, [CatNext]_catVars
    PROVE  /\ lacking \subseteq lacking'
           /\ \A n \in Names, v \in Versions : Kept(n, v) => Kept(n, v)'
<1> USE DEF Kept, ListTemplateVersions
<1>1. ASSUME UNCHANGED catalog, lacking \subseteq lacking'
      PROVE  /\ lacking \subseteq lacking'
             /\ \A n \in Names, v \in Versions : Kept(n, v) => Kept(n, v)'
  BY <1>1 DEF catalog
<1>2. CASE UNCHANGED catVars
  BY <1>1, <1>2 DEF catVars
<1>3. ASSUME NEW p \in Process, Syncing(p)
      PROVE  /\ lacking \subseteq lacking'
             /\ \A n \in Names, v \in Versions : Kept(n, v) => Kept(n, v)'
  <2>1. CASE SaveAlias(p)
    BY <2>1, AliasKeeps DEF SaveAlias
  <2>2. CASE SaveArchive(p)
    BY <2>2, ArchiveKeeps DEF SaveArchive
  <2>3. CASE (\E s \in Source : SyncOne(p, s)) \/ SaveRound(p)
    BY <1>1, <2>3 DEF SyncOne, SaveRound
  <2> QED BY <1>3, <2>1, <2>2, <2>3 DEF Syncing
<1>4. ASSUME NEW x \in Names, DropTemplate(x) \/ handleDelete(x)
      PROVE  /\ lacking \subseteq lacking'
             /\ \A n \in Names, v \in Versions : Kept(n, v) => Kept(n, v)'
  <2>1. DeletesTemplate(x)
    BY <1>4 DEF DropTemplate, handleDelete
  <2>2. lacking \subseteq lacking'
    BY <2>1 DEF DeletesTemplate, Deletes
  <2> QED BY <2>1, <2>2, DropKeeps
<1>5. ASSUME \/ runOneTemplateSync
             \/ \E s \in Source :
                  \/ Release(s) \/ handleSyncOne(s) \/ handleNamespaceSource(s)
                  \/ \E mode \in {"absent", "bare", "namespaced"} : EditRegistry(s, mode)
             \/ handleUpdateRegistry
             \/ SaveFlag \/ TakeBack \/ SaveNamespaced
             \/ \E v \in Versions : handleImport(v)
      PROVE  UNCHANGED catalog /\ lacking \subseteq lacking'
  BY <1>5 DEF runOneTemplateSync, Release, handleSyncOne, handleNamespaceSource,
     EditRegistry,
     handleUpdateRegistry, SaveFlag, TakeBack, SaveNamespaced, handleImport
<1>6. ASSUME \/ RepinTemplates \/ forceRepublish \/ republishStable \/ Crash
             \/ \E v \in Versions :
                  \/ upgradeTemplatelessApp(v)
                  \/ \E e \in Env : upgradeAppTemplateForEnv(e, v)
                  \/ \E n \in Names : retemplateApp(n, v)
      PROVE  UNCHANGED catalog /\ lacking \subseteq lacking'
  BY <1>6 DEF RepinTemplates, forceRepublish, republishStable, Crash,
     upgradeTemplatelessApp,
     upgradeAppTemplateForEnv, retemplateApp, Saves
<1> QED BY <1>1, <1>2, <1>3, <1>4, <1>5, <1>6 DEF CatNext
-----------------------------------------------------------------------------
(* What the app is pinned to, and what is published.                       *)

PinsOK == CatTypeOK /\ JobInv /\ PinsInv /\ UpgradeInv /\ KeptInv

LEMMA AllKeptStays ==
    ASSUME PinsOK, [CatNext]_catVars, NEW a \in AppSpecs, AllKept(a)
    PROVE  \A n \in Names, v \in Versions :
              n = a.name /\ v \in VersionsOf(a) => Kept(n, v)'
  BY KeptStays DEF PinsOK, AllKept

LEMMA VersionsType ==
    ASSUME NEW a \in AppSpecs
    PROVE  a.name \in Names /\ VersionsOf(a) \subseteq Versions
  BY DEF AppSpecs, VersionsOf

\* The pins of an app that is saved as it was.
LEMMA AppKept ==
    ASSUME PinsOK, [CatNext]_catVars, pinned' = pinned
    PROVE  AllKept(pinned)'
<1>1. pinned \in AppSpecs /\ AllKept(pinned)
  BY DEF PinsOK, CatTypeOK, KeptInv
<1>2. \A n \in Names, v \in Versions : n = pinned.name /\ v \in VersionsOf(pinned) => Kept(n, v)'
  BY <1>1, AllKeptStays
<1>3. VersionsOf(pinned)' = VersionsOf(pinned)
  BY DEF VersionsOf
<1>4. \A v \in VersionsOf(pinned) : \A n \in Names : n = pinned'.name => Kept(n, v)'
  BY <1>1, <1>2, VersionsType
<1> QED BY <1>1, <1>3, <1>4, VersionsType DEF AllKept

LEMMA ApartPins ==
    ASSUME PinsOK, [CatNext]_catVars, CatTypeOK', JobInv', Apart
    PROVE  PinsOK' /\ published' = published /\ charts' = charts
<1>1. AllKept(pinned)'
  BY AppKept DEF Apart
<1>2. CASE Req' = Req
  <2>1. AtPublish /\ Req.prev # Absent => AllKept(Req.prev)'
    <3> SUFFICES ASSUME AtPublish, Req.prev # Absent PROVE AllKept(Req.prev)'
      OBVIOUS
    <3>1. Req.prev \in AppSpecs
      BY BusyType DEF PinsOK, Req, AtPublish, Process, Busy
    <3>2. Req'.prev = Req.prev
      BY <1>2
    <3>3. AllKept(Req.prev)
      BY DEF PinsOK, KeptInv
    <3>4. \A n \in Names, v \in Versions :
             n = Req.prev.name /\ v \in VersionsOf(Req.prev) => Kept(n, v)'
      BY <3>1, <3>3, AllKeptStays
    <3> HIDE DEF Req
    <3>5. Req'.prev.name \in Names /\ VersionsOf(Req.prev)' \subseteq Versions
          /\ VersionsOf(Req.prev)' = VersionsOf(Req.prev)
      BY <3>1, <3>2, VersionsType DEF VersionsOf
    <3> QED BY <3>2, <3>4, <3>5 DEF AllKept
  <2> QED BY <1>1, <1>2, <2>1
      DEF PinsOK, PinsInv, UpgradeInv, KeptInv, Apart, AtPublish, repo, PinsIn, PinOf
<1>3. CASE ~AtPublish /\ ~AtPublish'
  BY <1>1, <1>3 DEF PinsOK, PinsInv, UpgradeInv, KeptInv, Apart, repo, PinsIn, PinOf
<1> QED BY <1>2, <1>3 DEF Apart, repo

\* A request saves the app with other pins, and is to publish it.
LEMMA SavesPins ==
    ASSUME PinsOK, [CatNext]_catVars, NEW a \in AppSpecs, NEW op \in {"upgrade", "upgradeEnv"},
           NEW e \in Env \cup {None}, NEW seen \in SUBSET Env, NEW complete \in BOOLEAN,
           Saves(a, op, e, seen, complete),
           a.name = pinned.name \/ a.env = Follow, AllKept(a),
           op = "upgradeEnv" =>
              e \in Env /\ \A x \in seen \ {e} : PinOf(a, x) = PinOf(pinned, x)
    PROVE  PinsOK' /\ published' = published /\ charts' = charts
<1> DEFINE job0 == NewJob(op, "publish", Unread, {})
           new  == [job0 EXCEPT !.prev = pinned, !.env = e, !.seen = seen]
<1>1. pinned \in AppSpecs /\ pinned # Absent
  BY AbsentApart DEF PinsOK, CatTypeOK
<1>2. job0 \in Busy /\ job0.at = "publish" /\ job0.op = op
  BY NewJobType, UnreadType
<1>3. /\ pinned' = a /\ UNCHANGED <<upstream, reg, catalog, repo, lacking>>
      /\ \/ Request(new) /\ UNCHANGED owed
         \/ owed' = TRUE /\ Req = NoJob /\ edits < MaxEdits /\ edits' = edits + 1 /\ job' = job
  BY DEF Saves, Req
<1>a. failures' \in 0..MaxFailures
  <2>1. failures' = failures \/ Failure
    BY DEF Saves
  <2> QED BY <2>1, FaultType DEF PinsOK, CatTypeOK
<1> HIDE DEF job0
<1>4. /\ new \in Busy /\ JobOK(new) /\ new.at = "publish" /\ new.prev = pinned
      /\ new.op = op /\ new.env = e /\ new.seen = seen
  BY <1>1, <1>2 DEF Busy, JobOK
<1> HIDE DEF new
<1>b. AllKept(pinned)'
  <2>1. \A n \in Names, v \in Versions : n = a.name /\ v \in VersionsOf(a) => Kept(n, v)'
    BY AllKeptStays
  <2>2. /\ pinned' = a /\ pinned'.name = a.name /\ VersionsOf(pinned)' = VersionsOf(a)
        /\ a.name \in Names /\ VersionsOf(a) \subseteq Versions
    BY <1>3, VersionsType DEF VersionsOf
  <2> QED BY <2>1, <2>2 DEF AllKept
<1>5. CASE Request(new) /\ UNCHANGED owed
  <2>1. JobsOK' /\ edits' \in 0..MaxEdits /\ Req = NoJob /\ Req' = new /\ ~AtPublish
    BY <1>4, <1>5, JobRequested DEF PinsOK
  <2>2. CatTypeOK' /\ JobInv'
    BY <1>3, <1>5, <1>a, <2>1 DEF PinsOK, CatTypeOK, JobsOK, catalog, repo
  <2>3. PinsInv'
    BY <1>3, <1>4, <1>5, <2>1 DEF PinsOK, PinsInv, AtPublish, repo, PinsIn, PinOf
  <2>4. UpgradeInv'
    BY <1>3, <1>4, <2>1 DEF UpgradeInv, AtPublish, PinOf, Follow
  <2>5. AllKept(Req.prev)'
    <3>1. \A n \in Names, v \in Versions :
             n = pinned.name /\ v \in VersionsOf(pinned) => Kept(n, v)'
      BY <1>1, AllKeptStays DEF PinsOK, KeptInv
    <3>2. /\ Req'.prev.name = pinned.name /\ VersionsOf(Req.prev)' = VersionsOf(pinned)
          /\ pinned.name \in Names /\ VersionsOf(pinned) \subseteq Versions
      BY <1>1, <1>4, <2>1, VersionsType DEF VersionsOf
    <3> QED BY <3>1, <3>2 DEF AllKept
  <2> QED BY <1>3, <1>b, <2>2, <2>3, <2>4, <2>5 DEF PinsOK, KeptInv, repo
<1>6. CASE /\ owed' = TRUE /\ Req = NoJob /\ edits < MaxEdits /\ edits' = edits + 1
           /\ job' = job
  <2>1. edits' \in 0..MaxEdits
    BY <1>6, CatalogAssumption DEF PinsOK, CatTypeOK
  <2>2. ~AtPublish'
    BY <1>6 DEF AtPublish, Req, NoJob
  <2>3. CatTypeOK' /\ JobInv'
    BY <1>3, <1>6, <1>a, <2>1 DEF PinsOK, CatTypeOK, JobInv, catalog, repo
  <2>4. PinsInv' /\ UpgradeInv' /\ KeptInv'
    BY <1>6, <1>b, <2>2 DEF PinsInv, UpgradeInv, KeptInv
  <2> QED BY <1>3, <2>3, <2>4 DEF PinsOK, repo
<1> QED BY <1>3, <1>5, <1>6

LEMMA UpgradePins ==
    ASSUME PinsOK, [CatNext]_catVars, NEW v \in Versions, upgradeTemplatelessApp(v)
    PROVE  PinsOK' /\ published' = published /\ charts' = charts
<1> DEFINE a == [pinned EXCEPT !.version = v, !.env = Follow]
<1>1. pinned \in AppSpecs
  BY DEF PinsOK, CatTypeOK
<1>2. a \in AppSpecs /\ a.name = pinned.name /\ a.version = v /\ a.env = Follow
  BY <1>1, FollowType DEF AppSpecs
<1>3. AllKept(a)
  <2>1. Kept(pinned.name, v)
    BY DEF upgradeTemplatelessApp, Kept
  <2> HIDE DEF a
  <2> QED BY <1>2, <2>1 DEF AllKept, VersionsOf, Follow
<1>4. Saves(a, "upgrade", None, Env, TRUE)
  BY DEF upgradeTemplatelessApp
<1> HIDE DEF a
<1> QED BY <1>2, <1>3, <1>4, SavesPins

LEMMA UpgradeEnvPins ==
    ASSUME PinsOK, [CatNext]_catVars, NEW e \in Env, NEW v \in Versions,
           upgradeAppTemplateForEnv(e, v)
    PROVE  PinsOK' /\ published' = published /\ charts' = charts
<1>0. PICK seen \in SUBSET Env, listed \in SUBSET Env :
         Saves(Folds(TargetsFor(pinned, e, v), e, seen, listed), "upgradeEnv", e, seen,
               seen = Env /\ listed = Env)
  BY CatalogAssumption DEF upgradeAppTemplateForEnv
<1> DEFINE a == Folds(TargetsFor(pinned, e, v), e, seen, listed)
<1>1. pinned \in AppSpecs
  BY DEF PinsOK, CatTypeOK
<1>2. /\ a \in AppSpecs /\ a.name = pinned.name
      /\ VersionsOf(a) \subseteq VersionsOf(pinned) \cup {v}
      /\ \A x \in seen \ {e} : PinOf(a, x) = PinOf(pinned, x)
  <2>1. seen \in SUBSET Env /\ listed \in SUBSET Env
    BY <1>0
  <2>2. TargetsKeep(pinned, e, v, seen, listed)
    BY <1>1, <2>1, Targeted
  <2> QED BY <2>2 DEF TargetsKeep
<1>3. Saves(a, "upgradeEnv", e, seen, seen = Env /\ listed = Env)
  BY <1>0
<1> HIDE DEF a
<1>4. AllKept(a)
  <2>1. AllKept(pinned)
    BY DEF PinsOK, KeptInv
  <2>2. Kept(pinned.name, v)
    BY DEF upgradeAppTemplateForEnv, Kept
  <2> QED BY <1>2, <2>1, <2>2 DEF AllKept
<1> QED BY <1>2, <1>3, <1>4, SavesPins

LEMMA RetemplatePins ==
    ASSUME PinsOK, [CatNext]_catVars, NEW n \in Names, NEW v \in Versions, retemplateApp(n, v)
    PROVE  PinsOK' /\ published' = published /\ charts' = charts
<1> DEFINE a == [pinned EXCEPT !.name = n, !.version = v, !.env = Follow]
<1>1. pinned \in AppSpecs
  BY DEF PinsOK, CatTypeOK
<1>2. a \in AppSpecs /\ a.name = n /\ a.version = v /\ a.env = Follow
  BY <1>1, FollowType DEF AppSpecs
<1>3. AllKept(a)
  <2>1. Kept(n, v)
    BY DEF retemplateApp, Kept
  <2> HIDE DEF a
  <2> QED BY <1>2, <2>1 DEF AllKept, VersionsOf, Follow
<1>4. Saves(a, "upgrade", None, Env, TRUE)
  BY DEF retemplateApp
<1> HIDE DEF a
<1> QED BY <1>2, <1>3, <1>4, SavesPins

LEMMA ForcePins ==
    ASSUME PinsOK, [CatNext]_catVars, forceRepublish
    PROVE  PinsOK' /\ published' = published /\ charts' = charts
<1> DEFINE new == NewJob("upgrade", "publish", Unread, {})
<1>1. new \in Busy /\ JobOK(new) /\ new.prev = Absent
  BY NewJobType, UnreadType DEF JobOK
<1>2. JobsOK' /\ edits' \in 0..MaxEdits /\ Req' = new
  BY <1>1, JobRequested DEF PinsOK, forceRepublish
<1> HIDE DEF new
<1>3. CatTypeOK' /\ JobInv'
  BY <1>2 DEF forceRepublish, PinsOK, CatTypeOK, JobsOK, catalog, repo
<1>4. AllKept(pinned)'
  BY AppKept DEF forceRepublish
<1>5. PinsInv' /\ UpgradeInv' /\ KeptInv'
  <2>1. new.at = "publish"
    BY NewJobType, UnreadType DEF new
  <2> QED BY <1>1, <1>2, <1>4, <2>1 DEF PinsInv, UpgradeInv, KeptInv, AtPublish
<1> QED BY <1>3, <1>5 DEF PinsOK, forceRepublish, repo

LEMMA CrashPins ==
    ASSUME PinsOK, [CatNext]_catVars, Crash
    PROVE  PinsOK' /\ published' = published /\ charts' = charts
<1>1. job' = [p \in Process |-> NoJob] /\ UNCHANGED <<upstream, reg, catalog, pinned, repo, edits>>
  BY DEF Crash
<1>2. lacking' \in SUBSET Pins
  <2>1. ASSUME NEW p \in Process, job[p].at = "archive"
        PROVE  [name |-> job[p].new.name, version |-> job[p].new.content.version] \in Pins
    <3>1. job[p].new \in [name : Names, content : Content]
      BY <2>1, BusyType DEF PinsOK, Busy, JobOK
    <3> QED BY <3>1 DEF Pins, Content
  <2> QED BY <2>1 DEF Crash, PinsOK, CatTypeOK
<1>3. failures' \in 0..MaxFailures
  BY FaultType DEF Crash, PinsOK
<1>4. owed' \in BOOLEAN /\ (~owed' => ~owed /\ ~AtPublish)
  BY DEF Crash, AtPublish, Req, PinsOK, CatTypeOK
<1>5. CatTypeOK' /\ JobInv'
  BY <1>1, <1>2, <1>3, <1>4 DEF PinsOK, CatTypeOK, JobInv, catalog, repo
<1>6. AllKept(pinned)'
  BY <1>1, AppKept
<1>7. ~AtPublish'
  BY <1>1 DEF AtPublish, Req, Process, NoJob
<1>8. PinsInv' /\ UpgradeInv' /\ KeptInv'
  BY <1>1, <1>4, <1>6, <1>7 DEF PinsOK, PinsInv, UpgradeInv, KeptInv, repo, PinsIn, PinOf
<1> QED BY <1>1, <1>5, <1>8 DEF PinsOK, repo
LEMMA RepinPins ==
    ASSUME PinsOK, [CatNext]_catVars, RepinTemplates
    PROVE  PinsOK' /\ published' = published /\ charts' = charts
<1>0. PICK to : to = CHOOSE x \in Req.of : TRUE
  OBVIOUS
<1> DEFINE a == [pinned EXCEPT !.name = to]
<1>1. "request" \in Process
  BY DEF Process
<1>2. Req \in Busy /\ JobOK(Req) /\ Req.at = "repin"
  BY <1>1, BusyType DEF PinsOK, RepinTemplates, Req
<1>3. to \in Names
  <2>1. Req.of # {} /\ Req.of \subseteq Source
    BY <1>2 DEF JobOK, Busy
  <2> QED BY <1>0, <2>1, NamesApart
<1>4. pinned \in AppSpecs
  BY DEF PinsOK, CatTypeOK
<1>5. CASE /\ pinned' = a
           /\ lacking' = lacking \cup {pin \in Pins :
                pin.name = to /\ pin.version \notin ListTemplateVersions(to)}
           /\ failures' \in 0..MaxFailures
           /\ \/ Goes("request", "publish") /\ UNCHANGED owed
              \/ Drops(Req.names) /\ owed' = TRUE
           /\ UNCHANGED <<upstream, reg, catalog, repo, edits>>
  <2>1. a \in AppSpecs /\ a.name = to
    BY <1>3, <1>4 DEF AppSpecs
  <2>2. /\ JobsOK' /\ (AtPublish' => Req'.prev = Absent)
        /\ ~owed' => AtPublish'
    <3>1. CASE Goes("request", "publish")
      <4>1. JobsOK' /\ Req' = [Req EXCEPT !.at = "publish"]
        BY <1>2, <3>1, RequestGoes DEF PinsOK
      <4> QED BY <1>2, <4>1 DEF JobOK, Busy, AtPublish
    <3>2. CASE Drops(Req.names) /\ owed' = TRUE
      <4>1. Req.names \in SUBSET Names
        BY <1>2 DEF Busy
      <4> QED BY <3>2, <4>1, JobDrops DEF PinsOK
    <3> QED BY <1>5, <3>1, <3>2
  <2>3. owed' \in BOOLEAN
    BY <1>5 DEF PinsOK, CatTypeOK
  <2>4. \A v \in Versions : Kept(to, v)'
    <3> SUFFICES ASSUME NEW v \in Versions PROVE Kept(to, v)'
      OBVIOUS
    <3> DEFINE pin == [name |-> to, version |-> v]
    <3>1. pin \in Pins /\ pin.name = to /\ pin.version = v
      BY <1>3 DEF Pins
    <3>2. pin \in lacking' \/ v \in ListTemplateVersions(to)
      BY <1>5, <3>1
    <3> QED BY <1>5, <3>2 DEF Kept, ListTemplateVersions, catalog
  <2>5. AllKept(pinned)'
    <3>1. pinned'.name = to /\ VersionsOf(pinned)' \subseteq Versions
      BY <1>5, <2>1, VersionsType DEF VersionsOf
    <3> QED BY <2>4, <3>1 DEF AllKept
  <2>6. CatTypeOK' /\ JobInv'
    BY <1>5, <2>1, <2>2, <2>3 DEF PinsOK, CatTypeOK, JobsOK, catalog, repo
  <2>7. PinsInv' /\ UpgradeInv' /\ KeptInv'
    BY <2>2, <2>5 DEF PinsInv, UpgradeInv, KeptInv
  <2> QED BY <1>5, <2>6, <2>7 DEF PinsOK, repo
<1>6. CASE /\ Drops(Req.names) /\ failures' \in 0..MaxFailures
           /\ UNCHANGED <<upstream, reg, catalog, repo, edits, owed, pinned, lacking>>
  <2>1. Req.names \in SUBSET Names
    BY <1>2 DEF Busy
  <2>2. JobsOK' /\ ~AtPublish'
    BY <1>6, <2>1, JobDrops DEF PinsOK
  <2>3. CatTypeOK' /\ JobInv'
    BY <1>6, <2>2 DEF PinsOK, CatTypeOK, JobsOK, catalog, repo
  <2>4. Apart
    BY <1>2, <1>6, <2>2 DEF Apart, AtPublish
  <2> QED BY <2>3, <2>4, ApartPins
<1> QED
  <2>1. failures \in 0..MaxFailures /\ (Failure => failures' \in 0..MaxFailures)
    BY FaultType DEF PinsOK, CatTypeOK
  <2> QED BY <1>0, <1>5, <1>6, <2>1 DEF RepinTemplates, Req

LEMMA RestoredPins ==
    ASSUME PinsOK, AtPublish, Req.prev # Absent
    PROVE  /\ PinsRestored(Req).name = Req.prev.name
           /\ VersionsOf(PinsRestored(Req)) \subseteq
                VersionsOf(Req.prev) \cup (IF pinned.name = Req.prev.name THEN VersionsOf(pinned) ELSE {})
           /\ (\A e \in Env : ~Stays(Req, e)) => PinsIn(PinsRestored(Req)) = PinsIn(Req.prev)
<1> DEFINE prev == Req.prev
           r    == [prev EXCEPT !.env = [e \in Env |-> IF Stays(Req, e) THEN pinned.env[e] ELSE @[e]],
                                !.over = pinned.over]
<1>1. prev \in AppSpecs
  BY BusyType DEF PinsOK, AtPublish, Req, Process, Busy
<1>2. PinsRestored(Req) = r
  BY DEF PinsRestored
<1>3. /\ r.name = prev.name /\ r.version = prev.version
      /\ \A e \in Env : r.env[e] = IF Stays(Req, e) THEN pinned.env[e] ELSE prev.env[e]
  BY <1>1 DEF AppSpecs
<1>4. \A e \in Env : Stays(Req, e) => pinned.name = prev.name /\ pinned.env[e] # 0
  BY DEF Stays, PinsOK, UpgradeInv, Follow
<1> HIDE DEF r, prev
<1>5. VersionsOf(r) \subseteq
         VersionsOf(prev) \cup (IF pinned.name = prev.name THEN VersionsOf(pinned) ELSE {})
  BY <1>3, <1>4 DEF VersionsOf
<1>6. (\A e \in Env : ~Stays(Req, e)) => PinsIn(r) = PinsIn(prev)
  BY <1>3 DEF PinsIn, PinOf
<1> QED BY <1>2, <1>3, <1>5, <1>6 DEF prev

LEMMA PublishPins ==
    ASSUME PinsOK, [CatNext]_catVars, republishStable
    PROVE  /\ PinsOK'
           /\ \/ charts' = charts /\ published' = published
              \/ charts' = syncChart(pinned) /\ published' = PinsIn(pinned)
<1>1. "request" \in Process
  BY DEF Process
<1>2. Req \in Busy /\ JobOK(Req) /\ AtPublish
  BY <1>1, BusyType DEF PinsOK, republishStable, Req, AtPublish
<1>3. pinned \in AppSpecs
  BY DEF PinsOK, CatTypeOK
<1>4. JobsOK' /\ ~AtPublish'
  <2>1. Req.names \in SUBSET Names
    BY <1>2 DEF Busy
  <2>2. CASE Drops(Req.names)
    BY <2>1, <2>2, JobDrops DEF PinsOK
  <2>3. CASE Finishes("request")
    BY <1>1, <2>3, JobFinishes DEF Finishes, PinsOK, CatTypeOK, AtPublish, Req, NoJob
  <2> QED BY <2>2, <2>3 DEF republishStable, AfterPublish, Req
<1>5. UpgradeInv' /\ (KeptInv' <=> AllKept(pinned)')
  BY <1>4 DEF UpgradeInv, KeptInv
<1>6. CASE /\ charts' = syncChart(pinned) /\ published' = PinsIn(pinned) /\ owed' = FALSE
           /\ UNCHANGED <<pinned, failures>>
  <2>1. AllKept(pinned)'
    BY <1>6, AppKept
  <2>2. CatTypeOK' /\ JobInv'
    BY <1>3, <1>4, <1>6, SyncedType, PinsType, CatalogAssumption
       DEF republishStable, PinsOK, CatTypeOK, JobsOK, catalog
  <2>3. PinsInv'
    BY <1>4, <1>6 DEF PinsInv, PinsIn, PinOf
  <2> QED BY <1>5, <1>6, <2>1, <2>2, <2>3 DEF PinsOK
<1>7. CASE /\ Failure /\ pinned' = PinsRestored(Req)
           /\ \/ /\ owed' = (owed \/ Req.prev = Absent \/ \E e \in Env : Stays(Req, e))
                 /\ UNCHANGED repo
              \/ PublishApp /\ owed' = (Req.prev # Absent)
  <2>1. pinned' \in AppSpecs
    BY <1>2, <1>3, <1>7, RestoredType
  <2>2. CatTypeOK' /\ JobInv'
    <3>1. charts' \in [Pins -> Content \cup {Absent}] /\ published' \in [Env -> Pins]
      <4>1. CASE UNCHANGED repo
        BY <4>1 DEF repo, PinsOK, CatTypeOK
      <4>2. CASE PublishApp
        BY <1>3, <4>2, SyncedType, PinsType, CatalogAssumption DEF PublishApp, PinsOK
      <4> QED BY <1>7, <4>1, <4>2
    <3>2. owed' \in BOOLEAN
      BY <1>7 DEF PinsOK, CatTypeOK
    <3> QED BY <1>4, <1>7, <2>1, <3>1, <3>2, FaultType
        DEF republishStable, PinsOK, CatTypeOK, JobsOK, catalog
  <2>3. AllKept(pinned)' /\ PinsInv'
    <3>1. CASE Req.prev = Absent
      <4>1. pinned' = pinned /\ (owed' \/ published' = PinsIn(pinned))
        BY <1>7, <3>1 DEF PinsRestored, PublishApp
      <4>2. PinsIn(pinned)' = PinsIn(pinned)
        BY <4>1 DEF PinsIn, PinOf
      <4> QED BY <1>4, <4>1, <4>2, AppKept DEF PinsInv
    <3>2. CASE Req.prev # Absent
      <4> DEFINE prev == Req.prev
      <4>1. /\ prev \in AppSpecs /\ AllKept(prev) /\ AllKept(pinned)
        BY <1>2, <3>2 DEF Busy, PinsOK, KeptInv
      <4>2. /\ pinned'.name = prev.name
            /\ VersionsOf(pinned') \subseteq
                 VersionsOf(prev) \cup (IF pinned.name = prev.name THEN VersionsOf(pinned) ELSE {})
            /\ (\A e \in Env : ~Stays(Req, e)) => PinsIn(pinned') = PinsIn(prev)
        BY <1>2, <1>7, <3>2, RestoredPins
      <4>3. \A n \in Names, v \in Versions : n = prev.name /\ v \in VersionsOf(prev) => Kept(n, v)'
        BY <4>1, AllKeptStays
      <4>4. \A n \in Names, v \in Versions : n = pinned.name /\ v \in VersionsOf(pinned) => Kept(n, v)'
        BY <1>3, <4>1, AllKeptStays
      <4>5. /\ prev.name \in Names
            /\ VersionsOf(prev) \subseteq Versions /\ VersionsOf(pinned) \subseteq Versions
        BY <1>3, <4>1, VersionsType
      <4> HIDE DEF prev
      <4>6. VersionsOf(pinned)' = VersionsOf(pinned')
        BY DEF VersionsOf
      <4>7. AllKept(pinned)'
        BY <4>2, <4>3, <4>4, <4>5, <4>6 DEF AllKept
      <4>8. ~owed' => ~owed /\ UNCHANGED repo /\ \A e \in Env : ~Stays(Req, e)
        BY <1>7, <3>2
      <4>9. ~owed => published = PinsIn(prev)
        BY <1>2, <3>2 DEF PinsOK, PinsInv, prev
      <4>10. PinsIn(pinned)' = PinsIn(pinned')
        BY DEF PinsIn, PinOf
      <4>11. PinsInv'
        BY <1>4, <1>7, <4>2, <4>8, <4>9, <4>10 DEF PinsInv, repo
      <4> QED BY <4>7, <4>11
    <3> QED BY <3>1, <3>2
  <2> QED BY <1>5, <1>7, <2>2, <2>3 DEF PinsOK, repo, PublishApp
<1>8. CASE Failure /\ owed' = TRUE /\ (UNCHANGED repo \/ PublishApp) /\ UNCHANGED pinned
  <2>1. AllKept(pinned)'
    BY <1>8, AppKept
  <2>2. CatTypeOK' /\ JobInv'
    <3>1. charts' \in [Pins -> Content \cup {Absent}] /\ published' \in [Env -> Pins]
      <4>1. CASE UNCHANGED repo
        BY <4>1 DEF repo, PinsOK, CatTypeOK
      <4>2. CASE PublishApp
        BY <1>3, <4>2, SyncedType, PinsType, CatalogAssumption DEF PublishApp, PinsOK
      <4> QED BY <1>8, <4>1, <4>2
    <3> QED BY <1>4, <1>8, <3>1, FaultType DEF republishStable, PinsOK, CatTypeOK, JobsOK, catalog
  <2> QED BY <1>5, <1>8, <2>1, <2>2 DEF PinsOK, PinsInv, repo, PublishApp
<1> QED BY <1>6, <1>7, <1>8 DEF republishStable, Req, PublishApp

\* Every step.
LEMMA PinsStep ==
    ASSUME PinsOK, [CatNext]_catVars
    PROVE  /\ PinsOK'
           /\ \/ charts' = charts /\ published' = published
              \/ republishStable /\ charts' = syncChart(pinned) /\ published' = PinsIn(pinned)
<1>1. CASE UNCHANGED catVars
  <2>1. CatTypeOK' /\ JobInv' /\ Apart
    BY <1>1 DEF PinsOK, CatTypeOK, JobInv, Apart, Req, catVars, catalog, repo
  <2> QED BY <2>1, ApartPins
<1>2. ASSUME NEW p \in Process, Syncing(p)
      PROVE  PinsOK' /\ charts' = charts /\ published' = published
  BY <1>2, SyncApart, ApartPins DEF PinsOK
<1>3. CASE RegistrySteps
  BY <1>3, RegistryStep, ApartPins DEF PinsOK
<1>4. CASE \/ RepinTemplates \/ forceRepublish \/ Crash
           \/ \E v \in Versions :
                \/ upgradeTemplatelessApp(v)
                \/ \E e \in Env : upgradeAppTemplateForEnv(e, v)
                \/ \E n \in Names : retemplateApp(n, v)
  BY <1>4, RepinPins, ForcePins, CrashPins, UpgradePins, UpgradeEnvPins, RetemplatePins
<1>5. CASE republishStable
  BY <1>5, PublishPins
<1> QED BY <1>1, <1>2, <1>3, <1>4, <1>5 DEF CatNext, RegistrySteps

LEMMA PinsInit == CatInit => PinsOK /\ ChartOfPin
<1> SUFFICES ASSUME CatInit PROVE PinsOK /\ ChartOfPin
  OBVIOUS
<1>1. CatTypeOK /\ JobInv
  BY InitType
<1>2. Req = NoJob
  BY DEF CatInit, Req, Process
<1>3. PinsInv /\ UpgradeInv
  BY <1>2 DEF PinsInv, UpgradeInv, AtPublish, NoJob, CatInit
<1>4. KeptInv
  <2>1. pinned.name = Chart /\ VersionsOf(pinned) = {1}
    BY DEF CatInit, VersionsOf, Follow
  <2>2. Kept(Chart, 1)
    BY NamesApart, FirstIsSource DEF CatInit, Kept, ListTemplateVersions
  <2> QED BY <1>2, <2>1, <2>2 DEF KeptInv, AllKept, AtPublish, NoJob
<1>5. ChartOfPin
  BY DEF CatInit, ChartOfPin, Pins
<1> QED BY <1>1, <1>3, <1>4, <1>5 DEF PinsOK

\* Template sources and pins, whatever syncs, requests and faults there are: between
\* requests the app is pinned as it is published, unless that is owed to it.
THEOREM PublishedAsPinned == CatSpec => []PinsAgree
<1>1. PinsOK /\ [CatNext]_catVars => PinsOK'
  BY PinsStep
<1>2. PinsOK => PinsAgree
  BY DEF PinsOK, PinsInv, PinsAgree, AtPublish, Req, NoJob
<1> QED BY PinsInit, <1>1, <1>2, PTL DEF CatSpec

\* While the app is not owed a publication, the upgrade of one environment publishes
\* the others that it could list as they were.
THEOREM UpgradesOneEnvironment == CatSpec => OnlyThatEnvironment
<1>1. PinsOK /\ [CatNext]_catVars => PinsOK'
  BY PinsStep
<1>2. ASSUME PinsOK, [CatNext]_catVars, Req # NoJob, Req.op = "upgradeEnv", ~owed,
             NEW e \in Req.seen \ {Req.env}
      PROVE  published'[e] = published[e]
  <2>1. CASE published' = published
    BY <2>1
  <2>2. CASE republishStable /\ published' = PinsIn(pinned)
    <3>1. AtPublish /\ Req.prev # Absent
      BY <1>2, <2>2, BusyType DEF PinsOK, republishStable, AtPublish, Req, JobOK, Process
    <3>2. published = PinsIn(Req.prev) /\ PinOf(pinned, e) = PinOf(Req.prev, e)
      BY <1>2, <3>1 DEF PinsOK, PinsInv, UpgradeInv
    <3>3. Req.seen \subseteq Env
      BY <1>2, BusyType DEF PinsOK, CatTypeOK, Req, Process, Busy
    <3> QED BY <2>2, <3>2, <3>3 DEF PinsIn
  <2> QED BY <1>2, <2>1, <2>2, PinsStep
<1>3. PinsOK /\ [CatNext]_catVars =>
        [Req # NoJob /\ Req.op = "upgradeEnv" /\ ~owed =>
           \A e \in Req.seen \ {Req.env} : published'[e] = published[e]]_catVars
  BY <1>2
<1> QED BY PinsInit, <1>1, <1>3, PTL DEF CatSpec, OnlyThatEnvironment, Req

\* The chart that stands in Git for a pin is of the version of the pin, unless the
\* catalogue lacks it.
THEOREM ChartsAsPinned == CatSpec => []ChartOfPin
<1>1. PinsOK /\ [CatNext]_catVars => PinsOK'
  BY PinsStep
<1>2. ASSUME PinsOK, ChartOfPin, [CatNext]_catVars
      PROVE  ChartOfPin'
  <2>1. lacking \subseteq lacking'
    BY <1>2, KeptStays DEF PinsOK
  <2>2. CASE charts' = charts
    BY <1>2, <2>1, <2>2 DEF ChartOfPin
  <2>3. CASE charts' = syncChart(pinned)
    <3> SUFFICES ASSUME NEW pin \in Pins, pin \notin lacking, charts'[pin] # Absent
                 PROVE  charts'[pin].version = pin.version
      BY <2>1 DEF ChartOfPin
    <3>1. CASE charts'[pin] = charts[pin]
      BY <1>2, <3>1 DEF ChartOfPin
    <3>2. CASE charts'[pin] # charts[pin]
      <4> DEFINE used == {PinOf(pinned, e) : e \in Env}
                            \cup {[name |-> pinned.name, version |-> pinned.version]}
      <4>1. pin \in used /\ charts'[pin] = LoadChartBundleVersion(pin)
        BY <2>3, <3>2 DEF syncChart
      <4>2. pin.name = pinned.name /\ pin.version \in VersionsOf(pinned)
        BY <4>1 DEF PinOf, VersionsOf
      <4>3. pin = [name |-> pin.name, version |-> pin.version]
        BY DEF Pins
      <4>4. pin.version \in ListTemplateVersions(pin.name)
        BY <1>2, <4>2, <4>3 DEF PinsOK, KeptInv, AllKept, Kept
      <4> QED BY <4>1, <4>4 DEF LoadChartBundleVersion, ListTemplateVersions
    <3> QED BY <3>1, <3>2
  <2> QED BY <1>2, <2>2, <2>3, PinsStep
<1> QED BY PinsInit, <1>1, <1>2, PTL DEF CatSpec

\* The registry, its aliases and archive, the pins and every job keep their types.
THEOREM CatalogTypes == CatSpec => []CatTypeOK
<1>1. PinsOK /\ [CatNext]_catVars => PinsOK'
  BY PinsStep
<1>2. PinsOK => CatTypeOK
  BY DEF PinsOK
<1> QED BY PinsInit, <1>1, <1>2, PTL DEF CatSpec
=============================================================================
