--------------------------- MODULE ValidationRun ----------------------------
(***************************************************************************)
(* The life of the validation environment of one app in ephemeral mode:    *)
(* the reconciler that advances the ValidationRun                          *)
(* (internal/server/ephemeral_validation.go), the settings updates that    *)
(* turn the mode on and off (internal/server/app_handler.go), the workload *)
(* files and their dormancy marker in Git (internal/gitops), and, external,*)
(* Argo CD, which follows Git, and Kargo, which promotes and verifies.     *)
(*                                                                         *)
(* The run is advanced under the lease of module ValidationLease, which is *)
(* here what it promises (ExclusiveLease): one holder at a time, and a     *)
(* holder that dies leaves the lease until it expires.                     *)
(*                                                                         *)
(* Freight are numbers in the order of their discovery, 0 is none; a       *)
(* cursor is the discovery time, hence the number, of a Freight.           *)
(***************************************************************************)
EXTENDS Naturals

CONSTANTS
    Updates,      \* concurrent settings requests
    MaxFreight,   \* bound: Freight that the Warehouse discovers
    MaxSwitches   \* bound: how often a request may ask for the other mode

ASSUME BoundsAssumption == {MaxFreight, MaxSwitches} \subseteq Nat

\* A request is none of the other holders of the lease.
ASSUME UpdatesAssumption == Updates \cap {"free", "tick", "dead"} = {}

VARIABLES
    mode,         \* spec.cd.releaseValidationMode in the app store
    git,          \* the environment's files in Git
    argo,         \* its Argo CD Applications
    kargo,        \* its Kargo Stage: scheduler, promotion, recorded status
    discovered,   \* the newest Freight of the app's Warehouse
    verified,     \* the Freight with status.verifiedIn for this Stage
    saved,        \* the saved ValidationRun
    elapsed,      \* is its 30 minute (StartedAt) or one hour (FailedAt) limit over?
    holder,       \* the holder of the Stage's lease
    tick,         \* the reconciler that runs, in whichever replica
    update,       \* each request: its step and the app object that it loaded
    switches,     \* requests so far that asked for the other mode
    lost          \* history: did a push that switched the mode seem to fail?

world   == <<mode, git, argo, kargo, discovered, verified>>
runVars  == <<world, saved, elapsed, holder, tick, update, switches, lost>>

Freight == 1..MaxFreight
Modes   == {"persistent", "ephemeral"}
Phases  == {"unset", "idle", "provisioning", "waiting", "running", "failed",
            "cleaning", "deleting"}
Checks  == {"none", "running", "failed", "passed"}
RunStates == [phase : Phases, freight : 0..MaxFreight, cursor : 0..MaxFreight]
NoRun   == [phase |-> "unset", freight |-> 0, cursor |-> 0]
NoObs   == [current |-> 0, active |-> FALSE, verified |-> FALSE, failed |-> FALSE]

RunTypeOK ==
    /\ mode \in Modes
    /\ git \in [marker : {"absent", "dormant", "active"}, tree : BOOLEAN,
                pending : BOOLEAN, auto : BOOLEAN]
    /\ argo \in {"absent", "present", "deleting"}
    /\ kargo \in [auto : BOOLEAN,
                  freight : 0..MaxFreight,   \* of its latest Promotion
                  phase : {"none", "active", "succeeded", "failed"},
                  last : 0..MaxFreight,      \* status.lastPromotion: its freight
                  lastFailed : BOOLEAN,      \* ... and whether it failed
                  recorded : BOOLEAN,        \* is the latest Promotion in the status?
                  current : 0..MaxFreight,   \* newest of status.freightHistory
                  check : [Freight -> Checks]]
    /\ discovered \in 0..MaxFreight
    /\ verified \subseteq Freight
    /\ saved \in RunStates
    /\ elapsed \in BOOLEAN
    /\ holder \in {"free", "tick", "dead"} \cup Updates
    /\ tick \in [step : {"idle", "lease", "observe", "list", "act", "save"},
                 run : RunStates,
                 obs : [current : 0..MaxFreight, active : BOOLEAN,
                        verified : BOOLEAN, failed : BOOLEAN]]
    /\ update \in [Updates ->
                     [step : {"idle", "lease", "save", "publish", "rollback",
                              "finish"},
                      prev : Modes, next : Modes, reset : BOOLEAN]]
    /\ switches \in 0..MaxSwitches
    /\ lost \in BOOLEAN

NoUpdate == [step |-> "idle", prev |-> "persistent", next |-> "persistent",
             reset |-> FALSE]
NoTick   == [step |-> "idle", run |-> NoRun, obs |-> NoObs]

\* An app that was created in either mode, before its first release.
RunInit ==
    /\ mode \in Modes
    /\ git = [marker |-> "absent", tree |-> mode = "persistent", pending |-> FALSE,
              auto |-> mode = "persistent"]
    /\ argo = "absent"
    /\ kargo = [auto |-> git.auto, freight |-> 0, phase |-> "none", last |-> 0,
                lastFailed |-> FALSE, recorded |-> TRUE, current |-> 0,
                check |-> [f \in Freight |-> "none"]]
    /\ discovered = 0
    /\ verified = {}
    /\ saved = NoRun
    /\ elapsed = FALSE
    /\ holder = "free"
    /\ tick = NoTick
    /\ update = [u \in Updates |-> NoUpdate]
    /\ switches = 0
    /\ lost = FALSE

-----------------------------------------------------------------------------
(* The reconciler.                                                         *)

\* A replica's ticker lists the app in ephemeral mode ...
TickBegin ==
    /\ tick.step = "idle" /\ mode = "ephemeral"
    /\ tick' = [NoTick EXCEPT !.step = "lease"]
    /\ UNCHANGED <<world, saved, elapsed, holder, update, switches, lost>>

\* Mutant: whoever asks gets the lease.
Grabbed == TRUE

\* Nobody has the lease, or its time is up.
LeaseFree == holder = "free"

\* ... and takes the lease and the run, or leaves it for the next tick.
TickLease ==
    /\ tick.step = "lease"
    /\ \/ /\ LeaseFree
          /\ holder' = "tick"
          /\ tick' = [tick EXCEPT !.step = "observe", !.run = saved]
       \/ /\ ~LeaseFree
          /\ tick' = NoTick
          /\ UNCHANGED holder
    /\ UNCHANGED <<world, saved, elapsed, update, switches, lost>>

\* Under the lease it reads the app again, asks whether Kargo has handed the
\* scheduling over, and gets the Stage.
TickObserve ==
    /\ tick.step = "observe"
    /\ LET f == tick.run.freight IN
       \/ /\ mode = "ephemeral" /\ ~kargo.auto
          /\ tick' = [tick EXCEPT
                !.step = "list",
                !.obs.current = kargo.current,
                !.obs.active = f # 0 /\ kargo.check[f] = "running",
                !.obs.failed = f # 0 /\ \/ kargo.last = f /\ kargo.lastFailed
                                        \/ kargo.check[f] = "failed"]
       \/ /\ mode # "ephemeral" \/ kargo.auto
          /\ tick' = [tick EXCEPT !.step = "save"]
    /\ UNCHANGED <<world, saved, elapsed, holder, update, switches, lost>>

\* Freight status.verifiedIn has this Stage.
IsVerified(f) == f \in verified

\* Then it lists the Promotions and gets the run's Freight.
TickList ==
    /\ tick.step = "list"
    /\ tick' = [tick EXCEPT
          !.step = "act",
          !.obs.active = @ \/ kargo.phase = "active",
          !.obs.verified = IsVerified(tick.run.freight)]
    /\ UNCHANGED <<world, saved, elapsed, holder, update, switches, lost>>

\* Mutant: the observation does not hold the run back.
IgnoresActivity == FALSE

\* Kargo is executing: the reconciler leaves everything alone.
HeldBack == tick.obs.active

\* Mutant: preparation may take for ever.
NeverTimesOut == FALSE

\* Preparation has not reached activation within 30 minutes.
TimedOut == tick.run.phase \in {"provisioning", "waiting"} /\ elapsed

\* A run begins with the release that is deployed when the mode is turned on.
Adopted ==
    [phase |-> "running", freight |-> tick.obs.current, cursor |-> tick.obs.current]

\* Mutant: the newest release, whether or not the run is past it.
Newest == discovered # 0

\* NextValidationFreight: a release was discovered after the cursor.
NextDiscovered == discovered > tick.run.cursor

\* Mutant: an idle run remembers its release.
IdledWithFreight == [tick.run EXCEPT !.phase = "idle"]

Idled == [tick.run EXCEPT !.phase = "idle", !.freight = 0]

\* The run after a step of the reconciler that needs nothing but the run, the
\* observation and the clock.
Decide(r) ==
    LET at == tick.run IN
    \/ /\ TimedOut
       /\ r = [at EXCEPT !.phase = "failed"]
    \/ /\ at.phase = "unset" /\ tick.obs.current # 0
       /\ r = Adopted
    \/ /\ at.phase = "unset" /\ tick.obs.current = 0
       /\ r = [at EXCEPT !.phase = "cleaning"]
    \/ /\ at.phase = "idle" /\ NextDiscovered
       /\ r = [phase |-> "provisioning", freight |-> discovered, cursor |-> discovered]
    \/ /\ at.phase = "running" /\ tick.obs.verified
       /\ r = [at EXCEPT !.phase = "cleaning"]
    \/ /\ at.phase = "running" /\ ~tick.obs.verified /\ tick.obs.failed
       /\ r = [at EXCEPT !.phase = "failed"]
    \/ /\ at.phase = "failed" /\ elapsed
       /\ r = [at EXCEPT !.phase = "cleaning"]

TickDecide ==
    /\ tick.step = "act" /\ ~HeldBack
    /\ \E r \in RunStates : Decide(r) /\ tick' = [tick EXCEPT !.step = "save", !.run = r]
    /\ UNCHANGED <<world, saved, elapsed, holder, update, switches, lost>>

\* Nothing to do, paused (suspended), or a call fails before it has an effect:
\* the run is saved as it was read.
TickNothing ==
    /\ tick.step \in {"observe", "list", "act"}
    /\ tick' = [tick EXCEPT !.step = "save"]
    /\ UNCHANGED <<world, saved, elapsed, holder, update, switches, lost>>

\* After an effect the run moves on, unless the call's answer was lost.
Proceed(phase) ==
    \E p \in {phase, tick.run.phase} :
        tick' = [tick EXCEPT !.step = "save", !.run.phase = p]

\* provisioning: SetValidationWorkloads(active) pushes an inert Application.
TickProvision ==
    /\ tick.step = "act" /\ ~HeldBack /\ ~TimedOut
    /\ tick.run.phase = "provisioning"
    /\ git' = [git EXCEPT !.marker = "active", !.tree = TRUE, !.pending = TRUE]
    /\ Proceed("waiting")
    /\ UNCHANGED <<mode, argo, kargo, discovered, verified, saved, elapsed, holder,
                   update, switches, lost>>

\* The Stage's last attempt is for this Freight, and active or delivered.
AttemptStands ==
    /\ kargo.freight = tick.run.freight
    /\ \/ kargo.phase = "active"
       \/ /\ kargo.phase = "succeeded"
          /\ \/ kargo.recorded /\ kargo.current = kargo.freight
             \/ ~kargo.recorded /\ kargo.last = 0

\* Mutant: the Application may still be missing, or on its way out.
AnyApplication == TRUE

ApplicationsPresent == argo = "present"

\* waiting: once the Applications exist, PromoteValidationFreight joins the
\* attempt that stands or submits one (module PromotionQueue).
TickPromote ==
    /\ tick.step = "act" /\ ~HeldBack /\ ~TimedOut
    /\ tick.run.phase = "waiting"
    /\ ApplicationsPresent /\ ~kargo.auto
    /\ \/ AttemptStands /\ UNCHANGED kargo
       \/ /\ ~AttemptStands /\ kargo.phase # "active"
          /\ kargo' = [kargo EXCEPT !.freight = tick.run.freight, !.phase = "active",
                                    !.recorded = FALSE]
    /\ Proceed("running")
    /\ UNCHANGED <<mode, git, argo, discovered, verified, saved, elapsed, holder,
                   update, switches, lost>>

\* cleaning: SetValidationWorkloads(inactive) removes the Application files.
TickClean ==
    /\ tick.step = "act" /\ ~HeldBack
    /\ tick.run.phase = "cleaning"
    /\ git' = [git EXCEPT !.marker = "dormant", !.tree = FALSE]
    /\ Proceed("deleting")
    /\ UNCHANGED <<mode, argo, kargo, discovered, verified, saved, elapsed, holder,
                   update, switches, lost>>

\* Mutant: capacity is free once the files are gone.
FilesGone == ~git.tree

\* Cascading deletion has completed.
ApplicationsGone == argo = "absent"

\* deleting: the capacity may be used again when the Applications are gone.
TickRelease ==
    /\ tick.step = "act" /\ ~HeldBack
    /\ tick.run.phase = "deleting"
    /\ ApplicationsGone
    /\ tick' = [tick EXCEPT !.step = "save", !.run = Idled]
    /\ UNCHANGED <<world, saved, elapsed, holder, update, switches, lost>>

\* The run and the end of the lease are saved in one update.  A new StartedAt
\* or FailedAt restarts the clock.
TickSave ==
    /\ tick.step = "save"
    /\ saved' = tick.run
    /\ elapsed' = (elapsed /\ ~(/\ tick.run.phase \in {"provisioning", "running", "failed"}
                                /\ tick.run.phase # saved.phase))
    /\ holder' = "free"
    /\ tick' = NoTick
    /\ UNCHANGED <<world, update, switches, lost>>

\* The process dies, or cannot save.
TickDie ==
    /\ tick.step # "idle"
    /\ holder' = IF holder = "tick" THEN "dead" ELSE holder
    /\ tick' = NoTick
    /\ UNCHANGED <<world, saved, elapsed, update, switches, lost>>

LeaseExpires ==
    /\ holder = "dead"
    /\ holder' = "free"
    /\ UNCHANGED <<world, saved, elapsed, tick, update, switches, lost>>

\* Kargo has recorded its last Promotion and begun to verify what it delivered.
KargoSettled ==
    /\ kargo.recorded
    /\ kargo.current # 0 => kargo.check[kargo.current] # "none"

\* Time passes.  The hour that a failure is kept is longer than Kargo takes to
\* settle.
Elapse ==
    /\ ~elapsed /\ saved.phase \in {"provisioning", "waiting", "failed"}
    /\ saved.phase = "failed" => KargoSettled
    /\ elapsed' = TRUE
    /\ UNCHANGED <<world, saved, holder, tick, update, switches, lost>>

-----------------------------------------------------------------------------
(* Settings requests: handleUpdateApp.                                     *)

Step(u, step) == update' = [update EXCEPT ![u].step = step]

Switching(u) == update[u].next # update[u].prev

\* Kargo promotes or verifies on this Stage.
Executing == kargo.phase = "active" \/ \E f \in Freight : kargo.check[f] = "running"

\* The request loads the app and applies its changes.  One that changes the
\* mode is refused while the pipeline is busy.  Only the mode that it loaded
\* decides whether it takes the lease.
UpdateLoad(u, next) ==
    /\ update[u].step = "idle"
    /\ next # mode => ~Executing /\ switches < MaxSwitches
    /\ switches' = IF next # mode THEN switches + 1 ELSE switches
    /\ update' = [update EXCEPT ![u] =
          [step |-> IF mode = "ephemeral" THEN "lease" ELSE "save",
           prev |-> mode, next |-> next, reset |-> FALSE]]
    /\ UNCHANGED <<world, saved, elapsed, holder, tick, lost>>

\* Mutant: the mode changes whatever the run is doing.
WithoutWaiting(u) == TRUE

\* "wait for validation cleanup to finish before changing lifecycle".
MayUpdate(u) == Switching(u) => saved.phase = "idle"

\* It takes the lease, or is refused with a conflict.
UpdateLease(u) ==
    /\ update[u].step = "lease"
    /\ \/ /\ LeaseFree /\ MayUpdate(u)
          /\ holder' = u
          /\ Step(u, "save")
       \/ /\ ~(LeaseFree /\ MayUpdate(u))
          /\ Step(u, "idle")
          /\ UNCHANGED holder
    /\ UNCHANGED <<world, saved, elapsed, tick, switches, lost>>

\* SaveApp: the whole object that was loaded, with its changes.
UpdateSave(u) ==
    /\ update[u].step = "save"
    /\ mode' = update[u].next
    /\ Step(u, "publish")
    /\ UNCHANGED <<git, argo, kargo, discovered, verified, saved, elapsed, holder,
                   tick, switches, lost>>

\* Mutant: an environment without a marker is taken for dormant.
NoMarkerIsDormant == git.marker # "active"

\* validationDormant: the marker decides; without one, an environment that has
\* files is kept until the reconciler has taken the scheduling over.
Dormant == git.marker = "dormant" \/ (git.marker = "absent" /\ ~git.tree)

\* After its publication, a request under the lease still has to release it.
AfterPublish(u, reset) ==
    update' = [update EXCEPT
        ![u].step = IF holder = u THEN "finish" ELSE "idle",
        ![u].reset = reset]

\* PublishApp writes the environment's files, unless it is dormant, and the
\* promotion policy of its Stage.
PublishApp(u) ==
    git' = [git EXCEPT !.tree = ~(update[u].next = "ephemeral" /\ Dormant),
                       !.auto = update[u].next = "persistent"]

\* It may fail, or fail to hear that its push was accepted.
UpdatePublish(u) ==
    /\ update[u].step = "publish"
    /\ \/ PublishApp(u) /\ AfterPublish(u, Switching(u)) /\ UNCHANGED lost
       \/ Step(u, "rollback") /\ UNCHANGED <<git, lost>>
       \/ Step(u, "rollback") /\ PublishApp(u) /\ lost' = (lost \/ Switching(u))
    /\ UNCHANGED <<mode, argo, kargo, discovered, verified, saved, elapsed, holder,
                   tick, switches>>

\* Either way the mode that it loaded is saved again.
UpdateRollback(u) ==
    /\ update[u].step = "rollback"
    /\ mode' = update[u].prev
    /\ AfterPublish(u, FALSE)
    /\ UNCHANGED <<git, argo, kargo, discovered, verified, saved, elapsed, holder,
                   tick, switches, lost>>

\* The lease is released; a run whose mode has changed starts afresh.
UpdateFinish(u) ==
    /\ update[u].step = "finish"
    /\ saved' = IF update[u].reset THEN NoRun ELSE saved
    /\ holder' = "free"
    /\ update' = [update EXCEPT ![u] = NoUpdate]
    /\ UNCHANGED <<world, elapsed, tick, switches, lost>>

\* The process dies, or a call fails and the request gives up.
UpdateDie(u) ==
    /\ update[u].step # "idle"
    /\ holder' = IF holder = u THEN "dead" ELSE holder
    /\ update' = [update EXCEPT ![u] = NoUpdate]
    /\ UNCHANGED <<world, saved, elapsed, tick, switches, lost>>

-----------------------------------------------------------------------------
(* Argo CD and Kargo, external.                                            *)

\* The ApplicationSet follows Git; deletion cascades and takes its time.
ArgoSync ==
    /\ argo' = CASE git.tree /\ argo = "absent"   -> "present"
                 [] ~git.tree /\ argo = "present" -> "deleting"
                 [] argo = "deleting"             -> "absent"
                 [] OTHER                         -> argo
    /\ argo' # argo
    /\ UNCHANGED <<mode, git, kargo, discovered, verified, saved, elapsed, holder,
                   tick, update, switches, lost>>

KargoOnly ==
    UNCHANGED <<mode, git, argo, discovered, saved, elapsed, holder, tick, update,
                switches, lost>>

\* Argo CD applies the ProjectConfig and Kargo acknowledges its policy.
KargoHandoff ==
    /\ kargo.auto # git.auto
    /\ kargo' = [kargo EXCEPT !.auto = git.auto]
    /\ UNCHANGED verified /\ KargoOnly

\* Kargo's own scheduler promotes the newest Freight.
KargoAutoPromote ==
    /\ kargo.auto /\ kargo.phase # "active"
    /\ discovered # kargo.freight /\ discovered # 0
    /\ kargo' = [kargo EXCEPT !.freight = discovered, !.phase = "active",
                              !.recorded = FALSE]
    /\ UNCHANGED verified /\ KargoOnly

\* A Promotion activates the image in Git and waits for the Application.
KargoSucceed ==
    /\ kargo.phase = "active" /\ argo = "present" /\ git.tree
    /\ git' = [git EXCEPT !.pending = FALSE]
    /\ kargo' = [kargo EXCEPT !.phase = "succeeded"]
    /\ UNCHANGED <<mode, argo, discovered, verified, saved, elapsed, holder, tick,
                   update, switches, lost>>

KargoFail ==
    /\ kargo.phase = "active"
    /\ kargo' = [kargo EXCEPT !.phase = "failed"]
    /\ UNCHANGED verified /\ KargoOnly

\* Kargo records the Promotion in the Stage's status; the verification of the
\* Freight that it replaces is aborted.
KargoRecord ==
    /\ ~kargo.recorded /\ kargo.phase \in {"succeeded", "failed"}
    /\ kargo' = [kargo EXCEPT
          !.recorded = TRUE,
          !.last = kargo.freight,
          !.lastFailed = (kargo.phase = "failed"),
          !.current = IF kargo.phase = "failed" THEN @ ELSE kargo.freight,
          !.check = IF kargo.phase = "failed" THEN @
                    ELSE [f \in Freight |->
                            IF f = kargo.freight THEN "none"
                            ELSE IF @[f] = "running" THEN "failed" ELSE @[f]]]
    /\ UNCHANGED verified /\ KargoOnly

\* It verifies what it has delivered.
KargoVerify ==
    /\ kargo.recorded /\ kargo.current # 0 /\ kargo.check[kargo.current] = "none"
    /\ kargo' = [kargo EXCEPT !.check[kargo.current] = "running"]
    /\ UNCHANGED verified /\ KargoOnly

KargoVerified(f, result) ==
    /\ kargo.check[f] = "running"
    /\ kargo' = [kargo EXCEPT !.check[f] = result]
    /\ verified' = IF result = "passed" THEN verified \cup {f} ELSE verified
    /\ KargoOnly

NewBuild ==
    /\ discovered < MaxFreight
    /\ discovered' = discovered + 1
    /\ UNCHANGED <<mode, git, argo, kargo, verified, saved, elapsed, holder, tick,
                   update, switches, lost>>

-----------------------------------------------------------------------------
Reconcile ==
    \/ TickBegin \/ TickLease \/ TickObserve \/ TickList \/ TickNothing
    \/ TickDecide \/ TickProvision \/ TickPromote \/ TickClean \/ TickRelease
    \/ TickSave \/ TickDie

Request(u) ==
    \/ \E next \in Modes : UpdateLoad(u, next)
    \/ UpdateLease(u) \/ UpdateSave(u) \/ UpdatePublish(u)
    \/ UpdateRollback(u) \/ UpdateFinish(u) \/ UpdateDie(u)

Kargo ==
    \/ KargoHandoff \/ KargoAutoPromote \/ KargoSucceed \/ KargoFail \/ KargoRecord
    \/ KargoVerify
    \/ \E f \in Freight, result \in {"passed", "failed"} : KargoVerified(f, result)

RunNext ==
    \/ Reconcile
    \/ \E u \in Updates : Request(u)
    \/ Kargo \/ ArgoSync \/ NewBuild \/ LeaseExpires \/ Elapse

RunSpec == RunInit /\ [][RunNext]_runVars

\* Every replica's ticker runs for ever, and the calls of the reconciler do not
\* fail for ever; a lease expires; Kargo ends what it has begun, and Argo CD
\* deletes what it has to delete.  That Argo CD ever brings an Application up,
\* or Kargo a Promotion to success, is not assumed.
Effective(A) == A /\ tick'.run.phase # tick.run.phase

Fairness ==
    /\ WF_runVars(Reconcile) /\ SF_runVars(TickLease /\ holder' = "tick")
    /\ SF_runVars(TickObserve /\ tick'.step = "list") /\ SF_runVars(TickList)
    /\ SF_runVars(TickDecide) /\ SF_runVars(TickRelease)
    /\ SF_runVars(TickSave /\ saved' # saved)
    /\ SF_runVars(Effective(TickClean))
    /\ WF_runVars(LeaseExpires) /\ WF_runVars(Elapse)
    /\ \A u \in Updates : WF_runVars(update[u].step # "idle" /\ Request(u))
    /\ WF_runVars(KargoSucceed \/ KargoFail) /\ WF_runVars(KargoRecord) /\ WF_runVars(KargoVerify)
    /\ \A f \in Freight :
          WF_runVars(\E result \in {"passed", "failed"} : KargoVerified(f, result))
    /\ WF_runVars(argo' \in {"deleting", "absent"} /\ ArgoSync)

FairSpec == RunSpec /\ Fairness

-----------------------------------------------------------------------------
(* What the lifecycle promises.                                            *)

\* The reconciler "never tears down an actively executing promotion or
\* verification" (docs/release-validation.md).
NoTeardownWhileExecuting ==
    [][git.tree /\ ~git'.tree => ~Executing]_runVars

\* "never reuse capacity until cascading deletion has completed": files come
\* back only where Argo CD has none of the last ones' resources left; unless a
\* switch of the mode was rolled back that Git has.
CapacityIsFree ==
    [][~lost /\ ~git.tree /\ git'.tree => argo = "absent"]_runVars

\* The same of the reconciler alone, without the exception.  It fails: Git keeps
\* the mode of a switch whose push was accepted while its answer was lost, and
\* the next publication takes the files away again, at a run that is idle.
NeverReusesCapacity ==
    [][git'.marker # git.marker /\ ~git.tree /\ git'.tree => argo = "absent"]_runVars

\* The mode changes only between two runs: "Wait for Idle before changing
\* lifecycle"; unless a switch is rolled back that Git has.
SwitchesWhenIdle ==
    [][~lost /\ mode = "ephemeral" /\ mode' # mode =>
          saved.phase \in {"idle", "unset"}]_runVars

\* Neither crashes nor lost answers bring a verified release back for another
\* run, as long as the mode is not changed.
NotValidatedAgain ==
    [][saved.phase = "idle" /\ saved'.phase = "provisioning" =>
          saved'.freight \notin verified]_runVars

\* Turning the mode on does not remove what is deployed: "Do not prune it
\* during the settings publication"; unless a switch was rolled back that Git has.
EnablingKeepsWorkloads ==
    [][\A u \in Updates :
          ~lost /\ update[u].step = "publish" /\ update'[u].step # "publish" =>
              (git.tree => git'.tree)]_runVars

\* The lease of this module is what ValidationLease implements.
StageOwner == IF holder \in {"free", "dead"} THEN "free" ELSE holder

HolderWorks ==
    \/ holder = "tick" /\ tick.step # "save"
    \/ holder \in Updates /\ update[holder].step # "finish"

StageLease == INSTANCE ExclusiveLease
              WITH Owners <- Updates \cup {"tick"}, Nobody <- "free", Runs <- RunStates,
                   owner <- StageOwner, working <- HolderWorks, run <- saved

HoldsLease == StageLease!Spec

\* Unless settings requests keep taking the lease, a validation environment does
\* not keep its capacity: whatever happens to a run, it ends, and the
\* environment is idle.
EndsIdle ==
    (<>[](\A u \in Updates : update[u].step = "idle")) =>
        (mode = "ephemeral" ~> saved.phase = "idle")

=============================================================================
