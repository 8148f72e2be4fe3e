----------------------------- MODULE AutoPromotion -----------------------------
(***************************************************************************)
(* Automatic promotion from one environment to the next                    *)
(* (internal/server/auto_promote.go, internal/kube/scheduler_handoff.go and*)
(* the selection in internal/kube/verified_release.go).                    *)
(*                                                                         *)
(* Every replica runs a loop.  Each round reads the app, the Stage, Kargo's*)
(* configuration and the releases, one API call after the other, and then  *)
(* does what a promotion by hand does (promoteAppEnv), which may wait for  *)
(* minutes.  Meanwhile other replicas, people and Kargo go on.             *)
(*                                                                         *)
(* An older configuration has Kargo promote to this environment by itself; *)
(* the next publication ends that, and Suparship takes over once Kargo has *)
(* taken notice.                                                           *)
(*                                                                         *)
(* A release is validated in one step and its Promotion created in a later *)
(* one, which stands for the list, the reservation and the create that     *)
(* PromotionQueue has one by one.  Only the newest Promotion is kept: the  *)
(* others have ended.                                                      *)
(***************************************************************************)
EXTENDS Naturals, FiniteSets

CONSTANTS
    Replica,          \* API servers
    Person,           \* somebody who promotes by hand
    Freight,          \* releases, as positive numbers in the order of their names
    Second,           \* the second in which each was discovered
    Source,           \* environments that releases may have to be verified in
    Passing,          \* <<release, source>>: it passes the verification there
    Cooldown,         \* before a failing release is tried again ...
    SoonAgain,        \* ... and before one whose environment was not ready
    MaxEdits,         \* bound: what people do to the app
    MaxPublications,  \* bound: publications
    MaxFaults         \* bound: failing calls, dying replicas

ASSUME AutoPromotionAssumption ==
    /\ Freight \subseteq Nat \ {0} /\ IsFiniteSet(Freight)
    /\ \A f \in Freight : Second[f] \in Nat
    /\ Source # {} /\ Passing \subseteq Freight \X Source
    /\ Person \notin Replica
    /\ Cooldown \in Nat /\ SoonAgain \in 0..Cooldown
    /\ MaxEdits \in Nat /\ MaxPublications \in Nat /\ MaxFaults \in Nat

NoFreight == 0
Releases  == Freight \cup {NoFreight}
Idle      == [pc |-> "idle", source |-> CHOOSE s \in Source : TRUE, freight |-> NoFreight]

VARIABLES
    app,        \* the saved app: promoted automatically? pinned? source of the environment
    policy,     \* Kargo is to promote to it, says the project's configuration
    seen,       \* and says the one in Kargo's cache
    reconcile,  \* what a reconciliation of the Stage by Kargo works with, or {}
    stage,      \* the Stage
    promo,      \* its newest Promotion
    git,        \* the release in the environment's files
    argo,       \* the environment's Application: "none", "published", "exists"
    verified,   \* the releases verified in each source
    round,      \* where each replica is, and the person's request
    attempt,    \* the release that each replica tried last, and for how long not again
    edits, publications, faults,  \* so far
    handed,     \* history variable: some replica has found Suparship to be in charge
    since,      \* history variable: the age of each replica's attempt if it has created
                \* a Promotion
    moved       \* history variable: whose Stage was changed since the release was validated

vars == <<app, policy, seen, reconcile, stage, promo, git, argo, verified, round,
          attempt, edits, publications, faults, handed, since, moved>>
config  == <<policy, publications>>
kargo   == <<seen, reconcile>>
history == <<handed, since, moved>>

Phases == {"None", "Active", "Succeeded", "Failed"}
Steps  == {"idle", "listed", "chosen", "due", "prepared", "submits", "validated"}

Promoters == Replica \cup {Person}

Apps     == [auto : BOOLEAN, pinned : BOOLEAN, source : Source]
Stages   == [source : Source, auto : BOOLEAN, refresh : BOOLEAN, handled : BOOLEAN,
             current : Releases, last : Phases, promoting : BOOLEAN]
Promotions == [freight : Releases, phase : Phases, recorded : BOOLEAN]
Rounds   == [pc : Steps, source : Source, freight : Releases]
Attempts == [freight : Releases, cooling : 0..Cooldown]

TypeOK ==
    /\ app \in Apps
    /\ policy \in BOOLEAN /\ seen \in BOOLEAN
    /\ reconcile \subseteq [policy : BOOLEAN, refresh : BOOLEAN]
    /\ stage \in Stages /\ promo \in Promotions
    /\ git \in Releases /\ argo \in {"none", "published", "exists"}
    /\ verified \in [Source -> SUBSET Freight]
    /\ round \in [Promoters -> Rounds] /\ attempt \in [Replica -> Attempts]
    /\ edits \in 0..MaxEdits /\ publications \in 0..MaxPublications /\ faults \in 0..MaxFaults
    /\ handed \in BOOLEAN
    /\ since \in [Replica -> 0..Cooldown] /\ moved \subseteq Promoters

\* The newest release is in no environment yet, or a first one is.
Init ==
    /\ app = [auto |-> TRUE, pinned |-> FALSE, source |-> Idle.source]
    /\ policy = TRUE /\ seen \in BOOLEAN
    /\ stage = [source |-> app.source, auto |-> seen, refresh |-> FALSE, handled |-> FALSE,
                current |-> NoFreight, last |-> "None", promoting |-> FALSE]
    /\ reconcile = {}
    /\ promo = [freight |-> NoFreight, phase |-> "None", recorded |-> TRUE]
    /\ git = NoFreight
    /\ argo \in {"none", "exists"}
    /\ verified = [s \in Source |-> {}]
    /\ round = [r \in Promoters |-> Idle]
    /\ attempt = [r \in Replica |-> [freight |-> NoFreight, cooling |-> 0]]
    /\ edits = 0 /\ publications = 0 /\ faults = 0
    /\ handed = FALSE
    /\ since = [r \in Replica |-> Cooldown] /\ moved = {}

-----------------------------------------------------------------------------
(* Releases and the slot for Promotions.                                   *)

\* f is listed before g: discovered in a later second, or in the same with a lower name.
Before(f, g) == Second[f] > Second[g] \/ (Second[f] = Second[g] /\ f < g)

VerifiedReleaseDetails(releases) ==
    IF releases = {} THEN NoFreight
    ELSE CHOOSE f \in releases : \A g \in releases \ {f} : Before(f, g)

\* Mutant: that the Stage asks for releases from the source is enough.
StageAsksFor(freight, source) == stage.source = source

\* Verified in the source, and the Stage asks for releases from there.
verifiedReleasePolicy(freight, source) ==
    freight \in verified[source] /\ stage.source = source

Active == promo.phase = "Active"

\* The newest Promotion has succeeded with f, and the Stage knows.
Delivered(f) ==
    promo.phase = "Succeeded" /\ promo.freight = f /\ stage.current = f /\ promo.recorded

Creates(f) ==
    promo' = [freight |-> f, phase |-> "Active", recorded |-> FALSE]

\* Whether a Promotion is created: not if one is active, be it the same or another
\* one, nor if the release is there.
Submits(f) == ~Active /\ ~Delivered(f)

-----------------------------------------------------------------------------
(* A round of a replica.  From Load on, a request by hand goes the same way.*)

At(r, pc) == round[r].pc = pc
GoTo(r, pc) == round' = [round EXCEPT ![r].pc = pc]
Done(r) == round' = [round EXCEPT ![r] = Idle]

\* The app is listed: promoted automatically, not pinned.  Nothing is done while
\* the Stage is promoting.
List(r) ==
    /\ At(r, "idle")
    /\ app.auto /\ ~app.pinned /\ ~stage.promoting
    /\ round' = [round EXCEPT ![r] = [pc |-> "listed", source |-> app.source, freight |-> NoFreight]]
    /\ UNCHANGED <<app, config, kargo, stage, promo, git, argo, verified, attempt, edits, faults, history>>

\* Mutant: the Stage's word is taken whatever configuration it goes back to.
StatusOnly == ~policy /\ ~stage.auto

\* Kargo has handled a refresh that was asked for with the live configuration.  The
\* token of a refresh is a hash of the configuration's version; refresh and handled
\* say whether the token there is that of the live one.
SchedulerReady == ~policy /\ ~stage.auto /\ stage.handled

\* DownstreamSchedulerReady: otherwise that refresh is asked for.
WaitForKargo(r) ==
    /\ At(r, "listed")
    /\ ~SchedulerReady
    /\ Done(r)
    /\ stage' = IF policy THEN stage ELSE [stage EXCEPT !.refresh = TRUE]
    /\ UNCHANGED <<app, config, kargo, promo, git, argo, verified, attempt, edits, faults, history>>

\* The newest release that is verified in the source, which the Stage asks for.
ListReleases(r) ==
    LET listed == {f \in Freight : verifiedReleasePolicy(f, round[r].source)} IN
    /\ At(r, "listed")
    /\ SchedulerReady /\ handed' = TRUE
    /\ IF listed = {} THEN Done(r)
       ELSE round' = [round EXCEPT ![r].pc = "chosen", ![r].freight = VerifiedReleaseDetails(listed)]
    /\ UNCHANGED <<app, config, kargo, stage, promo, git, argo, verified, attempt, edits, faults, since, moved>>

\* Mutant: a release is never promoted again to where it is.
OnlyNewer(f) ==
    stage.current = NoFreight \/ (stage.current # f /\ Second[f] > Second[stage.current])

\* The release in the Stage is not followed by an older one, nor by itself unless
\* its last Promotion failed.
NextVerifiedRelease(f) ==
    \/ stage.current = NoFreight
    \/ stage.current = f /\ stage.last = "Failed"
    \/ stage.current # f /\ Second[f] > Second[stage.current]

\* Not the same release again too soon.
Cooled(r, f) == attempt[r].freight # f \/ attempt[r].cooling = 0

Choose(r) ==
    LET f == round[r].freight IN
    /\ At(r, "chosen")
    /\ IF NextVerifiedRelease(f) /\ Cooled(r, f)
       THEN /\ GoTo(r, "due")
            /\ attempt' = [attempt EXCEPT ![r] = [freight |-> f, cooling |-> Cooldown]]
            /\ since' = [since EXCEPT ![r] = Cooldown]
       ELSE Done(r) /\ UNCHANGED <<attempt, since>>
    /\ UNCHANGED <<app, config, kargo, stage, promo, git, argo, verified, edits, faults, handed, moved>>

\* promoteAppEnv loads the app again, for its pin and its pipeline.  Without an
\* Application, one that does not sync is published, for a release that may be
\* promoted.
Load(r) ==
    /\ At(r, "due")
    /\ IF app.pinned THEN Done(r) /\ UNCHANGED argo
       ELSE IF argo = "exists"
       THEN /\ round' = [round EXCEPT ![r].pc = "submits", ![r].source = app.source]
            /\ UNCHANGED argo
       ELSE IF verifiedReleasePolicy(round[r].freight, app.source)
       THEN /\ round' = [round EXCEPT ![r].pc = "prepared", ![r].source = app.source]
            /\ argo' = "published"
       ELSE Done(r) /\ UNCHANGED argo
    /\ UNCHANGED <<app, config, kargo, stage, promo, git, verified, attempt, edits, faults, history>>

\* Mutant: whatever the error, it is tried again soon.
AlwaysSoon(r, notReady) ==
    [s \in Replica |-> IF s = r THEN [attempt[s] EXCEPT !.cooling = SoonAgain] ELSE attempt[s]]

\* A person just gets the error.
AfterError(r, notReady) ==
    IF ~notReady THEN attempt
    ELSE [s \in Replica |-> IF s = r THEN [attempt[s] EXCEPT !.cooling = SoonAgain] ELSE attempt[s]]

\* Until Argo CD has the Application, or the time is up.
WaitForTarget(r) ==
    /\ At(r, "prepared")
    /\ \/ argo = "exists" /\ GoTo(r, "submits") /\ UNCHANGED attempt
       \/ argo # "exists" /\ Done(r) /\ attempt' = AfterError(r, TRUE)
    /\ UNCHANGED <<app, config, kargo, stage, promo, git, argo, verified, edits, faults, history>>

\* validateVerifiedRelease: the Stage is read, then the release.
Validate(r) ==
    /\ At(r, "submits")
    /\ IF verifiedReleasePolicy(round[r].freight, round[r].source)
       THEN GoTo(r, "validated") ELSE Done(r)
    /\ moved' = moved \ {r}
    /\ UNCHANGED <<app, config, kargo, stage, promo, git, argo, verified, attempt, edits, faults, handed, since>>

\* The Stage and the release are not looked at again.  The answer may get lost.
Submit(r) ==
    /\ At(r, "validated")
    /\ Done(r)
    /\ IF Submits(round[r].freight)
       THEN /\ Creates(round[r].freight)
            /\ since' = [s \in Replica |-> IF s = r THEN Cooldown - attempt[s].cooling ELSE since[s]]
       ELSE UNCHANGED <<promo, since>>
    /\ \/ UNCHANGED <<attempt, faults>>
       \/ faults < MaxFaults /\ faults' = faults + 1 /\ attempt' = AfterError(r, FALSE)
    /\ UNCHANGED <<app, config, kargo, stage, git, argo, verified, edits, handed, moved>>

Fails(r) ==
    /\ faults < MaxFaults /\ faults' = faults + 1
    /\ ~At(r, "idle")
    /\ Done(r)
    /\ attempt' = AfterError(r, FALSE)
    /\ UNCHANGED <<app, config, kargo, stage, promo, git, argo, verified, edits, history>>

\* What a replica has tried is in its memory.
Restart(r) ==
    /\ faults < MaxFaults /\ faults' = faults + 1
    /\ Done(r)
    /\ attempt' = [attempt EXCEPT ![r] = [freight |-> NoFreight, cooling |-> 0]]
    /\ since' = [since EXCEPT ![r] = Cooldown]
    /\ UNCHANGED <<app, config, kargo, stage, promo, git, argo, verified, edits, handed, moved>>

\* Time passes.
Minutes ==
    /\ attempt' = [r \in Replica |->
          [attempt[r] EXCEPT !.cooling = IF @ = 0 THEN 0 ELSE @ - 1]]
    /\ since' = [r \in Replica |-> IF since[r] = Cooldown THEN Cooldown ELSE since[r] + 1]
    /\ UNCHANGED <<app, config, kargo, stage, promo, git, argo, verified, round, edits, faults, handed, moved>>

-----------------------------------------------------------------------------
(* People.                                                                 *)

Edit == edits < MaxEdits /\ edits' = edits + 1

\* Pin and unpin.
Pin ==
    /\ Edit
    /\ app' = [app EXCEPT !.pinned = ~@]
    /\ UNCHANGED <<config, kargo, stage, promo, git, argo, verified, round, attempt, faults, history>>

\* The pipeline is changed; its Stages change with the publication.
EditPipeline ==
    /\ Edit
    /\ \E s \in Source \ {app.source} : app' = [app EXCEPT !.source = s]
    /\ UNCHANGED <<config, kargo, stage, promo, git, argo, verified, round, attempt, faults, history>>

\* A release is promoted by hand, an older one maybe: handlePromoteApp.
PromoteByHand(f) ==
    /\ Edit
    /\ At(Person, "idle")
    /\ round' = [round EXCEPT ![Person] = [pc |-> "due", source |-> app.source, freight |-> f]]
    /\ UNCHANGED <<app, config, kargo, stage, promo, git, argo, verified, attempt, faults, history>>

\* A publication of the app: the Stage, and a policy that keeps Kargo from
\* promoting to it.
Publish ==
    /\ publications < MaxPublications /\ publications' = publications + 1
    /\ policy' = FALSE
    /\ stage' = [stage EXCEPT !.source = app.source, !.refresh = FALSE, !.handled = FALSE]
    /\ reconcile' = {[k EXCEPT !.refresh = FALSE] : k \in reconcile}
    /\ moved' = IF stage.source = app.source THEN moved
                ELSE moved \cup {r \in Promoters : At(r, "validated")}
    /\ UNCHANGED <<app, seen, promo, git, argo, verified, round, attempt, edits, faults, handed, since>>

-----------------------------------------------------------------------------
(* Argo CD and Kargo.                                                      *)

ArgoCreates ==
    /\ argo = "published" /\ argo' = "exists"
    /\ UNCHANGED <<app, config, kargo, stage, promo, git, verified, round, attempt, edits, faults, history>>

\* A release passes the verification of a source.
KargoVerifies(f, s) ==
    /\ <<f, s>> \in Passing
    /\ f \notin verified[s]
    /\ verified' = [verified EXCEPT ![s] = @ \cup {f}]
    /\ UNCHANGED <<app, config, kargo, stage, promo, git, argo, round, attempt, edits, faults, history>>

\* Kargo's cache catches up with the configuration.
KargoSees ==
    /\ seen # policy /\ seen' = policy
    /\ UNCHANGED <<app, config, reconcile, stage, promo, git, argo, verified, round, attempt, edits, faults, history>>

\* A reconciliation of the Stage begins, with the cached configuration.  One that
\* would change nothing is left out.
KargoReconciles ==
    /\ reconcile = {}
    /\ seen \/ stage.auto \/ stage.refresh # stage.handled \/ stage.promoting # Active
    /\ reconcile' = {[policy |-> seen, refresh |-> stage.refresh]}
    /\ UNCHANGED <<app, config, seen, stage, promo, git, argo, verified, round, attempt, edits, faults, history>>

\* It promotes the newest release if the policy says so.
KargoAutoPromotes ==
    LET f == VerifiedReleaseDetails(verified[stage.source]) IN
    /\ \E k \in reconcile : k.policy
    /\ f \notin {NoFreight, stage.current} /\ ~Active /\ promo.recorded
    /\ argo = "exists"
    /\ Creates(f)
    /\ UNCHANGED <<app, config, kargo, stage, git, argo, verified, round, attempt, edits, faults, history>>

\* It ends with the Stage's status.
KargoEnds ==
    /\ \E k \in reconcile :
          stage' = [stage EXCEPT !.auto = k.policy, !.handled = k.refresh,
                                 !.promoting = Active]
    /\ reconcile' = {}
    /\ UNCHANGED <<app, config, seen, promo, git, argo, verified, round, attempt, edits, faults, history>>

\* A Promotion ends; one that fails may have written the release already.
KargoSucceeds ==
    /\ Active
    /\ promo' = [promo EXCEPT !.phase = "Succeeded"]
    /\ git' = promo.freight
    /\ UNCHANGED <<app, config, kargo, stage, argo, verified, round, attempt, edits, faults, history>>

KargoFails ==
    /\ Active
    /\ promo' = [promo EXCEPT !.phase = "Failed"]
    /\ git' \in {git, promo.freight}
    /\ UNCHANGED <<app, config, kargo, stage, argo, verified, round, attempt, edits, faults, history>>

KargoRecords ==
    /\ ~Active /\ ~promo.recorded
    /\ promo' = [promo EXCEPT !.recorded = TRUE]
    /\ stage' = [stage EXCEPT !.last = promo.phase, !.promoting = FALSE,
                              !.current = IF promo.phase = "Succeeded" THEN promo.freight ELSE @]
    /\ UNCHANGED <<app, config, kargo, git, argo, verified, round, attempt, edits, faults, history>>

-----------------------------------------------------------------------------
Promotes(r) == Load(r) \/ WaitForTarget(r) \/ Validate(r) \/ Submit(r)

Round(r) ==
    \/ List(r) \/ WaitForKargo(r) \/ ListReleases(r) \/ Choose(r)
    \/ Promotes(r)

Kargo ==
    \/ KargoSees \/ KargoReconciles \/ KargoAutoPromotes \/ KargoEnds
    \/ KargoSucceeds \/ KargoFails \/ KargoRecords
    \/ \E f \in Freight, s \in Source : KargoVerifies(f, s)

People == Pin \/ EditPipeline \/ Publish \/ \E f \in Freight : PromoteByHand(f)

Next ==
    \/ \E r \in Replica : Round(r) \/ Fails(r) \/ Restart(r)
    \/ Promotes(Person) \/ Fails(Person)
    \/ Minutes \/ ArgoCreates \/ Kargo \/ People

Spec == Init /\ [][Next]_vars

\* The loops run on a ticker and clocks go on; Argo CD and Kargo do their work,
\* and not every Promotion of a release fails.
FairSpec ==
    /\ Spec
    /\ \A r \in Replica : WF_vars(Round(r))
    /\ WF_vars(Minutes) /\ WF_vars(ArgoCreates)
    /\ WF_vars(KargoSees) /\ WF_vars(KargoReconciles) /\ WF_vars(KargoEnds)
    /\ SF_vars(KargoSucceeds) /\ WF_vars(KargoRecords)

-----------------------------------------------------------------------------
(* Properties.                                                             *)

\* From when a replica finds that Kargo has taken notice of the policy, Kargo does
\* not promote to the environment by itself, whatever configuration its cache or a
\* reconciliation in progress still has (DownstreamSchedulerReady).
OneScheduler ==
    handed => ~seen /\ \A k \in reconcile : ~k.policy

\* Whoever creates a Promotion, its release is verified in the source which the
\* Stage asks for, though the pipeline may have changed since it was chosen and calls
\* of minutes lie in between.  The one exception is a request that a publication
\* overtakes between its validation and its create: what it creates is verified in the
\* source that the Stage asked for until then (PromoteVerifiedRelease).
VerifiedAllTheWay ==
    [][promo'.phase = "Active" /\ ~Active
       => \/ promo'.freight \in verified[stage.source]
          \/ \E r \in moved : /\ round[r].pc = "validated" /\ round'[r] = Idle
                             /\ promo'.freight = round[r].freight
                             /\ promo'.freight \in verified[round[r].source]]_vars

\* A replica that has created a Promotion of a release creates another one only
\* after the cooldown, whatever error it got (autoPromoteRetryCooldown).
RetriesAreSpaced ==
    [][\A r \in Replica :
          attempt'[r].freight = attempt[r].freight /\ attempt'[r].cooling > attempt[r].cooling
          => since[r] = Cooldown]_vars

\* The environment has a release as new as the newest that is verified.
Newest == \A f \in verified[stage.source] : git # NoFreight /\ Second[git] >= Second[f]

\* Unless someone keeps it from happening, the environment gets the newest release,
\* also if Promotions fail halfway, replicas die, Kargo hands over late, and the
\* environment has to be prepared first.
Settles ==
    []<>(~app.auto \/ app.pinned \/ policy \/ stage.source # app.source \/ Newest)
=============================================================================
