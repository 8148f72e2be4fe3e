--------------------------- MODULE EnvironmentHold ----------------------------
(***************************************************************************)
(* Holding an environment on an image: pin, rollback, resume, and ordinary *)
(* edits of the app (internal/server/app_handler.go).                      *)
(*                                                                         *)
(* A hold is three fields of the app's override for the environment, saved *)
(* with the whole app and published to Git.  A publication writes the held *)
(* tag over whatever is deployed and pauses Kargo's auto-promotion; without*)
(* a held tag it keeps the tag that is there.  Requests load the app, ask  *)
(* Kargo, save, publish, and some go on after that; no lock covers the     *)
(* whole of it.  Kargo works on the same branch.                           *)
(*                                                                         *)
(* One app with one image, in the first environment of its pipeline, which *)
(* Kargo promotes to by itself.  A publication is one step here:           *)
(* GitPublisher shows that it is.                                          *)
(***************************************************************************)
EXTENDS Naturals, Sequences

CONSTANTS
    Requests,     \* the requests that may run at the same time
    MaxRequests,  \* bound: how many requests there are in all
    MaxBuilds,    \* bound: how many images the Warehouse discovers
    MaxFaults     \* bound: failing calls and dying processes

ASSUME BoundAssumption ==
    MaxRequests \in Nat /\ MaxBuilds \in Nat \ {0} /\ MaxFaults \in Nat

NoTag   == 0
Builds  == 1..MaxBuilds                  \* the images of the pipeline, oldest first
Preview == MaxBuilds + 1                 \* the image of a pull request
Tags    == {NoTag, Preview} \cup Builds

Ops   == {"edit", "pin", "rollback", "unpin", "revert"}
Steps == {"idle", "capture", "save", "publish", "promote", "reload", "clear"}

\* PinnedFrom, PinnedImageTag and PrePinImageTag.
Holds == [from : {"none", "preview", "rollback"}, tag : Tags, before : Tags]

\* A request: its step, what it does, its copy of the hold, the tag to pin, to
\* roll back to or to restore, and what a failed rollback publishes.
ReqStates == [at : Steps, op : Ops, app : Holds, goal : Tags, held : Holds]

VARIABLES
    app,      \* the hold of the saved app
    git,      \* the branch: deployed tag, and Kargo's auto-promotion policy
    stage,    \* Kargo: the policy it has, newest build, current one, those it ran
    queue,    \* Kargo's Promotions to the Stage, the first one running
    written,  \* has the first one pushed its tag?
    req,      \* each request, as it is at
    begun,    \* requests so far
    faults,   \* faults so far
    ran,      \* history variable: what the first hold replaced
    last      \* history variable: how the last request ended

vars == <<app, git, stage, queue, written, req, begun, faults, ran, last>>

kargo == <<stage, queue, written>>

NoHold == [from |-> "none", tag |-> NoTag, before |-> NoTag]
Idle   == [at |-> "idle", op |-> "edit", app |-> NoHold, goal |-> NoTag, held |-> NoHold]

TypeOK ==
    /\ app \in Holds
    /\ git \in [tag : Tags, auto : BOOLEAN]
    /\ stage \in [auto : BOOLEAN, newest : Builds, current : Builds, history : SUBSET Builds]
    /\ queue \in Seq(Builds)
    /\ written \in BOOLEAN
    /\ req \in [Requests -> ReqStates]
    /\ begun \in 0..MaxRequests /\ faults \in 0..MaxFaults
    /\ ran \in Tags
    /\ last \in {"published", "nothing", "reverted", "failed"}

\* The first build is deployed.
Init ==
    /\ app = NoHold
    /\ git = [tag |-> 1, auto |-> TRUE]
    /\ stage = [auto |-> TRUE, newest |-> 1, current |-> 1, history |-> {1}]
    /\ queue = <<>> /\ written = FALSE
    /\ req = [r \in Requests |-> Idle]
    /\ begun = 0 /\ faults = 0
    /\ ran = NoTag /\ last = "published"

-----------------------------------------------------------------------------
Fault == faults < MaxFaults /\ faults' = faults + 1

Goto(r, step) == req' = [req EXCEPT ![r].at = step]

Return(r, how) == req' = [req EXCEPT ![r] = Idle] /\ last' = how

\* The request loads the app.  A pin is given the tag of a preview, a rollback
\* a build that the Stage ran before the current one.
Load(r, op, goal) ==
    /\ req[r].at = "idle" /\ begun < MaxRequests
    /\ op = "pin" => goal = Preview
    /\ op = "rollback" => goal \in stage.history \ {stage.current}
    /\ op \in {"edit", "unpin"} => goal = NoTag
    /\ op = "unpin" => app.from # "none"
    /\ req' = [req EXCEPT ![r] =
                  [at |-> IF op = "edit" THEN "save" ELSE "capture",
                   op |-> op, app |-> app, goal |-> goal, held |-> NoHold]]
    /\ begun' = begun + 1
    /\ UNCHANGED <<app, git, kargo, faults, ran, last>>

\* Resuming an environment that is not held answers so, and that is all.
NotHeld(r) ==
    /\ req[r].at = "idle" /\ begun < MaxRequests
    /\ app.from = "none"
    /\ Return(r, "nothing")
    /\ begun' = begun + 1
    /\ UNCHANGED <<app, git, kargo, faults, ran>>

\* Mutant: every hold captures anew.
CapturesAnew(hold, current) == current

\* A hold on top of another keeps what the first one captured.
Captured(hold, current) == IF hold.from = "none" THEN current ELSE hold.before

\* The hold to save.  What was captured counts if it is another image.
Held(hold, op, goal, before) ==
    [from   |-> IF op = "pin" THEN "preview" ELSE "rollback",
     tag    |-> goal,
     before |-> IF before \in {NoTag, goal} THEN hold.before ELSE before]

\* The image that resuming goes back to: the captured one, or else the one that
\* Kargo has in the Stage, or else the newest, if it is not the held one.
Restored(hold, current, newest) ==
    IF hold.before # NoTag THEN hold.before
    ELSE IF current \notin {NoTag, hold.tag} THEN current
    ELSE IF newest # hold.tag THEN newest
    ELSE NoTag

\* No hold, but the restored tag is forced until the flag is cleared.
Lifted(hold, restore) == [from |-> "none", tag |-> restore, before |-> NoTag]

\* Ask Kargo which image the Stage has, or is the newest, and compute the hold
\* to save.  Kargo may not answer: then there is no such image.
Capture(r) ==
    \E current \in {stage.current, NoTag}, newest \in {stage.newest, NoTag} :
        LET hold    == req[r].app
            holds   == req[r].op \in {"pin", "rollback"}
            restore == Restored(hold, current, newest)
        IN  /\ req[r].at = "capture"
            /\ IF NoTag \in {current, newest} THEN Fault ELSE UNCHANGED faults
            /\ req' = [req EXCEPT ![r].at = "save",
                   ![r].goal = IF holds THEN @ ELSE restore,
                   ![r].app = IF holds
                              THEN Held(hold, req[r].op, req[r].goal, Captured(hold, current))
                              ELSE Lifted(hold, restore)]
            /\ ran' = IF ~holds \/ hold.from # "none" THEN ran
                      ELSE IF current = req[r].goal THEN NoTag ELSE current
            /\ UNCHANGED <<app, git, kargo, begun, last>>

\* SaveApp replaces the whole app, whatever was saved since it was loaded.
Save(r) ==
    /\ req[r].at = "save"
    /\ app' = req[r].app
    /\ Goto(r, "publish")
    /\ UNCHANGED <<git, kargo, begun, faults, ran, last>>

\* Mutant: Kargo is paused by a tag, and not by a hold.
PausedByTag(hold) ==
    [tag |-> IF hold.tag # NoTag THEN hold.tag ELSE git.tag, auto |-> hold.tag = NoTag]

\* A tag of the app wins over the one in Git; a hold pauses auto-promotion.
Published(hold) ==
    [tag |-> IF hold.tag # NoTag THEN hold.tag ELSE git.tag, auto |-> hold.from = "none"]

\* A failed rollback publishes the app that it loaded at first.
ToPublish(r) == IF req[r].op = "revert" THEN req[r].held ELSE req[r].app

\* Publish the request's copy; then a rollback promotes, and resuming clears the
\* flag if it had a tag to restore.
Publish(r) ==
    /\ req[r].at = "publish"
    /\ git' = Published(ToPublish(r))
    /\ CASE req[r].op = "rollback" -> Goto(r, "promote") /\ UNCHANGED last
         [] req[r].op = "unpin" /\ req[r].goal # NoTag -> Goto(r, "clear") /\ UNCHANGED last
         [] req[r].op = "revert" -> Return(r, "reverted")
         [] OTHER -> Return(r, "published")
    /\ UNCHANGED <<app, kargo, begun, faults, ran>>

\* The publication of an edit fails: the app is saved again as it was loaded.
EditRollsBack(r) ==
    /\ req[r].at = "publish" /\ req[r].op = "edit"
    /\ Fault
    /\ app' = req[r].app
    /\ Return(r, "failed")
    /\ UNCHANGED <<git, kargo, begun, ran>>

\* The restore is over: save the same copy without the tag.  If the save fails
\* that is logged, and the request has succeeded.
Clear(r) ==
    /\ req[r].at = "clear"
    /\ \/ app' = [req[r].app EXCEPT !.tag = NoTag] /\ UNCHANGED faults
       \/ Fault /\ UNCHANGED app
    /\ Return(r, "published")
    /\ UNCHANGED <<git, kargo, begun, ran>>

\* Promote the build that is rolled back to.
Promote(r) ==
    /\ req[r].at = "promote"
    /\ queue' = Append(queue, req[r].goal)
    /\ Return(r, "published")
    /\ UNCHANGED <<app, git, stage, written, begun, faults, ran>>

\* The Promotion cannot be created: lift the hold again.
PromoteFails(r) ==
    /\ req[r].at = "promote"
    /\ Fault
    /\ Goto(r, "reload")
    /\ UNCHANGED <<app, git, kargo, begun, ran, last>>

Reload(r) ==
    /\ req[r].at = "reload"
    /\ req' = [req EXCEPT ![r] =
                  [at |-> IF app.from = "none" THEN "publish" ELSE "capture",
                   op |-> "revert", app |-> app, goal |-> NoTag, held |-> req[r].app]]
    /\ UNCHANGED <<app, git, kargo, begun, faults, ran, last>>

\* A call fails and ends the request, or the process dies.
Fails(r) ==
    /\ req[r].at # "idle"
    /\ Fault
    /\ Return(r, "failed")
    /\ UNCHANGED <<app, git, kargo, begun, ran>>

-----------------------------------------------------------------------------
(* Kargo and Argo CD.                                                      *)

others == <<app, req, begun, faults, ran, last>>

NewBuild ==
    /\ stage.newest < MaxBuilds
    /\ stage' = [stage EXCEPT !.newest = @ + 1]
    /\ UNCHANGED <<git, queue, written, others>>

\* Argo CD syncs the project's promotion policy.
PolicySync ==
    /\ stage.auto # git.auto
    /\ stage' = [stage EXCEPT !.auto = git.auto]
    /\ UNCHANGED <<git, queue, written, others>>

\* Kargo promotes the newest build by itself.
AutoPromote ==
    /\ stage.auto /\ stage.current # stage.newest /\ queue = <<>>
    /\ queue' = <<stage.newest>>
    /\ UNCHANGED <<git, stage, written, others>>

\* The running Promotion pushes its tag ...
KargoPush ==
    /\ queue # <<>> /\ ~written
    /\ git' = [git EXCEPT !.tag = Head(queue)]
    /\ written' = TRUE
    /\ UNCHANGED <<stage, queue, others>>

\* ... and succeeds.
KargoSucceed ==
    /\ written
    /\ stage' = [stage EXCEPT !.current = Head(queue), !.history = @ \cup {Head(queue)}]
    /\ queue' = Tail(queue) /\ written' = FALSE
    /\ UNCHANGED <<git, others>>

Next ==
    \/ \E r \in Requests :
          \/ \E op \in Ops \ {"revert"}, goal \in Tags : Load(r, op, goal)
          \/ NotHeld(r) \/ Capture(r) \/ Save(r) \/ Publish(r)
          \/ EditRollsBack(r) \/ Clear(r)
          \/ Promote(r) \/ PromoteFails(r) \/ Reload(r) \/ Fails(r)
    \/ NewBuild \/ PolicySync \/ AutoPromote \/ KargoPush \/ KargoSucceed

Spec == Init /\ [][Next]_vars

-----------------------------------------------------------------------------
Quiet == \A r \in Requests : req[r].at = "idle"

\* A hold names its image, only a hold forces a preview's image, and what is
\* kept for resuming is an image of the pipeline: nothing that requests save,
\* in any order, is a mixture of two holds.
WellFormed(hold) ==
    /\ hold.from = "preview" => hold.tag = Preview
    /\ hold.from = "rollback" => hold.tag \in Builds
    /\ hold.from = "none" => hold.tag # Preview /\ hold.before = NoTag
    /\ hold.before # Preview

\* What each request is after.
GoalOf(q) ==
    /\ q.op = "pin" => q.goal = Preview
    /\ q.op = "rollback" => q.goal \in Builds
    /\ q.at \in {"promote", "reload"} => q.op = "rollback"
    /\ q.at = "clear" => q.op = "unpin"
    /\ q.at = "capture" => q.op # "edit"
    /\ q.op \in {"unpin", "revert"} /\ q.at \in {"save", "publish", "clear"}
          => q.app.from = "none"

HoldInv ==
    /\ TypeOK
    /\ written => queue # <<>>
    /\ WellFormed(app)
    /\ \A r \in Requests : GoalOf(req[r]) /\ WellFormed(req[r].app)

\* After a request that published, Kargo's auto-promotion is off exactly if the
\* environment is held: a hold whose publication failed, or which was lifted by
\* halves, is put right by the next publication, whatever it is for.
PauseAgrees ==
    Quiet /\ last = "published" => (git.auto <=> app.from = "none")

\* Resuming goes back to the image that ran before the first of the holds, over
\* any sequence of pins and rollbacks ("keeps the original capture",
\* app_handler.go).
Resumes(r) ==
    /\ req[r].op = "unpin" /\ req[r].at = "publish"
    /\ req'[r].at = "clear" \/ (req'[r].at = "idle" /\ last' = "published")

ResumeRestores ==
    [][\A r \in Requests : Resumes(r) /\ ran # NoTag => git'.tag = ran]_vars

-----------------------------------------------------------------------------
(* Why they hold when requests do not overlap: the inductive invariant.    *)

Serial == \A r, s \in Requests : r = s

\* A request works on what is saved, from when it has loaded the app, and again
\* from when it has saved it.
CopyInv ==
    \A r \in Requests :
        /\ req[r].at = "capture" => req[r].app = app
        /\ req[r].at = "save" /\ req[r].op = "edit" => req[r].app = app
        /\ req[r].at \in {"publish", "promote", "clear"} /\ req[r].op # "revert"
              => req[r].app = app

\* What a request has published agrees with what it has saved.
PauseInv ==
    /\ PauseAgrees
    /\ \A r \in Requests :
          req[r].at \in {"promote", "clear"} => (git.auto <=> app.from = "none")

\* The image that the first hold replaced is kept with the hold, also by a
\* request that is about to save one, and is the one that resuming writes.
RanInv ==
    ran # NoTag =>
        /\ app.from # "none" => app.before = ran
        /\ \A r \in Requests :
              /\ req[r].at = "save" /\ req[r].op \in {"pin", "rollback"}
                    => req[r].app.before = ran
              /\ req[r].at = "capture" /\ req[r].op = "unpin" => app.from # "none"
              /\ req[r].at \in {"save", "publish"} /\ req[r].op = "unpin"
                    => req[r].app.tag = ran

SerialInv == HoldInv /\ CopyInv /\ PauseInv /\ RanInv
=============================================================================
