----------------------------- MODULE AppLifecycle -----------------------------
(***************************************************************************)
(* The life of an app (internal/server/app_handler.go): created, edited,   *)
(* synced, copied, renamed, promoted to an environment, removed from one,  *)
(* previewed, deleted.                                                     *)
(*                                                                         *)
(* A request changes the store and then the repository, in one transaction *)
(* each (RepoLayout says what a publication writes, GitPublisher that it is*)
(* one step).  The publication may fail, or be accepted and its answer lost,*)
(* with a different reaction in every handler, and the server may die      *)
(* between two steps.  Where a failure is only logged, a lost answer is a  *)
(* success.  Kargo activates prepared environments on the same branch.     *)
(*                                                                         *)
(* One request at a time; EnvironmentHold is about requests that overlap.  *)
(* An edit changes one thing about the app.                                *)
(***************************************************************************)
EXTENDS RepoLayout

CONSTANTS
    Initial,      \* the choices an app is created with
    Bases,        \* the environments that previews are based on
    MaxRequests,  \* bound: requests that write
    MaxFaults     \* bound: failing publications and dying servers

ASSUME AppLifecycleAssumption ==
    /\ Initial \subseteq Specs /\ Bases \subseteq Env
    /\ MaxRequests \in Nat /\ MaxFaults \in Nat

Absent == [absent |-> TRUE]

VARIABLES
    app,       \* the saved app of each name
    preview,   \* the environment that the saved preview of each app is based on
    git,       \* the repository
    queued,    \* Promotions that were submitted to Kargo
    requests,  \* requests so far
    faults,    \* faults so far
    clean,     \* history variable: apps in the repository as they are saved
    left,      \* history variable: apps that are gone and the repository was not rid of
    removed,   \* history variable: where apps were removed, and not enabled again
    ran,       \* history variable: where a release was due since the app was last put there
    stale      \* history variable: where an app was taken away and its marker was not

vars == <<app, preview, git, queued, requests, faults, clean, left, removed, ran, stale>>

Present == {a \in App : app[a] # Absent}

TypeOK ==
    /\ app \in [App -> Specs \cup {Absent}]
    /\ preview \in [App -> Env \cup {NoEnv}]
    /\ git \in Trees
    /\ queued \subseteq AppEnvs
    /\ requests \in 0..MaxRequests /\ faults \in 0..MaxFaults
    /\ clean \subseteq App /\ left \subseteq App
    /\ removed \subseteq AppEnvs /\ ran \subseteq AppEnvs /\ stale \subseteq AppEnvs

Init ==
    /\ app = [a \in App |-> Absent]
    /\ preview = [a \in App |-> NoEnv]
    /\ git = EmptyTree
    /\ queued = {}
    /\ requests = 0 /\ faults = 0
    /\ clean = {} /\ left = {} /\ removed = {} /\ ran = {} /\ stale = {}

-----------------------------------------------------------------------------
Request == requests < MaxRequests /\ requests' = requests + 1

Fault == faults < MaxFaults /\ faults' = faults + 1

\* A release is due in the environments that have one without being promoted to.
Due(a, spec) ==
    In(a, IF spec.direct THEN enabledDeployEnvs(spec) ELSE releaseRootDeployEnvs(spec))

\* What the histories are after a publication: an app that an environment no longer
\* has runs nothing there, and no transaction takes back that it had a release.
Records(due) ==
    /\ ran' = {p \in ran \cup due : Rendered(git', p[1], p[2])}
    /\ stale' = stale \cup {p \in git'.released : ~Rendered(git', p[1], p[2])}

Unrecorded == UNCHANGED <<git, ran, stale>>

\* PublishApp succeeds.
Publish(a, spec) ==
    /\ ValidPipeline(spec, Bound)
    /\ git' = writeAppTree(git, a, spec)
    /\ clean' = clean \cup {a}
    /\ left' = left \ {a}
    /\ Records(Due(a, spec))

\* It fails, or is not reached; the repository is not what was saved.
NotPublished(a) ==
    /\ Fault
    /\ clean' = clean \ {a}
    /\ Unrecorded /\ UNCHANGED left

\* An invalid pipeline always fails it, which is no fault.
Unpublishable(a, spec) ==
    /\ ~ValidPipeline(spec, Bound)
    /\ clean' = clean \ {a}
    /\ Unrecorded /\ UNCHANGED <<left, faults>>

\* The push is accepted and its answer lost, so that the handler takes back what it
\* has saved.
Unanswered(a, spec) ==
    /\ ValidPipeline(spec, Bound)
    /\ Fault
    /\ git' = writeAppTree(git, a, spec)
    /\ clean' = clean \ {a}
    /\ Records(Due(a, spec))

Unpublish(a) ==
    /\ git' = UnpublishApp(git, a)
    /\ clean' = clean \ {a}
    /\ left' = left \ {a}
    /\ Records({})

\* What validateReleaseValidation accepts.
Validated(spec) ==
    ValidPipeline(spec, Env) /\ spec.validator \in Bound \cup {NoEnv}

-----------------------------------------------------------------------------
\* Create: a publication that fails is only logged.
handleCreateApp(a, spec) ==
    /\ Request
    /\ app[a] = Absent
    /\ Validated(spec)
    /\ app' = [app EXCEPT ![a] = spec]
    /\ \/ Publish(a, spec) /\ UNCHANGED faults
       \/ NotPublished(a)
       \/ Unpublishable(a, spec)
    /\ UNCHANGED <<preview, queued, removed>>

\* What an edit may make of an app.
Edits(spec) ==
    {spec, [spec EXCEPT !.composed = ~@], [spec EXCEPT !.direct = ~@]}
        \cup (UNION {{[spec EXCEPT !.deploy[e] = d] : d \in {"on", "off"}} : e \in Env})
        \cup {[spec EXCEPT !.validator = v] : v \in Env \cup {NoEnv}}

\* After a failed publication the components and the settings for continuous
\* delivery are as before.  The delivery mode is not restored; nor is the choice
\* of environments, which was changed in the very map kept to restore it from,
\* unless there was no map yet.
RolledBack(old, new, deploy) == [new EXCEPT
    !.composed = old.composed, !.validator = old.validator, !.deploy = deploy]

\* Update: save, publish; restore if that fails.  The validator changes only
\* while Kargo is not promoting.
handleUpdateApp(a, new) ==
    LET old == app[a] IN
    /\ Request
    /\ Validated(new)
    /\ new.validator # old.validator => queued \cap In(a, Env) = {}
    /\ \/ /\ app' = [app EXCEPT ![a] = new]
          /\ Publish(a, new) /\ UNCHANGED faults
       \/ /\ app' = [app EXCEPT ![a] = new]
          /\ NotPublished(a)                       \* dies
       \/ \E deploy \in {new.deploy}
                          \cup IF old.deploy = [e \in Env |-> "default"] THEN {old.deploy} ELSE {} :
             /\ app' = [app EXCEPT ![a] = RolledBack(old, new, deploy)]
             /\ \/ IF ValidPipeline(new, Bound) THEN NotPublished(a) ELSE Unpublishable(a, new)
                \/ Unanswered(a, new) /\ UNCHANGED left
    /\ removed' = {r \in removed : r[1] # a \/ app'[a].deploy[r[2]] = "off"}
    /\ UNCHANGED <<preview, queued>>

\* Sync: publish the app as it is saved; a failure is reported.
handleSyncApp(a) ==
    /\ Request
    /\ Publish(a, app[a])
    /\ UNCHANGED <<app, preview, queued, faults, removed>>

\* Delete: first from the store, with its environments; that the repository
\* could not be changed is only logged.
handleDeleteApp(a) ==
    /\ Request
    /\ app' = [app EXCEPT ![a] = Absent]
    /\ preview' = [preview EXCEPT ![a] = NoEnv]
    /\ \/ Unpublish(a) /\ UNCHANGED faults
       \/ Fault /\ left' = left \cup {a} /\ clean' = clean \ {a} /\ Unrecorded
    /\ removed' = {r \in removed : r[1] # a}
    /\ UNCHANGED queued

\* Copy: a publication that fails takes the copy back.
copyAppAs(a, b) ==
    /\ Request
    /\ app[b] = Absent
    /\ \/ /\ app' = [app EXCEPT ![b] = app[a]]
          /\ Publish(b, app[a]) /\ UNCHANGED faults
       \/ /\ app' = [app EXCEPT ![b] = app[a]]
          /\ NotPublished(b)                       \* dies
       \/ Unanswered(b, app[a]) /\ left' = left \cup {b} /\ UNCHANGED app
    /\ UNCHANGED <<preview, queued, removed>>

\* Rename: save and publish the new app, or take it back; unpublish and delete the
\* old one.
handleRenameApp(a, b) ==
    LET saved     == [app EXCEPT ![b] = app[a]]
        published == writeAppTree(git, b, app[a])
    IN
    /\ Request
    /\ app[b] = Absent
    /\ \/ \* dies before the publication
          /\ app' = saved
          /\ preview' = [preview EXCEPT ![b] = preview[a]]
          /\ NotPublished(b)
          /\ UNCHANGED removed
       \/ Unanswered(b, app[a]) /\ left' = left \cup {b} /\ UNCHANGED <<app, preview, removed>>
       \/ \* dies before the old app's files are removed
          /\ app' = saved
          /\ preview' = [preview EXCEPT ![b] = preview[a]]
          /\ Publish(b, app[a])
          /\ Fault
          /\ UNCHANGED removed
       \/ \* dies before the old app is deleted
          /\ app' = saved
          /\ preview' = [preview EXCEPT ![b] = preview[a]]
          /\ ValidPipeline(app[a], Bound)
          /\ git' = UnpublishApp(published, a)
          /\ Fault
          /\ clean' = (clean \cup {b}) \ {a}
          /\ left' = left \ {a, b}
          /\ Records(Due(b, app[a]))
          /\ UNCHANGED removed
       \/ \* completes; that the old app's files are still there is only logged
          /\ app' = [saved EXCEPT ![a] = Absent]
          /\ preview' = [preview EXCEPT ![b] = preview[a], ![a] = NoEnv]
          /\ ValidPipeline(app[a], Bound)
          /\ \/ /\ git' = UnpublishApp(published, a)
                /\ left' = left \ {a, b}
                /\ UNCHANGED faults
             \/ /\ Fault
                /\ git' = published
                /\ left' = (left \cup {a}) \ {b}
          /\ clean' = (clean \cup {b}) \ {a}
          /\ Records(Due(b, app[a]))
          /\ removed' = {r \in removed : r[1] # a}
    /\ UNCHANGED queued

\* Remove from an environment: save the choice, remove the files, and rebuild the
\* pipeline without the environment.  A failed rebuild is only logged.
handleUndeployAppEnv(a, e) ==
    LET saved   == [app EXCEPT ![a].deploy[e] = "off"]
        without == RemoveAppEnv(git, a, e)
    IN
    /\ Request
    /\ e # app[a].validator
    /\ \E f \in Env : f < e
    /\ app' = saved
    /\ \/ /\ NotPublished(a) /\ UNCHANGED removed
       \/ /\ Fault /\ git' = without /\ Records({})      \* its answer is lost
          /\ clean' = clean \ {a} /\ UNCHANGED <<left, removed>>
       \/ /\ removed' = removed \cup {<<a, e>>}
          /\ \/ /\ app[a].direct
                /\ git' = without /\ Records({})
                /\ UNCHANGED <<faults, clean, left>>
             \/ /\ ~app[a].direct /\ ValidPipeline(saved[a], Bound)
                /\ git' = writeAppTree(without, a, saved[a])
                /\ clean' = clean \cup {a} /\ left' = left \ {a}
                /\ Records(Due(a, saved[a]))
                /\ UNCHANGED faults
             \/ /\ ~app[a].direct
                /\ git' = without /\ Records({})
                /\ clean' = clean \ {a}
                /\ IF ValidPipeline(saved[a], Bound) THEN Fault ELSE UNCHANGED faults
                /\ UNCHANGED left
    /\ UNCHANGED <<preview, queued>>

\* Promote: prepare the environment if Argo CD has no Application there, and
\* submit a release that is verified in the source.  The Application may not
\* show up in time.
promoteAppEnv(a, e) ==
    LET source == ReleasePipeline(app[a], Env, e) IN
    /\ Request
    /\ ~app[a].direct
    /\ app[a].deploy[e] # "off"
    /\ ValidPipeline(app[a], Env)
    /\ source # NoEnv /\ Live(git, a, source)
    /\ IF Rendered(git, a, e)
       THEN queued' = queued \cup {<<a, e>>} /\ Unrecorded /\ UNCHANGED faults
       ELSE /\ e \in Bound
            /\ git' = PrepareAppEnv(git, a, app[a], e)
            /\ Records({})
            /\ \/ queued' = queued \cup {<<a, e>>} /\ UNCHANGED faults
               \/ Fault /\ UNCHANGED queued
    /\ UNCHANGED <<app, preview, clean, left, removed>>

\* A preview, new or again: save it, publish it; a failure restores what was
\* saved.
upsertAppPreview(a, base) ==
    /\ Request
    /\ \/ /\ preview' = [preview EXCEPT ![a] = base]
          /\ \/ git' = PublishPreview(git, a, app[a], base) /\ UNCHANGED faults
             \/ Fault /\ UNCHANGED git             \* dies
       \/ /\ Fault /\ UNCHANGED preview           \* the answer is lost
          /\ git' = PublishPreview(git, a, app[a], base)
    /\ UNCHANGED <<app, queued, clean, left, removed, ran, stale>>

\* The files go first, from where the saved preview is based.
handleDeleteAppPreview(a) ==
    /\ Request
    /\ preview[a] # NoEnv
    /\ git' = DeletePreview(git, a, preview[a])
    /\ \/ preview' = [preview EXCEPT ![a] = NoEnv] /\ UNCHANGED faults
       \/ Fault /\ UNCHANGED preview               \* dies
    /\ UNCHANGED <<app, queued, clean, left, removed, ran, stale>>

\* Kargo runs a Promotion that was submitted, or one of its own to a Stage with
\* auto-promotion.  It fails without a Stage and without the files to write.
KargoPromotes(a, e) ==
    /\ <<a, e>> \in queued \/ <<a, e, TRUE>> \in git.policies
    /\ queued' = queued \ {<<a, e>>}
    /\ IF (\E u \in Env \cup {NoEnv} : <<a, e, u>> \in git.stages) /\ Rendered(git, a, e)
       THEN git' = activatePreparedRelease(git, a, e) /\ Records({<<a, e>>})
       ELSE Unrecorded
    /\ UNCHANGED <<app, preview, requests, faults, clean, left, removed>>

Next ==
    \/ \E a \in App, spec \in Initial : handleCreateApp(a, spec)
    \/ \E a \in Present, b \in App : copyAppAs(a, b) \/ handleRenameApp(a, b)
    \/ \E a \in Present : \E new \in Edits(app[a]) : handleUpdateApp(a, new)
    \/ \E a \in Present : handleSyncApp(a) \/ handleDeleteApp(a) \/ handleDeleteAppPreview(a)
    \/ \E a \in Present, e \in Env :
          handleUndeployAppEnv(a, e) \/ promoteAppEnv(a, e)
    \/ \E a \in Present, base \in Bases : upsertAppPreview(a, base)
    \/ \E a \in App, e \in Env : KargoPromotes(a, e)

Spec == Init /\ [][Next]_vars

-----------------------------------------------------------------------------
(* Properties.                                                             *)

\* An app is never rendered twice in an environment, by the ApplicationSet and
\* by the composed root, whatever became of the requests that changed its shape,
\* deleted it or created it again (writeAppTree prunes the other layout).
OneLayout == \A a \in App, e \in Env : ~(<<a, e>> \in git.target /\ <<a, e>> \in git.manifest)

\* An environment runs an app only if, since the app was last put there, it gets
\* every build at once or Kargo has promoted a release to it: preparing it, and
\* publishing the app again while it is prepared, does not start the chart's own
\* image (PrepareAppEnv).  Except where the app once had a release and was taken
\* away: its marker is still there and says that it has one (promotionPending).
OnlyReleasedRuns ==
    \A a \in App, e \in Env : Live(git, a, e) => <<a, e>> \in ran \cup stale

\* The same without the exception, as PrepareAppEnv's comment has it: "creates an
\* inert Application for Kargo. No seed image may sync."
NoSeedImage == \A a \in App, e \in Env : Live(git, a, e) => <<a, e>> \in ran

\* Environments of an app that releases reach through Stages that exist, from one
\* that Kargo promotes to by itself.
Fed(a) ==
    LET roots == {e \in Env : <<a, e, NoEnv>> \in git.stages /\ <<a, e, TRUE>> \in git.policies}
        Closed(envs) == roots \subseteq envs
                            /\ \A s \in git.stages : s[1] = a /\ s[3] \in envs => s[2] \in envs
    IN  {e \in Env : \A envs \in SUBSET Env : Closed(envs) => e \in envs}

\* Names whose pipeline files no other app takes for its own.
OwnName(a) == \A b \in App : a \notin Extends[b]

\* Once a publication has succeeded the pipeline in the repository is the one that
\* was saved, after any edits, removals from environments, changes of the validator
\* and of the delivery mode.  No environment is cut off: releases come from the
\* Warehouse over Stages that are there.  Kargo promotes by itself to just those
\* that get every build; the other promotions are Suparship's, after verification.
\* An app that is delivered directly leaves nothing of its pipeline behind.
PipelineAsSaved ==
    \A a \in Present \cap clean :
        IF app[a].direct
        THEN /\ a \notin git.warehouses
             /\ \A s \in git.stages : s[1] # a
             /\ \A p \in git.policies : p[1] # a
        ELSE /\ OwnName(a) => Chain(app[a], Bound) \subseteq Fed(a)
             /\ \A e \in Env : <<a, e, TRUE>> \in git.policies =>
                   app[a].deploy[e] # "off" /\ ReleasePipeline(app[a], Bound, e) = NoEnv

\* Where a release is due, the app has its Application, in the layout of its
\* shape, and its platform resources.
DeployedWhereDue ==
    \A a \in Present \cap clean :
        Due(a, app[a]) \subseteq
            git.resources \cap IF app[a].composed THEN git.manifest \cap git.components
                               ELSE git.target \cap git.values

\* A deleted or renamed app leaves neither values, targets and resources nor
\* Stages, policies and previews, unless removing them failed.
DeletedLeavesNothing ==
    \A a \in App : app[a] = Absent /\ a \notin left =>
        /\ \A e \in Env : <<a, e>> \notin git.values \cup git.target \cup git.components
                                \cup git.resources \cup git.previews \cup git.composedPreviews
        /\ a \notin git.warehouses
        /\ \A s \in git.stages : s[1] # a
        /\ \A p \in git.policies : p[1] # a

\* Where an app was removed, no later edit, sync or promotion brings its target
\* back until the environment is switched on again.
RemovedStaysRemoved == removed \cap git.target = {}

\* The layout that the app has in the repository: of several charts or of one.
Layout(a, e) == <<a, e>> \in git.manifest

\* What runs keeps running through every publication that succeeds, as long as
\* the app keeps its layout and is not removed from the environment: edits reach
\* the environments that releases were promoted to.
KeepsRunning ==
    [][\A a \in clean', e \in Env :
          Live(git, a, e) /\ app'[a] # Absent /\ app'[a].deploy[e] # "off"
              /\ Layout(a, e) = app'[a].composed
          => Live(git', a, e)]_vars

=============================================================================
