# TLA+ verification of Suparship

Suparship is a control plane, written in Go, that runs a small PaaS on Kubernetes
by GitOps. It keeps its own state in ConfigMaps, Secrets and one Git repository,
and lets Argo CD sync and Kargo promote. Its API server may run in several
replicas. This directory models the parts where concurrency, ordering and partial
failure decide whether it is correct. `PROJECT.json` lists the runs, the source
lines behind every definition, the hazards and the theorems.

## 1. Inventory

The system has no central lock and no database. State lives in Kubernetes objects
(updated with or without a `resourceVersion`), in Git, in the memory of each
process, and in Kargo's and Argo CD's own resources.

| Component | State it keeps | Operations | Correct when |
|---|---|---|---|
| **Promotion submission** `internal/kube/verified_release.go`, `promotion_name.go`, `kargo_store.go` | Promotion CRs; a reservation annotation on the Kargo Stage | `PromoteVerifiedRelease`, `PromoteFreight` (rollback), queries | one Promotion at a time per Stage, in the order of Kargo's names; an acceptance names the caller's own release; failed callers wedge nothing |
| **Ephemeral validation** `internal/server/ephemeral_validation.go`, `internal/kube/ephemeral_validation.go`, `internal/gitops/ephemeral_validation.go`, `internal/domain/validation_run.go` | the lease and the `ValidationRun`, in two annotations of the Kargo Stage; workload files and a dormancy marker in Git | lease, observe, advance, save, release | one owner saves at a time; workloads are never removed under an executing promotion; every run ends idle again |
| **App handlers** `internal/server/app_handler.go`, `internal/kube/app_store.go`, `internal/app` | one `AppSpec` ConfigMap per app, saved whole; previews | create, update, copy, rename, delete, promote, undeploy, pin, unpin, rollback, suspend, preview | what Git renders agrees with the spec that was saved; a failed request leaves nothing that blocks or surprises the next |
| **Automatic promotion** `internal/server/auto_promote.go` | per-process maps of cooldowns and attempts | tick: find next release, promote | a failed release is not retried in a loop; a pinned environment stays |
| **Scheduler handoff** `internal/kube/scheduler_handoff.go` | refresh annotation on the Stage | ready? | Kargo and Suparship never schedule the same Stage |
| **GitOps publisher** `internal/gitops` | one working clone per process and repository, guarded by an in-process mutex | publish, unpublish, detect drift: sync, write, commit, push | each commit is one whole publication on top of the last; no Kargo commit is discarded, no deployed tag rolled back |
| **Release pipeline, layout of an app** `internal/domain/release_pipeline.go`, `internal/gitops/publisher.go`, `kargo.go`, `prepared_release.go` | the files of an app in Git | which files a publication writes, prunes and keeps | releases reach every environment, from Stages that exist; one layout at a time |
| **Configuration layers** `internal/server/env_config_handler.go`, `org_env_handler.go`, `cmd/suparship/server.go`, `internal/envconfig` | variables and secret references in the organisation, projects, stacks, apps and clusters; goroutines | edit a layer, republish the apps it applies to, relocate | in the end Git has what the layers say, on the clusters they are for |
| **Async tasks** `internal/server/async_tasks.go` | in-memory task map | start, poll, evict | a task ends, and only ended tasks are evicted |
| **Local users** `internal/localuser` | one Secret, updated with its `resourceVersion` | create, delete, password, invite, redeem | an invite is redeemed once, and not for a user it was not issued to |
| **Organisation and RBAC** `internal/rbac` | one ConfigMap | `MutateOrg`, `SaveOrg`, `Authorize` | concurrent edits are merged, never lost |
| **Secrets** `internal/secrets`, `cmd/suparship/secrets_migrate.go` | Vault/1Password/Kubernetes backends, connection tokens | write, rotate, provision, migrate | a rotation never revokes the token in use; a migration may be repeated |
| **Stacks, projects, namespaces** `internal/server/stack_handler.go`, `stack_lifecycle.go`, `project_handler.go`, `namespace_ownership.go` | stack and project ConfigMaps; labels of namespaces | create, join, leave, share, delete, tear down | only what Suparship created and nobody else uses is deleted |
| **Cluster registry and pool** `internal/kube/cluster_store.go`, `internal/k8s/cluster_pool.go` | kubeconfig Secrets, cached clients | register, rotate, evict | no client outlives its credentials |
| **Template sources and pins** `internal/tpl`, `internal/kube/templates.go`, `internal/server/template_registry_handler.go`, `app_retemplate.go` | registry and template ConfigMaps; pins in apps; charts in Git | sync, edit, namespace, import, delete, upgrade | a name has one owner; what is published is what is pinned |
| **Bootstrap** `internal/bootstrap` | ConfigMaps, Argo CD objects | reconcile | idempotent |
| **Sessions and tokens** `internal/session`, `internal/token` | signed cookies, token Secrets | issue, validate, revoke | an expired or revoked one is refused |
| Status, diagnostics, UI, CLI entry, branding, license, backup, charts | – | – | not modelled: reads, presentation, wiring and I/O |

How they meet: an HTTP handler or a ticker (one per replica) reads the app spec and
the Stage, decides, and calls the Kargo store; a promotion makes Kargo commit to
the same Git branch that the publisher pushes to; ephemeral validation owns a
lease on the Stage so that two replicas' tickers do not both advance a run, and
the app-update handler takes the same lease before it changes the mode.

Hard behaviours: replicas interleave between any two API calls; a process may die
between creating something and recording it; Kargo's controllers lag (a Promotion
that has ended is recorded in its Stage only later, and old ones are collected);
clocks of replicas disagree, so the names they generate do not sort by creation.

## 2. Plan

Modules are written so that they can be proved about as well as checked: parameters
are CONSTANTS with named assumptions, one action per API call, no recursive
operators. In order of importance:

| # | Module | Refines / composes | State |
|---|---|---|---|
| 1 | `PromotionQueue` | refines `DeploymentSlot` | model, run, proofs |
| 2 | `ValidationLease` | refines `ExclusiveLease` | model, run, proofs |
| 3 | `ValidationRun` | uses the lease as `ExclusiveLease` promises it, and refines it | model, runs, proofs |
| 4 | `GitPublisher` | refines `AtomicRepo` | model, run, proofs |
| 5 | `EnvironmentHold` (pin, unpin, rollback, edit) | publishes atomically, as `AtomicRepo` promises | model, run, proofs |
| 6 | `RepoLayout` and `AppLifecycle` (what a publication writes; the handlers around it) | each publication is one step, as `AtomicRepo` promises | model, run, proofs |
| 7 | `AutoPromotion`, with the scheduler handoff | submits to one Stage, as `DeploymentSlot` promises | model, run, proofs |
| 8 | `Access` (users, invites, sessions, teams, tokens) | – | model, run, proofs |
| 9 | `Namespaces` (stacks, projects, ownership) | – | model, run, proofs |
| 10 | `Configuration` (layers of variables, clusters, vault items, republication) | publishes atomically | model, run, proofs |
| 11 | `TemplateCatalog` (sources, registry, pins, charts) | publishes atomically | model, run, proofs |
| 12 | token rotation and migration of secrets, cluster pool, async tasks | – | left |

Every safety property that a run checks, invariant or action property, has a theorem;
section 5 says under which hypotheses. What is left to prove is about those hypotheses:
conditions on overlapping requests for a hold that are weaker than `Serial`, and a mode of
a validation environment that changes more than once without the stale readings of section 4.

## 3. The modules

### PromotionQueue, DeploymentSlot

One Kargo Stage and the requests, over all replicas, that want to promote to it.
`promo` is the set of Promotion CRs by name, `last` and `verified` are parts of
the Stage's and the Freights' status, `reservation` is the annotation
`suparship.io/promotion-reservation`. A request is a goroutine with a program
counter; each of its actions is one call to the Kubernetes API, so everything else
may happen between two of them:

| Code | Actions |
|---|---|
| `validateVerifiedRelease`, `PromoteFreight` | `Submit` |
| listing and comparing with the destination (`verified_release.go`) | `ListPromotions`, `CompareDestination`, `ConfirmLatest` |
| `reservePromotionName` (`promotion_name.go`) | `ReadStage`, `WriteReservation` (a compare-and-swap on the `resourceVersion`, tried again on a conflict) |
| `createPromotion` (`kargo_store.go`) | `CreatePromotion`, `InspectExisting` (the name already exists) |
| an error of a call, a lost answer, a dead process | `Fail`, `Crash` |
| Kargo (external) | `KargoVerify`, `KargoFinish`, `KargoRecord`, `KargoCollect` |

Names are numbers because the code only compares them; 0 is the empty name. The
ULID that a replica draws may sort anywhere, since the replicas' clocks differ.
`DeploymentSlot` is what the users of the queue see: one attempt at a time, each
under a greater name than the one before.

### ValidationLease, ExclusiveLease

`KargoStore.WithValidationLease`: read the Stage, take the lease with an optimistic
update, work under a ten minute deadline, read again, and save the run and drop the
lease with another optimistic update. Time is counted down by `Tick`; a context
that has ended makes its call return at once, so time does not pass beyond it.
`OtherWrite` stands for every other writer of the Stage: it only invalidates the
versions that were read. `ExclusiveLease` is what the callers rely on.

### ValidationRun

The life of a validation environment in ephemeral mode. The reconciler (`Tick*`:
one `reconcileEphemeralValidation`, call by call), settings requests (`Update*`:
`handleUpdateApp` as far as it changes the validation mode), the workload files and
the dormancy marker in Git, and, external, Argo CD (`ArgoSync`), Kargo (`Kargo*`)
and the builds (`NewBuild`). The lease is here one variable; the property
`HoldsLease` says that it is used as `ExclusiveLease` allows, which is what
`ValidationLease` implements: that is how the two modules compose.
A request saves the new mode (`UpdateSave`), publishes (`UpdatePublish`), and saves the old mode
again if that fails (`UpdateRollback`), in steps of their own: the reconciler may work in between.
A publication that fails may have been accepted with its answer lost; `lost` is the history
variable that remembers a switch which Git has and the request took back.

### GitPublisher, AtomicRepo

`withClonedRepo` and what runs under it. Every replica has one clone (`base`, the
commit it was brought up to; `head`, its own last commit; `tree`, the files) and one
lock. A task waits for the lock (`Acquire`), fetches and resets or clones (`Sync`),
writes and removes its files one by one (`Write`), commits if anything has changed
(`Commit`, `NothingToCommit`) and pushes (`Push`, `PushFails`). The drift check
shares all of it up to the comparison (`Compare`). A task may fail, and its process
die, at any step, and leaves the clone as it is. Kargo pushes tags at any time.
A publication is a function from files to versions: which files, and what is in
them, does not matter to the protocol. A file has, besides its version, the image
tag that Kargo owns; writing the file keeps it (`existingImageTag`), removing the
file forgets it. Pinned environments and previews, whose tag the publication
itself decides, are data of the version here. `AtomicRepo` is what everybody else
relies on: a commit is one whole publication, or one promotion.

### EnvironmentHold

One app and its first environment, held on an image and released. `app` is the hold of
the saved spec, three fields of `EnvironmentOverride`: `from` is `PinnedFrom`, `tag` is
`PinnedImageTag` and `before` is `PrePinImageTag`. `git` is what the branch says: the
deployed tag, and whether Kargo may promote by itself. Kargo's copy of the policy is
`stage.auto`, which Argo CD brings up to date (`PolicySync`).

| Code | Actions |
|---|---|
| `pinAppEnvSpec`, `rollbackAppEnvSpec`, `unpinAppEnvSpec` | `Load` or `NotHeld`, `Capture` (what the Stage runs), `Save` |
| `handleUpdateApp` | `Load`, `Save`, `Publish`, `EditRollsBack` |
| `republishAppsFocus` | `Publish`, of the request's own copy |
| `unpinClearRestoreFlag` | `Clear` |
| `rollbackAppEnv` | `Promote`, or `PromoteFails`, `Reload` and the reversal |
| an error of a call, a dead process | `Fails` |
| Kargo, Argo CD (external) | `NewBuild`, `AutoPromote`, `KargoPush`, `KargoSucceed`, `PolicySync` |

Every step of a request works on the copy of the app that it loaded; `SaveApp` replaces
the whole object at whatever version it finds. A publication is one step, as
`GitPublisher` shows it to be; that a push was taken but its answer lost is not told
apart from one that was not taken. The app has one image, its environment is the first
of the pipeline, and nobody promotes to it by hand.

### RepoLayout, AppLifecycle

`RepoLayout` has no state of its own: it says, as operators on the tree of the
repository, what every publication of an app writes, prunes and keeps. An app with one
chart has, per environment, `values` and a `target`; an app of several charts has
`components` and a `manifest`. Both have platform `resources`, a warehouse, `stages`,
`policies`, previews, and a `pending` marker for an environment that is prepared but
has no release yet.

| Code | Operators |
|---|---|
| `writeAppTree`, `writeComposedAppTree` and what they call | `writeAppTree`, `publishEnvFiles`, `prune...Artifacts`, `publishKargoCRs`, `cleanupKargoCRs` |
| which environments get files | `firstDeployEnvs`, `promotedDeployEnvs`, `enabledDeployEnvs`, `deployEnvs` |
| `ReleasePipeline` (`internal/domain`) | `ReleasePipeline`, `ValidPipeline`, `Chain` |
| `prepared_release.go` | `PrepareAppEnv`, `promotionPending`, `activatePreparedRelease` |
| the other transactions | `UnpublishApp`, `RemoveAppEnv`, `PublishPreview`, `DeletePreview` |

`AppLifecycle` puts the handlers around it: create, edit, sync, copy, rename, promote,
undeploy, preview and delete. A request is the save and then the publication, which may
fail, with a reaction that is different in every handler (the new app is deleted, an
edit is rolled back, a promotion is just refused); the push may have been accepted and only its
answer lost, so that the reaction meets files it does not expect (`Unanswered`); and the server
may die between the two. The history variables follow what runs: `ran` has the environments
whose release was rendered during the present stay of the app there, and forgets
them when the app leaves; `stale` has those where the app was taken away and its marker was not.
Kargo activates prepared environments on the same branch. One request at a time;
`EnvironmentHold` and `Configuration` are about requests that overlap.

### AutoPromotion

One app, one environment, and the loop that every replica runs (`List`, `WaitForKargo`,
`ListReleases`, `Choose`). Then it does what a request by hand does (`PromoteByHand`), which is
a round of its own from there on: `Load`, `WaitForTarget`, `Validate`, `Submit`. Between a
validation and the create everything else may happen; the list, the reservation and the create
are one step, since `PromotionQueue` shows that requests of Suparship do not pass each other
there. `Minutes` counts the cooldowns down. Around it, people pin the environment,
edit the pipeline and promote by hand, a publication ends an older policy under which
Kargo promoted, and Kargo verifies, sees the policy, reconciles, runs and records. Why a
handoff is needed: a reconciliation that began under the old policy promotes later.

### Access

Users, invites and tokens are Secrets and the organisation is a ConfigMap, all updated
with the version that was read. A mutation that is retried until it succeeds is one
step; the organisation and the tokens are read and written in two.

| Code | Actions |
|---|---|
| `KubeStore` of `internal/localuser` | `CreateUser`, `CheckUser` and `IssueInvite`, `ClaimInvite` and `SetPassword`, `Authenticate`, `DeleteUser`, `DropInvites` |
| `internal/session` | `CreateSession`, `DeleteSession` |
| `MutateOrg`, `SaveOrg` and the handlers of teams and members | `GetOrg`, `SaveOrg`, `NotSaved`, with `Refused` and `Apply` for each change |
| `internal/token` | `IssueToken`, `RevokeToken` |
| an error, a dead process, an expired link | `Fails`, `InviteExpires` |

### Namespaces

Where an app runs (`ResolveNamespace`), who owns the namespace (`EnsureNamespaceOwned`, `label`),
and who may delete it. A request is a sequence of calls: `Resolve`, `Ensure`, `Publish`,
`Unpublish`, `Reclaim`, and for a stack one member after the other (`NextMember`, `NoMoreMembers`,
`EndStack`). Deleting a project starts a goroutine: `UnpublishProjectApps`, `CountApplications`
until `NoneLeft`, `UnpublishProjectInfra`, `deleteOwnedProjectNamespaces`. `CanCount` says whether
the server can read Argo CD's Applications: if not, the goroutine waits for 90 seconds and goes on
(`project_handler.go:193-196`), and nothing is promised. `target` is what Git publishes, `home` is
what the saved app says, `Applications` are Argo CD's.

### Configuration

Ten layers (organisation, type of environment, project, stack, app, cluster, some of
them per environment) may set a variable, and the highest wins. Three functions of the
source compute with them: `mergeAllEnvVars` is what a publication writes,
`ResolveEnvLayers` what the console shows; `Agrees` compares the two at rest. The first is
here the value of the highest layer that sets the variable (`Highest`), as overwriting a map
layer by layer leaves it; the second takes the layers of the highest level, of which the
cluster's own wins.

Where an app runs is a choice of its own: the clusters that it selects (`select`, the spec's
`TargetClusters`), or else what the environment deploys to (`appClusterTargets`). Its variables
are always those of the environment's active cluster, and one ConfigMap goes to every cluster that
the app runs on: `git` has one `value` per app because the code writes one. `follows` tells the
apps apart whose clusters are the environment's single one: `OwnCluster` is about them, and
`ClusterOverrides`, in a run of its own, shows that it fails for the others. The clusters of a
publication come from one reading of the organisation, and the layers from another; some clusters
may be unreadable, in which case the others are published (`NextApp`).

| Code | Actions |
|---|---|
| the PUT handlers of `env_config_handler.go` | `handlePutOrgEnvConfig`, `handlePutProjectEnvConfig`, `handlePutAppEnvConfig`, `handlePutClusterEnvConfig` |
| stacks, deletion, environments | `handlePatchStack`, `handleSetAppStack`, `handleSetStackTargetClusters`, `handleDeleteApp`, `handleUpdateOrgEnvironment` |
| `secrets_handler.go` | `handleUpsertSecrets`, `handleDeleteSecret` |
| the goroutines of `scheduleRepublish...` | `Load`, `NextApp` (resolves the clusters), `ReadLayers` (and ensures the vault's items), `PublishApp`, `NoMoreApps`; `Unpublish` |
| a new process | `Restart` (`republishAllApps`) |

### TemplateCatalog

Sources of charts, the registry that says which source provides which name, the copies
in the cluster, what an app is pinned to, and the charts in Git.

| Code | Actions |
|---|---|
| `runOneTemplateSync`, `handleSyncAll`, `handleSyncOne` | `runOneTemplateSync`, `handleSyncOne`, then `SyncOne`, `SaveAlias`, `SaveArchive` per source, and `SaveRound` |
| `handleGetRegistry` and `handleUpdateRegistry` | `EditRegistry`, `handleUpdateRegistry`, `DropTemplate` |
| `handleNamespaceSource` | `handleNamespaceSource`, `SaveFlag`, the sync, `TakeBack` or `SaveNamespaced`, `RepinTemplates`, `republishStable`, `DropTemplate` |
| `handleImport`, `handleDelete` | `handleImport`, `handleDelete` |
| upgrades | `upgradeTemplatelessApp`, `upgradeAppTemplateForEnv`, `retemplateApp`, `forceRepublish`, then `republishStable` |
| a source ships a version; the server dies | `Release`, `Crash` |

The registry is read once, worked on for minutes and saved whole, by the ticker and by
requests, and nothing compares versions. `lacking` and `owed` are history variables: what
the code's own comments except, or what a failing call explains.

Failures are taken apart where the handlers react to them: a save of the app that took effect
although it is said to have failed (`Saves`, without a restoration), a push that was
accepted although it is said to have failed (`republishStable`, which restores the pins), and a
template of which only some ConfigMaps were deleted (`Deletes`). The environments over which the
fold of pins and its check go are a listing (`seen`, `listed`) that may fail; then they are
`Fallback`, the environments that the code names by default.

## 4. What is checked

Every run has a small instance; `PROJECT.json` lists the runs and names the mutant of the code's
definitions that each property catches. All of them pass. The second table is of counterexamples:
each of these configurations checks what a comment or a document says of the code, and TLC finds it
violated (`tlc -config MCDrift.cfg MCTemplateCatalog`, a few seconds each); the properties of the
runs except exactly these cases, and the paragraphs below the tables explain them.

| Run | Instance | Shows |
|---|---|---|
| `promotion_queue` | 2 requests, 2 freights, 3 names, 2 tries | never two active Promotions; accepted requests name a Promotion that is not out of date; failed and crashed requests never wedge the queue; the protocol implements `DeploymentSlot` |
| `validation_lease` | 3 workers, times 6 / 4 / 1 / 1 | the protocol implements `ExclusiveLease`: one owner works, and no saved run is lost or brought back |
| `validation_run` | 2 releases, 1 request, the mode fixed, fairness | no teardown under an executing promotion or verification; no release is validated twice; every run ends, whatever Argo CD and Kargo fail to do |
| `validation_switch` | 2 releases, the mode is switched once, by one request after the other | the mode only changes between runs; turning it on removes nothing; capacity is reused only when it is free, all three until a switch is rolled back that Git has; the lease is always used as it is meant |
| `git_publisher` | 2 replicas, 2 tasks, 2 files, 2 pushes | the branch is an `AtomicRepo`; a reported success is on the branch |
| `environment_hold` | 5 requests one after the other, 3 builds, 2 faults | Kargo is paused in Git exactly while the app is held; resuming goes back to what ran before the first hold |
| `app_lifecycle` | 2 names of which one continues the other, 3 environments, 5 requests, 1 fault | only released images run, unless a marker of an earlier stay is left; the pipeline in Git is the saved one and has no hole; an app is deployed where it is due, keeps running, stays away where it was removed, and leaves nothing when it is deleted |
| `auto_promotion` | 1 replica and a person, 2 releases that pass in 1 of 2 sources, 1 edit, 2 publications, 1 fault, fairness | one scheduler; verified releases only, unless a publication overtakes the request; spaced retries; the newest release arrives |
| `access` | 2 users, 1 team, 5 requests, 2 at a time, 1 fault | an invite sets one password; a revoked token stays revoked; a deletion is whole; no update of the organisation is lost |
| `namespaces` | 2 apps, 1 stack, 1 namespace of somebody else, 6 requests, 1 fault | only namespaces of one app are reclaimed; adopted ones stay; the teardown waits for the Applications |
| `configuration` | 1 app, 2 clusters, 7 bindings, 4 selections, 2 goroutines, 2 requests, 2 faults | at rest Git has the value that the console shows and the clusters that the app is to run on, but for what a fault explains; an app that follows an environment on one cluster has no other cluster's variables; no reference to a missing item |
| `templates` | 2 sources with the same chart, of which one ships a new version, 2 versions, 2 environments, the ticker beside 2 requests, 1 fault, fairness | what is published is what is pinned, unless an answer was lost; a chart in Git is of the version its directory names; an upgrade of one environment touches no other that it could list; every source is followed in the end |

| Configuration | Module | Violates | Said by |
|---|---|---|---|
| `MCSeedImage.cfg` | `MCAppLifecycle` | `NoSeedImage` | `internal/gitops/prepared_release.go:41` |
| `MCLostSwitch.cfg` | `MCValidationRun` | `NeverReusesCapacity` | `internal/server/ephemeral_validation.go:92-94` |
| `MCOverlap.cfg` | `MCValidationRun` | `SwitchesWhenIdle`, with two requests | `docs/release-validation.md:151` |
| `MCClusterOverrides.cfg` | `MCConfiguration` | `ClusterOverrides` | `ui/src/pages/ClusterSettings.tsx:391-393` |
| `MCDrift.cfg` | `MCTemplateCatalog` | `NeverDrifts` | `internal/server/app_handler.go:2470-2472` |
| `MCMissedEnvironment.cfg` | `MCTemplateCatalog` | `NoOtherEnvironment` | `internal/server/app_handler.go:2382-2386` |

Why the bounds are enough. Three names are the promotion that is replaced, the one that replaces it,
and a late one that must not overtake it; two requests make every pair of their calls interleave.
Three workers are one that has lost its lease, its successor, and one between its read and its
update. Two releases are one under validation and a newer one that waits. One switch of the mode, at
any point, goes in either direction, and by one request: with a second switch, or with two requests
that overlap (`MCOverlap.cfg`), TLC refutes `SwitchesWhenIdle`, `EnablingKeepsWorkloads` and
`CapacityIsFree`, and with one switch already `NoTeardownWhileExecuting` and `NotValidatedAgain`
(the reasons are below, under *Validation*). These are the bounds of the passing runs and the
hypotheses of the theorems. In the publisher two tasks may share a clone or not, two files make a
half-written tree, and two pushes after the first content one to be overtaken by the other. Five
requests to an environment are two holds, an edit between them, a resume and one more; three builds
are one that runs, one to go back to and one that arrives meanwhile. Three environments are the
first, one between, and production, so that removing one can leave a hole; two names of which one
continues the other are what the prefixes of files and policies could confuse; five requests are a
create, two edits, a rename or removal, and a create under the old name. An app starts with at most
one thing that differs from the default (charts, delivery, stages, production: `Initial`); edits
lead to the rest. In `auto_promotion` two sources are a pipeline that is edited while a release is
under way, the edit is that one, a pin, or a request by hand, and two publications end Kargo's
policy and then move the Stage under a validated request; the second release comes while the first
is tried, and the replica may restart and forget. Both releases pass where the Stage first asks for
them (`Passing`): what counts is that they are verified in one source and not in the other. Two
requests at a time and five in all create, invite, redeem, delete and create again. Six requests
create two apps, join a stack, share, stop sharing, and delete or rename. Two goroutines are one
that is overtaken by the other, two requests are an edit and a change of the clusters; two faults
are, for instance, a cluster and then a layer that cannot be read. The selections are none, one
cluster, and all of them. In `templates` two requests are, for instance, a source that is added and
one that is namespaced or removed while the ticker is in a round; two versions are what is pinned
and what is current. There is one source that ships a new version: with both doing so TLC agrees
too, but takes too long for a regular run. All variables are otherwise unbounded only in the
counters that the modules name.

### Where the code does not do what it says

Found while modelling; the properties except these cases by name, or the model leaves
them out where it says so. Where a configuration of the second table shows one, it is named.

*Validation.* `ObserveValidation` returns before it looks at the verification when the run has no
freight (`internal/kube/ephemeral_validation.go:154`), so a mode turned on between a promotion and
its record removes workloads under verification; `docs/release-validation.md:128`: "The controller
never tears down an actively executing promotion or verification". A stale dormancy marker prunes
what runs when the mode is turned on again (`internal/gitops/ephemeral_validation.go:23`, against
its comment at 26). Whether a settings request takes the lease depends on the mode that it loaded
(`app_handler.go:1023`), so two requests can change the mode under a run
(`docs/release-validation.md:151`; `MCOverlap.cfg`); the later save also puts back the mode
that it had loaded. A publication whose push was accepted while its answer was lost is rolled back
too (`app_handler.go:1004-1014`): Git keeps the files and the policy of the other mode, the next
publication in ephemeral mode finds the environment dormant and removes the files, and the idle run
may meanwhile provision the next release beside what Argo CD is still deleting, against
`internal/server/ephemeral_validation.go:92-94`: "never reuse capacity until cascading deletion has
completed" (`MCLostSwitch.cfg`). A failed publication takes the mode back even if a run has begun
meanwhile, which it may when Kargo's policy is still off from an earlier turn, or off because of
that push. A run that adopts a release which Kargo has superseded is neither verified nor failed.
The Applications to wait for are computed from today's settings
(`internal/server/ephemeral_validation.go:64`).

*Holds.* The tag that resuming restores is cleared by a second save
(`app_handler.go:3359`); if that is not reached, every later publication forces the tag
("by force-writing it ONCE", 3296). A rollback whose Promotion cannot be created is undone
in the store, but the app that is published is the held one (3565, against 3553). An edit
saved before a pin and published after it makes Kargo promote to a held environment:
publications are serialised by the lock, not by their saves. A pause is in Git before Kargo
has it. `promoteAppEnv` checks the pin once, before minutes of waiting (3973).

*Lifecycle.* A publication prunes the other layout's files (`publisher.go:702`, 802-835) before
`promotedDeployEnvs` looks for them (590-608): an app that gets a second chart, or goes back to one,
is removed from every environment it was promoted to, against `publisher.go:626-628`: "Once an env
has been promoted ..., republishes keep updating it". `KeepsRunning` is therefore about publications
that keep the layout. `UnpublishApp` leaves the composed root's Application manifest (3389, 3401),
so for composed apps the project's teardown never counts zero. The marker that says that an
environment has had its release (`.suparship/releases/`, `prepared_release.go:18`) is removed by
nothing: neither by `UnpublishApp` (`publisher.go:3421-3532`) nor by `RemoveAppEnv` (3560-3590), nor
when an app changes its layout. An app that comes back to such an environment is not prepared but
runs the seed image at once, against `prepared_release.go:41`: "No seed image may sync";
`MCSeedImage.cfg` shows it, and `OnlyReleasedRuns` excepts it (`stale`). A failed update restores an
aliased map, and not the delivery mode (`app_handler.go:615`, 1005-1014).
`MergeKargoPromotionPolicies` and `cleanupKargoCRs` match by prefix and glob, and take files of an
app whose name continues another's (`OwnName`). A rename drops published previews while the store
keeps them; a preview re-created on another base leaves the old one's files. An environment that is
switched off or unbound still counts as the base: if the first environment has no cluster, the first
one that has can be removed (`app_handler.go:2995` asks for the lowest order, `publisher.go:527` for
the lowest that is bound), and the same request deploys there again, against "Mark the env opted-out
so a later re-publish doesn't recreate it" (3002); in the run every environment has a cluster.
Directly delivered apps do not deploy to every stable environment from their creation
(`internal/domain/app.go:36`).

*Automatic promotion.* `PromoteVerifiedRelease` validates a release and lists, reserves and creates
afterwards (`verified_release.go:39`, 45-52): a publication in between moves the Stage, and the
Promotion is of a release that is not verified in its new source. `VerifiedAllTheWay` excepts this
request; no document claims more. Cooldowns are in the memory of a replica: with several, or after a
restart, a failing release is tried more often. A selection that is submitted late by a second
replica may go back to an older release.

*Access.* If the invites of a deleted user cannot be dropped the request ends with 500,
memberships are never stripped, and a retry gets 404. An older link that was claimed but
not used may overwrite a newer password. The session of a deleted user stays, and
memberships authorise it (`local_users_handler.go:203`). The first two writers of a
missing organisation ConfigMap do not see each other.

*Namespaces.* A rename reclaims the old app's namespace without comparing it with the new
one (`namespace_ownership.go:165-169`), and one that the scope "project" shares has no
stack label: renaming such an app, or moving it to a sharing stack, deletes the namespace
that its siblings run in, against 171-173: "owned by suparship ... and app-exclusive". The
run has apps with namespaces of their own (`Scopes`). An app and a stack of the same name
share a namespace. A stack's deletion takes its namespace although the deletion of a
member failed; the default deletion leaves it for ever (`stack_handler.go:289`).
`handleDeleteApp` reclaims nothing. The teardown is not retried and dies with the process.

*Configuration.* The stores of projects, apps and stacks save whole objects without a
version; requests that overlap erase each other's changes. A relocation that is "NOT
auto-applied" is applied by any later edit of a variable. Editing a preview's variables
republishes stable environments only. Neither saving nor deleting a secret republishes. A goroutine that
lists the apps before one is deleted publishes it again. `docs/secrets.md` says that
"rebinding an env ... needs no regeneration", but the name of a cluster's item is baked in
when the app is published. `mergeAllEnvVars`' comment omits the stack's layers. The variables of a
cluster are those of the environment's active cluster (`cmd/suparship/server.go:1585-1588`), while
an app runs on the clusters it selects, or on all if the environment deploys to all (1160-1173,
1398), with one ConfigMap for all of them (`publisher.go:1319-1326`, 1748-1757): an app that runs
only on another cluster has the active one's variables and lacks its own, against
`ui/src/pages/ClusterSettings.tsx:391-393` (`MCClusterOverrides.cfg`). A cluster that cannot be looked
up is skipped (`cmd/suparship/server.go:1114-1131`) and the publication succeeds without it; if the active
one cannot, its variables are missing; and if none is left the app goes to the cluster that
Suparship runs in (`publisher.go:1693-1698`).

*Templates.* When an upgrade cannot be published its pins are restored
(`app_handler.go:2471`: "so the store never drifts"), but `restoreEnvTemplateVersions`
(2189) only knows the environments that had overrides before: the failed pin of one that
had none stays saved, and the next publication rolls it out (`Stays`). A push that was accepted while
its answer was lost is taken for one that failed, and the pins are restored under a Git that has
the new ones (2485-2492): the drift that the comment rules out (`MCDrift.cfg`). A save that took effect
although it is said to have failed is not restored at all (2476-2480). When neither the app's
environments nor the organisation can be read, the fold of pins and its check both go over staging and
prod only (`stableEnvNamesForApp`, 2204-2228), so that another environment moves along with an
upgrade that "must only touch envName" (2382-2386; `MCMissedEnvironment.cfg`). A sync round saves
the registry that it read minutes before: it undoes an operator's edit, brings a removed
source back, or takes a name space away (against `cmd/suparship/server.go:2827`). A failed
fetch drops the source's rows, so its names are unguarded for one round. Two bare sources
with the same chart both import in a first round and are both refused in the next.
`RepinTemplates` to a version the source no longer ships publishes another chart under the
old version's directory (2543: "the chart bytes ... do not change"), since the current
template stands in for a missing archive (`internal/kube/templates.go:448`); a deletion that
fails halfway (332-336) leaves archives without a template, or a template that stands in. A chart in
Git is never refreshed, also when another source has taken its name over. A crash after
the first save of `handleNamespaceSource` cannot be retried (409). Uploads and deletions
ask neither for the owner of a name nor for apps that are pinned to it.

### Fairness

`validation_run` (`FairSpec`): every replica's ticker runs for
ever (`runEphemeralValidationOnce` on a `time.Ticker`), and each call of the reconciler
that is made again and again succeeds at some time (strong fairness: a call may
fail any finite number of times); the lease expires and the two time limits pass
(clocks go on); a request that has begun ends (its context has a deadline); Kargo
ends and records what it has begun; Argo CD deletes what it has to delete. That
Argo CD brings an Application up, or that a Promotion or a verification succeeds,
is not assumed. `EndsIdle` presumes that settings requests do not take the lease
for ever, which nothing in the code rules out.

`auto_promotion` (`FairSpec`): each replica's loop is on a ticker and time passes (weak
fairness of a round's steps and of `Minutes`); Argo CD creates the Application it is asked
for; Kargo sees the policy, reconciles, ends and records. A Promotion that is tried again
and again succeeds (strong fairness of `KargoSucceeds`); failures of calls are bounded by
`MaxFaults`. `Settles` excepts an environment that someone has pinned or switched off, and a
pipeline in Git that is not the saved one.

`templates` (`FairSpec`): the ticker runs for ever (`startPeriodicTemplateSync`) and its
calls fail `MaxFailures` times at most. Requests need not end. `Follows` presumes a registry
in which, from some time on, nobody else claims the source's name.

### Assumptions about the environment

Kargo keeps its last Promotions for longer than a request lasts. ULIDs are unique.
Nobody creates Promotions but Suparship, and, while it schedules, Kargo itself. The
clocks of the replicas differ by less than the slack of the lease, and acquiring the
lease takes less than five minutes (`TimelyAcquire`: the code sets no limit). Kargo's
lag is below the one hour for which a failure is kept (`Elapse`). Discovery times of
Freight are distinct in the runs. The
name of the validation environment does not change. An organisation that cannot be read is
taken to have the environments staging and prod; in `templates`, which has two, prod stands for
both (`Fallback`). The Git origin accepts only
fast-forward pushes. Apps and stacks of a project have different names. The organisation's
ConfigMap exists.

## 5. What is proved

TLAPS proves these for every value of the constants.

**PromotionQueueProofs.** `IInv` is inductive; from it follow `TypeCorrect`,
`AtMostOneActiveAlways`, `AcceptedOwnFreightAlways`, `AcceptedNotStaleAlways`,
`CreatedInOrderAlways`, `NeverWedgedAlways`, and `ImplementsSlot`. That two
Promotions are never active is not inductive: a stale request could create a second
one. What excludes it is `QueueInv`: whatever exists is the Promotion that the
reservation names, or has ended and does not sort after the reservation's
predecessor; `RequestInv` says what a request may still hold: the reserved name, or
one that was created already.

**ValidationProofs, `ValidationLease`.** `IInv` is inductive and gives `ExclusiveWork`,
`ProgressFromLatest` and the refinement of `ExclusiveLease`. The strengthening says
that a lease outlasts the work under it by `Slack` (`WorkInv`), that a token on the
Stage belongs to a call in progress, and what a current `resourceVersion` implies.
`TimelyAcquire` is the assumption under which it holds.

**ValidationProofs, `ValidationRun`.** `LeaseAsPromised`, in every mode and for any
requests: the reconciler holds the lease exactly in the steps under it, and a request that has
it is between its save and its end (`LeaseInv`); each step is then a step of
`ExclusiveLease` or a stutter. While the mode does not change (`MaxSwitches = 0`, any
number of requests and of Freight): `NeverTearsDown`, `CapacityWhenGone` and `ValidatesOnce`.
`FixedInv` goes phase by phase: what the saved run, the run that the reconciler has in hand
(an old reading of the world, at every step), Kargo and Argo CD can be together. The heart is that
from the decision to clean up on the Promotion is recorded and at most the run's own Freight
is under verification; the observation that nothing executes then stays true until the files
are removed, since with Kargo's policy off nothing new begins.
For requests that come one after the other and change the mode once at most (`OneChange`):
`SwitchesBetweenRuns`, `EnablingKeeps` and `CapacityWhenSwitched`, until a switch is rolled back
that Git has (`lost`). `OnceInv` says where the
request is (`AskInv`), what the marker in Git and the saved run are before, between and after
the save, its publication and a rollback (`ModeInv`), and that what Argo CD still has is what a run is
about to remove (`UseInv`).

**PublicationProofs, `GitPublisher`.** `IInv` is inductive: who is at work in a clone holds its lock
(`LockInv`), and the clone is a commit of the branch plus exactly what this task
has rendered so far (`CloneInv`). An accepted push is then a whole publication on top
of the head of the branch (`ImplementsAtomicRepo`), and a success that is reported is
on the branch (`SuccessIsPublished`). No assumption is made on crashes, on what a
task leaves behind, or on the number of replicas.

**PublicationProofs, `Configuration`.** `PublishedAsConfigured`, `VariablesOfOwnCluster` and
`ExtractsExistingItems`, for any apps, clusters, bindings, selections, edits, goroutines and
failures. `VariablesOfOwnCluster` is about the apps that follow an environment on one cluster, and
that is as far as it goes in the code.
`MergedIsResolved` is the lemma that the two functions of the source agree when every layer
could be read. `PubInv` says of every app that is saved (`SavedInv`) or deleted (`DeletedInv`)
that Git shows it, or that a goroutine will come to it, or that it is owed; of a goroutine,
that it goes to apps that it was given (`AllPlaced`) and that what it read of one is what is saved,
unless the app was edited since (`AllFresh`); and of the vault, that an item a goroutine is
going to refer to exists from the step on that ensured it (`PendingItems`).

**PinProofs, `EnvironmentHold`.** Two invariants, since two things are claimed. `HoldInv` is
inductive for requests that overlap in any way (`HoldsAreWhole`; TLC checks it on one request at
a time): every copy that a
request holds is a whole hold or none, so that it does not matter which is saved last.
`PausedExactlyWhileHeld` and `ResumingRestores` need requests that do not overlap
(`Serial`, an assumption on the constant `Requests`; section 4 says what happens
without it). Their invariant is `SerialInv`:
a request's copy is the saved app from the step on where it loads or saves it
(`CopyInv`), between a publication and the end of its request the pause agrees already
(`PauseInv`), and the image that ran before the first hold is in whichever copy is
saved next (`RanInv`).

**PinProofs, `TemplateCatalog`.** `PublishedAsPinned`, `UpgradesOneEnvironment` and
`ChartsAsPinned`, for any sources, names, versions, environments, listings and failures, with the
ticker beside any requests. `PublishedAsPinned` is up to the lost answers of a save or a push and to
what a failed request left owed; `UpgradesOneEnvironment` is about the environments that the request
could list. A request between its save and its publication has in hand the app as it is pinned, and
when it fails the one to go back to (`PinsInv`, `UpgradeInv`). `ChartsAsPinned` needs what no reader
of one handler sees: every version that an app is, or may again be, pinned to stays available under
its name, or is lacking, through all syncs (`KeptInv`). The attempt to prove it found the model
wrong: a publication that fails, an upload that replaces the alias, and a publication again,
published the chart of another version that was not yet in `lacking`; the code does that, the
exception was too narrow.

**AutoPromotionProofs.** `OneSchedulerAlways`, `RetriesAreSpacedAlways` and
`VerifiedAllTheWayAlways`, for any replicas, releases and faults, from one inductive
invariant. It says what the refresh token stands for (no reconciliation that Kargo still
runs began before it), how the time since the last attempt and the cooldown
agree, and that a validated release stays verified in the source it was validated for, which is
the Stage's unless a publication has changed the Stage since (`ValidatedInv`).

**AccessProofs.** `AccessInvariance` is inductive for any users, teams, number of
requests at a time and faults; from it `InvitesOnceAlways`, `RevokedForGoodAlways`,
`DeletedWholeAlways`, `OnlyCreatedAlways` and `NoLostUpdateAlways`. It says that a
request whose version is current holds what is stored, that an invite under redemption is
outstanding nowhere else, and what a deletion has removed by each of its steps.

**NamespacesProofs.** `NamespacesInvariance`, and from it `AdoptedStayAlways` and
`TeardownWaitsAlways`; `ReclaimsExclusiveAlways` under `OwnNames`, which is an assumption
of that theorem alone: apps with namespaces of their own, and no stack with an app's name.
`TeardownWaits` promises nothing of a server that cannot count (`CanCount`).
What a call still holds (the resolved namespace, the copy of the app) agrees with the store,
and a namespace without a stack's label is where no other app is saved or published.

**AppLifecycleProofs.** `AppLifecycleInvariance` (types and `LayoutInv`), and from it
`OneLayoutAlways` and `OnlyReleasedRunsAlways`, for any apps and environments. Each
publication is a composition of operators of `RepoLayout`, with a lemma for each that
says which files it adds, keeps and removes. An environment with a release marker
is one whose release was rendered since the app came there, or was left with its marker (`ran`, `stale`):
`OnlyReleasedRuns` is about the present stay of an app in an environment. `DeletedLeavesNothingAlways` is
inductive with the types: every operation writes for the apps that it is about alone
(`OnlyThese`). `DeployedWhereDueAlways`, `KeepsRunningAlways` and `PipelineAsSavedAlways`
come from `ShownInv` (an app that is `clean` has in Git what a publication of the saved spec
leaves) and from `Moves`: every step leaves an app's files and pipeline alone, or publishes
it as it is saved, continuing what runs, or makes it not clean. That the published
pipeline reaches each of its environments is `ChainIsFed`: going back from source to source
ends at the first environment, because each one comes later than its source. `Fed` is the
least set closed under the sources, so that this can be argued with the least
environment that is not in it. `RemovedStaysRemovedAlways` needs `RemovedInv`
(where an app was removed it is still saved as switched off, and the environment is not
the first one) and the assumption that the first environment has a cluster.

`AcceptedOwnFreight`, `CreatedInOrder`, `ExclusiveWork`, `ProgressFromLatest`,
`OnlyCreated` and `OneLayout` are proved and have no run of their own.

`PinProofs`, `PublicationProofs` and `ValidationProofs` are each about two components
that meet in the same part of the system (pins; what is written to Git; the lease and who takes
it). The two modules have no name in common, so that one module can extend both; this is why
the definitions of `Configuration`, `TemplateCatalog` and `ValidationRun` that would clash
have a prefix (`ConfInit`, `CatInit`, `RunInit`).

Only model-checked: liveness (`EndsIdle`, `Settles`, `Follows`), which is out of the prover's
reach, and whatever lies beyond the hypotheses of a theorem: these are `Serial` for two
properties of `EnvironmentHold`, `OwnNames` for `ReclaimsExclusive`, a cluster for the first
environment for `RemovedStaysRemoved`, and `MaxSwitches = 0` or `OneChange` for
`ValidationRun`. They are bounds of the runs too, and section 4 says how the code breaks the
properties without them.

## 6. What is not modelled

Parts without a module, with the reasons that `PROJECT.json` gives for each: asynchronous
tasks, secrets backends and their migration, the cluster registry and client pool,
bootstrap, status and diagnostics, UI, charts, CLI, branding, license and backup. The
backends and the registry of clusters are planned. What reading them showed:
`resealAllClusters` upserts the references of both backends into the active list
(`secrets_handler.go:815-848`); the second `SaveOrg` of `registerVault` always conflicts
(520, 555); deleting one of two clusters on the same API server deletes the Secret they
share in Argo CD; reseals that overlap publish the older last; `Invalidate` of the client
pool is never called.

Within the modelled parts: the static checks and the readiness handshake of
`release_validation.go`; the contents of values and manifests; the read-only users of the
clone; images with several tags. `AppLifecycle` has one project, one cluster for
each environment and requests that do not overlap, and leaves out clones across projects.
`Access` leaves out who may make which request, groups of an identity provider, and the
settings of authentication. `Namespaces` leaves out previews' namespaces, several clusters
and custom patterns; the operations of a stack that repeat an app's for every member (sync,
promote, pin, suspend, preview, clone) are left out. `Configuration` leaves out previews,
namespaces, components and overlays; the clusters that a single app selects change through
`handleUpdateApp`, which `AppLifecycle` has, and only a stack's change is an action; the apps of a
batch are published one by one, although the code commits a stack's batch at once.
`TemplateCatalog` leaves
out apps with components, overrides of templates, credentials, previews, the mirror of
the registry in Git, and sync rounds of several replicas.
