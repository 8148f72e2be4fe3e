------------------------------ MODULE RepoLayout ------------------------------
(***************************************************************************)
(* What one publication of an app changes in the GitOps repository         *)
(* (internal/gitops/publisher.go, kargo.go, prepared_release.go and        *)
(* internal/domain/release_pipeline.go), as operators on the tree.         *)
(*                                                                         *)
(* An app with one chart has, per environment, values and a target that    *)
(* the environment's ApplicationSet renders; an app composed of several    *)
(* charts has component values and a manifest that the composed root       *)
(* Application renders.  Each app also has platform resources, a Kargo     *)
(* Warehouse, a Stage per environment, promotion policies, the trees of its*)
(* pull request's preview, and a marker per environment that says whether  *)
(* the first release is still to be selected.                              *)
(*                                                                         *)
(* One project, one cluster per environment, charts in the repository, a   *)
(* validator that is not ephemeral, images that Kargo can watch.           *)
(***************************************************************************)
EXTENDS Naturals, FiniteSets

CONSTANTS
    App,      \* names of apps
    NEnv,     \* the stable environments are 1..NEnv in pipeline order, the last is production
    Bound,    \* those with a cluster
    Extends   \* for each name, the names that continue it after a dash

Env     == 1..NEnv
NoEnv   == 0
AppEnvs == App \X Env

ASSUME RepoLayoutAssumption ==
    NEnv \in Nat /\ Bound \subseteq Env /\ Extends \in [App -> SUBSET App]

\* What a publication reads of the app: several charts?  delivered without a
\* pipeline?  the choice to deploy, and the release validation environment.
Specs == [composed : BOOLEAN, direct : BOOLEAN,
          deploy : [Env -> {"default", "on", "off"}], validator : Env \cup {NoEnv}]

Trees == [values : SUBSET AppEnvs, target : SUBSET AppEnvs,
          components : SUBSET AppEnvs, manifest : SUBSET AppEnvs,
          resources : SUBSET AppEnvs,
          prepared : SUBSET AppEnvs, released : SUBSET AppEnvs,
          warehouses : SUBSET App, stages : SUBSET (App \X Env \X (Env \cup {NoEnv})),
          policies : SUBSET (App \X Env \X BOOLEAN),
          previews : SUBSET AppEnvs, composedPreviews : SUBSET AppEnvs]

EmptyTree == [values |-> {}, target |-> {}, components |-> {}, manifest |-> {},
              resources |-> {}, prepared |-> {}, released |-> {},
              warehouses |-> {}, stages |-> {}, policies |-> {},
              previews |-> {}, composedPreviews |-> {}]

In(a, envs) == {a} \X envs

First(envs) == CHOOSE e \in envs : \A f \in envs : e <= f
Last(envs)  == CHOOSE e \in envs : \A f \in envs : f <= e

-----------------------------------------------------------------------------
(* The release pipeline: each environment's source.                        *)

\* The environments of the pipeline.
Chain(spec, envs) == {e \in envs : spec.deploy[e] # "off"}

\* A validator is neither the base nor production, and has both beside it.
ValidPipeline(spec, envs) ==
    spec.validator # NoEnv =>
        /\ ~spec.direct
        /\ Cardinality(Chain(spec, envs)) >= 3
        /\ spec.validator \in Chain(spec, envs) \ {First(Chain(spec, envs)), NEnv}

\* Mutant: environments that are switched off count as sources.
SourceSwitchedOff(spec, envs, e) ==
    LET before == {f \in envs \ {spec.validator} : f < e}
    IN  IF e = spec.validator \/ before = {} THEN NoEnv
        ELSE IF spec.validator # NoEnv /\ Cardinality(before) = 1 THEN spec.validator
        ELSE Last(before)

\* Where releases of e come from: the environment before it, but the second one
\* gets them from the validator; the first and the validator from the Warehouse.
ReleasePipeline(spec, envs, e) ==
    LET before == {f \in Chain(spec, envs) \ {spec.validator} : f < e}
    IN  IF e = spec.validator \/ before = {} THEN NoEnv
        ELSE IF spec.validator # NoEnv /\ Cardinality(before) = 1 THEN spec.validator
        ELSE Last(before)

-----------------------------------------------------------------------------
(* Where a publication deploys.                                            *)

firstDeployEnvs == IF Bound = {} THEN {} ELSE {First(Bound)}

\* The environments that get every build at once.
releaseRootDeployEnvs(spec) ==
    IF spec.validator = NoEnv THEN firstDeployEnvs
    ELSE {e \in Chain(spec, Bound) : ReleasePipeline(spec, Bound, e) = NoEnv}

\* Mutant: the choice of environments is not looked at.
EveryBoundEnv(spec) == Bound

enabledDeployEnvs(spec) ==
    {e \in Bound : \/ spec.deploy[e] = "on"
                   \/ spec.deploy[e] = "default" /\ e \in firstDeployEnvs}

envMaterialized(git, a, e) ==
    <<a, e>> \in git.values \cup git.target \cup git.components \cup git.manifest

promotedDeployEnvs(git, a, spec) ==
    releaseRootDeployEnvs(spec)
        \cup {e \in Chain(spec, Bound) : envMaterialized(git, a, e)}

\* Mutant: the base alone gets every build.
BaseAndMaterialized(git, a, spec) ==
    IF spec.direct THEN enabledDeployEnvs(spec)
    ELSE firstDeployEnvs \cup {e \in Chain(spec, Bound) : envMaterialized(git, a, e)}

deployEnvs(git, a, spec) ==
    IF spec.direct THEN enabledDeployEnvs(spec) ELSE promotedDeployEnvs(git, a, spec)

-----------------------------------------------------------------------------
(* The files of the app.                                                   *)

pruneSingleSourceArtifacts(git, a) ==
    [git EXCEPT !.values = @ \ In(a, Env), !.target = @ \ In(a, Env)]

pruneComposedArtifacts(git, a) ==
    [git EXCEPT !.components = @ \ In(a, Env), !.manifest = @ \ In(a, Env)]

\* Mutant: the request to prepare is lost where there is no marker yet.
MarkerOnly(git, a, envs, prepare) == {e \in envs : <<a, e>> \in git.prepared}

\* The marker wins over the request; without one, the request is written down.
promotionPending(git, a, envs, prepare) ==
    {e \in envs : \/ <<a, e>> \in git.prepared
                  \/ prepare /\ <<a, e>> \notin git.released}

publishAppFiles(git, a, envs) ==
    [git EXCEPT !.values = @ \cup In(a, envs), !.target = @ \cup In(a, envs),
                !.resources = @ \cup In(a, envs)]

publishComposedAppFiles(git, a, envs) ==
    [git EXCEPT !.components = @ \cup In(a, envs), !.manifest = @ \cup In(a, envs),
                !.resources = @ \cup In(a, envs)]

publishEnvFiles(git, a, spec, envs, prepare) ==
    LET pending == promotionPending(git, a, envs, prepare)
        marked  == [git EXCEPT !.prepared = @ \cup In(a, pending),
                               !.released = @ \cup In(a, envs \ pending)]
    IN  IF spec.composed THEN publishComposedAppFiles(marked, a, envs)
        ELSE publishAppFiles(marked, a, envs)

-----------------------------------------------------------------------------
(* Kargo's resources.  Policies and Stage files are found by the app's name*)
(* and a dash, so those of a name that continues it are taken for its own. *)

MergeKargoPromotionPolicies(policies, a, own) ==
    {p \in policies : p[1] \notin {a} \cup Extends[a]} \cup own

\* Kargo promotes by itself to what gets every build.
BuildKargoPromotionPolicies(a, spec) ==
    {<<a, e, ReleasePipeline(spec, Bound, e) = NoEnv>> : e \in Chain(spec, Bound)}

BuildKargoStages(a, spec) ==
    {<<a, e, ReleasePipeline(spec, Bound, e)>> : e \in Chain(spec, Bound)}

publishKargoCRs(git, a, spec) ==
    [git EXCEPT
        !.policies = MergeKargoPromotionPolicies(@, a, BuildKargoPromotionPolicies(a, spec)),
        !.warehouses = @ \cup {a},
        !.stages = {s \in @ : s[1] # a \/ s[2] \notin Chain(spec, Bound)}
                       \cup BuildKargoStages(a, spec)]

cleanupKargoCRs(git, a) ==
    [git EXCEPT !.policies = MergeKargoPromotionPolicies(@, a, {}),
                !.warehouses = @ \ {a},
                !.stages = {s \in @ : s[1] \notin {a} \cup Extends[a]}]

-----------------------------------------------------------------------------
(* The transactions.                                                       *)

\* Mutant: all files of the app go first.
StartsAfresh(git, a, spec) ==
    LET pruned == pruneSingleSourceArtifacts(pruneComposedArtifacts(git, a), a)
        files  == publishEnvFiles(pruned, a, spec, deployEnvs(pruned, a, spec), FALSE)
    IN  IF spec.direct THEN cleanupKargoCRs(files, a) ELSE publishKargoCRs(files, a, spec)

\* PublishApp: the files of the other layout go, then the environments to deploy
\* are determined.  An invalid pipeline fails it.
writeAppTree(git, a, spec) ==
    LET pruned == IF spec.composed THEN pruneSingleSourceArtifacts(git, a)
                  ELSE pruneComposedArtifacts(git, a)
        files  == publishEnvFiles(pruned, a, spec, deployEnvs(pruned, a, spec), FALSE)
    IN  IF spec.direct THEN cleanupKargoCRs(files, a) ELSE publishKargoCRs(files, a, spec)

\* An Application that does not sync, for Kargo to set its images.
PrepareAppEnv(git, a, spec, e) == publishEnvFiles(git, a, spec, {e}, TRUE)

\* Kargo activates a prepared Application along with the image that it writes.
activatePreparedRelease(git, a, e) ==
    [git EXCEPT !.prepared = @ \ {<<a, e>>}, !.released = @ \cup {<<a, e>>}]

\* Mutant: previews of an app with several charts are forgotten.
UnpublishesCharts(git, a) ==
    [git EXCEPT
        !.values = @ \ In(a, Env), !.target = @ \ In(a, Env),
        !.components = @ \ In(a, Env), !.resources = @ \ In(a, Env),
        !.warehouses = @ \ {a}, !.stages = {s \in @ : s[1] # a},
        !.policies = MergeKargoPromotionPolicies(@, a, {}),
        !.previews = @ \ In(a, Env)]

\* Manifests of the composed root, and markers, are not among what goes.
UnpublishApp(git, a) ==
    [git EXCEPT
        !.values = @ \ In(a, Env), !.target = @ \ In(a, Env),
        !.components = @ \ In(a, Env), !.resources = @ \ In(a, Env),
        !.warehouses = @ \ {a}, !.stages = {s \in @ : s[1] # a},
        !.policies = MergeKargoPromotionPolicies(@, a, {}),
        !.previews = @ \ In(a, Env), !.composedPreviews = @ \ In(a, Env)]

RemoveAppEnv(git, a, e) ==
    [git EXCEPT
        !.values = @ \ {<<a, e>>}, !.target = @ \ {<<a, e>>},
        !.components = @ \ {<<a, e>>}, !.resources = @ \ {<<a, e>>},
        !.stages = {s \in @ : s[1] # a \/ s[2] # e}]

\* The preview of an app, under the environment that it is a copy of.
publishPreviewFiles(git, a, base) == [git EXCEPT !.previews = @ \cup {<<a, base>>}]

publishComposedPreviewFiles(git, a, base) ==
    [git EXCEPT !.composedPreviews = @ \cup {<<a, base>>}]

PublishPreview(git, a, spec, base) ==
    IF spec.composed THEN publishComposedPreviewFiles(git, a, base)
    ELSE publishPreviewFiles(git, a, base)

DeletePreview(git, a, base) ==
    [git EXCEPT !.previews = @ \ {<<a, base>>}, !.composedPreviews = @ \ {<<a, base>>}]

-----------------------------------------------------------------------------
\* Argo CD has an Application for the app in the environment.
Rendered(git, a, e) == <<a, e>> \in git.target \cup git.manifest

\* And it runs: it is not a prepared one that Kargo has yet to activate.
Live(git, a, e) == Rendered(git, a, e) /\ <<a, e>> \notin git.prepared
=============================================================================
