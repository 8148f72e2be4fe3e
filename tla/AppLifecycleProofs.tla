--------------------------- MODULE AppLifecycleProofs ---------------------------
(***************************************************************************)
(* What AppLifecycle promises of the repository, for any apps, environments*)
(* and clusters and any number of requests and faults.                     *)
(***************************************************************************)
EXTENDS AppLifecycle, NaturalsInduction, WellFoundedInduction, TLAPS

-----------------------------------------------------------------------------
(* Environments.                                                           *)

\* Some numbers have a least one.
LEMMA LeastNumber ==
    ASSUME NEW numbers \in SUBSET Nat, numbers # {}
    PROVE  \E n \in numbers : \A m \in numbers : n <= m
<1>1. \A less : IsWellFoundedOn(less, Nat) =>
          \E n \in numbers : \A m \in numbers : ~(<<m, n>> \in less)
  BY WFMin
<1>2. PICK n \in numbers : \A m \in numbers : ~(<<m, n>> \in OpToRel(<, Nat))
  BY <1>1, NatLessThanWellFounded, Zenon
<1>3. \A m \in Nat : m < n => <<m, n>> \in OpToRel(<, Nat)
  BY DEF OpToRel
<1>4. \A m \in numbers : ~(m < n)
  BY <1>2, <1>3, Zenon
<1> QED BY <1>4

\* Some environments have a first and a last one.
LEMMA FirstAndLast ==
    ASSUME NEW envs \in SUBSET Env, envs # {}
    PROVE  First(envs) \in envs /\ Last(envs) \in envs
<1>1. envs \subseteq Nat /\ NEnv \in Nat /\ \A e \in envs : e <= NEnv
  BY RepoLayoutAssumption DEF Env
<1>2. \E e \in envs : \A f \in envs : e <= f
  BY <1>1, LeastNumber
<1>3. \E e \in envs : \A f \in envs : f <= e
  <2> DEFINE after == {NEnv - e : e \in envs}
  <2>1. after \in SUBSET Nat /\ after # {}
    <3>1. \A e \in envs : NEnv - e \in Nat
      BY <1>1
    <3> QED BY <3>1
  <2>2. \E n \in after : \A m \in after : n <= m
    <3> HIDE DEF after
    <3> QED BY <2>1, LeastNumber
  <2>3. PICK e \in envs : \A f \in envs : NEnv - e <= NEnv - f
    BY <2>2
  <2> QED BY <1>1, <2>3
<1> QED BY <1>2, <1>3 DEF First, Last

LEMMA PipelineTypes ==
    ASSUME NEW spec \in Specs, NEW envs \in SUBSET Env, NEW e \in Env
    PROVE  /\ Chain(spec, envs) \in SUBSET envs
           /\ ReleasePipeline(spec, envs, e) \in Env \cup {NoEnv}
<1>1. Chain(spec, envs) \in SUBSET envs
  BY DEF Chain
<1> DEFINE before == {f \in Chain(spec, envs) \ {spec.validator} : f < e}
<1>2. before \in SUBSET Env /\ spec.validator \in Env \cup {NoEnv}
  BY <1>1 DEF Specs
<1>3. before # {} => Last(before) \in Env
  <2> HIDE DEF before
  <2> QED BY <1>2, FirstAndLast
<1>4. \/ ReleasePipeline(spec, envs, e) \in {NoEnv, spec.validator}
      \/ before # {} /\ ReleasePipeline(spec, envs, e) = Last(before)
  BY DEF ReleasePipeline
<1> QED BY <1>1, <1>2, <1>3, <1>4

LEMMA DeployTypes ==
    ASSUME NEW spec \in Specs, NEW g, NEW a
    PROVE  /\ enabledDeployEnvs(spec) \in SUBSET Env /\ releaseRootDeployEnvs(spec) \in SUBSET Env
           /\ deployEnvs(g, a, spec) \in SUBSET Env
<1>1. Bound \in SUBSET Env /\ Chain(spec, Bound) \in SUBSET Env
  BY RepoLayoutAssumption DEF Chain
<1>2. firstDeployEnvs \in SUBSET Env
  BY <1>1, FirstAndLast DEF firstDeployEnvs
<1> QED BY <1>1, <1>2 DEF enabledDeployEnvs, releaseRootDeployEnvs, deployEnvs, promotedDeployEnvs

-----------------------------------------------------------------------------
(* What the transactions make of the repository.                           *)

LEMMA Pairs ==
    ASSUME NEW a \in App, NEW envs \in SUBSET Env
    PROVE  /\ In(a, envs) \in SUBSET AppEnvs
           /\ \A b, e : <<b, e>> \in In(a, envs) <=> b = a /\ e \in envs
BY DEF In, AppEnvs

\* Files that a publication of the app to some environments writes.
Files(g, t, a, composed, envs) ==
    /\ t.resources = g.resources \cup In(a, envs)
    /\ IF composed
       THEN /\ t.components = g.components \cup In(a, envs)
            /\ t.manifest = g.manifest \cup In(a, envs)
            /\ t.values = g.values /\ t.target = g.target
       ELSE /\ t.values = g.values \cup In(a, envs)
            /\ t.target = g.target \cup In(a, envs)
            /\ t.components = g.components /\ t.manifest = g.manifest

Markers(g, t, a, pending, envs) ==
    /\ t.prepared = g.prepared \cup In(a, pending)
    /\ t.released = g.released \cup In(a, envs \ pending)

SameKargo(g, t) ==
    t.warehouses = g.warehouses /\ t.stages = g.stages /\ t.policies = g.policies

SamePreviews(g, t) ==
    t.previews = g.previews /\ t.composedPreviews = g.composedPreviews

SameFiles(g, t) ==
    /\ t.values = g.values /\ t.target = g.target /\ t.components = g.components
    /\ t.manifest = g.manifest /\ t.resources = g.resources

SameMarkers(g, t) == t.prepared = g.prepared /\ t.released = g.released

LEMMA EnvFiles ==
    ASSUME NEW g \in Trees, NEW a \in App, NEW spec \in Specs, NEW envs \in SUBSET Env,
           NEW prepare \in BOOLEAN,
           NEW t, t = publishEnvFiles(g, a, spec, envs, prepare)
    PROVE  /\ t \in Trees /\ Files(g, t, a, spec.composed, envs)
           /\ Markers(g, t, a, promotionPending(g, a, envs, prepare), envs)
           /\ SameKargo(g, t) /\ SamePreviews(g, t)
<1>1. PICK pending : pending = promotionPending(g, a, envs, prepare)
  OBVIOUS
<1>2. pending \in SUBSET Env /\ envs \ pending \in SUBSET Env
  BY <1>1 DEF promotionPending
<1>3. PICK m : m = [g EXCEPT !.prepared = @ \cup In(a, pending),
                             !.released = @ \cup In(a, envs \ pending)]
  OBVIOUS
<1>4. /\ m \in Trees /\ Markers(g, m, a, pending, envs)
      /\ SameKargo(g, m) /\ SamePreviews(g, m) /\ SameFiles(g, m)
  <2>1. In(a, pending) \in SUBSET AppEnvs /\ In(a, envs \ pending) \in SUBSET AppEnvs
    BY <1>2, Pairs
  <2>2. g.prepared \in SUBSET AppEnvs /\ g.released \in SUBSET AppEnvs
    BY DEF Trees
  <2>3. m \in Trees
    BY <1>3, <2>1, <2>2 DEF Trees
  <2>4. Markers(g, m, a, pending, envs)
    BY <1>3 DEF Trees, Markers
  <2>5. SameKargo(g, m) /\ SamePreviews(g, m) /\ SameFiles(g, m)
    BY <1>3 DEF Trees, SameKargo, SamePreviews, SameFiles
  <2> QED BY <2>3, <2>4, <2>5
<1>5. t = IF spec.composed THEN publishComposedAppFiles(m, a, envs) ELSE publishAppFiles(m, a, envs)
  BY <1>1, <1>3 DEF publishEnvFiles
<1>6. /\ t \in Trees /\ Files(m, t, a, spec.composed, envs)
      /\ SameMarkers(m, t) /\ SameKargo(m, t) /\ SamePreviews(m, t)
  <2>1. m \in Trees /\ \A s \in SUBSET AppEnvs : s \cup In(a, envs) \in SUBSET AppEnvs
    BY <1>4, Pairs
  <2>2. CASE spec.composed
    <3>1. PICK x, y, z : /\ x = m.components \cup In(a, envs) /\ y = m.manifest \cup In(a, envs)
                         /\ z = m.resources \cup In(a, envs)
      OBVIOUS
    <3>2. t = [m EXCEPT !.components = x, !.manifest = y, !.resources = z]
      BY <1>5, <2>2, <3>1 DEF publishComposedAppFiles
    <3>3. x \in SUBSET AppEnvs /\ y \in SUBSET AppEnvs /\ z \in SUBSET AppEnvs
      BY <2>1, <3>1 DEF Trees
    <3>4. t \in Trees
      <4>1. [m EXCEPT !.components = x, !.manifest = y, !.resources = z] \in Trees
        BY <2>1, <3>3 DEF Trees
      <4> QED BY <3>2, <4>1
    <3> QED BY <2>1, <2>2, <3>1, <3>2, <3>4 DEF Trees, Files, SameMarkers, SameKargo, SamePreviews
  <2>3. CASE ~spec.composed
    <3>1. PICK x, y, z : /\ x = m.values \cup In(a, envs) /\ y = m.target \cup In(a, envs)
                         /\ z = m.resources \cup In(a, envs)
      OBVIOUS
    <3>2. t = [m EXCEPT !.values = x, !.target = y, !.resources = z]
      BY <1>5, <2>3, <3>1 DEF publishAppFiles
    <3>3. x \in SUBSET AppEnvs /\ y \in SUBSET AppEnvs /\ z \in SUBSET AppEnvs
      BY <2>1, <3>1 DEF Trees
    <3>4. t \in Trees
      <4>1. [m EXCEPT !.values = x, !.target = y, !.resources = z] \in Trees
        BY <2>1, <3>3 DEF Trees
      <4> QED BY <3>2, <4>1
    <3> QED BY <2>1, <2>3, <3>1, <3>2, <3>4 DEF Trees, Files, SameMarkers, SameKargo, SamePreviews
  <2> QED BY <2>2, <2>3
<1> QED BY <1>1, <1>4, <1>6 DEF Files, Markers, SameMarkers, SameKargo, SamePreviews, SameFiles

\* The files of the other layout go.
Pruned(g, t, a, composed) ==
    /\ SameMarkers(g, t) /\ SameKargo(g, t) /\ SamePreviews(g, t) /\ t.resources = g.resources
    /\ IF composed
       THEN /\ t.values = g.values \ In(a, Env) /\ t.target = g.target \ In(a, Env)
            /\ t.components = g.components /\ t.manifest = g.manifest
       ELSE /\ t.components = g.components \ In(a, Env) /\ t.manifest = g.manifest \ In(a, Env)
            /\ t.values = g.values /\ t.target = g.target

LEMMA Prunes ==
    ASSUME NEW g \in Trees, NEW a \in App, NEW composed \in BOOLEAN,
           NEW t, t = IF composed THEN pruneSingleSourceArtifacts(g, a)
                      ELSE pruneComposedArtifacts(g, a)
    PROVE  t \in Trees /\ Pruned(g, t, a, composed)
<1>1. CASE composed
  <2>1. PICK x, y : x = g.values \ In(a, Env) /\ y = g.target \ In(a, Env)
    OBVIOUS
  <2>2. t = [g EXCEPT !.values = x, !.target = y]
    BY <1>1, <2>1 DEF pruneSingleSourceArtifacts
  <2>3. x \in SUBSET AppEnvs /\ y \in SUBSET AppEnvs
    BY <2>1 DEF Trees
  <2>4. [g EXCEPT !.values = x, !.target = y] \in Trees
    BY <2>3 DEF Trees
  <2>5. Pruned(g, t, a, composed)
    BY <1>1, <2>1, <2>2 DEF Trees, Pruned, SameMarkers, SameKargo, SamePreviews
  <2> QED BY <2>2, <2>4, <2>5
<1>2. CASE ~composed
  <2>1. PICK x, y : x = g.components \ In(a, Env) /\ y = g.manifest \ In(a, Env)
    OBVIOUS
  <2>2. t = [g EXCEPT !.components = x, !.manifest = y]
    BY <1>2, <2>1 DEF pruneComposedArtifacts
  <2>3. x \in SUBSET AppEnvs /\ y \in SUBSET AppEnvs
    BY <2>1 DEF Trees
  <2>4. [g EXCEPT !.components = x, !.manifest = y] \in Trees
    BY <2>3 DEF Trees
  <2>5. Pruned(g, t, a, composed)
    BY <1>2, <2>1, <2>2 DEF Trees, Pruned, SameMarkers, SameKargo, SamePreviews
  <2> QED BY <2>2, <2>4, <2>5
<1> QED BY <1>1, <1>2

Policies == App \X Env \X BOOLEAN
Stages   == App \X Env \X (Env \cup {NoEnv})

\* The pipeline files of others may go, and those of the app may be any.
OthersKargo(g, t, a) ==
    /\ t.warehouses \subseteq g.warehouses \cup {a}
    /\ \A s \in t.stages : s \in g.stages \/ s[1] = a
    /\ \A p \in t.policies : p \in g.policies \/ p[1] = a

\* None of the app's are left.
NoKargo(t, a) ==
    /\ a \notin t.warehouses
    /\ \A s \in t.stages : s[1] # a
    /\ \A p \in t.policies : p[1] # a

\* The app's own are those of its pipeline.  Another app's publication may take away
\* some of an app whose name continues that of the other.
Piped(g, a, spec) ==
    IF spec.direct THEN NoKargo(g, a)
    ELSE /\ ValidPipeline(spec, Bound)
         /\ \A p \in g.policies : p[1] = a => p \in BuildKargoPromotionPolicies(a, spec)
         /\ OwnName(a) => /\ BuildKargoPromotionPolicies(a, spec) \subseteq g.policies
                          /\ BuildKargoStages(a, spec) \subseteq g.stages

\* Nothing is added to the app's, and with a name of its own nothing is taken away.
KeepsKargo(g, t, a) ==
    /\ a \in t.warehouses => a \in g.warehouses
    /\ \A s \in t.stages : s[1] = a => s \in g.stages
    /\ \A p \in t.policies : p[1] = a => p \in g.policies
    /\ OwnName(a) => /\ \A s \in g.stages : s[1] = a => s \in t.stages
                     /\ \A p \in g.policies : p[1] = a => p \in t.policies

LEMMA KargoTypes ==
    ASSUME NEW a \in App, NEW spec \in Specs
    PROVE  /\ BuildKargoPromotionPolicies(a, spec) \in SUBSET Policies
           /\ BuildKargoStages(a, spec) \in SUBSET Stages
           /\ \A p \in BuildKargoPromotionPolicies(a, spec) : p[1] = a
           /\ \A s \in BuildKargoStages(a, spec) : s[1] = a
<1>1. Chain(spec, Bound) \in SUBSET Env
  BY RepoLayoutAssumption DEF Chain
<1>2. \A e \in Chain(spec, Bound) : ReleasePipeline(spec, Bound, e) \in Env \cup {NoEnv}
  BY <1>1, PipelineTypes, RepoLayoutAssumption
<1>3. \A e \in Chain(spec, Bound) :
          /\ <<a, e, ReleasePipeline(spec, Bound, e) = NoEnv>> \in {p \in Policies : p[1] = a}
          /\ <<a, e, ReleasePipeline(spec, Bound, e)>> \in {s \in Stages : s[1] = a}
  BY <1>1, <1>2 DEF Policies, Stages
<1>4. BuildKargoPromotionPolicies(a, spec) \subseteq {p \in Policies : p[1] = a}
  BY <1>3, Zenon DEF BuildKargoPromotionPolicies
<1>5. BuildKargoStages(a, spec) \subseteq {s \in Stages : s[1] = a}
  BY <1>3, Zenon DEF BuildKargoStages
<1> QED BY <1>4, <1>5

WithKargo(g, w, s, p) == [g EXCEPT !.policies = p, !.warehouses = w, !.stages = s]

LEMMA TreeKargo ==
    ASSUME NEW g \in Trees, NEW w \in SUBSET App, NEW s \in SUBSET Stages, NEW p \in SUBSET Policies,
           NEW t, t = WithKargo(g, w, s, p)
    PROVE  /\ t \in Trees /\ SameFiles(g, t) /\ SameMarkers(g, t) /\ SamePreviews(g, t)
           /\ t.policies = p /\ t.warehouses = w /\ t.stages = s
<1>1. WithKargo(g, w, s, p) \in Trees
  BY DEF Trees, Stages, Policies, WithKargo
<1>2. /\ SameFiles(g, t) /\ SameMarkers(g, t) /\ SamePreviews(g, t)
      /\ t.policies = p /\ t.warehouses = w /\ t.stages = s
  BY DEF Trees, SameFiles, SameMarkers, SamePreviews, WithKargo
<1> QED BY <1>1, <1>2

LEMMA KargoOf ==
    ASSUME NEW g \in Trees
    PROVE  g.warehouses \in SUBSET App /\ g.stages \in SUBSET Stages /\ g.policies \in SUBSET Policies
BY DEF Trees, Stages, Policies

LEMMA KargoFiles ==
    ASSUME NEW g \in Trees, NEW a \in App, NEW spec \in Specs,
           NEW t, t = IF spec.direct THEN cleanupKargoCRs(g, a) ELSE publishKargoCRs(g, a, spec)
    PROVE  /\ t \in Trees /\ SameFiles(g, t) /\ SameMarkers(g, t) /\ SamePreviews(g, t)
           /\ OthersKargo(g, t, a) /\ \A c \in App \ {a} : KeepsKargo(g, t, c)
           /\ spec.direct \/ ValidPipeline(spec, Bound) => Piped(t, a, spec)
           /\ spec.direct => NoKargo(t, a)
<1>1. CASE spec.direct
  <2>1. PICK p, w, s : /\ p = MergeKargoPromotionPolicies(g.policies, a, {})
                       /\ w = g.warehouses \ {a}
                       /\ s = {x \in g.stages : x[1] \notin {a} \cup Extends[a]}
    OBVIOUS
  <2>2. t = WithKargo(g, w, s, p)
    BY <1>1, <2>1 DEF cleanupKargoCRs, WithKargo
  <2>3. p \in SUBSET Policies /\ w \in SUBSET App /\ s \in SUBSET Stages
    BY <2>1, KargoOf DEF MergeKargoPromotionPolicies
  <2>4. /\ t \in Trees /\ SameFiles(g, t) /\ SameMarkers(g, t) /\ SamePreviews(g, t)
        /\ t.policies = p /\ t.warehouses = w /\ t.stages = s
    BY <2>2, <2>3, TreeKargo
  <2>5. OthersKargo(g, t, a) /\ NoKargo(t, a)
    BY <2>1, <2>4 DEF OthersKargo, NoKargo, MergeKargoPromotionPolicies
  <2>6. \A c \in App \ {a} : KeepsKargo(g, t, c)
    BY <2>1, <2>4 DEF KeepsKargo, OwnName, MergeKargoPromotionPolicies
  <2> QED BY <1>1, <2>4, <2>5, <2>6 DEF Piped
<1>2. CASE ~spec.direct
  <2>1. PICK p, w, s :
            /\ p = MergeKargoPromotionPolicies(g.policies, a, BuildKargoPromotionPolicies(a, spec))
            /\ w = g.warehouses \cup {a}
            /\ s = {x \in g.stages : x[1] # a \/ x[2] \notin Chain(spec, Bound)}
                       \cup BuildKargoStages(a, spec)
    OBVIOUS
  <2>2. t = WithKargo(g, w, s, p)
    BY <1>2, <2>1 DEF publishKargoCRs, WithKargo
  <2>3. p \in SUBSET Policies /\ w \in SUBSET App /\ s \in SUBSET Stages
    BY <2>1, KargoOf, KargoTypes DEF MergeKargoPromotionPolicies
  <2>4. /\ t \in Trees /\ SameFiles(g, t) /\ SameMarkers(g, t) /\ SamePreviews(g, t)
        /\ t.policies = p /\ t.warehouses = w /\ t.stages = s
    BY <2>2, <2>3, TreeKargo
  <2>5. OthersKargo(g, t, a)
    BY <2>1, <2>4, KargoTypes DEF OthersKargo, MergeKargoPromotionPolicies
  <2>6. PICK q, x : q = BuildKargoPromotionPolicies(a, spec) /\ x = BuildKargoStages(a, spec)
    OBVIOUS
  <2>7. \A c \in App \ {a} : KeepsKargo(g, t, c)
    <3>1. (\A y \in q : y[1] = a) /\ (\A y \in x : y[1] = a)
      BY <2>6, KargoTypes
    <3> QED BY <2>1, <2>4, <2>6, <3>1 DEF KeepsKargo, OwnName, MergeKargoPromotionPolicies
  <2>8. ValidPipeline(spec, Bound) => Piped(t, a, spec)
    BY <1>2, <2>1, <2>4, <2>6 DEF Piped, MergeKargoPromotionPolicies
  <2> QED BY <1>2, <2>4, <2>5, <2>7, <2>8
<1> QED BY <1>1, <1>2

\* A whole publication.
LEMMA WriteAppTree ==
    ASSUME NEW g \in Trees, NEW a \in App, NEW spec \in Specs,
           NEW t, t = writeAppTree(g, a, spec)
    PROVE  /\ t \in Trees
           /\ \E p \in Trees, envs \in SUBSET Env :
                 /\ envs = deployEnvs(p, a, spec)
                 /\ Pruned(g, p, a, spec.composed)
                 /\ Files(p, t, a, spec.composed, envs)
                 /\ Markers(g, t, a, promotionPending(p, a, envs, FALSE), envs)
           /\ SamePreviews(g, t) /\ OthersKargo(g, t, a)
           /\ \A c \in App \ {a} : KeepsKargo(g, t, c)
           /\ spec.direct \/ ValidPipeline(spec, Bound) => Piped(t, a, spec)
           /\ spec.direct => NoKargo(t, a)
<1>1. spec.composed \in BOOLEAN /\ spec.direct \in BOOLEAN
  BY DEF Specs
<1>2. PICK p : p = IF spec.composed THEN pruneSingleSourceArtifacts(g, a)
                   ELSE pruneComposedArtifacts(g, a)
  OBVIOUS
<1>3. p \in Trees /\ Pruned(g, p, a, spec.composed)
  BY <1>1, <1>2, Prunes
<1>4. PICK envs : envs = deployEnvs(p, a, spec)
  OBVIOUS
<1>5. envs \in SUBSET Env
  BY <1>4, DeployTypes
<1>6. PICK f : f = publishEnvFiles(p, a, spec, envs, FALSE)
  OBVIOUS
<1>7. /\ f \in Trees /\ Files(p, f, a, spec.composed, envs)
      /\ Markers(p, f, a, promotionPending(p, a, envs, FALSE), envs)
      /\ SameKargo(p, f) /\ SamePreviews(p, f)
  BY <1>3, <1>5, <1>6, EnvFiles
<1>8. t = IF spec.direct THEN cleanupKargoCRs(f, a) ELSE publishKargoCRs(f, a, spec)
  BY <1>2, <1>4, <1>6 DEF writeAppTree
<1>9. /\ t \in Trees /\ SameFiles(f, t) /\ SameMarkers(f, t) /\ SamePreviews(f, t)
      /\ OthersKargo(f, t, a) /\ \A c \in App \ {a} : KeepsKargo(f, t, c)
      /\ spec.direct \/ ValidPipeline(spec, Bound) => Piped(t, a, spec)
      /\ spec.direct => NoKargo(t, a)
  BY <1>7, <1>8, KargoFiles
<1>10. Files(p, t, a, spec.composed, envs)
  BY <1>7, <1>9 DEF Files, SameFiles
<1>11. Markers(g, t, a, promotionPending(p, a, envs, FALSE), envs)
  BY <1>3, <1>7, <1>9 DEF Markers, SameMarkers, Pruned
<1>12. SamePreviews(g, t) /\ OthersKargo(g, t, a)
  BY <1>3, <1>7, <1>9 DEF Pruned, SamePreviews, OthersKargo, SameKargo
<1>13. \A c \in App \ {a} : KeepsKargo(g, t, c)
  <2>1. SameKargo(g, f)
    BY <1>3, <1>7 DEF Pruned, SameKargo
  <2> QED BY <1>9, <2>1 DEF KeepsKargo, SameKargo
<1> QED BY <1>3, <1>4, <1>5, <1>9, <1>10, <1>11, <1>12, <1>13

\* An app's files go, but for manifests of the composed root and markers.
Unpublished(g, t, a) ==
    /\ t.values = g.values \ In(a, Env) /\ t.target = g.target \ In(a, Env)
    /\ t.components = g.components \ In(a, Env) /\ t.resources = g.resources \ In(a, Env)
    /\ t.manifest = g.manifest /\ SameMarkers(g, t)
    /\ t.previews = g.previews \ In(a, Env) /\ t.composedPreviews = g.composedPreviews \ In(a, Env)
    /\ OthersKargo(g, t, a) /\ NoKargo(t, a)

LEMMA Unpublishes ==
    ASSUME NEW g \in Trees, NEW a \in App, NEW t, t = UnpublishApp(g, a)
    PROVE  /\ t \in Trees /\ Unpublished(g, t, a)
           /\ \A other \in App \ {a} : KeepsKargo(g, t, other)
<1>1. PICK v, x, c, r, w, s, p, q, d :
          /\ v = g.values \ In(a, Env) /\ x = g.target \ In(a, Env)
          /\ c = g.components \ In(a, Env) /\ r = g.resources \ In(a, Env)
          /\ w = g.warehouses \ {a} /\ s = {y \in g.stages : y[1] # a}
          /\ p = MergeKargoPromotionPolicies(g.policies, a, {})
          /\ q = g.previews \ In(a, Env) /\ d = g.composedPreviews \ In(a, Env)
  BY Zenon
<1>2. t = [g EXCEPT !.values = v, !.target = x, !.components = c, !.resources = r,
                    !.warehouses = w, !.stages = s, !.policies = p, !.previews = q,
                    !.composedPreviews = d]
  BY <1>1 DEF UnpublishApp
<1>3. /\ v \in SUBSET AppEnvs /\ x \in SUBSET AppEnvs /\ c \in SUBSET AppEnvs
      /\ r \in SUBSET AppEnvs /\ q \in SUBSET AppEnvs /\ d \in SUBSET AppEnvs
  BY <1>1 DEF Trees
<1>4. w \in SUBSET App /\ s \in SUBSET Stages /\ p \in SUBSET Policies
  BY <1>1, KargoOf DEF MergeKargoPromotionPolicies
<1>5. [g EXCEPT !.values = v, !.target = x, !.components = c, !.resources = r,
                !.warehouses = w, !.stages = s, !.policies = p, !.previews = q,
                !.composedPreviews = d] \in Trees
  BY <1>3, <1>4 DEF Trees, Stages, Policies
<1>6. /\ t.values = v /\ t.target = x /\ t.components = c /\ t.resources = r
      /\ t.warehouses = w /\ t.stages = s /\ t.policies = p /\ t.previews = q
      /\ t.composedPreviews = d /\ t.manifest = g.manifest /\ SameMarkers(g, t)
  BY <1>2 DEF Trees, SameMarkers
<1>7. OthersKargo(g, t, a) /\ NoKargo(t, a)
  BY <1>1, <1>6 DEF OthersKargo, NoKargo, MergeKargoPromotionPolicies
<1>8. \A other \in App \ {a} : KeepsKargo(g, t, other)
  BY <1>1, <1>6 DEF KeepsKargo, OwnName, MergeKargoPromotionPolicies
<1>9. t \in Trees /\ Unpublished(g, t, a)
  BY <1>1, <1>2, <1>5, <1>6, <1>7 DEF Unpublished
<1> QED BY <1>8, <1>9

\* And from one environment.
Withdrawn(g, t, a, e) ==
    /\ t.values = g.values \ {<<a, e>>} /\ t.target = g.target \ {<<a, e>>}
    /\ t.components = g.components \ {<<a, e>>} /\ t.resources = g.resources \ {<<a, e>>}
    /\ t.manifest = g.manifest /\ SameMarkers(g, t) /\ SamePreviews(g, t)
    /\ OthersKargo(g, t, a)

LEMMA Withdraws ==
    ASSUME NEW g \in Trees, NEW a \in App, NEW e \in Env, NEW t, t = RemoveAppEnv(g, a, e)
    PROVE  /\ t \in Trees /\ Withdrawn(g, t, a, e)
           /\ NoKargo(g, a) => NoKargo(t, a)
           /\ \A other \in App \ {a} : KeepsKargo(g, t, other)
<1>1. PICK v, x, c, r, s :
          /\ v = g.values \ {<<a, e>>} /\ x = g.target \ {<<a, e>>}
          /\ c = g.components \ {<<a, e>>} /\ r = g.resources \ {<<a, e>>}
          /\ s = {y \in g.stages : y[1] # a \/ y[2] # e}
  BY Zenon
<1>2. t = [g EXCEPT !.values = v, !.target = x, !.components = c, !.resources = r, !.stages = s]
  BY <1>1 DEF RemoveAppEnv
<1>3. /\ v \in SUBSET AppEnvs /\ x \in SUBSET AppEnvs /\ c \in SUBSET AppEnvs
      /\ r \in SUBSET AppEnvs /\ s \in SUBSET Stages
  BY <1>1, KargoOf DEF Trees
<1>4. [g EXCEPT !.values = v, !.target = x, !.components = c, !.resources = r, !.stages = s] \in Trees
  BY <1>3 DEF Trees, Stages
<1>5. /\ t.values = v /\ t.target = x /\ t.components = c /\ t.resources = r /\ t.stages = s
      /\ t.warehouses = g.warehouses /\ t.policies = g.policies /\ t.manifest = g.manifest
      /\ SameMarkers(g, t) /\ SamePreviews(g, t)
  BY <1>2 DEF Trees, SameMarkers, SamePreviews
<1>6. NoKargo(g, a) => NoKargo(t, a)
  BY <1>1, <1>5 DEF NoKargo
<1>7. \A other \in App \ {a} : KeepsKargo(g, t, other)
  BY <1>1, <1>5 DEF KeepsKargo
<1>8. t \in Trees /\ Withdrawn(g, t, a, e)
  BY <1>1, <1>2, <1>4, <1>5 DEF Withdrawn, OthersKargo
<1> QED BY <1>6, <1>7, <1>8

WithPreviews(g, q, d) == [g EXCEPT !.previews = q, !.composedPreviews = d]

\* Previews, and the activation of a prepared release, touch nothing else.
LEMMA Previews ==
    ASSUME NEW g \in Trees, NEW a \in App, NEW base \in Env, NEW spec,
           NEW t, t = PublishPreview(g, a, spec, base) \/ t = DeletePreview(g, a, base)
    PROVE  /\ t \in Trees /\ SameFiles(g, t) /\ SameMarkers(g, t) /\ SameKargo(g, t)
           /\ t.previews \subseteq g.previews \cup {<<a, base>>}
           /\ t.composedPreviews \subseteq g.composedPreviews \cup {<<a, base>>}
<1>1. PICK q, d : /\ t = WithPreviews(g, q, d)
                  /\ q \subseteq g.previews \cup {<<a, base>>}
                  /\ d \subseteq g.composedPreviews \cup {<<a, base>>}
  <2>1. CASE t = PublishPreview(g, a, spec, base)
    <3>1. CASE spec.composed
      <4>1. t = WithPreviews(g, g.previews, g.composedPreviews \cup {<<a, base>>})
        BY <2>1, <3>1 DEF PublishPreview, publishComposedPreviewFiles, Trees, WithPreviews
      <4> QED BY <4>1
    <3>2. CASE ~spec.composed
      <4>1. t = WithPreviews(g, g.previews \cup {<<a, base>>}, g.composedPreviews)
        BY <2>1, <3>2 DEF PublishPreview, publishPreviewFiles, Trees, WithPreviews
      <4> QED BY <4>1
    <3> QED BY <3>1, <3>2
  <2>2. CASE t = DeletePreview(g, a, base)
    <3>1. t = WithPreviews(g, g.previews \ {<<a, base>>}, g.composedPreviews \ {<<a, base>>})
      BY <2>2 DEF DeletePreview, WithPreviews
    <3> QED BY <3>1
  <2> QED BY <2>1, <2>2
<1>2. q \in SUBSET AppEnvs /\ d \in SUBSET AppEnvs
  BY <1>1 DEF Trees, AppEnvs
<1>3. WithPreviews(g, q, d) \in Trees
  BY <1>2 DEF Trees, WithPreviews
<1>4. /\ t.previews = q /\ t.composedPreviews = d
      /\ SameFiles(g, t) /\ SameMarkers(g, t) /\ SameKargo(g, t)
  BY <1>1 DEF Trees, SameFiles, SameMarkers, SameKargo, WithPreviews
<1> QED BY <1>1, <1>3, <1>4

LEMMA Activates ==
    ASSUME NEW g \in Trees, NEW a \in App, NEW e \in Env, NEW t, t = activatePreparedRelease(g, a, e)
    PROVE  /\ t \in Trees /\ SameFiles(g, t) /\ SameKargo(g, t) /\ SamePreviews(g, t)
           /\ t.prepared = g.prepared \ {<<a, e>>} /\ t.released = g.released \cup {<<a, e>>}
<1>1. PICK x, y : x = g.prepared \ {<<a, e>>} /\ y = g.released \cup {<<a, e>>}
  OBVIOUS
<1>2. t = [g EXCEPT !.prepared = x, !.released = y]
  BY <1>1 DEF activatePreparedRelease
<1>3. x \in SUBSET AppEnvs /\ y \in SUBSET AppEnvs
  BY <1>1 DEF Trees, AppEnvs
<1>4. [g EXCEPT !.prepared = x, !.released = y] \in Trees
  BY <1>3 DEF Trees
<1>5. /\ t.prepared = x /\ t.released = y
      /\ SameFiles(g, t) /\ SameKargo(g, t) /\ SamePreviews(g, t)
  BY <1>2 DEF Trees, SameFiles, SameKargo, SamePreviews
<1> QED BY <1>1, <1>2, <1>4, <1>5

-----------------------------------------------------------------------------
(* Layouts and releases.  The values of an app are beside its target, and   *)
(* what a marker calls released was.                                        *)

LayoutOf(g, due) ==
    /\ g.values = g.target /\ g.components \subseteq g.manifest
    /\ g.target \cap g.manifest = {}
    /\ g.released \subseteq due
    /\ (g.target \cup g.manifest) \ g.prepared \subseteq due

\* A publication deploys where a release is due and where there are files already.
LEMMA DeployedOrDue ==
    ASSUME NEW p \in Trees, NEW a \in App, NEW spec \in Specs, NEW envs,
           envs = deployEnvs(p, a, spec)
    PROVE  /\ Due(a, spec) \subseteq In(a, envs)
           /\ \A e \in envs : <<a, e>> \in Due(a, spec) \/ envMaterialized(p, a, e)
<1>1. CASE spec.direct
  BY <1>1 DEF deployEnvs, Due, In
<1>2. CASE ~spec.direct
  BY <1>2 DEF deployEnvs, promotedDeployEnvs, Due, In
<1> QED BY <1>1, <1>2

LEMMA LayoutWritten ==
    ASSUME NEW g \in Trees, NEW a \in App, NEW spec \in Specs, NEW due, LayoutOf(g, due),
           NEW t, t = writeAppTree(g, a, spec)
    PROVE  LayoutOf(t, due \cup Due(a, spec))
<1>1. PICK p \in Trees, envs \in SUBSET Env :
          /\ envs = deployEnvs(p, a, spec)
          /\ Pruned(g, p, a, spec.composed)
          /\ Files(p, t, a, spec.composed, envs)
          /\ Markers(g, t, a, promotionPending(p, a, envs, FALSE), envs)
  BY WriteAppTree
<1>2. In(a, envs) \subseteq In(a, Env)
  BY DEF In
<1>3. p.values \cup p.target \cup p.components \cup p.manifest \subseteq g.target \cup g.manifest
  BY <1>1 DEF Pruned, LayoutOf
<1>4. \A e \in envs : <<a, e>> \in Due(a, spec) \/ <<a, e>> \in g.target \cup g.manifest
  BY <1>1, <1>3, DeployedOrDue DEF envMaterialized
<1>5. In(a, envs) \subseteq Due(a, spec) \cup g.target \cup g.manifest
  BY <1>4 DEF In
<1>6. In(a, envs \ promotionPending(p, a, envs, FALSE)) \subseteq In(a, envs) \ g.prepared
  BY <1>1 DEF promotionPending, In, Pruned, SameMarkers
<1>7. g.prepared \subseteq t.prepared /\ t.released \subseteq due \cup Due(a, spec)
  BY <1>1, <1>5, <1>6 DEF Markers, LayoutOf
<1>8. CASE spec.composed
  <2>1. /\ t.values = g.values \ In(a, Env) /\ t.target = g.target \ In(a, Env)
        /\ t.components = g.components \cup In(a, envs) /\ t.manifest = g.manifest \cup In(a, envs)
    BY <1>1, <1>8 DEF Pruned, Files
  <2> QED BY <1>2, <1>5, <1>7, <2>1 DEF LayoutOf
<1>9. CASE ~spec.composed
  <2>1. /\ t.components = g.components \ In(a, Env) /\ t.manifest = g.manifest \ In(a, Env)
        /\ t.values = g.values \cup In(a, envs) /\ t.target = g.target \cup In(a, envs)
    BY <1>1, <1>9 DEF Pruned, Files
  <2> QED BY <1>2, <1>5, <1>7, <2>1 DEF LayoutOf
<1> QED BY <1>8, <1>9

LEMMA LayoutRemoved ==
    ASSUME NEW g \in Trees, NEW a \in App, NEW e \in Env, NEW due, LayoutOf(g, due)
    PROVE  LayoutOf(UnpublishApp(g, a), due) /\ LayoutOf(RemoveAppEnv(g, a, e), due)
<1>1. PICK t : t = UnpublishApp(g, a)
  OBVIOUS
<1>2. Unpublished(g, t, a)
  BY <1>1, Unpublishes
<1>3. LayoutOf(t, due)
  BY <1>2 DEF Unpublished, LayoutOf, SameMarkers
<1>4. PICK u : u = RemoveAppEnv(g, a, e)
  OBVIOUS
<1>5. Withdrawn(g, u, a, e)
  BY <1>4, Withdraws
<1>6. LayoutOf(u, due)
  BY <1>5 DEF Withdrawn, LayoutOf, SameMarkers
<1> QED BY <1>1, <1>3, <1>4, <1>6

LEMMA LayoutPrepared ==
    ASSUME NEW g \in Trees, NEW a \in App, NEW e \in Env, NEW spec \in Specs, NEW due,
           LayoutOf(g, due), ~Rendered(g, a, e),
           NEW t, t = PrepareAppEnv(g, a, spec, e)
    PROVE  t \in Trees /\ LayoutOf(t, due)
<1>1. PICK pending : pending = promotionPending(g, a, {e}, TRUE)
  OBVIOUS
<1>2. /\ t \in Trees /\ Files(g, t, a, spec.composed, {e}) /\ Markers(g, t, a, pending, {e})
  <2>1. t = publishEnvFiles(g, a, spec, {e}, TRUE) /\ {e} \in SUBSET Env
    BY DEF PrepareAppEnv
  <2> QED BY <1>1, <2>1, EnvFiles
<1>3. In(a, {e}) = {<<a, e>>} /\ <<a, e>> \notin g.target \cup g.manifest
  BY DEF In, Rendered
<1>4. \/ pending = {e} /\ In(a, pending) = {<<a, e>>} /\ In(a, {e} \ pending) = {}
      \/ pending = {} /\ In(a, pending) = {} /\ In(a, {e} \ pending) = {<<a, e>>}
         /\ <<a, e>> \in g.released
  BY <1>1, <1>3 DEF promotionPending, In
<1>5. /\ t.released \subseteq due /\ g.prepared \subseteq t.prepared
      /\ <<a, e>> \in t.prepared \/ <<a, e>> \in due
  BY <1>2, <1>4 DEF Markers, LayoutOf
<1>6. \/ t.values = g.values \cup {<<a, e>>} /\ t.target = g.target \cup {<<a, e>>}
         /\ t.components = g.components /\ t.manifest = g.manifest
      \/ t.components = g.components \cup {<<a, e>>} /\ t.manifest = g.manifest \cup {<<a, e>>}
         /\ t.values = g.values /\ t.target = g.target
  BY <1>2, <1>3 DEF Files
<1>7. LayoutOf(t, due)
  BY <1>3, <1>5, <1>6 DEF LayoutOf
<1> QED BY <1>2, <1>7

LEMMA LayoutKept ==
    ASSUME NEW g, NEW t, NEW due, LayoutOf(g, due), SameFiles(g, t), SameMarkers(g, t)
    PROVE  LayoutOf(t, due)
BY DEF LayoutOf, SameFiles, SameMarkers

LEMMA LayoutActivated ==
    ASSUME NEW g \in Trees, NEW a \in App, NEW e \in Env, NEW due, LayoutOf(g, due)
    PROVE  LayoutOf(activatePreparedRelease(g, a, e), due \cup {<<a, e>>})
<1>1. PICK t : t = activatePreparedRelease(g, a, e)
  OBVIOUS
<1>2. SameFiles(g, t) /\ t.prepared = g.prepared \ {<<a, e>>} /\ t.released = g.released \cup {<<a, e>>}
  BY <1>1, Activates
<1>3. LayoutOf(t, due \cup {<<a, e>>})
  BY <1>2 DEF LayoutOf, SameFiles
<1> QED BY <1>1, <1>3

-----------------------------------------------------------------------------
(* The invariant of the requests.                                          *)

LayoutInv == LayoutOf(git, ran \cup stale)

IInv == TypeOK /\ LayoutInv

\* What it says of the repository ...
RepoOK ==
    /\ git \in Trees /\ LayoutInv
    /\ clean \subseteq App /\ left \subseteq App
    /\ ran \subseteq AppEnvs /\ stale \subseteq AppEnvs

\* ... and of the store and the bounds.
StoreOK ==
    /\ app \in [App -> Specs \cup {Absent}] /\ preview \in [App -> Env \cup {NoEnv}]
    /\ queued \subseteq AppEnvs /\ removed \subseteq AppEnvs

BoundsOK == requests \in 0..MaxRequests /\ faults \in 0..MaxFaults

LEMMA Parts == IInv <=> RepoOK /\ StoreOK /\ BoundsOK
BY DEF IInv, TypeOK, RepoOK, StoreOK, BoundsOK

LEMMA PartsAfter == RepoOK' /\ StoreOK' /\ BoundsOK' => IInv'
BY DEF IInv, TypeOK, RepoOK, StoreOK, BoundsOK

LEMMA InitInv == Init => IInv
<1> SUFFICES ASSUME Init PROVE IInv
  OBVIOUS
<1>1. git \in Trees /\ LayoutInv
  BY DEF Init, EmptyTree, Trees, LayoutInv, LayoutOf
<1> QED BY <1>1, AppLifecycleAssumption DEF Init, IInv, TypeOK

LEMMA BoundsKept ==
    ASSUME BoundsOK, Request \/ requests' = requests, Fault \/ faults' = faults
    PROVE  BoundsOK'
BY AppLifecycleAssumption DEF BoundsOK, Request, Fault

LEMMA DueType ==
    ASSUME NEW a \in App, NEW spec \in Specs
    PROVE  Due(a, spec) \subseteq AppEnvs
BY Pairs, DeployTypes DEF Due

LEMMA SpecOf ==
    ASSUME StoreOK, NEW a \in Present
    PROVE  a \in App /\ app[a] \in Specs
BY DEF Present, StoreOK

\* The histories account for the markers and for what runs after a publication.
LEMMA Recorded ==
    ASSUME RepoOK, NEW due, due \subseteq AppEnvs, Records(due),
           git' \in Trees, LayoutOf(git', (ran \cup stale) \cup due)
    PROVE  LayoutInv' /\ ran' \subseteq AppEnvs /\ stale' \subseteq AppEnvs
<1>1. /\ git'.released \subseteq AppEnvs /\ git'.target \subseteq AppEnvs
      /\ git'.manifest \subseteq AppEnvs
  BY DEF Trees
<1>2. /\ ran' = {p \in ran \cup due : p \in git'.target \cup git'.manifest}
      /\ stale' = stale \cup {p \in git'.released : p \notin git'.target \cup git'.manifest}
  <2>1. \A p \in AppEnvs : <<p[1], p[2]>> = p
    BY DEF AppEnvs
  <2>2. ran \cup due \subseteq AppEnvs
    BY DEF RepoOK
  <2> QED BY <1>1, <2>1, <2>2 DEF Records, Rendered
<1>3. ran' \subseteq AppEnvs /\ stale' \subseteq AppEnvs
  BY <1>1, <1>2 DEF RepoOK
<1>4. git'.released \subseteq ran' \cup stale'
  BY <1>2 DEF LayoutOf
<1>5. (git'.target \cup git'.manifest) \ git'.prepared \subseteq ran' \cup stale'
  BY <1>2 DEF LayoutOf
<1> QED BY <1>3, <1>4, <1>5 DEF LayoutOf, LayoutInv

\* A step that writes nothing records nothing.
LEMMA NothingRecorded ==
    ASSUME RepoOK, Unrecorded
    PROVE  /\ git' \in Trees /\ LayoutInv'
           /\ ran' \subseteq AppEnvs /\ stale' \subseteq AppEnvs
BY DEF RepoOK, Unrecorded, LayoutInv

LEMMA Publishes ==
    ASSUME RepoOK, NEW a \in App, NEW spec \in Specs,
           \/ Publish(a, spec) \/ NotPublished(a) \/ Unpublishable(a, spec)
           \/ Unanswered(a, spec) /\ left' \in {left, left \cup {a}}
    PROVE  RepoOK'
<1>1. CASE Publish(a, spec) \/ (Unanswered(a, spec) /\ left' \in {left, left \cup {a}})
  <2>1. git' = writeAppTree(git, a, spec) /\ Records(Due(a, spec))
    BY <1>1 DEF Publish, Unanswered
  <2>2. git' \in Trees /\ LayoutOf(git', (ran \cup stale) \cup Due(a, spec))
    BY <2>1, WriteAppTree, LayoutWritten DEF RepoOK, LayoutInv
  <2>3. LayoutInv' /\ ran' \subseteq AppEnvs /\ stale' \subseteq AppEnvs
    BY <2>1, <2>2, DueType, Recorded
  <2>4. clean' \subseteq App /\ left' \subseteq App
    BY <1>1 DEF Publish, Unanswered, RepoOK
  <2> QED BY <2>2, <2>3, <2>4 DEF RepoOK
<1>2. CASE NotPublished(a) \/ Unpublishable(a, spec)
  <2>1. clean' \subseteq App /\ left' \subseteq App /\ Unrecorded
    BY <1>2 DEF NotPublished, Unpublishable, RepoOK
  <2> QED BY <2>1, NothingRecorded DEF RepoOK
<1> QED BY <1>1, <1>2

LEMMA UnpublishesApp ==
    ASSUME RepoOK, NEW a \in App, Unpublish(a)
    PROVE  RepoOK'
<1>1. git' \in Trees /\ LayoutOf(git', (ran \cup stale) \cup {})
  <2>1. Unpublished(git, git', a) /\ git' \in Trees
    BY Unpublishes DEF Unpublish, RepoOK
  <2> QED BY <2>1 DEF Unpublished, LayoutOf, SameMarkers, RepoOK, LayoutInv
<1>2. LayoutInv' /\ ran' \subseteq AppEnvs /\ stale' \subseteq AppEnvs
  BY <1>1, Recorded DEF Unpublish
<1> QED BY <1>1, <1>2 DEF Unpublish, RepoOK

LEMMA CreateInv ==
    ASSUME IInv, NEW a \in App, NEW spec \in Initial, handleCreateApp(a, spec)
    PROVE  IInv'
<1>1. spec \in Specs
  BY AppLifecycleAssumption
<1>2. RepoOK'
  BY <1>1, Publishes, Parts DEF handleCreateApp
<1>3. StoreOK'
  BY <1>1, Parts DEF handleCreateApp, StoreOK
<1>4. BoundsOK'
  BY BoundsKept, Parts DEF handleCreateApp, NotPublished, Unpublishable
<1> QED BY <1>2, <1>3, <1>4, PartsAfter

LEMMA EditTypes ==
    ASSUME NEW spec \in Specs, NEW new \in Edits(spec)
    PROVE  /\ new \in Specs
           /\ \A deploy \in [Env -> {"default", "on", "off"}] : RolledBack(spec, new, deploy) \in Specs
           /\ new.deploy \in [Env -> {"default", "on", "off"}]
<1>1. /\ spec \in Specs
      /\ [spec EXCEPT !.composed = ~@] \in Specs /\ [spec EXCEPT !.direct = ~@] \in Specs
      /\ \A v \in Env \cup {NoEnv} : [spec EXCEPT !.validator = v] \in Specs
  BY DEF Specs
<1>2. ASSUME NEW e \in Env, NEW d \in {"on", "off"}
      PROVE  [spec EXCEPT !.deploy[e] = d] \in Specs
  BY DEF Specs
<1>3. new \in Specs
  <2>1. ASSUME NEW e \in Env
        PROVE  {[spec EXCEPT !.deploy[e] = d] : d \in {"on", "off"}} \subseteq Specs
    BY <1>2, <2>1
  <2>4. (UNION {{[spec EXCEPT !.deploy[e] = d] : d \in {"on", "off"}} : e \in Env}) \subseteq Specs
    <3>1. ASSUME NEW S \in {{[spec EXCEPT !.deploy[e] = d] : d \in {"on", "off"}} : e \in Env}
          PROVE  S \subseteq Specs
      <4>1. PICK e \in Env : S = {[spec EXCEPT !.deploy[e] = d] : d \in {"on", "off"}}
        BY <3>1, Zenon
      <4> QED BY <2>1, <4>1, Zenon
    <3> QED BY <3>1, Zenon
  <2>2. {[spec EXCEPT !.validator = v] : v \in Env \cup {NoEnv}} \subseteq Specs
    BY <1>1
  <2>3. {spec, [spec EXCEPT !.composed = ~@], [spec EXCEPT !.direct = ~@]} \subseteq Specs
    BY <1>1
  <2> QED BY <2>4, <2>2, <2>3, Zenon DEF Edits
<1> QED BY <1>3 DEF Specs, RolledBack

LEMMA UpdateInv ==
    ASSUME IInv, NEW a \in Present, NEW new \in Edits(app[a]), handleUpdateApp(a, new)
    PROVE  IInv'
<1>1. /\ a \in App /\ app[a] \in Specs /\ new \in Specs
      /\ app \in [App -> Specs \cup {Absent}]
  BY SpecOf, EditTypes, Parts DEF StoreOK
<1>2. \/ Publish(a, new) \/ NotPublished(a) \/ Unpublishable(a, new)
      \/ Unanswered(a, new) /\ left' = left
  BY DEF handleUpdateApp
<1>3. RepoOK'
  BY <1>1, <1>2, Publishes, Parts
<1>4. PICK saved \in Specs : app' = [app EXCEPT ![a] = saved]
  <2>1. app[a].deploy \in [Env -> {"default", "on", "off"}]
    BY <1>1 DEF Specs
  <2> QED BY <1>1, <2>1, EditTypes DEF handleUpdateApp
<1>5. StoreOK'
  <2>1. app' \in [App -> Specs \cup {Absent}]
    BY <1>1, <1>4
  <2> QED BY <2>1, Parts DEF handleUpdateApp, StoreOK
<1>6. BoundsOK'
  BY <1>2, BoundsKept, Parts DEF handleUpdateApp, NotPublished, Unpublishable, Unanswered
<1> QED BY <1>3, <1>5, <1>6, PartsAfter

LEMMA SyncInv ==
    ASSUME IInv, NEW a \in Present, handleSyncApp(a)
    PROVE  IInv'
<1>1. RepoOK'
  BY SpecOf, Publishes, Parts DEF handleSyncApp
<1>2. StoreOK' /\ BoundsOK'
  BY BoundsKept, Parts DEF handleSyncApp, StoreOK
<1> QED BY <1>1, <1>2, PartsAfter

LEMMA DeleteInv ==
    ASSUME IInv, NEW a \in Present, handleDeleteApp(a)
    PROVE  IInv'
<1>1. a \in App
  BY DEF Present
<1>2. RepoOK'
  <2>1. CASE Unpublish(a)
    BY <1>1, <2>1, UnpublishesApp, Parts
  <2>2. CASE left' = left \cup {a} /\ clean' = clean \ {a} /\ Unrecorded
    <3>1. left' \subseteq App /\ clean' \subseteq App
      BY <1>1, <2>2, Parts DEF RepoOK
    <3> QED BY <2>2, <3>1, NothingRecorded, Parts DEF RepoOK
  <2> QED BY <2>1, <2>2 DEF handleDeleteApp
<1>3. StoreOK'
  BY <1>1, Parts DEF handleDeleteApp, StoreOK
<1>4. BoundsOK'
  BY BoundsKept, Parts DEF handleDeleteApp
<1> QED BY <1>2, <1>3, <1>4, PartsAfter

LEMMA CopyInv ==
    ASSUME IInv, NEW a \in Present, NEW b \in App, copyAppAs(a, b)
    PROVE  IInv'
<1>1. app[a] \in Specs
  BY SpecOf, Parts
<1>2. RepoOK'
  BY <1>1, Publishes, Parts DEF copyAppAs
<1>3. StoreOK'
  BY <1>1, Parts DEF copyAppAs, StoreOK
<1>4. BoundsOK'
  BY BoundsKept, Parts DEF copyAppAs, NotPublished, Unanswered
<1> QED BY <1>2, <1>3, <1>4, PartsAfter

LEMMA RenameInv ==
    ASSUME IInv, NEW a \in Present, NEW b \in App, handleRenameApp(a, b)
    PROVE  IInv'
<1>1. a \in App /\ app[a] \in Specs /\ RepoOK /\ StoreOK
  BY SpecOf, Parts
<1>2. PICK published : published = writeAppTree(git, b, app[a])
  OBVIOUS
<1>3. published \in Trees /\ LayoutOf(published, (ran \cup stale) \cup Due(b, app[a]))
  BY <1>1, <1>2, WriteAppTree, LayoutWritten DEF RepoOK, LayoutInv
<1>4. PICK gone : gone = UnpublishApp(published, a)
  OBVIOUS
<1>5. gone \in Trees /\ LayoutOf(gone, (ran \cup stale) \cup Due(b, app[a]))
  <2>1. gone \in Trees /\ Unpublished(published, gone, a)
    BY <1>1, <1>3, <1>4, Unpublishes
  <2> QED BY <1>3, <2>1 DEF Unpublished, LayoutOf, SameMarkers
<1>6. \/ NotPublished(b) \/ Publish(b, app[a])
      \/ Unanswered(b, app[a]) /\ left' = left \cup {b}
      \/ /\ git' \in {published, gone} /\ Records(Due(b, app[a]))
         /\ clean' = (clean \cup {b}) \ {a}
         /\ left' \in {left \ {a, b}, (left \cup {a}) \ {b}}
  BY <1>2, <1>4, Zenon DEF handleRenameApp
<1>7. RepoOK'
  <2>1. CASE \/ NotPublished(b) \/ Publish(b, app[a])
             \/ Unanswered(b, app[a]) /\ left' = left \cup {b}
    BY <1>1, <2>1, Publishes
  <2>2. CASE /\ git' \in {published, gone} /\ Records(Due(b, app[a]))
             /\ clean' = (clean \cup {b}) \ {a}
             /\ left' \in {left \ {a, b}, (left \cup {a}) \ {b}}
    <3>1. LayoutOf(git', (ran \cup stale) \cup Due(b, app[a])) /\ git' \in Trees
      BY <1>3, <1>5, <2>2
    <3>2. LayoutInv' /\ ran' \subseteq AppEnvs /\ stale' \subseteq AppEnvs
      BY <1>1, <2>2, <3>1, DueType, Recorded
    <3>3. clean' \subseteq App /\ left' \subseteq App
      BY <1>1, <2>2 DEF RepoOK
    <3> QED BY <3>1, <3>2, <3>3 DEF RepoOK
  <2> QED BY <1>6, <2>1, <2>2
<1>8. StoreOK'
  <2>1. /\ \/ app' = [app EXCEPT ![b] = app[a]]
           \/ app' = [[app EXCEPT ![b] = app[a]] EXCEPT ![a] = Absent]
           \/ app' = app
        /\ \/ preview' = preview
           \/ preview' = [preview EXCEPT ![b] = preview[a]]
           \/ preview' = [preview EXCEPT ![b] = preview[a], ![a] = NoEnv]
        /\ removed' \subseteq removed /\ UNCHANGED queued
    BY DEF handleRenameApp
  <2>2. app' \in [App -> Specs \cup {Absent}]
    BY <1>1, <2>1 DEF StoreOK
  <2>3. preview' \in [App -> Env \cup {NoEnv}]
    BY <1>1, <2>1 DEF StoreOK
  <2> QED BY <1>1, <2>1, <2>2, <2>3 DEF StoreOK
<1>9. BoundsOK'
  BY BoundsKept, Parts DEF handleRenameApp, NotPublished, Unanswered
<1> QED BY <1>7, <1>8, <1>9, PartsAfter

LEMMA UndeployInv ==
    ASSUME IInv, NEW a \in Present, NEW e \in Env, handleUndeployAppEnv(a, e)
    PROVE  IInv'
<1>1. a \in App /\ app[a] \in Specs /\ RepoOK /\ StoreOK
  BY SpecOf, Parts
<1>2. PICK saved : saved = [app EXCEPT ![a].deploy[e] = "off"]
  OBVIOUS
<1>3. saved[a] \in Specs /\ saved \in [App -> Specs \cup {Absent}]
  <2>1. [app[a] EXCEPT !.deploy[e] = "off"] \in Specs
    BY <1>1 DEF Specs
  <2>2. saved = [app EXCEPT ![a] = [app[a] EXCEPT !.deploy[e] = "off"]]
    BY <1>1, <1>2 DEF StoreOK
  <2> QED BY <1>1, <2>1, <2>2 DEF StoreOK
<1>4. PICK without : without = RemoveAppEnv(git, a, e)
  OBVIOUS
<1>5. without \in Trees /\ LayoutOf(without, ran \cup stale)
  BY <1>1, <1>4, Withdraws, LayoutRemoved DEF RepoOK, LayoutInv
<1>6. PICK rebuilt : rebuilt = writeAppTree(without, a, saved[a])
  OBVIOUS
<1>7. rebuilt \in Trees /\ LayoutOf(rebuilt, (ran \cup stale) \cup Due(a, saved[a]))
  BY <1>1, <1>3, <1>5, <1>6, WriteAppTree, LayoutWritten
<1>8. \/ NotPublished(a)
      \/ /\ \/ git' = without /\ Records({})
            \/ git' = rebuilt /\ Records(Due(a, saved[a]))
         /\ clean' \in {clean, clean \cup {a}, clean \ {a}} /\ left' \in {left, left \ {a}}
  BY <1>2, <1>4, <1>6 DEF handleUndeployAppEnv
<1>9. RepoOK'
  <2>1. CASE NotPublished(a)
    BY <1>1, <2>1, Publishes
  <2>2. CASE ~NotPublished(a)
    <3>1. PICK due : /\ due \in {{}, Due(a, saved[a])} /\ Records(due)
                     /\ git' \in Trees /\ LayoutOf(git', (ran \cup stale) \cup due)
      <4>1. LayoutOf(without, (ran \cup stale) \cup {})
        BY <1>5 DEF LayoutOf
      <4> QED BY <1>5, <1>7, <1>8, <2>2, <4>1
    <3>2. due \subseteq AppEnvs
      BY <1>1, <1>3, <3>1, DueType
    <3>3. LayoutInv' /\ ran' \subseteq AppEnvs /\ stale' \subseteq AppEnvs
      BY <1>1, <3>1, <3>2, Recorded
    <3>4. clean' \subseteq App /\ left' \subseteq App
      BY <1>1, <1>8, <2>2 DEF RepoOK
    <3> QED BY <3>1, <3>3, <3>4 DEF RepoOK
  <2> QED BY <2>1, <2>2
<1>10. StoreOK'
  <2>1. app' = saved /\ UNCHANGED <<preview, queued>>
        /\ removed' \subseteq removed \cup {<<a, e>>}
    BY <1>2 DEF handleUndeployAppEnv
  <2> QED BY <1>1, <1>3, <2>1 DEF StoreOK, AppEnvs
<1>11. BoundsOK'
  BY BoundsKept, Parts DEF handleUndeployAppEnv, NotPublished
<1> QED BY <1>9, <1>10, <1>11, PartsAfter

LEMMA PromoteInv ==
    ASSUME IInv, NEW a \in Present, NEW e \in Env, promoteAppEnv(a, e)
    PROVE  IInv'
<1>1. a \in App /\ app[a] \in Specs /\ RepoOK /\ StoreOK
  BY SpecOf, Parts
<1>2. \/ Unrecorded
      \/ ~Rendered(git, a, e) /\ git' = PrepareAppEnv(git, a, app[a], e) /\ Records({})
  BY DEF promoteAppEnv
<1>3. git' \in Trees /\ LayoutInv' /\ ran' \subseteq AppEnvs /\ stale' \subseteq AppEnvs
  <2>1. CASE Unrecorded
    BY <1>1, <2>1, NothingRecorded
  <2>2. CASE ~Rendered(git, a, e) /\ git' = PrepareAppEnv(git, a, app[a], e) /\ Records({})
    <3>1. git' \in Trees /\ LayoutOf(git', ran \cup stale)
      BY <1>1, <2>2, LayoutPrepared DEF RepoOK, LayoutInv
    <3>2. LayoutOf(git', (ran \cup stale) \cup {})
      BY <3>1 DEF LayoutOf
    <3> QED BY <1>1, <2>2, <3>1, <3>2, Recorded
  <2> QED BY <1>2, <2>1, <2>2
<1>4. RepoOK'
  BY <1>1, <1>3 DEF promoteAppEnv, RepoOK
<1>5. StoreOK'
  BY <1>1 DEF promoteAppEnv, StoreOK, AppEnvs
<1>6. BoundsOK'
  BY BoundsKept, Parts DEF promoteAppEnv
<1> QED BY <1>4, <1>5, <1>6, PartsAfter

LEMMA PreviewInv ==
    ASSUME IInv, NEW a \in Present,
           (\E base \in Bases : upsertAppPreview(a, base)) \/ handleDeleteAppPreview(a)
    PROVE  IInv'
<1>1. a \in App /\ RepoOK /\ StoreOK /\ Bases \subseteq Env
  BY SpecOf, Parts, AppLifecycleAssumption
<1>2. git' \in Trees /\ LayoutOf(git', ran \cup stale)
  <2>1. \/ UNCHANGED git
        \/ \E base \in Env : git' = PublishPreview(git, a, app[a], base) \/ git' = DeletePreview(git, a, base)
    BY <1>1 DEF upsertAppPreview, handleDeleteAppPreview, StoreOK
  <2>2. ASSUME NEW base \in Env,
               git' = PublishPreview(git, a, app[a], base) \/ git' = DeletePreview(git, a, base)
        PROVE  git' \in Trees /\ SameFiles(git, git') /\ SameMarkers(git, git')
    BY <1>1, <2>2, Previews DEF RepoOK
  <2> QED BY <1>1, <2>1, <2>2, LayoutKept DEF RepoOK, LayoutInv
<1>3. RepoOK'
  BY <1>1, <1>2 DEF upsertAppPreview, handleDeleteAppPreview, RepoOK, LayoutInv
<1>4. StoreOK'
  BY <1>1 DEF upsertAppPreview, handleDeleteAppPreview, StoreOK
<1>5. BoundsOK'
  BY BoundsKept, Parts DEF upsertAppPreview, handleDeleteAppPreview
<1> QED BY <1>3, <1>4, <1>5, PartsAfter

LEMMA KargoInv ==
    ASSUME IInv, NEW a \in App, NEW e \in Env, KargoPromotes(a, e)
    PROVE  IInv'
<1>1. RepoOK /\ StoreOK
  BY Parts
<1>2. RepoOK'
  <2>1. CASE git' = activatePreparedRelease(git, a, e) /\ Records({<<a, e>>})
    <3>1. git' \in Trees /\ LayoutOf(git', (ran \cup stale) \cup {<<a, e>>})
      BY <1>1, <2>1, Activates, LayoutActivated DEF RepoOK, LayoutInv
    <3>2. {<<a, e>>} \subseteq AppEnvs
      BY DEF AppEnvs
    <3>3. LayoutInv' /\ ran' \subseteq AppEnvs /\ stale' \subseteq AppEnvs
      BY <1>1, <2>1, <3>1, <3>2, Recorded
    <3> QED BY <1>1, <3>1, <3>3 DEF KargoPromotes, RepoOK
  <2>2. CASE Unrecorded
    BY <1>1, <2>2, NothingRecorded DEF KargoPromotes, RepoOK
  <2> QED BY <2>1, <2>2 DEF KargoPromotes
<1>3. StoreOK' /\ BoundsOK'
  BY Parts DEF KargoPromotes, StoreOK, BoundsOK
<1> QED BY <1>2, <1>3, PartsAfter

LEMMA NextInv == IInv /\ [Next]_vars => IInv'
<1> SUFFICES ASSUME IInv, [Next]_vars PROVE IInv'
  OBVIOUS
<1>1. CASE UNCHANGED vars
  BY <1>1 DEF IInv, TypeOK, LayoutInv, vars
<1>2. CASE Next
  BY <1>2, CreateInv, CopyInv, RenameInv, UpdateInv, SyncInv, DeleteInv, UndeployInv, PromoteInv,
     PreviewInv, KargoInv DEF Next
<1> QED BY <1>1, <1>2

\* The files of the apps are laid out as they should be, and types are right.
THEOREM AppLifecycleInvariance == Spec => []IInv
BY InitInv, NextInv, PTL DEF Spec

\* Every state is well typed.
THEOREM TypeCorrect == Spec => []TypeOK
BY AppLifecycleInvariance, PTL DEF IInv

\* No app is rendered twice in an environment.
THEOREM OneLayoutAlways == Spec => []OneLayout
<1>1. IInv => OneLayout
  BY DEF IInv, LayoutInv, LayoutOf, OneLayout
<1> QED BY <1>1, AppLifecycleInvariance, PTL

\* An environment runs an app only where a release was due since the app was put
\* there, or where the marker of an earlier stay was left behind.
THEOREM OnlyReleasedRunsAlways == Spec => []OnlyReleasedRuns
<1>1. IInv => OnlyReleasedRuns
  BY DEF IInv, LayoutInv, LayoutOf, OnlyReleasedRuns, Live, Rendered
<1> QED BY <1>1, AppLifecycleInvariance, PTL

-----------------------------------------------------------------------------
(* Deleted apps.                                                           *)

\* The repository has nothing of the app but manifests and markers.
Gone(g, a) ==
    /\ \A e \in Env : <<a, e>> \notin g.values \cup g.target \cup g.components
                            \cup g.resources \cup g.previews \cup g.composedPreviews
    /\ NoKargo(g, a)

LEMMA DeletedAreGone ==
    DeletedLeavesNothing <=> \A a \in App : app[a] = Absent /\ a \notin left => Gone(git, a)
BY Zenon DEF DeletedLeavesNothing, Gone, NoKargo

LEMMA DeletedAreGoneAfter ==
    (\A a \in App : app'[a] = Absent /\ a \notin left' => Gone(git', a)) => DeletedLeavesNothing'
BY Zenon DEF DeletedLeavesNothing, Gone, NoKargo

LEMMA SpecNotAbsent == Absent \notin Specs
<1> SUFFICES ASSUME Absent \in Specs PROVE FALSE
  OBVIOUS
<1>1. DOMAIN Absent = {"absent"} /\ "composed" \in DOMAIN Absent
  BY DEF Absent, Specs
<1> QED BY <1>1

\* What an operation on one app does to the repository, it does to that app.
LEMMA WritesItsOwn ==
    ASSUME NEW g \in Trees, NEW a \in App, NEW spec \in Specs, NEW c \in App \ {a}, Gone(g, c)
    PROVE  Gone(writeAppTree(g, a, spec), c)
<1>1. PICK t : t = writeAppTree(g, a, spec)
  OBVIOUS
<1>2. PICK p \in Trees, envs \in SUBSET Env :
          Pruned(g, p, a, spec.composed) /\ Files(p, t, a, spec.composed, envs)
  BY <1>1, WriteAppTree
<1>3. SamePreviews(g, t) /\ OthersKargo(g, t, a)
  BY <1>1, WriteAppTree
<1>4. /\ t.values \subseteq g.values \cup In(a, envs) /\ t.target \subseteq g.target \cup In(a, envs)
      /\ t.components \subseteq g.components \cup In(a, envs)
      /\ t.resources \subseteq g.resources \cup In(a, envs)
  BY <1>2 DEF Pruned, Files
<1>5. \A e \in Env : <<c, e>> \notin In(a, envs)
  BY DEF In
<1>6. NoKargo(t, c)
  BY <1>3 DEF OthersKargo, NoKargo, Gone
<1>7. Gone(t, c)
  BY <1>3, <1>4, <1>5, <1>6 DEF Gone, SamePreviews
<1> QED BY <1>1, <1>7

LEMMA UnpublishesItsOwn ==
    ASSUME NEW g \in Trees, NEW a \in App
    PROVE  /\ Gone(UnpublishApp(g, a), a)
           /\ \A c \in App : Gone(g, c) => Gone(UnpublishApp(g, a), c)
<1>1. PICK t : t = UnpublishApp(g, a)
  OBVIOUS
<1>2. Unpublished(g, t, a)
  BY <1>1, Unpublishes
<1>3. \A e \in Env : <<a, e>> \in In(a, Env)
  BY DEF In
<1>4. Gone(t, a)
  BY <1>2, <1>3 DEF Unpublished, Gone
<1>5. ASSUME NEW c \in App, Gone(g, c) PROVE Gone(t, c)
  <2>1. NoKargo(t, c)
    BY <1>2, <1>5 DEF Unpublished, OthersKargo, NoKargo, Gone
  <2> QED BY <1>2, <1>5, <2>1 DEF Unpublished, Gone
<1> QED BY <1>1, <1>4, <1>5

LEMMA WithdrawsItsOwn ==
    ASSUME NEW g \in Trees, NEW a \in App, NEW e \in Env, NEW c \in App \ {a}, Gone(g, c)
    PROVE  Gone(RemoveAppEnv(g, a, e), c)
<1>1. PICK t : t = RemoveAppEnv(g, a, e)
  OBVIOUS
<1>2. Withdrawn(g, t, a, e)
  BY <1>1, Withdraws
<1>3. NoKargo(t, c)
  BY <1>2 DEF Withdrawn, OthersKargo, NoKargo, Gone
<1>4. Gone(t, c)
  BY <1>2, <1>3 DEF Withdrawn, SamePreviews, Gone
<1> QED BY <1>1, <1>4

LEMMA PreparesItsOwn ==
    ASSUME NEW g \in Trees, NEW a \in App, NEW e \in Env, NEW spec \in Specs,
           NEW c \in App \ {a}, Gone(g, c)
    PROVE  Gone(PrepareAppEnv(g, a, spec, e), c)
<1>1. PICK t : t = PrepareAppEnv(g, a, spec, e)
  OBVIOUS
<1>2. Files(g, t, a, spec.composed, {e}) /\ SameKargo(g, t) /\ SamePreviews(g, t)
  <2>1. t = publishEnvFiles(g, a, spec, {e}, TRUE) /\ {e} \in SUBSET Env
    BY <1>1 DEF PrepareAppEnv
  <2> QED BY <2>1, EnvFiles
<1>3. \A f \in Env : <<c, f>> \notin In(a, {e})
  BY DEF In
<1>4. Gone(t, c)
  BY <1>2, <1>3 DEF Files, SameKargo, SamePreviews, NoKargo, Gone
<1> QED BY <1>1, <1>4

LEMMA PreviewsItsOwn ==
    ASSUME NEW g \in Trees, NEW a \in App, NEW base \in Env, NEW spec,
           NEW t, t = PublishPreview(g, a, spec, base) \/ t = DeletePreview(g, a, base),
           NEW c \in App \ {a}, Gone(g, c)
    PROVE  Gone(t, c)
<1>1. /\ SameFiles(g, t) /\ SameKargo(g, t)
      /\ t.previews \subseteq g.previews \cup {<<a, base>>}
      /\ t.composedPreviews \subseteq g.composedPreviews \cup {<<a, base>>}
  BY Previews
<1> QED BY <1>1 DEF SameFiles, SameKargo, NoKargo, Gone

\* A step that writes for some apps keeps the others gone.
LEMMA OnlyThese ==
    ASSUME DeletedLeavesNothing, NEW written,
           \A c \in App \ written :
               (Gone(git, c) => Gone(git', c)) /\ app'[c] = app[c] /\ (c \in left => c \in left'),
           \A c \in App \cap written : app'[c] # Absent \/ c \in left' \/ Gone(git', c)
    PROVE  DeletedLeavesNothing'
<1>1. \A a \in App : app[a] = Absent /\ a \notin left => Gone(git, a)
  BY DeletedAreGone
<1>2. \A a \in App : app'[a] = Absent /\ a \notin left' => Gone(git', a)
  BY <1>1, Zenon
<1> QED BY <1>2, DeletedAreGoneAfter

\* A publication, tried or not, for an app that is saved.
LEMMA PublicationLeaves ==
    ASSUME IInv, DeletedLeavesNothing, NEW a \in App, NEW spec \in Specs, NEW saved \in Specs,
           \/ Publish(a, spec) \/ NotPublished(a) \/ Unpublishable(a, spec)
           \/ Unanswered(a, spec) /\ left' = left,
           app' = [app EXCEPT ![a] = saved]
    PROVE  DeletedLeavesNothing'
<1>1. git \in Trees /\ app \in [App -> Specs \cup {Absent}]
  BY DEF IInv, TypeOK
<1>2. /\ git' = writeAppTree(git, a, spec) \/ git' = git
      /\ left' = left \ {a} \/ left' = left
  BY DEF Publish, NotPublished, Unpublishable, Unanswered, Unrecorded
<1>3. \A c \in App \ {a} :
          (Gone(git, c) => Gone(git', c)) /\ app'[c] = app[c] /\ (c \in left => c \in left')
  BY <1>1, <1>2, WritesItsOwn
<1>4. app'[a] # Absent
  BY <1>1, SpecNotAbsent
<1> QED BY <1>3, <1>4, OnlyThese

\* One whose answer was lost, for an app that is not saved in the end.
LEMMA TakenBackLeaves ==
    ASSUME IInv, DeletedLeavesNothing, NEW a \in App, NEW spec \in Specs,
           Unanswered(a, spec), left' = left \cup {a}, app' = app
    PROVE  DeletedLeavesNothing'
<1>1. git \in Trees /\ git' = writeAppTree(git, a, spec)
  BY DEF IInv, TypeOK, Unanswered
<1>2. \A c \in App \ {a} :
          (Gone(git, c) => Gone(git', c)) /\ app'[c] = app[c] /\ (c \in left => c \in left')
  BY <1>1, WritesItsOwn
<1> QED BY <1>2, OnlyThese

LEMMA PublishersLeave ==
    ASSUME IInv, DeletedLeavesNothing, NEW a \in App,
           \/ \E spec \in Initial : handleCreateApp(a, spec)
           \/ \E b \in Present : copyAppAs(b, a)
           \/ a \in Present /\ \E new \in Edits(app[a]) : handleUpdateApp(a, new)
           \/ a \in Present /\ handleSyncApp(a)
    PROVE  DeletedLeavesNothing'
<1>1. CASE \E spec \in Initial : handleCreateApp(a, spec)
  BY <1>1, AppLifecycleAssumption, PublicationLeaves DEF handleCreateApp
<1>2. CASE \E b \in Present : copyAppAs(b, a)
  <2>1. PICK b \in Present : copyAppAs(b, a)
    BY <1>2
  <2>2. app[b] \in Specs
    BY SpecOf, Parts
  <2>3. \/ /\ app' = [app EXCEPT ![a] = app[b]]
           /\ Publish(a, app[b]) \/ NotPublished(a)
        \/ Unanswered(a, app[b]) /\ left' = left \cup {a} /\ app' = app
    BY <2>1 DEF copyAppAs
  <2> QED BY <2>2, <2>3, PublicationLeaves, TakenBackLeaves
<1>3. CASE a \in Present /\ \E new \in Edits(app[a]) : handleUpdateApp(a, new)
  <2>1. PICK new \in Edits(app[a]) : handleUpdateApp(a, new)
    BY <1>3
  <2>2. app[a] \in Specs /\ new \in Specs
    BY <1>3, SpecOf, EditTypes, Parts
  <2>3. PICK saved \in Specs : app' = [app EXCEPT ![a] = saved]
    <3>1. app[a].deploy \in [Env -> {"default", "on", "off"}]
      BY <2>2 DEF Specs
    <3> QED BY <2>1, <2>2, <3>1, EditTypes DEF handleUpdateApp
  <2>4. \/ Publish(a, new) \/ NotPublished(a) \/ Unpublishable(a, new)
        \/ Unanswered(a, new) /\ left' = left
    BY <2>1 DEF handleUpdateApp
  <2> QED BY <2>2, <2>3, <2>4, PublicationLeaves
<1>4. CASE a \in Present /\ handleSyncApp(a)
  <2>1. app[a] \in Specs /\ app \in [App -> Specs \cup {Absent}]
    BY <1>4, SpecOf, Parts DEF StoreOK
  <2>2. app' = [app EXCEPT ![a] = app[a]] /\ Publish(a, app[a])
    BY <1>4, <2>1 DEF handleSyncApp
  <2> QED BY <2>1, <2>2, PublicationLeaves
<1> QED BY <1>1, <1>2, <1>3, <1>4

LEMMA DeleteLeaves ==
    ASSUME IInv, DeletedLeavesNothing, NEW a \in Present, handleDeleteApp(a)
    PROVE  DeletedLeavesNothing'
<1>1. a \in App /\ git \in Trees /\ app \in [App -> Specs \cup {Absent}]
  BY DEF IInv, TypeOK, Present
<1>2. app' = [app EXCEPT ![a] = Absent]
  BY DEF handleDeleteApp
<1>3. \/ git' = UnpublishApp(git, a) /\ left' = left \ {a}
      \/ git' = git /\ left' = left \cup {a}
  BY DEF handleDeleteApp, Unpublish, Unrecorded
<1>4. \A c \in App \ {a} :
          (Gone(git, c) => Gone(git', c)) /\ app'[c] = app[c] /\ (c \in left => c \in left')
  BY <1>1, <1>2, <1>3, UnpublishesItsOwn
<1>5. a \in left' \/ Gone(git', a)
  BY <1>1, <1>3, UnpublishesItsOwn
<1> QED BY <1>4, <1>5, OnlyThese

LEMMA RenameLeaves ==
    ASSUME IInv, DeletedLeavesNothing, NEW a \in Present, NEW b \in App, handleRenameApp(a, b)
    PROVE  DeletedLeavesNothing'
<1>1. /\ a \in App /\ app[a] \in Specs /\ git \in Trees
      /\ app \in [App -> Specs \cup {Absent}] /\ a # b
  BY SpecOf, Parts DEF RepoOK, StoreOK, Present, handleRenameApp
<1>2. PICK published : published = writeAppTree(git, b, app[a])
  OBVIOUS
<1>3. PICK gone : gone = UnpublishApp(published, a)
  OBVIOUS
<1>4. published \in Trees
  BY <1>1, <1>2, WriteAppTree
<1>5. /\ Gone(gone, a)
      /\ \A c \in App \ {a, b} :
            Gone(git, c) => Gone(published, c) /\ Gone(gone, c)
  BY <1>1, <1>2, <1>3, <1>4, WritesItsOwn, UnpublishesItsOwn
<1>6. CASE Unanswered(b, app[a]) /\ left' = left \cup {b} /\ app' = app
  BY <1>1, <1>6, TakenBackLeaves
<1>7. CASE ~(Unanswered(b, app[a]) /\ left' = left \cup {b} /\ app' = app)
  <2>1. /\ \/ app' = [app EXCEPT ![b] = app[a]]
           \/ /\ app' = [[app EXCEPT ![b] = app[a]] EXCEPT ![a] = Absent]
              /\ git' = gone \/ left' = (left \cup {a}) \ {b}
        /\ git' \in {git, published, gone}
        /\ left' \in {left, left \ {b}, left \ {a, b}, (left \cup {a}) \ {b}}
    BY <1>2, <1>3, <1>7, Zenon DEF handleRenameApp, NotPublished, Publish, Unrecorded
  <2>2. \A c \in App \ {a, b} : app'[c] = app[c]
    BY <1>1, <2>1
  <2>3. app'[b] # Absent
    <3>1. app'[b] = app[a]
      BY <1>1, <2>1
    <3> QED BY <1>1, <3>1, SpecNotAbsent
  <2>4. app'[a] # Absent \/ a \in left' \/ Gone(git', a)
    <3>1. CASE app' = [app EXCEPT ![b] = app[a]]
      <4>1. app'[a] = app[a]
        BY <1>1, <3>1
      <4> QED BY <1>1, <4>1, SpecNotAbsent
    <3>2. CASE git' = gone
      BY <1>5, <3>2
    <3>3. CASE left' = (left \cup {a}) \ {b}
      BY <1>1, <3>3
    <3> QED BY <2>1, <3>1, <3>2, <3>3
  <2>5. \A c \in App \ {a, b} :
            (Gone(git, c) => Gone(git', c)) /\ app'[c] = app[c] /\ (c \in left => c \in left')
    BY <1>5, <2>1, <2>2
  <2> QED BY <2>3, <2>4, <2>5, OnlyThese
<1> QED BY <1>6, <1>7

LEMMA UndeployLeaves ==
    ASSUME IInv, DeletedLeavesNothing, NEW a \in Present, NEW e \in Env, handleUndeployAppEnv(a, e)
    PROVE  DeletedLeavesNothing'
<1>1. /\ a \in App /\ app[a] \in Specs /\ git \in Trees
      /\ app \in [App -> Specs \cup {Absent}]
  BY SpecOf, Parts DEF RepoOK, StoreOK
<1>2. PICK saved : saved = [app EXCEPT ![a].deploy[e] = "off"]
  OBVIOUS
<1>3. saved[a] \in Specs /\ \A c \in App \ {a} : saved[c] = app[c]
  <2>1. [app[a] EXCEPT !.deploy[e] = "off"] \in Specs
    BY <1>1 DEF Specs
  <2>2. saved = [app EXCEPT ![a] = [app[a] EXCEPT !.deploy[e] = "off"]]
    BY <1>1, <1>2
  <2> QED BY <1>1, <2>1, <2>2
<1>4. PICK without : without = RemoveAppEnv(git, a, e)
  OBVIOUS
<1>5. PICK rebuilt : rebuilt = writeAppTree(without, a, saved[a])
  OBVIOUS
<1>6. without \in Trees
  BY <1>1, <1>4, Withdraws
<1>7. \A c \in App \ {a} : Gone(git, c) => Gone(without, c) /\ Gone(rebuilt, c)
  BY <1>1, <1>3, <1>4, <1>5, <1>6, WithdrawsItsOwn, WritesItsOwn
<1>8. app' = saved /\ git' \in {git, without, rebuilt} /\ left' \in {left, left \ {a}}
  BY <1>2, <1>4, <1>5, Zenon DEF handleUndeployAppEnv, NotPublished, Unrecorded
<1>9. app'[a] # Absent
  BY <1>3, <1>8, SpecNotAbsent
<1>10. \A c \in App \ {a} :
          (Gone(git, c) => Gone(git', c)) /\ app'[c] = app[c] /\ (c \in left => c \in left')
  BY <1>3, <1>7, <1>8
<1> QED BY <1>9, <1>10, OnlyThese

LEMMA PreparingLeaves ==
    ASSUME IInv, DeletedLeavesNothing, NEW a \in Present,
           \/ \E e \in Env : promoteAppEnv(a, e)
           \/ \E base \in Bases : upsertAppPreview(a, base)
           \/ handleDeleteAppPreview(a)
    PROVE  DeletedLeavesNothing'
<1>1. /\ a \in App /\ app[a] \in Specs /\ git \in Trees /\ Bases \subseteq Env
      /\ preview \in [App -> Env \cup {NoEnv}]
  BY SpecOf, Parts, AppLifecycleAssumption DEF RepoOK, StoreOK
<1>2. app' = app /\ left' = left
  BY DEF promoteAppEnv, upsertAppPreview, handleDeleteAppPreview
<1>3. \/ git' = git
      \/ \E e \in Env : git' = PrepareAppEnv(git, a, app[a], e)
      \/ \E base \in Env :
            git' = PublishPreview(git, a, app[a], base) \/ git' = DeletePreview(git, a, base)
  BY <1>1 DEF promoteAppEnv, upsertAppPreview, handleDeleteAppPreview, Unrecorded
<1>4. \A c \in App \ {a} : Gone(git, c) => Gone(git', c)
  BY <1>1, <1>3, PreparesItsOwn, PreviewsItsOwn
<1>5. app'[a] # Absent
  BY <1>1, <1>2, SpecNotAbsent
<1> QED BY <1>2, <1>4, <1>5, OnlyThese

LEMMA KargoLeaves ==
    ASSUME IInv, DeletedLeavesNothing, NEW a \in App, NEW e \in Env, KargoPromotes(a, e)
    PROVE  DeletedLeavesNothing'
<1>1. git \in Trees
  BY DEF IInv, TypeOK
<1>2. git' = git \/ git' = activatePreparedRelease(git, a, e)
  BY DEF KargoPromotes, Unrecorded
<1>3. \A c \in App : Gone(git, c) => Gone(git', c)
  <2>1. CASE git' = git
    BY <2>1
  <2>2. CASE git' = activatePreparedRelease(git, a, e)
    <3>1. SameFiles(git, git') /\ SameKargo(git, git') /\ SamePreviews(git, git')
      BY <1>1, <2>2, Activates
    <3> QED BY <3>1 DEF SameFiles, SameKargo, SamePreviews, NoKargo, Gone
  <2> QED BY <1>2, <2>1, <2>2
<1>4. app' = app /\ left' = left
  BY DEF KargoPromotes
<1> QED BY <1>3, <1>4, OnlyThese

LEMMA NextLeaves == IInv /\ DeletedLeavesNothing /\ [Next]_vars => DeletedLeavesNothing'
<1> SUFFICES ASSUME IInv, DeletedLeavesNothing, [Next]_vars PROVE DeletedLeavesNothing'
  OBVIOUS
<1>1. CASE UNCHANGED vars
  BY <1>1 DEF DeletedLeavesNothing, vars
<1>2. CASE Next
  <2>1. Present \subseteq App
    BY DEF Present
  <2> QED BY <1>2, <2>1, PublishersLeave, DeleteLeaves, RenameLeaves, UndeployLeaves,
             PreparingLeaves, KargoLeaves DEF Next
<1> QED BY <1>1, <1>2

\* A deleted or renamed app leaves nothing to deploy, to promote or to preview:
\* no request of another app, and no edit or promotion that was under way, writes
\* files for it, unless removing them failed.
THEOREM DeletedLeavesNothingAlways == Spec => []DeletedLeavesNothing
<1>1. Init => DeletedLeavesNothing
  BY DEF Init, EmptyTree, DeletedLeavesNothing
<1> QED BY <1>1, NextLeaves, AppLifecycleInvariance, PTL DEF Spec

-----------------------------------------------------------------------------
(* What an app that was published as it is saved has in the repository.    *)

\* The app has its files where a release is due.
Deployed(g, a, spec) ==
    Due(a, spec) \subseteq
        g.resources \cap IF spec.composed THEN g.manifest \cap g.components
                         ELSE g.target \cap g.values

\* Its files and its pipeline are those of what was saved.
Shown(g, a, spec) == Deployed(g, a, spec) /\ Piped(g, a, spec)

ShownInv == \A a \in App : app[a] # Absent /\ a \in clean => Shown(git, a, app[a])

\* The app's files stay, and what runs keeps running.
KeepsFiles(g, t, a) ==
    \A e \in Env :
        /\ <<a, e>> \in g.values => <<a, e>> \in t.values
        /\ <<a, e>> \in g.target => <<a, e>> \in t.target
        /\ <<a, e>> \in g.components => <<a, e>> \in t.components
        /\ <<a, e>> \in g.manifest => <<a, e>> \in t.manifest
        /\ <<a, e>> \in g.resources => <<a, e>> \in t.resources
        /\ <<a, e>> \in t.prepared => <<a, e>> \in g.prepared \/ ~Rendered(g, a, e)

Keeps(g, t, a) == KeepsFiles(g, t, a) /\ KeepsKargo(g, t, a)

\* What runs in the layout of what is published keeps running, unless it is
\* switched off.
Continues(g, t, a, spec) ==
    \A e \in Env : Live(g, a, e) /\ spec.deploy[e] # "off"
                       /\ (<<a, e>> \in g.manifest) = spec.composed => Live(t, a, e)

\* A step leaves the app alone, or publishes it as it is saved, or does not claim that.
Moves(a) ==
    \/ a \notin clean' \/ app'[a] = Absent
    \/ Shown(git', a, app'[a]) /\ Continues(git, git', a, app'[a])
    \/ Keeps(git, git', a) /\ app'[a] = app[a] /\ a \in clean

LEMMA DueOf ==
    ASSUME NEW a \in App, NEW spec \in Specs
    PROVE  \A d \in Due(a, spec) : \E e \in Env : d = <<a, e>>
<1>1. PICK envs \in SUBSET Env : Due(a, spec) = In(a, envs)
  BY DeployTypes, Zenon DEF Due
<1> QED BY <1>1 DEF In

LEMMA ShownStays ==
    ASSUME NEW g, NEW t, NEW a \in App, NEW spec \in Specs, Shown(g, a, spec), Keeps(g, t, a)
    PROVE  Shown(t, a, spec)
<1>1. \A d \in Due(a, spec) : \E e \in Env : d = <<a, e>>
  BY DueOf
<1>2. PICK due : due = Due(a, spec)
  OBVIOUS
<1>3. Deployed(t, a, spec)
  BY <1>1, <1>2 DEF Shown, Keeps, Deployed, KeepsFiles
<1>4. CASE spec.direct
  BY <1>3, <1>4 DEF Shown, Keeps, Piped, NoKargo, KeepsKargo
<1>5. CASE ~spec.direct
  <2>1. PICK p, q : p = BuildKargoPromotionPolicies(a, spec) /\ q = BuildKargoStages(a, spec)
    OBVIOUS
  <2>2. (\A x \in p : x[1] = a) /\ (\A x \in q : x[1] = a)
    BY <2>1, KargoTypes
  <2>3. /\ ValidPipeline(spec, Bound) /\ \A x \in g.policies : x[1] = a => x \in p
        /\ OwnName(a) => p \subseteq g.policies /\ q \subseteq g.stages
    BY <1>5, <2>1 DEF Shown, Piped
  <2>4. /\ \A x \in t.policies : x[1] = a => x \in p
        /\ OwnName(a) => p \subseteq t.policies /\ q \subseteq t.stages
    BY <2>2, <2>3 DEF Keeps, KeepsKargo
  <2> QED BY <1>3, <1>5, <2>1, <2>3, <2>4 DEF Shown, Piped
<1> QED BY <1>4, <1>5

LEMMA ContinuesWhenKept ==
    ASSUME NEW g, NEW t, NEW a, Keeps(g, t, a)
    PROVE  \A e \in Env : Live(g, a, e) => Live(t, a, e)
BY DEF Keeps, KeepsFiles, Live, Rendered

\* Another app's publication keeps what there is of an app.
LEMMA WriteShows ==
    ASSUME NEW g \in Trees, NEW a \in App, NEW spec \in Specs,
           spec.direct \/ ValidPipeline(spec, Bound),
           NEW t, t = writeAppTree(g, a, spec)
    PROVE  /\ Shown(t, a, spec) /\ Continues(g, t, a, spec)
           /\ \A c \in App \ {a} : Keeps(g, t, c)
<1>1. PICK p \in Trees, envs \in SUBSET Env :
          /\ envs = deployEnvs(p, a, spec)
          /\ Pruned(g, p, a, spec.composed)
          /\ Files(p, t, a, spec.composed, envs)
          /\ Markers(g, t, a, promotionPending(p, a, envs, FALSE), envs)
  BY WriteAppTree
<1>2. Piped(t, a, spec) /\ \A c \in App \ {a} : KeepsKargo(g, t, c)
  BY WriteAppTree
<1>3. Deployed(t, a, spec)
  <2>1. Due(a, spec) \subseteq In(a, envs)
    BY <1>1, DeployedOrDue
  <2> QED BY <1>1, <2>1 DEF Deployed, Files
<1>4. \A c, e : <<c, e>> \in t.prepared => <<c, e>> \in g.prepared
  <2>1. p.prepared = g.prepared
    BY <1>1 DEF Pruned, SameMarkers
  <2>2. \A e \in promotionPending(p, a, envs, FALSE) : <<a, e>> \in g.prepared
    BY <2>1 DEF promotionPending
  <2> QED BY <1>1, <2>2 DEF Markers, In
<1>5. ASSUME NEW c \in App \ {a} PROVE KeepsFiles(g, t, c)
  <2>1. \A e \in Env : <<c, e>> \notin In(a, Env)
    BY DEF In
  <2>2. \A e \in Env : /\ <<c, e>> \in g.values => <<c, e>> \in p.values
                       /\ <<c, e>> \in g.target => <<c, e>> \in p.target
                       /\ <<c, e>> \in g.components => <<c, e>> \in p.components
                       /\ <<c, e>> \in g.manifest => <<c, e>> \in p.manifest
                       /\ <<c, e>> \in g.resources => <<c, e>> \in p.resources
    BY <1>1, <2>1 DEF Pruned
  <2>3. \A e \in Env : /\ <<c, e>> \in p.values => <<c, e>> \in t.values
                       /\ <<c, e>> \in p.target => <<c, e>> \in t.target
                       /\ <<c, e>> \in p.components => <<c, e>> \in t.components
                       /\ <<c, e>> \in p.manifest => <<c, e>> \in t.manifest
                       /\ <<c, e>> \in p.resources => <<c, e>> \in t.resources
    BY <1>1 DEF Files
  <2> QED BY <1>4, <2>2, <2>3 DEF KeepsFiles
<1>6. ASSUME NEW e \in Env, Live(g, a, e), (<<a, e>> \in g.manifest) = spec.composed
      PROVE  Live(t, a, e)
  <2>1. spec.composed \in BOOLEAN /\ (<<a, e>> \in g.manifest <=> spec.composed)
    BY <1>6 DEF Specs
  <2>2. <<a, e>> \in g.manifest \/ <<a, e>> \in g.target
    BY <1>6 DEF Live, Rendered
  <2>3. <<a, e>> \notin t.prepared
    BY <1>4, <1>6 DEF Live
  <2>4. IF spec.composed THEN <<a, e>> \in t.manifest ELSE <<a, e>> \in t.target
    BY <1>1, <2>1, <2>2 DEF Pruned, Files
  <2> QED BY <2>3, <2>4 DEF Live, Rendered
<1>7. Continues(g, t, a, spec)
  BY <1>6 DEF Continues
<1> QED BY <1>2, <1>3, <1>5, <1>7 DEF Shown, Keeps

LEMMA OthersKeep ==
    ASSUME NEW g \in Trees, NEW a \in App, NEW c \in App \ {a}
    PROVE  /\ Keeps(g, UnpublishApp(g, a), c)
           /\ \A e \in Env : Keeps(g, RemoveAppEnv(g, a, e), c)
<1>1. Keeps(g, UnpublishApp(g, a), c)
  <2>1. PICK t : t = UnpublishApp(g, a)
    OBVIOUS
  <2>2. Unpublished(g, t, a) /\ KeepsKargo(g, t, c)
    BY <2>1, Unpublishes
  <2>3. \A f \in Env : <<c, f>> \notin In(a, Env)
    BY DEF In
  <2> QED BY <2>1, <2>2, <2>3 DEF Unpublished, SameMarkers, Keeps, KeepsFiles
<1>2. ASSUME NEW e \in Env PROVE Keeps(g, RemoveAppEnv(g, a, e), c)
  <2>1. PICK t : t = RemoveAppEnv(g, a, e)
    OBVIOUS
  <2>2. Withdrawn(g, t, a, e) /\ KeepsKargo(g, t, c)
    BY <2>1, Withdraws
  <2> QED BY <2>1, <2>2 DEF Withdrawn, SameMarkers, Keeps, KeepsFiles
<1> QED BY <1>1, <1>2

LEMMA KeepsTwice ==
    ASSUME NEW g, NEW h, NEW t, NEW a, Keeps(g, h, a), Keeps(h, t, a)
    PROVE  Keeps(g, t, a)
<1>1. KeepsKargo(g, t, a)
  BY DEF Keeps, KeepsKargo
<1>2. KeepsFiles(g, t, a)
  BY DEF Keeps, KeepsFiles, Rendered
<1> QED BY <1>1, <1>2 DEF Keeps

\* Preparing is for environments without the app.
LEMMA NobodyLoses ==
    ASSUME NEW g \in Trees, NEW a \in App, NEW e \in Env, NEW spec \in Specs, NEW t,
           \/ t = PrepareAppEnv(g, a, spec, e) /\ ~Rendered(g, a, e)
           \/ t = activatePreparedRelease(g, a, e)
           \/ t = PublishPreview(g, a, spec, e) \/ t = DeletePreview(g, a, e),
           NEW c
    PROVE  Keeps(g, t, c)
<1>1. CASE t = PrepareAppEnv(g, a, spec, e) /\ ~Rendered(g, a, e)
  <2>1. t = publishEnvFiles(g, a, spec, {e}, TRUE) /\ {e} \in SUBSET Env
    BY <1>1 DEF PrepareAppEnv
  <2>2. /\ Files(g, t, a, spec.composed, {e}) /\ SameKargo(g, t)
        /\ Markers(g, t, a, promotionPending(g, a, {e}, TRUE), {e})
    BY <2>1, EnvFiles
  <2>3. t.prepared \subseteq g.prepared \cup {<<a, e>>}
    BY <2>2 DEF Markers, promotionPending, In
  <2>4. KeepsFiles(g, t, c)
    BY <1>1, <2>2, <2>3 DEF Files, KeepsFiles
  <2> QED BY <2>2, <2>4 DEF Keeps, KeepsKargo, SameKargo
<1>2. CASE t = activatePreparedRelease(g, a, e)
  <2>1. SameFiles(g, t) /\ SameKargo(g, t) /\ t.prepared = g.prepared \ {<<a, e>>}
    BY <1>2, Activates
  <2> QED BY <2>1 DEF SameFiles, SameKargo, Keeps, KeepsFiles, KeepsKargo
<1>3. CASE t = PublishPreview(g, a, spec, e) \/ t = DeletePreview(g, a, e)
  <2>1. SameFiles(g, t) /\ SameKargo(g, t) /\ SameMarkers(g, t)
    BY <1>3, Previews
  <2> QED BY <2>1 DEF SameFiles, SameKargo, SameMarkers, Keeps, KeepsFiles, KeepsKargo
<1> QED BY <1>1, <1>2, <1>3

\* What a step leaves alone.
LEMMA LeftAlone ==
    ASSUME NEW c \in App, git' = git \/ Keeps(git, git', c), app'[c] = app[c],
           c \in clean' => c \in clean
    PROVE  Moves(c)
<1>1. Keeps(git, git', c)
  <2>1. CASE git' = git
    BY <2>1 DEF Keeps, KeepsFiles, KeepsKargo
  <2> QED BY <2>1
<1> QED BY <1>1 DEF Moves

\* A publication, tried or not, for an app; what is saved is what was published.
LEMMA PublicationMoves ==
    ASSUME IInv, NEW a \in App, NEW spec \in Specs, NEW saved \in Specs,
           \/ Publish(a, spec) /\ saved = spec
           \/ NotPublished(a) \/ Unpublishable(a, spec) \/ Unanswered(a, spec),
           \/ app' = [app EXCEPT ![a] = saved]
           \/ app' = app /\ Unanswered(a, spec)
    PROVE  \A c \in App : Moves(c)
<1>1. git \in Trees /\ app \in [App -> Specs \cup {Absent}]
  BY DEF IInv, TypeOK
<1>2. \/ /\ git' = writeAppTree(git, a, spec) /\ clean' = clean \cup {a}
         /\ ValidPipeline(spec, Bound) /\ saved = spec /\ app' = [app EXCEPT ![a] = saved]
      \/ git' = git /\ clean' = clean \ {a}
      \/ git' = writeAppTree(git, a, spec) /\ clean' = clean \ {a} /\ ValidPipeline(spec, Bound)
  BY DEF Publish, NotPublished, Unpublishable, Unanswered, Unrecorded
<1>3. ASSUME NEW c \in App \ {a} PROVE Moves(c)
  <2>1. git' = git \/ Keeps(git, git', c)
    BY <1>1, <1>2, WriteShows
  <2> QED BY <1>1, <1>2, <2>1, LeftAlone
<1>4. Moves(a)
  <2>1. CASE a \in clean'
    <3>1. Shown(git', a, saved) /\ Continues(git, git', a, saved)
      BY <1>1, <1>2, <2>1, WriteShows
    <3>2. app'[a] = saved
      BY <1>1, <1>2, <2>1
    <3> QED BY <3>1, <3>2 DEF Moves
  <2> QED BY <2>1 DEF Moves
<1> QED BY <1>3, <1>4

LEMMA PublishersMove ==
    ASSUME IInv, NEW a \in App,
           \/ \E spec \in Initial : handleCreateApp(a, spec)
           \/ \E b \in Present : copyAppAs(b, a)
           \/ a \in Present /\ \E new \in Edits(app[a]) : handleUpdateApp(a, new)
           \/ a \in Present /\ handleSyncApp(a)
    PROVE  \A c \in App : Moves(c)
<1>1. CASE \E spec \in Initial : handleCreateApp(a, spec)
  BY <1>1, AppLifecycleAssumption, PublicationMoves DEF handleCreateApp
<1>2. CASE \E b \in Present : copyAppAs(b, a)
  <2>1. PICK b \in Present : copyAppAs(b, a)
    BY <1>2
  <2>2. app[b] \in Specs
    BY SpecOf, Parts
  <2>3. \/ /\ app' = [app EXCEPT ![a] = app[b]]
           /\ Publish(a, app[b]) \/ NotPublished(a)
        \/ Unanswered(a, app[b]) /\ app' = app
    BY <2>1 DEF copyAppAs
  <2> QED BY <2>2, <2>3, PublicationMoves
<1>3. CASE a \in Present /\ \E new \in Edits(app[a]) : handleUpdateApp(a, new)
  <2>1. PICK new \in Edits(app[a]) : handleUpdateApp(a, new)
    BY <1>3
  <2>2. app[a] \in Specs /\ new \in Specs
    BY <1>3, SpecOf, EditTypes, Parts
  <2>3. app[a].deploy \in [Env -> {"default", "on", "off"}]
    BY <2>2 DEF Specs
  <2>4. PICK saved \in Specs :
            /\ app' = [app EXCEPT ![a] = saved]
            /\ \/ Publish(a, new) /\ saved = new
               \/ NotPublished(a) \/ Unpublishable(a, new) \/ Unanswered(a, new)
    BY <2>1, <2>2, <2>3, EditTypes DEF handleUpdateApp
  <2> QED BY <2>2, <2>4, PublicationMoves
<1>4. CASE a \in Present /\ handleSyncApp(a)
  <2>1. app[a] \in Specs /\ app \in [App -> Specs \cup {Absent}]
    BY <1>4, SpecOf, Parts DEF StoreOK
  <2>2. app' = [app EXCEPT ![a] = app[a]] /\ Publish(a, app[a])
    BY <1>4, <2>1 DEF handleSyncApp
  <2> QED BY <2>1, <2>2, PublicationMoves
<1> QED BY <1>1, <1>2, <1>3, <1>4

LEMMA DeleteMoves ==
    ASSUME IInv, NEW a \in Present, handleDeleteApp(a)
    PROVE  \A c \in App : Moves(c)
<1>1. a \in App /\ git \in Trees /\ app \in [App -> Specs \cup {Absent}]
  BY DEF IInv, TypeOK, Present
<1>2. /\ app' = [app EXCEPT ![a] = Absent] /\ clean' = clean \ {a}
      /\ git' = git \/ git' = UnpublishApp(git, a)
  BY DEF handleDeleteApp, Unpublish, Unrecorded
<1>3. ASSUME NEW c \in App \ {a} PROVE Moves(c)
  <2>1. git' = git \/ Keeps(git, git', c)
    BY <1>1, <1>2, OthersKeep
  <2> QED BY <1>1, <1>2, <2>1, LeftAlone
<1>4. Moves(a)
  BY <1>2 DEF Moves
<1> QED BY <1>3, <1>4

LEMMA RenameMoves ==
    ASSUME IInv, NEW a \in Present, NEW b \in App, handleRenameApp(a, b)
    PROVE  \A c \in App : Moves(c)
<1>1. /\ a \in App /\ app[a] \in Specs /\ git \in Trees
      /\ app \in [App -> Specs \cup {Absent}] /\ a # b
  BY SpecOf, Parts DEF RepoOK, StoreOK, Present, handleRenameApp
<1>2. CASE \/ app' = [app EXCEPT ![b] = app[a]] /\ (NotPublished(b) \/ Publish(b, app[a]))
           \/ app' = app /\ Unanswered(b, app[a])
  BY <1>1, <1>2, PublicationMoves
<1>3. CASE ~ \/ app' = [app EXCEPT ![b] = app[a]] /\ (NotPublished(b) \/ Publish(b, app[a]))
             \/ app' = app /\ Unanswered(b, app[a])
  <2>1. PICK published : published = writeAppTree(git, b, app[a])
    OBVIOUS
  <2>2. PICK gone : gone = UnpublishApp(published, a)
    OBVIOUS
  <2>3. /\ git' \in {published, gone} /\ clean' = (clean \cup {b}) \ {a}
        /\ ValidPipeline(app[a], Bound)
    BY <1>3, <2>1, <2>2, Zenon DEF handleRenameApp
  <2>4. /\ published \in Trees /\ Shown(published, b, app[a])
        /\ Continues(git, published, b, app[a])
    BY <1>1, <2>1, <2>3, WriteAppTree, WriteShows
  <2>5. \A c \in App \ {a} : Keeps(published, gone, c)
    BY <1>1, <2>2, <2>4, OthersKeep
  <2>6. Shown(git', b, app[a])
    BY <1>1, <2>3, <2>4, <2>5, ShownStays
  <2>7. Continues(git, git', b, app[a])
    <3>1. \A e \in Env : Live(published, b, e) => Live(gone, b, e)
      BY <1>1, <2>5, ContinuesWhenKept
    <3> QED BY <2>3, <2>4, <3>1 DEF Continues
  <2>8. app'[b] = app[a] /\ \A c \in App \ {a, b} : app'[c] = app[c]
    <3>1. \/ app' = [app EXCEPT ![b] = app[a]]
          \/ app' = [[app EXCEPT ![b] = app[a]] EXCEPT ![a] = Absent]
      BY <1>3, Zenon DEF handleRenameApp
    <3> QED BY <1>1, <3>1
  <2>9. \A c \in App \ {a, b} : Keeps(git, published, c)
    BY <1>1, <2>1, <2>3, WriteShows
  <2>10. ASSUME NEW c \in App \ {a, b} PROVE Moves(c)
    <3>1. Keeps(git, git', c)
      BY <2>3, <2>5, <2>9, KeepsTwice
    <3> QED BY <2>3, <2>8, <3>1, LeftAlone
  <2>11. Moves(a)
    BY <2>3 DEF Moves
  <2>12. Moves(b)
    BY <2>6, <2>7, <2>8 DEF Moves
  <2> QED BY <2>10, <2>11, <2>12
<1> QED BY <1>2, <1>3

\* An environment that is switched off is none where an app without a pipeline is due.
LEMMA SwitchedOffNotDue ==
    ASSUME NEW a \in App, NEW spec \in Specs, NEW e \in Env, spec.direct,
           NEW off, off = [spec EXCEPT !.deploy[e] = "off"]
    PROVE  off \in Specs /\ Due(a, off) \subseteq Due(a, spec) \ {<<a, e>>}
<1>1. /\ off \in Specs /\ off.direct
      /\ off.deploy = [spec.deploy EXCEPT ![e] = "off"]
      /\ spec.deploy \in [Env -> {"default", "on", "off"}]
  BY DEF Specs
<1>2. Bound \subseteq Env
  BY RepoLayoutAssumption
<1>3. enabledDeployEnvs(off) \subseteq enabledDeployEnvs(spec) \ {e}
  BY <1>1, <1>2 DEF enabledDeployEnvs
<1>4. Due(a, off) = In(a, enabledDeployEnvs(off)) /\ Due(a, spec) = In(a, enabledDeployEnvs(spec))
  BY <1>1 DEF Due
<1> QED BY <1>1, <1>3, <1>4 DEF In

\* A removal from an environment leaves the app running in the others.
LEMMA WithdrawnContinues ==
    ASSUME NEW g \in Trees, NEW a \in App, NEW e \in Env,
           NEW spec \in Specs, spec.deploy[e] = "off", NEW t, t = RemoveAppEnv(g, a, e)
    PROVE  /\ Continues(g, t, a, spec)
           /\ \A f \in Env : <<a, f>> \in t.manifest <=> <<a, f>> \in g.manifest
<1>1. Withdrawn(g, t, a, e)
  BY Withdraws
<1> QED BY <1>1 DEF Withdrawn, SameMarkers, Continues, Live, Rendered

LEMMA UndeployMoves ==
    ASSUME IInv, ShownInv, NEW a \in Present, NEW e \in Env, handleUndeployAppEnv(a, e)
    PROVE  \A c \in App : Moves(c)
<1>1. /\ a \in App /\ app[a] \in Specs /\ git \in Trees
      /\ app \in [App -> Specs \cup {Absent}]
  BY SpecOf, Parts DEF RepoOK, StoreOK
<1>2. PICK off : off = [app[a] EXCEPT !.deploy[e] = "off"]
  OBVIOUS
<1>3. /\ off \in Specs /\ off.composed = app[a].composed /\ off.direct = app[a].direct
      /\ off.deploy[e] = "off"
  BY <1>1, <1>2 DEF Specs
<1>4. [app EXCEPT ![a].deploy[e] = "off"] = [app EXCEPT ![a] = off]
  BY <1>1, <1>2
<1>5. PICK saved : saved = [app EXCEPT ![a] = off]
  OBVIOUS
<1>6. saved[a] = off /\ app' = saved /\ \A c \in App \ {a} : app'[c] = app[c]
  BY <1>1, <1>4, <1>5 DEF handleUndeployAppEnv
<1>7. CASE NotPublished(a)
  BY <1>1, <1>3, <1>5, <1>6, <1>7, PublicationMoves
<1>8. CASE ~NotPublished(a)
  <2>1. PICK without : without = RemoveAppEnv(git, a, e)
    OBVIOUS
  <2>2. without \in Trees
    BY <1>1, <2>1, Withdraws
  <2>3. PICK rebuilt : rebuilt = writeAppTree(without, a, off)
    OBVIOUS
  <2>4. \/ app[a].direct /\ git' = without /\ clean' = clean
        \/ git' = rebuilt /\ clean' = clean \cup {a} /\ ValidPipeline(off, Bound)
        \/ git' = without /\ clean' = clean \ {a}
    BY <1>4, <1>5, <1>6, <1>8, <2>1, <2>3 DEF handleUndeployAppEnv, Unrecorded
  <2>5. ASSUME NEW c \in App \ {a} PROVE Moves(c)
    <3>1. Keeps(git, without, c)
      BY <1>1, <2>1, OthersKeep
    <3>2. CASE git' = without
      BY <1>6, <2>4, <3>1, <3>2, LeftAlone
    <3>3. CASE git' = rebuilt /\ clean' = clean \cup {a} /\ ValidPipeline(off, Bound)
      <4>1. Keeps(without, rebuilt, c)
        BY <1>1, <1>3, <2>2, <2>3, <3>3, WriteShows
      <4>2. Keeps(git, git', c)
        BY <3>1, <3>3, <4>1, KeepsTwice
      <4> QED BY <1>6, <3>3, <4>2, LeftAlone
    <3> QED BY <2>4, <3>2, <3>3
  <2>6. Continues(git, without, a, off)
    BY <1>1, <1>3, <2>1, WithdrawnContinues
  <2>7. CASE app[a].direct /\ git' = without /\ a \in clean
    <3>1. Shown(git, a, app[a])
      BY <1>1, <2>7 DEF ShownInv, Present
    <3>2. Due(a, off) \subseteq Due(a, app[a]) \ {<<a, e>>}
      BY <1>1, <1>2, <2>7, SwitchedOffNotDue
    <3>3. Withdrawn(git, without, a, e) /\ (NoKargo(git, a) => NoKargo(without, a))
      BY <1>1, <2>1, Withdraws
    <3>4. Deployed(without, a, off)
      BY <1>3, <3>1, <3>2, <3>3 DEF Shown, Deployed, Withdrawn
    <3>5. Piped(without, a, off)
      BY <1>3, <2>7, <3>1, <3>3 DEF Shown, Piped
    <3> QED BY <1>6, <2>5, <2>6, <2>7, <3>4, <3>5 DEF Moves, Shown
  <2>8. CASE git' = rebuilt /\ clean' = clean \cup {a} /\ ValidPipeline(off, Bound)
    <3>1. Shown(rebuilt, a, off) /\ Continues(without, rebuilt, a, off)
      BY <1>1, <1>3, <2>2, <2>3, <2>8, WriteShows
    <3>2. \A f \in Env : <<a, f>> \in without.manifest <=> <<a, f>> \in git.manifest
      BY <1>1, <1>3, <2>1, WithdrawnContinues
    <3>3. Continues(git, rebuilt, a, off)
      BY <1>3, <2>6, <3>1, <3>2 DEF Continues, Specs
    <3> QED BY <1>6, <2>5, <2>8, <3>1, <3>3 DEF Moves
  <2>9. CASE a \notin clean'
    BY <2>5, <2>9 DEF Moves
  <2> QED BY <2>4, <2>7, <2>8, <2>9
<1> QED BY <1>7, <1>8

LEMMA OtherStepsMove ==
    ASSUME IInv, NEW a \in App,
           \/ a \in Present /\ \E e \in Env : promoteAppEnv(a, e)
           \/ a \in Present /\ \E base \in Bases : upsertAppPreview(a, base)
           \/ a \in Present /\ handleDeleteAppPreview(a)
           \/ \E e \in Env : KargoPromotes(a, e)
    PROVE  \A c \in App : Moves(c)
<1>1. /\ git \in Trees /\ Bases \subseteq Env /\ preview \in [App -> Env \cup {NoEnv}]
      /\ app \in [App -> Specs \cup {Absent}]
  BY AppLifecycleAssumption DEF IInv, TypeOK
<1>2. app' = app /\ clean' = clean
  BY DEF promoteAppEnv, upsertAppPreview, handleDeleteAppPreview, KargoPromotes
<1>3. \/ git' = git
      \/ /\ a \in Present
         /\ \E e \in Env : git' = PrepareAppEnv(git, a, app[a], e) /\ ~Rendered(git, a, e)
      \/ \E e \in Env : git' = activatePreparedRelease(git, a, e)
      \/ a \in Present /\ \E base \in Env :
             git' = PublishPreview(git, a, app[a], base) \/ git' = DeletePreview(git, a, base)
  BY <1>1 DEF promoteAppEnv, upsertAppPreview, handleDeleteAppPreview, KargoPromotes, Unrecorded
<1>4. a \in Present => app[a] \in Specs
  BY SpecOf, Parts
<1>5. [composed |-> FALSE, direct |-> FALSE,
       deploy |-> [e \in Env |-> "on"], validator |-> NoEnv] \in Specs
  BY DEF Specs
<1>6. ASSUME NEW c \in App PROVE Moves(c)
  <2>1. git' = git \/ Keeps(git, git', c)
    <3>1. CASE \E e \in Env : git' = activatePreparedRelease(git, a, e)
      BY <1>1, <1>5, <3>1, NobodyLoses
    <3>2. CASE a \in Present /\ \E e \in Env :
                  \/ git' = PrepareAppEnv(git, a, app[a], e) /\ ~Rendered(git, a, e)
                  \/ git' = PublishPreview(git, a, app[a], e) \/ git' = DeletePreview(git, a, e)
      BY <1>1, <1>4, <3>2, NobodyLoses
    <3> QED BY <1>3, <3>1, <3>2
  <2> QED BY <1>2, <2>1, LeftAlone
<1> QED BY <1>6

LEMMA NextMoves == IInv /\ ShownInv /\ Next => \A c \in App : Moves(c)
<1>1. Present \subseteq App
  BY DEF Present
<1> QED BY <1>1, PublishersMove, DeleteMoves, RenameMoves, UndeployMoves, OtherStepsMove DEF Next

LEMMA NextShows == IInv /\ ShownInv /\ [Next]_vars => ShownInv'
<1> SUFFICES ASSUME IInv, ShownInv, [Next]_vars PROVE ShownInv'
  OBVIOUS
<1>1. CASE UNCHANGED vars
  BY <1>1 DEF ShownInv, vars
<1>2. CASE Next
  <2>1. app \in [App -> Specs \cup {Absent}] /\ \A c \in App : Moves(c)
    BY <1>2, NextMoves DEF IInv, TypeOK
  <2>2. ASSUME NEW c \in App, app'[c] # Absent, c \in clean'
        PROVE  Shown(git', c, app'[c])
    <3>1. CASE Shown(git', c, app'[c])
      BY <3>1
    <3>2. CASE Keeps(git, git', c) /\ app'[c] = app[c] /\ c \in clean
      <4>1. app[c] \in Specs /\ Shown(git, c, app[c])
        BY <2>1, <2>2, <3>2 DEF ShownInv
      <4> QED BY <3>2, <4>1, ShownStays
    <3> QED BY <2>1, <2>2, <3>1, <3>2 DEF Moves
  <2> QED BY <2>2, Zenon DEF ShownInv
<1> QED BY <1>1, <1>2

LEMMA ShownAlways == Spec => []ShownInv
<1>1. Init => ShownInv
  BY DEF Init, ShownInv
<1> QED BY <1>1, NextShows, AppLifecycleInvariance, PTL DEF Spec

\* Where a release is due, an app that was published as it is saved has its files,
\* in the layout of its shape: neither a change of shape, nor a removal from another
\* environment, nor what is done to other apps, takes them away.
THEOREM DeployedWhereDueAlways == Spec => []DeployedWhereDue
<1>1. ShownInv => DeployedWhereDue
  BY DEF ShownInv, Shown, Deployed, DeployedWhereDue, Present
<1> QED BY <1>1, ShownAlways, PTL

\* What runs keeps running through every step after which the app is in the repository
\* as it is saved, unless the app is removed from the environment or changes its layout:
\* a publication takes over the environments that it finds, and what is done to other
\* apps leaves them alone.
THEOREM KeepsRunningAlways == Spec => KeepsRunning
<1>1. ASSUME IInv, IInv', ShownInv, Next, NEW a \in clean', NEW e \in Env,
             Live(git, a, e), app'[a] # Absent, app'[a].deploy[e] # "off",
             Layout(a, e) = app'[a].composed
      PROVE  Live(git', a, e)
  <2>1. a \in App
    BY <1>1 DEF IInv, TypeOK
  <2>2. Moves(a)
    BY <1>1, <2>1, NextMoves
  <2>3. CASE Continues(git, git', a, app'[a])
    BY <1>1, <2>3 DEF Continues, Layout
  <2>4. CASE Keeps(git, git', a)
    BY <1>1, <2>1, <2>4, ContinuesWhenKept
  <2> QED BY <1>1, <2>2, <2>3, <2>4 DEF Moves
<1>2. IInv /\ IInv' /\ ShownInv /\ [Next]_vars =>
          [\A a \in clean', e \in Env :
              Live(git, a, e) /\ app'[a] # Absent /\ app'[a].deploy[e] # "off"
                  /\ Layout(a, e) = app'[a].composed
              => Live(git', a, e)]_vars
  BY <1>1, Zenon
<1> QED BY <1>2, ShownAlways, AppLifecycleInvariance, PTL DEF Spec, KeepsRunning

\* In a valid pipeline a release comes from the Warehouse or from another environment
\* of the pipeline: an earlier one, or the validator, which gets it from the Warehouse.
LEMMA SourceInChain ==
    ASSUME NEW spec \in Specs, ValidPipeline(spec, Bound),
           NEW e \in Chain(spec, Bound), NEW source, source = ReleasePipeline(spec, Bound, e),
           source # NoEnv
    PROVE  /\ source \in Chain(spec, Bound)
           /\ source < e \/ ReleasePipeline(spec, Bound, source) = NoEnv
<1>1. PICK chain \in SUBSET Env : chain = Chain(spec, Bound) /\ e \in chain
  BY RepoLayoutAssumption DEF Chain
<1>2. PICK before \in SUBSET Env : before = {f \in chain \ {spec.validator} : f < e}
  BY <1>1
<1>3. \/ before # {} /\ source = Last(before)
      \/ source = spec.validator /\ spec.validator # NoEnv
  BY <1>1, <1>2 DEF ReleasePipeline
<1>4. CASE source = spec.validator
  <2>1. source \in chain
    BY <1>1, <1>4 DEF ValidPipeline
  <2>2. ReleasePipeline(spec, Bound, source) = NoEnv
    BY <1>4 DEF ReleasePipeline
  <2> QED BY <1>1, <2>1, <2>2
<1>5. CASE before # {} /\ source = Last(before)
  <2>1. source \in before
    BY <1>5, FirstAndLast
  <2> QED BY <1>1, <1>2, <2>1
<1> QED BY <1>3, <1>4, <1>5

\* Following the sources of an environment back ends at one that Kargo promotes to by itself.
LEMMA ChainIsFed ==
    ASSUME NEW a \in App, NEW spec \in Specs, ValidPipeline(spec, Bound),
           BuildKargoPromotionPolicies(a, spec) \subseteq git.policies,
           BuildKargoStages(a, spec) \subseteq git.stages
    PROVE  Chain(spec, Bound) \subseteq Fed(a)
<1> DEFINE roots == {e \in Env : <<a, e, NoEnv>> \in git.stages /\ <<a, e, TRUE>> \in git.policies}
<1>1. PICK chain \in SUBSET Env : chain = Chain(spec, Bound)
  BY RepoLayoutAssumption DEF Chain
<1>2. \A e \in chain : ReleasePipeline(spec, Bound, e) = NoEnv => e \in roots
  BY <1>1 DEF BuildKargoPromotionPolicies, BuildKargoStages
<1>3. \A e \in chain : <<a, e, ReleasePipeline(spec, Bound, e)>> \in git.stages
  BY <1>1 DEF BuildKargoStages
<1>4. ASSUME NEW envs \in SUBSET Env, roots \subseteq envs,
             \A s \in git.stages : s[1] = a /\ s[3] \in envs => s[2] \in envs
      PROVE  chain \subseteq envs
  <2>1. SUFFICES ASSUME chain \ envs # {} PROVE FALSE
    OBVIOUS
  <2>2. chain \ envs \in SUBSET Nat
    BY <1>1 DEF Env
  <2>3. PICK e \in chain \ envs : \A f \in chain \ envs : e <= f
    BY <2>1, <2>2, LeastNumber
  <2>4. PICK source : source = ReleasePipeline(spec, Bound, e)
    OBVIOUS
  <2>5. source # NoEnv
    BY <1>2, <1>4, <2>3, <2>4
  <2>6. source \in chain /\ (source < e \/ source \in roots)
    BY <1>1, <1>2, <2>3, <2>4, <2>5, SourceInChain
  <2>7. source \in envs
    <3>1. CASE source < e
      <4>1. source \in Nat /\ e \in Nat
        BY <1>1, <2>3, <2>6 DEF Env
      <4> QED BY <2>3, <2>6, <3>1, <4>1
    <3> QED BY <1>4, <2>6, <3>1
  <2>8. <<a, e, source>> \in git.stages
    BY <1>3, <2>3, <2>4
  <2> QED BY <1>4, <2>3, <2>7, <2>8
<1>5. \A e \in chain : e \in Fed(a)
  BY <1>4, Zenon DEF Fed
<1> QED BY <1>1, <1>5

\* Once a publication has succeeded the pipeline in the repository is the saved one,
\* and no environment of it is cut off, after any edits, removals and publications of
\* other apps; an app that is delivered directly leaves nothing of its pipeline behind.
THEOREM PipelineAsSavedAlways == Spec => []PipelineAsSaved
<1>1. ASSUME ShownInv, IInv, NEW a \in Present \cap clean
      PROVE  IF app[a].direct
             THEN /\ a \notin git.warehouses
                  /\ \A s \in git.stages : s[1] # a
                  /\ \A p \in git.policies : p[1] # a
             ELSE /\ OwnName(a) => Chain(app[a], Bound) \subseteq Fed(a)
                  /\ \A e \in Env : <<a, e, TRUE>> \in git.policies =>
                        app[a].deploy[e] # "off" /\ ReleasePipeline(app[a], Bound, e) = NoEnv
  <2>1. a \in App /\ app[a] \in Specs
    BY <1>1 DEF IInv, TypeOK, Present
  <2>2. PICK spec \in Specs : spec = app[a]
    BY <2>1
  <2>3. Piped(git, a, spec)
    BY <1>1, <2>2 DEF ShownInv, Shown, Present
  <2>4. CASE spec.direct
    BY <2>2, <2>3, <2>4 DEF Piped, NoKargo
  <2>5. CASE ~spec.direct
    <3>1. OwnName(a) => Chain(spec, Bound) \subseteq Fed(a)
      BY <2>1, <2>3, <2>5, ChainIsFed DEF Piped
    <3>2. ASSUME NEW e \in Env, <<a, e, TRUE>> \in git.policies
          PROVE  spec.deploy[e] # "off" /\ ReleasePipeline(spec, Bound, e) = NoEnv
      <4>1. <<a, e, TRUE>> \in BuildKargoPromotionPolicies(a, spec)
        BY <2>3, <2>5, <3>2 DEF Piped
      <4>2. e \in Chain(spec, Bound) /\ ReleasePipeline(spec, Bound, e) = NoEnv
        BY <4>1 DEF BuildKargoPromotionPolicies
      <4> QED BY <4>2 DEF Chain
    <3> QED BY <2>2, <2>5, <3>1, <3>2
  <2> QED BY <2>4, <2>5
<1>2. ShownInv /\ IInv => PipelineAsSaved
  BY <1>1, Zenon DEF PipelineAsSaved
<1> QED BY <1>2, ShownAlways, AppLifecycleInvariance, PTL

-----------------------------------------------------------------------------
(* Removals.  They are of environments after the first one, which is the   *)
(* one to get every build if it has a cluster.                             *)

\* Where an app was removed, it is still there, switched off, and without a target.
RemovedInv ==
    \A a \in App, e \in Env : <<a, e>> \in removed =>
        app[a] # Absent /\ app[a].deploy[e] = "off" /\ e # 1 /\ <<a, e>> \notin git.target

LEMMA FirstBound ==
    ASSUME 1 \in Bound
    PROVE  firstDeployEnvs = {1}
<1>1. Bound \in SUBSET Env /\ Bound # {} /\ \A e \in Env : e \in Nat /\ e >= 1
  BY RepoLayoutAssumption DEF Env
<1>2. \E e \in Bound : \A f \in Bound : e <= f
  BY <1>1
<1>3. First(Bound) \in Bound /\ \A f \in Bound : First(Bound) <= f
  BY <1>2 DEF First
<1>4. First(Bound) = 1
  BY <1>1, <1>3
<1> QED BY <1>1, <1>4 DEF firstDeployEnvs

\* A publication adds no target where the app is switched off.
LEMMA TargetsWritten ==
    ASSUME 1 \in Bound, NEW g \in Trees, NEW a \in App, NEW spec \in Specs,
           NEW c \in App, NEW e \in Env, <<c, e>> \notin g.target,
           c # a \/ (spec.deploy[e] = "off" /\ e # 1)
    PROVE  <<c, e>> \notin writeAppTree(g, a, spec).target
<1>1. PICK t : t = writeAppTree(g, a, spec)
  OBVIOUS
<1>2. PICK p \in Trees, envs \in SUBSET Env :
          /\ envs = deployEnvs(p, a, spec)
          /\ Pruned(g, p, a, spec.composed)
          /\ Files(p, t, a, spec.composed, envs)
  BY <1>1, WriteAppTree
<1>3. t.target \subseteq g.target \cup In(a, envs)
  BY <1>2 DEF Pruned, Files
<1>4. spec.deploy[e] = "off" /\ e # 1 => e \notin envs
  <2>1. firstDeployEnvs = {1}
    BY FirstBound
  <2> QED BY <1>2, <2>1 DEF deployEnvs, enabledDeployEnvs, promotedDeployEnvs,
                            releaseRootDeployEnvs, Chain
<1>5. <<c, e>> \notin In(a, envs)
  BY <1>4 DEF In
<1> QED BY <1>1, <1>3, <1>5

LEMMA TargetsRemoved ==
    ASSUME NEW g \in Trees, NEW a \in App
    PROVE  /\ UnpublishApp(g, a).target \subseteq g.target
           /\ \A e \in Env : RemoveAppEnv(g, a, e).target = g.target \ {<<a, e>>}
<1>1. UnpublishApp(g, a).target \subseteq g.target
  BY Unpublishes DEF Unpublished
<1>2. \A e \in Env : RemoveAppEnv(g, a, e).target = g.target \ {<<a, e>>}
  BY Withdraws DEF Withdrawn
<1> QED BY <1>1, <1>2

\* A publication, tried or not, for an app that keeps what is removed switched off.
LEMMA PublicationKeepsRemoved ==
    ASSUME 1 \in Bound, IInv, RemovedInv, NEW a \in App, NEW spec \in Specs, NEW saved \in Specs,
           \/ Publish(a, spec) /\ saved = spec
           \/ NotPublished(a) \/ Unpublishable(a, spec)
           \/ Unanswered(a, spec),
           app' = [app EXCEPT ![a] = saved],
           removed' \subseteq removed,
           \A e \in Env : <<a, e>> \in removed' =>
               saved.deploy[e] = "off" /\ (Unanswered(a, spec) => spec.deploy[e] = "off")
    PROVE  RemovedInv'
<1>1. git \in Trees /\ app \in [App -> Specs \cup {Absent}]
  BY DEF IInv, TypeOK
<1>2. \/ git' = writeAppTree(git, a, spec) /\ (saved = spec \/ Unanswered(a, spec))
      \/ git' = git
  BY DEF Publish, NotPublished, Unpublishable, Unanswered, Unrecorded
<1>3. ASSUME NEW c \in App, NEW e \in Env, <<c, e>> \in removed'
      PROVE  app'[c] # Absent /\ app'[c].deploy[e] = "off" /\ e # 1 /\ <<c, e>> \notin git'.target
  <2>1. app[c] # Absent /\ app[c].deploy[e] = "off" /\ e # 1 /\ <<c, e>> \notin git.target
    BY <1>3 DEF RemovedInv
  <2>2. app'[c] # Absent /\ app'[c].deploy[e] = "off"
    <3>1. CASE c = a
      BY <1>1, <1>3, <3>1, SpecNotAbsent
    <3>2. CASE c # a
      BY <1>1, <2>1, <3>2
    <3> QED BY <3>1, <3>2
  <2>3. <<c, e>> \notin git'.target
    <3>1. CASE git' = git
      BY <2>1, <3>1
    <3>2. CASE git' = writeAppTree(git, a, spec) /\ (saved = spec \/ Unanswered(a, spec))
      <4>1. c # a \/ (spec.deploy[e] = "off" /\ e # 1)
        BY <1>3, <2>1, <3>2
      <4> QED BY <1>1, <2>1, <3>2, <4>1, TargetsWritten
    <3> QED BY <1>2, <3>1, <3>2
  <2> QED BY <2>1, <2>2, <2>3
<1> QED BY <1>3 DEF RemovedInv

\* One whose answer was lost, for an app that is not saved: nobody removed it.
LEMMA TakenBackKeepsRemoved ==
    ASSUME 1 \in Bound, IInv, RemovedInv, NEW a \in App, NEW spec \in Specs, app[a] = Absent,
           Unanswered(a, spec), app' = app, removed' = removed
    PROVE  RemovedInv'
<1>1. git \in Trees /\ git' = writeAppTree(git, a, spec)
  BY DEF IInv, TypeOK, Unanswered
<1>2. ASSUME NEW c \in App, NEW e \in Env, <<c, e>> \in removed'
      PROVE  app'[c] # Absent /\ app'[c].deploy[e] = "off" /\ e # 1 /\ <<c, e>> \notin git'.target
  <2>1. /\ app[c] # Absent /\ app[c].deploy[e] = "off" /\ e # 1 /\ <<c, e>> \notin git.target
        /\ c # a
    BY <1>2 DEF RemovedInv
  <2>2. <<c, e>> \notin git'.target
    BY <1>1, <2>1, TargetsWritten
  <2> QED BY <2>1, <2>2
<1> QED BY <1>2 DEF RemovedInv

LEMMA PublishersKeepRemoved ==
    ASSUME 1 \in Bound, IInv, RemovedInv, NEW a \in App,
           \/ \E spec \in Initial : handleCreateApp(a, spec)
           \/ \E b \in Present : copyAppAs(b, a)
           \/ a \in Present /\ \E new \in Edits(app[a]) : handleUpdateApp(a, new)
           \/ a \in Present /\ handleSyncApp(a)
    PROVE  RemovedInv'
<1>1. CASE \E spec \in Initial : handleCreateApp(a, spec)
  <2>1. PICK spec \in Initial : handleCreateApp(a, spec)
    BY <1>1
  <2>2. /\ spec \in Specs /\ app' = [app EXCEPT ![a] = spec] /\ removed' = removed
        /\ Publish(a, spec) \/ NotPublished(a) \/ Unpublishable(a, spec)
        /\ \A e \in Env : <<a, e>> \notin removed
    BY <2>1, AppLifecycleAssumption DEF handleCreateApp, RemovedInv
  <2> QED BY <2>2, PublicationKeepsRemoved
<1>2. CASE \E b \in Present : copyAppAs(b, a)
  <2>1. PICK b \in Present : copyAppAs(b, a)
    BY <1>2
  <2>2. app[b] \in Specs
    BY SpecOf, Parts
  <2>3. /\ \/ /\ app' = [app EXCEPT ![a] = app[b]]
              /\ Publish(a, app[b]) \/ NotPublished(a)
           \/ Unanswered(a, app[b]) /\ app' = app
        /\ removed' = removed /\ app[a] = Absent
        /\ \A e \in Env : <<a, e>> \notin removed
    BY <2>1 DEF copyAppAs, RemovedInv
  <2> QED BY <2>2, <2>3, PublicationKeepsRemoved, TakenBackKeepsRemoved
<1>3. CASE a \in Present /\ \E new \in Edits(app[a]) : handleUpdateApp(a, new)
  <2>1. PICK new \in Edits(app[a]) : handleUpdateApp(a, new)
    BY <1>3
  <2>2. /\ app[a] \in Specs /\ new \in Specs
        /\ app \in [App -> Specs \cup {Absent}]
    BY <1>3, SpecOf, EditTypes, Parts DEF StoreOK
  <2>3. app[a].deploy \in [Env -> {"default", "on", "off"}]
    BY <2>2 DEF Specs
  <2>4. PICK saved \in Specs :
            /\ app' = [app EXCEPT ![a] = saved]
            /\ \/ Publish(a, new) /\ saved = new
               \/ NotPublished(a) \/ Unpublishable(a, new)
               \/ Unanswered(a, new)
            /\ \/ saved.deploy = new.deploy
               \/ saved.deploy = app[a].deploy /\ app[a].deploy = [e \in Env |-> "default"]
    <3>1. PICK deploy \in [Env -> {"default", "on", "off"}] :
              /\ \/ deploy = new.deploy
                 \/ deploy = app[a].deploy /\ app[a].deploy = [e \in Env |-> "default"]
              /\ \/ app' = [app EXCEPT ![a] = new] /\ (Publish(a, new) \/ NotPublished(a))
                 \/ /\ app' = [app EXCEPT ![a] = RolledBack(app[a], new, deploy)]
                    /\ NotPublished(a) \/ Unpublishable(a, new) \/ Unanswered(a, new)
      BY <2>1, <2>2, <2>3, EditTypes DEF handleUpdateApp
    <3>2. RolledBack(app[a], new, deploy) \in Specs /\ RolledBack(app[a], new, deploy).deploy = deploy
      BY <2>2, <3>1, EditTypes DEF RolledBack, Specs
    <3>3. CASE app' = [app EXCEPT ![a] = new] /\ (Publish(a, new) \/ NotPublished(a))
      BY <2>2, <3>3
    <3>4. CASE /\ app' = [app EXCEPT ![a] = RolledBack(app[a], new, deploy)]
               /\ NotPublished(a) \/ Unpublishable(a, new) \/ Unanswered(a, new)
      BY <3>1, <3>2, <3>4
    <3> QED BY <3>1, <3>3, <3>4
  <2>5. removed' = {r \in removed : r[1] # a \/ app'[a].deploy[r[2]] = "off"}
    BY <2>1 DEF handleUpdateApp
  <2>6. app'[a] = saved
    BY <1>3, <2>2, <2>4
  <2>7. removed' \subseteq removed /\ \A e \in Env : <<a, e>> \in removed' => saved.deploy[e] = "off"
    BY <2>5, <2>6
  <2>8. \A e \in Env : <<a, e>> \in removed' => new.deploy[e] = "off"
    BY <2>4, <2>7
  <2> QED BY <2>2, <2>4, <2>7, <2>8, PublicationKeepsRemoved
<1>4. CASE a \in Present /\ handleSyncApp(a)
  <2>1. app[a] \in Specs /\ app \in [App -> Specs \cup {Absent}]
    BY <1>4, SpecOf, Parts DEF StoreOK
  <2>2. /\ app' = [app EXCEPT ![a] = app[a]] /\ Publish(a, app[a]) /\ removed' = removed
        /\ \A e \in Env : <<a, e>> \in removed => app[a].deploy[e] = "off"
    BY <1>4, <2>1 DEF handleSyncApp, RemovedInv
  <2> QED BY <2>1, <2>2, PublicationKeepsRemoved
<1> QED BY <1>1, <1>2, <1>3, <1>4

LEMMA DeleteKeepsRemoved ==
    ASSUME IInv, RemovedInv, NEW a \in Present, handleDeleteApp(a)
    PROVE  RemovedInv'
<1>1. a \in App /\ git \in Trees /\ app \in [App -> Specs \cup {Absent}]
  BY DEF IInv, TypeOK, Present
<1>2. /\ app' = [app EXCEPT ![a] = Absent] /\ removed' = {r \in removed : r[1] # a}
      /\ git' = git \/ git' = UnpublishApp(git, a)
  BY DEF handleDeleteApp, Unpublish, Unrecorded
<1>3. git'.target \subseteq git.target
  BY <1>1, <1>2, TargetsRemoved
<1>4. \A c \in App, e \in Env : <<c, e>> \in removed' => <<c, e>> \in removed /\ app'[c] = app[c]
  BY <1>1, <1>2
<1> QED BY <1>3, <1>4 DEF RemovedInv

LEMMA RenameKeepsRemoved ==
    ASSUME 1 \in Bound, IInv, RemovedInv, NEW a \in Present, NEW b \in App, handleRenameApp(a, b)
    PROVE  RemovedInv'
<1>1. /\ a \in App /\ app[a] \in Specs /\ git \in Trees /\ app[b] = Absent
      /\ app \in [App -> Specs \cup {Absent}] /\ a # b
  BY SpecOf, Parts DEF RepoOK, StoreOK, Present, handleRenameApp
<1>2. PICK published : published = writeAppTree(git, b, app[a])
  OBVIOUS
<1>3. PICK gone : gone = UnpublishApp(published, a)
  OBVIOUS
<1>4. published \in Trees /\ gone.target \subseteq published.target
  BY <1>1, <1>2, <1>3, WriteAppTree, TargetsRemoved
<1>5. git' \in {git, published, gone}
  BY <1>2, <1>3, Zenon DEF handleRenameApp, NotPublished, Publish, Unanswered, Unrecorded
<1>6. \/ app' = [app EXCEPT ![b] = app[a]] /\ removed' = removed
      \/ app' = app /\ removed' = removed
      \/ app' = [[app EXCEPT ![b] = app[a]] EXCEPT ![a] = Absent]
         /\ removed' = {r \in removed : r[1] # a}
  BY Zenon DEF handleRenameApp
<1>7. ASSUME NEW c \in App, NEW e \in Env, <<c, e>> \in removed'
      PROVE  app'[c] # Absent /\ app'[c].deploy[e] = "off" /\ e # 1 /\ <<c, e>> \notin git'.target
  <2>1. <<c, e>> \in removed /\ (c = a => app' = [app EXCEPT ![b] = app[a]] \/ app' = app)
    BY <1>6, <1>7
  <2>2. app[c] # Absent /\ app[c].deploy[e] = "off" /\ e # 1 /\ <<c, e>> \notin git.target
    BY <2>1 DEF RemovedInv
  <2>3. c # b
    BY <1>1, <2>2
  <2>4. app'[c] = app[c]
    BY <1>1, <1>6, <2>1, <2>3
  <2>5. <<c, e>> \notin published.target
    BY <1>1, <1>2, <2>2, <2>3, TargetsWritten
  <2> QED BY <1>4, <1>5, <2>2, <2>4, <2>5
<1> QED BY <1>7 DEF RemovedInv

LEMMA UndeployKeepsRemoved ==
    ASSUME 1 \in Bound, IInv, RemovedInv, NEW a \in Present, NEW e \in Env,
           handleUndeployAppEnv(a, e)
    PROVE  RemovedInv'
<1>1. /\ a \in App /\ app[a] \in Specs /\ git \in Trees
      /\ app \in [App -> Specs \cup {Absent}]
  BY SpecOf, Parts DEF RepoOK, StoreOK
<1>2. PICK off : off = [app[a] EXCEPT !.deploy[e] = "off"]
  OBVIOUS
<1>3. off \in Specs /\ off.deploy[e] = "off" /\ \A f \in Env \ {e} : off.deploy[f] = app[a].deploy[f]
  BY <1>1, <1>2 DEF Specs
<1>4. [app EXCEPT ![a].deploy[e] = "off"] = [app EXCEPT ![a] = off]
  BY <1>1, <1>2
<1>5. PICK saved : saved = [app EXCEPT ![a] = off]
  OBVIOUS
<1>6. saved[a] = off /\ app' = saved /\ \A c \in App \ {a} : app'[c] = app[c]
  BY <1>1, <1>4, <1>5 DEF handleUndeployAppEnv
<1>7. e # 1
  BY RepoLayoutAssumption DEF handleUndeployAppEnv, Env
<1>8. PICK without : without = RemoveAppEnv(git, a, e)
  OBVIOUS
<1>9. without \in Trees /\ without.target = git.target \ {<<a, e>>}
  BY <1>1, <1>8, Withdraws, TargetsRemoved
<1>10. PICK rebuilt : rebuilt = writeAppTree(without, a, off)
  OBVIOUS
<1>11. \/ git' \in {git, without} /\ removed' = removed
       \/ git' \in {without, rebuilt} /\ removed' = removed \cup {<<a, e>>}
  BY <1>4, <1>5, <1>6, <1>8, <1>10 DEF handleUndeployAppEnv, NotPublished, Unrecorded
<1>12. ASSUME NEW c \in App, NEW f \in Env, <<c, f>> \in removed'
       PROVE  app'[c] # Absent /\ app'[c].deploy[f] = "off" /\ f # 1 /\ <<c, f>> \notin git'.target
  <2>1. CASE <<c, f>> = <<a, e>>
    <3>1. c = a /\ f = e
      BY <2>1
    <3>2. app'[c] # Absent /\ app'[c].deploy[f] = "off" /\ f # 1
      BY <1>3, <1>6, <1>7, <3>1, SpecNotAbsent
    <3>3. <<c, f>> \notin git'.target
      <4>1. CASE git' \in {git, without} /\ removed' = removed
        BY <1>9, <1>12, <4>1 DEF RemovedInv
      <4>2. CASE git' \in {without, rebuilt}
        <5>1. <<c, f>> \notin without.target
          BY <1>9, <2>1
        <5>2. <<c, f>> \notin rebuilt.target
          BY <1>1, <1>3, <1>7, <1>9, <1>10, <3>1, <5>1, TargetsWritten
        <5> QED BY <4>2, <5>1, <5>2
      <4> QED BY <1>11, <4>1, <4>2
    <3> QED BY <3>2, <3>3
  <2>2. CASE <<c, f>> # <<a, e>>
    <3>1. <<c, f>> \in removed
      BY <1>11, <1>12, <2>2
    <3>2. app[c] # Absent /\ app[c].deploy[f] = "off" /\ f # 1 /\ <<c, f>> \notin git.target
      BY <3>1 DEF RemovedInv
    <3>3. c # a \/ off.deploy[f] = "off"
      BY <1>3, <2>2, <3>2
    <3>4. app'[c] # Absent /\ app'[c].deploy[f] = "off"
      BY <1>3, <1>6, <3>2, <3>3, SpecNotAbsent
    <3>5. <<c, f>> \notin without.target
      BY <1>9, <3>2
    <3>6. <<c, f>> \notin rebuilt.target
      BY <1>1, <1>3, <1>9, <1>10, <3>2, <3>3, <3>5, TargetsWritten
    <3> QED BY <1>11, <3>2, <3>4, <3>5, <3>6
  <2> QED BY <2>1, <2>2
<1> QED BY <1>12 DEF RemovedInv

\* Preparing an environment is of one that is not switched off.
LEMMA OtherStepsKeepRemoved ==
    ASSUME IInv, RemovedInv, NEW a \in App,
           \/ a \in Present /\ \E e \in Env : promoteAppEnv(a, e)
           \/ a \in Present /\ \E base \in Bases : upsertAppPreview(a, base)
           \/ a \in Present /\ handleDeleteAppPreview(a)
           \/ \E e \in Env : KargoPromotes(a, e)
    PROVE  RemovedInv'
<1>1. /\ git \in Trees /\ Bases \subseteq Env /\ preview \in [App -> Env \cup {NoEnv}]
      /\ app \in [App -> Specs \cup {Absent}]
  BY AppLifecycleAssumption DEF IInv, TypeOK
<1>2. app' = app /\ removed' = removed
  BY DEF promoteAppEnv, upsertAppPreview, handleDeleteAppPreview, KargoPromotes
<1>3. a \in Present => app[a] \in Specs
  BY SpecOf, Parts
<1>4. CASE a \in Present /\ \E e \in Env : promoteAppEnv(a, e)
  <2>1. PICK e \in Env : promoteAppEnv(a, e)
    BY <1>4
  <2>2. CASE git' = git
    BY <1>2, <2>2 DEF RemovedInv
  <2>3. CASE git' = PrepareAppEnv(git, a, app[a], e)
    <3>1. git' = publishEnvFiles(git, a, app[a], {e}, TRUE) /\ {e} \in SUBSET Env
      BY <2>3 DEF PrepareAppEnv
    <3>2. Files(git, git', a, app[a].composed, {e})
      BY <1>1, <1>3, <1>4, <3>1, EnvFiles
    <3>3. git'.target \subseteq git.target \cup {<<a, e>>}
      BY <3>2 DEF Files, In
    <3>4. app[a].deploy[e] # "off"
      BY <2>1 DEF promoteAppEnv
    <3>5. <<a, e>> \notin removed
      BY <3>4 DEF RemovedInv
    <3> QED BY <1>2, <3>3, <3>5 DEF RemovedInv
  <2> QED BY <2>1, <2>2, <2>3 DEF promoteAppEnv, Unrecorded
<1>5. CASE ~(a \in Present /\ \E e \in Env : promoteAppEnv(a, e))
  <2>1. \/ git' = git
        \/ \E e \in Env : git' = activatePreparedRelease(git, a, e)
        \/ \E base \in Env :
              git' = PublishPreview(git, a, app[a], base) \/ git' = DeletePreview(git, a, base)
    BY <1>1, <1>5 DEF upsertAppPreview, handleDeleteAppPreview, KargoPromotes, Unrecorded
  <2>2. git' = git \/ SameFiles(git, git')
    BY <1>1, <2>1, Activates, Previews
  <2>3. git'.target = git.target
    BY <2>2 DEF SameFiles
  <2> QED BY <1>2, <2>3 DEF RemovedInv
<1> QED BY <1>4, <1>5

LEMMA NextKeepsRemoved ==
    1 \in Bound /\ IInv /\ RemovedInv /\ [Next]_vars => RemovedInv'
<1> SUFFICES ASSUME 1 \in Bound, IInv, RemovedInv, [Next]_vars PROVE RemovedInv'
  OBVIOUS
<1>1. CASE UNCHANGED vars
  BY <1>1 DEF RemovedInv, vars
<1>2. CASE Next
  <2>1. Present \subseteq App
    BY DEF Present
  <2> QED BY <1>2, <2>1, PublishersKeepRemoved, DeleteKeepsRemoved, RenameKeepsRemoved,
             UndeployKeepsRemoved, OtherStepsKeepRemoved DEF Next
<1> QED BY <1>1, <1>2

\* Where an app was removed nothing brings its target back until the environment is
\* switched on again, if the first environment has a cluster: without one, the first
\* environment that has can be removed, and the next publication deploys there again.
THEOREM RemovedStaysRemovedAlways ==
    ASSUME 1 \in Bound
    PROVE  Spec => []RemovedStaysRemoved
<1>1. Init => RemovedInv
  BY DEF Init, RemovedInv
<1>2. IInv /\ RemovedInv /\ [Next]_vars => RemovedInv'
  BY NextKeepsRemoved
<1>3. IInv /\ RemovedInv => RemovedStaysRemoved
  <2>1. IInv => removed \subseteq AppEnvs
    BY DEF IInv, TypeOK
  <2> QED BY <2>1 DEF RemovedInv, RemovedStaysRemoved, AppEnvs
<1> QED BY <1>1, <1>2, <1>3, AppLifecycleInvariance, PTL DEF Spec
=============================================================================
