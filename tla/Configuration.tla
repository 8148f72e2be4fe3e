---------------------------- MODULE Configuration ----------------------------
(***************************************************************************)
(* The variables that apps are configured with, and where they run         *)
(* (internal/server/env_config_handler.go, org_env_handler.go,             *)
(* stack_handler.go; buildAppBundle of cmd/suparship/server.go).           *)
(*                                                                         *)
(* A variable may be set in ten layers, kept in the organisation, the      *)
(* project, the stack, the app and the cluster; the highest one wins.  A   *)
(* request edits a layer and leaves it to a goroutine to publish the apps  *)
(* that the layer applies to.  The goroutine lists the apps once, then     *)
(* reads the layers and publishes app by app, beside other requests and    *)
(* their goroutines.  It tries once, reports nothing, and dies with the    *)
(* server.                                                                 *)
(*                                                                         *)
(* One variable, one project, one environment, one stack.  Of a layer only *)
(* whether it sets the variable matters: its value is its own.             *)
(***************************************************************************)
EXTENDS Naturals, FiniteSets

CONSTANTS
    App, Cluster,
    Choices,     \* bound: the bindings that an operator may give the environment
    Selections,  \* bound: the clusters of it that apps select
    Slot,        \* bound: the goroutines at a time
    MaxEdits,    \* bound: requests
    MaxFaults    \* bound: failing calls, dying servers

None    == "none"
Missing == [absent |-> TRUE]

ASSUME ConfigurationAssumption ==
    /\ IsFiniteSet(App) /\ IsFiniteSet(Cluster) /\ None \notin App \cup Cluster
    /\ MaxEdits \in Nat /\ MaxFaults \in Nat

\* The layers, lowest first, and the object that each is kept in.
Layers == <<"org", "env", "project", "projectEnv", "stack", "stackEnv", "app", "appEnv",
            "cluster", "clusterEnv">>

OrgLayers     == {"org", "env"}
ProjectLayers == {"project", "projectEnv"}
StackLayers   == {"stack", "stackEnv"}
AppLayers     == {"app", "appEnv"}
ClusterLayers == {"cluster", "clusterEnv"}

\* What the environment is bound to: ClusterRefs, ActiveClusterRef, and whether
\* its DeployMode is "all".
Refs     == {r \in UNION {[1..n -> Cluster] : n \in 0..Cardinality(Cluster)} :
                \A i, j \in DOMAIN r : r[i] = r[j] => i = j}
Bindings == {b \in [refs : Refs, active : Cluster \cup {None}, all : BOOLEAN] :
                /\ b.active = None \/ \E i \in DOMAIN b.refs : b.refs[i] = b.active
                /\ b.all => b.refs # <<>>}

ASSUME ChoicesAssumption == Choices \subseteq Bindings

\* TargetClusters of an app: none, some clusters, or all of the environment.
AllClusters  == {"*"}
TargetChoice == SUBSET Cluster \cup {AllClusters}

ASSUME SelectionsAssumption == Selections \subseteq TargetChoice /\ "*" \notin Cluster

AppSpecs == [vars : SUBSET AppLayers, member : BOOLEAN, select : TargetChoice]
Values   == [layer : {Layers[i] : i \in DOMAIN Layers} \cup {None}, cluster : Cluster \cup {None}]
Items    == App \cup Cluster \cup {"shared"}

\* What is published of an app: the clusters that it runs on, and one ConfigMap and
\* one ExternalSecret, which go to each of them: its variable, and the items of the
\* vault to extract.  Without a cluster it runs where Suparship does.  History
\* variable: whether the app follows the environment, which is on one cluster.
Published == [targets : SUBSET Cluster, value : Values, items : SUBSET Items, follows : BOOLEAN]

VARIABLES
    org,       \* its layers, and the binding of the environment
    project,   \* the layers set in the project,
    stack,     \* in the stack,
    cluster,   \* and in each cluster
    app,       \* the saved apps
    vault,     \* the items of the secrets backend: "none", "empty" or "keys"
    git,       \* what is published of each app
    job,       \* the goroutines, and requests that publish by themselves
    edits, faults,
    owed       \* history variable: the apps whose publication failed, was overtaken
               \* by an edit or is left to the operator

layers == <<org, project, stack, cluster, app>>
confVars == <<layers, vault, git, job, edits, faults, owed>>

Unused == [at |-> "idle"]
Busy ==
    [at : {"load", "next", "read", "commit", "unpublish"},
     op : {"apps", "cluster", "app", "members", "given", "startup", "delete"},
     app : App \cup {None}, cluster : Cluster \cup {None},
     todo : [App -> AppSpecs \cup {Missing}],
     targets : SUBSET Cluster, follows : BOOLEAN, pub : Published \cup {Missing},
     fresh : SUBSET App]   \* history variable: apps not edited since they were read

ConfTypeOK ==
    /\ org \in [vars : SUBSET OrgLayers, binding : Bindings]
    /\ project \in SUBSET ProjectLayers /\ stack \in SUBSET StackLayers
    /\ cluster \in [Cluster -> SUBSET ClusterLayers]
    /\ app \in [App -> AppSpecs \cup {Missing}]
    /\ vault \in [Items -> {"none", "empty", "keys"}]
    /\ git \in [App -> Published \cup {Missing}]
    /\ job \in [Slot -> {Unused} \cup Busy]
    /\ edits \in 0..MaxEdits /\ faults \in 0..MaxFaults
    /\ owed \in SUBSET App

-----------------------------------------------------------------------------
(* Where the environment runs, and what the variable is.                   *)

EffectiveClusterRef(b) ==
    IF b.active # None THEN b.active ELSE IF b.refs # <<>> THEN b.refs[1] ELSE None

RefsOf(b) == {b.refs[i] : i \in DOMAIN b.refs}

\* Mutant: the first cluster, whichever is active.
TargetsFirst(b) == IF b.all THEN RefsOf(b) ELSE IF b.refs = <<>> THEN {} ELSE {b.refs[1]}

ResolveDeployTargets(b) ==
    IF b.all THEN RefsOf(b) ELSE {EffectiveClusterRef(b)} \ {None}

Bound(b) == EffectiveClusterRef(b) # None

\* The clusters that an app selects among all that are known, or else those of the
\* environment.
appClusterTargets(select, clusters, all) ==
    LET chosen == all \cap (CASE select = {} -> clusters
                             [] select = AllClusters -> all
                             [] OTHER -> select)
    IN  IF chosen # {} THEN chosen ELSE clusters

TargetsOf(spec, b) == appClusterTargets(spec.select, ResolveDeployTargets(b), RefsOf(b))

Follows(spec, b) == spec.select = {} /\ ~b.all

\* The layers that apply to an app and set the variable.
Set(spec, c) ==
    UNION {org.vars, project, spec.vars, IF spec.member THEN stack ELSE {},
           IF c # None THEN cluster[c] ELSE {}}

Value(layer, c) == [layer |-> layer, cluster |-> IF layer \in ClusterLayers THEN c ELSE None]

\* Each layer overrides those below it: the highest one counts.
Highest(set) ==
    IF set = {} THEN None
    ELSE Layers[CHOOSE i \in DOMAIN Layers :
                   /\ Layers[i] \in set
                   /\ \A k \in DOMAIN Layers : Layers[k] \in set => k <= i]

\* Mutant: without the project's variables for the environment.
MergedWithoutProjectEnv(spec, c, unread) ==
    Value(Highest(Set(spec, c) \ (unread \cup {"projectEnv"})), c)

\* mergeAllEnvVars: the layers one over the other; one that cannot be read counts
\* as empty.
mergeAllEnvVars(spec, c, unread) == Value(Highest(Set(spec, c) \ unread), c)

\* handleGetResolvedEnvConfig shows which level wins; the two layers of a cluster
\* are one level to it.
Level(l) ==
    CASE l = "org"   -> 1 [] l = "env"      -> 2
      [] l = "project" -> 3 [] l = "projectEnv" -> 4
      [] l = "stack" -> 5 [] l = "stackEnv" -> 6
      [] l = "app"   -> 7 [] l = "appEnv"   -> 8
      [] OTHER -> 9

ResolveEnvLayers(spec) ==
    LET c    == EffectiveClusterRef(org.binding)
        set  == Set(spec, c)
        wins == {l \in set : \A k \in set : Level(k) <= Level(l)}
    IN  CASE wins = {}             -> Value(None, c)
          [] "clusterEnv" \in wins -> Value("clusterEnv", c)
          [] OTHER                 -> Value(CHOOSE l \in wins : TRUE, c)

-----------------------------------------------------------------------------
\* The apps have been published, while the vault did not answer; nothing is set yet.
\* What they select may be left from when the environment had other clusters.
ConfInit ==
    /\ app \in [App -> [vars : {{}}, member : {FALSE}, select : Selections]]
    /\ \E c \in Cluster :
          /\ org = [vars |-> {}, binding |-> [refs |-> <<c>>, active |-> None, all |-> FALSE]]
          /\ git = [a \in App |-> [targets |-> {c}, value |-> Value(None, None), items |-> {},
                                   follows |-> app[a].select = {}]]
    /\ project = {} /\ stack = {} /\ cluster = [c \in Cluster |-> {}]
    /\ vault = [i \in Items |-> "none"]
    /\ job = [s \in Slot |-> Unused]
    /\ edits = 0 /\ faults = 0
    /\ owed = {}

Fault == faults < MaxFaults /\ faults' = faults + 1

\* The other member of {} or {x}.
Toggled(set, x) == IF x \in set THEN set \ {x} ELSE set \cup {x}

Nothing == [a \in App |-> Missing]
Saved   == {a \in App : app[a] # Missing}

\* An edit of what applies to some apps: what has been read of them is old now.
Overtaken(apps) ==
    [s \in Slot |-> IF job[s].at = "idle" THEN Unused ELSE [job[s] EXCEPT !.fresh = @ \ apps]]

NewJob(op, a, c, at, todo) ==
    [at |-> at, op |-> op, app |-> a, cluster |-> c, todo |-> todo, targets |-> {},
     follows |-> FALSE, pub |-> Missing, fresh |-> App]

\* A request that edits what applies to some apps, and starts a goroutine.
Edit(apps, new) ==
    /\ edits < MaxEdits /\ edits' = edits + 1
    /\ \E s \in Slot : job[s].at = "idle" /\ job' = [Overtaken(apps) EXCEPT ![s] = new]
    /\ UNCHANGED <<git, faults>>

\* One that starts none.
QuietEdit(apps) ==
    /\ edits < MaxEdits /\ edits' = edits + 1
    /\ job' = Overtaken(apps)
    /\ UNCHANGED <<git, faults>>

-----------------------------------------------------------------------------
(* Requests.                                                               *)

handlePutOrgEnvConfig(l) ==
    /\ l \in OrgLayers
    /\ org' = [org EXCEPT !.vars = Toggled(@, l)]
    /\ Edit(App, NewJob("apps", None, None, "load", Nothing))
    /\ UNCHANGED <<project, stack, cluster, app, vault, owed>>

handlePutProjectEnvConfig(l) ==
    /\ l \in ProjectLayers
    /\ project' = Toggled(project, l)
    /\ Edit(App, NewJob("apps", None, None, "load", Nothing))
    /\ UNCHANGED <<org, stack, cluster, app, vault, owed>>

handlePutAppEnvConfig(a, l) ==
    /\ a \in Saved /\ l \in AppLayers
    /\ app' = [app EXCEPT ![a].vars = Toggled(@, l)]
    /\ Edit({a}, NewJob("app", a, None, "load", Nothing))
    /\ UNCHANGED <<org, project, stack, cluster, vault, owed>>

handlePutClusterEnvConfig(c, l) ==
    /\ l \in ClusterLayers
    /\ cluster' = [cluster EXCEPT ![c] = Toggled(@, l)]
    /\ Edit(App, NewJob("cluster", None, c, "load", Nothing))
    /\ UNCHANGED <<org, project, stack, app, vault, owed>>

\* The request publishes the members itself.
handlePatchStack(l) ==
    /\ l \in StackLayers
    /\ stack' = Toggled(stack, l)
    /\ Edit({a \in Saved : app[a].member}, NewJob("members", None, None, "load", Nothing))
    /\ UNCHANGED <<org, project, cluster, app, vault, owed>>

\* And so does this one, with the app as it has saved it.
handleSetAppStack(a) ==
    LET spec == [app[a] EXCEPT !.member = ~@] IN
    /\ a \in Saved
    /\ app' = [app EXCEPT ![a] = spec]
    /\ Edit({a}, NewJob("given", a, None, "next", [Nothing EXCEPT ![a] = spec]))
    /\ UNCHANGED <<org, project, stack, cluster, vault, owed>>

\* The members run on other clusters of the environment.  All are saved first; then
\* the request publishes them.
handleSetStackTargetClusters(select) ==
    LET members == {a \in Saved : app[a].member}
        Moved(a) == IF a \in members THEN [app[a] EXCEPT !.select = select] ELSE Missing
    IN
    /\ select = AllClusters \/ RefsOf(org.binding) = {} \/ select \subseteq RefsOf(org.binding)
    /\ members # {}
    /\ app' = [a \in App |-> IF a \in members THEN Moved(a) ELSE app[a]]
    /\ Edit(members, NewJob("given", None, None, "next", [a \in App |-> Moved(a)]))
    /\ UNCHANGED <<org, project, stack, cluster, vault, owed>>

handleDeleteApp(a) ==
    /\ a \in Saved
    /\ app' = [app EXCEPT ![a] = Missing]
    /\ Edit({a}, NewJob("delete", a, None, "unpublish", Nothing))
    /\ UNCHANGED <<org, project, stack, cluster, vault, owed>>

envWorkloadRelocated(b, d) == EffectiveClusterRef(b) # EffectiveClusterRef(d)

\* A change that moves the apps to another cluster is saved, and the operator is to
\* publish them deliberately; any other is published.
handleUpdateOrgEnvironment(b) ==
    /\ b # org.binding
    /\ org' = [org EXCEPT !.binding = b]
    /\ IF envWorkloadRelocated(org.binding, b)
       THEN QuietEdit(App) /\ owed' = App
       ELSE Edit(App, NewJob("apps", None, None, "load", Nothing)) /\ UNCHANGED owed
    /\ UNCHANGED <<project, stack, cluster, app, vault>>

\* The value of a secret is not part of a publication.
handleUpsertSecrets(i) ==
    /\ vault[i] # "keys"
    /\ vault' = [vault EXCEPT ![i] = "keys"]
    /\ QuietEdit({})
    /\ UNCHANGED <<layers, owed>>

\* The last key; the item stays.
handleDeleteSecret(i) ==
    /\ vault[i] = "keys"
    /\ vault' = [vault EXCEPT ![i] = "empty"]
    /\ QuietEdit({})
    /\ UNCHANGED <<layers, owed>>

-----------------------------------------------------------------------------
(* The goroutines.                                                         *)

Goes(s, step)  == job' = [job EXCEPT ![s].at = step]
Finishes(s)    == job' = [job EXCEPT ![s] = Unused]

\* Whom a goroutine publishes, as saved now.
Snapshot(s) ==
    LET j    == job[s]
        apps == CASE j.op = "app"     -> {j.app}
                  [] j.op = "members" -> {a \in Saved : app[a].member}
                  [] j.op = "cluster" -> IF j.cluster \in RefsOf(org.binding) THEN App ELSE {}
                  [] OTHER            -> App
    IN  [a \in App |-> IF a \in apps THEN app[a] ELSE Missing]

\* ListApps, or GetApp; without it nothing is published.
Load(s) ==
    /\ job[s].at = "load"
    /\ \/ /\ job' = [job EXCEPT ![s].at = "next", ![s].todo = Snapshot(s), ![s].fresh = App]
          /\ UNCHANGED <<faults, owed>>
       \/ /\ Fault /\ Finishes(s)
          /\ owed' = owed \cup {a \in App : job[s].op = "app" => a = job[s].app}
    /\ UNCHANGED <<layers, vault, git, edits>>

\* The stored environments of the app; a goroutine leaves an app without them
\* alone, a request and the start of the server take those of the organisation.
HasEnvironments(s, a) == a \in Saved \/ job[s].op \in {"members", "given", "startup"}

\* The next app, and where it runs: resolveEnvs, which looks every cluster up, and
\* appClusterTargets.  What is not bound is not published, nor is what a failing read
\* makes look so; a cluster whose own look-up fails is left out.
NextApp(s, a) ==
    LET spec    == job[s].todo[a]
        b       == org.binding
        passed  == [job[s].todo EXCEPT ![a] = Missing]
        deploys == HasEnvironments(s, a) /\ Bound(b)
        Resolved(targets, fresh) ==
            [job EXCEPT ![s].at = "read", ![s].app = a, ![s].targets = targets,
                        ![s].follows = Follows(spec, b), ![s].fresh = fresh]
    IN
    /\ job[s].at = "next" /\ spec # Missing
    /\ \/ /\ job' = IF deploys THEN Resolved(TargetsOf(spec, b), job[s].fresh)
                    ELSE [job EXCEPT ![s].todo = passed]
          /\ UNCHANGED <<faults, owed>>
       \/ /\ Fault /\ owed' = owed \cup {a}
          /\ job' = [job EXCEPT ![s].todo = passed]
       \/ /\ Fault /\ deploys /\ UNCHANGED owed
          /\ \E clusters \in SUBSET ResolveDeployTargets(b), all \in SUBSET RefsOf(b) :
                job' = Resolved(appClusterTargets(spec.select, clusters, all), job[s].fresh \ {a})
    /\ UNCHANGED <<layers, vault, git, edits>>

NoMoreApps(s) ==
    /\ job[s].at = "next" /\ job[s].todo = Nothing
    /\ Finishes(s)
    /\ UNCHANGED <<layers, vault, git, edits, faults, owed>>

\* EnsureItem.
Ensured(i) == IF vault[i] = "none" THEN [vault EXCEPT ![i] = "empty"] ELSE vault

\* Mutant: the item of the app, ensured or not.
ItemsAnyway(a, c, ensured) ==
    {i \in {a, "shared", c} \ {None} : vault[i] = "keys"} \cup {a}

\* The items to extract: the app's own if it could be ensured, and any other that
\* has keys.
ItemsOf(a, c, ensured) ==
    {i \in {a, "shared", c} \ {None} : vault[i] = "keys"} \cup (IF ensured THEN {a} ELSE {})

Reads(s, c, items, unread) ==
    LET j == job[s] IN
    job' = [job EXCEPT ![s].at = "commit",
               ![s].pub = [targets |-> j.targets, items |-> items, follows |-> j.follows,
                           value |-> mergeAllEnvVars(j.todo[j.app], c, unread)],
               ![s].todo[j.app] = Missing,
               ![s].fresh = IF unread = {} THEN @ ELSE @ \ {j.app}]

\* enrichPubEnvWithSecrets and mergeAllEnvVars, with the organisation read again.
ReadLayers(s) ==
    LET a == job[s].app
        c == EffectiveClusterRef(org.binding)
    IN
    /\ job[s].at = "read"
    /\ \/ Reads(s, c, ItemsOf(a, c, TRUE), {}) /\ vault' = Ensured(a) /\ UNCHANGED faults
       \/ Fault /\ Reads(s, c, ItemsOf(a, c, FALSE), {}) /\ UNCHANGED vault
       \/ /\ Fault
          /\ \E unread \in {ProjectLayers, StackLayers, {"cluster"}, {"clusterEnv"}} :
                Reads(s, c, ItemsOf(a, c, TRUE), unread) /\ vault' = Ensured(a)
       \/ Fault /\ Reads(s, None, {}, OrgLayers) /\ UNCHANGED vault
    /\ UNCHANGED <<layers, git, edits, owed>>

PublishApp(s) ==
    LET a == job[s].app IN
    /\ job[s].at = "commit"
    /\ job' = [job EXCEPT ![s].at = "next", ![s].pub = Missing]
    /\ \/ /\ git' = [git EXCEPT ![a] = job[s].pub]
          /\ owed' = IF a \in job[s].fresh THEN owed \ {a} ELSE owed \cup {a}
          /\ UNCHANGED faults
       \/ Fault /\ owed' = owed \cup {a} /\ UNCHANGED git
    /\ UNCHANGED <<layers, vault, edits>>

Unpublish(s) ==
    LET a == job[s].app IN
    /\ job[s].at = "unpublish"
    /\ Finishes(s)
    /\ \/ git' = [git EXCEPT ![a] = Missing] /\ owed' = owed \ {a} /\ UNCHANGED faults
       \/ Fault /\ owed' = owed \cup {a} /\ UNCHANGED git
    /\ UNCHANGED <<layers, vault, edits>>

\* The server dies.  When it starts it publishes everything again if what it
\* generates has changed.
Restart ==
    LET running == {s \in Slot : job[s].at # "idle"} IN
    /\ Fault
    /\ running # {}
    /\ owed' = App
    /\ \/ job' = [s \in Slot |-> Unused]
       \/ \E s \in Slot : job' = [r \in Slot |->
             IF r = s THEN NewJob("startup", None, None, "load", Nothing) ELSE Unused]
    /\ UNCHANGED <<layers, vault, git, edits>>

-----------------------------------------------------------------------------
ConfNext ==
    \/ \E l \in {Layers[i] : i \in DOMAIN Layers} :
          \/ handlePutOrgEnvConfig(l) \/ handlePutProjectEnvConfig(l) \/ handlePatchStack(l)
          \/ \E a \in App : handlePutAppEnvConfig(a, l)
          \/ \E c \in Cluster : handlePutClusterEnvConfig(c, l)
    \/ \E a \in App : handleSetAppStack(a) \/ handleDeleteApp(a)
    \/ \E select \in Selections : handleSetStackTargetClusters(select)
    \/ \E b \in Choices : handleUpdateOrgEnvironment(b)
    \/ \E i \in Items : handleUpsertSecrets(i) \/ handleDeleteSecret(i)
    \/ \E s \in Slot :
          \/ Load(s) \/ NoMoreApps(s) \/ ReadLayers(s) \/ PublishApp(s) \/ Unpublish(s)
          \/ \E a \in App : NextApp(s, a)
    \/ Restart

ConfSpec == ConfInit /\ [][ConfNext]_confVars

-----------------------------------------------------------------------------
(* Properties.                                                             *)

\* When no goroutine is left, every app is in Git with the clusters it selects of those
\* it is bound to, and the value that the resolved view of its configuration shows, and
\* an app that was deleted is not; only an app whose last publication failed, was
\* overtaken by an edit, or moves to another cluster is excepted
\* (scheduleRepublish*, handleGetResolvedEnvConfig).
Agrees ==
    (\A s \in Slot : job[s].at = "idle") =>
        \A a \in App \ owed :
            IF a \notin Saved THEN git[a] = Missing
            ELSE Bound(org.binding) =>
                /\ git[a].targets = TargetsOf(app[a], org.binding)
                /\ git[a].value = ResolveEnvLayers(app[a])

\* An app that follows an environment on one cluster has the variables of no other
\* cluster, though targets and variables are read from the organisation one after the
\* other.  Excepted is what a failing read or a change of the environment overtook; an
\* app that selects its clusters, or runs on all of them, gets everywhere the variables
\* of the active one (resolveEnvs, enrichPubEnvWithSecrets; see ClusterOverrides).
OwnCluster ==
    \A a \in App \ owed :
        git[a] # Missing /\ git[a].follows /\ git[a].value.cluster # None =>
            git[a].targets = {git[a].value.cluster}

\* "values written here override the global and env scopes ... for apps deployed onto
\* this specific cluster" (ClusterSettings.tsx): whichever clusters a published app runs
\* on, on each of them it has the value that this cluster's layers give.
ClusterOverrides ==
    (\A s \in Slot : job[s].at = "idle") =>
        \A a \in Saved \ owed : \A c \in git[a].targets :
            Bound(org.binding) => git[a].value = mergeAllEnvVars(app[a], c, {})

\* A published ExternalSecret extracts no item that is missing in the vault, where
\* it would fail as a whole: not after failing calls, nor when its keys are deleted
\* later (ScopePresence).
ItemsExist ==
    \A a \in App : git[a] # Missing => \A i \in git[a].items : vault[i] # "none"
=============================================================================
