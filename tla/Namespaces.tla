------------------------------ MODULE Namespaces ------------------------------
(***************************************************************************)
(* The namespaces that apps run in (internal/server/namespace_ownership.go,*)
(* stack_handler.go, project_handler.go and app_handler.go).               *)
(*                                                                         *)
(* An app has a namespace of its own, the project's, or one that a stack   *)
(* shares among its members.  Suparship labels the namespaces that it      *)
(* creates, and deletes only such: when an app moves out of one, when its  *)
(* stack is deleted with its apps, and when the project is deleted.        *)
(*                                                                         *)
(* One request at a time, each of many calls, any of which may fail or be  *)
(* the last before the server dies; beside it the goroutine that tears down*)
(* a deleted project, and Argo CD.  One project, one environment with its  *)
(* cluster, and the default patterns for names.                            *)
(***************************************************************************)
EXTENDS Naturals, FiniteSets

CONSTANTS
    App,          \* names of apps
    Stack,        \* names of stacks
    Scopes,       \* what an app may be created with: "app", "project"
    External,     \* namespaces that someone else has created
    CanCount,     \* does the server read Argo CD's Applications?
    MaxRequests,  \* bound: requests
    MaxFaults     \* bound: failing calls, dying servers

\* {project}-{app}-{env}, {project}-{stack}-{env} and {project}-{env}: an app and a
\* stack of the same name have the same.
Shared    == "shared"
Namespace == App \cup Stack \cup {Shared}
Nowhere   == "nowhere"
NoStack   == "nostack"
Absent    == [absent |-> TRUE]

ASSUME NamespacesAssumption ==
    /\ IsFiniteSet(App) /\ {Shared, Nowhere, NoStack} \cap (App \cup Stack) = {}
    /\ Scopes \subseteq {"app", "project"} /\ External \subseteq Namespace
    /\ CanCount \in BOOLEAN
    /\ MaxRequests \in Nat /\ MaxFaults \in Nat

Specs  == [scope : {"app", "project"}, stack : Stack \cup {NoStack}]
Foreign == [owned |-> FALSE, stack |-> NoStack]
Labels == {Foreign} \cup [owned : {TRUE}, stack : Stack \cup {NoStack}]

VARIABLES
    app,         \* the saved apps
    home,        \* the namespace in the saved environment of each app
    stack,       \* the saved stacks: do they share a namespace?
    label,       \* the namespaces of the cluster, by their labels
    target,      \* the namespace for which each app is in the repository
    appProject,  \* is the AppProject in the repository?
    running,     \* the namespace in which Argo CD runs each app
    project,     \* does the project exist?
    teardown,    \* the step of the goroutine that tears a project down
    req,         \* the request in progress
    requests, faults,
    again        \* history variable: apps published since the project was deleted

store   == <<app, home, stack>>
cluster == <<label, running>>
repo    == <<target, appProject>>
deleted == <<project, teardown>>
vars    == <<store, cluster, repo, deleted, req, requests, faults, again>>

Idle == [at |-> "idle"]
Busy ==
    [at : {"next", "resolve", "ensure", "publish", "unpublish", "reclaim", "end", "sweep"},
     op : {"create", "sync", "delete", "move", "rename", "patch", "detach", "drop"},
     app : App, as : App, stack : Stack \cup {NoStack}, todo : SUBSET App,
     from : Namespace \cup {Nowhere}, to : Namespace \cup {Nowhere}]
Reqs == {Idle} \cup Busy

TypeOK ==
    /\ app \in [App -> Specs \cup {Absent}]
    /\ home \in [App -> Namespace \cup {Nowhere}]
    /\ stack \in [Stack -> [shared : BOOLEAN] \cup {Absent}]
    /\ label \in [Namespace -> Labels \cup {Absent}]
    /\ target \in [App -> Namespace \cup {Nowhere}] /\ appProject \in BOOLEAN
    /\ running \in [App -> Namespace \cup {Nowhere}]
    /\ project \in BOOLEAN /\ teardown \in {"none", "apps", "wait", "infra", "namespaces"}
    /\ req \in Reqs
    /\ requests \in 0..MaxRequests /\ faults \in 0..MaxFaults
    /\ again \in SUBSET App

Init ==
    /\ app = [a \in App |-> Absent] /\ home = [a \in App |-> Nowhere]
    /\ stack = [s \in Stack |-> Absent]
    /\ label = [n \in Namespace |-> IF n \in External THEN Foreign ELSE Absent]
    /\ target = [a \in App |-> Nowhere] /\ appProject = FALSE
    /\ running = [a \in App |-> Nowhere]
    /\ project = TRUE /\ teardown = "none"
    /\ req = Idle
    /\ requests = 0 /\ faults = 0
    /\ again = {}

-----------------------------------------------------------------------------
Fault == faults < MaxFaults /\ faults' = faults + 1

\* The stack of the app, if it shares its namespace.
sharedStackName(spec) ==
    IF spec.stack # NoStack /\ stack[spec.stack] # Absent /\ stack[spec.stack].shared
    THEN spec.stack ELSE NoStack

ResolveNamespace(a, spec) ==
    IF sharedStackName(spec) # NoStack THEN spec.stack
    ELSE IF spec.scope = "project" THEN Shared
    ELSE a

\* Mutant: a namespace that is there already is labelled as well.
Stamped(n, s) == [label EXCEPT ![n] = [owned |-> TRUE, stack |-> s]]

\* A namespace that is there is adopted as it is.
EnsureNamespaceOwned(n, s) ==
    IF label[n] = Absent THEN [label EXCEPT ![n] = [owned |-> TRUE, stack |-> s]] ELSE label

\* Suparship has created it.
Owned(n) == label[n] # Absent /\ label[n].owned

\* Owned, and no namespace that a stack shares.
AppExclusive(n) == Owned(n) /\ label[n].stack = NoStack

Members(s) == {a \in App : app[a] # Absent /\ app[a].stack = s}

-----------------------------------------------------------------------------
(* Requests.                                                               *)

At(step)   == req.at = step
GoTo(step) == req' = [req EXCEPT !.at = step]
Done       == req' = Idle

\* All that is known of the request when it begins.
Request(step, op, a, b, s, todo) ==
    /\ At("idle")
    /\ requests < MaxRequests /\ requests' = requests + 1
    /\ req' = [at |-> step, op |-> op, app |-> a, as |-> b, stack |-> s, todo |-> todo,
               from |-> Nowhere, to |-> Nowhere]
    /\ UNCHANGED <<cluster, repo, deleted, faults, again>>

handleCreateApp(a, scope) ==
    LET spec == [scope |-> scope, stack |-> NoStack] IN
    /\ app[a] = Absent
    /\ app' = [app EXCEPT ![a] = spec]
    /\ Request("resolve", "create", a, a, NoStack, {})
    /\ UNCHANGED <<home, stack>>

handleSyncApp(a) ==
    /\ app[a] # Absent
    /\ Request("resolve", "sync", a, a, NoStack, {})
    /\ UNCHANGED store

\* The spec is carried over to another name.
handleRenameApp(a, b) ==
    /\ app[a] # Absent /\ app[b] = Absent
    /\ app' = [app EXCEPT ![b] = app[a]]
    /\ Request("resolve", "rename", a, b, NoStack, {})
    /\ UNCHANGED <<home, stack>>

handleCreateStack(s, shared) ==
    /\ stack[s] = Absent
    /\ stack' = [stack EXCEPT ![s] = [shared |-> shared]]
    /\ At("idle") /\ requests < MaxRequests /\ requests' = requests + 1
    /\ UNCHANGED <<app, home, cluster, repo, deleted, req, faults, again>>

\* Join a stack, or leave it.
handleSetAppStack(a, s) ==
    /\ app[a] # Absent
    /\ s \in Stack => stack[s] # Absent
    /\ app' = [app EXCEPT ![a].stack = s]
    /\ Request("resolve", "move", a, a, s, {})
    /\ UNCHANGED <<home, stack>>

\* Share the namespace, or do so no longer, and move the members.
handlePatchStack(s) ==
    /\ stack[s] # Absent
    /\ stack' = [stack EXCEPT ![s].shared = ~@]
    /\ \E a \in App : Request("next", "patch", a, a, s, Members(s))
    /\ UNCHANGED <<app, home>>

\* The members stay without it, or are deleted with it.
handleDeleteStack(s, deleteApps) ==
    /\ stack[s] # Absent
    /\ \E a \in App :
          Request("next", IF deleteApps THEN "drop" ELSE "detach", a, a, s, Members(s))
    /\ UNCHANGED store

\* An app of its own; its namespace stays.
handleDeleteApp(a) ==
    /\ app[a] # Absent
    /\ app' = [app EXCEPT ![a] = Absent] /\ home' = [home EXCEPT ![a] = Nowhere]
    /\ Request("unpublish", "delete", a, a, NoStack, {})
    /\ UNCHANGED stack

-----------------------------------------------------------------------------
(* The calls that a request makes.                                         *)

\* The next member of the stack, in any order.  One that cannot be saved without
\* the stack, or not be deleted, is passed over.
NextMember(a) ==
    LET next(step) == req' = [req EXCEPT !.at = step, !.app = a, !.as = a, !.todo = @ \ {a},
                                         !.from = home[a]]
    IN
    /\ At("next") /\ a \in req.todo
    /\ CASE req.op = "patch"  -> next("resolve") /\ UNCHANGED <<app, home, faults>>
         [] req.op = "detach" ->
               \/ /\ app' = [app EXCEPT ![a].stack = NoStack]
                  /\ next("resolve") /\ UNCHANGED <<home, faults>>
               \/ Fault /\ next("next") /\ UNCHANGED <<app, home>>
         [] req.op = "drop" ->
               \/ /\ app' = [app EXCEPT ![a] = Absent] /\ home' = [home EXCEPT ![a] = Nowhere]
                  /\ next("unpublish") /\ UNCHANGED faults
               \/ Fault /\ next("next") /\ UNCHANGED <<app, home>>
    /\ UNCHANGED <<stack, cluster, repo, deleted, requests, again>>

NoMoreMembers ==
    /\ At("next") /\ req.todo = {}
    /\ IF req.op = "patch" THEN Done ELSE GoTo("end")
    /\ UNCHANGED <<store, cluster, repo, deleted, requests, faults, again>>

\* resolveEnvNamespaces, and the environment is saved; failing to is only logged.
Resolve ==
    LET a  == req.as
        to == ResolveNamespace(a, app[a])
    IN
    /\ At("resolve")
    /\ req' = [req EXCEPT !.at = "ensure", !.to = to, !.from = home[req.app]]
    /\ \/ home' = [home EXCEPT ![a] = to] /\ UNCHANGED faults
       \/ Fault /\ UNCHANGED home
    /\ UNCHANGED <<app, stack, cluster, repo, deleted, requests, again>>

\* ensureAppNamespace; with the cluster out of reach it is left to Argo CD.
Ensure ==
    /\ At("ensure")
    /\ GoTo("publish")
    /\ \/ label' = EnsureNamespaceOwned(req.to, sharedStackName(app[req.as])) /\ UNCHANGED faults
       \/ Fault /\ UNCHANGED label
    /\ UNCHANGED <<store, running, repo, deleted, requests, again>>

\* PublishApp, with the AppProject.  A rename that fails to is taken back; a move
\* goes on.
Publish ==
    LET next == CASE req.op \in {"create", "sync"} -> Done
                  [] req.op = "rename" -> GoTo("unpublish")
                  [] OTHER -> GoTo("reclaim")
    IN
    /\ At("publish")
    /\ \/ /\ target' = [target EXCEPT ![req.as] = req.to] /\ appProject' = TRUE
          /\ again' = again \cup {req.as}
          /\ next
          /\ UNCHANGED <<app, home, faults>>
       \/ /\ Fault
          /\ IF req.op = "rename"
             THEN /\ app' = [app EXCEPT ![req.as] = Absent]
                  /\ home' = [home EXCEPT ![req.as] = Nowhere]
                  /\ Done
             ELSE next /\ UNCHANGED <<app, home>>
          /\ UNCHANGED <<repo, again>>
    /\ UNCHANGED <<stack, cluster, deleted, requests>>

\* UnpublishApp; a rename then deletes the old app.  Failures are only logged.
Unpublish ==
    LET a       == req.app
        removed == target' = [target EXCEPT ![a] = Nowhere]
        gone    == IF req.op = "rename"
                   THEN app' = [app EXCEPT ![a] = Absent] /\ home' = [home EXCEPT ![a] = Nowhere]
                   ELSE UNCHANGED <<app, home>>
    IN
    /\ At("unpublish")
    /\ \/ removed /\ gone /\ UNCHANGED faults
       \/ Fault /\ UNCHANGED target /\ gone
       \/ Fault /\ req.op = "rename" /\ removed /\ UNCHANGED <<app, home>>
    /\ IF req.op = "delete" THEN Done ELSE GoTo("reclaim")
    /\ UNCHANGED <<stack, cluster, appProject, deleted, requests, again>>

reclaimAppExclusiveNamespace(n) ==
    IF AppExclusive(n) THEN [label EXCEPT ![n] = Absent] ELSE label

\* A move compares the old namespace with the new one; a rename does not, nor does
\* a stack that is deleted with its apps.
Reclaim ==
    LET moves == req.op \in {"move", "patch", "detach"} IN
    /\ At("reclaim")
    /\ IF req.from = Nowhere \/ (moves /\ req.from = req.to) THEN UNCHANGED <<label, faults>>
       ELSE \/ label' = reclaimAppExclusiveNamespace(req.from) /\ UNCHANGED faults
            \/ Fault /\ UNCHANGED label
    /\ IF req.op \in {"move", "rename"} THEN Done ELSE GoTo("next")
    /\ UNCHANGED <<store, running, repo, deleted, requests, again>>

\* DeleteStack; with its apps, its namespaces are next.
EndStack ==
    /\ At("end")
    /\ \/ /\ stack' = [stack EXCEPT ![req.stack] = Absent]
          /\ IF req.op = "drop" THEN GoTo("sweep") ELSE Done
          /\ UNCHANGED faults
       \/ Fault /\ Done /\ UNCHANGED stack
    /\ UNCHANGED <<app, home, cluster, repo, deleted, requests, again>>

\* DeleteOwnedNamespaces of those that a selector gives.
deleteOwnedStackNamespaces ==
    /\ At("sweep")
    /\ Done
    /\ \/ /\ label' = [n \in Namespace |->
                 IF label[n] # Absent /\ label[n].stack = req.stack THEN Absent ELSE label[n]]
          /\ UNCHANGED faults
       \/ Fault /\ UNCHANGED label
    /\ UNCHANGED <<store, running, repo, deleted, requests, again>>

\* The server dies, and the goroutine with it.
Crash ==
    /\ Fault
    /\ ~At("idle") \/ teardown # "none"
    /\ Done
    /\ teardown' = "none"
    /\ UNCHANGED <<store, cluster, repo, project, requests, again>>

-----------------------------------------------------------------------------
(* The project.  Its apps and stacks stay in the store, and their requests *)
(* do not ask for it.                                                      *)

handleDeleteProject ==
    /\ At("idle") /\ requests < MaxRequests /\ requests' = requests + 1
    /\ project /\ project' = FALSE
    /\ teardown = "none" /\ teardown' = "apps"
    /\ again' = {}
    /\ UNCHANGED <<store, cluster, repo, req, faults>>

handleCreateProject ==
    /\ At("idle") /\ requests < MaxRequests /\ requests' = requests + 1
    /\ ~project /\ project' = TRUE
    /\ UNCHANGED <<store, cluster, repo, teardown, req, faults, again>>

UnpublishProjectApps ==
    /\ teardown = "apps"
    /\ \/ target' = [a \in App |-> Nowhere] /\ teardown' = "wait" /\ UNCHANGED faults
       \/ Fault /\ teardown' = "none" /\ UNCHANGED target
    /\ UNCHANGED <<store, cluster, appProject, project, req, requests, again>>

Applications == {a \in App : running[a] # Nowhere}

\* Mutant: what a failing count returns is taken for the count.
ErrorsAreZero(n, err) == n = 0 \/ err

NoneLeft(n, err) == ~err /\ n = 0

\* CountProjectApplications, until there are none; when the time is up the
\* AppProject stays.  A server that cannot count waits for ninety seconds.
CountApplications ==
    /\ teardown = "wait"
    /\ \E err \in BOOLEAN :
          /\ IF err THEN Fault ELSE UNCHANGED faults
          /\ IF ~CanCount \/ NoneLeft(Cardinality(Applications), err) THEN teardown' = "infra"
             ELSE teardown' \in {"wait", "none"}
    /\ UNCHANGED <<store, cluster, repo, project, req, requests, again>>

UnpublishProjectInfra ==
    /\ teardown = "infra"
    /\ \/ appProject' = FALSE /\ teardown' = "namespaces" /\ UNCHANGED faults
       \/ Fault /\ teardown' = "none" /\ UNCHANGED appProject
    /\ UNCHANGED <<store, cluster, target, project, req, requests, again>>

deleteOwnedProjectNamespaces ==
    /\ teardown = "namespaces" /\ teardown' = "none"
    /\ \/ label' = [n \in Namespace |-> IF Owned(n) THEN Absent ELSE label[n]] /\ UNCHANGED faults
       \/ Fault /\ UNCHANGED label
    /\ UNCHANGED <<store, running, repo, project, req, requests, again>>

\* Argo CD runs what is in the repository, and creates the namespace if there is
\* none.  It needs the AppProject.
ArgoSync(a) ==
    /\ appProject
    /\ running' = [running EXCEPT ![a] = target[a]]
    /\ label' = IF target[a] # Nowhere /\ label[target[a]] = Absent
                THEN [label EXCEPT ![target[a]] = Foreign] ELSE label
    /\ <<running, label>>' # <<running, label>>
    /\ UNCHANGED <<store, repo, deleted, req, requests, faults, again>>

-----------------------------------------------------------------------------
Next ==
    \/ \E a \in App :
          \/ \E scope \in Scopes : handleCreateApp(a, scope)
          \/ handleSyncApp(a) \/ handleDeleteApp(a)
          \/ \E b \in App : handleRenameApp(a, b)
          \/ \E s \in Stack \cup {NoStack} : handleSetAppStack(a, s)
          \/ NextMember(a) \/ ArgoSync(a)
    \/ \E s \in Stack :
          \/ \E shared \in BOOLEAN : handleCreateStack(s, shared)
          \/ handlePatchStack(s)
          \/ \E deleteApps \in BOOLEAN : handleDeleteStack(s, deleteApps)
    \/ NoMoreMembers \/ Resolve \/ Ensure \/ Publish \/ Unpublish \/ Reclaim
    \/ EndStack \/ deleteOwnedStackNamespaces \/ Crash
    \/ handleDeleteProject \/ handleCreateProject
    \/ UnpublishProjectApps \/ CountApplications \/ UnpublishProjectInfra
    \/ deleteOwnedProjectNamespaces

Spec == Init /\ [][Next]_vars

-----------------------------------------------------------------------------
(* Properties.                                                             *)

\* A rename, a move and the deletion of an app with its stack reclaim a namespace
\* only if no other app is saved or published there: "app-exclusive", after any
\* toggles of stacks and requests that stopped halfway
\* (reclaimAppExclusiveNamespace).
ReclaimsExclusive ==
    [][At("reclaim") /\ req'.at # "reclaim" =>
          \A n \in Namespace : label[n] # Absent /\ label'[n] = Absent =>
              \A a \in App \ {req.app} : n \notin {home[a], target[a]}]_vars

\* Namespaces that somebody else has created are never deleted, though apps run in
\* them, are renamed and moved, and stacks and projects are torn down around them
\* (EnsureNamespaceOwned, DeleteOwnedNamespaces).
AdoptedStay ==
    [][\A n \in Namespace : label[n] = Foreign => label'[n] = Foreign]_vars

\* The teardown of a project takes its AppProject and its namespaces away only
\* when the apps that ran are gone; those excepted that were published again
\* meanwhile, and a server that cannot count them (unpublishProjectTwoPhase).
TeardownWaits ==
    CanCount /\ teardown \in {"infra", "namespaces"} => Applications \subseteq again
=============================================================================
