---------------------------- MODULE NamespacesProofs ----------------------------
(***************************************************************************)
(* What Namespaces promises, for any apps, stacks and namespaces of others *)
(* and any number of requests and faults.                                  *)
(***************************************************************************)
EXTENDS Namespaces, FiniteSetTheorems, TLAPS

-----------------------------------------------------------------------------
(* Types.  A request in progress finds what it began with.                 *)

StackOps == {"patch", "detach", "drop"}

\* Which request is at which call.
CallOf ==
    /\ req.at \in {"resolve", "ensure", "publish"} =>
           req.op \in {"create", "sync", "rename", "move", "patch", "detach"}
    /\ req.at = "unpublish" => req.op \in {"delete", "rename", "drop"}
    /\ req.at = "reclaim" => req.op \in {"rename", "move"} \cup StackOps
    /\ req.at \in {"next", "end", "sweep"} => req.op \in StackOps
    /\ req.op \in StackOps => req.stack \in Stack

\* The apps that it is about to resolve are saved.
Saved ==
    /\ req.at \in {"resolve", "ensure"} => app[req.as] \in Specs
    /\ \A a \in req.todo : app[a] \in Specs
    /\ req.op \notin StackOps => req.todo = {}

CallInv == req # Idle => CallOf /\ Saved

IInv == TypeOK /\ CallInv

Steps == {"next", "resolve", "ensure", "publish", "unpublish", "reclaim", "end", "sweep"}
Ops   == {"create", "sync", "delete", "move", "rename", "patch", "detach", "drop"}

LEMMA AbsentIsNone == Absent \notin Specs /\ Absent \notin Labels /\ Foreign # Absent
BY DEF Absent, Specs, Labels, Foreign

LEMMA IdleOrBusy ==
    ASSUME TypeOK
    PROVE  req.at = "idle" <=> req = Idle
<1>1. \A r \in Busy : r.at # "idle"
  BY DEF Busy
<1> QED BY <1>1 DEF TypeOK, Reqs, Idle

LEMMA BusyType ==
    ASSUME TypeOK, req.at # "idle"
    PROVE  req \in Busy /\ req # Idle
BY DEF TypeOK, Reqs, Idle

LEMMA BusyFields ==
    ASSUME NEW r \in Busy
    PROVE  /\ r.at \in Steps /\ r.op \in Ops /\ r.app \in App /\ r.as \in App
           /\ r.stack \in Stack \cup {NoStack} /\ r.todo \in SUBSET App
           /\ r.from \in Namespace \cup {Nowhere} /\ r.to \in Namespace \cup {Nowhere}
BY DEF Busy, Steps, Ops

\* Going to the next call keeps the rest of the request.
LEMMA Goes ==
    ASSUME req \in Busy, NEW step \in Steps, GoTo(step)
    PROVE  /\ req' \in Busy /\ req'.at = step
           /\ req'.op = req.op /\ req'.app = req.app /\ req'.as = req.as
           /\ req'.stack = req.stack /\ req'.todo = req.todo
           /\ req'.from = req.from /\ req'.to = req.to
BY DEF GoTo, Busy, Steps

LEMMA BusyIsReq == Busy \subseteq Reqs /\ Idle \in Reqs /\ Idle \notin Busy
BY DEF Reqs, Busy, Idle

LEMMA FaultType ==
    ASSUME TypeOK, Fault
    PROVE  faults' \in 0..MaxFaults
BY NamespacesAssumption DEF TypeOK, Fault

\* A new request.
LEMMA RequestType ==
    ASSUME TypeOK, NEW step \in Steps, NEW op \in Ops, NEW a \in App, NEW b \in App,
           NEW s \in Stack \cup {NoStack}, NEW todo \in SUBSET App,
           Request(step, op, a, b, s, todo)
    PROVE  /\ req' \in Busy /\ req' # Idle
           /\ req'.at = step /\ req'.op = op /\ req'.app = a /\ req'.as = b
           /\ req'.stack = s /\ req'.todo = todo /\ req'.from = Nowhere /\ req'.to = Nowhere
           /\ requests' \in 0..MaxRequests
           /\ UNCHANGED <<label, running, target, appProject, project, teardown, faults, again>>
<1>1. req' \in Busy
  BY DEF Request, Busy, Steps, Ops
<1>2. requests' \in 0..MaxRequests
  BY NamespacesAssumption DEF Request, TypeOK
<1> QED BY <1>1, <1>2, BusyIsReq DEF Request, cluster, repo, deleted

LEMMA InitInv == Init => IInv
<1> SUFFICES ASSUME Init PROVE IInv
  OBVIOUS
<1>1. Foreign \in Labels /\ Idle \in Reqs
  BY DEF Labels, Reqs
<1>2. label \in [Namespace -> Labels \cup {Absent}]
  BY <1>1 DEF Init
<1>3. req \in Reqs /\ CallInv
  BY <1>1 DEF Init, CallInv
<1>4. requests \in 0..MaxRequests /\ faults \in 0..MaxFaults
  BY NamespacesAssumption DEF Init
<1> QED BY <1>2, <1>3, <1>4 DEF Init, IInv, TypeOK

StoreType ==
    /\ app \in [App -> Specs \cup {Absent}] /\ home \in [App -> Namespace \cup {Nowhere}]
    /\ stack \in [Stack -> [shared : BOOLEAN] \cup {Absent}]

\* What a request may begin with.
LEMMA ResolveRequest ==
    ASSUME IInv, NEW op \in {"create", "sync", "rename", "move"}, NEW a \in App, NEW b \in App,
           NEW s \in Stack \cup {NoStack}, Request("resolve", op, a, b, s, {}),
           StoreType', app'[b] \in Specs
    PROVE  IInv'
<1>1. "resolve" \in Steps /\ op \in Ops /\ {} \in SUBSET App
  BY DEF Steps, Ops
<1>2. TypeOK'
  BY <1>1, RequestType, BusyIsReq DEF IInv, TypeOK, StoreType
<1>3. CallOf' /\ Saved'
  BY <1>1, RequestType DEF IInv, CallOf, Saved, StackOps
<1> QED BY <1>2, <1>3 DEF IInv, CallInv

LEMMA DeleteRequest ==
    ASSUME IInv, NEW a \in App, Request("unpublish", "delete", a, a, NoStack, {}), StoreType'
    PROVE  IInv'
<1>1. "unpublish" \in Steps /\ "delete" \in Ops /\ {} \in SUBSET App
  BY DEF Steps, Ops
<1>2. TypeOK'
  BY <1>1, RequestType, BusyIsReq DEF IInv, TypeOK, StoreType
<1>3. CallOf' /\ Saved'
  BY <1>1, RequestType DEF IInv, CallOf, Saved, StackOps
<1> QED BY <1>2, <1>3 DEF IInv, CallInv

LEMMA MembersRequest ==
    ASSUME IInv, NEW op \in StackOps, NEW a \in App, NEW s \in Stack,
           Request("next", op, a, a, s, Members(s)), StoreType', UNCHANGED app
    PROVE  IInv'
<1>1. "next" \in Steps /\ op \in Ops /\ Members(s) \in SUBSET App
  BY DEF Steps, Ops, StackOps, Members
<1>2. TypeOK'
  BY <1>1, RequestType, BusyIsReq DEF IInv, TypeOK, StoreType
<1>3. CallOf'
  BY <1>1, RequestType DEF IInv, CallOf, StackOps
<1>4. \A m \in Members(s) : app[m] \in Specs
  BY DEF IInv, TypeOK, Members
<1>5. Saved'
  BY <1>1, <1>4, RequestType DEF IInv, Saved
<1> QED BY <1>2, <1>3, <1>5 DEF IInv, CallInv

LEMMA AppRequests ==
    ASSUME IInv, NEW a \in App, NEW b \in App, NEW s \in Stack \cup {NoStack},
           \/ \E scope \in Scopes : handleCreateApp(a, scope)
           \/ handleSyncApp(a) \/ handleDeleteApp(a)
           \/ handleRenameApp(a, b) \/ handleSetAppStack(a, s)
    PROVE  IInv'
<1>1. StoreType
  BY DEF IInv, TypeOK, StoreType
<1>2. ASSUME NEW scope \in Scopes, handleCreateApp(a, scope) PROVE IInv'
  <2>1. [scope |-> scope, stack |-> NoStack] \in Specs
    BY NamespacesAssumption DEF Specs
  <2>2. StoreType' /\ app'[a] \in Specs
    BY <1>1, <1>2, <2>1 DEF handleCreateApp, StoreType
  <2> QED BY <1>2, <2>2, ResolveRequest DEF handleCreateApp
<1>3. CASE handleSyncApp(a)
  <2>1. StoreType' /\ app'[a] \in Specs
    BY <1>1, <1>3 DEF handleSyncApp, store, StoreType
  <2> QED BY <1>3, <2>1, ResolveRequest DEF handleSyncApp
<1>4. CASE handleDeleteApp(a)
  <2>1. StoreType'
    BY <1>1, <1>4 DEF handleDeleteApp, StoreType
  <2> QED BY <1>4, <2>1, DeleteRequest DEF handleDeleteApp
<1>5. CASE handleRenameApp(a, b)
  <2>1. StoreType' /\ app'[b] \in Specs
    BY <1>1, <1>5 DEF handleRenameApp, StoreType
  <2>2. Request("resolve", "rename", a, b, NoStack, {})
    BY <1>5 DEF handleRenameApp
  <2> QED BY <2>1, <2>2, ResolveRequest
<1>6. CASE handleSetAppStack(a, s)
  <2>1. app[a] \in Specs /\ app' = [app EXCEPT ![a] = [app[a] EXCEPT !.stack = s]]
    BY <1>1, <1>6 DEF handleSetAppStack, StoreType
  <2>2. [app[a] EXCEPT !.stack = s] \in Specs
    BY <2>1 DEF Specs
  <2>3. StoreType' /\ app'[a] \in Specs
    BY <1>1, <1>6, <2>1, <2>2 DEF handleSetAppStack, StoreType
  <2>4. Request("resolve", "move", a, a, s, {})
    BY <1>6 DEF handleSetAppStack
  <2> QED BY <2>3, <2>4, ResolveRequest
<1> QED BY <1>2, <1>3, <1>4, <1>5, <1>6

LEMMA StackRequests ==
    ASSUME IInv, NEW s \in Stack, NEW shared \in BOOLEAN,
           handleCreateStack(s, shared) \/ handlePatchStack(s) \/ handleDeleteStack(s, shared)
    PROVE  IInv'
<1>1. StoreType
  BY DEF IInv, TypeOK, StoreType
<1>2. CASE handleCreateStack(s, shared)
  <2>1. StoreType'
    BY <1>1, <1>2 DEF handleCreateStack, StoreType
  <2>2. requests' \in 0..MaxRequests
    BY <1>2, NamespacesAssumption DEF handleCreateStack, IInv, TypeOK
  <2>3. UNCHANGED <<app, home, label, running, target, appProject, project, teardown, req, faults, again>>
    BY <1>2 DEF handleCreateStack, cluster, repo, deleted
  <2>4. TypeOK'
    BY <2>1, <2>2, <2>3 DEF IInv, TypeOK, StoreType
  <2> QED BY <2>3, <2>4 DEF IInv, CallInv, CallOf, Saved
<1>3. CASE handlePatchStack(s)
  <2>1. StoreType' /\ UNCHANGED app
    BY <1>1, <1>3 DEF handlePatchStack, StoreType
  <2>2. PICK a \in App : Request("next", "patch", a, a, s, Members(s))
    BY <1>3 DEF handlePatchStack
  <2>3. "patch" \in StackOps
    BY DEF StackOps
  <2> QED BY <2>1, <2>2, <2>3, MembersRequest
<1>4. CASE handleDeleteStack(s, shared)
  <2>1. PICK a \in App, op \in {"drop", "detach"} : Request("next", op, a, a, s, Members(s))
    BY <1>4 DEF handleDeleteStack
  <2>2. StoreType' /\ UNCHANGED app
    BY <1>1, <1>4 DEF handleDeleteStack, store, StoreType
  <2>3. op \in StackOps
    BY <2>1 DEF StackOps
  <2> QED BY <2>1, <2>2, <2>3, MembersRequest
<1> QED BY <1>2, <1>3, <1>4

\* The next call of a request.
LEMMA DoneInv == Done => req' \in Reqs /\ CallInv'
BY BusyIsReq DEF Done, CallInv

LEMMA GoesInv ==
    ASSUME IInv, req.at # "idle", NEW step \in Steps, GoTo(step),
           \A a \in req.todo : app'[a] \in Specs,
           \/ step = "publish" /\ req.at = "ensure"
           \/ step = "unpublish" /\ req.op = "rename"
           \/ step = "reclaim" /\ req.op \in {"rename", "move"} \cup StackOps
           \/ step \in {"next", "end", "sweep"} /\ req.op \in StackOps
    PROVE  req' \in Reqs /\ CallInv'
<1>1. req \in Busy /\ CallOf /\ Saved
  BY BusyType DEF IInv, CallInv
<1>2. req' \in Busy /\ req'.at = step
      /\ req'.op = req.op /\ req'.as = req.as /\ req'.stack = req.stack /\ req'.todo = req.todo
  BY <1>1, Goes
<1>3. CallOf'
  BY <1>1, <1>2 DEF CallOf, StackOps
<1>4. Saved'
  BY <1>1, <1>2 DEF Saved
<1> QED BY <1>2, <1>3, <1>4, BusyIsReq DEF CallInv

LEMMA NextMemberInv ==
    ASSUME IInv, NEW a \in App, NextMember(a)
    PROVE  IInv'
<1>1. req.at = "next" /\ a \in req.todo
  BY DEF NextMember, At
<1>2. req \in Busy /\ CallOf /\ Saved /\ TypeOK
  BY <1>1, BusyType DEF IInv, CallInv
<1>3. req.op \in StackOps /\ req.stack \in Stack /\ app[a] \in Specs
  BY <1>1, <1>2 DEF CallOf, Saved
<1>4. PICK step \in {"resolve", "unpublish", "next"} :
          /\ req' = [req EXCEPT !.at = step, !.app = a, !.as = a, !.todo = @ \ {a},
                                !.from = home[a]]
          /\ \/ step = "resolve" /\ req.op \in {"patch", "detach"}
             \/ step = "unpublish" /\ req.op = "drop"
             \/ step = "next"
          /\ \/ UNCHANGED app
             \/ step = "resolve" /\ app' = [app EXCEPT ![a].stack = NoStack]
             \/ step = "unpublish" /\ app' = [app EXCEPT ![a] = Absent]
          /\ UNCHANGED home \/ home' = [home EXCEPT ![a] = Nowhere]
          /\ faults' = faults \/ Fault
  <2>1. CASE req.op = "patch"
    BY <1>3, <2>1, Zenon DEF NextMember
  <2>2. CASE req.op = "detach"
    BY <1>3, <2>2, Zenon DEF NextMember
  <2>3. CASE req.op = "drop"
    BY <1>3, <2>3, Zenon DEF NextMember
  <2> QED BY <1>3, <2>1, <2>2, <2>3 DEF StackOps
<1>5. /\ req' \in Busy /\ req'.at = step /\ req'.op = req.op /\ req'.as = a
      /\ req'.stack = req.stack /\ req'.todo = req.todo \ {a}
  <2>1. home[a] \in Namespace \cup {Nowhere}
    BY <1>2 DEF TypeOK
  <2> QED BY <1>2, <1>4, <2>1 DEF Busy
<1>6. /\ app' \in [App -> Specs \cup {Absent}] /\ home' \in [App -> Namespace \cup {Nowhere}]
      /\ \A b \in App \ {a} : app'[b] = app[b]
      /\ step = "resolve" => app'[a] \in Specs
  <2>1. [app[a] EXCEPT !.stack = NoStack] \in Specs
    BY <1>3 DEF Specs
  <2>2. /\ app \in [App -> Specs \cup {Absent}]
        /\ \/ UNCHANGED app
           \/ app' = [app EXCEPT ![a] = [app[a] EXCEPT !.stack = NoStack]]
           \/ step = "unpublish" /\ app' = [app EXCEPT ![a] = Absent]
    BY <1>2, <1>4 DEF TypeOK
  <2>3. home' \in [App -> Namespace \cup {Nowhere}]
    BY <1>2, <1>4 DEF TypeOK
  <2> QED BY <1>3, <2>1, <2>2, <2>3
<1>7. TypeOK'
  <2>1. UNCHANGED <<stack, label, running, target, appProject, project, teardown, requests, again>>
    BY DEF NextMember, cluster, repo, deleted
  <2>2. faults' \in 0..MaxFaults
    BY <1>2, <1>4, FaultType DEF TypeOK
  <2> QED BY <1>2, <1>5, <1>6, <2>1, <2>2, BusyIsReq DEF TypeOK
<1>8. CallOf'
  BY <1>3, <1>4, <1>5 DEF CallOf, StackOps
<1>9. Saved'
  BY <1>2, <1>3, <1>4, <1>5, <1>6, BusyFields DEF Saved
<1> QED BY <1>7, <1>8, <1>9 DEF IInv, CallInv

LEMMA NoMoreMembersInv ==
    ASSUME IInv, NoMoreMembers
    PROVE  IInv'
<1>1. req.at = "next" /\ req.at # "idle" /\ req.todo = {}
      /\ UNCHANGED <<app, home, stack, label, running, target, appProject, project, teardown,
                     requests, faults, again>>
  BY DEF NoMoreMembers, At, store, cluster, repo, deleted
<1>2. req.op \in StackOps
  BY <1>1, BusyType DEF IInv, CallInv, CallOf
<1>3. req' \in Reqs /\ CallInv'
  BY <1>1, <1>2, DoneInv, GoesInv DEF NoMoreMembers, Steps
<1> QED BY <1>1, <1>3 DEF IInv, TypeOK

LEMMA ResolvesTo ==
    ASSUME TypeOK, NEW a \in App, NEW spec \in Specs
    PROVE  /\ ResolveNamespace(a, spec) \in Namespace
           /\ sharedStackName(spec) \in Stack \cup {NoStack}
BY DEF ResolveNamespace, sharedStackName, Specs, Namespace

LEMMA ResolveInv ==
    ASSUME IInv, Resolve
    PROVE  IInv'
<1>1. req.at = "resolve" /\ req.at # "idle"
  BY DEF Resolve, At
<1>2. req \in Busy /\ CallOf /\ Saved /\ TypeOK /\ req.as \in App /\ req.app \in App
  BY <1>1, BusyType, BusyFields DEF IInv, CallInv
<1>3. PICK to : /\ to = ResolveNamespace(req.as, app[req.as])
                /\ req' = [req EXCEPT !.at = "ensure", !.to = to, !.from = home[req.app]]
                /\ home' = home \/ home' = [home EXCEPT ![req.as] = to]
                /\ faults' = faults \/ Fault
  BY Zenon DEF Resolve
<1>4. to \in Namespace /\ home[req.app] \in Namespace \cup {Nowhere}
  BY <1>1, <1>2, <1>3, ResolvesTo DEF Saved, TypeOK
<1>5. /\ req' \in Busy /\ req'.at = "ensure" /\ req'.op = req.op /\ req'.as = req.as
      /\ req'.stack = req.stack /\ req'.todo = req.todo
  BY <1>2, <1>3, <1>4 DEF Busy
<1>6. UNCHANGED <<app, stack, label, running, target, appProject, project, teardown, requests, again>>
  BY DEF Resolve, cluster, repo, deleted
<1>7. TypeOK'
  <2>1. home' \in [App -> Namespace \cup {Nowhere}] /\ faults' \in 0..MaxFaults
    BY <1>2, <1>3, <1>4, FaultType DEF TypeOK
  <2> QED BY <1>2, <1>5, <1>6, <2>1, BusyIsReq DEF TypeOK
<1>8. CallOf' /\ Saved'
  BY <1>1, <1>2, <1>5, <1>6 DEF CallOf, Saved, StackOps
<1> QED BY <1>7, <1>8 DEF IInv, CallInv

LEMMA EnsureInv ==
    ASSUME IInv, Ensure
    PROVE  IInv'
<1>1. req.at = "ensure" /\ req.at # "idle" /\ GoTo("publish")
  BY DEF Ensure, At
<1>2. req \in Busy /\ Saved /\ TypeOK /\ req.as \in App
  BY <1>1, BusyType, BusyFields DEF IInv, CallInv
<1>3. UNCHANGED <<app, home, stack, running, target, appProject, project, teardown, requests, again>>
  BY DEF Ensure, store, repo, deleted
<1>4. req' \in Reqs /\ CallInv'
  BY <1>1, <1>2, <1>3, GoesInv DEF Steps, Saved
<1>5. label' \in [Namespace -> Labels \cup {Absent}] /\ faults' \in 0..MaxFaults
  <2>1. sharedStackName(app[req.as]) \in Stack \cup {NoStack}
    BY <1>1, <1>2, ResolvesTo DEF Saved
  <2>2. \A st \in Stack \cup {NoStack} : [owned |-> TRUE, stack |-> st] \in Labels
    BY DEF Labels
  <2>3. EnsureNamespaceOwned(req.to, sharedStackName(app[req.as])) \in [Namespace -> Labels \cup {Absent}]
    BY <1>2, <2>1, <2>2 DEF EnsureNamespaceOwned, TypeOK
  <2> QED BY <1>2, <2>3, FaultType DEF Ensure, TypeOK
<1> QED BY <1>2, <1>3, <1>4, <1>5 DEF IInv, TypeOK

LEMMA PublishInv ==
    ASSUME IInv, Publish
    PROVE  IInv'
<1>1. req.at = "publish" /\ req.at # "idle"
  BY DEF Publish, At
<1>2. req \in Busy /\ CallOf /\ Saved /\ TypeOK /\ req.as \in App /\ req.to \in Namespace \cup {Nowhere}
  BY <1>1, BusyType, BusyFields DEF IInv, CallInv
<1>3. UNCHANGED <<stack, label, running, project, teardown, requests>>
  BY DEF Publish, cluster, deleted
<1>4. \/ UNCHANGED <<app, home>>
      \/ /\ req.op = "rename" /\ Done
         /\ app' = [app EXCEPT ![req.as] = Absent] /\ home' = [home EXCEPT ![req.as] = Nowhere]
  BY DEF Publish
<1>5. \/ target' = [target EXCEPT ![req.as] = req.to] /\ appProject' = TRUE
         /\ again' = again \cup {req.as} /\ faults' = faults
      \/ UNCHANGED <<target, appProject, again>> /\ Fault
  BY DEF Publish, repo
<1>6. \/ Done
      \/ req.op = "rename" /\ GoTo("unpublish") /\ UNCHANGED app
      \/ req.op \notin {"create", "sync", "rename"} /\ GoTo("reclaim") /\ UNCHANGED app
  BY DEF Publish
<1>7. req' \in Reqs /\ CallInv'
  <2>1. CASE Done
    BY <2>1, DoneInv
  <2>2. CASE req.op = "rename" /\ GoTo("unpublish") /\ UNCHANGED app
    BY <1>1, <1>2, <2>2, GoesInv DEF Saved, Steps
  <2>3. CASE req.op \notin {"create", "sync", "rename"} /\ GoTo("reclaim") /\ UNCHANGED app
    <3>1. req.op \in {"rename", "move"} \cup StackOps
      BY <1>1, <1>2, <2>3 DEF CallOf, StackOps
    <3> QED BY <1>1, <1>2, <2>3, <3>1, GoesInv DEF Saved, Steps
  <2> QED BY <1>6, <2>1, <2>2, <2>3
<1>8. /\ app' \in [App -> Specs \cup {Absent}] /\ home' \in [App -> Namespace \cup {Nowhere}]
      /\ target' \in [App -> Namespace \cup {Nowhere}] /\ appProject' \in BOOLEAN
      /\ again' \in SUBSET App /\ faults' \in 0..MaxFaults
  BY <1>2, <1>4, <1>5, FaultType DEF TypeOK
<1> QED BY <1>2, <1>3, <1>7, <1>8 DEF IInv, TypeOK

LEMMA UnpublishInv ==
    ASSUME IInv, Unpublish
    PROVE  IInv'
<1>1. req.at = "unpublish" /\ req.at # "idle"
  BY DEF Unpublish, At
<1>2. req \in Busy /\ CallOf /\ Saved /\ TypeOK /\ req.app \in App
  BY <1>1, BusyType, BusyFields DEF IInv, CallInv
<1>3. UNCHANGED <<stack, label, running, appProject, project, teardown, requests, again>>
  BY DEF Unpublish, cluster, deleted
<1>4. \/ UNCHANGED <<app, home>>
      \/ /\ req.op = "rename"
         /\ app' = [app EXCEPT ![req.app] = Absent] /\ home' = [home EXCEPT ![req.app] = Nowhere]
  BY DEF Unpublish
<1>5. /\ target' = target \/ target' = [target EXCEPT ![req.app] = Nowhere]
      /\ faults' = faults \/ Fault
      /\ IF req.op = "delete" THEN Done ELSE GoTo("reclaim")
  BY DEF Unpublish
<1>6. req' \in Reqs /\ CallInv'
  <2>1. CASE Done
    BY <2>1, DoneInv
  <2>2. CASE req.op # "delete" /\ GoTo("reclaim")
    <3>1. req.op \in {"rename", "move"} \cup StackOps /\ \A a \in req.todo : app'[a] \in Specs
      BY <1>1, <1>2, <1>4, <2>2 DEF CallOf, Saved, StackOps
    <3> QED BY <1>1, <2>2, <3>1, GoesInv DEF Steps
  <2> QED BY <1>5, <2>1, <2>2
<1>7. /\ app' \in [App -> Specs \cup {Absent}] /\ home' \in [App -> Namespace \cup {Nowhere}]
      /\ target' \in [App -> Namespace \cup {Nowhere}] /\ faults' \in 0..MaxFaults
  BY <1>2, <1>4, <1>5, FaultType DEF TypeOK
<1> QED BY <1>2, <1>3, <1>6, <1>7 DEF IInv, TypeOK

LEMMA ReclaimInv ==
    ASSUME IInv, Reclaim
    PROVE  IInv'
<1>1. req.at = "reclaim" /\ req.at # "idle"
  BY DEF Reclaim, At
<1>2. req \in Busy /\ CallOf /\ Saved /\ TypeOK
  BY <1>1, BusyType DEF IInv, CallInv
<1>3. UNCHANGED <<app, home, stack, running, target, appProject, project, teardown, requests, again>>
  BY DEF Reclaim, store, repo, deleted
<1>4. /\ label' = label \/ label' = reclaimAppExclusiveNamespace(req.from)
      /\ faults' = faults \/ Fault
      /\ IF req.op \in {"move", "rename"} THEN Done ELSE GoTo("next")
  BY DEF Reclaim
<1>5. req' \in Reqs /\ CallInv'
  <2>1. req.op \notin {"move", "rename"} => req.op \in StackOps
    BY <1>1, <1>2 DEF CallOf
  <2> QED BY <1>1, <1>2, <1>3, <1>4, <2>1, DoneInv, GoesInv DEF Saved, Steps
<1>6. label' \in [Namespace -> Labels \cup {Absent}] /\ faults' \in 0..MaxFaults
  BY <1>2, <1>4, FaultType DEF TypeOK, reclaimAppExclusiveNamespace
<1> QED BY <1>2, <1>3, <1>5, <1>6 DEF IInv, TypeOK

LEMMA EndsInv ==
    ASSUME IInv, EndStack \/ deleteOwnedStackNamespaces
    PROVE  IInv'
<1>1. req.at \in {"end", "sweep"} /\ req.at # "idle"
  BY DEF EndStack, deleteOwnedStackNamespaces, At
<1>2. req \in Busy /\ CallOf /\ Saved /\ TypeOK
  BY <1>1, BusyType DEF IInv, CallInv
<1>3. UNCHANGED <<app, home, running, target, appProject, project, teardown, requests, again>>
  BY DEF EndStack, deleteOwnedStackNamespaces, store, cluster, repo, deleted
<1>4. req' \in Reqs /\ CallInv'
  <2>1. Done \/ GoTo("sweep")
    BY DEF EndStack, deleteOwnedStackNamespaces
  <2> QED BY <1>1, <1>2, <1>3, <2>1, DoneInv, GoesInv DEF CallOf, Saved, Steps
<1>5. /\ label' \in [Namespace -> Labels \cup {Absent}] /\ faults' \in 0..MaxFaults
      /\ stack' \in [Stack -> [shared : BOOLEAN] \cup {Absent}]
  BY <1>2, FaultType DEF EndStack, deleteOwnedStackNamespaces, TypeOK, cluster, store
<1> QED BY <1>2, <1>3, <1>4, <1>5 DEF IInv, TypeOK

LEMMA ProjectInv ==
    ASSUME IInv,
           \/ handleDeleteProject \/ handleCreateProject \/ Crash
           \/ UnpublishProjectApps \/ CountApplications \/ UnpublishProjectInfra
           \/ deleteOwnedProjectNamespaces \/ (\E a \in App : ArgoSync(a)) \/ UNCHANGED vars
    PROVE  IInv'
<1>1. TypeOK
  BY DEF IInv
<1>2. UNCHANGED <<app, home, stack>>
  BY DEF handleDeleteProject, handleCreateProject, Crash, UnpublishProjectApps,
         CountApplications, UnpublishProjectInfra, deleteOwnedProjectNamespaces, ArgoSync, vars, store
<1>3. req' \in Reqs /\ CallInv'
  <2>1. Done \/ UNCHANGED req
    BY DEF handleDeleteProject, handleCreateProject, Crash, UnpublishProjectApps,
           CountApplications, UnpublishProjectInfra, deleteOwnedProjectNamespaces, ArgoSync, vars
  <2> QED BY <1>1, <1>2, <2>1, DoneInv DEF IInv, TypeOK, CallInv, CallOf, Saved
<1>4. requests' \in 0..MaxRequests /\ again' \in SUBSET App
  BY <1>1, NamespacesAssumption
     DEF handleDeleteProject, handleCreateProject, Crash, UnpublishProjectApps,
         CountApplications, UnpublishProjectInfra, deleteOwnedProjectNamespaces, ArgoSync, vars, TypeOK
<1>5. faults' \in 0..MaxFaults
  <2>1. faults' = faults \/ Fault
    BY DEF handleDeleteProject, handleCreateProject, Crash, UnpublishProjectApps,
           CountApplications, UnpublishProjectInfra, deleteOwnedProjectNamespaces, ArgoSync, vars
  <2> QED BY <1>1, <2>1, FaultType DEF TypeOK
<1>6. project' \in BOOLEAN /\ teardown' \in {"none", "apps", "wait", "infra", "namespaces"}
  BY <1>1
     DEF handleDeleteProject, handleCreateProject, Crash, UnpublishProjectApps,
         CountApplications, UnpublishProjectInfra, deleteOwnedProjectNamespaces, ArgoSync, vars,
         TypeOK, deleted
<1>7. target' \in [App -> Namespace \cup {Nowhere}] /\ appProject' \in BOOLEAN
  BY <1>1
     DEF handleDeleteProject, handleCreateProject, Crash, UnpublishProjectApps,
         CountApplications, UnpublishProjectInfra, deleteOwnedProjectNamespaces, ArgoSync, vars,
         TypeOK, repo
<1>8. label' \in [Namespace -> Labels \cup {Absent}] /\ running' \in [App -> Namespace \cup {Nowhere}]
  <2>1. CASE deleteOwnedProjectNamespaces
    BY <1>1, <2>1 DEF deleteOwnedProjectNamespaces, TypeOK
  <2>2. ASSUME NEW a \in App, ArgoSync(a)
        PROVE  /\ label' \in [Namespace -> Labels \cup {Absent}]
               /\ running' \in [App -> Namespace \cup {Nowhere}]
    <3>1. Foreign \in Labels
      BY DEF Labels
    <3> QED BY <1>1, <2>2, <3>1 DEF ArgoSync, TypeOK
  <2>3. ASSUME \/ handleDeleteProject \/ handleCreateProject \/ Crash \/ UnpublishProjectApps
               \/ CountApplications \/ UnpublishProjectInfra \/ UNCHANGED vars
        PROVE  UNCHANGED <<label, running>>
    BY <2>3 DEF handleDeleteProject, handleCreateProject, Crash, UnpublishProjectApps,
                CountApplications, UnpublishProjectInfra, vars, cluster
  <2> QED BY <1>1, <2>1, <2>2, <2>3 DEF TypeOK
<1> QED BY <1>1, <1>2, <1>3, <1>4, <1>5, <1>6, <1>7, <1>8 DEF IInv, TypeOK

LEMMA NextInv == IInv /\ [Next]_vars => IInv'
<1> SUFFICES ASSUME IInv, [Next]_vars PROVE IInv'
  OBVIOUS
<1>1. ASSUME NEW a \in App, NEW b \in App, NEW s \in Stack \cup {NoStack},
             \/ \E scope \in Scopes : handleCreateApp(a, scope)
             \/ handleSyncApp(a) \/ handleDeleteApp(a)
             \/ handleRenameApp(a, b) \/ handleSetAppStack(a, s)
      PROVE  IInv'
  BY <1>1, AppRequests
<1>2. ASSUME NEW s \in Stack, NEW shared \in BOOLEAN,
             handleCreateStack(s, shared) \/ handlePatchStack(s) \/ handleDeleteStack(s, shared)
      PROVE  IInv'
  BY <1>2, StackRequests
<1>3. ASSUME \/ \E a \in App : NextMember(a)
             \/ NoMoreMembers \/ Resolve \/ Ensure \/ Publish \/ Unpublish \/ Reclaim
             \/ EndStack \/ deleteOwnedStackNamespaces
      PROVE  IInv'
  BY <1>3, NextMemberInv, NoMoreMembersInv, ResolveInv, EnsureInv, PublishInv, UnpublishInv,
     ReclaimInv, EndsInv
<1>4. ASSUME \/ handleDeleteProject \/ handleCreateProject \/ Crash
             \/ UnpublishProjectApps \/ CountApplications \/ UnpublishProjectInfra
             \/ deleteOwnedProjectNamespaces \/ (\E a \in App : ArgoSync(a)) \/ UNCHANGED vars
      PROVE  IInv'
  BY <1>4, ProjectInv
<1> QED BY <1>1, <1>2, <1>3, <1>4 DEF Next

\* Every state is well typed, and a request in progress finds what it needs.
THEOREM NamespacesInvariance == Spec => []IInv
BY InitInv, NextInv, PTL DEF Spec

\* Every state is well typed.
THEOREM TypeCorrect == Spec => []TypeOK
BY NamespacesInvariance, PTL DEF IInv

-----------------------------------------------------------------------------
(* What the other steps leave alone.                                       *)

LEMMA RequestsKeep ==
    ASSUME \/ \E a \in App :
                  \/ \E scope \in Scopes : handleCreateApp(a, scope)
                  \/ handleSyncApp(a) \/ handleDeleteApp(a)
                  \/ \E b \in App : handleRenameApp(a, b)
                  \/ \E s \in Stack \cup {NoStack} : handleSetAppStack(a, s)
                  \/ NextMember(a)
           \/ \E s \in Stack :
                  \/ \E shared \in BOOLEAN : handleCreateStack(s, shared)
                  \/ handlePatchStack(s)
                  \/ \E deleteApps \in BOOLEAN : handleDeleteStack(s, deleteApps)
           \/ NoMoreMembers \/ Resolve \/ EndStack \/ handleCreateProject \/ UNCHANGED vars
    PROVE  UNCHANGED <<label, target, running, teardown, again>>
BY DEF handleCreateApp, handleSyncApp, handleDeleteApp, handleRenameApp, handleSetAppStack,
       NextMember, handleCreateStack, handlePatchStack, handleDeleteStack, NoMoreMembers, Resolve,
       EndStack, handleCreateProject, Request, cluster, repo, deleted, vars

LEMMA OthersKeepLabels ==
    ASSUME [Next]_vars
    PROVE  \/ UNCHANGED label \/ Ensure \/ Reclaim \/ deleteOwnedStackNamespaces
           \/ deleteOwnedProjectNamespaces \/ \E a \in App : ArgoSync(a)
<1>1. ASSUME \/ Publish \/ Unpublish \/ handleDeleteProject \/ Crash \/ UnpublishProjectApps
             \/ CountApplications \/ UnpublishProjectInfra
      PROVE  UNCHANGED label
  BY <1>1 DEF Publish, Unpublish, handleDeleteProject, Crash, UnpublishProjectApps,
              CountApplications, UnpublishProjectInfra, cluster
<1> QED BY <1>1, RequestsKeep DEF Next

LEMMA OthersKeepTargets ==
    ASSUME [Next]_vars
    PROVE  \/ UNCHANGED <<target, running, teardown, again>>
           \/ Publish \/ Unpublish \/ handleDeleteProject \/ Crash \/ UnpublishProjectApps
           \/ CountApplications \/ UnpublishProjectInfra \/ deleteOwnedProjectNamespaces
           \/ \E a \in App : ArgoSync(a)
<1>1. ASSUME Ensure \/ Reclaim \/ deleteOwnedStackNamespaces
      PROVE  UNCHANGED <<target, running, teardown, again>>
  BY <1>1 DEF Ensure, Reclaim, deleteOwnedStackNamespaces, repo, deleted
<1> QED BY <1>1, RequestsKeep DEF Next

-----------------------------------------------------------------------------
(* Namespaces of others.                                                   *)

\* Whatever deletes namespaces deletes owned ones, and a selector finds the labels of
\* a stack.
THEOREM AdoptedStayAlways == Spec => AdoptedStay
<1>1. IInv /\ [Next]_vars => [\A n \in Namespace : label[n] = Foreign => label'[n] = Foreign]_vars
  <2> SUFFICES ASSUME IInv, [Next]_vars, NEW n \in Namespace, label[n] = Foreign
               PROVE  label'[n] = Foreign
    OBVIOUS
  <2>1. TypeOK /\ label \in [Namespace -> Labels \cup {Absent}]
    BY DEF IInv, TypeOK
  <2>2. Foreign # Absent /\ ~Foreign.owned /\ Foreign.stack = NoStack
    BY AbsentIsNone DEF Foreign
  <2>3. CASE Ensure
    BY <2>1, <2>2, <2>3 DEF Ensure, EnsureNamespaceOwned
  <2>4. CASE Reclaim
    BY <2>1, <2>2, <2>4 DEF Reclaim, reclaimAppExclusiveNamespace, AppExclusive, Owned
  <2>5. CASE deleteOwnedStackNamespaces
    <3>1. req.at = "sweep" /\ req.at # "idle"
      BY <2>5 DEF deleteOwnedStackNamespaces, At
    <3>2. req.stack \in Stack
      BY <2>1, <3>1, BusyType DEF IInv, CallInv, CallOf
    <3>3. req.stack # NoStack
      BY <3>2, NamespacesAssumption
    <3> QED BY <2>1, <2>2, <2>5, <3>3 DEF deleteOwnedStackNamespaces
  <2>6. CASE deleteOwnedProjectNamespaces
    BY <2>1, <2>2, <2>6 DEF deleteOwnedProjectNamespaces, Owned
  <2>7. ASSUME NEW a \in App, ArgoSync(a)
        PROVE  label'[n] = Foreign
    BY <2>1, <2>2, <2>7 DEF ArgoSync
  <2>8. UNCHANGED label \/ Ensure \/ Reclaim \/ deleteOwnedStackNamespaces
        \/ deleteOwnedProjectNamespaces \/ \E a \in App : ArgoSync(a)
    BY OthersKeepLabels
  <2> QED BY <2>3, <2>4, <2>5, <2>6, <2>7, <2>8
<1> QED BY <1>1, NamespacesInvariance, PTL DEF Spec, AdoptedStay

-----------------------------------------------------------------------------
(* The teardown of a project.                                              *)

\* Once the repository has been emptied, only what is published again is in it.
TeardownInv ==
    /\ teardown \in {"wait", "infra", "namespaces"} =>
           \A a \in App : target[a] # Nowhere => a \in again
    /\ TeardownWaits

LEMMA TeardownInit == Init => TeardownInv
BY DEF Init, TeardownInv, TeardownWaits

LEMMA NoneRun ==
    ASSUME Cardinality(Applications) = 0
    PROVE  Applications = {}
<1>1. IsFiniteSet(Applications)
  BY NamespacesAssumption, FS_Subset DEF Applications
<1> QED BY <1>1, FS_EmptySet

LEMMA TeardownNext == TypeOK /\ TeardownInv /\ [Next]_vars => TeardownInv'
<1> SUFFICES ASSUME TypeOK, TeardownInv, [Next]_vars PROVE TeardownInv'
  OBVIOUS
<1> USE DEF TeardownInv, TeardownWaits, Applications
<1>1. target \in [App -> Namespace \cup {Nowhere}] /\ running \in [App -> Namespace \cup {Nowhere}]
  BY DEF TypeOK
<1>2. CASE Publish
  <2>1. UNCHANGED <<running, teardown>>
    BY <1>2 DEF Publish, cluster, deleted
  <2>2. \/ UNCHANGED <<target, again>>
        \/ target' = [target EXCEPT ![req.as] = req.to] /\ again' = again \cup {req.as}
    BY <1>2 DEF Publish, repo
  <2> QED BY <1>1, <2>1, <2>2
<1>3. CASE Unpublish
  <2>1. UNCHANGED <<running, teardown, again>>
    BY <1>3 DEF Unpublish, cluster, deleted
  <2>2. UNCHANGED target \/ target' = [target EXCEPT ![req.app] = Nowhere]
    BY <1>3 DEF Unpublish
  <2> QED BY <1>1, <2>1, <2>2
<1>4. CASE handleDeleteProject
  BY <1>4 DEF handleDeleteProject
<1>5. CASE Crash
  BY <1>5 DEF Crash
<1>6. CASE UnpublishProjectApps
  BY <1>6 DEF UnpublishProjectApps
<1>7. CASE CountApplications
  <2>1. UNCHANGED <<target, running, again>> /\ teardown = "wait"
    BY <1>7 DEF CountApplications, cluster, repo
  <2>2. CASE teardown' = "infra" /\ (~CanCount \/ Cardinality(Applications) = 0)
    BY <2>1, <2>2, NoneRun
  <2>3. CASE teardown' \in {"wait", "none"}
    BY <2>1, <2>3
  <2> QED BY <1>7, <2>2, <2>3 DEF CountApplications, NoneLeft
<1>8. CASE UnpublishProjectInfra
  BY <1>8 DEF UnpublishProjectInfra, cluster
<1>9. CASE deleteOwnedProjectNamespaces
  BY <1>9 DEF deleteOwnedProjectNamespaces, repo
<1>10. ASSUME NEW a \in App, ArgoSync(a)
       PROVE  TeardownInv'
  BY <1>1, <1>10 DEF ArgoSync, repo, deleted
<1>11. ASSUME UNCHANGED <<target, running, teardown, again>>
       PROVE  TeardownInv'
  BY <1>11
<1>12. \/ UNCHANGED <<target, running, teardown, again>>
       \/ Publish \/ Unpublish \/ handleDeleteProject \/ Crash \/ UnpublishProjectApps
       \/ CountApplications \/ UnpublishProjectInfra \/ deleteOwnedProjectNamespaces
       \/ \E a \in App : ArgoSync(a)
  BY OthersKeepTargets
<1> QED BY <1>2, <1>3, <1>4, <1>5, <1>6, <1>7, <1>8, <1>9, <1>10, <1>11, <1>12

\* The AppProject and the namespaces go last, but for what was published again and for
\* a server that cannot count.
THEOREM TeardownWaitsAlways == Spec => []TeardownWaits
<1>1. TeardownInv => TeardownWaits
  BY DEF TeardownInv
<1> QED BY <1>1, TeardownInit, TeardownNext, TypeCorrect, PTL DEF Spec

-----------------------------------------------------------------------------
(* Namespaces of one app.                                                  *)

\* Apps have namespaces of their own, and no stack has the name of an app.
OwnNames == Scopes \subseteq {"app"} /\ App \cap Stack = {}

Places(a) == {Nowhere, a} \cup Stack

\* An app is in its own namespace or in that of a stack, which has the stack's label.
AppsInv ==
    \A a \in App : /\ app[a] \in Specs => app[a].scope = "app"
                   /\ home[a] \in Places(a) /\ target[a] \in Places(a)

LabelsInv == \A s \in Stack : Owned(s) => label[s].stack # NoStack

PlaceOf ==
    /\ req # Idle => req.from \in Places(req.app)
    /\ req.at = "ensure" => req.to = ResolveNamespace(req.as, app[req.as])
    /\ req.at \in {"ensure", "publish"} => req.to \in Places(req.as)

PlacesInv == AppsInv /\ LabelsInv /\ PlaceOf

LEMMA PlacesInit == Init => PlacesInv
<1> SUFFICES ASSUME Init PROVE PlacesInv
  OBVIOUS
<1>1. AppsInv
  BY AbsentIsNone DEF Init, AppsInv, Places
<1>2. \A n \in Namespace : label[n] \in {Foreign, Absent}
  BY DEF Init
<1>3. LabelsInv
  BY <1>2 DEF LabelsInv, Owned, Foreign, Namespace
<1>4. PlaceOf
  BY DEF Init, PlaceOf, Idle
<1> QED BY <1>1, <1>3, <1>4 DEF PlacesInv

\* Where an app is resolved to.
LEMMA ResolvesToPlace ==
    ASSUME OwnNames, TypeOK, NEW a \in App, NEW spec \in Specs, spec.scope = "app"
    PROVE  /\ ResolveNamespace(a, spec) \in Places(a)
           /\ \A s \in Stack : ResolveNamespace(a, spec) = s => sharedStackName(spec) = s
BY NamespacesAssumption DEF OwnNames, ResolveNamespace, sharedStackName, Places, Specs

LEMMA AppRequestsKeepPlaces ==
    ASSUME OwnNames, IInv, AppsInv, NEW a \in App, NEW b \in App, NEW s \in Stack \cup {NoStack},
           \/ \E scope \in Scopes : handleCreateApp(a, scope)
           \/ handleSyncApp(a) \/ handleDeleteApp(a)
           \/ handleRenameApp(a, b) \/ handleSetAppStack(a, s)
    PROVE  AppsInv' /\ UNCHANGED label /\ req' # Idle /\ req'.from = Nowhere
           /\ req'.at \notin {"ensure", "publish"}
<1> USE DEF Request
<1>1. /\ app \in [App -> Specs \cup {Absent}] /\ home \in [App -> Namespace \cup {Nowhere}]
      /\ Absent \notin Specs
  BY AbsentIsNone DEF IInv, TypeOK
<1>2. /\ UNCHANGED <<target, label>> /\ req' # Idle /\ req'.from = Nowhere
      /\ req'.at \notin {"ensure", "publish"}
  BY DEF handleCreateApp, handleSyncApp, handleDeleteApp, handleRenameApp, handleSetAppStack,
         cluster, repo, Idle
<1>3. \A c \in App : app'[c] \in Specs => app'[c].scope = "app"
  <2>1. ASSUME NEW scope \in Scopes, handleCreateApp(a, scope)
        PROVE  \A c \in App : app'[c] \in Specs => app'[c].scope = "app"
    BY <1>1, <2>1 DEF handleCreateApp, AppsInv, OwnNames
  <2>2. CASE handleSyncApp(a)
    BY <2>2 DEF handleSyncApp, store, AppsInv
  <2>3. CASE handleDeleteApp(a)
    BY <1>1, <2>3 DEF handleDeleteApp, AppsInv
  <2>4. CASE handleRenameApp(a, b)
    BY <1>1, <2>4 DEF handleRenameApp, AppsInv
  <2>5. CASE handleSetAppStack(a, s)
    <3>1. app[a] \in Specs /\ app' = [app EXCEPT ![a] = [app[a] EXCEPT !.stack = s]]
      BY <1>1, <2>5 DEF handleSetAppStack
    <3>2. [app[a] EXCEPT !.stack = s].scope = "app"
      BY <3>1 DEF AppsInv, Specs
    <3> QED BY <1>1, <3>1, <3>2 DEF AppsInv
  <2> QED BY <2>1, <2>2, <2>3, <2>4, <2>5
<1>4. UNCHANGED home \/ home' = [home EXCEPT ![a] = Nowhere]
  BY DEF handleCreateApp, handleSyncApp, handleDeleteApp, handleRenameApp, handleSetAppStack, store
<1>5. \A c \in App : home'[c] \in Places(c)
  BY <1>1, <1>4 DEF AppsInv, Places
<1> QED BY <1>2, <1>3, <1>5 DEF AppsInv

LEMMA MembersKeepPlaces ==
    ASSUME IInv, AppsInv, NEW a \in App, NextMember(a)
    PROVE  AppsInv' /\ UNCHANGED label
           /\ req' # Idle /\ req'.from \in Places(req'.app) /\ req'.at \notin {"ensure", "publish"}
<1>1. req.at = "next" /\ a \in req.todo /\ UNCHANGED <<target, label>>
  BY DEF NextMember, At, cluster, repo
<1>2. /\ app \in [App -> Specs \cup {Absent}] /\ home \in [App -> Namespace \cup {Nowhere}]
      /\ req \in Busy /\ req.op \in StackOps /\ app[a] \in Specs /\ Absent \notin Specs
  BY <1>1, BusyType, AbsentIsNone DEF IInv, TypeOK, CallInv, CallOf, Saved
<1>3. PICK step \in {"resolve", "unpublish", "next"} :
          /\ req' = [req EXCEPT !.at = step, !.app = a, !.as = a, !.todo = @ \ {a},
                                !.from = home[a]]
          /\ \/ UNCHANGED app
             \/ app' = [app EXCEPT ![a].stack = NoStack]
             \/ app' = [app EXCEPT ![a] = Absent]
          /\ UNCHANGED home \/ home' = [home EXCEPT ![a] = Nowhere]
  <2>1. CASE req.op = "patch"
    BY <1>2, <2>1, Zenon DEF NextMember
  <2>2. CASE req.op = "detach"
    BY <1>2, <2>2, Zenon DEF NextMember
  <2>3. CASE req.op = "drop"
    BY <1>2, <2>3, Zenon DEF NextMember
  <2> QED BY <1>2, <2>1, <2>2, <2>3 DEF StackOps
<1>4. req'.from = home[a] /\ req'.app = a /\ req'.at = step /\ req' # Idle
  <2>1. req'.from = home[a] /\ req'.app = a /\ req'.at = step
    BY <1>2, <1>3 DEF Busy
  <2> QED BY <2>1 DEF Idle
<1>5. \A c \in App : app'[c] \in Specs => app'[c].scope = "app"
  <2>1. [app[a] EXCEPT !.stack = NoStack].scope = "app"
    BY <1>2 DEF AppsInv, Specs
  <2>2. \/ UNCHANGED app \/ app' = [app EXCEPT ![a] = Absent]
        \/ app' = [app EXCEPT ![a] = [app[a] EXCEPT !.stack = NoStack]]
    BY <1>3
  <2> QED BY <1>2, <2>1, <2>2 DEF AppsInv
<1>6. \A c \in App : home'[c] \in Places(c) /\ target'[c] \in Places(c)
  BY <1>1, <1>2, <1>3 DEF AppsInv, Places
<1> QED BY <1>1, <1>4, <1>5, <1>6 DEF AppsInv

LEMMA ResolveKeepsPlaces ==
    ASSUME OwnNames, IInv, PlacesInv, Resolve
    PROVE  PlacesInv'
<1>1. req.at = "resolve" /\ req.at # "idle" /\ UNCHANGED <<app, stack, label, target>>
  BY DEF Resolve, At, cluster, repo
<1>2. req \in Busy /\ Saved /\ TypeOK /\ req.as \in App /\ req.app \in App /\ app[req.as] \in Specs
  BY <1>1, BusyType, BusyFields DEF IInv, CallInv, Saved
<1>3. PICK to : /\ to = ResolveNamespace(req.as, app[req.as])
                /\ req' = [req EXCEPT !.at = "ensure", !.to = to, !.from = home[req.app]]
                /\ home' = home \/ home' = [home EXCEPT ![req.as] = to]
  BY Zenon DEF Resolve
<1>4. to \in Places(req.as)
  BY <1>2, <1>3, ResolvesToPlace DEF PlacesInv, AppsInv
<1>5. /\ req'.at = "ensure" /\ req'.to = to /\ req'.from = home[req.app]
      /\ req'.app = req.app /\ req'.as = req.as
  BY <1>2, <1>3 DEF Busy
<1>6. AppsInv' /\ LabelsInv'
  <2>1. home \in [App -> Namespace \cup {Nowhere}]
    BY <1>2 DEF TypeOK
  <2>2. \A a \in App : home'[a] \in Places(a)
    BY <1>2, <1>3, <1>4, <2>1 DEF PlacesInv, AppsInv
  <2> QED BY <1>1, <2>2 DEF PlacesInv, AppsInv, LabelsInv, Owned
<1>7. PlaceOf'
  <2>1. ResolveNamespace(req.as, app[req.as])' = ResolveNamespace(req'.as, app[req.as])
    BY <1>1, <1>5 DEF ResolveNamespace, sharedStackName
  <2>2. home[req.app] \in Places(req.app)
    BY <1>2 DEF PlacesInv, AppsInv
  <2>3. ResolveNamespace(req.as, app[req.as])' = to
    BY <1>1, <1>3, <1>5 DEF ResolveNamespace, sharedStackName
  <2> QED BY <1>4, <1>5, <2>2, <2>3 DEF PlaceOf
<1> QED BY <1>6, <1>7 DEF PlacesInv

LEMMA EnsureKeepsPlaces ==
    ASSUME OwnNames, IInv, PlacesInv, Ensure
    PROVE  PlacesInv'
<1>1. req.at = "ensure" /\ req.at # "idle" /\ GoTo("publish")
      /\ UNCHANGED <<app, home, stack, target>>
  BY DEF Ensure, At, store, repo
<1>2. req \in Busy /\ req # Idle /\ Saved /\ TypeOK /\ req.as \in App /\ app[req.as] \in Specs
      /\ req.to \in Namespace \cup {Nowhere}
  BY <1>1, BusyType, BusyFields DEF IInv, CallInv, Saved
<1>3. LabelsInv'
  <2> DEFINE s == sharedStackName(app[req.as])
  <2>1. label \in [Namespace -> Labels \cup {Absent}] /\ Stack \subseteq Namespace
    BY <1>2 DEF TypeOK, Namespace
  <2>2. \A t \in Stack : req.to = t => s = t /\ t # NoStack
    BY <1>1, <1>2, ResolvesToPlace, NamespacesAssumption DEF PlacesInv, AppsInv, PlaceOf
  <2>3. label' = label \/ label' = [label EXCEPT ![req.to] = [owned |-> TRUE, stack |-> s]]
    BY <1>1 DEF Ensure, EnsureNamespaceOwned
  <2> HIDE DEF s
  <2>4. ASSUME NEW t \in Stack, Owned(t)'
        PROVE  label'[t].stack # NoStack
    <3>1. CASE label'[t] = label[t]
      BY <2>4, <3>1 DEF Owned, PlacesInv, LabelsInv
    <3>2. CASE label'[t] # label[t]
      <4>1. req.to = t /\ label'[t] = [owned |-> TRUE, stack |-> s]
        BY <2>1, <2>3, <3>2
      <4> QED BY <2>2, <4>1
    <3> QED BY <3>1, <3>2
  <2> QED BY <2>4 DEF LabelsInv
<1>4. PlaceOf'
  <2>1. /\ req' \in Busy /\ req'.at = "publish" /\ req'.app = req.app /\ req'.as = req.as
        /\ req'.from = req.from /\ req'.to = req.to
    BY <1>1, <1>2, Goes DEF Steps
  <2> QED BY <1>1, <1>2, <2>1 DEF PlacesInv, PlaceOf
<1> QED BY <1>1, <1>3, <1>4 DEF PlacesInv, AppsInv

\* Calls after which the request has no place to go to any more.
LEMMA CallsKeepPlaces ==
    ASSUME IInv, PlacesInv,
           \/ Publish \/ Unpublish \/ Reclaim \/ NoMoreMembers \/ EndStack
           \/ deleteOwnedStackNamespaces
    PROVE  PlacesInv'
<1>1. req.at # "idle"
  BY DEF Publish, Unpublish, Reclaim, NoMoreMembers, EndStack, deleteOwnedStackNamespaces, At
<1>2. req \in Busy /\ req # Idle /\ TypeOK /\ req.as \in App /\ req.app \in App
  BY <1>1, BusyType, BusyFields DEF IInv
<1>3. Done \/ \E step \in {"unpublish", "reclaim", "next", "end", "sweep"} : GoTo(step)
  BY DEF Publish, Unpublish, Reclaim, NoMoreMembers, EndStack, deleteOwnedStackNamespaces
<1>4. PlaceOf'
  <2>1. CASE Done
    BY <2>1 DEF Done, PlaceOf, Idle
  <2>2. ASSUME NEW step \in {"unpublish", "reclaim", "next", "end", "sweep"}, GoTo(step)
        PROVE  PlaceOf'
    <3>1. req'.at = step /\ req'.app = req.app /\ req'.from = req.from
      BY <1>2, <2>2, Goes DEF Steps
    <3> QED BY <1>2, <2>2, <3>1 DEF PlacesInv, PlaceOf
  <2> QED BY <1>3, <2>1, <2>2
<1>5. AppsInv'
  <2>1. /\ app \in [App -> Specs \cup {Absent}] /\ home \in [App -> Namespace \cup {Nowhere}]
        /\ target \in [App -> Namespace \cup {Nowhere}] /\ Absent \notin Specs
    BY <1>2, AbsentIsNone DEF TypeOK
  <2>2. \/ UNCHANGED <<app, home>>
        \/ \E a \in App : app' = [app EXCEPT ![a] = Absent] /\ home' = [home EXCEPT ![a] = Nowhere]
    BY <1>2 DEF Publish, Unpublish, Reclaim, NoMoreMembers, EndStack, deleteOwnedStackNamespaces, store
  <2>3. \/ UNCHANGED target
        \/ req.at = "publish" /\ target' = [target EXCEPT ![req.as] = req.to]
        \/ target' = [target EXCEPT ![req.app] = Nowhere]
    BY DEF Publish, Unpublish, Reclaim, NoMoreMembers, EndStack, deleteOwnedStackNamespaces, At, repo
  <2>4. \A a \in App : target'[a] \in Places(a)
    BY <1>2, <2>1, <2>3 DEF PlacesInv, AppsInv, PlaceOf, Places
  <2>5. \A a \in App : (app'[a] \in Specs => app'[a].scope = "app") /\ home'[a] \in Places(a)
    BY <2>1, <2>2 DEF PlacesInv, AppsInv, Places
  <2> QED BY <2>4, <2>5 DEF AppsInv
<1>6. \A n \in Namespace : label'[n] = label[n] \/ label'[n] = Absent
  BY <1>2 DEF Publish, Unpublish, Reclaim, NoMoreMembers, EndStack, deleteOwnedStackNamespaces,
              cluster, reclaimAppExclusiveNamespace, TypeOK
<1>7. LabelsInv'
  BY <1>6 DEF PlacesInv, LabelsInv, Owned, Namespace
<1> QED BY <1>4, <1>5, <1>7 DEF PlacesInv

LEMMA OthersKeepPlaces ==
    ASSUME IInv, PlacesInv,
           \/ handleDeleteProject \/ handleCreateProject \/ Crash
           \/ UnpublishProjectApps \/ CountApplications \/ UnpublishProjectInfra
           \/ deleteOwnedProjectNamespaces \/ (\E a \in App : ArgoSync(a)) \/ UNCHANGED vars
    PROVE  PlacesInv'
<1>1. UNCHANGED <<app, home, stack>>
  BY DEF handleDeleteProject, handleCreateProject, Crash, UnpublishProjectApps,
         CountApplications, UnpublishProjectInfra, deleteOwnedProjectNamespaces, ArgoSync, vars, store
<1>2. UNCHANGED req \/ Done
  BY DEF handleDeleteProject, handleCreateProject, Crash, UnpublishProjectApps,
         CountApplications, UnpublishProjectInfra, deleteOwnedProjectNamespaces, ArgoSync, vars
<1>3. UNCHANGED target \/ target' = [a \in App |-> Nowhere]
  BY DEF handleDeleteProject, handleCreateProject, Crash, UnpublishProjectApps,
         CountApplications, UnpublishProjectInfra, deleteOwnedProjectNamespaces, ArgoSync, vars, repo
<1>4. AppsInv'
  BY <1>1, <1>3 DEF PlacesInv, AppsInv, Places
<1>5. PlaceOf'
  <2>1. ResolveNamespace(req.as, app[req.as])' = ResolveNamespace(req'.as, app[req'.as])
    BY <1>1 DEF ResolveNamespace, sharedStackName
  <2>2. CASE UNCHANGED req
    BY <1>1, <2>1, <2>2 DEF PlacesInv, PlaceOf, ResolveNamespace, sharedStackName
  <2>3. CASE Done
    BY <2>3 DEF Done, PlaceOf, Idle
  <2> QED BY <1>2, <2>2, <2>3
<1>6. \A n \in Namespace : label'[n] \in {label[n], Absent, Foreign}
  <2>1. label \in [Namespace -> Labels \cup {Absent}]
    BY DEF IInv, TypeOK
  <2>2. CASE deleteOwnedProjectNamespaces
    BY <2>1, <2>2 DEF deleteOwnedProjectNamespaces
  <2>3. ASSUME NEW a \in App, ArgoSync(a)
        PROVE  \A n \in Namespace : label'[n] \in {label[n], Absent, Foreign}
    BY <2>1, <2>3 DEF ArgoSync
  <2>4. ASSUME \/ handleDeleteProject \/ handleCreateProject \/ Crash \/ UnpublishProjectApps
               \/ CountApplications \/ UnpublishProjectInfra \/ UNCHANGED vars
        PROVE  UNCHANGED label
    BY <2>4 DEF handleDeleteProject, handleCreateProject, Crash, UnpublishProjectApps,
                CountApplications, UnpublishProjectInfra, vars, cluster
  <2> QED BY <2>2, <2>3, <2>4
<1>7. LabelsInv'
  BY <1>6 DEF PlacesInv, LabelsInv, Owned, Namespace, Foreign
<1> QED BY <1>4, <1>5, <1>7 DEF PlacesInv

LEMMA StackRequestsKeepPlaces ==
    ASSUME IInv, PlacesInv, NEW s \in Stack, NEW shared \in BOOLEAN,
           handleCreateStack(s, shared) \/ handlePatchStack(s) \/ handleDeleteStack(s, shared)
    PROVE  PlacesInv'
<1>1. UNCHANGED <<app, home, target, label>>
  BY DEF handleCreateStack, handlePatchStack, handleDeleteStack, Request, store, cluster, repo
<1>2. \/ req.at = "idle" /\ UNCHANGED req
      \/ req' # Idle /\ req'.from = Nowhere /\ req'.at \notin {"ensure", "publish"}
  BY DEF handleCreateStack, handlePatchStack, handleDeleteStack, Request, At, Idle
<1>3. PlaceOf'
  BY <1>2, IdleOrBusy DEF IInv, PlacesInv, PlaceOf, Places
<1> QED BY <1>1, <1>3 DEF PlacesInv, AppsInv, LabelsInv, Owned

LEMMA PlacesNext == OwnNames /\ IInv /\ PlacesInv /\ [Next]_vars => PlacesInv'
<1> SUFFICES ASSUME OwnNames, IInv, PlacesInv, [Next]_vars PROVE PlacesInv'
  OBVIOUS
<1>1. ASSUME AppsInv', UNCHANGED label, req' # Idle, req'.from \in Places(req'.app),
             req'.at \notin {"ensure", "publish"}
      PROVE  PlacesInv'
  BY <1>1 DEF PlacesInv, LabelsInv, PlaceOf, Owned
<1>2. ASSUME NEW a \in App, NEW b \in App, NEW s \in Stack \cup {NoStack},
             \/ \E scope \in Scopes : handleCreateApp(a, scope)
             \/ handleSyncApp(a) \/ handleDeleteApp(a)
             \/ handleRenameApp(a, b) \/ handleSetAppStack(a, s)
      PROVE  PlacesInv'
  <2>1. AppsInv' /\ UNCHANGED label /\ req' # Idle /\ req'.from = Nowhere
        /\ req'.at \notin {"ensure", "publish"}
    BY <1>2, AppRequestsKeepPlaces DEF PlacesInv
  <2> QED BY <1>1, <2>1 DEF Places
<1>3. ASSUME NEW a \in App, NextMember(a) PROVE PlacesInv'
  BY <1>1, <1>3, MembersKeepPlaces DEF PlacesInv
<1>4. ASSUME NEW s \in Stack, NEW shared \in BOOLEAN,
             handleCreateStack(s, shared) \/ handlePatchStack(s) \/ handleDeleteStack(s, shared)
      PROVE  PlacesInv'
  BY <1>4, StackRequestsKeepPlaces
<1>5. ASSUME \/ Resolve \/ Ensure \/ Publish \/ Unpublish \/ Reclaim \/ NoMoreMembers
             \/ EndStack \/ deleteOwnedStackNamespaces
      PROVE  PlacesInv'
  BY <1>5, ResolveKeepsPlaces, EnsureKeepsPlaces, CallsKeepPlaces
<1>6. ASSUME \/ handleDeleteProject \/ handleCreateProject \/ Crash
             \/ UnpublishProjectApps \/ CountApplications \/ UnpublishProjectInfra
             \/ deleteOwnedProjectNamespaces \/ (\E a \in App : ArgoSync(a)) \/ UNCHANGED vars
      PROVE  PlacesInv'
  BY <1>6, OthersKeepPlaces
<1> QED BY <1>2, <1>3, <1>4, <1>5, <1>6 DEF Next

\* If apps have namespaces of their own, none is reclaimed that another app is saved or
\* published in.
THEOREM ReclaimsExclusiveAlways ==
    ASSUME OwnNames
    PROVE  Spec => ReclaimsExclusive
<1>1. Init => PlacesInv
  BY PlacesInit
<1>2. IInv /\ PlacesInv /\ [Next]_vars => PlacesInv'
  BY PlacesNext
<1>3. IInv /\ PlacesInv /\ [Next]_vars =>
          [At("reclaim") /\ req'.at # "reclaim" =>
              \A n \in Namespace : label[n] # Absent /\ label'[n] = Absent =>
                  \A a \in App \ {req.app} : n \notin {home[a], target[a]}]_vars
  <2> SUFFICES ASSUME IInv, PlacesInv, [Next]_vars, At("reclaim"), NEW n \in Namespace,
                      label[n] # Absent, label'[n] = Absent, req'.at # "reclaim",
                      NEW a \in App \ {req.app}
               PROVE  n \notin {home[a], target[a]}
    OBVIOUS
  <2>1. req.at = "reclaim" /\ req.at # "idle" /\ TypeOK
    BY DEF At, IInv
  <2>2. req.app \in App /\ req.from \in Places(req.app)
    BY <2>1, BusyType, BusyFields DEF PlacesInv, PlaceOf
  <2>3. CASE Reclaim
    <3>1. n = req.from /\ Owned(n) /\ label[n].stack = NoStack
      BY <2>1, <2>3 DEF Reclaim, reclaimAppExclusiveNamespace, AppExclusive, TypeOK
    <3>2. n = req.app
      BY <2>2, <3>1, NamespacesAssumption
      DEF PlacesInv, LabelsInv, Places, Namespace, Shared, Nowhere
    <3>3. home[a] \in Places(a) /\ target[a] \in Places(a)
      BY DEF PlacesInv, AppsInv
    <3> QED BY <2>2, <3>2, <3>3, NamespacesAssumption DEF OwnNames, Places
  <2>4. CASE ~Reclaim
    <3>1. req'.at = "reclaim" \/ UNCHANGED label \/ Crash
      BY <2>1, <2>4, OthersKeepLabels DEF Ensure, deleteOwnedStackNamespaces,
              deleteOwnedProjectNamespaces, ArgoSync, At
    <3>2. Crash => UNCHANGED label
      BY DEF Crash, cluster
    <3> QED BY <3>1, <3>2
  <2> QED BY <2>3, <2>4
<1> QED BY <1>1, <1>2, <1>3, NamespacesInvariance, PTL DEF Spec, ReclaimsExclusive
=============================================================================
