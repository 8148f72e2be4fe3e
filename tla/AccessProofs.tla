----------------------------- MODULE AccessProofs -----------------------------
(***************************************************************************)
(* What Access promises, for any users, teams, number of requests under    *)
(* way and number of faults.  The inductive invariant says which numbers   *)
(* have been issued, that what a request has read from an object is that   *)
(* object's content as long as the version is the same, and who can be     *)
(* about a user that is being deleted.                                     *)
(***************************************************************************)
EXTENDS Access, TLAPS

-----------------------------------------------------------------------------
(* Types.                                                                  *)

\* What a request has in hand at each step.
LEMMA Fields ==
    ASSUME TypeOK, NEW r \in Request
    PROVE  /\ req[r] \in Reqs
           /\ At(r, "create") => req[r].user \in User /\ req[r].teams \in SUBSET Team
           /\ At(r, "check") \/ At(r, "issue") \/ At(r, "delete") \/ At(r, "drop")
                 \/ At(r, "login") \/ At(r, "enter") => req[r].user \in User
           /\ At(r, "claim") => req[r].number \in Numbers
           /\ At(r, "password") => req[r].user \in User /\ req[r].number \in Numbers
           /\ At(r, "load") => req[r].change \in Changes /\ req[r].tries \in 1..MaxTries
           /\ At(r, "save") => /\ req[r].change \in Changes /\ req[r].tries \in 1..MaxTries
                               /\ req[r].read \in Nat /\ req[r].org \in Orgs
           /\ At(r, "mint") => req[r].read \in Reads
           /\ At(r, "revoke") => req[r].read \in Reads /\ req[r].number \in Numbers
<1>1. req[r] \in Reqs
  BY DEF TypeOK
<1>2. QED
  BY <1>1 DEF Reqs, At, Idle

\* What a request makes of an organisation is an organisation.
LEMMA Applied ==
    ASSUME NEW c \in Changes, NEW o \in Orgs
    PROVE  Apply(c, o) \in Orgs
<1>1. CASE c.op = "join"
  BY <1>1 DEF Changes, Orgs, Apply
<1>2. CASE c.op = "leave"
  BY <1>2 DEF Changes, Orgs, Apply
<1>3. CASE c.op = "addTeam"
  BY <1>3 DEF Changes, Orgs, Apply
<1>4. CASE c.op = "editTeam"
  BY <1>4 DEF Changes, Orgs, Apply, Of
<1>5. CASE c.op = "deleteTeam"
  BY <1>5 DEF Changes, Orgs, Apply, Of
<1>6. CASE c.op \in {"bind", "unbind"}
  BY <1>6 DEF Changes, Orgs, Apply
<1> QED BY <1>1, <1>2, <1>3, <1>4, <1>5, <1>6 DEF Changes

\* Requests that begin or go on are requests.
LEMMA NewRequests ==
    /\ Idle \in Reqs
    /\ \A u \in User, teams \in SUBSET Team :
          [at |-> "create", user |-> u, teams |-> teams] \in Reqs
    /\ \A u \in User, step \in {"check", "issue", "delete", "drop", "login", "enter"} :
          [at |-> step, user |-> u] \in Reqs
    /\ \A i \in Numbers : [at |-> "claim", number |-> i] \in Reqs
    /\ \A u \in User, i \in Numbers : [at |-> "password", user |-> u, number |-> i] \in Reqs
    /\ \A c \in Changes, n \in 1..MaxTries :
          [at |-> "load", change |-> c, tries |-> n] \in Reqs
    /\ \A c \in Changes, n \in 1..MaxTries, v \in Nat, o \in Orgs :
          [at |-> "save", change |-> c, tries |-> n, read |-> v, org |-> o] \in Reqs
    /\ \A d \in Reads : [at |-> "mint", read |-> d] \in Reqs
    /\ \A d \in Reads, i \in Numbers : [at |-> "revoke", read |-> d, number |-> i] \in Reqs
BY DEF Reqs, Idle

LEMMA NewLoads ==
    /\ \A u \in User, t \in Team : Loads([op |-> "join", user |-> u, team |-> t]) \in Reqs
    /\ \A u \in User : Loads([op |-> "leave", user |-> u]) \in Reqs
    /\ \A t \in Team, op \in {"deleteTeam", "bind", "unbind"} :
          Loads([op |-> op, team |-> t]) \in Reqs
    /\ \A t \in Team, op \in {"addTeam", "editTeam"}, members \in SUBSET User :
          Loads([op |-> op, team |-> t, members |-> members]) \in Reqs
<1>1. 1 \in 1..MaxTries
  BY AccessAssumption
<1>2. \A c \in Changes : Loads(c) \in Reqs
  BY <1>1, NewRequests DEF Loads
<1> QED BY <1>2 DEF Changes

\* A step of one request.
LEMMA Goes ==
    ASSUME TypeOK, NEW r \in Request, NEW q, GoTo(r, q)
    PROVE  /\ req'[r] = q
           /\ \A s \in Request \ {r} : req'[s] = req[s]
           /\ \A s \in Request : req'[s] = IF s = r THEN q ELSE req[s]
           /\ q \in Reqs => req' \in [Request -> Reqs]
BY DEF GoTo, TypeOK

\* The requests that are received.
Received(q) ==
    /\ q \in Reqs
    /\ q.at \in {"create", "check", "delete", "login", "claim", "load", "mint", "revoke"}
    /\ q.at = "load" => q.change.op \notin {"join", "leave"}
    /\ q.at \in {"mint", "revoke"} => q.read = [stamp |-> stamp, tokens |-> tokens]
    /\ q.at \in {"claim", "revoke"} => q.number <= issued

LEMMA Receives ==
    ASSUME TypeOK, NEW r \in Request, Receive(r)
    PROVE  \E q : Begin(r, q) /\ Received(q)
<1> DEFINE Begins(q) == Begin(r, q) /\ Received(q)
<1>1. /\ \A u \in User, teams \in SUBSET Team :
            Begin(r, [at |-> "create", user |-> u, teams |-> teams])
               => Begins([at |-> "create", user |-> u, teams |-> teams])
      /\ \A u \in User, step \in {"check", "delete", "login"} :
            Begin(r, [at |-> step, user |-> u]) => Begins([at |-> step, user |-> u])
  BY NewRequests DEF Begins, Received
<1>2. \A i \in 1..issued :
          Begin(r, [at |-> "claim", number |-> i]) => Begins([at |-> "claim", number |-> i])
  BY NewRequests DEF Begins, Received, TypeOK, Numbers
<1>3. /\ \A t \in Team, op \in {"deleteTeam", "bind", "unbind"} :
            Begin(r, Loads([op |-> op, team |-> t])) => Begins(Loads([op |-> op, team |-> t]))
      /\ \A t \in Team, op \in {"addTeam", "editTeam"}, members \in SUBSET User :
            Begin(r, Loads([op |-> op, team |-> t, members |-> members]))
               => Begins(Loads([op |-> op, team |-> t, members |-> members]))
  <2>1. \A c : c.op \notin {"join", "leave"} /\ Loads(c) \in Reqs => Received(Loads(c))
    BY DEF Received, Loads
  <2> QED BY <2>1, NewLoads DEF Begins
<1>4. LET d == [stamp |-> stamp, tokens |-> tokens] IN
      /\ Begin(r, [at |-> "mint", read |-> d]) => Begins([at |-> "mint", read |-> d])
      /\ \A i \in 1..issued :
            Begin(r, [at |-> "revoke", read |-> d, number |-> i])
               => Begins([at |-> "revoke", read |-> d, number |-> i])
  BY NewRequests DEF Begins, Received, TypeOK, Reads, Numbers
<1>5. \A teams \in {{}} \cup {{t} : t \in Team} : teams \in SUBSET Team
  OBVIOUS
<1> HIDE DEF Begins
<1>6. \E q : Begins(q)
  BY <1>1, <1>2, <1>3, <1>4, <1>5 DEF Receive
<1> QED BY <1>6 DEF Begins

LEMMA ReceiveType ==
    ASSUME TypeOK, NEW r \in Request, Receive(r)
    PROVE  TypeOK'
<1>1. PICK q : Begin(r, q) /\ Received(q)
  BY Receives
<1> QED BY <1>1, Goes, AccessAssumption DEF Begin, Received, TypeOK

\* The requests that have their next step done, or go on to one.
Proceeds(r) ==
    \/ CreateUser(r) \/ CheckUser(r) \/ IssueInvite(r) \/ ClaimInvite(r) \/ SetPassword(r)
    \/ Authenticate(r) \/ CreateSession(r) \/ DeleteUser(r) \/ DropInvites(r)
    \/ GetOrg(r) \/ SaveOrg(r) \/ NotSaved(r)
    \/ IssueToken(r) \/ RevokeToken(r) \/ Fails(r)

LEMMA SavedType ==
    ASSUME TypeOK, NEW r \in Request, At(r, "load") \/ At(r, "save"), Saved(r)
    PROVE  req' \in [Request -> Reqs]
<1>1. CASE req[r].change.op = "join"
  <2>1. req[r].change.user \in User
    BY <1>1, Fields DEF Changes
  <2>2. GoTo(r, [at |-> "check", user |-> req[r].change.user])
    BY <1>1 DEF Saved
  <2>3. [at |-> "check", user |-> req[r].change.user] \in Reqs
    BY <2>1, NewRequests
  <2> QED BY <2>2, <2>3, Goes
<1>2. CASE req[r].change.op # "join"
  BY <1>2, NewRequests, Goes DEF Saved, Finish
<1> QED BY <1>1, <1>2

\* Nothing but the requests under way changes its type.
LEMMA ReqType ==
    ASSUME TypeOK, NEW r \in Request, NEW q \in Reqs, GoTo(r, q)
    PROVE  req' \in [Request -> Reqs]
BY Goes

LEMMA FinishType ==
    ASSUME TypeOK, NEW r \in Request, Finish(r)
    PROVE  req' \in [Request -> Reqs]
BY NewRequests, ReqType DEF Finish

LEMMA ProceedsType ==
    ASSUME TypeOK, NEW r \in Request, Proceeds(r)
    PROVE  TypeOK'
<1>1. CASE CreateUser(r)
  <2>1. req[r].user \in User /\ req[r].teams \in SUBSET Team
    BY <1>1, Fields DEF CreateUser
  <2>2. /\ [at |-> "check", user |-> req[r].user] \in Reqs
        /\ \A t \in Team : Loads([op |-> "join", user |-> req[r].user, team |-> t]) \in Reqs
    BY <2>1, NewRequests, NewLoads
  <2>3. req' \in [Request -> Reqs]
    BY <1>1, <2>1, <2>2, ReqType, FinishType DEF CreateUser
  <2>4. users' \in [User -> Records \cup {Absent}]
    BY <1>1, <2>1 DEF CreateUser, TypeOK, Records
  <2> QED BY <1>1, <2>3, <2>4 DEF CreateUser, TypeOK
<1>2. CASE CheckUser(r)
  <2>1. req' \in [Request -> Reqs]
    BY <1>2, Fields, NewRequests, ReqType, FinishType DEF CheckUser
  <2> QED BY <1>2, <2>1 DEF CheckUser, TypeOK
<1>3. CASE IssueInvite(r)
  <2>1. req' \in [Request -> Reqs] /\ req[r].user \in User
    BY <1>3, Fields, FinishType DEF IssueInvite
  <2>2. issued' \in Nat /\ issued' \in Numbers
    BY <1>3 DEF IssueInvite, TypeOK, Numbers
  <2> QED BY <1>3, <2>1, <2>2 DEF IssueInvite, TypeOK, WithoutInvites
<1>4. CASE ClaimInvite(r)
  <2>1. \A i \in invites : [at |-> "password", user |-> i[2], number |-> i[1]] \in Reqs
    BY NewRequests DEF TypeOK
  <2>2. req' \in [Request -> Reqs]
    BY <1>4, <2>1, ReqType, FinishType DEF ClaimInvite
  <2>3. invites' \in SUBSET (Numbers \X User)
    BY <1>4 DEF ClaimInvite, Claimed, TypeOK
  <2> QED BY <1>4, <2>2, <2>3 DEF ClaimInvite, TypeOK
<1>5. CASE SetPassword(r)
  <2>1. req[r].user \in User /\ req[r].number \in Numbers
    BY <1>5, Fields DEF SetPassword
  <2>2. req' \in [Request -> Reqs]
    BY <1>5, <2>1, NewRequests, ReqType, FinishType DEF SetPassword
  <2>3. users' \in [User -> Records \cup {Absent}] /\ spent' \in SUBSET Numbers
    BY <1>5, <2>1 DEF SetPassword, TypeOK, Records
  <2> QED BY <1>5, <2>2, <2>3 DEF SetPassword, TypeOK
<1>6. CASE Authenticate(r)
  <2>1. req' \in [Request -> Reqs]
    BY <1>6, Fields, NewRequests, ReqType, FinishType DEF Authenticate
  <2> QED BY <1>6, <2>1 DEF Authenticate, TypeOK
<1>7. CASE CreateSession(r)
  <2>1. req' \in [Request -> Reqs] /\ req[r].user \in User
    BY <1>7, Fields, FinishType DEF CreateSession
  <2> QED BY <1>7, <2>1 DEF CreateSession, TypeOK
<1>8. CASE DeleteUser(r)
  <2>1. req[r].user \in User
    BY <1>8, Fields DEF DeleteUser
  <2>2. req' \in [Request -> Reqs]
    BY <1>8, <2>1, NewRequests, ReqType, FinishType DEF DeleteUser
  <2>3. users' \in [User -> Records \cup {Absent}]
    BY <1>8, <2>1 DEF DeleteUser, TypeOK
  <2> QED BY <1>8, <2>2, <2>3 DEF DeleteUser, TypeOK
<1>9. CASE DropInvites(r)
  <2>1. req' \in [Request -> Reqs]
    BY <1>9, Fields, NewLoads, ReqType DEF DropInvites
  <2> QED BY <1>9, <2>1 DEF DropInvites, WithoutInvites, TypeOK
<1>10. CASE GetOrg(r)
  <2>1. org \in Orgs /\ version \in Nat
    BY DEF TypeOK
  <2>2. req' \in [Request -> Reqs]
    BY <1>10, <2>1, Applied, Fields, NewRequests, ReqType, FinishType DEF GetOrg
  <2> QED BY <1>10, <2>2 DEF GetOrg, TypeOK
<1>11. CASE SaveOrg(r)
  <2>1. req' \in [Request -> Reqs]
    BY <1>11, SavedType DEF SaveOrg
  <2>2. org' \in Orgs /\ version' \in Nat
    BY <1>11, Fields DEF SaveOrg, TypeOK
  <2>3. req[r].change.op = "leave" => req[r].change.user \in User
    BY <1>11, Fields DEF SaveOrg, Changes
  <2>4. deleted' \in SUBSET User
    BY <1>11, <2>3 DEF SaveOrg, TypeOK
  <2> QED BY <1>11, <2>1, <2>2, <2>4 DEF SaveOrg, TypeOK
<1>12. CASE NotSaved(r)
  <2>1. req' \in [Request -> Reqs]
    <3>1. CASE Saved(r)
      BY <1>12, <3>1, SavedType DEF NotSaved
    <3>2. CASE ~Saved(r)
      <4>1. req[r].change \in Changes /\ req[r].tries + 1 \in 1..MaxTries
        BY <1>12, <3>2, Fields, AccessAssumption DEF NotSaved
      <4> QED BY <1>12, <3>2, <4>1, NewRequests, ReqType DEF NotSaved
    <3> QED BY <3>1, <3>2
  <2> QED BY <1>12, <2>1 DEF NotSaved, TypeOK
<1>13. CASE IssueToken(r)
  <2>1. req' \in [Request -> Reqs] /\ req[r].read \in Reads
    BY <1>13, Fields, FinishType DEF IssueToken
  <2>2. issued + 1 \in Nat /\ issued + 1 \in Numbers /\ stamp + 1 \in Nat
    BY DEF TypeOK, Numbers
  <2>3. issued' \in Nat /\ tokens' \in SUBSET Numbers /\ stamp' \in Nat
    BY <1>13, <2>1, <2>2 DEF IssueToken, TypeOK, Reads
  <2> QED BY <1>13, <2>1, <2>3 DEF IssueToken, TypeOK
<1>14. CASE RevokeToken(r)
  <2>1. req' \in [Request -> Reqs] /\ req[r].read \in Reads /\ req[r].number \in Numbers
    BY <1>14, Fields, FinishType DEF RevokeToken
  <2> QED BY <1>14, <2>1 DEF RevokeToken, TypeOK, Reads
<1>15. CASE Fails(r)
  <2>1. req' \in [Request -> Reqs]
    BY <1>15, SavedType, FinishType DEF Fails
  <2> QED BY <1>15, <2>1, AccessAssumption DEF Fails, Fault, TypeOK
<1> QED BY <1>1, <1>2, <1>3, <1>4, <1>5, <1>6, <1>7, <1>8, <1>9, <1>10, <1>11, <1>12,
           <1>13, <1>14, <1>15 DEF Proceeds

LEMMA NextType == TypeOK /\ [Next]_vars => TypeOK'
<1> SUFFICES ASSUME TypeOK, [Next]_vars PROVE TypeOK'
  OBVIOUS
<1>1. ASSUME NEW r \in Request, Receive(r) \/ Proceeds(r)
      PROVE  TypeOK'
  BY <1>1, ReceiveType, ProceedsType
<1>2. CASE InviteExpires
  BY <1>2, AccessAssumption DEF InviteExpires, Fault, TypeOK
<1>3. ASSUME NEW u \in User, DeleteSession(u)
      PROVE  TypeOK'
  BY <1>3 DEF DeleteSession, TypeOK
<1>4. CASE UNCHANGED vars
  BY <1>4 DEF vars, TypeOK
<1> QED BY <1>1, <1>2, <1>3, <1>4 DEF Next, Proceeds

LEMMA InitType == Init => TypeOK
BY AccessAssumption DEF Init, TypeOK, Orgs, Reqs

\* Every state is well typed.
THEOREM TypeCorrect == Spec => []TypeOK
BY InitType, NextType, PTL DEF Spec

-----------------------------------------------------------------------------
(* What a request has read.                                                *)

ReadInv ==
    \A r \in Request :
        /\ At(r, "save") => /\ req[r].read <= version
                            /\ req[r].read = version => req[r].org = Apply(req[r].change, org)
        /\ At(r, "mint") \/ At(r, "revoke") =>
               /\ req[r].read.stamp <= stamp
               /\ req[r].read.stamp = stamp => req[r].read.tokens = tokens

\* A request that has not read anything has nothing to lose.
HasRead(q) == q.at \in {"save", "mint", "revoke"}

\* Where the objects stay, so does what the others have read.
LEMMA ReadKept ==
    ASSUME TypeOK, ReadInv, NEW r \in Request, NEW q, GoTo(r, q), ~HasRead(q),
           UNCHANGED <<org, version, tokens, stamp>>
    PROVE  ReadInv'
BY Goes DEF ReadInv, HasRead, At

\* The requests that are answered after a step, or still have others to make.
LEMMA StepsOn ==
    ASSUME NEW r, DeleteUser(r) \/ DropInvites(r) \/ SaveOrg(r) \/ NotSaved(r) \/ Fails(r)
    PROVE  \E q : GoTo(r, q) /\ q.at \in {"idle", "drop", "load", "check"}
<1>1. Saved(r) \/ Finish(r) => \E q : GoTo(r, q) /\ q.at \in {"idle", "check"}
  BY DEF Saved, Finish, Idle
<1>2. CASE DeleteUser(r)
  BY <1>1, <1>2 DEF DeleteUser
<1>3. CASE DropInvites(r)
  BY <1>3 DEF DropInvites, Loads
<1>4. CASE SaveOrg(r)
  BY <1>1, <1>4 DEF SaveOrg
<1>5. CASE NotSaved(r)
  BY <1>1, <1>5 DEF NotSaved
<1>6. CASE Fails(r)
  BY <1>1, <1>6 DEF Fails
<1> QED BY <1>2, <1>3, <1>4, <1>5, <1>6

LEMMA StepsThere ==
    ASSUME NEW r, \/ CreateUser(r) \/ CheckUser(r) \/ Authenticate(r) \/ CreateSession(r)
                  \/ IssueInvite(r) \/ ClaimInvite(r) \/ SetPassword(r) \/ GetOrg(r)
    PROVE  \E q : /\ GoTo(r, q)
                  /\ q.at \in {"idle", "check", "load", "issue", "enter", "password", "save"}
                  /\ q.at = "password" => ClaimInvite(r)
                  /\ q.at = "save" => GetOrg(r)
<1>1. Finish(r) => GoTo(r, Idle) /\ Idle.at = "idle"
  BY DEF Finish, Idle
<1>2. CASE CreateUser(r)
  <2> DEFINE join(t) == Loads([op |-> "join", user |-> req[r].user, team |-> t])
             check   == [at |-> "check", user |-> req[r].user]
  <2>1. GoTo(r, check) \/ Finish(r) \/ \E t : GoTo(r, join(t))
    BY <1>2 DEF CreateUser
  <2>2. check.at = "check" /\ \A t : join(t).at = "load"
    BY DEF Loads
  <2> HIDE DEF join, check
  <2> QED BY <1>1, <2>1, <2>2
<1>3. CASE CheckUser(r)
  BY <1>1, <1>3 DEF CheckUser
<1>4. CASE IssueInvite(r) \/ CreateSession(r)
  BY <1>1, <1>4 DEF IssueInvite, CreateSession
<1>5. CASE ClaimInvite(r)
  <2>1. ASSUME NEW i, GoTo(r, [at |-> "password", user |-> i[2], number |-> i[1]])
        PROVE  \E q : GoTo(r, q) /\ q.at = "password"
    BY <2>1
  <2> QED BY <1>1, <1>5, <2>1 DEF ClaimInvite
<1>6. CASE SetPassword(r)
  BY <1>1, <1>6 DEF SetPassword
<1>7. CASE Authenticate(r)
  BY <1>1, <1>7 DEF Authenticate
<1>8. CASE GetOrg(r)
  <2> DEFINE c == req[r].change
             q == [at |-> "save", change |-> c, tries |-> req[r].tries, read |-> version,
                   org |-> Apply(c, org)]
  <2>1. Finish(r) \/ GoTo(r, q)
    BY <1>8 DEF GetOrg
  <2>2. q.at = "save"
    OBVIOUS
  <2> HIDE DEF q
  <2> QED BY <1>1, <1>8, <2>1, <2>2
<1> QED BY <1>2, <1>3, <1>4, <1>5, <1>6, <1>7, <1>8

LEMMA ReadBegins ==
    ASSUME TypeOK, ReadInv, NEW r \in Request, Receive(r)
    PROVE  ReadInv'
<1>1. PICK q : Begin(r, q) /\ Received(q)
  BY Receives
<1>2. GoTo(r, q) /\ UNCHANGED <<org, version, tokens, stamp>>
  BY <1>1 DEF Begin
<1>3. req'[r] = q /\ \A s \in Request \ {r} : req'[s] = req[s]
  BY <1>2, Goes
<1>4. CASE q.at \in {"mint", "revoke"}
  BY <1>1, <1>2, <1>3, <1>4 DEF ReadInv, At, TypeOK, Received
<1>5. CASE q.at \notin {"mint", "revoke"}
  BY <1>1, <1>2, <1>5, ReadKept DEF Received, HasRead
<1> QED BY <1>4, <1>5

LEMMA ReadProceeds ==
    ASSUME TypeOK, ReadInv, NEW r \in Request, Proceeds(r)
    PROVE  ReadInv'
<1>1. CASE GetOrg(r)
  <2>1. UNCHANGED <<org, version, tokens, stamp>>
    BY <1>1 DEF GetOrg
  <2>2. CASE Finish(r)
    BY <2>1, <2>2, ReadKept DEF Finish, Idle, HasRead
  <2>3. CASE ~Finish(r)
    <3>1. PICK q : GoTo(r, q) /\ q.at = "save" /\ q.read = version /\ q.org = Apply(q.change, org)
      BY <1>1, <2>3 DEF GetOrg
    <3>2. req'[r] = q /\ \A s \in Request \ {r} : req'[s] = req[s]
      BY <3>1, Goes
    <3> QED BY <2>1, <3>1, <3>2 DEF ReadInv, At, TypeOK
  <2> QED BY <2>2, <2>3
<1>2. CASE SaveOrg(r)
  <2>1. \A s \in Request : At(s, "save")' => s # r /\ req'[s] = req[s]
    <3>1. \E q : GoTo(r, q) /\ q.at # "save"
      BY <1>2 DEF SaveOrg, Saved, Finish, Idle
    <3> QED BY <3>1, Goes DEF At
  <2>2. \A s \in Request : At(s, "mint")' \/ At(s, "revoke")' => req'[s] = req[s]
    <3>1. \E q : GoTo(r, q) /\ q.at \notin {"mint", "revoke"}
      BY <1>2 DEF SaveOrg, Saved, Finish, Idle
    <3> QED BY <3>1, Goes DEF At
  <2>3. /\ version' = IF org' = org THEN version ELSE version + 1
        /\ UNCHANGED <<tokens, stamp>> /\ version \in Nat
        /\ \A s \in Request : At(s, "save") => req[s].read \in Nat
    BY <1>2, Fields DEF SaveOrg, TypeOK
  <2>4. ASSUME NEW s \in Request, At(s, "save")'
        PROVE  /\ req'[s].read <= version'
               /\ req'[s].read = version' => req'[s].org = Apply(req'[s].change, org')
    <3>1. req'[s] = req[s] /\ At(s, "save")
      BY <2>1, <2>4 DEF At
    <3>2. req[s].read <= version /\ (req[s].read = version => req[s].org = Apply(req[s].change, org))
      BY <3>1 DEF ReadInv
    <3>3. CASE org' = org
      BY <3>1, <3>2, <3>3, <2>3
    <3>4. CASE org' # org
      BY <3>1, <3>2, <3>4, <2>3
    <3> QED BY <3>3, <3>4
  <2> QED BY <2>2, <2>3, <2>4 DEF ReadInv, At
<1>3. CASE IssueToken(r) \/ RevokeToken(r)
  <2>1. GoTo(r, Idle) /\ UNCHANGED <<org, version>>
    BY <1>3 DEF IssueToken, RevokeToken, Finish
  <2>2. req'[r] = Idle /\ \A s \in Request \ {r} : req'[s] = req[s]
    BY <2>1, Goes
  <2>3. stamp \in Nat /\ (UNCHANGED <<tokens, stamp>> \/ stamp' = stamp + 1)
    BY <1>3 DEF IssueToken, RevokeToken, TypeOK
  <2>4. \A s \in Request : At(s, "mint") \/ At(s, "revoke") => req[s].read.stamp \in Nat
    BY Fields DEF Reads
  <2> QED BY <2>1, <2>2, <2>3, <2>4 DEF ReadInv, At, Idle
<1>4. CASE \/ CreateUser(r) \/ CheckUser(r) \/ IssueInvite(r) \/ ClaimInvite(r)
           \/ SetPassword(r) \/ Authenticate(r) \/ CreateSession(r)
  <2>1. \E q : GoTo(r, q) /\ ~HasRead(q)
    <3>1. \E q : GoTo(r, q) /\ q.at \notin {"mint", "revoke"} /\ (q.at = "save" => GetOrg(r))
      BY <1>4, StepsThere
    <3>2. ~GetOrg(r)
      BY <1>4 DEF CreateUser, CheckUser, IssueInvite, ClaimInvite, SetPassword, Authenticate,
                  CreateSession, GetOrg, At
    <3> QED BY <3>1, <3>2 DEF HasRead
  <2>2. UNCHANGED <<org, version, tokens, stamp>>
    BY <1>4 DEF CreateUser, CheckUser, IssueInvite, ClaimInvite, SetPassword, Authenticate,
                CreateSession
  <2> QED BY <2>1, <2>2, ReadKept
<1>5. CASE DeleteUser(r) \/ DropInvites(r) \/ NotSaved(r) \/ Fails(r)
  <2>1. \E q : GoTo(r, q) /\ ~HasRead(q)
    BY <1>5, StepsOn DEF HasRead
  <2>2. UNCHANGED <<org, version, tokens, stamp>>
    BY <1>5 DEF DeleteUser, DropInvites, NotSaved, Fails
  <2> QED BY <2>1, <2>2, ReadKept
<1> QED BY <1>1, <1>2, <1>3, <1>4, <1>5 DEF Proceeds

-----------------------------------------------------------------------------
(* The numbers of invites and tokens.                                      *)

IssuedInv ==
    /\ \A i \in invites : i[1] <= issued
    /\ \A i \in spent \cup revoked \cup tokens : i <= issued
    /\ \A r \in Request : At(r, "password") => req[r].number <= issued

NumberInv == IssuedInv /\ InvitesOnce /\ RevokedForGood

\* Where numbers stay and no invite is claimed.
LEMMA NumbersKept ==
    ASSUME TypeOK, NumberInv, NEW r \in Request, NEW q, GoTo(r, q), q.at # "password",
           invites' \subseteq invites, UNCHANGED <<issued, spent, revoked, tokens>>
    PROVE  NumberInv'
<1>1. \A s \in Request : At(s, "password")' => s # r /\ req'[s] = req[s] /\ At(s, "password")
  BY Goes DEF At
<1>2. IssuedInv'
  BY <1>1 DEF NumberInv, IssuedInv
<1>3. InvitesOnce'
  <2>1. \A i, j \in invites' : i[1] = j[1] \/ i[2] = j[2] => i = j
    BY DEF NumberInv, InvitesOnce
  <2>2. \A i \in invites' : i[1] \notin spent' /\ \A s \in Request : ~Claim(s, i[1])'
    BY <1>1 DEF NumberInv, InvitesOnce, Claim
  <2>3. ASSUME NEW s \in Request, At(s, "password")'
        PROVE  /\ req'[s].number \notin spent'
               /\ \A u \in Request \ {s} : ~Claim(u, req[s].number)'
    BY <1>1, <2>3 DEF NumberInv, InvitesOnce, Claim
  <2> QED BY <2>1, <2>2, <2>3 DEF InvitesOnce
<1> QED BY <1>2, <1>3 DEF NumberInv, RevokedForGood

LEMMA NumbersIssued ==
    ASSUME TypeOK, NumberInv, NEW r \in Request, IssueInvite(r)
    PROVE  NumberInv'
<1>1. GoTo(r, Idle) /\ req[r].user \in User
  BY Fields DEF IssueInvite, Finish
<1>2. \A s \in Request : At(s, "password")' => s # r /\ req'[s] = req[s] /\ At(s, "password")
  BY <1>1, Goes DEF At, Idle
<1>3. /\ issued' = issued + 1 /\ issued \in Nat /\ UNCHANGED <<spent, revoked, tokens>>
      /\ \A i \in invites : i[1] \in Nat /\ i[1] <= issued
      /\ \A i \in spent \cup revoked \cup tokens : i \in Nat /\ i <= issued
  BY DEF IssueInvite, TypeOK, Numbers, NumberInv, IssuedInv
<1>4. /\ \A i \in invites' : i = <<issued', req[r].user>> \/ (i \in invites /\ i[2] # req[r].user)
      /\ issued' \notin spent
  BY <1>3 DEF IssueInvite, WithoutInvites
<1>5. \A s \in Request : At(s, "password") => req[s].number \in Nat /\ req[s].number <= issued
  BY Fields DEF NumberInv, IssuedInv, Numbers
<1>6. IssuedInv'
  BY <1>2, <1>3, <1>4, <1>5 DEF IssuedInv
<1>7. InvitesOnce'
  <2>1. \A i, j \in invites' : i[1] = j[1] \/ i[2] = j[2] => i = j
    BY <1>3, <1>4 DEF NumberInv, InvitesOnce
  <2>2. \A i \in invites' : i[1] \notin spent' /\ \A s \in Request : ~Claim(s, i[1])'
    BY <1>2, <1>3, <1>4, <1>5 DEF NumberInv, InvitesOnce, Claim
  <2>3. ASSUME NEW s \in Request, At(s, "password")'
        PROVE  /\ req'[s].number \notin spent'
               /\ \A u \in Request \ {s} : ~Claim(u, req[s].number)'
    BY <1>2, <1>3, <2>3 DEF NumberInv, InvitesOnce, Claim
  <2> QED BY <2>1, <2>2, <2>3 DEF InvitesOnce
<1> QED BY <1>3, <1>6, <1>7 DEF NumberInv, RevokedForGood

LEMMA NumbersClaimed ==
    ASSUME TypeOK, NumberInv, NEW r \in Request, ClaimInvite(r)
    PROVE  NumberInv'
<1>1. UNCHANGED <<issued, spent, revoked, tokens>>
  BY DEF ClaimInvite
<1>2. CASE Finish(r) /\ UNCHANGED invites
  BY <1>1, <1>2, NumbersKept DEF Finish, Idle
<1>3. CASE \E i \in invites : /\ invites' = Claimed(i)
                              /\ GoTo(r, [at |-> "password", user |-> i[2], number |-> i[1]])
  <2>1. PICK i \in invites : /\ invites' = Claimed(i)
                             /\ GoTo(r, [at |-> "password", user |-> i[2], number |-> i[1]])
    BY <1>3
  <2>2. /\ req'[r].at = "password" /\ req'[r].number = i[1]
        /\ \A s \in Request \ {r} : req'[s] = req[s]
    BY <2>1, Goes
  <2>3. \A s \in Request : At(s, "password")' =>
            \/ s = r /\ req'[s].number = i[1]
            \/ s # r /\ At(s, "password") /\ req'[s].number = req[s].number
                     /\ req[s].number # i[1]
    BY <2>2 DEF At, NumberInv, InvitesOnce, Claim
  <2>4. \A j \in invites' : j \in invites /\ j[1] # i[1]
    BY <2>1 DEF Claimed, NumberInv, InvitesOnce
  <2>5. IssuedInv'
    BY <1>1, <2>3, <2>4 DEF NumberInv, IssuedInv
  <2>6. InvitesOnce'
    <3>1. \A j, k \in invites' : j[1] = k[1] \/ j[2] = k[2] => j = k
      BY <2>4 DEF NumberInv, InvitesOnce
    <3>2. \A j \in invites' : j[1] \notin spent' /\ \A s \in Request : ~Claim(s, j[1])'
      BY <1>1, <2>3, <2>4 DEF NumberInv, InvitesOnce, Claim
    <3>3. ASSUME NEW s \in Request, At(s, "password")'
          PROVE  /\ req'[s].number \notin spent'
                 /\ \A u \in Request \ {s} : ~Claim(u, req[s].number)'
      BY <1>1, <2>3, <3>3 DEF NumberInv, InvitesOnce, Claim
    <3> QED BY <3>1, <3>2, <3>3 DEF InvitesOnce
  <2> QED BY <1>1, <2>5, <2>6 DEF NumberInv, RevokedForGood
<1> QED BY <1>2, <1>3 DEF ClaimInvite

LEMMA NumbersSpent ==
    ASSUME TypeOK, NumberInv, NEW r \in Request, SetPassword(r)
    PROVE  NumberInv'
<1>1. UNCHANGED <<issued, invites, revoked, tokens>> /\ At(r, "password")
  BY DEF SetPassword
<1>2. CASE Finish(r) /\ UNCHANGED spent
  BY <1>1, <1>2, NumbersKept DEF Finish, Idle
<1>3. CASE spent' = spent \cup {req[r].number} /\ \E q : GoTo(r, q) /\ q.at = "enter"
  <2>1. \A s \in Request : At(s, "password")' =>
            s # r /\ req'[s] = req[s] /\ At(s, "password") /\ req[s].number # req[r].number
    BY <1>1, <1>3, Goes DEF At, NumberInv, InvitesOnce, Claim
  <2>2. IssuedInv'
    BY <1>1, <1>3, <2>1 DEF NumberInv, IssuedInv
  <2>3. InvitesOnce'
    <3>1. \A j, k \in invites' : j[1] = k[1] \/ j[2] = k[2] => j = k
      BY <1>1 DEF NumberInv, InvitesOnce
    <3>2. \A j \in invites' : j[1] \notin spent' /\ \A s \in Request : ~Claim(s, j[1])'
      BY <1>1, <1>3, <2>1 DEF NumberInv, InvitesOnce, Claim
    <3>3. ASSUME NEW s \in Request, At(s, "password")'
          PROVE  /\ req'[s].number \notin spent'
                 /\ \A u \in Request \ {s} : ~Claim(u, req[s].number)'
      BY <1>3, <2>1, <3>3 DEF NumberInv, InvitesOnce, Claim
    <3> QED BY <3>1, <3>2, <3>3 DEF InvitesOnce
  <2> QED BY <1>1, <2>2, <2>3 DEF NumberInv, RevokedForGood
<1> QED BY <1>2, <1>3 DEF SetPassword

LEMMA NumbersOfTokens ==
    ASSUME TypeOK, ReadInv, NumberInv, NEW r \in Request, IssueToken(r) \/ RevokeToken(r)
    PROVE  NumberInv'
<1>1. GoTo(r, Idle) /\ UNCHANGED <<invites, spent>>
  BY DEF IssueToken, RevokeToken, Finish
<1>2. \A s \in Request : At(s, "password")' => s # r /\ req'[s] = req[s] /\ At(s, "password")
  BY <1>1, Goes DEF At, Idle
<1>3. InvitesOnce'
  <2>1. \A j, k \in invites' : j[1] = k[1] \/ j[2] = k[2] => j = k
    BY <1>1 DEF NumberInv, InvitesOnce
  <2>2. \A j \in invites' : j[1] \notin spent' /\ \A s \in Request : ~Claim(s, j[1])'
    BY <1>1, <1>2 DEF NumberInv, InvitesOnce, Claim
  <2>3. ASSUME NEW s \in Request, At(s, "password")'
        PROVE  /\ req'[s].number \notin spent'
               /\ \A u \in Request \ {s} : ~Claim(u, req[s].number)'
    BY <1>1, <1>2, <2>3 DEF NumberInv, InvitesOnce, Claim
  <2> QED BY <2>1, <2>2, <2>3 DEF InvitesOnce
<1>4. \A i \in invites : i[1] \in Nat
  BY DEF TypeOK, Numbers
<1>5. \A s \in Request : At(s, "password") => req[s].number \in Nat
  BY Fields DEF Numbers
<1>6. CASE IssueToken(r)
  <2>1. /\ issued' = issued \/ issued' = issued + 1
        /\ issued \in Nat /\ revoked' = revoked
        /\ \A i \in spent \cup revoked \cup tokens : i \in Nat /\ i <= issued
    BY <1>6 DEF IssueToken, TypeOK, Numbers, NumberInv, IssuedInv
  <2>2. tokens' = tokens \/ (issued' = issued + 1 /\ tokens' = tokens \cup {issued + 1})
    BY <1>6 DEF IssueToken, SameStamp, ReadInv
  <2>3. IssuedInv'
    BY <1>1, <1>2, <1>4, <1>5, <2>1, <2>2 DEF NumberInv, IssuedInv
  <2>4. RevokedForGood'
    BY <2>1, <2>2 DEF NumberInv, RevokedForGood
  <2> QED BY <1>3, <2>3, <2>4 DEF NumberInv
<1>7. CASE RevokeToken(r)
  <2>1. issued' = issued
    BY <1>7 DEF RevokeToken
  <2>2. \/ UNCHANGED <<tokens, revoked>>
        \/ /\ tokens' = tokens \ {req[r].number} /\ revoked' = revoked \cup {req[r].number}
           /\ req[r].number \in tokens
    BY <1>7 DEF RevokeToken, SameStamp, ReadInv
  <2>3. IssuedInv'
    BY <1>1, <1>2, <2>1, <2>2 DEF NumberInv, IssuedInv
  <2>4. RevokedForGood'
    BY <2>2 DEF NumberInv, RevokedForGood
  <2> QED BY <1>3, <2>3, <2>4 DEF NumberInv
<1> QED BY <1>6, <1>7

LEMMA NumbersProceed ==
    ASSUME TypeOK, ReadInv, NumberInv, NEW r \in Request, Proceeds(r)
    PROVE  NumberInv'
<1>1. CASE IssueInvite(r) \/ ClaimInvite(r) \/ SetPassword(r) \/ IssueToken(r) \/ RevokeToken(r)
  BY <1>1, NumbersIssued, NumbersClaimed, NumbersSpent, NumbersOfTokens
<1>2. CASE CreateUser(r) \/ CheckUser(r) \/ Authenticate(r) \/ CreateSession(r) \/ GetOrg(r)
  <2>1. \E q : GoTo(r, q) /\ q.at # "password"
    <3>1. \E q : GoTo(r, q) /\ (q.at = "password" => ClaimInvite(r))
      BY <1>2, StepsThere
    <3>2. ~ClaimInvite(r)
      BY <1>2 DEF CreateUser, CheckUser, ClaimInvite, Authenticate, CreateSession, GetOrg, At
    <3> QED BY <3>1, <3>2
  <2>2. UNCHANGED <<invites, issued, spent, revoked, tokens>>
    BY <1>2 DEF CreateUser, CheckUser, Authenticate, CreateSession, GetOrg
  <2> QED BY <2>1, <2>2, NumbersKept
<1>3. CASE DeleteUser(r) \/ DropInvites(r) \/ SaveOrg(r) \/ NotSaved(r) \/ Fails(r)
  <2>1. \E q : GoTo(r, q) /\ q.at # "password"
    BY <1>3, StepsOn
  <2>2. invites' \subseteq invites /\ UNCHANGED <<issued, spent, revoked, tokens>>
    BY <1>3 DEF DeleteUser, DropInvites, WithoutInvites, SaveOrg, NotSaved, Fails
  <2> QED BY <2>1, <2>2, NumbersKept
<1> QED BY <1>1, <1>2, <1>3 DEF Proceeds

LEMMA NumbersReceived ==
    ASSUME TypeOK, NumberInv, NEW r \in Request, Receive(r)
    PROVE  NumberInv'
<1>1. PICK q : Begin(r, q) /\ Received(q)
  BY Receives
<1> QED BY <1>1, NumbersKept DEF Begin, Received

-----------------------------------------------------------------------------
(* The deletion of a user.                                                 *)

\* The request is not about the user, or can do no more than let the user in.
Bystander(q, u) == u \in About(q) => q.at \in {"password", "enter"}

Alone(r, u) == \A s \in Request \ {r} : Bystander(req[s], u)

Gone(u) == users[u] = Absent /\ \A i \in invites : i[2] # u

\* A deletion that nothing overlaps: what each of its steps may rely on.
Deleting(r) ==
    \/ At(r, "idle")
    \/ At(r, "delete") /\ Alone(r, req[r].user)
    \/ At(r, "drop") /\ Alone(r, req[r].user) /\ users[req[r].user] = Absent
    \/ /\ At(r, "load") \/ At(r, "save")
       /\ req[r].change.op = "leave"
       /\ Alone(r, req[r].change.user) /\ Gone(req[r].change.user)

Erased(u) ==
    /\ Gone(u)
    /\ \A m \in org.members : m[2] # u
    /\ \A s \in Request : Bystander(req[s], u)

DeleteInv ==
    /\ \A r \in apart : Deleting(r)
    /\ \A u \in deleted : Erased(u)

\* What a step of one request may do to the others: it is about users that it was
\* about, and nothing else comes back.
Within(r, q) ==
    /\ \A u \in User : Bystander(req[r], u) =>
          /\ Bystander(q, u)
          /\ users[u] = Absent => users'[u] = Absent
          /\ \A i \in invites' : i[2] = u => i \in invites
          /\ \A m \in org'.members : m[2] = u => m \in org.members
    /\ apart' = apart

LEMMA DeletionKept ==
    ASSUME TypeOK, DeleteInv, NEW r \in Request, NEW q, GoTo(r, q), Within(r, q),
           r \in apart => Deleting(r)',
           \A u \in deleted' \ deleted : Erased(u)'
    PROVE  DeleteInv'
<1>1. req'[r] = q /\ \A s \in Request \ {r} : req'[s] = req[s]
  BY Goes
<1>2. ASSUME NEW u \in User, NEW s \in Request, s # r, Alone(s, u)
      PROVE  Alone(s, u)' /\ (Gone(u) => Gone(u)') /\ (users[u] = Absent => users'[u] = Absent)
  BY <1>1, <1>2 DEF Alone, Within, Gone
<1>3. ASSUME NEW s \in apart, s # r
      PROVE  Deleting(s)'
  <2>1. s \in Request /\ Deleting(s) /\ req'[s] = req[s]
    BY <1>1, <1>3 DEF DeleteInv, TypeOK
  <2>2. At(s, "delete") \/ At(s, "drop") => req[s].user \in User
    BY <2>1, Fields
  <2>3. (At(s, "load") \/ At(s, "save")) /\ req[s].change.op = "leave" => req[s].change.user \in User
    BY <2>1, Fields DEF Changes
  <2>4. CASE At(s, "idle")
    BY <2>1, <2>4 DEF Deleting, At
  <2>5. CASE At(s, "delete") \/ At(s, "drop")
    BY <2>1, <2>2, <2>5, <1>2, <1>3 DEF Deleting, At
  <2>6. CASE At(s, "load") \/ At(s, "save")
    BY <2>1, <2>3, <2>6, <1>2, <1>3 DEF Deleting, At
  <2> QED BY <2>1, <2>4, <2>5, <2>6 DEF Deleting
<1>4. ASSUME NEW u \in deleted
      PROVE  Erased(u)'
  <2>1. u \in User /\ Erased(u)
    BY DEF DeleteInv, TypeOK
  <2>2. Bystander(req[r], u)
    BY <2>1 DEF Erased
  <2> QED BY <1>1, <2>1, <2>2 DEF Erased, Gone, Within
<1> QED BY <1>3, <1>4 DEF DeleteInv, Within

LEMMA DeletionReceived ==
    ASSUME TypeOK, DeleteInv, NEW r \in Request, Receive(r)
    PROVE  DeleteInv'
<1>1. PICK q : Begin(r, q) /\ Received(q)
  BY Receives
<1>2. req'[r] = q /\ \A s \in Request \ {r} : req'[s] = req[s]
  BY <1>1, Goes DEF Begin
<1>3. UNCHANGED <<users, invites, org>> /\ deleted' = deleted \ About(q)
  BY <1>1 DEF Begin
<1>4. ASSUME NEW u, u \notin About(q), NEW s, Alone(s, u)
      PROVE  Alone(s, u)'
  BY <1>2, <1>4 DEF Alone, Bystander
<1>5. ASSUME NEW s \in apart'
      PROVE  Deleting(s)'
  <2>1. CASE s = r
    <3>1. q.at = "delete" /\ \A p \in Request : q.user \notin About(req[p])
      BY <1>1, <1>5, <2>1 DEF Begin
    <3>2. Alone(r, q.user)'
      BY <1>2, <3>1 DEF Alone, Bystander
    <3> QED BY <1>2, <2>1, <3>1, <3>2 DEF Deleting, At
  <2>2. CASE s # r
    <3>1. s \in apart /\ s \in Request /\ Deleting(s) /\ About(req[s]) \cap About(q) = {}
      BY <1>1, <1>5, <2>2 DEF Begin, DeleteInv, TypeOK
    <3>2. req'[s] = req[s]
      BY <1>2, <2>2, <3>1
    <3>3. At(s, "delete") \/ At(s, "drop") => req[s].user \notin About(q)
      BY <3>1 DEF About, At
    <3>4. (At(s, "load") \/ At(s, "save")) /\ req[s].change.op = "leave" =>
              req[s].change.user \notin About(q)
      BY <3>1 DEF About, At
    <3>5. CASE At(s, "idle")
      BY <3>2, <3>5 DEF Deleting, At
    <3>6. CASE At(s, "delete") \/ At(s, "drop")
      BY <1>3, <1>4, <3>1, <3>2, <3>3, <3>6 DEF Deleting, At
    <3>7. CASE At(s, "load") \/ At(s, "save")
      BY <1>3, <1>4, <3>1, <3>2, <3>4, <3>7 DEF Deleting, At, Gone
    <3> QED BY <3>1, <3>5, <3>6, <3>7 DEF Deleting
  <2> QED BY <2>1, <2>2
<1>6. \A u \in deleted' : Erased(u)'
  BY <1>2, <1>3 DEF DeleteInv, Erased, Gone, Bystander
<1> QED BY <1>5, <1>6 DEF DeleteInv

\* Steps that change neither users, invites nor the organisation, of requests that
\* delete nobody, or are answered.
LEMMA DeletionAside ==
    ASSUME TypeOK, DeleteInv, NEW r \in Request, NEW q, GoTo(r, q),
           \A u \in User : Bystander(req[r], u) => Bystander(q, u),
           UNCHANGED <<users, org, apart, deleted>>, invites' \subseteq invites,
           \/ q.at = "idle"
           \/ req[r].at \notin {"idle", "delete", "drop", "load", "save"}
           \/ req[r].at \in {"load", "save"} /\ req[r].change.op # "leave"
    PROVE  DeleteInv'
<1>1. Within(r, q)
  BY DEF Within
<1>2. r \in apart => Deleting(r)'
  BY Goes DEF DeleteInv, Deleting, At
<1> QED BY <1>1, <1>2, DeletionKept

LEMMA IdleAside == \A u : Bystander(Idle, u)
BY DEF Bystander, About, Idle

\* The users that a change is about.
Concerns(c) ==
    IF c.op \in {"join", "leave"} THEN {c.user}
    ELSE IF c.op \in {"addTeam", "editTeam"} THEN c.members ELSE {}

LEMMA AppliesTo ==
    ASSUME NEW c \in Changes, NEW o \in Orgs
    PROVE  /\ \A m \in Apply(c, o).members : m \in o.members \/ m[2] \in Concerns(c)
           /\ c.op = "leave" => \A m \in Apply(c, o).members : m[2] # c.user
<1>1. CASE c.op = "join"
  BY <1>1 DEF Changes, Orgs, Apply, Concerns
<1>2. CASE c.op = "leave"
  BY <1>2 DEF Changes, Orgs, Apply, Concerns
<1>3. CASE c.op = "addTeam"
  BY <1>3 DEF Changes, Orgs, Apply, Concerns
<1>4. CASE c.op = "editTeam"
  BY <1>4 DEF Changes, Orgs, Apply, Of, Concerns
<1>5. CASE c.op = "deleteTeam"
  BY <1>5 DEF Changes, Orgs, Apply, Of, Concerns
<1>6. CASE c.op \in {"bind", "unbind"}
  BY <1>6 DEF Changes, Orgs, Apply, Concerns
<1> QED BY <1>1, <1>2, <1>3, <1>4, <1>5, <1>6 DEF Changes

LEMMA DeletionProceeds ==
    ASSUME TypeOK, ReadInv, DeleteInv, NEW r \in Request, Proceeds(r)
    PROVE  DeleteInv'
<1>1. CASE CreateUser(r)
  <2>1. At(r, "create") /\ UNCHANGED <<invites, org, apart, deleted>>
    BY <1>1 DEF CreateUser
  <2>2. \A u \in User : Bystander(req[r], u) => u # req[r].user /\ users'[u] = users[u]
    BY <1>1, <2>1 DEF CreateUser, Bystander, About, At, TypeOK
  <2>3. r \notin apart
    BY <2>1 DEF DeleteInv, Deleting, At
  <2>4. ASSUME NEW q, GoTo(r, q), \A u : u \in About(q) => u = req[r].user
        PROVE  DeleteInv'
    <3>1. Within(r, q)
      BY <2>1, <2>2, <2>4 DEF Within, Bystander
    <3> QED BY <2>1, <2>3, <2>4, <3>1, DeletionKept
  <2>5. /\ \A u : u \in About([at |-> "check", user |-> req[r].user]) => u = req[r].user
        /\ \A t, u : u \in About(Loads([op |-> "join", user |-> req[r].user, team |-> t]))
                        => u = req[r].user
        /\ \A u : u \notin About(Idle)
    BY DEF About, Loads, Idle
  <2> QED BY <1>1, <2>4, <2>5 DEF CreateUser, Finish
<1>2. CASE CheckUser(r)
  <2>1. \A u : Bystander(req[r], u) => Bystander([at |-> "issue", user |-> req[r].user], u)
    BY <1>2 DEF CheckUser, Bystander, About, At
  <2> QED BY <1>2, <2>1, IdleAside, DeletionAside DEF CheckUser, Finish, At
<1>3. CASE IssueInvite(r)
  <2>1. \A u : Bystander(req[r], u) => u # req[r].user
    BY <1>3 DEF IssueInvite, Bystander, About, At
  <2>2. Within(r, Idle)
    BY <1>3, <2>1, IdleAside DEF IssueInvite, WithoutInvites, Within
  <2>3. r \notin apart
    BY <1>3 DEF IssueInvite, DeleteInv, Deleting, At
  <2> QED BY <1>3, <2>2, <2>3, DeletionKept DEF IssueInvite, Finish
<1>4. CASE ClaimInvite(r)
  <2>1. \A n, u, v : Bystander([at |-> "password", user |-> v, number |-> n], u)
    BY DEF Bystander
  <2> QED BY <1>4, <2>1, IdleAside, DeletionAside DEF ClaimInvite, Claimed, Finish, At
<1>5. CASE SetPassword(r)
  <2>1. \A u, v : Bystander([at |-> "enter", user |-> v], u)
    BY DEF Bystander
  <2>2. \E q : GoTo(r, q) /\ \A u : Bystander(q, u)
    BY <1>5, <2>1, IdleAside DEF SetPassword, Finish
  <2>3. /\ \A u \in User : users[u] = Absent => users'[u] = Absent
        /\ UNCHANGED <<invites, org, apart, deleted>>
    BY <1>5 DEF SetPassword, StillThere, TypeOK
  <2>4. r \notin apart
    BY <1>5 DEF SetPassword, DeleteInv, Deleting, At
  <2> QED BY <2>2, <2>3, <2>4, DeletionKept DEF Within
<1>6. CASE Authenticate(r)
  <2>1. \A u, v : Bystander([at |-> "enter", user |-> v], u)
    BY DEF Bystander
  <2> QED BY <1>6, <2>1, IdleAside, DeletionAside DEF Authenticate, Finish, At
<1>7. CASE CreateSession(r) \/ IssueToken(r) \/ RevokeToken(r)
  BY <1>7, IdleAside, DeletionAside DEF CreateSession, IssueToken, RevokeToken, Finish, Idle
<1>8. CASE DeleteUser(r)
  <2> DEFINE u == req[r].user
             q == [at |-> "drop", user |-> u]
  <2>1. /\ At(r, "delete") /\ u \in User
        /\ UNCHANGED <<invites, org, apart, deleted>>
    BY <1>8, Fields DEF DeleteUser
  <2>2. CASE Finish(r) /\ UNCHANGED users
    BY <2>1, <2>2, IdleAside, DeletionAside DEF Finish, Idle
  <2>3. CASE users' = [users EXCEPT ![u] = Absent] /\ GoTo(r, q)
    <3>1. Within(r, q)
      BY <2>1, <2>3 DEF Within, Bystander, About, At, TypeOK
    <3>2. req'[r] = q /\ \A s \in Request \ {r} : req'[s] = req[s]
      BY <2>3, Goes
    <3>3. r \in apart => Alone(r, u)'
      BY <2>1, <3>2 DEF DeleteInv, Deleting, At, Alone
    <3>4. users'[u] = Absent
      BY <2>1, <2>3 DEF TypeOK
    <3>5. r \in apart => Deleting(r)'
      BY <3>2, <3>3, <3>4 DEF Deleting, At
    <3> QED BY <2>1, <2>3, <3>1, <3>5, DeletionKept
  <2> QED BY <1>8, <2>2, <2>3 DEF DeleteUser
<1>9. CASE DropInvites(r)
  <2>0. PICK u \in User : u = req[r].user
    BY <1>9, Fields DEF DropInvites
  <2> DEFINE c == [op |-> "leave", user |-> u]
             q == Loads(c)
  <2>1. /\ At(r, "drop") /\ GoTo(r, q) /\ invites' = WithoutInvites(u)
        /\ UNCHANGED <<users, org, apart, deleted>>
    BY <1>9, <2>0 DEF DropInvites
  <2>2. q.at = "load" /\ q.change = c
    BY DEF Loads
  <2> HIDE DEF q
  <2>3. Within(r, q)
    BY <2>0, <2>1, <2>2 DEF Within, Bystander, About, At, WithoutInvites
  <2>4. req'[r] = q /\ \A s \in Request \ {r} : req'[s] = req[s]
    BY <2>1, Goes
  <2>5. r \in apart => Alone(r, u)' /\ Gone(u)'
    BY <2>0, <2>1, <2>4 DEF DeleteInv, Deleting, At, Alone, Gone, WithoutInvites
  <2>6. r \in apart => Deleting(r)'
    BY <2>2, <2>4, <2>5 DEF Deleting, At
  <2> QED BY <2>1, <2>3, <2>6, DeletionKept
<1>10. CASE GetOrg(r) \/ (NotSaved(r) /\ ~Saved(r))
  <2>1. /\ At(r, "load") \/ At(r, "save")
        /\ UNCHANGED <<users, invites, org, apart, deleted>>
    BY <1>10 DEF GetOrg, NotSaved
  <2>2. CASE Finish(r)
    BY <2>1, <2>2, IdleAside, DeletionAside DEF Finish, Idle
  <2>3. CASE ~Finish(r)
    <3>1. PICK q : GoTo(r, q) /\ q.at \in {"load", "save"} /\ q.change = req[r].change
      BY <1>10, <2>3 DEF GetOrg, NotSaved
    <3>2. req'[r] = q /\ \A s \in Request \ {r} : req'[s] = req[s]
      BY <3>1, Goes
    <3>3. Within(r, q)
      BY <2>1, <3>1 DEF Within, Bystander, About, At
    <3>4. r \in apart => Deleting(r)'
      BY <2>1, <3>1, <3>2 DEF DeleteInv, Deleting, At, Alone, Gone
    <3> QED BY <2>1, <3>1, <3>3, <3>4, DeletionKept
  <2> QED BY <2>2, <2>3
<1>11. CASE (NotSaved(r) /\ Saved(r)) \/ Fails(r)
  <2>1. UNCHANGED <<users, invites, org, apart, deleted>>
    BY <1>11 DEF NotSaved, Fails
  <2>2. CASE Finish(r)
    BY <2>1, <2>2, IdleAside, DeletionAside DEF Finish, Idle
  <2>3. CASE ~Finish(r)
    <3> DEFINE u == req[r].change.user
               q == [at |-> "check", user |-> u]
    <3>1. (At(r, "load") \/ At(r, "save")) /\ req[r].change.op = "join" /\ GoTo(r, q)
      BY <1>11, <2>3 DEF NotSaved, Fails, Saved
    <3>2. \A v : Bystander(req[r], v) => Bystander(q, v)
      BY <3>1 DEF Bystander, About, At
    <3> QED BY <2>1, <3>1, <3>2, DeletionAside DEF At
  <2> QED BY <2>2, <2>3
<1>12. CASE SaveOrg(r)
  <2>0. PICK c \in Changes : c = req[r].change
    BY <1>12, Fields DEF SaveOrg
  <2>1. /\ At(r, "save") /\ org' = Apply(c, org)
        /\ UNCHANGED <<users, invites, apart>>
    BY <1>12, <2>0 DEF SaveOrg, Unchanged, ReadInv
  <2>2. \A m \in org'.members : m \in org.members \/ m[2] \in Concerns(c)
    BY <2>1, AppliesTo DEF TypeOK
  <2>3. About(req[r]) = Concerns(c)
    BY <2>0, <2>1 DEF About, Concerns, At
  <2>4. PICK q : GoTo(r, q) /\ \A u : Bystander(req[r], u) => Bystander(q, u)
    <3>1. \A u : Bystander(req[r], u) => Bystander([at |-> "check", user |-> c.user], u) \/ c.op # "join"
      BY <2>0, <2>1 DEF Bystander, About, At
    <3> QED BY <1>12, <2>0, <3>1, IdleAside DEF SaveOrg, Saved, Finish
  <2>5. Within(r, q)
    BY <2>1, <2>2, <2>3, <2>4 DEF Within, Bystander, At
  <2>6. CASE c.op # "leave"
    <3>1. deleted' = deleted /\ r \notin apart
      BY <1>12, <2>0, <2>1, <2>6 DEF SaveOrg, DeleteInv, Deleting, At
    <3> QED BY <2>4, <2>5, <3>1, DeletionKept
  <2>7. CASE c.op = "leave"
    <3>1. /\ GoTo(r, Idle) /\ \A m \in org'.members : m[2] # c.user
          /\ deleted' = IF r \in apart THEN deleted \cup {c.user} ELSE deleted
      BY <1>12, <2>0, <2>1, <2>7, AppliesTo DEF SaveOrg, Saved, Finish, TypeOK
    <3>2. req'[r] = Idle /\ \A s \in Request \ {r} : req'[s] = req[s]
      BY <3>1, Goes
    <3>3. Within(r, Idle) /\ Deleting(r)'
      BY <2>1, <2>2, <2>3, <3>2, IdleAside DEF Within, Bystander, At, Deleting, Idle
    <3>4. r \in apart => Alone(r, c.user) /\ Gone(c.user)
      BY <2>0, <2>1, <2>7 DEF DeleteInv, Deleting, At
    <3>5. r \in apart => Erased(c.user)'
      BY <2>1, <3>1, <3>2, <3>4, IdleAside DEF Erased, Alone, Gone
    <3> QED BY <3>1, <3>3, <3>5, DeletionKept
  <2> QED BY <2>6, <2>7
<1> QED BY <1>1, <1>2, <1>3, <1>4, <1>5, <1>6, <1>7, <1>8, <1>9, <1>10, <1>11, <1>12 DEF Proceeds

-----------------------------------------------------------------------------
(* The theorems.                                                           *)

IInv == TypeOK /\ ReadInv /\ NumberInv /\ DeleteInv

LEMMA InitIInv == Init => IInv
<1> SUFFICES ASSUME Init PROVE IInv
  OBVIOUS
<1>1. \A r \in Request : req[r].at = "idle"
  BY DEF Init, Idle
<1>2. ReadInv /\ NumberInv
  BY <1>1 DEF Init, ReadInv, NumberInv, IssuedInv, InvitesOnce, Claim, RevokedForGood, At
<1>3. DeleteInv
  BY DEF Init, DeleteInv
<1> QED BY <1>2, <1>3, InitType DEF IInv

LEMMA NextIInv == IInv /\ [Next]_vars => IInv'
<1> SUFFICES ASSUME IInv, [Next]_vars PROVE IInv'
  OBVIOUS
<1> USE DEF IInv
<1>1. TypeOK'
  BY NextType
<1>2. ASSUME NEW r \in Request, Receive(r)
      PROVE  IInv'
  BY <1>1, <1>2, ReadBegins, NumbersReceived, DeletionReceived
<1>3. ASSUME NEW r \in Request, Proceeds(r)
      PROVE  IInv'
  BY <1>1, <1>3, ReadProceeds, NumbersProceed, DeletionProceeds
<1>4. CASE InviteExpires \/ (\E u \in User : DeleteSession(u)) \/ UNCHANGED vars
  <2>1. /\ invites' \subseteq invites
        /\ UNCHANGED <<users, org, version, tokens, stamp, req, issued, spent, revoked, apart,
                       deleted>>
    BY <1>4 DEF InviteExpires, DeleteSession, vars
  <2>2. ReadInv'
    BY <2>1 DEF ReadInv, At
  <2>3. NumberInv'
    BY <2>1 DEF NumberInv, IssuedInv, InvitesOnce, Claim, RevokedForGood, At
  <2>4. DeleteInv'
    <3>1. \A u : Gone(u) => Gone(u)'
      BY <2>1 DEF Gone
    <3>2. \A r, u : Alone(r, u) => Alone(r, u)'
      BY <2>1 DEF Alone, Bystander, About
    <3>3. \A r : Deleting(r) => Deleting(r)'
      BY <2>1, <3>1, <3>2 DEF Deleting, At
    <3>4. \A u : Erased(u) => Erased(u)'
      BY <2>1, <3>1 DEF Erased, Bystander, About
    <3> QED BY <2>1, <3>3, <3>4 DEF DeleteInv
  <2> QED BY <1>1, <2>2, <2>3, <2>4
<1> QED BY <1>2, <1>3, <1>4 DEF Next, Proceeds

\* The inductive invariant holds of all requests that overlap in any way.
THEOREM AccessInvariance == Spec => []IInv
BY InitIInv, NextIInv, PTL DEF Spec

\* No invite sets two passwords.
THEOREM InvitesOnceAlways == Spec => []InvitesOnce
<1>1. IInv => InvitesOnce
  BY DEF IInv, NumberInv
<1> QED BY <1>1, AccessInvariance, PTL

\* A token that was reported revoked is never valid again.
THEOREM RevokedForGoodAlways == Spec => []RevokedForGood
<1>1. IInv => RevokedForGood
  BY DEF IInv, NumberInv
<1> QED BY <1>1, AccessInvariance, PTL

\* A deletion that nothing overlaps and that does not fail leaves nothing of the user.
THEOREM DeletedWholeAlways == Spec => []DeletedWhole
<1>1. IInv => DeletedWhole
  BY DEF IInv, DeleteInv, Erased, Gone, DeletedWhole
<1> QED BY <1>1, AccessInvariance, PTL

\* The calls that change users, and the organisation.
LEMMA WhoChanges ==
    ASSUME [Next]_vars
    PROVE  /\ \/ UNCHANGED users
              \/ \E r \in Request : CreateUser(r) \/ SetPassword(r) \/ DeleteUser(r)
           /\ UNCHANGED org \/ \E r \in Request : SaveOrg(r)
<1>1. ASSUME NEW r \in Request, Receive(r) \/ Fails(r)
      PROVE  UNCHANGED <<users, org>>
  BY <1>1 DEF Receive, Begin, Fails
<1>2. ASSUME NEW r \in Request,
             \/ CheckUser(r) \/ IssueInvite(r) \/ ClaimInvite(r) \/ Authenticate(r)
             \/ CreateSession(r)
      PROVE  UNCHANGED <<users, org>>
  BY <1>2 DEF CheckUser, IssueInvite, ClaimInvite, Authenticate, CreateSession
<1>3. ASSUME NEW r \in Request,
             DropInvites(r) \/ GetOrg(r) \/ NotSaved(r) \/ IssueToken(r) \/ RevokeToken(r)
      PROVE  UNCHANGED <<users, org>>
  BY <1>3 DEF DropInvites, GetOrg, NotSaved, IssueToken, RevokeToken
<1>4. ASSUME NEW r \in Request, CreateUser(r) \/ SetPassword(r) \/ DeleteUser(r)
      PROVE  UNCHANGED org
  BY <1>4 DEF CreateUser, SetPassword, DeleteUser
<1>5. ASSUME NEW r \in Request, SaveOrg(r)
      PROVE  UNCHANGED users
  BY <1>5 DEF SaveOrg
<1>6. CASE InviteExpires \/ (\E u \in User : DeleteSession(u)) \/ UNCHANGED vars
  BY <1>6 DEF InviteExpires, DeleteSession, vars
<1> QED BY <1>1, <1>2, <1>3, <1>4, <1>5, <1>6 DEF Next

\* Only a request that creates a user makes a record where there is none.
THEOREM OnlyCreatedAlways == Spec => OnlyCreated
<1>1. ASSUME TypeOK, [Next]_vars, NEW u \in User, users[u] = Absent, users'[u] # Absent
      PROVE  \E r \in Request : At(r, "create") /\ req[r].user = u
  <2>1. UNCHANGED users \/ \E r \in Request : CreateUser(r) \/ SetPassword(r) \/ DeleteUser(r)
    BY <1>1, WhoChanges
  <2>2. PICK r \in Request : CreateUser(r) \/ SetPassword(r) \/ DeleteUser(r)
    BY <1>1, <2>1
  <2>3. ~SetPassword(r) /\ ~DeleteUser(r)
    BY <1>1 DEF SetPassword, StillThere, DeleteUser, TypeOK
  <2>4. CreateUser(r)
    BY <2>2, <2>3
  <2> QED BY <1>1, <2>4 DEF CreateUser, TypeOK
<1>2. TypeOK /\ [Next]_vars =>
          [\A u \in User : users[u] = Absent /\ users'[u] # Absent =>
              \E r \in Request : At(r, "create") /\ req[r].user = u]_vars
  BY <1>1
<1> QED BY <1>2, TypeCorrect, PTL DEF Spec, OnlyCreated

\* The organisation only ever changes by one request's change to what is stored.
THEOREM NoLostUpdateAlways == Spec => NoLostUpdate
<1>1. ASSUME IInv, [Next]_vars, org' # org
      PROVE  \E r \in Request : At(r, "save") /\ org' = Apply(req[r].change, org)
  <2>1. UNCHANGED org \/ \E r \in Request : SaveOrg(r)
    BY <1>1, WhoChanges
  <2>2. PICK r \in Request : SaveOrg(r)
    BY <1>1, <2>1
  <2> QED BY <1>1, <2>2 DEF SaveOrg, Unchanged, IInv, ReadInv
<1> QED BY <1>1, AccessInvariance, PTL DEF Spec, NoLostUpdate
=============================================================================
