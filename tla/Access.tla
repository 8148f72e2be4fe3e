-------------------------------- MODULE Access --------------------------------
(***************************************************************************)
(* Local users, their invites and sessions, the teams of the organisation  *)
(* and API tokens (internal/localuser/kube.go, internal/rbac/k8s.go,       *)
(* internal/token/kube.go, internal/session and their handlers in          *)
(* internal/server).                                                       *)
(*                                                                         *)
(* Users, invites and tokens are three Secrets, the organisation is a      *)
(* ConfigMap; each is updated with the version that was read.  Users and   *)
(* invites are mutated again and again until that succeeds, which is one   *)
(* step here.  The organisation and the tokens are read in one step and    *)
(* written in another, so that several requests may have read the same.    *)
(* A request that spans several objects may fail or die in between.        *)
(*                                                                         *)
(* The ConfigMap exists, as the chart installs it.  Who may make a request *)
(* is not modelled: all of these are an administrator's.                   *)
(***************************************************************************)
EXTENDS Naturals, FiniteSets

CONSTANTS
    User,         \* names
    Team,         \* names of teams
    Request,      \* requests under way at the same time
    MaxTries,     \* of a mutation of the organisation
    MaxRequests,  \* bound: requests
    MaxFaults     \* bound: failing calls, dying requests, expiring invites

ASSUME AccessAssumption ==
    /\ MaxTries \in Nat \ {0} /\ MaxRequests \in Nat /\ MaxFaults \in Nat

VARIABLES
    users,     \* for each name, the record in the Secret: which invite set its password
    invites,   \* the Secret with the outstanding invites
    org,       \* teams, their members, and which of them have a role
    version,   \* of the organisation
    tokens,    \* the Secret with tokens
    stamp,     \* its version
    sessions,  \* names with a session in the server's memory
    req,       \* the requests under way
    requests, faults, issued,  \* so far; invites and tokens are numbered
    spent,     \* history variable: the invites that have set a password
    revoked,   \* history variable: tokens that were reported revoked
    apart,     \* history variable: deletions that no request about the same user overlaps
    deleted    \* history variable: names deleted by such a one without a failure, and
               \* that no request has been about since

vars == <<users, invites, org, version, tokens, stamp, sessions, req, requests, faults,
          issued, spent, revoked, apart, deleted>>

Absent  == [absent |-> TRUE]
Numbers == Nat \ {0}   \* of invites and tokens

Records == [password : Numbers \cup {0}]
Orgs    == [teams : SUBSET Team, members : SUBSET (Team \X User), roles : SUBSET Team]
Changes == [op : {"join"}, user : User, team : Team]
               \cup [op : {"leave"}, user : User]
               \cup [op : {"addTeam", "editTeam"}, team : Team, members : SUBSET User]
               \cup [op : {"deleteTeam", "bind", "unbind"}, team : Team]

Reads == [stamp : Nat, tokens : SUBSET Numbers]

\* A request: the step that it is at, and what it has in hand.
Idle == [at |-> "idle"]
Reqs ==
    {Idle}
    \cup [at : {"create"}, user : User, teams : SUBSET Team]
    \cup [at : {"check", "issue", "delete", "drop", "login", "enter"}, user : User]
    \cup [at : {"claim"}, number : Numbers]
    \cup [at : {"password"}, user : User, number : Numbers]
    \cup [at : {"load"}, change : Changes, tries : 1..MaxTries]
    \cup [at : {"save"}, change : Changes, tries : 1..MaxTries, read : Nat, org : Orgs]
    \cup [at : {"mint"}, read : Reads]
    \cup [at : {"revoke"}, read : Reads, number : Numbers]

TypeOK ==
    /\ users \in [User -> Records \cup {Absent}]
    /\ invites \in SUBSET (Numbers \X User)
    /\ org \in Orgs /\ version \in Nat
    /\ tokens \in SUBSET Numbers /\ stamp \in Nat
    /\ sessions \in SUBSET User
    /\ req \in [Request -> Reqs]
    /\ requests \in 0..MaxRequests /\ faults \in 0..MaxFaults /\ issued \in Nat
    /\ spent \in SUBSET Numbers /\ revoked \in SUBSET Numbers /\ apart \in SUBSET Request
    /\ deleted \in SUBSET User

\* All teams are there, with a role each.
Init ==
    /\ users = [u \in User |-> Absent]
    /\ invites = {} /\ tokens = {} /\ sessions = {}
    /\ org = [teams |-> Team, members |-> {}, roles |-> Team]
    /\ version = 1 /\ stamp = 1
    /\ req = [r \in Request |-> Idle]
    /\ requests = 0 /\ faults = 0 /\ issued = 0
    /\ spent = {} /\ revoked = {} /\ apart = {} /\ deleted = {}

-----------------------------------------------------------------------------
At(r, step)   == req[r].at = step
GoTo(r, next) == req' = [req EXCEPT ![r] = next]
Finish(r)     == GoTo(r, Idle)

Fault == faults < MaxFaults /\ faults' = faults + 1

\* The users that a request is about.
About(q) ==
    IF q.at \in {"load", "save"}
    THEN IF q.change.op \in {"join", "leave"} THEN {q.change.user}
         ELSE IF q.change.op \in {"addTeam", "editTeam"} THEN q.change.members ELSE {}
    ELSE IF q.at \in {"idle", "claim", "mint", "revoke"} THEN {} ELSE {q.user}

Begin(r, q) ==
    /\ At(r, "idle")
    /\ requests < MaxRequests /\ requests' = requests + 1
    /\ GoTo(r, q)
    /\ apart' = {s \in apart \ {r} : About(req[s]) \cap About(q) = {}}
                   \cup IF q.at = "delete" /\ \A s \in Request : q.user \notin About(req[s])
                        THEN {r} ELSE {}
    /\ deleted' = deleted \ About(q)
    /\ UNCHANGED <<users, invites, org, version, tokens, stamp, sessions, faults, issued,
                   spent, revoked>>

-----------------------------------------------------------------------------
(* Users and invites.                                                      *)

Loads(change) == [at |-> "load", change |-> change, tries |-> 1]

\* Create, with the teams to join.
CreateUser(r) ==
    LET u == req[r].user IN
    /\ At(r, "create")
    /\ IF users[u] = Absent
       THEN /\ users' = [users EXCEPT ![u] = [password |-> 0]]
            /\ \/ req[r].teams = {} /\ GoTo(r, [at |-> "check", user |-> u])
               \/ \E t \in req[r].teams : GoTo(r, Loads([op |-> "join", user |-> u, team |-> t]))
       ELSE Finish(r) /\ UNCHANGED users
    /\ UNCHANGED <<invites, org, version, tokens, stamp, sessions, requests, faults, issued,
                   spent, revoked, apart, deleted>>

\* IssueInvite finds the user, and then changes the invites.
CheckUser(r) ==
    /\ At(r, "check")
    /\ IF users[req[r].user] # Absent
       THEN GoTo(r, [at |-> "issue", user |-> req[r].user])
       ELSE Finish(r)
    /\ UNCHANGED <<users, invites, org, version, tokens, stamp, sessions, requests, faults,
                   issued, spent, revoked, apart, deleted>>

\* Mutant: older invites stay.
Outstanding(u) == invites

\* The invites that are not for this user.
WithoutInvites(u) == {i \in invites : i[2] # u}

IssueInvite(r) ==
    /\ At(r, "issue")
    /\ issued' = issued + 1
    /\ invites' = WithoutInvites(req[r].user) \cup {<<issued', req[r].user>>}
    /\ Finish(r)
    /\ UNCHANGED <<users, org, version, tokens, stamp, sessions, requests, faults, spent,
                   revoked, apart, deleted>>

InviteExpires ==
    /\ Fault
    /\ \E i \in invites : invites' = invites \ {i}
    /\ UNCHANGED <<users, org, version, tokens, stamp, sessions, req, requests, issued, spent,
                   revoked, apart, deleted>>

\* Mutant: the invite is only looked at.
Resolved(i) == invites

\* The invite is taken before the password is set.
Claimed(i) == invites \ {i}

\* RedeemInvite.
ClaimInvite(r) ==
    /\ At(r, "claim")
    /\ \/ \E i \in invites :
             /\ i[1] = req[r].number
             /\ invites' = Claimed(i)
             /\ GoTo(r, [at |-> "password", user |-> i[2], number |-> i[1]])
       \/ /\ \A i \in invites : i[1] # req[r].number
          /\ Finish(r) /\ UNCHANGED invites
    /\ UNCHANGED <<users, org, version, tokens, stamp, sessions, requests, faults, issued,
                   spent, revoked, apart, deleted>>

\* Mutant: a record is written, be there one or not.
WithoutLooking(u) == TRUE

\* The user is looked up again.
StillThere(u) == users[u] # Absent

SetPassword(r) ==
    LET u == req[r].user IN
    /\ At(r, "password")
    /\ IF StillThere(u)
       THEN /\ users' = [users EXCEPT ![u] = [password |-> req[r].number]]
            /\ spent' = spent \cup {req[r].number}
            /\ GoTo(r, [at |-> "enter", user |-> u])
       ELSE Finish(r) /\ UNCHANGED <<users, spent>>
    /\ UNCHANGED <<invites, org, version, tokens, stamp, sessions, requests, faults, issued,
                   revoked, apart, deleted>>

\* A user with a password logs in.
Authenticate(r) ==
    LET u == req[r].user IN
    /\ At(r, "login")
    /\ IF users[u] # Absent /\ users[u].password # 0
       THEN GoTo(r, [at |-> "enter", user |-> u])
       ELSE Finish(r)
    /\ UNCHANGED <<users, invites, org, version, tokens, stamp, sessions, requests, faults,
                   issued, spent, revoked, apart, deleted>>

CreateSession(r) ==
    /\ At(r, "enter")
    /\ sessions' = sessions \cup {req[r].user}
    /\ Finish(r)
    /\ UNCHANGED <<users, invites, org, version, tokens, stamp, requests, faults, issued, spent,
                   revoked, apart, deleted>>

\* A logout, or the session expires.
DeleteSession(u) ==
    /\ u \in sessions /\ sessions' = sessions \ {u}
    /\ UNCHANGED <<users, invites, org, version, tokens, stamp, req, requests, faults, issued,
                   spent, revoked, apart, deleted>>

\* Delete: the user, the invites, the memberships.
DeleteUser(r) ==
    LET u == req[r].user IN
    /\ At(r, "delete")
    /\ IF users[u] # Absent
       THEN users' = [users EXCEPT ![u] = Absent] /\ GoTo(r, [at |-> "drop", user |-> u])
       ELSE Finish(r) /\ UNCHANGED users
    /\ UNCHANGED <<invites, org, version, tokens, stamp, sessions, requests, faults, issued,
                   spent, revoked, apart, deleted>>

DropInvites(r) ==
    LET u == req[r].user IN
    /\ At(r, "drop")
    /\ invites' = WithoutInvites(u)
    /\ GoTo(r, Loads([op |-> "leave", user |-> u]))
    /\ UNCHANGED <<users, org, version, tokens, stamp, sessions, requests, faults, issued, spent,
                   revoked, apart, deleted>>

-----------------------------------------------------------------------------
(* The organisation.                                                       *)

\* 404, 409, or the team is still referenced.
Refused(c, o) ==
    \/ c.op = "addTeam" /\ c.team \in o.teams
    \/ c.op \in {"editTeam", "deleteTeam"} /\ c.team \notin o.teams
    \/ c.op \in {"deleteTeam", "bind"} /\ c.team \in o.roles
    \/ c.op = "unbind" /\ c.team \notin o.roles

Of(t, members) == {m \in members : m[1] = t}

\* Mutant: only the teams that have a role are left.
LeavesRoles(c, o) ==
    CASE c.op = "join"  -> IF c.team \notin o.teams THEN o
                           ELSE [o EXCEPT !.members = @ \cup {<<c.team, c.user>>}]
      [] c.op = "leave" -> [o EXCEPT !.members = {m \in @ : m[2] # c.user \/ m[1] \notin o.roles}]
      [] c.op = "addTeam"  -> [o EXCEPT !.teams = @ \cup {c.team},
                                        !.members = @ \cup ({c.team} \X c.members)]
      [] c.op = "editTeam" -> [o EXCEPT !.members = (@ \ Of(c.team, @)) \cup ({c.team} \X c.members)]
      [] c.op = "deleteTeam" -> [o EXCEPT !.teams = @ \ {c.team}, !.members = @ \ Of(c.team, @)]
      [] c.op = "bind"   -> [o EXCEPT !.roles = @ \cup {c.team}]
      [] c.op = "unbind" -> [o EXCEPT !.roles = @ \ {c.team}]

\* What a request makes of the organisation.
Apply(c, o) ==
    CASE c.op = "join"  -> IF c.team \notin o.teams THEN o
                           ELSE [o EXCEPT !.members = @ \cup {<<c.team, c.user>>}]
      [] c.op = "leave" -> [o EXCEPT !.members = {m \in @ : m[2] # c.user}]
      [] c.op = "addTeam"  -> [o EXCEPT !.teams = @ \cup {c.team},
                                        !.members = @ \cup ({c.team} \X c.members)]
      [] c.op = "editTeam" -> [o EXCEPT !.members = (@ \ Of(c.team, @)) \cup ({c.team} \X c.members)]
      [] c.op = "deleteTeam" -> [o EXCEPT !.teams = @ \ {c.team}, !.members = @ \ Of(c.team, @)]
      [] c.op = "bind"   -> [o EXCEPT !.roles = @ \cup {c.team}]
      [] c.op = "unbind" -> [o EXCEPT !.roles = @ \ {c.team}]

GetOrg(r) ==
    LET c == req[r].change IN
    /\ At(r, "load")
    /\ IF Refused(c, org) THEN Finish(r)
       ELSE GoTo(r, [at |-> "save", change |-> c, tries |-> req[r].tries, read |-> version,
                     org |-> Apply(c, org)])
    /\ UNCHANGED <<users, invites, org, version, tokens, stamp, sessions, requests, faults,
                   issued, spent, revoked, apart, deleted>>

\* Validate: a binding references a team that exists.
Valid(o) == o.roles \subseteq o.teams

\* Mutant: the version that was read is not compared.
Whatever(r) == TRUE

\* The update is pinned to the version that was read.
Unchanged(r) == req[r].read = version

\* The request has its answer, or goes on with the invite.
Saved(r) ==
    LET c == req[r].change IN
    IF c.op = "join" THEN GoTo(r, [at |-> "check", user |-> c.user]) ELSE Finish(r)

SaveOrg(r) ==
    LET c == req[r].change IN
    /\ At(r, "save")
    /\ Valid(req[r].org) /\ Unchanged(r)
    /\ org' = req[r].org
    /\ version' = IF org' = org THEN version ELSE version + 1
    /\ deleted' = IF c.op = "leave" /\ r \in apart
                  THEN deleted \cup {c.user} ELSE deleted
    /\ Saved(r)
    /\ UNCHANGED <<users, invites, tokens, stamp, sessions, requests, faults, issued, spent,
                   revoked, apart>>

\* Invalid, or a conflict: MutateOrg tries again and then gives up, which is only
\* logged; others report it.
NotSaved(r) ==
    LET c == req[r].change IN
    /\ At(r, "save")
    /\ ~(Valid(req[r].org) /\ Unchanged(r))
    /\ IF c.op \in {"join", "leave"} /\ Valid(req[r].org) /\ req[r].tries < MaxTries
       THEN GoTo(r, [at |-> "load", change |-> c, tries |-> req[r].tries + 1])
       ELSE Saved(r)
    /\ UNCHANGED <<users, invites, org, version, tokens, stamp, sessions, requests, faults,
                   issued, spent, revoked, apart, deleted>>

-----------------------------------------------------------------------------
(* API tokens: read when the request begins; a conflict is an error.       *)

\* Mutant: the Secret is put whatever became of it.
AnyStamp(r) == TRUE

SameStamp(r) == req[r].read.stamp = stamp

IssueToken(r) ==
    /\ At(r, "mint")
    /\ IF SameStamp(r)
       THEN /\ issued' = issued + 1
            /\ tokens' = req[r].read.tokens \cup {issued'}
            /\ stamp' = stamp + 1
       ELSE UNCHANGED <<issued, tokens, stamp>>
    /\ Finish(r)
    /\ UNCHANGED <<users, invites, org, version, sessions, requests, faults, spent, revoked,
                   apart, deleted>>

RevokeToken(r) ==
    LET i == req[r].number IN
    /\ At(r, "revoke")
    /\ IF i \in req[r].read.tokens /\ SameStamp(r)
       THEN /\ tokens' = req[r].read.tokens \ {i}
            /\ stamp' = stamp + 1
            /\ revoked' = revoked \cup {i}
       ELSE UNCHANGED <<tokens, stamp, revoked>>
    /\ Finish(r)
    /\ UNCHANGED <<users, invites, org, version, sessions, requests, faults, issued, spent,
                   apart, deleted>>

-----------------------------------------------------------------------------
\* A call fails or the request dies, at any step: what is done stays.  Where
\* MutateOrg fails, a request that creates a user goes on.
Fails(r) ==
    /\ Fault
    /\ ~At(r, "idle")
    /\ IF At(r, "load") \/ At(r, "save") THEN Saved(r) \/ Finish(r) ELSE Finish(r)
    /\ UNCHANGED <<users, invites, org, version, tokens, stamp, sessions, requests, issued,
                   spent, revoked, apart, deleted>>

Receive(r) ==
    \/ \E u \in User :
          \/ \E teams \in {{}} \cup {{t} : t \in Team} :
                Begin(r, [at |-> "create", user |-> u, teams |-> teams])
          \/ \E step \in {"check", "delete", "login"} : Begin(r, [at |-> step, user |-> u])
    \/ \E i \in 1..issued : Begin(r, [at |-> "claim", number |-> i])
    \/ \E t \in Team :
          \/ \E op \in {"deleteTeam", "bind", "unbind"} : Begin(r, Loads([op |-> op, team |-> t]))
          \/ \E op \in {"addTeam", "editTeam"}, members \in SUBSET User :
                Begin(r, Loads([op |-> op, team |-> t, members |-> members]))
    \/ Begin(r, [at |-> "mint", read |-> [stamp |-> stamp, tokens |-> tokens]])
    \/ \E i \in 1..issued :
          Begin(r, [at |-> "revoke", number |-> i, read |-> [stamp |-> stamp, tokens |-> tokens]])

Next ==
    \/ \E r \in Request :
          \/ Receive(r) \/ Fails(r)
          \/ CreateUser(r) \/ CheckUser(r) \/ IssueInvite(r) \/ ClaimInvite(r) \/ SetPassword(r)
          \/ Authenticate(r) \/ CreateSession(r) \/ DeleteUser(r) \/ DropInvites(r)
          \/ GetOrg(r) \/ SaveOrg(r) \/ NotSaved(r)
          \/ IssueToken(r) \/ RevokeToken(r)
    \/ InviteExpires \/ \E u \in User : DeleteSession(u)

Spec == Init /\ [][Next]_vars

-----------------------------------------------------------------------------
(* Properties.                                                             *)

\* A request that has claimed the invite and not used it yet.
Claim(r, i) == At(r, "password") /\ req[r].number = i

\* An invite is good for one password: it is outstanding, or some request has claimed
\* it, or it is spent; and a user has at most one, the newest (RedeemInvite, IssueInvite).
InvitesOnce ==
    /\ \A i, j \in invites : i[1] = j[1] \/ i[2] = j[2] => i = j
    /\ \A i \in invites : i[1] \notin spent /\ \A r \in Request : ~Claim(r, i[1])
    /\ \A r \in Request : At(r, "password") =>
          /\ req[r].number \notin spent
          /\ \A s \in Request \ {r} : ~Claim(s, req[r].number)

\* Nobody has a record again after being deleted but by a request that creates it,
\* also if a redemption or an invite was under way (RedeemInvite, Delete).
OnlyCreated ==
    [][\A u \in User : users[u] = Absent /\ users'[u] # Absent =>
          \E r \in Request : At(r, "create") /\ req[r].user = u]_vars

\* Every change of the organisation is some request's own change to what is stored at
\* that time: of requests that read the same organisation, none undoes another's
\* (SaveOrg, MutateOrg).
NoLostUpdate ==
    [][org' # org => \E r \in Request : At(r, "save") /\ org' = Apply(req[r].change, org)]_vars

\* A token that was reported revoked is never valid again, though another request may
\* have read it before and write the Secret afterwards (Issue, Delete).
RevokedForGood == revoked \cap tokens = {}

\* What is reported deleted is gone from all three objects, unless a call failed or
\* another request was about the same user (handleDeleteLocalUser).
DeletedWhole ==
    \A u \in deleted :
        /\ users[u] = Absent
        /\ \A i \in invites : i[2] # u
        /\ \A m \in org.members : m[2] # u
=============================================================================
