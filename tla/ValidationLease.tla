-------------------------- MODULE ValidationLease ---------------------------
(***************************************************************************)
(* The lease of a validation Stage, WithValidationLease                    *)
(* (internal/kube/ephemeral_validation.go).                                *)
(*                                                                         *)
(* The lease and the run live in two annotations of the Kargo Stage.  A    *)
(* caller takes the lease with an optimistic update of the Stage, works    *)
(* under a deadline, and saves the run with another optimistic update that *)
(* also drops the lease.  The Stage has other writers (Kargo's status, the *)
(* promotion reservation, the scheduler handoff), so either update may     *)
(* conflict and be tried again.                                            *)
(*                                                                         *)
(* Time is counted down: every variable that ends in a deadline holds what *)
(* is left until then.  A context that has ended makes its call return at  *)
(* once, so time does not pass beyond it.                                  *)
(***************************************************************************)
EXTENDS Integers

CONSTANTS
    Workers,      \* goroutines: a ticker or an update request, over all replicas
    Nobody,       \* no lease annotation
    Dead,         \* the token of a lease whose owner has given up or died
    MaxRun,       \* bound: how often the saved run changes
    LeaseTime,    \* 15 minutes
    WorkTime,     \* 10 minutes
    SaveTime,     \* 10 seconds
    AcquireTime   \* how long acquiring takes at most: the code sets no limit

ASSUME TokenAssumption == Nobody # Dead /\ {Nobody, Dead} \cap Workers = {}
ASSUME TimeAssumption ==
    /\ {MaxRun, LeaseTime, WorkTime, SaveTime, AcquireTime} \subseteq Nat

\* "Work has a shorter deadline than the lease", even after a slow acquisition:
\* the end of the lease is fixed before the acquisition begins.
ASSUME TimelyAcquire == AcquireTime + WorkTime < LeaseTime

VARIABLES
    lease,    \* Stage annotation: the owner's token, and the time left of it
    run,      \* Stage annotation: the run, of which only the version matters
    pc,       \* where each worker is in WithValidationLease
    fresh,    \* is the resourceVersion of the Stage that it has read current?
    copy,     \* its copy of the run
    base,     \* history variable: the saved run that the copy was made from
    spent,    \* the time since it fixed the end of its lease
    left      \* the time left of the context under which it works or saves

vars == <<lease, run, pc, fresh, copy, base, spent, left>>

Runs  == 0..MaxRun
Steps == {"idle", "read", "acquire", "work", "check", "save"}

TypeOK ==
    /\ lease \in [token : Workers \cup {Nobody, Dead}, left : Int]
    /\ run \in Runs
    /\ pc \in [Workers -> Steps]
    /\ fresh \in [Workers -> BOOLEAN]
    /\ copy \in [Workers -> Runs]
    /\ base \in [Workers -> Runs]
    /\ spent \in [Workers -> 0..AcquireTime]
    /\ left \in [Workers -> Nat] /\ \A w \in Workers : left[w] <= WorkTime + SaveTime

Init ==
    /\ lease = [token |-> Nobody, left |-> -1]
    /\ run = 0
    /\ pc = [w \in Workers |-> "idle"]
    /\ fresh = [w \in Workers |-> FALSE]
    /\ copy = [w \in Workers |-> 0]
    /\ base = [w \in Workers |-> 0]
    /\ spent = [w \in Workers |-> 0]
    /\ left = [w \in Workers |-> 0]

-----------------------------------------------------------------------------
Goto(w, step) == pc' = [pc EXCEPT ![w] = step]

\* The call returns or dies.  A lease that it still holds stays until its time
\* is up, and nobody has its token any more.
Leave(w) ==
    /\ Goto(w, "idle")
    /\ fresh' = [fresh EXCEPT ![w] = FALSE]
    /\ copy' = [copy EXCEPT ![w] = 0]
    /\ base' = [base EXCEPT ![w] = 0]
    /\ spent' = [spent EXCEPT ![w] = 0]
    /\ left' = [left EXCEPT ![w] = 0]

Abandoned(w) == IF lease.token = w THEN [lease EXCEPT !.token = Dead] ELSE lease

\* The call begins: it draws a token and fixes the end of the lease.
Begin(w) ==
    /\ pc[w] = "idle"
    /\ Goto(w, "read")
    /\ spent' = [spent EXCEPT ![w] = 0]
    /\ UNCHANGED <<lease, run, fresh, copy, base, left>>

\* No lease, or one whose end has come: ~time.Now().Before(old.Until).
Available == lease.token = Nobody \/ lease.left <= 0

\* Get the Stage and copy the run, if the lease is available.
ReadStage(w) ==
    /\ pc[w] = "read"
    /\ Available
    /\ copy' = [copy EXCEPT ![w] = run]
    /\ base' = [base EXCEPT ![w] = run]
    /\ fresh' = [fresh EXCEPT ![w] = TRUE]
    /\ Goto(w, "acquire")
    /\ UNCHANGED <<lease, run, spent, left>>

\* The API server takes an update: the Stage has not changed since the read.
NoConflict(w) == fresh[w]

\* Update the Stage with the lease.  On a conflict RetryOnConflict reads again.
Acquire(w) ==
    /\ pc[w] = "acquire"
    /\ \/ /\ NoConflict(w)
          /\ lease' = [token |-> w, left |-> LeaseTime - spent[w]]
          /\ fresh' = [v \in Workers |-> FALSE]
          /\ left' = [left EXCEPT ![w] = WorkTime]
          /\ Goto(w, "work")
       \/ /\ ~NoConflict(w)
          /\ Goto(w, "read")
          /\ UNCHANGED <<lease, fresh, left>>
    /\ UNCHANGED <<run, copy, base, spent>>

\* fn ends, at its deadline at the latest, and may have advanced the run.
EndWork(w) ==
    /\ pc[w] = "work"
    /\ \E r \in {copy[w], copy[w] + 1} \cap Runs : copy' = [copy EXCEPT ![w] = r]
    /\ left' = [left EXCEPT ![w] = SaveTime]
    /\ Goto(w, "check")
    /\ UNCHANGED <<lease, run, fresh, base, spent>>

\* Mutant: the run is saved whoever has the lease.
AnyToken(w) == TRUE

\* The lease is still the caller's, and not over.
StillOwner(w) == lease.token = w /\ lease.left >= 0

\* Get the Stage again and check the lease.
CheckLease(w) ==
    /\ pc[w] = "check"
    /\ StillOwner(w)
    /\ fresh' = [fresh EXCEPT ![w] = TRUE]
    /\ Goto(w, "save")
    /\ UNCHANGED <<lease, run, copy, base, spent, left>>

\* Update the Stage with the run and without the lease.
Save(w) ==
    /\ pc[w] = "save"
    /\ \/ /\ NoConflict(w)
          /\ run' = copy[w]
          /\ lease' = [token |-> Nobody, left |-> -1]
          /\ Goto(w, "idle")
          /\ fresh' = [v \in Workers |-> FALSE]
          /\ copy' = [copy EXCEPT ![w] = 0]
          /\ base' = [base EXCEPT ![w] = 0]
          /\ spent' = [spent EXCEPT ![w] = 0]
          /\ left' = [left EXCEPT ![w] = 0]
       \/ /\ ~NoConflict(w)
          /\ Goto(w, "check")
          /\ UNCHANGED <<lease, run, fresh, copy, base, spent, left>>

\* Any call fails, the lease is busy or lost, the conflicts were too many, or
\* the process dies.
Fail(w) ==
    /\ pc[w] # "idle"
    /\ lease' = Abandoned(w)
    /\ Leave(w)
    /\ UNCHANGED run

\* Acquire took effect but its answer was lost: the caller leaves the lease.
AcquireUnanswered(w) ==
    /\ pc[w] = "acquire" /\ NoConflict(w)
    /\ lease' = [token |-> Dead, left |-> LeaseTime - spent[w]]
    /\ Goto(w, "idle")
    /\ fresh' = [v \in Workers |-> FALSE]
    /\ copy' = [copy EXCEPT ![w] = 0]
    /\ base' = [base EXCEPT ![w] = 0]
    /\ spent' = [spent EXCEPT ![w] = 0]
    /\ UNCHANGED <<run, left>>

\* Anybody else writes the Stage, and keeps both annotations.
OtherWrite ==
    /\ \E w \in Workers : fresh[w]
    /\ fresh' = [w \in Workers |-> FALSE]
    /\ UNCHANGED <<lease, run, pc, copy, base, spent, left>>

Tick ==
    /\ \A w \in Workers :
          /\ pc[w] \in {"read", "acquire"} => spent[w] < AcquireTime
          /\ pc[w] \in {"work", "check", "save"} => left[w] > 0
    /\ lease' = [lease EXCEPT !.left = IF @ > -1 THEN @ - 1 ELSE -1]
    /\ spent' = [w \in Workers |->
                    IF pc[w] \in {"read", "acquire"} THEN spent[w] + 1 ELSE spent[w]]
    /\ left' = [w \in Workers |-> IF left[w] > 0 THEN left[w] - 1 ELSE 0]
    /\ UNCHANGED <<run, pc, fresh, copy, base>>

Next ==
    \/ \E w \in Workers :
          \/ Begin(w) \/ ReadStage(w) \/ Acquire(w) \/ AcquireUnanswered(w)
          \/ EndWork(w) \/ CheckLease(w) \/ Save(w) \/ Fail(w)
    \/ OtherWrite
    \/ Tick

Spec == Init /\ [][Next]_vars

-----------------------------------------------------------------------------
(* What the lease promises.                                                *)

\* At most one lifecycle action is at work on the Stage: the lease and the run
\* record "serialize workers" (docs/release-validation.md).
ExclusiveWork ==
    \A v, w \in Workers : pc[v] = "work" /\ pc[w] = "work" => v = w

\* Progress is never lost or resurrected: a run that is saved was made from
\* the run that it replaces.
ProgressFromLatest ==
    [][run' # run =>
          \E w \in Workers : pc[w] = "save" /\ base[w] = run /\ run' = copy[w]]_vars

\* All of it together: the exclusive lease.
LeaseOwner == IF lease.token \in Workers THEN lease.token ELSE Nobody

AtWork == \E w \in Workers : pc[w] = "work"

Lease == INSTANCE ExclusiveLease
            WITH Owners <- Workers, owner <- LeaseOwner, working <- AtWork

IsExclusiveLease == Lease!Spec

-----------------------------------------------------------------------------
(* Why it holds: the inductive invariant.                                  *)

\* By how much a lease outlasts the work that is done under it, at least.
Slack == LeaseTime - (AcquireTime + WorkTime)

\* A token on the Stage belongs to a call that has not returned.
TokenInv ==
    \A w \in Workers : lease.token = w => pc[w] \in {"work", "check", "save"}

\* What was read from the Stage holds while its version is current.
FreshInv ==
    \A w \in Workers : fresh[w] =>
        \/ pc[w] = "acquire" /\ Available /\ base[w] = run
        \/ pc[w] = "save" /\ lease.token = w

\* Whoever has the lease works from the saved run ...
BaseInv ==
    \A w \in Workers : lease.token = w => base[w] = run

\* ... and its work ends before the lease does.
WorkInv ==
    \A w \in Workers : pc[w] = "work" =>
        lease.token = w /\ lease.left >= left[w] + Slack

IInv == TypeOK /\ TokenInv /\ FreshInv /\ BaseInv /\ WorkInv

=============================================================================
