-------------------------- MODULE ValidationProofs --------------------------
(***************************************************************************)
(* The validation of releases, for any number of workers, requests,        *)
(* Freight and runs of the reconciler.                                     *)
(*                                                                         *)
(* ValidationLease: the lease of a Stage, for any deadlines of which the   *)
(* lease's outlasts acquisition and work, implements ExclusiveLease.       *)
(*                                                                         *)
(* ValidationRun (second part): the reconciler and the requests use the    *)
(* lease as ExclusiveLease allows, in every mode.  Then, for a mode that   *)
(* does not change, what a run promises: FixedInv says how the phase of    *)
(* the saved run, the one that the reconciler has in hand, Kargo and Argo  *)
(* CD go together.  Last, for a mode that one request after the other      *)
(* changes once at most: OnceInv says what may be left of a release when   *)
(* the mode has changed.                                                   *)
(***************************************************************************)
EXTENDS ValidationLease, ValidationRun, TLAPS

\* The lease is not available while anybody works under it.
LEMMA BusyAtWork ==
    ASSUME IInv, NEW w \in Workers, pc[w] = "work"
    PROVE  ~Available
  <1>1. lease.token = w /\ lease.left >= left[w] + Slack
    BY DEF IInv, WorkInv
  <1>2. Slack > 0 /\ Slack \in Int
    BY TimeAssumption, TimelyAcquire DEF Slack
  <1>3. lease.left \in Int /\ left[w] \in Nat
    BY DEF IInv, TypeOK
  <1> QED
    BY <1>1, <1>2, <1>3, TokenAssumption DEF Available

\* Whoever works is the owner.
LEMMA WorkerIsOwner ==
    ASSUME IInv, NEW w \in Workers, pc[w] = "work"
    PROVE  lease.token = w
  BY DEF IInv, WorkInv

LEMMA InvInit == Init => IInv
  <1> SUFFICES ASSUME Init PROVE IInv
    OBVIOUS
  <1>1. TypeOK
    BY TimeAssumption DEF Init, TypeOK, Runs, Steps
  <1> QED
    BY <1>1, TokenAssumption DEF Init, IInv, TokenInv, FreshInv, BaseInv, WorkInv

LEMMA BeginStep ==
    ASSUME IInv, NEW w \in Workers, Begin(w)
    PROVE  IInv'
  <1> USE TimeAssumption
  <1>1. TypeOK'
    BY DEF IInv, TypeOK, Begin, Goto, Steps
  <1>2. TokenInv' /\ FreshInv' /\ BaseInv' /\ WorkInv'
    BY DEF IInv, TypeOK, TokenInv, FreshInv, BaseInv, WorkInv, Begin, Goto,
           Available, Slack
  <1> QED
    BY <1>1, <1>2 DEF IInv

LEMMA ReadStep ==
    ASSUME IInv, NEW w \in Workers, ReadStage(w)
    PROVE  IInv'
  <1> USE TimeAssumption
  <1>1. TypeOK'
    BY DEF IInv, TypeOK, ReadStage, Goto, Steps
  <1>2. TokenInv' /\ BaseInv' /\ WorkInv'
    BY DEF IInv, TypeOK, TokenInv, BaseInv, WorkInv, ReadStage, Goto, Slack
  <1>3. FreshInv'
    BY DEF IInv, TypeOK, FreshInv, ReadStage, Goto, Available
  <1> QED
    BY <1>1, <1>2, <1>3 DEF IInv

LEMMA AcquireStep ==
    ASSUME IInv, NEW w \in Workers, Acquire(w)
    PROVE  IInv'
  <1> USE TimeAssumption
  <1>1. CASE ~NoConflict(w)
    <2>1. TypeOK'
      BY <1>1 DEF IInv, TypeOK, Acquire, Goto, Steps
    <2>2. TokenInv' /\ FreshInv' /\ BaseInv' /\ WorkInv'
      BY <1>1 DEF IInv, TypeOK, TokenInv, FreshInv, BaseInv, WorkInv, Acquire,
                  NoConflict, Goto, Available, Slack
    <2> QED
      BY <2>1, <2>2 DEF IInv
  <1>2. CASE NoConflict(w)
    <2>1. /\ lease' = [token |-> w, left |-> LeaseTime - spent[w]]
          /\ fresh' = [v \in Workers |-> FALSE]
          /\ left' = [left EXCEPT ![w] = WorkTime]
          /\ pc' = [pc EXCEPT ![w] = "work"]
          /\ UNCHANGED <<run, copy, base, spent>>
      BY <1>2 DEF Acquire, Goto
    <2>2. Available /\ base[w] = run
      BY <1>2 DEF IInv, FreshInv, NoConflict, Acquire
    <2>3. \A v \in Workers : pc[v] # "work"
      BY <2>2, BusyAtWork
    <2>4. spent[w] \in Nat /\ spent[w] <= AcquireTime
      BY DEF IInv, TypeOK
    <2>5. TypeOK'
      BY <2>1, <2>4 DEF IInv, TypeOK, Steps
    <2>6. TokenInv' /\ FreshInv' /\ BaseInv'
      BY <2>1, <2>2 DEF IInv, TypeOK, TokenInv, FreshInv, BaseInv
    <2>7. WorkInv'
      <3> SUFFICES ASSUME NEW v \in Workers, pc'[v] = "work"
                   PROVE  lease'.token = v /\ lease'.left >= left'[v] + Slack
        BY DEF WorkInv
      <3>1. v = w
        BY <2>1, <2>3 DEF IInv, TypeOK
      <3>2. lease'.left = LeaseTime - spent[w] /\ left'[w] = WorkTime
        BY <2>1 DEF IInv, TypeOK
      <3> QED
        BY <2>1, <2>4, <3>1, <3>2 DEF Slack
    <2> QED
      BY <2>5, <2>6, <2>7 DEF IInv
  <1> QED
    BY <1>1, <1>2

LEMMA UnansweredStep ==
    ASSUME IInv, NEW w \in Workers, AcquireUnanswered(w)
    PROVE  IInv' /\ \A v \in Workers : pc[v] # "work" /\ pc'[v] # "work"
  <1> USE TimeAssumption
  <1>1. Available
    BY DEF IInv, FreshInv, NoConflict, AcquireUnanswered
  <1>2. \A v \in Workers : pc[v] # "work"
    BY <1>1, BusyAtWork
  <1>3. TypeOK'
    BY DEF IInv, TypeOK, AcquireUnanswered, Goto, Steps, Runs
  <1>4. TokenInv' /\ FreshInv' /\ BaseInv'
    BY TokenAssumption DEF IInv, TypeOK, TokenInv, FreshInv, BaseInv,
                           AcquireUnanswered, Goto
  <1>5. \A v \in Workers : pc'[v] # "work"
    BY <1>2 DEF IInv, TypeOK, AcquireUnanswered, Goto
  <1>6. WorkInv'
    BY <1>5 DEF WorkInv
  <1> QED
    BY <1>2, <1>3, <1>4, <1>5, <1>6 DEF IInv

LEMMA EndWorkStep ==
    ASSUME IInv, NEW w \in Workers, EndWork(w)
    PROVE  IInv'
  <1> USE TimeAssumption
  <1>1. PICK r \in Runs : copy' = [copy EXCEPT ![w] = r]
    BY DEF EndWork
  <1>2. TypeOK'
    BY <1>1 DEF IInv, TypeOK, EndWork, Goto, Steps
  <1>3. TokenInv' /\ FreshInv' /\ BaseInv' /\ WorkInv'
    BY DEF IInv, TypeOK, TokenInv, FreshInv, BaseInv, WorkInv, EndWork, Goto,
           Available, Slack
  <1> QED
    BY <1>2, <1>3 DEF IInv

LEMMA CheckStep ==
    ASSUME IInv, NEW w \in Workers, CheckLease(w)
    PROVE  IInv'
  <1> USE TimeAssumption
  <1>1. TypeOK'
    BY DEF IInv, TypeOK, CheckLease, Goto, Steps
  <1>2. TokenInv' /\ FreshInv' /\ BaseInv' /\ WorkInv'
    BY DEF IInv, TypeOK, TokenInv, FreshInv, BaseInv, WorkInv, CheckLease, Goto,
           StillOwner, Available, Slack
  <1> QED
    BY <1>1, <1>2 DEF IInv

LEMMA SaveStep ==
    ASSUME IInv, NEW w \in Workers, Save(w)
    PROVE  IInv'
  <1> USE TimeAssumption
  <1>1. CASE ~NoConflict(w)
    <2>1. TypeOK'
      BY <1>1 DEF IInv, TypeOK, Save, Goto, Steps
    <2>2. TokenInv' /\ FreshInv' /\ BaseInv' /\ WorkInv'
      BY <1>1 DEF IInv, TypeOK, TokenInv, FreshInv, BaseInv, WorkInv, Save,
                  NoConflict, Goto, Available, Slack
    <2> QED
      BY <2>1, <2>2 DEF IInv
  <1>2. CASE NoConflict(w)
    <2>1. lease.token = w
      BY <1>2 DEF IInv, FreshInv, NoConflict, Save
    <2>2. TypeOK'
      <3>1. lease' \in [token : Workers \cup {Nobody, Dead}, left : Int] /\ run' \in Runs
        BY <1>2 DEF IInv, TypeOK, Save
      <3>2. pc' \in [Workers -> Steps] /\ fresh' \in [Workers -> BOOLEAN]
        BY <1>2 DEF IInv, TypeOK, Save, Goto, Steps
      <3>3. copy' \in [Workers -> Runs] /\ base' \in [Workers -> Runs]
        BY <1>2 DEF IInv, TypeOK, Save, Runs
      <3>4. /\ spent' \in [Workers -> 0..AcquireTime]
            /\ left' \in [Workers -> Nat] /\ \A v \in Workers : left'[v] <= WorkTime + SaveTime
        BY <1>2 DEF IInv, TypeOK, Save
      <3> QED
        BY <3>1, <3>2, <3>3, <3>4 DEF TypeOK
    <2>3. TokenInv' /\ FreshInv' /\ BaseInv'
      BY <1>2, TokenAssumption DEF IInv, TypeOK, TokenInv, FreshInv, BaseInv, Save
    <2>4. WorkInv'
      <3>1. \A v \in Workers : pc[v] # "work"
        BY <2>1, WorkerIsOwner DEF Save
      <3> QED
        BY <1>2, <3>1 DEF IInv, TypeOK, WorkInv, Save, Goto
    <2> QED
      BY <2>2, <2>3, <2>4 DEF IInv
  <1> QED
    BY <1>1, <1>2

LEMMA FailStep ==
    ASSUME IInv, NEW w \in Workers, Fail(w)
    PROVE  IInv'
  <1> USE TimeAssumption
  <1>1. lease' \in [token : Workers \cup {Nobody, Dead}, left : Int] /\ lease'.left = lease.left
        /\ lease'.token = IF lease.token = w THEN Dead ELSE lease.token
    BY DEF IInv, TypeOK, Fail, Abandoned
  <1>2. TypeOK'
    BY <1>1 DEF IInv, TypeOK, Fail, Leave, Goto, Steps, Runs
  <1>3. TokenInv' /\ BaseInv'
    BY <1>1, TokenAssumption DEF IInv, TypeOK, TokenInv, BaseInv, Fail, Leave, Goto
  <1>4. FreshInv'
    <2> SUFFICES ASSUME NEW v \in Workers, fresh'[v]
                 PROVE  \/ pc'[v] = "acquire" /\ Available' /\ base'[v] = run'
                        \/ pc'[v] = "save" /\ lease'.token = v
      BY DEF FreshInv
    <2>1. v # w /\ fresh[v] /\ pc'[v] = pc[v] /\ base'[v] = base[v] /\ run' = run
      BY DEF IInv, TypeOK, Fail, Leave, Goto
    <2>2. Available => Available'
      BY <1>1, <1>2, TokenAssumption DEF IInv, TypeOK, Available
    <2> QED
      BY <1>1, <2>1, <2>2 DEF IInv, FreshInv
  <1>5. WorkInv'
    BY <1>1, <1>2 DEF IInv, TypeOK, WorkInv, Fail, Leave, Goto, Slack
  <1> QED
    BY <1>2, <1>3, <1>4, <1>5 DEF IInv

LEMMA OtherWriteStep ==
    ASSUME IInv, OtherWrite
    PROVE  IInv'
  <1>1. TypeOK'
    BY DEF IInv, TypeOK, OtherWrite
  <1>2. TokenInv' /\ FreshInv' /\ BaseInv' /\ WorkInv'
    BY DEF IInv, TokenInv, FreshInv, BaseInv, WorkInv, OtherWrite
  <1> QED
    BY <1>1, <1>2 DEF IInv

LEMMA TickStep ==
    ASSUME IInv, Tick
    PROVE  IInv'
  <1> USE TimeAssumption
  <1>1. /\ lease' \in [token : Workers \cup {Nobody, Dead}, left : Int]
        /\ lease'.token = lease.token
        /\ lease'.left = IF lease.left > -1 THEN lease.left - 1 ELSE -1
    BY DEF IInv, TypeOK, Tick
  <1>2. spent' \in [Workers -> 0..AcquireTime]
    <2> SUFFICES ASSUME NEW v \in Workers
                 PROVE  (IF pc[v] \in {"read", "acquire"} THEN spent[v] + 1 ELSE spent[v])
                            \in 0..AcquireTime
      BY DEF Tick
    <2>1. spent[v] \in 0..AcquireTime
      BY DEF IInv, TypeOK
    <2>2. pc[v] \in {"read", "acquire"} => spent[v] < AcquireTime
      BY DEF Tick
    <2> QED
      BY <2>1, <2>2
  <1>3. \A v \in Workers : left[v] \in Nat /\ left[v] <= WorkTime + SaveTime
    BY DEF IInv, TypeOK
  <1>4. \A v \in Workers : left'[v] = IF left[v] > 0 THEN left[v] - 1 ELSE 0
    BY DEF Tick
  <1>5. left' \in [Workers -> Nat] /\ \A v \in Workers : left'[v] <= WorkTime + SaveTime
    <2>1. ASSUME NEW v \in Workers
          PROVE  (IF left[v] > 0 THEN left[v] - 1 ELSE 0) \in Nat
      <3>1. left[v] \in Nat
        BY <1>3
      <3> QED
        BY <3>1
    <2>2. left' \in [Workers -> Nat]
      BY <2>1 DEF Tick
    <2> QED
      BY <1>3, <1>4, <2>2
  <1>6. TypeOK'
    BY <1>1, <1>2, <1>5 DEF IInv, TypeOK, Tick
  <1>7. TokenInv' /\ BaseInv'
    BY <1>1 DEF IInv, TokenInv, BaseInv, Tick
  <1>8. FreshInv'
    <2>1. Available => Available'
      BY <1>1 DEF IInv, TypeOK, Available
    <2> QED
      BY <1>1, <2>1 DEF IInv, FreshInv, Tick
  <1>9. WorkInv'
    <2> SUFFICES ASSUME NEW v \in Workers, pc'[v] = "work"
                 PROVE  lease'.token = v /\ lease'.left >= left'[v] + Slack
      BY DEF WorkInv
    <2>1. lease.token = v /\ lease.left >= left[v] + Slack /\ left[v] > 0
      BY DEF IInv, WorkInv, Tick
    <2>2. Slack \in Int /\ Slack > 0 /\ lease.left \in Int /\ left[v] \in Nat
      BY TimelyAcquire DEF IInv, TypeOK, Slack
    <2>3. lease'.left = lease.left - 1 /\ left'[v] = left[v] - 1
      BY <1>1, <1>4, <2>1, <2>2
    <2> QED
      BY <1>1, <2>1, <2>2, <2>3
  <1> QED
    BY <1>6, <1>7, <1>8, <1>9 DEF IInv

LEMMA InvStep == IInv /\ [Next]_vars => IInv'
  <1> SUFFICES ASSUME IInv, [Next]_vars PROVE IInv'
    OBVIOUS
  <1>1. CASE UNCHANGED vars
    BY <1>1 DEF vars, IInv, TypeOK, TokenInv, FreshInv, BaseInv, WorkInv, Available
  <1>2. CASE Next
    BY <1>2, BeginStep, ReadStep, AcquireStep, UnansweredStep, EndWorkStep,
       CheckStep, SaveStep, FailStep, OtherWriteStep, TickStep DEF Next
  <1> QED
    BY <1>1, <1>2

\* The inductive invariant holds: the token on the Stage is that of the worker
\* at work, whose deadline comes before the lease's, and a current copy of the
\* Stage still tells the truth about the lease.
THEOREM LeaseInvariance == Spec => []IInv
  BY InvInit, InvStep, PTL DEF Spec

\* At most one worker executes the function that WithValidationLease guards.
THEOREM ExclusiveWorkAlways == Spec => []ExclusiveWork
  <1>1. IInv => ExclusiveWork
    BY WorkerIsOwner DEF ExclusiveWork
  <1> QED
    BY <1>1, LeaseInvariance, PTL

-----------------------------------------------------------------------------
\* A saved run was made from the run that it replaces: no owner that has lost
\* the lease, and none that read the Stage too early, saves its copy.
THEOREM ProgressFromLatestAlways == Spec => ProgressFromLatest
  <1>1. ASSUME IInv, [Next]_vars, run' # run
        PROVE  \E w \in Workers : pc[w] = "save" /\ base[w] = run /\ run' = copy[w]
    <2>1. PICK w \in Workers : Save(w)
      BY <1>1 DEF Next, vars, Begin, ReadStage, Acquire, AcquireUnanswered, EndWork,
                  CheckLease, Fail, OtherWrite, Tick
    <2>2. NoConflict(w) /\ run' = copy[w] /\ pc[w] = "save"
      BY <1>1, <2>1 DEF Save
    <2>3. lease.token = w
      BY <1>1, <2>2 DEF IInv, FreshInv, NoConflict
    <2> QED
      BY <1>1, <2>2, <2>3 DEF IInv, BaseInv
  <1>2. IInv /\ [Next]_vars =>
          [run' # run =>
            \E w \in Workers : pc[w] = "save" /\ base[w] = run /\ run' = copy[w]]_vars
    BY <1>1
  <1> QED
    BY <1>2, LeaseInvariance, PTL DEF Spec, ProgressFromLatest

-----------------------------------------------------------------------------
\* Nobody is at work when the lease is available, or its owner is not.
LEMMA IdleUnlessOwner ==
    ASSUME IInv, NEW w \in Workers, lease.token = w, pc[w] # "work"
    PROVE  ~AtWork
  BY WorkerIsOwner DEF AtWork

\* One step of the lease is one step of the abstract lease, or a stutter.
LEMMA RefinementStep ==
    ASSUME IInv, [Next]_vars
    PROVE  [Lease!Next]_(Lease!vars)
  <1> USE DEF Lease!vars
  <1>1. CASE UNCHANGED vars
    BY <1>1 DEF vars, LeaseOwner, AtWork
  <1>2. ASSUME UNCHANGED lease, UNCHANGED run,
               \A w \in Workers : pc'[w] = "work" <=> pc[w] = "work"
        PROVE  UNCHANGED Lease!vars
    BY <1>2 DEF LeaseOwner, AtWork
  <1>3. ASSUME NEW w \in Workers, Begin(w) PROVE UNCHANGED Lease!vars
    BY <1>2, <1>3 DEF Begin, Goto, IInv, TypeOK
  <1>4. ASSUME NEW w \in Workers, ReadStage(w) PROVE UNCHANGED Lease!vars
    BY <1>2, <1>4 DEF ReadStage, Goto, IInv, TypeOK
  <1>5. ASSUME NEW w \in Workers, CheckLease(w) PROVE UNCHANGED Lease!vars
    BY <1>2, <1>5 DEF CheckLease, Goto, IInv, TypeOK
  <1>6. ASSUME OtherWrite PROVE UNCHANGED Lease!vars
    BY <1>2, <1>6 DEF OtherWrite
  <1>7. ASSUME Tick PROVE UNCHANGED Lease!vars
    <2>1. lease'.token = lease.token /\ UNCHANGED <<run, pc>>
      BY <1>7 DEF Tick, IInv, TypeOK
    <2> QED
      BY <2>1 DEF LeaseOwner, AtWork
  <1>8. ASSUME NEW w \in Workers, Acquire(w)
        PROVE  Lease!Take(w) \/ UNCHANGED Lease!vars
    <2>1. CASE ~NoConflict(w)
      BY <1>2, <1>8, <2>1 DEF Acquire, Goto, IInv, TypeOK
    <2>2. CASE NoConflict(w)
      <3>1. Available
        BY <1>8, <2>2 DEF IInv, FreshInv, NoConflict, Acquire
      <3>2. ~AtWork
        BY <3>1, BusyAtWork DEF AtWork
      <3>3. lease'.token = w /\ pc'[w] = "work" /\ run' = run
        BY <1>8, <2>2 DEF Acquire, Goto, IInv, TypeOK
      <3>4. LeaseOwner' = w /\ AtWork'
        BY <3>3 DEF LeaseOwner, AtWork
      <3> QED
        BY <3>2, <3>3, <3>4 DEF Lease!Take
    <2> QED
      BY <2>1, <2>2
  <1>9. ASSUME NEW w \in Workers, AcquireUnanswered(w)
        PROVE  Lease!Lose \/ UNCHANGED Lease!vars
    <2>1. ~AtWork /\ ~AtWork'
      BY <1>9, UnansweredStep DEF AtWork
    <2>2. LeaseOwner' = Nobody /\ run' = run
      BY <1>9, TokenAssumption DEF AcquireUnanswered, LeaseOwner
    <2>3. AtWork' = FALSE /\ UNCHANGED AtWork
      BY <2>1 DEF AtWork
    <2> QED
      BY <2>2, <2>3 DEF Lease!Lose
  <1>10. ASSUME NEW w \in Workers, EndWork(w) PROVE Lease!Stop
    <2>1. AtWork /\ lease.token = w
      BY <1>10, WorkerIsOwner DEF EndWork, AtWork
    <2>2. UNCHANGED <<LeaseOwner, run>>
      BY <1>10 DEF EndWork, LeaseOwner
    <2>3. ~AtWork'
      BY <1>10, <2>1, WorkerIsOwner DEF AtWork, EndWork, Goto, IInv, TypeOK
    <2> QED
      BY <2>1, <2>2, <2>3 DEF Lease!Stop
  <1>11. ASSUME NEW w \in Workers, Save(w)
         PROVE  Lease!Save \/ UNCHANGED Lease!vars
    <2>1. CASE ~NoConflict(w)
      BY <1>2, <1>11, <2>1 DEF Save, Goto, IInv, TypeOK
    <2>2. CASE NoConflict(w)
      <3>1. lease.token = w /\ pc[w] = "save"
        BY <1>11, <2>2 DEF IInv, FreshInv, NoConflict, Save
      <3>2. LeaseOwner # Nobody /\ ~AtWork
        BY <3>1, IdleUnlessOwner, TokenAssumption DEF LeaseOwner
      <3>3. lease'.token = Nobody /\ run' = copy[w] /\ pc' = [pc EXCEPT ![w] = "idle"]
        BY <1>11, <2>2 DEF Save, Goto
      <3>4. LeaseOwner' = Nobody
        BY <3>3, TokenAssumption DEF LeaseOwner
      <3>5. ~AtWork' /\ run' \in Runs
        BY <3>2, <3>3 DEF AtWork, IInv, TypeOK
      <3>6. UNCHANGED AtWork
        BY <3>2, <3>5 DEF AtWork
      <3> QED
        BY <3>2, <3>4, <3>5, <3>6 DEF Lease!Save
    <2> QED
      BY <2>1, <2>2
  <1>12. ASSUME NEW w \in Workers, Fail(w)
         PROVE  Lease!Lose \/ UNCHANGED Lease!vars
    <2>1. run' = run /\ pc' = [pc EXCEPT ![w] = "idle"]
      BY <1>12 DEF Fail, Leave, Goto
    <2>2. CASE lease.token = w
      <3>1. LeaseOwner # Nobody
        BY <2>2, TokenAssumption DEF LeaseOwner
      <3>2. lease'.token = Dead
        BY <1>12, <2>2 DEF Fail, Abandoned, IInv, TypeOK
      <3>3. LeaseOwner' = Nobody
        BY <3>2, TokenAssumption DEF LeaseOwner
      <3>4. ~AtWork'
        BY <2>1, <2>2, WorkerIsOwner DEF AtWork, IInv, TypeOK
      <3> QED
        BY <2>1, <3>1, <3>3, <3>4 DEF Lease!Lose
    <2>3. CASE lease.token # w
      <3>1. pc[w] # "work"
        BY <2>3, WorkerIsOwner
      <3>2. lease' = lease
        BY <1>12, <2>3 DEF Fail, Abandoned
      <3> QED
        BY <1>2, <2>1, <3>1, <3>2 DEF IInv, TypeOK
    <2> QED
      BY <2>2, <2>3
  <1> QED
    BY <1>1, <1>3, <1>4, <1>5, <1>6, <1>7, <1>8, <1>9, <1>10, <1>11, <1>12
       DEF Next, Lease!Next

\* WithValidationLease implements the exclusive lease: one owner works at a
\* time, and only the last owner saves, once.
THEOREM ImplementsLease == Spec => IsExclusiveLease
  <1>1. Init => Lease!Init
    BY TokenAssumption, TimeAssumption DEF Init, Lease!Init, LeaseOwner, AtWork, Runs
  <1> QED
    BY <1>1, RefinementStep, LeaseInvariance, PTL
       DEF Spec, IsExclusiveLease, Lease!Spec


-----------------------------------------------------------------------------
\* The steps of a reconciler that has the lease.
Leased == {"observe", "list", "act", "save"}

\* The reconciler has the lease throughout these steps; a request has it from
\* its lease step on, or goes on without it.
LeaseInv ==
    /\ holder = "tick" <=> tick.step \in Leased
    /\ \A u \in Updates :
          /\ holder = u => update[u].step \in {"save", "publish", "rollback", "finish"}
          /\ update[u].step = "finish" => holder = u

-----------------------------------------------------------------------------
(* A mode that does not change.                                            *)

\* Kargo does nothing more by itself.
Settled(k) == k.recorded /\ (k.current # 0 => k.check[k.current] # "none")

Quiet(k) == Settled(k) /\ \A f \in Freight : k.check[f] # "running"

\* No request asks for the other mode, nor resets the run.
ModeFixed ==
    /\ switches = 0
    /\ \A u \in Updates : update[u].step # "idle" =>
          update[u].prev = mode /\ update[u].next = mode /\ ~update[u].reset

\* Persistent: no reconciler runs, and the files stay.
Persistent == tick.step = "idle" /\ saved = NoRun /\ git.tree

\* Ephemeral: the reconciler schedules, and the marker says what Git holds.
Handed == ~git.auto /\ ~kargo.auto /\ (git.tree <=> git.marker = "active")

\* What Kargo verifies, or is about to verify, is what it has promoted last.
KargoOK(k, V) ==
    /\ k.recorded => k.phase # "active"
    /\ \A f \in Freight :
          k.check[f] = "running" \/ (f = k.current /\ k.check[f] = "none") =>
              f = k.current /\ f = k.freight /\ k.phase = "succeeded" /\ k.recorded
    /\ \A f \in V : f <= k.freight
    /\ k.freight \in V =>
          /\ k.current = k.freight /\ k.phase = "succeeded" /\ k.recorded
          /\ k.check[k.freight] = "passed"

\* What each phase of a run says of Kargo, of Git and of Argo CD.
PhaseOK(r, k, tree, app) ==
    /\ r.freight <= r.cursor /\ k.freight <= r.cursor
    /\ r.phase = "unset" =>
          Quiet(k) /\ ~tree /\ app = "absent" /\ k.freight = 0 /\ k.current = 0
    /\ r.phase = "idle" => Quiet(k) /\ ~tree /\ app = "absent"
    /\ r.phase = "provisioning" =>
          Quiet(k) /\ (~tree => app = "absent") /\ r.freight # 0 /\ k.freight <= r.freight
    /\ r.phase = "waiting" =>
          (Quiet(k) \/ k.freight = r.freight) /\ tree /\ r.freight # 0 /\ k.freight <= r.freight
    /\ r.phase = "running" => tree /\ r.freight # 0 /\ k.freight = r.freight
    /\ r.phase = "failed" => Quiet(k) \/ k.freight = r.freight
    /\ r.phase = "cleaning" =>
          Settled(k) /\ \A f \in Freight : k.check[f] = "running" => f = r.freight
    /\ r.phase = "deleting" => Quiet(k) /\ ~tree

RunInv ==
    /\ PhaseOK(saved, kargo, git.tree, argo)
    /\ tick.step \in Leased => PhaseOK(tick.run, kargo, git.tree, argo)
    /\ saved.phase = "failed" /\ elapsed => Settled(kargo)

\* What the reconciler knows.
TickInv ==
    /\ tick.step \in {"observe", "list", "act"} => tick.run = saved
    /\ tick.step = "save" =>
          /\ saved.cursor <= tick.run.cursor
          /\ saved.phase = "idle" /\ tick.run.phase = "provisioning" =>
                tick.run.freight > saved.cursor
    /\ tick.step \in {"list", "act"} =>
          /\ tick.run.phase = "unset" => tick.obs.current = 0
          /\ tick.run.phase = "cleaning" /\ ~tick.obs.active => Quiet(kargo)
    /\ tick.step = "act" /\ tick.obs.verified => tick.run.freight \in verified

FixedInv ==
    /\ ModeFixed
    /\ mode = "persistent" => Persistent
    /\ mode = "ephemeral" => Handed /\ KargoOK(kargo, verified) /\ RunInv /\ TickInv
-----------------------------------------------------------------------------
(* Types.                                                                  *)

GitType == [marker : {"absent", "dormant", "active"}, tree : BOOLEAN,
            pending : BOOLEAN, auto : BOOLEAN]

KargoType ==
    [auto : BOOLEAN, freight : 0..MaxFreight,
     phase : {"none", "active", "succeeded", "failed"}, last : 0..MaxFreight,
     lastFailed : BOOLEAN, recorded : BOOLEAN, current : 0..MaxFreight,
     check : [Freight -> Checks]]

TickType ==
    [step : {"idle", "lease", "observe", "list", "act", "save"}, run : RunStates,
     obs : [current : 0..MaxFreight, active : BOOLEAN, verified : BOOLEAN,
            failed : BOOLEAN]]

RequestType ==
    [step : {"idle", "lease", "save", "publish", "rollback", "finish"},
     prev : Modes, next : Modes, reset : BOOLEAN]

Types ==
    /\ mode \in Modes
    /\ git \in GitType
    /\ argo \in {"absent", "present", "deleting"}
    /\ kargo \in KargoType
    /\ discovered \in 0..MaxFreight
    /\ verified \subseteq Freight
    /\ saved \in RunStates
    /\ elapsed \in BOOLEAN
    /\ holder \in {"free", "tick", "dead"} \cup Updates
    /\ tick \in TickType
    /\ update \in [Updates -> RequestType]
    /\ switches \in 0..MaxSwitches
    /\ lost \in BOOLEAN

LEMMA TypesAreTypeOK == Types <=> RunTypeOK
  BY DEF Types, RunTypeOK, GitType, KargoType, TickType, RequestType

LEMMA NoTickType == NoTick \in TickType
  BY BoundsAssumption DEF NoTick, TickType, NoRun, NoObs, RunStates, Phases

LEMMA NoUpdateType == NoUpdate \in RequestType
  BY DEF NoUpdate, RequestType, Modes

LEMMA NoRunType == NoRun \in RunStates
  BY BoundsAssumption DEF NoRun, RunStates, Phases

LEMMA TypeInit == RunInit => Types
  <1> SUFFICES ASSUME RunInit PROVE Types
    OBVIOUS
  <1>1. git \in GitType
    BY DEF RunInit, GitType
  <1>2. kargo \in KargoType
    <2>1. 0 \in 0..MaxFreight /\ git.auto \in BOOLEAN
      BY <1>1, BoundsAssumption DEF GitType
    <2>2. [f \in Freight |-> "none"] \in [Freight -> Checks]
      BY DEF Checks
    <2> QED
      BY <2>1, <2>2 DEF RunInit, KargoType
  <1>3. update \in [Updates -> RequestType]
    BY NoUpdateType DEF RunInit
  <1>4. tick \in TickType /\ saved \in RunStates
    BY NoTickType, NoRunType DEF RunInit
  <1>5. 0 \in 0..MaxFreight /\ 0 \in 0..MaxSwitches
    BY BoundsAssumption
  <1>6. /\ mode \in Modes /\ argo = "absent" /\ discovered = 0 /\ verified = {}
        /\ elapsed = FALSE /\ holder = "free" /\ switches = 0
        /\ lost = FALSE
    BY DEF RunInit
  <1> QED
    BY <1>1, <1>2, <1>3, <1>4, <1>5, <1>6 DEF Types

\* A reconciler that goes on with another step, run or observation.
LEMMA TickGoes ==
    ASSUME NEW t \in TickType, NEW s \in {"idle", "lease", "observe", "list", "act", "save"},
           NEW r \in RunStates
    PROVE  /\ [t EXCEPT !.step = s] \in TickType
           /\ [t EXCEPT !.step = s, !.run = r] \in TickType
  <1> DEFINE S == {"idle", "lease", "observe", "list", "act", "save"}
             O == [current : 0..MaxFreight, active : BOOLEAN, verified : BOOLEAN,
                   failed : BOOLEAN]
  <1>1. TickType = [step : S, run : RunStates, obs : O]
    BY DEF TickType
  <1> HIDE DEF O
  <1> QED
    BY <1>1

LEMMA TickSees ==
    ASSUME NEW t \in TickType, NEW c \in 0..MaxFreight,
           NEW a \in BOOLEAN, NEW d \in BOOLEAN
    PROVE  [t EXCEPT !.step = "list", !.obs.current = c, !.obs.active = a,
                     !.obs.failed = d] \in TickType
  BY DEF TickType

LEMMA RunGoes ==
    ASSUME NEW r \in RunStates, NEW p \in Phases
    PROVE  [r EXCEPT !.phase = p] \in RunStates
  BY DEF RunStates

\* The reconciler's steps.
LEMMA TickTypes ==
    ASSUME Types, Reconcile
    PROVE  Types'
  <1> USE BoundsAssumption
  <1>1. CASE TickBegin
    <2>1. tick' \in TickType
      BY <1>1, NoTickType DEF TickBegin, TickType
    <2> QED
      BY <1>1, <2>1 DEF TickBegin, Types, world
  <1>2. CASE TickLease
    <2>1. tick' \in TickType
      <3>1. [tick EXCEPT !.step = "observe", !.run = saved] \in TickType
        BY TickGoes DEF Types
      <3>2. tick' = NoTick \/ tick' = [tick EXCEPT !.step = "observe", !.run = saved]
        BY <1>2 DEF TickLease
      <3> QED
        BY <3>1, <3>2, NoTickType
    <2>2. holder' \in {"free", "tick", "dead"} \cup Updates
      BY <1>2 DEF TickLease, Types
    <2> QED
      BY <1>2, <2>1, <2>2 DEF TickLease, Types, world
  <1>3. CASE TickObserve
    <2> DEFINE f == tick.run.freight
               a == f # 0 /\ kargo.check[f] = "running"
               d == f # 0 /\ \/ kargo.last = f /\ kargo.lastFailed
                             \/ kargo.check[f] = "failed"
    <2>a. a \in BOOLEAN /\ d \in BOOLEAN
      OBVIOUS
    <2>b. kargo.current \in 0..MaxFreight /\ tick \in TickType /\ tick.run \in RunStates
      BY DEF Types, KargoType, TickType
    <2>c. \/ tick' = [tick EXCEPT !.step = "list", !.obs.current = kargo.current,
                                  !.obs.active = a, !.obs.failed = d]
          \/ tick' = [tick EXCEPT !.step = "save"]
      BY <1>3 DEF TickObserve
    <2> HIDE DEF a, d
    <2>1. tick' \in TickType
      <3>1. [tick EXCEPT !.step = "list", !.obs.current = kargo.current,
                         !.obs.active = a, !.obs.failed = d] \in TickType
        BY <2>a, <2>b, TickSees
      <3>2. [tick EXCEPT !.step = "save"] \in TickType
        BY <2>b, TickGoes
      <3> QED
        BY <2>c, <3>1, <3>2
    <2> QED
      BY <1>3, <2>1 DEF TickObserve, Types, world
  <1>4. CASE TickList
    <2> DEFINE a == tick.obs.active \/ kargo.phase = "active"
               v == IsVerified(tick.run.freight)
    <2>a. a \in BOOLEAN /\ v \in BOOLEAN
      BY DEF IsVerified
    <2>b. tick' = [tick EXCEPT !.step = "act", !.obs.active = a, !.obs.verified = v]
      BY <1>4 DEF TickList, Types, TickType
    <2> HIDE DEF a, v
    <2>1. tick' \in TickType
      BY <2>a, <2>b DEF Types, TickType
    <2> QED
      BY <1>4, <2>1 DEF TickList, Types, world
  <1>5. CASE TickNothing
    <2>1. tick' \in TickType
      BY <1>5 DEF TickNothing, TickType, Types
    <2> QED
      BY <1>5, <2>1 DEF TickNothing, Types, world
  <1>6. CASE TickDecide
    <2>1. tick' \in TickType
      BY <1>6 DEF TickDecide, TickType, Types
    <2> QED
      BY <1>6, <2>1 DEF TickDecide, Types, world
  <1>7. ASSUME NEW p \in {"waiting", "running", "deleting"}, Proceed(p)
        PROVE  tick' \in TickType
    <2>1. PICK q \in {p, tick.run.phase} :
              tick' = [tick EXCEPT !.step = "save", !.run.phase = q]
      BY <1>7 DEF Proceed
    <2>2. tick \in TickType /\ tick.run \in RunStates /\ q \in Phases
      BY <1>7 DEF Types, TickType, RunStates, Phases
    <2>3. tick' = [tick EXCEPT !.step = "save", !.run = [tick.run EXCEPT !.phase = q]]
      BY <2>1, <2>2 DEF TickType
    <2> QED
      BY <2>2, <2>3, RunGoes, TickGoes
  <1>8. CASE TickProvision
    <2>1. tick' \in TickType
      BY <1>8, <1>7 DEF TickProvision
    <2>2. git' \in GitType
      BY <1>8 DEF TickProvision, GitType, Types
    <2> QED
      BY <1>8, <2>1, <2>2 DEF TickProvision, Types
  <1>9. CASE TickPromote
    <2>1. tick' \in TickType
      BY <1>9, <1>7 DEF TickPromote
    <2>2. tick.run.freight \in 0..MaxFreight
      BY DEF Types, TickType, RunStates
    <2>3. kargo' \in KargoType
      BY <1>9, <2>2 DEF TickPromote, KargoType, Types
    <2> QED
      BY <1>9, <2>1, <2>3 DEF TickPromote, Types
  <1>10. CASE TickClean
    <2>1. tick' \in TickType
      BY <1>10, <1>7 DEF TickClean
    <2>2. git' \in GitType
      BY <1>10 DEF TickClean, GitType, Types
    <2> QED
      BY <1>10, <2>1, <2>2 DEF TickClean, Types
  <1>11. CASE TickRelease
    <2>1. tick' \in TickType
      <3>1. tick \in TickType /\ tick.run \in RunStates
        BY DEF Types, TickType
      <3>2. Idled \in RunStates
        <4>1. 0 \in 0..MaxFreight /\ "idle" \in Phases
          BY BoundsAssumption DEF Phases
        <4> QED
          BY <3>1, <4>1 DEF Idled, RunStates
      <3> QED
        BY <1>11, <3>1, <3>2, TickGoes DEF TickRelease
    <2> QED
      BY <1>11, <2>1 DEF TickRelease, Types, world
  <1>12. CASE TickSave
    <2>1. tick' \in TickType /\ saved' \in RunStates
      BY <1>12, NoTickType DEF TickSave, TickType, Types
    <2> QED
      BY <1>12, <2>1 DEF TickSave, Types, world
  <1>13. CASE TickDie
    <2>1. tick' \in TickType
      BY <1>13, NoTickType DEF TickDie
    <2> QED
      BY <1>13, <2>1 DEF TickDie, Types, world
  <1> QED
    BY <1>1, <1>2, <1>3, <1>4, <1>5, <1>6, <1>8, <1>9, <1>10, <1>11, <1>12, <1>13
       DEF Reconcile

\* The requests' steps.
LEMMA RequestTypes ==
    ASSUME Types, NEW u \in Updates, Request(u)
    PROVE  Types'
  <1> USE BoundsAssumption
  <1>0. update[u] \in RequestType /\ update[u].next \in Modes /\ update[u].prev \in Modes
    BY DEF Types, RequestType
  <1>1. ASSUME NEW r \in RequestType, update' = [update EXCEPT ![u] = r]
        PROVE  update' \in [Updates -> RequestType]
    BY <1>1 DEF Types
  <1>2. ASSUME NEW s \in {"idle", "lease", "save", "publish", "rollback", "finish"}, Step(u, s)
        PROVE  update' \in [Updates -> RequestType]
    BY <1>2 DEF Types, Step, RequestType
  <1>3. ASSUME NEW next \in Modes, UpdateLoad(u, next)
        PROVE  Types'
    <2>1. update' \in [Updates -> RequestType]
      <3> DEFINE r == [step |-> IF mode = "ephemeral" THEN "lease" ELSE "save",
                       prev |-> mode, next |-> next, reset |-> FALSE]
      <3>1. r \in RequestType
        BY DEF RequestType, Types
      <3>2. update' = [update EXCEPT ![u] = r]
        BY <1>3 DEF UpdateLoad
      <3> QED
        BY <3>1, <3>2, <1>1
    <2>2. switches' \in 0..MaxSwitches
      BY <1>3 DEF UpdateLoad, Types
    <2> QED
      BY <1>3, <2>1, <2>2 DEF UpdateLoad, Types, world
  <1>4. CASE UpdateLease(u)
    <2>1. update' \in [Updates -> RequestType]
      BY <1>4, <1>2 DEF UpdateLease
    <2> QED
      BY <1>4, <2>1 DEF UpdateLease, Types, world
  <1>5. CASE UpdateSave(u)
    <2>1. update' \in [Updates -> RequestType]
      BY <1>5, <1>2 DEF UpdateSave
    <2> QED
      BY <1>5, <2>1, <1>0 DEF UpdateSave, Types
  <1>6. CASE UpdatePublish(u)
    <2>1. Switching(u) \in BOOLEAN
      BY DEF Switching
    <2>2. update' \in [Updates -> RequestType]
      BY <1>6, <2>1 DEF UpdatePublish, AfterPublish, Step, Types, RequestType
    <2>3. git' \in GitType
      BY <1>6 DEF UpdatePublish, PublishApp, Types, GitType
    <2>4. lost' \in BOOLEAN
      <3>1. lost' = lost \/ lost' = (lost \/ Switching(u))
        BY <1>6 DEF UpdatePublish
      <3>2. lost \in BOOLEAN
        BY DEF Types
      <3> QED
        BY <2>1, <3>1, <3>2, Zenon
    <2> QED
      BY <1>6, <2>2, <2>3, <2>4 DEF UpdatePublish, Types
  <1>9. CASE UpdateRollback(u)
    <2>1. update' \in [Updates -> RequestType]
      <3>1. ASSUME NEW reset \in BOOLEAN, AfterPublish(u, reset)
            PROVE  update' \in [Updates -> RequestType]
        <4> DEFINE step == IF holder = u THEN "finish" ELSE "idle"
                   r == [update[u] EXCEPT !.step = step, !.reset = reset]
        <4>1. step \in {"idle", "finish"}
          OBVIOUS
        <4> HIDE DEF step
        <4>2. r \in RequestType
          BY <4>1 DEF Types, RequestType
        <4>3. update' = [update EXCEPT ![u] = r]
          BY <3>1 DEF AfterPublish, Types, step
        <4> HIDE DEF r
        <4> QED
          BY <4>2, <4>3 DEF Types
      <3> QED
        BY <1>9, <3>1 DEF UpdateRollback
    <2>2. mode' \in Modes
      BY <1>9, <1>0 DEF UpdateRollback, Types
    <2> QED
      BY <1>9, <2>1, <2>2 DEF UpdateRollback, Types
  <1>7. CASE UpdateFinish(u)
    <2>1. update' \in [Updates -> RequestType]
      BY <1>7, NoUpdateType, <1>1 DEF UpdateFinish
    <2> QED
      BY <1>7, <2>1, NoRunType DEF UpdateFinish, Types, world
  <1>8. CASE UpdateDie(u)
    <2>1. update' \in [Updates -> RequestType]
      BY <1>8, NoUpdateType, <1>1 DEF UpdateDie
    <2> QED
      BY <1>8, <2>1 DEF UpdateDie, Types, world
  <1> QED
    BY <1>3, <1>4, <1>5, <1>6, <1>7, <1>8, <1>9 DEF Request

\* What Argo CD and Kargo do.
LEMMA KargoTypes ==
    ASSUME Types, Kargo
    PROVE  Types'
  <1> USE BoundsAssumption DEF KargoOnly
  <1>1. CASE KargoHandoff
    <2>1. kargo' \in KargoType
      BY <1>1 DEF KargoHandoff, Types, KargoType, GitType
    <2> QED
      BY <1>1, <2>1 DEF KargoHandoff, Types
  <1>2. CASE KargoAutoPromote
    <2>1. kargo' \in KargoType
      BY <1>2 DEF KargoAutoPromote, Types, KargoType
    <2> QED
      BY <1>2, <2>1 DEF KargoAutoPromote, Types
  <1>3. CASE KargoSucceed
    <2>1. kargo' \in KargoType
      BY <1>3 DEF KargoSucceed, Types, KargoType
    <2>2. git' \in GitType
      BY <1>3 DEF KargoSucceed, Types, GitType
    <2> QED
      BY <1>3, <2>1, <2>2 DEF KargoSucceed, Types
  <1>4. CASE KargoFail
    <2>1. kargo' \in KargoType
      BY <1>4 DEF KargoFail, Types, KargoType
    <2> QED
      BY <1>4, <2>1 DEF KargoFail, Types
  <1>5. CASE KargoRecord
    <2> DEFINE c == IF kargo.phase = "failed" THEN kargo.check
                    ELSE [f \in Freight |->
                            IF f = kargo.freight THEN "none"
                            ELSE IF kargo.check[f] = "running" THEN "failed"
                            ELSE kargo.check[f]]
    <2>1. c \in [Freight -> Checks]
      BY DEF Types, KargoType, Checks
    <2>2. kargo' = [kargo EXCEPT
                      !.recorded = TRUE, !.last = kargo.freight,
                      !.lastFailed = (kargo.phase = "failed"),
                      !.current = IF kargo.phase = "failed" THEN kargo.current
                                  ELSE kargo.freight,
                      !.check = c]
      BY <1>5 DEF KargoRecord, Types, KargoType
    <2> HIDE DEF c
    <2>3. kargo' \in KargoType
      BY <2>1, <2>2 DEF Types, KargoType
    <2> QED
      BY <1>5, <2>3 DEF KargoRecord, Types
  <1>6. CASE KargoVerify
    <2>1. kargo' \in KargoType
      BY <1>6 DEF KargoVerify, Types, KargoType, Checks
    <2> QED
      BY <1>6, <2>1 DEF KargoVerify, Types
  <1>7. ASSUME NEW f \in Freight, NEW result \in {"passed", "failed"},
               KargoVerified(f, result)
        PROVE  Types'
    <2>1. kargo' \in KargoType
      BY <1>7 DEF KargoVerified, Types, KargoType, Checks
    <2> QED
      BY <1>7, <2>1 DEF KargoVerified, Types
  <1> QED
    BY <1>1, <1>2, <1>3, <1>4, <1>5, <1>6, <1>7 DEF Kargo

LEMMA TypesStep == Types /\ [RunNext]_runVars => Types'
  <1> SUFFICES ASSUME Types, [RunNext]_runVars PROVE Types'
    OBVIOUS
  <1> USE BoundsAssumption
  <1>1. CASE Reconcile
    BY <1>1, TickTypes
  <1>2. CASE \E u \in Updates : Request(u)
    BY <1>2, RequestTypes
  <1>3. CASE Kargo
    BY <1>3, KargoTypes
  <1>4. CASE ArgoSync
    BY <1>4 DEF ArgoSync, Types
  <1>5. CASE NewBuild
    BY <1>5 DEF NewBuild, Types
  <1>6. CASE LeaseExpires
    BY <1>6 DEF LeaseExpires, Types, world
  <1>7. CASE Elapse
    BY <1>7 DEF Elapse, Types, world
  <1>8. CASE UNCHANGED runVars
    BY <1>8 DEF runVars, world, Types
  <1> QED
    BY <1>1, <1>2, <1>3, <1>4, <1>5, <1>6, <1>7, <1>8 DEF RunNext

\* The modes, the run, the Stage and every request stay well formed.
THEOREM RunTypes == RunSpec => []RunTypeOK
  <1>1. RunSpec => []Types
    BY TypeInit, TypesStep, PTL DEF RunSpec
  <1> QED
    BY <1>1, TypesAreTypeOK, PTL

-----------------------------------------------------------------------------
(* The lease.                                                              *)

LEMMA RequestIsNobodyElse ==
    ASSUME NEW u \in Updates
    PROVE  u # "free" /\ u # "tick" /\ u # "dead"
  BY UpdatesAssumption

LEMMA LeaseInit == RunInit => LeaseInv
  BY RequestIsNobodyElse DEF RunInit, LeaseInv, Leased, NoTick, NoUpdate

\* The reconciler takes the lease before it observes, and has it until it saves.
LEMMA TickLeaseInv ==
    ASSUME Types, LeaseInv, Reconcile
    PROVE  LeaseInv'
  <1> USE RequestIsNobodyElse
  <1>1. tick.step \in {"idle", "lease", "observe", "list", "act", "save"}
    BY DEF Types, TickType
  <1>2. UNCHANGED update
    BY DEF Reconcile, TickBegin, TickLease, TickObserve, TickList, TickNothing, TickDecide,
           TickProvision, TickPromote, TickClean, TickRelease, TickSave, TickDie
  <1>3. CASE tick'.step \in {"list", "act", "save"} /\ tick.step \in Leased /\ UNCHANGED holder
    BY <1>2, <1>3 DEF LeaseInv, Leased
  <1>4. CASE TickBegin
    BY <1>1, <1>2, <1>4 DEF TickBegin, LeaseInv, Leased, NoTick, Types, TickType
  <1>5. CASE TickLease
    <2>1. CASE holder' = "tick"
      <3>1. LeaseFree /\ tick'.step = "observe"
        BY <1>5, <2>1 DEF TickLease, Types, TickType, LeaseInv, Leased
      <3> QED
        BY <1>2, <2>1, <3>1 DEF LeaseInv, Leased, LeaseFree
    <2>2. CASE UNCHANGED holder /\ tick' = NoTick
      BY <1>2, <1>5, <2>2 DEF TickLease, LeaseInv, Leased, NoTick
    <2> QED
      BY <1>5, <2>1, <2>2 DEF TickLease
  <1>6. ASSUME NEW p, Proceed(p)
        PROVE  tick'.step = "save"
    BY <1>6 DEF Proceed, Types, TickType
  <1>7. CASE TickObserve \/ TickList \/ TickNothing \/ TickDecide \/ TickRelease
    <2>1. tick'.step \in {"list", "act", "save"} /\ tick.step \in Leased /\ UNCHANGED holder
      BY <1>7 DEF TickObserve, TickList, TickNothing, TickDecide, TickRelease, Leased,
         Types,
                  TickType
    <2> QED
      BY <1>3, <2>1
  <1>8. CASE TickProvision \/ TickPromote \/ TickClean
    <2>1. tick'.step = "save" /\ tick.step \in Leased /\ UNCHANGED holder
      BY <1>6, <1>8 DEF TickProvision, TickPromote, TickClean, Leased
    <2> QED
      BY <1>3, <2>1
  <1>9. CASE TickSave
    BY <1>2, <1>9 DEF TickSave, LeaseInv, Leased, NoTick
  <1>10. CASE TickDie
    BY <1>2, <1>10 DEF TickDie, LeaseInv, Leased, NoTick
  <1> QED
    BY <1>4, <1>5, <1>7, <1>8, <1>9, <1>10 DEF Reconcile

\* A request has it from its lease step to its finish, or never.
LEMMA RequestLeaseInv ==
    ASSUME Types, LeaseInv, NEW u \in Updates, Request(u)
    PROVE  LeaseInv'
  <1> USE RequestIsNobodyElse
  <1>1. UNCHANGED tick
    BY DEF Request, UpdateLoad, UpdateLease, UpdateSave, UpdatePublish, UpdateRollback,
       UpdateFinish, UpdateDie
  <1>2. /\ update \in [Updates -> RequestType]
        /\ \A v \in Updates \ {u} : update'[v] = update[v]
    BY DEF Request, UpdateLoad, UpdateLease, UpdateSave, UpdatePublish, UpdateRollback,
       UpdateFinish, UpdateDie,
           Step, AfterPublish, Types
  <1>3. ASSUME NEW next \in Modes, UpdateLoad(u, next)
        PROVE  LeaseInv'
    <2>1. holder # u /\ UNCHANGED holder /\ update'[u].step \in {"lease", "save"}
      BY <1>2, <1>3 DEF UpdateLoad, LeaseInv
    <2> QED
      BY <1>1, <1>2, <2>1 DEF LeaseInv
  <1>4. CASE UpdateLease(u)
    <2>1. holder # u
      BY <1>4 DEF UpdateLease, LeaseInv
    <2>2. \/ LeaseFree /\ holder' = u /\ update'[u].step = "save"
          \/ UNCHANGED holder /\ update'[u].step = "idle"
      BY <1>2, <1>4 DEF UpdateLease, Step, RequestType
    <2> QED
      BY <1>1, <1>2, <2>1, <2>2 DEF LeaseInv, LeaseFree
  <1>5. CASE UpdateSave(u)
    <2>1. UNCHANGED holder /\ update'[u].step = "publish"
      BY <1>2, <1>5 DEF UpdateSave, Step, RequestType
    <2> QED
      BY <1>1, <1>2, <2>1 DEF LeaseInv
  <1>6. CASE UpdatePublish(u) \/ UpdateRollback(u)
    <2>1. /\ UNCHANGED holder
          /\ update'[u].step \in {"rollback", IF holder = u THEN "finish" ELSE "idle"}
      BY <1>2, <1>6 DEF UpdatePublish, UpdateRollback, AfterPublish, Step, RequestType
    <2> QED
      BY <1>1, <1>2, <2>1 DEF LeaseInv
  <1>7. CASE UpdateFinish(u)
    <2>1. holder = u /\ holder' = "free" /\ update'[u].step = "idle"
      BY <1>2, <1>7 DEF UpdateFinish, LeaseInv, NoUpdate
    <2> QED
      BY <1>1, <1>2, <2>1 DEF LeaseInv
  <1>8. CASE UpdateDie(u)
    <2>1. holder' = (IF holder = u THEN "dead" ELSE holder) /\ update'[u].step = "idle"
      BY <1>2, <1>8 DEF UpdateDie, NoUpdate
    <2> QED
      BY <1>1, <1>2, <2>1 DEF LeaseInv
  <1> QED
    BY <1>3, <1>4, <1>5, <1>6, <1>7, <1>8 DEF Request

LEMMA OthersLeaseInv ==
    ASSUME LeaseInv, UNCHANGED <<tick, update>>, UNCHANGED holder \/ LeaseExpires
    PROVE  LeaseInv'
  BY RequestIsNobodyElse DEF LeaseInv, LeaseExpires

LEMMA KargoKeeps ==
    ASSUME Kargo \/ ArgoSync \/ NewBuild \/ Elapse \/ UNCHANGED runVars
    PROVE  UNCHANGED <<saved, tick, update, holder>>
  BY DEF Kargo, KargoHandoff, KargoAutoPromote, KargoSucceed, KargoFail, KargoRecord,
     KargoVerify,
         KargoVerified, KargoOnly, ArgoSync, NewBuild, Elapse, runVars

LEMMA LeaseStep == Types /\ LeaseInv /\ [RunNext]_runVars => LeaseInv'
  <1> SUFFICES ASSUME Types, LeaseInv, [RunNext]_runVars PROVE LeaseInv'
    OBVIOUS
  <1>1. CASE LeaseExpires
    BY <1>1, OthersLeaseInv DEF LeaseExpires
  <1>2. CASE Kargo \/ ArgoSync \/ NewBuild \/ Elapse \/ UNCHANGED runVars
    BY <1>2, KargoKeeps, OthersLeaseInv
  <1> QED
    BY <1>1, <1>2, TickLeaseInv, RequestLeaseInv DEF RunNext

LEMMA Leases == RunSpec => [](Types /\ LeaseInv)
  BY TypeInit, LeaseInit, TypesStep, LeaseStep, PTL DEF RunSpec

-----------------------------------------------------------------------------
(* The lease is what ValidationLease implements.                           *)

LEMMA RefinedInit == RunInit => StageLease!Init
  BY RequestIsNobodyElse, NoRunType DEF RunInit, StageLease!Init, StageOwner, HolderWorks

LEMMA Stutters ==
    ASSUME UNCHANGED <<StageOwner, HolderWorks, saved>>
    PROVE  UNCHANGED StageLease!vars
  BY DEF StageLease!vars

\* The lease belongs to somebody at work, to somebody who is about to save, or
\* to nobody.
LEMMA WhoHasIt ==
    ASSUME Types, LeaseInv
    PROVE  /\ holder \in {"free", "dead"} => StageOwner = "free" /\ HolderWorks = FALSE
           /\ holder = "tick" => StageOwner = "tick" /\ HolderWorks = (tick.step # "save")
           /\ \A u \in Updates : holder = u =>
                 StageOwner = u /\ HolderWorks = (update[u].step # "finish")
  BY RequestIsNobodyElse DEF StageOwner, HolderWorks

LEMMA RefinedTick ==
    ASSUME Types, LeaseInv, Types', LeaseInv', Reconcile
    PROVE  [StageLease!Next]_(StageLease!vars)
  <1>1. UNCHANGED update
    BY DEF Reconcile, TickBegin, TickLease, TickObserve, TickList, TickNothing, TickDecide,
           TickProvision, TickPromote, TickClean, TickRelease, TickSave, TickDie
  <1>2. CASE TickSave
    <2>1. /\ holder = "tick" /\ holder' = "free" /\ tick.step = "save"
          /\ saved' \in RunStates
      BY <1>2 DEF TickSave, LeaseInv, Leased, Types
    <2>2. StageOwner = "tick" /\ HolderWorks = FALSE /\ StageOwner' = "free" /\ HolderWorks' = FALSE
      BY <2>1, RequestIsNobodyElse DEF StageOwner, HolderWorks
    <2>3. StageLease!Save
      BY <2>1, <2>2 DEF StageLease!Save
    <2> QED
      BY <2>3 DEF StageLease!Next
  <1>3. CASE TickDie
    <2>1. UNCHANGED saved
      BY <1>3 DEF TickDie, world
    <2>2. CASE holder = "tick"
      <3>1. holder' = "dead"
        BY <1>3, <2>2 DEF TickDie
      <3>2. StageOwner = "tick" /\ StageOwner' = "free" /\ HolderWorks' = FALSE
        BY <2>2, <3>1, RequestIsNobodyElse DEF StageOwner, HolderWorks
      <3>3. StageLease!Lose
        BY <2>1, <3>2 DEF StageLease!Lose
      <3> QED
        BY <3>3 DEF StageLease!Next
    <2>3. CASE holder # "tick"
      <3>1. UNCHANGED holder
        BY <1>3, <2>3 DEF TickDie
      <3>2. UNCHANGED <<StageOwner, HolderWorks>>
        BY <1>1, <2>3, <3>1 DEF StageOwner, HolderWorks
      <3> QED
        BY <2>1, <3>2, Stutters
    <2> QED
      BY <2>2, <2>3
  <1>4. CASE TickBegin
    <2>1. holder # "tick" /\ UNCHANGED <<holder, saved>>
      BY <1>4 DEF TickBegin, LeaseInv, Leased
    <2>2. UNCHANGED <<StageOwner, HolderWorks>>
      BY <1>1, <2>1 DEF StageOwner, HolderWorks
    <2> QED
      BY <2>1, <2>2, Stutters
  <1>5. CASE TickLease
    <2>1. holder # "tick" /\ UNCHANGED saved
      BY <1>5 DEF TickLease, LeaseInv, Leased, world
    <2>2. CASE holder' = "tick"
      <3>1. holder = "free" /\ tick'.step = "observe"
        BY <1>5, <2>1, <2>2 DEF TickLease, LeaseFree, Types, TickType
      <3>2. StageOwner' = "tick" /\ HolderWorks' = TRUE /\ HolderWorks = FALSE
        BY <2>2, <3>1, RequestIsNobodyElse DEF StageOwner, HolderWorks
      <3>3. StageLease!Take("tick")
        BY <2>1, <3>2 DEF StageLease!Take
      <3> QED
        BY <3>3 DEF StageLease!Next
    <2>3. CASE UNCHANGED holder
      <3>1. UNCHANGED <<StageOwner, HolderWorks>>
        BY <1>1, <2>1, <2>3 DEF StageOwner, HolderWorks
      <3> QED
        BY <2>1, <3>1, Stutters
    <2> QED
      BY <1>5, <2>2, <2>3 DEF TickLease
  <1>6. CASE tick.step \in {"observe", "list", "act"} /\ holder = "tick" /\ UNCHANGED <<saved, holder>>
    <2>1. tick'.step \in Leased
      BY <1>6 DEF LeaseInv
    <2>2. StageOwner' = "tick" /\ HolderWorks' = (tick'.step # "save")
      BY <1>6, RequestIsNobodyElse DEF StageOwner, HolderWorks
    <2>3. StageOwner = "tick" /\ HolderWorks = TRUE
      BY <1>6, WhoHasIt
    <2>4. CASE tick'.step = "save"
      <3>1. StageLease!Stop
        BY <1>6, <2>2, <2>3, <2>4 DEF StageLease!Stop
      <3> QED
        BY <3>1 DEF StageLease!Next
    <2>5. CASE tick'.step # "save"
      BY <1>6, <2>2, <2>3, <2>5, Stutters
    <2> QED
      BY <2>4, <2>5
  <1>7. CASE \/ TickObserve \/ TickList \/ TickNothing \/ TickDecide \/ TickRelease
             \/ TickProvision \/ TickPromote \/ TickClean
    <2>1. tick.step \in {"observe", "list", "act"} /\ UNCHANGED <<saved, holder>>
      BY <1>7 DEF TickObserve, TickList, TickNothing, TickDecide, TickRelease,
         TickProvision,
                  TickPromote, TickClean
    <2>2. holder = "tick"
      BY <2>1 DEF LeaseInv, Leased
    <2> QED
      BY <1>6, <2>1, <2>2
  <1> QED
    BY <1>2, <1>3, <1>4, <1>5, <1>7 DEF Reconcile

LEMMA RefinedRequest ==
    ASSUME Types, LeaseInv, Types', LeaseInv', NEW u \in Updates, Request(u)
    PROVE  [StageLease!Next]_(StageLease!vars)
  <1> USE RequestIsNobodyElse
  <1>1. UNCHANGED tick
    BY DEF Request, UpdateLoad, UpdateLease, UpdateSave, UpdatePublish, UpdateRollback,
       UpdateFinish, UpdateDie
  <1>2. /\ update \in [Updates -> RequestType]
        /\ \A v \in Updates \ {u} : update'[v] = update[v]
    BY DEF Request, UpdateLoad, UpdateLease, UpdateSave, UpdatePublish, UpdateRollback,
       UpdateFinish, UpdateDie,
           Step, AfterPublish, Types
  <1>3. CASE UNCHANGED <<saved, holder>> /\ holder # u
    <2>1. UNCHANGED <<StageOwner, HolderWorks>>
      BY <1>1, <1>2, <1>3 DEF StageOwner, HolderWorks
    <2> QED
      BY <1>3, <2>1, Stutters
  <1>4. ASSUME NEW next \in Modes, UpdateLoad(u, next)
        PROVE  UNCHANGED <<saved, holder>> /\ holder # u
    BY <1>4 DEF UpdateLoad, LeaseInv
  <1>5. CASE UpdateLease(u)
    <2>1. holder # u /\ UNCHANGED saved
      BY <1>5 DEF UpdateLease, LeaseInv, world
    <2>2. CASE holder' = u
      <3>1. holder = "free" /\ update'[u].step = "save"
        BY <1>2, <1>5, <2>1, <2>2 DEF UpdateLease, LeaseFree, Step, RequestType
      <3>2. StageOwner' = u /\ HolderWorks' = TRUE /\ HolderWorks = FALSE
        BY <2>2, <3>1 DEF StageOwner, HolderWorks
      <3>3. StageLease!Take(u)
        BY <2>1, <3>2 DEF StageLease!Take
      <3> QED
        BY <3>3 DEF StageLease!Next
    <2>3. CASE UNCHANGED holder
      BY <1>3, <2>1, <2>3
    <2> QED
      BY <1>5, <2>2, <2>3 DEF UpdateLease
  <1>6. CASE UpdateSave(u)
    <2>1. UNCHANGED <<saved, holder>> /\ update[u].step = "save" /\ update'[u].step = "publish"
      BY <1>2, <1>6 DEF UpdateSave, Step, RequestType
    <2>2. CASE holder = u
      <3>1. UNCHANGED <<StageOwner, HolderWorks>>
        BY <2>1, <2>2 DEF StageOwner, HolderWorks
      <3> QED
        BY <2>1, <3>1, Stutters
    <2> QED
      BY <1>3, <2>1, <2>2
  <1>7. CASE UpdatePublish(u) \/ UpdateRollback(u)
    <2>1. /\ UNCHANGED <<saved, holder>> /\ update[u].step \in {"publish", "rollback"}
          /\ update'[u].step \in {"rollback", IF holder = u THEN "finish" ELSE "idle"}
      BY <1>2, <1>7 DEF UpdatePublish, UpdateRollback, AfterPublish, Step, RequestType
    <2>2. CASE holder = u /\ update'[u].step = "rollback"
      <3>1. UNCHANGED <<StageOwner, HolderWorks>>
        BY <2>1, <2>2 DEF StageOwner, HolderWorks
      <3> QED
        BY <2>1, <3>1, Stutters
    <2>3. CASE holder = u /\ update'[u].step = "finish"
      <3>1. StageOwner = u /\ StageOwner' = u /\ HolderWorks = TRUE /\ HolderWorks' = FALSE
        BY <2>1, <2>3 DEF StageOwner, HolderWorks
      <3>2. StageLease!Stop
        BY <2>1, <3>1 DEF StageLease!Stop
      <3> QED
        BY <3>2 DEF StageLease!Next
    <2> QED
      BY <1>3, <2>1, <2>2, <2>3
  <1>8. CASE UpdateFinish(u)
    <2>1. holder = u /\ update[u].step = "finish" /\ holder' = "free" /\ saved' \in RunStates
      BY <1>8 DEF UpdateFinish, LeaseInv, Types
    <2>2. StageOwner = u /\ HolderWorks = FALSE /\ StageOwner' = "free" /\ HolderWorks' = FALSE
      BY <2>1 DEF StageOwner, HolderWorks
    <2>3. StageLease!Save
      BY <2>1, <2>2 DEF StageLease!Save
    <2> QED
      BY <2>3 DEF StageLease!Next
  <1>9. CASE UpdateDie(u)
    <2>1. UNCHANGED saved
      BY <1>9 DEF UpdateDie
    <2>2. CASE holder = u
      <3>1. holder' = "dead"
        BY <1>9, <2>2 DEF UpdateDie
      <3>2. StageOwner = u /\ StageOwner' = "free" /\ HolderWorks' = FALSE
        BY <2>2, <3>1 DEF StageOwner, HolderWorks
      <3>3. StageLease!Lose
        BY <2>1, <3>2 DEF StageLease!Lose
      <3> QED
        BY <3>3 DEF StageLease!Next
    <2>3. CASE holder # u
      BY <1>3, <1>9, <2>1, <2>3 DEF UpdateDie
    <2> QED
      BY <2>2, <2>3
  <1> QED
    BY <1>3, <1>4, <1>5, <1>6, <1>7, <1>8, <1>9 DEF Request

LEMMA RefinedStep ==
    Types /\ LeaseInv /\ Types' /\ LeaseInv' /\ [RunNext]_runVars => [StageLease!Next]_(StageLease!vars)
  <1> SUFFICES ASSUME Types, LeaseInv, Types', LeaseInv', [RunNext]_runVars
               PROVE  [StageLease!Next]_(StageLease!vars)
    OBVIOUS
  <1>1. CASE Kargo \/ ArgoSync \/ NewBuild \/ Elapse \/ UNCHANGED runVars
    <2>1. UNCHANGED <<saved, tick, update, holder>>
      BY <1>1, KargoKeeps
    <2>2. UNCHANGED <<StageOwner, HolderWorks>>
      BY <2>1 DEF StageOwner, HolderWorks
    <2> QED
      BY <2>1, <2>2, Stutters
  <1>2. CASE LeaseExpires
    <2>1. holder = "dead" /\ holder' = "free" /\ UNCHANGED <<saved, tick, update>>
      BY <1>2 DEF LeaseExpires
    <2>2. UNCHANGED <<StageOwner, HolderWorks>>
      BY <2>1, RequestIsNobodyElse DEF StageOwner, HolderWorks
    <2> QED
      BY <2>1, <2>2, Stutters
  <1> QED
    BY <1>1, <1>2, RefinedTick, RefinedRequest DEF RunNext

\* What the reconciler and the requests do with the lease of the Stage is what
\* ExclusiveLease allows: the assumption of this module about ValidationLease
\* is the property that ValidationLease proves.
THEOREM LeaseAsPromised == RunSpec => HoldsLease
  <1>1. RunSpec => [](Types /\ LeaseInv)
    BY Leases
  <1>2. RunInit => StageLease!Init
    BY RefinedInit
  <1>3. Types /\ LeaseInv /\ Types' /\ LeaseInv' /\ [RunNext]_runVars => [StageLease!Next]_(StageLease!vars)
    BY RefinedStep
  <1> QED
    BY <1>1, <1>2, <1>3, PTL DEF RunSpec, HoldsLease, StageLease!Spec

-----------------------------------------------------------------------------
(* A mode that does not change: the promises of the lifecycle.             *)

LEMMA FixedInit == RunInit => FixedInv
  <1> SUFFICES ASSUME RunInit PROVE FixedInv
    OBVIOUS
  <1>1. git.tree = (mode = "persistent") /\ git.auto = (mode = "persistent")
        /\ git.marker = "absent"
    BY DEF RunInit
  <1>2. /\ kargo.auto = git.auto /\ kargo.freight = 0 /\ kargo.phase = "none"
        /\ kargo.recorded /\ kargo.current = 0
        /\ \A f \in Freight : kargo.check[f] = "none"
    BY DEF RunInit
  <1>3. /\ saved = NoRun /\ tick = NoTick /\ update = [u \in Updates |-> NoUpdate]
        /\ verified = {} /\ argo = "absent" /\ switches = 0 /\ elapsed = FALSE
    BY DEF RunInit
  <1>4. 0 \notin Freight
    BY DEF Freight
  <1>5. ModeFixed
    BY <1>3 DEF ModeFixed, NoUpdate
  <1>6. mode = "persistent" => Persistent
    BY <1>1, <1>3 DEF Persistent, NoTick
  <1>7. KargoOK(kargo, verified)
    BY <1>2, <1>3, <1>4 DEF KargoOK
  <1>8. Quiet(kargo)
    BY <1>2 DEF Quiet, Settled
  <1>9. mode = "ephemeral" => RunInv
    <2>1. /\ saved.phase = "unset" /\ saved.freight = 0 /\ saved.cursor = 0
          /\ tick.step = "idle"
      BY <1>3 DEF NoRun, NoTick
    <2>2. mode = "ephemeral" => PhaseOK(saved, kargo, git.tree, argo)
      <3>1. mode = "ephemeral" => ~git.tree
        BY <1>1
      <3>2. saved.freight <= saved.cursor /\ kargo.freight <= saved.cursor
        BY <1>2, <2>1
      <3> QED
        BY <1>2, <1>3, <1>8, <2>1, <3>1, <3>2 DEF PhaseOK
    <2> QED
      BY <1>3, <2>1, <2>2 DEF RunInv, Leased
  <1>10. TickInv
    BY <1>3 DEF TickInv, NoTick
  <1>11. mode = "ephemeral" => Handed
    BY <1>1, <1>2 DEF Handed
  <1> QED
    BY <1>5, <1>6, <1>7, <1>9, <1>10, <1>11 DEF FixedInv

\* The invariant of the ephemeral mode.
EphemeralInv == Handed /\ KargoOK(kargo, verified) /\ RunInv /\ TickInv

\* The reconciler never changes what is asked for, nor the mode.
LEMMA ReconcileKeeps ==
    ASSUME Reconcile
    PROVE  UNCHANGED <<mode, argo, discovered, verified, update, switches>>
  <1>1. CASE TickBegin \/ TickLease \/ TickList \/ TickNothing \/ TickRelease \/ TickSave \/ TickDie
    BY <1>1 DEF TickBegin, TickLease, TickList, TickNothing, TickRelease, TickSave, TickDie,
       world
  <1>2. CASE TickObserve \/ TickDecide
    BY <1>2, Zenon DEF TickObserve, TickDecide, world
  <1>3. CASE TickProvision \/ TickPromote \/ TickClean
    BY <1>3 DEF TickProvision, TickPromote, TickClean
  <1> QED
    BY <1>1, <1>2, <1>3 DEF Reconcile

\* A step of the reconciler that changes nothing but itself, and keeps the run
\* that it has read.
LEMMA TickOnly ==
    ASSUME EphemeralInv, UNCHANGED <<git, kargo, argo, verified, saved, elapsed>>,
           tick'.step \in Leased => PhaseOK(tick'.run, kargo, git.tree, argo), TickInv'
    PROVE  EphemeralInv'
  BY DEF EphemeralInv, Handed, RunInv

LEMMA RunShape ==
    ASSUME Types
    PROVE  /\ tick \in TickType /\ tick.run \in RunStates /\ saved \in RunStates /\ kargo \in KargoType
           /\ tick.run.freight \in 0..MaxFreight /\ tick.run.cursor \in 0..MaxFreight
           /\ saved.freight \in 0..MaxFreight /\ saved.cursor \in 0..MaxFreight
           /\ kargo.freight \in 0..MaxFreight /\ kargo.current \in 0..MaxFreight
           /\ discovered \in 0..MaxFreight /\ verified \subseteq Freight
           /\ tick.run.phase \in Phases /\ tick.obs.active \in BOOLEAN
           /\ kargo.check \in [Freight -> Checks]
           /\ kargo.recorded \in BOOLEAN /\ git \in GitType
  BY DEF Types, TickType, RunStates, KargoType

\* Looking, and giving up.
LEMMA TickLooks ==
    ASSUME Types, EphemeralInv, mode = "ephemeral",
           TickBegin \/ TickLease \/ TickObserve \/ TickList \/ TickNothing \/ TickDie
    PROVE  EphemeralInv'
  <1> USE RunShape DEF Leased
  <1>1. UNCHANGED <<git, kargo, argo, verified, saved, elapsed>>
    BY DEF TickBegin, TickLease, TickObserve, TickList, TickNothing, TickDie, world
  <1>2. CASE TickBegin \/ TickDie
    <2>1. tick'.step \in {"idle", "lease"}
      BY <1>2 DEF TickBegin, TickDie, NoTick
    <2>2. TickInv'
      BY <2>1 DEF TickInv
    <2> QED
      BY <1>1, <2>1, <2>2, TickOnly
  <1>3. CASE TickLease
    <2>1. \/ tick'.step = "idle"
          \/ tick'.step = "observe" /\ tick'.run = saved
      <3>1. CASE tick' = [tick EXCEPT !.step = "observe", !.run = saved]
        BY <3>1 DEF TickType
      <3>2. CASE tick' = NoTick
        BY <3>2 DEF NoTick
      <3> QED
        BY <1>3, <3>1, <3>2 DEF TickLease
    <2>2. TickInv'
      BY <1>1, <2>1 DEF TickInv
    <2>3. tick'.step \in Leased => PhaseOK(tick'.run, kargo, git.tree, argo)
      BY <2>1 DEF EphemeralInv, RunInv
    <2> QED
      BY <1>1, <2>2, <2>3, TickOnly
  <1>4. CASE tick.step \in {"observe", "list", "act"} /\ tick'.step = "save" /\ tick'.run = tick.run
    <2>1. TickInv'
      BY <1>1, <1>4 DEF TickInv, EphemeralInv, RunStates
    <2>2. PhaseOK(tick'.run, kargo, git.tree, argo)
      BY <1>4 DEF EphemeralInv, RunInv
    <2> QED
      BY <1>1, <2>1, <2>2, TickOnly
  <1>5. CASE TickNothing
    BY <1>4, <1>5 DEF TickNothing, TickType
  <1>6. CASE TickObserve
    <2>1. CASE tick'.step = "list"
      <3> DEFINE f == tick.run.freight
                 a == f # 0 /\ kargo.check[f] = "running"
                 d == f # 0 /\ \/ kargo.last = f /\ kargo.lastFailed
                               \/ kargo.check[f] = "failed"
      <3>a. \/ tick' = [tick EXCEPT !.step = "list", !.obs.current = kargo.current,
                                    !.obs.active = a, !.obs.failed = d]
            \/ tick' = [tick EXCEPT !.step = "save"]
        BY <1>6 DEF TickObserve
      <3>b. tick.step = "observe"
        BY <1>6 DEF TickObserve
      <3> HIDE DEF a, d
      <3>c. tick'.run = tick.run /\ tick'.obs.current = kargo.current /\ tick'.obs.active = a
        <4>1. tick' # [tick EXCEPT !.step = "save"]
          BY <2>1 DEF TickType
        <4>2. tick' = [tick EXCEPT !.step = "list", !.obs.current = kargo.current,
                                   !.obs.active = a, !.obs.failed = d]
          BY <3>a, <4>1
        <4> QED
          BY <4>2 DEF TickType
      <3>1. /\ tick.step = "observe" /\ tick'.run = tick.run
            /\ tick'.obs.current = kargo.current
            /\ tick'.obs.active = (/\ tick.run.freight # 0
                                   /\ kargo.check[tick.run.freight] = "running")
        BY <3>b, <3>c DEF a
      <3>2. PhaseOK(tick.run, kargo, git.tree, argo) /\ tick.run = saved
        BY <3>1 DEF EphemeralInv, RunInv, TickInv
      <3>3. tick.run.phase = "unset" => kargo.current = 0
        BY <3>2 DEF PhaseOK
      <3>4. tick.run.phase = "cleaning" /\ ~tick'.obs.active => Quiet(kargo)
        <4>1. 0 \notin Freight
          BY DEF Freight
        <4> QED
          BY <3>1, <3>2, <4>1 DEF PhaseOK, Quiet
      <3>5. TickInv'
        BY <1>1, <2>1, <3>1, <3>2, <3>3, <3>4 DEF TickInv
      <3> QED
        BY <1>1, <3>1, <3>2, <3>5, TickOnly
    <2>2. CASE tick'.step # "list"
      BY <1>4, <1>6, <2>2 DEF TickObserve, TickType
    <2> QED
      BY <2>1, <2>2
  <1>7. CASE TickList
    <2>1. /\ tick.step = "list" /\ tick'.step = "act" /\ tick'.run = tick.run
          /\ tick'.obs.current = tick.obs.current
          /\ tick.obs.active => tick'.obs.active
          /\ tick'.obs.verified = (tick.run.freight \in verified)
      BY <1>7 DEF TickList, TickType, IsVerified
    <2>2. TickInv'
      BY <1>1, <2>1 DEF TickInv, EphemeralInv
    <2>3. PhaseOK(tick'.run, kargo, git.tree, argo)
      BY <2>1 DEF EphemeralInv, RunInv
    <2> QED
      BY <1>1, <2>2, <2>3, TickOnly
  <1> QED
    BY <1>2, <1>3, <1>5, <1>6, <1>7

\* The decisions that need nothing but what was read.
LEMMA TickDecides ==
    ASSUME Types, EphemeralInv, TickDecide
    PROVE  EphemeralInv'
  <1> USE RunShape DEF Leased
  <1>1. UNCHANGED <<git, kargo, argo, verified, saved, elapsed>>
    BY DEF TickDecide, world
  <1>2. PICK r \in RunStates : Decide(r) /\ tick' = [tick EXCEPT !.step = "save", !.run = r]
    BY DEF TickDecide
  <1>3. tick'.step = "save" /\ tick'.run = r /\ tick.step = "act"
    BY <1>2 DEF TickType, TickDecide
  <1>4. PhaseOK(tick.run, kargo, git.tree, argo) /\ tick.run = saved /\ KargoOK(kargo, verified)
    BY <1>3 DEF EphemeralInv, RunInv, TickInv
  <1> SUFFICES /\ PhaseOK(r, kargo, git.tree, argo)
               /\ saved.cursor <= r.cursor
               /\ saved.phase = "idle" /\ r.phase = "provisioning" => r.freight > saved.cursor
    <2>1. TickInv'
      BY <1>1, <1>3 DEF TickInv
    <2> QED
      BY <1>1, <1>3, <2>1, TickOnly
  <1> DEFINE at == tick.run
  <1>5. CASE TimedOut /\ r = [at EXCEPT !.phase = "failed"]
    <2>1. r.phase = "failed" /\ r.freight = at.freight /\ r.cursor = at.cursor
          /\ at.phase \in {"provisioning", "waiting"}
      BY <1>5 DEF RunStates, TimedOut
    <2> QED
      BY <1>4, <2>1 DEF PhaseOK
  <1>6. CASE at.phase = "unset" /\ tick.obs.current # 0
    BY <1>3, <1>6 DEF EphemeralInv, TickInv
  <1>7. CASE at.phase = "unset" /\ r = [at EXCEPT !.phase = "cleaning"]
    <2>1. r.phase = "cleaning" /\ r.freight = at.freight /\ r.cursor = at.cursor
      BY <1>7 DEF RunStates
    <2> QED
      BY <1>4, <1>7, <2>1 DEF PhaseOK, Quiet
  <1>8. CASE /\ at.phase = "idle" /\ NextDiscovered
             /\ r = [phase |-> "provisioning", freight |-> discovered, cursor |-> discovered]
    <2>1. r.phase = "provisioning" /\ r.freight = discovered /\ r.cursor = discovered
          /\ discovered > at.cursor
      BY <1>8 DEF NextDiscovered
    <2> QED
      BY <1>4, <1>8, <2>1 DEF PhaseOK
  <1>9. CASE /\ at.phase = "running" /\ tick.obs.verified
             /\ r = [at EXCEPT !.phase = "cleaning"]
    <2>1. r.phase = "cleaning" /\ r.freight = at.freight /\ r.cursor = at.cursor
      BY <1>9 DEF RunStates
    <2>2. kargo.freight = at.freight /\ at.freight \in verified
      BY <1>3, <1>4, <1>9 DEF PhaseOK, EphemeralInv, TickInv
    <2>3. kargo.check[kargo.current] = "passed" /\ kargo.recorded
      BY <1>4, <2>2 DEF KargoOK
    <2>4. \A f \in Freight : kargo.check[f] # "running"
      BY <1>4, <2>3 DEF KargoOK
    <2> QED
      BY <1>4, <1>9, <2>1, <2>3, <2>4 DEF PhaseOK, Settled
  <1>10. CASE at.phase = "running" /\ r = [at EXCEPT !.phase = "failed"]
    <2>1. r.phase = "failed" /\ r.freight = at.freight /\ r.cursor = at.cursor
      BY <1>10 DEF RunStates
    <2> QED
      BY <1>4, <1>10, <2>1 DEF PhaseOK
  <1>11. CASE at.phase = "failed" /\ elapsed /\ r = [at EXCEPT !.phase = "cleaning"]
    <2>1. r.phase = "cleaning" /\ r.freight = at.freight /\ r.cursor = at.cursor
      BY <1>11 DEF RunStates
    <2>2. Settled(kargo)
      BY <1>4, <1>11 DEF EphemeralInv, RunInv
    <2>3. \A f \in Freight : kargo.check[f] = "running" => f = kargo.freight
      BY <1>4 DEF KargoOK
    <2> QED
      BY <1>4, <1>11, <2>1, <2>2, <2>3 DEF PhaseOK, Quiet
  <1> QED
    BY <1>2, <1>5, <1>6, <1>7, <1>8, <1>9, <1>10, <1>11 DEF Decide

\* A step that has an effect: the run is saved in the phase it was read in, or
\* in the next.
LEMMA TickProceeds ==
    ASSUME Types, TickInv, tick.step = "act", NEW p, Proceed(p)
    PROVE  /\ tick'.step = "save" /\ tick.run = saved
           /\ tick'.run.phase \in {p, saved.phase}
           /\ tick'.run.freight = saved.freight /\ tick'.run.cursor = saved.cursor
  <1>1. PICK q \in {p, tick.run.phase} :
            tick' = [tick EXCEPT !.step = "save", !.run.phase = q]
    BY DEF Proceed
  <1>2. tick'.step = "save" /\ tick'.run = [tick.run EXCEPT !.phase = q]
    BY <1>1, RunShape DEF TickType
  <1>3. tick.run = saved
    BY DEF TickInv
  <1> QED
    BY <1>1, <1>2, <1>3, RunShape DEF RunStates

LEMMA ProceedsTickInv ==
    ASSUME Types, UNCHANGED saved, NEW p \in Phases \ {"provisioning"},
           tick'.step = "save", tick'.run.phase \in {p, saved.phase},
           tick'.run.freight = saved.freight, tick'.run.cursor = saved.cursor
    PROVE  TickInv'
  BY RunShape DEF TickInv

LEMMA TickProvisions ==
    ASSUME Types, EphemeralInv, TickProvision
    PROVE  EphemeralInv'
  <1> USE RunShape DEF Leased
  <1>1. /\ tick.step = "act" /\ tick.run.phase = "provisioning" /\ Proceed("waiting")
        /\ UNCHANGED <<kargo, argo, verified, saved, elapsed>>
        /\ git' = [git EXCEPT !.marker = "active", !.tree = TRUE, !.pending = TRUE]
    BY DEF TickProvision
  <1>2. git'.tree /\ git'.marker = "active" /\ git'.auto = git.auto
    BY <1>1 DEF GitType
  <1>3. /\ tick'.step = "save" /\ tick.run = saved
        /\ tick'.run.phase \in {"waiting", "provisioning"} /\ saved.phase = "provisioning"
        /\ tick'.run.freight = saved.freight /\ tick'.run.cursor = saved.cursor
    BY <1>1, TickProceeds DEF EphemeralInv
  <1>4. TickInv'
    BY <1>1, <1>3, ProceedsTickInv DEF Phases
  <1>5. PhaseOK(saved, kargo, git.tree, argo)
    BY DEF EphemeralInv, RunInv
  <1>6. PhaseOK(saved, kargo, TRUE, argo) /\ PhaseOK(tick'.run, kargo, TRUE, argo)
    BY <1>3, <1>5 DEF PhaseOK
  <1>7. git'.tree = TRUE
    BY <1>1 DEF GitType
  <1>8. RunInv'
    BY <1>1, <1>3, <1>6, <1>7 DEF RunInv
  <1> QED
    BY <1>1, <1>2, <1>4, <1>8 DEF EphemeralInv, Handed

LEMMA TickCleans ==
    ASSUME Types, EphemeralInv, TickClean
    PROVE  EphemeralInv' /\ Quiet(kargo)
  <1> USE RunShape DEF Leased
  <1>1. /\ tick.step = "act" /\ tick.run.phase = "cleaning" /\ Proceed("deleting")
        /\ ~tick.obs.active
        /\ UNCHANGED <<kargo, argo, verified, saved, elapsed>>
        /\ git' = [git EXCEPT !.marker = "dormant", !.tree = FALSE]
    BY DEF TickClean, HeldBack
  <1>2. git'.tree = FALSE /\ git'.marker = "dormant" /\ git'.auto = git.auto
    BY <1>1 DEF GitType
  <1>3. /\ tick'.step = "save" /\ tick.run = saved
        /\ tick'.run.phase \in {"deleting", "cleaning"} /\ saved.phase = "cleaning"
        /\ tick'.run.freight = saved.freight /\ tick'.run.cursor = saved.cursor
    BY <1>1, TickProceeds DEF EphemeralInv
  <1>4. TickInv'
    BY <1>1, <1>3, ProceedsTickInv DEF Phases
  <1>5. PhaseOK(saved, kargo, git.tree, argo) /\ Quiet(kargo)
    BY <1>1 DEF EphemeralInv, RunInv, TickInv
  <1>6. PhaseOK(saved, kargo, FALSE, argo) /\ PhaseOK(tick'.run, kargo, FALSE, argo)
    BY <1>3, <1>5 DEF PhaseOK
  <1>7. RunInv'
    BY <1>1, <1>2, <1>3, <1>6 DEF RunInv, EphemeralInv
  <1> QED
    BY <1>1, <1>2, <1>4, <1>5, <1>7 DEF EphemeralInv, Handed

LEMMA TickReleases ==
    ASSUME Types, EphemeralInv, TickRelease
    PROVE  EphemeralInv'
  <1> USE RunShape DEF Leased
  <1>1. UNCHANGED <<git, kargo, argo, verified, saved, elapsed>>
    BY DEF TickRelease, world
  <1>2. /\ tick.step = "act" /\ tick.run.phase = "deleting" /\ argo = "absent"
        /\ tick' = [tick EXCEPT !.step = "save", !.run = Idled]
    BY DEF TickRelease, ApplicationsGone
  <1>3. tick'.step = "save" /\ tick'.run = Idled
    BY <1>2 DEF TickType
  <1>4. tick'.run.phase = "idle" /\ tick'.run.freight = 0 /\ tick'.run.cursor = tick.run.cursor
    BY <1>3 DEF Idled, RunStates
  <1>5. PhaseOK(tick.run, kargo, git.tree, argo) /\ tick.run = saved
    BY <1>2 DEF EphemeralInv, RunInv, TickInv
  <1>6. PhaseOK(tick'.run, kargo, git.tree, argo)
    BY <1>2, <1>4, <1>5 DEF PhaseOK
  <1>7. TickInv'
    BY <1>1, <1>3, <1>4, <1>5 DEF TickInv
  <1> QED
    BY <1>1, <1>6, <1>7, TickOnly

\* What the run's phase says when Kargo has not got this Freight yet.
LEMMA TickPromotes ==
    ASSUME Types, EphemeralInv, TickPromote
    PROVE  EphemeralInv'
  <1> USE RunShape DEF Leased
  <1>1. /\ tick.step = "act" /\ tick.run.phase = "waiting" /\ Proceed("running")
        /\ UNCHANGED <<git, argo, verified, saved, elapsed>>
    BY DEF TickPromote
  <1>2. /\ tick'.step = "save" /\ tick.run = saved
        /\ tick'.run.phase \in {"running", "waiting"} /\ saved.phase = "waiting"
        /\ tick'.run.freight = saved.freight /\ tick'.run.cursor = saved.cursor
    BY <1>1, TickProceeds DEF EphemeralInv
  <1>3. TickInv'
    BY <1>1, <1>2, ProceedsTickInv DEF Phases
  <1>4. PhaseOK(saved, kargo, git.tree, argo) /\ KargoOK(kargo, verified)
    BY DEF EphemeralInv, RunInv
  <1>5. CASE AttemptStands /\ UNCHANGED kargo
    <2>1. kargo.freight = saved.freight
      BY <1>2, <1>5 DEF AttemptStands
    <2>2. PhaseOK(tick'.run, kargo, git.tree, argo)
      BY <1>2, <1>4, <2>1 DEF PhaseOK
    <2>3. RunInv'
      BY <1>1, <1>2, <1>4, <1>5, <2>2 DEF RunInv
    <2> QED
      BY <1>1, <1>3, <1>4, <1>5, <2>3 DEF EphemeralInv, Handed
  <1>6. CASE /\ ~AttemptStands /\ kargo.phase # "active"
             /\ kargo' = [kargo EXCEPT !.freight = tick.run.freight, !.phase = "active",
                                       !.recorded = FALSE]
    <2>1. /\ kargo'.freight = saved.freight /\ kargo'.phase = "active"
          /\ kargo'.recorded = FALSE /\ kargo'.auto = kargo.auto
          /\ kargo'.check = kargo.check /\ kargo'.current = kargo.current
      BY <1>2, <1>6 DEF KargoType
    <2>2. saved.freight # 0 /\ kargo.freight <= saved.freight
          /\ (Quiet(kargo) \/ kargo.freight = saved.freight)
      BY <1>2, <1>4 DEF PhaseOK
    <2>3. ASSUME kargo.phase = "succeeded", kargo.recorded, kargo.current = kargo.freight,
                 kargo.freight = saved.freight
          PROVE  FALSE
      BY <1>2, <1>6, <2>3 DEF AttemptStands
    <2>4. ASSUME NEW f \in Freight,
                 kargo.check[f] = "running" \/ (f = kargo.current /\ kargo.check[f] = "none")
          PROVE  FALSE
      <3>1. f = kargo.current /\ f = kargo.freight /\ kargo.phase = "succeeded" /\ kargo.recorded
        BY <1>4, <2>4 DEF KargoOK
      <3>2. ~Quiet(kargo)
        BY <2>4, <3>1 DEF Quiet, Settled, Freight
      <3> QED
        BY <2>2, <2>3, <3>1, <3>2
    <2>5. saved.freight \notin verified
      <3>1. SUFFICES ASSUME saved.freight \in verified PROVE FALSE
        OBVIOUS
      <3>2. kargo.freight = saved.freight
        BY <1>4, <2>2, <3>1 DEF KargoOK
      <3> QED
        BY <1>4, <2>3, <3>1, <3>2 DEF KargoOK
    <2>6. KargoOK(kargo', verified)
      <3>1. \A f \in verified : f <= saved.freight
        BY <1>4, <2>2 DEF KargoOK, Freight
      <3> QED
        BY <2>1, <2>4, <2>5, <3>1 DEF KargoOK
    <2>7. PhaseOK(saved, kargo', git.tree, argo) /\ PhaseOK(tick'.run, kargo', git.tree, argo)
      BY <1>2, <1>4, <2>1, <2>2 DEF PhaseOK
    <2>8. RunInv'
      BY <1>1, <1>2, <2>7 DEF RunInv
    <2> QED
      BY <1>1, <1>3, <2>1, <2>6, <2>8 DEF EphemeralInv, Handed
  <1> QED
    BY <1>5, <1>6 DEF TickPromote

LEMMA TickSaves ==
    ASSUME Types, EphemeralInv, TickSave
    PROVE  EphemeralInv'
  <1> USE RunShape DEF Leased
  <1>1. /\ UNCHANGED <<git, kargo, argo, verified>> /\ saved' = tick.run
        /\ tick.step = "save" /\ tick'.step = "idle"
        /\ elapsed' => elapsed /\ (tick.run.phase = "failed" => saved.phase = "failed")
    BY DEF TickSave, world, NoTick
  <1>2. RunInv'
    BY <1>1 DEF EphemeralInv, RunInv
  <1>3. TickInv'
    BY <1>1 DEF TickInv
  <1> QED
    BY <1>1, <1>2, <1>3 DEF EphemeralInv, Handed

LEMMA ReconcileFixed ==
    ASSUME Types, EphemeralInv, mode = "ephemeral", Reconcile
    PROVE  EphemeralInv'
  BY TickLooks, TickDecides, TickProvisions, TickPromotes, TickCleans, TickReleases,
     TickSaves
     DEF Reconcile

\* A reconciler that has nothing to do: in persistent mode it does not begin.
LEMMA ReconcileIdle ==
    ASSUME Persistent, mode = "persistent", Reconcile
    PROVE  FALSE
  BY DEF Persistent, Reconcile, TickBegin, TickLease, TickObserve, TickList, TickNothing,
         TickDecide, TickProvision, TickPromote, TickClean, TickRelease, TickSave, TickDie

\* Requests that do not ask for the other mode change nothing of the world.
LEMMA RequestFixed ==
    ASSUME MaxSwitches = 0, Types, ModeFixed, LeaseInv, NEW u \in Updates, Request(u),
           mode = "ephemeral" => Handed, mode = "persistent" => git.tree
    PROVE  /\ ModeFixed'
           /\ UNCHANGED <<mode, kargo, argo, verified, discovered, saved, elapsed, tick>>
           /\ git'.tree = git.tree /\ git'.marker = git.marker
           /\ mode = "ephemeral" => ~git'.auto
  <1> git \in GitType
    BY RunShape
  <1>1. /\ update \in [Updates -> RequestType] /\ mode \in Modes
        /\ \A v \in Updates \ {u} : update'[v] = update[v]
    BY DEF Request, UpdateLoad, UpdateLease, UpdateSave, UpdatePublish, UpdateRollback,
       UpdateFinish, UpdateDie,
           Step, AfterPublish, Types
  <1>2. UNCHANGED <<kargo, argo, verified, discovered, elapsed, tick>>
    BY DEF Request, UpdateLoad, UpdateLease, UpdateSave, UpdatePublish, UpdateRollback,
       UpdateFinish, UpdateDie,
           world
  <1>3. ASSUME NEW next \in Modes, UpdateLoad(u, next)
        PROVE  UNCHANGED <<mode, git, saved>> /\ ModeFixed'
    <2>1. next = mode /\ switches' = 0 /\ UNCHANGED <<mode, git, saved>>
      BY <1>3 DEF UpdateLoad, ModeFixed, world
    <2>2. update'[u].prev = mode /\ update'[u].next = mode /\ update'[u].reset = FALSE
      BY <1>1, <1>3, <2>1 DEF UpdateLoad
    <2> QED
      BY <1>1, <2>1, <2>2 DEF ModeFixed
  <1>4. ASSUME update'[u].step = "idle", UNCHANGED <<mode, switches>>
        PROVE  ModeFixed'
    BY <1>1, <1>4 DEF ModeFixed
  <1>5. CASE UpdateLease(u)
    <2>1. UNCHANGED <<mode, git, saved, switches>>
      BY <1>5 DEF UpdateLease, world
    <2>2. update'[u].prev = update[u].prev /\ update'[u].next = update[u].next
          /\ update'[u].reset = update[u].reset
      BY <1>1, <1>5 DEF UpdateLease, Step, RequestType
    <2>3. update[u].step # "idle"
      BY <1>5 DEF UpdateLease
    <2> QED
      BY <1>1, <1>2, <2>1, <2>2, <2>3 DEF ModeFixed, Handed
  <1>6. CASE UpdateSave(u)
    <2>1. UNCHANGED <<git, saved, switches>> /\ mode' = mode
      BY <1>6 DEF UpdateSave, ModeFixed
    <2>2. update'[u].prev = update[u].prev /\ update'[u].next = update[u].next
          /\ update'[u].reset = update[u].reset
      BY <1>1, <1>6 DEF UpdateSave, Step, RequestType
    <2>3. update[u].step # "idle"
      BY <1>6 DEF UpdateSave
    <2> QED
      BY <1>1, <1>2, <2>1, <2>2, <2>3 DEF ModeFixed, Handed
  <1>7. CASE UpdatePublish(u)
    <2>1. update[u].step # "idle" /\ update[u].prev = mode /\ update[u].next = mode
      BY <1>7 DEF UpdatePublish, ModeFixed
    <2>2. UNCHANGED <<mode, saved, switches>>
      BY <1>7 DEF UpdatePublish
    <2>3. ~Switching(u)
      BY <2>1 DEF Switching
    <2>4. update'[u].prev = update[u].prev /\ update'[u].next = update[u].next
          /\ update'[u].reset = FALSE
      BY <1>1, <1>7, <2>1, <2>3 DEF UpdatePublish, AfterPublish, Step, RequestType,
         ModeFixed
    <2>5. ModeFixed'
      BY <1>1, <2>1, <2>2, <2>4 DEF ModeFixed
    <2>6. CASE UNCHANGED git
      BY <1>2, <2>2, <2>5, <2>6 DEF Handed
    <2>7. CASE PublishApp(u)
      <3>1. /\ git'.marker = git.marker
            /\ git'.tree = ~(mode = "ephemeral" /\ Dormant)
            /\ git'.auto = (mode = "persistent")
        BY <2>1, <2>7 DEF PublishApp, GitType
      <3>2. CASE mode = "persistent"
        BY <1>2, <2>2, <2>5, <3>1, <3>2 DEF GitType
      <3>3. CASE mode = "ephemeral"
        <4>1. Dormant = ~git.tree
          BY <3>3 DEF Handed, Dormant, GitType
        <4>2. git'.tree = git.tree /\ ~git'.auto
          BY <3>1, <3>3, <4>1 DEF GitType
        <4> QED
          BY <1>2, <2>2, <2>5, <3>1, <4>2
      <3> QED
        BY <1>1, <3>2, <3>3 DEF Modes
    <2> QED
      BY <1>7, <2>6, <2>7 DEF UpdatePublish
  <1>10. CASE UpdateRollback(u)
    <2>1. update[u].step # "idle" /\ update[u].prev = mode /\ update[u].next = mode
      BY <1>10 DEF UpdateRollback, ModeFixed
    <2>2. UNCHANGED <<git, saved, switches>> /\ mode' = mode
      BY <1>10, <2>1 DEF UpdateRollback
    <2>3. update'[u].prev = update[u].prev /\ update'[u].next = update[u].next
          /\ update'[u].reset = FALSE
      BY <1>1, <1>10 DEF UpdateRollback, AfterPublish, RequestType
    <2>4. ModeFixed'
      BY <1>1, <2>1, <2>2, <2>3 DEF ModeFixed
    <2> QED
      BY <1>2, <2>2, <2>4 DEF Handed
  <1>8. CASE UpdateFinish(u)
    <2>1. UNCHANGED <<mode, git, switches>> /\ saved' = saved
      BY <1>8 DEF UpdateFinish, ModeFixed, world
    <2>2. update'[u].step = "idle"
      BY <1>1, <1>8 DEF UpdateFinish, NoUpdate
    <2> QED
      BY <1>2, <1>4, <2>1, <2>2 DEF Handed
  <1>9. CASE UpdateDie(u)
    <2>1. UNCHANGED <<mode, git, saved, switches>>
      BY <1>9 DEF UpdateDie, world
    <2>2. update'[u].step = "idle"
      BY <1>1, <1>9 DEF UpdateDie, NoUpdate
    <2> QED
      BY <1>2, <1>4, <2>1, <2>2 DEF Handed
  <1> QED
    <2>1. ASSUME \E next \in Modes : UpdateLoad(u, next)
          PROVE  UNCHANGED <<mode, git, saved>> /\ ModeFixed'
      BY <1>3, <2>1
    <2>2. CASE \E next \in Modes : UpdateLoad(u, next)
      BY <1>2, <2>1, <2>2 DEF Handed
    <2> QED
      BY <2>2, <1>5, <1>6, <1>7, <1>8, <1>9, <1>10 DEF Request

\* What Kargo does by itself when it does not schedule.  It is then not quiet,
\* a Stage that had settled stays so, and nothing is promoted anew.
KargoGoesOn ==
    /\ UNCHANGED <<mode, argo, discovered, saved, elapsed, holder, tick, update, switches>>
    /\ git'.tree = git.tree /\ git'.marker = git.marker /\ git'.auto = git.auto
    /\ kargo'.auto = kargo.auto /\ kargo'.freight = kargo.freight
    /\ ~Quiet(kargo) /\ (Settled(kargo) => Settled(kargo'))
    /\ verified \subseteq verified'

LEMMA KargoGoes ==
    ASSUME Types, Handed, KargoOK(kargo, verified), Kargo
    PROVE  /\ KargoGoesOn /\ KargoOK(kargo', verified')
           /\ Settled(kargo) => \A f \in Freight :
                 kargo'.check[f] = "running" => kargo.check[f] = "running"
  <1> DEFINE Running == Settled(kargo) => \A f \in Freight :
                 kargo'.check[f] = "running" => kargo.check[f] = "running"
  <1> USE RunShape DEF KargoOnly
  <1>0. 0 \notin Freight /\ (kargo.current # 0 => kargo.current \in Freight)
        /\ (kargo.freight # 0 => kargo.freight \in Freight) /\ Freight \subseteq Nat
    BY BoundsAssumption DEF Freight
  <1>1. CASE KargoHandoff \/ KargoAutoPromote
    <2>1. kargo.auto = FALSE /\ git.auto = FALSE
      BY DEF Handed, KargoType, GitType
    <2> QED
      BY <1>1, <2>1 DEF KargoHandoff, KargoAutoPromote
  <1>2. CASE KargoSucceed \/ KargoFail
    <2>1. /\ kargo.phase = "active"
          /\ kargo'.phase # "active" /\ kargo'.auto = kargo.auto /\ kargo'.freight = kargo.freight
          /\ kargo'.recorded = kargo.recorded /\ kargo'.current = kargo.current
          /\ kargo'.check = kargo.check /\ UNCHANGED verified
          /\ git'.tree = git.tree /\ git'.marker = git.marker /\ git'.auto = git.auto
          /\ UNCHANGED <<mode, argo, discovered, saved, elapsed, holder, tick, update, switches>>
      BY <1>2 DEF KargoSucceed, KargoFail, KargoType, GitType
    <2>2. ~kargo.recorded
      BY <2>1 DEF KargoOK
    <2>3. KargoGoesOn
      BY <2>1, <2>2 DEF KargoGoesOn, Quiet, Settled
    <2>4. KargoOK(kargo', verified') /\ Running
      BY <2>1, <2>2 DEF KargoOK, Settled
    <2> QED
      BY <2>3, <2>4
  <1>3. CASE KargoRecord
    <2> DEFINE c == IF kargo.phase = "failed" THEN kargo.check
                    ELSE [f \in Freight |->
                            IF f = kargo.freight THEN "none"
                            ELSE IF kargo.check[f] = "running" THEN "failed"
                            ELSE kargo.check[f]]
    <2>1. /\ kargo' = [kargo EXCEPT
                      !.recorded = TRUE, !.last = kargo.freight,
                      !.lastFailed = (kargo.phase = "failed"),
                      !.current = IF kargo.phase = "failed" THEN kargo.current
                                  ELSE kargo.freight,
                      !.check = c]
          /\ kargo.recorded = FALSE /\ kargo.phase \in {"succeeded", "failed"}
          /\ UNCHANGED verified /\ UNCHANGED git
          /\ UNCHANGED <<mode, argo, discovered, saved, elapsed, holder, tick, update, switches>>
      BY <1>3 DEF KargoRecord, KargoType
    <2>2. \A f \in Freight :
             /\ kargo.phase = "failed" => c[f] = kargo.check[f]
             /\ kargo.phase # "failed" /\ f = kargo.freight => c[f] = "none"
             /\ kargo.phase # "failed" => c[f] # "running"
             /\ kargo.phase # "failed" /\ f # kargo.freight /\ c[f] = "none" =>
                   kargo.check[f] = "none"
      OBVIOUS
    <2> HIDE DEF c
    <2>3. /\ kargo'.recorded = TRUE /\ kargo'.freight = kargo.freight /\ kargo'.check = c
          /\ kargo'.auto = kargo.auto /\ kargo'.phase = kargo.phase
          /\ kargo'.current = IF kargo.phase = "failed" THEN kargo.current ELSE kargo.freight
      BY <2>1 DEF KargoType
    <2>4. KargoGoesOn /\ Running
      BY <2>1, <2>3 DEF KargoGoesOn, Quiet, Settled
    <2>5. /\ \A f \in Freight : kargo.check[f] # "running"
          /\ \A f \in Freight : f = kargo.current => kargo.check[f] # "none"
          /\ kargo.freight \notin verified
      BY <2>1 DEF KargoOK
    <2>6. KargoOK(kargo', verified')
      <3>1. \A f \in Freight :
              kargo'.check[f] = "running" \/ (f = kargo'.current /\ kargo'.check[f] = "none") =>
              f = kargo'.current /\ f = kargo'.freight /\ kargo'.phase = "succeeded"
        BY <2>1, <2>2, <2>3, <2>5
      <3>2. \A f \in verified' : f <= kargo'.freight
        BY <2>1, <2>3 DEF KargoOK
      <3> QED
        BY <2>1, <2>3, <2>5, <3>1, <3>2 DEF KargoOK
    <2> QED
      BY <2>4, <2>6
  <1>4. CASE KargoVerify
    <2> DEFINE g == kargo.current
    <2>1. /\ kargo.recorded /\ g \in Freight /\ kargo.check[g] = "none"
          /\ kargo' = [kargo EXCEPT !.check[g] = "running"]
          /\ UNCHANGED verified /\ UNCHANGED git
          /\ UNCHANGED <<mode, argo, discovered, saved, elapsed, holder, tick, update, switches>>
      BY <1>0, <1>4 DEF KargoVerify
    <2>2. /\ kargo'.recorded = kargo.recorded /\ kargo'.freight = kargo.freight
          /\ kargo'.auto = kargo.auto /\ kargo'.phase = kargo.phase
          /\ kargo'.current = kargo.current
          /\ kargo'.check[g] = "running"
          /\ \A f \in Freight : f # g => kargo'.check[f] = kargo.check[f]
      BY <2>1 DEF KargoType
    <2>3. ~Settled(kargo)
      BY <1>0, <2>1 DEF Settled
    <2>4. KargoGoesOn /\ Running
      BY <2>1, <2>2, <2>3 DEF KargoGoesOn, Quiet
    <2>5. g = kargo.freight /\ kargo.phase = "succeeded" /\ kargo.recorded
      BY <2>1 DEF KargoOK
    <2>6. kargo.freight \notin verified
      BY <2>1, <2>5 DEF KargoOK
    <2>7. KargoOK(kargo', verified')
      BY <2>1, <2>2, <2>5, <2>6 DEF KargoOK
    <2> QED
      BY <2>4, <2>7
  <1>5. ASSUME NEW f \in Freight, NEW result \in {"passed", "failed"}, KargoVerified(f, result)
        PROVE  KargoGoesOn /\ KargoOK(kargo', verified') /\ Running
    <2>1. /\ kargo.check[f] = "running"
          /\ kargo' = [kargo EXCEPT !.check[f] = result]
          /\ verified' = (IF result = "passed" THEN verified \cup {f} ELSE verified)
          /\ UNCHANGED git
          /\ UNCHANGED <<mode, argo, discovered, saved, elapsed, holder, tick, update, switches>>
      BY <1>5 DEF KargoVerified
    <2>2. /\ kargo'.recorded = kargo.recorded /\ kargo'.freight = kargo.freight
          /\ kargo'.auto = kargo.auto /\ kargo'.phase = kargo.phase
          /\ kargo'.current = kargo.current
          /\ kargo'.check[f] = result
          /\ \A h \in Freight : h # f => kargo'.check[h] = kargo.check[h]
      BY <2>1 DEF KargoType
    <2>3. f = kargo.current /\ f = kargo.freight /\ kargo.phase = "succeeded" /\ kargo.recorded
      BY <2>1 DEF KargoOK
    <2>4. kargo.freight \notin verified
      BY <2>1, <2>3 DEF KargoOK
    <2>5. KargoGoesOn /\ Running
      BY <2>1, <2>2, <2>3 DEF KargoGoesOn, Quiet, Settled
    <2>6. KargoOK(kargo', verified')
      <3>1. \A h \in verified' : h <= kargo'.freight
        BY <1>0, <2>1, <2>2, <2>3 DEF KargoOK
      <3>2. kargo'.freight \in verified' => result = "passed"
        BY <2>1, <2>2, <2>4
      <3>3. \A h \in Freight :
               kargo'.check[h] = "running" \/ (h = kargo'.current /\ kargo'.check[h] = "none") =>
               FALSE
        BY <2>1, <2>2, <2>3 DEF KargoOK
      <3> QED
        BY <2>2, <2>3, <3>1, <3>2, <3>3 DEF KargoOK
    <2> QED
      BY <2>5, <2>6
  <1> QED
    BY <1>1, <1>2, <1>3, <1>4, <1>5 DEF Kargo

LEMMA KargoPhase ==
    ASSUME Types, KargoGoesOn, NEW r, PhaseOK(r, kargo, git.tree, argo),
           Settled(kargo) => \A f \in Freight :
               kargo'.check[f] = "running" => kargo.check[f] = "running"
    PROVE  PhaseOK(r, kargo', git'.tree, argo')
  BY DEF KargoGoesOn, PhaseOK

LEMMA KargoFixed ==
    ASSUME Types, EphemeralInv, Kargo
    PROVE  EphemeralInv' /\ UNCHANGED <<mode, update, switches, saved>> /\ git'.tree = git.tree
  <1>1. /\ KargoGoesOn /\ KargoOK(kargo', verified')
        /\ Settled(kargo) => \A f \in Freight :
              kargo'.check[f] = "running" => kargo.check[f] = "running"
    BY KargoGoes DEF EphemeralInv
  <1>2. RunInv'
    <2>1. PhaseOK(saved, kargo', git'.tree, argo')
      BY <1>1, KargoPhase DEF EphemeralInv, RunInv
    <2>2. tick.step \in Leased => PhaseOK(tick.run, kargo', git'.tree, argo')
      BY <1>1, KargoPhase DEF EphemeralInv, RunInv
    <2>3. saved.phase = "failed" /\ elapsed => Settled(kargo')
      BY <1>1 DEF EphemeralInv, RunInv, KargoGoesOn
    <2> QED
      BY <1>1, <2>1, <2>2, <2>3 DEF RunInv, KargoGoesOn
  <1>3. TickInv'
    BY <1>1 DEF EphemeralInv, TickInv, KargoGoesOn
  <1> QED
    BY <1>1, <1>2, <1>3 DEF EphemeralInv, Handed, KargoGoesOn

\* In persistent mode Git's files stay whatever Kargo does.
LEMMA KargoPersistent ==
    ASSUME Types, Kargo
    PROVE  UNCHANGED <<mode, update, switches, tick, saved>> /\ git'.tree = git.tree
  BY RunShape DEF Kargo, KargoHandoff, KargoAutoPromote, KargoSucceed, KargoFail,
     KargoRecord,
                  KargoVerify, KargoVerified, KargoOnly, GitType

\* Argo CD follows Git.
LEMMA ArgoPhase ==
    ASSUME ArgoSync, NEW r, PhaseOK(r, kargo, git.tree, argo)
    PROVE  PhaseOK(r, kargo, git.tree, argo')
  <1>1. ~(~git.tree /\ argo = "absent")
    BY DEF ArgoSync
  <1> QED
    BY <1>1 DEF PhaseOK

LEMMA OthersFixed ==
    ASSUME Types, EphemeralInv, ArgoSync \/ NewBuild \/ LeaseExpires \/ Elapse \/ UNCHANGED runVars
    PROVE  EphemeralInv' /\ UNCHANGED <<mode, update, switches, saved, git>>
  <1>1. UNCHANGED <<mode, git, kargo, verified, saved, tick, update, switches>>
    BY DEF ArgoSync, NewBuild, LeaseExpires, Elapse, runVars, world
  <1>2. CASE ArgoSync
    <2>1. RunInv'
      BY <1>1, <1>2, ArgoPhase DEF EphemeralInv, RunInv, ArgoSync
    <2> QED
      BY <1>1, <2>1 DEF EphemeralInv, Handed, TickInv
  <1>3. CASE Elapse
    <2>1. UNCHANGED argo /\ (saved.phase = "failed" => Settled(kargo))
      BY <1>3 DEF Elapse, world, KargoSettled, Settled
    <2>2. RunInv'
      BY <1>1, <2>1 DEF EphemeralInv, RunInv
    <2> QED
      BY <1>1, <2>2 DEF EphemeralInv, Handed, TickInv
  <1>4. CASE UNCHANGED <<argo, elapsed>>
    BY <1>1, <1>4 DEF EphemeralInv, RunInv, Handed, TickInv
  <1> QED
    BY <1>2, <1>3, <1>4 DEF NewBuild, LeaseExpires, runVars, world

LEMMA FixedStep ==
    ASSUME MaxSwitches = 0, Types, LeaseInv, FixedInv, [RunNext]_runVars
    PROVE  FixedInv' /\ mode' = mode
  <1>1. mode \in Modes
    BY DEF Types
  <1>2. CASE mode = "ephemeral"
    <2>1. EphemeralInv /\ ModeFixed
      BY <1>2 DEF FixedInv, EphemeralInv
    <2> SUFFICES EphemeralInv' /\ ModeFixed' /\ mode' = mode
      BY <1>2 DEF FixedInv, EphemeralInv
    <2>2. CASE Reconcile
      BY <1>2, <2>1, <2>2, ReconcileFixed, ReconcileKeeps DEF ModeFixed
    <2>3. ASSUME NEW u \in Updates, Request(u)
          PROVE  EphemeralInv' /\ ModeFixed' /\ mode' = mode
      <3>1. /\ ModeFixed'
            /\ UNCHANGED <<mode, kargo, argo, verified, discovered, saved, elapsed, tick>>
            /\ git'.tree = git.tree /\ git'.marker = git.marker /\ ~git'.auto
        BY <1>2, <2>1, <2>3, RequestFixed DEF EphemeralInv
      <3> QED
        BY <2>1, <3>1 DEF EphemeralInv, Handed, RunInv, TickInv
    <2>4. CASE Kargo
      BY <2>1, <2>4, KargoFixed DEF ModeFixed
    <2>5. CASE ArgoSync \/ NewBuild \/ LeaseExpires \/ Elapse \/ UNCHANGED runVars
      BY <2>1, <2>5, OthersFixed DEF ModeFixed
    <2> QED
      BY <2>2, <2>3, <2>4, <2>5 DEF RunNext
  <1>3. CASE mode = "persistent"
    <2>1. Persistent /\ ModeFixed
      BY <1>3 DEF FixedInv
    <2> SUFFICES Persistent' /\ ModeFixed' /\ mode' = mode
      BY <1>3 DEF FixedInv
    <2>2. CASE Reconcile
      BY <1>3, <2>1, <2>2, ReconcileIdle
    <2>3. ASSUME NEW u \in Updates, Request(u)
          PROVE  Persistent' /\ ModeFixed' /\ mode' = mode
      BY <1>3, <2>1, <2>3, RequestFixed DEF Persistent
    <2>4. CASE Kargo
      BY <2>1, <2>4, KargoPersistent DEF ModeFixed, Persistent
    <2>5. CASE ArgoSync \/ NewBuild \/ LeaseExpires \/ Elapse \/ UNCHANGED runVars
      BY <2>1, <2>5 DEF ModeFixed, Persistent, ArgoSync, NewBuild, LeaseExpires, Elapse,
         runVars, world
    <2> QED
      BY <2>2, <2>3, <2>4, <2>5 DEF RunNext
  <1> QED
    BY <1>1, <1>2, <1>3 DEF Modes

LEMMA Fixed ==
    ASSUME MaxSwitches = 0
    PROVE  RunSpec => [](Types /\ LeaseInv /\ FixedInv)
  <1>1. Types /\ LeaseInv /\ FixedInv /\ [RunNext]_runVars => FixedInv'
    BY FixedStep
  <1> QED
    BY <1>1, TypeInit, LeaseInit, FixedInit, TypesStep, LeaseStep, PTL DEF RunSpec

-----------------------------------------------------------------------------
(* The promises.                                                           *)

\* Who writes the environment's files in ephemeral mode: nobody else.
LEMMA TreeWriters ==
    ASSUME MaxSwitches = 0, Types, LeaseInv, FixedInv, [RunNext]_runVars, git'.tree # git.tree
    PROVE  mode = "ephemeral" /\ EphemeralInv /\ (TickProvision \/ TickClean)
  <1>1. CASE mode = "persistent"
    <2>1. FixedInv' /\ mode' = mode
      BY FixedStep
    <2>2. git.tree \in BOOLEAN /\ git'.tree \in BOOLEAN
      BY TypesStep DEF Types, GitType
    <2> QED
      BY <1>1, <2>1, <2>2 DEF FixedInv, Persistent
  <1>2. CASE mode = "ephemeral"
    <2>1. EphemeralInv
      BY <1>2 DEF FixedInv, EphemeralInv
    <2>2. CASE Reconcile
      BY <1>2, <2>1, <2>2 DEF Reconcile, TickBegin, TickLease, TickObserve, TickList,
         TickNothing,
            TickDecide, TickPromote, TickRelease, TickSave, TickDie, world
    <2>3. ASSUME NEW u \in Updates, Request(u)
          PROVE  FALSE
      BY <1>2, <2>1, <2>3, RequestFixed DEF EphemeralInv, FixedInv
    <2>4. CASE Kargo
      BY <2>4, KargoPersistent
    <2>5. CASE ArgoSync \/ NewBuild \/ LeaseExpires \/ Elapse \/ UNCHANGED runVars
      BY <2>1, <2>5, OthersFixed
    <2> QED
      BY <2>2, <2>3, <2>4, <2>5 DEF RunNext
  <1> QED
    BY <1>1, <1>2 DEF Types, Modes

LEMMA QuietIsNotExecuting ==
    ASSUME Quiet(kargo), KargoOK(kargo, verified)
    PROVE  ~Executing
  BY DEF Quiet, Settled, KargoOK, Executing

\* While the mode is not changed, the workloads are never removed under a
\* Promotion or a verification, however many Freight are built, however often
\* the reconciler dies or an answer is lost.
THEOREM NeverTearsDown ==
    ASSUME MaxSwitches = 0
    PROVE  RunSpec => NoTeardownWhileExecuting
  <1>1. ASSUME Types, LeaseInv, FixedInv, [RunNext]_runVars, git.tree /\ ~git'.tree
        PROVE  ~Executing
    <2>1. mode = "ephemeral" /\ EphemeralInv /\ (TickProvision \/ TickClean)
      BY <1>1, TreeWriters
    <2>2. CASE TickProvision
      BY <1>1, <2>2, RunShape DEF TickProvision, GitType
    <2>3. CASE TickClean
      BY <1>1, <2>1, <2>3, TickCleans, QuietIsNotExecuting DEF EphemeralInv
    <2> QED
      BY <2>1, <2>2, <2>3
  <1>2. Types /\ LeaseInv /\ FixedInv /\ [RunNext]_runVars =>
          [git.tree /\ ~git'.tree => ~Executing]_runVars
    BY <1>1
  <1> QED
    BY <1>2, Fixed, PTL DEF RunSpec, NoTeardownWhileExecuting

\* ... and a release takes the capacity only when nothing is left of the one
\* before it.
THEOREM CapacityWhenGone ==
    ASSUME MaxSwitches = 0
    PROVE  RunSpec => CapacityIsFree
  <1>1. ASSUME Types, LeaseInv, FixedInv, [RunNext]_runVars, ~git.tree /\ git'.tree
        PROVE  argo = "absent"
    <2>1. mode = "ephemeral" /\ EphemeralInv /\ (TickProvision \/ TickClean)
      BY <1>1, TreeWriters
    <2>2. CASE TickProvision
      <3>1. tick.step = "act" /\ tick.run.phase = "provisioning"
        BY <2>2 DEF TickProvision
      <3>2. PhaseOK(tick.run, kargo, git.tree, argo)
        BY <2>1, <3>1 DEF EphemeralInv, RunInv, Leased
      <3> QED
        BY <1>1, <3>1, <3>2 DEF PhaseOK
    <2>3. CASE TickClean
      BY <1>1, <2>3, RunShape DEF TickClean, GitType
    <2> QED
      BY <2>1, <2>2, <2>3
  <1>2. Types /\ LeaseInv /\ FixedInv /\ [RunNext]_runVars =>
          [~lost /\ ~git.tree /\ git'.tree => argo = "absent"]_runVars
    BY <1>1
  <1> QED
    BY <1>2, Fixed, PTL DEF RunSpec, CapacityIsFree

\* ... and a Freight that has been verified never gets another run: the cursor
\* of the saved run is never behind what Kargo has promoted.
THEOREM ValidatesOnce ==
    ASSUME MaxSwitches = 0
    PROVE  RunSpec => NotValidatedAgain
  <1>1. ASSUME Types, LeaseInv, FixedInv, [RunNext]_runVars,
               saved.phase = "idle" /\ saved'.phase = "provisioning"
        PROVE  saved'.freight \notin verified
    <2>1. mode = "ephemeral"
      <3>1. FixedInv' /\ mode' = mode
        BY <1>1, FixedStep
      <3> QED
        BY <1>1, <3>1 DEF FixedInv, Persistent, NoRun, Types, Modes
    <2>2. EphemeralInv
      BY <1>1, <2>1 DEF FixedInv, EphemeralInv
    <2>3. saved' # saved
      BY <1>1
    <2>4. CASE TickSave
      <3>1. saved' = tick.run /\ tick.step = "save"
        BY <2>4 DEF TickSave
      <3>2. saved'.freight > saved.cursor
        BY <1>1, <2>2, <3>1 DEF EphemeralInv, TickInv
      <3>3. \A f \in verified : f <= kargo.freight
        BY <2>2 DEF EphemeralInv, KargoOK
      <3>4. kargo.freight <= saved.cursor
        BY <2>2 DEF EphemeralInv, RunInv, PhaseOK
      <3>5. saved'.freight \in Nat /\ saved.cursor \in Nat /\ kargo.freight \in Nat
        BY <1>1, <3>1, RunShape, BoundsAssumption
      <3> QED
        BY <3>2, <3>3, <3>4, <3>5
    <2>5. CASE Reconcile /\ ~TickSave
      BY <2>3, <2>5 DEF Reconcile, TickBegin, TickLease, TickObserve, TickList, TickNothing,
            TickDecide, TickProvision, TickPromote, TickClean, TickRelease, TickDie
    <2>6. ASSUME NEW u \in Updates, Request(u)
          PROVE  FALSE
      BY <1>1, <2>1, <2>2, <2>3, <2>6, RequestFixed DEF EphemeralInv, FixedInv
    <2>7. CASE Kargo
      BY <1>1, <2>3, <2>7, KargoPersistent
    <2>8. CASE ArgoSync \/ NewBuild \/ LeaseExpires \/ Elapse \/ UNCHANGED runVars
      BY <1>1, <2>2, <2>3, <2>8, OthersFixed
    <2> QED
      BY <1>1, <2>4, <2>5, <2>6, <2>7, <2>8 DEF RunNext
  <1>2. Types /\ LeaseInv /\ FixedInv /\ [RunNext]_runVars =>
          [saved.phase = "idle" /\ saved'.phase = "provisioning" => saved'.freight \notin verified]_runVars
    BY <1>1
  <1> QED
    BY <1>2, Fixed, PTL DEF RunSpec, NotValidatedAgain

-----------------------------------------------------------------------------
(* A mode that changes once, by requests that come one after the other.    *)

TickSteps  == {"idle", "lease", "observe", "list", "act", "save"}
Unfinished == {"lease", "save", "publish", "rollback"}
Removing   == {"cleaning", "deleting"}

\* The reconciler has not begun: Kargo schedules by itself.
NotBegun ==
    /\ saved = NoRun /\ git.auto /\ kargo.auto /\ git.tree /\ git.marker = "absent"
    /\ tick.step \notin {"list", "act"} /\ (tick.step \in Leased => tick.run = NoRun)

\* No release is under validation, and none will be.
Between ==
    /\ saved.phase \in {"idle", "unset"} /\ tick.step \notin {"list", "act"}
    /\ tick.step \in Leased => tick.run.phase \in {"idle", "unset"}

\* The mode is off and stays off.
ForGood(u) ==
    /\ mode = "persistent" /\ switches = 1
    /\ update[u].step \in Unfinished =>
          update[u].prev = "persistent" /\ update[u].next = "persistent"

\* What a request relies on: the mode is the one that it has loaded, or saved.
AskInv(u) ==
    /\ update[u].step \in {"lease", "save"} => update[u].prev = mode
    /\ update[u].step \in {"publish", "rollback"} => update[u].next = mode
    /\ update[u].step = "lease" => update[u].prev = "ephemeral"
    /\ switches = 0 /\ update[u].step \in Unfinished => update[u].prev = update[u].next
    /\ update[u].step \in {"save", "publish", "rollback"}
          /\ update[u].prev = "ephemeral" /\ update[u].next = "persistent" =>
             holder = u /\ saved.phase = "idle"
    /\ update[u].step \in {"save", "publish", "rollback"}
          /\ update[u].prev = "persistent" /\ update[u].next = "ephemeral" => NotBegun
    /\ update[u].step = "finish" /\ update[u].reset => git.tree

\* What the mode says of the run, and the marker of the files.
ModeInv(u) ==
    /\ switches = 0 /\ mode = "persistent" => NotBegun
    /\ mode = "persistent" => Between
    /\ (git.marker = "dormant" => ~git.tree) \/ ForGood(u)
    /\ git.marker = "active" => git.tree

\* The capacity is in use only with the files, or while a run removes it.
UseInv ==
    /\ ~git.tree /\ argo # "absent" =>
          saved.phase \in Removing /\ (tick.step \in Leased => tick.run.phase \in Removing)
    /\ tick.step \in {"observe", "list", "act"} => tick.run = saved

OnceInv(u) == AskInv(u) /\ ModeInv(u) /\ UseInv

LEMMA OnceInit ==
    ASSUME NEW u \in Updates, RunInit
    PROVE  OnceInv(u)
  <1>1. /\ update[u].step = "idle" /\ saved = NoRun /\ saved.phase = "unset" /\ tick.step = "idle"
        /\ argo = "absent" /\ mode \in Modes
        /\ git.marker = "absent" /\ git.tree = (mode = "persistent")
        /\ git.auto = (mode = "persistent") /\ kargo.auto = git.auto
    BY DEF RunInit, NoRun, NoTick, NoUpdate
  <1> QED
    BY <1>1 DEF OnceInv, AskInv, ModeInv, UseInv, NotBegun, Between, ForGood, Leased,
       Unfinished

\* Under a request's lease the reconciler changes nothing that is saved.
LEMMA RequestHolds ==
    ASSUME LeaseInv, NEW u \in Updates, holder = u, Reconcile
    PROVE  holder' = u /\ saved' = saved /\ git' = git
  <1>1. holder # "tick" /\ holder # "free" /\ tick.step \notin Leased
    BY RequestIsNobodyElse DEF LeaseInv
  <1>2. ~TickObserve /\ ~TickList /\ ~TickNothing /\ ~TickSave
    BY <1>1 DEF TickObserve, TickList, TickNothing, TickSave, Leased
  <1>3. ~TickDecide /\ ~TickProvision /\ ~TickPromote /\ ~TickClean /\ ~TickRelease
    <2>1. tick.step # "act"
      BY <1>1 DEF Leased
    <2> QED
      BY <2>1, Zenon DEF TickDecide, TickProvision, TickPromote, TickClean, TickRelease
  <1>4. TickBegin \/ TickLease \/ TickDie
    BY <1>2, <1>3 DEF Reconcile
  <1> QED
    BY <1>1, <1>4 DEF TickBegin, TickLease, TickDie, world, LeaseFree

\* The reconciler goes from step to step, and moves the run on at the end only.
LEMMA TickGoesOn ==
    ASSUME Types, Reconcile
    PROVE  /\ UNCHANGED <<mode, switches, update, argo>> /\ kargo'.auto = kargo.auto
           /\ git'.auto = git.auto
           /\ \/ tick'.step \in {"idle", "lease"} /\ git' = git
                 /\ \/ saved' = saved
                    \/ tick.step = "save" /\ saved' = tick.run
              \/ tick'.step = "observe" /\ tick'.run = saved /\ saved' = saved /\ git' = git
              \/ /\ tick.step = "observe" /\ tick'.step = "list" /\ tick'.run = tick.run
                 /\ saved' = saved /\ git' = git /\ mode = "ephemeral" /\ ~kargo.auto
              \/ /\ tick.step = "list" /\ tick'.step = "act" /\ tick'.run = tick.run
                 /\ saved' = saved /\ git' = git
              \/ /\ tick.step \in {"observe", "list", "act"} /\ tick'.step = "save"
                 /\ tick'.run = tick.run /\ saved' = saved /\ git' = git
              \/ /\ tick.step = "act" /\ tick'.step = "save" /\ saved' = saved
                 /\ \/ tick.run.phase \notin Removing /\ git' = git
                    \/ tick.run.phase = "deleting" /\ git' = git /\ argo = "absent"
                    \/ /\ tick.run.phase = "provisioning"
                       /\ git'.tree /\ git'.marker = "active"
                    \/ /\ tick.run.phase = "cleaning" /\ tick'.run.phase \in Removing
                       /\ ~git'.tree /\ git'.marker = "dormant"
  <1> USE RunShape DEF TickType, GitType, Removing
  <1>1. UNCHANGED <<mode, switches, update, argo>>
    BY ReconcileKeeps
  <1>2. CASE TickBegin \/ TickSave \/ TickDie
    <2>1. tick'.step \in {"idle", "lease"}
      BY <1>2 DEF TickBegin, TickSave, TickDie, NoTick
    <2> QED
      BY <1>1, <1>2, <2>1 DEF TickBegin, TickSave, TickDie, world
  <1>b. CASE TickLease
    <2>1. tick'.step = "idle" \/ (tick'.step = "observe" /\ tick'.run = saved)
      <3>1. CASE tick' = [tick EXCEPT !.step = "observe", !.run = saved]
        BY <3>1
      <3>2. CASE tick' = NoTick
        BY <3>2 DEF NoTick
      <3> QED
        BY <1>b, <3>1, <3>2 DEF TickLease
    <2> QED
      BY <1>1, <1>b, <2>1 DEF TickLease, world
  <1>3. CASE TickObserve
    <2> DEFINE f == tick.run.freight
               a == f # 0 /\ kargo.check[f] = "running"
               d == f # 0 /\ \/ kargo.last = f /\ kargo.lastFailed
                             \/ kargo.check[f] = "failed"
    <2>1. \/ /\ mode = "ephemeral" /\ ~kargo.auto
             /\ tick' = [tick EXCEPT !.step = "list", !.obs.current = kargo.current,
                                     !.obs.active = a, !.obs.failed = d]
          \/ tick' = [tick EXCEPT !.step = "save"]
      BY <1>3 DEF TickObserve
    <2> HIDE DEF a, d
    <2>2. /\ tick.step = "observe" /\ tick'.run = tick.run
          /\ tick'.step = "save" \/ (tick'.step = "list" /\ mode = "ephemeral" /\ ~kargo.auto)
      BY <1>3, <2>1 DEF TickObserve
    <2> QED
      BY <1>1, <1>3, <2>2 DEF TickObserve, world
  <1>4. CASE TickList
    <2>1. tick.step = "list" /\ tick'.step = "act" /\ tick'.run = tick.run
      BY <1>4 DEF TickList
    <2> QED
      BY <1>1, <1>4, <2>1 DEF TickList, world
  <1>5. CASE TickNothing
    BY <1>1, <1>5 DEF TickNothing, world
  <1>6. CASE TickDecide
    <2>1. tick.step = "act" /\ tick'.step = "save"
      BY <1>6 DEF TickDecide
    <2>2. tick.run.phase \notin Removing
      BY <1>6 DEF TickDecide, Decide, TimedOut
    <2> QED
      BY <1>1, <1>6, <2>1, <2>2 DEF TickDecide, world
  <1>7. CASE TickProvision \/ TickPromote
    <2>1. tick.step = "act" /\ tick'.step = "save"
      BY <1>7 DEF TickProvision, TickPromote, Proceed
    <2>2. kargo'.auto = kargo.auto
      BY <1>7 DEF TickProvision, TickPromote, KargoType
    <2> QED
      BY <1>1, <1>7, <2>1, <2>2 DEF TickProvision, TickPromote
  <1>8. CASE TickClean
    <2>1. tick.step = "act" /\ tick'.step = "save" /\ tick'.run.phase \in {"deleting", "cleaning"}
      BY <1>8 DEF TickClean, Proceed, RunStates
    <2> QED
      BY <1>1, <1>8, <2>1 DEF TickClean
  <1>9. CASE TickRelease
    <2>1. tick.step = "act" /\ tick'.step = "save"
      BY <1>9 DEF TickRelease
    <2> QED
      BY <1>1, <1>9, <2>1 DEF TickRelease, ApplicationsGone, world
  <1> QED
    BY <1>b, <1>2, <1>3, <1>4, <1>5, <1>6, <1>7, <1>8, <1>9 DEF Reconcile

LEMMA OnceReconciles ==
    ASSUME Types, LeaseInv, NEW u \in Updates, OnceInv(u), Reconcile
    PROVE  OnceInv(u)'
  <1> USE TickGoesOn DEF Leased, Removing
  <1>1. /\ mode' = mode /\ switches' = switches /\ update' = update
        /\ kargo'.auto = kargo.auto /\ git'.auto = git.auto
    OBVIOUS
  <1>2. NotBegun => NotBegun'
    BY DEF NotBegun
  <1>3. mode = "persistent" => Between'
    BY DEF OnceInv, ModeInv, UseInv, Between
  <1>4. UseInv'
    BY DEF OnceInv, UseInv
  <1>5. ModeInv(u)'
    <2>1. (git.marker = "dormant" => ~git.tree) => (git'.marker = "dormant" => ~git'.tree)
      OBVIOUS
    <2>2. ForGood(u) => ForGood(u)'
      BY <1>1 DEF ForGood
    <2>3. (git.marker = "active" => git.tree) => (git'.marker = "active" => git'.tree)
      OBVIOUS
    <2> QED
      BY <1>1, <1>2, <1>3, <2>1, <2>2, <2>3 DEF OnceInv, ModeInv
  <1>6. AskInv(u)'
    <2>1. holder = u => holder' = u /\ saved' = saved /\ git' = git
      BY RequestHolds
    <2>2. update[u].step = "finish" => holder = u
      BY DEF LeaseInv
    <2> QED
      BY <1>1, <1>2, <2>1, <2>2 DEF OnceInv, AskInv
  <1> QED
    BY <1>4, <1>5, <1>6 DEF OnceInv


LEMMA OnceRequests ==
    ASSUME MaxSwitches <= 1, Types, Types', LeaseInv, NEW u \in Updates, OnceInv(u), Request(u),
           ~lost'
    PROVE  OnceInv(u)'
  <1>11. lost' = (lost \/ Switching(u)) => ~Switching(u)
    OBVIOUS
  <1>1. /\ update \in [Updates -> RequestType] /\ update[u] \in RequestType
        /\ mode \in Modes /\ git \in GitType /\ tick.step \in TickSteps
        /\ switches \in 0..MaxSwitches /\ switches' \in 0..MaxSwitches /\ MaxSwitches \in Nat
    BY BoundsAssumption DEF Types, TickType, TickSteps
  <1>2. UNCHANGED <<kargo, argo, tick>>
    BY DEF Request, UpdateLoad, UpdateLease, UpdateSave, UpdatePublish, UpdateRollback,
       UpdateFinish, UpdateDie, world
  <1>3. switches \in {0, 1} /\ switches' \in {0, 1}
    BY <1>1
  <1>4. u # "free" /\ u # "tick" /\ u # "dead"
    BY RequestIsNobodyElse
  <1>5. holder = u => tick.step \notin Leased
    BY <1>4 DEF LeaseInv
  <1>6. ASSUME NEW next \in Modes, UpdateLoad(u, next)
        PROVE  OnceInv(u)'
    <2>1. /\ UNCHANGED <<mode, git, saved>> /\ update[u].step = "idle"
          /\ next # mode => switches = 0 /\ switches' = 1
          /\ next = mode => switches' = switches
      BY <1>1, <1>3, <1>6 DEF UpdateLoad, world
    <2>2. /\ update'[u].step = IF mode = "ephemeral" THEN "lease" ELSE "save"
          /\ update'[u].prev = mode /\ update'[u].next = next
      BY <1>1, <1>6 DEF UpdateLoad
    <2>3. NotBegun => NotBegun'
      BY <1>2, <2>1 DEF NotBegun
    <2>4. AskInv(u)'
      BY <1>1, <2>1, <2>2, <2>3 DEF OnceInv, ModeInv, AskInv, Unfinished, Modes
    <2>5. (git.marker = "dormant" => ~git.tree) \/ ForGood(u)'
      BY <2>1, <2>2 DEF OnceInv, ModeInv, ForGood
    <2>6. ModeInv(u)' /\ UseInv'
      BY <1>2, <1>3, <2>1, <2>3, <2>5 DEF OnceInv, ModeInv, UseInv, Between
    <2> QED
      BY <2>4, <2>6 DEF OnceInv
  <1>7. CASE UpdateLease(u)
    <2>1. UNCHANGED <<mode, git, saved, switches>> /\ update[u].step = "lease"
      BY <1>7 DEF UpdateLease, world
    <2>2. /\ update'[u].prev = update[u].prev /\ update'[u].next = update[u].next
          /\ \/ update'[u].step = "idle"
             \/ update'[u].step = "save" /\ holder' = u
                    /\ (update[u].next # update[u].prev => saved.phase = "idle")
      BY <1>1, <1>7 DEF UpdateLease, Step, RequestType, MayUpdate, Switching
    <2>3. AskInv(u)'
      BY <2>1, <2>2 DEF OnceInv, AskInv, Unfinished
    <2>4. ModeInv(u)' /\ UseInv'
      BY <1>2, <2>1, <2>2 DEF OnceInv, ModeInv, UseInv, NotBegun, Between, ForGood,
         Unfinished
    <2> QED
      BY <2>3, <2>4 DEF OnceInv
  <1>8. CASE UpdateSave(u)
    <2>1. /\ UNCHANGED <<git, saved, holder, switches>> /\ update[u].step = "save"
          /\ mode' = update[u].next
      BY <1>8 DEF UpdateSave
    <2>2. /\ update'[u].prev = update[u].prev /\ update'[u].next = update[u].next
          /\ update'[u].step = "publish"
      BY <1>1, <1>8 DEF UpdateSave, Step, RequestType
    <2>3. update[u].prev = mode /\ update[u].prev \in Modes /\ update[u].next \in Modes
      BY <1>1, <2>1 DEF OnceInv, AskInv, RequestType
    <2>4. NotBegun => NotBegun'
      BY <1>2, <2>1 DEF NotBegun
    <2>5. AskInv(u)'
      BY <2>1, <2>2, <2>4 DEF OnceInv, AskInv, Unfinished
    <2>6. mode' = "persistent" => Between'
      <3>1. CASE mode = "ephemeral" /\ mode' = "persistent"
        BY <1>2, <1>5, <2>1, <2>3, <3>1 DEF OnceInv, AskInv, Between, Leased
      <3>2. CASE mode = "persistent"
        BY <1>2, <2>1, <3>2 DEF OnceInv, ModeInv, Between
      <3> QED
        BY <1>1, <3>1, <3>2 DEF Modes
    <2>7. ModeInv(u)' /\ UseInv'
      BY <1>2, <2>1, <2>2, <2>3, <2>4, <2>6
         DEF OnceInv, AskInv, ModeInv, UseInv, ForGood, Unfinished
    <2> QED
      BY <2>5, <2>7 DEF OnceInv
  <1>9. CASE UpdatePublish(u)
    <2>1. /\ UNCHANGED <<mode, saved, holder, switches>> /\ update[u].step = "publish"
          /\ update[u].prev \in Modes /\ update[u].next \in Modes /\ update[u].next = mode
      BY <1>1, <1>9 DEF UpdatePublish, OnceInv, AskInv, RequestType
    <2>2. /\ update'[u].step \in {"finish", "idle", "rollback"}
          /\ update'[u].prev = update[u].prev /\ update'[u].next = update[u].next
      BY <1>1, <1>9 DEF UpdatePublish, AfterPublish, Step, RequestType
    <2>3. update[u].prev = "persistent" /\ mode = "ephemeral" => NotBegun
      BY <2>1 DEF OnceInv, AskInv
    <2>4. CASE /\ PublishApp(u)
               /\ AfterPublish(u, Switching(u)) \/ (Step(u, "rollback") /\ ~Switching(u))
      <3>1. PICK dormant \in BOOLEAN : dormant = Dormant
        BY DEF Dormant
      <3>2. /\ git'.marker = git.marker /\ git'.auto = (mode = "persistent")
            /\ git'.tree = ~(mode = "ephemeral" /\ dormant)
        BY <1>1, <2>1, <2>4, <3>1 DEF PublishApp, GitType
      <3>3. dormant = (git.marker = "dormant" \/ (git.marker = "absent" /\ ~git.tree))
        BY <3>1 DEF Dormant
      <3> DEFINE Kept ==
              update'[u].step = "rollback" => update[u].prev = mode /\ update[u].next = mode
      <3>4. ASSUME AfterPublish(u, Switching(u))
            PROVE  AskInv(u)' /\ Kept
        <4>1. update'[u].step # "rollback"
              /\ (update'[u].reset => update[u].next # update[u].prev)
          BY <1>1, <3>4 DEF AfterPublish, RequestType, Switching
        <4>2. AskInv(u)'
          BY <2>1, <2>2, <2>3, <3>2, <3>3, <4>1 DEF AskInv, NotBegun, Modes, Unfinished
        <4> QED
          BY <2>1, <2>2, <4>1, <4>2
      <3>5. ASSUME Step(u, "rollback"), ~Switching(u)
            PROVE  AskInv(u)' /\ Kept
        <4>1. update'[u].step = "rollback" /\ update[u].prev = mode
          BY <1>1, <2>1, <3>5 DEF Step, RequestType, Switching
        <4>2. AskInv(u)'
          BY <2>1, <2>2, <4>1 DEF AskInv, Unfinished
        <4> QED
          BY <2>1, <4>1, <4>2
      <3>6. AskInv(u)' /\ Kept
        BY <2>4, <3>4, <3>5
      <3>7. mode = "ephemeral" => (git.marker = "dormant" => ~git.tree)
        BY <2>1 DEF OnceInv, ModeInv, ForGood
      <3>8. git'.tree = FALSE => git.tree = FALSE
        BY <1>1, <2>1, <3>2, <3>3, <3>7 DEF GitType, Modes
      <3>9. UseInv'
        BY <1>1, <1>2, <2>1, <3>2, <3>8 DEF OnceInv, UseInv, GitType
      <3>10. (git'.marker = "dormant" => ~git'.tree) \/ ForGood(u)'
        <4>1. CASE mode = "ephemeral"
          BY <3>2, <3>3, <4>1
        <4>2. CASE mode = "persistent" /\ switches = 0
          BY <3>2, <4>2 DEF OnceInv, ModeInv, NotBegun
        <4>3. CASE mode = "persistent" /\ switches = 1
          BY <2>1, <2>2, <3>6, <4>3 DEF ForGood, Unfinished
        <4> QED
          BY <1>1, <1>3, <4>1, <4>2, <4>3 DEF Modes
      <3>11. ModeInv(u)'
        <4>1. mode' = mode /\ saved' = saved /\ tick' = tick /\ kargo' = kargo /\ switches' = switches
          BY <1>2, <2>1
        <4>2. git'.marker = "active" => git'.tree
          BY <3>2, <3>3
        <4>3. switches = 0 /\ mode = "persistent" => NotBegun'
          BY <3>2, <4>1 DEF OnceInv, ModeInv, NotBegun
        <4> QED
          BY <3>10, <4>1, <4>2, <4>3 DEF OnceInv, ModeInv, Between
      <3> QED
        BY <3>6, <3>9, <3>11 DEF OnceInv
    <2>5. CASE Step(u, "rollback") /\ UNCHANGED git
      <3>1. update'[u].step = "rollback"
        BY <1>1, <2>5 DEF Step, RequestType
      <3>2. NotBegun => NotBegun'
        BY <1>2, <2>1, <2>5 DEF NotBegun
      <3>3. AskInv(u)'
        BY <2>1, <2>2, <3>1, <3>2 DEF OnceInv, AskInv, Unfinished
      <3>4. ForGood(u) => ForGood(u)'
        BY <2>1, <2>2, <3>1 DEF ForGood, Unfinished
      <3>5. ModeInv(u)' /\ UseInv'
        BY <1>2, <2>1, <2>5, <3>2, <3>4 DEF OnceInv, ModeInv, UseInv, Between
      <3> QED
        BY <3>3, <3>5 DEF OnceInv
    <2> QED
      BY <1>9, <1>11, <2>4, <2>5 DEF UpdatePublish
  <1>12. CASE UpdateRollback(u)
    <2>1. /\ UNCHANGED <<git, saved, switches>> /\ update[u].step = "rollback"
          /\ mode' = update[u].prev /\ update[u].next = mode
          /\ update[u].prev \in Modes /\ update[u].next \in Modes
      BY <1>1, <1>12 DEF UpdateRollback, OnceInv, AskInv, RequestType
    <2>2. update'[u].step \in {"finish", "idle"} /\ ~update'[u].reset
      BY <1>1, <1>12 DEF UpdateRollback, AfterPublish, RequestType
    <2>3. update[u].prev = "persistent" /\ mode = "ephemeral" => NotBegun
      BY <2>1 DEF OnceInv, AskInv
    <2>4. AskInv(u)'
      BY <2>2 DEF AskInv, Unfinished
    <2>5. switches = 0 => mode' = mode
      BY <2>1 DEF OnceInv, AskInv, Unfinished
    <2>6. mode' = "persistent" => Between'
      BY <1>1, <1>2, <2>1, <2>3 DEF OnceInv, ModeInv, Between, NotBegun, NoRun, Modes
    <2>7. NotBegun => NotBegun'
      BY <1>2, <2>1 DEF NotBegun
    <2>8. ForGood(u) => ForGood(u)'
      BY <2>1, <2>2 DEF ForGood, Unfinished
    <2>9. ModeInv(u)' /\ UseInv'
      BY <1>2, <2>1, <2>5, <2>6, <2>7, <2>8 DEF OnceInv, ModeInv, UseInv
    <2> QED
      BY <2>4, <2>9 DEF OnceInv
  <1>10. CASE UpdateFinish(u) \/ UpdateDie(u)
    <2>1. /\ UNCHANGED <<mode, git, switches>> /\ update'[u].step = "idle"
          /\ \/ saved' = saved
             \/ saved' = NoRun /\ update[u].step = "finish" /\ update[u].reset
      BY <1>1, <1>10 DEF UpdateFinish, UpdateDie, NoUpdate, world
    <2>2. saved' # saved => git.tree /\ tick.step \notin Leased
      BY <1>5, <2>1 DEF OnceInv, AskInv, LeaseInv
    <2>3. AskInv(u)'
      BY <2>1 DEF AskInv, Unfinished
    <2>4. NotBegun => NotBegun'
      BY <1>2, <2>1 DEF NotBegun
    <2>5. Between => Between'
      BY <1>2, <2>1 DEF Between, NoRun
    <2>6. ForGood(u) => ForGood(u)'
      BY <2>1 DEF ForGood, Unfinished
    <2>7. UseInv'
      BY <1>2, <2>1, <2>2 DEF OnceInv, UseInv, Leased
    <2>8. ModeInv(u)'
      BY <2>1, <2>4, <2>5, <2>6 DEF OnceInv, ModeInv
    <2> QED
      BY <2>3, <2>7, <2>8 DEF OnceInv
  <1> QED
    BY <1>6, <1>7, <1>8, <1>9, <1>10, <1>12 DEF Request

LEMMA OnceOthers ==
    ASSUME Types, NEW u \in Updates, OnceInv(u),
           \/ Kargo \/ ArgoSync \/ NewBuild \/ LeaseExpires \/ Elapse \/ UNCHANGED runVars
    PROVE  OnceInv(u)'
  <1>1. git \in GitType /\ kargo \in KargoType /\ tick.step \in TickSteps
    BY DEF Types, TickType, TickSteps
  <1>2. UNCHANGED <<mode, saved, tick, update, switches>>
    BY DEF Kargo, KargoHandoff, KargoAutoPromote, KargoSucceed, KargoFail, KargoRecord,
       KargoVerify,
           KargoVerified, KargoOnly, ArgoSync, NewBuild, LeaseExpires, Elapse, runVars, world
  <1>3. holder = u => holder' = u
    BY RequestIsNobodyElse
       DEF Kargo, KargoHandoff, KargoAutoPromote, KargoSucceed, KargoFail, KargoRecord, KargoVerify,
           KargoVerified, KargoOnly, ArgoSync, NewBuild, LeaseExpires, Elapse, runVars, world
  <1>4. git'.tree = git.tree /\ git'.marker = git.marker /\ git'.auto = git.auto
    BY <1>1 DEF Kargo, KargoHandoff, KargoAutoPromote, KargoSucceed, KargoFail, KargoRecord,
       KargoVerify,
           KargoVerified, KargoOnly, ArgoSync, NewBuild, LeaseExpires, Elapse, runVars, world, GitType
  <1>5. kargo'.auto = kargo.auto \/ kargo'.auto = git.auto
    BY <1>1 DEF Kargo, KargoHandoff, KargoAutoPromote, KargoSucceed, KargoFail, KargoRecord,
       KargoVerify,
           KargoVerified, KargoOnly, ArgoSync, NewBuild, LeaseExpires, Elapse, runVars, world, KargoType
  <1>6. ~git.tree /\ argo' # "absent" => argo # "absent"
    BY DEF Kargo, KargoHandoff, KargoAutoPromote, KargoSucceed, KargoFail, KargoRecord,
       KargoVerify,
           KargoVerified, KargoOnly, ArgoSync, NewBuild, LeaseExpires, Elapse, runVars, world
  <1>7. NotBegun => NotBegun'
    BY <1>2, <1>4, <1>5 DEF NotBegun
  <1>8. AskInv(u)'
    BY <1>2, <1>3, <1>4, <1>7 DEF OnceInv, AskInv
  <1>9. ModeInv(u)'
    BY <1>2, <1>4, <1>7 DEF OnceInv, ModeInv, Between, ForGood
  <1>10. UseInv'
    BY <1>2, <1>4, <1>6 DEF OnceInv, UseInv
  <1> QED
    BY <1>8, <1>9, <1>10 DEF OnceInv

\* One request after the other, which change the mode once at most.  What is proved of
\* them holds until a switch is rolled back that Git has (lost).
OneChange(u) == Updates = {u} /\ MaxSwitches <= 1

\* A push that seemed to fail is not forgotten.
LEMMA LostStays ==
    ASSUME [RunNext]_runVars, lost
    PROVE  lost'
  <1>1. ASSUME NEW u \in Updates, Request(u)
        PROVE  lost'
    BY <1>1 DEF Request, UpdateLoad, UpdateLease, UpdateSave, UpdatePublish, UpdateRollback,
       UpdateFinish, UpdateDie
  <1>2. CASE TickBegin \/ TickLease \/ TickList \/ TickNothing \/ TickRelease \/ TickSave \/ TickDie
    BY <1>2 DEF TickBegin, TickLease, TickList, TickNothing, TickRelease, TickSave, TickDie
  <1>3. CASE TickObserve \/ TickDecide
    BY <1>3, Zenon DEF TickObserve, TickDecide
  <1>4. CASE TickProvision \/ TickPromote \/ TickClean
    BY <1>4 DEF TickProvision, TickPromote, TickClean
  <1>5. CASE Kargo \/ ArgoSync \/ NewBuild \/ LeaseExpires \/ Elapse \/ UNCHANGED runVars
    BY <1>5 DEF Kargo, KargoHandoff, KargoAutoPromote, KargoSucceed, KargoFail, KargoRecord,
       KargoVerify, KargoVerified, KargoOnly, ArgoSync, NewBuild, LeaseExpires, Elapse, runVars
  <1> QED
    BY <1>1, <1>2, <1>3, <1>4, <1>5 DEF RunNext, Reconcile

LEMMA Once ==
    ASSUME NEW one, OneChange(one)
    PROVE  RunSpec => [](Types /\ LeaseInv /\ (lost \/ OnceInv(one)))
  <1>1. one \in Updates /\ \A v \in Updates : v = one
    BY DEF OneChange
  <1>2. RunInit => OnceInv(one)
    BY <1>1, OnceInit
  <1>3. Types /\ Types' /\ LeaseInv /\ (lost \/ OnceInv(one)) /\ [RunNext]_runVars =>
          (lost' \/ OnceInv(one)')
    <2>1. ASSUME Types, Types', LeaseInv, OnceInv(one), NEW v \in Updates, Request(v), ~lost'
          PROVE  OnceInv(one)'
      BY <1>1, <2>1, OnceRequests DEF OneChange
    <2> QED
      BY <1>1, <2>1, LostStays, OnceReconciles, OnceOthers DEF RunNext
  <1> QED
    BY <1>2, <1>3, TypeInit, LeaseInit, TypesStep, LeaseStep, PTL DEF RunSpec

\* When the mode is turned off, no release is under validation: the request has waited
\* for it, or takes back a change that the reconciler has not acted on.
THEOREM SwitchesBetweenRuns ==
    ASSUME NEW one, OneChange(one)
    PROVE  RunSpec => SwitchesWhenIdle
  <1>1. ASSUME lost' \/ OnceInv(one)', ~lost', Types', mode = "ephemeral", mode' # mode
        PROVE  Between'
    BY <1>1 DEF OnceInv, ModeInv, Types, Modes
  <1>2. ASSUME lost' \/ OnceInv(one)', Types', [RunNext]_runVars,
               ~lost, mode = "ephemeral", mode' # mode
        PROVE  saved.phase \in {"idle", "unset"}
    <2>1. ~Reconcile
      BY <1>2, ReconcileKeeps
    <2>2. PICK v \in Updates : Request(v)
      BY <1>2, <2>1 DEF RunNext, Kargo, KargoHandoff, KargoAutoPromote, KargoSucceed,
         KargoFail,
            KargoRecord, KargoVerify, KargoVerified, KargoOnly, ArgoSync, NewBuild, LeaseExpires,
            Elapse, runVars, world
    <2>3. UpdateSave(v) \/ UpdateRollback(v)
      BY <1>2, <2>2 DEF Request, UpdateLoad, UpdateLease, UpdatePublish, UpdateFinish,
         UpdateDie, world
    <2>4. saved' = saved /\ lost' = lost
      BY <2>3 DEF UpdateSave, UpdateRollback
    <2> QED
      BY <1>1, <1>2, <2>4 DEF Between
  <1>3. Types' /\ (lost \/ OnceInv(one))' /\ [RunNext]_runVars =>
          [~lost /\ mode = "ephemeral" /\ mode' # mode =>
              saved.phase \in {"idle", "unset"}]_runVars
    BY <1>2
  <1>4. RunSpec => [](Types /\ LeaseInv /\ (lost \/ OnceInv(one)))
    BY Once
  <1> QED
    BY <1>3, <1>4, PTL DEF RunSpec, SwitchesWhenIdle

\* A publication that turns the mode on, or that fails, leaves the workloads where they are.
THEOREM EnablingKeeps ==
    ASSUME NEW one, OneChange(one)
    PROVE  RunSpec => EnablingKeepsWorkloads
  <1>1. ASSUME Types, OnceInv(one), [RunNext]_runVars, NEW u \in Updates,
               update[u].step = "publish", update'[u].step # "publish", git.tree
        PROVE  git'.tree
    <2>1. u = one /\ git \in GitType /\ update[u].next = mode
      BY <1>1 DEF OneChange, Types, OnceInv, AskInv
    <2>2. ~Reconcile
      BY <1>1, ReconcileKeeps
    <2>3. Request(u)
      BY <1>1, <2>1, <2>2
         DEF OneChange, RunNext, Kargo, KargoHandoff, KargoAutoPromote, KargoSucceed, KargoFail,
             KargoRecord, KargoVerify, KargoVerified, KargoOnly, ArgoSync, NewBuild, LeaseExpires,
             Elapse, runVars, world
    <2>4. UpdatePublish(u) \/ UpdateDie(u)
      BY <1>1, <2>1, <2>3 DEF Request, UpdateLoad, UpdateLease, UpdateSave, UpdateRollback,
         UpdateFinish
    <2>5. CASE UpdateDie(u)
      BY <1>1, <2>5 DEF UpdateDie, world
    <2>6. CASE UpdatePublish(u)
      <3>1. mode = "ephemeral" => ~Dormant
        BY <1>1, <2>1 DEF OnceInv, ModeInv, ForGood, Dormant
      <3> QED
        BY <1>1, <2>1, <2>6, <3>1 DEF UpdatePublish, PublishApp, GitType
    <2> QED
      BY <2>4, <2>5, <2>6
  <1>2. Types /\ (lost \/ OnceInv(one)) /\ [RunNext]_runVars =>
          [\A u \in Updates : ~lost /\ update[u].step = "publish" /\ update'[u].step # "publish" =>
              (git.tree => git'.tree)]_runVars
    BY <1>1, Zenon
  <1>3. RunSpec => [](Types /\ LeaseInv /\ (lost \/ OnceInv(one)))
    BY Once
  <1> QED
    BY <1>2, <1>3, PTL DEF RunSpec, EnablingKeepsWorkloads

\* Over a change of the mode, too, the environment gets its files only when nothing is
\* left of the release before.
THEOREM CapacityWhenSwitched ==
    ASSUME NEW one, OneChange(one)
    PROVE  RunSpec => CapacityIsFree
  <1>1. ASSUME Types, LeaseInv, OnceInv(one), [RunNext]_runVars, ~git.tree, git'.tree
        PROVE  argo = "absent"
    <2>1. git \in GitType /\ git' # git
      BY <1>1 DEF Types
    <2>2. CASE Reconcile
      <3>1. tick.step = "act" /\ tick.run.phase = "provisioning"
        BY <1>1, <2>2, TickGoesOn
      <3> QED
        BY <1>1, <3>1 DEF OnceInv, UseInv, Leased, Removing
    <2>3. CASE Request(one)
      <3>1. UpdatePublish(one)
        BY <2>1, <2>3 DEF Request, UpdateLoad, UpdateLease, UpdateSave, UpdateRollback,
           UpdateFinish, UpdateDie, world
      <3>2. /\ update[one].step = "publish" /\ update[one].next = mode /\ mode \in Modes
            /\ update[one].prev \in Modes
        BY <1>1, <3>1 DEF OneChange, UpdatePublish, OnceInv, AskInv, Types, RequestType
      <3>3. mode = "persistent"
        <4>1. CASE mode = "ephemeral"
          <5>1. Dormant
            BY <1>1, <2>1 DEF OnceInv, ModeInv, Dormant, GitType
          <5> QED
            BY <1>1, <2>1, <3>1, <3>2, <4>1, <5>1 DEF UpdatePublish, PublishApp, GitType
        <4> QED
          BY <3>2, <4>1 DEF Modes
      <3> QED
        BY <1>1, <3>3 DEF OnceInv, ModeInv, UseInv, Between, Removing
    <2>4. ~(ArgoSync \/ NewBuild \/ LeaseExpires \/ Elapse \/ UNCHANGED runVars)
      BY <2>1 DEF ArgoSync, NewBuild, LeaseExpires, Elapse, runVars, world
    <2>5. ~Kargo
      BY <1>1, <2>1 DEF Kargo, KargoHandoff, KargoAutoPromote, KargoSucceed, KargoFail,
         KargoRecord,
            KargoVerify, KargoVerified, KargoOnly, GitType
    <2> QED
      BY <1>1, <2>2, <2>3, <2>4, <2>5 DEF RunNext, OneChange
  <1>2. Types /\ LeaseInv /\ (lost \/ OnceInv(one)) /\ [RunNext]_runVars =>
          [~lost /\ ~git.tree /\ git'.tree => argo = "absent"]_runVars
    BY <1>1
  <1>3. RunSpec => [](Types /\ LeaseInv /\ (lost \/ OnceInv(one)))
    BY Once
  <1> QED
    BY <1>2, <1>3, PTL DEF RunSpec, CapacityIsFree
=============================================================================
