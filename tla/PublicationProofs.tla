------------------------- MODULE PublicationProofs --------------------------
(***************************************************************************)
(* What is published to Git, for any number of replicas, tasks, apps, clusters, *)
(* requests and faults.                                                    *)
(*                                                                         *)
(* GitPublisher implements AtomicRepo: its inductive invariant says who is at *)
(* work in a clone and what the clone then holds; a push that the origin   *)
(* accepts therefore appends the rendering of one publication to the head of *)
(* the branch.                                                             *)
(*                                                                         *)
(* Configuration (second part): what is published of an app, once the     *)
(* goroutines are done, is what it is configured with.  Its invariant says of *)
(* every app that is saved or deleted that Git shows it, that a goroutine is *)
(* about to make Git show it, or that it is owed; and of a goroutine, that what *)
(* it has read of an app is what is saved, unless the app was edited since. *)
(***************************************************************************)
EXTENDS GitPublisher, Configuration, SequenceTheorems, FiniteSetTheorems, TLAPS

AtWork == {"write", "commit", "push"}

\* Two tasks at work are in different clones.
LEMMA Exclusive ==
    ASSUME LockInv, NEW t \in Tasks, NEW u \in Tasks, t # u,
           task[t].step \in Holding, task[u].step \in Holding
    PROVE  task[t].at # task[u].at
BY DEF LockInv

\* The last commit of the branch is a commit.
LEMMA TipIsContent ==
    ASSUME TypeOK
    PROVE  /\ Tip \in Contents /\ Len(history) \in 1..MaxCommits
           /\ \A n \in 1..Len(history) : history[n] \in Contents
BY BoundAssumption DEF TypeOK, Tip

\* A file that is written is a file, and what a task renders is a content.
LEMMA RewrittenIsFile ==
    ASSUME NEW old \in [version : Versions, tag : Tags], NEW v \in Versions
    PROVE  Rewritten(old, v) \in [version : Versions, tag : Tags]
BY TagsAssumption DEF Rewritten, KeptTag

LEMMA RenderedIsContent ==
    ASSUME NEW w, w.job \in Jobs, NEW c \in Contents
    PROVE  Rendered(c, w) \in Contents
<1>1. \A f \in DOMAIN w.job : w.job[f] \in Versions
  BY JobsAssumption
<1> QED BY <1>1, RewrittenIsFile DEF Rendered, Contents

\* What holds of a clone still holds when the branch has grown.
LEMMA BranchGrows ==
    ASSUME TypeOK, NEW w, NEW c \in Clones, NEW x, RendersFrom(w, c, history)
    PROVE  RendersFrom(w, c, Append(history, x))
<1>1. c.base \in 1..Len(history)
  BY TipIsContent DEF RendersFrom, Clones
<1>2. /\ Append(history, x)[c.base] = history[c.base]
      /\ Len(Append(history, x)) = Len(history) + 1
  BY <1>1 DEF TypeOK
<1> QED BY <1>1, <1>2, TipIsContent DEF RendersFrom

\* What the other tasks at work see of a step: nothing but a longer branch.
LEMMA OthersUnchanged ==
    ASSUME TypeOK, LockInv, CloneInv, NEW u \in Tasks,
           task[u].step \in AtWork, task'[u] = task[u],
           clone'[task[u].at] = clone[task[u].at],
           history' = history \/ \E x : history' = Append(history, x)
    PROVE  RendersFrom(task'[u], Here(u)', history')
<1>1. RendersFrom(task[u], Here(u), history) /\ Here(u)' = Here(u)
  BY DEF CloneInv, AtWork, Here
<1>2. Here(u) \in Clones
  BY DEF TypeOK, LockInv, AtWork, Here
<1>3. CASE history' = history
  BY <1>1, <1>3
<1>4. CASE \E x : history' = Append(history, x)
  BY <1>1, <1>2, <1>4, BranchGrows
<1> QED BY <1>3, <1>4

\* A task that returns keeps the invariant, if it only touches its own clone.
LEMMA Returning ==
    ASSUME IInv, NEW t \in Tasks, NEW ok \in BOOLEAN, task[t].step \in Holding,
           Return(t, ok),
           history' = history \/ \E x : history' = Append(history, x),
           history' \in Seq(Contents), Len(history') \in 1..MaxCommits,
           clone' \in [Replicas -> Clones],
           \A m \in Replicas : m # task[t].at => clone'[m] = clone[m]
    PROVE  IInv'
<1> USE DEF IInv
<1>1. TypeOK'
  BY DEF TypeOK, Works, Return, Idle, Steps, LockInv, Holding
<1>2. LockInv'
  <2>1. \A u \in Tasks : task'[u] = IF u = t THEN [Idle EXCEPT !.ok = ok] ELSE task[u]
    BY DEF Return, TypeOK
  <2>2. \A m \in Replicas : lock'[m] = IF m = task[t].at THEN Nobody ELSE lock[m]
    BY DEF Return, TypeOK
  <2>3. task'[t].step = "idle"
    BY <2>1 DEF Idle
  <2>4. \A u \in Tasks : u # t /\ task[u].step \in Holding => task[u].at # task[t].at
    BY Exclusive
  <2>5. \A u \in Tasks : task'[u].step # "idle" =>
          task'[u].at \in Replicas /\ task'[u].job \in Jobs
    BY <2>1, <2>3 DEF LockInv
  <2>6. ASSUME NEW u \in Tasks, task'[u].step \in Holding
        PROVE  lock'[task'[u].at] = u
    <3>1. u # t /\ task'[u] = task[u]
      BY <2>1, <2>3, <2>6 DEF Holding
    <3> QED BY <3>1, <2>2, <2>4, <2>6 DEF LockInv, Holding
  <2>7. ASSUME NEW m \in Replicas, lock'[m] # Nobody
        PROVE  task'[lock'[m]].step \in Holding /\ task'[lock'[m]].at = m
    <3>1. m # task[t].at /\ lock'[m] = lock[m] /\ lock[m] \in Tasks
      BY <2>2, <2>7 DEF TypeOK
    <3>2. lock[m] # t
      BY <3>1, <2>7 DEF LockInv
    <3> QED BY <3>1, <3>2, <2>1, <2>7 DEF LockInv
  <2> QED BY <2>5, <2>6, <2>7 DEF LockInv
<1>3. CloneInv'
  <2> SUFFICES ASSUME NEW u \in Tasks, task'[u].step \in AtWork
               PROVE  RendersFrom(task'[u], Here(u)', history')
    BY DEF CloneInv, AtWork
  <2>1. u # t /\ task'[u] = task[u]
    BY DEF Return, TypeOK, AtWork, Idle
  <2>2. task[u].at # task[t].at /\ task[u].at \in Replicas
    BY <2>1, Exclusive DEF AtWork, Holding, LockInv
  <2> QED BY <2>1, <2>2, OthersUnchanged
<1> QED BY <1>1, <1>2, <1>3

\* The initial states satisfy the invariant.
LEMMA InitIInv == Init => IInv
<1> SUFFICES ASSUME Init PROVE IInv
  OBVIOUS
<1> USE DEF Init
<1>1. history \in Seq(Contents) /\ Len(history) = 1 /\ Tip \in Contents
  BY FirstAssumption DEF Tip
<1>2. TypeOK
  BY <1>1, BoundAssumption DEF TypeOK, Works, Clones, Idle, Steps
<1>3. LockInv /\ CloneInv
  BY NobodyAssumption DEF LockInv, CloneInv, Idle, Holding
<1> QED BY <1>2, <1>3 DEF IInv

\* A task that goes on, under its lock or waiting for it, keeps its lock.
LEMMA KeepsLock ==
    ASSUME TypeOK, LockInv, NEW t \in Tasks, task[t].step # "idle",
           \A u \in Tasks \ {t} : task'[u] = task[u],
           task'[t].at = task[t].at, task'[t].job = task[t].job,
           task[t].step \in Holding, task'[t].step \in Holding, lock' = lock
    PROVE  LockInv'
BY DEF LockInv, TypeOK, Works

\* What a step of task t does to the other clones and tasks does not concern them.
LEMMA OthersKeepClones ==
    ASSUME IInv, NEW t \in Tasks,
           \A u \in Tasks \ {t} : task'[u] = task[u],
           \/ clone' = clone
           \/ /\ task[t].step \in Holding
              /\ \A m \in Replicas : m # task[t].at => clone'[m] = clone[m],
           history' = history,
           task'[t].step \in AtWork => RendersFrom(task'[t], Here(t)', history')
    PROVE  CloneInv'
<1> SUFFICES ASSUME NEW u \in Tasks, u # t, task'[u].step \in AtWork
             PROVE  RendersFrom(task'[u], Here(u)', history')
  BY DEF CloneInv, AtWork
<1>1. task'[u] = task[u] /\ task[u].at \in Replicas /\ task[u].step \in Holding
  BY DEF IInv, LockInv, AtWork, Holding
<1>2. clone'[task[u].at] = clone[task[u].at]
  BY <1>1, Exclusive DEF IInv
<1> QED BY <1>1, <1>2, OthersUnchanged DEF IInv

LEMMA BeginIInv ==
    ASSUME IInv, NEW t \in Tasks, NEW m \in Replicas, NEW jb \in Jobs,
           NEW check \in BOOLEAN, Begin(t, m, jb, check)
    PROVE  IInv'
<1> USE DEF IInv, Begin
<1> DEFINE begun == [step |-> "lock", at |-> m, job |-> jb, todo |-> {},
                     check |-> check, ok |-> FALSE]
<1>1. task'[t] = begun /\ \A u \in Tasks \ {t} : task'[u] = task[u]
  BY DEF TypeOK
<1>2. task'[t].step = "lock" /\ task'[t].at = m /\ task'[t].job = jb
  BY <1>1
<1>3. TypeOK'
  BY DEF TypeOK, Works, Steps
<1>4. LockInv'
  BY <1>1, <1>2 DEF LockInv, Holding, TypeOK
<1>5. CloneInv'
  BY <1>1, <1>2, OthersKeepClones DEF AtWork
<1> QED BY <1>3, <1>4, <1>5

LEMMA AcquireIInv ==
    ASSUME IInv, NEW t \in Tasks, Acquire(t) PROVE IInv'
<1> USE DEF IInv, Acquire, Goto
<1>1. task'[t] = [task[t] EXCEPT !.step = "sync"]
      /\ \A u \in Tasks \ {t} : task'[u] = task[u]
  BY DEF TypeOK
<1>2. task'[t].step = "sync" /\ task'[t].at = task[t].at
      /\ task'[t].job = task[t].job
  BY <1>1 DEF TypeOK, Works
<1>3. TypeOK'
  BY DEF TypeOK, Works, Steps
<1>4. LockInv'
  <2>1. \A k \in Replicas : lock'[k] = IF k = task[t].at THEN t ELSE lock[k]
    BY DEF TypeOK
  <2>2. \A u \in Tasks : task[u].step \in Holding => task[u].at # task[t].at
    BY NobodyAssumption DEF LockFree, LockInv
  <2> QED BY <1>1, <1>2, <2>1, <2>2 DEF LockInv, Holding, TypeOK
<1>5. CloneInv'
  BY <1>1, <1>2, OthersKeepClones DEF AtWork
<1> QED BY <1>3, <1>4, <1>5

LEMMA SyncIInv ==
    ASSUME IInv, NEW t \in Tasks, Sync(t) PROVE IInv'
<1> USE DEF IInv, Sync
<1> DEFINE w == [task[t] EXCEPT !.step = "write", !.todo = DOMAIN task[t].job]
<1>0. /\ task[t].at \in Replicas /\ task[t].step \in Holding /\ task[t].job \in Jobs
      /\ DOMAIN task[t].job \in SUBSET Files
  BY JobsAssumption DEF LockInv, Holding
<1>1. w \in Works /\ task' = [task EXCEPT ![t] = w]
  BY <1>0 DEF TypeOK, Works, Steps
<1>2. /\ task'[t].step = "write" /\ task'[t].at = task[t].at
      /\ task'[t].todo = DOMAIN task[t].job /\ task'[t].job = task[t].job
      /\ \A u \in Tasks \ {t} : task'[u] = task[u]
  BY <1>1 DEF TypeOK, Works
<1>3. Refreshed \in Clones
  BY TipIsContent DEF Refreshed, Clones
<1>4. TypeOK'
  BY <1>0, <1>1, <1>3 DEF TypeOK
<1>5. LockInv'
  BY <1>0, <1>2, KeepsLock DEF Holding
<1>6. CloneInv'
  <2>1. /\ Here(t)' = Refreshed
        /\ \A m \in Replicas : m # task[t].at => clone'[m] = clone[m]
    BY <1>0, <1>2 DEF Here, TypeOK
  <2>2. Rendered(Tip, task'[t]) = Tip
    BY <1>2, TipIsContent DEF Rendered, Contents
  <2>3. history' = history
    OBVIOUS
  <2>4. RendersFrom(task'[t], Here(t)', history')
    <3>1. /\ Refreshed.base = Len(history) /\ Refreshed.head = Tip /\ Refreshed.tree = Tip
          /\ Tip = history[Len(history)] /\ Len(history) \in Nat
      BY TipIsContent DEF Refreshed, Tip
    <3> HIDE DEF w, Sync
    <3> QED BY <1>2, <2>1, <2>2, <2>3, <3>1 DEF RendersFrom
  <2> QED BY <1>0, <1>2, <2>1, <2>3, <2>4, OthersKeepClones
<1> QED BY <1>4, <1>5, <1>6

\* One more file of the rendering.
LEMMA RendersNext ==
    ASSUME NEW c \in Contents, NEW w, NEW u, NEW f \in w.todo, f \in Files,
           w.todo \subseteq DOMAIN w.job, u.job = w.job, u.todo = w.todo \ {f}
    PROVE  Rendered(c, u) = [Rendered(c, w) EXCEPT ![f] = Rewritten(@, w.job[f])]
<1>1. Rendered(c, w)[f] = c[f]
  BY DEF Rendered
<1> QED BY <1>1 DEF Rendered

LEMMA WriteIInv ==
    ASSUME IInv, NEW t \in Tasks, NEW f \in Files, Write(t, f) PROVE IInv'
<1> DEFINE w    == task[t]
           c    == clone[w.at]
           tree == [c.tree EXCEPT ![f] = Rewritten(c.tree[f], w.job[f])]
           done == [w EXCEPT !.todo = w.todo \ {f}]
           next == [c EXCEPT !.tree = tree]
<1>0. /\ w \in Works /\ w.at \in Replicas /\ w.job \in Jobs
      /\ w.step = "write" /\ w.step \in Holding /\ c \in Clones /\ c.tree \in Contents
      /\ f \in w.todo /\ history' = history /\ lock' = lock
      /\ RendersFrom(w, c, history)
  BY DEF Write, IInv, LockInv, CloneInv, Here, Holding, TypeOK, Clones
<1>1. /\ clone' = [clone EXCEPT ![w.at] = next] /\ task' = [task EXCEPT ![t] = done]
  BY <1>0 DEF Write, IInv, TypeOK, Contents, Clones
<1>2. /\ done \in Works /\ done.step = "write" /\ done.at = w.at /\ done.job = w.job
      /\ done.todo = w.todo \ {f}
  BY <1>0 DEF Works
<1>3. w.todo \subseteq DOMAIN w.job
  BY <1>0 DEF RendersFrom
<1>4. tree \in Contents /\ next \in Clones /\ next.tree = tree /\ next.head = c.head
      /\ next.base = c.base
  <2>1. Rewritten(c.tree[f], w.job[f]) \in [version : Versions, tag : Tags]
    BY <1>0, <1>3, JobsAssumption, RewrittenIsFile DEF Contents
  <2>2. tree \in Contents
    BY <1>0, <2>1 DEF Contents
  <2> HIDE DEF tree
  <2> QED BY <1>0, <2>2 DEF Clones
<1> HIDE DEF done, next, tree, c, w
<1>5. /\ task'[t] = done /\ \A u \in Tasks \ {t} : task'[u] = task[u]
      /\ clone'[w.at] = next /\ \A m \in Replicas : m # w.at => clone'[m] = clone[m]
  BY <1>0, <1>1 DEF IInv, TypeOK
<1>6. TypeOK'
  BY <1>0, <1>1, <1>2, <1>4 DEF IInv, TypeOK
<1>7. LockInv'
  BY <1>0, <1>2, <1>5, KeepsLock DEF IInv, Holding, w
<1>8. RendersFrom(done, next, history)
  <2> DEFINE from == history[c.base]
  <2>1. from \in Contents /\ c.tree = Rendered(from, w) /\ c.head = from
    BY <1>0, TipIsContent DEF IInv, RendersFrom, Clones
  <2>2. Rendered(from, done) = tree
    <3> HIDE DEF from
    <3> QED BY <1>0, <1>2, <1>3, <2>1, RendersNext DEF tree
  <2> QED BY <1>0, <1>2, <1>4, <2>1, <2>2 DEF RendersFrom
<1>9. CloneInv'
  BY <1>0, <1>2, <1>5, <1>8, OthersKeepClones DEF Here, w
<1> QED BY <1>6, <1>7, <1>9 DEF IInv

LEMMA WriteEndsIInv ==
    ASSUME IInv, NEW t \in Tasks, WriteEnds(t) PROVE IInv'
<1> DEFINE done == [task[t] EXCEPT !.step = "commit"]
<1>0. /\ task[t] \in Works /\ task[t].at \in Replicas /\ task[t].step \in Holding
      /\ task[t].todo = {} /\ RendersFrom(task[t], Here(t), history)
      /\ task[t].step = "write" /\ UNCHANGED <<history, lock, clone>>
  BY DEF WriteEnds, IInv, TypeOK, LockInv, CloneInv, Holding
<1>1. /\ done \in Works /\ done.step = "commit" /\ done.at = task[t].at
      /\ done.job = task[t].job /\ done.todo = {}
  BY <1>0 DEF Works, Steps
<1>2. task' = [task EXCEPT ![t] = done]
  BY DEF WriteEnds, Goto
<1> HIDE DEF done
<1>3. task'[t] = done /\ \A u \in Tasks \ {t} : task'[u] = task[u]
  BY <1>2 DEF IInv, TypeOK
<1>4. TypeOK'
  BY <1>0, <1>1, <1>2 DEF IInv, TypeOK
<1>5. LockInv'
  BY <1>0, <1>1, <1>3, KeepsLock DEF IInv, Holding
<1>6. \A x : Rendered(x, done) = Rendered(x, task[t])
  BY <1>0, <1>1 DEF Rendered
<1>7. RendersFrom(task'[t], Here(t)', history')
  BY <1>0, <1>1, <1>3, <1>6 DEF RendersFrom, Here
<1>8. CloneInv'
  BY <1>0, <1>3, <1>7, OthersKeepClones
<1> QED BY <1>4, <1>5, <1>8 DEF IInv

\* A task that gives up or has nothing to push only returns.
LEMMA ReturningIInv ==
    ASSUME IInv, NEW t \in Tasks,
           \/ SyncFails(t) \/ Fails(t) \/ Compare(t) \/ NothingToCommit(t)
           \/ PushFails(t)
    PROVE  IInv'
<1> USE DEF IInv
<1>1. /\ history' = history /\ task[t].step \in Holding
      /\ \E ok \in BOOLEAN : Return(t, ok)
  BY DEF SyncFails, Fails, Compare, NothingToCommit, PushFails, PushError, Holding
<1>2. history' \in Seq(Contents) /\ Len(history') \in 1..MaxCommits
  BY <1>1 DEF TypeOK
<1>3. /\ clone' \in [Replicas -> Clones]
      /\ \A m \in Replicas : m # task[t].at => clone'[m] = clone[m]
  <2>0. task[t].at \in Replicas /\ Here(t) \in Clones /\ clone \in [Replicas -> Clones]
    BY <1>1 DEF LockInv, TypeOK, Here, Holding
  <2>1. CASE clone' = clone
    BY <2>0, <2>1
  <2>2. ASSUME NEW c \in Clones, clone' = [clone EXCEPT ![task[t].at] = c]
        PROVE  <1>3!1 /\ <1>3!2
    BY <2>0, <2>2
  <2>3. Refreshed \in Clones /\ [Here(t) EXCEPT !.tree = Here(t).head] \in Clones
    BY <2>0, TipIsContent DEF Clones, Refreshed
  <2>4. \/ clone' = clone
        \/ clone' = [clone EXCEPT ![task[t].at] = Refreshed]
        \/ clone' = [clone EXCEPT ![task[t].at] = [Here(t) EXCEPT !.tree = Here(t).head]]
    BY DEF SyncFails, Fails, Compare, NothingToCommit, PushFails, Discarded, Here
  <2> QED BY <2>1, <2>2, <2>3, <2>4
<1> QED BY <1>1, <1>2, <1>3, Returning

LEMMA CommitIInv ==
    ASSUME IInv, NEW t \in Tasks, Commit(t) PROVE IInv'
<1> DEFINE c    == [Here(t) EXCEPT !.head = Here(t).tree]
           done == [task[t] EXCEPT !.step = "push"]
<1>0. /\ task[t].step = "commit" /\ task[t].at \in Replicas /\ task[t] \in Works
      /\ Here(t) \in Clones /\ history' = history /\ lock' = lock
      /\ task[t].step \in Holding /\ ~task[t].check
      /\ RendersFrom(task[t], Here(t), history)
  BY DEF Commit, IInv, LockInv, CloneInv, TypeOK, Here, Holding
<1>1. c \in Clones /\ c.head = Here(t).tree /\ c.base = Here(t).base
  BY <1>0 DEF Clones
<1>2. /\ done \in Works /\ done.step = "push" /\ done.at = task[t].at
      /\ done.job = task[t].job /\ done.todo = task[t].todo
      /\ done.check = task[t].check
  BY <1>0 DEF Works, Steps
<1>3. clone' = [clone EXCEPT ![task[t].at] = c] /\ task' = [task EXCEPT ![t] = done]
  BY DEF Commit, Goto, Here
<1> HIDE DEF c, done
<1>4. task'[t] = done /\ \A u \in Tasks \ {t} : task'[u] = task[u]
  BY <1>3 DEF IInv, TypeOK
<1>5. TypeOK'
  BY <1>0, <1>1, <1>2, <1>3 DEF IInv, TypeOK
<1>6. LockInv'
  BY <1>0, <1>2, <1>4, KeepsLock DEF IInv, Holding
<1>7. Here(t)' = c /\ \A m \in Replicas : m # task[t].at => clone'[m] = clone[m]
  BY <1>0, <1>2, <1>3, <1>4 DEF Here, IInv, TypeOK
<1>8. \A x : Rendered(x, done) = Rendered(x, task[t])
  BY <1>2 DEF Rendered
<1>9. RendersFrom(task'[t], Here(t)', history')
  BY <1>0, <1>1, <1>2, <1>4, <1>7, <1>8 DEF RendersFrom
<1>10. CloneInv'
  BY <1>0, <1>4, <1>7, <1>9, OthersKeepClones
<1> QED BY <1>5, <1>6, <1>10 DEF IInv

\* A push that the origin accepts adds a whole publication to its head.
LEMMA PushPublishes ==
    ASSUME IInv, NEW t \in Tasks, Push(t)
    PROVE  /\ history' = Append(history, Repo!Published(task[t].job))
           /\ task[t].job \in Jobs /\ Here(t).base = Len(history)
<1>1. /\ RendersFrom(task[t], Here(t), history) /\ task[t].job \in Jobs
      /\ task[t].step = "push"
  BY DEF Push, IInv, CloneInv, LockInv
<1>2. Here(t).head = Rendered(Tip, task[t]) /\ task[t].todo = {}
  BY <1>1 DEF Push, FastForward, RendersFrom, Tip
<1>3. Rendered(Tip, task[t]) = Repo!Published(task[t].job)
  BY <1>2 DEF Rendered, Rewritten, KeptTag, Repo!Published
<1> QED BY <1>1, <1>2, <1>3 DEF Push, FastForward

LEMMA PushIInv ==
    ASSUME IInv, NEW t \in Tasks, Push(t) PROVE IInv'
<1>1. /\ \E ok \in BOOLEAN : Return(t, ok)
      /\ clone' = clone /\ clone \in [Replicas -> Clones] /\ task[t].step \in Holding
  BY DEF Push, PushError, IInv, TypeOK, Holding
<1>2. history' \in Seq(Contents) /\ Len(history') \in 1..MaxCommits
  <2>1. Here(t).head \in Contents
    BY DEF IInv, TypeOK, LockInv, Push, Here, Clones
  <2> QED BY <2>1, BoundAssumption DEF Push, IInv, TypeOK
<1>3. \E x : history' = Append(history, x)
  BY DEF Push
<1> QED BY <1>1, <1>2, <1>3, Returning

LEMMA CrashIInv ==
    ASSUME IInv, NEW m \in Replicas, Crash(m) PROVE IInv'
<1> USE DEF IInv
<1>1. \A u \in Tasks : task'[u] = IF task[u].at = m THEN Idle ELSE task[u]
  BY DEF Crash
<1>2. \A k \in Replicas : lock'[k] = IF k = m THEN Nobody ELSE lock[k]
  BY DEF Crash, TypeOK
<1>3. TypeOK'
  <2>1. Idle \in Works
    BY DEF Idle, Works, Steps
  <2>2. task' \in [Tasks -> Works]
    BY <2>1 DEF TypeOK, Crash
  <2> QED BY <2>2 DEF TypeOK, Crash
<1>4. LockInv'
  BY <1>1, <1>2 DEF LockInv, Idle, Holding, TypeOK
<1>5. CloneInv'
  <2> SUFFICES ASSUME NEW u \in Tasks, task'[u].step \in AtWork
               PROVE  RendersFrom(task'[u], Here(u)', history')
    BY DEF CloneInv, AtWork
  <2>1. task'[u] = task[u]
    BY <1>1 DEF Idle, AtWork
  <2>2. clone' = clone /\ history' = history
    BY DEF Crash
  <2> QED BY <2>1, <2>2, OthersUnchanged
<1> QED BY <1>3, <1>4, <1>5

LEMMA KargoPushIInv ==
    ASSUME IInv, KargoPush PROVE IInv'
<1> USE DEF IInv
<1>1. PICK S \in SUBSET Files, x \in Tags : history' = Append(history, Promoted(S, x))
  BY DEF KargoPush
<1>2. Promoted(S, x) \in Contents
  BY TipIsContent DEF Promoted, Contents
<1>3. TypeOK'
  BY <1>1, <1>2, BoundAssumption DEF TypeOK, KargoPush
<1>4. LockInv'
  BY DEF LockInv, KargoPush
<1>5. CloneInv'
  <2> SUFFICES ASSUME NEW u \in Tasks, task'[u].step \in AtWork
               PROVE  RendersFrom(task'[u], Here(u)', history')
    BY DEF CloneInv, AtWork
  <2>1. task' = task /\ clone' = clone
    BY DEF KargoPush
  <2> QED BY <1>1, <2>1, OthersUnchanged
<1> QED BY <1>3, <1>4, <1>5

\* The invariant is inductive: it holds initially and every step keeps it.
THEOREM Invariance == Spec => []IInv
<1>1. IInv /\ [Next]_vars => IInv'
  <2> SUFFICES ASSUME IInv, [Next]_vars PROVE IInv'
    OBVIOUS
  <2>1. ASSUME NEW t \in Tasks, Task(t) PROVE IInv'
    BY <2>1, BeginIInv, AcquireIInv, SyncIInv, WriteIInv, WriteEndsIInv, ReturningIInv,
       CommitIInv, PushIInv DEF Task
  <2>2. ASSUME NEW m \in Replicas, Crash(m) PROVE IInv'
    BY <2>2, CrashIInv
  <2>3. CASE KargoPush
    BY <2>3, KargoPushIInv
  <2>4. CASE UNCHANGED vars
    BY <2>4 DEF vars, IInv, TypeOK, LockInv, CloneInv, Here
  <2> QED BY <2>1, <2>2, <2>3, <2>4 DEF Next
<1> QED BY InitIInv, <1>1, PTL DEF Spec

\* Every commit on the branch is one whole publication, or one promotion by Kargo,
\* on top of the commit before it, whatever fails and whoever else publishes.
THEOREM ImplementsAtomicRepo == Spec => IsAtomicRepo
<1>1. Init => Repo!Init
  BY InitIInv, TipIsContent DEF IInv, Repo!Init, Contents, Repo!Contents
<1>2. IInv /\ [Next]_vars => [Repo!Publish \/ Repo!Promote]_Tip
  <2> SUFFICES ASSUME IInv, [Next]_vars
               PROVE  [Repo!Publish \/ Repo!Promote]_Tip
    OBVIOUS
  <2>1. ASSUME NEW x, history' = Append(history, x) PROVE Tip' = x
    BY <2>1 DEF IInv, TypeOK, Tip
  <2>2. ASSUME NEW t \in Tasks, Push(t) PROVE Repo!Publish
    BY <2>1, <2>2, PushPublishes DEF Repo!Publish
  <2>3. CASE KargoPush
    BY <2>1, <2>3 DEF KargoPush, Promoted, Repo!Promote, Repo!Promoted
  <2>4. CASE history' = history
    BY <2>4 DEF Tip
  <2>5. \/ \E t \in Tasks : Push(t)
        \/ KargoPush
        \/ history' = history
    BY DEF Next, Task, Begin, Acquire, Sync, SyncFails, Write, WriteEnds, Fails, Compare,
       NothingToCommit, Commit, PushFails, Crash, vars
  <2> QED BY <2>2, <2>3, <2>4, <2>5
<1> QED BY Invariance, <1>1, <1>2, PTL DEF Spec, IsAtomicRepo, Repo!Spec

\* What a task has rendered is in the content.
LEMMA RenderedVersions ==
    ASSUME NEW c \in Contents, NEW w, w.job \in Jobs, w.todo = {}
    PROVE  \A f \in DOMAIN w.job : Rendered(c, w)[f].version = w.job[f]
BY JobsAssumption DEF Rendered, Rewritten

\* Only two operations of a publication report success.
LEMMA WhoReports ==
    ASSUME IInv, Next, NEW t \in Tasks, task'[t].ok, ~task[t].ok, ~task[t].check
    PROVE  Push(t) \/ NothingToCommit(t)
<1>1. task[t] \in Works /\ task[t].ok = FALSE
  BY DEF IInv, TypeOK, Works
<1>2. ASSUME NEW u \in Tasks, u # t, Task(u) PROVE FALSE
  BY <1>2 DEF IInv, TypeOK, Task, Begin, Acquire, Sync, SyncFails, Write, WriteEnds,
     Fails, Compare, NothingToCommit, Commit, Push, PushFails, Goto, Return
<1>3. ASSUME NEW m \in Replicas, Crash(m) PROVE FALSE
  BY <1>3 DEF Crash, Idle
<1>4. ASSUME KargoPush PROVE FALSE
  BY <1>4 DEF KargoPush
<1>5. ASSUME NEW w, task' = [task EXCEPT ![t] = w], w.ok = FALSE PROVE FALSE
  BY <1>5 DEF IInv, TypeOK
<1>6. ASSUME NEW step, NEW todo,
             \/ task' = [task EXCEPT ![t].step = step]
             \/ task' = [task EXCEPT ![t].todo = todo]
             \/ task' = [task EXCEPT ![t].step = step, ![t].todo = todo]
      PROVE  FALSE
  BY <1>1, <1>6 DEF IInv, TypeOK, Works
<1>7. ~Acquire(t) /\ ~WriteEnds(t) /\ ~Commit(t)
  BY <1>6 DEF Acquire, WriteEnds, Commit, Goto
<1>8. ~Sync(t) /\ \A f \in Files : ~Write(t, f)
  BY <1>6 DEF Sync, Write
<1>9. ASSUME NEW m \in Replicas, NEW jb \in Jobs, NEW check \in BOOLEAN,
             Begin(t, m, jb, check)
      PROVE  FALSE
  BY <1>9 DEF Begin, IInv, TypeOK
<1>10. ~SyncFails(t) /\ ~Fails(t) /\ ~PushFails(t) /\ ~Compare(t)
  <2>1. ASSUME Return(t, FALSE) PROVE FALSE
    BY <2>1 DEF Return, Idle, IInv, TypeOK
  <2> QED BY <2>1 DEF SyncFails, Fails, PushFails, PushError, Compare
<1> QED BY <1>2, <1>3, <1>4, <1>7, <1>8, <1>9, <1>10 DEF Next, Task

\* A publication that reports success is on the branch: pushed by this task, or
\* found there, complete, when it had nothing to commit.
THEOREM SuccessIsPublished == Spec => ReportedIsPublished
<1> DEFINE A == \A t \in Tasks :
                  task'[t].ok /\ ~task[t].ok /\ ~task[t].check => OnBranch(t)
<1>1. IInv /\ [Next]_vars => [A]_vars
  <2> SUFFICES ASSUME IInv, Next, NEW t \in Tasks, task'[t].ok, ~task[t].ok,
                      ~task[t].check
               PROVE  OnBranch(t)
    OBVIOUS
  <2>1. CASE Push(t)
    <3> DEFINE new == Repo!Published(task[t].job)
    <3>1. /\ history' = Append(history, new) /\ task[t].job \in Jobs
          /\ Here(t).base = Len(history)
      BY <2>1, PushPublishes
    <3>2. \A f \in DOMAIN task[t].job : new[f].version = task[t].job[f]
      BY <3>1, JobsAssumption DEF Repo!Published
    <3> HIDE DEF new
    <3>3. Len(history) + 1 \in DOMAIN history' /\ history'[Len(history) + 1] = new
      BY <3>1 DEF IInv, TypeOK
    <3> QED BY <3>1, <3>2, <3>3 DEF OnBranch, IInv, TypeOK
  <2>2. CASE NothingToCommit(t)
    <3> DEFINE n == Here(t).base
    <3>1. /\ RendersFrom(task[t], Here(t), history) /\ task[t].job \in Jobs
          /\ task[t].step = "commit" /\ Here(t) \in Clones /\ history' = history
      BY <2>2 DEF NothingToCommit, IInv, TypeOK, LockInv, CloneInv, Here
    <3>2. /\ task[t].todo = {} /\ n \in 1..Len(history)
          /\ history[n] = Rendered(history[n], task[t])
      BY <2>2, <3>1, TipIsContent DEF NothingToCommit, IInv, RendersFrom, Clones
    <3>3. history[n] \in Contents
      BY <3>2, TipIsContent DEF IInv
    <3> HIDE DEF n
    <3>4. \A f \in DOMAIN task[t].job : history[n][f].version = task[t].job[f]
      <4>1. \A f \in DOMAIN task[t].job :
              Rendered(history[n], task[t])[f].version = task[t].job[f]
        BY <3>1, <3>2, <3>3, RenderedVersions
      <4> QED BY <3>2, <4>1
    <3> QED BY <3>1, <3>2, <3>4 DEF OnBranch, IInv, TypeOK, n
  <2> QED BY <2>1, <2>2, WhoReports
<1> QED BY Invariance, <1>1, PTL DEF Spec, ReportedIsPublished


-----------------------------------------------------------------------------
(* Configuration: bindings, layers and values.                             *)

LayerNames == OrgLayers \cup ProjectLayers \cup StackLayers \cup AppLayers \cup ClusterLayers

LEMMA LayerFacts ==
    /\ DOMAIN Layers = 1..10
    /\ LayerNames = {Layers[i] : i \in DOMAIN Layers}
    /\ \A i \in 1..10 : Layers[i] \in LayerNames
    /\ \A i, k \in 1..10 : Layers[i] = Layers[k] => i = k
    /\ None \notin LayerNames
  BY DEF Layers, LayerNames, OrgLayers, ProjectLayers, StackLayers, AppLayers,
     ClusterLayers, None

\* The clusters can be counted.
LEMMA ClustersCounted ==
    Cardinality(Cluster) \in Nat /\ (Cluster # {} => Cardinality(Cluster) # 0)
  BY ConfigurationAssumption, FS_CardinalityType, FS_EmptySet

\* The cluster that counts is one of those that an environment runs on.
LEMMA BindingFacts ==
    ASSUME NEW b \in Bindings
    PROVE  /\ RefsOf(b) \subseteq Cluster /\ ResolveDeployTargets(b) \subseteq Cluster
           /\ EffectiveClusterRef(b) \in Cluster \cup {None}
           /\ EffectiveClusterRef(b) # None =>
                 /\ EffectiveClusterRef(b) \in RefsOf(b)
                 /\ EffectiveClusterRef(b) \in ResolveDeployTargets(b)
  <1>1. /\ b.refs \in Refs /\ b.active \in Cluster \cup {None}
        /\ b.active = None \/ \E i \in DOMAIN b.refs : b.refs[i] = b.active
    BY DEF Bindings
  <1>2. PICK n \in 0..Cardinality(Cluster) : b.refs \in [1..n -> Cluster]
    BY <1>1 DEF Refs
  <1>3. RefsOf(b) \subseteq Cluster
    BY <1>2 DEF RefsOf
  <1>4. n \in Nat
    BY <1>2, ClustersCounted
  <1>5. b.refs # <<>> => b.refs[1] \in RefsOf(b)
    <2>1. b.refs \in Seq(Cluster) /\ Len(b.refs) = n
      BY <1>2, <1>4
    <2>2. b.refs # <<>> => n # 0
      BY <2>1, EmptySeq
    <2> QED
      BY <1>2, <1>4, <2>2 DEF RefsOf
  <1>6. EffectiveClusterRef(b) # None => EffectiveClusterRef(b) \in RefsOf(b)
    BY <1>1, <1>5 DEF EffectiveClusterRef, RefsOf
  <1>7. EffectiveClusterRef(b) \in Cluster \cup {None}
    BY <1>3, <1>6
  <1> QED
    BY <1>3, <1>6, <1>7 DEF ResolveDeployTargets

\* An app runs on clusters of the environment, whichever can be looked up.
LEMMA TargetsType ==
    ASSUME NEW b \in Bindings, NEW spec \in AppSpecs,
           NEW clusters \in SUBSET ResolveDeployTargets(b), NEW all \in SUBSET RefsOf(b)
    PROVE  appClusterTargets(spec.select, clusters, all) \in SUBSET Cluster
  <1>1. clusters \subseteq Cluster /\ all \subseteq Cluster
    BY BindingFacts
  <1> QED
    BY <1>1 DEF appClusterTargets

\* One that follows an environment on one cluster runs on that cluster.
LEMMA FollowsFacts ==
    ASSUME NEW b \in Bindings, NEW spec \in AppSpecs, Follows(spec, b),
           EffectiveClusterRef(b) # None
    PROVE  TargetsOf(spec, b) = {EffectiveClusterRef(b)}
  <1>1. ResolveDeployTargets(b) = {EffectiveClusterRef(b)}
    BY DEF ResolveDeployTargets, Follows
  <1>2. EffectiveClusterRef(b) \in RefsOf(b)
    BY BindingFacts
  <1> QED
    BY <1>1, <1>2 DEF TargetsOf, appClusterTargets, Follows, AllClusters

LEMMA ValueType ==
    ASSUME NEW l \in LayerNames \cup {None}, NEW c \in Cluster \cup {None}
    PROVE  /\ Value(l, c) \in Values
           /\ Value(l, c).cluster \in {c, None}
  <1>1. (IF l \in ClusterLayers THEN c ELSE None) \in Cluster \cup {None}
    OBVIOUS
  <1> QED
    BY LayerFacts DEF Value, Values

\* A set of layers that is not empty has a highest one.
LEMMA TopLayer ==
    ASSUME NEW S \in SUBSET LayerNames, S # {}
    PROVE  \E i \in 1..10 :
              /\ Layers[i] \in S /\ Highest(S) = Layers[i]
              /\ \A k \in 1..10 : Layers[k] \in S => k <= i
  <1>1. ASSUME NEW i \in 1..10, Layers[i] \in S, \A k \in 1..10 : Layers[k] \in S => k <= i
        PROVE  Highest(S) = Layers[i]
    <2> DEFINE Top(n) == /\ Layers[n] \in S
                         /\ \A k \in DOMAIN Layers : Layers[k] \in S => k <= n
    <2>1. i \in DOMAIN Layers /\ Top(i)
      BY <1>1, LayerFacts
    <2>2. \A n \in DOMAIN Layers : Top(n) => n = i
      BY <1>1, LayerFacts
    <2>3. (CHOOSE n \in DOMAIN Layers : Top(n)) = i
      BY <2>1, <2>2
    <2> QED
      BY <2>3 DEF Highest
  <1>2. ASSUME NEW i \in 1..10, Layers[i] \in S, \A k \in 1..10 : k > i => Layers[k] \notin S
        PROVE  \A k \in 1..10 : Layers[k] \in S => k <= i
    BY <1>2
  <1> DEFINE In(i) == Layers[i] \in S
             Above(i) == \A k \in 1..10 : k > i => ~In(k)
  <1>3. ~Above(0)
    BY LayerFacts
  <1>5. Above(10)
    OBVIOUS
  <1>6. \E i \in 1..10 : Above(i) /\ In(i)
    <2> SUFFICES ASSUME \A i \in 1..10 : Above(i) => ~In(i) PROVE FALSE
      OBVIOUS
    <2> HIDE DEF In
    <2>1. \A i \in 1..10 : Above(i) => ~In(i)
      OBVIOUS
    <2>2. Above(9)
      BY <1>5, <2>1
    <2>3. Above(8)
      BY <2>2, <2>1
    <2>4. Above(7)
      BY <2>3, <2>1
    <2>5. Above(6)
      BY <2>4, <2>1
    <2>6. Above(5)
      BY <2>5, <2>1
    <2>7. Above(4)
      BY <2>6, <2>1
    <2>8. Above(3)
      BY <2>7, <2>1
    <2>9. Above(2)
      BY <2>8, <2>1
    <2>10. Above(1)
      BY <2>9, <2>1
    <2>11. Above(0)
      BY <2>10, <2>1
    <2> QED
      BY <1>3, <2>11
  <1> QED
    BY <1>1, <1>2, <1>6

LEMMA HighestType ==
    ASSUME NEW S \in SUBSET LayerNames
    PROVE  Highest(S) \in LayerNames \cup {None}
  <1>1. CASE S = {}
    BY <1>1 DEF Highest
  <1>2. CASE S # {}
    BY <1>2, TopLayer, LayerFacts
  <1> QED
    BY <1>1, <1>2

LEMMA SetType ==
    ASSUME ConfTypeOK, NEW spec \in AppSpecs, NEW c \in Cluster \cup {None}
    PROVE  Set(spec, c) \in SUBSET LayerNames
  <1>1. /\ org.vars \subseteq OrgLayers /\ project \subseteq ProjectLayers
        /\ stack \subseteq StackLayers /\ spec.vars \subseteq AppLayers
        /\ c # None => cluster[c] \subseteq ClusterLayers
    BY DEF ConfTypeOK, AppSpecs
  <1> QED
    BY <1>1 DEF Set, LayerNames

LEMMA MergedType ==
    ASSUME ConfTypeOK, NEW spec \in AppSpecs, NEW c \in Cluster \cup {None}, NEW unread
    PROVE  /\ mergeAllEnvVars(spec, c, unread) \in Values
           /\ mergeAllEnvVars(spec, c, unread).cluster \in {c, None}
  <1>1. Set(spec, c) \ unread \in SUBSET LayerNames
    BY SetType
  <1> QED
    BY <1>1, HighestType, ValueType DEF mergeAllEnvVars

\* The levels of the resolved view are the order of the layers, but for the two
\* of the cluster, which it tells apart by itself.
LEMMA LevelFacts ==
    \A i \in 1..10 : Level(Layers[i]) = IF i = 10 THEN 9 ELSE i
  <1> SUFFICES ASSUME NEW i \in 1..10 PROVE Level(Layers[i]) = IF i = 10 THEN 9 ELSE i
    OBVIOUS
  <1>1. i \in {1, 2, 3, 4, 5, 6, 7, 8, 9, 10}
    OBVIOUS
  <1> QED
    BY <1>1 DEF Level, Layers

\* What is published is what the resolved view shows, whichever layers are set.
LEMMA MergedIsResolved ==
    ASSUME ConfTypeOK, NEW spec \in AppSpecs
    PROVE  mergeAllEnvVars(spec, EffectiveClusterRef(org.binding), {}) = ResolveEnvLayers(spec)
  <1> DEFINE c == EffectiveClusterRef(org.binding)
             S == Set(spec, c)
             wins == {l \in S : \A k \in S : Level(k) <= Level(l)}
  <1>1. c \in Cluster \cup {None}
    BY BindingFacts DEF ConfTypeOK
  <1>2. S \in SUBSET LayerNames
    BY <1>1, SetType
  <1>3. mergeAllEnvVars(spec, c, {}) = Value(Highest(S), c)
    <2>1. S \ {} = S
      OBVIOUS
    <2> QED
      BY <2>1 DEF mergeAllEnvVars
  <1>4. ResolveEnvLayers(spec) = CASE wins = {}             -> Value(None, c)
                                   [] "clusterEnv" \in wins -> Value("clusterEnv", c)
                                   [] OTHER -> Value(CHOOSE l \in wins : TRUE, c)
    BY DEF ResolveEnvLayers
  <1> SUFFICES mergeAllEnvVars(spec, c, {}) = ResolveEnvLayers(spec)
    OBVIOUS
  <1> HIDE DEF S, c
  <1>5. CASE S = {}
    BY <1>3, <1>4, <1>5 DEF Highest
  <1>6. CASE S # {}
    <2>1. PICK i \in 1..10 : /\ Layers[i] \in S /\ Highest(S) = Layers[i]
                             /\ \A k \in 1..10 : Layers[k] \in S => k <= i
      BY <1>2, <1>6, TopLayer
    <2>2. \A l \in S : \E k \in 1..i : l = Layers[k]
      BY <1>2, <2>1, LayerFacts
    <2>3. \A l \in S : Level(l) <= Level(Layers[i])
      BY <2>1, <2>2, LevelFacts
    <2>4. Layers[i] \in wins
      BY <2>1, <2>3
    <2>5. CASE i = 10
      <3>1. Layers[i] = "clusterEnv"
        BY <2>5 DEF Layers
      <3> QED
        BY <1>3, <1>4, <2>1, <2>4, <3>1
    <2>6. CASE i # 10
      <3>1. \A l \in wins : l = Layers[i]
        <4>1. SUFFICES ASSUME NEW l \in wins PROVE l = Layers[i]
          OBVIOUS
        <4>2. PICK k \in 1..i : l = Layers[k]
          BY <2>2
        <4>3. Level(Layers[i]) <= Level(l)
          BY <2>1
        <4>4. Level(l) = k /\ Level(Layers[i]) = i
          BY <2>6, <4>2, LevelFacts
        <4> QED
          BY <4>2, <4>3, <4>4
      <3>2. "clusterEnv" # Layers[i]
        <4>1. Layers[10] = "clusterEnv"
          BY DEF Layers
        <4> QED
          BY <2>6, <4>1, LayerFacts
      <3>3. "clusterEnv" \notin wins
        BY <3>1, <3>2
      <3>4. wins = {Layers[i]}
        BY <2>4, <3>1
      <3> HIDE DEF wins
      <3>5. (CHOOSE l \in wins : TRUE) = Layers[i]
        BY <3>4
      <3> QED
        BY <1>3, <1>4, <2>1, <2>4, <3>3, <3>5
    <2> QED
      BY <2>5, <2>6
  <1> QED
    BY <1>5, <1>6

LEMMA ResolvedFacts ==
    ASSUME ConfTypeOK, NEW spec \in AppSpecs
    PROVE  ResolveEnvLayers(spec).cluster # None =>
              ResolveEnvLayers(spec).cluster = EffectiveClusterRef(org.binding)
  <1> DEFINE c == EffectiveClusterRef(org.binding)
  <1>1. c \in Cluster \cup {None}
    BY BindingFacts DEF ConfTypeOK
  <1>2. ResolveEnvLayers(spec).cluster \in {c, None}
    BY <1>1, MergedIsResolved, MergedType
  <1> QED
    BY <1>1, <1>2

-----------------------------------------------------------------------------
(* Types.                                                                  *)

Goroutines  == {Unused} \cup Busy
Todos == [App -> AppSpecs \cup {Missing}]
Pubs  == Published \cup {Missing}

LEMMA BusyIs ==
    Busy = [at : {"load", "next", "read", "commit", "unpublish"},
            op : {"apps", "cluster", "app", "members", "given", "startup", "delete"},
            app : App \cup {None}, cluster : Cluster \cup {None},
            todo : Todos, targets : SUBSET Cluster, follows : BOOLEAN, pub : Pubs,
            fresh : SUBSET App]
  BY DEF Busy, Todos, Pubs

LEMMA JobFacts ==
    ASSUME ConfTypeOK, NEW s \in Slot
    PROVE  /\ job[s] \in Goroutines
           /\ job[s].at # "idle" => job[s] \in Busy
           /\ job[s].at = "idle" => job[s] = Unused
  <1>1. job[s] \in Goroutines
    BY DEF ConfTypeOK, Goroutines
  <1>2. Unused.at = "idle" /\ \A j \in Busy : j.at # "idle"
    BY BusyIs DEF Unused
  <1> QED
    BY <1>1, <1>2 DEF Goroutines

LEMMA NewJobType ==
    ASSUME NEW at \in {"load", "next", "unpublish"},
           NEW op \in {"apps", "cluster", "app", "members", "given", "startup", "delete"},
           NEW a \in App \cup {None}, NEW c \in Cluster \cup {None}, NEW todo \in Todos
    PROVE  NewJob(op, a, c, at, todo) \in Busy
  <1>1. Missing \in Pubs
    BY DEF Pubs
  <1> QED
    BY <1>1, BusyIs DEF NewJob

LEMMA NothingType == Nothing \in Todos
  BY DEF Nothing, Todos

LEMMA OvertakenFacts ==
    ASSUME ConfTypeOK, NEW E \in SUBSET App
    PROVE  /\ Overtaken(E) \in [Slot -> Goroutines]
           /\ \A s \in Slot : job[s].at = "idle" => Overtaken(E)[s] = job[s]
           /\ \A s \in Slot : job[s].at # "idle" =>
                 Overtaken(E)[s] = [job[s] EXCEPT !.fresh = @ \ E]
  <1>1. ASSUME NEW s \in Slot, job[s].at # "idle"
        PROVE  [job[s] EXCEPT !.fresh = @ \ E] \in Busy
    BY <1>1, JobFacts, BusyIs
  <1> QED
    BY <1>1, JobFacts DEF Overtaken, Goroutines

LEMMA EditType ==
    ASSUME ConfTypeOK, NEW E \in SUBSET App, NEW new \in Busy, Edit(E, new)
    PROVE  job' \in [Slot -> Goroutines] /\ edits' \in 0..MaxEdits /\ UNCHANGED <<git, faults>>
  <1>1. PICK s \in Slot : job[s].at = "idle" /\ job' = [Overtaken(E) EXCEPT ![s] = new]
    BY DEF Edit
  <1>2. job' \in [Slot -> Goroutines]
    BY <1>1, OvertakenFacts DEF Goroutines
  <1> QED
    BY <1>2, ConfigurationAssumption DEF Edit, ConfTypeOK

LEMMA QuietEditType ==
    ASSUME ConfTypeOK, NEW E \in SUBSET App, QuietEdit(E)
    PROVE  job' \in [Slot -> Goroutines] /\ edits' \in 0..MaxEdits /\ UNCHANGED <<git, faults>>
  BY OvertakenFacts, ConfigurationAssumption DEF QuietEdit, ConfTypeOK

LEMMA ToggledType ==
    ASSUME NEW S, NEW T \in SUBSET S, NEW x \in S
    PROVE  Toggled(T, x) \in SUBSET S
  BY DEF Toggled

LEMMA FaultType ==
    ASSUME ConfTypeOK, Fault
    PROVE  faults' \in 0..MaxFaults
  BY ConfigurationAssumption DEF Fault, ConfTypeOK

LEMMA TypeInit == ConfInit => ConfTypeOK
  <1> SUFFICES ASSUME ConfInit PROVE ConfTypeOK
    OBVIOUS
  <1>1. PICK c \in Cluster :
          /\ org = [vars |-> {}, binding |-> [refs |-> <<c>>, active |-> None, all |-> FALSE]]
          /\ git = [a \in App |-> [targets |-> {c}, value |-> Value(None, None), items |-> {},
                                    follows |-> app[a].select = {}]]
    BY DEF ConfInit
  <1>2. org.binding \in Bindings
    <2>1. 1 \in 0..Cardinality(Cluster)
      <3>1. Cardinality(Cluster) \in Nat /\ Cardinality(Cluster) # 0
        BY ClustersCounted
      <3> QED
        BY <3>1
    <2>2. <<c>> \in [1..1 -> Cluster]
      OBVIOUS
    <2>3. <<c>> \in Refs
      <3>1. \A i, j \in DOMAIN <<c>> : <<c>>[i] = <<c>>[j] => i = j
        OBVIOUS
      <3> QED
        BY <2>1, <2>2, <3>1 DEF Refs
    <2> QED
      BY <1>1, <2>3 DEF Bindings
  <1>3. git \in [App -> Pubs]
    <2>1. Value(None, None) \in Values
      BY ValueType
    <2>2. \A a \in App : [targets |-> {c}, value |-> Value(None, None), items |-> {},
                          follows |-> app[a].select = {}] \in Published
      BY <2>1 DEF Published
    <2> QED
      BY <1>1, <2>2 DEF Pubs
  <1>4. app \in Todos
    BY SelectionsAssumption DEF ConfInit, AppSpecs, Todos
  <1>5. job \in [Slot -> Goroutines]
    BY DEF ConfInit, Goroutines
  <1>6. org.vars \in SUBSET OrgLayers
    BY <1>1
  <1>7. org \in [vars : SUBSET OrgLayers, binding : Bindings]
    BY <1>1, <1>2, <1>6
  <1>8. /\ project = {} /\ stack = {} /\ cluster = [d \in Cluster |-> {}]
        /\ vault = [i \in Items |-> "none"] /\ edits = 0 /\ faults = 0 /\ owed = {}
    BY DEF ConfInit
  <1> QED
    BY <1>3, <1>4, <1>5, <1>7, <1>8, ConfigurationAssumption DEF ConfTypeOK, Pubs, Todos,
       Goroutines

\* What requests edit.
LEMMA RequestTypes ==
    ASSUME ConfTypeOK,
           \/ \E l \in {Layers[i] : i \in DOMAIN Layers} :
                \/ handlePutOrgEnvConfig(l) \/ handlePutProjectEnvConfig(l) \/ handlePatchStack(l)
                \/ \E a \in App : handlePutAppEnvConfig(a, l)
                \/ \E c \in Cluster : handlePutClusterEnvConfig(c, l)
           \/ \E a \in App : handleSetAppStack(a) \/ handleDeleteApp(a)
           \/ \E select \in Selections : handleSetStackTargetClusters(select)
           \/ \E b \in Choices : handleUpdateOrgEnvironment(b)
           \/ \E i \in Items : handleUpsertSecrets(i) \/ handleDeleteSecret(i)
    PROVE  ConfTypeOK'
  <1> USE DEF Goroutines
  <1>0. NewJob("apps", None, None, "load", Nothing) \in Busy
    BY NewJobType, NothingType
  <1>1. ASSUME NEW l, handlePutOrgEnvConfig(l)
        PROVE  ConfTypeOK'
    <2>1. job' \in [Slot -> Goroutines] /\ edits' \in 0..MaxEdits /\ UNCHANGED <<git, faults>>
      BY <1>0, <1>1, EditType DEF handlePutOrgEnvConfig
    <2>2. Toggled(org.vars, l) \in SUBSET OrgLayers
      BY <1>1, ToggledType DEF handlePutOrgEnvConfig, ConfTypeOK
    <2>3. org' \in [vars : SUBSET OrgLayers, binding : Bindings]
      BY <1>1, <2>2 DEF handlePutOrgEnvConfig, ConfTypeOK
    <2> QED
      BY <1>1, <2>1, <2>3 DEF handlePutOrgEnvConfig, ConfTypeOK
  <1>2. ASSUME NEW l, handlePutProjectEnvConfig(l)
        PROVE  ConfTypeOK'
    <2>1. job' \in [Slot -> Goroutines] /\ edits' \in 0..MaxEdits /\ UNCHANGED <<git, faults>>
      BY <1>0, <1>2, EditType DEF handlePutProjectEnvConfig
    <2>2. project' \in SUBSET ProjectLayers
      BY <1>2, ToggledType DEF handlePutProjectEnvConfig, ConfTypeOK
    <2> QED
      BY <1>2, <2>1, <2>2 DEF handlePutProjectEnvConfig, ConfTypeOK
  <1>3. ASSUME NEW l, handlePatchStack(l)
        PROVE  ConfTypeOK'
    <2>0. NewJob("members", None, None, "load", Nothing) \in Busy
      BY NewJobType, NothingType
    <2>1. job' \in [Slot -> Goroutines] /\ edits' \in 0..MaxEdits /\ UNCHANGED <<git, faults>>
      <3>1. {a \in Saved : app[a].member} \in SUBSET App
        BY DEF Saved
      <3> QED
        BY <1>3, <2>0, <3>1, EditType DEF handlePatchStack
    <2>2. stack' \in SUBSET StackLayers
      BY <1>3, ToggledType DEF handlePatchStack, ConfTypeOK
    <2> QED
      BY <1>3, <2>1, <2>2 DEF handlePatchStack, ConfTypeOK
  <1>4. ASSUME NEW l, NEW a \in App, handlePutAppEnvConfig(a, l)
        PROVE  ConfTypeOK'
    <2>0. NewJob("app", a, None, "load", Nothing) \in Busy
      BY NewJobType, NothingType
    <2>1. job' \in [Slot -> Goroutines] /\ edits' \in 0..MaxEdits /\ UNCHANGED <<git, faults>>
      BY <1>4, <2>0, EditType DEF handlePutAppEnvConfig
    <2>2. app[a] \in AppSpecs
      BY <1>4 DEF handlePutAppEnvConfig, ConfTypeOK, Saved
    <2>3. Toggled(app[a].vars, l) \in SUBSET AppLayers
      BY <1>4, <2>2, ToggledType DEF handlePutAppEnvConfig, AppSpecs
    <2>4. [app[a] EXCEPT !.vars = Toggled(@, l)] \in AppSpecs
      BY <2>2, <2>3 DEF AppSpecs
    <2>5. app' \in [App -> AppSpecs \cup {Missing}]
      BY <1>4, <2>4 DEF handlePutAppEnvConfig, ConfTypeOK
    <2> QED
      BY <1>4, <2>1, <2>5 DEF handlePutAppEnvConfig, ConfTypeOK
  <1>5. ASSUME NEW l, NEW c \in Cluster, handlePutClusterEnvConfig(c, l)
        PROVE  ConfTypeOK'
    <2>0. NewJob("cluster", None, c, "load", Nothing) \in Busy
      BY NewJobType, NothingType
    <2>1. job' \in [Slot -> Goroutines] /\ edits' \in 0..MaxEdits /\ UNCHANGED <<git, faults>>
      BY <1>5, <2>0, EditType DEF handlePutClusterEnvConfig
    <2>2. Toggled(cluster[c], l) \in SUBSET ClusterLayers
      BY <1>5, ToggledType DEF handlePutClusterEnvConfig, ConfTypeOK
    <2>3. cluster' \in [Cluster -> SUBSET ClusterLayers]
      BY <1>5, <2>2 DEF handlePutClusterEnvConfig, ConfTypeOK
    <2> QED
      BY <1>5, <2>1, <2>3 DEF handlePutClusterEnvConfig, ConfTypeOK
  <1>6. ASSUME NEW a \in App, handleSetAppStack(a)
        PROVE  ConfTypeOK'
    <2> DEFINE spec == [app[a] EXCEPT !.member = ~@]
    <2>1. app[a] \in AppSpecs
      BY <1>6 DEF handleSetAppStack, ConfTypeOK, Saved
    <2>2. spec \in AppSpecs
      BY <2>1 DEF AppSpecs
    <2>3. [Nothing EXCEPT ![a] = spec] \in Todos
      BY <2>2, NothingType DEF Todos
    <2>4. NewJob("given", a, None, "next", [Nothing EXCEPT ![a] = spec]) \in Busy
      BY <2>3, NewJobType
    <2> HIDE DEF spec
    <2>5. /\ app' = [app EXCEPT ![a] = spec]
          /\ Edit({a}, NewJob("given", a, None, "next", [Nothing EXCEPT ![a] = spec]))
      BY <1>6 DEF handleSetAppStack, spec
    <2>6. job' \in [Slot -> Goroutines] /\ edits' \in 0..MaxEdits /\ UNCHANGED <<git, faults>>
      BY <2>4, <2>5, EditType
    <2>7. app' \in [App -> AppSpecs \cup {Missing}]
      BY <2>2, <2>5 DEF ConfTypeOK
    <2> QED
      BY <1>6, <2>6, <2>7 DEF handleSetAppStack, ConfTypeOK
  <1>7. ASSUME NEW a \in App, handleDeleteApp(a)
        PROVE  ConfTypeOK'
    <2>0. NewJob("delete", a, None, "unpublish", Nothing) \in Busy
      BY NewJobType, NothingType
    <2>1. job' \in [Slot -> Goroutines] /\ edits' \in 0..MaxEdits /\ UNCHANGED <<git, faults>>
      BY <1>7, <2>0, EditType DEF handleDeleteApp
    <2>2. app' \in [App -> AppSpecs \cup {Missing}]
      BY <1>7 DEF handleDeleteApp, ConfTypeOK
    <2> QED
      BY <1>7, <2>1, <2>2 DEF handleDeleteApp, ConfTypeOK
  <1>8. ASSUME NEW b \in Choices, handleUpdateOrgEnvironment(b)
        PROVE  ConfTypeOK'
    <2>1. job' \in [Slot -> Goroutines] /\ edits' \in 0..MaxEdits /\ UNCHANGED <<git, faults>>
      BY <1>0, <1>8, EditType, QuietEditType DEF handleUpdateOrgEnvironment
    <2>2. org' \in [vars : SUBSET OrgLayers, binding : Bindings]
      BY <1>8, ChoicesAssumption DEF handleUpdateOrgEnvironment, ConfTypeOK
    <2>3. owed' \in SUBSET App
      BY <1>8 DEF handleUpdateOrgEnvironment, ConfTypeOK
    <2> QED
      BY <1>8, <2>1, <2>2, <2>3 DEF handleUpdateOrgEnvironment, ConfTypeOK
  <1>9. ASSUME NEW i \in Items, handleUpsertSecrets(i) \/ handleDeleteSecret(i)
        PROVE  ConfTypeOK'
    <2>1. job' \in [Slot -> Goroutines] /\ edits' \in 0..MaxEdits /\ UNCHANGED <<git, faults>>
      BY <1>9, QuietEditType DEF handleUpsertSecrets, handleDeleteSecret
    <2>2. vault' \in [Items -> {"none", "empty", "keys"}]
      BY <1>9 DEF handleUpsertSecrets, handleDeleteSecret, ConfTypeOK
    <2> QED
      BY <1>9, <2>1, <2>2 DEF handleUpsertSecrets, handleDeleteSecret, layers, ConfTypeOK
  <1>10. ASSUME NEW select \in Selections, handleSetStackTargetClusters(select)
        PROVE  ConfTypeOK'
    <2> DEFINE members == {a \in Saved : app[a].member}
               todo == [a \in App |-> IF a \in members THEN [app[a] EXCEPT !.select = select]
                                      ELSE Missing]
    <2>1. members \in SUBSET App /\ \A a \in members : app[a] \in AppSpecs
      BY DEF Saved, ConfTypeOK
    <2>2. \A a \in members : [app[a] EXCEPT !.select = select] \in AppSpecs
      BY <2>1, SelectionsAssumption DEF AppSpecs
    <2>3. todo \in Todos
      BY <2>2 DEF Todos
    <2>4. NewJob("given", None, None, "next", todo) \in Busy
      BY <2>3, NewJobType
    <2>5. Edit(members, NewJob("given", None, None, "next", todo))
      BY <1>10 DEF handleSetStackTargetClusters
    <2>6. job' \in [Slot -> Goroutines] /\ edits' \in 0..MaxEdits /\ UNCHANGED <<git, faults>>
      BY <2>1, <2>4, <2>5, EditType
    <2>7. app' = [a \in App |-> IF a \in members THEN todo[a] ELSE app[a]]
      BY <1>10 DEF handleSetStackTargetClusters
    <2>8. app' \in [App -> AppSpecs \cup {Missing}]
      BY <2>3, <2>7 DEF ConfTypeOK, Todos
    <2> QED
      BY <1>10, <2>6, <2>8 DEF handleSetStackTargetClusters, ConfTypeOK
  <1> QED
    BY <1>1, <1>2, <1>3, <1>4, <1>5, <1>6, <1>7, <1>8, <1>9, <1>10

-----------------------------------------------------------------------------
(* What the goroutines do to their job.                                    *)

\* A job that is about an app is about one of the apps, and one that reads was
\* given it.
Placed(j) ==
    /\ j.at \in {"read", "commit", "unpublish"} => j.app \in App
    /\ j.at = "load" => j.op \notin {"given", "delete"} /\ (j.op = "app" => j.app \in App)
    /\ j.at = "read" => j.todo[j.app] # Missing

Others(s) == job' \in [Slot -> Goroutines] /\ \A r \in Slot \ {s} : job'[r] = job[r]

LEMMA SnapshotType ==
    ASSUME ConfTypeOK, NEW s \in Slot
    PROVE  Snapshot(s) \in Todos
  BY DEF Snapshot, Todos, ConfTypeOK

LEMMA FinishShape ==
    ASSUME ConfTypeOK, NEW s \in Slot, Finishes(s)
    PROVE  Others(s) /\ job'[s] = Unused
  BY DEF Finishes, Others, ConfTypeOK, Goroutines

LEMMA BecomesShape ==
    ASSUME ConfTypeOK, NEW s \in Slot, NEW j \in Busy, job' = [job EXCEPT ![s] = j]
    PROVE  Others(s) /\ job'[s] = j
  BY DEF Others, ConfTypeOK, Goroutines

LEMMA LoadShape ==
    ASSUME ConfTypeOK, NEW s \in Slot, Load(s)
    PROVE  /\ Others(s) /\ job[s] \in Busy
           /\ \/ /\ UNCHANGED <<faults, owed>>
                 /\ job'[s] \in Busy /\ job'[s].at = "next" /\ job'[s].todo = Snapshot(s)
              \/ /\ Fault /\ job'[s] = Unused
                 /\ owed' = owed \cup {a \in App : job[s].op = "app" => a = job[s].app}
  <1>1. job[s] \in Busy
    BY JobFacts DEF Load
  <1>2. CASE /\ job' = [job EXCEPT ![s].at = "next", ![s].todo = Snapshot(s), ![s].fresh = App]
             /\ UNCHANGED <<faults, owed>>
    <2> DEFINE j == [job[s] EXCEPT !.at = "next", !.todo = Snapshot(s), !.fresh = App]
    <2>1. j \in Busy /\ j.at = "next" /\ j.todo = Snapshot(s)
      BY <1>1, SnapshotType, BusyIs
    <2>2. job' = [job EXCEPT ![s] = j]
      BY <1>2 DEF ConfTypeOK
    <2> HIDE DEF j
    <2> QED
      BY <1>1, <1>2, <2>1, <2>2, BecomesShape
  <1>3. CASE Fault /\ Finishes(s) /\
             owed' = owed \cup {a \in App : job[s].op = "app" => a = job[s].app}
    BY <1>1, <1>3, FinishShape
  <1> QED
    BY <1>2, <1>3 DEF Load

\* Where an app runs is found out right, or it is no longer fresh.
LEMMA NextShape ==
    ASSUME ConfTypeOK, NEW s \in Slot, NEW a \in App, NextApp(s, a)
    PROVE  /\ Others(s) /\ job[s] \in Busy /\ job'[s] \in Busy
           /\ job'[s].fresh \subseteq job[s].fresh /\ job[s].todo[a] # Missing
           /\ \/ /\ UNCHANGED owed /\ (UNCHANGED faults \/ Fault) /\ Bound(org.binding)
                 /\ job'[s].at = "read" /\ job'[s].todo = job[s].todo /\ job'[s].app = a
                 /\ a \in job'[s].fresh =>
                       /\ job'[s].targets = TargetsOf(job[s].todo[a], org.binding)
                       /\ job'[s].follows = Follows(job[s].todo[a], org.binding)
              \/ /\ job'[s].at = "next" /\ job'[s].todo = [job[s].todo EXCEPT ![a] = Missing]
                 /\ \/ /\ UNCHANGED <<faults, owed>>
                       /\ ~Bound(org.binding) \/ a \notin Saved
                    \/ Fault /\ owed' = owed \cup {a}
  <1>1. /\ job[s] \in Busy /\ job[s].at = "next" /\ job[s].todo \in Todos
        /\ job[s].todo[a] # Missing /\ job[s].fresh \in SUBSET App
    BY JobFacts, BusyIs DEF NextApp
  <1>2. job \in [Slot -> Goroutines] /\ org.binding \in Bindings
    BY DEF ConfTypeOK, Goroutines
  <1> DEFINE spec == job[s].todo[a]
             passed == [job[s].todo EXCEPT ![a] = Missing]
             follows == Follows(spec, org.binding)
  <1>3. passed \in Todos /\ spec \in AppSpecs /\ follows \in BOOLEAN
    BY <1>1 DEF Todos, Follows
  <1>4. \/ /\ UNCHANGED <<faults, owed>> /\ Bound(org.binding)
           /\ job' = [job EXCEPT ![s].at = "read", ![s].app = a,
                                 ![s].targets = TargetsOf(spec, org.binding),
                                 ![s].follows = follows, ![s].fresh = job[s].fresh]
        \/ /\ UNCHANGED <<faults, owed>> /\ (~Bound(org.binding) \/ a \notin Saved)
           /\ job' = [job EXCEPT ![s].todo = passed]
        \/ Fault /\ owed' = owed \cup {a} /\ job' = [job EXCEPT ![s].todo = passed]
        \/ /\ Fault /\ UNCHANGED owed /\ Bound(org.binding)
           /\ \E clusters \in SUBSET ResolveDeployTargets(org.binding),
                 all \in SUBSET RefsOf(org.binding) :
                 job' = [job EXCEPT ![s].at = "read", ![s].app = a,
                                    ![s].targets = appClusterTargets(spec.select, clusters, all),
                                    ![s].follows = follows, ![s].fresh = job[s].fresh \ {a}]
    BY DEF NextApp, HasEnvironments
  <1> HIDE DEF follows, passed
  <1>5. ASSUME job' = [job EXCEPT ![s].todo = passed]
        PROVE  Others(s) /\ job'[s] \in Busy /\ job'[s].fresh = job[s].fresh
               /\ job'[s].at = "next" /\ job'[s].todo = passed
    <2> DEFINE p == [job[s] EXCEPT !.todo = passed]
    <2>1. p \in Busy /\ p.at = "next" /\ p.todo = passed /\ p.fresh = job[s].fresh
      BY <1>1, <1>3, BusyIs
    <2>2. job' = [job EXCEPT ![s] = p]
      BY <1>2, <1>5
    <2> HIDE DEF p
    <2> QED
      BY <2>1, <2>2, BecomesShape
  <1>6. ASSUME NEW targets \in SUBSET Cluster, NEW fresh \in SUBSET job[s].fresh,
               job' = [job EXCEPT ![s].at = "read", ![s].app = a, ![s].targets = targets,
                                  ![s].follows = follows, ![s].fresh = fresh]
        PROVE  /\ Others(s) /\ job'[s] \in Busy /\ job'[s].fresh = fresh
               /\ job'[s].at = "read" /\ job'[s].todo = job[s].todo /\ job'[s].app = a
               /\ job'[s].targets = targets /\ job'[s].follows = follows
    <2> DEFINE r == [job[s] EXCEPT !.at = "read", !.app = a, !.targets = targets,
                                   !.follows = follows, !.fresh = fresh]
    <2>1. /\ r \in Busy /\ r.at = "read" /\ r.todo = job[s].todo /\ r.app = a
          /\ r.targets = targets /\ r.follows = follows /\ r.fresh = fresh
      BY <1>1, <1>3, BusyIs
    <2>2. job' = [job EXCEPT ![s] = r]
      BY <1>2, <1>6
    <2> HIDE DEF r
    <2> QED
      BY <2>1, <2>2, BecomesShape
  <1>7. TargetsOf(spec, org.binding) \in SUBSET Cluster
    BY <1>2, <1>3, TargetsType DEF TargetsOf
  <1>8. CASE \/ /\ UNCHANGED <<faults, owed>> /\ (~Bound(org.binding) \/ a \notin Saved)
                /\ job' = [job EXCEPT ![s].todo = passed]
             \/ Fault /\ owed' = owed \cup {a} /\ job' = [job EXCEPT ![s].todo = passed]
    BY <1>1, <1>5, <1>8 DEF passed
  <1>9. CASE /\ UNCHANGED <<faults, owed>> /\ Bound(org.binding)
             /\ job' = [job EXCEPT ![s].at = "read", ![s].app = a,
                                   ![s].targets = TargetsOf(spec, org.binding),
                                   ![s].follows = follows, ![s].fresh = job[s].fresh]
    <2>1. /\ Others(s) /\ job'[s] \in Busy /\ job'[s].fresh = job[s].fresh
          /\ job'[s].at = "read" /\ job'[s].todo = job[s].todo /\ job'[s].app = a
          /\ job'[s].targets = TargetsOf(spec, org.binding) /\ job'[s].follows = follows
      BY <1>6, <1>7, <1>9
    <2> QED
      BY <1>1, <1>9, <2>1 DEF follows
  <1>10. CASE /\ Fault /\ UNCHANGED owed /\ Bound(org.binding)
              /\ \E clusters \in SUBSET ResolveDeployTargets(org.binding),
                    all \in SUBSET RefsOf(org.binding) :
                    job' = [job EXCEPT ![s].at = "read", ![s].app = a,
                                       ![s].targets = appClusterTargets(spec.select, clusters, all),
                                       ![s].follows = follows, ![s].fresh = job[s].fresh \ {a}]
    <2>1. PICK clusters \in SUBSET ResolveDeployTargets(org.binding),
               all \in SUBSET RefsOf(org.binding) :
                 job' = [job EXCEPT ![s].at = "read", ![s].app = a,
                                    ![s].targets = appClusterTargets(spec.select, clusters, all),
                                    ![s].follows = follows, ![s].fresh = job[s].fresh \ {a}]
      BY <1>10
    <2>2. appClusterTargets(spec.select, clusters, all) \in SUBSET Cluster
      BY <1>2, <1>3, TargetsType
    <2>3. job[s].fresh \ {a} \in SUBSET job[s].fresh
      OBVIOUS
    <2>4. /\ Others(s) /\ job'[s] \in Busy /\ job'[s].fresh = job[s].fresh \ {a}
          /\ job'[s].at = "read" /\ job'[s].todo = job[s].todo /\ job'[s].app = a
      BY <1>6, <2>1, <2>2, <2>3
    <2> QED
      BY <1>1, <1>10, <2>4
  <1> QED
    BY <1>4, <1>8, <1>9, <1>10

\* Another publication of the app: which items, from whose cluster's layers, and
\* which layers could not be read.
LEMMA ReadsShape ==
    ASSUME ConfTypeOK, NEW s \in Slot, job[s].at = "read", Placed(job[s]),
           NEW c \in Cluster \cup {None}, NEW items \in SUBSET Items, NEW unread,
           Reads(s, c, items, unread)
    PROVE  /\ Others(s) /\ job'[s] \in Busy /\ job'[s].at = "commit"
           /\ job'[s].app = job[s].app
           /\ job'[s].todo = [job[s].todo EXCEPT ![job[s].app] = Missing]
           /\ job'[s].pub = [targets |-> job[s].targets, items |-> items,
                             follows |-> job[s].follows,
                             value |-> mergeAllEnvVars(job[s].todo[job[s].app], c, unread)]
           /\ job'[s].fresh \subseteq job[s].fresh
           /\ unread # {} => job[s].app \notin job'[s].fresh
  <1> DEFINE a == job[s].app
             todo == [job[s].todo EXCEPT ![a] = Missing]
             pub == [targets |-> job[s].targets, items |-> items, follows |-> job[s].follows,
                     value |-> mergeAllEnvVars(job[s].todo[a], c, unread)]
             fresh == IF unread = {} THEN job[s].fresh ELSE job[s].fresh \ {a}
             j == [job[s] EXCEPT !.at = "commit", !.pub = pub, !.todo = todo, !.fresh = fresh]
  <1>1. job[s] \in Busy /\ a \in App /\ job[s].todo[a] # Missing
    BY JobFacts DEF Placed
  <1>2. /\ job[s].todo \in Todos /\ job[s].targets \in SUBSET Cluster /\ job[s].fresh \in SUBSET App
        /\ job[s].follows \in BOOLEAN
    BY <1>1, BusyIs
  <1>3. todo \in Todos /\ job[s].todo[a] \in AppSpecs
    BY <1>1, <1>2 DEF Todos
  <1>4. pub \in Pubs
    <2>1. mergeAllEnvVars(job[s].todo[a], c, unread) \in Values
      BY <1>3, MergedType
    <2> QED
      BY <1>2, <2>1 DEF Pubs, Published
  <1>5. fresh \in SUBSET App /\ fresh \subseteq job[s].fresh /\ (unread # {} => a \notin fresh)
    BY <1>2
  <1>a. job' = [job EXCEPT ![s].at = "commit", ![s].pub = pub,
                           ![s].todo[a] = Missing, ![s].fresh = fresh]
    <2>1. job \in [Slot -> Goroutines] /\ job[s] \in Busy
      BY <1>1 DEF ConfTypeOK, Goroutines
    <2> QED
      BY <2>1, BusyIs DEF Reads
  <1> HIDE DEF pub, fresh
  <1>6. job' = [job EXCEPT ![s] = j]
    <2>1. job \in [Slot -> Goroutines] /\ job[s] \in Busy
      BY <1>1 DEF ConfTypeOK, Goroutines
    <2> QED
      BY <1>a, <2>1, BusyIs
  <1> HIDE DEF todo
  <1>7. /\ j \in Busy /\ j.at = "commit" /\ j.app = a /\ j.todo = todo /\ j.pub = pub
        /\ j.fresh = fresh
    BY <1>1, <1>3, <1>4, <1>5, BusyIs
  <1> HIDE DEF j
  <1>8. Others(s) /\ job'[s] = j
    BY <1>6, <1>7, BecomesShape
  <1> QED
    BY <1>5, <1>7, <1>8 DEF todo, pub

LEMMA EnsuredFacts ==
    ASSUME ConfTypeOK, NEW a \in App
    PROVE  /\ Ensured(a) \in [Items -> {"none", "empty", "keys"}]
           /\ Ensured(a)[a] # "none"
           /\ \A i \in Items : vault[i] # "none" => Ensured(a)[i] # "none"
  BY DEF Ensured, ConfTypeOK, Items

LEMMA ItemsOfFacts ==
    ASSUME ConfTypeOK, NEW a \in App, NEW c \in Cluster \cup {None}, NEW ensured \in BOOLEAN
    PROVE  /\ ItemsOf(a, c, ensured) \in SUBSET Items
           /\ \A i \in ItemsOf(a, c, ensured) : vault[i] # "none" \/ (ensured /\ i = a)
  <1>1. a \in Items /\ "shared" \in Items /\ (c # None => c \in Items)
    BY DEF Items
  <1> QED
    BY <1>1 DEF ItemsOf

LEMMA ReadLayersShape ==
    ASSUME ConfTypeOK, NEW s \in Slot, Placed(job[s]), ReadLayers(s)
    PROVE  /\ job[s].at = "read" /\ job[s] \in Busy
           /\ Others(s) /\ job'[s] \in Busy /\ job'[s].at = "commit"
           /\ job'[s].app = job[s].app /\ job[s].app \in App
           /\ job'[s].todo = [job[s].todo EXCEPT ![job[s].app] = Missing]
           /\ job'[s].pub.targets = job[s].targets /\ job'[s].pub.follows = job[s].follows
           /\ \A i \in job'[s].pub.items : i \in Items /\ vault'[i] # "none"
           /\ job'[s].fresh \subseteq job[s].fresh
           /\ job[s].app \in job'[s].fresh =>
                 job'[s].pub.value = mergeAllEnvVars(job[s].todo[job[s].app],
                                                     EffectiveClusterRef(org.binding), {})
           /\ vault' \in [Items -> {"none", "empty", "keys"}]
           /\ \A i \in Items : vault[i] # "none" => vault'[i] # "none"
           /\ UNCHANGED faults \/ Fault
  <1> DEFINE a == job[s].app
             c == EffectiveClusterRef(org.binding)
  <1>1. job[s].at = "read" /\ a \in App /\ job[s] \in Busy
    BY JobFacts DEF ReadLayers, Placed
  <1>2. c \in Cluster \cup {None}
    BY BindingFacts DEF ConfTypeOK
  <1>3. ASSUME NEW items \in SUBSET Items, NEW unread, NEW d \in Cluster \cup {None},
               Reads(s, d, items, unread), unread = {} => d = c,
               \A i \in items : vault'[i] # "none"
        PROVE  /\ Others(s) /\ job'[s] \in Busy /\ job'[s].at = "commit"
               /\ job'[s].app = a
               /\ job'[s].todo = [job[s].todo EXCEPT ![a] = Missing]
               /\ job'[s].pub.targets = job[s].targets /\ job'[s].pub.follows = job[s].follows
               /\ \A i \in job'[s].pub.items : i \in Items /\ vault'[i] # "none"
               /\ job'[s].fresh \subseteq job[s].fresh
               /\ a \in job'[s].fresh =>
                     job'[s].pub.value = mergeAllEnvVars(job[s].todo[a], c, {})
    <2>1. /\ Others(s) /\ job'[s] \in Busy /\ job'[s].at = "commit"
          /\ job'[s].app = a
          /\ job'[s].todo = [job[s].todo EXCEPT ![a] = Missing]
          /\ job'[s].pub = [targets |-> job[s].targets, items |-> items,
                            follows |-> job[s].follows,
                            value |-> mergeAllEnvVars(job[s].todo[a], d, unread)]
          /\ job'[s].fresh \subseteq job[s].fresh
          /\ unread # {} => a \notin job'[s].fresh
      BY <1>1, <1>3, ReadsShape
    <2>2. /\ job'[s].pub.targets = job[s].targets /\ job'[s].pub.items = items
          /\ job'[s].pub.follows = job[s].follows
          /\ job'[s].pub.value = mergeAllEnvVars(job[s].todo[a], d, unread)
      BY <2>1
    <2> QED
      BY <1>3, <2>1, <2>2
  <1>4. ItemsOf(a, c, TRUE) \in SUBSET Items /\ ItemsOf(a, c, FALSE) \in SUBSET Items
    BY <1>1, <1>2, ItemsOfFacts
  <1>5. CASE vault' = Ensured(a)
    <2>1. \A i \in ItemsOf(a, c, TRUE) : vault'[i] # "none"
      <3>1. \A i \in Items : vault[i] # "none" => vault'[i] # "none"
        BY <1>1, <1>5, EnsuredFacts
      <3>2. vault'[a] # "none"
        BY <1>1, <1>5, EnsuredFacts
      <3>3. \A i \in ItemsOf(a, c, TRUE) : i \in Items /\ (vault[i] # "none" \/ i = a)
        BY <1>1, <1>2, <1>4, ItemsOfFacts
      <3> QED
        BY <3>1, <3>2, <3>3
    <2>2. /\ vault' \in [Items -> {"none", "empty", "keys"}]
          /\ \A i \in Items : vault[i] # "none" => vault'[i] # "none"
      BY <1>1, <1>5, EnsuredFacts
    <2>3. CASE Reads(s, c, ItemsOf(a, c, TRUE), {}) /\ UNCHANGED faults
      BY <1>1, <1>2, <1>3, <1>4, <2>1, <2>2, <2>3
    <2>4. CASE Fault /\ \E unread : Reads(s, c, ItemsOf(a, c, TRUE), unread)
      BY <1>1, <1>2, <1>3, <1>4, <2>1, <2>2, <2>4
    <2>5. CASE UNCHANGED vault /\ Fault /\ Reads(s, c, ItemsOf(a, c, FALSE), {})
      <3>1. \A i \in ItemsOf(a, c, FALSE) : vault'[i] # "none"
        BY <1>1, <1>2, <2>5, ItemsOfFacts
      <3> QED
        BY <1>1, <1>2, <1>3, <1>4, <2>2, <2>5, <3>1
    <2>6. CASE UNCHANGED vault /\ Fault /\ Reads(s, None, {}, OrgLayers)
      <3>1. OrgLayers # {} /\ None \in Cluster \cup {None} /\ {} \in SUBSET Items
        BY DEF OrgLayers
      <3> QED
        BY <1>1, <1>3, <2>2, <2>6, <3>1
    <2> QED
      BY <1>5, <2>3, <2>4, <2>5, <2>6 DEF ReadLayers
  <1>6. CASE UNCHANGED vault
    <2>1. vault' \in [Items -> {"none", "empty", "keys"}]
      BY <1>6 DEF ConfTypeOK
    <2>2. CASE Fault /\ Reads(s, c, ItemsOf(a, c, FALSE), {})
      <3>1. \A i \in ItemsOf(a, c, FALSE) : vault'[i] # "none"
        BY <1>1, <1>2, <1>6, ItemsOfFacts
      <3> QED
        BY <1>1, <1>2, <1>3, <1>4, <1>6, <2>1, <2>2, <3>1
    <2>3. CASE Fault /\ Reads(s, None, {}, OrgLayers)
      <3>1. OrgLayers # {} /\ None \in Cluster \cup {None} /\ {} \in SUBSET Items
        BY DEF OrgLayers
      <3> QED
        BY <1>1, <1>3, <1>6, <2>1, <2>3, <3>1
    <2>4. CASE vault' = Ensured(a)
      BY <1>5, <2>4
    <2> QED
      BY <1>6, <2>2, <2>3, <2>4 DEF ReadLayers
  <1> QED
    BY <1>5, <1>6 DEF ReadLayers

LEMMA CommitShape ==
    ASSUME ConfTypeOK, NEW s \in Slot, Placed(job[s]), PublishApp(s)
    PROVE  /\ job[s].at = "commit" /\ job[s] \in Busy
           /\ Others(s) /\ job'[s] \in Busy /\ job'[s].at = "next"
           /\ job[s].app \in App /\ job[s].pub \in Pubs
           /\ job'[s].todo = job[s].todo /\ job'[s].fresh = job[s].fresh
  <1>1. job[s] \in Busy /\ job[s].at = "commit" /\ job[s].app \in App
    BY JobFacts DEF PublishApp, Placed
  <1> DEFINE j == [job[s] EXCEPT !.at = "next", !.pub = Missing]
  <1>2. Missing \in Pubs
    BY DEF Pubs
  <1>3. j \in Busy /\ j.at = "next" /\ j.todo = job[s].todo /\ j.fresh = job[s].fresh
    BY <1>1, <1>2, BusyIs
  <1>4. job' = [job EXCEPT ![s] = j]
    BY DEF PublishApp, ConfTypeOK
  <1> HIDE DEF j
  <1>5. Others(s) /\ job'[s] = j
    BY <1>3, <1>4, BecomesShape
  <1> QED
    BY <1>1, <1>3, <1>5, BusyIs

LEMMA UnpublishShape ==
    ASSUME ConfTypeOK, NEW s \in Slot, Placed(job[s]), Unpublish(s)
    PROVE  /\ job[s].at = "unpublish" /\ job[s] \in Busy /\ job[s].app \in App
           /\ Others(s) /\ job'[s] = Unused
  <1>1. job[s] \in Busy /\ job[s].at = "unpublish" /\ job[s].app \in App
    BY JobFacts DEF Unpublish, Placed
  <1> QED
    BY <1>1, FinishShape DEF Unpublish

LEMMA NoMoreShape ==
    ASSUME ConfTypeOK, NEW s \in Slot, NoMoreApps(s)
    PROVE  /\ job[s].at = "next" /\ job[s] \in Busy /\ \A a \in App : job[s].todo[a] = Missing
           /\ Others(s) /\ job'[s] = Unused
  <1>1. job[s] \in Busy /\ job[s].at = "next" /\ \A a \in App : job[s].todo[a] = Missing
    BY JobFacts DEF NoMoreApps, Nothing
  <1> QED
    BY <1>1, FinishShape DEF NoMoreApps

Startup == NewJob("startup", None, None, "load", Nothing)

LEMMA RestartShape ==
    ASSUME ConfTypeOK, Restart
    PROVE  /\ job' \in [Slot -> Goroutines] /\ Startup \in Busy
           /\ \A s \in Slot : job'[s] = Unused \/ job'[s] = Startup
  <1>1. Startup \in Busy
    BY NewJobType, NothingType DEF Startup
  <1> QED
    BY <1>1 DEF Restart, Goroutines, Startup

\* What an edit does to the jobs: one begins, at most, the others know less.
EditOf(E, new) ==
    /\ \A s \in Slot : job[s].at # "idle" => job'[s] = [job[s] EXCEPT !.fresh = @ \ E]
    /\ \A s \in Slot : job[s].at = "idle" => job'[s] = Unused \/ job'[s] = new

LEMMA EditShape ==
    ASSUME ConfTypeOK, NEW E \in SUBSET App, NEW new, Edit(E, new)
    PROVE  /\ UNCHANGED git /\ EditOf(E, new)
           /\ \E s \in Slot : job[s].at = "idle" /\ job'[s] = new
  <1>1. PICK s \in Slot : job[s].at = "idle" /\ job' = [Overtaken(E) EXCEPT ![s] = new]
    BY DEF Edit
  <1>2. Overtaken(E) \in [Slot -> Goroutines]
    BY OvertakenFacts
  <1>3. job'[s] = new /\ \A r \in Slot \ {s} : job'[r] = Overtaken(E)[r]
    BY <1>1, <1>2
  <1> QED
    BY <1>1, <1>3, OvertakenFacts, JobFacts DEF Edit, EditOf

LEMMA QuietEditShape ==
    ASSUME ConfTypeOK, NEW E \in SUBSET App, QuietEdit(E)
    PROVE  UNCHANGED git /\ EditOf(E, Unused)
  BY OvertakenFacts, JobFacts DEF QuietEdit, EditOf

\* The steps of the goroutines.
StepTypes ==
    \/ \E s \in Slot :
          \/ Load(s) \/ NoMoreApps(s) \/ ReadLayers(s) \/ PublishApp(s) \/ Unpublish(s)
          \/ \E a \in App : NextApp(s, a)
    \/ Restart

AllPlaced == \A s \in Slot : Placed(job[s])

LEMMA PlacedStep ==
    ASSUME ConfTypeOK, AllPlaced, NEW s \in Slot, Others(s), Placed(job'[s])
    PROVE  AllPlaced'
  BY DEF AllPlaced, Others

LEMMA StepType ==
    ASSUME ConfTypeOK, AllPlaced, StepTypes
    PROVE  ConfTypeOK' /\ AllPlaced'
  <1> DEFINE Rest == /\ org \in [vars : SUBSET OrgLayers, binding : Bindings]
                     /\ project \in SUBSET ProjectLayers /\ stack \in SUBSET StackLayers
                     /\ cluster \in [Cluster -> SUBSET ClusterLayers]
                     /\ app \in [App -> AppSpecs \cup {Missing}]
                     /\ edits \in 0..MaxEdits
  <1>a. ASSUME UNCHANGED layers, UNCHANGED edits
        PROVE  Rest'
    <2>1. Rest
      BY DEF ConfTypeOK
    <2> QED
      BY <1>a, <2>1 DEF layers
  <1> HIDE DEF Rest
  <1>b. ASSUME Rest', vault' \in [Items -> {"none", "empty", "keys"}],
               git' \in [App -> Pubs], job' \in [Slot -> Goroutines], faults' \in 0..MaxFaults,
               owed' \in SUBSET App
        PROVE  ConfTypeOK'
    BY <1>b DEF Rest, ConfTypeOK, Goroutines, Pubs
  <1>c. /\ vault \in [Items -> {"none", "empty", "keys"}] /\ git \in [App -> Pubs]
        /\ faults \in 0..MaxFaults /\ owed \in SUBSET App
    BY DEF ConfTypeOK, Pubs
  <1>0. Placed(Unused)
    BY DEF Placed, Unused
  <1>1. ASSUME NEW s \in Slot, Load(s)
        PROVE  ConfTypeOK' /\ AllPlaced'
    <2>1. Placed(job'[s])
      BY <1>0, <1>1, LoadShape DEF Placed
    <2>2. /\ UNCHANGED <<layers, edits, vault, git>>
          /\ faults' \in 0..MaxFaults /\ owed' \in SUBSET App
      BY <1>1, <1>c, FaultType DEF Load
    <2>3. ConfTypeOK'
      BY <1>1, <1>a, <1>b, <1>c, <2>2, LoadShape DEF Others
    <2> QED
      BY <1>1, <2>1, <2>3, LoadShape, PlacedStep
  <1>2. ASSUME NEW s \in Slot, NoMoreApps(s)
        PROVE  ConfTypeOK' /\ AllPlaced'
    <2>1. UNCHANGED <<layers, edits, vault, git, faults, owed>>
      BY <1>2 DEF NoMoreApps
    <2>2. ConfTypeOK'
      BY <1>2, <1>a, <1>b, <1>c, <2>1, NoMoreShape DEF Others
    <2> QED
      BY <1>0, <1>2, <2>2, NoMoreShape, PlacedStep
  <1>3. ASSUME NEW s \in Slot, NEW a \in App, NextApp(s, a)
        PROVE  ConfTypeOK' /\ AllPlaced'
    <2>1. Placed(job'[s])
      BY <1>3, NextShape DEF Placed, NextApp
    <2>2. /\ UNCHANGED <<layers, edits, vault, git>>
          /\ faults' \in 0..MaxFaults /\ owed' \in SUBSET App
      BY <1>3, <1>c, FaultType DEF NextApp
    <2>3. ConfTypeOK'
      BY <1>3, <1>a, <1>b, <1>c, <2>2, NextShape DEF Others
    <2> QED
      BY <1>3, <2>1, <2>3, NextShape, PlacedStep
  <1>4. ASSUME NEW s \in Slot, ReadLayers(s)
        PROVE  ConfTypeOK' /\ AllPlaced'
    <2>0. Placed(job[s])
      BY DEF AllPlaced
    <2>1. Placed(job'[s])
      BY <1>4, <2>0, ReadLayersShape DEF Placed
    <2>2. UNCHANGED <<layers, edits, git, owed>> /\ faults' \in 0..MaxFaults
      BY <1>4, <1>c, <2>0, FaultType, ReadLayersShape DEF ReadLayers
    <2>3. ConfTypeOK'
      BY <1>4, <1>a, <1>b, <1>c, <2>0, <2>2, ReadLayersShape DEF Others
    <2> QED
      BY <1>4, <2>0, <2>1, <2>3, ReadLayersShape, PlacedStep
  <1>5. ASSUME NEW s \in Slot, PublishApp(s)
        PROVE  ConfTypeOK' /\ AllPlaced'
    <2>0. Placed(job[s])
      BY DEF AllPlaced
    <2>1. Placed(job'[s])
      BY <1>5, <2>0, CommitShape DEF Placed
    <2>2. /\ UNCHANGED <<layers, edits, vault>>
          /\ faults' \in 0..MaxFaults /\ owed' \in SUBSET App /\ git' \in [App -> Pubs]
      BY <1>5, <1>c, <2>0, FaultType, CommitShape DEF PublishApp
    <2>3. ConfTypeOK'
      BY <1>5, <1>a, <1>b, <1>c, <2>0, <2>2, CommitShape DEF Others
    <2> QED
      BY <1>5, <2>0, <2>1, <2>3, CommitShape, PlacedStep
  <1>6. ASSUME NEW s \in Slot, Unpublish(s)
        PROVE  ConfTypeOK' /\ AllPlaced'
    <2>0. Placed(job[s])
      BY DEF AllPlaced
    <2>2. /\ UNCHANGED <<layers, edits, vault>>
          /\ faults' \in 0..MaxFaults /\ owed' \in SUBSET App /\ git' \in [App -> Pubs]
      BY <1>6, <1>c, <2>0, FaultType, UnpublishShape DEF Unpublish, Pubs
    <2>3. ConfTypeOK'
      BY <1>6, <1>a, <1>b, <1>c, <2>0, <2>2, UnpublishShape DEF Others
    <2> QED
      BY <1>0, <1>6, <2>0, <2>3, UnpublishShape, PlacedStep
  <1>7. ASSUME Restart
        PROVE  ConfTypeOK' /\ AllPlaced'
    <2>1. Placed(Startup)
      BY DEF Placed, Startup, NewJob
    <2>2. UNCHANGED <<layers, edits, vault, git>> /\ owed' = App /\ faults' \in 0..MaxFaults
      BY <1>7, FaultType DEF Restart
    <2> QED
      BY <1>0, <1>7, <1>a, <1>b, <1>c, <2>1, <2>2, RestartShape DEF AllPlaced
  <1> QED
    BY <1>1, <1>2, <1>3, <1>4, <1>5, <1>6, <1>7 DEF StepTypes

-----------------------------------------------------------------------------
(* What an app should look like in Git.                                    *)

\* How an app is configured, where it runs and its variable.
World ==
    [a \in App |->
        [spec    |-> app[a],
         targets |-> IF app[a] # Missing THEN TargetsOf(app[a], org.binding) ELSE {},
         follows |-> IF app[a] # Missing THEN Follows(app[a], org.binding) ELSE FALSE,
         value   |-> IF app[a] # Missing THEN ResolveEnvLayers(app[a]) ELSE Value(None, None),
         bound   |-> Bound(org.binding),
         refs    |-> RefsOf(org.binding)]]

Right(w, pub) == pub.targets = w.targets /\ pub.value = w.value /\ pub.follows = w.follows

\* What a goroutine has read of an app that has not been edited since is what is
\* saved.
FreshOK(j, w) ==
    /\ j.at \in {"next", "read", "commit"} =>
          \A a \in j.fresh : j.todo[a] # Missing => j.todo[a] = w[a].spec
    /\ j.at = "read" /\ j.app \in j.fresh =>
          w[j.app].bound /\ j.targets = w[j.app].targets /\ j.follows = w[j.app].follows
    /\ j.at = "commit" /\ j.app \in j.fresh =>
          w[j.app].spec # Missing /\ Right(w[j.app], j.pub)
    /\ j.at = "unpublish" => w[j.app].spec = Missing

\* A goroutine that publishes the app, whatever it finds of it.
Covers(j, a, v) ==
    /\ j.op = "app" => j.app = a
    /\ j.op = "members" => v.spec.member
    /\ j.op = "cluster" => j.cluster \in v.refs

WillPublish(j, a, v) ==
    \/ j.at = "load" /\ Covers(j, a, v)
    \/ j.at \in {"next", "read", "commit"} /\ j.todo[a] # Missing
    \/ j.at = "commit" /\ j.app = a

WillUnpublish(j, a) == j.at = "unpublish" /\ j.app = a

AllFresh == \A s \in Slot : FreshOK(job[s], World)

\* What has been deleted and is still published is about to be unpublished.
DeletedInv ==
    \A a \in App \ owed : app[a] = Missing =>
        git[a] = Missing \/ \E s \in Slot : WillUnpublish(job[s], a)

\* What is saved is published as it is, or about to be.
SavedInv ==
    \A a \in App \ owed : app[a] # Missing /\ World[a].bound =>
        Right(World[a], git[a]) \/ \E s \in Slot : WillPublish(job[s], a, World[a])

\* The resolved view depends on the layers that are set and on the cluster only.
Shown(S, c) ==
    LET wins == {l \in S : \A k \in S : Level(k) <= Level(l)}
    IN  CASE wins = {}             -> Value(None, c)
          [] "clusterEnv" \in wins -> Value("clusterEnv", c)
          [] OTHER                 -> Value(CHOOSE l \in wins : TRUE, c)

LEMMA ResolvedAs ==
    ASSUME NEW spec
    PROVE  ResolveEnvLayers(spec)
              = Shown(Set(spec, EffectiveClusterRef(org.binding)), EffectiveClusterRef(org.binding))
  BY DEF ResolveEnvLayers, Shown

LEMMA ResolvedAsNext ==
    ASSUME NEW spec
    PROVE  (ResolveEnvLayers(spec)
              = Shown(Set(spec, EffectiveClusterRef(org.binding)), EffectiveClusterRef(org.binding)))'
  BY DEF ResolveEnvLayers, Shown

\* An edit leaves the view of an app alone unless it is of a layer that applies.
LEMMA ResolvedStays ==
    ASSUME ConfTypeOK, NEW spec \in AppSpecs, UNCHANGED project,
           org'.binding = org.binding, org'.vars = org.vars, spec.member => UNCHANGED stack,
           EffectiveClusterRef(org.binding) # None =>
              cluster'[EffectiveClusterRef(org.binding)]
                 = cluster[EffectiveClusterRef(org.binding)]
    PROVE  ResolveEnvLayers(spec)' = ResolveEnvLayers(spec)
  <1>1. PICK c : c = EffectiveClusterRef(org.binding)
    OBVIOUS
  <1>2. Set(spec, c)' = Set(spec, c)
    <2>1. \/ spec.member /\ stack' = stack
          \/ ~spec.member
      OBVIOUS
    <2>2. (IF spec.member THEN stack' ELSE {}) = (IF spec.member THEN stack ELSE {})
      BY <2>1
    <2>3. (IF c # None THEN cluster'[c] ELSE {}) = (IF c # None THEN cluster[c] ELSE {})
      BY <1>1
    <2> QED
      BY <2>2, <2>3 DEF Set
  <1>3. ResolveEnvLayers(spec)' = Shown(Set(spec, c)', c)
    BY <1>1, ResolvedAsNext
  <1>4. ResolveEnvLayers(spec) = Shown(Set(spec, c), c)
    BY <1>1, ResolvedAs
  <1> QED
    BY <1>2, <1>3, <1>4

\* Nothing of what an app is configured with changes.
LEMMA WorldStays ==
    ASSUME ConfTypeOK, NEW a \in App, UNCHANGED project,
           org'.binding = org.binding, org'.vars = org.vars, app'[a] = app[a],
           app[a] # Missing /\ app[a].member => UNCHANGED stack,
           EffectiveClusterRef(org.binding) # None =>
              cluster'[EffectiveClusterRef(org.binding)]
                 = cluster[EffectiveClusterRef(org.binding)]
    PROVE  World'[a] = World[a]
  <1>1. PICK spec \in AppSpecs \cup {Missing} : spec = app[a]
    BY DEF ConfTypeOK
  <1>2. spec # Missing => ResolveEnvLayers(spec)' = ResolveEnvLayers(spec)
    BY <1>1, ResolvedStays
  <1>3. World[a] = [spec |-> spec,
                    targets |-> IF spec # Missing THEN TargetsOf(spec, org.binding) ELSE {},
                    follows |-> IF spec # Missing THEN Follows(spec, org.binding) ELSE FALSE,
                    value |-> IF spec # Missing THEN ResolveEnvLayers(spec) ELSE Value(None, None),
                    bound |-> Bound(org.binding), refs |-> RefsOf(org.binding)]
    BY <1>1 DEF World
  <1>4. World'[a] = [spec |-> spec,
                     targets |-> IF spec # Missing THEN TargetsOf(spec, org'.binding) ELSE {},
                     follows |-> IF spec # Missing THEN Follows(spec, org'.binding) ELSE FALSE,
                     value |-> IF spec # Missing THEN ResolveEnvLayers(spec)' ELSE Value(None, None),
                     bound |-> Bound(org'.binding), refs |-> RefsOf(org'.binding)]
    BY <1>1 DEF World
  <1> QED
    BY <1>2, <1>3, <1>4

LEMMA WorldSame ==
    ASSUME ConfTypeOK, UNCHANGED layers
    PROVE  World' = World
  <1>1. \A a \in App : World'[a] = World[a]
    BY WorldStays DEF layers
  <1> QED
    BY <1>1 DEF World

-----------------------------------------------------------------------------
(* Requests, as the publications see them.                                 *)

RequestNext ==
    \/ \E l \in {Layers[i] : i \in DOMAIN Layers} :
         \/ handlePutOrgEnvConfig(l) \/ handlePutProjectEnvConfig(l) \/ handlePatchStack(l)
         \/ \E a \in App : handlePutAppEnvConfig(a, l)
         \/ \E c \in Cluster : handlePutClusterEnvConfig(c, l)
    \/ \E a \in App : handleSetAppStack(a) \/ handleDeleteApp(a)
    \/ \E select \in Selections : handleSetStackTargetClusters(select)
    \/ \E b \in Choices : handleUpdateOrgEnvironment(b)
    \/ \E i \in Items : handleUpsertSecrets(i) \/ handleDeleteSecret(i)

\* A request counts as an edit of the apps O, edits no other than E, and leaves
\* each of them to the operator or to the job that it begins.
Requested(O, E, new) ==
    /\ UNCHANGED git /\ owed \subseteq owed'
    /\ EditOf(O, new)
    /\ new.at \in {"idle", "load", "next", "unpublish"} /\ Placed(new) /\ FreshOK(new, World')
    /\ \A a \in App \ E : World'[a] = World[a]
    /\ \A a \in App : app[a] = Missing => app'[a] = Missing
    /\ \A i \in Items : vault[i] # "none" => vault'[i] # "none"
    /\ \A a \in E \ owed' :
          /\ \E s \in Slot : job[s].at = "idle" /\ job'[s] = new
          /\ app'[a] = Missing => app[a] = Missing \/ WillUnpublish(new, a)
          /\ app'[a] # Missing => WillPublish(new, a, World'[a])

LEMMA LoadingJob ==
    ASSUME NEW op \in {"apps", "members", "cluster"}, NEW c
    PROVE  LET j == NewJob(op, None, c, "load", Nothing) IN
           /\ j.at = "load" /\ Placed(j) /\ FreshOK(j, World')
           /\ \A a : WillPublish(j, a, World'[a]) <=>
                /\ op = "members" => World'[a].spec.member
                /\ op = "cluster" => c \in World'[a].refs
  BY DEF NewJob, Placed, FreshOK, WillPublish, Covers

\* A request about everything.
LEMMA EditsAll ==
    ASSUME ConfTypeOK, Edit(App, NewJob("apps", None, None, "load", Nothing)),
           UNCHANGED <<app, vault, owed>>
    PROVE  \E new : Requested(App, App, new)
  <1> DEFINE new == NewJob("apps", None, None, "load", Nothing)
  <1>1. UNCHANGED git /\ EditOf(App, new) /\ \E s \in Slot : job[s].at = "idle" /\ job'[s] = new
    BY EditShape
  <1>2. new.at = "load" /\ Placed(new) /\ FreshOK(new, World') /\ \A a : WillPublish(new, a, World'[a])
    BY LoadingJob
  <1> HIDE DEF new
  <1>3. Requested(App, App, new)
    BY <1>1, <1>2 DEF Requested
  <1> QED
    BY <1>3

LEMMA RequestShape ==
    ASSUME ConfTypeOK, RequestNext
    PROVE  \E O \in SUBSET App : \E E \in SUBSET O : \E new : Requested(O, E, new)
  <1>0. App \in SUBSET App
    OBVIOUS
  <1>1. ASSUME NEW l, handlePutOrgEnvConfig(l) \/ handlePutProjectEnvConfig(l)
        PROVE  \E new : Requested(App, App, new)
    BY <1>1, EditsAll DEF handlePutOrgEnvConfig, handlePutProjectEnvConfig
  <1>2. ASSUME NEW l, NEW a \in App, handlePutAppEnvConfig(a, l)
        PROVE  \E new : Requested({a}, {a}, new)
    <2> DEFINE new == NewJob("app", a, None, "load", Nothing)
    <2>1. UNCHANGED git /\ EditOf({a}, new) /\ \E s \in Slot : job[s].at = "idle" /\ job'[s] = new
      BY <1>2, EditShape DEF handlePutAppEnvConfig
    <2>2. /\ new.at = "load" /\ Placed(new) /\ FreshOK(new, World')
          /\ WillPublish(new, a, World'[a])
      BY DEF NewJob, Placed, FreshOK, WillPublish, Covers
    <2> HIDE DEF new
    <2>3. /\ UNCHANGED <<org, project, stack, cluster, vault, owed>>
          /\ \A b \in App : b # a => app'[b] = app[b]
          /\ app[a] # Missing
      BY <1>2 DEF handlePutAppEnvConfig, ConfTypeOK, Saved
    <2>4. \A b \in App \ {a} : World'[b] = World[b]
      BY <2>3, WorldStays
    <2>5. app'[a] # Missing
      <3>1. app[a] \in AppSpecs
        BY <2>3 DEF ConfTypeOK
      <3>2. app'[a] = [app[a] EXCEPT !.vars = Toggled(@, l)]
        BY <1>2 DEF handlePutAppEnvConfig, ConfTypeOK
      <3> QED
        BY <3>1, <3>2 DEF AppSpecs, Missing
    <2>6. Requested({a}, {a}, new)
      BY <2>1, <2>2, <2>3, <2>4, <2>5 DEF Requested
    <2> QED
      BY <2>6
  <1>3. ASSUME NEW l, NEW c \in Cluster, handlePutClusterEnvConfig(c, l)
        PROVE  \E E \in SUBSET App : \E new : Requested(App, E, new)
    <2> DEFINE new == NewJob("cluster", None, c, "load", Nothing)
               E == IF c \in RefsOf(org.binding) THEN App ELSE {}
    <2>1. UNCHANGED git /\ EditOf(App, new) /\ \E s \in Slot : job[s].at = "idle" /\ job'[s] = new
      BY <1>3, EditShape DEF handlePutClusterEnvConfig
    <2>2. /\ new.at = "load" /\ Placed(new) /\ FreshOK(new, World')
          /\ \A a : c \in World'[a].refs => WillPublish(new, a, World'[a])
      BY LoadingJob
    <2> HIDE DEF new
    <2>3. /\ UNCHANGED <<org, project, stack, app, vault, owed>>
          /\ \A d \in Cluster : d # c => cluster'[d] = cluster[d]
      BY <1>3 DEF handlePutClusterEnvConfig, ConfTypeOK
    <2>4. \A a \in App \ E : World'[a] = World[a]
      <3>1. CASE c \in RefsOf(org.binding)
        BY <3>1
      <3>2. CASE c \notin RefsOf(org.binding)
        <4>1. EffectiveClusterRef(org.binding) # None =>
                 /\ EffectiveClusterRef(org.binding) \in Cluster
                 /\ EffectiveClusterRef(org.binding) # c
          BY <3>2, BindingFacts DEF ConfTypeOK
        <4> QED
          BY <2>3, <4>1, WorldStays
      <3> QED
        BY <3>1, <3>2
    <2>5. \A a \in E : World'[a].refs = RefsOf(org.binding) /\ c \in RefsOf(org.binding)
      BY <2>3 DEF World
    <2>6. E \in SUBSET App
      OBVIOUS
    <2> HIDE DEF E
    <2>7. Requested(App, E, new)
      BY <2>1, <2>2, <2>3, <2>4, <2>5, <2>6 DEF Requested
    <2> QED
      BY <2>6, <2>7
  <1>4. ASSUME NEW l, handlePatchStack(l)
        PROVE  \E O \in SUBSET App : \E new : Requested(O, O, new)
    <2> DEFINE new == NewJob("members", None, None, "load", Nothing)
               O == {a \in Saved : app[a].member}
    <2>0. O \in SUBSET App
      BY DEF Saved
    <2>1. UNCHANGED git /\ EditOf(O, new) /\ \E s \in Slot : job[s].at = "idle" /\ job'[s] = new
      BY <1>4, <2>0, EditShape DEF handlePatchStack
    <2>2. /\ new.at = "load" /\ Placed(new) /\ FreshOK(new, World')
          /\ \A a : World'[a].spec.member => WillPublish(new, a, World'[a])
      BY LoadingJob
    <2> HIDE DEF new
    <2>3. UNCHANGED <<org, project, cluster, app, vault, owed>>
      BY <1>4 DEF handlePatchStack
    <2>4. \A a \in App \ O : World'[a] = World[a]
      BY <2>3, WorldStays DEF Saved
    <2>5. \A a \in O : World'[a].spec.member
      BY <2>0, <2>3 DEF World
    <2> HIDE DEF O
    <2>7. Requested(O, O, new)
      BY <2>0, <2>1, <2>2, <2>3, <2>4, <2>5 DEF Requested
    <2> QED
      BY <2>0, <2>7
  <1>5. ASSUME NEW a \in App, handleSetAppStack(a)
        PROVE  \E new : Requested({a}, {a}, new)
    <2> DEFINE spec == [app[a] EXCEPT !.member = ~@]
               new == NewJob("given", a, None, "next", [Nothing EXCEPT ![a] = spec])
    <2>1. UNCHANGED git /\ EditOf({a}, new) /\ \E s \in Slot : job[s].at = "idle" /\ job'[s] = new
      BY <1>5, EditShape DEF handleSetAppStack
    <2>2. app[a] \in AppSpecs
      BY <1>5 DEF handleSetAppStack, ConfTypeOK, Saved
    <2>3. spec # Missing
      BY <2>2 DEF AppSpecs, Missing
    <2>4. app' = [app EXCEPT ![a] = spec] /\ UNCHANGED <<org, project, stack, cluster, vault, owed>>
      BY <1>5 DEF handleSetAppStack
    <2> HIDE DEF spec
    <2>5. /\ new.at = "next" /\ new.todo = [Nothing EXCEPT ![a] = spec] /\ Placed(new)
      BY DEF NewJob, Placed
    <2> HIDE DEF new
    <2>6. app'[a] = spec /\ \A b \in App : b # a => app'[b] = app[b]
      BY <2>4 DEF ConfTypeOK
    <2>7. \A b \in App \ {a} : World'[b] = World[b]
      BY <2>4, <2>6, WorldStays
    <2>8. World'[a].spec = spec
      BY <2>6 DEF World
    <2>9. new.todo[a] = spec /\ \A b \in App \ {a} : new.todo[b] = Missing
      BY <2>5 DEF Nothing
    <2>10. new.fresh \subseteq App
      BY DEF new, NewJob
    <2>11. FreshOK(new, World') /\ WillPublish(new, a, World'[a])
      BY <2>3, <2>5, <2>8, <2>9, <2>10 DEF FreshOK, WillPublish
    <2>12. app[a] # Missing
      BY <2>2 DEF AppSpecs, Missing
    <2>13. Requested({a}, {a}, new)
      BY <2>1, <2>3, <2>4, <2>5, <2>6, <2>7, <2>11, <2>12 DEF Requested
    <2> QED
      BY <2>13
  <1>6. ASSUME NEW a \in App, handleDeleteApp(a)
        PROVE  \E new : Requested({a}, {a}, new)
    <2> DEFINE new == NewJob("delete", a, None, "unpublish", Nothing)
    <2>1. UNCHANGED git /\ EditOf({a}, new) /\ \E s \in Slot : job[s].at = "idle" /\ job'[s] = new
      BY <1>6, EditShape DEF handleDeleteApp
    <2>2. app' = [app EXCEPT ![a] = Missing] /\ UNCHANGED <<org, project, stack, cluster, vault, owed>>
      BY <1>6 DEF handleDeleteApp
    <2>3. app'[a] = Missing /\ \A b \in App : b # a => app'[b] = app[b]
      BY <2>2 DEF ConfTypeOK
    <2>4. \A b \in App \ {a} : World'[b] = World[b]
      BY <2>2, <2>3, WorldStays
    <2>5. World'[a].spec = Missing
      BY <2>3 DEF World
    <2>6. new.at = "unpublish" /\ Placed(new) /\ FreshOK(new, World') /\ WillUnpublish(new, a)
      BY <2>5 DEF NewJob, Placed, FreshOK, WillUnpublish
    <2> HIDE DEF new
    <2>7. Requested({a}, {a}, new)
      BY <2>1, <2>2, <2>3, <2>4, <2>6 DEF Requested
    <2> QED
      BY <2>7
  <1>7. ASSUME NEW b \in Choices, handleUpdateOrgEnvironment(b)
        PROVE  \E E \in SUBSET App : \E new : Requested(App, E, new)
    <2>1. UNCHANGED <<app, vault>>
      BY <1>7 DEF handleUpdateOrgEnvironment
    <2>2. CASE QuietEdit(App) /\ owed' = App
      <3>1. UNCHANGED git /\ EditOf(App, Unused)
        BY <2>2, QuietEditShape
      <3>2. Unused.at = "idle" /\ Placed(Unused) /\ FreshOK(Unused, World')
        BY DEF Unused, Placed, FreshOK
      <3>3. owed \subseteq App
        BY DEF ConfTypeOK
      <3>4. Requested(App, App, Unused)
        BY <2>1, <2>2, <3>1, <3>2, <3>3 DEF Requested
      <3> QED
        BY <1>0, <3>4
    <2>3. CASE Edit(App, NewJob("apps", None, None, "load", Nothing)) /\ UNCHANGED owed
      BY <1>0, <2>1, <2>3, EditsAll
    <2> QED
      BY <1>7, <2>2, <2>3 DEF handleUpdateOrgEnvironment
  <1>8. ASSUME NEW i \in Items, handleUpsertSecrets(i) \/ handleDeleteSecret(i)
        PROVE  Requested({}, {}, Unused)
    <2>1. UNCHANGED git /\ EditOf({}, Unused)
      BY <1>8, QuietEditShape DEF handleUpsertSecrets, handleDeleteSecret
    <2>2. Unused.at = "idle" /\ Placed(Unused) /\ FreshOK(Unused, World')
      BY DEF Unused, Placed, FreshOK
    <2>3. UNCHANGED <<layers, owed>>
      BY <1>8 DEF handleUpsertSecrets, handleDeleteSecret
    <2>4. World' = World
      BY <2>3, WorldSame
    <2>5. UNCHANGED app
      BY <2>3 DEF layers
    <2>6. \A k \in Items : vault[k] # "none" => vault'[k] # "none"
      BY <1>8 DEF handleUpsertSecrets, handleDeleteSecret, ConfTypeOK
    <2> QED
      BY <2>1, <2>2, <2>3, <2>4, <2>5, <2>6 DEF Requested
  <1>9. ASSUME NEW select \in Selections, handleSetStackTargetClusters(select)
        PROVE  \E O \in SUBSET App : \E new : Requested(O, O, new)
    <2> DEFINE O == {a \in Saved : app[a].member}
               todo == [a \in App |-> IF a \in O THEN [app[a] EXCEPT !.select = select]
                                      ELSE Missing]
               new == NewJob("given", None, None, "next", todo)
    <2>0. O \in SUBSET App /\ \A a \in O : app[a] \in AppSpecs
      BY DEF Saved, ConfTypeOK
    <2>1. /\ Edit(O, new) /\ UNCHANGED <<org, project, stack, cluster, vault, owed>>
          /\ app' = [a \in App |-> IF a \in O THEN todo[a] ELSE app[a]]
      BY <1>9 DEF handleSetStackTargetClusters
    <2>2. \A a \in O : todo[a] # Missing
      BY <2>0 DEF AppSpecs, Missing
    <2>3. /\ new.at = "next" /\ new.todo = todo /\ Placed(new) /\ new.fresh = App
      BY DEF NewJob, Placed
    <2>4. UNCHANGED git /\ EditOf(O, new) /\ \E s \in Slot : job[s].at = "idle" /\ job'[s] = new
      BY <2>0, <2>1, EditShape
    <2> HIDE DEF new
    <2>5. /\ \A a \in O : app'[a] = todo[a] /\ app[a] # Missing
          /\ \A a \in App \ O : app'[a] = app[a] /\ todo[a] = Missing
      BY <2>0, <2>1 DEF Saved
    <2> HIDE DEF O, todo
    <2>6. \A a \in App \ O : World'[a] = World[a]
      BY <2>1, <2>5, WorldStays
    <2>7. \A a \in App : World'[a].spec = app'[a]
      BY DEF World
    <2>8. FreshOK(new, World') /\ \A a \in O : WillPublish(new, a, World'[a])
      BY <2>0, <2>2, <2>3, <2>5, <2>7 DEF FreshOK, WillPublish
    <2>9. \A a \in App : app[a] = Missing => app'[a] = Missing
      BY <2>5
    <2>10. \A a \in O : app'[a] # Missing
      BY <2>2, <2>5
    <2>11. Requested(O, O, new)
      BY <2>1, <2>3, <2>4, <2>6, <2>8, <2>9, <2>10 DEF Requested
    <2> QED
      BY <2>0, <2>11
  <1> QED
    BY <1>0, <1>1, <1>2, <1>3, <1>4, <1>5, <1>6, <1>7, <1>8, <1>9 DEF RequestNext

\* A publication on its way refers to items that are there.
PendingItems ==
    \A s \in Slot : job[s].at = "commit" => \A i \in job[s].pub.items : i \in Items /\ vault[i] # "none"

PubInv == AllPlaced /\ AllFresh /\ DeletedInv /\ SavedInv /\ OwnCluster /\ PendingItems /\ ItemsExist

LEMMA RequestKeeps ==
    ASSUME ConfTypeOK, PubInv, RequestNext
    PROVE  PubInv'
  <1>0. PICK O \in SUBSET App : \E E \in SUBSET O : \E new : Requested(O, E, new)
    BY RequestShape
  <1>a. PICK E \in SUBSET O : \E new : Requested(O, E, new)
    BY <1>0
  <1>1. PICK new : Requested(O, E, new)
    BY <1>a
  <1>2. /\ git' = git /\ owed \subseteq owed' /\ new.at \in {"idle", "load", "next", "unpublish"}
        /\ Placed(new) /\ FreshOK(new, World')
        /\ \A i \in Items : vault[i] # "none" => vault'[i] # "none"
        /\ E \subseteq O /\ O \subseteq App
    BY <1>1 DEF Requested
  <1>3. \A a \in App : /\ a \notin E => World'[a] = World[a]
                       /\ app[a] = Missing => app'[a] = Missing
    BY <1>1 DEF Requested
  <1>4. \A a \in E \ owed' :
          /\ \E s \in Slot : job[s].at = "idle" /\ job'[s] = new
          /\ app'[a] = Missing => app[a] = Missing \/ WillUnpublish(new, a)
          /\ app'[a] # Missing => WillPublish(new, a, World'[a])
    BY <1>1 DEF Requested
  <1>5. \A s \in Slot : job[s].at = "idle" => job'[s] = Unused \/ job'[s] = new
    BY <1>1 DEF Requested, EditOf
  <1>6. ASSUME NEW s \in Slot, job[s].at # "idle"
        PROVE  /\ job'[s].at = job[s].at /\ job'[s].op = job[s].op /\ job'[s].app = job[s].app
               /\ job'[s].cluster = job[s].cluster /\ job'[s].todo = job[s].todo
               /\ job'[s].targets = job[s].targets /\ job'[s].pub = job[s].pub
               /\ job'[s].follows = job[s].follows
               /\ job'[s].fresh = job[s].fresh \ O
    <2>1. job[s] \in Busy
      BY <1>6, JobFacts
    <2>2. job'[s] = [job[s] EXCEPT !.fresh = @ \ O]
      BY <1>1, <1>6 DEF Requested, EditOf
    <2> QED
      BY <2>1, <2>2, BusyIs
  <1>7. Unused.at = "idle" /\ Placed(Unused) /\ FreshOK(Unused, World')
    BY DEF Unused, Placed, FreshOK
  <1>8. \A a \in App : World[a].spec = app[a] /\ World'[a].spec = app'[a]
    BY DEF World
  <1>9. AllPlaced'
    <2> SUFFICES ASSUME NEW s \in Slot PROVE Placed(job'[s])
      BY DEF AllPlaced
    <2>1. CASE job[s].at = "idle"
      BY <1>2, <1>5, <1>7, <2>1
    <2>2. CASE job[s].at # "idle"
      <3>1. Placed(job[s])
        BY DEF PubInv, AllPlaced
      <3> QED
        BY <1>6, <2>2, <3>1 DEF Placed
    <2> QED
      BY <2>1, <2>2
  <1>10. AllFresh'
    <2> SUFFICES ASSUME NEW s \in Slot PROVE FreshOK(job'[s], World')
      BY DEF AllFresh
    <2>1. CASE job[s].at = "idle"
      BY <1>2, <1>5, <1>7, <2>1
    <2>2. CASE job[s].at # "idle"
      <3>1. FreshOK(job[s], World) /\ Placed(job[s])
        BY DEF PubInv, AllFresh, AllPlaced
      <3>2. job[s].fresh \subseteq App
        BY <2>2, JobFacts, BusyIs
      <3>3. \A a \in job'[s].fresh : a \in job[s].fresh /\ a \in App /\ World'[a] = World[a]
        BY <1>2, <1>3, <1>6, <2>2, <3>2
      <3>4. job[s].at = "unpublish" => World'[job'[s].app].spec = Missing
        BY <1>3, <1>6, <1>8, <2>2, <3>1 DEF FreshOK, Placed
      <3> HIDE DEF World
      <3> QED
        BY <1>6, <2>2, <3>1, <3>3, <3>4 DEF FreshOK
    <2> QED
      BY <2>1, <2>2
  <1>11. DeletedInv'
    <2> SUFFICES ASSUME NEW a \in App, a \notin owed', app'[a] = Missing, git'[a] # Missing
                 PROVE  \E s \in Slot : WillUnpublish(job'[s], a)
      BY DEF DeletedInv
    <2>1. CASE app[a] = Missing
      <3>1. PICK s \in Slot : WillUnpublish(job[s], a)
        BY <1>2, <2>1 DEF PubInv, DeletedInv
      <3>2. job[s].at # "idle"
        BY <3>1 DEF WillUnpublish
      <3> QED
        BY <1>6, <3>1, <3>2 DEF WillUnpublish
    <2>2. CASE app[a] # Missing
      <3>1. a \in E
        BY <1>3, <1>8, <2>2
      <3> QED
        BY <1>4, <2>2, <3>1
    <2> QED
      BY <2>1, <2>2
  <1>12. SavedInv'
    <2> SUFFICES ASSUME NEW a \in App, a \notin owed', app'[a] # Missing, World'[a].bound,
                        ~Right(World'[a], git'[a])
                 PROVE  \E s \in Slot : WillPublish(job'[s], a, World'[a])
      BY DEF SavedInv
    <2>1. CASE a \in E
      BY <1>4, <2>1
    <2>2. CASE a \notin E
      <3>1. World'[a] = World[a] /\ a \notin owed /\ app[a] # Missing
        BY <1>2, <1>3, <2>2
      <3>2. PICK s \in Slot : WillPublish(job[s], a, World[a])
        BY <1>2, <3>1 DEF PubInv, SavedInv
      <3>3. job[s].at # "idle"
        BY <3>2 DEF WillPublish
      <3>4. WillPublish(job'[s], a, World[a])
        BY <1>6, <3>2, <3>3 DEF WillPublish, Covers
      <3> QED
        BY <3>1, <3>4
    <2> QED
      BY <2>1, <2>2
  <1>13. OwnCluster'
    BY <1>2 DEF PubInv, OwnCluster
  <1>14. PendingItems'
    BY <1>2, <1>5, <1>6, <1>7 DEF PubInv, PendingItems
  <1>15. ItemsExist'
    <2>1. \A a \in App : git[a] # Missing => git[a].items \subseteq Items
      BY DEF ConfTypeOK, Published
    <2> QED
      BY <1>2, <2>1 DEF PubInv, ItemsExist
  <1> QED
    BY <1>9, <1>10, <1>11, <1>12, <1>13, <1>14, <1>15 DEF PubInv

-----------------------------------------------------------------------------
(* The steps of the goroutines keep it.                                    *)

LEMMA SnapshotFacts ==
    ASSUME ConfTypeOK, NEW s \in Slot, NEW a \in App
    PROVE  /\ Snapshot(s)[a] \in {app[a], Missing}
           /\ Covers(job[s], a, World[a]) => Snapshot(s)[a] = app[a] \/ app[a] = Missing
  <1>1. World[a].spec = app[a] /\ World[a].refs = RefsOf(org.binding)
    BY DEF World
  <1> DEFINE j == job[s]
             apps == CASE j.op = "app"     -> {j.app}
                       [] j.op = "members" -> {b \in Saved : app[b].member}
                       [] j.op = "cluster" -> IF j.cluster \in RefsOf(org.binding) THEN App ELSE {}
                       [] OTHER            -> App
  <1>2. Snapshot(s) = [b \in App |-> IF b \in apps THEN app[b] ELSE Missing]
    BY DEF Snapshot
  <1>3. Covers(j, a, World[a]) /\ app[a] # Missing => a \in apps
    <2> SUFFICES ASSUME Covers(j, a, World[a]), app[a] # Missing PROVE a \in apps
      OBVIOUS
    <2>1. CASE j.op = "app"
      BY <2>1 DEF Covers
    <2>2. CASE j.op = "members"
      BY <1>1, <2>2 DEF Covers, Saved
    <2>3. CASE j.op = "cluster"
      BY <1>1, <2>3 DEF Covers
    <2>4. CASE j.op \notin {"app", "members", "cluster"}
      BY <2>4
    <2> QED
      BY <2>1, <2>2, <2>3, <2>4
  <1> HIDE DEF apps
  <1> QED
    BY <1>2, <1>3

\* The part of the others.
LEMMA OthersKeep ==
    ASSUME ConfTypeOK, PubInv, NEW s \in Slot, Others(s), UNCHANGED layers,
           FreshOK(job'[s], World)
    PROVE  AllFresh'
  <1>1. World' = World
    BY WorldSame
  <1>2. \A r \in Slot : FreshOK(job'[r], World)
    BY DEF Others, PubInv, AllFresh
  <1> QED
    BY <1>1, <1>2 DEF AllFresh

\* A step that commits nothing, and hands on every app that it was to publish.
LEMMA HandsOn ==
    ASSUME ConfTypeOK, PubInv, NEW s \in Slot, Others(s), UNCHANGED <<layers, git>>,
           AllPlaced', FreshOK(job'[s], World), owed \subseteq owed',
           job[s].at # "unpublish",
           \A a \in App \ owed' : WillPublish(job[s], a, World[a]) =>
              \/ WillPublish(job'[s], a, World[a]) \/ app[a] = Missing \/ ~World[a].bound,
           \A i \in Items : vault[i] # "none" => vault'[i] # "none",
           job'[s].at = "commit" => \A i \in job'[s].pub.items : i \in Items /\ vault'[i] # "none"
    PROVE  PubInv'
  <1>1. World' = World /\ app' = app
    BY WorldSame DEF layers
  <1>2. AllFresh'
    BY OthersKeep
  <1>3. \A r \in Slot : r # s => job'[r] = job[r]
    BY DEF Others
  <1>4. DeletedInv'
    BY <1>1, <1>3 DEF PubInv, DeletedInv, WillUnpublish
  <1>5. SavedInv'
    <2> SUFFICES ASSUME NEW a \in App, a \notin owed', app[a] # Missing, World[a].bound,
                        ~Right(World[a], git[a])
                 PROVE  \E r \in Slot : WillPublish(job'[r], a, World[a])
      BY <1>1 DEF SavedInv
    <2>1. PICK r \in Slot : WillPublish(job[r], a, World[a])
      BY DEF PubInv, SavedInv
    <2> QED
      BY <1>3, <2>1
  <1>6. OwnCluster'
    BY DEF PubInv, OwnCluster
  <1>7. PendingItems'
    BY <1>3 DEF PubInv, PendingItems
  <1>8. ItemsExist'
    <2>1. \A a \in App : git[a] # Missing => git[a].items \subseteq Items
      BY DEF ConfTypeOK, Published
    <2> QED
      BY <2>1 DEF PubInv, ItemsExist
  <1> QED
    BY <1>2, <1>4, <1>5, <1>6, <1>7, <1>8 DEF PubInv

LEMMA IdleFresh == Unused.at = "idle" /\ FreshOK(Unused, World)
  BY DEF Unused, FreshOK

LEMMA LoadKeeps ==
    ASSUME ConfTypeOK, PubInv, AllPlaced', NEW s \in Slot, Load(s)
    PROVE  PubInv'
  <1>1. /\ job[s].at = "load" /\ UNCHANGED <<layers, git, vault>> /\ owed \subseteq owed'
        /\ Others(s) /\ job[s] \in Busy
    BY LoadShape DEF Load
  <1>2. \A a \in App : World[a].spec = app[a]
    BY DEF World
  <1>3. CASE /\ UNCHANGED owed /\ job'[s] \in Busy
             /\ job'[s].at = "next" /\ job'[s].todo = Snapshot(s)
    <2>1. FreshOK(job'[s], World)
      <3>1. job'[s].fresh \subseteq App
        BY <1>3, BusyIs
      <3>2. \A a \in App : Snapshot(s)[a] # Missing => Snapshot(s)[a] = World[a].spec
        BY <1>2, SnapshotFacts
      <3> QED
        BY <1>3, <3>1, <3>2 DEF FreshOK
    <2>2. \A a \in App : WillPublish(job[s], a, World[a]) =>
              WillPublish(job'[s], a, World[a]) \/ app[a] = Missing
      BY <1>1, <1>3, SnapshotFacts DEF WillPublish
    <2> QED
      BY <1>1, <1>3, <2>1, <2>2, HandsOn
  <1>4. CASE job'[s] = Unused /\ owed' = owed \cup {a \in App : job[s].op = "app" => a = job[s].app}
    <2>1. \A a \in App \ owed' : ~WillPublish(job[s], a, World[a])
      BY <1>1, <1>4 DEF WillPublish, Covers
    <2> QED
      BY <1>1, <1>4, <2>1, IdleFresh, HandsOn
  <1> QED
    BY <1>3, <1>4, LoadShape

LEMMA NoMoreKeeps ==
    ASSUME ConfTypeOK, PubInv, AllPlaced', NEW s \in Slot, NoMoreApps(s)
    PROVE  PubInv'
  <1>1. /\ job[s].at = "next" /\ UNCHANGED <<layers, git, vault, owed>>
        /\ Others(s) /\ job'[s] = Unused /\ \A a \in App : job[s].todo[a] = Missing
    BY NoMoreShape DEF NoMoreApps
  <1>2. \A a \in App : ~WillPublish(job[s], a, World[a])
    BY <1>1 DEF WillPublish
  <1> QED
    BY <1>1, <1>2, IdleFresh, HandsOn

LEMMA NextKeeps ==
    ASSUME ConfTypeOK, PubInv, AllPlaced', NEW s \in Slot, NEW a \in App, NextApp(s, a)
    PROVE  PubInv'
  <1>1. /\ job[s].at = "next" /\ UNCHANGED <<layers, git, vault>> /\ owed \subseteq owed'
        /\ Others(s) /\ job[s] \in Busy /\ job'[s] \in Busy
        /\ job'[s].fresh \subseteq job[s].fresh /\ job[s].todo[a] # Missing
        /\ FreshOK(job[s], World)
    BY NextShape DEF NextApp, PubInv, AllFresh
  <1>2. /\ World[a].spec = app[a] /\ World[a].bound = Bound(org.binding)
        /\ app[a] # Missing => /\ World[a].targets = TargetsOf(app[a], org.binding)
                               /\ World[a].follows = Follows(app[a], org.binding)
    BY DEF World
  <1>3. job[s].fresh \subseteq App /\ job[s].todo \in Todos
    BY <1>1, BusyIs
  <1>4. CASE /\ Bound(org.binding)
             /\ job'[s].at = "read" /\ job'[s].todo = job[s].todo /\ job'[s].app = a
             /\ a \in job'[s].fresh =>
                   /\ job'[s].targets = TargetsOf(job[s].todo[a], org.binding)
                   /\ job'[s].follows = Follows(job[s].todo[a], org.binding)
    <2>1. a \in job'[s].fresh => job[s].todo[a] = app[a] /\ app[a] # Missing
      BY <1>1, <1>2 DEF FreshOK
    <2>2. FreshOK(job'[s], World)
      BY <1>1, <1>2, <1>4, <2>1 DEF FreshOK
    <2>3. \A b \in App : WillPublish(job[s], b, World[b]) => WillPublish(job'[s], b, World[b])
      BY <1>1, <1>4 DEF WillPublish
    <2> QED
      BY <1>1, <1>4, <2>2, <2>3, HandsOn
  <1>5. CASE /\ job'[s].at = "next" /\ job'[s].todo = [job[s].todo EXCEPT ![a] = Missing]
             /\ \/ ~Bound(org.binding) \/ a \notin Saved
                \/ owed' = owed \cup {a}
    <2>1. FreshOK(job'[s], World)
      BY <1>1, <1>3, <1>5 DEF FreshOK, Todos
    <2>2. \A b \in App \ owed' : WillPublish(job[s], b, World[b]) =>
              WillPublish(job'[s], b, World[b]) \/ app[b] = Missing \/ ~World[b].bound
      BY <1>1, <1>2, <1>3, <1>5 DEF WillPublish, Todos, Saved
    <2> QED
      BY <1>1, <1>5, <2>1, <2>2, HandsOn
  <1> QED
    BY <1>4, <1>5, NextShape

LEMMA ReadKeeps ==
    ASSUME ConfTypeOK, PubInv, AllPlaced', NEW s \in Slot, ReadLayers(s)
    PROVE  PubInv'
  <1> DEFINE a == job[s].app
  <1>1. Placed(job[s]) /\ FreshOK(job[s], World)
    BY DEF PubInv, AllPlaced, AllFresh
  <1>2. /\ job[s].at = "read" /\ job[s] \in Busy /\ a \in App
        /\ Others(s) /\ job'[s] \in Busy /\ job'[s].at = "commit" /\ job'[s].app = a
        /\ job'[s].todo = [job[s].todo EXCEPT ![a] = Missing]
        /\ job'[s].pub.targets = job[s].targets /\ job'[s].pub.follows = job[s].follows
        /\ job'[s].fresh \subseteq job[s].fresh
        /\ a \in job'[s].fresh =>
              job'[s].pub.value = mergeAllEnvVars(job[s].todo[a], EffectiveClusterRef(org.binding), {})
    BY <1>1, ReadLayersShape
  <1>3. UNCHANGED <<layers, git, owed>>
    BY DEF ReadLayers
  <1>4. job[s].todo \in Todos /\ job[s].fresh \subseteq App
    BY <1>2, BusyIs
  <1>5. a \in job'[s].fresh => World[a].spec # Missing /\ Right(World[a], job'[s].pub)
    <2> SUFFICES ASSUME a \in job'[s].fresh
                 PROVE  World[a].spec # Missing /\ Right(World[a], job'[s].pub)
      OBVIOUS
    <2>1. /\ job[s].todo[a] = app[a] /\ app[a] # Missing /\ World[a].targets = job[s].targets
          /\ World[a].follows = job[s].follows
      <3>1. World[a].spec = app[a]
        BY <1>2 DEF World
      <3> QED
        BY <1>1, <1>2, <3>1 DEF FreshOK, Placed
    <2>2. app[a] \in AppSpecs
      BY <1>2, <2>1 DEF ConfTypeOK
    <2>3. job'[s].pub.value = ResolveEnvLayers(app[a])
      BY <1>2, <2>1, <2>2, MergedIsResolved
    <2>4. World[a].value = ResolveEnvLayers(app[a]) /\ World[a].spec = app[a]
      BY <1>2, <2>1 DEF World
    <2> QED
      BY <1>2, <2>1, <2>3, <2>4 DEF Right
  <1>6. FreshOK(job'[s], World)
    <2>1. \A b \in job'[s].fresh : job'[s].todo[b] # Missing => job'[s].todo[b] = World[b].spec
      BY <1>1, <1>2, <1>4 DEF FreshOK, Todos
    <2> QED
      BY <1>2, <1>5, <2>1 DEF FreshOK
  <1>7. \A b \in App : WillPublish(job[s], b, World[b]) => WillPublish(job'[s], b, World[b])
    BY <1>2, <1>4 DEF WillPublish, Todos
  <1>8. /\ \A i \in job'[s].pub.items : i \in Items /\ vault'[i] # "none"
        /\ \A i \in Items : vault[i] # "none" => vault'[i] # "none"
    BY <1>1, ReadLayersShape
  <1> QED
    BY <1>2, <1>3, <1>6, <1>7, <1>8, HandsOn

LEMMA CommitKeeps ==
    ASSUME ConfTypeOK, PubInv, AllPlaced', NEW s \in Slot, PublishApp(s)
    PROVE  PubInv'
  <1> DEFINE a == job[s].app
  <1>1. Placed(job[s]) /\ FreshOK(job[s], World)
    BY DEF PubInv, AllPlaced, AllFresh
  <1>2. /\ job[s].at = "commit" /\ job[s] \in Busy /\ Others(s) /\ job'[s] \in Busy
        /\ job'[s].at = "next" /\ a \in App /\ job[s].pub \in Pubs
        /\ job'[s].todo = job[s].todo /\ job'[s].fresh = job[s].fresh
    BY <1>1, CommitShape
  <1>3. UNCHANGED <<layers, vault>>
    BY DEF PublishApp
  <1>4. FreshOK(job'[s], World)
    BY <1>1, <1>2 DEF FreshOK
  <1>5. \A b \in App : WillPublish(job[s], b, World[b]) => b = a \/ WillPublish(job'[s], b, World[b])
    BY <1>2 DEF WillPublish
  <1>6. ASSUME UNCHANGED git, owed' = owed \cup {a}
        PROVE  PubInv'
    BY <1>2, <1>3, <1>4, <1>5, <1>6, HandsOn
  <1>7. ASSUME git' = [git EXCEPT ![a] = job[s].pub],
               owed' = IF a \in job[s].fresh THEN owed \ {a} ELSE owed \cup {a}
        PROVE  PubInv'
    <2>1. World' = World /\ app' = app /\ vault' = vault
      BY <1>3, WorldSame DEF layers
    <2>2. AllFresh'
      BY <1>2, <1>3, <1>4, OthersKeep
    <2>3. \A r \in Slot : r # s => job'[r] = job[r]
      BY <1>2 DEF Others
    <2>4. git'[a] = job[s].pub /\ \A b \in App : b # a => git'[b] = git[b]
      BY <1>2, <1>7 DEF ConfTypeOK
    <2>5. a \notin owed' => /\ app[a] # Missing /\ Right(World[a], git'[a])
                            /\ World[a].value = ResolveEnvLayers(app[a])
                            /\ World[a].targets = TargetsOf(app[a], org.binding)
                            /\ World[a].follows = Follows(app[a], org.binding)
      <3>1. /\ World[a].spec = app[a]
            /\ app[a] # Missing => /\ World[a].value = ResolveEnvLayers(app[a])
                                   /\ World[a].targets = TargetsOf(app[a], org.binding)
                                   /\ World[a].follows = Follows(app[a], org.binding)
        BY <1>2 DEF World
      <3> QED
        BY <1>1, <1>2, <1>7, <2>4, <3>1 DEF FreshOK
    <2>6. \A b \in App : b # a /\ b \notin owed' => b \notin owed
      BY <1>7
    <2>7. DeletedInv'
      <3> SUFFICES ASSUME NEW b \in App, b \notin owed', app[b] = Missing, git'[b] # Missing
                   PROVE  \E r \in Slot : WillUnpublish(job'[r], b)
        BY <2>1 DEF DeletedInv
      <3>1. b # a
        BY <2>5
      <3>2. PICK r \in Slot : WillUnpublish(job[r], b)
        BY <2>4, <2>6, <3>1 DEF PubInv, DeletedInv
      <3> QED
        BY <1>2, <2>3, <3>2 DEF WillUnpublish
    <2>8. SavedInv'
      <3> SUFFICES ASSUME NEW b \in App, b \notin owed', app[b] # Missing, World[b].bound,
                          ~Right(World[b], git'[b])
                   PROVE  \E r \in Slot : WillPublish(job'[r], b, World[b])
        BY <2>1 DEF SavedInv
      <3>1. b # a
        BY <2>5
      <3>2. PICK r \in Slot : WillPublish(job[r], b, World[b])
        BY <2>4, <2>6, <3>1 DEF PubInv, SavedInv
      <3> QED
        BY <1>5, <2>3, <3>1, <3>2
    <2>9. OwnCluster'
      <3> SUFFICES ASSUME NEW b \in App, git'[b] # Missing, git'[b].follows,
                          git'[b].value.cluster # None, b \notin owed'
                   PROVE  git'[b].targets = {git'[b].value.cluster}
        BY DEF OwnCluster
      <3>1. CASE b = a
        <4>1. app[a] \in AppSpecs /\ org.binding \in Bindings
          BY <1>2, <2>5, <3>1 DEF ConfTypeOK
        <4>2. /\ git'[a].targets = TargetsOf(app[a], org.binding)
              /\ git'[a].value = ResolveEnvLayers(app[a])
              /\ Follows(app[a], org.binding)
          BY <2>5, <3>1 DEF Right
        <4>3. /\ git'[a].value.cluster = EffectiveClusterRef(org.binding)
              /\ EffectiveClusterRef(org.binding) # None
          BY <3>1, <4>1, <4>2, ResolvedFacts
        <4> QED
          BY <3>1, <4>1, <4>2, <4>3, FollowsFacts
      <3>2. CASE b # a
        BY <2>4, <2>6, <3>2 DEF PubInv, OwnCluster
      <3> QED
        BY <3>1, <3>2
    <2>10. PendingItems'
      BY <1>2, <2>1, <2>3 DEF PubInv, PendingItems
    <2>11. ItemsExist'
      BY <1>2, <2>1, <2>4 DEF PubInv, ItemsExist, PendingItems
    <2> QED
      BY <2>2, <2>7, <2>8, <2>9, <2>10, <2>11 DEF PubInv
  <1> QED
    BY <1>6, <1>7 DEF PublishApp

LEMMA UnpublishKeeps ==
    ASSUME ConfTypeOK, PubInv, AllPlaced', NEW s \in Slot, Unpublish(s)
    PROVE  PubInv'
  <1> DEFINE a == job[s].app
  <1>1. Placed(job[s]) /\ FreshOK(job[s], World)
    BY DEF PubInv, AllPlaced, AllFresh
  <1>2. /\ job[s].at = "unpublish" /\ a \in App /\ Others(s) /\ job'[s] = Unused
    BY <1>1, UnpublishShape
  <1>3. UNCHANGED <<layers, vault>>
    BY DEF Unpublish
  <1>4. app[a] = Missing
    <2>1. World[a].spec = app[a]
      BY <1>2 DEF World
    <2> QED
      BY <1>1, <1>2, <2>1 DEF FreshOK
  <1>5. World' = World /\ app' = app /\ vault' = vault
    BY <1>3, WorldSame DEF layers
  <1>6. AllFresh'
    BY <1>2, <1>3, IdleFresh, OthersKeep
  <1>7. \A r \in Slot : r # s => job'[r] = job[r]
    BY <1>2 DEF Others
  <1>8. /\ \A b \in App : b # a => git'[b] = git[b] /\ (b \notin owed' => b \notin owed)
        /\ git'[a] = Missing \/ (git'[a] = git[a] /\ a \in owed')
    <2>1. git \in [App -> Pubs]
      BY DEF ConfTypeOK, Pubs
    <2>2. \/ git' = [git EXCEPT ![a] = Missing] /\ owed' = owed \ {a}
          \/ owed' = owed \cup {a} /\ git' = git
      BY DEF Unpublish
    <2> HIDE DEF a
    <2>3. CASE git' = [git EXCEPT ![a] = Missing] /\ owed' = owed \ {a}
      BY <1>2, <2>1, <2>3
    <2>4. CASE owed' = owed \cup {a} /\ git' = git
      BY <2>4
    <2> QED
      BY <2>2, <2>3, <2>4
  <1>9. DeletedInv'
    <2> SUFFICES ASSUME NEW b \in App, b \notin owed', app[b] = Missing, git'[b] # Missing
                 PROVE  \E r \in Slot : WillUnpublish(job'[r], b)
      BY <1>5 DEF DeletedInv
    <2>1. b # a
      BY <1>8
    <2>2. PICK r \in Slot : WillUnpublish(job[r], b)
      BY <1>8, <2>1 DEF PubInv, DeletedInv
    <2> QED
      BY <1>2, <1>7, <2>1, <2>2 DEF WillUnpublish
  <1>10. SavedInv'
    <2> SUFFICES ASSUME NEW b \in App, b \notin owed', app[b] # Missing, World[b].bound,
                        ~Right(World[b], git'[b])
                 PROVE  \E r \in Slot : WillPublish(job'[r], b, World[b])
      BY <1>5 DEF SavedInv
    <2>1. b # a
      BY <1>4
    <2>2. PICK r \in Slot : WillPublish(job[r], b, World[b])
      BY <1>8, <2>1 DEF PubInv, SavedInv
    <2> QED
      BY <1>2, <1>7, <2>1, <2>2 DEF WillPublish
  <1>11. OwnCluster'
    BY <1>8 DEF PubInv, OwnCluster
  <1>12. PendingItems'
    BY <1>2, <1>5, <1>7, IdleFresh DEF PubInv, PendingItems
  <1>13. ItemsExist'
    BY <1>5, <1>8 DEF PubInv, ItemsExist
  <1> QED
    BY <1>6, <1>9, <1>10, <1>11, <1>12, <1>13 DEF PubInv

LEMMA RestartKeeps ==
    ASSUME ConfTypeOK, PubInv, AllPlaced', Restart
    PROVE  PubInv'
  <1>1. owed' = App /\ UNCHANGED <<layers, vault, git>>
    BY DEF Restart
  <1>2. World' = World
    BY <1>1, WorldSame
  <1>3. Startup.at = "load" /\ FreshOK(Startup, World)
    BY DEF Startup, NewJob, FreshOK
  <1>4. AllFresh'
    BY <1>2, <1>3, IdleFresh, RestartShape DEF AllFresh
  <1>5. PendingItems'
    BY <1>3, IdleFresh, RestartShape DEF PendingItems
  <1> QED
    BY <1>1, <1>4, <1>5 DEF PubInv, DeletedInv, SavedInv, OwnCluster, ItemsExist

-----------------------------------------------------------------------------
(* Theorems.                                                               *)

LEMMA PubInit == ConfInit => PubInv
  <1> SUFFICES ASSUME ConfInit PROVE PubInv
    OBVIOUS
  <1>0. ConfTypeOK
    BY TypeInit
  <1>1. PICK c \in Cluster :
          /\ org = [vars |-> {}, binding |-> [refs |-> <<c>>, active |-> None, all |-> FALSE]]
          /\ git = [a \in App |-> [targets |-> {c}, value |-> Value(None, None), items |-> {},
                                    follows |-> app[a].select = {}]]
    BY DEF ConfInit
  <1>2. /\ project = {} /\ stack = {} /\ cluster = [d \in Cluster |-> {}]
        /\ app \in [App -> [vars : {{}}, member : {FALSE}, select : Selections]]
        /\ \A s \in Slot : job[s] = Unused
    BY DEF ConfInit
  <1>3. c # None /\ EffectiveClusterRef(org.binding) = c
    BY <1>1, ConfigurationAssumption DEF EffectiveClusterRef
  <1>4. ResolveDeployTargets(org.binding) = {c}
    <2>1. org.binding.all = FALSE
      BY <1>1
    <2> QED
      BY <1>3, <2>1 DEF ResolveDeployTargets
  <1>5. ASSUME NEW a \in App
        PROVE  /\ app[a] # Missing /\ ResolveEnvLayers(app[a]) = Value(None, None)
               /\ git[a].targets = {c} /\ git[a].value = Value(None, None) /\ git[a].items = {}
               /\ TargetsOf(app[a], org.binding) = {c}
               /\ git[a].follows = Follows(app[a], org.binding)
    <2>1. app[a].vars = {} /\ app[a].member = FALSE
      BY <1>2
    <2>2. app[a] \in AppSpecs /\ app[a] # Missing
      <3>1. app[a] \in [vars : {{}}, member : {FALSE}, select : Selections]
        BY <1>2
      <3> QED
        BY <3>1, SelectionsAssumption DEF AppSpecs, Missing
    <2>3. Set(app[a], c) = {}
      BY <1>1, <1>2, <2>1 DEF Set
    <2>4. mergeAllEnvVars(app[a], c, {}) = Value(None, c)
      BY <2>3 DEF mergeAllEnvVars, Highest
    <2>5. Value(None, c) = Value(None, None)
      BY DEF Value, ClusterLayers, None
    <2>6. ResolveEnvLayers(app[a]) = Value(None, None)
      BY <1>0, <1>3, <2>2, <2>4, <2>5, MergedIsResolved
    <2>7. RefsOf(org.binding) = {c} /\ org.binding.all = FALSE
      <3>1. org.binding.refs = <<c>> /\ org.binding.all = FALSE
        BY <1>1
      <3> QED
        BY <3>1 DEF RefsOf
    <2>8. TargetsOf(app[a], org.binding) = {c}
      <3>1. \A T : {c} \cap T # {} => {c} \cap T = {c}
        OBVIOUS
      <3> QED
        BY <1>4, <2>7, <3>1 DEF TargetsOf, appClusterTargets
    <2>9. git[a].follows = Follows(app[a], org.binding)
      BY <1>1, <2>7 DEF Follows
    <2> QED
      BY <1>1, <2>2, <2>6, <2>8, <2>9
  <1>6. AllPlaced /\ AllFresh /\ PendingItems
    BY <1>2, IdleFresh DEF AllPlaced, AllFresh, PendingItems, Placed, Unused
  <1>7. DeletedInv /\ ItemsExist
    BY <1>5 DEF DeletedInv, ItemsExist
  <1>8. SavedInv
    <2>1. \A a \in App : /\ World[a].targets = {c} /\ World[a].value = Value(None, None)
                         /\ World[a].follows = git[a].follows
      BY <1>5 DEF World
    <2> QED
      BY <1>5, <2>1 DEF SavedInv, Right
  <1>9. OwnCluster
    <2>1. Value(None, None).cluster = None
      BY DEF Value
    <2> QED
      BY <1>5, <2>1 DEF OwnCluster
  <1> QED
    BY <1>6, <1>7, <1>8, <1>9 DEF PubInv

LEMMA PubStep ==
    ASSUME ConfTypeOK, PubInv, [ConfNext]_confVars
    PROVE  ConfTypeOK' /\ PubInv'
  <1>1. CASE RequestNext
    BY <1>1, RequestTypes, RequestKeeps DEF RequestNext
  <1>2. CASE StepTypes
    <2>1. ConfTypeOK' /\ AllPlaced'
      BY <1>2, StepType DEF PubInv
    <2>2. PubInv'
      BY <1>2, <2>1, LoadKeeps, NoMoreKeeps, NextKeeps, ReadKeeps, CommitKeeps,
         UnpublishKeeps,
         RestartKeeps DEF StepTypes
    <2> QED
      BY <2>1, <2>2
  <1>3. CASE UNCHANGED confVars
    <2>1. UNCHANGED <<layers, vault, git, job, edits, faults, owed>>
      BY <1>3 DEF confVars
    <2>2. World' = World /\ UNCHANGED <<org, project, stack, cluster, app>>
      BY <2>1, WorldSame DEF layers
    <2>3. ConfTypeOK'
      BY <2>1, <2>2 DEF ConfTypeOK
    <2>4. AllPlaced' /\ AllFresh' /\ DeletedInv' /\ SavedInv'
      BY <2>1, <2>2 DEF PubInv, AllPlaced, AllFresh, DeletedInv, SavedInv
    <2>5. OwnCluster' /\ PendingItems' /\ ItemsExist'
      BY <2>1, <2>2 DEF PubInv, OwnCluster, PendingItems, ItemsExist
    <2> QED
      BY <2>3, <2>4, <2>5 DEF PubInv
  <1> QED
    BY <1>1, <1>2, <1>3 DEF ConfNext, RequestNext, StepTypes

LEMMA SpecInv == ConfSpec => [](ConfTypeOK /\ PubInv)
  <1>1. ConfInit => ConfTypeOK /\ PubInv
    BY TypeInit, PubInit
  <1>2. ConfTypeOK /\ PubInv /\ [ConfNext]_confVars => (ConfTypeOK /\ PubInv)'
    BY PubStep
  <1> QED
    BY <1>1, <1>2, PTL DEF ConfSpec

\* Every variable keeps its type: layers, what is published, and the goroutines.
THEOREM ConfigurationTypes == ConfSpec => []ConfTypeOK
  BY SpecInv, PTL

\* What is published when no goroutine is left is what is configured.
THEOREM PublishedAsConfigured == ConfSpec => []Agrees
  <1>1. PubInv => Agrees
    <2> SUFFICES ASSUME PubInv, \A s \in Slot : job[s].at = "idle", NEW a \in App, a \notin owed
                 PROVE  IF a \notin Saved THEN git[a] = Missing
                        ELSE Bound(org.binding) =>
                                /\ git[a].targets = TargetsOf(app[a], org.binding)
                                /\ git[a].value = ResolveEnvLayers(app[a])
      BY DEF Agrees
    <2>1. \A s \in Slot : ~WillUnpublish(job[s], a) /\ ~WillPublish(job[s], a, World[a])
      BY DEF WillUnpublish, WillPublish
    <2>2. /\ World[a].bound = Bound(org.binding)
          /\ app[a] # Missing => /\ World[a].value = ResolveEnvLayers(app[a])
                                 /\ World[a].targets = TargetsOf(app[a], org.binding)
      BY DEF World
    <2>3. CASE app[a] = Missing
      BY <2>1, <2>3 DEF PubInv, DeletedInv, Saved
    <2>4. CASE app[a] # Missing
      BY <2>1, <2>2, <2>4 DEF PubInv, SavedInv, Saved, Right
    <2> QED
      BY <2>3, <2>4
  <1> QED
    BY <1>1, SpecInv, PTL

\* An app that follows an environment on one cluster has the variables of no other.
THEOREM VariablesOfOwnCluster == ConfSpec => []OwnCluster
  BY SpecInv, PTL DEF PubInv

\* No published ExternalSecret extracts an item that is missing.
THEOREM ExtractsExistingItems == ConfSpec => []ItemsExist
  BY SpecInv, PTL DEF PubInv
=============================================================================
