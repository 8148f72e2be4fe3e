---------------------------- MODULE GitPublisher ----------------------------
(***************************************************************************)
(* Publications to the GitOps repository (internal/gitops/publisher.go).   *)
(* Every replica of the API server keeps one working clone; its tasks take *)
(* turns on it under a lock of the process, bring it up to the head of the *)
(* branch, write and remove files in it one by one, commit and push.       *)
(* Nothing serialises the replicas, or Kargo, which pushes image tags to   *)
(* the same branch: the origin refuses a push that is not a fast-forward.  *)
(* A task may fail, or its process die, at any point, and leave the clone  *)
(* as it is for the next one.                                              *)
(***************************************************************************)
EXTENDS Naturals, Sequences

CONSTANTS
    Replicas,    \* processes, each with its own clone and its own lock
    Tasks,       \* concurrent publications, each in some replica
    Nobody,      \* the lock is free
    Files,       \* of the repository
    Versions,    \* what a file may be rendered from
    Absent,      \* the version of a file that is not there
    Tags,        \* image tags
    Seed,        \* the tag of a file that is written for the first time
    First,       \* the content of the branch when the replicas start
    Jobs,        \* what requests publish: each the files it writes and from which
                 \* version, or removes
    MaxCommits   \* bound: commits on the branch

Contents == [Files -> [version : Versions, tag : Tags]]

ASSUME NobodyAssumption == Nobody \notin Tasks
ASSUME TagsAssumption   == Absent \in Versions /\ Seed \in Tags
ASSUME FirstAssumption  == First \in Contents
ASSUME JobsAssumption   == Jobs \subseteq UNION {[S -> Versions] : S \in SUBSET Files}
ASSUME BoundAssumption  == MaxCommits \in Nat \ {0}

VARIABLES
    history,     \* the branch at the origin: the content after each commit
    lock,        \* replica -> the task that holds the lock of its clone
    clone,       \* replica -> its working clone
    task         \* each task: its step, where it runs, and what it publishes

vars == <<history, lock, clone, task>>

Steps   == {"idle", "lock", "sync", "write", "commit", "push"}
Holding == {"sync", "write", "commit", "push"}   \* steps under the lock

Tip == history[Len(history)]

\* base: the origin's commit that the clone was last brought up to; head: the
\* content of its own last commit; tree: its working tree.
Clones == [base : 1..MaxCommits, head : Contents, tree : Contents]

\* todo: the files still to write; check: detect drift, that is, render only;
\* ok: has it reported success?
Works == [step : Steps, at : Replicas \cup {Nobody}, job : Jobs \cup {Nobody}, todo : SUBSET Files,
          check : BOOLEAN, ok : BOOLEAN]

\* No work: a task that has returned keeps only whether it reported success.
Idle == [step |-> "idle", at |-> Nobody, job |-> Nobody, todo |-> {},
         check |-> FALSE, ok |-> FALSE]

TypeOK ==
    /\ history \in Seq(Contents) /\ Len(history) \in 1..MaxCommits
    /\ lock \in [Replicas -> Tasks \cup {Nobody}]
    /\ clone \in [Replicas -> Clones]
    /\ task \in [Tasks -> Works]

Init ==
    /\ history = <<First>>
    /\ lock = [m \in Replicas |-> Nobody]
    /\ clone = [m \in Replicas |-> [base |-> 1, head |-> Tip, tree |-> Tip]]
    /\ task = [t \in Tasks |-> Idle]

-----------------------------------------------------------------------------
(* A task.                                                                 *)

Goto(t, step) == task' = [task EXCEPT ![t].step = step]

\* The task returns and its deferred Unlock runs.
Return(t, ok) ==
    /\ task' = [task EXCEPT ![t] = [Idle EXCEPT !.ok = ok]]
    /\ lock' = [lock EXCEPT ![task[t].at] = Nobody]

Here(t) == clone[task[t].at]

\* PublishApp and its variants, the deletions, and DetectAppDrift.
Begin(t, m, job, check) ==
    /\ task[t].step = "idle"
    /\ task' = [task EXCEPT ![t] =
          [step |-> "lock", at |-> m, job |-> job, todo |-> {}, check |-> check,
           ok |-> FALSE]]
    /\ UNCHANGED <<history, lock, clone>>

\* repoLockFor: one mutex for each clone.
LockFree(m) == lock[m] = Nobody

Acquire(t) ==
    /\ task[t].step = "lock" /\ LockFree(task[t].at)
    /\ lock' = [lock EXCEPT ![task[t].at] = t]
    /\ Goto(t, "sync")
    /\ UNCHANGED <<history, clone>>

\* refreshRepo (fetch, reset --hard, clean -fd), or a fresh clone: whatever the
\* last task left behind is discarded.
Refreshed == [base |-> Len(history), head |-> Tip, tree |-> Tip]

Sync(t) ==
    /\ task[t].step = "sync"
    /\ clone' = [clone EXCEPT ![task[t].at] = Refreshed]
    /\ task' = [task EXCEPT ![t].step = "write", ![t].todo = DOMAIN task[t].job]
    /\ UNCHANGED <<history, lock>>

\* The clone is stale, or gone, or refreshed but not configured; the next task does
\* not depend on it.
SyncFails(t) ==
    /\ task[t].step = "sync"
    /\ \/ UNCHANGED clone
       \/ clone' = [clone EXCEPT ![task[t].at] = Refreshed]
    /\ Return(t, FALSE)
    /\ UNCHANGED history

\* Mutant: the tag is rendered from the spec.
SeedTag(old) == Seed

\* preserveTag: Kargo owns the tag that is committed in the file.
KeptTag(old) == old.tag

\* A file that was old, after it is written or removed.
Rewritten(old, v) ==
    [version |-> v,
     tag     |-> IF Absent \in {v, old.version} THEN Seed ELSE KeptTag(old)]

\* writeAppTree and the like: one file after the other.
Write(t, f) ==
    /\ task[t].step = "write" /\ f \in task[t].todo
    /\ clone' = [clone EXCEPT ![task[t].at].tree[f] = Rewritten(@, task[t].job[f])]
    /\ task' = [task EXCEPT ![t].todo = @ \ {f}]
    /\ UNCHANGED <<history, lock>>

WriteEnds(t) ==
    /\ task[t].step = "write" /\ task[t].todo = {}
    /\ Goto(t, "commit")
    /\ UNCHANGED <<history, lock, clone>>

\* The clone after a drift check has discarded what it rendered.
Discarded(t) == [clone EXCEPT ![task[t].at].tree = Here(t).head]

\* A file cannot be written, or git fails before it has committed.  What is written
\* stays in the working tree, except after a drift check.
Fails(t) ==
    /\ task[t].step \in {"write", "commit"}
    /\ Return(t, FALSE)
    /\ \/ UNCHANGED clone
       \/ task[t].check /\ clone' = Discarded(t)
    /\ UNCHANGED history

\* DetectAppDrift has listed the files that differ from the head.
Compare(t) ==
    /\ task[t].step = "commit" /\ task[t].check
    /\ clone' = Discarded(t)
    /\ Return(t, TRUE)
    /\ UNCHANGED history

\* commitAndPush: nothing to commit.
NothingToCommit(t) ==
    /\ task[t].step = "commit" /\ ~task[t].check
    /\ Here(t).tree = Here(t).head
    /\ Return(t, TRUE)
    /\ UNCHANGED <<history, clone>>

Commit(t) ==
    /\ task[t].step = "commit" /\ ~task[t].check
    /\ Here(t).tree # Here(t).head
    /\ clone' = [clone EXCEPT ![task[t].at].head = Here(t).tree]
    /\ Goto(t, "push")
    /\ UNCHANGED <<history, lock>>

\* Mutant: git push --force.
Forced(t) == TRUE

\* The origin accepts only a descendant of its head.
FastForward(t) == Here(t).base = Len(history)

\* Mutant: an error of the push is only logged.
Unchecked == TRUE

\* "push to gitops repo": the error is returned to the caller.
PushError == FALSE

\* The answer of a push that the origin has accepted may be lost.
Push(t) ==
    /\ task[t].step = "push"
    /\ FastForward(t) /\ Len(history) < MaxCommits
    /\ history' = Append(history, Here(t).head)
    /\ \E ok \in {TRUE, PushError} : Return(t, ok)
    /\ UNCHANGED clone

\* It is refused, or the origin cannot be reached.  It is not retried.
PushFails(t) ==
    /\ task[t].step = "push"
    /\ Return(t, PushError)
    /\ UNCHANGED <<history, clone>>

-----------------------------------------------------------------------------
\* A process dies: its locks are gone, its clone stays as it is.
Crash(m) ==
    /\ lock' = [lock EXCEPT ![m] = Nobody]
    /\ task' = [t \in Tasks |-> IF task[t].at = m THEN Idle ELSE task[t]]
    /\ UNCHANGED <<history, clone>>

\* Kargo promotes: it commits a new tag to files that are there (external).
Promoted(S, x) ==
    [f \in Files |-> IF f \in S /\ Tip[f].version # Absent
                     THEN [Tip[f] EXCEPT !.tag = x] ELSE Tip[f]]

KargoPush ==
    /\ Len(history) < MaxCommits
    /\ \E S \in SUBSET Files, x \in Tags : history' = Append(history, Promoted(S, x))
    /\ UNCHANGED <<lock, clone, task>>

Task(t) ==
    \/ \E m \in Replicas, job \in Jobs, check \in BOOLEAN : Begin(t, m, job, check)
    \/ Acquire(t) \/ Sync(t) \/ SyncFails(t)
    \/ \E f \in Files : Write(t, f)
    \/ WriteEnds(t) \/ Fails(t) \/ Compare(t)
    \/ NothingToCommit(t) \/ Commit(t) \/ Push(t) \/ PushFails(t)

Next ==
    \/ \E t \in Tasks : Task(t)
    \/ \E m \in Replicas : Crash(m)
    \/ KargoPush

Spec == Init /\ [][Next]_vars

-----------------------------------------------------------------------------
(* What publication promises.                                              *)

\* The lock of a clone is with the one task that works in it.
LockInv ==
    /\ \A t \in Tasks : task[t].step # "idle" => task[t].at \in Replicas /\ task[t].job \in Jobs
    /\ \A t \in Tasks : task[t].step \in Holding => lock[task[t].at] = t
    /\ \A m \in Replicas : lock[m] # Nobody =>
          task[lock[m]].step \in Holding /\ task[lock[m]].at = m

\* The content c when the task w has written all of its files but those to do.
Rendered(c, w) ==
    [f \in Files |-> IF f \in DOMAIN w.job \ w.todo THEN Rewritten(c[f], w.job[f])
                     ELSE c[f]]

\* Clone c is a commit of the branch h, with what the task w has written there and
\* with nothing else.
RendersFrom(w, c, h) ==
    /\ c.base <= Len(h)
    /\ w.todo \subseteq IF w.step = "write" THEN DOMAIN w.job ELSE {}
    /\ w.step \in {"write", "commit"} =>
          c.head = h[c.base] /\ c.tree = Rendered(h[c.base], w)
    /\ w.step = "push" => c.head = Rendered(h[c.base], w) /\ ~w.check

CloneInv ==
    \A t \in Tasks : task[t].step \in {"write", "commit", "push"} =>
        RendersFrom(task[t], Here(t), history)

\* The inductive invariant: whoever is at work in a clone holds its lock, and
\* has brought it up to the branch before it wrote.
IInv == TypeOK /\ LockInv /\ CloneInv

Repo == INSTANCE AtomicRepo WITH content <- Tip

\* Whatever the replicas, Kargo and the failures do, each commit on the branch is
\* one whole publication, or one promotion, on top of the commit before it: no
\* half-written tree is pushed, no deployed tag is rolled back, and no other
\* commit is undone ("a concurrent publish never sees a half-written tree").
IsAtomicRepo == Repo!Spec

\* The versions that the task publishes are on the branch, in a commit no older
\* than the one it started from.
OnBranch(t) ==
    \E n \in DOMAIN history' :
        /\ n >= Here(t).base
        /\ \A f \in DOMAIN task[t].job : history'[n][f].version = task[t].job[f]

\* A publication that reports success is on the branch.
ReportedIsPublished ==
    [][\A t \in Tasks :
          task'[t].ok /\ ~task[t].ok /\ ~task[t].check => OnBranch(t)]_vars

=============================================================================
