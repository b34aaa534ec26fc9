---------------------------- MODULE ParallelTasks ----------------------------
(***************************************************************************)
(* The scope of a DTH::ParallelTasks: a caller adds NTasks tasks, each run *)
(* by a thread of its own (std::async), and leaves the scope, because all  *)
(* are added or because AddTask throws.  The futures are always those of   *)
(* consecutive tasks, oldest first: mFutures holds the tasks               *)
(* (got + freed + 1)..added.                                               *)
(***************************************************************************)
EXTENDS Integers, FiniteSets

CONSTANTS
    NTasks,     \* how many tasks the caller adds
    MaxN        \* mMaxN, hardware_concurrency()

ASSUME TasksAssumption == NTasks \in Nat /\ MaxN \in Nat \ {0}

VARIABLES
    pc,         \* the caller: between AddTask calls, in its loop, in the destructor
    added,      \* tasks pushed to mFutures
    got,        \* futures that AddTask has got and erased
    freed,      \* futures that the destructor has destroyed
    exc,        \* the task whose exception AddTask rethrows, 0 if none
    task        \* what each task does

tasksVars == <<pc, added, got, freed, exc, task>>

Tasks == 1..NTasks
Oldest == got + freed + 1
Ended(i) == task[i] \in {"done", "threw"}

TasksInit ==
    /\ pc = "add" /\ added = 0 /\ got = 0 /\ freed = 0 /\ exc = 0
    /\ task = [i \in Tasks |-> "none"]

\* AddTask: start the task and push its future.
AddTask ==
    /\ pc = "add" /\ added < NTasks
    /\ added' = added + 1
    /\ task' = [task EXCEPT ![added + 1] = "running"]
    /\ pc' = "get"
    /\ UNCHANGED <<got, freed, exc>>

\* while ( mFutures.size() >= mMaxN )
TooMany == added - got >= MaxN

\* Mutant: the future that was got is not erased.
GetFrontKeeps ==
    /\ pc = "get" /\ TooMany /\ task[Oldest] = "done"
    /\ UNCHANGED tasksVars

\* mFutures[0].get() waits for the oldest task; no exception: erase it.
GetFront ==
    /\ pc = "get" /\ TooMany /\ task[Oldest] = "done"
    /\ got' = got + 1
    /\ UNCHANGED <<pc, added, freed, exc, task>>

\* Mutant: wait() instead of get(), which drops the exception.
WaitFront ==
    /\ pc = "get" /\ TooMany /\ task[Oldest] = "threw"
    /\ got' = got + 1
    /\ UNCHANGED <<pc, added, freed, exc, task>>

\* get() rethrows the exception of the oldest task: AddTask and the scope are left.
GetThrows ==
    /\ pc = "get" /\ TooMany /\ task[Oldest] = "threw"
    /\ exc' = Oldest
    /\ pc' = "leave"
    /\ UNCHANGED <<added, got, freed, task>>

AddReturns ==
    /\ pc = "get" /\ ~TooMany
    /\ pc' = "add"
    /\ UNCHANGED <<added, got, freed, exc, task>>

\* All tasks are added: the scope ends.
ScopeEnds ==
    /\ pc = "add" /\ added = NTasks
    /\ pc' = "leave"
    /\ UNCHANGED <<added, got, freed, exc, task>>

\* The vector destroys its futures; that of an async task waits for it.
FreeFuture ==
    /\ pc = "leave" /\ Oldest <= added /\ Ended(Oldest)
    /\ freed' = freed + 1
    /\ UNCHANGED <<pc, added, got, exc, task>>

Left ==
    /\ pc = "leave" /\ Oldest > added
    /\ pc' = "left"
    /\ UNCHANGED <<added, got, freed, exc, task>>

\* A task returns, or throws.
TaskEnds(i) ==
    /\ task[i] = "running"
    /\ \E r \in {"done", "threw"} : task' = [task EXCEPT ![i] = r]
    /\ UNCHANGED <<pc, added, got, freed, exc>>

CallerStep ==
    \/ AddTask \/ GetFront \/ GetThrows \/ AddReturns \/ ScopeEnds \/ FreeFuture \/ Left

TasksNext == CallerStep \/ \E i \in Tasks : TaskEnds(i)

TasksSpec == TasksInit /\ [][TasksNext]_tasksVars

\* The caller runs, and tasks come to an end.
TasksFairSpec == TasksSpec /\ WF_tasksVars(CallerStep) /\ \A i \in Tasks : WF_tasksVars(TaskEnds(i))

----------------------------------------------------------------------------
(* Properties.                                                             *)

\* The state keeps to its types, and the futures are those of added tasks.
TasksTypeOK ==
    /\ pc \in {"add", "get", "leave", "left"}
    /\ added \in 0..NTasks /\ got \in 0..NTasks /\ freed \in 0..NTasks
    /\ got + freed <= added
    /\ exc \in 0..NTasks
    /\ task \in [Tasks -> {"none", "running", "done", "threw"}]

Running == {i \in Tasks : task[i] = "running"}

(* No task outlives the scope, however it is left: the tasks refer to the   *)
(* hider and to buckets of the caller's frame.                             *)
Joined == pc = "left" => \A i \in Tasks : task[i] # "running"

\* Never more than mMaxN tasks at a time.
Bounded == Cardinality(Running) <= MaxN

\* The tasks whose result nobody asks for, if no exception comes before.
Unasked == {i \in Tasks : i > NTasks + 1 - MaxN}

(* What the caller may conclude when the scope is left.  Normally: every   *)
(* task has run and only the last mMaxN - 1 can have failed unnoticed.  By *)
(* the exception of task k: the tasks before it succeeded, it and the      *)
(* mMaxN - 1 after it were started, no others.                             *)
OutcomeNormal == \A i \in Tasks : task[i] = "done" \/ (task[i] = "threw" /\ i \in Unasked)

OutcomeThrow(k) ==
    /\ task[k] = "threw" /\ k \notin Unasked
    /\ \A i \in Tasks : /\ i < k => task[i] = "done"
                        /\ i >= k + MaxN => task[i] = "none"
                        /\ i \in k..(k + MaxN - 1) => Ended(i)

Outcome == pc = "left" => IF exc = 0 THEN OutcomeNormal ELSE OutcomeThrow(exc)

\* The scope is left: no AddTask and no destructor waits for ever.
Leaves == <>(pc = "left")

\* The inductive invariant behind Joined, Bounded and Outcome.
TasksInv ==
    /\ TasksTypeOK
    /\ \A i \in Tasks : task[i] = "none" <=> i > added
    /\ \A i \in Tasks : i <= got => task[i] = "done"
    /\ \A i \in Tasks : i <= got + freed => Ended(i)
    /\ pc = "add" => added - got < MaxN
    /\ pc = "get" => added - got <= MaxN /\ added > 0
    /\ added - got >= MaxN - 1 \/ got = 0
    /\ pc \in {"add", "get"} => freed = 0 /\ exc = 0
    /\ pc = "left" => got + freed = added
    /\ (pc \in {"leave", "left"} /\ exc = 0) => added = NTasks /\ added - got < MaxN
    /\ exc # 0 => /\ pc \in {"leave", "left"} /\ exc = got + 1 /\ task[exc] = "threw"
                  /\ added = got + MaxN
=============================================================================
