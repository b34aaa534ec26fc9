-------------------------- MODULE Textures_proofs --------------------------
(***************************************************************************)
(* Proofs about ParallelTasks, for every number of tasks and of threads,   *)
(* and about Textures, whose tasks they are, for every number of names and *)
(* lookups as well: with what is proved about the tasks, no texture is     *)
(* used after the State has deleted it and a name always stands for the    *)
(* same texture.                                                           *)
(***************************************************************************)
EXTENDS Textures, FiniteSetTheorems, NatInduction

----------------------------------------------------------------------------
(* ParallelTasks.                                                          *)

\* A scope begins with the inductive invariant.
LEMMA InitIInv == TasksInit => TasksInv
BY TasksAssumption DEF TasksInit, TasksInv, TasksTypeOK, Tasks, Ended

\* What one task's entry in task looks like after a step that changes it alone.
LEMMA TaskUpdate ==
    ASSUME TasksTypeOK, NEW k \in Tasks, NEW r \in {"running", "done", "threw"},
           task' = [task EXCEPT ![k] = r]
    PROVE  /\ task' \in [Tasks -> {"none", "running", "done", "threw"}]
           /\ task'[k] = r /\ \A i \in Tasks \ {k} : task'[i] = task[i]
BY DEF TasksTypeOK

\* AddTask starts the next task only.
LEMMA AddStep ==
    ASSUME TasksInv, AddTask
    PROVE  TasksInv'
<1> USE TasksAssumption
<1>1. /\ added \in Nat /\ added + 1 \in Tasks /\ added' = added + 1 /\ pc = "add"
      /\ pc' = "get" /\ UNCHANGED <<got, freed, exc>>
  BY DEF AddTask, TasksInv, TasksTypeOK, Tasks
<1>2. /\ task' \in [Tasks -> {"none", "running", "done", "threw"}]
      /\ task'[added + 1] = "running"
      /\ \A i \in Tasks \ {added + 1} : task'[i] = task[i]
  BY <1>1, TaskUpdate DEF AddTask, TasksInv
<1>3. TasksTypeOK'
  BY <1>1, <1>2 DEF TasksInv, TasksTypeOK, Tasks
<1>4. \A i \in Tasks : task'[i] = "none" <=> i > added'
  BY <1>1, <1>2 DEF TasksInv, Tasks
<1>5. \A i \in Tasks : /\ i <= got' => task'[i] = "done"
                       /\ i <= got' + freed' => Ended(i)'
  BY <1>1, <1>2 DEF TasksInv, TasksTypeOK, Tasks, Ended
<1>6. /\ added' - got' <= MaxN /\ added' > 0 /\ (added' - got' >= MaxN - 1 \/ got' = 0)
      /\ freed' = 0 /\ exc' = 0
  BY <1>1 DEF TasksInv, TasksTypeOK
<1> QED  BY <1>1, <1>3, <1>4, <1>5, <1>6 DEF TasksInv

\* A task that ends was running, so it is neither got nor freed.
LEMMA TaskEndsStep ==
    ASSUME TasksInv, NEW k \in Tasks, TaskEnds(k)
    PROVE  TasksInv'
<1> USE TasksAssumption
<1>1. task[k] = "running" /\ UNCHANGED <<pc, added, got, freed, exc>>
  BY DEF TaskEnds
<1>2. /\ task' \in [Tasks -> {"none", "running", "done", "threw"}]
      /\ task'[k] \in {"done", "threw"} /\ \A i \in Tasks \ {k} : task'[i] = task[i]
  BY TaskUpdate DEF TaskEnds, TasksInv
<1>3. TasksTypeOK'
  BY <1>1, <1>2 DEF TasksInv, TasksTypeOK
<1>4. \A i \in Tasks : /\ task'[i] = "none" <=> i > added'
                       /\ i <= got' => task'[i] = "done"
                       /\ i <= got' + freed' => Ended(i)'
  BY <1>1, <1>2 DEF TasksInv, Ended
<1>5. exc # 0 => task'[exc] = "threw"
  <2> SUFFICES ASSUME exc # 0 PROVE task'[exc] = "threw"
    OBVIOUS
  <2>1. exc \in Tasks /\ task[exc] = "threw"
    BY DEF TasksInv, TasksTypeOK, Tasks
  <2> QED  BY <2>1, <1>1, <1>2
<1> QED  BY <1>1, <1>3, <1>4, <1>5 DEF TasksInv

\* Every step of the caller and of the tasks keeps the invariant.
LEMMA IInvStep == TasksInv /\ [TasksNext]_tasksVars => TasksInv'
<1> SUFFICES ASSUME TasksInv, [TasksNext]_tasksVars PROVE TasksInv'
  OBVIOUS
<1> USE TasksAssumption
<1>1. CASE AddTask  BY <1>1, AddStep
<1>2. CASE GetFront
  <2>1. /\ pc = "get" /\ added - got >= MaxN /\ got' = got + 1 /\ freed = 0 /\ exc = 0
        /\ task[got + 1] = "done" /\ UNCHANGED <<pc, added, freed, exc, task>>
    BY <1>2 DEF GetFront, TooMany, Oldest, TasksInv, TasksTypeOK
  <2>2. TasksTypeOK'
    BY <2>1 DEF TasksInv, TasksTypeOK
  <2>3. \A i \in Tasks : i <= got + 1 => task[i] = "done"
    BY <2>1 DEF TasksInv, TasksTypeOK, Tasks
  <2>4. added' - got' <= MaxN /\ added' - got' >= MaxN - 1
    BY <2>1 DEF TasksInv, TasksTypeOK
  <2> QED  BY <2>1, <2>2, <2>3, <2>4 DEF TasksInv, Ended, TasksTypeOK
<1>3. CASE GetThrows
  <2>1. /\ pc = "get" /\ added - got >= MaxN /\ freed = 0 /\ exc = 0 /\ exc' = got + 1
        /\ task[got + 1] = "threw" /\ pc' = "leave" /\ UNCHANGED <<added, got, freed, task>>
    BY <1>3 DEF GetThrows, TooMany, Oldest, TasksInv, TasksTypeOK
  <2>2. added = got + MaxN /\ got + 1 \in 1..NTasks
    BY <2>1 DEF TasksInv, TasksTypeOK
  <2> QED  BY <2>1, <2>2 DEF TasksInv, TasksTypeOK, Ended
<1>4. CASE AddReturns
  BY <1>4 DEF AddReturns, TooMany, TasksInv, TasksTypeOK, Ended
<1>5. CASE ScopeEnds
  BY <1>5 DEF ScopeEnds, TasksInv, TasksTypeOK, Ended
<1>6. CASE FreeFuture
  <2>1. /\ pc = "leave" /\ got + freed + 1 <= added /\ Ended(got + freed + 1)
        /\ freed' = freed + 1 /\ UNCHANGED <<pc, added, got, exc, task>>
    BY <1>6 DEF FreeFuture, Oldest
  <2>2. TasksTypeOK'
    BY <2>1 DEF TasksInv, TasksTypeOK
  <2>3. \A i \in Tasks : i <= got + (freed + 1) => Ended(i)
    BY <2>1 DEF TasksInv, TasksTypeOK, Tasks
  <2> QED  BY <2>1, <2>2, <2>3 DEF TasksInv, Ended
<1>7. CASE Left
  BY <1>7 DEF Left, Oldest, TasksInv, TasksTypeOK, Ended
<1>8. CASE \E i \in Tasks : TaskEnds(i)
  BY <1>8, TaskEndsStep
<1>9. CASE UNCHANGED tasksVars
  BY <1>9 DEF tasksVars, TasksInv, TasksTypeOK, Ended
<1> QED
  BY <1>1, <1>2, <1>3, <1>4, <1>5, <1>6, <1>7, <1>8, <1>9 DEF TasksNext, CallerStep

\* The inductive invariant holds throughout every scope.
THEOREM Invariance == TasksSpec => []TasksInv
<1>1. TasksInit => TasksInv  BY InitIInv
<1>2. TasksInv /\ [TasksNext]_tasksVars => TasksInv'  BY IInvStep
<1> QED  BY <1>1, <1>2, PTL DEF TasksSpec

\* The counters of mFutures and the tasks keep to their types.
THEOREM TypeCorrect == TasksSpec => []TasksTypeOK
<1>1. TasksInv => TasksTypeOK  BY DEF TasksInv
<1> QED  BY <1>1, Invariance, PTL

\* No bucket task outlives the ParallelTasks it was added to.
THEOREM AllJoined == TasksSpec => []Joined
<1>1. TasksInv => Joined
  <2> SUFFICES ASSUME TasksInv, pc = "left", NEW i \in Tasks PROVE task[i] # "running"
    BY DEF Joined
  <2>1. got + freed = added
    BY DEF TasksInv
  <2>2. CASE i <= added
    BY <2>1, <2>2 DEF TasksInv, Ended
  <2>3. CASE i > added
    BY <2>3 DEF TasksInv
  <2> QED  BY <2>2, <2>3, TasksAssumption DEF TasksInv, TasksTypeOK, Tasks
<1> QED  BY <1>1, Invariance, PTL

\* The running tasks are among those whose futures are still to be got.
LEMMA FewRun == TasksInv => IsFiniteSet(Running) /\ Cardinality(Running) <= MaxN
<1> SUFFICES ASSUME TasksInv PROVE IsFiniteSet(Running) /\ Cardinality(Running) <= MaxN
  OBVIOUS
<1> USE TasksAssumption
<1>1. /\ added \in Nat /\ got \in Nat /\ freed \in Nat /\ got <= added
      /\ added - got <= MaxN
  BY DEF TasksInv, TasksTypeOK
<1>2. Running \subseteq (got + 1)..added
  <2> SUFFICES ASSUME NEW i \in Running PROVE i \in (got + 1)..added
    OBVIOUS
  <2>1. i \in Tasks /\ task[i] = "running"
    BY DEF Running
  <2>2. ~(i > added) /\ ~(i <= got)
    BY <2>1 DEF TasksInv
  <2> QED  BY <2>1, <2>2, <1>1 DEF Tasks
<1>3. /\ IsFiniteSet((got + 1)..added)
      /\ Cardinality((got + 1)..added) =
            IF got + 1 > added THEN 0 ELSE added - (got + 1) + 1
  BY <1>1, FS_Interval
<1>4. IsFiniteSet(Running) /\ Cardinality(Running) <= Cardinality((got + 1)..added)
  BY <1>2, <1>3, FS_Subset
<1>5. Cardinality(Running) \in Nat
  BY <1>4, FS_CardinalityType
<1> QED  BY <1>1, <1>3, <1>4, <1>5

\* AddTask never has more than mMaxN tasks running.
THEOREM ThreadsBounded == TasksSpec => []Bounded
<1>1. TasksInv => Bounded
  BY FewRun DEF Bounded
<1> QED  BY <1>1, Invariance, PTL

(* What the caller knows when the scope is left: exactly the last mMaxN - 1 *)
(* tasks can fail unnoticed, and an exception names the first that failed   *)
(* of the others.                                                          *)
THEOREM OutcomeKnown == TasksSpec => []Outcome
<1>1. TasksInv => Outcome
  <2> SUFFICES ASSUME TasksInv, pc = "left"
               PROVE  IF exc = 0 THEN OutcomeNormal ELSE OutcomeThrow(exc)
    BY DEF Outcome
  <2> USE TasksAssumption
  <2>1. /\ added \in 0..NTasks /\ got \in 0..NTasks /\ freed \in 0..NTasks
        /\ got + freed = added
    BY DEF TasksInv, TasksTypeOK
  <2>2. CASE exc = 0
    <3> SUFFICES ASSUME NEW i \in Tasks
                 PROVE  task[i] = "done" \/ (task[i] = "threw" /\ i \in Unasked)
      BY <2>2 DEF OutcomeNormal
    <3>1. added = NTasks /\ added - got < MaxN
      BY <2>2 DEF TasksInv
    <3>2. task[i] \in {"done", "threw"}
      BY <3>1, <2>1 DEF TasksInv, Ended, Tasks
    <3>3. i <= got => task[i] = "done"
      BY DEF TasksInv
    <3>4. i > got => i > NTasks + 1 - MaxN
      BY <3>1, <2>1 DEF Tasks
    <3> QED  BY <3>2, <3>3, <3>4, <2>1 DEF Unasked, Tasks
  <2>3. CASE exc # 0
    <3>1. exc = got + 1 /\ task[exc] = "threw" /\ added = got + MaxN
      BY <2>3 DEF TasksInv
    <3>2. exc \notin Unasked
      BY <3>1, <2>1 DEF Unasked
    <3>3. ASSUME NEW i \in Tasks
          PROVE  /\ i < exc => task[i] = "done"
                 /\ i >= exc + MaxN => task[i] = "none"
                 /\ i \in exc..(exc + MaxN - 1) => Ended(i)
      <4>1. i < exc => i <= got
        BY <3>1, <2>1 DEF Tasks
      <4>2. i >= exc + MaxN => i > added
        BY <3>1, <2>1 DEF Tasks
      <4>3. i \in exc..(exc + MaxN - 1) => i <= got + freed
        BY <3>1, <2>1 DEF Tasks
      <4> QED  BY <4>1, <4>2, <4>3 DEF TasksInv
    <3> QED  BY <2>3, <3>1, <3>2, <3>3 DEF OutcomeThrow
  <2> QED  BY <2>2, <2>3
<1> QED  BY <1>1, Invariance, PTL

----------------------------------------------------------------------------
(* Textures: its tasks are tasks of ParallelTasks.                         *)

LEMMA TaskStep ==
    TexNext => [TasksNext]_tasksVars
<1> SUFFICES ASSUME TexNext PROVE [TasksNext]_tasksVars
  OBVIOUS
<1>1. CASE CallerMoves
  BY <1>1 DEF CallerMoves, TasksNext
<1>2. ASSUME NEW i \in Tasks, BucketEnds(i) PROVE [TasksNext]_tasksVars
  BY <1>2 DEF BucketEnds, TasksNext
<1>4. ASSUME NEW i \in Tasks, TextureStep(i) PROVE [TasksNext]_tasksVars
  BY <1>4 DEF TextureStep, NewTexture, LoadThrows, NotFound, SkipsNull, SamplesNull, AddResource, AddRefLoad, AddRefStore, SubRefLoad,
              SubRefStore, LoadCount, StoreCount
<1>5. ASSUME NEW i \in Tasks, NEW n \in Names, FindResource(i, n) PROVE [TasksNext]_tasksVars
  BY <1>5 DEF FindResource
<1>6. CASE Collect
  BY <1>6 DEF Collect
<1> QED
  BY <1>1, <1>2, <1>4, <1>5, <1>6 DEF TexNext

(* Seen from the caller of ParallelTasks, bucket tasks that look textures  *)
(* up, wait for the mutex and throw are just tasks that end.               *)
THEOREM TexturesImplementTasks == TexSpec => ImplementsTasks
<1>1. TexInit => TasksInit
  BY DEF TexInit
<1>2. [TexNext]_allVars => [TasksNext]_tasksVars
  BY TaskStep DEF allVars, tasksVars
<1> QED
  BY <1>1, <1>2, PTL DEF TexSpec, ImplementsTasks, TasksSpec

LEMMA TexJoined == TexSpec => [](TasksInv /\ Joined)
<1>1. TexSpec => TasksSpec
  BY TexturesImplementTasks DEF ImplementsTasks
<1> QED
  BY <1>1, Invariance, AllJoined, PTL

----------------------------------------------------------------------------
(* Textures stay as long as a task has them.                               *)

LEMMA InitTex == TexInit => TexInv
<1> SUFFICES ASSUME TexInit PROVE TexInv
  OBVIOUS
<1>1. op \in [Tasks -> [pc : {"idle"}, name : {Idle}, obj : {0}, reg : {0}, cnt : {0}]]
  BY DEF TexInit, NoOp
<1>2. objs = <<>> /\ mpList = <<>> /\ phase = "up"
  BY DEF TexInit
<1> QED
  BY <1>1, <1>2 DEF TexInv, TexShape, Ops, OpsRun, StateStays, AllLive, OwnNames, NoFile

\* A set of numbers that is not empty has a least one, which is its Min.
LEMMA FirstHasName ==
    ASSUME NEW n, mpList \in Seq(DOMAIN objs), FirstNamed(n) # 0
    PROVE  FirstNamed(n) \in DOMAIN objs /\ objs[FirstNamed(n)].name = n
<1> DEFINE S == {k \in DOMAIN mpList : objs[mpList[k]].name = n}
<1>1. S # {} /\ FirstNamed(n) = mpList[Min(S)]
  BY DEF FirstNamed
<1>2. Min(S) \in S
  <2>1. S \in SUBSET Nat
    OBVIOUS
  <2> QED
    BY <1>1, <2>1, LeastExists
<1> QED
  BY <1>1, <1>2

\* The records of instructions and textures, field by field.
LEMMA OpAdds ==
    ASSUME NEW r \in Ops, NEW o \in Nat
    PROVE  [r EXCEPT !.pc = "add", !.obj = o] \in Ops
BY DEF Ops

LEMMA OpCounts ==
    ASSUME NEW r \in Ops, NEW p \in {"use", "refStore", "unrefStore"}, NEW z \in Int
    PROVE  [r EXCEPT !.pc = p, !.reg = z] \in Ops /\ [r EXCEPT !.pc = p, !.reg = z].pc = p
<1>1. [r EXCEPT !.pc = p, !.reg = z] \in Ops
  BY DEF Ops
<1>2. [r EXCEPT !.pc = p, !.reg = z].pc = p
  BY DEF Ops
<1> QED
  BY <1>1, <1>2

LEMMA SetCount ==
    ASSUME NEW s \in Seq(Objects), NEW o \in DOMAIN s, NEW c \in Int
    PROVE  [s EXCEPT ![o].cnt = c] \in Seq(Objects)
<1>1. [s[o] EXCEPT !.cnt = c] \in Objects
  <2>1. s[o] \in Objects
    OBVIOUS
  <2> QED
    BY <2>1 DEF Objects
<1> QED
  BY <1>1

LEMMA SetDead ==
    ASSUME NEW r \in Objects
    PROVE  [r EXCEPT !.live = FALSE] \in Objects
BY DEF Objects

\* What an instruction does to its own record leaves the shape of the others.
LEMMA OpStep ==
    ASSUME TexShape, NEW i \in Tasks, NEW r \in Ops, op' = [op EXCEPT ![i] = r],
           objs' \in Seq(Objects), phase' = phase,
           r.pc = "load" => r.name \in Names
    PROVE  TexShape'
BY DEF TexShape

\* A running task finds the State in place.
LEMMA TexStays ==
    ASSUME TexShape, StateStays, Joined, NEW i \in Tasks, task[i] = "running"
    PROVE  phase # "gone"
BY DEF TexShape, StateStays, Joined

\* The instruction comes to no texture: the load throws or finds no file, or NULL is skipped.
Quiet(i) == LoadThrows(i) \/ NotFound(i) \/ SkipsNull(i)

LEMMA QuietStep ==
    ASSUME TexShape, NEW i \in Tasks, Quiet(i)
    PROVE  /\ task[i] = "running" /\ op[i].pc \in {"load", "null"}
           /\ UNCHANGED <<tasksVars, objs, mpList, phase, raced>>
           /\ \E x \in Ops : /\ op' = [op EXCEPT ![i] = x] /\ x.pc \in {"idle", "null"}
                             /\ x.pc = "null" => x.name \in Missing
<1>s. op[i] \in Ops /\ op = [j \in Tasks |-> op[j]]
  BY DEF TexShape
<1>1. /\ task[i] = "running" /\ op[i].pc \in {"load", "null"}
      /\ UNCHANGED <<tasksVars, objs, mpList, phase, raced>>
  BY DEF Quiet, LoadThrows, NotFound, SkipsNull, Step
<1>2. CASE NotFound(i)
  <2> DEFINE x == [op[i] EXCEPT !.pc = "null"]
  <2>1. op' = [op EXCEPT ![i] = x] /\ op[i].name \in Missing
    BY <1>2 DEF NotFound
  <2>2. x \in Ops /\ x.pc = "null" /\ x.name = op[i].name
    BY <1>s DEF Ops
  <2> HIDE DEF x
  <2> QED
    BY <1>1, <2>1, <2>2
<1>3. CASE LoadThrows(i) \/ SkipsNull(i)
  <2> DEFINE x == [NoOp EXCEPT !.cnt = op[i].cnt]
  <2>1. op' = [op EXCEPT ![i] = x]
    BY <1>3 DEF LoadThrows, SkipsNull, Over
  <2>2. x \in Ops /\ x.pc = "idle"
    BY <1>s DEF Ops, NoOp
  <2> HIDE DEF x
  <2> QED
    BY <1>1, <2>1, <2>2
<1> QED
  BY <1>2, <1>3 DEF Quiet

LEMMA CrashKeeps ==
    ASSUME NEW i, SamplesNull(i)
    PROVE  task[i] = "running" /\ phase' = "crashed" /\ UNCHANGED <<tasksVars, objs, mpList, op, raced>>
BY DEF SamplesNull, Step

LEMMA IsASeq ==
    ASSUME NEW T, NEW n \in Nat, NEW f, f = [k \in 1..n |-> f[k]], \A k \in 1..n : f[k] \in T
    PROVE  f \in Seq(T)
OBVIOUS

LEMMA ShapeStep == TexInv /\ Joined /\ TexNext => TexShape'
<1> SUFFICES ASSUME TexInv, Joined, TexNext PROVE TexShape'
  OBVIOUS
<1>s. TexShape
  BY DEF TexInv
<1>o. \A i \in Tasks : op[i] \in Ops
  BY <1>s DEF TexShape
<1>1. CASE CallerMoves
  BY <1>s, <1>1 DEF CallerMoves, texVars, TexShape
<1>2. ASSUME NEW i \in Tasks, BucketEnds(i) PROVE TexShape'
  BY <1>s, <1>2 DEF BucketEnds, texVars, TexShape
<1>3. ASSUME NEW i \in Tasks, NewTexture(i) PROVE TexShape'
  <2>1. [op[i] EXCEPT !.pc = "add", !.obj = Len(objs) + 1] \in Ops
    <3>1. Len(objs) + 1 \in Nat
      BY <1>s DEF TexShape
    <3> QED
      BY <1>o, <3>1, OpAdds
  <2>2. objs' \in Seq(Objects)
    <3>1. [name |-> op[i].name, cnt |-> 0, live |-> TRUE] \in Objects
      BY <1>s, <1>3 DEF NewTexture, Step, TexShape, Objects
    <3> QED
      BY <1>s, <1>3, <3>1 DEF NewTexture, TexShape
  <2>3. op' = [op EXCEPT ![i] = [op[i] EXCEPT !.pc = "add", !.obj = Len(objs) + 1]]
    BY <1>s, <1>3 DEF NewTexture, TexShape
  <2>4. [op[i] EXCEPT !.pc = "add", !.obj = Len(objs) + 1].pc = "add"
    BY <1>o DEF Ops
  <2>5. phase' = phase
    BY <1>3 DEF NewTexture
  <2> HIDE DEF Objects, Ops
  <2> QED
    BY <1>s, <2>1, <2>2, <2>3, <2>4, <2>5, OpStep
<1>4. ASSUME NEW i \in Tasks, Quiet(i) PROVE TexShape'
  <2>1. objs' = objs /\ phase' = phase
        /\ \E x \in Ops : op' = [op EXCEPT ![i] = x] /\ x.pc \in {"idle", "null"}
    BY <1>s, <1>4, QuietStep
  <2> QED
    BY <1>s, <2>1, OpStep DEF TexShape
<1>12. ASSUME NEW i \in Tasks, SamplesNull(i) PROVE TexShape'
  BY <1>s, <1>12, CrashKeeps DEF TexShape
<1>5. ASSUME NEW i \in Tasks, AddResource(i) PROVE TexShape'
  <2>1. /\ op' = [op EXCEPT ![i] = [op[i] EXCEPT !.pc = "ref"]]
        /\ objs' = objs /\ phase' = phase
    BY <1>s, <1>5 DEF AddResource, TexShape
  <2>2. [op[i] EXCEPT !.pc = "ref"] \in Ops /\ [op[i] EXCEPT !.pc = "ref"].pc = "ref"
    BY <1>o DEF Ops
  <2> QED
    BY <1>s, <2>1, <2>2, OpStep DEF TexShape
<1>6. ASSUME NEW i \in Tasks, AddRefLoad(i) PROVE TexShape'
  <2> DEFINE z == objs[op[i].obj].cnt
  <2>1. /\ op[i].pc = "ref"
        /\ op' = [op EXCEPT ![i] = [op[i] EXCEPT !.pc = "refStore", !.reg = z]]
        /\ objs' = objs /\ phase' = phase
    BY <1>6 DEF AddRefLoad, LoadCount, Step
  <2>2. z \in Int
    <3>1. op[i].obj \in DOMAIN objs
      BY <2>1 DEF TexInv, OwnNames
    <3>2. objs[op[i].obj] \in Objects
      BY <1>s, <3>1 DEF TexShape
    <3> QED
      BY <3>2 DEF Objects
  <2> HIDE DEF z
  <2>3. /\ [op[i] EXCEPT !.pc = "refStore", !.reg = z] \in Ops
        /\ [op[i] EXCEPT !.pc = "refStore", !.reg = z].pc = "refStore"
    <3>1. op[i] \in Ops /\ "refStore" \in {"use", "refStore", "unrefStore"}
      BY <1>o
    <3> QED
      BY <2>2, <3>1, OpCounts, Zenon
  <2> QED
    BY <1>s, <2>1, <2>3, OpStep DEF TexShape
<1>7. ASSUME NEW i \in Tasks, AddRefStore(i) PROVE TexShape'
  <2>1. /\ op[i].pc = "refStore"
        /\ op' = [op EXCEPT ![i] = [op[i] EXCEPT !.pc = "use", !.reg = 0]]
        /\ objs' = [objs EXCEPT ![op[i].obj].cnt = op[i].reg + 1] /\ phase' = phase
    BY <1>s, <1>7 DEF AddRefStore, StoreCount, Step, TexShape
  <2>2. objs' \in Seq(Objects)
    <3>1. op[i].obj \in DOMAIN objs
      BY <2>1 DEF TexInv, OwnNames
    <3>2. op[i].reg + 1 \in Int
      BY <1>o DEF Ops
    <3> QED
      BY <1>s, <2>1, <3>1, <3>2, SetCount DEF TexShape
  <2>3. /\ [op[i] EXCEPT !.pc = "use", !.reg = 0] \in Ops
        /\ [op[i] EXCEPT !.pc = "use", !.reg = 0].pc = "use"
    <3>1. op[i] \in Ops /\ "use" \in {"use", "refStore", "unrefStore"} /\ 0 \in Int
      BY <1>o
    <3> QED
      BY <3>1, OpCounts, Zenon
  <2> QED
    BY <1>s, <2>1, <2>2, <2>3, OpStep
<1>8. ASSUME NEW i \in Tasks, SubRefStore(i) PROVE TexShape'
  <2>1. /\ op[i].pc = "unrefStore"
        /\ op' = [op EXCEPT ![i] = [NoOp EXCEPT !.cnt = op[i].cnt]]
        /\ objs' = [objs EXCEPT ![op[i].obj].cnt = op[i].reg - 1] /\ phase' = phase
    BY <1>s, <1>8 DEF SubRefStore, Over, Step, TexShape
  <2>2. objs' \in Seq(Objects)
    <3>1. op[i].obj \in DOMAIN objs
      BY <2>1 DEF TexInv, OwnNames
    <3>2. op[i].reg - 1 \in Int
      BY <1>o DEF Ops
    <3> QED
      BY <1>s, <2>1, <3>1, <3>2, SetCount DEF TexShape
  <2>3. /\ [NoOp EXCEPT !.cnt = op[i].cnt] \in Ops
        /\ [NoOp EXCEPT !.cnt = op[i].cnt].pc = "idle"
    BY <1>o DEF Ops, NoOp
  <2> QED
    BY <1>s, <2>1, <2>2, <2>3, OpStep
<1>9. ASSUME NEW i \in Tasks, NEW n \in Names, FindResource(i, n) PROVE TexShape'
  <2> DEFINE o == FirstNamed(n)
             p == IF o = 0 THEN "load" ELSE "ref"
             r == [pc |-> p, name |-> n, obj |-> o, reg |-> 0, cnt |-> op[i].cnt + 1]
  <2>1. op' = [op EXCEPT ![i] = r] /\ objs' = objs /\ phase' = phase
    BY <1>9 DEF FindResource
  <2>2. o \in Nat
    <3>1. phase # "gone"
      BY <1>9, <1>s, TexStays DEF FindResource, Step, TexInv
    <3>2. mpList \in Seq(DOMAIN objs)
      BY <3>1 DEF TexInv, AllLive
    <3> QED
      BY <1>s, <3>2, FirstHasName DEF TexShape
  <2>3. p \in {"load", "ref"} /\ op[i].cnt + 1 \in Nat
    BY <1>o DEF Ops
  <2> HIDE DEF o, p
  <2>4. r \in Ops /\ r.name = n
    BY <2>2, <2>3 DEF Ops
  <2> HIDE DEF r
  <2> QED
    BY <1>s, <2>1, <2>4, OpStep DEF TexShape
<1>10. CASE Collect
  <2>1. /\ \A o \in DOMAIN objs : objs'[o] \in Objects
        /\ objs' \in Seq(Objects)
    <3>1. \A o \in DOMAIN objs : objs[o] \in Objects /\ [objs[o] EXCEPT !.live = FALSE] \in Objects
      BY <1>s, SetDead DEF TexShape
    <3>2. \A o \in DOMAIN objs : objs'[o] \in Objects
      BY <1>10, <3>1 DEF Collect
    <3>3. objs' = [o \in 1..Len(objs) |-> objs'[o]] /\ Len(objs) \in Nat
      BY <1>s, <1>10 DEF Collect, TexShape
    <3>4. DOMAIN objs = 1..Len(objs)
      BY <1>s DEF TexShape
    <3> QED
      BY <3>2, <3>3, <3>4, IsASeq
  <2> QED
    BY <1>s, <1>10, <2>1 DEF Collect, TexShape
<1>11. ASSUME NEW i \in Tasks, SubRefLoad(i) PROVE TexShape'
  <2> DEFINE z == objs[op[i].obj].cnt
  <2>1. /\ op[i].pc = "use"
        /\ op' = [op EXCEPT ![i] = [op[i] EXCEPT !.pc = "unrefStore", !.reg = z]]
        /\ objs' = objs /\ phase' = phase
    BY <1>11 DEF SubRefLoad, LoadCount, Step
  <2>2. z \in Int
    <3>1. op[i].obj \in DOMAIN objs
      BY <2>1 DEF TexInv, OwnNames
    <3>2. objs[op[i].obj] \in Objects
      BY <1>s, <3>1 DEF TexShape
    <3> QED
      BY <3>2 DEF Objects
  <2> HIDE DEF z
  <2>3. /\ [op[i] EXCEPT !.pc = "unrefStore", !.reg = z] \in Ops
        /\ [op[i] EXCEPT !.pc = "unrefStore", !.reg = z].pc = "unrefStore"
    <3>1. op[i] \in Ops /\ "unrefStore" \in {"use", "refStore", "unrefStore"}
      BY <1>o
    <3> QED
      BY <2>2, <3>1, OpCounts, Zenon
  <2> QED
    BY <1>s, <2>1, <2>3, OpStep DEF TexShape
<1> QED
  BY <1>1, <1>2, <1>3, <1>4, <1>5, <1>6, <1>7, <1>8, <1>9, <1>10, <1>11, <1>12 DEF TexNext, TextureStep, Quiet

LEMMA StaysStep == TexInv /\ TexNext => StateStays'
<1> SUFFICES ASSUME TexInv, TexNext PROVE StateStays'
  OBVIOUS
<1> USE DEF TexInv, StateStays
<1>1. CASE CallerMoves
  <2>1. phase' = phase /\ CallerStep
    BY <1>1 DEF CallerMoves, texVars
  <2>2. pc # "left"
    BY <2>1 DEF CallerStep, AddTask, GetFront, GetThrows, AddReturns, ScopeEnds, FreeFuture, Left
  <2> QED
    BY <2>1, <2>2
<1>2. ASSUME NEW i \in Tasks, BucketEnds(i) PROVE StateStays'
  BY <1>2 DEF BucketEnds, TaskEnds, texVars
<1>3. ASSUME NEW i \in Tasks, TextureStep(i) PROVE StateStays'
  BY <1>3 DEF TextureStep, NewTexture, LoadThrows, NotFound, SkipsNull, SamplesNull, AddResource,
              AddRefLoad, AddRefStore, SubRefLoad, SubRefStore, LoadCount, StoreCount, tasksVars
<1>4. ASSUME NEW i \in Tasks, NEW n \in Names, FindResource(i, n) PROVE StateStays'
  BY <1>4 DEF FindResource, tasksVars
<1>5. CASE Collect
  BY <1>5 DEF Collect, tasksVars
<1> QED
  BY <1>1, <1>2, <1>3, <1>4, <1>5 DEF TexNext

LEMMA RunStep == TexInv /\ TasksInv /\ TexNext => OpsRun'
<1> SUFFICES ASSUME TexInv, TasksInv, TexNext PROVE OpsRun'
  OBVIOUS
<1>t. TexShape /\ OpsRun /\ TasksTypeOK /\ added \in Nat
  BY DEF TexInv, TasksInv, TasksTypeOK
<1>1. CASE CallerMoves
  <2>1. op' = op /\ CallerStep
    BY <1>1 DEF CallerMoves, texVars
  <2>2. \A i \in Tasks : task[i] = "running" => task'[i] = "running"
    BY <1>t, <2>1 DEF CallerStep, AddTask, GetFront, GetThrows, AddReturns, ScopeEnds, FreeFuture,
                      Left, TasksTypeOK
  <2> QED
    BY <1>t, <2>1, <2>2 DEF OpsRun
<1>2. ASSUME NEW i \in Tasks, BucketEnds(i) PROVE OpsRun'
  BY <1>t, <1>2 DEF BucketEnds, TaskEnds, texVars, OpsRun, TasksTypeOK
<1>3. ASSUME NEW i \in Tasks, SamplesNull(i) PROVE OpsRun'
  BY <1>t, <1>3, CrashKeeps DEF OpsRun, tasksVars
<1>4. ASSUME NEW i \in Tasks, TextureStep(i), ~SamplesNull(i) PROVE OpsRun'
  <2>1. task' = task /\ task[i] = "running" /\ \E r : op' = [op EXCEPT ![i] = r]
    BY <1>4 DEF TextureStep, NewTexture, LoadThrows, NotFound, SkipsNull, Over, AddResource, AddRefLoad,
                AddRefStore, SubRefLoad, SubRefStore, LoadCount, StoreCount, Step, tasksVars
  <2> QED
    BY <1>t, <2>1 DEF OpsRun, TexShape
<1>5. ASSUME NEW i \in Tasks, NEW n \in Names, FindResource(i, n) PROVE OpsRun'
  BY <1>t, <1>5 DEF FindResource, Step, tasksVars, OpsRun, TexShape
<1>6. CASE Collect
  BY <1>t, <1>6 DEF Collect, tasksVars, OpsRun
<1> QED
  BY <1>1, <1>2, <1>3, <1>4, <1>5, <1>6 DEF TexNext

LEMMA LiveStep == TexInv /\ Joined /\ TexNext => AllLive'
<1> SUFFICES ASSUME TexInv, Joined, TexNext, phase' # "gone"
             PROVE  mpList' \in Seq(DOMAIN objs') /\ \A o \in DOMAIN objs' : objs'[o].live
  BY DEF AllLive
<1>c. ~Collect
  BY DEF Collect
<1>s. /\ TexShape /\ phase # "gone"
      /\ mpList \in Seq(DOMAIN objs) /\ \A o \in DOMAIN objs : objs[o].live
  <2>1. phase' = phase \/ \E i \in Tasks : SamplesNull(i)
    BY <1>c DEF TexNext, CallerMoves, BucketEnds, texVars, TextureStep, NewTexture, LoadThrows,
                NotFound, SkipsNull, AddResource, AddRefLoad, AddRefStore, SubRefLoad, SubRefStore,
                LoadCount, StoreCount, FindResource
  <2>2. phase # "gone"
    BY <2>1, CrashKeeps, TexStays DEF TexInv
  <2>3. TexShape /\ AllLive
    BY DEF TexInv
  <2> QED
    BY <2>2, <2>3, Zenon DEF AllLive
<1> DEFINE Goal == mpList' \in Seq(DOMAIN objs') /\ \A o \in DOMAIN objs' : objs'[o].live
<1>1. CASE UNCHANGED <<objs, mpList>>
  BY <1>s, <1>1
<1>2. ASSUME NEW i \in Tasks, NewTexture(i) PROVE Goal
  <2>1. objs' = Append(objs, [name |-> op[i].name, cnt |-> 0, live |-> TRUE]) /\ mpList' = mpList
    BY <1>2 DEF NewTexture
  <2>2. DOMAIN objs \subseteq DOMAIN objs'
    BY <1>s, <2>1 DEF TexShape
  <2>3. mpList' \in Seq(DOMAIN objs')
    BY <1>s, <2>1, <2>2
  <2>4. \A o \in DOMAIN objs' : (objs'[o] = objs[o] /\ o \in DOMAIN objs) \/ objs'[o].live = TRUE
    BY <1>s, <2>1 DEF TexShape
  <2> QED
    BY <1>s, <2>3, <2>4
<1>3. ASSUME NEW i \in Tasks, AddResource(i) PROVE Goal
  BY <1>s, <1>3 DEF AddResource, Step, TexInv, OwnNames, TexShape
<1>4. ASSUME NEW i \in Tasks, AddRefStore(i) \/ SubRefStore(i) PROVE Goal
  <2>1. PICK c : /\ op[i].obj \in DOMAIN objs
                 /\ objs' = [objs EXCEPT ![op[i].obj].cnt = c] /\ mpList' = mpList
    BY <1>4 DEF AddRefStore, SubRefStore, StoreCount, Step, TexInv, OwnNames
  <2>2. DOMAIN objs' = DOMAIN objs /\ \A o \in DOMAIN objs : objs'[o].live = objs[o].live
    BY <1>s, <2>1 DEF TexShape, Objects
  <2> QED
    BY <1>s, <2>1, <2>2
<1>5. ASSUME CallerMoves PROVE Goal
  BY <1>1, <1>5 DEF CallerMoves, texVars
<1>6. ASSUME NEW i \in Tasks, \/ BucketEnds(i) \/ Quiet(i) \/ SamplesNull(i)
                              \/ AddRefLoad(i) \/ SubRefLoad(i)
      PROVE  Goal
  <2>1. UNCHANGED <<objs, mpList>>
    BY <1>s, <1>6, QuietStep, CrashKeeps DEF BucketEnds, texVars, AddRefLoad, SubRefLoad, LoadCount
  <2> QED
    BY <1>1, <2>1
<1>7. ASSUME NEW i \in Tasks, NEW n \in Names, FindResource(i, n) PROVE Goal
  BY <1>1, <1>7 DEF FindResource
<1> HIDE DEF Goal
<1>8. ASSUME NEW i \in Tasks, TextureStep(i) PROVE Goal
  <2>1. CASE NewTexture(i)
    BY <1>2, <2>1
  <2>2. CASE AddResource(i)
    BY <1>3, <2>2
  <2>3. CASE AddRefStore(i) \/ SubRefStore(i)
    BY <1>4, <2>3
  <2>4. CASE Quiet(i) \/ SamplesNull(i) \/ AddRefLoad(i) \/ SubRefLoad(i)
    BY <1>6, <2>4
  <2> QED
    BY <1>8, <2>1, <2>2, <2>3, <2>4 DEF TextureStep, Quiet
<1>9. Goal
  BY <1>c, <1>5, <1>6, <1>7, <1>8 DEF TexNext
<1> QED
  BY <1>9 DEF Goal

\* Textures are only added, and keep their names.
LEMMA NamesKept ==
    TexInv /\ TexNext => /\ DOMAIN objs \subseteq DOMAIN objs'
                         /\ \A o \in DOMAIN objs : objs'[o].name = objs[o].name
<1> DEFINE Goal == /\ DOMAIN objs \subseteq DOMAIN objs'
                   /\ \A o \in DOMAIN objs : objs'[o].name = objs[o].name
<1> SUFFICES ASSUME TexInv, TexNext PROVE Goal
  OBVIOUS
<1>s. objs \in Seq(Objects)
  BY DEF TexInv, TexShape
<1>1. CASE UNCHANGED objs
  BY <1>1
<1>2. ASSUME NEW i \in Tasks, NewTexture(i) PROVE Goal
  BY <1>s, <1>2 DEF NewTexture
<1>3. ASSUME NEW i \in Tasks, AddRefStore(i) \/ SubRefStore(i) PROVE Goal
  <2>1. PICK c : /\ op[i].obj \in DOMAIN objs
                 /\ objs' = [objs EXCEPT ![op[i].obj].cnt = c]
    BY <1>3 DEF AddRefStore, SubRefStore, StoreCount, Step, TexInv, OwnNames
  <2> QED
    BY <1>s, <2>1 DEF Objects
<1>4. CASE Collect
  <2>1. \A o \in DOMAIN objs : objs[o] \in Objects
    BY <1>s
  <2>2. \A r \in Objects : [r EXCEPT !.live = FALSE].name = r.name
    BY DEF Objects
  <2>3. /\ DOMAIN objs' = DOMAIN objs
        /\ \A o \in DOMAIN objs : objs'[o] = objs[o] \/ objs'[o] = [objs[o] EXCEPT !.live = FALSE]
    BY <1>4 DEF Collect
  <2> QED
    BY <2>1, <2>2, <2>3
<1> QED
  BY <1>1, <1>2, <1>3, <1>4
     DEF TexNext, CallerMoves, BucketEnds, texVars, TextureStep, LoadThrows, NotFound, SkipsNull,
         SamplesNull, AddResource, AddRefLoad, SubRefLoad, LoadCount, FindResource

LEMMA OwnStep == TexInv /\ Joined /\ TexNext => OwnNames'
<1> SUFFICES ASSUME TexInv, Joined, TexNext PROVE OwnNames'
  OBVIOUS
<1>s. TexShape /\ OwnNames /\ \A j \in Tasks : op[j] \in Ops
  BY DEF TexInv, TexShape
<1>k. /\ DOMAIN objs \subseteq DOMAIN objs'
      /\ \A o \in DOMAIN objs : objs'[o].name = objs[o].name
  BY NamesKept
<1>1. CASE UNCHANGED op
  BY <1>s, <1>k, <1>1 DEF OwnNames
<1> DEFINE Has(r) == r.pc \in {"add", "ref", "refStore", "use", "unrefStore"} =>
                         r.obj \in DOMAIN objs' /\ objs'[r.obj].name = r.name
<1>2. ASSUME NEW i \in Tasks, NEW r, op' = [op EXCEPT ![i] = r], Has(r) PROVE OwnNames'
  <2>1. op'[i] = r /\ \A j \in Tasks \ {i} : op'[j] = op[j]
    BY <1>s, <1>2 DEF TexShape
  <2> QED
    BY <1>s, <1>k, <1>2, <2>1 DEF OwnNames
<1>3. ASSUME NEW i \in Tasks, NewTexture(i) PROVE OwnNames'
  <2> DEFINE r == [op[i] EXCEPT !.pc = "add", !.obj = Len(objs) + 1]
  <2>1. op' = [op EXCEPT ![i] = r]
    BY <1>3 DEF NewTexture
  <2>2. r.obj = Len(objs) + 1 /\ r.name = op[i].name
    BY <1>s DEF Ops
  <2>3. Len(objs) + 1 \in DOMAIN objs' /\ objs'[Len(objs) + 1].name = op[i].name
    BY <1>s, <1>3 DEF NewTexture, TexShape
  <2> HIDE DEF r
  <2> QED
    BY <1>2, <2>1, <2>2, <2>3
<1>4. ASSUME NEW i \in Tasks, Quiet(i) PROVE OwnNames'
  <2>1. \E x \in Ops : op' = [op EXCEPT ![i] = x] /\ x.pc \in {"idle", "null"}
    BY <1>s, <1>4, QuietStep
  <2> QED
    BY <1>2, <2>1
<1>5. ASSUME NEW i \in Tasks, AddResource(i) PROVE OwnNames'
  <2> DEFINE r == [op[i] EXCEPT !.pc = "ref"]
  <2>1. op' = [op EXCEPT ![i] = r] /\ op[i].pc = "add"
    BY <1>5 DEF AddResource, Step
  <2>2. r.obj = op[i].obj /\ r.name = op[i].name
    BY <1>s DEF Ops
  <2> HIDE DEF r
  <2> QED
    BY <1>s, <1>k, <1>2, <2>1, <2>2 DEF OwnNames
<1>6. ASSUME NEW i \in Tasks, AddRefLoad(i) \/ SubRefLoad(i) \/ AddRefStore(i) PROVE OwnNames'
  <2>1. PICK p, z : /\ op' = [op EXCEPT ![i] = [op[i] EXCEPT !.pc = p, !.reg = z]]
                    /\ op[i].pc \in {"ref", "use", "refStore"}
    BY <1>6 DEF AddRefLoad, SubRefLoad, LoadCount, AddRefStore, StoreCount, Step
  <2> DEFINE r == [op[i] EXCEPT !.pc = p, !.reg = z]
  <2>2. r.obj = op[i].obj /\ r.name = op[i].name
    BY <1>s DEF Ops
  <2>3. op' = [op EXCEPT ![i] = r]
    BY <2>1
  <2> HIDE DEF r
  <2> QED
    BY <1>s, <1>k, <1>2, <2>1, <2>2, <2>3 DEF OwnNames
<1>7. ASSUME NEW i \in Tasks, SubRefStore(i) PROVE OwnNames'
  <2> DEFINE r == [NoOp EXCEPT !.cnt = op[i].cnt]
  <2>1. op' = [op EXCEPT ![i] = r]
    BY <1>7 DEF SubRefStore, Over
  <2>2. r.pc = "idle"
    BY DEF NoOp
  <2> HIDE DEF r
  <2> QED
    BY <1>2, <2>1, <2>2
<1>8. ASSUME NEW i \in Tasks, NEW n \in Names, FindResource(i, n) PROVE OwnNames'
  <2> DEFINE o == FirstNamed(n)
             r == [pc |-> IF o = 0 THEN "load" ELSE "ref",
                   name |-> n, obj |-> o, reg |-> 0, cnt |-> op[i].cnt + 1]
  <2>1. op' = [op EXCEPT ![i] = r]
    BY <1>8 DEF FindResource
  <2>2. phase # "gone"
    BY <1>8, <1>s, TexStays DEF FindResource, Step, TexInv
  <2>3. mpList \in Seq(DOMAIN objs)
    BY <2>2 DEF TexInv, AllLive
  <2>4. o # 0 => o \in DOMAIN objs /\ objs[o].name = n
    BY <2>3, FirstHasName
  <2> HIDE DEF o
  <2>5. (r.pc = "load" \/ o # 0) /\ r.name = n /\ r.obj = o
    OBVIOUS
  <2> HIDE DEF r
  <2> QED
    BY <1>k, <1>2, <2>1, <2>4, <2>5
<1> QED
  BY <1>1, <1>3, <1>4, <1>5, <1>6, <1>7, <1>8
     DEF TexNext, CallerMoves, BucketEnds, texVars, TextureStep, Quiet, SamplesNull, Collect

LEMMA NoFileStep == TexInv /\ TexNext => NoFile'
<1> SUFFICES ASSUME TexInv, TexNext PROVE NoFile'
  OBVIOUS
<1>s. TexShape /\ NoFile /\ \A j \in Tasks : op[j] \in Ops
  BY DEF TexInv, TexShape
<1>1. CASE UNCHANGED op
  BY <1>s, <1>1 DEF NoFile
<1>2. ASSUME NEW i \in Tasks, NEW x, op' = [op EXCEPT ![i] = x], x.pc = "null" => x.name \in Missing
      PROVE  NoFile'
  <2>1. op'[i] = x /\ \A j \in Tasks \ {i} : op'[j] = op[j]
    BY <1>s, <1>2 DEF TexShape
  <2> QED
    BY <1>s, <1>2, <2>1 DEF NoFile
<1>3. ASSUME NEW i \in Tasks, Quiet(i) PROVE NoFile'
  <2>1. \E x \in Ops : op' = [op EXCEPT ![i] = x] /\ (x.pc = "null" => x.name \in Missing)
    BY <1>s, <1>3, QuietStep
  <2> QED
    BY <1>2, <2>1
<1>4. ASSUME NEW i \in Tasks, NEW n \in Names, FindResource(i, n) PROVE NoFile'
  <2> DEFINE p == IF FirstNamed(n) = 0 THEN "load" ELSE "ref"
             x == [pc |-> p, name |-> n, obj |-> FirstNamed(n), reg |-> 0, cnt |-> op[i].cnt + 1]
  <2>1. op' = [op EXCEPT ![i] = x]
    BY <1>4 DEF FindResource
  <2>2. p # "null"
    OBVIOUS
  <2> HIDE DEF p
  <2>3. x.pc = p
    OBVIOUS
  <2> HIDE DEF x
  <2> QED
    BY <1>2, <2>1, <2>2, <2>3
<1>5. ASSUME NEW i \in Tasks, TextureStep(i), ~Quiet(i), ~SamplesNull(i) PROVE NoFile'
  <2>1. \E x : op' = [op EXCEPT ![i] = x] /\ x.pc \in {"add", "ref", "refStore", "use", "unrefStore", "idle"}
    <3>1. CASE NewTexture(i)
      <4>1. op' = [op EXCEPT ![i] = [op[i] EXCEPT !.pc = "add", !.obj = Len(objs) + 1]]
        BY <3>1 DEF NewTexture
      <4>2. [op[i] EXCEPT !.pc = "add", !.obj = Len(objs) + 1].pc = "add"
        BY <1>s DEF Ops
      <4> QED
        BY <4>1, <4>2
    <3>2. CASE AddResource(i)
      <4>1. op' = [op EXCEPT ![i] = [op[i] EXCEPT !.pc = "ref"]]
        BY <3>2 DEF AddResource
      <4>2. [op[i] EXCEPT !.pc = "ref"].pc = "ref"
        BY <1>s DEF Ops
      <4> QED
        BY <4>1, <4>2
    <3>3. CASE AddRefLoad(i) \/ SubRefLoad(i) \/ AddRefStore(i)
      <4>1. PICK p \in {"refStore", "use", "unrefStore"} : \E z :
                op' = [op EXCEPT ![i] = [op[i] EXCEPT !.pc = p, !.reg = z]]
        BY <3>3 DEF AddRefLoad, SubRefLoad, LoadCount, AddRefStore, StoreCount
      <4>2. PICK z : op' = [op EXCEPT ![i] = [op[i] EXCEPT !.pc = p, !.reg = z]]
        BY <4>1
      <4>3. [op[i] EXCEPT !.pc = p, !.reg = z].pc = p
        BY <1>s DEF Ops
      <4> QED
        BY <4>2, <4>3
    <3>4. CASE SubRefStore(i)
      <4>1. op' = [op EXCEPT ![i] = [NoOp EXCEPT !.cnt = op[i].cnt]]
        BY <3>4 DEF SubRefStore, Over
      <4>2. [NoOp EXCEPT !.cnt = op[i].cnt].pc = "idle"
        BY DEF NoOp
      <4> QED
        BY <4>1, <4>2
    <3> QED
      BY <1>5, <3>1, <3>2, <3>3, <3>4 DEF TextureStep, Quiet
  <2> QED
    BY <1>2, <2>1
<1> QED
  BY <1>1, <1>3, <1>4, <1>5
     DEF TexNext, CallerMoves, BucketEnds, texVars, SamplesNull, Collect

LEMMA TexInvStep == TexInv /\ TasksInv /\ Joined /\ [TexNext]_allVars => TexInv'
<1> SUFFICES ASSUME TexInv, TasksInv, Joined, [TexNext]_allVars PROVE TexInv'
  OBVIOUS
<1>1. CASE TexNext
  BY <1>1, ShapeStep, StaysStep, RunStep, LiveStep, OwnStep, NoFileStep DEF TexInv
<1>2. CASE UNCHANGED allVars
  BY <1>2 DEF allVars, tasksVars, texVars, TexInv, TexShape, StateStays, OpsRun, AllLive, OwnNames, NoFile
<1> QED
  BY <1>1, <1>2

(* The inductive invariant of the textures holds in every reachable state. *)
(* It rests on Joined of ParallelTasks.                                    *)
THEOREM TexInvariance == TexSpec => []TexInv
<1>1. TexInit => TexInv
  BY InitTex
<1>2. TexInv /\ (TasksInv /\ Joined) /\ [TexNext]_allVars => TexInv'
  BY TexInvStep
<1> QED
  BY <1>1, <1>2, TexJoined, PTL DEF TexSpec

(* A texture() instruction that has a texture samples one that is          *)
(* allocated and has the name it asked for, although the State deletes all *)
(* textures: the scope of the tasks is left, and every task joined, before *)
(* that.  It has none, and samples NULL, only for a file that is missing.  *)
THEOREM TexturesLive == TexSpec => []UsesLive
<1>1. TexInv /\ Joined => UsesLive
  <2> SUFFICES ASSUME TexInv, Joined, NEW i \in Tasks,
                      op[i].pc \in {"add", "ref", "refStore", "use", "unrefStore"}
               PROVE  objs[op[i].obj].live /\ objs[op[i].obj].name = op[i].name
    BY DEF UsesLive, TexInv, NoFile
  <2>1. phase # "gone"
    BY TexStays DEF TexInv, OpsRun
  <2> QED
    BY <2>1 DEF TexInv, AllLive, OwnNames
<1> QED
  BY <1>1, TexInvariance, TexJoined, PTL

(* Once FindResource has found a name it gives the same texture for it     *)
(* until the State goes, whatever other tasks add.                         *)
THEOREM LookupsStable == TexSpec => StableLookup
<1> DEFINE Same == phase' = "up" =>
                     \A n \in Names : FirstNamed(n) # 0 => FirstNamed(n)' = FirstNamed(n)
<1>1. ASSUME TexInv, TexNext, phase' = "up", NEW n \in Names, FirstNamed(n) # 0
      PROVE  FirstNamed(n)' = FirstNamed(n)
  <2> DEFINE S == {k \in DOMAIN mpList : objs[mpList[k]].name = n}
             T == {k \in DOMAIN mpList' : objs'[mpList'[k]].name = n}
  <2>1. phase = "up" /\ (mpList' = mpList \/ \E o : mpList' = Append(mpList, o))
    BY <1>1 DEF TexNext, CallerMoves, BucketEnds, texVars, TextureStep, NewTexture, LoadThrows,
           NotFound, SkipsNull, SamplesNull, AddResource, AddRefLoad, AddRefStore, SubRefLoad, SubRefStore, LoadCount,
           StoreCount, FindResource, Collect
  <2>2. mpList \in Seq(DOMAIN objs)
    BY <1>1, <2>1 DEF TexInv, AllLive
  <2>3. S # {} /\ FirstNamed(n) = mpList[Min(S)] /\ S \in SUBSET Nat
    BY <1>1, <2>2 DEF FirstNamed
  <2>4. Min(S) \in S /\ \A y \in S : Min(S) <= y
    BY <2>3, LeastExists
  <2>5. \A k \in DOMAIN mpList : k \in DOMAIN mpList' /\ mpList'[k] = mpList[k] /\ mpList[k] \in DOMAIN objs
    BY <2>1, <2>2
  <2>6. \A k \in DOMAIN mpList' \ DOMAIN mpList : k \in Nat /\ \A y \in DOMAIN mpList : y <= k
    BY <2>1, <2>2
  <2>7. \A k \in DOMAIN mpList : k \in S <=> k \in T
    BY <1>1, <2>5, NamesKept
  <2>8. Min(S) \in T /\ T \in SUBSET Nat /\ \A y \in T : Min(S) <= y
    <3>1. DOMAIN mpList \subseteq Nat /\ S \subseteq DOMAIN mpList /\ T \subseteq DOMAIN mpList'
      BY <2>2
    <3> HIDE DEF S, T
    <3>2. Min(S) \in T
      BY <2>4, <2>7, <3>1
    <3>3. ASSUME NEW y \in T PROVE y \in Nat /\ Min(S) <= y
      <4>1. CASE y \in DOMAIN mpList
        BY <2>4, <2>7, <3>1, <4>1
      <4>2. CASE y \notin DOMAIN mpList
        BY <2>4, <2>6, <3>1, <4>2
      <4> QED
        BY <4>1, <4>2
    <3> QED
      BY <3>2, <3>3
  <2>9. Min(T) = Min(S)
    BY <2>8, MinIs
  <2>10. FirstNamed(n)' = mpList'[Min(T)]
    BY <2>8 DEF FirstNamed
  <2>11. mpList'[Min(S)] = mpList[Min(S)]
    <3>1. Min(S) \in DOMAIN mpList
      BY <2>4
    <3> HIDE DEF S, T
    <3> QED
      BY <2>5, <3>1
  <2> HIDE DEF S, T
  <2> QED
    BY <2>3, <2>9, <2>10, <2>11
<1>2. TexInv /\ TexNext => Same
  BY <1>1
<1>3. TexInv /\ [TexNext]_allVars => [Same]_allVars
  <2> HIDE DEF Same
  <2> QED
    BY <1>2
<1> QED
  BY <1>3, TexInvariance, PTL DEF TexSpec, StableLookup

----------------------------------------------------------------------------
(* How many copies of a texture are made.                                  *)

\* A step that leaves the instructions that add a texture where they are.
LEMMA ListedKept ==
    ASSUME Listed, phase' = phase, DOMAIN objs' = DOMAIN objs, mpList' = mpList,
           \A i \in Tasks : op[i].pc = "add" => op'[i].pc = "add" /\ op'[i].obj = op[i].obj
    PROVE  Listed'
<1> SUFFICES ASSUME phase # "gone", NEW o \in DOMAIN objs
             PROVE  o \in Range(mpList') \/ \E i \in Tasks : op'[i].pc = "add" /\ op'[i].obj = o
  BY DEF Listed, AddedBy, Adding
<1>1. o \in Range(mpList) \/ \E i \in Tasks : op[i].pc = "add" /\ op[i].obj = o
  BY DEF Listed, AddedBy, Adding
<1> QED
  BY <1>1

\* What each step of an instruction does to the record of the task.
LEMMA OpMoves ==
    ASSUME TexShape, NEW i \in Tasks, NEW r, op' = [op EXCEPT ![i] = r]
    PROVE  op'[i] = r /\ \A j \in Tasks \ {i} : op'[j] = op[j]
BY DEF TexShape

LEMMA RangeAppend ==
    ASSUME NEW T, NEW s \in Seq(T), NEW e
    PROVE  Range(Append(s, e)) = Range(s) \cup {e}
<1>1. \A k \in DOMAIN s : k \in DOMAIN Append(s, e) /\ Append(s, e)[k] = s[k]
  OBVIOUS
<1>2. Len(s) + 1 \in DOMAIN Append(s, e) /\ Append(s, e)[Len(s) + 1] = e
  OBVIOUS
<1>3. \A k \in DOMAIN Append(s, e) : k \in DOMAIN s \/ k = Len(s) + 1
  OBVIOUS
<1> QED
  BY <1>1, <1>2, <1>3 DEF Range

LEMMA ListedStep == TexInv /\ Joined /\ Listed /\ TexNext => Listed'
<1> SUFFICES ASSUME TexInv, Joined, Listed, TexNext PROVE Listed'
  OBVIOUS
<1>s. TexShape /\ OwnNames /\ \A j \in Tasks : op[j] \in Ops
  BY DEF TexInv, TexShape
<1>1. CASE UNCHANGED <<op, objs, mpList, phase>>
  BY <1>1, ListedKept
<1>7. ASSUME NEW i \in Tasks, SamplesNull(i) PROVE Listed'
  <2>1. UNCHANGED <<op, objs, mpList>> /\ phase # "gone"
    BY <1>s, <1>7, CrashKeeps, TexStays DEF TexInv
  <2> QED
    BY <2>1 DEF Listed, AddedBy, Adding
<1>8. ASSUME NEW i \in Tasks, Quiet(i) PROVE Listed'
  <2>1. op[i].pc # "add" /\ objs' = objs /\ mpList' = mpList /\ phase' = phase
        /\ \E x : op' = [op EXCEPT ![i] = x]
    BY <1>s, <1>8, QuietStep
  <2> QED
    BY <1>s, <2>1, OpMoves, ListedKept
<1>2. ASSUME NEW i \in Tasks, AddRefLoad(i) \/ SubRefLoad(i)
                              \/ \E n \in Names : FindResource(i, n)
      PROVE  Listed'
  <2>1. PICK r : /\ op' = [op EXCEPT ![i] = r] /\ op[i].pc # "add"
                 /\ objs' = objs /\ mpList' = mpList /\ phase' = phase
    BY <1>2 DEF AddRefLoad, SubRefLoad, LoadCount, FindResource, Step
  <2> QED
    BY <1>s, <2>1, OpMoves, ListedKept
<1>3. ASSUME NEW i \in Tasks, AddRefStore(i) \/ SubRefStore(i) PROVE Listed'
  <2>1. PICK r, c : /\ op' = [op EXCEPT ![i] = r] /\ op[i].pc # "add"
                    /\ objs' = [objs EXCEPT ![op[i].obj].cnt = c]
                    /\ mpList' = mpList /\ phase' = phase
    BY <1>3 DEF AddRefStore, SubRefStore, StoreCount, Over, Step
  <2>2. DOMAIN objs' = DOMAIN objs
    BY <2>1
  <2> QED
    BY <1>s, <2>1, <2>2, OpMoves, ListedKept
<1>4. ASSUME NEW i \in Tasks, NewTexture(i) PROVE Listed'
  <2> DEFINE r == [op[i] EXCEPT !.pc = "add", !.obj = Len(objs) + 1]
  <2>1. /\ op' = [op EXCEPT ![i] = r] /\ op[i].pc = "load" /\ phase' = phase /\ mpList' = mpList
        /\ objs' = Append(objs, [name |-> op[i].name, cnt |-> 0, live |-> TRUE])
    BY <1>4 DEF NewTexture, Step
  <2>2. r.pc = "add" /\ r.obj = Len(objs) + 1
    BY <1>s DEF Ops
  <2>3. DOMAIN objs' = DOMAIN objs \cup {Len(objs) + 1}
    BY <1>s, <2>1 DEF TexShape
  <2> HIDE DEF r
  <2>4. op'[i] = r /\ \A j \in Tasks \ {i} : op'[j] = op[j]
    BY <1>s, <2>1, OpMoves
  <2> SUFFICES ASSUME phase # "gone", NEW o \in DOMAIN objs'
               PROVE  o \in Range(mpList) \/ \E j \in Tasks : op'[j].pc = "add" /\ op'[j].obj = o
    BY <2>1 DEF Listed, AddedBy, Adding
  <2>5. CASE o \in DOMAIN objs
    <3>1. o \in Range(mpList) \/ \E j \in Tasks : op[j].pc = "add" /\ op[j].obj = o
      BY <2>5 DEF Listed, AddedBy, Adding
    <3> QED
      BY <2>1, <2>4, <3>1
  <2> QED
    BY <2>2, <2>3, <2>4, <2>5
<1>5. ASSUME NEW i \in Tasks, AddResource(i) PROVE Listed'
  <2>1. PICK r : /\ op' = [op EXCEPT ![i] = r] /\ op[i].pc = "add" /\ phase' = phase
                 /\ mpList' = Append(mpList, op[i].obj) /\ objs' = objs
    BY <1>5 DEF AddResource, Step
  <2>2. op'[i] = r /\ \A j \in Tasks \ {i} : op'[j] = op[j]
    BY <1>s, <2>1, OpMoves
  <2> SUFFICES ASSUME phase # "gone", NEW o \in DOMAIN objs
               PROVE  o \in Range(mpList') \/ \E j \in Tasks : op'[j].pc = "add" /\ op'[j].obj = o
    BY <2>1 DEF Listed, AddedBy, Adding
  <2>3. mpList \in Seq(DOMAIN objs)
    BY DEF TexInv, AllLive
  <2>4. Range(mpList') = Range(mpList) \cup {op[i].obj}
    BY <2>1, <2>3, RangeAppend
  <2>5. o \in Range(mpList) \/ \E j \in Tasks : op[j].pc = "add" /\ op[j].obj = o
    BY DEF Listed, AddedBy, Adding
  <2> QED
    BY <2>2, <2>4, <2>5
<1>6. CASE Collect
  BY <1>6 DEF Collect, Listed
<1> QED
  BY <1>1, <1>2, <1>3, <1>4, <1>5, <1>6, <1>7, <1>8
     DEF TexNext, CallerMoves, BucketEnds, texVars, TextureStep, Quiet

\* A name that is not in the list has no more copies than tasks that add one.
LEMMA UnlistedCopies ==
    ASSUME TexShape, Listed, phase # "gone", mpList \in Seq(DOMAIN objs), NEW n,
           FirstNamed(n) = 0, IsFiniteSet(Adding)
    PROVE  IsFiniteSet(Copies(n)) /\ Cardinality(Copies(n)) <= Cardinality(Adding)
<1> DEFINE A == Adding
<1>1. ASSUME NEW o \in Copies(n) PROVE \E i \in A : op[i].obj = o
  <2>1. o \in DOMAIN objs /\ objs[o].name = n
    BY DEF Copies
  <2>2. o \notin Range(mpList)
    <3> SUFFICES ASSUME NEW k \in DOMAIN mpList, mpList[k] = o PROVE FALSE
      BY DEF Range
    <3> DEFINE S == {j \in DOMAIN mpList : objs[mpList[j]].name = n}
    <3>1. k \in S /\ S \in SUBSET Nat
      BY <2>1
    <3>2. Min(S) \in S
      BY <3>1, LeastExists
    <3>3. FirstNamed(n) = mpList[Min(S)]
      BY <3>1 DEF FirstNamed
    <3>4. \A j \in DOMAIN mpList : mpList[j] # 0
      BY DEF TexShape
    <3> QED
      BY <3>2, <3>3, <3>4
  <2> QED
    BY <2>1, <2>2 DEF Listed, AddedBy, Adding
<1> DEFINE f == [o \in Copies(n) |-> CHOOSE i \in A : op[i].obj = o]
<1>2. \A o \in Copies(n) : f[o] \in A /\ op[f[o]].obj = o
  BY <1>1
<1>3. f \in Injection(Copies(n), A)
  <2>1. f \in [Copies(n) -> A]
    BY <1>2
  <2>2. \A a, b \in Copies(n) : f[a] = f[b] => a = b
    BY <1>2
  <2> HIDE DEF f
  <2> QED
    BY <2>1, <2>2 DEF Injection, IsInjective
<1> HIDE DEF f
<1> QED
  BY <1>3, FS_Injection

LEMMA TasksFinite == IsFiniteSet(Tasks)
BY FS_Interval, TasksAssumption DEF Tasks

LEMMA LoadingFinite ==
    ASSUME NEW n
    PROVE  IsFiniteSet(Loading(n)) /\ Cardinality(Loading(n)) \in Nat
BY TasksFinite, FS_Subset, FS_CardinalityType DEF Loading

LEMMA CopiesFinite ==
    ASSUME TexShape, NEW n
    PROVE  IsFiniteSet(Copies(n)) /\ Cardinality(Copies(n)) \in Nat
<1>1. DOMAIN objs = 1..Len(objs) /\ Len(objs) \in Nat
  BY DEF TexShape
<1>2. IsFiniteSet(DOMAIN objs)
  BY <1>1, FS_Interval
<1> QED
  BY <1>2, FS_Subset, FS_CardinalityType DEF Copies

\* A step that makes no texture and starts no loading.
LEMMA FewKept ==
    ASSUME TexShape, FewToCome,
           \A n \in Names : Copies(n)' = Copies(n) /\ Loading(n)' \subseteq Loading(n)
    PROVE  FewToCome'
<1> SUFFICES ASSUME NEW n \in Names
             PROVE  Cardinality(Copies(n)') + Cardinality(Loading(n)') <= MaxN
  BY DEF FewToCome
<1>1. Cardinality(Copies(n)) + Cardinality(Loading(n)) <= MaxN
  BY DEF FewToCome
<1>2. /\ Cardinality(Loading(n)') <= Cardinality(Loading(n)) /\ Cardinality(Loading(n)) \in Nat
      /\ Cardinality(Loading(n)') \in Nat /\ Cardinality(Copies(n)) \in Nat
  BY LoadingFinite, CopiesFinite, FS_Subset, FS_CardinalityType
<1> QED
  BY <1>1, <1>2, TasksAssumption

LEMMA CopiesSame ==
    ASSUME DOMAIN objs' = DOMAIN objs, \A o \in DOMAIN objs : objs'[o].name = objs[o].name
    PROVE  \A n \in Names : Copies(n)' = Copies(n)
BY DEF Copies

\* A task that leaves the loading, or was not in it and does not enter it.
LEMMA LoadingSame ==
    ASSUME TexShape, NEW i \in Tasks, NEW r, op' = [op EXCEPT ![i] = r], r.pc # "load"
    PROVE  \A n \in Names : Loading(n)' = Loading(n) \ {i}
<1>1. op'[i] = r /\ \A j \in Tasks \ {i} : op'[j] = op[j]
  BY OpMoves
<1> QED
  BY <1>1 DEF Loading

LEMMA FewNew ==
    ASSUME TexInv, FewToCome, NEW i \in Tasks, NewTexture(i)
    PROVE  FewToCome'
<1>s. TexShape /\ op[i] \in Ops /\ objs \in Seq(Objects)
  BY DEF TexInv, TexShape
<1> DEFINE r == [op[i] EXCEPT !.pc = "add", !.obj = Len(objs) + 1]
           x == Len(objs) + 1
           m == op[i].name
<1>1. /\ op' = [op EXCEPT ![i] = r] /\ op[i].pc = "load"
      /\ objs' = Append(objs, [name |-> m, cnt |-> 0, live |-> TRUE])
  BY DEF NewTexture, Step
<1>2. r.pc = "add"
  BY <1>s DEF Ops
<1> HIDE DEF r
<1>3. \A n \in Names : Loading(n)' = Loading(n) \ {i}
  BY <1>s, <1>1, <1>2, LoadingSame
<1>4. /\ DOMAIN objs' = DOMAIN objs \cup {x} /\ x \notin DOMAIN objs
      /\ objs'[x].name = m /\ \A o \in DOMAIN objs : objs'[o] = objs[o]
  BY <1>s, <1>1
<1> SUFFICES ASSUME NEW n \in Names
             PROVE  Cardinality(Copies(n)') + Cardinality(Loading(n)') <= MaxN
  BY DEF FewToCome
<1>5. Cardinality(Copies(n)) + Cardinality(Loading(n)) <= MaxN
  BY DEF FewToCome
<1>6. /\ IsFiniteSet(Loading(n)) /\ Cardinality(Loading(n)) \in Nat
      /\ IsFiniteSet(Copies(n)) /\ Cardinality(Copies(n)) \in Nat
  BY <1>s, LoadingFinite, CopiesFinite
<1>7. i \in Loading(n) <=> n = m
  BY <1>1 DEF Loading
<1>8. CASE n = m
  <2>1. Copies(n)' = Copies(n) \cup {x} /\ x \notin Copies(n)
    BY <1>4, <1>8 DEF Copies
  <2>2. Cardinality(Copies(n)') = Cardinality(Copies(n)) + 1
    BY <1>6, <2>1, FS_AddElement
  <2>3. Cardinality(Loading(n)') = Cardinality(Loading(n)) - 1
    BY <1>3, <1>6, <1>7, <1>8, FS_RemoveElement
  <2> QED
    BY <1>5, <1>6, <2>2, <2>3, TasksAssumption
<1>9. CASE n # m
  <2>1. Copies(n)' = Copies(n)
    BY <1>4, <1>9 DEF Copies
  <2>2. Loading(n)' = Loading(n)
    BY <1>3, <1>7, <1>9
  <2> QED
    BY <1>5, <2>1, <2>2
<1> QED
  BY <1>8, <1>9

(* A task that misses: every copy of the name has a task that is about to  *)
(* add it, and these and the tasks that load it are different running tasks. *)
LEMMA FewMiss ==
    ASSUME TexInv, Joined, TasksInv, Listed, FewToCome, NEW i \in Tasks, NEW n \in Names,
           FindResource(i, n), FirstNamed(n) = 0
    PROVE  FewToCome'
<1>s. TexShape /\ OpsRun
  BY DEF TexInv
<1> DEFINE r == [pc |-> "load", name |-> n, obj |-> 0, reg |-> 0, cnt |-> op[i].cnt + 1]
<1>1. op' = [op EXCEPT ![i] = r] /\ op[i].pc = "idle" /\ task[i] = "running" /\ objs' = objs
  BY DEF FindResource, Step
<1>2. r.pc = "load" /\ r.name = n
  OBVIOUS
<1> HIDE DEF r
<1>3. op'[i] = r /\ \A j \in Tasks \ {i} : op'[j] = op[j]
  BY <1>s, <1>1, OpMoves
<1>4. Loading(n)' = Loading(n) \cup {i} /\ \A m \in Names \ {n} : Loading(m)' = Loading(m)
  BY <1>1, <1>2, <1>3 DEF Loading
<1>5. \A m \in Names : Copies(m)' = Copies(m)
  BY <1>1, CopiesSame
<1>6. phase # "gone" /\ mpList \in Seq(DOMAIN objs)
  BY <1>s, <1>1, TexStays DEF TexInv, AllLive
<1>7. Adding \cap Loading(n)' = {} /\ Adding \cup Loading(n)' \subseteq Running
  <2>1. Adding \subseteq Running /\ Loading(n) \subseteq Running /\ i \in Running
    BY <1>s, <1>1 DEF Adding, Loading, OpsRun, Running
  <2>2. Adding \cap Loading(n) = {} /\ i \notin Adding
    BY <1>1 DEF Adding, Loading
  <2> QED
    BY <1>4, <2>1, <2>2
<1>8. Cardinality(Adding) + Cardinality(Loading(n)') <= MaxN
  <2> DEFINE A == Adding
             L == Loading(n)'
  <2>1. A \cap L = {} /\ A \cup L \subseteq Running
    BY <1>7
  <2>2. IsFiniteSet(Running) /\ Cardinality(Running) <= MaxN /\ Cardinality(Running) \in Nat
    BY FewRun, FS_CardinalityType
  <2> HIDE DEF A, L
  <2>3. IsFiniteSet(A) /\ IsFiniteSet(L) /\ IsFiniteSet(A \cup L)
    BY <2>1, <2>2, FS_Subset
  <2>4. Cardinality(A \cup L) <= Cardinality(Running)
    BY <2>1, <2>2, FS_Subset
  <2>5. Cardinality(A \cup L) = Cardinality(A) + Cardinality(L) - Cardinality(A \cap L)
    BY <2>3, FS_Union
  <2>6. Cardinality(A \cap L) = 0
    BY <2>1, FS_EmptySet
  <2>7. Cardinality(A) \in Nat /\ Cardinality(L) \in Nat
    BY <2>3, FS_CardinalityType
  <2>8. Cardinality(A) + Cardinality(L) <= MaxN
    BY <2>2, <2>4, <2>5, <2>6, <2>7, TasksAssumption
  <2> QED
    BY <2>8 DEF A, L
<1>9. IsFiniteSet(Adding) /\ Cardinality(Adding) \in Nat
  BY TasksFinite, FS_Subset, FS_CardinalityType DEF Adding
<1>10. Cardinality(Copies(n)) <= Cardinality(Adding)
  BY <1>s, <1>6, <1>9, UnlistedCopies
<1>11. Cardinality(Loading(n)') \in Nat /\ Cardinality(Copies(n)) \in Nat
  <2>1. IsFiniteSet(Loading(n)')
    BY <1>4, LoadingFinite, FS_AddElement
  <2> QED
    BY <1>s, <2>1, CopiesFinite, FS_CardinalityType
<1>12. Cardinality(Copies(n)') + Cardinality(Loading(n)') <= MaxN
  BY <1>5, <1>8, <1>9, <1>10, <1>11, TasksAssumption
<1> QED
  BY <1>4, <1>5, <1>12 DEF FewToCome

LEMMA FewStep == TexInv /\ Joined /\ TasksInv /\ Listed /\ FewToCome /\ TexNext => FewToCome'
<1> SUFFICES ASSUME TexInv, Joined, TasksInv, Listed, FewToCome, TexNext PROVE FewToCome'
  OBVIOUS
<1>s. TexShape /\ objs \in Seq(Objects) /\ \A j \in Tasks : op[j] \in Ops
  BY DEF TexInv, TexShape
<1>1. CASE UNCHANGED <<op, objs>>
  <2>1. \A n \in Names : Copies(n)' = Copies(n) /\ Loading(n)' = Loading(n)
    BY <1>1 DEF Copies, Loading
  <2> QED
    BY <1>s, <2>1, FewKept
<1>2. ASSUME NEW i \in Tasks, NEW r, op' = [op EXCEPT ![i] = r], r.pc # "load",
             DOMAIN objs' = DOMAIN objs, \A o \in DOMAIN objs : objs'[o].name = objs[o].name
      PROVE  FewToCome'
  BY <1>s, <1>2, LoadingSame, CopiesSame, FewKept
<1>3. ASSUME NEW i \in Tasks, Quiet(i) PROVE FewToCome'
  <2>1. objs' = objs /\ \E x \in Ops : op' = [op EXCEPT ![i] = x] /\ x.pc \in {"idle", "null"}
    BY <1>s, <1>3, QuietStep
  <2> QED
    BY <1>2, <2>1
<1>4. ASSUME NEW i \in Tasks, AddResource(i) PROVE FewToCome'
  <2>1. op' = [op EXCEPT ![i] = [op[i] EXCEPT !.pc = "ref"]] /\ objs' = objs
    BY <1>4 DEF AddResource
  <2>2. [op[i] EXCEPT !.pc = "ref"].pc # "load"
    BY <1>s DEF Ops
  <2> QED
    BY <1>2, <2>1, <2>2
<1>5. ASSUME NEW i \in Tasks, AddRefLoad(i) \/ SubRefLoad(i) PROVE FewToCome'
  <2>0. PICK p \in {"refStore", "unrefStore"} : \E z :
            op' = [op EXCEPT ![i] = [op[i] EXCEPT !.pc = p, !.reg = z]] /\ objs' = objs
    BY <1>5 DEF AddRefLoad, SubRefLoad, LoadCount
  <2>1. PICK z : op' = [op EXCEPT ![i] = [op[i] EXCEPT !.pc = p, !.reg = z]] /\ objs' = objs
    BY <2>0
  <2>2. [op[i] EXCEPT !.pc = p, !.reg = z].pc # "load"
    BY <1>s DEF Ops
  <2> QED
    BY <1>2, <2>1, <2>2
<1>6. ASSUME NEW i \in Tasks, AddRefStore(i) \/ SubRefStore(i) PROVE FewToCome'
  <2>1. PICK c : /\ op[i].obj \in DOMAIN objs
                 /\ objs' = [objs EXCEPT ![op[i].obj].cnt = c]
    BY <1>6 DEF AddRefStore, SubRefStore, StoreCount, Step, TexInv, OwnNames
  <2>2. DOMAIN objs' = DOMAIN objs /\ \A o \in DOMAIN objs : objs'[o].name = objs[o].name
    BY <1>s, <2>1 DEF Objects
  <2>3. \E r : op' = [op EXCEPT ![i] = r] /\ r.pc # "load"
    <3>1. CASE AddRefStore(i)
      <4>1. op' = [op EXCEPT ![i] = [op[i] EXCEPT !.pc = "use", !.reg = 0]]
        BY <3>1 DEF AddRefStore, StoreCount
      <4>2. [op[i] EXCEPT !.pc = "use", !.reg = 0].pc # "load"
        BY <1>s DEF Ops
      <4> QED
        BY <4>1, <4>2
    <3>2. CASE SubRefStore(i)
      <4>1. op' = [op EXCEPT ![i] = [NoOp EXCEPT !.cnt = op[i].cnt]]
        BY <3>2 DEF SubRefStore, Over
      <4>2. [NoOp EXCEPT !.cnt = op[i].cnt].pc # "load"
        BY DEF NoOp
      <4> QED
        BY <4>1, <4>2
    <3> QED
      BY <1>6, <3>1, <3>2
  <2> QED
    BY <1>2, <2>2, <2>3
<1>7. ASSUME NEW i \in Tasks, NEW n \in Names, FindResource(i, n) PROVE FewToCome'
  <2>1. CASE FirstNamed(n) = 0
    BY <1>7, <2>1, FewMiss
  <2>2. CASE FirstNamed(n) # 0
    <3> DEFINE o == FirstNamed(n)
               r == [pc |-> "ref", name |-> n, obj |-> o, reg |-> 0, cnt |-> op[i].cnt + 1]
    <3>1. op' = [op EXCEPT ![i] = r] /\ objs' = objs
      BY <1>7, <2>2 DEF FindResource
    <3>2. r.pc # "load"
      OBVIOUS
    <3> HIDE DEF r
    <3> QED
      BY <1>2, <3>1, <3>2
  <2> QED
    BY <2>1, <2>2
<1>8. CASE Collect
  <2>1. UNCHANGED op /\ DOMAIN objs' = DOMAIN objs
    BY <1>8 DEF Collect
  <2>2. \A o \in DOMAIN objs : objs'[o].name = objs[o].name
    BY NamesKept
  <2>3. \A n \in Names : Loading(n)' = Loading(n)
    BY <2>1 DEF Loading
  <2> QED
    BY <1>s, <2>1, <2>2, <2>3, CopiesSame, FewKept
<1> QED
  BY <1>1, <1>3, <1>4, <1>5, <1>6, <1>7, <1>8, FewNew
     DEF TexNext, CallerMoves, BucketEnds, texVars, TextureStep, Quiet, SamplesNull

LEMMA InitCopies == TexInit => Listed /\ FewToCome
<1> SUFFICES ASSUME TexInit PROVE Listed /\ FewToCome
  OBVIOUS
<1>1. DOMAIN objs = {}
  BY DEF TexInit
<1>2. \A n \in Names : Copies(n) = {}
  BY <1>1 DEF Copies
<1>3. \A n \in Names : Loading(n) = {}
  BY DEF Loading, TexInit, NoOp
<1>4. Listed
  BY <1>1 DEF Listed
<1> QED
  BY <1>2, <1>3, <1>4, FS_EmptySet, TasksAssumption DEF FewToCome

(* The tasks of a Render load a texture at most as often as there are      *)
(* threads, however many tasks there are and however they interleave       *)
(* between FindResource and AddResource.                                   *)
THEOREM CopiesFew == TexSpec => []FewCopies
<1> DEFINE J == Listed /\ FewToCome
<1>1. TexInit => J
  BY InitCopies
<1>2. J /\ TexInv /\ (TasksInv /\ Joined) /\ [TexNext]_allVars => J'
  <2>1. J /\ TexInv /\ (TasksInv /\ Joined) /\ TexNext => J'
    BY ListedStep, FewStep
  <2>2. J /\ UNCHANGED allVars => J'
    BY DEF allVars, tasksVars, texVars, Listed, FewToCome, AddedBy, Adding, Copies, Loading
  <2> QED
    BY <2>1, <2>2
<1>3. J /\ TexInv => FewCopies
  <2> SUFFICES ASSUME J, TexInv, NEW n \in Names PROVE Cardinality(Copies(n)) <= MaxN
    BY DEF FewCopies
  <2>1. Cardinality(Copies(n)) + Cardinality(Loading(n)) <= MaxN
    BY DEF FewToCome
  <2>2. Cardinality(Copies(n)) \in Nat /\ Cardinality(Loading(n)) \in Nat
    BY LoadingFinite, CopiesFinite DEF TexInv
  <2> QED
    BY <2>1, <2>2, TasksAssumption
<1> QED
  BY <1>1, <1>2, <1>3, TexInvariance, TexJoined, PTL DEF TexSpec

----------------------------------------------------------------------------
(* The counts.                                                             *)

LEMMA HoldersFinite ==
    ASSUME NEW o
    PROVE  IsFiniteSet(Holders(o)) /\ Cardinality(Holders(o)) \in Nat
BY TasksFinite, FS_Subset, FS_CardinalityType DEF Holders

(* A step of an instruction that is not updating a count, before or after: *)
(* it may make a texture, but nobody has that yet.                         *)
LEMMA CountsQuiet ==
    ASSUME TexInv, UpdatesAlone, CountsExact, NEW i \in Tasks, NEW r,
           op' = [op EXCEPT ![i] = r], raced' = raced, phase # "gone", phase' = phase,
           op[i].pc \notin {"refStore", "use", "unrefStore"},
           r.pc \notin {"refStore", "use", "unrefStore"},
           DOMAIN objs \subseteq DOMAIN objs',
           \A o \in DOMAIN objs : objs'[o] = objs[o],
           \A o \in DOMAIN objs' \ DOMAIN objs : objs'[o].cnt = 0
    PROVE  UpdatesAlone' /\ CountsExact'
<1>s. TexShape /\ OwnNames
  BY DEF TexInv
<1>1. op'[i] = r /\ \A j \in Tasks \ {i} : op'[j] = op[j]
  BY <1>s, OpMoves
<1>2. \A o : Holders(o)' = Holders(o) /\ Updating(o)' = Updating(o)
  BY <1>1 DEF Holders, Updating
<1>3. UpdatesAlone'
  <2> SUFFICES ASSUME NEW j \in Tasks, op'[j].pc \in {"refStore", "unrefStore"},
                      op'[j].obj \notin raced
               PROVE  /\ op'[j].reg = objs'[op'[j].obj].cnt
                      /\ \A o : o = op'[j].obj => Updating(o)' = {j}
    BY DEF UpdatesAlone
  <2>1. j # i /\ op'[j] = op[j]
    BY <1>1
  <2>2. op[j].obj \in DOMAIN objs
    BY <1>s, <2>1 DEF OwnNames
  <2>3. op[j].reg = objs[op[j].obj].cnt /\ Updating(op[j].obj) = {j}
    BY <2>1 DEF UpdatesAlone
  <2> QED
    BY <1>2, <2>1, <2>2, <2>3
<1>4. CountsExact'
  <2> SUFFICES ASSUME NEW o \in DOMAIN objs', o \notin raced
               PROVE  objs'[o].cnt = Cardinality(Holders(o)')
    BY DEF CountsExact
  <2>1. CASE o \in DOMAIN objs
    BY <1>2, <2>1 DEF CountsExact
  <2>2. CASE o \notin DOMAIN objs
    <3>1. Holders(o) = {}
      BY <1>s, <2>2 DEF Holders, OwnNames
    <3> QED
      BY <1>2, <2>2, <3>1, FS_EmptySet
  <2> QED
    BY <2>1, <2>2
<1> QED
  BY <1>3, <1>4

\* The load of an update: the second of two marks the object as raced.
LEMMA CountsLoad ==
    ASSUME TexInv, UpdatesAlone, CountsExact, NEW i \in Tasks, NEW from, NEW to,
           LoadCount(i, from, to), phase # "gone",
           \/ from = "ref" /\ to = "refStore"
           \/ from = "use" /\ to = "unrefStore"
    PROVE  UpdatesAlone' /\ CountsExact'
<1>s. TexShape /\ OwnNames /\ op[i] \in Ops
  BY DEF TexInv, TexShape
<1> DEFINE q == op[i].obj
           r == [op[i] EXCEPT !.pc = to, !.reg = objs[q].cnt]
<1>1. /\ op[i].pc = from /\ op' = [op EXCEPT ![i] = r]
      /\ raced' = (IF Updating(q) = {} THEN raced ELSE raced \cup {q})
      /\ objs' = objs /\ phase' = phase
  BY DEF LoadCount, Step
<1>2. r.pc = to /\ r.obj = q /\ r.reg = objs[q].cnt
  BY <1>s DEF Ops
<1> HIDE DEF r
<1>3. op'[i] = r /\ \A j \in Tasks \ {i} : op'[j] = op[j]
  BY <1>s, <1>1, OpMoves
<1>4. \A o : Holders(o)' = Holders(o)
  BY <1>1, <1>2, <1>3 DEF Holders
<1>5. \A o : Updating(o)' = IF o = q THEN Updating(o) \cup {i} ELSE Updating(o)
  BY <1>1, <1>2, <1>3 DEF Updating
<1>6. UpdatesAlone'
  <2> SUFFICES ASSUME NEW j \in Tasks, op'[j].pc \in {"refStore", "unrefStore"},
                      op'[j].obj \notin raced'
               PROVE  /\ op'[j].reg = objs'[op'[j].obj].cnt
                      /\ \A o : o = op'[j].obj => Updating(o)' = {j}
    BY DEF UpdatesAlone
  <2>1. CASE j = i
    BY <1>1, <1>2, <1>3, <1>5, <2>1
  <2>2. CASE j # i
    <3>1. op'[j] = op[j] /\ op[j].obj \notin raced
      BY <1>1, <1>3, <2>2
    <3>2. op[j].reg = objs[op[j].obj].cnt /\ Updating(op[j].obj) = {j}
      BY <3>1 DEF UpdatesAlone
    <3>3. op[j].obj # q
      BY <1>1, <3>1, <3>2
    <3> QED
      BY <1>1, <1>5, <3>1, <3>2, <3>3
  <2> QED
    BY <2>1, <2>2
<1>7. CountsExact'
  BY <1>1, <1>4 DEF CountsExact
<1> QED
  BY <1>6, <1>7

(* The store of an update, by d, of an object that no two were updating:   *)
(* nobody has stored since the load, so the count moves with the holders.  *)
LEMMA CountsStore ==
    ASSUME TexInv, UpdatesAlone, CountsExact, NEW i \in Tasks, NEW r, NEW d \in Int,
           op' = [op EXCEPT ![i] = r], raced' = raced, phase # "gone", phase' = phase,
           objs' = [objs EXCEPT ![op[i].obj].cnt = op[i].reg + d],
           \/ op[i].pc = "refStore" /\ r.pc = "use" /\ r.obj = op[i].obj /\ d = 1
           \/ op[i].pc = "unrefStore" /\ r.pc = "idle" /\ d = -1
    PROVE  UpdatesAlone' /\ CountsExact'
<1>s. TexShape /\ OwnNames /\ op[i] \in Ops /\ objs \in Seq(Objects)
  BY DEF TexInv, TexShape
<1> DEFINE q == op[i].obj
<1>1. op'[i] = r /\ \A j \in Tasks \ {i} : op'[j] = op[j]
  BY <1>s, OpMoves
<1>2. q \in DOMAIN objs
  BY <1>s DEF OwnNames
<1>3. /\ DOMAIN objs' = DOMAIN objs /\ objs'[q].cnt = op[i].reg + d
      /\ \A o \in DOMAIN objs \ {q} : objs'[o] = objs[o]
  <2>1. objs[q] \in Objects
    BY <1>s, <1>2
  <2>2. [objs[q] EXCEPT !.cnt = op[i].reg + d].cnt = op[i].reg + d
    BY <2>1 DEF Objects
  <2> QED
    BY <1>s, <1>2, <2>2
<1>4. \A o : o # q => Holders(o)' = Holders(o)
  BY <1>1 DEF Holders
<1>5. \A o : Updating(o)' = Updating(o) \ {i}
  BY <1>1 DEF Updating
<1>6. q \notin raced => op[i].reg = objs[q].cnt /\ Updating(q) = {i}
  BY DEF UpdatesAlone
<1>7. UpdatesAlone'
  <2> SUFFICES ASSUME NEW j \in Tasks, op'[j].pc \in {"refStore", "unrefStore"},
                      op'[j].obj \notin raced
               PROVE  /\ op'[j].reg = objs'[op'[j].obj].cnt
                      /\ \A o : o = op'[j].obj => Updating(o)' = {j}
    BY DEF UpdatesAlone
  <2>1. j # i /\ op'[j] = op[j]
    BY <1>1
  <2>2. op[j].obj \in DOMAIN objs
    BY <1>s, <2>1 DEF OwnNames
  <2>3. op[j].reg = objs[op[j].obj].cnt /\ Updating(op[j].obj) = {j}
    BY <2>1 DEF UpdatesAlone
  <2>4. op[j].obj # q
    BY <1>6, <2>1, <2>3
  <2> QED
    BY <1>3, <1>5, <2>1, <2>2, <2>3, <2>4
<1>8. CountsExact'
  <2> SUFFICES ASSUME NEW o \in DOMAIN objs, o \notin raced
               PROVE  objs'[o].cnt = Cardinality(Holders(o)')
    BY <1>3 DEF CountsExact
  <2>1. objs[o].cnt = Cardinality(Holders(o))
    BY DEF CountsExact
  <2>2. CASE o # q
    BY <1>3, <1>4, <2>1, <2>2
  <2>3. CASE o = q
    <3>1. objs'[o].cnt = Cardinality(Holders(o)) + d
      BY <1>3, <1>6, <2>1, <2>3
    <3>2. IsFiniteSet(Holders(o)) /\ Cardinality(Holders(o)) \in Nat
      BY HoldersFinite
    <3>3. CASE op[i].pc = "refStore"
      <4>1. Holders(o)' = Holders(o) \cup {i} /\ i \notin Holders(o)
        BY <1>1, <2>3, <3>3 DEF Holders
      <4>2. Cardinality(Holders(o)') = Cardinality(Holders(o)) + 1
        BY <3>2, <4>1, FS_AddElement
      <4> QED
        BY <2>3, <3>1, <3>3, <4>2
    <3>4. CASE op[i].pc = "unrefStore"
      <4>1. Holders(o)' = Holders(o) \ {i} /\ i \in Holders(o)
        BY <1>1, <2>3, <3>4 DEF Holders
      <4>2. Cardinality(Holders(o)') = Cardinality(Holders(o)) - 1
        BY <3>2, <4>1, FS_RemoveElement
      <4>3. \A c \in Nat : c + (-1) = c - 1
        OBVIOUS
      <4> QED
        BY <2>3, <3>1, <3>2, <3>4, <4>2, <4>3
    <3> QED
      BY <3>3, <3>4
  <2> QED
    BY <2>2, <2>3
<1> QED
  BY <1>7, <1>8

(* The State goes: no task runs, so nobody holds a texture, and every      *)
(* texture is in the list.                                                 *)
LEMMA CountsCollect ==
    ASSUME TexInv, Joined, Listed, UpdatesAlone, CountsExact, Collect
    PROVE  UpdatesAlone' /\ CountsExact'
<1>s. TexShape /\ OpsRun /\ objs \in Seq(Objects)
  BY DEF TexInv, TexShape
<1>1. pc = "left" /\ phase # "gone" /\ op' = op /\ raced' = raced
  BY DEF Collect
<1>2. \A i \in Tasks : op[i].pc = "idle"
  BY <1>s, <1>1 DEF OpsRun, Joined
<1>3. \A o : Holders(o) = {} /\ Holders(o)' = {} /\ AddedBy(o) = {}
  BY <1>1, <1>2 DEF Holders, AddedBy, Adding
<1>4. UpdatesAlone'
  BY <1>1, <1>2 DEF UpdatesAlone
<1>5. DOMAIN objs' = DOMAIN objs
  BY DEF Collect
<1>6. ASSUME NEW o \in DOMAIN objs, o \notin raced
      PROVE  objs'[o].cnt = 0 /\ objs'[o].live = FALSE
  <2>1. o \in Range(mpList)
    BY <1>1, <1>3 DEF Listed
  <2>2. objs[o].cnt = 0
    BY <1>3, <1>6, FS_EmptySet DEF CountsExact
  <2>3. objs'[o] = [objs[o] EXCEPT !.live = FALSE]
    BY <2>1, <2>2 DEF Collect
  <2>4. objs[o] \in Objects
    BY <1>s
  <2>5. \A x \in Objects : /\ [x EXCEPT !.live = FALSE].cnt = x.cnt
                           /\ [x EXCEPT !.live = FALSE].live = FALSE
    BY DEF Objects
  <2> QED
    BY <2>2, <2>3, <2>4, <2>5
<1>7. CountsExact'
  <2> SUFFICES ASSUME NEW o \in DOMAIN objs, o \notin raced
               PROVE  objs'[o].cnt = Cardinality(Holders(o)') /\ ~objs'[o].live
    BY <1>1, <1>5 DEF CountsExact
  <2> QED
    BY <1>3, <1>6, FS_EmptySet
<1> QED
  BY <1>4, <1>7

LEMMA CountsStep ==
    TexInv /\ Joined /\ Listed /\ UpdatesAlone /\ CountsExact /\ TexNext
        => UpdatesAlone' /\ CountsExact'
<1> SUFFICES ASSUME TexInv, Joined, Listed, UpdatesAlone, CountsExact, TexNext
             PROVE  UpdatesAlone' /\ CountsExact'
  OBVIOUS
<1> DEFINE Goal == UpdatesAlone' /\ CountsExact'
<1>s. TexShape /\ StateStays /\ objs \in Seq(Objects) /\ \A j \in Tasks : op[j] \in Ops
  BY DEF TexInv, TexShape
<1>u. \A i \in Tasks : task[i] = "running" => phase # "gone"
  BY <1>s, TexStays
<1>1. CASE UNCHANGED texVars
  BY <1>1 DEF texVars, UpdatesAlone, Updating, CountsExact, Holders
<1>2. ASSUME NEW i \in Tasks, NewTexture(i) PROVE Goal
  <2> DEFINE r == [op[i] EXCEPT !.pc = "add", !.obj = Len(objs) + 1]
             x == [name |-> op[i].name, cnt |-> 0, live |-> TRUE]
  <2>1. /\ op' = [op EXCEPT ![i] = r] /\ op[i].pc = "load" /\ raced' = raced
        /\ phase # "gone" /\ phase' = phase /\ objs' = Append(objs, x)
    BY <1>u, <1>2 DEF NewTexture, Step
  <2>2. r.pc = "add" /\ x.cnt = 0
    BY <1>s DEF Ops
  <2>3. /\ DOMAIN objs \subseteq DOMAIN objs' /\ \A o \in DOMAIN objs : objs'[o] = objs[o]
        /\ \A o \in DOMAIN objs' \ DOMAIN objs : objs'[o] = x
    BY <1>s, <2>1
  <2> HIDE DEF r, x
  <2> QED
    BY <2>1, <2>2, <2>3, CountsQuiet
<1>3. ASSUME NEW i \in Tasks, NEW r, op' = [op EXCEPT ![i] = r], objs' = objs, raced' = raced,
             phase' = phase, task[i] = "running", op[i].pc \in {"idle", "load", "null", "add"},
             r.pc \in {"idle", "load", "null", "ref"}
      PROVE  Goal
  BY <1>u, <1>3, CountsQuiet
<1>4. ASSUME NEW i \in Tasks, Quiet(i) PROVE Goal
  <2>1. /\ objs' = objs /\ raced' = raced /\ phase' = phase /\ task[i] = "running"
        /\ op[i].pc \in {"load", "null"}
        /\ \E x \in Ops : op' = [op EXCEPT ![i] = x] /\ x.pc \in {"idle", "null"}
    BY <1>s, <1>4, QuietStep
  <2> QED
    BY <1>3, <2>1
<1>11. ASSUME NEW i \in Tasks, SamplesNull(i) PROVE Goal
  BY <1>11, CrashKeeps DEF UpdatesAlone, Updating, CountsExact, Holders
<1>5. ASSUME NEW i \in Tasks, AddResource(i) PROVE Goal
  <2>1. /\ op' = [op EXCEPT ![i] = [op[i] EXCEPT !.pc = "ref"]] /\ objs' = objs /\ raced' = raced
        /\ phase' = phase /\ task[i] = "running" /\ op[i].pc = "add"
    BY <1>5 DEF AddResource, Step
  <2>2. [op[i] EXCEPT !.pc = "ref"].pc = "ref"
    BY <1>s DEF Ops
  <2> QED
    BY <1>3, <2>1, <2>2
<1>6. ASSUME NEW i \in Tasks, NEW n \in Names, FindResource(i, n) PROVE Goal
  <2> DEFINE o == FirstNamed(n)
             p == IF o = 0 THEN "load" ELSE "ref"
             r == [pc |-> p, name |-> n, obj |-> o, reg |-> 0, cnt |-> op[i].cnt + 1]
  <2>1. /\ op' = [op EXCEPT ![i] = r] /\ objs' = objs /\ raced' = raced
        /\ phase' = phase /\ task[i] = "running" /\ op[i].pc = "idle"
    BY <1>6 DEF FindResource, Step
  <2>2. p \in {"load", "ref"}
    OBVIOUS
  <2> HIDE DEF p
  <2>3. r.pc = p
    OBVIOUS
  <2> HIDE DEF r
  <2> QED
    BY <1>3, <2>1, <2>2, <2>3
<1>7. ASSUME NEW i \in Tasks, AddRefLoad(i) PROVE Goal
  <2>1. phase # "gone"
    BY <1>u, <1>7 DEF AddRefLoad, LoadCount, Step
  <2> QED
    BY <1>7, <2>1, CountsLoad DEF AddRefLoad
<1>8. ASSUME NEW i \in Tasks, SubRefLoad(i) PROVE Goal
  <2>1. phase # "gone"
    BY <1>u, <1>8 DEF SubRefLoad, LoadCount, Step
  <2> QED
    BY <1>8, <2>1, CountsLoad DEF SubRefLoad
<1>9. ASSUME NEW i \in Tasks, AddRefStore(i) PROVE Goal
  <2> DEFINE r == [op[i] EXCEPT !.pc = "use", !.reg = 0]
  <2>1. /\ op' = [op EXCEPT ![i] = r] /\ op[i].pc = "refStore" /\ raced' = raced
        /\ phase # "gone" /\ phase' = phase
        /\ objs' = [objs EXCEPT ![op[i].obj].cnt = op[i].reg + 1]
    BY <1>u, <1>9 DEF AddRefStore, StoreCount, Step
  <2>2. r.pc = "use" /\ r.obj = op[i].obj
    BY <1>s DEF Ops
  <2> HIDE DEF r
  <2>3. 1 \in Int
    OBVIOUS
  <2> QED
    BY <2>1, <2>2, <2>3, CountsStore, Zenon
<1>10. ASSUME NEW i \in Tasks, SubRefStore(i) PROVE Goal
  <2> DEFINE r == [NoOp EXCEPT !.cnt = op[i].cnt]
  <2>1. /\ op' = [op EXCEPT ![i] = r] /\ op[i].pc = "unrefStore" /\ raced' = raced
        /\ phase # "gone" /\ phase' = phase
        /\ objs' = [objs EXCEPT ![op[i].obj].cnt = op[i].reg - 1]
    BY <1>u, <1>10 DEF SubRefStore, Over, Step
  <2>2. r.pc = "idle"
    BY DEF NoOp
  <2>3. op[i].reg - 1 = op[i].reg + (-1)
    BY <1>s DEF Ops
  <2> HIDE DEF r
  <2>4. objs' = [objs EXCEPT ![op[i].obj].cnt = op[i].reg + (-1)]
    BY <2>1, <2>3
  <2>5. -1 \in Int
    OBVIOUS
  <2> QED
    BY <2>1, <2>2, <2>4, <2>5, CountsStore, Zenon
<1> QED
  BY <1>1, <1>2, <1>4, <1>5, <1>6, <1>7, <1>8, <1>9, <1>10, <1>11, CountsCollect
     DEF TexNext, CallerMoves, BucketEnds, TextureStep, Quiet

LEMMA InitCounts == TexInit => Listed /\ UpdatesAlone /\ CountsExact
<1> SUFFICES ASSUME TexInit PROVE Listed /\ UpdatesAlone /\ CountsExact
  OBVIOUS
<1>1. DOMAIN objs = {}
  BY DEF TexInit
<1>2. \A i \in Tasks : op[i].pc = "idle"
  BY DEF TexInit, NoOp
<1> QED
  BY <1>1, <1>2 DEF Listed, UpdatesAlone, CountsExact

(* AddRef and SubRef, which are not atomic, count exactly as long as no    *)
(* two tasks are inside them for the same texture, and then ~State deletes *)
(* that texture: the race is the only way to a wrong count or a leak.      *)
THEOREM ExactCounts == TexSpec => []CountsExact
<1> DEFINE J == Listed /\ UpdatesAlone /\ CountsExact
<1>1. TexInit => J
  BY InitCounts
<1>2. J /\ TexInv /\ (TasksInv /\ Joined) /\ [TexNext]_allVars => J'
  <2>1. J /\ TexInv /\ (TasksInv /\ Joined) /\ TexNext => J'
    BY ListedStep, CountsStep
  <2>2. J /\ UNCHANGED allVars => J'
    BY DEF allVars, tasksVars, texVars, Listed, AddedBy, Adding, UpdatesAlone, Updating, CountsExact,
           Holders
  <2> QED
    BY <2>1, <2>2
<1>3. J => CountsExact
  OBVIOUS
<1> QED
  BY <1>1, <1>2, <1>3, TexInvariance, TexJoined, PTL DEF TexSpec

(* DASSERT( mCount >= 1 ) of SubRef can fail only for a texture whose      *)
(* count two tasks were updating at once.                                  *)
THEOREM AssertNeedsRace ==
    TexSpec => [](\A i \in Tasks : op[i].pc = "unrefStore" /\ op[i].obj \notin raced
                                      => op[i].reg >= 1)
<1> DEFINE J == Listed /\ UpdatesAlone /\ CountsExact
           Asserts == \A i \in Tasks : op[i].pc = "unrefStore" /\ op[i].obj \notin raced
                                          => op[i].reg >= 1
<1>1. TexInit => J
  BY InitCounts
<1>2. J /\ TexInv /\ (TasksInv /\ Joined) /\ [TexNext]_allVars => J'
  <2>1. J /\ TexInv /\ (TasksInv /\ Joined) /\ TexNext => J'
    BY ListedStep, CountsStep
  <2>2. J /\ UNCHANGED allVars => J'
    BY DEF allVars, tasksVars, texVars, Listed, AddedBy, Adding, UpdatesAlone, Updating, CountsExact,
           Holders
  <2> QED
    BY <2>1, <2>2
<1>3. J /\ TexInv => Asserts
  <2> SUFFICES ASSUME J, TexInv, NEW i \in Tasks, op[i].pc = "unrefStore", op[i].obj \notin raced
               PROVE  op[i].reg >= 1
    OBVIOUS
  <2>1. op[i].obj \in DOMAIN objs
    BY DEF TexInv, OwnNames
  <2>2. op[i].reg = Cardinality(Holders(op[i].obj))
    BY <2>1 DEF UpdatesAlone, CountsExact
  <2>3. i \in Holders(op[i].obj)
    BY DEF Holders
  <2>4. IsFiniteSet(Holders(op[i].obj)) /\ Cardinality(Holders(op[i].obj)) \in Nat
    BY HoldersFinite
  <2>5. Cardinality(Holders(op[i].obj)) # 0
    BY <2>3, <2>4, FS_EmptySet
  <2> QED
    BY <2>2, <2>4, <2>5
<1> QED
  BY <1>1, <1>2, <1>3, TexInvariance, PTL, TexJoined DEF TexSpec
=============================================================================
