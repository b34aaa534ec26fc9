------------------------------ MODULE Textures ------------------------------
(***************************************************************************)
(* Textures shared by the bucket tasks of one Render: each task shades     *)
(* with texture() instructions, which look a texture up in the             *)
(* ResourceManager of the State, load and add it when it is not there, and *)
(* hold a counted reference while they sample.  The tasks are those of     *)
(* ParallelTasks; when the scope has been left, the State is destroyed and *)
(* the manager collects.                                                   *)
(*                                                                         *)
(* The list is guarded by a mutex.  The reference counts are plain ints:   *)
(* an update is a load and a store, and other tasks may come in between.   *)
(***************************************************************************)
EXTENDS ParallelTasks, Sequences, FiniteSetsExt, Functions

Sx == INSTANCE SequencesExt

CONSTANTS
    Names,      \* textures that the shaders name
    Broken,     \* those whose file cannot be loaded: Texture::Texture throws
    Missing,    \* those whose file is not found
    MaxLookups, \* bound: texture() instructions per task
    Idle        \* no texture

ASSUME TexturesAssumption ==
    Broken \subseteq Names /\ Missing \subseteq Names \ Broken /\ MaxLookups \in Nat /\ Idle \notin Names

VARIABLES
    objs,       \* every Texture made: its name, mCount, whether it is allocated
    mpList,     \* the manager's list of objects
    op,         \* what the texture() instruction of each task does
    phase,      \* of the State: "up", "gone" once it is destroyed, or "crashed"
    \* History, read by the properties only:
    raced       \* objects whose count two tasks were updating at once

texVars == <<objs, mpList, op, phase, raced>>
allVars == <<tasksVars, texVars>>

NoOp == [pc |-> "idle", name |-> Idle, obj |-> 0, reg |-> 0, cnt |-> 0]

TexInit ==
    /\ TasksInit
    /\ objs = <<>> /\ mpList = <<>> /\ phase = "up"
    /\ op = [i \in Tasks |-> NoOp]
    /\ raced = {}

Step(i, from) == phase # "crashed" /\ task[i] = "running" /\ op[i].pc = from

\* The first entry of the list with that name, 0 if there is none.
FirstNamed(n) ==
    LET S == {k \in DOMAIN mpList : objs[mpList[k]].name = n}
    IN  IF S = {} THEN 0 ELSE mpList[Min(S)]

\* Mutant: names are compared with case, and never match.
FindNothing(i, n) ==
    /\ Step(i, "idle") /\ op[i].cnt < MaxLookups
    /\ op' = [op EXCEPT ![i] = [op[i] EXCEPT !.pc = "load", !.name = n, !.cnt = @ + 1]]
    /\ UNCHANGED <<tasksVars, objs, mpList, phase, raced>>

\* GetTexture: FindResource, with the mutex held.
FindResource(i, n) ==
    /\ Step(i, "idle") /\ op[i].cnt < MaxLookups
    /\ LET o == FirstNamed(n) IN
       op' = [op EXCEPT ![i] = [pc |-> IF o = 0 THEN "load" ELSE "ref",
                                name |-> n, obj |-> o, reg |-> 0, cnt |-> op[i].cnt + 1]]
    /\ UNCHANGED <<tasksVars, objs, mpList, phase, raced>>

\* The instruction is over; the task may come to another one.
Over(i) == op' = [op EXCEPT ![i] = [NoOp EXCEPT !.cnt = op[i].cnt]]

\* Not in the list: find and grab the file and make the texture.
NewTexture(i) ==
    /\ Step(i, "load") /\ op[i].name \notin Broken \cup Missing
    /\ objs' = Append(objs, [name |-> op[i].name, cnt |-> 0, live |-> TRUE])
    /\ op' = [op EXCEPT ![i] = [@ EXCEPT !.pc = "add", !.obj = Len(objs) + 1]]
    /\ UNCHANGED <<tasksVars, mpList, phase, raced>>

(* The file is there but no texture can be made of it: the exception ends  *)
(* the run of the shader, in runFrom, and the task goes on.                *)
LoadThrows(i) ==
    /\ Step(i, "load") /\ op[i].name \in Broken
    /\ Over(i)
    /\ UNCHANGED <<tasksVars, objs, mpList, phase, raced>>

\* FindResFile finds no file: GetTexture returns NULL, and nothing is added.
NotFound(i) ==
    /\ Step(i, "load") /\ op[i].name \in Missing
    /\ op' = [op EXCEPT ![i] = [@ EXCEPT !.pc = "null"]]
    /\ UNCHANGED <<tasksVars, objs, mpList, phase, raced>>

\* Nothing is sampled when every point of the grid is masked off.
SkipsNull(i) ==
    /\ Step(i, "null")
    /\ Over(i)
    /\ UNCHANGED <<tasksVars, objs, mpList, phase, raced>>

\* Sample_1_filter on NULL ends the program.
SamplesNull(i) ==
    /\ Step(i, "null")
    /\ phase' = "crashed"
    /\ UNCHANGED <<tasksVars, objs, mpList, op, raced>>

\* Mutant: a new resource goes to the front of the list.
AddInFront(i) ==
    /\ Step(i, "add")
    /\ mpList' = <<op[i].obj>> \o mpList
    /\ op' = [op EXCEPT ![i] = [@ EXCEPT !.pc = "ref"]]
    /\ UNCHANGED <<tasksVars, objs, phase, raced>>

\* AddResource, with the mutex held; nobody looks whether the name is there by now.
AddResource(i) ==
    /\ Step(i, "add")
    /\ mpList' = Append(mpList, op[i].obj)
    /\ op' = [op EXCEPT ![i] = [@ EXCEPT !.pc = "ref"]]
    /\ UNCHANGED <<tasksVars, objs, phase, raced>>

\* Tasks between the load and the store of an update of object o's count.
Updating(o) == {i \in Tasks : op[i].pc \in {"refStore", "unrefStore"} /\ op[i].obj = o}

(* AddRef by the RCSha<Texture> of the instruction, SubRef by its          *)
(* destructor: mCount is loaded, then stored.                              *)
LoadCount(i, from, to) ==
    /\ Step(i, from)
    /\ op' = [op EXCEPT ![i] = [@ EXCEPT !.pc = to, !.reg = objs[op[i].obj].cnt]]
    /\ raced' = IF Updating(op[i].obj) = {} THEN raced ELSE raced \cup {op[i].obj}
    /\ UNCHANGED <<tasksVars, objs, mpList, phase>>

StoreCount(i, from, to, d) ==
    /\ Step(i, from)
    /\ objs' = [objs EXCEPT ![op[i].obj].cnt = op[i].reg + d]
    /\ op' = [op EXCEPT ![i] = [@ EXCEPT !.pc = to, !.reg = 0]]
    /\ UNCHANGED <<tasksVars, mpList, phase, raced>>

AddRefLoad(i) == LoadCount(i, "ref", "refStore")
AddRefStore(i) == StoreCount(i, "refStore", "use", 1)
SubRefLoad(i) == LoadCount(i, "use", "unrefStore")

\* Mutant: the destructor of RCSha does not count down.
SubRefForgets(i) ==
    /\ Step(i, "unrefStore")
    /\ Over(i)
    /\ UNCHANGED <<tasksVars, objs, mpList, phase, raced>>

SubRefStore(i) ==
    /\ Step(i, "unrefStore")
    /\ objs' = [objs EXCEPT ![op[i].obj].cnt = op[i].reg - 1]
    /\ Over(i)
    /\ UNCHANGED <<tasksVars, mpList, phase, raced>>

\* Mutant: an exception leaves the scope of the caller at once.
BucketThrowsOut(i) ==
    /\ op[i].pc = "idle" /\ task[i] = "running"
    /\ task' = [task EXCEPT ![i] = "threw"]
    /\ pc' = "leave" /\ exc' = i
    /\ UNCHANGED <<added, got, freed, texVars>>

\* The task has shaded its bucket: it returns, or throws for a reason of its own.
BucketEnds(i) ==
    /\ phase # "crashed" /\ op[i].pc = "idle"
    /\ TaskEnds(i)
    /\ UNCHANGED texVars

(* Collect: the loop over the list with its write index; the loop counter  *)
(* and the write index start at 0 in the code, at 1 here.                  *)
CollectList ==
    Sx!FoldLeft(LAMBDA acc, ri :
                IF objs[mpList[ri]].cnt = 0 \/ acc.wi = ri THEN acc
                ELSE [wi |-> acc.wi + 1, list |-> [acc.list EXCEPT ![acc.wi] = mpList[ri]]],
             [wi |-> 1, list |-> mpList],
             [ri \in 1..Len(mpList) |-> ri])

\* Mutant: the State goes while tasks are still shading.
CollectEarly ==
    /\ pc = "leave" /\ phase = "up"
    /\ objs' = [o \in DOMAIN objs |->
                   IF o \in Range(mpList) /\ objs[o].cnt = 0
                   THEN [objs[o] EXCEPT !.live = FALSE] ELSE objs[o]]
    /\ mpList' = SubSeq(CollectList.list, 1, CollectList.wi - 1)
    /\ phase' = "gone"
    /\ UNCHANGED <<tasksVars, op, raced>>

\* ~State: ~ResourceManager collects, with the mutex held.
Collect ==
    /\ pc = "left" /\ phase = "up"
    /\ objs' = [o \in DOMAIN objs |->
                   IF o \in Range(mpList) /\ objs[o].cnt = 0
                   THEN [objs[o] EXCEPT !.live = FALSE] ELSE objs[o]]
    /\ mpList' = SubSeq(CollectList.list, 1, CollectList.wi - 1)
    /\ phase' = "gone"
    /\ UNCHANGED <<tasksVars, op, raced>>

CallerMoves == phase # "crashed" /\ CallerStep /\ UNCHANGED texVars

TextureStep(i) ==
    \/ NewTexture(i) \/ LoadThrows(i) \/ NotFound(i) \/ SkipsNull(i) \/ SamplesNull(i)
    \/ AddResource(i)
    \/ AddRefLoad(i) \/ AddRefStore(i) \/ SubRefLoad(i) \/ SubRefStore(i)

TexNext ==
    \/ CallerMoves
    \/ \E i \in Tasks : TextureStep(i) \/ BucketEnds(i) \/ \E n \in Names : FindResource(i, n)
    \/ Collect

TexSpec == TexInit /\ [][TexNext]_allVars

(* The caller and every task run; a task comes to its end (its lookups are *)
(* bounded).                                                               *)
TexFairSpec ==
    /\ TexSpec
    /\ WF_allVars(CallerMoves) /\ WF_allVars(Collect)
    /\ \A i \in Tasks : WF_allVars(TextureStep(i)) /\ WF_allVars(BucketEnds(i))

----------------------------------------------------------------------------
(* Properties.                                                             *)

(* A task that has a texture uses one that is allocated and that has the   *)
(* name it asked for; it has none only when there is no such file.         *)
UsesLive ==
    \A i \in Tasks :
        /\ op[i].pc \in {"add", "ref", "refStore", "use", "unrefStore"} =>
               objs[op[i].obj].live /\ objs[op[i].obj].name = op[i].name
        /\ op[i].pc = "null" => op[i].name \in Missing

\* DASSERT( oTex.get() != NULL ) in Inst_Texture.
TextureFound == \A i \in Tasks : op[i].pc # "null"

(* Tasks that miss at the same time load a texture several times over, but *)
(* never more often than there are tasks at a time: whoever looks after an *)
(* insertion finds it.                                                     *)
Copies(n) == {o \in DOMAIN objs : objs[o].name = n}
FewCopies == \A n \in Names : Cardinality(Copies(n)) <= MaxN

(* Once a name is in the list, every lookup gives the same texture: which  *)
(* of the copies a task samples does not depend on the order of later      *)
(* insertions.                                                             *)
StableLookup ==
    [][phase' = "up" =>
        \A n \in Names : FirstNamed(n) # 0 => FirstNamed(n)' = FirstNamed(n)]_allVars

Holders(o) == {i \in Tasks : op[i].obj = o /\ op[i].pc \in {"use", "unrefStore"}}

(* As long as no two tasks were ever updating the count of a texture at    *)
(* once, the count is the number of its holders, and the texture is        *)
(* deleted with the State.                                                 *)
CountsExact ==
    \A o \in DOMAIN objs \ raced :
        /\ objs[o].cnt = Cardinality(Holders(o))
        /\ phase = "gone" => ~objs[o].live

\* DASSERT( mCount >= 1 ) in SubRef.
SubRefAsserts ==
    \A i \in Tasks : op[i].pc = "unrefStore" => op[i].reg >= 1

(* Behind UsesLive and StableLookup: only a running task is inside an      *)
(* instruction, the State goes when no task runs, and until then every     *)
(* texture is allocated and the list holds textures.                       *)
OpsRun == \A i \in Tasks : op[i].pc # "idle" => task[i] = "running"
StateStays == phase = "gone" => pc = "left"
AllLive == phase # "gone" => /\ mpList \in Seq(DOMAIN objs)
                           /\ \A o \in DOMAIN objs : objs[o].live
OwnNames ==
    \A i \in Tasks :
        op[i].pc \in {"add", "ref", "refStore", "use", "unrefStore"} =>
            op[i].obj \in DOMAIN objs /\ objs[op[i].obj].name = op[i].name
NoFile == \A i \in Tasks : op[i].pc = "null" => op[i].name \in Missing

Objects == [name : Names, cnt : Int, live : BOOLEAN]
Ops == [pc : {"idle", "load", "null", "add", "ref", "refStore", "use", "unrefStore"},
        name : Names \cup {Idle}, obj : Nat, reg : Int, cnt : Nat]

TexShape ==
    /\ objs \in Seq(Objects) /\ op \in [Tasks -> Ops] /\ phase \in {"up", "gone", "crashed"}
    /\ \A i \in Tasks : op[i].pc = "load" => op[i].name \in Names

TexInv == TexShape /\ OpsRun /\ StateStays /\ AllLive /\ OwnNames /\ NoFile

(* Behind FewCopies: a task that loads a texture may still make a copy, and *)
(* with these the copies are no more than the threads; a texture that is   *)
(* not in the list has a task that is about to add it.                     *)
Loading(n) == {i \in Tasks : op[i].pc = "load" /\ op[i].name = n}
Adding == {i \in Tasks : op[i].pc = "add"}
AddedBy(o) == {i \in Adding : op[i].obj = o}
Listed == phase # "gone" => \A o \in DOMAIN objs : o \in Range(mpList) \/ AddedBy(o) # {}
FewToCome == \A n \in Names : Cardinality(Copies(n)) + Cardinality(Loading(n)) <= MaxN

(* Behind CountsExact: a task between the load and the store of a count    *)
(* that no two were updating is alone, and what it loaded is the count.    *)
UpdatesAlone ==
    \A i \in Tasks :
        op[i].pc \in {"refStore", "unrefStore"} /\ op[i].obj \notin raced =>
            op[i].reg = objs[op[i].obj].cnt /\ Updating(op[i].obj) = {i}

\* The scope is left, whatever the tasks throw, unless the program has crashed.
TexLeaves == <>(pc = "left" \/ phase = "crashed")

(* Seen from the caller the tasks are those of ParallelTasks, whose        *)
(* properties therefore hold here.                                         *)
ImplementsTasks == TasksSpec

=============================================================================
