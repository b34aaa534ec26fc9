------------------------------- MODULE RiState -------------------------------
(***************************************************************************)
(* RI::State and what RI::Framework keeps for it, driven by the commands   *)
(* of a RIB file: the mode stack, the stacks of options, attributes and    *)
(* transforms, the revision counters by which primitives share a state,    *)
(* and who owns the displays that options point to.  A command that fails  *)
(* is reported by readArchive, which goes on with the next one.            *)
(*                                                                         *)
(* Of the options only the displays are kept, of attributes and transforms *)
(* one value.  The stacks of open and close transforms move together and   *)
(* are one here.                                                           *)
(***************************************************************************)
EXTENDS Integers, Sequences, FiniteSets

CONSTANTS
    Vals,       \* what attributes or a transform may be set to
    Identity,   \* the initial value, and the identity transform
    Displays,   \* addresses of Options::Display objects
    FallBack,   \* mFallBackFileDisplay or mFallBackFBuffDisplay
    Blocks,     \* the kinds of blocks that the RIB file uses
    RiFaults,     \* what fails: "render" (Render throws), "params" (of a shader)
    MaxModes,   \* bound: length of mModeStack
    MaxRev,     \* bound: revision counters
    MaxPrims    \* bound: primitives in the hider

Modes == {"UNDEFINED", "BASE", "FRAME", "WORLD", "ATTRIBUTE", "TRANSFORM",
          "SOLID", "OBJECT", "MOTION"}

ASSUME RiAssumption ==
    /\ Identity \in Vals
    /\ FallBack \in BOOLEAN
    /\ Blocks \subseteq Modes \ {"UNDEFINED"}
    /\ RiFaults \subseteq {"render", "params"}
    /\ MaxModes \in Nat /\ MaxRev \in Nat /\ MaxPrims \in Nat

VARIABLES
    modes,      \* mModeStack
    stack,      \* mOptionsStack, mAttributesStack, mTransformOpenStack
    rev,        \* the RevisionTracker of attributes and of transforms
    seen,       \* the framework's RevisionChecker of each
    uniq,       \* mpUniqueAttribs, mpUniqueTransform: copies for primitives
    prims,      \* primitives in the hider
    kept,       \* primitives in buckets that a failed WorldEnd left behind
    live,       \* displays that are allocated
    fwDisp,     \* displays in the framework's copy of the options
    ub,         \* undefined behaviour: an empty stack, a deleted display
    \* History, read by the properties only:
    saved,      \* for each open block, the stacks when it began
    ill,        \* an End did not match its block
    restored,   \* kinds whose value changed without a new revision since the last copy
    owner,      \* the depth of the option stack at which a display was made
    crossed     \* a display was deleted at another depth

stacks == <<modes, stack, saved, ill>>
shared == <<rev, seen, uniq, prims, kept, restored>>
display == <<live, fwDisp, owner, crossed>>
riVars == <<stacks, shared, display, ub>>

Kinds == {"opts", "attr", "xform"}
Shared == {"attr", "xform"}

Top(s) == s[Len(s)]
Pop(s) == SubSeq(s, 1, Len(s) - 1)
SetTop(s, v) == [s EXCEPT ![Len(s)] = v]

\* Mutant: attribute blocks save the attributes only.
SavesNoXform(m) ==
    CASE m \in {"FRAME", "WORLD"} -> Kinds
      [] m = "ATTRIBUTE" -> {"attr"}
      [] m \in {"SOLID", "OBJECT"} -> {"attr", "xform"}
      [] m = "TRANSFORM" -> {"xform"}
      [] OTHER -> {}

\* The stacks that a block of mode m pushes and pops.
Saves(m) ==
    CASE m \in {"FRAME", "WORLD"} -> Kinds
      [] m \in {"ATTRIBUTE", "SOLID", "OBJECT"} -> {"attr", "xform"}
      [] m = "TRANSFORM" -> {"xform"}
      [] OTHER -> {}

\* back() and pop_back() need an element.
HasTop(K) == \A k \in K : stack[k] # <<>>

Pushed(m) == [k \in Kinds |-> IF k \in Saves(m) THEN Append(stack[k], Top(stack[k])) ELSE stack[k]]
Popped(m) == [k \in Kinds |-> IF k \in Saves(m) THEN Pop(stack[k]) ELSE stack[k]]

Snapshot == [depth |-> [k \in Kinds |-> Len(stack[k])],
             top |-> [k \in Kinds |-> IF stack[k] = <<>> THEN Identity ELSE Top(stack[k])]]

(* State::State, then Begin("dummy") by Render::Render.  Revisions count   *)
(* from here (Attributes::Init has bumped its own already); only whether   *)
(* they differ from what the framework has seen matters.                   *)
RiInit ==
    /\ modes = <<"UNDEFINED", "BASE">>
    /\ stack = [k \in Kinds |-> IF k = "opts" THEN <<{}>> ELSE <<Identity>>]
    /\ rev = [k \in Shared |-> 0] /\ seen = [k \in Shared |-> -1]
    /\ uniq = [k \in Shared |-> <<>>]
    /\ prims = {} /\ kept = {}
    /\ live = {} /\ fwDisp = {} /\ ub = "no"
    /\ saved = <<Snapshot>> /\ ill = FALSE
    /\ restored = [k \in Shared |-> FALSE]
    /\ owner = [d \in Displays |-> 0] /\ crossed = FALSE

----------------------------------------------------------------------------
(* Blocks.                                                                 *)

\* Begin, FrameBegin, AttributeBegin, TransformBegin, SolidBegin, ObjectBegin, MotionBegin.
BlockBegin(m) ==
    /\ Len(modes) < MaxModes /\ HasTop(Saves(m))
    /\ modes' = Append(modes, m)
    /\ stack' = Pushed(m)
    /\ saved' = Append(saved, Snapshot)
    /\ UNCHANGED <<ill, shared, display, ub>>

\* Mutant: the mode is not checked.
PopModeUnchecked(m) ==
    /\ modes' = Pop(modes) /\ saved' = Pop(saved) /\ UNCHANGED ill

\* popMode: an error (E_NESTING) unless m is the mode.
PopMode(m) ==
    IF Top(modes) = m
    THEN modes' = Pop(modes) /\ saved' = Pop(saved) /\ UNCHANGED ill
    ELSE UNCHANGED <<modes, saved>> /\ ill' = TRUE

\* A value that has been copied may have changed although its revision has not.
Restoring(K) == restored' = [k \in Shared |-> restored[k] \/ (k \in K /\ rev[k] = seen[k])]

(* End, FrameEnd, AttributeEnd and so on: the stacks are popped before the *)
(* mode is checked.                                                        *)
BlockEnd(m) ==
    /\ HasTop(Saves(m))
    /\ stack' = Popped(m)
    /\ PopMode(m)
    /\ Restoring(Saves(m))
    /\ UNCHANGED <<rev, seen, uniq, prims, kept, display, ub>>

----------------------------------------------------------------------------
(* Displays.                                                               *)

\* DNEW Display, put on the list of the current options after D is deleted.
NewDisplay(D, d) ==
    /\ d \in Displays \ (live \ D)
    /\ live' = (live \ D) \cup {d}
    /\ owner' = [owner EXCEPT ![d] = Len(stack["opts"])]
    /\ crossed' = (crossed \/ \E e \in D : owner[e] # Len(stack["opts"]))

(* Display, appending to the list or replacing it.  An unknown type is an  *)
(* error only once the display is on the list.                             *)
Display(append, d) ==
    LET old == Top(stack["opts"]) IN
    /\ Top(modes) \in {"BASE", "FRAME"} /\ HasTop({"opts"})
    /\ append \/ old \subseteq live
    /\ NewDisplay(IF append THEN {} ELSE old, d)
    /\ stack' = [stack EXCEPT !["opts"] = SetTop(@, IF append THEN old \cup {d} ELSE {d})]
    /\ UNCHANGED <<modes, saved, ill, shared, fwDisp, ub>>

(* WorldBegin.  Options::Finalize adds the fall-back display to the outer  *)
(* options if they have none; the framework copies the options.            *)
WorldBegin ==
    /\ Len(modes) < MaxModes /\ HasTop(Kinds) /\ rev["xform"] < MaxRev
    /\ \E add \in SUBSET Displays :
        LET opts == SetTop(stack["opts"], Top(stack["opts"]) \cup add) IN
        /\ IF Top(stack["opts"]) = {} /\ FallBack
           THEN \E d \in Displays : add = {d} /\ NewDisplay({}, d)
           ELSE add = {} /\ UNCHANGED <<live, owner, crossed>>
        /\ stack' = [k \in Kinds |->
                        CASE k = "opts"  -> Append(opts, Top(opts))
                          [] k = "attr"  -> Append(stack[k], Top(stack[k]))
                          [] k = "xform" -> Append(stack[k], Identity)]
        /\ fwDisp' = Top(opts)
        /\ saved' = Append(saved, [Snapshot EXCEPT !.top["opts"] = Top(opts)])
    /\ modes' = Append(modes, "WORLD")
    /\ rev' = [rev EXCEPT !["xform"] = @ + 1]
    /\ UNCHANGED <<ill, seen, uniq, prims, kept, restored, ub>>

\* Mutant: the displays are deleted but stay on the list.
FreeDisplaysKeepsList(s) ==
    LET D == Top(s["opts"]) IN
    /\ live' = live \ D
    /\ crossed' = (crossed \/ \E d \in D : owner[d] # Len(s["opts"]))
    /\ stack' = s

\* FreeDisplays of the current options, with the stacks s.
FreeDisplays(s) ==
    LET D == Top(s["opts"]) IN
    /\ live' = live \ D
    /\ crossed' = (crossed \/ \E d \in D : owner[d] # Len(s["opts"]))
    /\ stack' = [s EXCEPT !["opts"] = SetTop(@, {})]

\* WorldEnd of the framework releases the primitives, then deletes the copies.
ReleaseWorld ==
    /\ prims' = {} /\ kept' = {}
    /\ uniq' = [k \in Shared |-> <<>>]

(* WorldEnd, and what readArchive does after it: the displays of the       *)
(* current options go to the callback and are deleted.                     *)
WorldEnd ==
    /\ HasTop(Kinds) /\ fwDisp \subseteq live
    /\ ReleaseWorld
    /\ Restoring(Shared)
    /\ PopMode("WORLD")
    /\ IF Top(modes) = "WORLD"
       THEN LET s == Popped("WORLD") IN
            /\ s["opts"] # <<>> /\ Top(s["opts"]) \subseteq live
            /\ FreeDisplays(s)
       ELSE stack' = Popped("WORLD") /\ UNCHANGED <<live, crossed>>
    /\ UNCHANGED <<rev, seen, fwDisp, owner, ub>>

(* WorldEnd when Render throws: the framework deletes its displays, the    *)
(* exception leaves the world open and the buckets full.                   *)
WorldEndThrows ==
    /\ fwDisp \subseteq live
    /\ live' = live \ fwDisp /\ fwDisp' = {}
    /\ crossed' = (crossed \/ fwDisp # {})
    /\ kept' = kept \cup prims /\ prims' = {}
    /\ UNCHANGED <<stacks, rev, seen, uniq, restored, owner, ub>>

----------------------------------------------------------------------------
(* Attributes, transforms and primitives.                                  *)

\* Mutant: the revision is not bumped.
SetValueOnly(k, v) ==
    /\ rev[k] < MaxRev
    /\ stack' = [stack EXCEPT ![k] = SetTop(@, v)]
    /\ UNCHANGED rev

\* A command that changes the current value bumps its revision.
SetValue(k, v) ==
    /\ rev[k] < MaxRev
    /\ stack' = [stack EXCEPT ![k] = SetTop(@, v)]
    /\ rev' = [rev EXCEPT ![k] = @ + 1]

\* Color, Sides, LightSource, Surface and the other attribute commands.
Attribute(v) ==
    /\ Top(modes) # "OBJECT" /\ HasTop({"attr"})
    /\ SetValue("attr", v)
    /\ UNCHANGED <<modes, saved, ill, seen, uniq, prims, kept, restored, display, ub>>

(* Surface or Displacement whose parameters are wrong: the shader is       *)
(* changed, the exception comes before the revision is bumped.             *)
AttributeThrows(v) ==
    /\ Top(modes) # "OBJECT" /\ HasTop({"attr"})
    /\ stack' = [stack EXCEPT !["attr"] = SetTop(@, v)]
    /\ Restoring({"attr"})
    /\ UNCHANGED <<modes, saved, ill, rev, seen, uniq, prims, kept, display, ub>>

\* Identity in every mode; Transform, Translate, Rotate, Scale, ConcatTransform.
Transform(v) ==
    /\ v = Identity \/ Top(modes) \notin {"OBJECT", "UNDEFINED"}
    /\ HasTop({"xform"})
    /\ SetValue("xform", v)
    /\ UNCHANGED <<modes, saved, ill, seen, uniq, prims, kept, restored, display, ub>>

\* RevisionChecker::Sync
Syncs(k) == rev[k] # seen[k]

(* Framework::Insert copies the current state if its revision is new; the  *)
(* primitive points to the last copy (0: there is none).                   *)
Insert ==
    /\ seen' = rev
    /\ uniq' = [k \in Shared |->
                 IF Syncs(k) THEN Append(uniq[k], Top(stack[k])) ELSE uniq[k]]
    /\ restored' = [k \in Shared |-> restored[k] /\ ~Syncs(k)]
    /\ prims' = prims \cup {[at |-> [k \in Shared |-> Len(uniq'[k])],
                             meant |-> [k \in Shared |-> Top(stack[k])],
                             sure |-> [k \in Shared |-> ~restored'[k]]]}

\* A primitive, in any mode.
Primitive ==
    /\ HasTop(Shared) /\ Cardinality(prims \cup kept) < MaxPrims
    /\ Insert
    /\ UNCHANGED <<stacks, rev, kept, display, ub>>

----------------------------------------------------------------------------
(* Undefined behaviour ends the model: anything may follow.                *)

Undefined(u) == ub' = u /\ UNCHANGED <<stacks, shared, display>>

(* A command reads or pops a stack that is empty; WorldEnd pops the last   *)
(* options and readArchive asks for the current ones.                      *)
EmptyStack ==
    /\ ~HasTop(Kinds) \/ (Top(modes) = "WORLD" /\ Len(stack["opts"]) = 1)
    /\ Undefined("stack")

(* Display deletes, or readArchive shows and deletes, a display of the     *)
(* current options that is deleted already.                                *)
DeletedDisplay ==
    /\ HasTop(Kinds)
    /\ \/ Top(modes) \in {"BASE", "FRAME"} /\ ~(Top(stack["opts"]) \subseteq live)
       \/ /\ Top(modes) = "WORLD" /\ Len(stack["opts"]) > 1
          /\ ~(Top(Pop(stack["opts"])) \subseteq live)
    /\ Undefined("display")

\* Framework::WorldEnd sets up displays of a world that is over.
StaleFramework ==
    /\ ~(fwDisp \subseteq live)
    /\ Undefined("framework")

RiNext ==
    /\ ub = "no"
    /\ \/ \E m \in Blocks \ {"WORLD"} : BlockBegin(m) \/ BlockEnd(m)
       \/ "WORLD" \in Blocks /\ (WorldBegin \/ WorldEnd \/ StaleFramework)
       \/ "WORLD" \in Blocks /\ "render" \in RiFaults /\ WorldEndThrows
       \/ \E append \in BOOLEAN, d \in Displays : Display(append, d)
       \/ \E v \in Vals : Attribute(v) \/ Transform(v)
       \/ \E v \in Vals : "params" \in RiFaults /\ AttributeThrows(v)
       \/ Primitive
       \/ EmptyStack
       \/ DeletedDisplay

RiSpec == RiInit /\ [][RiNext]_riVars

----------------------------------------------------------------------------
(* Properties.                                                             *)

Value(k) == IF k = "opts" THEN SUBSET Displays ELSE Vals

\* The state keeps to its types; the mode stack is never empty.
RiTypeOK ==
    /\ modes \in Seq(Modes) /\ modes # <<>> /\ modes[1] = "UNDEFINED"
    /\ \A i \in 2..Len(modes) : modes[i] # "UNDEFINED"
    /\ DOMAIN stack = Kinds /\ \A k \in Kinds : stack[k] \in Seq(Value(k))
    /\ rev \in [Shared -> Nat] /\ seen \in [Shared -> Nat \cup {-1}]
    /\ uniq \in [Shared -> Seq(Vals)]
    /\ prims \cup kept \subseteq [at : [Shared -> Nat], meant : [Shared -> Vals],
                                  sure : [Shared -> BOOLEAN]]
    /\ live \subseteq Displays /\ fwDisp \subseteq Displays
    /\ ub \in {"no", "stack", "display", "framework"}
    /\ saved \in Seq([depth : [Kinds -> Nat], top : [Kinds -> Vals \cup SUBSET Displays]])
    /\ Len(saved) = Len(modes) - 1
    /\ ill \in BOOLEAN /\ restored \in [Shared -> BOOLEAN]
    /\ owner \in [Displays -> Nat] /\ crossed \in BOOLEAN

(* While every End has matched, each stack is as deep as the open blocks   *)
(* say: each one level above what it was when the innermost block that     *)
(* saves it began; no command meets an empty stack.                        *)
Above(k, m) == IF k \in Saves(m) THEN 1 ELSE 0

WellStacked ==
    ~ill =>
        /\ ub # "stack"
        /\ \A k \in Kinds :
            /\ \A i \in 1..Len(saved) :
                 (IF i = Len(saved) THEN Len(stack[k]) ELSE saved[i + 1].depth[k])
                   = saved[i].depth[k] + Above(k, modes[i + 1])
            /\ saved # <<>> => saved[1].depth[k] = 1
            /\ saved = <<>> => Len(stack[k]) = 1

\* The inductive invariant behind WellStacked and Restores.
StackInv ==
    ~ill =>
        \A k \in Kinds :
            \A i \in 1..Len(saved) :
                /\ saved[i].depth[k] >= 1
                /\ saved[i].depth[k] + Above(k, modes[i + 1]) <= Len(stack[k])
                /\ \A j \in 1..Len(saved) :
                     i < j => saved[i].depth[k] + Above(k, modes[i + 1]) <= saved[j].depth[k]
                /\ k \in Shared \cap Saves(modes[i + 1]) =>
                     stack[k][saved[i].depth[k]] = saved[i].top[k]

\* What a block of mode m saves, as the comment in RI_State.h lists it.
Listed(k, m) ==
    m \in CASE k = "opts"  -> {"WORLD", "FRAME"}
            [] k = "attr"  -> {"ATTRIBUTE", "WORLD", "FRAME", "SOLID", "OBJECT"}
            [] k = "xform" -> {"TRANSFORM", "ATTRIBUTE", "WORLD", "FRAME", "SOLID", "OBJECT"}

(* When a block ends, attributes and transform are what they were when it  *)
(* began, whatever happened in it, as long as every End has matched.       *)
Restores ==
    [][\A k \in Shared :
        (~ill' /\ Len(modes') < Len(modes) /\ Listed(k, Top(modes)))
            => Top(stack'[k]) = Top(saved).top[k]]_riVars

(* A primitive has the attributes and the transform that were current when *)
(* it was inserted, and keeps them as long as it is in the hider; the      *)
(* exception (sure) is a state that was changed without a new revision, by *)
(* the end of a block or a command that failed halfway.                    *)
PrimsShare ==
    \A p \in prims \cup kept, k \in Shared :
        p.sure[k] => p.at[k] \in 1..Len(uniq[k]) /\ uniq[k][p.at[k]] = p.meant[k]

\* Behind PrimsShare: with no new revision the last copy is the current state.
CopyCurrent ==
    \A k \in Shared :
        /\ seen[k] <= rev[k]
        /\ (seen[k] = rev[k] /\ ~restored[k]) =>
              /\ uniq[k] # <<>>
              /\ stack[k] # <<>> => Top(uniq[k]) = Top(stack[k])

\* The same without the exception: what the stacks are for.
PrimStates ==
    \A p \in prims, k \in Shared :
        p.at[k] \in 1..Len(uniq[k]) /\ uniq[k][p.at[k]] = p.meant[k]

(* As long as displays are deleted only at the depth of the option stack   *)
(* at which they were made, no options on the stack point to a deleted     *)
(* display.                                                                *)
OwnedDisplays ==
    ~crossed => /\ ub # "display"
                /\ \A i \in 1..Len(stack["opts"]) : stack["opts"][i] \subseteq live

\* Behind OwnedDisplays: no options list a display made at a greater depth.
MadeBelow ==
    ~crossed => \A i \in 1..Len(stack["opts"]) : \A d \in stack["opts"][i] : owner[d] <= i
=============================================================================
