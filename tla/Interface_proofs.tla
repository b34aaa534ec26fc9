---------------------------- MODULE Interface_proofs ----------------------------
(***************************************************************************)
(* Proofs about the two ways into the renderer.                            *)
(*                                                                         *)
(* RiState, for every set of values, displays, block kinds and faults and  *)
(* every bound: type correctness, the agreement of stacks and blocks, what *)
(* a block restores, what primitives share, and who may delete displays.   *)
(*                                                                         *)
(* RibParser, for every set of lexemes and blanks and every length of a    *)
(* file: after each character the tokenizer holds the part of the lexeme   *)
(* that is read, and the Parser the commands whose tokens are complete, so *)
(* the commands that the Translator gets are those that are written.       *)
(***************************************************************************)
EXTENDS RiState, RibParser, NatInduction, FiniteSetTheorems, SequenceTheorems, TLAPS

----------------------------------------------------------------------------
(* The stack operators.                                                    *)

\* pop_back() of a non-empty stack shortens it by one and keeps the rest.
LEMMA PopFacts ==
    ASSUME NEW S, NEW s \in Seq(S), s # <<>>
    PROVE  /\ Pop(s) \in Seq(S) /\ Len(Pop(s)) = Len(s) - 1
           /\ \A i \in 1..(Len(s) - 1) : Pop(s)[i] = s[i]
           /\ Len(s) \in Nat \ {0}
<1>1. Len(s) \in Nat \ {0}
  OBVIOUS
<1>. DEFINE n == Len(s) - 1
<1>2. n \in Int /\ \A i \in 1..n : s[i] \in S
  BY <1>1
<1>3. /\ SubSeq(s, 1, n) \in Seq(S)
      /\ Len(SubSeq(s, 1, n)) = IF 1 <= n THEN n - 1 + 1 ELSE 0
      /\ \A i \in 1..(n - 1 + 1) : SubSeq(s, 1, n)[i] = s[1 + i - 1]
  <2>. HIDE DEF n
  <2>. QED  BY <1>2, SubSeqProperties
<1>4. n \in Nat /\ n - 1 + 1 = n /\ \A i \in 1..n : 1 + i - 1 = i
  BY <1>1
<1>. QED  BY <1>1, <1>3, <1>4 DEF Pop

\* Changing the top of a non-empty stack keeps its depth and the rest.
LEMMA SetTopFacts ==
    ASSUME NEW S, NEW s \in Seq(S), s # <<>>, NEW v \in S
    PROVE  /\ SetTop(s, v) \in Seq(S) /\ Len(SetTop(s, v)) = Len(s)
           /\ SetTop(s, v)[Len(s)] = v
           /\ \A i \in 1..(Len(s) - 1) : SetTop(s, v)[i] = s[i]
           /\ Len(s) \in Nat \ {0}
           /\ SetTop(s, v) # <<>>
BY DEF SetTop

\* push_back() adds one element on top.
LEMMA AppendFacts ==
    ASSUME NEW S, NEW s \in Seq(S), NEW v \in S
    PROVE  /\ Append(s, v) \in Seq(S) /\ Len(Append(s, v)) = Len(s) + 1
           /\ Append(s, v)[Len(s) + 1] = v
           /\ \A i \in 1..Len(s) : Append(s, v)[i] = s[i]
           /\ Len(s) \in Nat
           /\ Append(s, v) # <<>>
OBVIOUS

\* back() of a non-empty stack is one of its elements.
LEMMA TopFacts ==
    ASSUME NEW S, NEW s \in Seq(S), s # <<>>
    PROVE  Top(s) \in S /\ Len(s) \in Nat \ {0}
BY DEF Top

----------------------------------------------------------------------------
(* Type correctness.                                                       *)

\* A mode that a RIB file opens is not MD_UNDEFINED.
LEMMA BlockModes == \A m \in Blocks : m \in Modes /\ m # "UNDEFINED"
BY RiAssumption

Stacks(s) == DOMAIN s = Kinds /\ \A k \in Kinds : s[k] \in Seq(Value(k))

\* pushStacks keeps the types of the stacks.
LEMMA PushedType ==
    ASSUME Stacks(stack), NEW m, HasTop(Saves(m))
    PROVE  Stacks(Pushed(m))
<1>. SUFFICES ASSUME NEW k \in Kinds
              PROVE  Pushed(m)[k] \in Seq(Value(k))
  BY DEF Stacks, Pushed
<1>1. CASE k \in Saves(m)
  BY <1>1, TopFacts, AppendFacts DEF Stacks, Pushed, HasTop
<1>2. CASE k \notin Saves(m)
  BY <1>2 DEF Stacks, Pushed
<1>. QED  BY <1>1, <1>2

\* popStacks keeps the types of the stacks.
LEMMA PoppedType ==
    ASSUME Stacks(stack), NEW m, HasTop(Saves(m))
    PROVE  Stacks(Popped(m))
<1>. SUFFICES ASSUME NEW k \in Kinds
              PROVE  Popped(m)[k] \in Seq(Value(k))
  BY DEF Stacks, Popped
<1>1. CASE k \in Saves(m)
  BY <1>1, PopFacts DEF Stacks, Popped, HasTop
<1>2. CASE k \notin Saves(m)
  BY <1>2 DEF Stacks, Popped
<1>. QED  BY <1>1, <1>2

\* A change of one top keeps the types of the stacks.
LEMMA ChangedType ==
    ASSUME NEW s, Stacks(s), NEW k \in Kinds, s[k] # <<>>, NEW v \in Value(k)
    PROVE  Stacks([s EXCEPT ![k] = SetTop(@, v)])
BY SetTopFacts DEF Stacks

Blocked == [depth : [Kinds -> Nat], top : [Kinds -> Vals \cup SUBSET Displays]]

\* What is recorded of the stacks when a block begins.
LEMMA SnapshotType ==
    ASSUME Stacks(stack)
    PROVE  Snapshot \in Blocked
<1>1. \A k \in Kinds : Len(stack[k]) \in Nat
  BY DEF Stacks
<1>2. \A k \in Kinds : (IF stack[k] = <<>> THEN Identity ELSE Top(stack[k]))
                         \in Vals \cup SUBSET Displays
  BY RiAssumption, TopFacts DEF Stacks, Value
<1>. QED  BY <1>1, <1>2 DEF Snapshot, Blocked

\* The mode stack after popMode: its first mode stays.
LEMMA PopModeType ==
    ASSUME RiTypeOK, NEW m, m # "UNDEFINED", PopMode(m)
    PROVE  /\ modes' \in Seq(Modes) /\ modes' # <<>> /\ modes'[1] = "UNDEFINED"
           /\ \A i \in 2..Len(modes') : modes'[i] # "UNDEFINED"
           /\ saved' \in Seq(Blocked) /\ Len(saved') = Len(modes') - 1
           /\ ill' \in BOOLEAN
<1>1. CASE Top(modes) = m
  <2>1. Len(modes) \in Nat /\ Len(modes) >= 2
    BY <1>1 DEF RiTypeOK, Top
  <2>2. saved # <<>> /\ saved \in Seq(Blocked)
    BY <2>1 DEF RiTypeOK, Blocked
  <2>3. modes' = Pop(modes) /\ saved' = Pop(saved) /\ ill' = ill
    BY <1>1 DEF PopMode
  <2>4. Len(Pop(modes)) >= 1 /\ Pop(modes)[1] = modes[1]
    BY <2>1, PopFacts DEF RiTypeOK
  <2>5. Len(Pop(saved)) = Len(Pop(modes)) - 1 /\ Pop(saved) \in Seq(Blocked)
    BY <2>1, <2>2, PopFacts DEF RiTypeOK
  <2>6. Pop(modes) \in Seq(Modes) /\ Pop(modes) # <<>>
    BY <2>4, PopFacts DEF RiTypeOK
  <2>7. \A i \in 2..Len(Pop(modes)) : Pop(modes)[i] # "UNDEFINED"
    <3>1. Len(Pop(modes)) = Len(modes) - 1 /\ \A i \in 1..(Len(modes) - 1) : Pop(modes)[i] = modes[i]
      BY <2>1, PopFacts DEF RiTypeOK
    <3>. QED  BY <2>1, <3>1 DEF RiTypeOK
  <2>. QED  BY <2>3, <2>4, <2>5, <2>6, <2>7 DEF RiTypeOK
<1>2. CASE Top(modes) # m
  BY <1>2 DEF PopMode, RiTypeOK, Blocked
<1>. QED  BY <1>1, <1>2

ModesOK ==
    /\ modes \in Seq(Modes) /\ modes # <<>> /\ modes[1] = "UNDEFINED"
    /\ \A i \in 2..Len(modes) : modes[i] # "UNDEFINED"
    /\ saved \in Seq(Blocked) /\ Len(saved) = Len(modes) - 1
    /\ ill \in BOOLEAN

SharedOK ==
    /\ rev \in [Shared -> Nat] /\ seen \in [Shared -> Nat \cup {-1}]
    /\ uniq \in [Shared -> Seq(Vals)]
    /\ prims \cup kept \subseteq [at : [Shared -> Nat], meant : [Shared -> Vals],
                                  sure : [Shared -> BOOLEAN]]
    /\ restored \in [Shared -> BOOLEAN]

DisplayOK ==
    /\ live \subseteq Displays /\ fwDisp \subseteq Displays
    /\ owner \in [Displays -> Nat] /\ crossed \in BOOLEAN

\* RiTypeOK in parts that most actions leave alone.
LEMMA TypeParts ==
    RiTypeOK <=> /\ ModesOK /\ Stacks(stack) /\ SharedOK /\ DisplayOK
               /\ ub \in {"no", "stack", "display", "framework"}
BY DEF RiTypeOK, ModesOK, Stacks, SharedOK, DisplayOK, Blocked

\* pushMode of a block keeps the types of the mode stack and its history.
LEMMA PushModeType ==
    ASSUME ModesOK, NEW m \in Modes, m # "UNDEFINED", NEW r \in Blocked,
           modes' = Append(modes, m), saved' = Append(saved, r), ill' = ill
    PROVE  ModesOK'
<1>1. Len(modes) \in Nat \ {0}
  BY DEF ModesOK
<1>2. /\ modes' \in Seq(Modes) /\ Len(modes') = Len(modes) + 1 /\ modes'[Len(modes) + 1] = m
      /\ \A i \in 1..Len(modes) : modes'[i] = modes[i]
  BY AppendFacts DEF ModesOK
<1>3. saved' \in Seq(Blocked) /\ Len(saved') = Len(saved) + 1
  BY AppendFacts DEF ModesOK
<1>. QED  BY <1>1, <1>2, <1>3 DEF ModesOK

\* Restoring keeps the type of its history.
LEMMA RestoringType ==
    ASSUME SharedOK, NEW K, Restoring(K)
    PROVE  restored' \in [Shared -> BOOLEAN]
BY DEF Restoring, SharedOK

\* NewDisplay keeps the types of displays.
LEMMA NewDisplayType ==
    ASSUME DisplayOK, Stacks(stack), NEW D, NEW d \in Displays, NewDisplay(D, d)
    PROVE  live' \subseteq Displays /\ owner' \in [Displays -> Nat] /\ crossed' \in BOOLEAN
<1>1. Len(stack["opts"]) \in Nat
  BY DEF Stacks, Kinds
<1>. QED  BY <1>1 DEF DisplayOK, NewDisplay

\* Every step keeps the types.
LEMMA TypeStep ==
    ASSUME RiTypeOK, [RiNext]_riVars
    PROVE  RiTypeOK'
<1>. USE TypeParts
<1>. SUFFICES /\ ModesOK' /\ Stacks(stack') /\ SharedOK' /\ DisplayOK'
              /\ ub' \in {"no", "stack", "display", "framework"}
  BY DEF RiTypeOK, ModesOK, Stacks, SharedOK, DisplayOK, Blocked
<1>0. CASE UNCHANGED riVars
  BY <1>0 DEF riVars, stacks, shared, display, ModesOK, Stacks, SharedOK, DisplayOK
<1>1. ASSUME NEW m \in Blocks \ {"WORLD"}, BlockBegin(m)
      PROVE  /\ ModesOK' /\ Stacks(stack') /\ SharedOK' /\ DisplayOK'
             /\ ub' \in {"no", "stack", "display", "framework"}
  <2>1. Stacks(stack')
    BY <1>1, PushedType DEF BlockBegin
  <2>2. ModesOK'
    BY <1>1, BlockModes, SnapshotType, PushModeType DEF BlockBegin
  <2>. QED  BY <1>1, <2>1, <2>2 DEF BlockBegin, shared, display, SharedOK, DisplayOK
<1>2. ASSUME NEW m \in Blocks \ {"WORLD"}, BlockEnd(m)
      PROVE  /\ ModesOK' /\ Stacks(stack') /\ SharedOK' /\ DisplayOK'
             /\ ub' \in {"no", "stack", "display", "framework"}
  <2>1. Stacks(stack')
    BY <1>2, PoppedType DEF BlockEnd
  <2>2. ModesOK'
    BY <1>2, BlockModes, PopModeType DEF BlockEnd, ModesOK
  <2>3. SharedOK'
    BY <1>2, RestoringType DEF BlockEnd, SharedOK
  <2>. QED  BY <1>2, <2>1, <2>2, <2>3 DEF BlockEnd, display, DisplayOK
<1>3. ASSUME WorldBegin
      PROVE  /\ ModesOK' /\ Stacks(stack') /\ SharedOK' /\ DisplayOK'
             /\ ub' \in {"no", "stack", "display", "framework"}
  <2>. PICK add \in SUBSET Displays :
        LET opts == SetTop(stack["opts"], Top(stack["opts"]) \cup add) IN
        /\ IF Top(stack["opts"]) = {} /\ FallBack
           THEN \E d \in Displays : add = {d} /\ NewDisplay({}, d)
           ELSE add = {} /\ UNCHANGED <<live, owner, crossed>>
        /\ stack' = [k \in Kinds |->
                        CASE k = "opts"  -> Append(opts, Top(opts))
                          [] k = "attr"  -> Append(stack[k], Top(stack[k]))
                          [] k = "xform" -> Append(stack[k], Identity)]
        /\ fwDisp' = Top(opts)
        /\ saved' = Append(saved, [Snapshot EXCEPT !.top["opts"] = Top(opts)])
    BY <1>3 DEF WorldBegin
  <2>. DEFINE opts == SetTop(stack["opts"], Top(stack["opts"]) \cup add)
  <2>1. stack["opts"] \in Seq(SUBSET Displays) /\ stack["opts"] # <<>>
        /\ stack["attr"] \in Seq(Vals) /\ stack["attr"] # <<>>
        /\ stack["xform"] \in Seq(Vals) /\ stack["xform"] # <<>>
    BY <1>3 DEF Stacks, Kinds, Value, WorldBegin, HasTop
  <2>2. Top(stack["opts"]) \cup add \in SUBSET Displays /\ Top(stack["attr"]) \in Vals
    BY <2>1, TopFacts
  <2>3. opts \in Seq(SUBSET Displays) /\ opts # <<>>
    <3>. DEFINE S == SUBSET Displays
                v == Top(stack["opts"]) \cup add
    <3>1. v \in S /\ stack["opts"] \in Seq(S) /\ stack["opts"] # <<>>
      BY <2>1, <2>2
    <3>. HIDE DEF S, v
    <3>2. SetTop(stack["opts"], v) \in Seq(S) /\ SetTop(stack["opts"], v) # <<>>
      BY <3>1, SetTopFacts
    <3>. QED  BY <3>2 DEF S, v
  <2>4. Top(opts) \in SUBSET Displays
    BY <2>3, TopFacts
  <2>. HIDE DEF opts
  <2>5. Append(opts, Top(opts)) \in Seq(SUBSET Displays)
        /\ Append(stack["attr"], Top(stack["attr"])) \in Seq(Vals)
        /\ Append(stack["xform"], Identity) \in Seq(Vals)
    BY <2>1, <2>2, <2>3, <2>4, AppendFacts, RiAssumption
  <2>6. Stacks(stack')
    BY <2>5 DEF Stacks, Kinds, Value, opts
  <2>7. [Snapshot EXCEPT !.top["opts"] = Top(opts)] \in Blocked
    BY <2>4, SnapshotType DEF Blocked, Kinds
  <2>8. ModesOK'
    BY <1>3, <2>7, PushModeType DEF WorldBegin, Modes, opts
  <2>9. DisplayOK'
    BY <2>4, NewDisplayType DEF DisplayOK, opts
  <2>10. SharedOK'
    BY <1>3 DEF WorldBegin, SharedOK, Shared
  <2>. QED  BY <1>3, <2>6, <2>8, <2>9, <2>10 DEF WorldBegin
<1>4. ASSUME WorldEnd
      PROVE  /\ ModesOK' /\ Stacks(stack') /\ SharedOK' /\ DisplayOK'
             /\ ub' \in {"no", "stack", "display", "framework"}
  <2>1. ModesOK'
    BY <1>4, PopModeType DEF WorldEnd, ModesOK
  <2>2. SharedOK'
    BY <1>4, RestoringType DEF WorldEnd, SharedOK, ReleaseWorld
  <2>. DEFINE s == Popped("WORLD")
  <2>3. Stacks(s)
    BY <1>4, PoppedType DEF WorldEnd, HasTop, Saves
  <2>. HIDE DEF s
  <2>4. CASE Top(modes) = "WORLD"
    <3>1. s["opts"] # <<>> /\ FreeDisplays(s)
      BY <1>4, <2>4 DEF WorldEnd, s
    <3>2. Stacks([s EXCEPT !["opts"] = SetTop(@, {})])
      BY <2>3, <3>1, ChangedType DEF Kinds, Value
    <3>. QED  BY <1>4, <2>1, <2>2, <3>1, <3>2 DEF WorldEnd, FreeDisplays, DisplayOK
  <2>5. CASE Top(modes) # "WORLD"
    BY <1>4, <2>1, <2>2, <2>3, <2>5 DEF WorldEnd, DisplayOK, s
  <2>. QED  BY <2>4, <2>5
<1>5. ASSUME WorldEndThrows
      PROVE  /\ ModesOK' /\ Stacks(stack') /\ SharedOK' /\ DisplayOK'
             /\ ub' \in {"no", "stack", "display", "framework"}
  BY <1>5 DEF WorldEndThrows, stacks, ModesOK, Stacks, SharedOK, DisplayOK
<1>6. ASSUME NEW append \in BOOLEAN, NEW d \in Displays, Display(append, d)
      PROVE  /\ ModesOK' /\ Stacks(stack') /\ SharedOK' /\ DisplayOK'
             /\ ub' \in {"no", "stack", "display", "framework"}
  <2>. DEFINE old == Top(stack["opts"])
  <2>1. stack["opts"] \in Seq(SUBSET Displays) /\ stack["opts"] # <<>>
    BY <1>6 DEF Stacks, Kinds, Value, Display, HasTop
  <2>2. old \in SUBSET Displays
    BY <2>1, TopFacts
  <2>3. DisplayOK'
    BY <1>6, NewDisplayType DEF Display, DisplayOK
  <2>4. Stacks(stack')
    BY <1>6, <2>1, <2>2, ChangedType DEF Display, Kinds, Value
  <2>. QED  BY <1>6, <2>3, <2>4 DEF Display, shared, ModesOK, SharedOK
<1>7. ASSUME NEW k \in Shared, NEW v \in Vals, stack[k] # <<>>, SetValue(k, v),
             UNCHANGED <<modes, saved, ill, seen, uniq, prims, kept, restored, display, ub>>
      PROVE  /\ ModesOK' /\ Stacks(stack') /\ SharedOK' /\ DisplayOK'
             /\ ub' \in {"no", "stack", "display", "framework"}
  <2>1. Stacks(stack')
    BY <1>7, ChangedType DEF SetValue, Kinds, Shared, Value
  <2>2. SharedOK'
    BY <1>7 DEF SetValue, SharedOK
  <2>. QED  BY <1>7, <2>1, <2>2 DEF display, ModesOK, DisplayOK
<1>8. ASSUME NEW v \in Vals, Attribute(v) \/ Transform(v)
      PROVE  /\ ModesOK' /\ Stacks(stack') /\ SharedOK' /\ DisplayOK'
             /\ ub' \in {"no", "stack", "display", "framework"}
  BY <1>7, <1>8 DEF Attribute, Transform, HasTop, Shared
<1>9. ASSUME NEW v \in Vals, AttributeThrows(v)
      PROVE  /\ ModesOK' /\ Stacks(stack') /\ SharedOK' /\ DisplayOK'
             /\ ub' \in {"no", "stack", "display", "framework"}
  <2>1. Stacks(stack')
    BY <1>9, ChangedType DEF AttributeThrows, HasTop, Kinds, Value
  <2>2. SharedOK'
    BY <1>9, RestoringType DEF AttributeThrows, SharedOK
  <2>. QED  BY <1>9, <2>1, <2>2 DEF AttributeThrows, display, ModesOK, DisplayOK
<1>10. ASSUME Primitive
       PROVE  /\ ModesOK' /\ Stacks(stack') /\ SharedOK' /\ DisplayOK'
              /\ ub' \in {"no", "stack", "display", "framework"}
  <2>1. \A k \in Shared : Top(stack[k]) \in Vals
    BY <1>10, TopFacts DEF Primitive, Insert, HasTop, Shared, Kinds, Stacks, Value
  <2>2. uniq' \in [Shared -> Seq(Vals)]
    BY <1>10, <2>1, AppendFacts DEF Primitive, Insert, SharedOK
  <2>3. restored' \in [Shared -> BOOLEAN]
    BY <1>10 DEF Primitive, Insert, SharedOK
  <2>4. \A k \in Shared : Len(uniq'[k]) \in Nat
    BY <2>2
  <2>5. [at |-> [k \in Shared |-> Len(uniq'[k])],
         meant |-> [k \in Shared |-> Top(stack[k])],
         sure |-> [k \in Shared |-> ~restored'[k]]]
          \in [at : [Shared -> Nat], meant : [Shared -> Vals], sure : [Shared -> BOOLEAN]]
    BY <2>1, <2>4
  <2>6. SharedOK'
    BY <1>10, <2>2, <2>3, <2>5 DEF Primitive, Insert, SharedOK
  <2>. QED  BY <1>10, <2>6 DEF Primitive, Insert, stacks, display, ModesOK, Stacks, DisplayOK
<1>11. ASSUME EmptyStack \/ DeletedDisplay \/ StaleFramework
       PROVE  /\ ModesOK' /\ Stacks(stack') /\ SharedOK' /\ DisplayOK'
              /\ ub' \in {"no", "stack", "display", "framework"}
  BY <1>11 DEF EmptyStack, DeletedDisplay, StaleFramework, Undefined, stacks, shared, display,
               ModesOK, Stacks, SharedOK, DisplayOK
<1>. QED  BY <1>0, <1>1, <1>2, <1>3, <1>4, <1>5, <1>6, <1>8, <1>9, <1>10, <1>11 DEF RiNext

(* The state keeps to its types, for every constant: the mode stack in     *)
(* particular is never empty when checkPopMode or verifyOpType read it.    *)
THEOREM TypeCorrect == RiSpec => []RiTypeOK
<1>1. RiInit => RiTypeOK
  <2>. SUFFICES ASSUME RiInit PROVE RiTypeOK
    OBVIOUS
  <2>1. Stacks(stack)
    BY RiAssumption DEF RiInit, Stacks, Kinds, Value
  <2>2. ModesOK
    <3>1. modes = <<"UNDEFINED", "BASE">> /\ saved = <<Snapshot>> /\ ill = FALSE
      BY DEF RiInit
    <3>2. modes \in Seq(Modes) /\ Len(modes) = 2 /\ modes[1] = "UNDEFINED" /\ modes[2] = "BASE"
      BY <3>1 DEF Modes
    <3>3. Snapshot \in Blocked
      BY <2>1, SnapshotType
    <3>4. saved \in Seq(Blocked) /\ Len(saved) = 1
      BY <3>1, <3>3
    <3>5. modes # <<>> /\ \A i \in 2..Len(modes) : modes[i] # "UNDEFINED"
      <4>1. \A i \in 2..2 : i = 2
        OBVIOUS
      <4>2. modes # <<>>
        BY <3>1
      <4>. HIDE <3>1
      <4>. QED  BY <3>2, <4>1, <4>2
    <3>6. Len(saved) = Len(modes) - 1
      BY <3>2, <3>4
    <3>7. ill \in BOOLEAN
      BY <3>1
    <3>. QED  BY <3>2, <3>4, <3>5, <3>6, <3>7 DEF ModesOK
  <2>3. SharedOK
    BY DEF RiInit, SharedOK
  <2>4. DisplayOK /\ ub = "no"
    BY DEF RiInit, DisplayOK
  <2>. QED  BY <2>1, <2>2, <2>3, <2>4, TypeParts
<1>. QED  BY <1>1, TypeStep, PTL DEF RiSpec

----------------------------------------------------------------------------
(* Stacks and blocks.                                                      *)

\* A block saves a stack or leaves it alone.
LEMMA AboveFacts ==
    \A k, m : /\ Above(k, m) \in {0, 1}
              /\ k \in Saves(m) => Above(k, m) = 1
              /\ k \notin Saves(m) => Above(k, m) = 0
BY DEF Above

\* The lengths and depths that the invariants relate are numbers.
LEMMA DepthTypes ==
    ASSUME RiTypeOK
    PROVE  /\ Len(saved) \in Nat /\ Len(modes) = Len(saved) + 1
           /\ \A k \in Kinds : Len(stack[k]) \in Nat
           /\ \A i \in 1..Len(saved) : \A k \in Kinds : saved[i].depth[k] \in Nat
<1>1. saved \in Seq(Blocked) /\ Len(saved) = Len(modes) - 1 /\ modes \in Seq(Modes)
  BY DEF RiTypeOK, Blocked
<1>2. Len(saved) \in Nat /\ Len(modes) \in Nat
  BY <1>1
<1>3. \A i \in 1..Len(saved) : saved[i] \in Blocked
  BY <1>1
<1>4. \A r \in Blocked : \A k \in Kinds : r.depth[k] \in Nat
  BY DEF Blocked
<1>5. \A k \in Kinds : Len(stack[k]) \in Nat
  BY DEF RiTypeOK
<1>. QED  BY <1>1, <1>2, <1>3, <1>4, <1>5

\* While every End has matched, no stack is empty and a world has its options.
LEMMA NoneEmpty ==
    ASSUME RiTypeOK, WellStacked, StackInv, ~ill
    PROVE  /\ \A k \in Kinds : Len(stack[k]) >= 1
           /\ Top(modes) = "WORLD" => Len(stack["opts"]) > 1
<1>1. CASE saved = <<>>
  <2>1. Len(modes) = 1
    BY <1>1, DepthTypes
  <2>. QED  BY <1>1, <2>1 DEF WellStacked, RiTypeOK, Top
<1>2. CASE saved # <<>>
  <2>. DEFINE n == Len(saved)
  <2>1. n \in 1..n /\ Len(modes) = n + 1
    BY <1>2, DepthTypes DEF RiTypeOK
  <2>2. \A k \in Kinds : saved[n].depth[k] >= 1 /\ saved[n].depth[k] \in Nat
                          /\ saved[n].depth[k] + Above(k, modes[n + 1]) <= Len(stack[k])
    BY <2>1, DepthTypes DEF StackInv
  <2>3. \A k \in Kinds : Len(stack[k]) >= 1
    BY <2>2, AboveFacts, DepthTypes
  <2>4. ASSUME Top(modes) = "WORLD" PROVE Len(stack["opts"]) > 1
    <3>1. Above("opts", modes[n + 1]) = 1
      BY <2>1, <2>4, AboveFacts DEF Top, Saves, Kinds
    <3>2. "opts" \in Kinds
      BY DEF Kinds
    <3>. QED  BY <2>2, <3>1, <3>2, DepthTypes
  <2>. QED  BY <2>3, <2>4
<1>. QED  BY <1>1, <1>2

\* What a step does to the stacks when a block of mode m begins.
Opens(m) ==
    /\ modes' = Append(modes, m) /\ ill' = ill
    /\ \E r \in Blocked :
        /\ saved' = Append(saved, r)
        /\ \A k \in Kinds : r.depth[k] = Len(stack[k])
        /\ \A k \in Shared : r.top[k] = Top(stack[k])
    /\ \A k \in Kinds : Len(stack'[k]) = Len(stack[k]) + Above(k, m)
    /\ \A k \in Shared : \A i \in 1..Len(stack[k]) : stack'[k][i] = stack[k][i]

\* The beginning of a block keeps the invariant.
LEMMA OpensKeeps ==
    ASSUME RiTypeOK, RiTypeOK', WellStacked, StackInv, NEW m, Opens(m), ub' # "stack"
    PROVE  WellStacked' /\ StackInv'
<1>. SUFFICES ASSUME ~ill
              PROVE  WellStacked' /\ StackInv'
  BY DEF WellStacked, StackInv, Opens
<1>. DEFINE n == Len(saved)
<1>. PICK r \in Blocked :
        /\ saved' = Append(saved, r)
        /\ \A k \in Kinds : r.depth[k] = Len(stack[k])
        /\ \A k \in Shared : r.top[k] = Top(stack[k])
  BY DEF Opens
<1>1. n \in Nat /\ Len(modes) = n + 1
  BY DepthTypes
<1>2. /\ Len(saved') = n + 1 /\ saved'[n + 1] = r
      /\ \A i \in 1..n : saved'[i] = saved[i]
  BY <1>1, AppendFacts DEF RiTypeOK, Blocked
<1>3. modes'[n + 2] = m /\ \A i \in 1..(n + 1) : modes'[i] = modes[i]
  BY <1>1 DEF Opens, RiTypeOK
<1>4. \A k \in Kinds : /\ Len(stack[k]) \in Nat /\ Len(stack[k]) >= 1
                       /\ Len(stack'[k]) = Len(stack[k]) + Above(k, m)
                       /\ Above(k, m) \in {0, 1}
  BY NoneEmpty, DepthTypes, AboveFacts DEF Opens
<1>5. StackInv'
  <2>. SUFFICES ASSUME NEW k \in Kinds, NEW i \in 1..(n + 1)
       PROVE  /\ saved'[i].depth[k] >= 1
              /\ saved'[i].depth[k] + Above(k, modes'[i + 1]) <= Len(stack'[k])
              /\ \A j \in 1..(n + 1) :
                   i < j => saved'[i].depth[k] + Above(k, modes'[i + 1]) <= saved'[j].depth[k]
              /\ k \in Shared \cap Saves(modes'[i + 1]) =>
                   stack'[k][saved'[i].depth[k]] = saved'[i].top[k]
    BY <1>2 DEF StackInv
  <2>1. CASE i = n + 1
    <3>1. saved'[i].depth[k] = Len(stack[k]) /\ modes'[i + 1] = m
      BY <1>1, <1>2, <1>3, <2>1
    <3>2. k \in Shared => stack'[k][Len(stack[k])] = Top(stack[k]) /\ saved'[i].top[k] = Top(stack[k])
      BY <1>2, <1>4, <2>1 DEF Opens, Top
    <3>3. \A j \in 1..(n + 1) : ~(i < j)
      BY <1>1, <2>1
    <3>. QED  BY <1>4, <3>1, <3>2, <3>3
  <2>2. CASE i # n + 1
    <3>1. i \in 1..n /\ saved'[i] = saved[i] /\ modes'[i + 1] = modes[i + 1]
      BY <1>1, <1>2, <1>3, <2>2
    <3>2. /\ saved[i].depth[k] >= 1 /\ saved[i].depth[k] \in Nat
          /\ saved[i].depth[k] + Above(k, modes[i + 1]) <= Len(stack[k])
          /\ Above(k, modes[i + 1]) \in {0, 1}
      BY <3>1, DepthTypes, AboveFacts DEF StackInv
    <3>3. \A j \in 1..n : i < j => saved[i].depth[k] + Above(k, modes[i + 1]) <= saved[j].depth[k]
      BY <3>1 DEF StackInv
    <3>4. k \in Shared \cap Saves(modes[i + 1]) => stack[k][saved[i].depth[k]] = saved[i].top[k]
      BY <3>1 DEF StackInv
    <3>5. k \in Shared => stack'[k][saved[i].depth[k]] = stack[k][saved[i].depth[k]]
      <4>1. saved[i].depth[k] \in 1..Len(stack[k])
        BY <1>4, <3>2
      <4>. QED  BY <4>1 DEF Opens
    <3>6. saved'[n + 1].depth[k] = Len(stack[k])
      BY <1>2
    <3>7. \A j \in 1..(n + 1) :
            i < j => saved[i].depth[k] + Above(k, modes[i + 1]) <= saved'[j].depth[k]
      <4>. SUFFICES ASSUME NEW j \in 1..(n + 1), i < j
                    PROVE  saved[i].depth[k] + Above(k, modes[i + 1]) <= saved'[j].depth[k]
        OBVIOUS
      <4>1. CASE j = n + 1
        BY <3>2, <3>6, <4>1
      <4>2. CASE j # n + 1
        <5>1. j \in 1..n /\ saved'[j] = saved[j]
          BY <1>1, <1>2, <4>2
        <5>. QED  BY <3>3, <5>1
      <4>. QED  BY <4>1, <4>2
    <3>8. saved'[i].depth[k] + Above(k, modes'[i + 1]) <= Len(stack'[k])
      BY <1>4, <3>1, <3>2
    <3>9. k \in Shared \cap Saves(modes'[i + 1]) => stack'[k][saved'[i].depth[k]] = saved'[i].top[k]
      BY <3>1, <3>4, <3>5
    <3>. QED  BY <3>1, <3>2, <3>7, <3>8, <3>9
  <2>. QED  BY <2>1, <2>2
<1>6. WellStacked'
  <2>. SUFFICES ASSUME NEW k \in Kinds
       PROVE  /\ \A i \in 1..(n + 1) :
                   (IF i = n + 1 THEN Len(stack'[k]) ELSE saved'[i + 1].depth[k])
                     = saved'[i].depth[k] + Above(k, modes'[i + 1])
              /\ saved'[1].depth[k] = 1
    BY <1>1, <1>2 DEF WellStacked, Above, Saves, Kinds
  <2>1. Len(stack'[k]) = saved'[n + 1].depth[k] + Above(k, modes'[n + 2])
    BY <1>2, <1>3, <1>4
  <2>2. ASSUME NEW i \in 1..n
        PROVE  saved'[i + 1].depth[k] = saved'[i].depth[k] + Above(k, modes'[i + 1])
    <3>1. (IF i = n THEN Len(stack[k]) ELSE saved[i + 1].depth[k])
            = saved[i].depth[k] + Above(k, modes[i + 1])
      BY DEF WellStacked
    <3>2. saved'[i] = saved[i] /\ modes'[i + 1] = modes[i + 1]
      BY <1>1, <1>2, <1>3
    <3>3. i = n => saved'[i + 1].depth[k] = Len(stack[k])
      BY <1>2
    <3>4. i # n => saved'[i + 1] = saved[i + 1]
      BY <1>1, <1>2
    <3>. QED  BY <3>1, <3>2, <3>3, <3>4
  <2>3. saved'[1].depth[k] = 1
    <3>1. CASE n = 0
      BY <1>1, <1>2, <3>1 DEF WellStacked, RiTypeOK
    <3>2. CASE n # 0
      BY <1>1, <1>2, <3>2 DEF WellStacked, RiTypeOK
    <3>. QED  BY <3>1, <3>2
  <2>4. ASSUME NEW i \in 1..(n + 1)
        PROVE  (IF i = n + 1 THEN Len(stack'[k]) ELSE saved'[i + 1].depth[k])
                 = saved'[i].depth[k] + Above(k, modes'[i + 1])
    <3>1. CASE i = n + 1
      <4>1. i + 1 = n + 2
        BY <1>1, <3>1
      <4>. QED  BY <2>1, <3>1, <4>1
    <3>2. CASE i # n + 1
      <4>1. i \in 1..n
        BY <1>1, <3>2
      <4>. QED  BY <2>2, <3>2, <4>1
    <3>. QED  BY <3>1, <3>2
  <2>. QED  BY <2>3, <2>4
<1>. QED  BY <1>5, <1>6

\* What a step does to the stacks when a block of mode m ends.
Closes(m) ==
    /\ Top(modes) = m /\ modes' = Pop(modes) /\ saved' = Pop(saved) /\ ill' = ill
    /\ \A k \in Kinds : Len(stack'[k]) = Len(stack[k]) - Above(k, m)
    /\ \A k \in Shared : \A i \in 1..Len(stack'[k]) : stack'[k][i] = stack[k][i]

\* The end of a block keeps the invariant, and restores what the block saved.
LEMMA ClosesKeeps ==
    ASSUME RiTypeOK, RiTypeOK', WellStacked, StackInv, NEW m, m # "UNDEFINED", Closes(m), ub' # "stack",
           ~ill
    PROVE  /\ WellStacked' /\ StackInv'
           /\ \A k \in Shared \cap Saves(m) : Top(stack'[k]) = Top(saved).top[k]
<1>. DEFINE n == Len(saved)
<1>1. n \in Nat \ {0} /\ Len(modes) = n + 1 /\ saved # <<>> /\ modes[n + 1] = m
  <2>1. n \in Nat /\ Len(modes) = n + 1
    BY DepthTypes
  <2>2. modes[n + 1] = m
    BY <2>1 DEF Closes, Top
  <2>3. n # 0
    <3>1. modes[1] = "UNDEFINED"
      BY DEF RiTypeOK
    <3>2. ASSUME n = 0 PROVE FALSE
      <4>1. n + 1 = 1
        BY <3>2
      <4>. QED  BY <2>2, <3>1, <4>1
    <3>. QED  BY <3>2
  <2>. QED  BY <2>1, <2>2, <2>3 DEF RiTypeOK
<1>2. Len(saved') = n - 1 /\ \A i \in 1..(n - 1) : saved'[i] = saved[i]
  <2>1. saved \in Seq(Blocked) /\ saved' = Pop(saved)
    BY DEF Closes, RiTypeOK, Blocked
  <2>. QED  BY <1>1, <2>1, PopFacts
<1>3. \A i \in 1..n : modes'[i] = modes[i]
  BY <1>1, PopFacts DEF Closes, RiTypeOK
<1>4. \A k \in Kinds : Len(stack'[k]) = saved[n].depth[k]
  <2>. SUFFICES ASSUME NEW k \in Kinds PROVE Len(stack'[k]) = saved[n].depth[k]
    OBVIOUS
  <2>1. Len(stack[k]) = saved[n].depth[k] + Above(k, m)
    BY <1>1 DEF WellStacked
  <2>. QED  BY <1>1, <2>1, DepthTypes, AboveFacts DEF Closes
<1>5. StackInv'
  <2>. SUFFICES ASSUME NEW k \in Kinds, NEW i \in 1..(n - 1)
       PROVE  /\ saved'[i].depth[k] >= 1
              /\ saved'[i].depth[k] + Above(k, modes'[i + 1]) <= Len(stack'[k])
              /\ \A j \in 1..(n - 1) :
                   i < j => saved'[i].depth[k] + Above(k, modes'[i + 1]) <= saved'[j].depth[k]
              /\ k \in Shared \cap Saves(modes'[i + 1]) =>
                   stack'[k][saved'[i].depth[k]] = saved'[i].top[k]
    BY <1>2 DEF StackInv
  <2>1. i \in 1..n /\ i < n /\ saved'[i] = saved[i] /\ modes'[i + 1] = modes[i + 1]
    BY <1>1, <1>2, <1>3
  <2>2. saved[i].depth[k] >= 1 /\ saved[i].depth[k] \in Nat /\ Above(k, modes[i + 1]) \in {0, 1}
    BY <2>1, DepthTypes, AboveFacts DEF StackInv
  <2>3. \A j \in 1..n : i < j => saved[i].depth[k] + Above(k, modes[i + 1]) <= saved[j].depth[k]
    BY <2>1 DEF StackInv
  <2>4. saved[i].depth[k] + Above(k, modes[i + 1]) <= Len(stack'[k])
    BY <1>1, <1>4, <2>1, <2>3
  <2>5. k \in Shared => stack'[k][saved[i].depth[k]] = stack[k][saved[i].depth[k]]
    <3>1. Len(stack'[k]) \in Nat
      BY DepthTypes, <1>1, <1>4
    <3>2. saved[i].depth[k] \in 1..Len(stack'[k])
      BY <2>2, <2>4, <3>1
    <3>. QED  BY <3>2 DEF Closes
  <2>6. k \in Shared \cap Saves(modes[i + 1]) => stack[k][saved[i].depth[k]] = saved[i].top[k]
    BY <2>1 DEF StackInv
  <2>7. ASSUME NEW j \in 1..(n - 1), i < j
        PROVE  saved[i].depth[k] + Above(k, modes[i + 1]) <= saved'[j].depth[k]
    <3>1. j \in 1..n /\ saved'[j] = saved[j]
      BY <1>1, <1>2
    <3>. QED  BY <2>3, <2>7, <3>1
  <2>. QED  BY <2>1, <2>2, <2>4, <2>5, <2>6, <2>7
<1>6. WellStacked'
  <2>. SUFFICES ASSUME NEW k \in Kinds
       PROVE  /\ \A i \in 1..Len(saved') :
                   (IF i = Len(saved') THEN Len(stack'[k]) ELSE saved'[i + 1].depth[k])
                     = saved'[i].depth[k] + Above(k, modes'[i + 1])
              /\ saved' # <<>> => saved'[1].depth[k] = 1
              /\ saved' = <<>> => Len(stack'[k]) = 1
    BY DEF WellStacked
  <2>1. ASSUME NEW i \in 1..(n - 1)
        PROVE  (IF i = n - 1 THEN Len(stack'[k]) ELSE saved'[i + 1].depth[k])
                 = saved'[i].depth[k] + Above(k, modes'[i + 1])
    <3>1. i \in 1..n /\ i # n /\ saved'[i] = saved[i] /\ modes'[i + 1] = modes[i + 1]
      BY <1>1, <1>2, <1>3
    <3>2. saved[i + 1].depth[k] = saved[i].depth[k] + Above(k, modes[i + 1])
      BY <3>1 DEF WellStacked
    <3>3. CASE i = n - 1
      <4>1. i + 1 = n
        BY <1>1, <3>3
      <4>. QED  BY <1>4, <3>1, <3>2, <3>3, <4>1
    <3>4. CASE i # n - 1
      <4>1. i + 1 \in 1..(n - 1)
        BY <1>1, <3>4
      <4>. QED  BY <1>2, <3>1, <3>2, <3>4, <4>1
    <3>. QED  BY <3>3, <3>4
  <2>2. saved[1].depth[k] = 1
    BY <1>1 DEF WellStacked
  <2>3. ASSUME saved' # <<>> PROVE saved'[1].depth[k] = 1
    <3>1. Len(saved') # 0
      <4>1. saved' \in Seq(Blocked)
        BY DEF RiTypeOK, Blocked
      <4>. QED  BY <2>3, <4>1
    <3>. QED  BY <1>1, <1>2, <2>2, <3>1
  <2>4. ASSUME saved' = <<>> PROVE Len(stack'[k]) = 1
    <3>1. n = 1
      <4>1. Len(saved') = 0
        BY <2>4
      <4>. QED  BY <1>1, <1>2, <4>1
    <3>. QED  BY <1>4, <2>2, <3>1
  <2>. QED  BY <1>2, <2>1, <2>3, <2>4
<1>7. ASSUME NEW k \in Shared \cap Saves(m)
      PROVE  Top(stack'[k]) = Top(saved).top[k]
  <2>1. k \in Kinds
    BY DEF Shared, Kinds
  <2>2. stack[k][saved[n].depth[k]] = saved[n].top[k] /\ saved[n].depth[k] >= 1
        /\ saved[n].depth[k] \in Nat
    BY <1>1, <2>1, DepthTypes DEF StackInv
  <2>3. saved[n].depth[k] \in 1..Len(stack'[k])
    BY <1>4, <2>1, <2>2
  <2>. QED  BY <1>4, <2>1, <2>2, <2>3 DEF Closes, Top
<1>. QED  BY <1>5, <1>6, <1>7

\* A step that at most changes the tops of the stacks keeps the invariant.
LEMMA SameKeeps ==
    ASSUME RiTypeOK, RiTypeOK', WellStacked, StackInv, ub' # "stack" \/ ill',
           modes' = modes, saved' = saved, ill' = ill \/ ill',
           \A k \in Kinds : Len(stack'[k]) = Len(stack[k]),
           \A k \in Shared : \A i \in 1..(Len(stack[k]) - 1) : stack'[k][i] = stack[k][i]
    PROVE  WellStacked' /\ StackInv'
<1>. SUFFICES ASSUME ~ill' PROVE WellStacked' /\ StackInv'
  BY DEF WellStacked, StackInv
<1>0. ~ill /\ ill' = ill
  BY DEF RiTypeOK
<1>1. WellStacked'
  BY <1>0 DEF WellStacked
<1>2. StackInv'
  <2>. SUFFICES ASSUME NEW k \in Kinds, NEW i \in 1..Len(saved)
       PROVE  /\ saved[i].depth[k] >= 1
              /\ saved[i].depth[k] + Above(k, modes[i + 1]) <= Len(stack'[k])
              /\ \A j \in 1..Len(saved) :
                   i < j => saved[i].depth[k] + Above(k, modes[i + 1]) <= saved[j].depth[k]
              /\ k \in Shared \cap Saves(modes[i + 1]) =>
                   stack'[k][saved[i].depth[k]] = saved[i].top[k]
    BY DEF StackInv
  <2>1. /\ saved[i].depth[k] >= 1
        /\ saved[i].depth[k] + Above(k, modes[i + 1]) <= Len(stack[k])
        /\ \A j \in 1..Len(saved) :
             i < j => saved[i].depth[k] + Above(k, modes[i + 1]) <= saved[j].depth[k]
        /\ k \in Shared \cap Saves(modes[i + 1]) =>
             stack[k][saved[i].depth[k]] = saved[i].top[k]
    BY <1>0 DEF StackInv
  <2>2. ASSUME k \in Shared \cap Saves(modes[i + 1])
        PROVE  stack'[k][saved[i].depth[k]] = saved[i].top[k]
    <3>1. saved[i].depth[k] \in 1..(Len(stack[k]) - 1)
      BY <2>1, <2>2, AboveFacts, DepthTypes
    <3>. QED  BY <2>1, <2>2, <3>1
  <2>. QED  BY <2>1, <2>2
<1>. QED  BY <1>1, <1>2

\* BlockBegin opens a block.
LEMMA BeginOpens ==
    ASSUME RiTypeOK, NEW m, BlockBegin(m), \A k \in Kinds : Len(stack[k]) >= 1
    PROVE  Opens(m)
<1>1. Stacks(stack)
  BY TypeParts
<1>2. \A k \in Kinds : stack[k] # <<>> /\ stack[k] \in Seq(Value(k))
  BY <1>1 DEF Stacks
<1>3. Snapshot \in Blocked
  BY <1>1, SnapshotType
<1>4. /\ \A k \in Kinds : Snapshot.depth[k] = Len(stack[k])
      /\ \A k \in Shared : Snapshot.top[k] = Top(stack[k])
  BY <1>2 DEF Snapshot, Shared, Kinds
<1>5. ASSUME NEW k \in Kinds
      PROVE  /\ Len(stack'[k]) = Len(stack[k]) + Above(k, m)
             /\ \A i \in 1..Len(stack[k]) : stack'[k][i] = stack[k][i]
  <2>1. CASE k \in Saves(m)
    <3>1. stack'[k] = Append(stack[k], Top(stack[k])) /\ Top(stack[k]) \in Value(k)
      BY <1>2, <2>1, TopFacts DEF BlockBegin, Pushed
    <3>. QED  BY <1>2, <2>1, <3>1, AppendFacts, AboveFacts
  <2>2. CASE k \notin Saves(m)
    <3>1. stack'[k] = stack[k] /\ Len(stack[k]) \in Nat
      BY <1>2, <2>2 DEF BlockBegin, Pushed
    <3>. QED  BY <2>2, <3>1, AboveFacts
  <2>. QED  BY <2>1, <2>2
<1>6. Shared \subseteq Kinds
  BY DEF Shared, Kinds
<1>. QED  BY <1>3, <1>4, <1>5, <1>6 DEF Opens, BlockBegin

\* popStacks takes one level off the stacks that a block saves.
LEMMA PoppedFacts ==
    ASSUME RiTypeOK, NEW m, HasTop(Saves(m)), NEW k \in Kinds
    PROVE  /\ Len(Popped(m)[k]) = Len(stack[k]) - Above(k, m)
           /\ \A i \in 1..Len(Popped(m)[k]) : Popped(m)[k][i] = stack[k][i]
<1>1. stack[k] \in Seq(Value(k))
  BY DEF RiTypeOK
<1>2. CASE k \in Saves(m)
  <2>1. Popped(m)[k] = Pop(stack[k]) /\ stack[k] # <<>>
    BY <1>2 DEF Popped, HasTop
  <2>. QED  BY <1>1, <1>2, <2>1, PopFacts, AboveFacts
<1>3. CASE k \notin Saves(m)
  <2>1. Popped(m)[k] = stack[k] /\ Len(stack[k]) \in Nat
    BY <1>1, <1>3 DEF Popped
  <2>. QED  BY <1>3, <2>1, AboveFacts
<1>. QED  BY <1>2, <1>3

\* A step that changes the top of one stack leaves depths and the rest alone.
LEMMA ChangedFacts ==
    ASSUME RiTypeOK, NEW j \in Kinds, stack[j] # <<>>, NEW v \in Value(j),
           stack' = [stack EXCEPT ![j] = SetTop(@, v)]
    PROVE  /\ \A k \in Kinds : Len(stack'[k]) = Len(stack[k])
           /\ \A k \in Shared : \A i \in 1..(Len(stack[k]) - 1) : stack'[k][i] = stack[k][i]
<1>1. stack[j] \in Seq(Value(j)) /\ DOMAIN stack = Kinds
  BY DEF RiTypeOK
<1>2. stack'[j] = SetTop(stack[j], v) /\ \A k \in Kinds \ {j} : stack'[k] = stack[k]
  BY <1>1
<1>3. Shared \subseteq Kinds
  BY DEF Shared, Kinds
<1>4. /\ Len(SetTop(stack[j], v)) = Len(stack[j])
      /\ \A i \in 1..(Len(stack[j]) - 1) : SetTop(stack[j], v)[i] = stack[j][i]
  <2>. DEFINE S == Value(j)
              s == stack[j]
  <2>1. s \in Seq(S) /\ s # <<>> /\ v \in S
    BY <1>1
  <2>. HIDE DEF S, s
  <2>2. Len(SetTop(s, v)) = Len(s) /\ \A i \in 1..(Len(s) - 1) : SetTop(s, v)[i] = s[i]
    BY <2>1, SetTopFacts
  <2>. QED  BY <2>2 DEF s
<1>. QED  BY <1>2, <1>3, <1>4

\* WorldBegin opens a block too.
LEMMA WorldOpens ==
    ASSUME RiTypeOK, WorldBegin
    PROVE  Opens("WORLD") /\ ub' = ub
<1>0. PICK add \in SUBSET Displays :
        LET opts == SetTop(stack["opts"], Top(stack["opts"]) \cup add) IN
        /\ stack' = [k \in Kinds |->
                        CASE k = "opts"  -> Append(opts, Top(opts))
                          [] k = "attr"  -> Append(stack[k], Top(stack[k]))
                          [] k = "xform" -> Append(stack[k], Identity)]
        /\ saved' = Append(saved, [Snapshot EXCEPT !.top["opts"] = Top(opts)])
  BY DEF WorldBegin
<1>. DEFINE old == stack["opts"]
            opts == SetTop(old, Top(old) \cup add)
            r == [Snapshot EXCEPT !.top["opts"] = Top(opts)]
<1>1. Stacks(stack) /\ HasTop(Kinds)
  BY TypeParts DEF WorldBegin
<1>2. \A k \in Kinds : stack[k] # <<>> /\ stack[k] \in Seq(Value(k)) /\ Top(stack[k]) \in Value(k)
  BY <1>1, TopFacts DEF Stacks, HasTop
<1>3. Top(old) \cup add \in Value("opts") /\ old \in Seq(Value("opts")) /\ old # <<>>
  BY <1>2 DEF Value, Kinds
<1>4. opts \in Seq(Value("opts")) /\ Len(opts) = Len(old) /\ opts # <<>>
  <2>. DEFINE v == Top(old) \cup add
              S == Value("opts")
  <2>1. v \in S /\ old \in Seq(S) /\ old # <<>>
    BY <1>3
  <2>. HIDE DEF v, S, old
  <2>2. SetTop(old, v) \in Seq(S) /\ Len(SetTop(old, v)) = Len(old) /\ SetTop(old, v) # <<>>
    BY <2>1, SetTopFacts
  <2>. QED  BY <2>2 DEF v, S
<1>5. Top(opts) \in SUBSET Displays
  BY <1>4, TopFacts DEF Value
<1>6. r \in Blocked
  BY <1>1, <1>5, SnapshotType DEF Blocked
<1>7. /\ \A k \in Kinds : r.depth[k] = Len(stack[k])
      /\ \A k \in Shared : r.top[k] = Top(stack[k])
  <2>1. r.depth = Snapshot.depth /\ \A k \in Shared : r.top[k] = Snapshot.top[k]
    BY DEF Snapshot, Shared, Kinds
  <2>. QED  BY <1>2, <2>1 DEF Snapshot, Shared, Kinds
<1>8. Saves("WORLD") = Kinds
  BY DEF Saves
<1>9. ASSUME NEW k \in Shared
      PROVE  /\ Len(stack'[k]) = Len(stack[k]) + 1
             /\ \A i \in 1..Len(stack[k]) : stack'[k][i] = stack[k][i]
  <2>1. \E v \in Value(k) : stack'[k] = Append(stack[k], v)
    <3>1. CASE k = "attr"
      BY <1>0, <1>2, <3>1 DEF Kinds
    <3>2. CASE k = "xform"
      BY <1>0, <1>2, <3>2, RiAssumption DEF Kinds, Value
    <3>. QED  BY <3>1, <3>2 DEF Shared
  <2>2. stack[k] \in Seq(Value(k))
    BY <1>2 DEF Shared, Kinds
  <2>3. PICK v \in Value(k) : stack'[k] = Append(stack[k], v)
    BY <2>1
  <2>. DEFINE S == Value(k)
              s == stack[k]
  <2>4. s \in Seq(S) /\ v \in S
    BY <2>2, <2>3
  <2>. HIDE DEF S, s
  <2>5. Len(Append(s, v)) = Len(s) + 1 /\ \A i \in 1..Len(s) : Append(s, v)[i] = s[i]
    BY <2>4, AppendFacts
  <2>. QED  BY <2>3, <2>5 DEF s
<1>10. Len(stack'["opts"]) = Len(old) + 1
  <2>1. stack'["opts"] = Append(opts, Top(opts))
    BY <1>0 DEF Kinds
  <2>2. Top(opts) \in Value("opts")
    BY <1>5 DEF Value
  <2>. DEFINE S == Value("opts")
              v == Top(opts)
  <2>3. opts \in Seq(S) /\ v \in S /\ stack'["opts"] = Append(opts, v) /\ Len(opts) = Len(old)
    BY <1>4, <2>1, <2>2
  <2>. HIDE DEF S, v, opts
  <2>4. Len(Append(opts, v)) = Len(opts) + 1
    BY <2>3, AppendFacts
  <2>. QED  BY <2>3, <2>4
<1>11. ASSUME NEW k \in Kinds
       PROVE  Len(stack'[k]) = Len(stack[k]) + Above(k, "WORLD")
  <2>1. Above(k, "WORLD") = 1
    BY <1>8, AboveFacts
  <2>. QED  BY <1>9, <1>10, <2>1 DEF Kinds, Shared
<1>12. modes' = Append(modes, "WORLD") /\ ill' = ill /\ ub' = ub
  BY DEF WorldBegin
<1>13. saved' = Append(saved, r)
  BY <1>0
<1>. HIDE DEF r
<1>. QED  BY <1>6, <1>7, <1>9, <1>11, <1>12, <1>13 DEF Opens

\* An End that matches closes its block.
LEMMA EndCloses ==
    ASSUME RiTypeOK, NEW m, BlockEnd(m), Top(modes) = m
    PROVE  Closes(m)
<1>1. stack' = Popped(m) /\ HasTop(Saves(m)) /\ PopMode(m)
  BY DEF BlockEnd
<1>2. Shared \subseteq Kinds
  BY DEF Shared, Kinds
<1>. QED  BY <1>1, <1>2, PoppedFacts DEF Closes, PopMode

\* So does a WorldEnd that matches; the deleted displays change no depth.
LEMMA WorldCloses ==
    ASSUME RiTypeOK, WorldEnd, Top(modes) = "WORLD"
    PROVE  Closes("WORLD")
<1>. DEFINE s == Popped("WORLD")
<1>1. HasTop(Saves("WORLD")) /\ s["opts"] # <<>> /\ PopMode("WORLD")
      /\ stack' = [s EXCEPT !["opts"] = SetTop(@, {})]
  BY DEF WorldEnd, FreeDisplays, Saves
<1>2. Stacks(s)
  BY <1>1, TypeParts, PoppedType
<1>3. {} \in Value("opts") /\ "opts" \in Kinds /\ Shared = Kinds \ {"opts"}
  BY DEF Value, Kinds, Shared
<1>4. \A k \in Kinds : /\ Len(s[k]) = Len(stack[k]) - Above(k, "WORLD")
                       /\ \A i \in 1..Len(s[k]) : s[k][i] = stack[k][i]
  BY <1>1, PoppedFacts
<1>. HIDE DEF s
<1>5. stack'["opts"] = SetTop(s["opts"], {}) /\ \A k \in Kinds \ {"opts"} : stack'[k] = s[k]
  BY <1>1, <1>2, <1>3 DEF Stacks
<1>6. Len(SetTop(s["opts"], {})) = Len(s["opts"])
  BY <1>1, <1>2, <1>3, SetTopFacts DEF Stacks
<1>. QED  BY <1>1, <1>3, <1>4, <1>5, <1>6 DEF Closes, PopMode

\* What a step may not do to the value of a block that it ends.
Restored ==
    \A k \in Shared :
        (~ill' /\ Len(modes') < Len(modes) /\ Listed(k, Top(modes)))
            => Top(stack'[k]) = Top(saved).top[k]

\* A block restores what the comment in RI_State.h lists.
LEMMA ListedSaves == \A m : \A k \in Kinds : Listed(k, m) => k \in Saves(m)
BY DEF Kinds, Listed, Saves

\* Every step keeps the agreement of stacks and blocks and restores what it must.
LEMMA StackStep ==
    ASSUME RiTypeOK, RiTypeOK', WellStacked, StackInv, [RiNext]_riVars
    PROVE  WellStacked' /\ StackInv' /\ Restored
<1>. DEFINE Goal == WellStacked' /\ StackInv' /\ Restored
<1>. SUFFICES Goal
  OBVIOUS
<1>0. Shared \subseteq Kinds
  BY DEF Shared, Kinds
<1>1. ASSUME ill' PROVE Goal
  BY <1>1 DEF WellStacked, StackInv, Restored
<1>2. ASSUME NEW m \in Modes, Opens(m), ub' # "stack" PROVE Goal
  <2>1. WellStacked' /\ StackInv'
    BY <1>2, OpensKeeps
  <2>2. Len(modes') = Len(modes) + 1 /\ Len(modes) \in Nat
    BY <1>2, AppendFacts DEF Opens, RiTypeOK
  <2>. QED  BY <2>1, <2>2 DEF Restored
<1>3. ASSUME NEW m, m # "UNDEFINED", Closes(m), ub' # "stack" PROVE Goal
  <2>1. CASE ill
    BY <1>1, <1>3, <2>1 DEF Closes
  <2>2. CASE ~ill
    <3>1. /\ WellStacked' /\ StackInv'
          /\ \A k \in Shared \cap Saves(m) : Top(stack'[k]) = Top(saved).top[k]
      BY <1>3, <2>2, ClosesKeeps
    <3>. QED  BY <1>0, <1>3, <3>1, ListedSaves DEF Restored, Closes
  <2>. QED  BY <2>1, <2>2
<1>4. ASSUME ub' # "stack" \/ ill', modes' = modes, saved' = saved, ill' = ill,
             \A k \in Kinds : Len(stack'[k]) = Len(stack[k]),
             \A k \in Shared : \A i \in 1..(Len(stack[k]) - 1) : stack'[k][i] = stack[k][i]
      PROVE  Goal
  <2>1. WellStacked' /\ StackInv'
    <3>1. ill' = ill \/ ill'
      BY <1>4 DEF RiTypeOK
    <3>. QED  BY <1>4, <3>1, SameKeeps
  <2>2. Len(modes') = Len(modes) /\ Len(modes) \in Nat
    BY <1>4 DEF RiTypeOK
  <2>. QED  BY <2>1, <2>2 DEF Restored
<1>5. ASSUME ub' # "stack" \/ ill', modes' = modes, saved' = saved, ill' = ill, stack' = stack
      PROVE  Goal
  BY <1>4, <1>5
<1>6. ASSUME ub' # "stack" \/ ill', modes' = modes, saved' = saved, ill' = ill,
             NEW j \in Kinds, stack[j] # <<>>, NEW v \in Value(j),
             stack' = [stack EXCEPT ![j] = SetTop(@, v)]
      PROVE  Goal
  BY <1>4, <1>6, ChangedFacts
<1>. HIDE DEF Goal
<1>7. CASE UNCHANGED riVars
  <2>1. ub' # "stack" \/ ill'
    BY <1>7 DEF WellStacked, riVars, stacks
  <2>. QED  BY <1>5, <1>7, <2>1 DEF riVars, stacks
<1>8. CASE ill
  <2>1. CASE UNCHANGED riVars
    BY <1>7, <2>1
  <2>2. CASE RiNext
    <3>1. ill'
      BY <1>8, <2>2 DEF RiNext, BlockBegin, BlockEnd, PopMode, WorldBegin, WorldEnd, WorldEndThrows,
           Display, Attribute, AttributeThrows, Transform, Primitive, Insert, EmptyStack, DeletedDisplay,
           StaleFramework, Undefined, stacks
    <3>. QED  BY <1>1, <3>1
  <2>. QED  BY <2>1, <2>2
<1>9. CASE RiNext /\ ~ill
  <2>. USE <1>9
  <2>0. /\ \A k \in Kinds : Len(stack[k]) >= 1 /\ stack[k] # <<>> /\ stack[k] \in Seq(Value(k))
        /\ Top(modes) = "WORLD" => Len(stack["opts"]) > 1
        /\ ub = "no"
    BY NoneEmpty DEF RiTypeOK, RiNext
  <2>1. ASSUME NEW m \in Blocks \ {"WORLD"}, BlockBegin(m) PROVE Goal
    BY <1>2, <2>0, <2>1, BeginOpens, BlockModes DEF BlockBegin
  <2>2. ASSUME NEW m \in Blocks \ {"WORLD"}, BlockEnd(m) PROVE Goal
    <3>1. CASE Top(modes) = m
      BY <1>3, <2>0, <2>2, <3>1, EndCloses, BlockModes DEF BlockEnd
    <3>2. CASE Top(modes) # m
      BY <1>1, <2>2, <3>2 DEF BlockEnd, PopMode
    <3>. QED  BY <3>1, <3>2
  <2>3. CASE WorldBegin
    <3>1. "WORLD" \in Modes
      BY DEF Modes
    <3>. QED  BY <1>2, <2>0, <2>3, <3>1, WorldOpens
  <2>4. CASE WorldEnd
    <3>1. CASE Top(modes) = "WORLD"
      BY <1>3, <2>0, <2>4, <3>1, WorldCloses DEF WorldEnd
    <3>2. CASE Top(modes) # "WORLD"
      BY <1>1, <2>4, <3>2 DEF WorldEnd, PopMode
    <3>. QED  BY <3>1, <3>2
  <2>5. CASE WorldEndThrows
    BY <1>5, <2>0, <2>5 DEF WorldEndThrows, stacks
  <2>6. ASSUME NEW append \in BOOLEAN, NEW d \in Displays, Display(append, d) PROVE Goal
    <3>. DEFINE old == Top(stack["opts"])
                new == IF append THEN old \cup {d} ELSE {d}
    <3>1. "opts" \in Kinds /\ old \in Value("opts")
      BY <2>0, TopFacts DEF Kinds
    <3>2. new \in Value("opts")
      BY <3>1 DEF Value
    <3>3. /\ modes' = modes /\ saved' = saved /\ ill' = ill /\ ub' = ub
          /\ stack' = [stack EXCEPT !["opts"] = SetTop(@, new)]
      BY <2>6 DEF Display
    <3>. QED  BY <1>6, <2>0, <3>1, <3>2, <3>3
  <2>7. ASSUME NEW v \in Vals, Attribute(v) \/ AttributeThrows(v) PROVE Goal
    <3>1. "attr" \in Kinds /\ v \in Value("attr")
      BY DEF Kinds, Value
    <3>2. /\ modes' = modes /\ saved' = saved /\ ill' = ill /\ ub' = ub
          /\ stack' = [stack EXCEPT !["attr"] = SetTop(@, v)]
      BY <2>7 DEF Attribute, AttributeThrows, SetValue
    <3>. QED  BY <1>6, <2>0, <3>1, <3>2
  <2>8. ASSUME NEW v \in Vals, Transform(v) PROVE Goal
    <3>1. "xform" \in Kinds /\ v \in Value("xform")
      BY DEF Kinds, Value
    <3>2. /\ modes' = modes /\ saved' = saved /\ ill' = ill /\ ub' = ub
          /\ stack' = [stack EXCEPT !["xform"] = SetTop(@, v)]
      BY <2>8 DEF Transform, SetValue
    <3>. QED  BY <1>6, <2>0, <3>1, <3>2
  <2>9. CASE Primitive
    BY <1>5, <2>0, <2>9 DEF Primitive, Insert, stacks
  <2>10. CASE EmptyStack
    <3>1. ASSUME Top(modes) = "WORLD" PROVE Len(stack["opts"]) # 1
      <4>1. Len(stack["opts"]) > 1
        BY <2>0, <3>1
      <4>2. Len(stack["opts"]) \in Nat
        BY DepthTypes DEF Kinds
      <4>3. \A n \in Nat : n > 1 => n # 1
        OBVIOUS
      <4>. QED  BY <4>1, <4>2, <4>3
    <3>. QED  BY <2>0, <2>10, <3>1 DEF EmptyStack, HasTop
  <2>11. CASE DeletedDisplay \/ StaleFramework
    BY <1>5, <2>11 DEF DeletedDisplay, StaleFramework, Undefined, stacks
  <2>. QED  BY <2>1, <2>2, <2>3, <2>4, <2>5, <2>6, <2>7, <2>8, <2>9, <2>10, <2>11 DEF RiNext
<1>. QED  BY <1>7, <1>8, <1>9

\* Initially there is one level for Begin, and every step keeps the invariant.
LEMMA StackInvariant == RiSpec => [](WellStacked /\ StackInv)
<1>1. RiInit => WellStacked /\ StackInv
  <2>. SUFFICES ASSUME RiInit PROVE WellStacked /\ StackInv
    OBVIOUS
  <2>1. /\ Len(saved) = 1 /\ saved # <<>> /\ ub = "no" /\ modes[2] = "BASE"
        /\ \A k \in Kinds : Len(stack[k]) = 1 /\ saved[1].depth[k] = 1
    BY DEF RiInit, Snapshot
  <2>2. \A k \in Kinds : Above(k, "BASE") = 0 /\ k \notin Saves("BASE")
    BY DEF Above, Saves
  <2>3. \A i \in 1..Len(saved) : i = 1
    BY <2>1
  <2>4. WellStacked
    <3>1. ASSUME NEW k \in Kinds, NEW i \in 1..Len(saved)
          PROVE  i = Len(saved) /\ Len(stack[k]) = saved[i].depth[k] + Above(k, modes[i + 1])
      <4>1. i = 1 /\ i + 1 = 2
        BY <2>3
      <4>2. saved[i].depth[k] = 1 /\ modes[i + 1] = "BASE" /\ Len(stack[k]) = 1 /\ i = Len(saved)
        BY <2>1, <4>1
      <4>3. Above(k, "BASE") = 0 /\ 1 = 1 + 0
        BY <2>2
      <4>. QED  BY <4>2, <4>3
    <3>. QED  BY <2>1, <3>1 DEF WellStacked
  <2>5. StackInv
    BY <2>1, <2>2, <2>3 DEF StackInv
  <2>. QED  BY <2>4, <2>5
<1>2. RiTypeOK /\ RiTypeOK' /\ WellStacked /\ StackInv /\ [RiNext]_riVars => WellStacked' /\ StackInv'
  BY StackStep
<1>. QED  BY <1>1, <1>2, TypeCorrect, PTL DEF RiSpec

(* While every End has matched, each stack is as deep as the open blocks   *)
(* say and no command meets an empty one (pushStacks, popStacks, popMode). *)
THEOREM StacksAgree == RiSpec => []WellStacked
BY StackInvariant, PTL

(* The End of a block that matches restores the attributes and transforms  *)
(* that were current when the block began (AttributeEnd and the others).   *)
THEOREM BlocksRestore == RiSpec => Restores
<1>1. /\ RiTypeOK /\ RiTypeOK' /\ WellStacked /\ StackInv /\ [RiNext]_riVars
      => [\A k \in Shared :
           (~ill' /\ Len(modes') < Len(modes) /\ Listed(k, Top(modes)))
               => Top(stack'[k]) = Top(saved).top[k]]_riVars
  BY StackStep DEF Restored
<1>. QED  BY <1>1, TypeCorrect, StackInvariant, PTL DEF RiSpec, Restores

----------------------------------------------------------------------------
(* What primitives share.                                                  *)

\* Of kind k: the last copy is current unless a revision or a block says otherwise.
Copied(k) ==
    /\ seen[k] <= rev[k]
    /\ (seen[k] = rev[k] /\ ~restored[k]) =>
          /\ uniq[k] # <<>>
          /\ stack[k] # <<>> => Top(uniq[k]) = Top(stack[k])

\* A kind whose copies and whose current value a step leaves alone.
LEMMA CopiedSame ==
    ASSUME NEW k \in Shared, Copied(k), seen'[k] = seen[k], rev'[k] = rev[k],
           uniq'[k] = uniq[k], restored'[k] = restored[k],
           \/ stack'[k] = stack[k]
           \/ stack[k] # <<>> /\ Top(stack'[k]) = Top(stack[k])
    PROVE  Copied(k)'
BY DEF Copied

\* Restoring gives up on a kind that has no new revision.
LEMMA CopiedRestoring ==
    ASSUME NEW k \in Shared, Copied(k), NEW K, k \in K, Restoring(K),
           seen' = seen, rev' = rev
    PROVE  Copied(k)'
BY DEF Copied, Restoring

\* A new revision makes the copy stale.
LEMMA CopiedBumped ==
    ASSUME RiTypeOK, NEW k \in Shared, Copied(k), seen' = seen, rev' = [rev EXCEPT ![k] = @ + 1]
    PROVE  Copied(k)'
<1>1. rev[k] \in Nat /\ seen[k] \in Int /\ rev'[k] = rev[k] + 1 /\ seen'[k] = seen[k]
  BY DEF RiTypeOK
<1>2. seen'[k] <= rev'[k] /\ seen'[k] # rev'[k]
  BY <1>1 DEF Copied
<1>. QED  BY <1>2 DEF Copied

\* Every step keeps the last copy current.
LEMMA CopyStep ==
    ASSUME RiTypeOK, CopyCurrent, [RiNext]_riVars
    PROVE  CopyCurrent'
<1>. SUFFICES ASSUME NEW k \in Shared PROVE Copied(k)'
  BY DEF CopyCurrent, Copied
<1>0. Copied(k) /\ k \in Kinds /\ stack[k] \in Seq(Value(k)) /\ DOMAIN stack = Kinds
  BY DEF CopyCurrent, Copied, RiTypeOK, Shared, Kinds
<1>1. ASSUME NEW m \in Blocks \ {"WORLD"}, BlockBegin(m) PROVE Copied(k)'
  <2>1. CASE k \in Saves(m)
    <3>1. stack'[k] = Append(stack[k], Top(stack[k])) /\ stack[k] # <<>>
      BY <1>0, <1>1, <2>1 DEF BlockBegin, Pushed, HasTop
    <3>2. Top(stack'[k]) = Top(stack[k])
      BY <1>0, <3>1 DEF Top
    <3>. QED  BY <1>0, <1>1, <3>1, <3>2, CopiedSame DEF BlockBegin, shared
  <2>2. CASE k \notin Saves(m)
    BY <1>0, <1>1, <2>2, CopiedSame DEF BlockBegin, Pushed, shared
  <2>. QED  BY <2>1, <2>2
<1>2. ASSUME NEW m \in Blocks \ {"WORLD"}, BlockEnd(m) PROVE Copied(k)'
  <2>1. CASE k \in Saves(m)
    BY <1>0, <1>2, <2>1, CopiedRestoring DEF BlockEnd
  <2>2. CASE k \notin Saves(m)
    <3>1. stack'[k] = stack[k] /\ restored'[k] = restored[k]
      BY <1>0, <1>2, <2>2 DEF BlockEnd, Popped, Restoring, RiTypeOK
    <3>. QED  BY <1>0, <1>2, <3>1, CopiedSame DEF BlockEnd
  <2>. QED  BY <2>1, <2>2
<1>3. CASE WorldBegin
  <2>1. CASE k = "attr"
    <3>1. stack'[k] = Append(stack[k], Top(stack[k])) /\ stack[k] # <<>>
      BY <1>0, <1>3, <2>1 DEF WorldBegin, HasTop, Kinds
    <3>2. Top(stack'[k]) = Top(stack[k])
      BY <1>0, <3>1 DEF Top
    <3>3. rev'[k] = rev[k]
      BY <1>3, <2>1 DEF WorldBegin, RiTypeOK
    <3>. QED  BY <1>0, <1>3, <3>1, <3>2, <3>3, CopiedSame DEF WorldBegin
  <2>2. CASE k = "xform"
    BY <1>0, <1>3, <2>2, CopiedBumped DEF WorldBegin
  <2>. QED  BY <2>1, <2>2 DEF Shared
<1>4. CASE WorldEnd
  BY <1>0, <1>4, CopiedRestoring DEF WorldEnd
<1>5. CASE WorldEndThrows
  BY <1>0, <1>5, CopiedSame DEF WorldEndThrows, stacks
<1>6. ASSUME NEW append \in BOOLEAN, NEW d \in Displays, Display(append, d) PROVE Copied(k)'
  <2>1. stack'[k] = stack[k]
    BY <1>0, <1>6 DEF Display, Shared
  <2>. QED  BY <1>0, <1>6, <2>1, CopiedSame DEF Display, shared
<1>7. ASSUME NEW v \in Vals, Attribute(v) PROVE Copied(k)'
  <2>1. CASE k = "attr"
    BY <1>0, <1>7, <2>1, CopiedBumped DEF Attribute, SetValue
  <2>2. CASE k # "attr"
    <3>1. stack'[k] = stack[k] /\ rev'[k] = rev[k]
      BY <1>0, <1>7, <2>2 DEF Attribute, SetValue, RiTypeOK
    <3>. QED  BY <1>0, <1>7, <3>1, CopiedSame DEF Attribute
  <2>. QED  BY <2>1, <2>2
<1>8. ASSUME NEW v \in Vals, AttributeThrows(v) PROVE Copied(k)'
  <2>1. CASE k = "attr"
    <3>1. k \in {"attr"} /\ Restoring({"attr"}) /\ seen' = seen /\ rev' = rev
      BY <1>8, <2>1 DEF AttributeThrows
    <3>. QED  BY <1>0, <3>1, CopiedRestoring
  <2>2. CASE k # "attr"
    <3>1. stack'[k] = stack[k] /\ restored'[k] = restored[k]
      BY <1>0, <1>8, <2>2 DEF AttributeThrows, Restoring, RiTypeOK
    <3>. QED  BY <1>0, <1>8, <3>1, CopiedSame DEF AttributeThrows
  <2>. QED  BY <2>1, <2>2
<1>9. ASSUME NEW v \in Vals, Transform(v) PROVE Copied(k)'
  <2>1. CASE k = "xform"
    BY <1>0, <1>9, <2>1, CopiedBumped DEF Transform, SetValue
  <2>2. CASE k # "xform"
    <3>1. stack'[k] = stack[k] /\ rev'[k] = rev[k]
      BY <1>0, <1>9, <2>2 DEF Transform, SetValue, RiTypeOK
    <3>. QED  BY <1>0, <1>9, <3>1, CopiedSame DEF Transform
  <2>. QED  BY <2>1, <2>2
<1>10. CASE Primitive
  <2>1. seen' = rev /\ rev' = rev /\ stack' = stack /\ rev[k] \in Nat
    BY <1>10 DEF Primitive, Insert, stacks, RiTypeOK
  <2>2. seen'[k] <= rev'[k]
    BY <2>1
  <2>3. CASE Syncs(k)
    <3>1. uniq'[k] = Append(uniq[k], Top(stack[k])) /\ uniq[k] \in Seq(Vals)
      BY <1>10, <2>3 DEF Primitive, Insert, RiTypeOK
    <3>2. uniq'[k] # <<>> /\ Top(uniq'[k]) = Top(stack[k])
      BY <3>1 DEF Top
    <3>. QED  BY <2>1, <2>2, <3>2 DEF Copied
  <2>4. CASE ~Syncs(k)
    <3>1. uniq'[k] = uniq[k] /\ restored'[k] = restored[k] /\ seen'[k] = seen[k]
      BY <1>10, <2>1, <2>4 DEF Primitive, Insert, Syncs, RiTypeOK
    <3>. QED  BY <1>0, <2>1, <3>1, CopiedSame
  <2>. QED  BY <2>3, <2>4
<1>11. CASE EmptyStack \/ DeletedDisplay \/ StaleFramework
  BY <1>0, <1>11, CopiedSame DEF EmptyStack, DeletedDisplay, StaleFramework, Undefined, stacks, shared
<1>12. CASE UNCHANGED riVars
  BY <1>0, <1>12, CopiedSame DEF riVars, stacks, shared
<1>. QED
  BY <1>1, <1>2, <1>3, <1>4, <1>5, <1>6, <1>7, <1>8, <1>9, <1>10, <1>11, <1>12 DEF RiNext

\* A step that adds no primitive and deletes no copy keeps the sharing.
LEMMA SharingSame ==
    ASSUME PrimsShare, prims' \cup kept' = prims \cup kept, uniq' = uniq
    PROVE  PrimsShare'
BY DEF PrimsShare

\* Framework::Insert keeps the sharing of the others and adds a primitive that shares.
LEMMA InsertShares ==
    ASSUME RiTypeOK, RiTypeOK', CopyCurrent, PrimsShare, Primitive
    PROVE  PrimsShare'
<1>. DEFINE new == [at |-> [k \in Shared |-> Len(uniq'[k])],
                    meant |-> [k \in Shared |-> Top(stack[k])],
                    sure |-> [k \in Shared |-> ~restored'[k]]]
<1>1. prims' = prims \cup {new} /\ kept' = kept
  BY DEF Primitive, Insert
<1>2. ASSUME NEW k \in Shared
      PROVE  /\ Len(uniq[k]) \in Nat /\ Len(uniq'[k]) \in Nat /\ Len(uniq[k]) <= Len(uniq'[k])
             /\ \A i \in 1..Len(uniq[k]) : uniq'[k][i] = uniq[k][i]
  <2>1. uniq[k] \in Seq(Vals) /\ Len(uniq[k]) \in Nat
    BY DEF RiTypeOK
  <2>2. CASE Syncs(k)
    <3>1. uniq'[k] = Append(uniq[k], Top(stack[k]))
      BY <2>2 DEF Primitive, Insert
    <3>2. /\ Len(uniq'[k]) = Len(uniq[k]) + 1
          /\ \A i \in 1..Len(uniq[k]) : uniq'[k][i] = uniq[k][i]
      BY <2>1, <3>1
    <3>. QED  BY <2>1, <3>2
  <2>3. CASE ~Syncs(k)
    BY <2>1, <2>3 DEF Primitive, Insert
  <2>. QED  BY <2>2, <2>3
<1>3. ASSUME NEW k \in Shared, ~restored'[k]
      PROVE  uniq'[k] # <<>> /\ Top(uniq'[k]) = Top(stack[k])
  <2>1. uniq[k] \in Seq(Vals) /\ stack[k] # <<>>
    BY DEF RiTypeOK, Primitive, Insert, HasTop
  <2>2. CASE Syncs(k)
    <3>1. uniq'[k] = Append(uniq[k], Top(stack[k]))
      BY <2>2 DEF Primitive, Insert
    <3>. QED  BY <2>1, <3>1 DEF Top
  <2>3. CASE ~Syncs(k)
    <3>1. uniq'[k] = uniq[k] /\ ~restored[k] /\ seen[k] = rev[k]
      BY <1>3, <2>3 DEF Primitive, Insert, Syncs
    <3>. QED  BY <2>1, <3>1 DEF CopyCurrent
  <2>. QED  BY <2>2, <2>3
<1>4. ASSUME NEW k \in Shared, new.sure[k]
      PROVE  new.at[k] \in 1..Len(uniq'[k]) /\ uniq'[k][new.at[k]] = new.meant[k]
  <2>1. uniq'[k] # <<>> /\ Top(uniq'[k]) = Top(stack[k])
    BY <1>3, <1>4
  <2>2. uniq'[k] \in Seq(Vals)
    BY DEF RiTypeOK
  <2>3. Len(uniq'[k]) \in 1..Len(uniq'[k])
    BY <2>1, <2>2
  <2>. QED  BY <2>1, <2>3 DEF Top
<1>5. ASSUME NEW p \in prims \cup kept, NEW k \in Shared, p.sure[k]
      PROVE  p.at[k] \in 1..Len(uniq'[k]) /\ uniq'[k][p.at[k]] = p.meant[k]
  <2>1. p.at[k] \in 1..Len(uniq[k]) /\ uniq[k][p.at[k]] = p.meant[k]
    BY <1>5 DEF PrimsShare
  <2>. QED  BY <1>2, <2>1
<1>. HIDE DEF new
<1>. QED  BY <1>1, <1>4, <1>5 DEF PrimsShare

\* Every step keeps the sharing.
LEMMA SharingStep ==
    ASSUME RiTypeOK, CopyCurrent, PrimsShare, [RiNext]_riVars
    PROVE  PrimsShare'
<1>1. CASE Primitive
  BY <1>1, TypeStep, InsertShares
<1>2. CASE WorldEnd
  BY <1>2 DEF WorldEnd, ReleaseWorld, PrimsShare
<1>3. CASE WorldEndThrows
  BY <1>3, SharingSame DEF WorldEndThrows
<1>4. ASSUME NEW m, BlockBegin(m) \/ BlockEnd(m) PROVE PrimsShare'
  BY <1>4, SharingSame DEF BlockBegin, BlockEnd, shared
<1>5. CASE WorldBegin
  BY <1>5, SharingSame DEF WorldBegin
<1>6. ASSUME NEW append, NEW d, Display(append, d) PROVE PrimsShare'
  BY <1>6, SharingSame DEF Display, shared
<1>7. ASSUME NEW v, Attribute(v) \/ AttributeThrows(v) \/ Transform(v) PROVE PrimsShare'
  BY <1>7, SharingSame DEF Attribute, AttributeThrows, Transform
<1>8. CASE EmptyStack \/ DeletedDisplay \/ StaleFramework \/ UNCHANGED riVars
  BY <1>8, SharingSame DEF EmptyStack, DeletedDisplay, StaleFramework, Undefined, riVars, shared
<1>. QED  BY <1>1, <1>2, <1>3, <1>4, <1>5, <1>6, <1>7, <1>8 DEF RiNext

(* A primitive has the attributes and the transform that were current when *)
(* Framework::Insert took it, and keeps them until the world is over,      *)
(* unless a block ended or a command failed without a new revision.        *)
THEOREM StatesShared == RiSpec => []PrimsShare
<1>1. RiInit => CopyCurrent /\ PrimsShare
  BY DEF RiInit, CopyCurrent, PrimsShare, Shared
<1>2. RiTypeOK /\ CopyCurrent /\ PrimsShare /\ [RiNext]_riVars => CopyCurrent' /\ PrimsShare'
  BY CopyStep, SharingStep
<1>. QED  BY <1>1, <1>2, TypeCorrect, PTL DEF RiSpec

----------------------------------------------------------------------------
(* Who may delete displays.                                                *)

\* Options o list live displays only, each made at their depth or below.
Owns(o, L, w) ==
    \A i \in 1..Len(o) : o[i] \subseteq L /\ \A d \in o[i] : w[d] <= i

\* The two invariants in one.
LEMMA OwnsParts ==
    OwnedDisplays /\ MadeBelow <=>
        (~crossed => ub # "display" /\ Owns(stack["opts"], live, owner))
BY DEF OwnedDisplays, MadeBelow, Owns

\* push_back of a copy of the current options.
LEMMA OwnsPush ==
    ASSUME NEW o \in Seq(SUBSET Displays), o # <<>>, NEW L, NEW w \in [Displays -> Nat], Owns(o, L, w)
    PROVE  Owns(Append(o, Top(o)), L, w)
<1>. DEFINE n == Len(o)
            a == Append(o, Top(o))
<1>1. n \in Nat \ {0} /\ Top(o) \in SUBSET Displays /\ Top(o) = o[n]
  BY TopFacts DEF Top
<1>2. Len(a) = n + 1 /\ a[n + 1] = o[n] /\ \A i \in 1..n : a[i] = o[i]
  BY <1>1, AppendFacts
<1>. SUFFICES ASSUME NEW i \in 1..(n + 1) PROVE a[i] \subseteq L /\ \A d \in a[i] : w[d] <= i
  BY <1>2 DEF Owns
<1>3. CASE i = n + 1
  <2>1. a[i] = o[n] /\ n \in 1..n /\ n <= i
    BY <1>1, <1>2, <1>3
  <2>2. ASSUME NEW d \in o[n] PROVE w[d] <= n /\ w[d] \in Nat
    BY <1>1, <2>1 DEF Owns
  <2>. QED  BY <1>1, <2>1, <2>2 DEF Owns
<1>4. CASE i # n + 1
  <2>1. i \in 1..n /\ a[i] = o[i]
    BY <1>1, <1>2, <1>4
  <2>. QED  BY <2>1 DEF Owns
<1>. QED  BY <1>3, <1>4

\* pop_back of the options.
LEMMA OwnsPop ==
    ASSUME NEW o \in Seq(SUBSET Displays), o # <<>>, NEW L, NEW w, Owns(o, L, w)
    PROVE  Owns(Pop(o), L, w)
BY PopFacts DEF Owns

\* Displays D of this depth are deleted and a new one, d, is listed by the current options.
LEMMA OwnsNew ==
    ASSUME NEW o \in Seq(SUBSET Displays), o # <<>>, NEW L, NEW w \in [Displays -> Nat], Owns(o, L, w),
           NEW D \in SUBSET Displays, \A e \in D : w[e] = Len(o),
           NEW d \in Displays, d \notin L \ D,
           NEW v \in SUBSET Displays, v \subseteq (L \ D) \cup {d}, v \ {d} \subseteq Top(o)
    PROVE  Owns(SetTop(o, v), (L \ D) \cup {d}, [w EXCEPT ![d] = Len(o)])
<1>. DEFINE n == Len(o)
            s == SetTop(o, v)
            x == [w EXCEPT ![d] = n]
<1>1. n \in Nat \ {0} /\ Len(s) = n /\ s[n] = v /\ \A i \in 1..(n - 1) : s[i] = o[i]
  <2>. DEFINE S == SUBSET Displays
  <2>1. o \in Seq(S) /\ v \in S
    OBVIOUS
  <2>. HIDE DEF S
  <2>. QED  BY <2>1, SetTopFacts
<1>2. \A e \in Displays : x[e] = (IF e = d THEN n ELSE w[e]) /\ x[e] \in Nat /\ w[e] \in Nat
  BY <1>1
<1>. HIDE DEF x, s
<1>. SUFFICES ASSUME NEW i \in 1..n
              PROVE  s[i] \subseteq (L \ D) \cup {d} /\ \A e \in s[i] : x[e] <= i
  BY <1>1 DEF Owns, x, s
<1>3. CASE i = n
  <2>1. s[i] = v /\ n \in 1..n
    BY <1>1, <1>3
  <2>2. ASSUME NEW e \in v PROVE x[e] <= n
    <3>1. e \in Displays
      OBVIOUS
    <3>2. CASE e = d
      BY <1>1, <1>2, <3>1, <3>2
    <3>3. CASE e # d
      <4>1. e \in o[n]
        BY <3>3 DEF Top
      <4>. QED  BY <1>2, <2>1, <3>1, <3>3, <4>1 DEF Owns
    <3>. QED  BY <3>2, <3>3
  <2>. QED  BY <1>3, <2>1, <2>2
<1>4. CASE i # n
  <2>1. i \in 1..(n - 1) /\ s[i] = o[i] /\ i < n
    BY <1>1, <1>4
  <2>2. ASSUME NEW e \in o[i] PROVE e \in L \ D /\ e # d /\ x[e] <= i
    <3>1. e \in L /\ w[e] <= i /\ e \in Displays
      BY <2>1 DEF Owns
    <3>2. w[e] # n
      BY <1>1, <1>2, <2>1, <3>1
    <3>3. e \notin D
      BY <3>2
    <3>. QED  BY <1>2, <3>1, <3>3
  <2>. QED  BY <2>1, <2>2
<1>. QED  BY <1>3, <1>4

\* FreeDisplays of options whose displays were all made at their depth.
LEMMA OwnsFree ==
    ASSUME NEW o \in Seq(SUBSET Displays), o # <<>>, NEW L, NEW w \in [Displays -> Nat], Owns(o, L, w),
           \A e \in Top(o) : w[e] = Len(o)
    PROVE  Owns(SetTop(o, {}), L \ Top(o), w)
<1>. DEFINE n == Len(o)
            s == SetTop(o, {})
<1>1. n \in Nat \ {0} /\ Len(s) = n /\ s[n] = {} /\ \A i \in 1..(n - 1) : s[i] = o[i]
  <2>. DEFINE S == SUBSET Displays
              v == {}
  <2>1. o \in Seq(S) /\ v \in S /\ o # <<>>
    OBVIOUS
  <2>. HIDE DEF S, v
  <2>2. n \in Nat \ {0} /\ Len(SetTop(o, v)) = n /\ SetTop(o, v)[n] = v
        /\ \A i \in 1..(n - 1) : SetTop(o, v)[i] = o[i]
    BY <2>1, SetTopFacts
  <2>. QED  BY <2>2 DEF v
<1>. HIDE DEF s
<1>. SUFFICES ASSUME NEW i \in 1..n
              PROVE  s[i] \subseteq L \ Top(o) /\ \A e \in s[i] : w[e] <= i
  BY <1>1 DEF Owns, s
<1>2. CASE i = n
  BY <1>1, <1>2
<1>3. CASE i # n
  <2>1. i \in 1..(n - 1) /\ s[i] = o[i] /\ i < n
    BY <1>1, <1>3
  <2>2. ASSUME NEW e \in o[i] PROVE e \in L \ Top(o) /\ w[e] <= i
    <3>1. e \in L /\ w[e] <= i /\ w[e] \in Nat
      BY <2>1 DEF Owns
    <3>2. w[e] # n
      BY <1>1, <2>1, <3>1
    <3>. QED  BY <3>1, <3>2
  <2>. QED  BY <2>1, <2>2
<1>. QED  BY <1>2, <1>3

\* NewDisplay, in a step that puts v on top of the options.
LEMMA NewDisplayOwns ==
    ASSUME RiTypeOK, NEW D \in SUBSET Displays, NEW d \in Displays, NewDisplay(D, d), ~crossed',
           stack["opts"] # <<>>, Owns(stack["opts"], live, owner),
           NEW v \in SUBSET Displays, v \subseteq (live \ D) \cup {d}, v \ {d} \subseteq Top(stack["opts"])
    PROVE  Owns(SetTop(stack["opts"], v), live', owner')
<1>1. stack["opts"] \in Seq(SUBSET Displays) /\ owner \in [Displays -> Nat]
  BY DEF RiTypeOK, Kinds, Value
<1>2. /\ \A e \in D : owner[e] = Len(stack["opts"])
      /\ d \notin live \ D
      /\ live' = (live \ D) \cup {d}
      /\ owner' = [owner EXCEPT ![d] = Len(stack["opts"])]
  BY DEF NewDisplay
<1>. QED  BY <1>1, <1>2, OwnsNew

\* Every step keeps the ownership of displays.
LEMMA DisplayStep ==
    ASSUME RiTypeOK, OwnedDisplays, MadeBelow, [RiNext]_riVars
    PROVE  OwnedDisplays' /\ MadeBelow'
<1>. DEFINE opts == stack["opts"]
            Goal == (~crossed => ub # "display" /\ Owns(stack["opts"], live, owner))'
<1>. SUFFICES Goal
  BY DEF OwnedDisplays, MadeBelow, Owns
<1>0. opts \in Seq(SUBSET Displays) /\ owner \in [Displays -> Nat] /\ DOMAIN stack = Kinds
      /\ "opts" \in Kinds
  BY DEF RiTypeOK, Kinds, Value
<1>1. ~crossed => ub # "display" /\ Owns(opts, live, owner)
  BY OwnsParts
<1>2. ASSUME stack'["opts"] = opts, UNCHANGED <<live, owner, crossed>>,
             ub' = ub \/ ub' # "display"
      PROVE  Goal
  BY <1>1, <1>2
<1>3. ASSUME NEW m \in Blocks \ {"WORLD"}, BlockBegin(m) PROVE Goal
  <2>1. UNCHANGED <<live, owner, crossed, ub>>
    BY <1>3 DEF BlockBegin, display
  <2>2. CASE "opts" \in Saves(m)
    <3>1. opts # <<>> /\ stack'["opts"] = Append(opts, Top(opts))
      BY <1>0, <1>3, <2>2 DEF BlockBegin, Pushed, HasTop
    <3>. QED  BY <1>0, <1>1, <2>1, <3>1, OwnsPush
  <2>3. CASE "opts" \notin Saves(m)
    <3>1. stack'["opts"] = opts
      BY <1>0, <1>3, <2>3 DEF BlockBegin, Pushed
    <3>. QED  BY <1>2, <2>1, <3>1
  <2>. QED  BY <2>2, <2>3
<1>4. ASSUME NEW m \in Blocks \ {"WORLD"}, BlockEnd(m) PROVE Goal
  <2>1. UNCHANGED <<live, owner, crossed, ub>>
    BY <1>4 DEF BlockEnd, display
  <2>2. CASE "opts" \in Saves(m)
    <3>1. opts # <<>> /\ stack'["opts"] = Pop(opts)
      BY <1>0, <1>4, <2>2 DEF BlockEnd, Popped, HasTop
    <3>. QED  BY <1>0, <1>1, <2>1, <3>1, OwnsPop
  <2>3. CASE "opts" \notin Saves(m)
    <3>1. stack'["opts"] = opts
      BY <1>0, <1>4, <2>3 DEF BlockEnd, Popped
    <3>. QED  BY <1>2, <2>1, <3>1
  <2>. QED  BY <2>2, <2>3
<1>5. CASE WorldBegin
  <2>1. PICK add \in SUBSET Displays :
          /\ IF Top(opts) = {} /\ FallBack
             THEN \E d \in Displays : add = {d} /\ NewDisplay({}, d)
             ELSE add = {} /\ UNCHANGED <<live, owner, crossed>>
          /\ stack' = [k \in Kinds |->
                          CASE k = "opts"  -> Append(SetTop(opts, Top(opts) \cup add),
                                                     Top(SetTop(opts, Top(opts) \cup add)))
                            [] k = "attr"  -> Append(stack[k], Top(stack[k]))
                            [] k = "xform" -> Append(stack[k], Identity)]
    BY <1>5 DEF WorldBegin
  <2>. DEFINE v == Top(opts) \cup add
              o == SetTop(opts, v)
  <2>2. opts # <<>> /\ ub' = ub /\ stack'["opts"] = Append(o, Top(o))
    BY <1>0, <1>5, <2>1 DEF WorldBegin, HasTop
  <2>3. Top(opts) \in SUBSET Displays /\ v \in SUBSET Displays
    BY <1>0, <2>2, TopFacts
  <2>4. o \in Seq(SUBSET Displays) /\ o # <<>>
    <3>. DEFINE S == SUBSET Displays
    <3>1. opts \in Seq(S) /\ v \in S /\ opts # <<>>
      BY <1>0, <2>2, <2>3
    <3>. HIDE DEF S, v, opts
    <3>2. SetTop(opts, v) \in Seq(S) /\ SetTop(opts, v) # <<>>
      BY <3>1, SetTopFacts
    <3>. QED  BY <3>2 DEF S
  <2>. HIDE DEF v
  <2>5. ASSUME ~crossed' PROVE Owns(o, live', owner') /\ ub' # "display"
    <3>1. ~crossed /\ Owns(opts, live, owner) /\ ub' # "display"
      BY <1>1, <2>1, <2>2, <2>5 DEF NewDisplay
    <3>2. Top(opts) \subseteq live
      BY <1>0, <2>2, <3>1 DEF Owns, Top
    <3>3. CASE Top(opts) = {} /\ FallBack
      <4>1. PICK d \in Displays : add = {d} /\ NewDisplay({}, d)
        BY <2>1, <3>3
      <4>2. v \subseteq (live \ {}) \cup {d} /\ v \ {d} \subseteq Top(opts)
        BY <3>3, <4>1 DEF v
      <4>. QED  BY <2>2, <2>3, <2>5, <3>1, <4>1, <4>2, NewDisplayOwns
    <3>4. CASE ~(Top(opts) = {} /\ FallBack)
      <4>1. add = {} /\ UNCHANGED <<live, owner, crossed>>
        BY <2>1, <3>4
      <4>2. v = Top(opts)
        BY <4>1 DEF v
      <4>3. o = opts
        BY <1>0, <2>2, <4>2 DEF SetTop, Top
      <4>. QED  BY <3>1, <4>1, <4>3
    <3>. QED  BY <3>3, <3>4
  <2>6. owner' \in [Displays -> Nat]
    BY TypeStep DEF RiTypeOK
  <2>. HIDE DEF o
  <2>. QED  BY <2>2, <2>4, <2>5, <2>6, OwnsPush
<1>6. CASE WorldEnd
  <2>1. opts # <<>> /\ Popped("WORLD")["opts"] = Pop(opts) /\ owner' = owner /\ ub' = ub
    BY <1>0, <1>6 DEF WorldEnd, HasTop, Popped, Saves
  <2>2. CASE Top(modes) # "WORLD"
    BY <1>0, <1>1, <1>6, <2>1, <2>2, OwnsPop DEF WorldEnd
  <2>3. CASE Top(modes) = "WORLD"
    <3>. DEFINE o == Pop(opts)
    <3>1. /\ o # <<>> /\ live' = live \ Top(o)
          /\ crossed' = (crossed \/ \E d \in Top(o) : owner[d] # Len(o))
          /\ stack' = [Popped("WORLD") EXCEPT !["opts"] = SetTop(@, {})]
      BY <1>6, <2>1, <2>3 DEF WorldEnd, FreeDisplays
    <3>2. stack'["opts"] = SetTop(o, {})
      BY <1>0, <2>1, <3>1 DEF Popped
    <3>3. o \in Seq(SUBSET Displays)
      BY <1>0, <2>1, PopFacts
    <3>4. ASSUME ~crossed'
          PROVE  ub # "display" /\ Owns(o, live, owner) /\ \A d \in Top(o) : owner[d] = Len(o)
      BY <1>0, <1>1, <2>1, <3>1, <3>4, OwnsPop
    <3>. HIDE DEF o
    <3>. QED  BY <1>0, <2>1, <3>1, <3>2, <3>3, <3>4, OwnsFree
  <2>. QED  BY <2>2, <2>3
<1>7. CASE WorldEndThrows
  <2>1. crossed' = (crossed \/ fwDisp # {}) /\ live' = live \ fwDisp /\ stack' = stack
        /\ owner' = owner /\ ub' = ub
    BY <1>7 DEF WorldEndThrows, stacks
  <2>2. ASSUME ~crossed' PROVE ~crossed /\ live' = live
    BY <2>1, <2>2
  <2>. QED  BY <1>1, <2>1, <2>2
<1>8. ASSUME NEW append \in BOOLEAN, NEW d \in Displays, Display(append, d) PROVE Goal
  <2>. DEFINE old == Top(opts)
              v == IF append THEN old \cup {d} ELSE {d}
              D == IF append THEN {} ELSE old
  <2>1. /\ opts # <<>> /\ NewDisplay(D, d) /\ ub' = ub
        /\ stack' = [stack EXCEPT !["opts"] = SetTop(@, v)]
    BY <1>0, <1>8 DEF Display, HasTop
  <2>2. stack'["opts"] = SetTop(opts, v)
    BY <1>0, <2>1
  <2>3. old \in SUBSET Displays
    BY <1>0, <2>1, TopFacts
  <2>4. ASSUME ~crossed' PROVE Owns(SetTop(opts, v), live', owner') /\ ub' # "display"
    <3>1. ~crossed /\ Owns(opts, live, owner) /\ ub' # "display"
      BY <1>1, <2>1, <2>4 DEF NewDisplay
    <3>2. old \subseteq live
      BY <1>0, <2>1, <3>1 DEF Owns, Top
    <3>3. v \in SUBSET Displays /\ D \in SUBSET Displays
          /\ v \subseteq (live \ D) \cup {d} /\ v \ {d} \subseteq Top(opts)
      BY <2>3, <3>2
    <3>. HIDE DEF v, D
    <3>. QED  BY <2>1, <2>4, <3>1, <3>3, NewDisplayOwns
  <2>. QED  BY <2>2, <2>4
<1>9. ASSUME NEW x \in Vals, Attribute(x) \/ AttributeThrows(x) \/ Transform(x) PROVE Goal
  <2>1. stack'["opts"] = opts
    BY <1>0, <1>9 DEF Attribute, AttributeThrows, Transform, SetValue
  <2>. QED  BY <1>2, <1>9, <2>1 DEF Attribute, AttributeThrows, Transform, display
<1>10. CASE Primitive
  BY <1>2, <1>10 DEF Primitive, Insert, stacks, display
<1>11. CASE EmptyStack \/ StaleFramework
  BY <1>2, <1>11 DEF EmptyStack, StaleFramework, Undefined, stacks, display
<1>12. CASE DeletedDisplay
  <2>1. UNCHANGED <<stack, live, owner, crossed>>
    BY <1>12 DEF DeletedDisplay, Undefined, stacks, display
  <2>2. crossed
    <3>. SUFFICES ASSUME Owns(opts, live, owner), opts # <<>>
                  PROVE  Top(opts) \subseteq live /\ (Len(opts) > 1 => Top(Pop(opts)) \subseteq live)
      BY <1>0, <1>1, <1>12 DEF DeletedDisplay, HasTop
    <3>1. Len(opts) \in Nat \ {0} /\ Len(Pop(opts)) = Len(opts) - 1
          /\ \A i \in 1..(Len(opts) - 1) : Pop(opts)[i] = opts[i]
      BY <1>0, PopFacts
    <3>2. ASSUME Len(opts) > 1 PROVE Top(Pop(opts)) \subseteq live
      <4>1. Len(opts) - 1 \in 1..(Len(opts) - 1) /\ Len(opts) - 1 \in 1..Len(opts)
        BY <3>1, <3>2
      <4>. QED  BY <3>1, <4>1 DEF Owns, Top
    <3>. QED  BY <3>1, <3>2 DEF Owns, Top
  <2>. QED  BY <2>1, <2>2
<1>13. CASE UNCHANGED riVars
  BY <1>2, <1>13 DEF riVars, stacks, display
<1>. HIDE DEF Goal
<1>. QED
  BY <1>3, <1>4, <1>5, <1>6, <1>7, <1>8, <1>9, <1>10, <1>11, <1>12, <1>13 DEF RiNext

(* As long as displays are deleted only at the depth of the option stack   *)
(* at which they were made, no options on the stack point to a deleted     *)
(* display (Options::Display, FreeDisplays and the copies of the lists).   *)
THEOREM DisplaysOwned == RiSpec => []OwnedDisplays
<1>1. RiInit => OwnedDisplays /\ MadeBelow
  BY DEF RiInit, OwnedDisplays, MadeBelow, Kinds
<1>2. RiTypeOK /\ OwnedDisplays /\ MadeBelow /\ [RiNext]_riVars => OwnedDisplays' /\ MadeBelow'
  BY DisplayStep
<1>. QED  BY <1>1, <1>2, TypeCorrect, PTL DEF RiSpec


----------------------------------------------------------------------------
(* RibParser.                                                              *)

----------------------------------------------------------------------------
(* Sequences and their parts.                                              *)

LEMMA PartIs ==
    ASSUME NEW T, NEW s \in Seq(T), NEW a \in Nat \ {0}, NEW b \in Nat, b <= Len(s)
    PROVE  /\ SubSeq(s, a, b) \in Seq(T) /\ Len(SubSeq(s, a, b)) = (IF a <= b THEN b - a + 1 ELSE 0)
           /\ \A i \in 1..(b - a + 1) : SubSeq(s, a, b)[i] = s[a - 1 + i]
OBVIOUS

LEMMA Appended ==
    ASSUME NEW T, NEW u \in Seq(T), NEW c \in T
    PROVE  /\ Append(u, c) \in Seq(T) /\ Len(Append(u, c)) = Len(u) + 1 /\ Append(u, c)[Len(u) + 1] = c
           /\ \A i \in 1..Len(u) : Append(u, c)[i] = u[i]
OBVIOUS

LEMMA NextPart ==
    ASSUME NEW T, NEW s \in Seq(T), NEW a \in Nat \ {0}, NEW b \in Nat, a <= b + 1, b + 1 <= Len(s)
    PROVE  Append(SubSeq(s, a, b), s[b + 1]) = SubSeq(s, a, b + 1)
<1> DEFINE u == SubSeq(s, a, b)  v == SubSeq(s, a, b + 1)
<1>1. /\ u \in Seq(T) /\ Len(u) = b - a + 1 /\ \A i \in 1..(b - a + 1) : u[i] = s[a - 1 + i]
  BY PartIs
<1>2. /\ v \in Seq(T) /\ Len(v) = b - a + 2 /\ \A i \in 1..(b - a + 2) : v[i] = s[a - 1 + i]
  BY PartIs
<1>3. s[b + 1] \in T
  OBVIOUS
<1> HIDE DEF u, v
<1>4. /\ Append(u, s[b + 1]) \in Seq(T) /\ Len(Append(u, s[b + 1])) = b - a + 2
      /\ \A i \in 1..(b - a + 2) : Append(u, s[b + 1])[i] = s[a - 1 + i]
  <2> DEFINE c == s[b + 1]
  <2>1. c \in T
    BY <1>3
  <2> HIDE DEF c
  <2>2. /\ Append(u, c) \in Seq(T) /\ Len(Append(u, c)) = Len(u) + 1 /\ Append(u, c)[Len(u) + 1] = c
        /\ \A i \in 1..Len(u) : Append(u, c)[i] = u[i]
    BY <1>1, <2>1, Appended
  <2>3. \A i \in 1..(b - a + 2) : i \in 1..(b - a + 1) \/ (i = Len(u) + 1 /\ a - 1 + i = b + 1)
    BY <1>1
  <2>4. ASSUME NEW i \in 1..(b - a + 2) PROVE Append(u, c)[i] = s[a - 1 + i]
    <3>1. CASE i \in 1..(b - a + 1)
      <4>1. i \in 1..Len(u) /\ u[i] = s[a - 1 + i]
        BY <1>1, <3>1
      <4> QED
        BY <2>2, <4>1
    <3>2. CASE i = Len(u) + 1 /\ a - 1 + i = b + 1
      BY <2>2, <3>2 DEF c
    <3> QED
      BY <2>3, <3>1, <3>2
  <2>5. Len(u) + 1 = b - a + 2
    BY <1>1
  <2> QED
    BY <2>2, <2>4, <2>5 DEF c
<1>5. Append(u, s[b + 1]) = v
  BY <1>2, <1>4, SameElements
<1> QED
  BY <1>5 DEF u, v

LEMMA NoPart ==
    ASSUME NEW T, NEW s \in Seq(T), NEW a \in Nat \ {0}, NEW b \in Nat, b < a, b <= Len(s)
    PROVE  SubSeq(s, a, b) = <<>>
<1>1. SubSeq(s, a, b) \in Seq(T) /\ Len(SubSeq(s, a, b)) = 0
  BY PartIs
<1> QED
  BY <1>1

LEMMA WholePart ==
    ASSUME NEW T, NEW s \in Seq(T) PROVE SubSeq(s, 1, Len(s)) = s
OBVIOUS

----------------------------------------------------------------------------
(* Comments.                                                               *)

LEMMA CommentNext ==
    ASSUME NEW s, NEW lo \in Nat, NEW i \in Nat, lo <= i
    PROVE  InComment(s, lo, i + 1) <=> s[i] = "#" \/ (InComment(s, lo, i) /\ s[i] # "nl")
<1>1. ASSUME InComment(s, lo, i + 1) PROVE s[i] = "#" \/ (InComment(s, lo, i) /\ s[i] # "nl")
  <2>1. PICK j \in lo..i : s[j] = "#" /\ \A k \in j..i : s[k] # "nl"
    BY <1>1 DEF InComment
  <2>2. CASE j = i
    BY <2>1, <2>2
  <2>3. CASE j # i
    <3>1. j \in lo..(i - 1) /\ \A k \in j..(i - 1) : s[k] # "nl"
      BY <2>1, <2>3
    <3>2. s[i] # "nl"
      BY <2>1
    <3> QED
      BY <2>1, <3>1, <3>2 DEF InComment
  <2> QED
    BY <2>2, <2>3
<1>2. ASSUME s[i] = "#" PROVE InComment(s, lo, i + 1)
  <2>1. i \in lo..(i + 1 - 1) /\ \A k \in i..(i + 1 - 1) : s[k] # "nl"
    BY <1>2
  <2> QED
    BY <1>2, <2>1 DEF InComment
<1>3. ASSUME InComment(s, lo, i), s[i] # "nl" PROVE InComment(s, lo, i + 1)
  <2>1. PICK j \in lo..(i - 1) : s[j] = "#" /\ \A k \in j..(i - 1) : s[k] # "nl"
    BY <1>3 DEF InComment
  <2>2. j \in lo..(i + 1 - 1) /\ \A k \in j..(i + 1 - 1) : k \in j..(i - 1) \/ k = i
    BY <2>1
  <2> QED
    BY <1>3, <2>1, <2>2 DEF InComment
<1> QED
  BY <1>1, <1>2, <1>3

LEMMA NoCommentYet == ASSUME NEW s, NEW lo \in Nat PROVE ~InComment(s, lo, lo)
BY DEF InComment

----------------------------------------------------------------------------
(* Numbers: what is no float has no digit behind a point.                  *)

LEMMA WholeNumber ==
    ASSUME NEW s \in Seq(STRING), s # <<>>, ~isFloatStr(s) PROVE atof(s) = 10 * atoi(s)
<1> DEFINE I == {i \in DOMAIN s : \A j \in 1..i : IsDigit(s[j])}  n == Len(Leading(s))
           tenth == Len(s) >= n + 2 /\ s[n + 1] = "." /\ IsDigit(s[n + 2])
<1>1. IsFiniteSet(I) /\ Cardinality(I) \in Nat /\ Cardinality(I) <= Len(s)
  <2>1. I \subseteq 1..Len(s)
    OBVIOUS
  <2>2. IsFiniteSet(1..Len(s)) /\ Cardinality(1..Len(s)) = Len(s)
    BY FS_Interval
  <2> QED
    BY <2>1, <2>2, FS_Subset, FS_CardinalityType
<1>2. n = Cardinality(I)
  <2>1. Leading(s) = SubSeq(s, 1, Cardinality(I))
    BY DEF Leading
  <2> HIDE DEF I
  <2> QED
    BY <1>1, <2>1
<1>3. CASE n = 0
  <2>1. ASSUME tenth PROVE FALSE
    <3>1. Len(s) >= 2 /\ s[1] = "." /\ IsDigit(s[2]) /\ 1 \in DOMAIN s
      BY <1>3, <2>1
    <3> QED
      BY <3>1 DEF isFloatStr
  <2> QED
    BY <2>1 DEF atof
<1>4. CASE n # 0
  <2>1. I # {}
    BY <1>2, <1>4, FS_EmptySet
  <2>2. IsDigit(s[1])
    BY <2>1
  <2>3. ASSUME tenth PROVE FALSE
    <3>1. n + 1 \in DOMAIN s /\ s[n + 1] = "."
      BY <1>1, <1>2, <2>3
    <3> QED
      BY <2>2, <3>1 DEF isFloatStr
  <2> QED
    BY <2>3 DEF atof
<1> QED
  BY <1>3, <1>4

----------------------------------------------------------------------------
(* One character.                                                          *)

Fields(t) ==
    DOMAIN t = {"state", "comment", "cur", "atype", "quoted", "ints", "floats", "strings",
                "type", "int", "float", "string", "alphanum", "line"}

\* The newlines among one character.
NL(ch) == IF ch = "nl" THEN 1 ELSE 0

SameData(u, t) == u.ints = t.ints /\ u.floats = t.floats /\ u.strings = t.strings

LEMMA LineIs ==
    ASSUME NEW t, NEW ch, Fields(t), t.line \in Int
    PROVE  /\ Fields(Line(t, ch)) /\ Line(t, ch).line = t.line + NL(ch)
           /\ Line(t, ch).state = t.state /\ Line(t, ch).comment = t.comment /\ Line(t, ch).cur = t.cur
           /\ Line(t, ch).atype = t.atype /\ Line(t, ch).quoted = t.quoted
           /\ SameData(Line(t, ch), t)
BY DEF Fields, Line, NL, SameData

LEMMA CommentSet ==
    ASSUME NEW t, Fields(t), NEW c
    PROVE  \E u : /\ u = [t EXCEPT !.comment = c]
                 /\ Fields(u) /\ u.comment = c /\ u.state = t.state /\ u.cur = t.cur
                 /\ u.atype = t.atype /\ u.quoted = t.quoted /\ u.line = t.line /\ SameData(u, t)
<1> DEFINE u == [t EXCEPT !.comment = c]
<1>1. /\ Fields(u) /\ u.comment = c /\ u.state = t.state /\ u.cur = t.cur /\ u.atype = t.atype
      /\ u.quoted = t.quoted /\ u.line = t.line /\ SameData(u, t)
  BY DEF Fields, SameData
<1> QED
  BY <1>1

\* A blank goes on.
BlankTok(r, t, ch) ==
    /\ r.found = FALSE /\ Fields(r.t) /\ r.t.line = t.line + NL(ch)
    /\ r.t.state = t.state /\ r.t.cur = <<>> /\ r.t.atype = t.atype /\ r.t.quoted = FALSE
    /\ r.t.comment \in BOOLEAN /\ (r.t.comment <=> ch = "#" \/ (t.comment /\ ch # "nl"))
    /\ SameData(r.t, t)

(* A character of a blank, outside a token or between the words of an      *)
(* array.                                                                  *)
LEMMA BlankChar ==
    ASSUME NEW t, NEW ch, Fields(t), t.line \in Int, t.comment \in BOOLEAN, t.quoted = FALSE,
           t.state \in {"UNKNOWN", "ARRAY"}, t.cur = <<>>, ch \in White \cup {"#"} \/ t.comment,
           NEW r, r = TokAddChar(t, ch)
    PROVE  BlankTok(r, t, ch)
<1> DEFINE l == Line(t, ch)
<1>0. /\ Fields(l) /\ l.line = t.line + NL(ch) /\ l.state = t.state /\ l.comment = t.comment
      /\ l.cur = t.cur /\ l.atype = t.atype /\ l.quoted = t.quoted /\ SameData(l, t)
  BY LineIs
<1>1. CASE t.comment
  <2>1. r = Going([l EXCEPT !.comment = (ch # "nl")])
    BY <1>1 DEF TokAddChar, StartsComment
  <2> HIDE DEF l
  <2>2. PICK u : /\ u = [l EXCEPT !.comment = (ch # "nl")]
                 /\ Fields(u) /\ u.comment = (ch # "nl") /\ u.state = l.state /\ u.cur = l.cur
                 /\ u.atype = l.atype /\ u.quoted = l.quoted /\ u.line = l.line /\ SameData(u, l)
    BY <1>0, CommentSet
  <2>3. r.found = FALSE /\ r.t = u
    BY <2>1, <2>2 DEF Going
  <2>4. ch = "#" => ch # "nl"
    OBVIOUS
  <2>5. SameData(u, t)
    BY <1>0, <2>2 DEF SameData
  <2>6. u.comment \in BOOLEAN /\ (u.comment <=> ch = "#" \/ (t.comment /\ ch # "nl"))
    BY <1>1, <2>2, <2>4
  <2> QED
    BY <1>0, <2>2, <2>3, <2>5, <2>6 DEF BlankTok
<1>2. CASE ~t.comment /\ ch = "#"
  <2>1. r = Going([t EXCEPT !.comment = TRUE])
    BY <1>2 DEF TokAddChar, StartsComment
  <2>2. PICK u : /\ u = [t EXCEPT !.comment = TRUE]
                 /\ Fields(u) /\ u.comment = TRUE /\ u.state = t.state /\ u.cur = t.cur
                 /\ u.atype = t.atype /\ u.quoted = t.quoted /\ u.line = t.line /\ SameData(u, t)
    BY CommentSet
  <2>3. r.found = FALSE /\ r.t = u
    BY <2>1, <2>2 DEF Going
  <2>4. r.t.line = t.line + NL(ch)
    <3>1. NL(ch) = 0
      BY <1>2 DEF NL
    <3>2. r.t.line = t.line
      BY <2>2, <2>3
    <3> QED
      BY <3>1, <3>2
  <2>5. r.t.comment \in BOOLEAN /\ (r.t.comment <=> ch = "#" \/ (t.comment /\ ch # "nl"))
    BY <1>2, <2>2, <2>3
  <2> QED
    BY <2>2, <2>3, <2>4, <2>5 DEF BlankTok
<1>3. CASE ~t.comment /\ ch # "#"
  <2>1. ch \in White /\ ch # Quote /\ ch # "[" /\ ch # "]"
    <3>1. ch \in White
      BY <1>3
    <3> QED
      BY <3>1 DEF White, Quote
  <2>2. t.state = "UNKNOWN" => r = Going(l)
    BY <1>3, <2>1 DEF TokAddChar, StartsComment, StartToken
  <2>3. t.state = "ARRAY" => r = Going(PushElement(l))
    BY <1>3, <2>1 DEF TokAddChar, StartsComment, inputHandleArray
  <2> HIDE DEF l
  <2>4. PushElement(l) = l
    BY <1>0 DEF PushElement
  <2>5. r.found = FALSE /\ r.t = l
    BY <2>2, <2>3, <2>4 DEF Going
  <2>6. r.t.comment \in BOOLEAN /\ (r.t.comment <=> ch = "#" \/ (t.comment /\ ch # "nl"))
    BY <1>0, <1>3, <2>5
  <2> QED
    BY <1>0, <2>5, <2>6 DEF BlankTok
<1> QED
  BY <1>1, <1>2, <1>3

\* A name, a number or a string goes on.
PlainTok(r, t, state, cur) ==
    /\ r.found = FALSE /\ Fields(r.t) /\ r.t.line = t.line /\ r.t.state = state /\ r.t.cur = cur
    /\ r.t.quoted = FALSE /\ r.t.comment = FALSE

LEMMA StartPlain ==
    ASSUME NEW t, NEW ch, Fields(t), t.state = "UNKNOWN", t.comment = FALSE, t.cur = <<>>,
           t.quoted = FALSE, ch \notin White \cup {"#", Quote, "["}, NEW r, r = TokAddChar(t, ch)
    PROVE  PlainTok(r, t, "NORMAL", <<ch>>)
<1> DEFINE u == [t EXCEPT !.state = "NORMAL", !.cur = Append(@, ch)]
<1>1. r = Going(u)
  BY DEF TokAddChar, StartsComment, StartToken
<1>2. Append(<<>>, ch) = <<ch>>
  OBVIOUS
<1>3. /\ Fields(u) /\ u.line = t.line /\ u.state = "NORMAL" /\ u.cur = Append(t.cur, ch)
      /\ u.quoted = t.quoted /\ u.comment = t.comment
  BY DEF Fields
<1> HIDE DEF u
<1>9. r.t = u /\ r.found = FALSE
  BY <1>1 DEF Going
<1> QED
  BY <1>2, <1>3, <1>9 DEF PlainTok

LEMMA MorePlain ==
    ASSUME NEW t, NEW ch, Fields(t), t.state = "NORMAL", t.comment = FALSE, t.quoted = FALSE,
           ch \notin White \cup {"#"}, NEW r, r = TokAddChar(t, ch)
    PROVE  PlainTok(r, t, "NORMAL", Append(t.cur, ch))
<1> DEFINE u == [t EXCEPT !.cur = Append(@, ch)]
<1>1. r = Going(u)
  BY DEF TokAddChar, StartsComment
<1>3. /\ Fields(u) /\ u.line = t.line /\ u.state = t.state /\ u.cur = Append(t.cur, ch)
      /\ u.quoted = t.quoted /\ u.comment = t.comment
  BY DEF Fields
<1> HIDE DEF u
<1>9. r.t = u /\ r.found = FALSE
  BY <1>1 DEF Going
<1> QED
  BY <1>3, <1>9 DEF PlainTok

\* What a complete token says.
TokenOf(t, p) ==
    IF p.type = "name" THEN t.type = "ALPHANUMERIC" /\ t.alphanum = p.value
    ELSE t.type = p.type /\ t.type # "ALPHANUMERIC" /\ TokenValue(t) = p.value

\* What a name or a number leaves behind that the end of the file completes.
Emptied(t) == t.state = "NORMAL" /\ t.cur = <<>> /\ t.quoted = FALSE

LEMMA EndPlain ==
    ASSUME NEW t, NEW ch, NEW p, Fields(t), t.line \in Int, t.state = "NORMAL", t.comment = FALSE,
           t.quoted = FALSE, ch \in White, SpellsPlain(t.cur, p), NEW r, r = TokAddChar(t, ch)
    PROVE  /\ r.found = TRUE /\ Fields(r.t) /\ r.t.line = t.line + NL(ch) /\ TokenOf(r.t, p) /\ Emptied(r.t)
<1> DEFINE l == Line(t, ch)  u == setDataType(l)
<1>0. /\ Fields(l) /\ l.line = t.line + NL(ch) /\ l.state = "NORMAL" /\ l.cur = t.cur
      /\ l.quoted = FALSE
  BY LineIs
<1>1. r = Found(u)
  <2>1. ch # "#" /\ ch # Quote
    BY DEF White, Quote
  <2> QED
    BY <2>1 DEF TokAddChar, StartsComment
<1> HIDE DEF l
<1>2. u = [NormalType(l) EXCEPT !.cur = <<>>]
  BY <1>0 DEF setDataType
<1>3. CASE isIntStr(t.cur)
  <2>1. u = [[l EXCEPT !.type = "INT", !.int = atoi(t.cur)] EXCEPT !.cur = <<>>]
    BY <1>0, <1>2, <1>3 DEF NormalType
  <2> HIDE DEF u
  <2>2. Fields(u) /\ u.line = l.line /\ u.type = "INT" /\ u.int = atoi(t.cur) /\ Emptied(u)
    BY <1>0, <2>1 DEF Fields, Emptied
  <2>3. p.type = "INT" /\ p.value = atoi(t.cur)
    BY <1>3 DEF SpellsPlain
  <2>4. TokenValue(u) = u.int
    BY <2>2 DEF TokenValue
  <2>9. r.t = u /\ r.found = TRUE
    BY <1>1 DEF Found
  <2> QED
    BY <1>0, <2>2, <2>3, <2>4, <2>9 DEF TokenOf
<1>4. CASE ~isIntStr(t.cur) /\ isFloatStr(t.cur)
  <2>1. u = [[l EXCEPT !.type = "FLOAT", !.float = atof(t.cur)] EXCEPT !.cur = <<>>]
    BY <1>0, <1>2, <1>4 DEF NormalType
  <2> HIDE DEF u
  <2>2. Fields(u) /\ u.line = l.line /\ u.type = "FLOAT" /\ u.float = atof(t.cur) /\ Emptied(u)
    BY <1>0, <2>1 DEF Fields, Emptied
  <2>3. p.type = "FLOAT" /\ p.value = atof(t.cur)
    BY <1>4 DEF SpellsPlain
  <2>4. TokenValue(u) = u.float
    BY <2>2 DEF TokenValue
  <2>9. r.t = u /\ r.found = TRUE
    BY <1>1 DEF Found
  <2> QED
    BY <1>0, <2>2, <2>3, <2>4, <2>9 DEF TokenOf
<1>5. CASE ~isIntStr(t.cur) /\ ~isFloatStr(t.cur)
  <2>1. Letter(t.cur[1]) /\ p.type = "name" /\ p.value = t.cur
    BY <1>5 DEF SpellsPlain
  <2>2. u = [[l EXCEPT !.type = "ALPHANUMERIC", !.alphanum = t.cur] EXCEPT !.cur = <<>>]
    BY <1>0, <1>2, <1>5, <2>1 DEF NormalType
  <2> HIDE DEF u
  <2>3. Fields(u) /\ u.line = l.line /\ u.type = "ALPHANUMERIC" /\ u.alphanum = t.cur /\ Emptied(u)
    BY <1>0, <2>2 DEF Fields, Emptied
  <2>9. r.t = u /\ r.found = TRUE
    BY <1>1 DEF Found
  <2> QED
    BY <1>0, <2>1, <2>3, <2>9 DEF TokenOf
<1> QED
  BY <1>3, <1>4, <1>5

LEMMA StartString ==
    ASSUME NEW t, Fields(t), t.state = "UNKNOWN", t.comment = FALSE, t.cur = <<>>, t.quoted = FALSE, NEW r, r = TokAddChar(t, Quote)
    PROVE  PlainTok(r, t, "STRING", <<>>)
<1> DEFINE v == [t EXCEPT !.state = "STRING"]  u == setDataType(v)
<1>1. r = Going(u)
  <2>1. Quote # "#"
    BY DEF Quote
  <2>2. StartToken(t, Quote) = Going(u)
    <3>1. Quote # "[" /\ Quote \notin White
      BY DEF Quote, White
    <3> QED
      BY <3>1 DEF StartToken
  <2> HIDE DEF v, u
  <2>3. ~StartsComment(t, Quote)
    BY <2>1 DEF StartsComment
  <2> QED
    BY <2>2, <2>3 DEF TokAddChar
<1>2. Fields(v) /\ v.line = t.line /\ v.state = "STRING" /\ v.quoted = t.quoted /\ v.comment = t.comment
  BY DEF Fields
<1> HIDE DEF v
<1>3. u = [[v EXCEPT !.type = "STRING"] EXCEPT !.cur = <<>>]
  BY <1>2 DEF setDataType
<1> HIDE DEF u
<1>4. /\ Fields(u) /\ u.line = v.line /\ u.state = v.state /\ u.cur = <<>> /\ u.quoted = v.quoted
      /\ u.comment = v.comment
  BY <1>2, <1>3 DEF Fields
<1>9. r.t = u /\ r.found = FALSE
  BY <1>1 DEF Going
<1> QED
  BY <1>2, <1>4, <1>9 DEF PlainTok

LEMMA MoreString ==
    ASSUME NEW t, NEW ch, Fields(t), t.state = "STRING", t.comment = FALSE, t.quoted = FALSE, ch # Quote, NEW r, r = TokAddChar(t, ch)
    PROVE  PlainTok(r, t, "STRING", Append(t.cur, ch))
<1> DEFINE u == [t EXCEPT !.cur = Append(@, ch)]
<1>1. r = Going(u)
  BY DEF TokAddChar, StartsComment
<1>3. /\ Fields(u) /\ u.line = t.line /\ u.state = t.state /\ u.cur = Append(t.cur, ch)
      /\ u.quoted = t.quoted /\ u.comment = t.comment
  BY DEF Fields
<1> HIDE DEF u
<1>9. r.t = u /\ r.found = FALSE
  BY <1>1 DEF Going
<1> QED
  BY <1>3, <1>9 DEF PlainTok

LEMMA EndString ==
    ASSUME NEW t, NEW p, Fields(t), t.state = "STRING", t.comment = FALSE, t.quoted = FALSE,
           p.type = "STRING", p.value = t.cur, NEW r, r = TokAddChar(t, Quote)
    PROVE  r.found = TRUE /\ Fields(r.t) /\ r.t.line = t.line /\ TokenOf(r.t, p)
<1> DEFINE v == [t EXCEPT !.string = t.cur]  u == setDataType(v)
<1>1. r = Found(u)
  BY DEF TokAddChar, StartsComment
<1>2. Fields(v) /\ v.line = t.line /\ v.state = "STRING" /\ v.string = t.cur
  BY DEF Fields
<1> HIDE DEF v
<1>3. u = [[v EXCEPT !.type = "STRING"] EXCEPT !.cur = <<>>]
  BY <1>2 DEF setDataType
<1> HIDE DEF u
<1>4. Fields(u) /\ u.line = v.line /\ u.type = "STRING" /\ u.string = v.string
  BY <1>2, <1>3 DEF Fields
<1>5. TokenValue(u) = u.string
  BY <1>4 DEF TokenValue
<1>9. r.t = u /\ r.found = TRUE
  BY <1>1 DEF Found
<1> QED
  BY <1>2, <1>4, <1>5, <1>9 DEF TokenOf

----------------------------------------------------------------------------
(* One character of an array.                                              *)

LEMMA StartArray ==
    ASSUME NEW t, Fields(t), t.state = "UNKNOWN", t.comment = FALSE, t.cur = <<>>, t.quoted = FALSE,
           NEW r, r = TokAddChar(t, "[")
    PROVE  /\ r.found = FALSE /\ Fields(r.t) /\ r.t.line = t.line
           /\ r.t.state = "ARRAY" /\ r.t.cur = <<>> /\ r.t.quoted = FALSE /\ r.t.comment = FALSE
           /\ r.t.atype = "none" /\ r.t.ints = <<>> /\ r.t.floats = <<>> /\ r.t.strings = <<>>
<1> DEFINE u == [t EXCEPT !.state = "ARRAY", !.atype = "none",
                          !.ints = <<>>, !.floats = <<>>, !.strings = <<>>]
<1>1. r = Going(u)
  <2>1. "[" # Quote /\ "[" \notin White
    BY DEF Quote, White
  <2>2. StartToken(t, "[") = Going(u)
    BY <2>1 DEF StartToken
  <2> HIDE DEF u
  <2>3. ~StartsComment(t, "[")
    BY DEF StartsComment
  <2> QED
    BY <2>2, <2>3 DEF TokAddChar
<1>2. /\ Fields(u) /\ u.line = t.line /\ u.state = "ARRAY" /\ u.cur = t.cur /\ u.quoted = t.quoted
      /\ u.comment = t.comment /\ u.atype = "none" /\ u.ints = <<>> /\ u.floats = <<>>
      /\ u.strings = <<>>
  BY DEF Fields
<1> HIDE DEF u
<1>3. r.t = u /\ r.found = FALSE
  BY <1>1 DEF Going
<1> QED
  BY <1>2, <1>3

\* Nothing but the current word and the quotation is changed.
SameArray(u, t) ==
    /\ Fields(u) /\ u.line = t.line /\ u.state = t.state /\ u.comment = t.comment /\ SameData(u, t)

LEMMA ArrayChar ==
    ASSUME NEW t, NEW ch, t.state = "ARRAY", t.comment = FALSE, ch = "#" => t.quoted
    PROVE  TokAddChar(t, ch) = inputHandleArray(t, ch)
<1>1. ~StartsComment(t, ch)
  BY DEF StartsComment
<1> QED
  BY <1>1 DEF TokAddChar

LEMMA MoreWord ==
    ASSUME NEW t, NEW ch, Fields(t), t.state = "ARRAY", t.comment = FALSE, t.quoted \in BOOLEAN,
           IF t.quoted THEN ch # Quote ELSE ch \notin White \cup {"#", "]", Quote},
           NEW r, r = TokAddChar(t, ch)
    PROVE  /\ r.found = FALSE /\ SameArray(r.t, t) /\ r.t.atype = t.atype /\ r.t.quoted = t.quoted
           /\ r.t.cur = Append(t.cur, ch)
<1> DEFINE u == [t EXCEPT !.cur = Append(@, ch)]
<1>1. r = Going(u)
  <2>1. ch = "#" => t.quoted
    OBVIOUS
  <2>2. r = inputHandleArray(t, ch)
    BY <2>1, ArrayChar
  <2> QED
    BY <2>2 DEF inputHandleArray
<1>2. SameArray(u, t) /\ u.atype = t.atype /\ u.quoted = t.quoted /\ u.cur = Append(t.cur, ch)
  BY DEF Fields, SameArray, SameData
<1> HIDE DEF u
<1>3. r.t = u /\ r.found = FALSE
  BY <1>1 DEF Going
<1> QED
  BY <1>2, <1>3

LEMMA OpenQuote ==
    ASSUME NEW t, Fields(t), t.state = "ARRAY", t.comment = FALSE, t.quoted = FALSE,
           NEW r, r = TokAddChar(t, Quote)
    PROVE  /\ r.found = FALSE /\ SameArray(r.t, t) /\ r.t.atype = "s" /\ r.t.quoted = TRUE
           /\ r.t.cur = t.cur
<1> DEFINE u == [t EXCEPT !.quoted = TRUE, !.atype = "s"]
<1>1. r = Going(u)
  <2>1. Quote # "#" /\ Quote # "]" /\ Quote \notin White
    BY DEF Quote, White
  <2>2. r = inputHandleArray(t, Quote)
    BY <2>1, ArrayChar
  <2> QED
    BY <2>1, <2>2 DEF inputHandleArray
<1>2. SameArray(u, t) /\ u.atype = "s" /\ u.quoted = TRUE /\ u.cur = t.cur
  BY DEF Fields, SameArray, SameData
<1> HIDE DEF u
<1>3. r.t = u /\ r.found = FALSE
  BY <1>1 DEF Going
<1> QED
  BY <1>2, <1>3

LEMMA CloseQuote ==
    ASSUME NEW t, Fields(t), t.state = "ARRAY", t.comment = FALSE, t.quoted = TRUE,
           NEW r, r = TokAddChar(t, Quote)
    PROVE  /\ r.found = FALSE /\ SameArray(r.t, t) /\ r.t.atype = t.atype /\ r.t.quoted = FALSE
           /\ r.t.cur = t.cur
<1> DEFINE u == [t EXCEPT !.quoted = FALSE]
<1>1. r = Going(u)
  <2>1. Quote # "#" /\ Quote # "]" /\ Quote \notin White
    BY DEF Quote, White
  <2>2. r = inputHandleArray(t, Quote)
    BY <2>1, ArrayChar
  <2> QED
    BY <2>1, <2>2 DEF inputHandleArray
<1>2. SameArray(u, t) /\ u.atype = t.atype /\ u.quoted = FALSE /\ u.cur = t.cur
  BY DEF Fields, SameArray, SameData
<1> HIDE DEF u
<1>3. r.t = u /\ r.found = FALSE
  BY <1>1 DEF Going
<1> QED
  BY <1>2, <1>3

\* The white space after a word.
LEMMA WhiteEnds ==
    ASSUME NEW t, NEW ch, Fields(t), t.line \in Int, t.state = "ARRAY", t.comment = FALSE,
           t.quoted = FALSE, ch \in White, NEW r, r = TokAddChar(t, ch)
    PROVE  r.found = FALSE /\ r.t = PushElement(Line(t, ch))
<1>1. ch # "#" /\ ch # "]" /\ ch # Quote
  BY DEF Quote, White
<1>2. r = inputHandleArray(t, ch)
  BY <1>1, ArrayChar
<1>3. r = Going(PushElement(Line(t, ch)))
  BY <1>1, <1>2 DEF inputHandleArray
<1> QED
  BY <1>3 DEF Going

LEMMA BracketEnds ==
    ASSUME NEW t, Fields(t), t.state = "ARRAY", t.comment = FALSE, t.quoted = FALSE,
           NEW r, r = TokAddChar(t, "]")
    PROVE  r.found = TRUE /\ r.t = setDataType(PushElement(t))
<1>1. "]" # Quote /\ "]" \notin White
  BY DEF Quote, White
<1>2. r = inputHandleArray(t, "]")
  BY ArrayChar
<1>3. r = Found(setDataType(PushElement(t)))
  BY <1>1, <1>2 DEF inputHandleArray
<1> QED
  BY <1>3 DEF Found

----------------------------------------------------------------------------
(* The words of an array.                                                  *)

Strings(lx) == lx.param.type = "STRING_ARRAY"
WordCount(lx) == Len(lx.words)
Words(lx) == [k \in 1..WordCount(lx) |-> Word(lx, k)]
Atois(lx) == [k \in 1..WordCount(lx) |-> atoi(Word(lx, k))]
Atofs(lx) == [k \in 1..WordCount(lx) |-> atof(Word(lx, k))]
SomeFloat(lx, j) == \E k \in 1..j : isFloatStr(Word(lx, k))

\* The first j words of the array are taken.
PushedSo(lx, t, j) ==
    IF Strings(lx) THEN t.strings = SubSeq(Words(lx), 1, j) /\ (j = 0 => t.strings = <<>>)
    ELSE IF SomeFloat(lx, j) THEN t.atype = "f" /\ t.floats = SubSeq(Atofs(lx), 1, j)
    ELSE /\ t.atype = (IF j = 0 THEN "none" ELSE "i")
         /\ t.ints = SubSeq(Atois(lx), 1, j) /\ t.floats = <<>>

LEMMA ListOf ==
    ASSUME NEW n \in Nat, NEW f, f = [k \in 1..n |-> f[k]]
    PROVE  \E T : f \in Seq(T) /\ Len(f) = n
<1> DEFINE T == {f[k] : k \in 1..n}
<1>1. f \in [1..n -> T]
  OBVIOUS
<1>2. f \in Seq(T) /\ Len(f) = n
  <2> HIDE DEF T
  <2> QED
    BY <1>1
<1> QED
  BY <1>2

LEMMA OneMore ==
    ASSUME NEW n \in Nat, NEW f, f = [k \in 1..n |-> f[k]], NEW k \in 1..n
    PROVE  /\ Append(SubSeq(f, 1, k - 1), f[k]) = SubSeq(f, 1, k)
           /\ SubSeq(f, 1, 0) = <<>> /\ SubSeq(f, 1, n) = f
<1>1. PICK T : f \in Seq(T) /\ Len(f) = n
  BY ListOf
<1>2. k - 1 \in Nat /\ (k - 1) + 1 = k /\ 1 <= (k - 1) + 1 /\ (k - 1) + 1 <= Len(f)
  BY <1>1
<1>3. Append(SubSeq(f, 1, k - 1), f[(k - 1) + 1]) = SubSeq(f, 1, (k - 1) + 1)
  BY <1>1, <1>2, NextPart
<1>4. SubSeq(f, 1, 0) = <<>>
  BY <1>1, NoPart
<1>5. SubSeq(f, 1, n) = f
  BY <1>1, WholePart
<1> QED
  BY <1>2, <1>3, <1>4, <1>5

LEMMA MoreOf ==
    ASSUME NEW lx, WordCount(lx) \in Nat, NEW k \in 1..WordCount(lx)
    PROVE  /\ Append(SubSeq(Words(lx), 1, k - 1), Word(lx, k)) = SubSeq(Words(lx), 1, k)
           /\ Append(SubSeq(Atois(lx), 1, k - 1), atoi(Word(lx, k))) = SubSeq(Atois(lx), 1, k)
           /\ Append(SubSeq(Atofs(lx), 1, k - 1), atof(Word(lx, k))) = SubSeq(Atofs(lx), 1, k)
           /\ SubSeq(Words(lx), 1, 0) = <<>> /\ SubSeq(Atois(lx), 1, 0) = <<>>
           /\ SubSeq(Atofs(lx), 1, 0) = <<>>
           /\ SubSeq(Words(lx), 1, WordCount(lx)) = Words(lx) /\ SubSeq(Atois(lx), 1, WordCount(lx)) = Atois(lx)
           /\ SubSeq(Atofs(lx), 1, WordCount(lx)) = Atofs(lx)
<1> DEFINE n == WordCount(lx)  w == Words(lx)  a == Atois(lx)  f == Atofs(lx)
<1>1. n \in Nat /\ k \in 1..n
  OBVIOUS
<1>2. w = [i \in 1..n |-> w[i]] /\ w[k] = Word(lx, k)
  BY DEF Words
<1>3. a = [i \in 1..n |-> a[i]] /\ a[k] = atoi(Word(lx, k))
  BY DEF Atois
<1>4. f = [i \in 1..n |-> f[i]] /\ f[k] = atof(Word(lx, k))
  BY DEF Atofs
<1> HIDE DEF n, w, a, f
<1>5. /\ Append(SubSeq(w, 1, k - 1), w[k]) = SubSeq(w, 1, k)
      /\ SubSeq(w, 1, 0) = <<>> /\ SubSeq(w, 1, n) = w
  BY <1>1, <1>2, OneMore
<1>6. /\ Append(SubSeq(a, 1, k - 1), a[k]) = SubSeq(a, 1, k)
      /\ SubSeq(a, 1, 0) = <<>> /\ SubSeq(a, 1, n) = a
  BY <1>1, <1>3, OneMore
<1>7. /\ Append(SubSeq(f, 1, k - 1), f[k]) = SubSeq(f, 1, k)
      /\ SubSeq(f, 1, 0) = <<>> /\ SubSeq(f, 1, n) = f
  BY <1>1, <1>4, OneMore
<1> QED
  BY <1>2, <1>3, <1>4, <1>5, <1>6, <1>7 DEF n, w, a, f

(* Whole numbers that become floats when the first float comes.            *)
LEMMA BecomeFloats ==
    ASSUME NEW lx, WordCount(lx) \in Nat, NEW j \in Nat, j <= WordCount(lx), ~SomeFloat(lx, j),
           \A k \in 1..WordCount(lx) : Word(lx, k) \in Seq(STRING) /\ Word(lx, k) # <<>>
    PROVE  LET s == SubSeq(Atois(lx), 1, j) IN
           [i \in DOMAIN s |-> 10 * s[i]] = SubSeq(Atofs(lx), 1, j)
<1> DEFINE n == WordCount(lx)  a == Atois(lx)  f == Atofs(lx)  s == SubSeq(a, 1, j)  u == SubSeq(f, 1, j)
           v == [i \in DOMAIN s |-> 10 * s[i]]
<1>1. \A k \in 1..j : k \in 1..n /\ f[k] = 10 * a[k]
  <2>1. ASSUME NEW k \in 1..j PROVE k \in 1..n /\ f[k] = 10 * a[k]
    <3>1. k \in 1..n
      OBVIOUS
    <3>2. ~isFloatStr(Word(lx, k))
      BY DEF SomeFloat
    <3>3. atof(Word(lx, k)) = 10 * atoi(Word(lx, k))
      BY <3>1, <3>2, WholeNumber
    <3> QED
      BY <3>1, <3>3 DEF Atois, Atofs
  <2> QED
    BY <2>1
<1>2. PICK T : a \in Seq(T) /\ Len(a) = n
  <2>1. a = [i \in 1..n |-> a[i]]
    BY DEF Atois
  <2> QED
    BY <2>1, ListOf
<1>3. PICK S : f \in Seq(S) /\ Len(f) = n
  <2>1. f = [i \in 1..n |-> f[i]]
    BY DEF Atofs
  <2> QED
    BY <2>1, ListOf
<1> HIDE DEF a, f, n
<1>4. s \in Seq(T) /\ Len(s) = j /\ \A i \in 1..j : s[i] = a[i]
  <2>1. /\ s \in Seq(T) /\ Len(s) = (IF 1 <= j THEN j - 1 + 1 ELSE 0)
        /\ \A i \in 1..(j - 1 + 1) : s[i] = a[1 - 1 + i]
    BY <1>2, PartIs DEF n
  <2> QED
    BY <2>1
<1>5. u \in Seq(S) /\ Len(u) = j /\ \A i \in 1..j : u[i] = f[i]
  <2>1. /\ u \in Seq(S) /\ Len(u) = (IF 1 <= j THEN j - 1 + 1 ELSE 0)
        /\ \A i \in 1..(j - 1 + 1) : u[i] = f[1 - 1 + i]
    BY <1>3, PartIs DEF n
  <2> QED
    BY <2>1
<1> HIDE DEF s, u
<1>6. DOMAIN s = 1..j /\ u = [i \in 1..j |-> u[i]]
  BY <1>4, <1>5
<1>7. \A i \in 1..j : 10 * s[i] = u[i]
  BY <1>1, <1>4, <1>5
<1>8. v = u
  BY <1>6, <1>7
<1> QED
  BY <1>8 DEF u, s, a, f

----------------------------------------------------------------------------
(* The end of a word.                                                      *)

Kept(u, t) ==
    /\ Fields(u) /\ u.line = t.line /\ u.state = t.state /\ u.comment = t.comment
    /\ u.quoted = t.quoted /\ u.cur = <<>>

LEMMA PushIs ==
    ASSUME NEW t, Fields(t), t.cur # <<>>, NEW u, u = PushElement(t)
    PROVE  /\ t.atype = "s" /\ ~isFloatStr(t.cur) =>
                  Kept(u, t) /\ u.atype = "s" /\ u.strings = Append(t.strings, t.cur)
           /\ t.atype \in {"none", "i"} /\ ~isFloatStr(t.cur) =>
                  /\ Kept(u, t) /\ u.atype = "i" /\ u.ints = Append(t.ints, atoi(t.cur))
                  /\ u.floats = t.floats
           /\ t.atype = "f" \/ (t.atype = "none" /\ isFloatStr(t.cur)) =>
                  Kept(u, t) /\ u.atype = "f" /\ u.floats = Append(t.floats, atof(t.cur))
           /\ t.atype = "i" /\ isFloatStr(t.cur) =>
                  /\ Kept(u, t) /\ u.atype = "f"
                  /\ u.floats = Append([i \in DOMAIN t.ints |-> 10 * t.ints[i]], atof(t.cur))
<1>1. ASSUME t.atype = "s", ~isFloatStr(t.cur)
      PROVE  Kept(u, t) /\ u.atype = "s" /\ u.strings = Append(t.strings, t.cur)
  <2>1. u = [[t EXCEPT !.strings = Append(@, t.cur)] EXCEPT !.cur = <<>>]
    BY <1>1 DEF PushElement
  <2> QED
    BY <1>1, <2>1 DEF Kept, Fields
<1>2. ASSUME t.atype \in {"none", "i"}, ~isFloatStr(t.cur)
      PROVE  /\ Kept(u, t) /\ u.atype = "i" /\ u.ints = Append(t.ints, atoi(t.cur))
             /\ u.floats = t.floats
  <2>1. CASE t.atype = "i"
    <3>1. u = [[t EXCEPT !.ints = Append(@, atoi(t.cur))] EXCEPT !.cur = <<>>]
      BY <1>2, <2>1 DEF PushElement
    <3> QED
      BY <2>1, <3>1 DEF Kept, Fields
  <2>2. CASE t.atype = "none"
    <3> DEFINE v == [t EXCEPT !.atype = "i"]
    <3>1. Fields(v) /\ v.atype = "i"
      BY DEF Fields
    <3>2. u = [[v EXCEPT !.ints = Append(@, atoi(t.cur))] EXCEPT !.cur = <<>>]
      BY <1>2, <2>2, <3>1 DEF PushElement
    <3> QED
      BY <3>2 DEF Kept, Fields
  <2> QED
    BY <1>2, <2>1, <2>2
<1>3. ASSUME t.atype = "f" \/ (t.atype = "none" /\ isFloatStr(t.cur))
      PROVE  Kept(u, t) /\ u.atype = "f" /\ u.floats = Append(t.floats, atof(t.cur))
  <2>1. CASE t.atype = "f"
    <3>1. u = [[t EXCEPT !.floats = Append(@, atof(t.cur))] EXCEPT !.cur = <<>>]
      BY <2>1 DEF PushElement
    <3> QED
      BY <2>1, <3>1 DEF Kept, Fields
  <2>2. CASE t.atype = "none" /\ isFloatStr(t.cur)
    <3> DEFINE v == [t EXCEPT !.atype = "f"]
    <3>1. Fields(v) /\ v.atype = "f"
      BY DEF Fields
    <3>2. u = [[v EXCEPT !.floats = Append(@, atof(t.cur))] EXCEPT !.cur = <<>>]
      BY <2>2, <3>1 DEF PushElement
    <3> QED
      BY <3>2 DEF Kept, Fields
  <2> QED
    BY <1>3, <2>1, <2>2
<1>4. ASSUME t.atype = "i", isFloatStr(t.cur)
      PROVE  /\ Kept(u, t) /\ u.atype = "f"
             /\ u.floats = Append([i \in DOMAIN t.ints |-> 10 * t.ints[i]], atof(t.cur))
  <2> DEFINE v == changeToFloatArray(t)  fs == [i \in DOMAIN t.ints |-> 10 * t.ints[i]]
  <2>1. v = [t EXCEPT !.atype = "f", !.floats = fs]
    BY DEF changeToFloatArray
  <2> HIDE DEF v, fs
  <2>2. Fields(v) /\ v.atype = "f"
    BY <2>1 DEF Fields
  <2>3. u = [[v EXCEPT !.floats = Append(@, atof(t.cur))] EXCEPT !.cur = <<>>]
    BY <1>4, <2>2 DEF PushElement, v
  <2>4. Kept(u, t) /\ u.atype = "f" /\ u.floats = Append(fs, atof(t.cur))
    BY <2>1, <2>3 DEF Kept, Fields
  <2> QED
    BY <2>4 DEF fs
<1> QED
  BY <1>1, <1>2, <1>3, <1>4


\* A word that is complete is taken as the array needs it.
LEMMA PushWord ==
    ASSUME NEW lx, WordCount(lx) \in Nat, NEW k \in 1..WordCount(lx),
           \A j \in 1..WordCount(lx) : Word(lx, j) \in Seq(STRING) /\ Word(lx, j) # <<>>,
           Strings(lx) => \A j \in 1..WordCount(lx) : ~isFloatStr(Word(lx, j)),
           NEW t, Fields(t), t.cur = Word(lx, k), PushedSo(lx, t, k - 1), Strings(lx) => t.atype = "s",
           NEW u, u = PushElement(t)
    PROVE  Kept(u, t) /\ PushedSo(lx, u, k) /\ (Strings(lx) => u.atype = "s")
<1> DEFINE n == WordCount(lx)  w == Word(lx, k)
<1>1. w \in Seq(STRING) /\ w # <<>> /\ t.cur = w
  OBVIOUS
<1>2. /\ Append(SubSeq(Words(lx), 1, k - 1), w) = SubSeq(Words(lx), 1, k)
      /\ Append(SubSeq(Atois(lx), 1, k - 1), atoi(w)) = SubSeq(Atois(lx), 1, k)
      /\ Append(SubSeq(Atofs(lx), 1, k - 1), atof(w)) = SubSeq(Atofs(lx), 1, k)
      /\ SubSeq(Atois(lx), 1, 0) = <<>> /\ SubSeq(Atofs(lx), 1, 0) = <<>>
  BY MoreOf
<1>3. /\ t.atype = "s" /\ ~isFloatStr(w) =>
             Kept(u, t) /\ u.atype = "s" /\ u.strings = Append(t.strings, w)
      /\ t.atype \in {"none", "i"} /\ ~isFloatStr(w) =>
             Kept(u, t) /\ u.atype = "i" /\ u.ints = Append(t.ints, atoi(w)) /\ u.floats = t.floats
      /\ t.atype = "f" \/ (t.atype = "none" /\ isFloatStr(w)) =>
             Kept(u, t) /\ u.atype = "f" /\ u.floats = Append(t.floats, atof(w))
      /\ t.atype = "i" /\ isFloatStr(w) =>
             /\ Kept(u, t) /\ u.atype = "f"
             /\ u.floats = Append([i \in DOMAIN t.ints |-> 10 * t.ints[i]], atof(w))
  BY <1>1, PushIs
<1>4. k # 0 /\ k - 1 \in Nat /\ k - 1 <= n /\ (\A j : j \in 1..k <=> j \in 1..(k - 1) \/ j = k)
  OBVIOUS
<1>5. SomeFloat(lx, k) <=> SomeFloat(lx, k - 1) \/ isFloatStr(w)
  BY <1>4 DEF SomeFloat
<1> HIDE DEF w
<1>6. CASE Strings(lx)
  <2>1. ~isFloatStr(w) /\ t.atype = "s" /\ t.strings = SubSeq(Words(lx), 1, k - 1)
    BY <1>6 DEF PushedSo, w
  <2>2. Kept(u, t) /\ u.atype = "s" /\ u.strings = SubSeq(Words(lx), 1, k)
    BY <1>2, <1>3, <2>1
  <2> QED
    BY <1>4, <1>6, <2>2 DEF PushedSo
<1>7. CASE ~Strings(lx) /\ SomeFloat(lx, k - 1)
  <2>1. t.atype = "f" /\ t.floats = SubSeq(Atofs(lx), 1, k - 1)
    BY <1>7 DEF PushedSo
  <2>2. Kept(u, t) /\ u.atype = "f" /\ u.floats = SubSeq(Atofs(lx), 1, k)
    BY <1>2, <1>3, <2>1
  <2> QED
    BY <1>5, <1>7, <2>2 DEF PushedSo
<1>8. CASE ~Strings(lx) /\ ~SomeFloat(lx, k - 1)
  <2>1. /\ t.atype = (IF k - 1 = 0 THEN "none" ELSE "i")
        /\ t.ints = SubSeq(Atois(lx), 1, k - 1) /\ t.floats = <<>>
    BY <1>8 DEF PushedSo
  <2>2. CASE ~isFloatStr(w)
    <3>1. t.atype \in {"none", "i"}
      BY <2>1
    <3>2. Kept(u, t) /\ u.atype = "i" /\ u.ints = SubSeq(Atois(lx), 1, k) /\ u.floats = <<>>
      BY <1>2, <1>3, <2>1, <2>2, <3>1
    <3>3. ~SomeFloat(lx, k)
      BY <1>5, <1>8, <2>2
    <3> QED
      BY <1>4, <1>8, <3>2, <3>3 DEF PushedSo
  <2>3. CASE isFloatStr(w)
    <3>1. SomeFloat(lx, k)
      BY <1>5, <2>3
    <3>2. Kept(u, t) /\ u.atype = "f" /\ u.floats = SubSeq(Atofs(lx), 1, k)
      <4>1. CASE k - 1 = 0
        <5>1. t.atype = "none" /\ t.floats = SubSeq(Atofs(lx), 1, k - 1)
          BY <1>2, <2>1, <4>1
        <5> QED
          BY <1>2, <1>3, <2>3, <5>1
      <4>2. CASE k - 1 # 0
        <5> DEFINE s == SubSeq(Atois(lx), 1, k - 1)
        <5>1. [i \in DOMAIN s |-> 10 * s[i]] = SubSeq(Atofs(lx), 1, k - 1)
          BY <1>4, <1>8, BecomeFloats
        <5>2. t.atype = "i" /\ t.ints = s
          BY <2>1, <4>2
        <5> HIDE DEF s
        <5>3. [i \in DOMAIN t.ints |-> 10 * t.ints[i]] = SubSeq(Atofs(lx), 1, k - 1)
          BY <5>1, <5>2
        <5> QED
          BY <1>2, <1>3, <2>3, <5>2, <5>3
      <4> QED
        BY <4>1, <4>2
    <3> QED
      BY <1>8, <3>1, <3>2 DEF PushedSo
  <2> QED
    BY <2>2, <2>3
<1> QED
  BY <1>6, <1>7, <1>8

----------------------------------------------------------------------------
(* What is known of an array that is written.                              *)

ArrayFacts(lx, n, L) ==
    /\ n \in Nat /\ n > 0 /\ L \in Nat /\ L > 2 /\ lx.text \in Seq(STRING) /\ Len(lx.text) = L
    /\ lx.text[1] = "[" /\ lx.text[L] = "]" /\ To(lx, 0) = 1 /\ From(lx, n + 1) = L
    /\ \A k \in 0..n : To(lx, k) \in 1..L /\ From(lx, k + 1) \in 1..L /\ To(lx, k) < From(lx, k + 1)
    /\ \A k \in 1..n : From(lx, k) \in 1..L /\ From(lx, k) <= To(lx, k)
    /\ \A k \in 1..n : Word(lx, k) \in Seq(STRING) /\ Word(lx, k) # <<>>
    /\ Strings(lx) => \A k \in 1..n : ~isFloatStr(Word(lx, k))

LEMMA ElementOf == ASSUME NEW T, NEW s \in Seq(T), NEW k \in 1..Len(s) PROVE s[k] \in T
OBVIOUS

LEMMA ArrayIs ==
    ASSUME NEW lx, lx.text \in Seq(STRING), lx.words \in Seq((DOMAIN lx.text) \X (DOMAIN lx.text)),
           SpellsArray(lx)
    PROVE  ArrayFacts(lx, WordCount(lx), Len(lx.text))
<1> DEFINE n == WordCount(lx)  s == lx.text  L == Len(s)
<1>1. n \in Nat /\ n = Len(lx.words) /\ L \in Nat /\ s \in Seq(STRING)
  BY DEF WordCount
<1>2. L > 2 /\ s[1] = "[" /\ s[L] = "]" /\ n > 0
  <2>1. Len(lx.text) > 2 /\ lx.text[1] = "[" /\ lx.text[Len(lx.text)] = "]" /\ Len(lx.words) > 0
    BY Zenon DEF SpellsArray
  <2> QED
    BY <2>1 DEF WordCount
<1>3. \A k \in 0..n : To(lx, k) < From(lx, k + 1)
  BY DEF SpellsArray, WordCount
<1>4. ASSUME NEW k \in 1..n PROVE From(lx, k) = lx.words[k][1] /\ To(lx, k) = lx.words[k][2]
                                  /\ From(lx, k) \in 1..L /\ To(lx, k) \in 1..L
  <2>1. From(lx, k) = lx.words[k][1] /\ To(lx, k) = lx.words[k][2]
    BY <1>1 DEF From, To
  <2>2. lx.words[k] \in (DOMAIN s) \X (DOMAIN s)
    <3>1. k \in 1..Len(lx.words)
      BY <1>1
    <3> QED
      BY <3>1, ElementOf
  <2>3. lx.words[k][1] \in DOMAIN s /\ lx.words[k][2] \in DOMAIN s
    BY <2>2
  <2>4. DOMAIN s = 1..L
    OBVIOUS
  <2> QED
    BY <2>1, <2>3, <2>4
<1>5. To(lx, 0) = 1 /\ From(lx, n + 1) = L
  BY <1>1 DEF To, From
<1>6. \A k \in 0..n : To(lx, k) \in 1..L /\ From(lx, k + 1) \in 1..L
  <2>1. ASSUME NEW k \in 0..n PROVE To(lx, k) \in 1..L /\ From(lx, k + 1) \in 1..L
    <3>1. k = 0 \/ k \in 1..n
      BY <1>1
    <3>2. k = n \/ k + 1 \in 1..n
      BY <1>1
    <3>3. 1 \in 1..L /\ L \in 1..L
      BY <1>1, <1>2
    <3>4. To(lx, k) \in 1..L
      BY <1>4, <1>5, <3>1, <3>3
    <3>5. From(lx, k + 1) \in 1..L
      BY <1>4, <1>5, <3>2, <3>3
    <3> QED
      BY <3>4, <3>5
  <2> QED
    BY <2>1
<1>7. CASE Strings(lx)
  <2>1. \A k \in 1..n : IsQuoted(s, From(lx, k), To(lx, k))
    BY <1>7 DEF SpellsArray, WordCount, Strings
  <2>2. \A k \in 1..n : Word(lx, k) # <<>> /\ ~isFloatStr(Word(lx, k))
    <3> DEFINE words == [k \in 1..Len(lx.words) |-> Word(lx, k)]
    <3>1. \A k \in 1..Len(lx.words) : words[k] # <<>> /\ ~isFloatStr(words[k])
      BY <1>7 DEF SpellsArray, Strings
    <3>2. \A k \in 1..Len(lx.words) : words[k] = Word(lx, k)
      OBVIOUS
    <3> QED
      BY <3>1, <3>2 DEF WordCount
  <2>3. ASSUME NEW k \in 1..n PROVE From(lx, k) <= To(lx, k) /\ Word(lx, k) \in Seq(STRING)
    <3> DEFINE a == From(lx, k) + 1  b == To(lx, k) - 1
    <3>1. From(lx, k) < To(lx, k)
      BY <2>1 DEF IsQuoted
    <3>2. From(lx, k) \in 1..L /\ To(lx, k) \in 1..L
      BY <1>4
    <3>3. a \in Nat \ {0} /\ b \in Nat /\ b <= L
      BY <3>2
    <3>4. Word(lx, k) = SubSeq(s, a, b)
      BY <1>7 DEF Word, Strings
    <3> HIDE DEF a, b, s
    <3>5. SubSeq(s, a, b) \in Seq(STRING)
      BY <1>1, <3>3, PartIs
    <3> QED
      BY <3>1, <3>2, <3>4, <3>5
  <2> HIDE DEF s, n, L
  <2>4. WordCount(lx) = n /\ Len(lx.text) = L /\ s = lx.text
    BY DEF s, n, L
  <2> QED
    BY <1>1, <1>2, <1>3, <1>4, <1>5, <1>6, <2>2, <2>3, <2>4 DEF ArrayFacts
<1>8. CASE ~Strings(lx)
  <2>1. \A k \in 1..n : IsBare(s, From(lx, k), To(lx, k))
    BY <1>8 DEF SpellsArray, WordCount, Strings
  <2>3. ASSUME NEW k \in 1..n
        PROVE  From(lx, k) <= To(lx, k) /\ Word(lx, k) \in Seq(STRING) /\ Word(lx, k) # <<>>
    <3> DEFINE a == From(lx, k)  b == To(lx, k)
    <3>1. a <= b
      BY <2>1 DEF IsBare
    <3>2. a \in 1..L /\ b \in 1..L
      BY <1>4
    <3>3. a \in Nat \ {0} /\ b \in Nat /\ b <= L
      BY <3>2
    <3>4. Word(lx, k) = SubSeq(s, a, b)
      BY <1>8 DEF Word, Strings
    <3> HIDE DEF a, b, s
    <3>5. SubSeq(s, a, b) \in Seq(STRING) /\ Len(SubSeq(s, a, b)) = (IF a <= b THEN b - a + 1 ELSE 0)
      BY <1>1, <3>3, PartIs
    <3>6. SubSeq(s, a, b) # <<>>
      BY <3>1, <3>3, <3>5
    <3> QED
      BY <3>1, <3>4, <3>5, <3>6 DEF a, b
  <2> HIDE DEF s, n, L
  <2>4. WordCount(lx) = n /\ Len(lx.text) = L /\ s = lx.text
    BY DEF s, n, L
  <2> QED
    BY <1>1, <1>2, <1>3, <1>4, <1>5, <1>6, <1>8, <2>3, <2>4 DEF ArrayFacts
<1> QED
  BY <1>7, <1>8


LEMMA ArrayChars ==
    ASSUME NEW lx, SpellsArray(lx)
    PROVE  /\ \A k \in 0..WordCount(lx) : Blank(lx.text, To(lx, k) + 1, From(lx, k + 1) - 1)
           /\ \A k \in 1..WordCount(lx) :
                 lx.text[To(lx, k) + 1] \in White \/ (k = WordCount(lx) /\ lx.text[To(lx, k) + 1] = "]")
           /\ Strings(lx) => \A k \in 1..WordCount(lx) : IsQuoted(lx.text, From(lx, k), To(lx, k))
           /\ ~Strings(lx) => \A k \in 1..WordCount(lx) : IsBare(lx.text, From(lx, k), To(lx, k))
<1>1. \A k \in 0..Len(lx.words) : Blank(lx.text, To(lx, k) + 1, From(lx, k + 1) - 1)
  BY Zenon DEF SpellsArray
<1>2. \A k \in 1..Len(lx.words) :
         lx.text[To(lx, k) + 1] \in White \cup (IF k = Len(lx.words) THEN {"]"} ELSE {})
  BY Zenon DEF SpellsArray
<1>3. IF Strings(lx) THEN \A k \in 1..Len(lx.words) : IsQuoted(lx.text, From(lx, k), To(lx, k))
      ELSE \A k \in 1..Len(lx.words) : IsBare(lx.text, From(lx, k), To(lx, k))
  BY Zenon DEF SpellsArray, Strings
<1> QED
  BY <1>1, <1>2, <1>3 DEF WordCount

\* The character that follows a bracket or a word is reached between words k and k + 1.
InGap(lx, t, pos, k) ==
    /\ To(lx, k) <= pos /\ pos < From(lx, k + 1) /\ (k > 0 => pos > To(lx, k))
    /\ t.cur = <<>> /\ t.quoted = FALSE /\ t.comment \in BOOLEAN
    /\ t.comment <=> InComment(lx.text, To(lx, k) + 1, pos + 1)
    /\ PushedSo(lx, t, k) /\ (k > 0 /\ Strings(lx) => t.atype = "s")

InWord(lx, t, pos, k) ==
    /\ From(lx, k) <= pos /\ pos <= To(lx, k) /\ t.comment = FALSE /\ PushedSo(lx, t, k - 1)
    /\ IF Strings(lx)
       THEN /\ t.atype = "s" /\ t.quoted \in BOOLEAN /\ (t.quoted <=> pos < To(lx, k))
            /\ t.cur = SubSeq(lx.text, From(lx, k) + 1, IF pos < To(lx, k) THEN pos ELSE To(lx, k) - 1)
       ELSE t.quoted = FALSE /\ t.cur = SubSeq(lx.text, From(lx, k), pos)

InArray(lx, t, pos) ==
    /\ t.state = "ARRAY"
    /\ \/ \E k \in 0..WordCount(lx) : InGap(lx, t, pos, k)
       \/ \E k \in 1..WordCount(lx) : InWord(lx, t, pos, k)

LEMMA PushedKept ==
    ASSUME NEW lx, NEW t, NEW u, NEW j, PushedSo(lx, t, j), SameData(u, t),
           u.atype = t.atype \/ Strings(lx)
    PROVE  PushedSo(lx, u, j)
BY DEF PushedSo, SameData

\* A blank between words.
LEMMA GapBlank ==
    ASSUME NEW lx, ArrayFacts(lx, WordCount(lx), Len(lx.text)), SpellsArray(lx),
           NEW t, Fields(t), t.line \in Int, t.state = "ARRAY", NEW pos \in Nat,
           NEW k \in 0..WordCount(lx), InGap(lx, t, pos, k), pos + 1 < From(lx, k + 1),
           NEW r, r = TokAddChar(t, lx.text[pos + 1])
    PROVE  /\ r.found = FALSE /\ Fields(r.t) /\ r.t.line = t.line + NL(lx.text[pos + 1])
           /\ InArray(lx, r.t, pos + 1)
<1> DEFINE s == lx.text  n == WordCount(lx)  ch == s[pos + 1]  lo == To(lx, k) + 1
           hi == From(lx, k + 1) - 1
<1>1. /\ n \in Nat /\ To(lx, k) \in 1..Len(s) /\ From(lx, k + 1) \in 1..Len(s) /\ Len(s) \in Nat
  BY DEF ArrayFacts
<1>2. /\ To(lx, k) <= pos /\ pos < From(lx, k + 1) /\ (k > 0 => pos > To(lx, k))
      /\ t.cur = <<>> /\ t.quoted = FALSE /\ t.comment \in BOOLEAN
      /\ (t.comment <=> InComment(s, lo, pos + 1)) /\ PushedSo(lx, t, k)
  BY DEF InGap
<1>3. Blank(s, lo, hi)
  BY ArrayChars
<1>4. ch \in White \cup {"#"} \/ t.comment
  <2>1. pos + 1 \in lo..hi
    BY <1>1, <1>2
  <2>2. s[pos + 1] \in White \cup {"#"} \/ InComment(s, lo, pos + 1)
    BY <1>3, <2>1 DEF Blank
  <2> QED
    BY <1>2, <2>2
<1> HIDE DEF ch
<1>5. /\ r.found = FALSE /\ Fields(r.t) /\ r.t.line = t.line + NL(ch)
      /\ r.t.state = t.state /\ r.t.cur = <<>> /\ r.t.atype = t.atype /\ r.t.quoted = FALSE
      /\ r.t.comment \in BOOLEAN /\ (r.t.comment <=> ch = "#" \/ (t.comment /\ ch # "nl"))
      /\ SameData(r.t, t)
  <2>1. r = TokAddChar(t, ch)
    BY DEF ch
  <2>2. BlankTok(r, t, ch)
    BY <1>2, <1>4, <2>1, BlankChar
  <2> QED
    BY <2>2 DEF BlankTok
<1>6. r.t.comment <=> InComment(s, lo, pos + 1 + 1)
  <2>1. lo \in Nat /\ pos + 1 \in Nat /\ lo <= pos + 1
    BY <1>1, <1>2
  <2> HIDE DEF lo
  <2>2. InComment(s, lo, pos + 1 + 1) <=> s[pos + 1] = "#" \/ (InComment(s, lo, pos + 1) /\ s[pos + 1] # "nl")
    BY <2>1, CommentNext
  <2> QED
    BY <1>2, <1>5, <2>2 DEF ch
<1>7. PushedSo(lx, r.t, k)
  BY <1>2, <1>5, PushedKept
<1>8. InGap(lx, r.t, pos + 1, k)
  <2>1. To(lx, k) <= pos + 1 /\ (k > 0 => pos + 1 > To(lx, k))
    BY <1>1, <1>2
  <2>2. k > 0 /\ Strings(lx) => r.t.atype = "s"
    BY <1>5 DEF InGap
  <2> QED
    BY <1>5, <1>6, <1>7, <2>1, <2>2 DEF InGap
<1> QED
  BY <1>5, <1>8 DEF InArray, ch

\* In front of a word or of the end no comment is open.
LEMMA GapEnds ==
    ASSUME NEW lx, ArrayFacts(lx, WordCount(lx), Len(lx.text)), SpellsArray(lx),
           NEW t, NEW pos \in Nat, NEW k \in 0..WordCount(lx), InGap(lx, t, pos, k),
           pos + 1 = From(lx, k + 1)
    PROVE  t.comment = FALSE
<1>1. ~InComment(lx.text, To(lx, k) + 1, From(lx, k + 1) - 1 + 1)
  BY ArrayChars DEF Blank
<1>2. From(lx, k + 1) - 1 + 1 = pos + 1
  OBVIOUS
<1>3. t.comment \in BOOLEAN /\ (t.comment <=> InComment(lx.text, To(lx, k) + 1, pos + 1))
  BY DEF InGap
<1> QED
  BY <1>1, <1>2, <1>3

LEMMA WordBegins ==
    ASSUME NEW lx, ArrayFacts(lx, WordCount(lx), Len(lx.text)), SpellsArray(lx),
           NEW t, Fields(t), t.line \in Int, t.state = "ARRAY", NEW pos \in Nat,
           NEW k \in 0..WordCount(lx), InGap(lx, t, pos, k), pos + 1 = From(lx, k + 1),
           k # WordCount(lx), NEW r, r = TokAddChar(t, lx.text[pos + 1])
    PROVE  /\ r.found = FALSE /\ Fields(r.t) /\ r.t.line = t.line + NL(lx.text[pos + 1])
           /\ InArray(lx, r.t, pos + 1)
<1> DEFINE s == lx.text  n == WordCount(lx)  ch == s[pos + 1]  j == k + 1
<1>0. /\ n \in Nat /\ Len(s) \in Nat /\ s \in Seq(STRING)
      /\ \A i \in 0..n : To(lx, i) \in 1..Len(s)
      /\ \A i \in 1..n : From(lx, i) \in 1..Len(s) /\ From(lx, i) <= To(lx, i)
  BY DEF ArrayFacts
<1>1. n \in Nat /\ Len(s) \in Nat /\ s \in Seq(STRING) /\ j \in 1..n /\ j - 1 = k
  BY <1>0
<1>2. From(lx, j) \in 1..Len(s) /\ From(lx, j) <= To(lx, j) /\ From(lx, j) = pos + 1 /\ To(lx, j) \in 1..Len(s)
  BY <1>0, <1>1
<1>3. t.comment = FALSE
  BY GapEnds
<1>4. t.cur = <<>> /\ t.quoted = FALSE /\ PushedSo(lx, t, k)
  BY DEF InGap
<1> HIDE DEF j
<1>5. CASE Strings(lx)
  <2>1. IsQuoted(s, From(lx, j), To(lx, j))
    BY <1>1, <1>5, ArrayChars
  <2>2. From(lx, j) < To(lx, j) /\ ch = Quote
    BY <1>2, <2>1 DEF IsQuoted
  <2>3. /\ r.found = FALSE /\ SameArray(r.t, t) /\ r.t.atype = "s" /\ r.t.quoted = TRUE
        /\ r.t.cur = t.cur
    BY <1>3, <1>4, <2>2, OpenQuote
  <2>4. r.t.line = t.line + NL(ch)
    <3>1. NL(ch) = 0
      BY <2>2 DEF NL, Quote
    <3>2. r.t.line = t.line
      BY <2>3 DEF SameArray
    <3> QED
      BY <3>1, <3>2
  <2>5. PushedSo(lx, r.t, j - 1)
    BY <1>1, <1>4, <1>5, <2>3, PushedKept DEF SameArray
  <2>6. r.t.cur = SubSeq(s, From(lx, j) + 1, pos + 1)
    <3>1. From(lx, j) + 1 \in Nat \ {0} /\ pos + 1 \in Nat /\ pos + 1 < From(lx, j) + 1 /\ pos + 1 <= Len(s)
      BY <1>2
    <3>2. SubSeq(s, From(lx, j) + 1, pos + 1) = <<>>
      BY <1>1, <3>1, NoPart
    <3> QED
      BY <1>4, <2>3, <3>2
  <2>7. InWord(lx, r.t, pos + 1, j)
    <3>1. pos + 1 < To(lx, j) /\ From(lx, j) <= pos + 1 /\ pos + 1 <= To(lx, j)
      BY <1>2, <2>2
    <3>2. r.t.comment = FALSE
      BY <1>3, <2>3 DEF SameArray
    <3> HIDE DEF s, ch
    <3> QED
      BY <1>5, <2>3, <2>5, <2>6, <3>1, <3>2 DEF InWord, s
  <2>8. Fields(r.t) /\ r.t.state = "ARRAY"
    BY <2>3 DEF SameArray
  <2> QED
    BY <1>1, <2>3, <2>4, <2>7, <2>8 DEF InArray
<1>6. CASE ~Strings(lx)
  <2>1. IsBare(s, From(lx, j), To(lx, j))
    BY <1>1, <1>6, ArrayChars
  <2>2. ch \notin White \cup {"#", "]", Quote}
    <3>1. pos + 1 \in From(lx, j)..To(lx, j)
      BY <1>2
    <3> QED
      BY <2>1, <3>1, Zenon DEF IsBare
  <2>3. /\ r.found = FALSE /\ SameArray(r.t, t) /\ r.t.atype = t.atype /\ r.t.quoted = t.quoted
        /\ r.t.cur = Append(t.cur, ch)
    <3>1. t.quoted \in BOOLEAN /\ (IF t.quoted THEN ch # Quote ELSE ch \notin White \cup {"#", "]", Quote})
      BY <1>4, <2>2
    <3>2. r = TokAddChar(t, ch)
      OBVIOUS
    <3> HIDE DEF ch
    <3> QED
      BY <1>3, <3>1, <3>2, MoreWord
  <2>4. r.t.line = t.line + NL(ch)
    <3>1. NL(ch) = 0
      BY <2>2 DEF NL, White
    <3>2. r.t.line = t.line
      BY <2>3 DEF SameArray
    <3> QED
      BY <3>1, <3>2
  <2>5. PushedSo(lx, r.t, j - 1)
    BY <1>1, <1>4, <2>3, PushedKept DEF SameArray
  <2>6. r.t.cur = SubSeq(s, From(lx, j), pos + 1)
    <3>1. From(lx, j) \in Nat \ {0} /\ pos \in Nat /\ pos < From(lx, j) /\ pos + 1 <= Len(s) /\ pos <= Len(s)
          /\ From(lx, j) <= pos + 1
      BY <1>2
    <3> HIDE DEF s
    <3>2. SubSeq(s, From(lx, j), pos) = <<>>
      BY <1>1, <3>1, NoPart
    <3>3. Append(SubSeq(s, From(lx, j), pos), s[pos + 1]) = SubSeq(s, From(lx, j), pos + 1)
      BY <1>1, <3>1, NextPart
    <3> QED
      BY <1>4, <2>3, <3>2, <3>3
  <2>7. InWord(lx, r.t, pos + 1, j)
    <3>1. From(lx, j) <= pos + 1 /\ pos + 1 <= To(lx, j)
      BY <1>2
    <3>2. r.t.comment = FALSE
      BY <1>3, <2>3 DEF SameArray
    <3> HIDE DEF s, ch
    <3> QED
      BY <1>4, <1>6, <2>3, <2>5, <2>6, <3>1, <3>2 DEF InWord, s
  <2>8. Fields(r.t) /\ r.t.state = "ARRAY"
    BY <2>3 DEF SameArray
  <2> QED
    BY <1>1, <2>3, <2>4, <2>7, <2>8 DEF InArray
<1> QED
  BY <1>5, <1>6


\* A word goes on.
LEMMA WordGoesOn ==
    ASSUME NEW lx, ArrayFacts(lx, WordCount(lx), Len(lx.text)), SpellsArray(lx),
           NEW t, Fields(t), t.line \in Int, t.state = "ARRAY", NEW pos \in Nat,
           NEW k \in 1..WordCount(lx), InWord(lx, t, pos, k), pos < To(lx, k),
           NEW r, r = TokAddChar(t, lx.text[pos + 1])
    PROVE  /\ r.found = FALSE /\ Fields(r.t) /\ r.t.line = t.line + NL(lx.text[pos + 1])
           /\ InArray(lx, r.t, pos + 1)
<1> DEFINE s == lx.text  n == WordCount(lx)  ch == s[pos + 1]  a == From(lx, k)  b == To(lx, k)
<1>1. n \in Nat /\ Len(s) \in Nat /\ s \in Seq(STRING)
  BY DEF ArrayFacts
<1>2. a \in 1..Len(s) /\ a <= b /\ b \in 1..Len(s)
  <2>1. \A i \in 1..n : From(lx, i) \in 1..Len(s) /\ From(lx, i) <= To(lx, i)
    BY DEF ArrayFacts
  <2>2. \A i \in 0..n : To(lx, i) \in 1..Len(s)
    BY DEF ArrayFacts
  <2>3. k \in 0..n
    BY <1>1
  <2> QED
    BY <2>1, <2>2, <2>3
<1>3. a <= pos /\ pos < b /\ t.comment = FALSE /\ PushedSo(lx, t, k - 1)
  BY DEF InWord
<1>4. CASE Strings(lx)
  <2>1. IsQuoted(s, a, b)
    BY <1>4, ArrayChars
  <2>2. t.atype = "s" /\ t.quoted = TRUE /\ t.cur = SubSeq(s, a + 1, pos)
    BY <1>3, <1>4 DEF InWord
  <2>3. CASE pos + 1 = b
    <3>1. ch = Quote
      BY <2>1, <2>3 DEF IsQuoted
    <3> HIDE DEF ch
    <3>2. /\ r.found = FALSE /\ SameArray(r.t, t) /\ r.t.atype = t.atype /\ r.t.quoted = FALSE
          /\ r.t.cur = t.cur
      <4>1. r = TokAddChar(t, Quote)
        BY <3>1 DEF ch
      <4> QED
        BY <1>3, <2>2, <4>1, CloseQuote
    <3>3. r.t.line = t.line + NL(ch)
      <4>1. NL(ch) = 0
        BY <3>1 DEF NL, Quote
      <4>2. r.t.line = t.line
        BY <3>2 DEF SameArray
      <4> QED
        BY <4>1, <4>2
    <3>4. PushedSo(lx, r.t, k - 1)
      BY <1>3, <3>2, PushedKept DEF SameArray
    <3>5. InWord(lx, r.t, pos + 1, k)
      <4>1. ~(pos + 1 < b) /\ a <= pos + 1 /\ pos + 1 <= b /\ b - 1 = pos
        BY <1>2, <1>3, <2>3
      <4>2. r.t.comment = FALSE
        BY <1>3, <3>2 DEF SameArray
      <4>3. r.t.quoted \in BOOLEAN /\ (r.t.quoted <=> pos + 1 < b)
        BY <3>2, <4>1
      <4>4. r.t.cur = SubSeq(s, a + 1, IF pos + 1 < b THEN pos + 1 ELSE b - 1)
        BY <2>2, <3>2, <4>1
      <4> HIDE DEF s
      <4> QED
        BY <1>4, <2>2, <3>2, <3>4, <4>1, <4>2, <4>3, <4>4 DEF InWord, s
    <3>6. Fields(r.t) /\ r.t.state = "ARRAY"
      BY <3>2 DEF SameArray
    <3> QED
      BY <3>2, <3>3, <3>5, <3>6 DEF InArray, ch
  <2>4. CASE pos + 1 # b
    <3>1. ch # Quote /\ ch # "nl"
      <4>1. pos + 1 \in (a + 1)..(b - 1)
        BY <1>2, <1>3, <2>4
      <4> QED
        BY <2>1, <4>1 DEF IsQuoted
    <3>2. /\ r.found = FALSE /\ SameArray(r.t, t) /\ r.t.atype = t.atype /\ r.t.quoted = t.quoted
          /\ r.t.cur = Append(t.cur, ch)
      <4>1. r = TokAddChar(t, ch)
        OBVIOUS
      <4> HIDE DEF ch
      <4> QED
        BY <1>3, <2>2, <3>1, <4>1, MoreWord
    <3>3. r.t.line = t.line + NL(ch)
      <4>1. NL(ch) = 0
        BY <3>1 DEF NL
      <4>2. r.t.line = t.line
        BY <3>2 DEF SameArray
      <4> QED
        BY <4>1, <4>2
    <3>4. PushedSo(lx, r.t, k - 1)
      BY <1>3, <3>2, PushedKept DEF SameArray
    <3>5. r.t.cur = SubSeq(s, a + 1, pos + 1)
      <4>1. a + 1 \in Nat \ {0} /\ pos \in Nat /\ a + 1 <= pos + 1 /\ pos + 1 <= Len(s)
        BY <1>2, <1>3
      <4>2. Append(SubSeq(s, a + 1, pos), s[pos + 1]) = SubSeq(s, a + 1, pos + 1)
        BY <1>1, <4>1, NextPart
      <4> QED
        BY <2>2, <3>2, <4>2
    <3>6. InWord(lx, r.t, pos + 1, k)
      <4>1. pos + 1 < b /\ a <= pos + 1 /\ pos + 1 <= b
        BY <1>2, <1>3, <2>4
      <4>2. r.t.comment = FALSE
        BY <1>3, <3>2 DEF SameArray
      <4>3. r.t.quoted \in BOOLEAN /\ (r.t.quoted <=> pos + 1 < b)
        BY <2>2, <3>2, <4>1
      <4> HIDE DEF s, ch
      <4> QED
        BY <1>4, <2>2, <3>2, <3>4, <3>5, <4>1, <4>2, <4>3 DEF InWord, s
    <3>7. Fields(r.t) /\ r.t.state = "ARRAY"
      BY <3>2 DEF SameArray
    <3> QED
      BY <3>2, <3>3, <3>6, <3>7 DEF InArray
  <2> QED
    BY <2>3, <2>4
<1>5. CASE ~Strings(lx)
  <2>1. IsBare(s, a, b)
    BY <1>5, ArrayChars
  <2>2. t.quoted = FALSE /\ t.cur = SubSeq(s, a, pos)
    BY <1>5 DEF InWord
  <2>3. ch \notin White \cup {"#", "]", Quote}
    <3>1. pos + 1 \in a..b
      BY <1>2, <1>3
    <3> QED
      BY <2>1, <3>1, Zenon DEF IsBare
  <2>4. /\ r.found = FALSE /\ SameArray(r.t, t) /\ r.t.atype = t.atype /\ r.t.quoted = t.quoted
        /\ r.t.cur = Append(t.cur, ch)
    <3>1. t.quoted \in BOOLEAN /\ (IF t.quoted THEN ch # Quote ELSE ch \notin White \cup {"#", "]", Quote})
      BY <2>2, <2>3
    <3>2. r = TokAddChar(t, ch)
      OBVIOUS
    <3> HIDE DEF ch
    <3> QED
      BY <1>3, <3>1, <3>2, MoreWord
  <2>5. r.t.line = t.line + NL(ch)
    <3>1. NL(ch) = 0
      BY <2>3 DEF NL, White
    <3>2. r.t.line = t.line
      BY <2>4 DEF SameArray
    <3> QED
      BY <3>1, <3>2
  <2>6. PushedSo(lx, r.t, k - 1)
    BY <1>3, <2>4, PushedKept DEF SameArray
  <2>7. r.t.cur = SubSeq(s, a, pos + 1)
    <3>1. a \in Nat \ {0} /\ pos \in Nat /\ a <= pos + 1 /\ pos + 1 <= Len(s)
      BY <1>2, <1>3
    <3>2. Append(SubSeq(s, a, pos), s[pos + 1]) = SubSeq(s, a, pos + 1)
      BY <1>1, <3>1, NextPart
    <3> QED
      BY <2>2, <2>4, <3>2
  <2>8. InWord(lx, r.t, pos + 1, k)
    <3>1. a <= pos + 1 /\ pos + 1 <= b
      BY <1>2, <1>3
    <3>2. r.t.comment = FALSE
      BY <1>3, <2>4 DEF SameArray
    <3> HIDE DEF s, ch
    <3> QED
      BY <1>5, <2>2, <2>4, <2>6, <2>7, <3>1, <3>2 DEF InWord, s
  <2>9. Fields(r.t) /\ r.t.state = "ARRAY"
    BY <2>4 DEF SameArray
  <2> QED
    BY <2>4, <2>5, <2>8, <2>9 DEF InArray
<1> QED
  BY <1>4, <1>5

\* What a word is when it is complete.
LEMMA WordIs ==
    ASSUME NEW lx, ArrayFacts(lx, WordCount(lx), Len(lx.text)),
           NEW t, Fields(t), NEW k \in 1..WordCount(lx), InWord(lx, t, To(lx, k), k)
    PROVE  /\ t.cur = Word(lx, k) /\ t.quoted = FALSE /\ t.comment = FALSE
           /\ Strings(lx) => t.atype = "s"
<1>1. ~(To(lx, k) < To(lx, k))
  <2>1. \A i \in 0..WordCount(lx) : To(lx, i) \in 1..Len(lx.text)
    BY DEF ArrayFacts
  <2>2. WordCount(lx) \in Nat /\ k \in 0..WordCount(lx)
    BY DEF ArrayFacts
  <2>3. To(lx, k) \in Int
    BY <2>1, <2>2
  <2> QED
    BY <2>3
<1>2. t.comment = FALSE
  BY DEF InWord
<1>3. CASE Strings(lx)
  <2> DEFINE a == From(lx, k) + 1  b == To(lx, k)  c == IF b < b THEN b ELSE b - 1
  <2>1. /\ t.atype = "s" /\ t.quoted \in BOOLEAN /\ (t.quoted <=> b < b) /\ t.cur = SubSeq(lx.text, a, c)
    BY <1>3 DEF InWord
  <2>2. c = b - 1
    BY <1>1
  <2>3. Word(lx, k) = SubSeq(lx.text, a, b - 1)
    BY <1>3 DEF Word, Strings
  <2>4. t.quoted = FALSE
    BY <1>1, <2>1
  <2> HIDE DEF a, b, c
  <2> QED
    BY <1>2, <2>1, <2>2, <2>3, <2>4
<1>4. CASE ~Strings(lx)
  BY <1>1, <1>2, <1>4 DEF InWord, Word, Strings
<1> QED
  BY <1>3, <1>4

LEMMA WordTaken ==
    ASSUME NEW lx, ArrayFacts(lx, WordCount(lx), Len(lx.text)), NEW k \in 1..WordCount(lx),
           NEW t, Fields(t), t.cur = Word(lx, k), PushedSo(lx, t, k - 1), Strings(lx) => t.atype = "s",
           NEW u, u = PushElement(t)
    PROVE  Kept(u, t) /\ PushedSo(lx, u, k) /\ (Strings(lx) => u.atype = "s")
<1>1. /\ WordCount(lx) \in Nat
      /\ \A j \in 1..WordCount(lx) : Word(lx, j) \in Seq(STRING) /\ Word(lx, j) # <<>>
      /\ Strings(lx) => \A j \in 1..WordCount(lx) : ~isFloatStr(Word(lx, j))
  BY DEF ArrayFacts
<1> QED
  BY <1>1, PushWord

\* White space ends a word.
LEMMA WordEnds ==
    ASSUME NEW lx, ArrayFacts(lx, WordCount(lx), Len(lx.text)), SpellsArray(lx),
           NEW t, Fields(t), t.line \in Int, t.state = "ARRAY", NEW pos \in Nat,
           NEW k \in 1..WordCount(lx), InWord(lx, t, pos, k), pos = To(lx, k),
           lx.text[pos + 1] \in White, NEW r, r = TokAddChar(t, lx.text[pos + 1])
    PROVE  /\ r.found = FALSE /\ Fields(r.t) /\ r.t.line = t.line + NL(lx.text[pos + 1])
           /\ InArray(lx, r.t, pos + 1) /\ pos + 1 # Len(lx.text)
<1> DEFINE s == lx.text  n == WordCount(lx)  ch == s[pos + 1]  l == Line(t, ch)
<1>1. n \in Nat /\ Len(s) \in Nat /\ s[Len(s)] = "]" /\ From(lx, n + 1) = Len(s) /\ k \in 0..n
  BY DEF ArrayFacts
<1>2. To(lx, k) < From(lx, k + 1) /\ To(lx, k) \in 1..Len(s) /\ From(lx, k + 1) \in 1..Len(s)
  BY <1>1 DEF ArrayFacts
<1>3. t.cur = Word(lx, k) /\ t.quoted = FALSE /\ t.comment = FALSE /\ (Strings(lx) => t.atype = "s")
  BY WordIs
<1>4. PushedSo(lx, t, k - 1)
  BY DEF InWord
<1>5. /\ Fields(l) /\ l.line = t.line + NL(ch) /\ l.state = t.state /\ l.comment = t.comment
      /\ l.cur = t.cur /\ l.atype = t.atype /\ l.quoted = t.quoted /\ SameData(l, t)
  BY LineIs
<1>6. r.found = FALSE /\ r.t = PushElement(l)
  <2>1. r = TokAddChar(t, ch) /\ ch \in White
    OBVIOUS
  <2> HIDE DEF ch
  <2> QED
    BY <1>3, <2>1, WhiteEnds
<1> HIDE DEF l
<1>7. PushedSo(lx, l, k - 1)
  BY <1>4, <1>5, PushedKept
<1>8. Kept(r.t, l) /\ PushedSo(lx, r.t, k) /\ (Strings(lx) => r.t.atype = "s")
  BY <1>3, <1>5, <1>6, <1>7, WordTaken
<1>9. Fields(r.t) /\ r.t.line = t.line + NL(ch) /\ r.t.state = "ARRAY" /\ r.t.comment = FALSE
      /\ r.t.quoted = FALSE /\ r.t.cur = <<>>
  BY <1>3, <1>5, <1>8 DEF Kept
<1>10. pos + 1 < From(lx, k + 1)
  <2>1. ASSUME pos + 1 = From(lx, k + 1) PROVE FALSE
    <3>1. CASE k = n
      <4>1. pos + 1 = Len(s)
        BY <1>1, <2>1, <3>1
      <4>2. ch = "]"
        BY <1>1, <4>1
      <4> QED
        BY <4>2 DEF White
    <3>2. CASE k # n
      <4>1. k + 1 \in 1..n
        BY <1>1, <3>2
      <4>2. From(lx, k + 1) <= To(lx, k + 1)
        BY <4>1 DEF ArrayFacts
      <4>3. ch = Quote \/ ch \notin White
        <5>1. CASE Strings(lx)
          <6>1. IsQuoted(s, From(lx, k + 1), To(lx, k + 1))
            BY <4>1, <5>1, ArrayChars
          <6> QED
            BY <2>1, <6>1 DEF IsQuoted
        <5>2. CASE ~Strings(lx)
          <6>1. IsBare(s, From(lx, k + 1), To(lx, k + 1))
            BY <4>1, <5>2, ArrayChars
          <6>2. \A i \in From(lx, k + 1)..To(lx, k + 1) : s[i] \notin White
            BY <6>1, Zenon DEF IsBare
          <6>3. pos + 1 \in From(lx, k + 1)..To(lx, k + 1)
            <7>1. \A i \in 0..n : To(lx, i) \in 1..Len(s)
              BY DEF ArrayFacts
            <7>2. k + 1 \in 0..n
              BY <4>1, <1>1
            <7>3. To(lx, k + 1) \in 1..Len(s)
              BY <7>1, <7>2
            <7> QED
              BY <1>2, <2>1, <4>2, <7>3
          <6> QED
            BY <6>2, <6>3
        <5> QED
          BY <5>1, <5>2
      <4> QED
        BY <4>3 DEF Quote, White
    <3> QED
      BY <3>1, <3>2
  <2> QED
    BY <1>2, <2>1
<1>11. InGap(lx, r.t, pos + 1, k)
  <2>1. To(lx, k) <= pos + 1 /\ pos + 1 > To(lx, k) /\ To(lx, k) + 1 = pos + 1
    BY <1>2
  <2>2. ~InComment(s, To(lx, k) + 1, pos + 1 + 1)
    <3> DEFINE lo == To(lx, k) + 1
    <3>1. lo \in Nat /\ lo = pos + 1
      BY <2>1
    <3> HIDE DEF lo
    <3>2. InComment(s, lo, lo + 1) <=> s[lo] = "#" \/ (InComment(s, lo, lo) /\ s[lo] # "nl")
      <4>1. lo \in Nat /\ lo <= lo
        BY <3>1
      <4> HIDE DEF s
      <4> QED
        BY <4>1, CommentNext
    <3>3. ~InComment(s, lo, lo)
      BY <3>1, NoCommentYet
    <3>4. s[lo] # "#"
      BY <3>1 DEF White
    <3> QED
      BY <3>1, <3>2, <3>3, <3>4 DEF lo
  <2> QED
    BY <1>8, <1>9, <1>10, <2>1, <2>2 DEF InGap
<1>12. pos + 1 # Len(s)
  BY <1>2, <1>10
<1> QED
  BY <1>1, <1>6, <1>9, <1>11, <1>12 DEF InArray


\* All the words are taken: the array is what the writer meant.
LEMMA ArrayOver ==
    ASSUME NEW lx, ArrayFacts(lx, WordCount(lx), Len(lx.text)), SpellsArray(lx),
           NEW u, Fields(u), u.state = "ARRAY", PushedSo(lx, u, WordCount(lx)),
           Strings(lx) => u.atype = "s", NEW w, w = setDataType(u)
    PROVE  Fields(w) /\ w.line = u.line /\ TokenOf(w, lx.param)
<1> DEFINE n == WordCount(lx)  v == ArrayType(u)  p == lx.param
<1>1. n \in Nat /\ n > 0 /\ n \in 1..n
  <2>1. n \in Nat /\ n > 0
    BY DEF ArrayFacts
  <2> QED
    BY <2>1
<1>2. /\ SubSeq(Words(lx), 1, n) = Words(lx) /\ SubSeq(Atois(lx), 1, n) = Atois(lx)
      /\ SubSeq(Atofs(lx), 1, n) = Atofs(lx)
  BY <1>1, MoreOf
<1>3. w = [v EXCEPT !.cur = <<>>]
  BY DEF setDataType
<1>4. /\ p.type \in {"STRING_ARRAY", "INT_ARRAY", "FLOAT_ARRAY"}
      /\ p.type = "STRING_ARRAY" => p.value = Words(lx)
      /\ p.type = "INT_ARRAY" => ~SomeFloat(lx, n) /\ p.value = Atois(lx)
      /\ p.type = "FLOAT_ARRAY" => SomeFloat(lx, n) /\ p.value = Atofs(lx)
  <2> DEFINE ws == [k \in 1..Len(lx.words) |-> Word(lx, k)]
  <2>1. (CASE p.type = "STRING_ARRAY" -> p = [type |-> "STRING_ARRAY", value |-> ws]
          [] p.type = "INT_ARRAY" ->
               /\ \A k \in 1..Len(lx.words) : ~isFloatStr(ws[k])
               /\ p = [type |-> "INT_ARRAY", value |-> [k \in 1..Len(lx.words) |-> atoi(ws[k])]]
          [] p.type = "FLOAT_ARRAY" ->
               /\ \E k \in 1..Len(lx.words) : isFloatStr(ws[k])
               /\ p = [type |-> "FLOAT_ARRAY", value |-> [k \in 1..Len(lx.words) |-> atof(ws[k])]]
          [] OTHER -> FALSE)
    BY Zenon DEF SpellsArray
  <2>2. n = Len(lx.words) /\ ws = Words(lx) /\ \A k \in 1..n : ws[k] = Word(lx, k)
    BY DEF WordCount, Words
  <2> HIDE DEF n, ws, p
  <2>3. p.type \in {"STRING_ARRAY", "INT_ARRAY", "FLOAT_ARRAY"}
    BY <2>1
  <2>4. ASSUME p.type = "STRING_ARRAY" PROVE p.value = Words(lx)
    <3>1. p = [type |-> "STRING_ARRAY", value |-> ws]
      BY <2>1, <2>4
    <3> QED
      BY <2>2, <3>1
  <2>5. ASSUME p.type = "INT_ARRAY" PROVE ~SomeFloat(lx, n) /\ p.value = Atois(lx)
    <3> DEFINE as == [k \in 1..Len(lx.words) |-> atoi(ws[k])]
    <3>1. (\A k \in 1..Len(lx.words) : ~isFloatStr(ws[k])) /\ p = [type |-> "INT_ARRAY", value |-> as]
      BY <2>1, <2>5
    <3>2. as = Atois(lx)
      BY <2>2 DEF Atois, n
    <3>3. p.value = as
      BY <3>1
    <3> HIDE DEF as
    <3> QED
      BY <2>2, <3>1, <3>2, <3>3 DEF SomeFloat
  <2>6. ASSUME p.type = "FLOAT_ARRAY" PROVE SomeFloat(lx, n) /\ p.value = Atofs(lx)
    <3> DEFINE as == [k \in 1..Len(lx.words) |-> atof(ws[k])]
    <3>1. (\E k \in 1..Len(lx.words) : isFloatStr(ws[k])) /\ p = [type |-> "FLOAT_ARRAY", value |-> as]
      BY <2>1, <2>6
    <3>2. as = Atofs(lx)
      BY <2>2 DEF Atofs, n
    <3>3. p.value = as
      BY <3>1
    <3> HIDE DEF as
    <3> QED
      BY <2>2, <3>1, <3>2, <3>3 DEF SomeFloat
  <2> QED
    BY <2>3, <2>4, <2>5, <2>6
<1> HIDE DEF v
<1>6. CASE Strings(lx)
  <2>1. u.atype = "s" /\ u.strings = Words(lx)
    BY <1>2, <1>6 DEF PushedSo
  <2>2. v = [u EXCEPT !.type = "STRING_ARRAY"]
    BY <2>1 DEF ArrayType, v
  <2>3. Fields(w) /\ w.line = u.line /\ w.type = "STRING_ARRAY" /\ w.strings = u.strings
    BY <1>3, <2>2 DEF Fields
  <2>4. TokenValue(w) = w.strings
    BY <2>3 DEF TokenValue
  <2>5. p.type = "STRING_ARRAY" /\ p.value = Words(lx)
    BY <1>4, <1>6 DEF Strings
  <2> HIDE DEF p
  <2>6. TokenOf(w, p)
    BY <2>1, <2>3, <2>4, <2>5 DEF TokenOf
  <2> QED
    BY <2>3, <2>6 DEF p
<1>7. CASE ~Strings(lx) /\ SomeFloat(lx, n)
  <2>1. u.atype = "f" /\ u.floats = Atofs(lx)
    BY <1>2, <1>7 DEF PushedSo
  <2>2. v = [u EXCEPT !.type = "FLOAT_ARRAY"]
    BY <2>1 DEF ArrayType, v
  <2>3. Fields(w) /\ w.line = u.line /\ w.type = "FLOAT_ARRAY" /\ w.floats = u.floats
    BY <1>3, <2>2 DEF Fields
  <2>4. TokenValue(w) = w.floats
    BY <2>3 DEF TokenValue
  <2>5. p.type = "FLOAT_ARRAY" /\ p.value = Atofs(lx)
    BY <1>4, <1>7 DEF Strings
  <2> HIDE DEF p
  <2>6. TokenOf(w, p)
    BY <2>1, <2>3, <2>4, <2>5 DEF TokenOf
  <2> QED
    BY <2>3, <2>6 DEF p
<1>8. CASE ~Strings(lx) /\ ~SomeFloat(lx, n)
  <2>0. n # 0
    BY <1>1
  <2> HIDE DEF n
  <2>1. u.atype = "i" /\ u.ints = Atois(lx)
    <3>1. u.atype = (IF n = 0 THEN "none" ELSE "i") /\ u.ints = SubSeq(Atois(lx), 1, n)
      BY <1>8 DEF PushedSo, n
    <3> QED
      BY <1>2, <2>0, <3>1
  <2>2. v = [u EXCEPT !.type = "INT_ARRAY"]
    BY <2>1 DEF ArrayType, v
  <2>3. Fields(w) /\ w.line = u.line /\ w.type = "INT_ARRAY" /\ w.ints = u.ints
    BY <1>3, <2>2 DEF Fields
  <2>4. TokenValue(w) = w.ints
    BY <2>3 DEF TokenValue
  <2>5. p.type = "INT_ARRAY" /\ p.value = Atois(lx)
    BY <1>4, <1>8 DEF Strings
  <2> HIDE DEF p
  <2>6. TokenOf(w, p)
    BY <2>1, <2>3, <2>4, <2>5 DEF TokenOf
  <2> QED
    BY <2>3, <2>6 DEF p
<1> QED
  BY <1>6, <1>7, <1>8

\* The bracket, where it ends the last word or stands behind a blank.
LEMMA ArrayEnds ==
    ASSUME NEW lx, ArrayFacts(lx, WordCount(lx), Len(lx.text)), SpellsArray(lx),
           NEW t, Fields(t), t.line \in Int, t.state = "ARRAY", t.quoted = FALSE, t.comment = FALSE,
           LET n == WordCount(lx) IN
           \/ t.cur = <<>> /\ PushedSo(lx, t, n) /\ (Strings(lx) => t.atype = "s")
           \/ t.cur = Word(lx, n) /\ PushedSo(lx, t, n - 1) /\ (Strings(lx) => t.atype = "s"),
           NEW r, r = TokAddChar(t, "]")
    PROVE  r.found = TRUE /\ Fields(r.t) /\ r.t.line = t.line /\ TokenOf(r.t, lx.param)
<1> DEFINE n == WordCount(lx)  u == PushElement(t)
<1>1. n \in 1..n
  BY DEF ArrayFacts
<1>2. r.found = TRUE /\ r.t = setDataType(u)
  BY BracketEnds
<1>3. Fields(u) /\ u.line = t.line /\ u.state = "ARRAY" /\ PushedSo(lx, u, n) /\ (Strings(lx) => u.atype = "s")
  <2>1. CASE t.cur = <<>> /\ PushedSo(lx, t, n) /\ (Strings(lx) => t.atype = "s")
    <3>1. u = t
      BY <2>1 DEF PushElement
    <3> QED
      BY <2>1, <3>1
  <2>2. CASE t.cur = Word(lx, n) /\ PushedSo(lx, t, n - 1) /\ (Strings(lx) => t.atype = "s")
    <3>1. Kept(u, t) /\ PushedSo(lx, u, n) /\ (Strings(lx) => u.atype = "s")
      BY <1>1, <2>2, WordTaken
    <3> QED
      BY <3>1 DEF Kept
  <2> QED
    BY <2>1, <2>2
<1> HIDE DEF u
<1>4. Fields(r.t) /\ r.t.line = u.line /\ TokenOf(r.t, lx.param)
  BY <1>2, <1>3, ArrayOver
<1> QED
  BY <1>2, <1>3, <1>4

(* One character of an array: the array goes on, or the last character has *)
(* been read and the token is what the writer meant.                       *)
LEMMA ArrayStep ==
    ASSUME NEW lx, ArrayFacts(lx, WordCount(lx), Len(lx.text)), SpellsArray(lx),
           NEW t, Fields(t), t.line \in Int, NEW pos \in Nat, 0 < pos, pos < Len(lx.text),
           InArray(lx, t, pos), NEW r, r = TokAddChar(t, lx.text[pos + 1])
    PROVE  /\ Fields(r.t) /\ r.t.line = t.line + NL(lx.text[pos + 1])
           /\ pos + 1 # Len(lx.text) => r.found = FALSE /\ InArray(lx, r.t, pos + 1)
           /\ pos + 1 = Len(lx.text) => r.found = TRUE /\ TokenOf(r.t, lx.param)
<1> DEFINE s == lx.text  n == WordCount(lx)  ch == s[pos + 1]  L == Len(s)
<1>0. t.state = "ARRAY" /\ n \in Nat /\ n > 0 /\ L \in Nat /\ s[L] = "]" /\ From(lx, n + 1) = L
  BY DEF InArray, ArrayFacts
<1>1. /\ \A i \in 0..n : To(lx, i) \in 1..L /\ From(lx, i + 1) \in 1..L /\ To(lx, i) < From(lx, i + 1)
      /\ \A i \in 1..n : From(lx, i) \in 1..L /\ From(lx, i) <= To(lx, i)
  BY DEF ArrayFacts
<1> HIDE DEF ch, n, L
<1>11. r = TokAddChar(t, ch) /\ ch = lx.text[pos + 1] /\ n = WordCount(lx) /\ L = Len(lx.text)
  BY DEF ch, n, L
<1>2. ASSUME NEW k \in 0..n, InGap(lx, t, pos, k), pos + 1 < From(lx, k + 1)
      PROVE  r.found = FALSE /\ Fields(r.t) /\ r.t.line = t.line + NL(ch) /\ InArray(lx, r.t, pos + 1)
             /\ pos + 1 # L
  <2>1. r.found = FALSE /\ Fields(r.t) /\ r.t.line = t.line + NL(ch) /\ InArray(lx, r.t, pos + 1)
    <3>1. k \in 0..WordCount(lx) /\ InGap(lx, t, pos, k) /\ pos + 1 < From(lx, k + 1)
      BY <1>2 DEF n
    <3>2. t.state = "ARRAY"
      BY <1>0
    <3>3. /\ r.found = FALSE /\ Fields(r.t) /\ r.t.line = t.line + NL(lx.text[pos + 1])
          /\ InArray(lx, r.t, pos + 1)
      BY <3>1, <3>2, GapBlank
    <3> QED
      BY <3>3 DEF ch
  <2>2. From(lx, k + 1) \in 1..L
    BY <1>1
  <2> QED
    BY <1>2, <2>1, <2>2
<1>3. ASSUME NEW k \in 0..n, InGap(lx, t, pos, k), pos + 1 = From(lx, k + 1), k # n
      PROVE  r.found = FALSE /\ Fields(r.t) /\ r.t.line = t.line + NL(ch) /\ InArray(lx, r.t, pos + 1)
             /\ pos + 1 # L
  <2>1. r.found = FALSE /\ Fields(r.t) /\ r.t.line = t.line + NL(ch) /\ InArray(lx, r.t, pos + 1)
    <3>1. k \in 0..WordCount(lx) /\ InGap(lx, t, pos, k) /\ pos + 1 = From(lx, k + 1) /\ k # WordCount(lx)
      BY <1>3 DEF n
    <3>2. t.state = "ARRAY"
      BY <1>0
    <3>3. /\ r.found = FALSE /\ Fields(r.t) /\ r.t.line = t.line + NL(lx.text[pos + 1])
          /\ InArray(lx, r.t, pos + 1)
      BY <3>1, <3>2, WordBegins
    <3> QED
      BY <3>3 DEF ch
  <2>2. k + 1 \in 1..n /\ k + 1 \in 0..n
    BY <1>0, <1>3
  <2>3. From(lx, k + 1) <= To(lx, k + 1) /\ To(lx, k + 1) < From(lx, k + 1 + 1)
        /\ From(lx, k + 1 + 1) \in 1..L /\ To(lx, k + 1) \in 1..L /\ From(lx, k + 1) \in 1..L
    BY <1>1, <2>2
  <2>4. pos + 1 # L
    BY <1>0, <1>3, <2>3
  <2> QED
    BY <2>1, <2>4
<1>4. ASSUME NEW k \in 0..n, InGap(lx, t, pos, k), pos + 1 = From(lx, k + 1), k = n
      PROVE  r.found = TRUE /\ Fields(r.t) /\ r.t.line = t.line + NL(ch) /\ TokenOf(r.t, lx.param)
             /\ pos + 1 = L
  <2>1. pos + 1 = L /\ ch = "]"
    BY <1>0, <1>11, <1>4
  <2>2. t.comment = FALSE
    BY <1>11, <1>4, GapEnds
  <2>3. t.quoted = FALSE /\ t.cur = <<>> /\ PushedSo(lx, t, n) /\ (Strings(lx) => t.atype = "s")
    BY <1>0, <1>4 DEF InGap
  <2>4. r = TokAddChar(t, "]")
    BY <1>11, <2>1
  <2>5. r.found = TRUE /\ Fields(r.t) /\ r.t.line = t.line /\ TokenOf(r.t, lx.param)
    BY <1>0, <2>2, <2>3, <2>4, ArrayEnds DEF n
  <2>6. NL(ch) = 0
    BY <2>1 DEF NL
  <2> QED
    BY <2>1, <2>5, <2>6
<1>5. ASSUME NEW k \in 1..n, InWord(lx, t, pos, k), pos < To(lx, k)
      PROVE  r.found = FALSE /\ Fields(r.t) /\ r.t.line = t.line + NL(ch) /\ InArray(lx, r.t, pos + 1)
             /\ pos + 1 # L
  <2>1. r.found = FALSE /\ Fields(r.t) /\ r.t.line = t.line + NL(ch) /\ InArray(lx, r.t, pos + 1)
    <3>1. k \in 1..WordCount(lx) /\ InWord(lx, t, pos, k) /\ pos < To(lx, k)
      BY <1>5 DEF n
    <3>2. t.state = "ARRAY"
      BY <1>0
    <3>3. /\ r.found = FALSE /\ Fields(r.t) /\ r.t.line = t.line + NL(lx.text[pos + 1])
          /\ InArray(lx, r.t, pos + 1)
      BY <3>1, <3>2, WordGoesOn
    <3> QED
      BY <3>3 DEF ch
  <2>2. k \in 0..n
    BY <1>0
  <2>3. To(lx, k) < From(lx, k + 1) /\ From(lx, k + 1) \in 1..L /\ To(lx, k) \in 1..L
    BY <1>1, <2>2
  <2> QED
    BY <1>5, <2>1, <2>3
<1>6. ASSUME NEW k \in 1..n, InWord(lx, t, pos, k), pos = To(lx, k), ch \in White
      PROVE  r.found = FALSE /\ Fields(r.t) /\ r.t.line = t.line + NL(ch) /\ InArray(lx, r.t, pos + 1)
             /\ pos + 1 # L
  BY <1>0, <1>6, Zenon, WordEnds DEF n, L, ch
<1>7. ASSUME NEW k \in 1..n, InWord(lx, t, pos, k), pos = To(lx, k), k = n, ch = "]"
      PROVE  r.found = TRUE /\ Fields(r.t) /\ r.t.line = t.line + NL(ch) /\ TokenOf(r.t, lx.param)
             /\ pos + 1 = L
  <2>1. t.cur = Word(lx, n) /\ t.quoted = FALSE /\ t.comment = FALSE /\ (Strings(lx) => t.atype = "s")
    BY <1>11, <1>7, WordIs
  <2>2. PushedSo(lx, t, n - 1)
    BY <1>7 DEF InWord
  <2>3. r = TokAddChar(t, "]")
    BY <1>11, <1>7
  <2>4. r.found = TRUE /\ Fields(r.t) /\ r.t.line = t.line /\ TokenOf(r.t, lx.param)
    BY <1>0, <2>1, <2>2, <2>3, ArrayEnds DEF n
  <2>5. NL(ch) = 0
    BY <1>7 DEF NL
  <2>6. pos + 1 = L
    <3>1. n \in 0..n
      BY <1>0
    <3>2. pos < L /\ pos \in 1..L
      BY <1>11, <1>1, <1>7, <3>1
    <3>3. Blank(s, pos + 1, L - 1)
      <4>1. Blank(s, To(lx, n) + 1, From(lx, n + 1) - 1)
        BY <3>1, ArrayChars DEF n
      <4> QED
        BY <1>0, <1>7, <4>1
    <3>4. ASSUME pos + 1 # L PROVE FALSE
      <4>1. pos + 1 \in (pos + 1)..(L - 1)
        BY <1>0, <3>2, <3>4
      <4>2. ch \in White \cup {"#"} \/ InComment(s, pos + 1, pos + 1)
        BY <1>11, <3>3, <4>1, Zenon DEF Blank
      <4>3. ~InComment(s, pos + 1, pos + 1)
        <5>1. pos + 1 \in Nat
          OBVIOUS
        <5> QED
          BY <5>1, NoCommentYet
      <4> QED
        BY <1>11, <1>7, <4>2, <4>3 DEF White
    <3> QED
      BY <3>4
  <2> QED
    BY <2>4, <2>5, <2>6
<1>8. CASE \E k \in 0..n : InGap(lx, t, pos, k)
  <2>1. PICK k \in 0..n : InGap(lx, t, pos, k)
    BY <1>8
  <2>2. pos < From(lx, k + 1) /\ From(lx, k + 1) \in 1..L
    BY <1>1, <2>1 DEF InGap
  <2>3. pos + 1 < From(lx, k + 1) \/ pos + 1 = From(lx, k + 1)
    BY <2>2
  <2> QED
    BY <1>11, <1>2, <1>3, <1>4, <2>1, <2>3
<1>9. CASE \E k \in 1..n : InWord(lx, t, pos, k)
  <2>1. PICK k \in 1..n : InWord(lx, t, pos, k)
    BY <1>9
  <2>2. pos <= To(lx, k) /\ To(lx, k) \in Int
    <3>1. k \in 0..n
      BY <1>0
    <3>2. To(lx, k) \in 1..L
      BY <1>1, <3>1
    <3> QED
      BY <2>1, <3>2 DEF InWord
  <2>3. pos < To(lx, k) \/ pos = To(lx, k)
    BY <2>2
  <2>4. s[To(lx, k) + 1] \in White \/ (k = n /\ s[To(lx, k) + 1] = "]")
    BY <1>11, ArrayChars
  <2>5. ch \in White \/ (k = n /\ ch = "]") \/ pos # To(lx, k)
    BY <1>11, <2>4
  <2> QED
    BY <1>11, <1>5, <1>6, <1>7, <2>1, <2>3, <2>5
<1> QED
  BY <1>11, <1>8, <1>9 DEF InArray

\* The bracket that begins an array.
LEMMA ArrayBegins ==
    ASSUME NEW lx, ArrayFacts(lx, WordCount(lx), Len(lx.text)),
           NEW t, Fields(t), t.state = "ARRAY", t.cur = <<>>, t.quoted = FALSE, t.comment = FALSE,
           t.atype = "none", t.ints = <<>>, t.floats = <<>>, t.strings = <<>>
    PROVE  InArray(lx, t, 1)
<1> DEFINE n == WordCount(lx)
<1>1. n \in Nat /\ n > 0 /\ To(lx, 0) = 1 /\ 0 \in 0..n
  BY DEF ArrayFacts
<1>2. To(lx, 0) < From(lx, 0 + 1)
  BY <1>1 DEF ArrayFacts
<1>3. PushedSo(lx, t, 0)
  <2>1. /\ SubSeq(Words(lx), 1, 0) = <<>> /\ SubSeq(Atois(lx), 1, 0) = <<>>
        /\ SubSeq(Atofs(lx), 1, 0) = <<>>
    <3>1. 1 \in 1..n
      BY <1>1
    <3> QED
      BY <1>1, <3>1, MoreOf
  <2>2. ~SomeFloat(lx, 0)
    BY DEF SomeFloat
  <2> QED
    BY <2>1, <2>2 DEF PushedSo
<1>4. ~InComment(lx.text, To(lx, 0) + 1, 1 + 1)
  BY <1>1, NoCommentYet
<1>5. InGap(lx, t, 1, 0)
  <2>1. ~(0 > 0) /\ 1 < From(lx, 0 + 1) /\ To(lx, 0) <= 1
    BY <1>1, <1>2
  <2> QED
    BY <1>3, <1>4, <2>1 DEF InGap
<1> QED
  BY <1>1, <1>5 DEF InArray


----------------------------------------------------------------------------
(* Lexemes and what stands between them.                                   *)

Open(lx) == lx.param.type \in {"name", "INT", "FLOAT"}

\* The number of the character that completes the token.
LastOf(lx) == IF Open(lx) THEN Len(lx.text) + 1 ELSE Len(lx.text)

LexemeFacts(lx, L) ==
    /\ lx.text \in Seq(STRING) /\ L = Len(lx.text) /\ L \in Nat /\ L > 0
    /\ lx.param = [type |-> lx.param.type, value |-> lx.param.value]
    /\ Open(lx) => SpellsPlain(lx.text, lx.param)
    /\ ~Open(lx) /\ lx.param.type = "STRING" =>
           IsQuoted(lx.text, 1, L) /\ lx.param.value = SubSeq(lx.text, 2, L - 1) /\ L > 1
    /\ ~Open(lx) /\ lx.param.type # "STRING" =>
           SpellsArray(lx) /\ ArrayFacts(lx, WordCount(lx), L)
    /\ lx.param.type \in {"name", "INT", "FLOAT", "STRING", "STRING_ARRAY", "INT_ARRAY", "FLOAT_ARRAY"}
    /\ lx.param.type = "name" => lx.param.value = lx.text

LEMMA PlainIs ==
    ASSUME NEW s \in Seq(STRING), NEW p, SpellsPlain(s, p)
    PROVE  /\ p.type \in {"name", "INT", "FLOAT"} /\ p = [type |-> p.type, value |-> p.value]
           /\ p.type = "name" => p.value = s
           /\ s # <<>> /\ s[1] \notin {Quote, "["}
           /\ \A i \in DOMAIN s : s[i] \notin White \cup {"#"}
<1>1. s # <<>> /\ s[1] \notin {Quote, "["} /\ \A i \in DOMAIN s : s[i] \notin White \cup {"#"}
  BY Zenon DEF SpellsPlain
<1>2. CASE isIntStr(s)
  <2>1. p = [type |-> "INT", value |-> atoi(s)]
    BY <1>2 DEF SpellsPlain
  <2>2. p.type = "INT" /\ p.value = atoi(s)
    BY <2>1
  <2> QED
    BY <1>1, <2>1, <2>2
<1>3. CASE ~isIntStr(s) /\ isFloatStr(s)
  <2>1. p = [type |-> "FLOAT", value |-> atof(s)]
    BY <1>3 DEF SpellsPlain
  <2>2. p.type = "FLOAT" /\ p.value = atof(s)
    BY <2>1
  <2> QED
    BY <1>1, <2>1, <2>2
<1>4. CASE ~isIntStr(s) /\ ~isFloatStr(s)
  <2>1. p = [type |-> "name", value |-> s]
    BY <1>4 DEF SpellsPlain
  <2>2. p.type = "name" /\ p.value = s
    BY <2>1
  <2> QED
    BY <1>1, <2>1, <2>2
<1> QED
  BY <1>2, <1>3, <1>4

LEMMA ArrayParam ==
    ASSUME NEW lx, SpellsArray(lx)
    PROVE  /\ lx.param.type \in {"STRING_ARRAY", "INT_ARRAY", "FLOAT_ARRAY"}
           /\ lx.param = [type |-> lx.param.type, value |-> lx.param.value]
<1> DEFINE ws == [k \in 1..Len(lx.words) |-> Word(lx, k)]  p == lx.param
           is == [k \in 1..Len(lx.words) |-> atoi(ws[k])]
           fs == [k \in 1..Len(lx.words) |-> atof(ws[k])]
<1>1. (CASE p.type = "STRING_ARRAY" -> p = [type |-> "STRING_ARRAY", value |-> ws]
         [] p.type = "INT_ARRAY" ->
              /\ \A k \in 1..Len(lx.words) : ~isFloatStr(ws[k])
              /\ p = [type |-> "INT_ARRAY", value |-> is]
         [] p.type = "FLOAT_ARRAY" ->
              /\ \E k \in 1..Len(lx.words) : isFloatStr(ws[k])
              /\ p = [type |-> "FLOAT_ARRAY", value |-> fs]
         [] OTHER -> FALSE)
  BY Zenon DEF SpellsArray
<1> HIDE DEF ws, p, is, fs
<1>2. p.type \in {"STRING_ARRAY", "INT_ARRAY", "FLOAT_ARRAY"}
  BY <1>1
<1>3. \/ p = [type |-> "STRING_ARRAY", value |-> ws] \/ p = [type |-> "INT_ARRAY", value |-> is]
      \/ p = [type |-> "FLOAT_ARRAY", value |-> fs]
  BY <1>1, <1>2
<1>4. p = [type |-> p.type, value |-> p.value]
  BY <1>3
<1> QED
  BY <1>2, <1>4 DEF p

LEMMA LexemeIs == ASSUME NEW lx \in Lexemes PROVE LexemeFacts(lx, Len(lx.text))
<1> DEFINE s == lx.text  L == Len(s)  p == lx.param
<1>1. /\ s \in Seq(STRING) /\ lx.words \in Seq((DOMAIN s) \X (DOMAIN s)) /\ L \in Nat
      /\ SpellsPlain(s, p) \/ SpellsString(s, p) \/ SpellsArray(lx)
  <2>1. /\ lx.text \in Seq(STRING) /\ lx.words \in Seq((DOMAIN lx.text) \X (DOMAIN lx.text))
        /\ SpellsPlain(lx.text, lx.param) \/ SpellsString(lx.text, lx.param) \/ SpellsArray(lx)
    BY RibAssumption, Zenon
  <2>2. Len(lx.text) \in Nat
    BY <2>1
  <2> QED
    BY <2>1, <2>2
<1>2. CASE SpellsPlain(s, p)
  <2>1. /\ p.type \in {"name", "INT", "FLOAT"} /\ p = [type |-> p.type, value |-> p.value]
        /\ p.type = "name" => p.value = s
        /\ s # <<>>
    BY <1>1, <1>2, PlainIs
  <2>2. L > 0
    BY <1>1, <2>1
  <2>3. Open(lx)
    BY <2>1 DEF Open
  <2> HIDE DEF s, L, p
  <2> QED
    BY <1>1, <1>2, <2>1, <2>2, <2>3 DEF LexemeFacts, s, L, p
<1>3. CASE SpellsString(s, p)
  <2>1. s # <<>> /\ IsQuoted(s, 1, L) /\ p = [type |-> "STRING", value |-> SubSeq(s, 2, L - 1)]
    BY <1>3 DEF SpellsString
  <2> DEFINE v == SubSeq(s, 2, L - 1)
  <2>2. p = [type |-> "STRING", value |-> v]
    BY <2>1
  <2> HIDE DEF v, p
  <2>3. p.type = "STRING" /\ p.value = v /\ p = [type |-> p.type, value |-> p.value]
    BY <2>2
  <2>4. L > 0 /\ L > 1
    BY <1>1, <2>1 DEF IsQuoted
  <2>5. ~Open(lx)
    BY <2>3 DEF Open, p
  <2> QED
    BY <1>1, <2>1, <2>3, <2>4, <2>5 DEF LexemeFacts, p, v
<1>4. CASE SpellsArray(lx)
  <2>1. p.type \in {"STRING_ARRAY", "INT_ARRAY", "FLOAT_ARRAY"} /\ p = [type |-> p.type, value |-> p.value]
    BY <1>4, ArrayParam
  <2>2. ~Open(lx)
    BY <2>1 DEF Open
  <2>3. ArrayFacts(lx, WordCount(lx), L)
    BY <1>1, <1>4, ArrayIs
  <2>4. L > 0
    BY <2>3 DEF ArrayFacts
  <2> HIDE DEF s, L, p
  <2>5. p.type # "STRING" /\ p.type # "name"
    BY <2>1
  <2> QED
    BY <1>1, <1>4, <2>1, <2>2, <2>3, <2>4, <2>5 DEF LexemeFacts, s, L, p
<1> QED
  BY <1>1, <1>2, <1>3, <1>4

BlankFacts(b) ==
    /\ b \in Seq(STRING) /\ Len(b) \in Nat /\ (b # <<>> => b[1] \in White /\ Len(b) > 0)
    /\ Blank(b, 1, Len(b))

LEMMA BlankIs == ASSUME NEW b \in Blanks \cup {<<>>} PROVE BlankFacts(b)
<1>1. CASE b \in Blanks
  <2>1. b \in Seq(STRING) /\ b # <<>> /\ b[1] \in White /\ Blank(b, 1, Len(b))
    BY <1>1, RibAssumption
  <2>2. Len(b) \in Nat /\ Len(b) > 0
    BY <2>1
  <2> QED
    BY <2>1, <2>2 DEF BlankFacts
<1>2. CASE b = <<>>
  <2>1. b \in Seq(STRING) /\ Len(b) = 0
    BY <1>2
  <2>2. Blank(b, 1, 0)
    <3>1. 1..0 = {}
      OBVIOUS
    <3>2. ~InComment(b, 1, 1)
      BY NoCommentYet
    <3>3. 0 + 1 = 1
      OBVIOUS
    <3> QED
      BY <3>1, <3>2, <3>3 DEF Blank
  <2> QED
    BY <1>2, <2>1, <2>2 DEF BlankFacts
<1> QED
  BY <1>1, <1>2

----------------------------------------------------------------------------
(* The tokenizer when pos characters of a lexeme and its blank are read.   *)

Clear(t) == t.state = "UNKNOWN" /\ t.cur = <<>> /\ t.quoted = FALSE

TokAt(lx, b, t, pos) ==
    IF pos = 0 THEN Clear(t) /\ t.comment = FALSE
    ELSE IF pos >= LastOf(lx)
    THEN /\ Clear(t) /\ t.comment \in BOOLEAN
         /\ t.comment <=> InComment(b, 1, pos - Len(lx.text) + 1)
    ELSE IF Open(lx)
    THEN /\ t.state = "NORMAL" /\ t.cur = SubSeq(lx.text, 1, pos)
         /\ t.quoted = FALSE /\ t.comment = FALSE
    ELSE IF lx.param.type = "STRING"
    THEN /\ t.state = "STRING" /\ t.cur = SubSeq(lx.text, 2, pos)
         /\ t.quoted = FALSE /\ t.comment = FALSE
    ELSE InArray(lx, t, pos)

\* After one character more.
Stepped(lx, b, t, pos, ch, r) ==
    /\ Fields(r.t) /\ r.t.line = t.line + NL(ch)
    /\ pos + 1 = LastOf(lx) => r.found = TRUE /\ TokenOf(r.t, lx.param)
    /\ pos + 1 # LastOf(lx) => r.found = FALSE /\ TokAt(lx, b, r.t, pos + 1)

LEMMA PlainStep ==
    ASSUME NEW lx, LexemeFacts(lx, Len(lx.text)), Open(lx), NEW b, BlankFacts(b),
           NEW t, Fields(t), t.line \in Int, NEW pos \in Nat, pos < Len(lx.text), TokAt(lx, b, t, pos),
           NEW ch, ch = lx.text[pos + 1], NEW r, r = TokAddChar(t, ch)
    PROVE  Stepped(lx, b, t, pos, ch, r)
<1> DEFINE s == lx.text  L == Len(s)
<1>0. Fields(t) /\ t.line \in Int /\ r = TokAddChar(t, ch)
  OBVIOUS
<1>1. s \in Seq(STRING) /\ L \in Nat /\ LastOf(lx) = L + 1 /\ SpellsPlain(s, lx.param)
  BY DEF LexemeFacts, LastOf
<1>2. s[1] \notin {Quote, "["} /\ \A i \in DOMAIN s : s[i] \notin White \cup {"#"}
  BY <1>1, PlainIs
<1>3. ch \notin White \cup {"#"} /\ pos + 1 # LastOf(lx) /\ ~(pos + 1 >= LastOf(lx)) /\ pos + 1 # 0
  <2>1. pos + 1 \in DOMAIN s
    BY <1>1
  <2>2. ch \notin White \cup {"#"}
    BY <1>2, <2>1
  <2> QED
    BY <1>1, <2>2
<1>4. NL(ch) = 0
  BY <1>3 DEF NL, White
<1>5. /\ r.found = FALSE /\ Fields(r.t) /\ r.t.line = t.line /\ r.t.state = "NORMAL"
      /\ r.t.cur = SubSeq(s, 1, pos + 1) /\ r.t.quoted = FALSE /\ r.t.comment = FALSE
  <2>1. Append(SubSeq(s, 1, pos), s[pos + 1]) = SubSeq(s, 1, pos + 1)
    BY <1>1, NextPart
  <2>2. CASE pos = 0
    <3>1. t.state = "UNKNOWN" /\ t.cur = <<>> /\ t.quoted = FALSE /\ t.comment = FALSE
      BY <2>2 DEF TokAt, Clear
    <3>2. ch = s[1] /\ ch \notin White \cup {"#", Quote, "["}
      BY <1>2, <1>3, <2>2
    <3>3. SubSeq(s, 1, pos) = <<>>
      BY <1>1, <2>2, NoPart
    <3>4. Append(<<>>, ch) = <<ch>>
      OBVIOUS
    <3>5. PlainTok(r, t, "NORMAL", <<ch>>)
      BY <1>0, <3>1, <3>2, StartPlain
    <3> QED
      BY <2>1, <3>3, <3>4, <3>5 DEF PlainTok
  <2>3. CASE pos # 0
    <3>1. /\ t.state = "NORMAL" /\ t.cur = SubSeq(s, 1, pos) /\ t.quoted = FALSE /\ t.comment = FALSE
      <4>1. ~(pos >= LastOf(lx))
        BY <1>1
      <4> QED
        BY <2>3, <4>1 DEF TokAt
    <3>2. PlainTok(r, t, "NORMAL", Append(t.cur, ch))
      BY <1>0, <1>3, <3>1, MorePlain
    <3> QED
      BY <2>1, <3>1, <3>2 DEF PlainTok
  <2> QED
    BY <2>2, <2>3
<1>6. TokAt(lx, b, r.t, pos + 1)
  BY <1>3, <1>5 DEF TokAt
<1>7. r.t.line = t.line + NL(ch)
  BY <1>4, <1>5
<1> QED
  BY <1>3, <1>5, <1>6, <1>7 DEF Stepped

\* A name or a number is complete with the white space behind it.
LEMMA PlainEnds ==
    ASSUME NEW lx, LexemeFacts(lx, Len(lx.text)), Open(lx), NEW b,
           NEW t, Fields(t), t.line \in Int, NEW pos \in Nat, pos = Len(lx.text), TokAt(lx, b, t, pos),
           NEW ch, ch \in White, NEW r, r = TokAddChar(t, ch)
    PROVE  Stepped(lx, b, t, pos, ch, r)
<1> DEFINE s == lx.text  L == Len(s)
<1>1. s \in Seq(STRING) /\ L \in Nat /\ L > 0 /\ LastOf(lx) = L + 1 /\ SpellsPlain(s, lx.param)
  BY DEF LexemeFacts, LastOf
<1>2. /\ t.state = "NORMAL" /\ t.cur = SubSeq(s, 1, pos) /\ t.quoted = FALSE /\ t.comment = FALSE
  <2>1. ~(pos >= LastOf(lx)) /\ pos # 0
    BY <1>1
  <2> QED
    BY <2>1 DEF TokAt
<1>3. t.cur = s
  BY <1>1, <1>2, WholePart
<1>4. r.found = TRUE /\ Fields(r.t) /\ r.t.line = t.line + NL(ch) /\ TokenOf(r.t, lx.param)
  <2>1. SpellsPlain(t.cur, lx.param)
    BY <1>1, <1>3
  <2> QED
    BY <1>2, <2>1, EndPlain
<1> QED
  BY <1>1, <1>4 DEF Stepped

LEMMA StringStep ==
    ASSUME NEW lx, LexemeFacts(lx, Len(lx.text)), ~Open(lx), lx.param.type = "STRING", NEW b,
           NEW t, Fields(t), t.line \in Int, NEW pos \in Nat, pos < Len(lx.text), TokAt(lx, b, t, pos),
           NEW ch, ch = lx.text[pos + 1], NEW r, r = TokAddChar(t, ch)
    PROVE  Stepped(lx, b, t, pos, ch, r)
<1> DEFINE s == lx.text  L == Len(s)
<1>0. Fields(t) /\ t.line \in Int /\ r = TokAddChar(t, ch)
  OBVIOUS
<1>1. /\ s \in Seq(STRING) /\ L \in Nat /\ L > 1 /\ LastOf(lx) = L /\ IsQuoted(s, 1, L)
      /\ lx.param.value = SubSeq(s, 2, L - 1)
  BY DEF LexemeFacts, LastOf
<1>2. s[1] = Quote /\ s[L] = Quote /\ \A i \in 2..(L - 1) : s[i] # Quote /\ s[i] # "nl"
  <2>1. 1 + 1 = 2
    OBVIOUS
  <2> QED
    BY <1>1, <2>1 DEF IsQuoted
<1>3. CASE pos = 0
  <2>1. t.state = "UNKNOWN" /\ t.cur = <<>> /\ t.quoted = FALSE /\ t.comment = FALSE
    BY <1>3 DEF TokAt, Clear
  <2>2. ch = Quote
    BY <1>2, <1>3
  <2>3. r = TokAddChar(t, Quote)
    BY <2>2
  <2>4. /\ r.found = FALSE /\ Fields(r.t) /\ r.t.line = t.line /\ r.t.state = "STRING"
        /\ r.t.cur = <<>> /\ r.t.quoted = FALSE /\ r.t.comment = FALSE
    <3>1. PlainTok(r, t, "STRING", <<>>)
      BY <2>1, <2>3, StartString
    <3> QED
      BY <3>1 DEF PlainTok
  <2>5. NL(ch) = 0
    BY <2>2 DEF NL, Quote
  <2>6. r.t.line = t.line + NL(ch)
    BY <2>4, <2>5
  <2>7. SubSeq(s, 2, pos + 1) = <<>>
    BY <1>1, <1>3, NoPart
  <2>8. pos + 1 # LastOf(lx) /\ ~(pos + 1 >= LastOf(lx)) /\ pos + 1 # 0
    <3>1. pos + 1 = 1
      BY <1>3
    <3>2. LastOf(lx) \in Nat /\ LastOf(lx) > 1
      BY <1>1
    <3> QED
      BY <3>1, <3>2
  <2>9. TokAt(lx, b, r.t, pos + 1)
    BY <2>4, <2>7, <2>8 DEF TokAt
  <2> QED
    BY <2>4, <2>6, <2>8, <2>9 DEF Stepped
<1>4. ASSUME pos # 0
      PROVE  t.state = "STRING" /\ t.cur = SubSeq(s, 2, pos) /\ t.quoted = FALSE /\ t.comment = FALSE
  <2>1. ~(pos >= LastOf(lx))
    BY <1>1
  <2> QED
    BY <1>4, <2>1 DEF TokAt
<1>5. CASE pos # 0 /\ pos + 1 # L
  <2>1. ch # Quote /\ ch # "nl"
    <3>1. pos + 1 \in 2..(L - 1)
      BY <1>1, <1>5
    <3> QED
      BY <1>2, <3>1
  <2>2. /\ r.found = FALSE /\ Fields(r.t) /\ r.t.line = t.line /\ r.t.state = "STRING"
        /\ r.t.cur = Append(t.cur, ch) /\ r.t.quoted = FALSE /\ r.t.comment = FALSE
    <3>1. PlainTok(r, t, "STRING", Append(t.cur, ch))
      BY <1>0, <1>4, <1>5, <2>1, MoreString
    <3> QED
      BY <3>1 DEF PlainTok
  <2>3. NL(ch) = 0
    BY <2>1 DEF NL
  <2>4. r.t.line = t.line + NL(ch)
    BY <2>2, <2>3
  <2>5. Append(SubSeq(s, 2, pos), s[pos + 1]) = SubSeq(s, 2, pos + 1)
    <3>1. 2 \in Nat \ {0} /\ 2 <= pos + 1 /\ pos + 1 <= L
      BY <1>1, <1>5
    <3> QED
      BY <1>1, <3>1, NextPart
  <2>6. pos + 1 # LastOf(lx) /\ ~(pos + 1 >= LastOf(lx)) /\ pos + 1 # 0
    BY <1>1, <1>5
  <2>7. r.t.cur = SubSeq(s, 2, pos + 1)
    BY <1>4, <1>5, <2>2, <2>5
  <2>8. TokAt(lx, b, r.t, pos + 1)
    BY <2>2, <2>6, <2>7 DEF TokAt
  <2> QED
    BY <2>2, <2>4, <2>6, <2>8 DEF Stepped
<1>6. CASE pos # 0 /\ pos + 1 = L
  <2>1. ch = Quote /\ pos = L - 1
    BY <1>1, <1>2, <1>6
  <2>2. lx.param.value = t.cur
    BY <1>1, <1>4, <1>6, <2>1
  <2>3. r = TokAddChar(t, Quote)
    BY <2>1
  <2>4. r.found = TRUE /\ Fields(r.t) /\ r.t.line = t.line /\ TokenOf(r.t, lx.param)
    BY <1>4, <1>6, <2>2, <2>3, EndString
  <2>5. NL(ch) = 0
    BY <2>1 DEF NL, Quote
  <2>6. r.t.line = t.line + NL(ch)
    BY <2>4, <2>5
  <2> QED
    BY <1>1, <1>6, <2>4, <2>6 DEF Stepped
<1> QED
  BY <1>3, <1>5, <1>6


LEMMA BlankAt ==
    ASSUME NEW lx, NEW b, NEW u, NEW p, p # 0, p >= LastOf(lx), Clear(u), u.comment \in BOOLEAN,
           u.comment <=> InComment(b, 1, p - Len(lx.text) + 1)
    PROVE  TokAt(lx, b, u, p)
BY DEF TokAt

\* A character of the blank behind a lexeme.
LEMMA BetweenStep ==
    ASSUME NEW lx, LexemeFacts(lx, Len(lx.text)), NEW b, BlankFacts(b),
           NEW t, Fields(t), t.line \in Int, NEW pos \in Nat, pos >= LastOf(lx),
           pos < Len(lx.text) + Len(b), TokAt(lx, b, t, pos),
           NEW ch, ch = b[pos - Len(lx.text) + 1], NEW r, r = TokAddChar(t, ch)
    PROVE  Stepped(lx, b, t, pos, ch, r)
<1> DEFINE L == Len(lx.text)  i == pos - L + 1
<1>0. Fields(t) /\ t.line \in Int /\ r = TokAddChar(t, ch)
  OBVIOUS
<1>1. L \in Nat /\ L > 0 /\ LastOf(lx) \in {L, L + 1} /\ pos # 0
  BY DEF LexemeFacts, LastOf
<1>2. Len(b) \in Nat /\ i \in 1..Len(b) /\ pos + 1 # LastOf(lx) /\ pos + 1 >= LastOf(lx) /\ pos + 1 # 0
      /\ i \in Nat /\ pos + 1 - L + 1 = i + 1
  <2>1. Len(b) \in Nat
    BY DEF BlankFacts
  <2> QED
    BY <1>1, <2>1
<1>3. Clear(t) /\ t.comment \in BOOLEAN /\ (t.comment <=> InComment(b, 1, i))
  BY <1>1 DEF TokAt
<1>4. t.state = "UNKNOWN" /\ t.cur = <<>> /\ t.quoted = FALSE
  BY <1>3 DEF Clear
<1> HIDE DEF i
<1>5. ch = b[i]
  BY DEF i
<1>6. ch \in White \cup {"#"} \/ t.comment
  <2>1. Blank(b, 1, Len(b))
    BY DEF BlankFacts
  <2>2. b[i] \in White \cup {"#"} \/ InComment(b, 1, i)
    BY <1>2, <2>1, Zenon DEF Blank
  <2> QED
    BY <1>3, <1>5, <2>2
<1>7. /\ r.found = FALSE /\ Fields(r.t) /\ r.t.line = t.line + NL(ch)
      /\ r.t.state = t.state /\ r.t.cur = <<>> /\ r.t.atype = t.atype /\ r.t.quoted = FALSE
      /\ r.t.comment \in BOOLEAN /\ (r.t.comment <=> ch = "#" \/ (t.comment /\ ch # "nl"))
      /\ SameData(r.t, t)
  <2>1. BlankTok(r, t, ch)
    BY <1>0, <1>3, <1>4, <1>6, BlankChar
  <2> QED
    BY <2>1 DEF BlankTok
<1>8. InComment(b, 1, i + 1) <=> b[i] = "#" \/ (InComment(b, 1, i) /\ b[i] # "nl")
  <2>1. 1 \in Nat /\ i \in Nat /\ 1 <= i
    BY <1>2
  <2> QED
    BY <2>1, CommentNext
<1>9. TokAt(lx, b, r.t, pos + 1)
  <2> DEFINE p == pos + 1
  <2>1. Clear(r.t)
    BY <1>4, <1>7 DEF Clear
  <2>2. r.t.comment <=> InComment(b, 1, i + 1)
    BY <1>3, <1>5, <1>7, <1>8
  <2>3. p # 0 /\ p >= LastOf(lx) /\ p - L + 1 = i + 1
    <3>0. L \in Nat /\ p # 0
      BY <1>1
    <3>1. p - L + 1 = i + 1
      BY <3>0 DEF i
    <3>2. p >= LastOf(lx)
      BY <1>2, Zenon
    <3> QED
      BY <3>0, <3>1, <3>2
  <2> HIDE DEF p
  <2>4. r.t.comment <=> InComment(b, 1, p - L + 1)
    BY <2>2, <2>3
  <2>5. TokAt(lx, b, r.t, p)
    BY <1>7, <2>1, <2>3, <2>4, BlankAt
  <2> QED
    BY <2>5 DEF p
<1> QED
  BY <1>2, <1>7, <1>9 DEF Stepped

LEMMA ListStep ==
    ASSUME NEW lx, LexemeFacts(lx, Len(lx.text)), ~Open(lx), lx.param.type # "STRING", NEW b,
           NEW t, Fields(t), t.line \in Int, NEW pos \in Nat, pos < Len(lx.text), TokAt(lx, b, t, pos),
           NEW ch, ch = lx.text[pos + 1], NEW r, r = TokAddChar(t, ch)
    PROVE  Stepped(lx, b, t, pos, ch, r)
<1> DEFINE L == Len(lx.text)
<1>1. L \in Nat /\ LastOf(lx) = L /\ SpellsArray(lx) /\ ArrayFacts(lx, WordCount(lx), L)
  BY DEF LexemeFacts, LastOf
<1>2. L > 2 /\ lx.text[1] = "["
  BY <1>1 DEF ArrayFacts
<1>3. CASE pos = 0
  <2>1. t.state = "UNKNOWN" /\ t.cur = <<>> /\ t.quoted = FALSE /\ t.comment = FALSE
    BY <1>3 DEF TokAt, Clear
  <2>2. ch = "["
    BY <1>2, <1>3
  <2>3. r = TokAddChar(t, "[")
    BY <2>2
  <2>4. /\ r.found = FALSE /\ Fields(r.t) /\ r.t.line = t.line
        /\ r.t.state = "ARRAY" /\ r.t.cur = <<>> /\ r.t.quoted = FALSE /\ r.t.comment = FALSE
        /\ r.t.atype = "none" /\ r.t.ints = <<>> /\ r.t.floats = <<>> /\ r.t.strings = <<>>
    BY <2>1, <2>3, StartArray
  <2>5. NL(ch) = 0
    BY <2>2 DEF NL
  <2>6. r.t.line = t.line + NL(ch)
    BY <2>4, <2>5
  <2>7. InArray(lx, r.t, 1)
    BY <1>1, <2>4, ArrayBegins
  <2>8. pos + 1 = 1 /\ 1 # LastOf(lx) /\ ~(1 >= LastOf(lx)) /\ 1 # 0
    <3>1. pos + 1 = 1
      BY <1>3
    <3>2. L > 2
      BY <1>2
    <3>3. LastOf(lx) \in Nat /\ LastOf(lx) > 1
      BY <1>1, <3>2
    <3> QED
      BY <3>1, <3>3
  <2>9. TokAt(lx, b, r.t, 1)
    BY <2>7, <2>8 DEF TokAt
  <2> QED
    BY <2>4, <2>6, <2>8, <2>9 DEF Stepped
<1>4. CASE pos # 0
  <2>1. ~(pos >= LastOf(lx)) /\ 0 < pos
    BY <1>1, <1>4
  <2>2. InArray(lx, t, pos)
    BY <1>4, <2>1 DEF TokAt
  <2>3. /\ Fields(r.t) /\ r.t.line = t.line + NL(ch)
        /\ pos + 1 # L => r.found = FALSE /\ InArray(lx, r.t, pos + 1)
        /\ pos + 1 = L => r.found = TRUE /\ TokenOf(r.t, lx.param)
    BY <1>1, <2>1, <2>2, ArrayStep
  <2>4. pos + 1 # LastOf(lx) => ~(pos + 1 >= LastOf(lx)) /\ pos + 1 # 0
    BY <1>1
  <2>5. pos + 1 # LastOf(lx) => TokAt(lx, b, r.t, pos + 1)
    BY <1>1, <2>3, <2>4 DEF TokAt
  <2> QED
    BY <1>1, <2>3, <2>5 DEF Stepped
<1> QED
  BY <1>3, <1>4

(* The next character of a lexeme and its blank: the token goes on, is     *)
(* complete and says what the writer meant, or the blank goes on.          *)
LEMMA ReadStep ==
    ASSUME NEW lx, LexemeFacts(lx, Len(lx.text)), NEW b, BlankFacts(b),
           NEW t, Fields(t), t.line \in Int, NEW pos \in Nat, pos < Len(lx.text) + Len(b),
           TokAt(lx, b, t, pos), NEW ch, ch = (lx.text \o b)[pos + 1], NEW r, r = TokAddChar(t, ch)
    PROVE  Stepped(lx, b, t, pos, ch, r)
<1> DEFINE L == Len(lx.text)
<1>1. L \in Nat /\ LastOf(lx) = (IF Open(lx) THEN L + 1 ELSE L) /\ Len(b) \in Nat
  BY DEF LexemeFacts, LastOf, BlankFacts
<1>2. /\ lx.text \in Seq(STRING) /\ b \in Seq(STRING)
      /\ \A i \in 1..L : (lx.text \o b)[i] = lx.text[i]
      /\ \A i \in 1..Len(b) : (lx.text \o b)[L + i] = b[i]
  <2>1. lx.text \in Seq(STRING) /\ b \in Seq(STRING)
    BY DEF LexemeFacts, BlankFacts
  <2> QED
    BY <2>1, CatElements
<1>3. CASE pos < L
  <2>1. ch = lx.text[pos + 1]
    <3>1. pos + 1 \in 1..L
      BY <1>1, <1>3
    <3> QED
      BY <1>2, <3>1
  <2>2. CASE Open(lx)
    BY <1>3, <2>1, <2>2, PlainStep
  <2>3. CASE ~Open(lx) /\ lx.param.type = "STRING"
    BY <1>3, <2>1, <2>3, StringStep
  <2>4. CASE ~Open(lx) /\ lx.param.type # "STRING"
    BY <1>3, <2>1, <2>4, ListStep
  <2> QED
    BY <2>2, <2>3, <2>4
<1>4. ASSUME pos >= L PROVE ch = b[pos - L + 1] /\ pos - L + 1 \in 1..Len(b)
  <2> DEFINE i == pos - L + 1
  <2>1. i \in 1..Len(b) /\ L + i = pos + 1
    BY <1>1, <1>4
  <2> HIDE DEF i
  <2>2. ch = b[i]
    BY <1>2, <2>1
  <2> QED
    BY <2>1, <2>2 DEF i
<1>5. CASE pos = L /\ Open(lx)
  <2>1. ch = b[1]
    <3>1. pos - L + 1 = 1
      BY <1>1, <1>5
    <3> QED
      BY <1>4, <1>5, <3>1
  <2>2. b # <<>>
    BY <1>1, <1>5
  <2>3. ch \in White
    BY <2>1, <2>2 DEF BlankFacts
  <2> QED
    BY <1>5, <2>3, PlainEnds
<1>6. CASE pos >= L /\ ~(pos = L /\ Open(lx))
  <2>1. pos >= LastOf(lx)
    BY <1>1, <1>6
  <2> QED
    BY <1>4, <1>6, <2>1, BetweenStep
<1>7. pos < L \/ (pos = L /\ Open(lx)) \/ (pos >= L /\ ~(pos = L /\ Open(lx)))
  BY <1>1
<1> QED
  BY <1>3, <1>5, <1>6, <1>7

LEMMA Cleared ==
    ASSUME NEW t, Fields(t), NEW u, u = ResetState(t)
    PROVE  Fields(u) /\ u.line = t.line /\ Clear(u) /\ u.comment = FALSE
BY DEF ResetState, Clear, Fields

\* Where a token is complete the tokenizer is as in front of one.
LEMMA AtLast ==
    ASSUME NEW lx, LexemeFacts(lx, Len(lx.text)), NEW b, BlankFacts(b), NEW u, Clear(u),
           u.comment = FALSE, NEW pos \in Nat, pos = LastOf(lx), pos <= Len(lx.text) + Len(b)
    PROVE  TokAt(lx, b, u, pos)
<1> DEFINE L == Len(lx.text)
<1>1. L \in Nat /\ L > 0 /\ LastOf(lx) = (IF Open(lx) THEN L + 1 ELSE L) /\ Len(b) \in Nat
  BY DEF LexemeFacts, LastOf, BlankFacts
<1>2. ~InComment(b, 1, pos - L + 1)
  <2>1. ~InComment(b, 1, 1)
    BY NoCommentYet
  <2>2. CASE Open(lx)
    <3>1. pos - L + 1 = 1 + 1
      BY <1>1, <2>2
    <3>2. b # <<>>
      BY <1>1, <2>2
    <3>3. b[1] # "#"
      BY <3>2 DEF BlankFacts, White
    <3>4. InComment(b, 1, 1 + 1) <=> b[1] = "#" \/ (InComment(b, 1, 1) /\ b[1] # "nl")
      <4>1. 1 \in Nat /\ 1 <= 1
        OBVIOUS
      <4> QED
        BY <4>1, CommentNext
    <3> QED
      BY <2>1, <3>1, <3>3, <3>4
  <2>3. CASE ~Open(lx)
    <3>1. pos - L + 1 = 1
      BY <1>1, <2>3
    <3> QED
      BY <2>1, <3>1
  <2> QED
    BY <2>2, <2>3
<1>3. pos # 0 /\ pos >= LastOf(lx)
  BY <1>1
<1> QED
  BY <1>2, <1>3 DEF TokAt

\* Between two lexemes nothing of the first one is left.
LEMMA AtEnd ==
    ASSUME NEW lx, LexemeFacts(lx, Len(lx.text)), NEW b, BlankFacts(b), NEW t,
           NEW pos \in Nat, pos = Len(lx.text) + Len(b), pos >= LastOf(lx), TokAt(lx, b, t, pos)
    PROVE  Clear(t) /\ t.comment = FALSE
<1> DEFINE L == Len(lx.text)
<1>1. L \in Nat /\ L > 0 /\ Len(b) \in Nat /\ pos - L + 1 = Len(b) + 1
  BY DEF LexemeFacts, BlankFacts
<1>2. ~InComment(b, 1, Len(b) + 1)
  BY DEF BlankFacts, Blank
<1>3. Clear(t) /\ t.comment \in BOOLEAN /\ (t.comment <=> InComment(b, 1, pos - L + 1))
  <2>1. pos # 0
    BY <1>1
  <2> QED
    BY <2>1 DEF TokAt
<1> QED
  BY <1>1, <1>2, <1>3


----------------------------------------------------------------------------
(* The name that was read last.                                            *)

ATypes == {"none", "f", "i", "s"}
KeepsName(u, t) == Fields(u) /\ u.atype \in ATypes /\ u.alphanum = t.alphanum

LEMMA LineKeepsName ==
    ASSUME NEW t, NEW ch, Fields(t), t.atype \in ATypes, NEW u, u = Line(t, ch) PROVE KeepsName(u, t)
BY DEF Line, Fields, KeepsName

LEMMA CurKeepsName ==
    ASSUME NEW t, NEW v, KeepsName(v, t), NEW u, u = [v EXCEPT !.cur = <<>>] PROVE KeepsName(u, t)
BY DEF KeepsName, Fields

LEMMA PushKeepsName ==
    ASSUME NEW t, Fields(t), t.atype \in ATypes, NEW u, u = PushElement(t) PROVE KeepsName(u, t)
<1>1. CASE t.cur = <<>>
  <2>1. u = t
    BY <1>1 DEF PushElement
  <2> QED
    BY <2>1 DEF KeepsName
<1>2. CASE t.cur # <<>>
  <2> DEFINE float == isFloatStr(t.cur)
             w == CASE float /\ t.atype = "none" -> [t EXCEPT !.atype = "f"]
                    [] float /\ t.atype \in {"i", "s"} -> changeToFloatArray(t)
                    [] ~float /\ t.atype = "none" -> [t EXCEPT !.atype = "i"]
                    [] OTHER -> t
             v == CASE w.atype = "f" -> [w EXCEPT !.floats = Append(@, atof(t.cur))]
                    [] w.atype = "i" -> [w EXCEPT !.ints = Append(@, atoi(t.cur))]
                    [] w.atype = "s" -> [w EXCEPT !.strings = Append(@, t.cur)]
  <2>1. u = [v EXCEPT !.cur = <<>>]
    BY <1>2 DEF PushElement
  <2>2. \/ float /\ t.atype = "none" /\ w = [t EXCEPT !.atype = "f"]
        \/ float /\ t.atype \in {"i", "s"} /\ w = changeToFloatArray(t)
        \/ ~float /\ t.atype = "none" /\ w = [t EXCEPT !.atype = "i"]
        \/ ~(float /\ t.atype = "none") /\ ~(float /\ t.atype \in {"i", "s"})
           /\ ~(~float /\ t.atype = "none") /\ w = t
    <3> HIDE DEF float
    <3> QED
      OBVIOUS
  <2> HIDE DEF w
  <2>3. KeepsName(w, t) /\ w.atype # "none"
    BY <2>2 DEF KeepsName, ATypes, Fields, changeToFloatArray
  <2>4. \/ w.atype = "f" /\ v = [w EXCEPT !.floats = Append(@, atof(t.cur))]
        \/ w.atype = "i" /\ v = [w EXCEPT !.ints = Append(@, atoi(t.cur))]
        \/ w.atype = "s" /\ v = [w EXCEPT !.strings = Append(@, t.cur)]
    BY <2>3 DEF KeepsName, ATypes
  <2> HIDE DEF v
  <2>5. KeepsName(v, t)
    BY <2>3, <2>4 DEF KeepsName, Fields
  <2> QED
    BY <2>1, <2>5, CurKeepsName
<1> QED
  BY <1>1, <1>2

LEMMA TypeKeepsName ==
    ASSUME NEW t, Fields(t), t.atype \in ATypes, NEW u, u = setDataType(t)
    PROVE  KeepsName(u, t) \/ (t.state = "NORMAL" /\ u.type = "ALPHANUMERIC" /\ Fields(u) /\ u.atype \in ATypes)
<1>1. CASE t.state = "NORMAL"
  <2> DEFINE w == NormalType(t)
  <2>1. u = [w EXCEPT !.cur = <<>>]
    BY <1>1 DEF setDataType
  <2>2. \/ w = [t EXCEPT !.type = "INT", !.int = atoi(t.cur)]
        \/ w = [t EXCEPT !.type = "FLOAT", !.float = atof(t.cur)]
        \/ w = [t EXCEPT !.type = "ALPHANUMERIC", !.alphanum = t.cur]
        \/ w = [t EXCEPT !.type = "NONE"]
    BY DEF NormalType
  <2> HIDE DEF w
  <2>3. \/ KeepsName(w, t)
        \/ w.type = "ALPHANUMERIC" /\ Fields(w) /\ w.atype \in ATypes
    BY <2>2 DEF KeepsName, Fields
  <2> QED
    <3>1. CASE KeepsName(w, t)
      BY <2>1, <3>1, CurKeepsName
    <3>2. CASE w.type = "ALPHANUMERIC" /\ Fields(w) /\ w.atype \in ATypes
      BY <1>1, <2>1, <3>2 DEF Fields
    <3> QED
      BY <2>3, <3>1, <3>2
<1>2. CASE t.state # "NORMAL"
  <2> PICK w : /\ u = [w EXCEPT !.cur = <<>>]
               /\ \/ w = ArrayType(t)
                  \/ w = [t EXCEPT !.type = "STRING"]
                  \/ w = [t EXCEPT !.type = "NONE"]
    BY <1>2 DEF setDataType
  <2>1. KeepsName(w, t)
    BY DEF KeepsName, Fields, ArrayType
  <2> QED
    BY <2>1, CurKeepsName
<1> QED
  BY <1>1, <1>2

\* Only the end of a name changes it.
SaysName(r, t) ==
    /\ Fields(r.t) /\ r.t.atype \in ATypes
    /\ r.t.alphanum = t.alphanum \/ (r.found = TRUE /\ r.t.type = "ALPHANUMERIC")

LEMMA GoingSays == ASSUME NEW t, NEW u, KeepsName(u, t), NEW r, r = Going(u) PROVE SaysName(r, t)
BY DEF Going, KeepsName, SaysName

LEMMA FoundSays ==
    ASSUME NEW t, NEW v, KeepsName(v, t), NEW r, r = Found(setDataType(v)) PROVE SaysName(r, t)
<1> DEFINE u == setDataType(v)
<1>1. KeepsName(u, v) \/ (u.type = "ALPHANUMERIC" /\ Fields(u) /\ u.atype \in ATypes)
  BY TypeKeepsName DEF KeepsName
<1>2. r.t = u /\ r.found = TRUE
  BY DEF Found
<1> HIDE DEF u
<1> QED
  BY <1>1, <1>2 DEF KeepsName, SaysName

LEMMA ArraySays ==
    ASSUME NEW t, NEW ch, Fields(t), t.atype \in ATypes, NEW r, r = inputHandleArray(t, ch)
    PROVE  SaysName(r, t)
<1>1. \/ \E u : r = Going(u) /\ u \in {[t EXCEPT !.quoted = FALSE], [t EXCEPT !.quoted = TRUE, !.atype = "s"],
                                       [t EXCEPT !.cur = Append(@, ch)]}
      \/ r = Found(setDataType(PushElement(t)))
      \/ r = Going(PushElement(Line(t, ch)))
  BY DEF inputHandleArray
<1>2. CASE r = Found(setDataType(PushElement(t)))
  BY <1>2, PushKeepsName, FoundSays
<1>3. CASE r = Going(PushElement(Line(t, ch)))
  <2>1. KeepsName(Line(t, ch), t)
    BY LineKeepsName
  <2>2. KeepsName(PushElement(Line(t, ch)), Line(t, ch))
    BY <2>1, PushKeepsName DEF KeepsName
  <2>3. KeepsName(PushElement(Line(t, ch)), t)
    BY <2>1, <2>2 DEF KeepsName
  <2> QED
    BY <1>3, <2>3, GoingSays
<1>4. ASSUME NEW u, r = Going(u),
             u \in {[t EXCEPT !.quoted = FALSE], [t EXCEPT !.quoted = TRUE, !.atype = "s"],
                    [t EXCEPT !.cur = Append(@, ch)]}
      PROVE  SaysName(r, t)
  <2>1. KeepsName(u, t)
    BY <1>4 DEF KeepsName, Fields, ATypes
  <2> QED
    BY <1>4, <2>1, GoingSays
<1> QED
  BY <1>1, <1>2, <1>3, <1>4

LEMMA StartSays ==
    ASSUME NEW t, NEW ch, Fields(t), t.atype \in ATypes, NEW r, r = StartToken(t, ch)
    PROVE  SaysName(r, t)
<1>1. \/ r = Going(setDataType([t EXCEPT !.state = "STRING"]))
      \/ r = Going([t EXCEPT !.state = "ARRAY", !.atype = "none",
                              !.ints = <<>>, !.floats = <<>>, !.strings = <<>>])
      \/ r = Going(Line(t, ch))
      \/ r = Going([t EXCEPT !.state = "NORMAL", !.cur = Append(@, ch)])
  BY DEF StartToken
<1>2. CASE r = Going(setDataType([t EXCEPT !.state = "STRING"]))
  <2> DEFINE v == [t EXCEPT !.state = "STRING"]  u == setDataType(v)
  <2>1. KeepsName(v, t) /\ v.state = "STRING"
    BY DEF KeepsName, Fields
  <2> HIDE DEF v
  <2>2. KeepsName(u, v)
    BY <2>1, TypeKeepsName DEF KeepsName
  <2>3. r = Going(u)
    BY <1>2 DEF v
  <2> HIDE DEF u
  <2>4. KeepsName(u, t)
    BY <2>1, <2>2 DEF KeepsName
  <2> QED
    BY <2>3, <2>4, GoingSays
<1>3. CASE r = Going([t EXCEPT !.state = "ARRAY", !.atype = "none",
                               !.ints = <<>>, !.floats = <<>>, !.strings = <<>>])
  <2> DEFINE u == [t EXCEPT !.state = "ARRAY", !.atype = "none",
                            !.ints = <<>>, !.floats = <<>>, !.strings = <<>>]
  <2>1. KeepsName(u, t)
    BY DEF KeepsName, Fields, ATypes
  <2> HIDE DEF u
  <2>2. r = Going(u)
    BY <1>3 DEF u
  <2> QED
    BY <2>1, <2>2, GoingSays
<1>4. CASE r = Going(Line(t, ch))
  BY <1>4, LineKeepsName, GoingSays
<1>5. CASE r = Going([t EXCEPT !.state = "NORMAL", !.cur = Append(@, ch)])
  <2> DEFINE u == [t EXCEPT !.state = "NORMAL", !.cur = Append(@, ch)]
  <2>1. KeepsName(u, t)
    BY DEF KeepsName, Fields
  <2> HIDE DEF u
  <2>2. r = Going(u)
    BY <1>5 DEF u
  <2> QED
    BY <2>1, <2>2, GoingSays
<1> QED
  BY <1>1, <1>2, <1>3, <1>4, <1>5

LEMMA CharSays ==
    ASSUME NEW t, NEW ch, Fields(t), t.atype \in ATypes, NEW r, r = TokAddChar(t, ch)
    PROVE  SaysName(r, t)
<1> DEFINE l == Line(t, ch)  c == [t EXCEPT !.comment = TRUE]  d == [l EXCEPT !.comment = (ch # "nl")]
           q == [t EXCEPT !.string = t.cur]  a == [t EXCEPT !.cur = Append(@, ch)]
<1>1. \/ r = Going(c) \/ r = Going(d) \/ r = StartToken(t, ch) \/ r = Found(setDataType(l))
      \/ r = Found(setDataType(q)) \/ r = inputHandleArray(t, ch) \/ r = Going(a)
  BY DEF TokAddChar
<1>2. KeepsName(l, t)
  BY LineKeepsName
<1>3. KeepsName(c, t) /\ KeepsName(q, t) /\ KeepsName(a, t)
  BY DEF KeepsName, Fields
<1>4. KeepsName(d, t)
  <2> HIDE DEF l
  <2> QED
    BY <1>2 DEF KeepsName, Fields
<1> HIDE DEF l, c, d, q, a
<1> QED
  BY <1>1, <1>2, <1>3, <1>4, GoingSays, FoundSays, StartSays, ArraySays


----------------------------------------------------------------------------
(* The commands: M are those the Parser has been told.                     *)

ParFields(p) == DOMAIN p = {"cur", "curLine", "next", "nextLine", "params", "eof"}
Params == {lx.param : lx \in Lexemes}
Commands == [name : Seq(STRING), params : Seq(Params), line : Int]
TypeNames == {"name", "INT", "FLOAT", "STRING", "STRING_ARRAY", "INT_ARRAY", "FLOAT_ARRAY"}
LexTypes == [type : TypeNames, closed : BOOLEAN]
LineOf(l, c) == l \in Int /\ l - c.line \in {0, 1}
Like(d, c) == d.name = c.name /\ d.params = c.params /\ LineOf(d.line, c)
NowIs(p, c) == p.cur = c.name /\ p.params = c.params /\ LineOf(p.curLine, c)
NextIs(p, c) == p.next = c.name /\ LineOf(p.nextLine, c)

\* What has been given is the beginning of what was told.
Lists(M, done) ==
    /\ M \in Seq(Commands) /\ done \in Seq(Commands) /\ Len(done) <= Len(M)
    /\ \A i \in 1..Len(M) : M[i].name # <<>>
    /\ \A i \in 1..Len(done) : Like(done[i], M[i])

\* The last name is the next command's; the one before is given when it is complete.
Heard(M, done, p) ==
    IF M = <<>> THEN p.cur = <<>> /\ p.next = <<>> /\ p.params = <<>> /\ Len(done) = 0
    ELSE /\ NextIs(p, M[Len(M)])
         /\ IF p.cur = <<>> THEN Len(done) = Len(M) - 1 /\ p.params = M[Len(M)].params
            ELSE /\ Len(M) > 1 /\ Len(done) = Len(M) - 2 /\ M[Len(M)].params = <<>>
                 /\ NowIs(p, M[Len(M) - 1])

\* After the end of the file the commands that are left are given.
Ending(M, done, p) ==
    \/ p.cur = <<>> /\ Len(done) = Len(M)
    \/ /\ p.cur # <<>> /\ p.next = <<>> /\ Len(M) > 0 /\ Len(done) = Len(M) - 1
       /\ NowIs(p, M[Len(M)])
    \/ /\ p.cur # <<>> /\ p.next # <<>> /\ Len(M) > 1 /\ Len(done) = Len(M) - 2
       /\ NowIs(p, M[Len(M) - 1]) /\ NextIs(p, M[Len(M)]) /\ M[Len(M)].params = <<>>

NameTo(M, N, name, line) == N = Append(M, [name |-> name, params |-> <<>>, line |-> line])
ParamTo(M, N, q) == N = [M EXCEPT ![Len(M)].params = Append(@, q)]

\* The lexeme being read is written and not told.
Written(lx, M, meant, line) ==
    IF lx.param.type = "name"
    THEN NameTo(M, meant, lx.param.value, line)
    ELSE M # <<>> /\ ParamTo(M, meant, lx.param)

LinesLeft(s, pos) == Cardinality({i \in (pos + 1)..Len(s) : s[i] = "nl"})

\* The tokenizer still has the last name.
LastName(M, t) == t.atype \in ATypes /\ (M # <<>> => t.alphanum = M[Len(M)].name)

Fresh ==
    /\ rlex = <<>> /\ rmeant = <<>> /\ rrest = <<>> /\ rline \in Int /\ rtok.line = rline
    /\ Fields(rtok) /\ Clear(rtok) /\ rtok.comment = FALSE
    /\ rpar.eof = FALSE /\ ParFields(rpar) /\ Lists(<<>>, rdone) /\ Heard(<<>>, rdone, rpar)
    /\ LastName(<<>>, rtok)

Place(lx, b, pos) ==
    /\ lx \in Lexemes /\ b \in Blanks \cup {<<>>} /\ pos \in 0..Len(lx.text \o b)
    /\ rlex \in Seq(LexTypes) /\ rlex # <<>>
    /\ rlex[Len(rlex)] = [type |-> lx.param.type, closed |-> b # <<>> \/ ~Open(lx)]
    /\ rrest = SubSeq(lx.text \o b, pos + 1, Len(lx.text \o b))
    /\ Fields(rtok) /\ rtok.line \in Int /\ rline \in Int
    /\ rtok.line = rline - LinesLeft(lx.text \o b, pos) /\ TokAt(lx, b, rtok, pos)

Told(lx, pos, M) ==
    /\ rpar.eof = FALSE /\ ParFields(rpar) /\ Lists(M, rdone) /\ Heard(M, rdone, rpar)
    /\ pos < LastOf(lx) => rpar.cur = <<>> /\ Written(lx, M, rmeant, rtok.line)
    /\ pos >= LastOf(lx) => M # <<>> /\ rmeant = M
    /\ LastName(M, rtok)

Over ==
    /\ rpar.eof = TRUE /\ ParFields(rpar) /\ rrest = <<>>
    /\ rtok.state \in {"UNKNOWN", "NORMAL"} /\ rtok.cur = <<>> /\ rtok.quoted = FALSE
    /\ Lists(Given, rdone) /\ Ending(Given, rdone, rpar)

RibInv == Fresh \/ (\E lx, b, pos, M : Place(lx, b, pos) /\ Told(lx, pos, M)) \/ Over

----------------------------------------------------------------------------
(* What is left of a text.                                                 *)

LEMMA LinesAre ==
    ASSUME NEW s \in Seq(STRING)
    PROVE  /\ LinesLeft(s, Len(s)) = 0 /\ LinesLeft(s, 0) = Newlines(s)
           /\ \A pos \in Nat : LinesLeft(s, pos) \in Nat
           /\ \A pos \in Nat : pos < Len(s) =>
                 LinesLeft(s, pos) = NL(s[pos + 1]) + LinesLeft(s, pos + 1)
<1> DEFINE I(pos) == {i \in (pos + 1)..Len(s) : s[i] = "nl"}
<1>1. Len(s) \in Nat
  OBVIOUS
<1>2. \A pos \in Nat : IsFiniteSet(I(pos)) /\ Cardinality(I(pos)) \in Nat
  <2>1. ASSUME NEW pos \in Nat PROVE IsFiniteSet(I(pos)) /\ Cardinality(I(pos)) \in Nat
    <3>1. I(pos) \subseteq (pos + 1)..Len(s)
      OBVIOUS
    <3>2. IsFiniteSet((pos + 1)..Len(s))
      BY <1>1, FS_Interval
    <3> QED
      BY <3>1, <3>2, FS_Subset, FS_CardinalityType
  <2> QED
    BY <2>1
<1>3. LinesLeft(s, Len(s)) = 0
  <2>1. I(Len(s)) = {}
    BY <1>1
  <2> QED
    BY <2>1, FS_EmptySet DEF LinesLeft
<1>4. LinesLeft(s, 0) = Newlines(s)
  <2>1. (0 + 1)..Len(s) = DOMAIN s
    OBVIOUS
  <2> QED
    BY <2>1 DEF LinesLeft, Newlines
<1>5. ASSUME NEW pos \in Nat, pos < Len(s)
      PROVE  LinesLeft(s, pos) = NL(s[pos + 1]) + LinesLeft(s, pos + 1)
  <2>1. pos + 1 \in Nat /\ pos + 1 \notin I(pos + 1)
    BY <1>1
  <2>2. CASE s[pos + 1] = "nl"
    <3>1. I(pos) = I(pos + 1) \cup {pos + 1}
      BY <1>1, <1>5, <2>2
    <3>2. Cardinality(I(pos)) = Cardinality(I(pos + 1)) + 1
      BY <1>2, <2>1, <3>1, FS_AddElement
    <3>3. NL(s[pos + 1]) = 1
      BY <2>2 DEF NL
    <3>4. Cardinality(I(pos + 1)) \in Nat
      BY <1>2, <2>1
    <3> QED
      BY <3>2, <3>3, <3>4 DEF LinesLeft
  <2>3. CASE s[pos + 1] # "nl"
    <3>1. I(pos) = I(pos + 1)
      BY <1>1, <1>5, <2>3
    <3>2. NL(s[pos + 1]) = 0
      BY <2>3 DEF NL
    <3>4. Cardinality(I(pos + 1)) \in Nat
      BY <1>2, <2>1
    <3>5. LinesLeft(s, pos) = Cardinality(I(pos)) /\ LinesLeft(s, pos + 1) = Cardinality(I(pos + 1))
      BY DEF LinesLeft
    <3> HIDE DEF I
    <3> QED
      BY <3>1, <3>2, <3>4, <3>5
  <2> QED
    BY <2>2, <2>3
<1>6. \A pos \in Nat : LinesLeft(s, pos) \in Nat
  BY <1>2 DEF LinesLeft
<1> QED
  BY <1>3, <1>4, <1>5, <1>6

LEMMA EmptyIs == ASSUME NEW T, NEW u \in Seq(T) PROVE u = <<>> <=> Len(u) = 0
OBVIOUS

RestFacts(s, pos, u) ==
    /\ u = <<>> <=> pos = Len(s)
    /\ pos # Len(s) => Head(u) = s[pos + 1] /\ Tail(u) = SubSeq(s, pos + 1 + 1, Len(s))
    /\ pos = 0 => u = s

LEMMA RestIs ==
    ASSUME NEW T, NEW s \in Seq(T), NEW pos \in 0..Len(s), NEW u, u = SubSeq(s, pos + 1, Len(s))
    PROVE  RestFacts(s, pos, u)
<1>1. Len(s) \in Nat
  OBVIOUS
<1>2. /\ u \in Seq(T) /\ Len(u) = Len(s) - pos
      /\ \A i \in 1..(Len(s) - pos) : u[i] = s[pos + i]
  <2> DEFINE a == pos + 1
  <2>1. a \in Nat \ {0} /\ Len(s) \in Nat /\ Len(s) <= Len(s)
    BY <1>1
  <2>2. /\ u \in Seq(T) /\ Len(u) = (IF a <= Len(s) THEN Len(s) - a + 1 ELSE 0)
        /\ \A i \in 1..(Len(s) - a + 1) : u[i] = s[a - 1 + i]
    <3> HIDE DEF a
    <3>1. u = SubSeq(s, a, Len(s))
      BY DEF a
    <3>2. /\ SubSeq(s, a, Len(s)) \in Seq(T)
          /\ Len(SubSeq(s, a, Len(s))) = (IF a <= Len(s) THEN Len(s) - a + 1 ELSE 0)
          /\ \A i \in 1..(Len(s) - a + 1) : SubSeq(s, a, Len(s))[i] = s[a - 1 + i]
      BY <2>1, PartIs
    <3> QED
      BY <3>1, <3>2, Zenon
  <2>3. (IF a <= Len(s) THEN Len(s) - a + 1 ELSE 0) = Len(s) - pos /\ Len(s) - a + 1 = Len(s) - pos
    BY <1>1
  <2>4. \A i \in 1..(Len(s) - pos) : u[i] = s[pos + i]
    <3>1. \A i \in 1..(Len(s) - a + 1) : u[i] = s[a - 1 + i]
      BY <2>2
    <3>2. \A i \in 1..(Len(s) - pos) : u[i] = s[a - 1 + i]
      <4> HIDE DEF a
      <4> QED
        BY <2>3, <3>1
    <3>3. \A i \in 1..(Len(s) - pos) : a - 1 + i = pos + i
      BY <1>1
    <3> HIDE DEF a
    <3> QED
      BY <3>2, <3>3
  <2> HIDE DEF a
  <2> QED
    BY <2>2, <2>3, <2>4
<1>3. u = <<>> <=> pos = Len(s)
  <2>1. u = <<>> <=> Len(u) = 0
    <3>1. u \in Seq(T)
      BY <1>2
    <3> QED
      BY <3>1, EmptyIs
  <2>2. Len(u) = Len(s) - pos
    BY <1>2
  <2>3. Len(s) - pos = 0 <=> pos = Len(s)
    BY <1>1
  <2> QED
    BY <2>1, <2>2, <2>3
<1>4. ASSUME pos # Len(s)
      PROVE  Head(u) = s[pos + 1] /\ Tail(u) = SubSeq(s, pos + 1 + 1, Len(s))
  <2>0. u # <<>> /\ u \in Seq(T) /\ Len(u) = Len(s) - pos
    BY <1>2, <1>3, <1>4
  <2>1. u # <<>> /\ Len(u) >= 1
    BY <2>0, <1>1, <1>4
  <2>2. Head(u) = u[1] /\ u[1] = s[pos + 1]
    <3>1. 1 \in 1..(Len(s) - pos)
      BY <1>1, <1>4
    <3> QED
      BY <1>2, <2>1, <3>1
  <2> DEFINE v == Tail(u)  w == SubSeq(s, pos + 1 + 1, Len(s))
  <2>3. v \in Seq(T) /\ Len(v) = Len(u) - 1 /\ \A i \in 1..(Len(u) - 1) : v[i] = u[i + 1]
    BY <1>2, <2>1
  <2>4. /\ w \in Seq(T) /\ Len(w) = Len(s) - pos - 1
        /\ \A i \in 1..(Len(s) - pos - 1) : w[i] = s[pos + 1 + i]
    <3> DEFINE a == pos + 1 + 1
    <3>1. a \in Nat \ {0} /\ Len(s) \in Nat /\ Len(s) <= Len(s)
      BY <1>1
    <3> HIDE DEF a
    <3>2. /\ SubSeq(s, a, Len(s)) \in Seq(T)
          /\ Len(SubSeq(s, a, Len(s))) = (IF a <= Len(s) THEN Len(s) - a + 1 ELSE 0)
          /\ \A i \in 1..(Len(s) - a + 1) : SubSeq(s, a, Len(s))[i] = s[a - 1 + i]
      BY <3>1, PartIs
    <3>3. w = SubSeq(s, a, Len(s))
      BY DEF a
    <3> HIDE DEF w
    <3>4. (IF a <= Len(s) THEN Len(s) - a + 1 ELSE 0) = Len(s) - pos - 1 /\ Len(s) - a + 1 = Len(s) - pos - 1
      BY <1>1, <1>4 DEF a
    <3>5. ASSUME NEW i \in 1..(Len(s) - pos - 1) PROVE w[i] = s[pos + 1 + i]
      <4>1. i \in 1..(Len(s) - a + 1)
        BY <3>4
      <4>2. a - 1 + i = pos + 1 + i
        BY <1>1 DEF a
      <4> QED
        BY <3>2, <3>3, <4>1, <4>2
    <3> QED
      BY <3>2, <3>3, <3>4, <3>5
  <2> HIDE DEF v, w
  <2>5. \A i \in 1..Len(v) : v[i] = w[i]
    <3>1. ASSUME NEW i \in 1..Len(v) PROVE v[i] = w[i]
      <4>1. i \in 1..(Len(u) - 1) /\ i + 1 \in 1..(Len(s) - pos) /\ i \in 1..(Len(s) - pos - 1)
            /\ pos + (i + 1) = pos + 1 + i
        BY <1>1, <1>2, <2>3
      <4>2. v[i] = u[i + 1] /\ u[i + 1] = s[pos + (i + 1)]
        BY <1>2, <2>3, <4>1
      <4>3. w[i] = s[pos + 1 + i]
        BY <2>4, <4>1
      <4> QED
        BY <4>1, <4>2, <4>3
    <3> QED
      BY <3>1
  <2>6. Len(v) = Len(w)
    BY <1>1, <1>2, <2>3, <2>4
  <2>7. v = w
    BY <2>3, <2>4, <2>5, <2>6, SameElements
  <2> QED
    BY <2>2, <2>7 DEF v, w
<1>5. ASSUME pos = 0 PROVE u = s
  BY <1>5, WholePart
<1> QED
  BY <1>3, <1>4, <1>5 DEF RestFacts


\* A name is on one line.
LEMMA NoNewline ==
    ASSUME NEW lx, LexemeFacts(lx, Len(lx.text)), Open(lx), NEW b, BlankFacts(b),
           NEW pos \in Nat, pos < Len(lx.text)
    PROVE  NL((lx.text \o b)[pos + 1]) = 0
<1> DEFINE s == lx.text  L == Len(s)
<1>1. s \in Seq(STRING) /\ b \in Seq(STRING) /\ L \in Nat /\ SpellsPlain(s, lx.param)
  BY DEF LexemeFacts, BlankFacts
<1>2. \A i \in DOMAIN s : s[i] \notin White \cup {"#"}
  BY <1>1, PlainIs
<1>3. pos + 1 \in 1..L /\ pos + 1 \in DOMAIN s
  BY <1>1
<1>4. (s \o b)[pos + 1] = s[pos + 1]
  BY <1>1, <1>3, CatElements
<1> QED
  BY <1>2, <1>3, <1>4 DEF NL, White

----------------------------------------------------------------------------
(* What the Parser does with a token.                                      *)

HeardAs(M, done, p, q) ==
    ParFields(q) /\ q.eof = p.eof /\ M # <<>> /\ Lists(M, done) /\ Heard(M, done, q)

LEMMA ListFacts ==
    ASSUME NEW M, NEW done, Lists(M, done)
    PROVE  /\ M \in Seq(Commands) /\ done \in Seq(Commands) /\ Len(M) \in Nat /\ Len(done) \in Nat
           /\ (M = <<>> <=> Len(M) = 0) /\ Len(done) <= Len(M)
           /\ \A i \in 1..Len(M) : /\ M[i] \in Commands /\ M[i].name # <<>>
                                   /\ M[i].params \in Seq(Params) /\ M[i].name \in Seq(STRING)
                                   /\ M[i].line \in Int
           /\ \A i \in 1..Len(done) : Like(done[i], M[i])
<1>1. M \in Seq(Commands) /\ done \in Seq(Commands) /\ Len(done) <= Len(M)
  BY DEF Lists
<1>2. M = <<>> <=> Len(M) = 0
  BY <1>1, EmptyIs
<1>3. Len(M) \in Nat /\ Len(done) \in Nat
  BY <1>1
<1>4. \A i \in 1..Len(M) : M[i] \in Commands
  BY <1>1
<1>5. \A c \in Commands : c.params \in Seq(Params) /\ c.name \in Seq(STRING) /\ c.line \in Int
  BY DEF Commands
<1> HIDE DEF Commands
<1> QED
  BY <1>1, <1>2, <1>3, <1>4, <1>5 DEF Lists

IsList(v, n) == v = [i \in 1..n |-> v[i]]

LEMMA SeqOf ==
    ASSUME NEW T, NEW n \in Nat, NEW v, IsList(v, n), \A i \in 1..n : v[i] \in T
    PROVE  v \in Seq(T) /\ Len(v) = n
<1>1. v \in [1..n -> T]
  BY DEF IsList
<1> QED
  BY <1>1

LEMMA ParamOf ==
    ASSUME NEW d \in Commands, NEW q \in Params, NEW e, e = [d EXCEPT !.params = Append(@, q)]
    PROVE  e \in Commands /\ e.name = d.name /\ e.line = d.line /\ e.params = Append(d.params, q)
<1>1. DOMAIN d = {"name", "params", "line"} /\ d.name \in Seq(STRING) /\ d.params \in Seq(Params) /\ d.line \in Int
  BY DEF Commands
<1>2. Append(d.params, q) \in Seq(Params)
  BY <1>1
<1>3. e.name = d.name /\ e.line = d.line /\ e.params = Append(d.params, q)
  BY <1>1
<1>4. e \in Commands
  BY <1>2 DEF Commands
<1> QED
  BY <1>3, <1>4

LastGets(M, M2, q) ==
    \E c \in Commands :
        /\ c.name = M[Len(M)].name /\ c.line = M[Len(M)].line /\ c.params = Append(M[Len(M)].params, q)
        /\ M2 \in Seq(Commands) /\ Len(M2) = Len(M) /\ M2[Len(M)] = c
        /\ \A i \in 1..Len(M) : i # Len(M) => M2[i] = M[i]

LEMMA ParamAdded ==
    ASSUME NEW M \in Seq(Commands), Len(M) > 0, NEW q \in Params,
           NEW M2, ParamTo(M, M2, q)
    PROVE  LastGets(M, M2, q)
<1> DEFINE n == Len(M)  c == [M[n] EXCEPT !.params = Append(@, q)]
<1>1. n \in 1..n /\ M[n] \in Commands
  OBVIOUS
<1>2. c \in Commands /\ c.name = M[n].name /\ c.line = M[n].line /\ c.params = Append(M[n].params, q)
  BY <1>1, ParamOf
<1>3. M2 = [M EXCEPT ![n] = c]
  BY DEF ParamTo
<1> HIDE DEF c
<1>4. n \in 1..Len(M) /\ c \in Commands
  BY <1>1, <1>2
<1>5. M2 \in Seq(Commands) /\ Len(M2) = n /\ M2[n] = c /\ \A i \in 1..n : i # n => M2[i] = M[i]
  <2>1. n \in Nat /\ DOMAIN M = 1..n /\ M = [i \in DOMAIN M |-> M[i]] /\ \A i \in 1..n : M[i] \in Commands
    OBVIOUS
  <2>2. M2[n] = c /\ \A i \in 1..n : i # n => M2[i] = M[i]
    BY <1>3, <1>4, <2>1
  <2>3. IsList(M2, n)
    BY <1>3, <1>4, <2>1 DEF IsList
  <2>4. \A i \in 1..n : M2[i] \in Commands
    BY <1>4, <2>1, <2>2
  <2> HIDE DEF n
  <2>5. M2 \in Seq(Commands) /\ Len(M2) = n
    BY <2>1, <2>3, <2>4, SeqOf
  <2> QED
    BY <2>2, <2>5
<1> QED
  BY <1>2, <1>5 DEF LastGets

\* The parameter that was added last is taken away.
LEMMA Untold ==
    ASSUME NEW M, NEW done, Lists(M, done), M # <<>>, NEW q \in Params, NEW M2, ParamTo(M, M2, q)
    PROVE  /\ [M2 EXCEPT ![Len(M2)].params = SubSeq(@, 1, Len(@) - 1)] = M
           /\ M2[Len(M2)].name = M[Len(M)].name
<1> DEFINE n == Len(M)
<1>1. M \in Seq(Commands) /\ n \in Nat /\ n > 0 /\ n \in 1..n /\ M[n] \in Commands
  BY ListFacts
<1>2. PICK c \in Commands :
        /\ c.name = M[n].name /\ c.line = M[n].line /\ c.params = Append(M[n].params, q)
        /\ M2 \in Seq(Commands) /\ Len(M2) = n /\ M2[n] = c /\ \A i \in 1..n : i # n => M2[i] = M[i]
  BY <1>1, ParamAdded DEF LastGets
<1> DEFINE d == [c EXCEPT !.params = SubSeq(@, 1, Len(@) - 1)]
<1>3. SubSeq(c.params, 1, Len(c.params) - 1) = M[n].params
  <2> DEFINE u == M[n].params
  <2>1. u \in Seq(Params)
    BY <1>1 DEF Commands
  <2> HIDE DEF u
  <2>2. SubSeq(Append(u, q), 1, Len(Append(u, q)) - 1) = u
    <3> DEFINE w == Append(u, q)  k == Len(u)
    <3>1. w \in Seq(Params) /\ Len(w) = k + 1 /\ k \in Nat /\ \A i \in 1..k : w[i] = u[i]
      BY <2>1, Appended
    <3>2. Len(w) - 1 = k
      BY <3>1
    <3> HIDE DEF w
    <3>3. /\ SubSeq(w, 1, k) \in Seq(Params) /\ Len(SubSeq(w, 1, k)) = (IF 1 <= k THEN k - 1 + 1 ELSE 0)
          /\ \A i \in 1..(k - 1 + 1) : SubSeq(w, 1, k)[i] = w[1 - 1 + i]
      BY <3>1, PartIs
    <3>4. Len(SubSeq(w, 1, k)) = k /\ \A i \in 1..k : SubSeq(w, 1, k)[i] = u[i]
      BY <3>1, <3>3
    <3>5. SubSeq(w, 1, k) = u
      <4> DEFINE x == SubSeq(w, 1, k)
      <4>1. x \in Seq(Params) /\ Len(x) = Len(u) /\ \A i \in 1..Len(u) : x[i] = u[i]
        BY <3>3, <3>4
      <4> HIDE DEF x, k
      <4> QED
        BY <2>1, <4>1 DEF x
    <3> QED
      BY <3>2, <3>5 DEF w
  <2> QED
    BY <1>2, <2>2 DEF u
<1>4. d = M[n]
  <2>1. d = [c EXCEPT !.params = M[n].params]
    BY <1>3
  <2>2. c \in Commands /\ M[n] \in Commands /\ c.name = M[n].name /\ c.line = M[n].line
    BY <1>1, <1>2
  <2> DEFINE e == M[n]
  <2> HIDE DEF e, d
  <2>3. e = [name |-> e.name, params |-> e.params, line |-> e.line]
    BY <2>2 DEF Commands, e
  <2>4. c = [name |-> c.name, params |-> c.params, line |-> c.line]
    BY <2>2 DEF Commands
  <2> QED
    BY <2>1, <2>2, <2>3, <2>4 DEF e
<1>5. [M2 EXCEPT ![n].params = SubSeq(@, 1, Len(@) - 1)] = [M2 EXCEPT ![n] = d]
  BY <1>2
<1>6. [M2 EXCEPT ![n] = M[n]] = M
  <2>1. /\ DOMAIN M2 = 1..n /\ DOMAIN M = 1..n /\ M = [i \in 1..n |-> M[i]]
        /\ M2 = [i \in 1..n |-> M2[i]]
    BY <1>1, <1>2
  <2>2. \A i \in 1..n : [M2 EXCEPT ![n] = M[n]][i] = M[i]
    BY <1>2, <2>1
  <2> QED
    BY <2>1, <2>2
<1> QED
  BY <1>2, <1>4, <1>5, <1>6

LEMMA HearParam ==
    ASSUME NEW M, NEW done, NEW p, ParFields(p), p.cur = <<>>, M # <<>>, Lists(M, done),
           Heard(M, done, p), NEW q \in Params, NEW p2, p2 = [p EXCEPT !.params = Append(@, q)],
           NEW M2, ParamTo(M, M2, q)
    PROVE  HeardAs(M2, done, p, p2) /\ Len(M2) = Len(M)
<1> DEFINE n == Len(M)
<1>1. /\ M \in Seq(Commands) /\ done \in Seq(Commands) /\ n \in Nat /\ n > 0
      /\ \A i \in 1..n : M[i] \in Commands /\ M[i].name # <<>>
      /\ \A i \in 1..Len(done) : Like(done[i], M[i])
  BY ListFacts
<1>2. /\ Len(done) = n - 1 /\ p.params = M[n].params /\ NextIs(p, M[n])
  BY DEF Heard
<1>3. n \in 1..n /\ M[n] \in Commands
  BY <1>1
<1>4. LastGets(M, M2, q)
  BY <1>1, ParamAdded
<1>5. PICK c \in Commands :
        /\ c.name = M[n].name /\ c.line = M[n].line /\ c.params = Append(M[n].params, q)
        /\ M2 \in Seq(Commands) /\ Len(M2) = n /\ M2[n] = c /\ \A i \in 1..n : i # n => M2[i] = M[i]
  BY <1>4 DEF LastGets
<1>6. Lists(M2, done)
  <2>1. \A i \in 1..Len(M2) : M2[i].name # <<>>
    BY <1>1, <1>5
  <2>2. \A i \in 1..Len(done) : i \in 1..n /\ i # n
    BY <1>1, <1>2
  <2>3. \A i \in 1..Len(done) : Like(done[i], M2[i])
    BY <1>1, <1>5, <2>2
  <2>4. Len(done) <= Len(M2)
    BY <1>1, <1>2, <1>5
  <2> QED
    BY <1>1, <1>5, <2>1, <2>3, <2>4 DEF Lists
<1>7. /\ ParFields(p2) /\ p2.eof = p.eof /\ p2.cur = <<>> /\ p2.next = p.next /\ p2.nextLine = p.nextLine
      /\ p2.params = Append(p.params, q)
  BY DEF ParFields
<1>8. M2 # <<>>
  BY <1>1, <1>5, EmptyIs
<1>9. NextIs(p2, M2[Len(M2)])
  BY <1>2, <1>5, <1>7 DEF NextIs, LineOf
<1>10. Heard(M2, done, p2)
  BY <1>2, <1>5, <1>7, <1>8, <1>9 DEF Heard
<1> QED
  BY <1>5, <1>6, <1>7, <1>8, <1>10 DEF HeardAs

LEMMA CommandAdded ==
    ASSUME NEW M \in Seq(Commands), NEW c \in Commands, NEW M2, M2 = Append(M, c)
    PROVE  /\ M2 \in Seq(Commands) /\ Len(M2) = Len(M) + 1 /\ M2[Len(M) + 1] = c
           /\ \A i \in 1..Len(M) : M2[i] = M[i]
BY Appended

LEMMA NameAdded ==
    ASSUME NEW M, NEW done, Lists(M, done), NEW name \in Seq(STRING), name # <<>>, NEW line \in Int,
           NEW c, c = [name |-> name, params |-> <<>>, line |-> line], NEW M2, NameTo(M, M2, name, line)
    PROVE  /\ Lists(M2, done) /\ M2 # <<>> /\ Len(M2) = Len(M) + 1 /\ M2[Len(M2)] = c
           /\ \A i \in 1..Len(M) : M2[i] = M[i]
<1>1. /\ M \in Seq(Commands) /\ done \in Seq(Commands) /\ Len(M) \in Nat /\ Len(done) \in Nat /\ Len(done) <= Len(M)
      /\ \A i \in 1..Len(M) : M[i] \in Commands /\ M[i].name # <<>>
      /\ \A i \in 1..Len(done) : Like(done[i], M[i])
  BY ListFacts
<1>2. c \in Commands /\ c.name = name
  <2>1. <<>> \in Seq(Params)
    OBVIOUS
  <2> QED
    BY <2>1 DEF Commands
<1>3. /\ M2 \in Seq(Commands) /\ Len(M2) = Len(M) + 1 /\ M2[Len(M) + 1] = c
      /\ \A i \in 1..Len(M) : M2[i] = M[i]
  <2>1. M2 = Append(M, c)
    BY DEF NameTo
  <2> QED
    BY <1>1, <1>2, <2>1, CommandAdded
<1>4. M2 # <<>>
  BY <1>1, <1>3, EmptyIs
<1>5. \A i \in 1..Len(M2) : M2[i].name # <<>>
  <2>1. \A i \in 1..Len(M2) : i \in 1..Len(M) \/ i = Len(M) + 1
    BY <1>1, <1>3
  <2> QED
    BY <1>1, <1>2, <1>3, <2>1
<1>6. \A i \in 1..Len(done) : Like(done[i], M2[i])
  <2>1. \A i \in 1..Len(done) : i \in 1..Len(M)
    BY <1>1
  <2> QED
    BY <1>1, <1>3, <2>1
<1>7. Len(done) <= Len(M2)
  BY <1>1, <1>3
<1>8. Lists(M2, done)
  BY <1>1, <1>3, <1>5, <1>6, <1>7 DEF Lists
<1> QED
  BY <1>3, <1>4, <1>8

LEMMA HearName ==
    ASSUME NEW M, NEW done, NEW p, ParFields(p), p.cur = <<>>, Lists(M, done), Heard(M, done, p),
           NEW name \in Seq(STRING), name # <<>>, NEW line \in Int, NEW l \in Int, l - line \in {0, 1},
           NEW p2, p2 = NewCommand(p, name, l),
           NEW M2, NameTo(M, M2, name, line)
    PROVE  HeardAs(M2, done, p, p2)
<1> DEFINE n == Len(M)  c == [name |-> name, params |-> <<>>, line |-> line]
<1>1. c.name = name /\ c.params = <<>> /\ c.line = line
  OBVIOUS
<1>0. c = [name |-> name, params |-> <<>>, line |-> line]
  OBVIOUS
<1> HIDE DEF c
<1>2. /\ Lists(M2, done) /\ M2 # <<>> /\ Len(M2) = n + 1 /\ M2[Len(M2)] = c
      /\ \A i \in 1..n : M2[i] = M[i]
  BY <1>0, NameAdded
<1>3. /\ ParFields(p2) /\ p2.eof = p.eof /\ p2.cur = p.next /\ p2.curLine = p.nextLine /\ p2.next = name
      /\ p2.nextLine = l /\ p2.params = p.params
  BY DEF ParFields, NewCommand
<1>4. n \in Nat /\ (M = <<>> <=> n = 0) /\ \A i \in 1..n : M[i].name # <<>>
  BY ListFacts
<1>5. NextIs(p2, M2[Len(M2)])
  BY <1>1, <1>2, <1>3 DEF NextIs, LineOf
<1>6. CASE M = <<>>
  <2>1. p.next = <<>> /\ p.params = <<>> /\ Len(done) = 0
    BY <1>6 DEF Heard
  <2>2. Len(done) = Len(M2) - 1
    BY <1>2, <1>4, <1>6, <2>1
  <2>3. Heard(M2, done, p2)
    BY <1>1, <1>2, <1>3, <1>5, <2>1, <2>2 DEF Heard
  <2> QED
    BY <1>2, <1>3, <2>3 DEF HeardAs
<1>7. CASE M # <<>>
  <2>1. NextIs(p, M[n]) /\ Len(done) = n - 1 /\ p.params = M[n].params
    BY <1>7 DEF Heard
  <2>2. n \in 1..n /\ Len(M2) > 1 /\ Len(M2) - 1 = n /\ Len(done) = Len(M2) - 2
    BY <1>2, <1>4, <1>7, <2>1
  <2>3. M2[Len(M2) - 1] = M[n]
    BY <1>2, <2>2
  <2>4. p2.cur # <<>>
    BY <1>3, <1>4, <2>1, <2>2 DEF NextIs
  <2>5. NowIs(p2, M[n])
    BY <1>3, <2>1 DEF NextIs, NowIs, LineOf
  <2>6. Heard(M2, done, p2)
    BY <1>1, <1>2, <1>5, <2>2, <2>3, <2>4, <2>5 DEF Heard
  <2> QED
    BY <1>2, <1>3, <2>6 DEF HeardAs
<1> QED
  BY <1>6, <1>7


GivenTo(done, done2, p) ==
    done2 = Append(done, [name |-> p.cur, params |-> p.params, line |-> p.curLine])

\* The command that is given is the next one that was told.
LEMMA CommandGiven ==
    ASSUME NEW M, NEW done, NEW p, Lists(M, done), NEW k, k = Len(done) + 1, k <= Len(M), NowIs(p, M[k]),
           NEW done2, GivenTo(done, done2, p)
    PROVE  Lists(M, done2) /\ Len(done2) = k
<1>1. /\ M \in Seq(Commands) /\ done \in Seq(Commands) /\ Len(M) \in Nat /\ Len(done) \in Nat
      /\ \A i \in 1..Len(M) : /\ M[i] \in Commands /\ M[i].name # <<>>
                              /\ M[i].params \in Seq(Params) /\ M[i].name \in Seq(STRING)
                              /\ M[i].line \in Int
      /\ \A i \in 1..Len(done) : Like(done[i], M[i])
  BY ListFacts
<1>2. k \in 1..Len(M)
  BY <1>1
<1>3. /\ p.cur = M[k].name /\ p.params = M[k].params /\ LineOf(p.curLine, M[k]) /\ p.curLine \in Int
  BY DEF NowIs, LineOf
<1> DEFINE d == [name |-> p.cur, params |-> p.params, line |-> p.curLine]
<1>4. d.name = p.cur /\ d.params = p.params /\ d.line = p.curLine
  OBVIOUS
<1>5. d \in Commands
  BY <1>1, <1>2, <1>3 DEF Commands
<1>6. done2 = Append(done, d)
  BY DEF GivenTo
<1> HIDE DEF d
<1>7. /\ done2 \in Seq(Commands) /\ Len(done2) = k /\ done2[k] = d
      /\ \A i \in 1..Len(done) : done2[i] = done[i]
  BY <1>1, <1>5, <1>6, CommandAdded
<1>8. Like(done2[k], M[k])
  BY <1>3, <1>4, <1>7 DEF Like
<1>9. \A i \in 1..Len(done2) : Like(done2[i], M[i])
  <2>1. \A i \in 1..Len(done2) : i \in 1..Len(done) \/ i = k
    BY <1>1, <1>7
  <2> QED
    BY <1>1, <1>7, <1>8, <2>1
<1> QED
  BY <1>1, <1>7, <1>9 DEF Lists

LEMMA FlushHeard ==
    ASSUME NEW M, NEW done, NEW p, ParFields(p), p.cur # <<>>, p.eof = FALSE, Lists(M, done),
           Heard(M, done, p), NEW p2, p2 = FlushNewCommand(p), NEW done2, GivenTo(done, done2, p)
    PROVE  HeardAs(M, done2, p, p2) /\ p2.cur = <<>>
<1> DEFINE n == Len(M)
<1>1. /\ n \in Nat /\ Len(done) \in Nat /\ (M = <<>> <=> n = 0)
      /\ \A i \in 1..n : M[i].name # <<>>
  BY ListFacts
<1>2. M # <<>> /\ NextIs(p, M[n]) /\ n > 1 /\ Len(done) = n - 2 /\ M[n].params = <<>> /\ NowIs(p, M[n - 1])
  BY DEF Heard
<1>3. /\ ParFields(p2) /\ p2.eof = p.eof /\ p2.cur = <<>> /\ p2.params = <<>>
      /\ p2.next = p.next /\ p2.nextLine = p.nextLine
  BY DEF ParFields, FlushNewCommand
<1>4. Lists(M, done2) /\ Len(done2) = n - 1
  <2>1. n - 1 = Len(done) + 1 /\ n - 1 <= Len(M)
    BY <1>1, <1>2
  <2> QED
    BY <1>2, <2>1, CommandGiven
<1>5. NextIs(p2, M[n])
  BY <1>2, <1>3 DEF NextIs
<1>6. Heard(M, done2, p2)
  BY <1>2, <1>3, <1>4, <1>5 DEF Heard
<1> QED
  BY <1>2, <1>3, <1>4, <1>6 DEF HeardAs

EndingAs(M, done, q) == ParFields(q) /\ q.eof = TRUE /\ Lists(M, done) /\ Ending(M, done, q)

LEMMA FlushEnding ==
    ASSUME NEW M, NEW done, NEW p, ParFields(p), p.cur # <<>>, p.eof = TRUE, Lists(M, done),
           Ending(M, done, p), NEW p2, p2 = FlushNewCommand(p), NEW done2, GivenTo(done, done2, p)
    PROVE  EndingAs(M, done2, p2)
<1> DEFINE n == Len(M)
<1>1. n \in Nat /\ Len(done) \in Nat
  BY ListFacts
<1>2. /\ ParFields(p2) /\ p2.eof = TRUE /\ p2.cur = p.next /\ p2.curLine = p.nextLine /\ p2.params = <<>>
      /\ p2.next = <<>>
  BY DEF ParFields, FlushNewCommand
<1>3. CASE p.next = <<>>
  <2>1. n > 0 /\ Len(done) = n - 1 /\ NowIs(p, M[n])
    BY <1>3 DEF Ending
  <2>2. n = Len(done) + 1 /\ n <= Len(M)
    BY <1>1, <2>1
  <2>3. Lists(M, done2) /\ Len(done2) = n
    BY <2>1, <2>2, CommandGiven
  <2>4. Ending(M, done2, p2)
    BY <1>2, <1>3, <2>3 DEF Ending
  <2> QED
    BY <1>2, <2>3, <2>4 DEF EndingAs
<1>4. CASE p.next # <<>>
  <2>1. n > 1 /\ Len(done) = n - 2 /\ NowIs(p, M[n - 1]) /\ NextIs(p, M[n]) /\ M[n].params = <<>>
    BY <1>4 DEF Ending
  <2>2. n - 1 = Len(done) + 1 /\ n - 1 <= Len(M) /\ n > 0
    BY <1>1, <2>1
  <2>3. Lists(M, done2) /\ Len(done2) = n - 1
    BY <2>1, <2>2, CommandGiven
  <2>4. NowIs(p2, M[n])
    BY <1>2, <2>1 DEF NextIs, NowIs
  <2>5. Ending(M, done2, p2)
    BY <1>2, <1>4, <2>2, <2>3, <2>4 DEF Ending
  <2> QED
    BY <1>2, <2>3, <2>5 DEF EndingAs
<1> QED
  BY <1>3, <1>4

EofGets(p, p2, name, line) == p2 = [NewCommand(p, name, line) EXCEPT !.eof = TRUE]

EofAs(p, p2, name, line) ==
    /\ ParFields(p2) /\ p2.eof = TRUE /\ p2.cur = p.next /\ p2.curLine = p.nextLine
    /\ p2.next = name /\ p2.nextLine = line /\ p2.params = p.params

LEMMA EofFields ==
    ASSUME NEW p, ParFields(p), NEW name, NEW line, NEW p2, EofGets(p, p2, name, line)
    PROVE  EofAs(p, p2, name, line)
BY DEF ParFields, NewCommand, EofGets, EofAs

\* Nothing is left at the end of the file.
LEMMA EofClosed ==
    ASSUME NEW M, NEW done, NEW p, ParFields(p), p.cur = <<>>, Lists(M, done), Heard(M, done, p),
           NEW p2, EofGets(p, p2, <<>>, -1)
    PROVE  EndingAs(M, done, p2)
<1> DEFINE n == Len(M)
<1>1. /\ n \in Nat /\ Len(done) \in Nat /\ (M = <<>> <=> n = 0)
      /\ \A i \in 1..n : M[i].name # <<>>
  BY ListFacts
<1>2. /\ ParFields(p2) /\ p2.eof = TRUE /\ p2.cur = p.next /\ p2.curLine = p.nextLine
      /\ p2.next = <<>> /\ p2.params = p.params
  <2>1. EofAs(p, p2, <<>>, -1)
    BY EofFields
  <2> QED
    BY <2>1 DEF EofAs
<1>3. CASE M = <<>>
  <2>1. p.next = <<>> /\ Len(done) = n
    BY <1>1, <1>3 DEF Heard
  <2>2. Ending(M, done, p2)
    BY <1>2, <2>1 DEF Ending
  <2> QED
    BY <1>2, <2>2 DEF EndingAs
<1>4. CASE M # <<>>
  <2>1. NextIs(p, M[n]) /\ Len(done) = n - 1 /\ p.params = M[n].params
    BY <1>4 DEF Heard
  <2>2. n > 0 /\ n \in 1..n
    BY <1>1, <1>4
  <2>3. NowIs(p2, M[n]) /\ p2.cur # <<>>
    BY <1>1, <1>2, <2>1, <2>2 DEF NextIs, NowIs
  <2>4. Ending(M, done, p2)
    BY <1>2, <2>1, <2>2, <2>3 DEF Ending
  <2> QED
    BY <1>2, <2>4 DEF EndingAs
<1> QED
  BY <1>3, <1>4

\* A name that is not the first is completed by the end of the file.
LEMMA EofName ==
    ASSUME NEW M, NEW done, NEW p, ParFields(p), p.cur = <<>>, M # <<>>, Lists(M, done), Heard(M, done, p),
           NEW name \in Seq(STRING), name # <<>>, NEW line \in Int, NEW l \in Int, l - line \in {0, 1},
           NEW p2, EofGets(p, p2, name, l), NEW M2, NameTo(M, M2, name, line)
    PROVE  EndingAs(M2, done, p2)
<1> DEFINE n == Len(M)  c == [name |-> name, params |-> <<>>, line |-> line]
<1>1. c.name = name /\ c.params = <<>> /\ c.line = line
  OBVIOUS
<1>0. c = [name |-> name, params |-> <<>>, line |-> line]
  OBVIOUS
<1> HIDE DEF c
<1>2. /\ Lists(M2, done) /\ M2 # <<>> /\ Len(M2) = n + 1 /\ M2[Len(M2)] = c
      /\ \A i \in 1..n : M2[i] = M[i]
  BY <1>0, NameAdded
<1>3. /\ ParFields(p2) /\ p2.eof = TRUE /\ p2.cur = p.next /\ p2.curLine = p.nextLine
      /\ p2.next = name /\ p2.nextLine = l /\ p2.params = p.params
  <2>1. EofAs(p, p2, name, l)
    BY EofFields
  <2> QED
    BY <2>1 DEF EofAs
<1>4. n \in Nat /\ (M = <<>> <=> n = 0) /\ \A i \in 1..n : M[i].name # <<>>
  BY ListFacts
<1>5. NextIs(p, M[n]) /\ Len(done) = n - 1 /\ p.params = M[n].params
  BY DEF Heard
<1>6. n \in 1..n /\ Len(M2) > 1 /\ Len(M2) - 1 = n /\ Len(done) = Len(M2) - 2
  BY <1>2, <1>4, <1>5
<1>7. M2[Len(M2) - 1] = M[n]
  BY <1>2, <1>6
<1>8. p2.cur # <<>> /\ p2.next # <<>>
  BY <1>3, <1>4, <1>5, <1>6 DEF NextIs
<1>9. NowIs(p2, M[n])
  BY <1>3, <1>5 DEF NextIs, NowIs
<1>10. NextIs(p2, M2[Len(M2)])
  BY <1>1, <1>2, <1>3 DEF NextIs, LineOf
<1>11. Ending(M2, done, p2)
  <2>1. /\ p2.cur # <<>> /\ p2.next # <<>> /\ Len(M2) > 1 /\ Len(done) = Len(M2) - 2
        /\ NowIs(p2, M2[Len(M2) - 1]) /\ NextIs(p2, M2[Len(M2)]) /\ M2[Len(M2)].params = <<>>
    BY <1>1, <1>2, <1>6, <1>7, <1>8, <1>9, <1>10
  <2> QED
    BY <2>1, Zenon DEF Ending
<1> QED
  BY <1>2, <1>3, <1>11 DEF EndingAs


----------------------------------------------------------------------------
(* The steps.                                                              *)

\* Between two lexemes.
Ready ==
    /\ rrest = <<>> /\ rpar.eof = FALSE /\ ParFields(rpar)
    /\ Lists(rmeant, rdone) /\ Heard(rmeant, rdone, rpar)
    /\ Fields(rtok) /\ Clear(rtok) /\ rtok.comment = FALSE /\ rline \in Int /\ rtok.line = rline
    /\ rlex \in Seq(LexTypes) /\ (rlex # <<>> => rmeant # <<>> /\ rlex[Len(rlex)].closed)
    /\ LastName(rmeant, rtok)

LEMMA PlaceFacts ==
    ASSUME NEW lx, NEW b, NEW pos, Place(lx, b, pos)
    PROVE  /\ LexemeFacts(lx, Len(lx.text)) /\ BlankFacts(b) /\ Len(lx.text) \in Nat /\ Len(b) \in Nat
           /\ lx.text \o b \in Seq(STRING) /\ Len(lx.text \o b) = Len(lx.text) + Len(b)
           /\ pos \in Nat /\ pos <= Len(lx.text) + Len(b) /\ pos \in 0..Len(lx.text \o b)
           /\ (rrest = <<>> <=> pos = Len(lx.text \o b)) /\ LastOf(lx) \in Nat
           /\ LastOf(lx) = (IF Open(lx) THEN Len(lx.text) + 1 ELSE Len(lx.text)) /\ Len(lx.text) > 0
<1>1. lx \in Lexemes /\ b \in Blanks \cup {<<>>} /\ pos \in 0..Len(lx.text \o b)
  BY DEF Place
<1>2. LexemeFacts(lx, Len(lx.text))
  BY <1>1, LexemeIs
<1>3. BlankFacts(b)
  BY <1>1, BlankIs
<1>4. lx.text \in Seq(STRING) /\ Len(lx.text) \in Nat /\ Len(lx.text) > 0 /\ b \in Seq(STRING) /\ Len(b) \in Nat
  BY <1>2, <1>3 DEF LexemeFacts, BlankFacts
<1>5. lx.text \o b \in Seq(STRING) /\ Len(lx.text \o b) = Len(lx.text) + Len(b)
  BY <1>4, CatElements
<1>6. pos \in Nat /\ pos <= Len(lx.text) + Len(b)
  BY <1>1, <1>4, <1>5
<1>7. rrest = <<>> <=> pos = Len(lx.text \o b)
  <2> DEFINE s == lx.text \o b
  <2>1. s \in Seq(STRING) /\ pos \in 0..Len(s) /\ rrest = SubSeq(s, pos + 1, Len(s))
    BY <1>1, <1>5 DEF Place
  <2> HIDE DEF s
  <2>2. rrest = <<>> <=> pos = Len(s)
    <3>1. RestFacts(s, pos, rrest)
      BY <2>1, RestIs
    <3> QED
      BY <3>1 DEF RestFacts
  <2> QED
    BY <2>2 DEF s
<1>8. LastOf(lx) \in Nat /\ LastOf(lx) = (IF Open(lx) THEN Len(lx.text) + 1 ELSE Len(lx.text))
  BY <1>4 DEF LastOf
<1> QED
  BY <1>1, <1>2, <1>3, <1>4, <1>5, <1>6, <1>7, <1>8

LEMMA BetweenLexemes ==
    ASSUME RibInv, rrest = <<>>, rpar.eof = FALSE, rlex # <<>> => rlex[Len(rlex)].closed
    PROVE  Ready
<1>1. CASE Fresh
  <2>1. rlex \in Seq(LexTypes)
    BY <1>1 DEF Fresh
  <2> QED
    BY <1>1, <2>1 DEF Fresh, Ready
<1>2. ASSUME NEW lx, NEW b, NEW pos, NEW M, Place(lx, b, pos), Told(lx, pos, M)
      PROVE  Ready
  <2>1. /\ LexemeFacts(lx, Len(lx.text)) /\ BlankFacts(b) /\ Len(lx.text) \in Nat /\ Len(b) \in Nat
        /\ lx.text \o b \in Seq(STRING) /\ Len(lx.text \o b) = Len(lx.text) + Len(b)
        /\ pos \in Nat /\ pos <= Len(lx.text) + Len(b)
        /\ (rrest = <<>> <=> pos = Len(lx.text \o b)) /\ LastOf(lx) \in Nat
        /\ LastOf(lx) = (IF Open(lx) THEN Len(lx.text) + 1 ELSE Len(lx.text)) /\ Len(lx.text) > 0
    BY <1>2, PlaceFacts
  <2>2. pos = Len(lx.text) + Len(b) /\ pos = Len(lx.text \o b)
    BY <2>1
  <2>3. /\ rlex \in Seq(LexTypes) /\ rlex # <<>>
        /\ rlex[Len(rlex)] = [type |-> lx.param.type, closed |-> b # <<>> \/ ~Open(lx)]
        /\ Fields(rtok) /\ rtok.line \in Int /\ rline \in Int
        /\ rtok.line = rline - LinesLeft(lx.text \o b, pos) /\ TokAt(lx, b, rtok, pos)
    BY <1>2 DEF Place
  <2>4. b # <<>> \/ ~Open(lx)
    <3> DEFINE e == b # <<>> \/ ~Open(lx)
    <3>1. e \in BOOLEAN
      OBVIOUS
    <3> HIDE DEF e
    <3>2. rlex[Len(rlex)] = [type |-> lx.param.type, closed |-> e]
      BY <2>3 DEF e
    <3>3. rlex[Len(rlex)].closed = e
      BY <3>2
    <3>4. rlex[Len(rlex)].closed
      BY <2>3
    <3>5. e
      BY <3>1, <3>3, <3>4, Zenon
    <3> QED
      BY <3>5 DEF e
  <2>5. pos >= LastOf(lx)
    BY <2>1, <2>2, <2>4 DEF BlankFacts
  <2>6. Clear(rtok) /\ rtok.comment = FALSE
    BY <2>1, <2>2, <2>3, <2>5, AtEnd
  <2>7. rtok.line = rline
    <3>1. LinesLeft(lx.text \o b, pos) = 0
      BY <2>1, <2>2, LinesAre
    <3> QED
      BY <2>3, <3>1
  <2>8. /\ ParFields(rpar) /\ Lists(M, rdone) /\ Heard(M, rdone, rpar) /\ M # <<>> /\ rmeant = M
        /\ LastName(M, rtok)
    BY <1>2, <2>5 DEF Told
  <2> QED
    BY <2>3, <2>6, <2>7, <2>8 DEF Ready
<1>3. CASE Over
  BY <1>3 DEF Over
<1> QED
  BY <1>1, <1>2, <1>3 DEF RibInv

LEMMA ReadyWrites ==
    ASSUME Ready, rpar.cur = <<>>, NEW lx \in Lexemes, NEW b \in Blanks \cup {<<>>}, Write(lx, b)
    PROVE  RibInv'
<1> DEFINE s == lx.text \o b
<1>1. LexemeFacts(lx, Len(lx.text)) /\ BlankFacts(b)
  BY LexemeIs, BlankIs
<1>2. /\ lx.text \in Seq(STRING) /\ Len(lx.text) \in Nat /\ b \in Seq(STRING) /\ LastOf(lx) > 0
      /\ lx.param.type \in {"name", "INT", "FLOAT", "STRING", "STRING_ARRAY", "INT_ARRAY", "FLOAT_ARRAY"}
  BY <1>1 DEF LexemeFacts, BlankFacts, LastOf
<1>3. s \in Seq(STRING) /\ Len(s) \in Nat
  BY <1>2, CatElements
<1>4. rlex' \in Seq(LexTypes) /\ rlex' # <<>>
      /\ (rlex')[Len(rlex')] = [type |-> lx.param.type, closed |-> b # <<>> \/ ~Open(lx)]
  <2> DEFINE e == [type |-> lx.param.type, closed |-> b # <<>> \/ ~Open(lx)]
  <2>1. e \in LexTypes
    <3> DEFINE f == b # <<>> \/ ~Open(lx)
    <3>1. f \in BOOLEAN
      OBVIOUS
    <3> HIDE DEF f
    <3> DEFINE ty == lx.param.type
    <3>2. ty \in TypeNames
      BY <1>2 DEF TypeNames
    <3> HIDE DEF ty
    <3>4. [type |-> ty, closed |-> f] \in [type : TypeNames, closed : BOOLEAN]
      BY <3>1, <3>2, Zenon
    <3> QED
      BY <3>4 DEF f, ty, LexTypes
  <2>2. rlex' = Append(rlex, e)
    BY DEF Write, Open
  <2>3. rlex \in Seq(LexTypes)
    BY DEF Ready
  <2> HIDE DEF e
  <2>4. /\ rlex' \in Seq(LexTypes) /\ Len(rlex') = Len(rlex) + 1 /\ (rlex')[Len(rlex) + 1] = e
        /\ Len(rlex) \in Nat
    BY <2>1, <2>2, <2>3, Appended
  <2>5. rlex' # <<>>
    BY <2>4, EmptyIs
  <2> QED
    BY <2>4, <2>5 DEF e
<1>5. rrest' = SubSeq(s, 0 + 1, Len(s)) /\ 0 \in 0..Len(s)
  <2>1. rrest' = s
    BY DEF Write
  <2>2. SubSeq(s, 1, Len(s)) = s /\ 0 + 1 = 1
    BY <1>3, WholePart
  <2> QED
    BY <1>3, <2>1, <2>2
<1>6. /\ rtok' = rtok /\ rpar' = rpar /\ rdone' = rdone /\ rline' = rline + Newlines(s)
  BY DEF Write
<1>7. /\ Fields(rtok) /\ Clear(rtok) /\ rtok.comment = FALSE /\ rline \in Int /\ rtok.line = rline
      /\ rpar.eof = FALSE /\ ParFields(rpar) /\ Lists(rmeant, rdone) /\ Heard(rmeant, rdone, rpar)
      /\ LastName(rmeant, rtok)
  BY DEF Ready
<1>8. LinesLeft(s, 0) = Newlines(s) /\ LinesLeft(s, 0) \in Nat
  BY <1>3, LinesAre
<1>9. rline' \in Int /\ rtok'.line \in Int /\ rtok'.line = rline' - LinesLeft(s, 0)
  BY <1>6, <1>7, <1>8
<1>10. TokAt(lx, b, rtok', 0)
  BY <1>6, <1>7 DEF TokAt
<1>11. Place(lx, b, 0)'
  <2> HIDE DEF s
  <2>1. Fields(rtok')
    BY <1>6, <1>7
  <2> QED
    BY <1>4, <1>5, <1>9, <1>10, <2>1 DEF Place, s
<1>12. Written(lx, rmeant, rmeant', rtok.line)
  <2>1. CASE lx.param.type = "name"
    BY <1>7, <2>1 DEF Write, Written, NameTo
  <2>2. CASE lx.param.type # "name"
    <3>1. rmeant # <<>>
      BY <2>2 DEF Write, Ready
    <3> QED
      BY <2>2, <3>1 DEF Write, Written, ParamTo
  <2> QED
    BY <2>1, <2>2
<1>13. \E M : Told(lx, 0, M)'
  <2> DEFINE M == rmeant
  <2>1. /\ rpar'.eof = FALSE /\ ParFields(rpar') /\ Lists(M, rdone') /\ Heard(M, rdone', rpar')
        /\ rpar'.cur = <<>> /\ Written(lx, M, rmeant', rtok'.line) /\ LastName(M, rtok')
    BY <1>6, <1>7, <1>12
  <2>2. ~(0 >= LastOf(lx))
    BY <1>2 DEF LastOf
  <2> QED
    BY <2>1, <2>2 DEF Told
<1> QED
  BY <1>11, <1>13 DEF RibInv


\* A token that is complete: the Parser has been told what was written.
LEMMA HearToken ==
    ASSUME NEW lx \in Lexemes, NEW M, NEW done, NEW p, NEW meant, ParFields(p), p.cur = <<>>,
           Lists(M, done), Heard(M, done, p), NEW line \in Int, Written(lx, M, meant, line),
           NEW t, t.line \in Int, TokenOf(t, lx.param),
           lx.param.type = "name" => t.line - line \in {0, 1}, NEW p2, p2 = TakeToken(p, t)
    PROVE  HeardAs(meant, done, p, p2)
<1> DEFINE q == lx.param
<1>1. /\ lx.text \in Seq(STRING) /\ Len(lx.text) \in Nat /\ Len(lx.text) > 0
      /\ q = [type |-> q.type, value |-> q.value] /\ (q.type = "name" => q.value = lx.text)
  BY LexemeIs DEF LexemeFacts
<1>2. CASE q.type = "name"
  <2>1. t.type = "ALPHANUMERIC" /\ t.alphanum = q.value
    BY <1>2 DEF TokenOf
  <2>2. p2 = NewCommand(p, q.value, t.line)
    BY <2>1 DEF TakeToken
  <2>3. q.value \in Seq(STRING) /\ q.value # <<>>
    <3>1. lx.text # <<>>
      BY <1>1, EmptyIs
    <3> QED
      BY <1>1, <1>2, <3>1
  <2>4. NameTo(M, meant, q.value, line)
    BY <1>2 DEF Written
  <2>5. t.line - line \in {0, 1}
    BY <1>2
  <2> DEFINE v == q.value  l == t.line
  <2>6. v \in Seq(STRING) /\ v # <<>> /\ l \in Int /\ l - line \in {0, 1} /\ p2 = NewCommand(p, v, l)
        /\ NameTo(M, meant, v, line)
    BY <2>2, <2>3, <2>4, <2>5
  <2> HIDE DEF v, l, q
  <2> QED
    BY <2>6, HearName
<1>3. CASE q.type # "name"
  <2>1. t.type = q.type /\ t.type # "ALPHANUMERIC" /\ TokenValue(t) = q.value
    BY <1>3 DEF TokenOf
  <2>2. p2 = [p EXCEPT !.params = Append(@, [type |-> t.type, value |-> TokenValue(t)])]
    BY <2>1 DEF TakeToken
  <2>3. [type |-> t.type, value |-> TokenValue(t)] = q
    BY <1>1, <2>1
  <2>4. p2 = [p EXCEPT !.params = Append(@, q)]
    BY <2>2, <2>3
  <2>5. M # <<>> /\ ParamTo(M, meant, q)
    BY <1>3 DEF Written
  <2>6. q \in Params
    BY DEF Params
  <2> HIDE DEF q
  <2> QED
    BY <2>4, <2>5, <2>6, HearParam
<1> QED
  BY <1>2, <1>3

\* The last name among what was told is the tokenizer's.
LEMMA NameTold ==
    ASSUME NEW lx \in Lexemes, NEW M, NEW done, NEW meant, NEW line \in Int, Lists(M, done),
           Written(lx, M, meant, line), NEW t, LastName(M, t), NEW r, SaysName(r, t),
           TokenOf(r.t, lx.param), NEW t2, t2 = ResetState(r.t)
    PROVE  LastName(meant, t2)
<1>1. t2.atype = "none" /\ t2.alphanum = r.t.alphanum
  BY DEF ResetState, SaysName, Fields
<1>2. M \in Seq(Commands) /\ Len(M) \in Nat /\ (M = <<>> <=> Len(M) = 0)
  BY ListFacts
<1>3. CASE lx.param.type = "name"
  <2> DEFINE v == lx.param.value  c == [name |-> v, params |-> <<>>, line |-> line]
  <2>1. v \in Seq(STRING) /\ v # <<>>
    <3>1. lx.text \in Seq(STRING) /\ Len(lx.text) > 0 /\ v = lx.text
      BY <1>3, LexemeIs DEF LexemeFacts
    <3> QED
      BY <3>1, EmptyIs
  <2>2. NameTo(M, meant, v, line) /\ r.t.alphanum = v
    BY <1>3 DEF Written, TokenOf
  <2>3. c.name = v /\ c = [name |-> v, params |-> <<>>, line |-> line]
    OBVIOUS
  <2> HIDE DEF v, c
  <2>4. meant[Len(meant)] = c
    BY <2>1, <2>2, <2>3, NameAdded
  <2> QED
    BY <1>1, <2>2, <2>3, <2>4 DEF LastName, ATypes
<1>4. CASE lx.param.type # "name"
  <2> DEFINE q == lx.param
  <2>1. M # <<>> /\ ParamTo(M, meant, q) /\ q \in Params /\ r.t.type # "ALPHANUMERIC"
    BY <1>4 DEF Written, Params, TokenOf
  <2> HIDE DEF q
  <2>2. LastGets(M, meant, q)
    BY <1>2, <2>1, ParamAdded
  <2>3. Len(meant) = Len(M) /\ meant[Len(meant)].name = M[Len(M)].name
    BY <2>2 DEF LastGets
  <2>4. r.t.alphanum = t.alphanum /\ t.alphanum = M[Len(M)].name
    BY <2>1 DEF SaysName, LastName
  <2> QED
    BY <1>1, <2>3, <2>4 DEF LastName, ATypes
<1> QED
  BY <1>3, <1>4

\* What has been read of the lexeme changes.
Moved(lx, b, pos) ==
    /\ lx \in Lexemes /\ b \in Blanks \cup {<<>>} /\ pos \in 0..Len(lx.text \o b)
    /\ rrest' = SubSeq(lx.text \o b, pos + 1, Len(lx.text \o b))
    /\ Fields(rtok') /\ rtok'.line \in Int
    /\ rtok'.line = rline - LinesLeft(lx.text \o b, pos) /\ TokAt(lx, b, rtok', pos)

LEMMA ReadCharKeeps ==
    ASSUME NEW lx, NEW b, NEW pos, NEW M, Place(lx, b, pos), Told(lx, pos, M), ReadChar
    PROVE  RibInv'
<1> DEFINE s == lx.text \o b  L == Len(lx.text)  ch == s[pos + 1]  r == TokAddChar(rtok, ch)
<1>1. /\ LexemeFacts(lx, L) /\ BlankFacts(b) /\ L \in Nat /\ Len(b) \in Nat
      /\ s \in Seq(STRING) /\ Len(s) = L + Len(b)
      /\ pos \in Nat /\ pos <= L + Len(b) /\ pos \in 0..Len(s)
      /\ (rrest = <<>> <=> pos = Len(s)) /\ LastOf(lx) \in Nat
      /\ LastOf(lx) = (IF Open(lx) THEN L + 1 ELSE L) /\ L > 0
  BY PlaceFacts
<1>2. /\ lx \in Lexemes /\ b \in Blanks \cup {<<>>} /\ rlex \in Seq(LexTypes) /\ rlex # <<>>
      /\ rlex[Len(rlex)] = [type |-> lx.param.type, closed |-> b # <<>> \/ ~Open(lx)]
      /\ rrest = SubSeq(s, pos + 1, Len(s))
      /\ Fields(rtok) /\ rtok.line \in Int /\ rline \in Int
      /\ rtok.line = rline - LinesLeft(s, pos) /\ TokAt(lx, b, rtok, pos)
  BY DEF Place
<1>3. /\ rpar.eof = FALSE /\ ParFields(rpar) /\ Lists(M, rdone) /\ Heard(M, rdone, rpar)
      /\ (pos < LastOf(lx) => rpar.cur = <<>> /\ Written(lx, M, rmeant, rtok.line))
      /\ (pos >= LastOf(lx) => M # <<>> /\ rmeant = M) /\ LastName(M, rtok)
  BY DEF Told
<1>4. rpar.cur = <<>> /\ rrest # <<>> /\ UNCHANGED <<rlex, rmeant, rline, rdone>>
  BY DEF ReadChar, HasNewCommand
<1>5. pos # Len(s) /\ pos < Len(s) /\ pos < L + Len(b) /\ pos + 1 \in 0..Len(s) /\ pos + 1 \in Nat
  BY <1>1, <1>4
<1>6. /\ Head(rrest) = ch /\ rrest' = SubSeq(s, pos + 1 + 1, Len(s))
  <2>1. RestFacts(s, pos, rrest)
    <3> HIDE DEF s
    <3> QED
      BY <1>1, <1>2, RestIs
  <2>2. Head(rrest) = ch /\ Tail(rrest) = SubSeq(s, pos + 1 + 1, Len(s))
    BY <1>5, <2>1 DEF RestFacts
  <2>3. rrest' = Tail(rrest)
    BY DEF ReadChar
  <2> QED
    BY <2>2, <2>3
<1>7. /\ rtok' = (IF r.found THEN ResetState(r.t) ELSE r.t)
      /\ rpar' = (IF r.found THEN TakeToken(rpar, r.t) ELSE rpar)
  BY <1>6 DEF ReadChar
<1>8. Stepped(lx, b, rtok, pos, ch, r)
  <2> DEFINE t == rtok
  <2>1. Fields(t) /\ t.line \in Int /\ TokAt(lx, b, t, pos)
    BY <1>2
  <2> HIDE DEF t
  <2>2. Stepped(lx, b, t, pos, ch, TokAddChar(t, ch))
    BY <1>1, <1>5, <2>1, ReadStep
  <2> QED
    BY <2>2 DEF t
<1>0. SaysName(r, rtok)
  BY <1>2, <1>3, CharSays DEF LastName
<1> HIDE DEF r
<1>9. /\ Fields(r.t) /\ r.t.line = rtok.line + NL(ch)
      /\ (pos + 1 = LastOf(lx) => r.found = TRUE /\ TokenOf(r.t, lx.param))
      /\ (pos + 1 # LastOf(lx) => r.found = FALSE /\ TokAt(lx, b, r.t, pos + 1))
  BY <1>8 DEF Stepped
<1>10. /\ NL(ch) \in {0, 1} /\ LinesLeft(s, pos + 1) \in Nat /\ LinesLeft(s, pos) = NL(ch) + LinesLeft(s, pos + 1)
  <2>1. NL(ch) \in {0, 1}
    BY DEF NL
  <2> HIDE DEF s
  <2> QED
    BY <1>1, <1>5, <2>1, LinesAre DEF ch
<1>11. r.t.line \in Int /\ r.t.line = rline - LinesLeft(s, pos + 1)
  <2> HIDE DEF ch, s
  <2> QED
    BY <1>2, <1>9, <1>10
<1>12. ASSUME Moved(lx, b, pos + 1) PROVE Place(lx, b, pos + 1)'
  BY <1>2, <1>4, <1>12 DEF Moved, Place
<1>13. CASE pos + 1 = LastOf(lx)
  <2>1. r.found = TRUE /\ TokenOf(r.t, lx.param) /\ rtok' = ResetState(r.t) /\ rpar' = TakeToken(rpar, r.t)
    BY <1>7, <1>9, <1>13
  <2>2. Fields(rtok') /\ rtok'.line = r.t.line /\ Clear(rtok') /\ rtok'.comment = FALSE
    BY <1>9, <2>1, Cleared
  <2>3. TokAt(lx, b, rtok', pos + 1)
    <3> DEFINE u == rtok'  p == pos + 1
    <3>1. Clear(u) /\ u.comment = FALSE /\ p \in Nat /\ p = LastOf(lx) /\ p <= L + Len(b)
      BY <1>1, <1>5, <1>13, <2>2
    <3> HIDE DEF u, p
    <3>2. TokAt(lx, b, u, p)
      BY <1>1, <3>1, AtLast
    <3> QED
      BY <3>2 DEF u, p
  <2>4. Moved(lx, b, pos + 1)
    BY <1>2, <1>5, <1>6, <1>11, <2>2, <2>3 DEF Moved
  <2>5. Written(lx, M, rmeant, rtok.line)
    BY <1>1, <1>3, <1>13
  <2>6. HeardAs(rmeant, rdone, rpar, rpar')
    <3> DEFINE t == r.t  l == rtok.line
    <3>1. t.line - l \in {0, 1}
      <4> HIDE DEF ch
      <4> QED
        BY <1>2, <1>9, <1>10
    <3>2. t.line \in Int /\ l \in Int /\ TokenOf(t, lx.param) /\ Written(lx, M, rmeant, l)
          /\ rpar' = TakeToken(rpar, t)
      BY <1>2, <1>11, <2>1, <2>5
    <3> HIDE DEF t, l
    <3> QED
      BY <1>2, <1>3, <1>4, <3>1, <3>2, HearToken
  <2>7. Told(lx, pos + 1, rmeant)'
    <3>1. /\ rpar'.eof = FALSE /\ ParFields(rpar') /\ Lists(rmeant', rdone') /\ Heard(rmeant', rdone', rpar')
          /\ rmeant' # <<>>
      BY <1>3, <1>4, <2>6 DEF HeardAs
    <3>2. ~(pos + 1 < LastOf(lx)) /\ pos + 1 >= LastOf(lx)
      BY <1>1, <1>13
    <3>3. LastName(rmeant', rtok')
      BY <1>0, <1>2, <1>3, <1>4, <2>1, <2>5, NameTold
    <3> QED
      BY <3>1, <3>2, <3>3 DEF Told
  <2> QED
    BY <1>12, <2>4, <2>7 DEF RibInv
<1>14. CASE pos + 1 # LastOf(lx)
  <2>1. r.found = FALSE /\ rtok' = r.t /\ rpar' = rpar /\ TokAt(lx, b, rtok', pos + 1)
    BY <1>7, <1>9, <1>14
  <2>2. Moved(lx, b, pos + 1)
    BY <1>2, <1>5, <1>6, <1>9, <1>11, <2>1 DEF Moved
  <2>0. LastName(M, rtok')
    BY <1>0, <1>3, <2>1 DEF LastName, SaysName
  <2>3. CASE pos >= LastOf(lx)
    <3>1. ~(pos + 1 < LastOf(lx)) /\ pos + 1 >= LastOf(lx) /\ M # <<>> /\ rmeant' = M
      BY <1>1, <1>3, <1>4, <2>3
    <3>2. Told(lx, pos + 1, M)'
      BY <1>3, <1>4, <2>0, <2>1, <3>1 DEF Told
    <3> QED
      BY <1>12, <2>2, <3>2 DEF RibInv
  <2>4. CASE pos < LastOf(lx)
    <3>1. pos + 1 < LastOf(lx) /\ ~(pos + 1 >= LastOf(lx))
      BY <1>1, <1>14, <2>4
    <3>2. Written(lx, M, rmeant', rtok'.line)
      <4>1. CASE lx.param.type = "name"
        <5>1. Open(lx)
          BY <4>1 DEF Open
        <5>2. pos < L
          BY <1>1, <3>1, <5>1
        <5>3. NL(ch) = 0
          BY <1>1, <5>1, <5>2, NoNewline
        <5>4. rtok'.line = rtok.line
          <6> HIDE DEF ch
          <6> QED
            BY <1>2, <1>9, <2>1, <5>3
        <5> QED
          BY <1>3, <1>4, <2>4, <5>4
      <4>2. CASE lx.param.type # "name"
        BY <1>3, <1>4, <2>4, <4>2 DEF Written
      <4> QED
        BY <4>1, <4>2
    <3>3. Told(lx, pos + 1, M)'
      BY <1>3, <1>4, <2>0, <2>1, <3>1, <3>2 DEF Told
    <3> QED
      BY <1>12, <2>2, <3>3 DEF RibInv
  <2> QED
    BY <1>1, <2>3, <2>4
<1> QED
  BY <1>13, <1>14


LEMMA GivenKept ==
    ASSUME UNCHANGED <<rlex, rmeant, rline>>, rpar'.eof = rpar.eof PROVE Given' = Given
BY DEF Given, NameLost, NumberCut, LastCut

LEMMA FlushFields ==
    ASSUME NEW p, ParFields(p), NEW p2, p2 = FlushNewCommand(p) PROVE ParFields(p2) /\ p2.eof = p.eof
BY DEF ParFields, FlushNewCommand

LEMMA FlushKeeps == ASSUME RibInv, Flush PROVE RibInv'
<1>1. /\ rpar.cur # <<>> /\ GivenTo(rdone, rdone', rpar) /\ rpar' = FlushNewCommand(rpar)
      /\ UNCHANGED <<rtok, rrest, rlex, rmeant, rline>>
  BY DEF Flush, HasNewCommand, GivenTo
<1>2. CASE Fresh
  <2>1. rpar.cur = <<>>
    BY <1>2 DEF Fresh, Heard
  <2> QED
    BY <1>1, <2>1
<1>3. ASSUME NEW lx, NEW b, NEW pos, NEW M, Place(lx, b, pos), Told(lx, pos, M)
      PROVE  RibInv'
  <2>1. /\ rpar.eof = FALSE /\ ParFields(rpar) /\ Lists(M, rdone) /\ Heard(M, rdone, rpar)
        /\ (pos < LastOf(lx) => rpar.cur = <<>>) /\ (pos >= LastOf(lx) => M # <<>> /\ rmeant = M)
    BY <1>3 DEF Told
  <2>2. pos \in Nat /\ LastOf(lx) \in Nat
    BY <1>3, PlaceFacts
  <2>3. pos >= LastOf(lx) /\ ~(pos < LastOf(lx))
    BY <1>1, <2>1, <2>2
  <2>4. HeardAs(M, rdone', rpar, rpar')
    BY <1>1, <2>1, FlushHeard
  <2>5. Told(lx, pos, M)'
    BY <1>1, <1>3, <2>1, <2>3, <2>4 DEF Told, HeardAs
  <2>6. Place(lx, b, pos)'
    BY <1>1, <1>3 DEF Place
  <2> QED
    BY <2>5, <2>6 DEF RibInv
<1>4. CASE Over
  <2>1. /\ rpar.eof = TRUE /\ ParFields(rpar) /\ rrest = <<>>
        /\ rtok.state \in {"UNKNOWN", "NORMAL"} /\ rtok.cur = <<>> /\ rtok.quoted = FALSE
        /\ Lists(Given, rdone) /\ Ending(Given, rdone, rpar)
    BY <1>4 DEF Over
  <2>2. ParFields(rpar') /\ rpar'.eof = TRUE
    BY <1>1, <2>1, FlushFields
  <2>3. Given' = Given
    BY <1>1, <2>1, <2>2, GivenKept
  <2>4. EndingAs(Given, rdone', rpar')
    <3> DEFINE G == Given
    <3>1. Lists(G, rdone) /\ Ending(G, rdone, rpar)
      BY <2>1
    <3> HIDE DEF G
    <3>2. EndingAs(G, rdone', rpar')
      BY <1>1, <2>1, <3>1, FlushEnding
    <3> QED
      BY <3>2 DEF G
  <2>5. Lists(Given', rdone') /\ Ending(Given', rdone', rpar')
    BY <2>3, <2>4 DEF EndingAs
  <2>6. Over'
    BY <1>1, <2>1, <2>2, <2>5 DEF Over
  <2> QED
    BY <2>6 DEF RibInv
<1> QED
  BY <1>2, <1>3, <1>4 DEF RibInv

\* The end of the file behind a complete token.
LEMMA EofBetween == ASSUME Ready, Eof PROVE RibInv'
<1> DEFINE r == TokAddChar(rtok, "nl")
<1>1. /\ rrest = <<>> /\ rpar.eof = FALSE /\ ParFields(rpar)
      /\ Lists(rmeant, rdone) /\ Heard(rmeant, rdone, rpar)
      /\ Fields(rtok) /\ Clear(rtok) /\ rtok.comment = FALSE /\ rline \in Int /\ rtok.line = rline
  BY DEF Ready
<1>2. /\ rpar.cur = <<>> /\ rtok' = r.t /\ UNCHANGED <<rrest, rlex, rmeant, rline, rdone>>
      /\ rpar' = [IF r.found THEN NewCommand(rpar, r.t.alphanum, r.t.line)
                  ELSE NewCommand(rpar, <<>>, -1) EXCEPT !.eof = TRUE]
  BY DEF Eof, ParserEof, HasNewCommand
<1>3. BlankTok(r, rtok, "nl")
  <2> DEFINE t == rtok  ch == "nl"
  <2>1. /\ Fields(t) /\ t.line \in Int /\ t.comment \in BOOLEAN /\ t.quoted = FALSE
        /\ t.state \in {"UNKNOWN", "ARRAY"} /\ t.cur = <<>> /\ ch \in White \cup {"#"}
    BY <1>1 DEF Clear, White
  <2> HIDE DEF t, ch
  <2>2. BlankTok(TokAddChar(t, ch), t, ch)
    BY <2>1, BlankChar
  <2> QED
    BY <2>2 DEF t, ch
<1> HIDE DEF r
<1>4. r.found = FALSE /\ r.t.state = rtok.state /\ r.t.cur = <<>> /\ r.t.quoted = FALSE
  BY <1>3 DEF BlankTok
<1>5. EofGets(rpar, rpar', <<>>, -1)
  BY <1>2, <1>4 DEF EofGets
<1>6. EndingAs(rmeant, rdone, rpar')
  BY <1>1, <1>2, <1>5, EofClosed
<1>7. rtok'.state \in {"UNKNOWN", "NORMAL"} /\ rtok'.cur = <<>> /\ rtok'.quoted = FALSE
  BY <1>1, <1>2, <1>4 DEF Clear
<1>9. Given' = rmeant'
  <2>1. rlex' = rlex /\ (rlex # <<>> => rlex[Len(rlex)].closed)
    BY <1>2 DEF Ready
  <2> QED
    BY <2>1 DEF Given, NameLost, NumberCut, LastCut
<1>8. Over'
  BY <1>1, <1>2, <1>6, <1>7, <1>9 DEF Over, EndingAs
<1> QED
  BY <1>8 DEF RibInv

\* The end of the file completes a name or a number.
LEMMA EofCompletes ==
    ASSUME NEW lx, NEW b, NEW pos, NEW M, Place(lx, b, pos), Told(lx, pos, M), ~rlex[Len(rlex)].closed, Eof
    PROVE  RibInv'
<1> DEFINE L == Len(lx.text)  r == TokAddChar(rtok, "nl")
<1>1. /\ LexemeFacts(lx, L) /\ BlankFacts(b) /\ L \in Nat /\ Len(b) \in Nat
      /\ Len(lx.text \o b) = L + Len(b) /\ pos \in Nat
      /\ (rrest = <<>> <=> pos = Len(lx.text \o b)) /\ LastOf(lx) \in Nat
      /\ LastOf(lx) = (IF Open(lx) THEN L + 1 ELSE L) /\ L > 0
  BY PlaceFacts
<1>2. /\ rpar.cur = <<>> /\ rrest = <<>> /\ rtok' = r.t /\ UNCHANGED <<rrest, rlex, rmeant, rline, rdone>>
      /\ rpar' = [IF r.found THEN NewCommand(rpar, r.t.alphanum, r.t.line)
                  ELSE NewCommand(rpar, <<>>, -1) EXCEPT !.eof = TRUE]
  BY DEF Eof, ParserEof, HasNewCommand
<1>3. /\ lx \in Lexemes /\ rlex \in Seq(LexTypes) /\ rlex # <<>> /\ Fields(rtok) /\ rtok.line \in Int
      /\ rlex[Len(rlex)] = [type |-> lx.param.type, closed |-> b # <<>> \/ ~Open(lx)]
      /\ TokAt(lx, b, rtok, pos)
  BY DEF Place
<1>4. b = <<>> /\ Open(lx) /\ rlex[Len(rlex)].type = lx.param.type
  <2> DEFINE e == b # <<>> \/ ~Open(lx)
  <2>1. e \in BOOLEAN
    OBVIOUS
  <2> HIDE DEF e
  <2>2. rlex[Len(rlex)] = [type |-> lx.param.type, closed |-> e]
    BY <1>3 DEF e
  <2>3. rlex[Len(rlex)].closed = e /\ rlex[Len(rlex)].type = lx.param.type
    BY <2>2
  <2>4. ~e
    BY <2>1, <2>3, Zenon
  <2> QED
    BY <2>3, <2>4 DEF e
<1>5. pos = L /\ pos < LastOf(lx) /\ ~(pos >= LastOf(lx)) /\ pos # 0
  <2>1. Len(b) = 0
    BY <1>4
  <2> QED
    BY <1>1, <1>2, <1>4, <2>1
<1>6. /\ rpar.eof = FALSE /\ ParFields(rpar) /\ Lists(M, rdone) /\ Heard(M, rdone, rpar)
      /\ Written(lx, M, rmeant, rtok.line) /\ LastName(M, rtok)
  BY <1>5 DEF Told
<1>14. SaysName(r, rtok)
  BY <1>3, <1>6, CharSays DEF LastName
<1>15. lx.text \o b \in Seq(STRING)
  BY PlaceFacts
<1>7. rtok.state = "NORMAL" /\ rtok.quoted = FALSE /\ rtok.comment = FALSE /\ SpellsPlain(rtok.cur, lx.param)
  <2>1. /\ rtok.state = "NORMAL" /\ rtok.cur = SubSeq(lx.text, 1, pos)
        /\ rtok.quoted = FALSE /\ rtok.comment = FALSE
    BY <1>3, <1>4, <1>5 DEF TokAt
  <2>2. lx.text \in Seq(STRING) /\ SpellsPlain(lx.text, lx.param)
    BY <1>1, <1>4 DEF LexemeFacts
  <2>3. rtok.cur = lx.text
    BY <1>5, <2>1, <2>2, WholePart
  <2> QED
    BY <2>1, <2>2, <2>3
<1>8. r.found = TRUE /\ r.t.line = rtok.line + NL("nl") /\ TokenOf(r.t, lx.param) /\ Emptied(r.t)
  <2> DEFINE t == rtok  ch == "nl"  p == lx.param
  <2>1. /\ Fields(t) /\ t.line \in Int /\ t.state = "NORMAL" /\ t.comment = FALSE
        /\ t.quoted = FALSE /\ ch \in White /\ SpellsPlain(t.cur, p)
    BY <1>3, <1>7 DEF White
  <2> HIDE DEF t, ch, p
  <2>2. LET u == TokAddChar(t, ch) IN
        u.found = TRUE /\ Fields(u.t) /\ u.t.line = t.line + NL(ch) /\ TokenOf(u.t, p) /\ Emptied(u.t)
    BY <2>1, EndPlain
  <2> QED
    BY <2>2 DEF t, ch, p
<1> HIDE DEF r
<1>9. EofGets(rpar, rpar', r.t.alphanum, r.t.line)
  BY <1>2, <1>8 DEF EofGets
<1>10. ParFields(rpar') /\ rpar'.eof = TRUE
  <2>1. EofAs(rpar, rpar', r.t.alphanum, r.t.line)
    BY <1>6, <1>9, EofFields
  <2> QED
    BY <2>1 DEF EofAs
<1>11. rtok'.state \in {"UNKNOWN", "NORMAL"} /\ rtok'.cur = <<>> /\ rtok'.quoted = FALSE
  BY <1>2, <1>8 DEF Emptied
<1>0. LastCut' /\ rlex'[Len(rlex')].type = lx.param.type
  BY <1>2, <1>3, <1>4, <1>10 DEF LastCut
<1>12. ASSUME lx.param.type = "name" PROVE EndingAs(Given', rdone, rpar')
  <2> DEFINE v == lx.param.value  l == r.t.line  line == rtok.line
  <2>3. v \in Seq(STRING) /\ v # <<>>
    <3>1. lx.text \in Seq(STRING) /\ L > 0 /\ v = lx.text
      BY <1>1, <1>12 DEF LexemeFacts
    <3> QED
      BY <3>1, EmptyIs
  <2>4. r.t.alphanum = v
    BY <1>8, <1>12 DEF TokenOf
  <2>5. NameTo(M, rmeant, v, line)
    BY <1>6, <1>12 DEF Written
  <2>6. line \in Int /\ l \in Int /\ l - line \in {0, 1}
    <3>1. NL("nl") = 1
      BY DEF NL
    <3> QED
      BY <1>3, <1>8, <3>1
  <2>7. EofGets(rpar, rpar', v, l)
    BY <1>9, <2>4
  <2>8. Given' = IF Len(rmeant) = 1 THEN <<>> ELSE rmeant
    BY <1>0, <1>2, <1>12 DEF Given, NameLost, NumberCut
  <2>9. /\ Len(rmeant) = Len(M) + 1 /\ Len(M) \in Nat /\ (M = <<>> <=> Len(M) = 0)
    <3> DEFINE c == [name |-> v, params |-> <<>>, line |-> line]
    <3>1. c = [name |-> v, params |-> <<>>, line |-> line]
      OBVIOUS
    <3> HIDE DEF c, v, line
    <3>2. Len(rmeant) = Len(M) + 1
      BY <1>6, <2>3, <2>5, <2>6, <3>1, NameAdded
    <3> QED
      BY <1>6, <3>2, ListFacts
  <2> HIDE DEF v, l, line
  <2>10. CASE M = <<>>
    <3>1. Given' = M
      BY <2>8, <2>9, <2>10
    <3>2. rpar'.cur = <<>>
      <4>1. EofAs(rpar, rpar', v, l)
        BY <1>6, <2>7, EofFields
      <4> QED
        BY <1>6, <2>10, <4>1 DEF Heard, EofAs
    <3>3. Len(rdone) = Len(M)
      BY <1>6, <2>9, <2>10 DEF Heard
    <3> QED
      BY <1>6, <1>10, <3>1, <3>2, <3>3 DEF EndingAs, Ending
  <2>11. CASE M # <<>>
    <3>1. Given' = rmeant
      BY <2>8, <2>9, <2>11
    <3>2. EndingAs(rmeant, rdone, rpar')
      BY <1>2, <1>6, <2>3, <2>5, <2>6, <2>7, <2>11, EofName
    <3> QED
      BY <3>1, <3>2
  <2> QED
    BY <2>10, <2>11
<1>13. ASSUME lx.param.type # "name" PROVE EndingAs(Given', rdone, rpar')
  <2> DEFINE q == lx.param  v == M[Len(M)].name  l == r.t.line  line == rline
  <2>1. q \in Params /\ M # <<>> /\ ParamTo(M, rmeant, q)
    BY <1>3, <1>6, <1>13 DEF Written, Params
  <2>2. v \in Seq(STRING) /\ v # <<>> /\ Len(M) \in Nat
    <3>1. Len(M) \in 1..Len(M)
      BY <1>6, <2>1, ListFacts
    <3> QED
      BY <1>6, <3>1, ListFacts
  <2>3. r.t.alphanum = v
    <3>1. r.t.type # "ALPHANUMERIC"
      BY <1>8, <1>13 DEF TokenOf
    <3>2. rtok.alphanum = v
      BY <1>6, <2>1 DEF LastName
    <3> QED
      BY <1>14, <3>1, <3>2 DEF SaysName
  <2>4. line \in Int /\ l \in Int /\ l - line \in {0, 1}
    <3>1. NL("nl") = 1
      BY DEF NL
    <3>2. LinesLeft(lx.text \o b, pos) = 0
      BY <1>1, <1>2, <1>15, LinesAre
    <3>3. rtok.line = rline - LinesLeft(lx.text \o b, pos) /\ rline \in Int
      BY DEF Place
    <3> QED
      BY <1>8, <3>1, <3>2, <3>3
  <2>5. Given' = Append([rmeant EXCEPT ![Len(rmeant)].params = SubSeq(@, 1, Len(@) - 1)],
                        [name |-> rmeant[Len(rmeant)].name, params |-> <<>>, line |-> line])
    BY <1>0, <1>2, <1>13 DEF Given, NameLost, NumberCut
  <2> HIDE DEF q
  <2>6. /\ [rmeant EXCEPT ![Len(rmeant)].params = SubSeq(@, 1, Len(@) - 1)] = M
        /\ rmeant[Len(rmeant)].name = v
    BY <1>6, <2>1, Untold
  <2>7. NameTo(M, Given', v, line)
    BY <2>5, <2>6 DEF NameTo
  <2>8. EofGets(rpar, rpar', v, l)
    BY <1>9, <2>3
  <2> DEFINE G == Given'
  <2>9. NameTo(M, G, v, line)
    BY <2>7
  <2> HIDE DEF v, l, line, G
  <2>10. EndingAs(G, rdone, rpar')
    BY <1>2, <1>6, <2>1, <2>2, <2>4, <2>8, <2>9, EofName
  <2> QED
    BY <2>10 DEF G
<1>16. Lists(Given', rdone') /\ Ending(Given', rdone', rpar')
  BY <1>2, <1>12, <1>13 DEF EndingAs
<1>17. Over'
  BY <1>2, <1>10, <1>11, <1>16 DEF Over
<1> QED
  BY <1>17 DEF RibInv

LEMMA EofKeeps == ASSUME RibInv, Eof PROVE RibInv'
<1>1. rrest = <<>> /\ rpar.eof = FALSE
  <2>1. rrest = <<>> /\ ~rpar.eof
    BY DEF Eof
  <2>2. rpar.eof = TRUE \/ rpar.eof = FALSE
    BY DEF RibInv, Fresh, Told, Over
  <2> QED
    BY <2>1, <2>2
<1>2. CASE rlex # <<>> => rlex[Len(rlex)].closed
  <2>1. Ready
    BY <1>1, <1>2, BetweenLexemes
  <2> QED
    BY <2>1, EofBetween
<1>3. CASE rlex # <<>> /\ ~rlex[Len(rlex)].closed
  <2>1. ~Fresh /\ ~Over
    BY <1>1, <1>3 DEF Fresh, Over
  <2>2. PICK lx, b, pos, M : Place(lx, b, pos) /\ Told(lx, pos, M)
    BY <2>1 DEF RibInv
  <2> QED
    BY <1>3, <2>2, EofCompletes
<1> QED
  BY <1>2, <1>3

LEMMA WriteKeeps == ASSUME RibInv, NEW lx \in Lexemes, NEW b \in Blanks \cup {<<>>}, Write(lx, b) PROVE RibInv'
<1>1. rrest = <<>> /\ rpar.cur = <<>> /\ ~rpar.eof /\ (rlex # <<>> => rlex[Len(rlex)].closed)
  BY DEF Write, HasNewCommand
<1>2. rpar.eof = FALSE
  <2>1. rpar.eof = TRUE \/ rpar.eof = FALSE
    BY DEF RibInv, Fresh, Told, Over
  <2> QED
    BY <1>1, <2>1
<1>3. Ready
  BY <1>1, <1>2, BetweenLexemes
<1> QED
  BY <1>1, <1>3, ReadyWrites

LEMMA ReadKeeps == ASSUME RibInv, ReadChar PROVE RibInv'
<1>1. rrest # <<>>
  BY DEF ReadChar
<1>2. ~Fresh /\ ~Over
  BY <1>1 DEF Fresh, Over
<1>3. PICK lx, b, pos, M : Place(lx, b, pos) /\ Told(lx, pos, M)
  BY <1>2 DEF RibInv
<1> QED
  BY <1>3, ReadCharKeeps

LEMMA RibStarts == RInit => RibInv
<1> SUFFICES ASSUME RInit PROVE Fresh
  BY DEF RibInv
<1>1. rlex = <<>> /\ rmeant = <<>> /\ rrest = <<>> /\ rline = 1 /\ rdone = <<>>
  BY DEF RInit
<1>2. rtok.line = rline /\ Fields(rtok) /\ Clear(rtok) /\ rtok.comment = FALSE
  BY DEF RInit, Fields, Clear
<1>3. rpar.eof = FALSE /\ ParFields(rpar) /\ rpar.cur = <<>> /\ rpar.next = <<>> /\ rpar.params = <<>>
  BY DEF RInit, ParFields
<1>4. Lists(<<>>, <<>>)
  BY DEF Lists
<1>5. Heard(<<>>, <<>>, rpar)
  BY <1>3 DEF Heard
<1>6. LastName(<<>>, rtok)
  BY DEF RInit, LastName, ATypes
<1> QED
  BY <1>1, <1>2, <1>3, <1>4, <1>5, <1>6 DEF Fresh

(* Whatever the lexemes, the blanks and the length of a file: at every     *)
(* character the tokenizer and the Parser hold what the text says so far.  *)
THEOREM ParserInvariance == RSpec => []RibInv
<1>1. ASSUME RibInv, [RNext]_rvars PROVE RibInv'
  <2>1. CASE Flush
    BY <1>1, <2>1, FlushKeeps
  <2>2. CASE ReadChar
    BY <1>1, <2>2, ReadKeeps
  <2>3. CASE Eof
    BY <1>1, <2>3, EofKeeps
  <2>4. ASSUME NEW lx \in Lexemes, NEW b \in Blanks \cup {<<>>}, Write(lx, b) PROVE RibInv'
    BY <1>1, <2>4, WriteKeeps
  <2>5. CASE UNCHANGED rvars
    <3>1. UNCHANGED <<rtok, rpar, rrest, rlex, rmeant, rline, rdone>>
      BY <2>5 DEF rvars
    <3>2. CASE Fresh
      BY <3>1, <3>2 DEF RibInv, Fresh
    <3>3. CASE Over
      BY <3>1, <3>3, GivenKept DEF RibInv, Over
    <3>4. ASSUME NEW lx, NEW b, NEW pos, NEW M, Place(lx, b, pos), Told(lx, pos, M) PROVE RibInv'
      <4>1. Place(lx, b, pos)'
        BY <3>1, <3>4 DEF Place
      <4>2. Told(lx, pos, M)'
        BY <3>1, <3>4 DEF Told
      <4> QED
        BY <4>1, <4>2 DEF RibInv
    <3> QED
      BY <1>1, <3>2, <3>3, <3>4 DEF RibInv
  <2> QED
    BY <1>1, <2>1, <2>2, <2>3, <2>4, <2>5 DEF RNext
<1> QED
  BY <1>1, RibStarts, PTL DEF RSpec

LEMMA LikeIs ==
    ASSUME NEW d, NEW c \in Commands, Like(d, c) PROVE SameCommand(d, c) /\ d.line - c.line \in {0, 1}
BY DEF Like, LineOf, SameCommand

LEMMA SoFar ==
    ASSUME NEW M, Lists(M, rdone), NEW N, Len(N) \in Nat, Len(N) >= Len(M),
           \A i \in 1..Len(rdone) : N[i] = M[i]
    PROVE  /\ Len(rdone) <= Len(N)
           /\ \A i \in DOMAIN rdone : /\ SameCommand(rdone[i], N[i])
                                      /\ rdone[i].line - N[i].line \in {0, 1}
<1>1. /\ rdone \in Seq(Commands) /\ Len(M) \in Nat /\ Len(rdone) \in Nat /\ Len(rdone) <= Len(M)
      /\ \A i \in 1..Len(M) : M[i] \in Commands
      /\ \A i \in 1..Len(rdone) : Like(rdone[i], M[i])
  BY ListFacts
<1>2. DOMAIN rdone = 1..Len(rdone)
  BY <1>1
<1>3. ASSUME NEW i \in 1..Len(rdone)
      PROVE  SameCommand(rdone[i], N[i]) /\ rdone[i].line - N[i].line \in {0, 1}
  <2>1. i \in 1..Len(M)
    BY <1>1
  <2>2. N[i] = M[i] /\ M[i] \in Commands /\ Like(rdone[i], M[i])
    BY <1>1, <2>1
  <2> QED
    BY <2>2, LikeIs
<1>4. Len(rdone) <= Len(N)
  BY <1>1
<1> QED
  BY <1>2, <1>3, <1>4

LEMMA MeantSoFar ==
    ASSUME NEW lx \in Lexemes, NEW M, NEW line \in Int, Lists(M, rdone), Heard(M, rdone, rpar),
           Written(lx, M, rmeant, line), rpar.cur = <<>>
    PROVE  /\ Len(rmeant) \in Nat /\ Len(rmeant) >= Len(M) /\ Len(rmeant) <= Len(M) + 1
           /\ \A i \in 1..Len(rdone) : rmeant[i] = M[i]
           /\ Len(rdone) >= Len(rmeant) - 2
<1> DEFINE n == Len(M)
<1>1. /\ M \in Seq(Commands) /\ n \in Nat /\ Len(rdone) \in Nat /\ Len(rdone) <= n /\ (M = <<>> <=> n = 0)
  BY ListFacts
<1>2. Len(rdone) >= n - 1 /\ (M # <<>> => Len(rdone) = n - 1)
  BY <1>1 DEF Heard
<1>3. CASE lx.param.type = "name"
  <2> DEFINE v == lx.param.value
  <2>1. v \in Seq(STRING) /\ v # <<>>
    <3>1. lx.text \in Seq(STRING) /\ Len(lx.text) > 0 /\ v = lx.text
      BY <1>3, LexemeIs DEF LexemeFacts
    <3> QED
      BY <3>1, EmptyIs
  <2>2. NameTo(M, rmeant, v, line)
    BY <1>3 DEF Written
  <2> DEFINE c == [name |-> v, params |-> <<>>, line |-> line]
  <2>0. c = [name |-> v, params |-> <<>>, line |-> line]
    OBVIOUS
  <2> HIDE DEF v, c
  <2>3. Len(rmeant) = n + 1 /\ \A i \in 1..n : rmeant[i] = M[i]
    BY <2>0, <2>1, <2>2, NameAdded
  <2> QED
    BY <1>1, <1>2, <2>3
<1>4. CASE lx.param.type # "name"
  <2> DEFINE q == lx.param
  <2>1. M # <<>> /\ ParamTo(M, rmeant, q) /\ q \in Params /\ n > 0
    BY <1>1, <1>4 DEF Written, Params
  <2> HIDE DEF q
  <2>2. LastGets(M, rmeant, q)
    BY <1>1, <2>1, ParamAdded
  <2>3. Len(rmeant) = n /\ \A i \in 1..n : i # n => rmeant[i] = M[i]
    BY <2>2 DEF LastGets
  <2> QED
    BY <1>1, <1>2, <2>1, <2>3
<1> QED
  BY <1>3, <1>4

(* The commands that the Translator gets are those the file says, in their *)
(* order, each with its own parameters, types and values; at most two are  *)
(* held back between lexemes, and none at the end of the file.             *)
THEOREM CommandsAreAsWritten == RSpec => []CommandsAsWritten
<1>1. RibInv => CommandsAsWritten
  <2> DEFINE As(G) ==
               /\ Len(rdone) <= Len(G)
               /\ \A i \in DOMAIN rdone : /\ SameCommand(rdone[i], G[i])
                                          /\ rdone[i].line - G[i].line \in {0, 1}
               /\ rrest = <<>> /\ ~HasNewCommand => Len(rdone) >= Len(G) - (IF rpar.eof THEN 0 ELSE 2)
  <2> SUFFICES ASSUME RibInv PROVE As(Given)
    BY DEF CommandsAsWritten
  <2>0. rpar.eof = FALSE => Given = rmeant
    BY DEF Given, NameLost, NumberCut, LastCut
  <2>1. ASSUME NEW G, Lists(G, rdone)
        PROVE  /\ Len(rdone) <= Len(G)
               /\ \A i \in DOMAIN rdone : /\ SameCommand(rdone[i], G[i])
                                          /\ rdone[i].line - G[i].line \in {0, 1}
    <3>1. Len(G) \in Nat
      BY <2>1, ListFacts
    <3> QED
      BY <2>1, <3>1, SoFar
  <2>2. CASE Fresh
    <3>1. Lists(rmeant, rdone) /\ rpar.eof = FALSE /\ Len(rdone) = 0 /\ Len(rmeant) = 0
      BY <2>2 DEF Fresh, Heard
    <3> QED
      BY <2>0, <2>1, <3>1
  <2>3. ASSUME NEW lx, NEW b, NEW pos, NEW M, Place(lx, b, pos), Told(lx, pos, M)
        PROVE  As(Given)
    <3>0. As(rmeant) => As(Given)
      BY <2>0, <2>3 DEF Told
    <3>1. /\ rpar.eof = FALSE /\ Lists(M, rdone) /\ Heard(M, rdone, rpar)
          /\ (pos < LastOf(lx) => rpar.cur = <<>> /\ Written(lx, M, rmeant, rtok.line))
          /\ (pos >= LastOf(lx) => M # <<>> /\ rmeant = M)
      BY <2>3 DEF Told
    <3>2. lx \in Lexemes /\ rtok.line \in Int
      BY <2>3 DEF Place
    <3>3. pos \in Nat /\ LastOf(lx) \in Nat
      BY <2>3, PlaceFacts
    <3>4. CASE pos < LastOf(lx)
      <4>1. /\ Len(rmeant) \in Nat /\ Len(rmeant) >= Len(M)
            /\ \A i \in 1..Len(rdone) : rmeant[i] = M[i]
            /\ Len(rdone) >= Len(rmeant) - 2
        BY <3>1, <3>2, <3>4, MeantSoFar
      <4>2. /\ Len(rdone) <= Len(rmeant)
            /\ \A i \in DOMAIN rdone : /\ SameCommand(rdone[i], rmeant[i])
                                       /\ rdone[i].line - rmeant[i].line \in {0, 1}
        BY <3>1, <4>1, SoFar
      <4> QED
        BY <3>0, <3>1, <4>1, <4>2
    <3>5. CASE pos >= LastOf(lx)
      <4>1. M # <<>> /\ rmeant = M
        BY <3>1, <3>5
      <4>2. ~HasNewCommand => Len(rdone) >= Len(rmeant) - 2
        <5>1. Len(rmeant) \in Nat /\ Len(rdone) \in Nat
          BY <3>1, <4>1, ListFacts
        <5> QED
          BY <3>1, <4>1, <5>1 DEF Heard, HasNewCommand
      <4> QED
        BY <2>1, <3>0, <3>1, <4>1, <4>2
    <3> QED
      BY <3>3, <3>4, <3>5
  <2>4. CASE Over
    <3> DEFINE G == Given
    <3>1. Lists(G, rdone) /\ Ending(G, rdone, rpar)
      BY <2>4 DEF Over
    <3> HIDE DEF G
    <3>2. Len(G) \in Nat /\ Len(rdone) \in Nat
      BY <3>1, ListFacts
    <3>3. ~HasNewCommand => Len(rdone) = Len(G)
      BY <3>1 DEF Ending, HasNewCommand
    <3>4. rrest = <<>> /\ ~HasNewCommand => Len(rdone) >= Len(G) - (IF rpar.eof THEN 0 ELSE 2)
      BY <3>2, <3>3
    <3>5. As(G)
      BY <2>1, <3>1, <3>4
    <3> QED
      BY <3>5 DEF G
  <2> QED
    BY <2>2, <2>3, <2>4 DEF RibInv
<1> QED
  BY <1>1, ParserInvariance, PTL

(* Nothing of a lexeme is left in the tokenizer when the next one begins.  *)
THEOREM ParserTypes == RSpec => []RTypeOK
<1>1. RibInv => RTypeOK
  <2> SUFFICES ASSUME RibInv PROVE RTypeOK
    OBVIOUS
  <2>1. CASE Fresh
    BY <2>1 DEF Fresh, Clear, RTypeOK
  <2>2. CASE Over
    BY <2>2 DEF Over, RTypeOK
  <2>3. ASSUME NEW lx, NEW b, NEW pos, NEW M, Place(lx, b, pos), Told(lx, pos, M) PROVE RTypeOK
    <3>1. TokAt(lx, b, rtok, pos)
      BY <2>3 DEF Place
    <3>2. rpar.eof = FALSE
      BY <2>3 DEF Told
    <3>3. \/ Clear(rtok) \/ (rtok.state \in {"NORMAL", "STRING"} /\ rtok.quoted = FALSE)
          \/ rtok.state = "ARRAY"
      BY <3>1 DEF TokAt, InArray
    <3>4. rrest = <<>> /\ rlex # <<>> /\ rlex[Len(rlex)].closed => rtok.state = "UNKNOWN" /\ ~rtok.comment
      <4>1. ASSUME rrest = <<>>, rlex[Len(rlex)].closed PROVE rtok.state = "UNKNOWN" /\ ~rtok.comment
        <5>1. Ready
          BY <3>2, <4>1, BetweenLexemes
        <5> QED
          BY <5>1 DEF Ready, Clear
      <4> QED
        BY <4>1
    <3> QED
      BY <3>2, <3>3, <3>4 DEF Clear, RTypeOK
  <2> QED
    BY <2>1, <2>2, <2>3 DEF RibInv
<1> QED
  BY <1>1, ParserInvariance, PTL

=================================================================================
