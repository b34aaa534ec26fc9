------------------------------ MODULE ShaderVM ------------------------------
(***************************************************************************)
(* The shader virtual machine: RRASM::Parser reads a program line by line  *)
(* and links the ends of its blocks, SVM::Context and ShaderInst::runFrom  *)
(* run it on one grid after the other with a stack of open blocks, a loop  *)
(* over the active lights, the contexts of the lights and a cached ambient *)
(* colour, which outlive the grid and sometimes a failure.                 *)
(*                                                                         *)
(* A line is a label or an instruction.  Operands and what an instruction  *)
(* computes are left out ("op"); "ifT", "ifF" and "ifV" are iftrue on a    *)
(* uniform register that is true or false and on a varying one, and "lt"   *)
(* is cmplt.ssl with the label "loop:", which jumps or does not.           *)
(***************************************************************************)
EXTENDS Integers, Sequences, FiniteSets, FiniteSetsExt

CONSTANTS
    Sources,    \* programs: sequences of lines
    Attribs,    \* attributes of primitives
    ActLights,  \* their mActiveLights: sequences of lights
    Ambients,   \* lights whose shader has no direction or position
    BadLights,  \* lights whose shader does not bind
    MaxFop,     \* SRC_FuncopStack::MAX_N (16)
    MaxGrids    \* bound: grids shaded

Begins == {"ifT", "ifF", "ifV", "illum", "solar"}
Ops == Begins \cup {"op", "ret", "ambient", "orelse", "end", "lt"}
Labels == {"main:", "def:", "loop:"}
INVALID_ADDR == 65535
None == "none"

\* An address is a u_short other than INVALID_ADDR.
ASSUME VMAssumption ==
    /\ \A s \in Sources : s \in Seq(Ops \cup Labels) /\ Len(s) < INVALID_ADDR
    /\ DOMAIN ActLights = Attribs /\ None \notin Attribs
    /\ \A a \in Attribs : ActLights[a] \in Seq({ActLights[a][i] : i \in DOMAIN ActLights[a]})
    /\ MaxFop \in Nat /\ MaxGrids \in Nat

VARIABLES
    vphase,     \* "parse", "rejected", "idle", "run" or "ret"
    vsrc, vline, \* the program and the line to parse
    vcode,      \* mCode: [op, end]
    vbegins,    \* mFuncOpBeginIdx
    vmain, vdef, \* addresses of __main and of a __defparam_ label, 0 for none
    vloop,      \* address of the label that is referred to, 0 for none
    vctx,       \* the surface Context
    vpc, vfop,  \* program counter, mFopStack
    vill, vbody, \* mIlluminanceCtx: next light (0: not active), body address
    vstarts,    \* addresses still to run from for this grid
    vub,        \* undefined behaviour ends the model
    \* History, read by the properties only:
    vgrids, vstart, vout, vvisits, vused

vvars == <<vphase, vsrc, vline, vcode, vbegins, vmain, vdef, vloop, vctx, vpc, vfop, vill, vbody,
           vstarts, vub, vgrids, vstart, vout, vvisits, vused>>
parsing == <<vsrc, vline, vcode, vbegins, vmain, vdef, vloop>>
running == <<vpc, vfop, vill, vbody, vstarts, vstart, vout, vvisits, vused>>

NewCtx == [attr |-> None, light |-> None, bound |-> FALSE]

VInit ==
    /\ vphase = "parse" /\ vsrc \in Sources /\ vline = 1
    /\ vcode = <<>> /\ vbegins = <<>> /\ vmain = 0 /\ vdef = 0 /\ vloop = 0
    /\ vctx = [attr |-> None, lights |-> <<>>, done |-> FALSE, amb |-> {None}]
    /\ vpc = 0 /\ vfop = <<>> /\ vill = 0 /\ vbody = 0 /\ vstarts = <<>> /\ vub = "no"
    /\ vgrids = 0 /\ vstart = 0 /\ vout = None /\ vvisits = <<>> /\ vused = {}

----------------------------------------------------------------------------
(* RRASM::Parser.                                                          *)

VTop(s) == s[Len(s)]
VPop(s) == SubSeq(s, 1, Len(s) - 1)
\* The label's address is that of the next instruction; the last one counts.
ParseLabel ==
    /\ vphase = "parse" /\ vline <= Len(vsrc)
    /\ vsrc[vline] \in Labels
    /\ vmain' = IF vsrc[vline] = "main:" THEN Len(vcode) + 1 ELSE vmain
    /\ vdef' = IF vsrc[vline] = "def:" THEN Len(vcode) + 1 ELSE vdef
    /\ vloop' = IF vsrc[vline] = "loop:" THEN Len(vcode) + 1 ELSE vloop
    /\ vline' = vline + 1
    /\ UNCHANGED <<vphase, vsrc, vcode, vbegins, vctx, running, vub, vgrids>>

(* parseCodeLine: orelse and funcopend set the end of the block that is    *)
(* open, whatever opened it; an orelse opens the next one.                 *)
Link(op, at) ==
    /\ vbegins' = CASE op \in Begins -> Append(vbegins, at)
                    [] op = "orelse" -> Append(VPop(vbegins), at)
                    [] op = "end" -> VPop(vbegins)
                    [] OTHER -> vbegins
    /\ vcode' = Append(IF op \in {"orelse", "end"}
                       THEN [vcode EXCEPT ![VTop(vbegins)].end = at] ELSE vcode,
                       [op |-> op, end |-> INVALID_ADDR])

ParseCodeLine ==
    LET op == vsrc[vline] IN
    /\ vphase = "parse" /\ vline <= Len(vsrc) /\ op \notin Labels
    /\ IF op \in {"orelse", "end"} /\ vbegins = <<>>
       THEN vphase' = "rejected" /\ UNCHANGED <<vline, vcode, vbegins>>
       ELSE Link(op, Len(vcode) + 1) /\ vline' = vline + 1 /\ UNCHANGED vphase
    /\ UNCHANGED <<vsrc, vmain, vdef, vloop, vctx, running, vub, vgrids>>

Jumps(c) == \E i \in DOMAIN c : c[i].op = "lt"

\* resolveLabels; a block that is still open is no error.
ParseEnd ==
    /\ vphase = "parse" /\ vline > Len(vsrc)
    /\ vphase' = IF vmain = 0 \/ (Jumps(vcode) /\ vloop = 0) THEN "rejected" ELSE "idle"
    /\ UNCHANGED <<parsing, vctx, running, vub, vgrids>>

----------------------------------------------------------------------------
(* Contexts.                                                               *)

\* Mutant: the cache is not reset.
SetupKeepsCache(c, a) ==
    IF c.attr = a THEN c ELSE [c EXCEPT !.attr = a, !.lights = <<>>]

(* SetupIfChanged of the surface's context.  Bind makes a new data         *)
(* segment; the ambient colour is only marked as unknown.  If that Bind    *)
(* throws, RenderBucket_s is left and its WorkGrid and this context go.    *)
SetupIfChanged(c, a) ==
    IF c.attr = a THEN c ELSE [c EXCEPT !.attr = a, !.lights = <<>>, !.done = FALSE]

\* ActLightsCtxs_CheckInit
CheckInit(c) ==
    IF c.lights # <<>> THEN c
    ELSE [c EXCEPT !.lights = [i \in DOMAIN ActLights[c.attr] |-> NewCtx]]

(* SetupIfChanged of a light's context: it is marked as set up before Bind *)
(* is called, which may throw.                                             *)
LightSetup(x, a, l) ==
    IF x.attr = a /\ x.light = l THEN x
    ELSE [attr |-> a, light |-> l, bound |-> l \notin BadLights]

\* A runFrom begins: the stack and the light loop are reset.
RunFrom(s) ==
    /\ vpc' = s[1] /\ vstart' = s[1] /\ vstarts' = Tail(s)
    /\ vfop' = <<>> /\ vill' = 0 /\ vbody' = 0
    /\ vvisits' = [i \in DOMAIN vcode |-> 0] /\ vused' = {} /\ vout' = None
    /\ vphase' = "run"

(* WorkGrid::Shade: the context is set up for the attributes; Run runs the *)
(* default values of the parameters, then main.                            *)
Shade(a) ==
    /\ vphase = "idle" /\ vgrids < MaxGrids
    /\ vgrids' = vgrids + 1
    /\ vctx' = SetupIfChanged(vctx, a)
    /\ RunFrom(IF vdef = 0 THEN <<vmain>> ELSE <<vdef, vmain>>)
    /\ UNCHANGED <<parsing, vub>>

\* The runFrom is over, at its end or by an exception, which it catches.
NextRun ==
    /\ vphase = "ret"
    /\ IF vstarts # <<>> THEN RunFrom(vstarts)
       ELSE vphase' = "idle" /\ UNCHANGED running
    /\ UNCHANGED <<parsing, vctx, vub, vgrids>>

----------------------------------------------------------------------------
(* Instructions.                                                           *)

At(ops) == vphase = "run" /\ vpc \in DOMAIN vcode /\ vcode[vpc].op \in ops

Goto(pc, fop) ==
    /\ vpc' = pc /\ vfop' = fop
    /\ UNCHANGED <<vphase, vstarts, vstart, vout, vub, parsing, vgrids>>

\* Visits are counted in programs without jumps: nothing bounds a loop.
Visit == vvisits' = IF Jumps(vcode) THEN vvisits ELSE [vvisits EXCEPT ![vpc] = @ + 1]

Ends(how) ==
    /\ vphase' = "ret" /\ vout' = how
    /\ UNCHANGED <<vpc, vfop, vill, vbody, vstarts, vstart, vub, parsing, vgrids>>

\* push throws when the stack is full.
Pushes(flag, pc) ==
    IF Len(vfop) < MaxFop THEN Goto(pc, Append(vfop, flag)) /\ UNCHANGED <<vill, vbody>>
    ELSE Ends("thrown")

\* NextInstruction at an address outside the code reads what is not there.
Undefined(u) ==
    /\ vub' = u
    /\ UNCHANGED <<vphase, parsing, vctx, running, vgrids>>

Plain ==
    /\ At({"op"})
    /\ Goto(vpc + 1, vfop) /\ Visit
    /\ UNCHANGED <<vctx, vill, vbody, vused>>

\* Inst_CMPLT, on values that the model does not keep.
CompareLess ==
    /\ At({"lt"})
    /\ Goto(vpc + 1, vfop) \/ Goto(vloop, vfop)
    /\ UNCHANGED <<vctx, vill, vbody, vvisits, vused>>

RunOver ==
    /\ vphase = "run" /\ (vpc \notin DOMAIN vcode \/ At({"ret"}))
    /\ Ends("done")
    /\ UNCHANGED <<vctx, vvisits, vused>>

NonAmbient(a) == {i \in DOMAIN ActLights[a] : ActLights[a][i] \notin Ambients}
AmbientOf(a) == {ActLights[a][i] : i \in DOMAIN ActLights[a] \ NonAmbient(a)}

(* Inst_Ambient: the colour is marked as known before the ambient lights   *)
(* are run; one that does not bind throws and leaves the old colour.       *)
Ambient ==
    LET c == CheckInit(vctx)
        a == vctx.attr
        amb == DOMAIN ActLights[a] \ NonAmbient(a)
        bad == {i \in amb : ActLights[a][i] \in BadLights}
        ran == IF bad = {} THEN amb ELSE {i \in amb : i <= Min(bad)}
        set == [c EXCEPT !.done = TRUE,
                         !.lights = [i \in DOMAIN @ |-> IF i \in ran
                                       THEN LightSetup(@[i], a, ActLights[a][i]) ELSE @[i]]]
    IN
    /\ At({"ambient"})
    /\ IF vctx.done THEN vctx' = vctx
       ELSE vctx' = IF bad = {} THEN [set EXCEPT !.amb = AmbientOf(a)] ELSE set
    /\ IF ~vctx.done /\ bad # {}
       THEN Ends("thrown") /\ UNCHANGED <<vvisits, vused>>
       ELSE /\ Goto(vpc + 1, vfop) /\ Visit
            /\ vused' = {vctx'.amb}
            /\ UNCHANGED <<vill, vbody>>

\* The end of a block is not linked: execution leaves the code.
Unlinked(pc) == vcode[pc].end = INVALID_ADDR

\* Mutant: the loop is entered at its body.
IlluminanceAtBody ==
    /\ At({"illum"}) /\ vfop = <<>> /\ MaxFop > 0 /\ ActLights[vctx.attr] # <<>>
    /\ vill' = 1 /\ vbody' = vpc + 1
    /\ Goto(vpc + 1, <<"ILLUM">>)
    /\ UNCHANGED <<vctx, vvisits, vused>>

\* Inst_Illuminance: the loop starts at its end.
Illuminance ==
    /\ At({"illum"}) /\ vfop = <<>> /\ MaxFop > 0 /\ ActLights[vctx.attr] # <<>>
    /\ vill' = 1 /\ vbody' = vpc + 1
    /\ Goto(vcode[vpc].end, <<"ILLUM">>)
    /\ UNCHANGED <<vctx, vvisits, vused>>

\* Without active lights the block is skipped.
IlluminanceNoLights ==
    /\ At({"illum"}) /\ vfop = <<>> /\ ActLights[vctx.attr] = <<>>
    /\ IF Unlinked(vpc) THEN Undefined("code")
       ELSE /\ Goto(vcode[vpc].end + 1, vfop)
            /\ UNCHANGED <<vctx, vill, vbody, vvisits, vused>>

\* illuminance and solar inside another block throw.
NestedThrows ==
    /\ At({"illum", "solar"}) /\ vfop # <<>>
    /\ Ends("thrown") /\ UNCHANGED <<vctx, vvisits, vused>>

Solar ==
    /\ At({"solar"}) /\ vfop = <<>>
    /\ Pushes("SOLAR", vpc + 1)
    /\ UNCHANGED <<vctx, vvisits, vused>>

\* Inst_IfTrue; on a varying register both bodies run.
IfTrue ==
    /\ At({"ifT", "ifF", "ifV"})
    /\ CASE vcode[vpc].op = "ifV" -> Pushes("IFVARY", vpc + 1)
         [] vcode[vpc].op = "ifT" -> Pushes("IFTRUE", vpc + 1)
         [] vcode[vpc].op = "ifF" -> Pushes("IF", vcode[vpc].end)
    /\ UNCHANGED <<vctx, vvisits, vused>>

(* Inst_OrElse: the if that was true goes beyond the end of the block; any *)
(* other flag means that the else is to run.                               *)
OrElse ==
    /\ At({"orelse"}) /\ vfop # <<>>
    /\ IF VTop(vfop) = "IFTRUE"
       THEN IF Unlinked(vpc) THEN Undefined("code")
            ELSE /\ Goto(vcode[vpc].end + 1, VPop(vfop))
                 /\ UNCHANGED <<vctx, vill, vbody, vvisits, vused>>
       ELSE /\ Goto(vpc + 1, Append(VPop(vfop), "ORELSE"))
            /\ UNCHANGED <<vctx, vill, vbody, vvisits, vused>>

\* top() and pop() throw when no block is open (a run that starts inside one).
EmptyThrows ==
    /\ At({"orelse", "end"}) /\ vfop = <<>>
    /\ Ends("thrown") /\ UNCHANGED <<vctx, vvisits, vused>>

\* Inst_FuncopEnd, of anything but illuminance.
FuncopEnd ==
    /\ At({"end"}) /\ vfop # <<>> /\ VTop(vfop) # "ILLUM"
    /\ Goto(vpc + 1, VPop(vfop))
    /\ UNCHANGED <<vctx, vill, vbody, vvisits, vused>>

MoreLights == {i \in NonAmbient(vctx.attr) : i >= vill}

NextLight(i) ==
    /\ vill' = i + 1 /\ Goto(vbody, vfop) /\ UNCHANGED <<vbody, vvisits, vused>>

(* FuncOpEnd_Illuminance: the next light that is not ambient is set up and *)
(* run, and the body with it.                                              *)
IlluminanceNext ==
    LET c == CheckInit(vctx)
        a == vctx.attr
        i == Min(MoreLights)
        x == LightSetup(c.lights[i], a, ActLights[a][i])
        set == [c EXCEPT !.lights[i] = x]
    IN
    /\ At({"end"}) /\ vfop # <<>> /\ VTop(vfop) = "ILLUM"
    /\ MoreLights # {}
    /\ CASE i \notin DOMAIN c.lights -> Undefined("lights")
         [] i \in DOMAIN c.lights /\ x.bound -> vctx' = set /\ NextLight(i)
         [] i \in DOMAIN c.lights /\ ~x.bound /\ x = c.lights[i] -> Undefined("segment")
         [] OTHER -> vctx' = set /\ Ends("thrown") /\ UNCHANGED <<vvisits, vused>>

IlluminanceOver ==
    /\ At({"end"}) /\ vfop # <<>> /\ VTop(vfop) = "ILLUM"
    /\ MoreLights = {}
    /\ vill' = 0
    /\ Goto(vpc + 1, VPop(vfop))
    /\ UNCHANGED <<vctx, vbody, vvisits, vused>>

VStep ==
    \/ Plain \/ CompareLess \/ RunOver \/ Ambient
    \/ Illuminance \/ IlluminanceNoLights \/ NestedThrows \/ Solar
    \/ IfTrue \/ OrElse \/ EmptyThrows \/ FuncopEnd \/ IlluminanceNext \/ IlluminanceOver

VNext ==
    /\ vub = "no"
    /\ \/ ParseLabel \/ ParseCodeLine \/ ParseEnd
       \/ \E a \in Attribs : Shade(a)
       \/ NextRun
       \/ VStep

VSpec == VInit /\ [][VNext]_vvars

VFairSpec == VSpec /\ WF_vvars(vub = "no" /\ VStep)

----------------------------------------------------------------------------
(* The structure of a program, from its text c alone.                      *)

Depth(c, j) == Cardinality({i \in 1..(j - 1) : c[i].op \in Begins})
                 - Cardinality({i \in 1..(j - 1) : c[i].op = "end"})
Closers(c, i) ==
    {j \in DOMAIN c : j > i /\ c[j].op = "end" /\ Depth(c, j) = Depth(c, i) + 1}
CloseOf(c, i) == Min(Closers(c, i))
ElseOf(c, i) ==
    {j \in (i + 1)..(CloseOf(c, i) - 1) : c[j].op = "orelse" /\ Depth(c, j) = Depth(c, i) + 1}
Open(c, pc) == {i \in 1..(pc - 1) : c[i].op \in Begins /\ pc <= CloseOf(c, i)}
InElse(c, i, pc) == \E j \in ElseOf(c, i) : j < pc

(* What the compiler writes: blocks are closed, an orelse belongs to an    *)
(* if, the entry points are outside of all blocks, and nothing jumps.      *)
Closed(c) ==
    \A i \in DOMAIN c : c[i].op \in Begins =>
        /\ Closers(c, i) # {}
        /\ Cardinality(ElseOf(c, i)) <= (IF c[i].op \in {"illum", "solar"} THEN 0 ELSE 1)
WellFormed ==
    ~Jumps(vcode) /\ Closed(vcode) /\ Depth(vcode, vmain) = 0 /\ (vdef # 0 => Depth(vcode, vdef) = 0)

HasBad(a) == \E i \in DOMAIN ActLights[a] : ActLights[a][i] \in BadLights

----------------------------------------------------------------------------
(* Properties.                                                             *)

\* The state keeps to its types; the stack of blocks keeps to its size.
VTypeOK ==
    /\ vphase \in {"parse", "rejected", "idle", "run", "ret"}
    /\ vline \in 1..(Len(vsrc) + 1) /\ vmain \in 0..(Len(vcode) + 1)
    /\ \A i \in DOMAIN vcode : vcode[i].end \in DOMAIN vcode \cup {INVALID_ADDR}
    /\ Len(vfop) <= MaxFop
    /\ vub \in {"no", "code", "segment", "lights"} /\ vout \in {None, "done", "thrown"}

Flag(c, i, pc) ==
    CASE c[i].op = "illum" -> "ILLUM"
      [] c[i].op = "solar" -> "SOLAR"
      [] c[i].op \notin {"illum", "solar"} /\ InElse(c, i, pc) -> "ORELSE"
      [] c[i].op = "ifT" /\ ~InElse(c, i, pc) -> "IFTRUE"
      [] c[i].op = "ifF" /\ ~InElse(c, i, pc) -> "IF"
      [] OTHER -> "IFVARY"

(* Wherever execution is in a well-formed program, the stack that the      *)
(* instructions keep names the blocks that enclose the instruction, in     *)
(* order, and on which side of an else it is.                              *)
FopMatches ==
    (vphase = "run" /\ WellFormed /\ vpc \in DOMAIN vcode) =>
        /\ Len(vfop) = Cardinality(Open(vcode, vpc))
        /\ \A k \in DOMAIN vfop : \E i \in Open(vcode, vpc) :
              Depth(vcode, i) = k - 1 /\ vfop[k] = Flag(vcode, i, vpc)

LightsN == Cardinality(NonAmbient(vctx.attr))

\* What a run with n lights that are not ambient does not come to.
Skipped(c, n, pc) ==
    \E i \in Open(c, pc) : \/ c[i].op = "ifF" /\ ~InElse(c, i, pc)
                           \/ c[i].op = "ifT" /\ InElse(c, i, pc)
                           \/ c[i].op = "illum" /\ n = 0

\* The first ret that is reached from start, if any.
LastPC(c, n, start) ==
    Min({Len(c) + 1} \cup {i \in start..Len(c) : c[i].op = "ret" /\ ~Skipped(c, n, i)})

Expected(c, n, start, pc) ==
    LET last == LastPC(c, n, start) IN
    IF pc < start \/ pc > last \/ Skipped(c, n, pc) THEN 0
    ELSE IF \E i \in Open(c, pc) : c[i].op = "illum" /\ last > CloseOf(c, i) THEN n
    ELSE 1

(* A run of a well-formed program that comes to its end has executed every *)
(* instruction as often as the program's text says: once, not at all in    *)
(* the branch not taken, and once per light that is not ambient in the     *)
(* body of an illuminance.  It is cut short only by an illuminance or      *)
(* solar inside another block, blocks nested too deep, or a light that     *)
(* does not bind, and never leaves the code.  On the way the stack of      *)
(* blocks is that of the text.                                             *)
RunsAsWritten ==
    FopMatches /\ (WellFormed =>
        /\ (vphase = "ret" /\ vout = "done") =>
             \A pc \in DOMAIN vcode : vcode[pc].op \in {"op", "ambient"} =>
                 vvisits[pc] = Expected(vcode, LightsN, vstart, pc)
        /\ (vphase = "ret" /\ vout = "thrown") =>
             \/ HasBad(vctx.attr)
             \/ \E pc \in DOMAIN vcode :
                   vcode[pc].op \in {"illum", "solar"} /\ Open(vcode, pc) # {}
             \/ \E pc \in DOMAIN vcode : Depth(vcode, pc) = MaxFop /\ vcode[pc].op \in Begins
        /\ vub # "code")

(* ambient() gives the sum over the ambient lights of the primitive being  *)
(* shaded, whatever was shaded or has failed before on the same context.   *)
(* (With a light that does not bind it may be that of earlier attributes.) *)
AmbientCurrent ==
    \A v \in vused : v = AmbientOf(vctx.attr) \/ HasBad(vctx.attr)

(* While the body of an illuminance runs, and until the next light is set  *)
(* up, the context of the light is the one for this light and these        *)
(* attributes; a context without data segment is run only for a light that *)
(* has failed to bind before.                                              *)
LightsBound ==
    /\ vub # "lights" /\ (vub = "segment" => HasBad(vctx.attr))
    /\ (vphase = "run" /\ vill > 1) =>
         /\ vill - 1 \in DOMAIN vctx.lights
         /\ vctx.lights[vill - 1] = [attr |-> vctx.attr, bound |-> TRUE,
                                     light |-> ActLights[vctx.attr][vill - 1]]

\* What the lights of a shaded grid contribute is that of its own attributes.
LightsCurrent == AmbientCurrent /\ LightsBound

\* A run is under way and has not left the code.
InRun == vphase = "run" /\ vub = "no"

\* A jump to its own place or back: how often it is taken is up to the data.
JumpsBack == \E i \in DOMAIN vcode : vcode[i].op = "lt" /\ vloop <= i
=============================================================================
