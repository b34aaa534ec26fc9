------------------------------ MODULE MCRiState ------------------------------
(***************************************************************************)
(* RiState for TLC.  The RIB file is one of three scenes, each rich in one *)
(* respect: kinds of blocks, primitives, displays.                         *)
(***************************************************************************)
EXTENDS RiState

VARIABLE scene

(* Blocks of kinds M, nested up to a depth of n modes, and Ends of blocks  *)
(* that save attributes and transforms both.                               *)
ModesIn(M, n) ==
    /\ Len(modes) \in 2..n /\ \A i \in 3..Len(modes) : modes[i] \in M
    /\ Len(stack["attr"]) = Len(stack["xform"])
    /\ ill => Len(stack["attr"]) < Len(modes) - 1

FirstDisplay == CHOOSE d \in Displays : TRUE

\* One display at most, the fall-back one of a world.
OneDisplay == live \subseteq {FirstDisplay} /\ (fwDisp = {} => live = {})

\* Every kind of block until an End does not match, and no failures.
Nested ==
    /\ ~ill /\ prims = {} /\ rev["attr"] + rev["xform"] <= 2 /\ OneDisplay /\ ~crossed
    /\ live = {} <=> \A i \in 2..Len(modes) : modes[i] # "WORLD"

\* Attribute and world blocks, with primitives.
Simple ==
    /\ ModesIn({"WORLD", "ATTRIBUTE"}, 3) /\ OneDisplay
    /\ rev["attr"] <= 2 /\ rev["xform"] <= 1

\* Frame and world blocks only, and no attribute or transform is changed.
Plain ==
    /\ ModesIn({"FRAME", "WORLD"}, 4) /\ prims = {} /\ rev["attr"] = 0
    /\ \A k \in Shared : /\ Len(stack[k]) = Len(stack["opts"])
                         /\ \A i \in 1..Len(stack[k]) : stack[k][i] = Identity

InScene == CASE scene = "blocks"   -> Nested
             [] scene = "prims"    -> Simple
             [] scene = "displays" -> Plain

SceneInit == RiInit /\ scene \in {"blocks", "prims", "displays"}

SceneNext == RiNext /\ scene' = scene /\ InScene'

SceneSpec == SceneInit /\ [][SceneNext]_<<riVars, scene>>
=============================================================================
