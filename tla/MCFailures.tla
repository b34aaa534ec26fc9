----------------------------- MODULE MCFailures -----------------------------
(***************************************************************************)
(* What must stay right when things fail, for TLC: distributed rendering   *)
(* with links that fail, the same with a Render that throws and leaves its *)
(* buckets behind, and RI::State through scenes in which commands and      *)
(* Render fail.  A behaviour is one of one part; the variables of the      *)
(* others keep their initial values.                                       *)
(***************************************************************************)
EXTENDS MCRenderBuckets, MCRiState

VARIABLE part

(* The two failures of a client that go on into the next world happen in   *)
(* parts of their own.                                                     *)
InPart ==
    CASE part = "links" -> cpc # "failed"
      [] part = "throws" -> \A s \in Servers : ~cFatal[s] /\ ~sFatal[s]
      [] part = "state" -> \A s \in Servers : sFatal[s]

FInit ==
    /\ part \in {"links", "throws", "state"} /\ Init /\ SceneInit /\ InPart
    /\ part # "state" => scene = "blocks"

FNext ==
    /\ part' = part
    /\ \/ part # "state" /\ Next /\ UNCHANGED <<riVars, scene>>
       \/ part = "state" /\ SceneNext /\ UNCHANGED vars
    /\ InPart'

FSpec == FInit /\ [][FNext]_<<part, vars, riVars, scene>>
=============================================================================
