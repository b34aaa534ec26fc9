----------------------------- MODULE MCThreads -----------------------------
(***************************************************************************)
(* What runs in threads of its own, for TLC under the fairness of threads: *)
(* Render with two servers, Render with one server and failing links, the  *)
(* two PacketManagers of a connection with much to send, the same with     *)
(* failures, and the tasks that share textures.  A behaviour is one of one *)
(* part; the others keep their initial values.                             *)
(***************************************************************************)
EXTENDS MCRenderBuckets, MCPacketManager, Textures

VARIABLE part

RenderParts == {"two servers", "failing links"}
LinkParts == {"packets", "failing packets"}
Parts == RenderParts \cup LinkParts \cup {"textures"}

tvars == <<part, vars, endVars, allVars>>

\* No server was reached.
Alone == \A s \in Servers : sFatal[s]

(* Failures and file requests multiply the states: they happen in a part   *)
(* of their own, where only the first server was reached, and where only   *)
(* one end of a connection has something to send.                          *)
InPart ==
    CASE part = "two servers" -> \A s \in Servers : cFatal[s] = sFatal[s] /\ sFiles[s] = 0
      [] part = "failing links" -> \A s \in Servers : s # 1 => sFatal[s]
      [] part = "packets" -> Alone /\ \A e \in Ends : ~fatal[e] /\ ~quit[e]
      [] part = "failing packets" -> Alone /\ nSent["B"] = 0
      [] part = "textures" -> Alone

TInit == part \in Parts /\ Init /\ LinkInit /\ TexInit /\ InPart

TNext ==
    /\ part' = part
    /\ \/ part \in RenderParts /\ Next /\ UNCHANGED <<endVars, allVars>>
       \/ part \in LinkParts /\ LinkNext /\ UNCHANGED <<vars, allVars>>
       \/ part = "textures" /\ TexNext /\ UNCHANGED <<vars, endVars>>
    /\ InPart'

\* The fairness of each module's own specification, for the behaviours of that part.
TFairSpec ==
    /\ TInit /\ [][TNext]_tvars
    /\ WF_vars(part \in RenderParts /\ ClientStep)
    /\ \A s \in Servers :
          /\ WF_vars(part \in RenderParts /\ FileServerTake(s))
          /\ WF_vars(part \in RenderParts /\ FileServerAnswer(s))
          /\ WF_vars(part \in RenderParts /\ ServerStep(s))
          /\ WF_vars(part \in RenderParts /\ Deliver(s))
    /\ \A e \in Ends :
          /\ WF_endVars(part \in LinkParts /\ ThreadStep(e))
          /\ SF_endVars(part \in LinkParts /\ RecvHead(e))
          /\ SF_endVars(part \in LinkParts /\ RecvBody(e) /\ net' # net)
    /\ WF_allVars(part = "textures" /\ CallerMoves) /\ WF_allVars(part = "textures" /\ Collect)
    /\ \A i \in Tasks : /\ WF_allVars(part = "textures" /\ TextureStep(i))
                        /\ WF_allVars(part = "textures" /\ BucketEnds(i))

\* Render returns in every frame, and the client comes to its end (see ClientTerminates).
ClientEnds == part \in RenderParts => ClientTerminates

\* The scope of the bucket tasks is left (see TexLeaves).
TasksEnd == part = "textures" => TexLeaves
=============================================================================
