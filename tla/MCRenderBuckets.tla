--------------------------- MODULE MCRenderBuckets ---------------------------
(* Instances of RenderBuckets for TLC: the server list and the batches are  *)
(* small, the structure (several batches, several servers, several worlds)  *)
(* is kept.                                                                 *)
EXTENDS RenderBuckets

NoFaults    == {}
ClientLinks == {"clientLink"}
ClientThrows == {"clientThrow"}
AllFaults   == FaultKinds
=============================================================================
