------------------------ MODULE RenderBuckets_proofs ------------------------
(***************************************************************************)
(* Proofs about RenderBuckets, for every number of servers, buckets,       *)
(* frames and file requests, every batch size and every set of faults.     *)
(***************************************************************************)
EXTENDS RenderBuckets, FiniteSetTheorems, TLAPS

\* What the invariant says about one server.
SInv(s) == Unmixed(s) /\ BusyAccountsFor(s) /\ OneRange(s) /\ OneRequest(s)

ServersInv == \A s \in Servers : SInv(s)

\* What the invariant says about a server depends only on that server's state.
LEMMA SInvStable ==
    ASSUME NEW s \in Servers, SInv(s),
           busy'[s] = busy[s], batch'[s] = batch[s], spc'[s] = spc[s],
           sRet'[s] = sRet[s], sNext'[s] = sNext[s], sX2'[s] = sX2[s],
           sFatal'[s] = sFatal[s], fsv'[s] = fsv[s], toSrv'[s] = toSrv[s],
           ans'[s] = ans[s], recvQ'[s] = recvQ[s], wire'[s] = wire[s]
    PROVE  SInv(s)'
<1>1. /\ FlightLen(s)' = FlightLen(s) /\ (\A k : Flight(s, k)' = Flight(s, k))
      /\ DataAt(s)' = DataAt(s) /\ FileAt(s)' = FileAt(s) /\ FirstOut(s)' = FirstOut(s)
  BY DEF FirstOut, DataAt, FileAt, Flight, FlightLen
<1>2. Unmixed(s)' /\ BusyAccountsFor(s)'
  BY <1>1 DEF SInv, Unmixed, BusyAccountsFor
<1>3. OneRange(s)' /\ OneRequest(s)'
  BY <1>1 DEF SInv, OneRange, OneRequest, RangeUnread, RangeInWork, Working
<1> QED
  BY <1>2, <1>3 DEF SInv

\* A message appended by a send: the queue is one longer, the rest is kept.
LEMMA SeqAppend ==
    ASSUME NEW S, NEW q \in Seq(S), NEW m \in S
    PROVE  /\ Append(q, m) \in Seq(S) /\ Len(Append(q, m)) = Len(q) + 1
           /\ \A k \in 1..Len(q) : Append(q, m)[k] = q[k]
           /\ Append(q, m)[Len(q) + 1] = m
OBVIOUS

\* A message read from the head of a queue: the others move up by one.
LEMMA SeqTail ==
    ASSUME NEW S, NEW q \in Seq(S), q # << >>
    PROVE  /\ Head(q) \in S /\ Head(q) = q[1] /\ Len(q) \in Nat \ {0}
           /\ Tail(q) \in Seq(S) /\ Len(Tail(q)) = Len(q) - 1
           /\ \A k \in 1..(Len(q) - 1) : Tail(q)[k] = q[k + 1]
OBVIOUS

\* The last message of a queue is lost: the others stay where they are.
LEMMA SeqFront ==
    ASSUME NEW S, NEW q \in Seq(S), q # << >>
    PROVE  /\ SubSeq(q, 1, Len(q) - 1) \in Seq(S)
           /\ Len(SubSeq(q, 1, Len(q) - 1)) = Len(q) - 1
           /\ \A k \in 1..(Len(q) - 1) : SubSeq(q, 1, Len(q) - 1)[k] = q[k]
OBVIOUS

\* The length, the indices and the elements of a queue.
LEMMA SeqEmpty ==
    ASSUME NEW S, NEW q \in Seq(S)
    PROVE  /\ Len(q) \in Nat /\ DOMAIN q = 1..Len(q)
           /\ q = << >> <=> Len(q) = 0
           /\ \A k \in 1..Len(q) : q[k] \in S
OBVIOUS

\* What is under way from a server are messages of its protocol.
LEMMA FlightTyped ==
    ASSUME TypeOK, NEW s \in Servers
    PROVE  /\ FlightLen(s) \in Nat
           /\ \A k \in 1..FlightLen(s) : Flight(s, k) \in SrvMsg
BY SeqEmpty DEF TypeOK, FlightLen, Flight

----------------------------------------------------------------------------
\* Facts about a state with the invariant that the action proofs share.

\* A step that leaves the servers and links alone keeps ServersInv.
LEMMA ServersKept ==
    ASSUME ServersInv,
           UNCHANGED <<busy, batch, spc, sRet, sNext, sX2, sFatal, fsv, toSrv, ans,
                       recvQ, wire>>
    PROVE  ServersInv'
<1> SUFFICES ASSUME NEW s \in Servers PROVE SInv(s)'
  BY DEF ServersInv
<1> SInv(s)  BY DEF ServersInv
<1> QED  BY SInvStable

\* All that SInv reads about server t has kept its value.
Same(t) ==
    /\ busy'[t] = busy[t] /\ batch'[t] = batch[t] /\ spc'[t] = spc[t]
    /\ sRet'[t] = sRet[t] /\ sNext'[t] = sNext[t] /\ sX2'[t] = sX2[t]
    /\ sFatal'[t] = sFatal[t] /\ fsv'[t] = fsv[t] /\ toSrv'[t] = toSrv[t]
    /\ ans'[t] = ans[t] /\ recvQ'[t] = recvQ[t] /\ wire'[t] = wire[t]

\* A step that touches server s alone has only SInv(s) to keep.
LEMMA OthersKept ==
    ASSUME ServersInv, NEW s \in Servers, SInv(s)',
           \A t \in Servers \ {s} : Same(t)
    PROVE  ServersInv'
<1> SUFFICES ASSUME NEW t \in Servers PROVE SInv(t)'
  BY DEF ServersInv
<1>1. CASE t = s  BY <1>1
<1>2. CASE t # s
  <2> SInv(t)  BY DEF ServersInv
  <2> QED  BY <1>2, SInvStable DEF Same
<1> QED  BY <1>1, <1>2

\* The batch of the dispatch loop is not empty and ends within the image.
LEMMA BatchEndType ==
    ASSUME TypeOK, x1 < cN
    PROVE  BatchEnd \in 1..cN /\ x1 < BatchEnd
BY ConstAssumption DEF TypeOK, BatchEnd

\* The message constructors of RRL_Net.h give well-typed messages.
LEMMA MessageTypes ==
    /\ \A a, b \in Nat : MsgRendBuckes(a, b) \in CtlMsg
    /\ MsgRendJob \in CtlMsg /\ MsgRendDone \in CtlMsg
    /\ \A b \in Nat, f \in Shown : MsgBucketData(b, f) \in SrvMsg
    /\ \A id \in FileReqIDs : FileReq(id) \in SrvMsg
BY ConstAssumption
   DEF MsgRendBuckes, MsgRendJob, MsgRendDone, MsgBucketData, FileReq, CtlMsg, SrvMsg,
       FileReqIDs, Shown

----------------------------------------------------------------------------
\* The state after InitServers, with any subset of the servers reached, has the
\* inductive invariant.
THEOREM InitIInv == Init => IInv
<1> SUFFICES ASSUME Init PROVE IInv
  OBVIOUS
<1>1. TypeOK
  <2>0. \E up : cFatal = [s \in Servers |-> s \notin up] /\ sFatal = [s \in Servers |-> s \notin up]
    BY Zenon DEF Init
  <2>1. cFatal \in [Servers -> BOOLEAN] /\ sFatal \in [Servers -> BOOLEAN]
    BY <2>0, Zenon
  <2>2. /\ toSrv \in [Servers -> Seq(CtlMsg)] /\ ans \in [Servers -> Seq(AnsIDs)]
        /\ wire \in [Servers -> Seq(SrvMsg)] /\ recvQ \in [Servers -> Seq(SrvMsg)]
    BY MessageTypes DEF Init
  <2>3. /\ cpc \in ClientPCs /\ cFrame \in Frames /\ x1 \in 0..cN
        /\ scanI \in 1..(NServers + 1) /\ peek = "none"
    BY ConstAssumption DEF Init, ClientPCs, Frames
  <2>6. allDone \in BOOLEAN /\ reply \in BOOLEAN /\ overrun \in BOOLEAN
    BY Zenon DEF Init
  <2>4. /\ out \in [Buckets -> Shown] /\ busy \in [Servers -> Nat]
        /\ fsv \in [Servers -> FileReqIDs \cup {"none"}]
        /\ spc \in [Servers -> ServerPCs] /\ sRet \in [Servers -> {"job", "parse", "rend"}]
    <3>1. 0 \in Shown
      BY ConstAssumption DEF Shown
    <3> QED  BY <3>1, ConstAssumption DEF Init, ServerPCs
  <2>5. /\ sFrame \in [Servers -> Frames] /\ sFiles \in [Servers -> 0..MaxFileReqs]
        /\ sNext \in [Servers -> Nat] /\ sX2 \in [Servers -> Nat]
        /\ batch \in [Servers -> [x1 : Nat, x2 : Nat, frame : 0..NFrames]]
        /\ sN \in [Servers -> Nat] /\ cN \in Nat /\ NBuckets <= cN
    BY ConstAssumption DEF Init, Frames
  <2>7. holes \subseteq Buckets
    BY DEF Init
  <2> QED  BY <2>1, <2>2, <2>3, <2>4, <2>5, <2>6, <2>7 DEF TypeOK
<1>2. \A s \in Servers : FlightLen(s) = 0 /\ DataAt(s) = {} /\ FileAt(s) = {}
  BY DEF Init, FlightLen, DataAt, FileAt
<1>3. QueueUnmixed /\ BusyAccounts /\ OneRequestAtATime
  BY <1>2 DEF Init, QueueUnmixed, Unmixed, BusyAccounts, BusyAccountsFor,
     OneRequestAtATime, OneRequest, FileReqIDs
<1>4. OneRangeAtATime
  BY <1>2 DEF Init, OneRangeAtATime, OneRange, RangeUnread, RangeInWork, Working,
     MsgRendJob, FileReqIDs
<1>5. PeekedDataStays /\ ImageAccounted /\ AllHandedOut
  BY ConstAssumption DEF Init, PeekedDataStays, ImageAccounted, AllHandedOut, Buckets
<1>6. ListsFit
  BY <1>2 DEF Init, ListsFit, ListFits, Working, FileReqIDs
<1> QED  BY <1>1, <1>3, <1>4, <1>5, <1>6 DEF IInv

----------------------------------------------------------------------------
(* Type correctness of every step.                                         *)

\* checkServersData steps to the next server, at most one past the last.
LEMMA ScanIndex == \A i \in Servers : i + 1 \in 1..(NServers + 1)
BY ConstAssumption DEF Servers

\* The start of a checkServersData call leaves the scan variables typed.
LEMMA StartScanType ==
    ASSUME NEW b \in BOOLEAN, StartScan(b)
    PROVE  /\ cpc' = "scan" /\ scanI' \in 1..(NServers + 1) /\ peek' = "none"
           /\ allDone' \in BOOLEAN /\ reply' \in BOOLEAN
<1>1. allDone' \in BOOLEAN /\ reply' \in BOOLEAN
  BY Zenon DEF StartScan
<1> QED  BY <1>1, ConstAssumption DEF StartScan

\* The client's steps that send and store nothing keep the types.
LEMMA TypeClientQuiet ==
    ASSUME IInv,
           \/ ClientGoLocal \/ ClientLocalDone \/ ClientLocalThrow \/ ClientSkip
           \/ ClientNoPacket \/ ClientPeek \/ ClientPassOver \/ ClientReadBroken
           \/ ClientScanEnd \/ ClientRescan \/ ClientReturn \/ ClientNextWorld
           \/ ClientExit
    PROVE  TypeOK'
<1>0. cpc = "local" => BatchEnd \in 0..cN
  BY BatchEndType DEF IInv, AllHandedOut
<1> USE ConstAssumption DEF IInv, TypeOK, Buckets, Frames, ClientPCs, clientVars, serverVars,
        linkVars, histVars
<1>1. CASE ClientGoLocal
  BY <1>1 DEF ClientGoLocal
<1>2. CASE ClientLocalDone
  <2>0. PICK failed \in SUBSET NeverGot(x1, BatchEnd) :
           /\ out' = [b \in Buckets |->
                        IF b \in (x1..(BatchEnd - 1)) \ failed
                        THEN Shows(b, cN, cFrame) ELSE out[b]]
           /\ holes' = holes \cup failed
    BY <1>2 DEF ClientLocalDone
  <2>a. (\A b \in Buckets : Shows(b, cN, cFrame) \in Shown) /\ out \in [Buckets -> Shown]
    BY DEF Shows, Shown
  <2>1. out' \in [Buckets -> Shown] /\ x1' \in 0..cN
    BY <1>0, <1>2, <2>0, <2>a DEF ClientLocalDone
  <2>3. holes' \subseteq Buckets
    <3>1. x1 \in 0..cN /\ BatchEnd \in 0..cN
      BY <1>0, <1>2 DEF ClientLocalDone
    <3>2. NeverGot(x1, BatchEnd) \subseteq Buckets
      BY <3>1 DEF NeverGot, Buckets
    <3>3. holes \subseteq Buckets
      OBVIOUS
    <3> QED  BY <2>0, <3>2, <3>3
  <2>2. StartScan(FALSE)
    BY <1>2 DEF ClientLocalDone
  <2> QED  BY <2>1, <2>2, <2>3, <1>2, StartScanType DEF ClientLocalDone
<1>3. CASE ClientLocalThrow
  <2>1. PICK D : out' = [b \in Buckets |->
                            IF b \in D THEN Shows(b, cN, cFrame) ELSE out[b]]
    BY <1>3, Zenon DEF ClientLocalThrow
  <2>2. (\A b \in Buckets : Shows(b, cN, cFrame) \in Shown) /\ out \in [Buckets -> Shown]
    BY DEF Shows, Shown
  <2>3. out' \in [Buckets -> Shown]
    BY <2>1, <2>2
  <2> QED  BY <2>3, <1>3 DEF ClientLocalThrow
<1>4. CASE ClientSkip
  BY ScanIndex, <1>4 DEF ClientSkip, ScanNext
<1>5. CASE ClientNoPacket
  BY ScanIndex, <1>5 DEF ClientNoPacket, ScanNext
<1>6. CASE ClientPeek
  BY <1>6 DEF ClientPeek
<1>7. CASE ClientPassOver
  BY ScanIndex, <1>7 DEF ClientPassOver, ScanNext, PeekedDataStays
<1>8. CASE ClientReadBroken
  BY <1>8 DEF ClientReadBroken
<1>9. CASE ClientScanEnd
  BY <1>9 DEF ClientScanEnd
<1>10. CASE ClientRescan
  BY <1>10 DEF ClientRescan, StartScan
<1>11. CASE ClientReturn
  BY <1>11 DEF ClientReturn
<1>12. CASE ClientNextWorld
  <2>1. cN' \in Nat /\ NBuckets <= cN' /\ 0 \in 0..cN'
    BY <1>12 DEF ClientNextWorld, NextList
  <2>2. out' \in [Buckets' -> Shown] /\ holes' \subseteq Buckets'
    BY <1>12 DEF ClientNextWorld, Shown
  <2>3. cFrame' \in Frames /\ cpc' \in ClientPCs /\ x1' \in 0..cN'
    BY <2>1, <1>12 DEF ClientNextWorld
  <2>4. UNCHANGED <<scanI, peek, allDone, reply, overrun, busy, cFatal, fsv, spc, sRet, sFrame,
                    sN, sFiles, sNext, sX2, sFatal, toSrv, ans, wire, recvQ, batch>>
    BY <1>12 DEF ClientNextWorld
  <2>5. TypeOK
    OBVIOUS
  <2>6. Frames' = Frames
    OBVIOUS
  <2> HIDE ConstAssumption DEF IInv, TypeOK, Buckets, Frames, ClientPCs
  <2> QED  BY <2>1, <2>2, <2>3, <2>4, <2>5, <2>6 DEF TypeOK
<1>13. CASE ClientExit
  BY <1>13 DEF ClientExit
<1> QED
  BY <1>1, <1>2, <1>3, <1>4, <1>5, <1>6, <1>7, <1>8, <1>9, <1>10, <1>11, <1>12, <1>13

\* The queues a message is appended to or taken from stay queues of messages.
LEMMA ClientSendType ==
    ASSUME NEW S, NEW q \in [Servers -> Seq(S)], NEW s \in Servers, NEW m \in S
    PROVE  ClientSend(q, s, m) \in [Servers -> Seq(S)]
BY SeqAppend DEF ClientSend

\* dispatchToServer keeps the types: mBusyCnt grows from 0 by one batch.
LEMMA TypeClientDispatch ==
    ASSUME IInv, ClientDispatch
    PROVE  TypeOK'
<1> PICK s \in Servers :
        /\ IsFirst(s, FreeServers)
        /\ toSrv' = ClientSend(toSrv, s, MsgRendBuckes(x1, BatchEnd))
        /\ busy' = [busy EXCEPT ![s] = @ + (BatchEnd - x1)]
        /\ batch' = [batch EXCEPT ![s] = [x1 |-> x1, x2 |-> BatchEnd, frame |-> cFrame]]
  BY DEF ClientDispatch
<1>0. x1 \in 0..cN /\ x1 < cN
  BY DEF IInv, TypeOK, Buckets, AllHandedOut, ClientDispatch
<1>1. BatchEnd \in 1..cN /\ x1 < BatchEnd
  BY <1>0, BatchEndType DEF IInv
<1>2. busy[s] = 0 /\ busy \in [Servers -> Nat]
  BY DEF IsFirst, FreeServers, IInv, TypeOK, Buckets
<1>3. busy' \in [Servers -> Nat]
  <2>1. 0 + (BatchEnd - x1) \in Nat
    BY <1>0, <1>1, ConstAssumption
  <2> QED  BY <1>2, <2>1
<1>4. toSrv' \in [Servers -> Seq(CtlMsg)]
  <2>1. MsgRendBuckes(x1, BatchEnd) \in CtlMsg
    BY <1>0, <1>1, MessageTypes, ConstAssumption
  <2>2. toSrv \in [Servers -> Seq(CtlMsg)]
    BY DEF IInv, TypeOK, Buckets
  <2> QED  BY <2>1, <2>2, ClientSendType
<1>5. batch' \in [Servers -> [x1 : Nat, x2 : Nat, frame : 0..NFrames]]
  BY <1>0, <1>1, ConstAssumption DEF IInv, TypeOK, Buckets, Frames
<1>6. StartScan(FALSE)
  BY DEF ClientDispatch
<1> QED
  <2>1. x1' \in 0..cN /\ cpc' \in ClientPCs
    BY <1>1, <1>6 DEF ClientDispatch, StartScan, ClientPCs
  <2>2. /\ scanI' \in 1..(NServers + 1) /\ peek' = "none" /\ allDone' \in BOOLEAN
        /\ reply' \in BOOLEAN
    BY <1>6, StartScanType
  <2>3. TypeOK /\ UNCHANGED <<cFrame, cN, out, cFatal, fsv, serverVars, ans, wire, recvQ,
                              overrun, holes>>
    BY DEF ClientDispatch, IInv
  <2> QED  BY <1>3, <1>4, <1>5, <2>1, <2>2, <2>3 DEF TypeOK, Buckets, serverVars

\* Storing the bucket at the head keeps the types: mBusyCnt was not 0.
LEMMA TypeStoreHead ==
    ASSUME IInv, NEW s \in Servers, s = scanI, StoreHead(s), recvQ[s] # << >>,
           recvQ[s][1].id = "BUCKETDATA"
    PROVE  TypeOK'
<1> DEFINE m == Head(recvQ[s])
<1>1. recvQ[s] \in Seq(SrvMsg)
  BY DEF IInv, TypeOK, Buckets
<1>2. m \in SrvMsg /\ m = recvQ[s][1] /\ Tail(recvQ[s]) \in Seq(SrvMsg)
  BY <1>1, SeqTail
<1>3. busy[s] \in Nat \ {0} /\ m.idx \in Buckets
  <2>1. 1 \in DataAt(s) /\ Flight(s, 1) = m
    BY <1>1, <1>2, SeqEmpty DEF DataAt, Flight, FlightLen, IInv, TypeOK, Buckets
  <2>2. /\ 1 <= busy[s] /\ busy[s] <= batch[s].x2 /\ m.idx = FirstOut(s) + 1 - 1
        /\ m.idx < NBuckets
    BY <2>1 DEF IInv, BusyAccounts, BusyAccountsFor, ListsFit, ListFits
  <2>3. busy[s] \in Nat /\ batch[s].x2 \in Nat /\ cN \in Nat /\ NBuckets <= cN
    BY DEF IInv, TypeOK
  <2>4. m.idx = batch[s].x2 - busy[s]
    BY <2>2, <2>3, ConstAssumption DEF FirstOut
  <2> QED  BY <2>2, <2>3, <2>4, ConstAssumption DEF Buckets
<1>4. recvQ' \in [Servers -> Seq(SrvMsg)] /\ busy' \in [Servers -> Nat]
  <2>1. busy[s] - 1 \in Nat
    BY <1>3, ConstAssumption
  <2> QED  BY <1>2, <2>1 DEF StoreHead, IInv, TypeOK, Buckets
<1>5. toSrv' \in [Servers -> Seq(CtlMsg)]
  <2>1. toSrv \in [Servers -> Seq(CtlMsg)] /\ MsgRendDone \in CtlMsg
    BY MessageTypes DEF IInv, TypeOK, Buckets
  <2>2. toSrv' = toSrv \/ toSrv' = ClientSend(toSrv, s, MsgRendDone)
    BY DEF StoreHead
  <2> QED  BY <2>1, <2>2, ClientSendType
<1>6. allDone' \in BOOLEAN
  BY Zenon DEF StoreHead
<1>7. out' \in [Buckets -> Shown]
  <2>1. m.frame \in Shown
    BY <1>2 DEF SrvMsg
  <2> QED  BY <2>1 DEF StoreHead, IInv, TypeOK, Buckets
<1>8. holes' \subseteq Buckets
  BY <1>3 DEF StoreHead, IInv, TypeOK, Buckets
<1> QED
  BY <1>4, <1>5, <1>6, <1>7, <1>8, ScanIndex
  DEF StoreHead, ScanNext, IInv, TypeOK, Buckets, ClientPCs, serverVars, histVars

\* sendRendDoneToNotBusy keeps the types.
LEMMA TypeClientBye ==
    ASSUME IInv, ClientBye
    PROVE  TypeOK'
<1>1. toSrv' \in [Servers -> Seq(CtlMsg)]
  <2>1. \A s \in Servers : Append(toSrv[s], MsgRendDone) \in Seq(CtlMsg)
    BY SeqAppend, MessageTypes DEF IInv, TypeOK, Buckets
  <2> QED  BY <2>1 DEF ClientBye, IInv, TypeOK, Buckets
<1>2. StartScan(TRUE)
  BY DEF ClientBye
<1> QED
  BY <1>1, <1>2, StartScanType DEF ClientBye, IInv, TypeOK, Buckets, ClientPCs, serverVars, histVars

\* An index of the first part of a sequence is an index of the whole.
LEMMA InFirstPart ==
    ASSUME NEW a \in Nat, NEW b \in Nat, NEW i \in 1..a
    PROVE  i \in 1..(a + b) /\ i <= a /\ (a + b = 1 => i = 1 /\ a = 1 /\ b = 0)
OBVIOUS

\* A file request in the client's queue is the only message under way.
LEMMA RequestAlone ==
    ASSUME IInv, NEW s \in Servers, NEW i, i \in DOMAIN recvQ[s], recvQ[s][i].id \in FileReqIDs
    PROVE  /\ i = 1 /\ Len(recvQ[s]) = 1 /\ wire[s] = << >>
           /\ FileAt(s) # {} /\ FlightLen(s) = 1
           /\ DropAt(recvQ[s], i) = << >>
<1>1. recvQ[s] \in Seq(SrvMsg) /\ wire[s] \in Seq(SrvMsg)
  BY DEF IInv, TypeOK, Buckets
<1>2. Len(recvQ[s]) \in Nat /\ Len(wire[s]) \in Nat /\ i \in 1..Len(recvQ[s])
  BY <1>1, SeqEmpty
<1>a. i \in 1..FlightLen(s) /\ Flight(s, i) = recvQ[s][i]
  BY <1>2, InFirstPart DEF Flight, FlightLen
<1>b. i \in FileAt(s)
  BY <1>a DEF FileAt
<1>3. FlightLen(s) = 1
  BY <1>b DEF IInv, QueueUnmixed, Unmixed
<1>4. i = 1 /\ Len(recvQ[s]) = 1 /\ Len(wire[s]) = 0
  BY <1>2, <1>3, InFirstPart DEF FlightLen
<1>5. wire[s] = << >>
  BY <1>1, <1>4
<1>6. DropAt(recvQ[s], i) = << >>
  <2>1. SubSeq(recvQ[s], 1, 0) = << >> /\ SubSeq(recvQ[s], 2, 1) = << >>
    BY <1>1
  <2> QED  BY <1>4, <2>1 DEF DropAt
<1> QED  BY <1>b, <1>3, <1>4, <1>5, <1>6

\* The FileServer's removal of a request keeps the types.
LEMMA TypeFileServerTake ==
    ASSUME IInv, NEW s \in Servers, FileServerTake(s)
    PROVE  TypeOK'
<1> PICK i \in DOMAIN recvQ[s] :
        /\ IsFirst(i, FileReqsIn(recvQ[s]))
        /\ fsv' = [fsv EXCEPT ![s] = recvQ[s][i].id]
        /\ recvQ' = [recvQ EXCEPT ![s] = DropAt(@, i)]
  BY DEF FileServerTake
<1>1. recvQ[s][i].id \in FileReqIDs
  BY DEF IsFirst, FileReqsIn
<1>2. DropAt(recvQ[s], i) = << >>
  BY <1>1, RequestAlone
<1>3. recvQ' \in [Servers -> Seq(SrvMsg)] /\ fsv' \in [Servers -> FileReqIDs \cup {"none"}]
  BY <1>1, <1>2 DEF IInv, TypeOK, Buckets
<1> QED
  BY <1>3 DEF FileServerTake, IInv, TypeOK, Buckets, serverVars, histVars

\* The FileServer's answer keeps the types.
LEMMA TypeFileServerAnswer ==
    ASSUME IInv, NEW s \in Servers, FileServerAnswer(s)
    PROVE  TypeOK'
<1>1. ans' \in [Servers -> Seq(AnsIDs)]
  <2>1. PICK a \in AnswersTo(fsv[s]) : ans' = ClientSend(ans, s, a) \/ ans' = ans
    <3>1. AnswersTo(fsv[s]) # {}
      BY DEF AnswersTo
    <3> QED  BY <3>1 DEF FileServerAnswer
  <2>2. a \in AnsIDs /\ ans \in [Servers -> Seq(AnsIDs)]
    BY DEF AnswersTo, AnsIDs, IInv, TypeOK, Buckets
  <2> QED  BY <2>1, <2>2, ClientSendType
<1> QED
  BY <1>1 DEF FileServerAnswer, IInv, TypeOK, Buckets, serverVars, histVars

\* A server's send keeps its link a queue of protocol messages.
LEMMA ServerSendType ==
    ASSUME IInv, NEW s \in Servers, NEW m \in SrvMsg, ServerSend(s, m)
    PROVE  wire' \in [Servers -> Seq(SrvMsg)]
BY SeqAppend DEF ServerSend, IInv, TypeOK, Buckets

\* The end of a server's frame, the last one or not, keeps the types.
LEMMA EndFrameType ==
    ASSUME IInv, NEW s \in Servers, NEW r \in BOOLEAN, EndFrame(s, r)
    PROVE  /\ spc' \in [Servers -> ServerPCs] /\ sFrame' \in [Servers -> Frames]
           /\ sFiles' \in [Servers -> 0..MaxFileReqs] /\ sN' \in [Servers -> Nat]
<1>0. \A n \in Nat : NextList(n, r) \in Nat
  BY ConstAssumption DEF NextList
<1>a. sN' \in [Servers -> Nat]
  <2>1. sN \in [Servers -> Nat]
    BY DEF IInv, TypeOK
  <2>2. sN' = sN \/ sN' = [sN EXCEPT ![s] = NextList(@, r)]
    BY DEF EndFrame
  <2> QED  BY <1>0, <2>1, <2>2
<1>1. sFrame[s] < NFrames => sFrame[s] + 1 \in Frames
  BY ConstAssumption DEF IInv, TypeOK, Buckets, Frames
<1>2. 0 \in 0..MaxFileReqs
  BY ConstAssumption
<1>3. spc' \in [Servers -> ServerPCs]
  BY DEF EndFrame, Goto, IInv, TypeOK, Buckets, ServerPCs
<1>4. CASE sFrame[s] < NFrames
  BY <1>a, <1>1, <1>2, <1>3, <1>4 DEF EndFrame, IInv, TypeOK
<1>5. CASE ~(sFrame[s] < NFrames)
  BY <1>a, <1>3, <1>5 DEF EndFrame, IInv, TypeOK
<1> QED  BY <1>4, <1>5

\* Reading the first control message leaves a queue of control messages.
LEMMA TailType ==
    ASSUME IInv, NEW s \in Servers, toSrv[s] # << >>,
           toSrv' = [toSrv EXCEPT ![s] = Tail(@)]
    PROVE  toSrv' \in [Servers -> Seq(CtlMsg)]
BY SeqTail DEF IInv, TypeOK, Buckets

\* Every step of a server process keeps the types.
LEMMA TypeServerStep ==
    ASSUME IInv, NEW s \in Servers, ServerStep(s)
    PROVE  TypeOK'
<1>0. /\ \A id \in FileReqIDs : FileReq(id) \in SrvMsg
      /\ FileReqIDs \subseteq ServerPCs /\ "FILEREQ" \in FileReqIDs
  BY MessageTypes DEF ServerPCs, FileReqIDs
<1> USE DEF clientVars, linkVars, histVars
<1>1. CASE ServerJob(s)
  <2>1. wire' \in [Servers -> Seq(SrvMsg)]
    BY <1>0, <1>1, ServerSendType DEF ServerJob, RequestFile
  <2>2. toSrv' \in [Servers -> Seq(CtlMsg)]
    BY <1>1, TailType DEF ServerJob
  <2> QED  BY <2>1, <2>2, <1>0, <1>1 DEF ServerJob, RequestFile, Goto, IInv, TypeOK, Buckets
<1>2. CASE ServerRequest(s)
  <2>1. PICK id \in FileReqIDs : RequestFile(s, id, spc[s])
    BY <1>2 DEF ServerRequest
  <2>2. wire' \in [Servers -> Seq(SrvMsg)]
    BY <1>0, <2>1, ServerSendType DEF RequestFile
  <2>3. sFiles[s] + 1 \in 0..MaxFileReqs
    BY <1>2, ConstAssumption DEF ServerRequest, IInv, TypeOK, Buckets
  <2> QED  BY <2>1, <2>2, <2>3, <1>0, <1>2 DEF ServerRequest, RequestFile, Goto, IInv, TypeOK, Buckets
<1>3. CASE ServerAnswered(s)
  <2>1. ans' \in [Servers -> Seq(AnsIDs)]
    BY <1>3, SeqTail DEF ServerAnswered, IInv, TypeOK, Buckets
  <2>2. spc' \in [Servers -> ServerPCs]
    BY <1>3 DEF ServerAnswered, Goto, AfterAnswer, IInv, TypeOK, Buckets, ServerPCs
  <2> QED  BY <2>1, <2>2, <1>3 DEF ServerAnswered, IInv, TypeOK, Buckets
<1>4. CASE ServerFileBroken(s)
  <2>1. spc' \in [Servers -> ServerPCs]
    BY <1>4 DEF ServerFileBroken, Goto, AfterAnswer, IInv, TypeOK, Buckets, ServerPCs
  <2> QED  BY <2>1, <1>4 DEF ServerFileBroken, IInv, TypeOK, Buckets
<1>5. CASE ServerWorldEnd(s) \/ ServerNoJob(s) \/ ServerRendered(s)
  <2>1. spc' \in [Servers -> ServerPCs]
    <3>1. \E pc \in {"wait", "closed", "send"} : spc' = [spc EXCEPT ![s] = pc]
      BY <1>5 DEF ServerWorldEnd, ServerNoJob, ServerRendered, Goto
    <3> QED  BY <3>1 DEF IInv, TypeOK, Buckets, ServerPCs
  <2> QED  BY <2>1, <1>5 DEF ServerWorldEnd, ServerNoJob, ServerRendered, IInv, TypeOK, Buckets
<1>6. CASE ServerRendBuckets(s)
  <2>1. /\ Head(toSrv[s]) = toSrv[s][1] /\ 1 \in DOMAIN toSrv[s]
        /\ toSrv[s][1].id = "RENDBUCKETS"
    <3>1. toSrv[s] \in Seq(CtlMsg) /\ toSrv[s] # << >> /\ Head(toSrv[s]).id = "RENDBUCKETS"
      BY <1>6 DEF ServerRendBuckets, RangeAtHead, IInv, TypeOK
    <3>2. Head(toSrv[s]) = toSrv[s][1] /\ Len(toSrv[s]) \in Nat \ {0}
      BY <3>1, SeqTail
    <3> QED  BY <3>1, <3>2, SeqEmpty
  <2>2. /\ toSrv[s][1].x1 = FirstOut(s) /\ toSrv[s][1].x2 = batch[s].x2
        /\ FirstOut(s) < batch[s].x2
    BY <2>1 DEF IInv, OneRangeAtATime, OneRange, RangeUnread
  <2>3. FirstOut(s) \in Nat /\ batch[s].x2 \in Nat
    <3>1. /\ batch[s].x2 \in Nat /\ busy[s] \in Nat
          /\ busy[s] <= batch[s].x2
      BY DEF IInv, TypeOK, Buckets, BusyAccounts, BusyAccountsFor
    <3> QED  BY <3>1, ConstAssumption DEF FirstOut
  <2>4. toSrv' \in [Servers -> Seq(CtlMsg)]
    BY <1>6, TailType DEF ServerRendBuckets, RangeAtHead
  <2>5. spc' \in [Servers -> ServerPCs]
    BY <1>6 DEF ServerRendBuckets, Goto, IInv, TypeOK, Buckets, ServerPCs
  <2> QED  BY <2>1, <2>2, <2>3, <2>4, <2>5, <1>6 DEF ServerRendBuckets, IInv, TypeOK, Buckets
<1>7. CASE ServerRendDone(s)
  <2>1. toSrv' \in [Servers -> Seq(CtlMsg)]
    BY <1>7, TailType DEF ServerRendDone
  <2> QED  BY <2>1, <1>7, EndFrameType DEF ServerRendDone, IInv, TypeOK, Buckets
<1>8. CASE ServerInterrupted(s) \/ ServerThrow(s)
  BY <1>8, EndFrameType DEF ServerInterrupted, ServerThrow, IInv, TypeOK, Buckets
<1>9. CASE ServerSendData(s)
  <2>1. sNext[s] < batch[s].x2 /\ batch[s].x2 \in Nat /\ sNext[s] \in Nat
    BY <1>9 DEF ServerSendData, Working, IInv, TypeOK, Buckets, OneRangeAtATime, OneRange, RangeInWork
  <2>2. sNext[s] + 1 \in Nat
    BY <2>1, ConstAssumption
  <2>3. Shows(sNext[s], sN[s], sFrame[s]) \in Shown /\ 0 \in Shown
    BY ConstAssumption DEF IInv, TypeOK, Frames, Shown, Shows
  <2>a. PICK f \in {0, Shows(sNext[s], sN[s], sFrame[s])} : ServerSend(s, MsgBucketData(sNext[s], f))
    BY <1>9 DEF ServerSendData
  <2>4. wire' \in [Servers -> Seq(SrvMsg)]
    BY <2>1, <2>3, <2>a, MessageTypes, ServerSendType
  <2>5. spc' \in [Servers -> ServerPCs]
    BY <1>9 DEF ServerSendData, Goto, IInv, TypeOK, Buckets, ServerPCs
  <2> QED  BY <2>2, <2>4, <2>5, <1>9 DEF ServerSendData, IInv, TypeOK, Buckets
<1>10. CASE ServerRangeOutside(s)
  <2>1. toSrv' \in [Servers -> Seq(CtlMsg)]
    BY <1>10, TailType DEF ServerRangeOutside, RangeAtHead
  <2>2. spc' \in [Servers -> ServerPCs]
    BY <1>10 DEF ServerRangeOutside, Goto, IInv, TypeOK, ServerPCs
  <2> QED  BY <2>1, <2>2, <1>10 DEF ServerRangeOutside, IInv, TypeOK, Buckets
<1> QED
  BY <1>1, <1>2, <1>3, <1>4, <1>5, <1>6, <1>7, <1>8, <1>9, <1>10 DEF ServerStep

\* Delivery, link failure and loss of a tail keep the types.
LEMMA TypeLinkStep ==
    ASSUME IInv, NEW s \in Servers, LinkStep(s)
    PROVE  TypeOK'
<1> USE DEF clientVars, serverVars, linkVars, histVars
<1>1. CASE Deliver(s)
  <2>1. Head(wire[s]) \in SrvMsg /\ Tail(wire[s]) \in Seq(SrvMsg)
    BY <1>1, SeqTail DEF Deliver, IInv, TypeOK, Buckets
  <2>2. Append(recvQ[s], Head(wire[s])) \in Seq(SrvMsg)
    BY <2>1, SeqAppend DEF IInv, TypeOK, Buckets
  <2> QED  BY <2>1, <2>2, <1>1 DEF Deliver, IInv, TypeOK, Buckets
<1>2. CASE ClientLinkFails(s) \/ ServerLinkFails(s)
  BY <1>2 DEF ClientLinkFails, ServerLinkFails, IInv, TypeOK, Buckets
<1>3. CASE ClientTailLost(s)
  <2>1. CASE /\ toSrv[s] # << >> /\ UNCHANGED ans
             /\ toSrv' = [toSrv EXCEPT ![s] = SubSeq(@, 1, Len(@) - 1)]
    <3>1. SubSeq(toSrv[s], 1, Len(toSrv[s]) - 1) \in Seq(CtlMsg)
      BY <2>1, SeqFront DEF IInv, TypeOK, Buckets
    <3> QED  BY <3>1, <2>1, <1>3 DEF ClientTailLost, IInv, TypeOK, Buckets
  <2>2. CASE /\ ans[s] # << >> /\ UNCHANGED toSrv
             /\ ans' = [ans EXCEPT ![s] = SubSeq(@, 1, Len(@) - 1)]
    <3>1. SubSeq(ans[s], 1, Len(ans[s]) - 1) \in Seq(AnsIDs)
      BY <2>2, SeqFront DEF IInv, TypeOK, Buckets
    <3> QED  BY <3>1, <2>2, <1>3 DEF ClientTailLost, IInv, TypeOK, Buckets
  <2> QED  BY <2>1, <2>2, <1>3 DEF ClientTailLost
<1>4. CASE ServerTailLost(s)
  <2>1. SubSeq(wire[s], 1, Len(wire[s]) - 1) \in Seq(SrvMsg)
    BY <1>4, SeqFront DEF ServerTailLost, IInv, TypeOK, Buckets
  <2> QED  BY <2>1, <1>4 DEF ServerTailLost, IInv, TypeOK, Buckets
<1> QED  BY <1>1, <1>2, <1>3, <1>4 DEF LinkStep

\* Every step of clients, servers and links keeps the types.
THEOREM TypeStep == IInv /\ [Next]_vars => TypeOK'
<1> SUFFICES ASSUME IInv, [Next]_vars PROVE TypeOK'
  OBVIOUS
<1>1. CASE ClientStep
  <2>1. CASE ClientStore
    <3>1. scanI \in Servers /\ recvQ[scanI] # << >> /\ recvQ[scanI][1].id = "BUCKETDATA"
      BY <2>1 DEF ClientStore, IInv, PeekedDataStays
    <3> QED  BY <3>1, <2>1, TypeStoreHead DEF ClientStore
  <2>2. CASE ClientReadReused
    <3>1. scanI \in Servers
      BY <2>2 DEF ClientReadReused, IInv, PeekedDataStays
    <3>2. recvQ[scanI] \in Seq(SrvMsg)
      BY <3>1 DEF IInv, TypeOK, Buckets
    <3>3. recvQ[scanI] # << >> /\ recvQ[scanI][1].id = "BUCKETDATA"
      BY <2>2, <3>2, SeqTail DEF ClientReadReused
    <3> QED  BY <3>1, <3>3, <2>2, TypeStoreHead DEF ClientReadReused
  <2> QED
    BY <1>1, <2>1, <2>2, TypeClientQuiet, TypeClientDispatch, TypeClientBye DEF ClientStep
<1>2. CASE \E s \in Servers :
              FileServerTake(s) \/ FileServerAnswer(s) \/ ServerStep(s) \/ LinkStep(s)
  BY <1>2, TypeFileServerTake, TypeFileServerAnswer, TypeServerStep, TypeLinkStep
<1>3. CASE UNCHANGED vars
  BY <1>3 DEF vars, clientVars, serverVars, linkVars, histVars, IInv, TypeOK, Buckets
<1> QED  BY <1>1, <1>2, <1>3 DEF Next

----------------------------------------------------------------------------
(* What each kind of step does to the messages under way from a server.    *)

\* Steps that touch neither queue keep what is under way.
LEMMA FlightSame ==
    ASSUME NEW s \in Servers, recvQ'[s] = recvQ[s], wire'[s] = wire[s]
    PROVE  /\ FlightLen(s)' = FlightLen(s)
           /\ \A k : Flight(s, k)' = Flight(s, k)
           /\ DataAt(s)' = DataAt(s) /\ FileAt(s)' = FileAt(s)
BY DEF FlightLen, Flight, DataAt, FileAt

\* The queue lengths, as naturals the solvers can compute with.
LEMMA Lens ==
    ASSUME TypeOK, NEW s \in Servers
    PROVE  /\ recvQ[s] \in Seq(SrvMsg) /\ wire[s] \in Seq(SrvMsg)
           /\ Len(recvQ[s]) \in Nat /\ Len(wire[s]) \in Nat
           /\ FlightLen(s) = Len(recvQ[s]) + Len(wire[s]) /\ FlightLen(s) \in Nat
BY SeqEmpty DEF TypeOK, FlightLen

\* Delivery into the receive queue keeps the messages under way and their order.
LEMMA FlightDeliver ==
    ASSUME TypeOK, NEW s \in Servers, Deliver(s)
    PROVE  /\ FlightLen(s)' = FlightLen(s)
           /\ \A k \in 1..FlightLen(s) : Flight(s, k)' = Flight(s, k)
<1> DEFINE r == recvQ[s]
           w == wire[s]
           a == Len(r)
           c == Len(w)
<1>1. r \in Seq(SrvMsg) /\ w \in Seq(SrvMsg) /\ a \in Nat /\ c \in Nat /\ w # << >>
  BY Lens DEF Deliver
<1>2. recvQ'[s] = Append(r, Head(w)) /\ wire'[s] = Tail(w)
  BY DEF Deliver, TypeOK
<1>3. Head(w) = w[1] /\ Head(w) \in SrvMsg /\ c \in Nat \ {0} /\ Len(Tail(w)) = c - 1
  BY <1>1, SeqTail
<1>4. /\ Len(Append(r, Head(w))) = a + 1 /\ Append(r, Head(w))[a + 1] = w[1]
      /\ \A k \in 1..a : Append(r, Head(w))[k] = r[k]
  BY <1>1, <1>3, SeqAppend
<1>5. \A k \in 1..(c - 1) : Tail(w)[k] = w[k + 1]
  BY <1>1, SeqTail
<1>6. FlightLen(s)' = FlightLen(s)
  <2>1. (a + 1) + (c - 1) = a + c
    <3> HIDE DEF a, c
    <3> QED  BY <1>1, <1>3
  <2> QED  BY <2>1, <1>2, <1>3, <1>4 DEF FlightLen
<1>7. ASSUME NEW k \in 1..FlightLen(s) PROVE Flight(s, k)' = Flight(s, k)
  <2> HIDE DEF r, w, a, c
  <2>0. k \in 1..(a + c) /\ a \in Nat /\ c \in Nat \ {0}
    BY <1>1, <1>3 DEF FlightLen, a, c, r, w
  <2>1. CASE k <= a
    <3>1. k <= a + 1 /\ k \in 1..a
      BY <2>0, <2>1
    <3> QED  BY <3>1, <2>1, <1>2, <1>4 DEF Flight, r, w, a, c
  <2>2. CASE k = a + 1
    <3>1. k <= a + 1 /\ ~(k <= a) /\ k - a = 1
      BY <2>0, <2>2
    <3> QED  BY <3>1, <2>2, <1>2, <1>4 DEF Flight, r, w, a, c
  <2>3. CASE k > a + 1
    <3>1. ~(k <= a + 1) /\ ~(k <= a) /\ k - (a + 1) \in 1..(c - 1) /\ (k - (a + 1)) + 1 = k - a
      BY <2>0, <2>3
    <3> QED  BY <3>1, <1>2, <1>4, <1>5 DEF Flight, r, w, a, c
  <2> QED  BY <2>0, <2>1, <2>2, <2>3
<1> QED  BY <1>6, <1>7

\* A server's send adds its message at the end of what is under way.
LEMMA FlightAppend ==
    ASSUME TypeOK, NEW s \in Servers, NEW m \in SrvMsg,
           recvQ'[s] = recvQ[s], wire'[s] = Append(wire[s], m)
    PROVE  /\ FlightLen(s)' = FlightLen(s) + 1
           /\ \A k \in 1..FlightLen(s) : Flight(s, k)' = Flight(s, k)
           /\ \A n : n = FlightLen(s) + 1 => Flight(s, n)' = m
<1> DEFINE w == wire[s]
           a == Len(recvQ[s])
           c == Len(w)
<1>1. w \in Seq(SrvMsg) /\ a \in Nat /\ c \in Nat
  BY Lens
<1>2. /\ Len(Append(w, m)) = c + 1 /\ Append(w, m)[c + 1] = m
      /\ \A k \in 1..c : Append(w, m)[k] = w[k]
  BY <1>1, SeqAppend
<1>3. FlightLen(s)' = FlightLen(s) + 1
  <2>1. a + (c + 1) = (a + c) + 1
    <3> HIDE DEF a, c
    <3> QED  BY <1>1
  <2> QED  BY <2>1, <1>2 DEF FlightLen
<1>4. ASSUME NEW k \in 1..FlightLen(s) PROVE Flight(s, k)' = Flight(s, k)
  <2> HIDE DEF w, a, c
  <2>0. k \in 1..(a + c)
    BY <1>1 DEF FlightLen, a, c, w
  <2>1. CASE k <= a
    BY <2>1 DEF Flight, a
  <2>2. CASE ~(k <= a)
    <3>1. k - a \in 1..c
      BY <2>0, <2>2, <1>1
    <3> QED  BY <3>1, <2>2, <1>2 DEF Flight, w, a, c
  <2> QED  BY <2>1, <2>2
<1>5. ASSUME NEW n, n = FlightLen(s) + 1 PROVE Flight(s, n)' = m
  <2> HIDE DEF w, a, c
  <2>1. n = a + c + 1
    BY <1>5 DEF FlightLen, a, c, w
  <2>2. ~(n <= a) /\ n - a = c + 1
    BY <2>1, <1>1
  <2> QED  BY <2>2, <1>2 DEF Flight, w, a, c
<1> QED  BY <1>3, <1>4, <1>5

\* Removing the head of the receive queue shifts what is under way by one.
LEMMA FlightStore ==
    ASSUME TypeOK, NEW s \in Servers, recvQ[s] # << >>,
           recvQ'[s] = Tail(recvQ[s]), wire'[s] = wire[s]
    PROVE  /\ FlightLen(s) \in Nat \ {0} /\ FlightLen(s)' = FlightLen(s) - 1
           /\ Flight(s, 1) = recvQ[s][1] /\ Head(recvQ[s]) = recvQ[s][1]
           /\ \A k \in 1..(FlightLen(s) - 1) : Flight(s, k)' = Flight(s, k + 1)
<1> DEFINE r == recvQ[s]
           a == Len(r)
           c == Len(wire[s])
<1>1. r \in Seq(SrvMsg) /\ c \in Nat /\ FlightLen(s) = a + c
  BY Lens
<1>2. /\ a \in Nat \ {0} /\ Len(Tail(r)) = a - 1 /\ Head(r) = r[1]
      /\ \A k \in 1..(a - 1) : Tail(r)[k] = r[k + 1]
  BY <1>1, SeqTail
<1>3. FlightLen(s)' = (a - 1) + c
  BY <1>2 DEF FlightLen
<1> HIDE DEF r, a, c
<1>4. FlightLen(s) \in Nat \ {0} /\ FlightLen(s)' = FlightLen(s) - 1
  BY <1>1, <1>2, <1>3
<1>5. Flight(s, 1) = recvQ[s][1]
  <2>1. 1 <= a
    BY <1>2
  <2> QED  BY <2>1 DEF Flight, a, r
<1>6. ASSUME NEW k \in 1..(FlightLen(s) - 1) PROVE Flight(s, k)' = Flight(s, k + 1)
  <2>0. k \in 1..((a + c) - 1)
    BY <1>1
  <2>1. CASE k <= a - 1
    <3>1. k \in 1..(a - 1) /\ k + 1 <= a
      BY <2>0, <2>1, <1>1, <1>2
    <3> QED  BY <3>1, <2>1, <1>2 DEF Flight, r, a, c
  <2>2. CASE ~(k <= a - 1)
    <3>1. ~(k + 1 <= a) /\ k - (a - 1) = (k + 1) - a
      BY <2>0, <2>2, <1>1, <1>2
    <3> QED  BY <3>1, <2>2, <1>2 DEF Flight, r, a, c
  <2> QED  BY <2>1, <2>2
<1> QED  BY <1>2, <1>4, <1>5, <1>6 DEF r

\* Losing the last message on the wire keeps the ones before it.
LEMMA FlightFront ==
    ASSUME TypeOK, NEW s \in Servers, wire[s] # << >>,
           recvQ'[s] = recvQ[s], wire'[s] = SubSeq(wire[s], 1, Len(wire[s]) - 1)
    PROVE  /\ FlightLen(s) \in Nat \ {0} /\ FlightLen(s)' = FlightLen(s) - 1
           /\ \A k \in 1..(FlightLen(s) - 1) : Flight(s, k)' = Flight(s, k)
<1> DEFINE w == wire[s]
           a == Len(recvQ[s])
           c == Len(w)
<1>1. w \in Seq(SrvMsg) /\ a \in Nat /\ FlightLen(s) = a + c
  BY Lens
<1>2. c \in Nat \ {0}
  BY <1>1, SeqTail
<1>3. /\ Len(SubSeq(w, 1, c - 1)) = c - 1
      /\ \A k \in 1..(c - 1) : SubSeq(w, 1, c - 1)[k] = w[k]
  BY <1>1, SeqFront
<1>4. FlightLen(s)' = a + (c - 1)
  BY <1>3 DEF FlightLen
<1> HIDE DEF w, a, c
<1>5. FlightLen(s) \in Nat \ {0} /\ FlightLen(s)' = FlightLen(s) - 1
  BY <1>1, <1>2, <1>4
<1>6. ASSUME NEW k \in 1..(FlightLen(s) - 1) PROVE Flight(s, k)' = Flight(s, k)
  <2>0. k \in 1..((a + c) - 1)
    BY <1>1
  <2>1. CASE k <= a
    BY <2>1 DEF Flight, a
  <2>2. CASE ~(k <= a)
    <3>1. k - a \in 1..(c - 1)
      BY <2>0, <2>2, <1>1, <1>2
    <3> QED  BY <3>1, <2>2, <1>3 DEF Flight, w, a, c
  <2> QED  BY <2>1, <2>2
<1> QED  BY <1>5, <1>6

\* Every message under way is bucket data or a file request, not both.
LEMMA FlightKinds ==
    ASSUME TypeOK, NEW s \in Servers
    PROVE  /\ \A k \in 1..FlightLen(s) : k \in DataAt(s) \/ k \in FileAt(s)
           /\ \A k \in DataAt(s) : k \notin FileAt(s)
           /\ DataAt(s) \subseteq 1..FlightLen(s) /\ FileAt(s) \subseteq 1..FlightLen(s)
<1>1. \A k \in 1..FlightLen(s) : Flight(s, k).id \in FileReqIDs \cup {"BUCKETDATA"}
  BY FlightTyped DEF SrvMsg
<1>2. "BUCKETDATA" \notin FileReqIDs
  BY DEF FileReqIDs
<1> QED  BY <1>1, <1>2 DEF DataAt, FileAt

\* The numbers the invariant relates.
LEMMA Counts ==
    ASSUME TypeOK, NEW s \in Servers
    PROVE  /\ busy[s] \in Nat /\ batch[s].x2 \in Nat
           /\ sNext[s] \in Nat /\ sX2[s] \in Nat
           /\ FirstOut(s) = batch[s].x2 - busy[s] /\ FirstOut(s) \in Int
<1>1. /\ busy[s] \in Nat /\ batch[s].x2 \in Nat
      /\ sNext[s] \in Nat /\ sX2[s] \in Nat
  BY DEF TypeOK
<1> QED  BY <1>1, ConstAssumption DEF FirstOut

----------------------------------------------------------------------------
(* Every step keeps SInv, server by server.                                *)

\* The inductive invariant includes SInv for every server.
LEMMA IInvServers ==
    /\ IInv => ServersInv /\ TypeOK
    /\ ServersInv => QueueUnmixed /\ BusyAccounts /\ OneRangeAtATime /\ OneRequestAtATime
BY DEF IInv, ServersInv, SInv, QueueUnmixed, BusyAccounts, OneRangeAtATime,
       OneRequestAtATime

\* Steps of server s that move its program counter and touch no queue.
LEMMA SInvQuietServer ==
    ASSUME IInv, NEW s \in Servers,
           \/ ServerNoJob(s) \/ ServerFileBroken(s) \/ ServerWorldEnd(s)
           \/ ServerInterrupted(s) \/ ServerRendered(s) \/ ServerThrow(s)
           \/ ServerLinkFails(s)
    PROVE  ServersInv'
<1>0. TypeOK /\ ServersInv /\ SInv(s)
  BY IInvServers DEF ServersInv
<1>1. /\ UNCHANGED <<busy, batch, sRet, sNext, sX2, fsv, toSrv, ans, recvQ, wire>>
      /\ \A t \in Servers \ {s} : spc'[t] = spc[t] /\ sFatal'[t] = sFatal[t]
  BY <1>0 DEF ServerNoJob, ServerFileBroken, ServerWorldEnd, ServerInterrupted,
     ServerRendered, ServerThrow, ServerLinkFails, EndFrame, Goto, linkVars, histVars, TypeOK
<1>2. \A t \in Servers \ {s} : Same(t)
  BY <1>1 DEF Same
<1>3. /\ FlightLen(s)' = FlightLen(s) /\ \A k : Flight(s, k)' = Flight(s, k)
      /\ DataAt(s)' = DataAt(s) /\ FileAt(s)' = FileAt(s) /\ FirstOut(s)' = FirstOut(s)
  BY <1>1, FlightSame DEF FirstOut
<1>4. Unmixed(s)' /\ BusyAccountsFor(s)' /\ RangeUnread(s)'
  BY <1>0, <1>1, <1>3 DEF SInv, Unmixed, BusyAccountsFor, OneRange, RangeUnread
<1>5. /\ Working(s)' => Working(s)
      /\ sFatal[s] => sFatal'[s]
      /\ spc'[s] # spc[s] \/ sFatal'[s]
      /\ ~sFatal'[s] => spc[s] \in {"job", "parse", "rend"} /\ spc'[s] \notin {"job", "rend"}
      /\ (~sFatal'[s] /\ spc'[s] = "send") => spc[s] = "rend"
      /\ (~sFatal'[s]) => spc'[s] \notin FileReqIDs
  <2>1. CASE ServerNoJob(s) \/ ServerFileBroken(s) \/ ServerInterrupted(s)
    BY <1>0, <2>1 DEF ServerNoJob, ServerFileBroken, ServerInterrupted, EndFrame, Goto, TypeOK,
       Working, FileReqIDs, AfterAnswer
  <2>2. CASE ServerWorldEnd(s) \/ ServerRendered(s)
    BY <1>0, <2>2 DEF ServerWorldEnd, ServerRendered, Goto, TypeOK, Working, FileReqIDs
  <2>3. CASE ServerThrow(s)
    BY <1>0, <2>3 DEF ServerThrow, EndFrame, Goto, TypeOK, Working, FileReqIDs
  <2>4. CASE ServerLinkFails(s)
    BY <1>0, <2>4 DEF ServerLinkFails, TypeOK, Working
  <2> QED
    BY <2>1, <2>2, <2>3, <2>4
<1>6. ~sFatal'[s] => FlightLen(s) = 0 /\ DataAt(s) = {} /\ FileAt(s) = {}
  <2>1. ~sFatal'[s] => FlightLen(s) = 0
    BY <1>0, <1>5 DEF SInv, OneRequest
  <2> QED  BY <2>1, <1>0, FlightKinds
<1>7. OneRequest(s)'
  <2>1. ~sFatal'[s] => fsv[s] = "none" /\ ans[s] = << >>
    BY <1>0, <1>5 DEF SInv, OneRequest, FileReqIDs
  <2> QED  BY <2>1, <1>1, <1>3, <1>5, <1>6 DEF OneRequest
<1>8. OneRange(s)'
  <2>1. (Working(s) /\ ~sFatal'[s] /\ spc'[s] = "send") => sNext[s] = FirstOut(s)
    BY <1>0, <1>5, Counts DEF SInv, OneRange, RangeInWork
  <2> QED  BY <2>1, <1>0, <1>1, <1>3, <1>4, <1>5, <1>6, Counts DEF SInv, OneRange, RangeInWork
<1> QED  BY <1>0, <1>2, <1>4, <1>7, <1>8, OthersKept DEF SInv

\* Reading the first control message leaves a range unread where it was.
LEMMA RangeTail ==
    ASSUME TypeOK, NEW s \in Servers, RangeUnread(s), toSrv[s] # << >>,
           toSrv'[s] = Tail(toSrv[s]), batch'[s] = batch[s], FirstOut(s)' = FirstOut(s)
    PROVE  RangeUnread(s)'
<1> DEFINE q == toSrv[s]
<1>1. q \in Seq(CtlMsg) /\ q # << >>
  BY DEF TypeOK
<1>2. /\ Len(q) \in Nat \ {0} /\ Tail(q) \in Seq(CtlMsg) /\ Len(Tail(q)) = Len(q) - 1
      /\ \A k \in 1..(Len(q) - 1) : Tail(q)[k] = q[k + 1]
  BY <1>1, SeqTail
<1>3. DOMAIN q = 1..Len(q) /\ DOMAIN Tail(q) = 1..(Len(q) - 1)
  BY <1>1, <1>2, SeqEmpty
<1>4. ASSUME NEW k \in DOMAIN Tail(q), Tail(q)[k].id = "RENDBUCKETS"
      PROVE  /\ k = Len(Tail(q)) /\ FirstOut(s) < batch[s].x2
             /\ Tail(q)[k].x1 = FirstOut(s) /\ Tail(q)[k].x2 = batch[s].x2
  <2>1. k \in Int /\ k + 1 \in DOMAIN q /\ Tail(q)[k] = q[k + 1]
    BY <1>2, <1>3
  <2>2. k + 1 = Len(q)
    BY <2>1, <1>4 DEF RangeUnread
  <2>3. k = Len(Tail(q))
    BY <2>1, <2>2, <1>2
  <2> QED  BY <2>1, <2>3, <1>4 DEF RangeUnread
<1> QED  BY <1>4 DEF RangeUnread

\* The first control message of server s, when it is there.
LEMMA FirstCtl ==
    ASSUME TypeOK, NEW s \in Servers, toSrv[s] # << >>
    PROVE  /\ toSrv[s] \in Seq(CtlMsg) /\ Head(toSrv[s]) = toSrv[s][1]
           /\ 1 \in DOMAIN toSrv[s] /\ Len(toSrv[s]) \in Nat \ {0}
<1>1. toSrv[s] \in Seq(CtlMsg)
  BY DEF TypeOK
<1>2. Head(toSrv[s]) = toSrv[s][1] /\ Len(toSrv[s]) \in Nat \ {0}
  BY <1>1, SeqTail
<1> QED  BY <1>1, <1>2, SeqEmpty

\* Server s sends a file request: nothing else of it is under way.
LEMMA SInvRequest ==
    ASSUME IInv, NEW s \in Servers, NEW id \in FileReqIDs,
           spc[s] \in {"job", "parse", "rend"}, RequestFile(s, id, spc[s]),
           UNCHANGED <<busy, batch, sNext, sX2, sFatal, fsv, ans, recvQ>>,
           \/ UNCHANGED toSrv
           \/ /\ spc[s] = "job" /\ toSrv[s] # << >> /\ ~sFatal[s]
              /\ toSrv' = [toSrv EXCEPT ![s] = Tail(@)]
    PROVE  ServersInv'
<1>0. TypeOK /\ ServersInv /\ SInv(s)
  BY IInvServers DEF ServersInv
<1>1. \A t \in Servers \ {s} : Same(t)
  BY <1>0 DEF Same, RequestFile, ServerSend, Goto, TypeOK
<1>2. spc'[s] = id /\ sRet'[s] = spc[s] /\ id \in FileReqIDs
  BY <1>0 DEF RequestFile, Goto, TypeOK
<1>3. (Working(s)' <=> Working(s)) /\ FirstOut(s)' = FirstOut(s)
  BY <1>2 DEF Working, FirstOut, FileReqIDs
<1>4. RangeUnread(s)' /\ (toSrv'[s] # << >> => toSrv[s] # << >>)
  <2>1. CASE UNCHANGED toSrv
    <3>1. toSrv'[s] = toSrv[s] /\ batch'[s] = batch[s]
      BY <2>1
    <3> QED  BY <1>0, <1>3, <3>1 DEF SInv, OneRange, RangeUnread
  <2>2. CASE toSrv[s] # << >> /\ toSrv' = [toSrv EXCEPT ![s] = Tail(@)]
    <3>1. toSrv'[s] = Tail(toSrv[s]) /\ RangeUnread(s)
      BY <1>0, <2>2 DEF TypeOK, SInv, OneRange
    <3> QED  BY <1>0, <1>3, <2>2, <3>1, RangeTail
  <2> QED  BY <2>1, <2>2
<1>5. CASE sFatal[s]
  <2>1. wire' = wire
    BY <1>5 DEF RequestFile, ServerSend
  <2>2. /\ FlightLen(s)' = FlightLen(s) /\ \A k : Flight(s, k)' = Flight(s, k)
        /\ DataAt(s)' = DataAt(s) /\ FileAt(s)' = FileAt(s)
    BY <2>1, FlightSame
  <2>3. Unmixed(s)' /\ BusyAccountsFor(s)'
    BY <1>0, <1>3, <1>5, <2>2 DEF SInv, Unmixed, BusyAccountsFor
  <2>5. OneRequest(s)'
    BY <1>5 DEF OneRequest
  <2>4. OneRange(s)'
    BY <1>0, <1>3, <1>4, <1>5, <2>2 DEF SInv, OneRange, RangeInWork
  <2> QED  BY <1>0, <1>1, <2>3, <2>4, <2>5, OthersKept DEF SInv
<1>6. CASE ~sFatal[s]
  <2>1. FlightLen(s) = 0 /\ fsv[s] = "none" /\ ans[s] = << >>
    BY <1>0, <1>6 DEF SInv, OneRequest, FileReqIDs
  <2>2. FileReq(id) \in SrvMsg /\ wire'[s] = Append(wire[s], FileReq(id))
    BY <1>0, <1>6, MessageTypes DEF RequestFile, ServerSend, TypeOK
  <2>3. FlightLen(s)' = 1 /\ Flight(s, 1)' = FileReq(id)
    BY <1>0, <2>1, <2>2, FlightAppend
  <2>4. DataAt(s)' = {}
    BY <2>3 DEF DataAt, FileReq, FileReqIDs
  <2>5. Unmixed(s)' /\ BusyAccountsFor(s)' /\ OneRequest(s)'
    BY <1>0, <1>2, <1>3, <2>1, <2>3, <2>4
    DEF SInv, Unmixed, BusyAccountsFor, OneRequest, FileReqIDs
  <2>6. OneRange(s)'
    <3>1. Working(s) => spc[s] # "send" /\ spc'[s] # "send"
      BY <1>2 DEF FileReqIDs
    <3> QED  BY <3>1, <1>0, <1>3, <1>4, <2>4, Counts DEF SInv, OneRange, RangeInWork
  <2> QED  BY <1>0, <1>1, <2>5, <2>6, OthersKept DEF SInv
<1> QED  BY <1>5, <1>6

\* GrabFile or FileExists takes the one answer and the server goes on.
LEMMA SInvAnswered ==
    ASSUME IInv, NEW s \in Servers, ServerAnswered(s)
    PROVE  ServersInv'
<1>0. TypeOK /\ ServersInv /\ SInv(s)
  BY IInvServers DEF ServersInv
<1>1. /\ \A t \in Servers \ {s} : Same(t)
      /\ UNCHANGED <<busy, batch, sRet, sNext, sX2, sFatal, fsv, toSrv, recvQ, wire>>
  BY <1>0 DEF Same, ServerAnswered, Goto, TypeOK, histVars
<1>2. ~sFatal[s] /\ spc[s] \in FileReqIDs /\ ans[s] # << >> /\ Len(ans[s]) = 1
      /\ FileAt(s) = {} /\ DataAt(s) = {} /\ fsv[s] = "none"
  BY <1>0 DEF ServerAnswered, SInv, OneRequest
<1>3. FlightLen(s) = 0
  <2>1. FlightLen(s) \in Nat
    BY <1>0, Lens
  <2>2. \A k \in 1..FlightLen(s) : FALSE
    BY <1>0, <1>2, FlightKinds
  <2>3. FlightLen(s) # 0 => 1 \in 1..FlightLen(s)
    BY <2>1
  <2> QED  BY <2>2, <2>3
<1>4. ans'[s] = << >>
  <2>1. ans[s] \in Seq(AnsIDs) /\ ans'[s] = Tail(ans[s])
    BY <1>0 DEF ServerAnswered, TypeOK
  <2>2. Tail(ans[s]) \in Seq(AnsIDs) /\ Len(Tail(ans[s])) = 0
    BY <2>1, <1>2, SeqTail
  <2> QED  BY <2>1, <2>2, SeqEmpty
<1>5. /\ FlightLen(s)' = 0 /\ DataAt(s)' = {} /\ FileAt(s)' = {} /\ FirstOut(s)' = FirstOut(s)
  BY <1>1, <1>2, <1>3, FlightSame DEF FirstOut
<1>6. spc'[s] \notin FileReqIDs \cup {"send"} /\ (spc'[s] = "rend" <=> sRet[s] = "rend")
  BY <1>0 DEF ServerAnswered, Goto, AfterAnswer, TypeOK, FileReqIDs
<1>7. Working(s)' => Working(s) /\ spc[s] # "send"
  BY <1>1, <1>2, <1>6 DEF Working, FileReqIDs
<1>8. Unmixed(s)' /\ BusyAccountsFor(s)' /\ OneRequest(s)'
  BY <1>0, <1>1, <1>2, <1>4, <1>5, <1>6 DEF SInv, Unmixed, BusyAccountsFor, OneRequest
<1>9. OneRange(s)'
  BY <1>0, <1>1, <1>2, <1>5, <1>6, <1>7, Counts DEF SInv, OneRange, RangeUnread, RangeInWork
<1> QED  BY <1>0, <1>1, <1>8, <1>9, OthersKept DEF SInv

\* A live server that is not waiting for a file has no request under way.
LEMMA NoRequest ==
    ASSUME IInv, NEW s \in Servers, ~sFatal[s], spc[s] \notin FileReqIDs
    PROVE  /\ FileAt(s) = {} /\ fsv[s] = "none" /\ ans[s] = << >>
           /\ DataAt(s) = {} => FlightLen(s) = 0
<1>0. TypeOK /\ SInv(s)
  BY IInvServers DEF ServersInv
<1>1. FileAt(s) = {} /\ fsv[s] = "none" /\ ans[s] = << >>
  BY <1>0 DEF SInv, OneRequest
<1>2. DataAt(s) = {} => \A k \in 1..FlightLen(s) : FALSE
  BY <1>0, <1>1, FlightKinds
<1>3. FlightLen(s) \in Nat
  BY <1>0, Lens
<1>4. FlightLen(s) # 0 => 1 \in 1..FlightLen(s)
  BY <1>3
<1> QED  BY <1>1, <1>2, <1>4

\* The server takes its range: nothing of it is under way yet.
LEMMA SInvRendBuckets ==
    ASSUME IInv, NEW s \in Servers, ServerRendBuckets(s)
    PROVE  ServersInv'
<1>0. TypeOK /\ ServersInv /\ SInv(s) /\ ~sFatal[s] /\ spc[s] = "wait" /\ toSrv[s] # << >>
  BY IInvServers DEF ServersInv, ServerRendBuckets, RangeAtHead
<1>1. /\ \A t \in Servers \ {s} : Same(t)
      /\ UNCHANGED <<busy, batch, sRet, sFatal, fsv, ans, recvQ, wire>>
      /\ spc'[s] = "rend" /\ toSrv'[s] = Tail(toSrv[s])
  <2>1. UNCHANGED <<busy, batch, sRet, sFatal, fsv, ans, recvQ, wire>>
    BY DEF ServerRendBuckets, histVars
  <2>2. /\ spc' = [spc EXCEPT ![s] = "rend"] /\ toSrv' = [toSrv EXCEPT ![s] = Tail(@)]
        /\ \A t \in Servers \ {s} : sNext'[t] = sNext[t] /\ sX2'[t] = sX2[t]
    BY <1>0 DEF ServerRendBuckets, Goto, TypeOK
  <2>3. spc \in [Servers -> ServerPCs] /\ toSrv \in [Servers -> Seq(CtlMsg)]
    BY <1>0 DEF TypeOK
  <2>4. \A t \in Servers \ {s} : spc'[t] = spc[t] /\ toSrv'[t] = toSrv[t]
    BY <2>2, <2>3
  <2>5. spc'[s] = "rend" /\ toSrv'[s] = Tail(toSrv[s])
    BY <2>2, <2>3
  <2> QED  BY <2>1, <2>2, <2>4, <2>5 DEF Same
<1>2. DataAt(s) = {} /\ FileAt(s) = {} /\ FlightLen(s) = 0 /\ fsv[s] = "none" /\ ans[s] = << >>
  <2>1. DataAt(s) = {}
    BY <1>0 DEF SInv, OneRange
  <2> QED  BY <2>1, <1>0, NoRequest DEF FileReqIDs
<1>3. /\ 1 = Len(toSrv[s]) /\ sNext'[s] = FirstOut(s) /\ sX2'[s] = batch[s].x2
      /\ FirstOut(s) < batch[s].x2
  <2>1. toSrv[s][1].id = "RENDBUCKETS" /\ 1 \in DOMAIN toSrv[s] /\ Head(toSrv[s]) = toSrv[s][1]
    BY <1>0, FirstCtl DEF ServerRendBuckets, RangeAtHead
  <2>2. /\ 1 = Len(toSrv[s]) /\ toSrv[s][1].x1 = FirstOut(s) /\ toSrv[s][1].x2 = batch[s].x2
        /\ FirstOut(s) < batch[s].x2
    BY <2>1, <1>0 DEF SInv, OneRange, RangeUnread
  <2> QED  BY <2>1, <2>2, <1>0 DEF ServerRendBuckets, TypeOK
<1>4. toSrv'[s] = << >>
  <2>1. toSrv[s] \in Seq(CtlMsg)
    BY <1>0 DEF TypeOK
  <2>2. Tail(toSrv[s]) \in Seq(CtlMsg) /\ Len(Tail(toSrv[s])) = 0
    BY <2>1, <1>0, <1>3, SeqTail
  <2> QED  BY <2>2, <1>1, SeqEmpty
<1>5. /\ FlightLen(s)' = 0 /\ DataAt(s)' = {} /\ FileAt(s)' = {} /\ FirstOut(s)' = FirstOut(s)
  BY <1>1, <1>2, FlightSame DEF FirstOut
<1>6. Unmixed(s)' /\ BusyAccountsFor(s)' /\ OneRequest(s)'
  BY <1>0, <1>1, <1>2, <1>5 DEF SInv, Unmixed, BusyAccountsFor, OneRequest, FileReqIDs
<1>7. RangeUnread(s)'
  BY <1>4 DEF RangeUnread
<1>8. RangeInWork(s)'
  <2>1. FirstOut(s) \in Int /\ FirstOut(s) <= FirstOut(s) /\ FirstOut(s) + 0 = FirstOut(s)
    BY <1>0, Counts
  <2> QED  BY <2>1, <1>1, <1>3, <1>5 DEF RangeInWork
<1> QED  BY <1>0, <1>1, <1>4, <1>6, <1>7, <1>8, OthersKept DEF SInv, OneRange

\* The server takes RENDDONE, or a range it does not have: nothing of it is under way.
LEMMA SInvRendDone ==
    ASSUME IInv, NEW s \in Servers, ServerRendDone(s) \/ ServerRangeOutside(s)
    PROVE  ServersInv'
<1>0. TypeOK /\ ServersInv /\ SInv(s) /\ ~sFatal[s] /\ spc[s] = "wait" /\ toSrv[s] # << >>
  BY IInvServers DEF ServersInv, ServerRendDone, ServerRangeOutside, RangeAtHead
<1>1. /\ \A t \in Servers \ {s} : Same(t)
      /\ UNCHANGED <<busy, batch, sRet, sNext, sX2, sFatal, fsv, ans, recvQ, wire>>
      /\ spc'[s] \in {"parse", "closed"} /\ toSrv'[s] = Tail(toSrv[s])
  <2>1. UNCHANGED <<busy, batch, sRet, sNext, sX2, sFatal, fsv, ans, recvQ, wire>>
    BY DEF ServerRendDone, ServerRangeOutside, histVars
  <2>2. PICK pc \in {"parse", "closed"} : spc' = [spc EXCEPT ![s] = pc]
    BY DEF ServerRendDone, ServerRangeOutside, EndFrame, Goto
  <2>3. toSrv' = [toSrv EXCEPT ![s] = Tail(@)]
    BY DEF ServerRendDone, ServerRangeOutside
  <2>4. spc \in [Servers -> ServerPCs] /\ toSrv \in [Servers -> Seq(CtlMsg)]
    BY <1>0 DEF TypeOK
  <2>5. \A t \in Servers \ {s} : spc'[t] = spc[t] /\ toSrv'[t] = toSrv[t]
    BY <2>2, <2>3, <2>4
  <2>6. spc'[s] \in {"parse", "closed"} /\ toSrv'[s] = Tail(toSrv[s])
    BY <2>2, <2>3, <2>4
  <2> QED  BY <2>1, <2>5, <2>6 DEF Same
<1>2. DataAt(s) = {} /\ FileAt(s) = {} /\ FlightLen(s) = 0 /\ fsv[s] = "none" /\ ans[s] = << >>
  <2>1. DataAt(s) = {}
    BY <1>0 DEF SInv, OneRange
  <2> QED  BY <2>1, <1>0, NoRequest DEF FileReqIDs
<1>3. /\ FlightLen(s)' = 0 /\ DataAt(s)' = {} /\ FileAt(s)' = {} /\ FirstOut(s)' = FirstOut(s)
  BY <1>1, <1>2, FlightSame DEF FirstOut
<1>4. RangeUnread(s)'
  BY <1>0, <1>1, <1>3, RangeTail DEF SInv, OneRange
<1>5. ~Working(s)'
  BY <1>1 DEF Working, FileReqIDs
<1>6. Unmixed(s)' /\ BusyAccountsFor(s)' /\ OneRequest(s)'
  BY <1>0, <1>1, <1>2, <1>3 DEF SInv, Unmixed, BusyAccountsFor, OneRequest, FileReqIDs
<1> QED  BY <1>0, <1>1, <1>3, <1>4, <1>5, <1>6, OthersKept DEF SInv, OneRange, RangeInWork

\* sendBucketsData: the bucket sent is the next of the range, and is accounted for.
LEMMA SInvSendData ==
    ASSUME IInv, NEW s \in Servers, ServerSendData(s)
    PROVE  ServersInv'
<1>0. TypeOK /\ ServersInv /\ SInv(s) /\ spc[s] = "send"
  BY IInvServers DEF ServersInv, ServerSendData
<1>1. UNCHANGED <<busy, batch, sRet, sX2, sFatal, fsv, toSrv, ans, recvQ>>
  BY DEF ServerSendData, histVars
<1>2. /\ sNext'[s] = sNext[s] + 1
      /\ spc'[s] = IF sNext[s] + 1 < sX2[s] THEN "send" ELSE "wait"
      /\ \A t \in Servers \ {s} : sNext'[t] = sNext[t] /\ spc'[t] = spc[t]
  BY <1>0 DEF ServerSendData, Goto, TypeOK
<1>3. \A t \in Servers \ {s} : wire'[t] = wire[t]
  BY <1>0 DEF ServerSendData, ServerSend, TypeOK
<1>4. \A t \in Servers \ {s} : Same(t)
  BY <1>1, <1>2, <1>3 DEF Same
<1>5. /\ Working(s) /\ toSrv[s] = << >> /\ toSrv'[s] = << >>
  BY <1>0, <1>1 DEF Working, SInv, OneRange
<1>6. /\ sX2[s] = batch[s].x2 /\ FirstOut(s) <= sNext[s] /\ sNext[s] < batch[s].x2
      /\ \A k \in DataAt(s) : Flight(s, k).idx < sNext[s]
      /\ ~sFatal[s] => sNext[s] = FirstOut(s) + FlightLen(s)
  BY <1>0, <1>5 DEF SInv, OneRange, RangeInWork
<1>7a. FirstOut(s)' = FirstOut(s)
  BY <1>1 DEF FirstOut
<1>7b. Working(s)' => sNext[s] + 1 < batch[s].x2
  BY <1>2, <1>6 DEF Working, FileReqIDs
<1>8. RangeUnread(s)'
  BY <1>5 DEF RangeUnread
<1>n. /\ busy[s] \in Nat /\ batch[s].x2 \in Nat /\ sNext[s] \in Nat
      /\ FirstOut(s) = batch[s].x2 - busy[s] /\ FirstOut(s) \in Int
  BY <1>0, Counts
<1>9. CASE sFatal[s]
  <2>1. wire' = wire
    BY <1>9 DEF ServerSendData, ServerSend
  <2>2. /\ FlightLen(s)' = FlightLen(s) /\ \A k : Flight(s, k)' = Flight(s, k)
        /\ DataAt(s)' = DataAt(s) /\ FileAt(s)' = FileAt(s)
    BY <1>1, <2>1, FlightSame
  <2>3. Unmixed(s)' /\ BusyAccountsFor(s)'
    BY <1>0, <1>1, <1>7a, <2>2 DEF SInv, Unmixed, BusyAccountsFor
  <2>4. OneRequest(s)'
    BY <1>1, <1>9 DEF OneRequest
  <2>5. \A k \in DataAt(s) : Flight(s, k).idx < sNext[s] + 1
    <3>1. \A k \in DataAt(s) : Flight(s, k).idx \in Nat
      BY <1>0, FlightTyped DEF DataAt, SrvMsg
    <3> QED  BY <1>6, <3>1, <1>n, ConstAssumption
  <2>6. FirstOut(s) <= sNext[s] + 1
    BY <1>6, <1>n, ConstAssumption
  <2>7. RangeInWork(s)'
    BY <1>1, <1>2, <1>6, <1>7a, <1>7b, <1>9, <2>2, <2>5, <2>6 DEF RangeInWork
  <2> QED  BY <1>0, <1>4, <1>5, <1>8, <2>3, <2>4, <2>7, OthersKept DEF SInv, OneRange
<1>10. CASE ~sFatal[s]
  <2>a. PICK f \in {0, Shows(sNext[s], sN[s], sFrame[s])} :
               ServerSend(s, MsgBucketData(sNext[s], f))
    BY DEF ServerSendData
  <2> DEFINE m == MsgBucketData(sNext[s], f)
  <2>1. f \in Shown
    BY <1>0, ConstAssumption DEF TypeOK, Frames, Shows, Shown
  <2>2. m \in SrvMsg /\ wire'[s] = Append(wire[s], m)
    BY <1>0, <1>10, <1>n, <2>1, <2>a, MessageTypes DEF ServerSend, TypeOK
  <2>3. /\ FlightLen(s)' = FlightLen(s) + 1
        /\ \A k \in 1..FlightLen(s) : Flight(s, k)' = Flight(s, k)
        /\ \A n : n = FlightLen(s) + 1 => Flight(s, n)' = m
    BY <1>0, <1>1, <2>2, FlightAppend
  <2>4. m.id = "BUCKETDATA" /\ m.idx = sNext[s]
    BY DEF MsgBucketData
  <2> HIDE DEF m
  <2>5. /\ FileAt(s) = {} /\ fsv[s] = "none" /\ ans[s] = << >>
    BY <1>0, <1>10, NoRequest DEF FileReqIDs
  <2>6. FlightLen(s) \in Nat
    BY <1>0, Lens
  <2>7. ASSUME NEW k \in 1..(FlightLen(s) + 1)
        PROVE  \/ k \in 1..FlightLen(s) /\ Flight(s, k)' = Flight(s, k)
               \/ k = FlightLen(s) + 1 /\ Flight(s, k)' = m
    <3>1. k \in 1..FlightLen(s) \/ k = FlightLen(s) + 1
      BY <2>6
    <3> QED  BY <3>1, <2>3
  <2>8. FileAt(s)' = {}
    <3>1. "BUCKETDATA" \notin FileReqIDs
      BY DEF FileReqIDs
    <3>2. \A k \in 1..(FlightLen(s) + 1) : Flight(s, k)'.id \notin FileReqIDs
      BY <3>1, <2>4, <2>5, <2>7 DEF FileAt
    <3> QED  BY <3>2, <2>3 DEF FileAt
  <2>9. ASSUME NEW k \in DataAt(s)'
        PROVE  /\ k \in 1..(FlightLen(s) + 1)
               /\ \/ k \in DataAt(s) /\ Flight(s, k)' = Flight(s, k)
                  \/ k = FlightLen(s) + 1 /\ Flight(s, k)' = m
    <3>1. k \in 1..(FlightLen(s) + 1) /\ Flight(s, k)'.id = "BUCKETDATA"
      BY <2>3 DEF DataAt
    <3> QED  BY <3>1, <2>7 DEF DataAt
  <2>10. BusyAccountsFor(s)'
    <3>1. FlightLen(s) + 1 <= busy[s] /\ sNext[s] = FirstOut(s) + (FlightLen(s) + 1) - 1
      BY <1>6, <1>10, <1>n, <2>6, ConstAssumption
    <3>2. ASSUME NEW k \in DataAt(s)'
          PROVE  k <= busy[s] /\ Flight(s, k)'.idx = FirstOut(s) + k - 1
      <4>1. CASE k \in DataAt(s) /\ Flight(s, k)' = Flight(s, k)
        BY <4>1, <1>0 DEF SInv, BusyAccountsFor
      <4>2. CASE k = FlightLen(s) + 1 /\ Flight(s, k)' = m
        BY <4>2, <3>1, <2>4
      <4> QED  BY <4>1, <4>2, <2>9
    <3>3. busy[s] <= batch[s].x2
      BY <1>0 DEF SInv, BusyAccountsFor
    <3> QED  BY <3>2, <3>3, <1>1, <1>7a DEF BusyAccountsFor
  <2>11. RangeInWork(s)'
    <3>1. FirstOut(s) <= sNext[s] + 1 /\ sNext[s] + 1 = FirstOut(s) + (FlightLen(s) + 1)
          /\ sNext[s] < sNext[s] + 1
      BY <1>6, <1>10, <1>n, <2>6, ConstAssumption
    <3>2. ASSUME NEW k \in DataAt(s)' PROVE Flight(s, k)'.idx < sNext[s] + 1
      <4>1. CASE k \in DataAt(s) /\ Flight(s, k)' = Flight(s, k)
        <5>1. Flight(s, k).idx \in Nat /\ Flight(s, k).idx < sNext[s]
          BY <4>1, <1>0, <1>6, FlightTyped DEF DataAt, SrvMsg
        <5> QED  BY <5>1, <4>1, <1>n, ConstAssumption
      <4>2. CASE k = FlightLen(s) + 1 /\ Flight(s, k)' = m
        BY <4>2, <3>1, <2>4
      <4> QED  BY <4>1, <4>2, <2>9
    <3>3. Working(s)' => spc'[s] = "send"
      BY <1>2 DEF Working, FileReqIDs
    <3> QED
      BY <3>1, <3>2, <3>3, <1>1, <1>2, <1>6, <1>7a, <1>7b, <2>3 DEF RangeInWork
  <2>12. Unmixed(s)'
    BY <2>8 DEF Unmixed
  <2>13. OneRequest(s)'
    BY <1>1, <1>2, <2>5, <2>8 DEF OneRequest, FileReqIDs
  <2> QED
    BY <1>0, <1>4, <1>5, <1>8, <2>10, <2>11, <2>12, <2>13, OthersKept DEF SInv, OneRange
<1> QED  BY <1>9, <1>10

\* A packet moves from the network into the client's queue: nothing else changes.
LEMMA SInvDeliver ==
    ASSUME IInv, NEW s \in Servers, Deliver(s)
    PROVE  ServersInv'
<1>0. TypeOK /\ ServersInv /\ SInv(s)
  BY IInvServers DEF ServersInv
<1>1. UNCHANGED <<busy, batch, spc, sRet, sNext, sX2, sFatal, fsv, toSrv, ans>>
  BY DEF Deliver, serverVars, histVars
<1>2. \A t \in Servers \ {s} : recvQ'[t] = recvQ[t] /\ wire'[t] = wire[t]
  BY <1>0 DEF Deliver, TypeOK
<1>3. \A t \in Servers \ {s} : Same(t)
  BY <1>1, <1>2 DEF Same
<1>4. /\ FlightLen(s)' = FlightLen(s)
      /\ \A k \in 1..FlightLen(s) : Flight(s, k)' = Flight(s, k)
  BY <1>0, FlightDeliver
<1>5. /\ DataAt(s)' = DataAt(s) /\ FileAt(s)' = FileAt(s)
      /\ \A k \in DataAt(s) : Flight(s, k)' = Flight(s, k)
  BY <1>4 DEF DataAt, FileAt
<1>6. FirstOut(s)' = FirstOut(s) /\ (Working(s)' <=> Working(s))
  BY <1>1 DEF FirstOut, Working
<1>7. Unmixed(s)' /\ BusyAccountsFor(s)'
  BY <1>0, <1>1, <1>4, <1>5, <1>6 DEF SInv, Unmixed, BusyAccountsFor
<1>8. OneRequest(s)'
  BY <1>0, <1>1, <1>4, <1>5 DEF SInv, OneRequest
<1>9. RangeUnread(s)' /\ RangeInWork(s)'
  BY <1>0, <1>1, <1>4, <1>5, <1>6 DEF SInv, OneRange, RangeUnread, RangeInWork
<1> QED
  BY <1>0, <1>1, <1>3, <1>5, <1>6, <1>7, <1>8, <1>9, OthersKept DEF SInv, OneRange

\* The last control message, or the answer, the client had queued is lost.
LEMMA SInvClientTailLost ==
    ASSUME IInv, NEW s \in Servers, ClientTailLost(s)
    PROVE  ServersInv'
<1>0. TypeOK /\ ServersInv /\ SInv(s)
  BY IInvServers DEF ServersInv
<1>1. UNCHANGED <<busy, batch, spc, sRet, sNext, sX2, sFatal, fsv, recvQ, wire>>
  BY DEF ClientTailLost, serverVars, histVars
<1>2. /\ FlightLen(s)' = FlightLen(s) /\ \A k : Flight(s, k)' = Flight(s, k)
      /\ DataAt(s)' = DataAt(s) /\ FileAt(s)' = FileAt(s) /\ FirstOut(s)' = FirstOut(s)
      /\ (Working(s)' <=> Working(s))
  BY <1>1, FlightSame DEF FirstOut, Working
<1>3. Unmixed(s)' /\ BusyAccountsFor(s)' /\ RangeInWork(s)'
  BY <1>0, <1>1, <1>2 DEF SInv, Unmixed, BusyAccountsFor, OneRange, RangeInWork
<1>4. CASE /\ toSrv[s] # << >> /\ UNCHANGED ans
           /\ toSrv' = [toSrv EXCEPT ![s] = SubSeq(@, 1, Len(@) - 1)]
  <2>1. \A t \in Servers \ {s} : toSrv'[t] = toSrv[t]
    BY <1>0, <1>4 DEF TypeOK
  <2>2. \A t \in Servers \ {s} : Same(t)
    BY <1>1, <1>4, <2>1 DEF Same
  <2> DEFINE q == toSrv[s]
             f == SubSeq(q, 1, Len(q) - 1)
  <2>3. q \in Seq(CtlMsg) /\ toSrv'[s] = f
    BY <1>0, <1>4 DEF TypeOK
  <2>4. /\ f \in Seq(CtlMsg) /\ Len(f) = Len(q) - 1 /\ Len(q) \in Nat
        /\ \A k \in 1..(Len(q) - 1) : f[k] = q[k]
    BY <1>4, <2>3, SeqFront, SeqEmpty
  <2>5. DOMAIN q = 1..Len(q) /\ DOMAIN f = 1..(Len(q) - 1)
    BY <2>3, <2>4, SeqEmpty
  <2> HIDE DEF f
  <2>6. \A k \in DOMAIN f : f[k].id # "RENDBUCKETS"
    <3>1. SUFFICES ASSUME NEW k \in DOMAIN f, f[k].id = "RENDBUCKETS" PROVE FALSE
      OBVIOUS
    <3>2. k \in DOMAIN q /\ k # Len(q) /\ f[k] = q[k]
      BY <2>4, <2>5
    <3> QED  BY <3>1, <3>2, <1>0 DEF SInv, OneRange, RangeUnread
  <2>7. RangeUnread(s)'
    BY <2>3, <2>6 DEF RangeUnread
  <2>8. OneRange(s)'
    BY <1>0, <1>2, <1>3, <1>4, <2>7 DEF SInv, OneRange
  <2>9. OneRequest(s)'
    BY <1>0, <1>1, <1>2, <1>4 DEF SInv, OneRequest
  <2> QED  BY <1>0, <1>3, <2>2, <2>8, <2>9, OthersKept DEF SInv
<1>5. CASE /\ ans[s] # << >> /\ UNCHANGED toSrv
           /\ ans' = [ans EXCEPT ![s] = SubSeq(@, 1, Len(@) - 1)]
  <2>1. \A t \in Servers \ {s} : ans'[t] = ans[t]
    BY <1>0, <1>5 DEF TypeOK
  <2>2. \A t \in Servers \ {s} : Same(t)
    BY <1>1, <1>5, <2>1 DEF Same
  <2>3. OneRange(s)'
    <3>1. RangeUnread(s)'
      BY <1>0, <1>1, <1>2, <1>5 DEF SInv, OneRange, RangeUnread
    <3> QED  BY <3>1, <1>0, <1>2, <1>3, <1>5 DEF SInv, OneRange
  <2>4. Len(ans[s]) = 1 => ans'[s] = << >>
    <3>1. ans[s] \in Seq(AnsIDs) /\ ans'[s] = SubSeq(ans[s], 1, Len(ans[s]) - 1)
      BY <1>0, <1>5 DEF TypeOK
    <3>2. ans'[s] \in Seq(AnsIDs) /\ Len(ans'[s]) = Len(ans[s]) - 1
      BY <3>1, <1>5, SeqFront
    <3> QED  BY <3>2, SeqEmpty
  <2>5. OneRequest(s)'
    BY <1>0, <1>1, <1>2, <1>5, <2>4 DEF SInv, OneRequest
  <2> QED  BY <1>0, <1>3, <2>2, <2>3, <2>5, OthersKept DEF SInv
<1> QED  BY <1>4, <1>5 DEF ClientTailLost

\* The last message a failed or closed server had queued is lost.
LEMMA SInvServerTailLost ==
    ASSUME IInv, NEW s \in Servers, ServerTailLost(s)
    PROVE  ServersInv'
<1>0. TypeOK /\ ServersInv /\ SInv(s) /\ wire[s] # << >> /\ (sFatal[s] \/ spc[s] = "closed")
  BY IInvServers DEF ServersInv, ServerTailLost
<1>1. UNCHANGED <<busy, batch, spc, sRet, sNext, sX2, sFatal, fsv, toSrv, ans, recvQ>>
  BY DEF ServerTailLost, serverVars, histVars
<1>2. /\ \A t \in Servers \ {s} : wire'[t] = wire[t]
      /\ wire'[s] = SubSeq(wire[s], 1, Len(wire[s]) - 1)
  BY <1>0 DEF ServerTailLost, TypeOK
<1>3. \A t \in Servers \ {s} : Same(t)
  BY <1>1, <1>2 DEF Same
<1>4. /\ FlightLen(s) \in Nat \ {0} /\ FlightLen(s)' = FlightLen(s) - 1
      /\ \A k \in 1..(FlightLen(s) - 1) : Flight(s, k)' = Flight(s, k)
  BY <1>0, <1>1, <1>2, FlightFront
<1>5. /\ \A k \in DataAt(s)' : k \in DataAt(s) /\ Flight(s, k)' = Flight(s, k)
      /\ FileAt(s)' \subseteq FileAt(s)
      /\ FlightLen(s) = 1 => FileAt(s)' = {}
  <2>1. 1..(FlightLen(s) - 1) \subseteq 1..FlightLen(s)
    BY <1>4
  <2>2. FlightLen(s) = 1 => 1..(FlightLen(s) - 1) = {}
    BY <1>4
  <2> QED  BY <2>1, <2>2, <1>4 DEF DataAt, FileAt
<1>6. FirstOut(s)' = FirstOut(s) /\ (Working(s)' <=> Working(s)) /\ (~sFatal[s] => ~Working(s))
  BY <1>0, <1>1 DEF FirstOut, Working, FileReqIDs
<1>7. Unmixed(s)' /\ BusyAccountsFor(s)'
  BY <1>0, <1>1, <1>5, <1>6 DEF SInv, Unmixed, BusyAccountsFor
<1>8. OneRequest(s)'
  <2>1. ~sFatal[s] => FileAt(s) = {} /\ fsv[s] = "none" /\ ans[s] = << >>
    BY <1>0, NoRequest DEF FileReqIDs
  <2> QED  BY <2>1, <1>0, <1>1, <1>5 DEF OneRequest, FileReqIDs
<1>9. RangeUnread(s)' /\ RangeInWork(s)'
  BY <1>0, <1>1, <1>5, <1>6 DEF SInv, OneRange, RangeUnread, RangeInWork
<1> QED
  BY <1>0, <1>1, <1>3, <1>5, <1>6, <1>7, <1>8, <1>9, OthersKept DEF SInv, OneRange

\* The FileServer thread takes a request: it was alone in the queue.
LEMMA SInvFileServerTake ==
    ASSUME IInv, NEW s \in Servers, FileServerTake(s)
    PROVE  ServersInv'
<1>0. TypeOK /\ ServersInv /\ SInv(s) /\ fsv[s] = "none"
  BY IInvServers DEF ServersInv, FileServerTake
<1>1. UNCHANGED <<busy, batch, spc, sRet, sNext, sX2, sFatal, toSrv, ans, wire>>
  BY DEF FileServerTake, serverVars, histVars
<1>2. PICK i \in DOMAIN recvQ[s] :
        /\ IsFirst(i, FileReqsIn(recvQ[s]))
        /\ fsv' = [fsv EXCEPT ![s] = recvQ[s][i].id]
        /\ recvQ' = [recvQ EXCEPT ![s] = DropAt(@, i)]
  BY DEF FileServerTake
<1>3. recvQ[s][i].id \in FileReqIDs
  BY <1>2 DEF IsFirst, FileReqsIn
<1>4. /\ wire[s] = << >> /\ FileAt(s) # {} /\ FlightLen(s) = 1 /\ DropAt(recvQ[s], i) = << >>
  BY <1>3, RequestAlone
<1>5. /\ recvQ'[s] = << >>
      /\ \A t \in Servers \ {s} : fsv'[t] = fsv[t] /\ recvQ'[t] = recvQ[t]
  BY <1>0, <1>2, <1>4 DEF TypeOK
<1>6. \A t \in Servers \ {s} : Same(t)
  BY <1>1, <1>5 DEF Same
<1>7. FlightLen(s)' = 0 /\ DataAt(s)' = {} /\ FileAt(s)' = {}
  BY <1>1, <1>4, <1>5 DEF FlightLen, DataAt, FileAt
<1>8. FirstOut(s)' = FirstOut(s) /\ (Working(s)' <=> Working(s))
  BY <1>1 DEF FirstOut, Working
<1>9. ~sFatal[s] => spc[s] \in FileReqIDs /\ ans[s] = << >> /\ spc[s] \notin {"job", "parse", "rend"}
                    /\ spc[s] # "send"
  BY <1>0, <1>4 DEF SInv, OneRequest, FileReqIDs
<1>10. Unmixed(s)' /\ BusyAccountsFor(s)' /\ OneRequest(s)'
  BY <1>0, <1>1, <1>7, <1>9 DEF SInv, Unmixed, BusyAccountsFor, OneRequest
<1>11. RangeUnread(s)' /\ RangeInWork(s)'
  BY <1>0, <1>1, <1>7, <1>8, <1>9 DEF SInv, OneRange, RangeUnread, RangeInWork
<1> QED
  BY <1>0, <1>1, <1>6, <1>7, <1>8, <1>10, <1>11, OthersKept DEF SInv, OneRange

\* The FileServer thread answers the one request its server waits for.
LEMMA SInvFileServerAnswer ==
    ASSUME IInv, NEW s \in Servers, FileServerAnswer(s)
    PROVE  ServersInv'
<1>0. TypeOK /\ ServersInv /\ SInv(s) /\ fsv[s] # "none"
  BY IInvServers DEF ServersInv, FileServerAnswer
<1>1. /\ UNCHANGED <<busy, batch, spc, sRet, sNext, sX2, sFatal, toSrv, recvQ, wire>>
      /\ fsv' = [fsv EXCEPT ![s] = "none"]
  BY DEF FileServerAnswer, serverVars, histVars
<1>2. PICK a \in AnswersTo(fsv[s]) : ans' = ClientSend(ans, s, a) \/ ans' = ans
  <2>1. AnswersTo(fsv[s]) # {}
    BY DEF AnswersTo
  <2> QED  BY <2>1 DEF FileServerAnswer
<1>3. a \in AnsIDs
  BY DEF AnswersTo, AnsIDs
<1>4. /\ \A t \in Servers \ {s} : fsv'[t] = fsv[t] /\ ans'[t] = ans[t]
      /\ fsv'[s] = "none" /\ (ans'[s] = ans[s] \/ ans'[s] = Append(ans[s], a))
  <2>1. ans' = ans \/ ans' = [ans EXCEPT ![s] = Append(@, a)]
    BY <1>2 DEF ClientSend
  <2>2. ans \in [Servers -> Seq(AnsIDs)] /\ fsv \in [Servers -> FileReqIDs \cup {"none"}]
    BY <1>0 DEF TypeOK
  <2>3. /\ \A t \in Servers \ {s} : ans'[t] = ans[t]
        /\ (ans'[s] = ans[s] \/ ans'[s] = Append(ans[s], a))
    BY <2>1, <2>2
  <2> QED  BY <1>1, <2>2, <2>3
<1>5. \A t \in Servers \ {s} : Same(t)
  BY <1>1, <1>4 DEF Same
<1>6. /\ FlightLen(s)' = FlightLen(s) /\ \A k : Flight(s, k)' = Flight(s, k)
      /\ DataAt(s)' = DataAt(s) /\ FileAt(s)' = FileAt(s) /\ FirstOut(s)' = FirstOut(s)
      /\ (Working(s)' <=> Working(s))
  BY <1>1, FlightSame DEF FirstOut, Working
<1>7. Unmixed(s)' /\ BusyAccountsFor(s)' /\ RangeUnread(s)' /\ RangeInWork(s)'
  BY <1>0, <1>1, <1>6 DEF SInv, Unmixed, BusyAccountsFor, OneRange, RangeUnread, RangeInWork
<1>8. ~sFatal[s] => spc[s] \in FileReqIDs /\ FileAt(s) = {} /\ ans[s] = << >>
  BY <1>0 DEF SInv, OneRequest
<1>9. ans[s] = << >> => (ans'[s] = << >> \/ Len(ans'[s]) = 1)
  <2>1. ans[s] \in Seq(AnsIDs)
    BY <1>0 DEF TypeOK
  <2>2. Len(Append(ans[s], a)) = Len(ans[s]) + 1 /\ (ans[s] = << >> => Len(ans[s]) = 0)
    BY <1>3, <2>1, SeqAppend
  <2>3. ans[s] = << >> => Len(Append(ans[s], a)) = 1
    BY <2>2
  <2>4. ans'[s] = ans[s] \/ ans'[s] = Append(ans[s], a)
    BY <1>4
  <2> QED  BY <2>3, <2>4, Zenon
<1>10. OneRequest(s)'
  BY <1>0, <1>1, <1>4, <1>6, <1>8, <1>9 DEF SInv, OneRequest
<1> QED
  BY <1>0, <1>1, <1>5, <1>6, <1>7, <1>10, OthersKept DEF SInv, OneRange

\* A server with mBusyCnt = 0 has no range, no data under way and no work.
LEMMA IdleServer ==
    ASSUME TypeOK, NEW s \in Servers, SInv(s), busy[s] = 0
    PROVE  /\ DataAt(s) = {} /\ ~Working(s)
           /\ \A k \in DOMAIN toSrv[s] : toSrv[s][k].id # "RENDBUCKETS"
<1>1. batch[s].x2 \in Nat /\ sNext[s] \in Nat /\ FirstOut(s) = batch[s].x2 - busy[s]
  BY Counts
<1>2. FirstOut(s) = batch[s].x2 /\ ~(FirstOut(s) < batch[s].x2)
  BY <1>1, ConstAssumption
<1>3. \A k \in DataAt(s) : k \in Nat /\ k >= 1 /\ k <= 0
  <2>1. DataAt(s) \subseteq 1..FlightLen(s) /\ FlightLen(s) \in Nat
    BY FlightKinds, Lens
  <2>2. \A k \in DataAt(s) : k <= 0
    BY DEF SInv, BusyAccountsFor
  <2> QED  BY <2>1, <2>2
<1>4. DataAt(s) = {}
  BY <1>3
<1>5. ~Working(s)
  <2>1. SUFFICES ASSUME Working(s) PROVE FALSE
    OBVIOUS
  <2>2. FirstOut(s) <= sNext[s] /\ sNext[s] < batch[s].x2
    BY <2>1 DEF SInv, OneRange, RangeInWork
  <2> QED  BY <2>2, <1>1, <1>2, ConstAssumption
<1> QED  BY <1>2, <1>4, <1>5 DEF SInv, OneRange, RangeUnread

\* Appending a control message to the queue of an idle server.
LEMMA IdleAppend ==
    ASSUME TypeOK, NEW s \in Servers, SInv(s), busy[s] = 0, NEW m \in CtlMsg,
           toSrv'[s] = Append(toSrv[s], m),
           spc'[s] = spc[s], sRet'[s] = sRet[s], sNext'[s] = sNext[s], sX2'[s] = sX2[s],
           sFatal'[s] = sFatal[s], fsv'[s] = fsv[s], ans'[s] = ans[s],
           recvQ'[s] = recvQ[s], wire'[s] = wire[s],
           busy'[s] <= batch'[s].x2,
           m.id = "RENDBUCKETS" => /\ m.x1 = FirstOut(s)' /\ m.x2 = batch'[s].x2
                                   /\ FirstOut(s)' < batch'[s].x2
    PROVE  SInv(s)'
<1>1. /\ DataAt(s) = {} /\ ~Working(s)
      /\ \A k \in DOMAIN toSrv[s] : toSrv[s][k].id # "RENDBUCKETS"
  BY IdleServer
<1>2. /\ FlightLen(s)' = FlightLen(s) /\ \A k : Flight(s, k)' = Flight(s, k)
      /\ DataAt(s)' = {} /\ FileAt(s)' = FileAt(s)
  BY <1>1, FlightSame
<1>3. ~Working(s)'
  BY <1>1 DEF Working
<1>4. Unmixed(s)' /\ OneRequest(s)' /\ BusyAccountsFor(s)' /\ RangeInWork(s)'
  BY <1>1, <1>2, <1>3 DEF SInv, Unmixed, OneRequest, BusyAccountsFor, RangeInWork
<1>5. RangeUnread(s)'
  <2> DEFINE q == toSrv[s]
             r == Append(q, m)
  <2>1. q \in Seq(CtlMsg)
    BY DEF TypeOK
  <2>2. /\ r \in Seq(CtlMsg) /\ Len(r) = Len(q) + 1 /\ Len(q) \in Nat /\ DOMAIN q = 1..Len(q)
        /\ \A k \in 1..Len(q) : r[k] = q[k]
        /\ r[Len(q) + 1] = m
    BY <2>1, SeqAppend, SeqEmpty
  <2>3. DOMAIN r = 1..(Len(q) + 1)
    BY <2>2, SeqEmpty
  <2> HIDE DEF r
  <2>4. \A k \in DOMAIN r : (k \in DOMAIN q /\ r[k] = q[k]) \/ (k = Len(r) /\ r[k] = m)
    BY <2>2, <2>3
  <2>5. toSrv'[s] = r
    BY DEF r
  <2> QED  BY <2>4, <2>5, <1>1 DEF RangeUnread
<1> QED  BY <1>2, <1>3, <1>4, <1>5 DEF SInv, OneRange

\* dispatchToServer: an idle server gets the range that starts at x1.
LEMMA SInvDispatch ==
    ASSUME IInv, ClientDispatch
    PROVE  ServersInv'
<1>0. TypeOK /\ ServersInv
  BY IInvServers
<1>1. PICK s \in Servers :
        /\ IsFirst(s, FreeServers)
        /\ toSrv' = ClientSend(toSrv, s, MsgRendBuckes(x1, BatchEnd))
        /\ busy' = [busy EXCEPT ![s] = @ + (BatchEnd - x1)]
        /\ batch' = [batch EXCEPT ![s] = [x1 |-> x1, x2 |-> BatchEnd, frame |-> cFrame]]
  BY DEF ClientDispatch
<1>2. UNCHANGED <<spc, sRet, sNext, sX2, sFatal, fsv, ans, recvQ, wire>>
  BY DEF ClientDispatch, serverVars
<1>3. ~cFatal[s] /\ busy[s] = 0 /\ SInv(s)
  BY <1>0, <1>1 DEF IsFirst, FreeServers, ServersInv
<1> DEFINE m == MsgRendBuckes(x1, BatchEnd)
<1>4. toSrv' = [toSrv EXCEPT ![s] = Append(@, m)]
  BY <1>1, <1>3 DEF ClientSend
<1>5. x1 \in 0..cN /\ BatchEnd \in 1..cN /\ x1 < BatchEnd
  <2>1. x1 \in 0..cN /\ x1 < cN
    BY DEF IInv, TypeOK, AllHandedOut, ClientDispatch
  <2> QED  BY <1>0, <2>1, BatchEndType
<1>6. /\ busy \in [Servers -> Nat] /\ toSrv \in [Servers -> Seq(CtlMsg)]
      /\ batch \in [Servers -> [x1 : Nat, x2 : Nat, frame : 0..NFrames]]
  BY <1>0 DEF TypeOK
<1>7. busy'[s] = busy[s] + (BatchEnd - x1) /\ toSrv'[s] = Append(toSrv[s], m) /\ batch'[s].x2 = BatchEnd
  BY <1>1, <1>4, <1>6
<1>8. \A t \in Servers \ {s} : busy'[t] = busy[t] /\ toSrv'[t] = toSrv[t] /\ batch'[t] = batch[t]
  BY <1>1, <1>4, <1>6
<1>9. \A t \in Servers \ {s} : Same(t)
  BY <1>2, <1>8 DEF Same
<1>10. busy'[s] <= batch'[s].x2 /\ FirstOut(s)' = x1 /\ FirstOut(s)' < batch'[s].x2
  <2>1. 0 + (BatchEnd - x1) <= BatchEnd /\ BatchEnd - (0 + (BatchEnd - x1)) = x1
    BY <1>5, ConstAssumption
  <2> QED  BY <1>3, <1>5, <1>7, <2>1 DEF FirstOut
<1>11. m \in CtlMsg /\ m.x1 = x1 /\ m.x2 = BatchEnd
  <2>1. x1 \in Nat /\ BatchEnd \in Nat
    BY <1>5, ConstAssumption
  <2> QED  BY <2>1, MessageTypes DEF MsgRendBuckes
<1> HIDE DEF m
<1>12. SInv(s)'
  BY <1>0, <1>2, <1>3, <1>7, <1>10, <1>11, IdleAppend
<1> QED  BY <1>0, <1>9, <1>12, OthersKept

\* sendRendDoneToNotBusy: only idle servers are told.
LEMMA SInvBye ==
    ASSUME IInv, ClientBye
    PROVE  ServersInv'
<1>0. TypeOK /\ ServersInv
  BY IInvServers
<1>1. /\ UNCHANGED <<busy, batch, spc, sRet, sNext, sX2, sFatal, fsv, ans, recvQ, wire>>
      /\ toSrv' = [s \in Servers |->
                      IF s \in FreeServers THEN Append(toSrv[s], MsgRendDone) ELSE toSrv[s]]
  BY DEF ClientBye, serverVars, histVars
<1>2. SUFFICES ASSUME NEW s \in Servers PROVE SInv(s)'
  BY DEF ServersInv
<1>3. SInv(s)
  BY <1>0 DEF ServersInv
<1>4. CASE s \notin FreeServers
  <2>1. toSrv'[s] = toSrv[s]
    BY <1>1, <1>4
  <2> QED  BY <2>1, <1>1, <1>3, SInvStable
<1>5. CASE s \in FreeServers
  <2>1. toSrv'[s] = Append(toSrv[s], MsgRendDone) /\ busy[s] = 0
    BY <1>1, <1>5 DEF FreeServers
  <2>2. MsgRendDone \in CtlMsg /\ MsgRendDone.id # "RENDBUCKETS"
    BY MessageTypes DEF MsgRendDone
  <2>3. busy'[s] <= batch'[s].x2
    BY <1>1, <1>3 DEF SInv, BusyAccountsFor
  <2> QED  BY <2>1, <2>2, <2>3, <1>0, <1>1, <1>3, IdleAppend
<1> QED  BY <1>4, <1>5

\* checkServersData stores one bucket: the count and the queue go down together.
LEMMA SInvStoreHead ==
    ASSUME IInv, NEW s \in Servers, StoreHead(s), recvQ[s] # << >>,
           recvQ[s][1].id = "BUCKETDATA"
    PROVE  ServersInv'
<1>0. TypeOK /\ ServersInv /\ SInv(s)
  BY IInvServers DEF ServersInv
<1>1. /\ UNCHANGED <<batch, spc, sRet, sNext, sX2, sFatal, fsv, ans, wire>>
      /\ recvQ' = [recvQ EXCEPT ![s] = Tail(@)] /\ busy' = [busy EXCEPT ![s] = @ - 1]
      /\ \/ toSrv' = toSrv
         \/ busy[s] = 1 /\ toSrv' = ClientSend(toSrv, s, MsgRendDone)
  BY DEF StoreHead, serverVars, histVars
<1>2. /\ busy \in [Servers -> Nat] /\ toSrv \in [Servers -> Seq(CtlMsg)]
      /\ recvQ \in [Servers -> Seq(SrvMsg)]
  BY <1>0 DEF TypeOK
<1>3. recvQ'[s] = Tail(recvQ[s]) /\ busy'[s] = busy[s] - 1
  BY <1>1, <1>2
<1>4. \A t \in Servers \ {s} : recvQ'[t] = recvQ[t] /\ busy'[t] = busy[t]
  BY <1>1, <1>2
<1>5. toSrv' = toSrv \/ (busy[s] = 1 /\ toSrv' = [toSrv EXCEPT ![s] = Append(@, MsgRendDone)])
  BY <1>1 DEF ClientSend
<1>6. /\ \A t \in Servers \ {s} : toSrv'[t] = toSrv[t]
      /\ toSrv'[s] = toSrv[s] \/ (busy[s] = 1 /\ toSrv'[s] = Append(toSrv[s], MsgRendDone))
  BY <1>2, <1>5
<1>7. \A t \in Servers \ {s} : Same(t)
  BY <1>1, <1>4, <1>6 DEF Same
<1>8. /\ FlightLen(s) \in Nat \ {0} /\ FlightLen(s)' = FlightLen(s) - 1
      /\ Flight(s, 1) = recvQ[s][1]
      /\ \A k \in 1..(FlightLen(s) - 1) : Flight(s, k)' = Flight(s, k + 1)
  BY <1>0, <1>1, <1>3, FlightStore
<1>9. 1 \in DataAt(s)
  <2>1. 1 \in 1..FlightLen(s)
    BY <1>8
  <2> QED  BY <2>1, <1>8 DEF DataAt
<1>10. ASSUME NEW k \in 1..FlightLen(s)'
       PROVE  k \in Nat /\ k + 1 \in 1..FlightLen(s) /\ Flight(s, k)' = Flight(s, k + 1)
  <2>1. k \in 1..(FlightLen(s) - 1)
    BY <1>8
  <2>2. k \in Nat /\ k + 1 \in 1..FlightLen(s)
    BY <2>1, <1>8
  <2> QED  BY <2>1, <2>2, <1>8
<1>11. FileAt(s) = {}
  <2>1. SUFFICES ASSUME FileAt(s) # {} PROVE FALSE
    OBVIOUS
  <2>2. FlightLen(s) = 1
    BY <2>1, <1>0 DEF SInv, Unmixed
  <2>3. \A k \in 1..1 : k = 1
    OBVIOUS
  <2>4. 1 \in FileAt(s)
    BY <2>1, <2>2, <2>3 DEF FileAt
  <2> QED  BY <2>4, <1>9, <1>0, FlightKinds
<1>12. FileAt(s)' = {} /\ \A k \in DataAt(s)' : k \in Nat /\ k + 1 \in DataAt(s) /\ Flight(s, k)' = Flight(s, k + 1)
  <2>1. \A k \in 1..FlightLen(s)' : Flight(s, k)'.id \notin FileReqIDs
    BY <1>10, <1>11 DEF FileAt
  <2> QED  BY <2>1, <1>10 DEF FileAt, DataAt
<1>n. /\ busy[s] \in Nat /\ batch[s].x2 \in Nat /\ sNext[s] \in Nat
      /\ FirstOut(s) = batch[s].x2 - busy[s] /\ FirstOut(s) \in Int /\ busy[s] <= batch[s].x2
  BY <1>0, Counts DEF SInv, BusyAccountsFor
<1>13. FirstOut(s)' = FirstOut(s) + 1
  <2>1. batch[s].x2 - (busy[s] - 1) = (batch[s].x2 - busy[s]) + 1
    BY <1>n, ConstAssumption
  <2> QED  BY <2>1, <1>1, <1>3 DEF FirstOut
<1>14. BusyAccountsFor(s)'
  <2>1. busy[s] - 1 <= batch[s].x2
    BY <1>n, ConstAssumption
  <2>2. ASSUME NEW k \in DataAt(s)'
        PROVE  k <= busy[s] - 1 /\ Flight(s, k)'.idx = (FirstOut(s) + 1) + k - 1
    <3>1. k \in Nat /\ k + 1 \in DataAt(s) /\ Flight(s, k)' = Flight(s, k + 1)
      BY <1>12
    <3>2. k + 1 <= busy[s] /\ Flight(s, k + 1).idx = FirstOut(s) + (k + 1) - 1
      BY <3>1, <1>0 DEF SInv, BusyAccountsFor
    <3>3. k <= busy[s] - 1 /\ FirstOut(s) + (k + 1) - 1 = (FirstOut(s) + 1) + k - 1
      BY <3>1, <3>2, <1>n, ConstAssumption
    <3> QED  BY <3>1, <3>2, <3>3
  <2> QED  BY <2>1, <2>2, <1>1, <1>3, <1>13 DEF BusyAccountsFor
<1>15. ~sFatal[s] => /\ spc[s] \notin {"job", "parse", "rend"} /\ spc[s] \notin FileReqIDs
                     /\ fsv[s] = "none" /\ ans[s] = << >>
  BY <1>0, <1>8, <1>9 DEF SInv, OneRequest
<1>16. OneRequest(s)' /\ Unmixed(s)'
  BY <1>1, <1>12, <1>15 DEF OneRequest, Unmixed
<1>17. (Working(s)' <=> Working(s)) /\ toSrv[s] = << >>
  BY <1>0, <1>1, <1>9 DEF Working, SInv, OneRange
<1>18. ASSUME Working(s)
       PROVE  /\ sX2[s] = batch[s].x2 /\ FirstOut(s) + 1 <= sNext[s] /\ sNext[s] < batch[s].x2
              /\ \A k \in DataAt(s)' : Flight(s, k)'.idx < sNext[s]
              /\ ~sFatal[s] =>
                    /\ spc[s] = "send"
                    /\ sNext[s] = (FirstOut(s) + 1) + (FlightLen(s) - 1)
  <2>1. /\ sX2[s] = batch[s].x2 /\ sNext[s] < batch[s].x2
        /\ \A k \in DataAt(s) : Flight(s, k).idx < sNext[s]
        /\ ~sFatal[s] => sNext[s] = FirstOut(s) + (IF spc[s] = "send" THEN FlightLen(s) ELSE 0)
    BY <1>0, <1>18 DEF SInv, OneRange, RangeInWork
  <2>2. Flight(s, 1).idx = FirstOut(s) + 1 - 1 /\ Flight(s, 1).idx < sNext[s]
    BY <2>1, <1>0, <1>9 DEF SInv, BusyAccountsFor
  <2>3. FirstOut(s) + 1 <= sNext[s]
    BY <2>2, <1>n, ConstAssumption
  <2>4. \A k \in DataAt(s)' : Flight(s, k)'.idx < sNext[s]
    BY <2>1, <1>12
  <2>5. ~sFatal[s] => spc[s] = "send"
    BY <1>15, <1>18 DEF Working
  <2>6. FirstOut(s) + FlightLen(s) = (FirstOut(s) + 1) + (FlightLen(s) - 1)
    BY <1>8, <1>n
  <2> QED  BY <2>1, <2>3, <2>4, <2>5, <2>6
<1>19. RangeInWork(s)'
  BY <1>1, <1>8, <1>13, <1>17, <1>18 DEF RangeInWork
<1>20. toSrv'[s] # << >> => ~Working(s) /\ DataAt(s)' = {}
  <2>1. SUFFICES ASSUME toSrv'[s] # << >> PROVE ~Working(s) /\ DataAt(s)' = {}
    OBVIOUS
  <2>2. busy[s] = 1
    BY <2>1, <1>6, <1>17
  <2>3. ~Working(s)
    BY <2>2, <1>18, <1>n, ConstAssumption
  <2>a. \A k \in DataAt(s)' : k <= busy'[s]
    BY <1>14 DEF BusyAccountsFor
  <2>b. busy'[s] = 0
    BY <2>2, <1>3
  <2>c. \A k \in DataAt(s)' : k \in 1..FlightLen(s)' /\ k \in Nat
    BY <1>12 DEF DataAt
  <2>4. \A k \in DataAt(s)' : k \in 1..FlightLen(s)' /\ k \in Nat /\ k <= 0
    BY <2>a, <2>b, <2>c
  <2>5. \A k \in DataAt(s)' : k >= 1
    <3>1. FlightLen(s)' \in Nat
      BY <1>8
    <3> QED  BY <2>4, <3>1
  <2> QED  BY <2>3, <2>4, <2>5
<1>21. RangeUnread(s)'
  <2>1. CASE toSrv'[s] = << >>
    BY <2>1 DEF RangeUnread
  <2>2. CASE toSrv'[s] = Append(<< >>, MsgRendDone)
    <3>1. << >> \in Seq(CtlMsg) /\ MsgRendDone \in CtlMsg /\ Len(<< >>) = 0
      BY MessageTypes
    <3>2. /\ Append(<< >>, MsgRendDone) \in Seq(CtlMsg)
          /\ Len(Append(<< >>, MsgRendDone)) = Len(<< >>) + 1
          /\ Append(<< >>, MsgRendDone)[Len(<< >>) + 1] = MsgRendDone
      BY <3>1, SeqAppend
    <3>3. DOMAIN toSrv'[s] = 1..1 /\ toSrv'[s][1] = MsgRendDone
      BY <2>2, <3>1, <3>2, SeqEmpty
    <3>4. MsgRendDone.id # "RENDBUCKETS"
      BY DEF MsgRendDone
    <3>5. \A k \in DOMAIN toSrv'[s] : toSrv'[s][k].id # "RENDBUCKETS"
      BY <3>3, <3>4
    <3> QED  BY <3>5 DEF RangeUnread
  <2> QED  BY <2>1, <2>2, <1>6, <1>17
<1> QED
  BY <1>0, <1>7, <1>14, <1>16, <1>17, <1>19, <1>20, <1>21, OthersKept DEF SInv, OneRange

\* Every step keeps what the invariant says about the servers.
LEMMA ServersStep ==
    ASSUME IInv, [Next]_vars
    PROVE  ServersInv'
<1>0. ServersInv
  BY IInvServers
<1>1. CASE ClientStep
  <2>1. CASE ClientStore
    <3>1. scanI \in Servers /\ recvQ[scanI] # << >> /\ recvQ[scanI][1].id = "BUCKETDATA"
      BY <2>1 DEF ClientStore, IInv, PeekedDataStays
    <3> QED  BY <3>1, <2>1, SInvStoreHead DEF ClientStore
  <2>2. CASE ClientReadReused
    <3>1. scanI \in Servers
      BY <2>2 DEF ClientReadReused, IInv, PeekedDataStays
    <3>2. recvQ[scanI] \in Seq(SrvMsg)
      BY <3>1 DEF IInv, TypeOK
    <3>3. recvQ[scanI] # << >> /\ recvQ[scanI][1].id = "BUCKETDATA"
      BY <2>2, <3>2, SeqTail DEF ClientReadReused
    <3> QED  BY <3>1, <3>3, <2>2, SInvStoreHead DEF ClientReadReused
  <2>3. CASE \/ ClientGoLocal \/ ClientLocalDone \/ ClientLocalThrow \/ ClientSkip
             \/ ClientNoPacket \/ ClientPeek \/ ClientPassOver \/ ClientReadBroken
             \/ ClientScanEnd \/ ClientRescan \/ ClientReturn \/ ClientNextWorld
             \/ ClientExit
    <3>1. UNCHANGED <<busy, batch, spc, sRet, sNext, sX2, sFatal, fsv, toSrv, ans, recvQ, wire>>
      BY <2>3 DEF ClientGoLocal, ClientLocalDone, ClientLocalThrow, ClientSkip,
         ClientNoPacket, ClientPeek, ClientPassOver, ClientReadBroken, ClientScanEnd,
         ClientRescan, ClientReturn, ClientNextWorld, ClientExit, serverVars, linkVars,
         histVars
    <3> QED  BY <3>1, <1>0, ServersKept
  <2> QED
    BY <1>1, <2>1, <2>2, <2>3, SInvDispatch, SInvBye DEF ClientStep
<1>2. ASSUME NEW s \in Servers,
             FileServerTake(s) \/ FileServerAnswer(s) \/ ServerStep(s) \/ LinkStep(s)
      PROVE  ServersInv'
  <2>1. CASE FileServerTake(s) \/ FileServerAnswer(s)
    BY <2>1, SInvFileServerTake, SInvFileServerAnswer
  <2>2. CASE ServerJob(s)
    <3>1. /\ "FILEREQ" \in FileReqIDs /\ spc[s] = "job" /\ RequestFile(s, "FILEREQ", spc[s])
          /\ toSrv[s] # << >> /\ ~sFatal[s] /\ toSrv' = [toSrv EXCEPT ![s] = Tail(@)]
          /\ UNCHANGED <<busy, batch, sNext, sX2, sFatal, fsv, ans, recvQ>>
      BY <2>2 DEF ServerJob, FileReqIDs, histVars
    <3> QED  BY <3>1, SInvRequest
  <2>3. CASE ServerRequest(s)
    <3>1. PICK id \in FileReqIDs : RequestFile(s, id, spc[s])
      BY <2>3 DEF ServerRequest
    <3>2. /\ spc[s] \in {"job", "parse", "rend"} /\ UNCHANGED toSrv
          /\ UNCHANGED <<busy, batch, sNext, sX2, sFatal, fsv, ans, recvQ>>
      BY <2>3 DEF ServerRequest, histVars
    <3> QED  BY <3>1, <3>2, SInvRequest
  <2>4. CASE \/ ServerNoJob(s) \/ ServerFileBroken(s) \/ ServerWorldEnd(s)
             \/ ServerInterrupted(s) \/ ServerRendered(s) \/ ServerThrow(s)
             \/ ServerLinkFails(s)
    BY <2>4, SInvQuietServer
  <2>5. CASE ClientLinkFails(s)
    <3>1. UNCHANGED <<busy, batch, spc, sRet, sNext, sX2, sFatal, fsv, toSrv, ans, recvQ, wire>>
      BY <2>5 DEF ClientLinkFails, serverVars, linkVars, histVars
    <3> QED  BY <3>1, <1>0, ServersKept
  <2> QED
    BY <1>2, <2>1, <2>2, <2>3, <2>4, <2>5, SInvAnswered, SInvRendBuckets, SInvRendDone,
       SInvSendData, SInvDeliver, SInvClientTailLost, SInvServerTailLost
    DEF ServerStep, LinkStep
<1>3. CASE UNCHANGED vars
  <2>1. UNCHANGED <<busy, batch, spc, sRet, sNext, sX2, sFatal, fsv, toSrv, ans, recvQ, wire>>
    BY <1>3 DEF vars, serverVars, linkVars, histVars
  <2> QED  BY <2>1, <1>0, ServersKept
<1> QED  BY <1>1, <1>2, <1>3 DEF Next

----------------------------------------------------------------------------
(* The bucket lists of the client and of the servers.                      *)

\* A file request is no bucket data: those under way are the same as before.
LEMMA RequestFlight ==
    ASSUME IInv, NEW s \in Servers, NEW id \in FileReqIDs,
           spc[s] \in {"job", "parse", "rend"}, RequestFile(s, id, spc[s]), UNCHANGED recvQ
    PROVE  DataAt(s)' = DataAt(s) /\ \A k \in DataAt(s) : Flight(s, k)' = Flight(s, k)
<1>0. TypeOK /\ SInv(s)
  BY IInvServers DEF ServersInv
<1>1. CASE sFatal[s]
  <2>1. wire' = wire
    BY <1>1 DEF RequestFile, ServerSend
  <2> QED  BY <2>1, FlightSame
<1>2. CASE ~sFatal[s]
  <2>1. FlightLen(s) = 0
    BY <1>0, <1>2 DEF SInv, OneRequest
  <2>2. FileReq(id) \in SrvMsg /\ wire'[s] = Append(wire[s], FileReq(id))
    BY <1>0, <1>2, MessageTypes DEF RequestFile, ServerSend, TypeOK
  <2>3. FlightLen(s)' = 1 /\ Flight(s, 1)' = FileReq(id)
    BY <1>0, <2>1, <2>2, FlightAppend
  <2>4. DataAt(s)' = {} /\ DataAt(s) = {}
    BY <2>1, <2>3 DEF DataAt, FileReq, FileReqIDs
  <2> QED  BY <2>4
<1> QED  BY <1>1, <1>2

\* Neither a delivery nor the FileServer thread changes the data under way.
LEMMA DeliverFlight ==
    ASSUME IInv, NEW s \in Servers, Deliver(s) \/ FileServerTake(s)
    PROVE  DataAt(s)' = DataAt(s) /\ \A k \in DataAt(s) : Flight(s, k)' = Flight(s, k)
<1>0. TypeOK
  BY IInvServers
<1>1. CASE Deliver(s)
  <2>1. /\ FlightLen(s)' = FlightLen(s)
        /\ \A k \in 1..FlightLen(s) : Flight(s, k)' = Flight(s, k)
    BY <1>0, <1>1, FlightDeliver
  <2> QED  BY <2>1 DEF DataAt
<1>2. CASE FileServerTake(s)
  <2>1. PICK i \in DOMAIN recvQ[s] :
          /\ IsFirst(i, FileReqsIn(recvQ[s]))
          /\ recvQ' = [recvQ EXCEPT ![s] = DropAt(@, i)]
    BY <1>2 DEF FileServerTake
  <2>2. recvQ[s][i].id \in FileReqIDs
    BY <2>1 DEF IsFirst, FileReqsIn
  <2>3. /\ wire[s] = << >> /\ FileAt(s) # {} /\ FlightLen(s) = 1
        /\ DropAt(recvQ[s], i) = << >>
    BY <2>2, RequestAlone
  <2>4. recvQ'[s] = << >> /\ wire'[s] = << >>
    BY <1>0, <1>2, <2>1, <2>3 DEF TypeOK, FileServerTake
  <2>5. DataAt(s)' = {}
    BY <2>4 DEF FlightLen, DataAt
  <2>6. DataAt(s) = {}
    <3>1. /\ DataAt(s) \subseteq 1..1 /\ FileAt(s) \subseteq 1..1
          /\ \A k \in DataAt(s) : k \notin FileAt(s)
      BY <1>0, <2>3, FlightKinds
    <3>2. 1..1 = {1}
      OBVIOUS
    <3> QED  BY <3>1, <3>2, <2>3
  <2> QED  BY <2>5, <2>6
<1> QED  BY <1>1, <1>2

\* A control queue that only shrinks gets no range.
LEMMA NoRangeComes ==
    ASSUME TypeOK, NEW s \in Servers, ~HasRange(s),
           \/ toSrv'[s] = toSrv[s]
           \/ toSrv[s] # << >> /\ toSrv'[s] = Tail(toSrv[s])
           \/ toSrv[s] # << >> /\ toSrv'[s] = SubSeq(toSrv[s], 1, Len(toSrv[s]) - 1)
    PROVE  ~HasRange(s)'
<1> DEFINE q == toSrv[s]
<1>1. q \in Seq(CtlMsg) /\ DOMAIN q = 1..Len(q) /\ Len(q) \in Nat
  BY SeqEmpty DEF TypeOK
<1>2. CASE toSrv'[s] = q
  BY <1>2 DEF HasRange
<1>3. CASE q # << >> /\ toSrv'[s] = Tail(q)
  <2>1. /\ DOMAIN toSrv'[s] = 1..(Len(q) - 1)
        /\ \A k \in 1..(Len(q) - 1) : toSrv'[s][k] = q[k + 1]
    BY <1>1, <1>3, SeqTail, SeqEmpty
  <2>2. \A k \in 1..(Len(q) - 1) : k + 1 \in 1..Len(q)
    BY <1>1
  <2> QED  BY <1>1, <2>1, <2>2 DEF HasRange
<1>4. CASE q # << >> /\ toSrv'[s] = SubSeq(q, 1, Len(q) - 1)
  <2>1. /\ DOMAIN toSrv'[s] = 1..(Len(q) - 1)
        /\ \A k \in 1..(Len(q) - 1) : toSrv'[s][k] = q[k]
    BY <1>1, <1>4, SeqFront, SeqEmpty
  <2>2. \A k \in 1..(Len(q) - 1) : k \in 1..Len(q)
    BY <1>1
  <2> QED  BY <1>1, <2>1, <2>2 DEF HasRange
<1> QED  BY <1>2, <1>3, <1>4

\* A step that begins no work of s, sends none of its buckets and keeps it abandoned.
LEMMA ListKept ==
    ASSUME NEW s \in Servers, ListFits(s),
           \A k \in DataAt(s)' : \E j \in DataAt(s) : Flight(s, k)'.idx = Flight(s, j).idx,
           Working(s)' => Working(s) /\ sX2'[s] = sX2[s] /\ sN'[s] = sN[s],
           sN'[s] \in {sN[s], NBuckets},
           sFatal[s] => sFatal'[s],
           Abandoned(s) => busy'[s] # 0 /\ ~HasRange(s)'
    PROVE  ListFits(s)'
<1>1. sN'[s] # NBuckets => sFatal'[s] \/ Abandoned(s)'
  BY DEF ListFits, Abandoned
<1>2. Working(s)' => sX2'[s] <= sN'[s]
  BY DEF ListFits
<1>3. \A k \in DataAt(s)' : Flight(s, k)'.idx < NBuckets
  BY DEF ListFits
<1> QED  BY <1>1, <1>2, <1>3 DEF ListFits

\* A server that no step has touched.
LEMMA ListSame ==
    ASSUME NEW s \in Servers, ListFits(s), Same(s), sN'[s] = sN[s]
    PROVE  ListFits(s)'
<1>1. recvQ'[s] = recvQ[s] /\ wire'[s] = wire[s]
  BY DEF Same
<1>2. DataAt(s)' = DataAt(s) /\ \A k : Flight(s, k)' = Flight(s, k)
  BY <1>1, FlightSame
<1>3. (Working(s)' <=> Working(s)) /\ (HasRange(s)' <=> HasRange(s))
  BY DEF Same, Working, HasRange
<1>4. (Abandoned(s) => busy'[s] # 0) /\ sX2'[s] = sX2[s] /\ sFatal'[s] = sFatal[s]
  BY DEF Same, Abandoned
<1>5. Abandoned(s) => ~HasRange(s)'
  BY <1>3 DEF Abandoned
<1> QED  BY <1>2, <1>3, <1>4, <1>5, ListKept

\* What a step of server s, its FileServer or its link leaves alone of the others.
LEMMA OthersSame ==
    ASSUME TypeOK, NEW s \in Servers,
           FileServerTake(s) \/ FileServerAnswer(s) \/ ServerStep(s) \/ LinkStep(s)
    PROVE  \A t \in Servers \ {s} : Same(t) /\ sN'[t] = sN[t]
<1> USE DEF Same, Goto, linkVars, histVars, serverVars
<1>0. /\ spc \in [Servers -> ServerPCs] /\ sRet \in [Servers -> {"job", "parse", "rend"}]
      /\ sNext \in [Servers -> Nat] /\ sX2 \in [Servers -> Nat]
      /\ toSrv \in [Servers -> Seq(CtlMsg)] /\ wire \in [Servers -> Seq(SrvMsg)]
      /\ sN \in [Servers -> Nat]
  BY DEF TypeOK
<1>1. CASE FileServerTake(s)
  BY <1>1 DEF FileServerTake, TypeOK
<1>2. CASE FileServerAnswer(s)
  BY <1>2 DEF FileServerAnswer, ClientSend, TypeOK
<1>3. CASE ServerJob(s) \/ ServerRequest(s)
  <2>1. PICK id \in FileReqIDs, ret \in {"job", "parse", "rend"} : RequestFile(s, id, ret)
    <3>1. CASE ServerJob(s)
      BY <3>1 DEF ServerJob, FileReqIDs
    <3>2. CASE ServerRequest(s)
      BY <3>2 DEF ServerRequest
    <3> QED  BY <1>3, <3>1, <3>2
  <2>2. \A t \in Servers \ {s} : spc'[t] = spc[t] /\ sRet'[t] = sRet[t] /\ wire'[t] = wire[t]
    BY <1>0, <2>1 DEF RequestFile, ServerSend
  <2>3. \A t \in Servers \ {s} : toSrv'[t] = toSrv[t]
    BY <1>0, <1>3 DEF ServerJob, ServerRequest
  <2>4. UNCHANGED <<busy, batch, sN, sNext, sX2, sFatal, fsv, ans, recvQ>>
    BY <1>3 DEF ServerJob, ServerRequest
  <2> QED  BY <2>2, <2>3, <2>4
<1>4. CASE \/ ServerNoJob(s) \/ ServerAnswered(s) \/ ServerFileBroken(s) \/ ServerWorldEnd(s)
           \/ ServerRendered(s)
  BY <1>4 DEF ServerNoJob, ServerAnswered, ServerFileBroken, ServerWorldEnd, ServerRendered, TypeOK
<1>5. CASE ServerRendBuckets(s) \/ ServerRangeOutside(s)
  <2>1. /\ UNCHANGED <<busy, batch, sRet, sN, sFatal, fsv, ans, recvQ, wire>>
        /\ toSrv' = [toSrv EXCEPT ![s] = Tail(@)]
        /\ \E pc : spc' = [spc EXCEPT ![s] = pc]
    BY <1>5 DEF ServerRendBuckets, ServerRangeOutside
  <2>2. \A t \in Servers \ {s} : spc'[t] = spc[t] /\ toSrv'[t] = toSrv[t]
    BY <1>0, <2>1
  <2>3. \A t \in Servers \ {s} : sNext'[t] = sNext[t] /\ sX2'[t] = sX2[t]
    BY <1>0, <1>5 DEF ServerRendBuckets, ServerRangeOutside
  <2> QED  BY <2>1, <2>2, <2>3
<1>6. CASE ServerRendDone(s) \/ ServerInterrupted(s) \/ ServerThrow(s)
  <2>1. /\ UNCHANGED <<busy, batch, sRet, sNext, sX2, sFatal, fsv, ans, recvQ, wire>>
        /\ \E pc : spc' = [spc EXCEPT ![s] = pc]
        /\ \E n : sN' = [sN EXCEPT ![s] = n] \/ sN' = sN
    <3>1. PICK r \in BOOLEAN : EndFrame(s, r)
      BY <1>6 DEF ServerRendDone, ServerInterrupted, ServerThrow
    <3>2. \E pc : spc' = [spc EXCEPT ![s] = pc]
      BY <3>1 DEF EndFrame
    <3>3. \E n : sN' = [sN EXCEPT ![s] = n] \/ sN' = sN
      BY <3>1 DEF EndFrame
    <3> QED  BY <1>6, <3>2, <3>3 DEF ServerRendDone, ServerInterrupted, ServerThrow
  <2>2. \A t \in Servers \ {s} : spc'[t] = spc[t] /\ sN'[t] = sN[t]
    BY <1>0, <2>1
  <2>3. \A t \in Servers \ {s} : toSrv'[t] = toSrv[t]
    BY <1>0, <1>6 DEF ServerRendDone, ServerInterrupted, ServerThrow
  <2> QED  BY <2>1, <2>2, <2>3
<1>7. CASE ServerSendData(s)
  <2>1. /\ UNCHANGED <<busy, batch, sRet, sX2, sN, sFatal, fsv, toSrv, ans, recvQ>>
        /\ sNext' = [sNext EXCEPT ![s] = @ + 1]
        /\ \E pc : spc' = [spc EXCEPT ![s] = pc]
    BY <1>7 DEF ServerSendData
  <2>2. \A t \in Servers \ {s} : wire'[t] = wire[t]
    BY <1>0, <1>7 DEF ServerSendData, ServerSend
  <2> QED  BY <1>0, <2>1, <2>2
<1>8. CASE LinkStep(s)
  BY <1>8 DEF LinkStep, Deliver, ClientLinkFails, ServerLinkFails, ClientTailLost,
     ServerTailLost, TypeOK
<1> QED  BY <1>1, <1>2, <1>3, <1>4, <1>5, <1>6, <1>7, <1>8 DEF ServerStep

\* The end of a frame: the list is emptied, grows by a world or is not used any more.
LEMMA EndFrameList ==
    ASSUME TypeOK, NEW s \in Servers, NEW r \in BOOLEAN, EndFrame(s, r)
    PROVE  /\ spc'[s] \in {"parse", "closed"} /\ ~Working(s)'
           /\ r => sN'[s] \in {sN[s], NBuckets}
BY DEF EndFrame, Goto, NextList, Working, FileReqIDs, TypeOK

\* What no step outside the client's main thread changes.
LEMMA OutsideClient ==
    ASSUME NEW s \in Servers,
           FileServerTake(s) \/ FileServerAnswer(s) \/ ServerStep(s) \/ LinkStep(s)
    PROVE  /\ UNCHANGED <<cpc, cFrame, cN, x1, scanI, reply, out, busy, batch, overrun, holes>>
           /\ peek' = "data" => peek = "data"
           /\ FileServerTake(s) \/ Deliver(s) \/ UNCHANGED recvQ
           /\ ClientLinkFails(s) \/ UNCHANGED cFatal
<1> USE DEF clientVars, linkVars, histVars
<1>1. CASE FileServerTake(s)
  BY <1>1 DEF FileServerTake
<1>2. CASE FileServerAnswer(s)
  BY <1>2 DEF FileServerAnswer
<1>3. CASE ServerStep(s)
  BY <1>3 DEF ServerStep, ServerJob, ServerNoJob, ServerRequest, ServerAnswered,
     ServerFileBroken, ServerWorldEnd, ServerRendBuckets, ServerRangeOutside,
     ServerRendDone, ServerInterrupted, ServerRendered, ServerThrow, ServerSendData
<1>4. CASE LinkStep(s)
  BY <1>4 DEF LinkStep, Deliver, ClientLinkFails, ServerLinkFails, ClientTailLost,
     ServerTailLost
<1> QED  BY <1>1, <1>2, <1>3, <1>4

\* Steps of server s, its FileServer and its link keep both lists fitting.
LEMMA ListsServer ==
    ASSUME IInv, NEW s \in Servers,
           FileServerTake(s) \/ FileServerAnswer(s) \/ ServerStep(s) \/ LinkStep(s)
    PROVE  ListFits(s)'
<1>0. TypeOK /\ SInv(s) /\ ListFits(s)
  BY IInvServers DEF ServersInv, IInv, ListsFit
<1>1. UNCHANGED busy
  BY OutsideClient
<1>2. CASE \/ ServerNoJob(s) \/ ServerAnswered(s) \/ ServerFileBroken(s) \/ ServerWorldEnd(s)
           \/ ServerRendered(s) \/ ServerLinkFails(s) \/ ClientLinkFails(s) \/ FileServerAnswer(s)
  <2>1. UNCHANGED <<toSrv, recvQ, wire, sX2, sN>> /\ (sFatal[s] => sFatal'[s])
    BY <1>0, <1>2 DEF ServerNoJob, ServerAnswered, ServerFileBroken, ServerWorldEnd,
       ServerRendered, ServerLinkFails, ClientLinkFails, FileServerAnswer, serverVars, linkVars,
       TypeOK
  <2>2. Working(s)' => Working(s)
    <3>1. CASE ServerNoJob(s) \/ ServerWorldEnd(s) \/ ServerRendered(s)
      BY <1>0, <3>1 DEF ServerNoJob, ServerWorldEnd, ServerRendered, Goto, TypeOK, Working, FileReqIDs
    <3>2. CASE ServerFileBroken(s) \/ ServerAnswered(s)
      <4>1. /\ spc[s] \in FileReqIDs
            /\ \E ok \in BOOLEAN : spc'[s] = AfterAnswer(s, ok)
        BY <1>0, <3>2 DEF ServerFileBroken, ServerAnswered, Goto, TypeOK
      <4>2. sRet[s] \in {"job", "parse", "rend"} /\ sRet'[s] = sRet[s]
        BY <1>0, <3>2 DEF TypeOK, ServerFileBroken, ServerAnswered
      <4> QED  BY <4>1, <4>2 DEF AfterAnswer, Working, FileReqIDs
    <3>3. CASE ServerLinkFails(s) \/ ClientLinkFails(s) \/ FileServerAnswer(s)
      <4>1. spc' = spc /\ sRet' = sRet
        BY <3>3 DEF ServerLinkFails, ClientLinkFails, FileServerAnswer, serverVars
      <4> QED  BY <4>1 DEF Working
    <3> QED  BY <1>2, <3>1, <3>2, <3>3
  <2>3. DataAt(s)' = DataAt(s) /\ \A k : Flight(s, k)' = Flight(s, k)
    BY <2>1, FlightSame
  <2>4. Abandoned(s) => busy'[s] # 0 /\ ~HasRange(s)'
    BY <1>1, <2>1 DEF Abandoned, HasRange
  <2> QED  BY <1>0, <2>1, <2>2, <2>3, <2>4, ListKept
<1>3. CASE ServerRendDone(s) \/ ServerRangeOutside(s) \/ ServerInterrupted(s)
  <2>1. UNCHANGED <<recvQ, wire, sX2, sFatal>>
    BY <1>3 DEF ServerRendDone, ServerRangeOutside, ServerInterrupted, linkVars
  <2>2. ~Working(s)' /\ sN'[s] \in {sN[s], NBuckets}
    <3>1. CASE ServerRangeOutside(s)
      BY <1>0, <3>1 DEF ServerRangeOutside, Goto, Working, FileReqIDs, TypeOK
    <3>2. CASE ServerRendDone(s) \/ ServerInterrupted(s)
      <4>1. EndFrame(s, TRUE)
        BY <3>2 DEF ServerRendDone, ServerInterrupted
      <4> QED  BY <1>0, <4>1, EndFrameList
    <3> QED  BY <1>3, <3>1, <3>2
  <2>3. DataAt(s)' = DataAt(s) /\ \A k : Flight(s, k)' = Flight(s, k)
    BY <2>1, FlightSame
  <2>4. toSrv'[s] = toSrv[s] \/ (toSrv[s] # << >> /\ toSrv'[s] = Tail(toSrv[s]))
    BY <1>0, <1>3 DEF ServerRendDone, ServerRangeOutside, ServerInterrupted, linkVars, RangeAtHead,
       TypeOK
  <2>5. Abandoned(s) => busy'[s] # 0 /\ ~HasRange(s)'
    BY <1>0, <1>1, <2>4, NoRangeComes DEF Abandoned
  <2> QED  BY <1>0, <2>1, <2>2, <2>3, <2>5, ListKept
<1>4. CASE ServerThrow(s)
  <2>1. /\ spc[s] = "rend" /\ Working(s)
        /\ UNCHANGED <<toSrv, recvQ, wire, sX2, sFatal>> /\ ~Working(s)'
    <3>1. EndFrame(s, FALSE)
      BY <1>4 DEF ServerThrow
    <3> QED  BY <1>0, <1>4, <3>1, EndFrameList DEF ServerThrow, Working, linkVars
  <2>2. DataAt(s)' = DataAt(s) /\ \A k : Flight(s, k)' = Flight(s, k)
    BY <2>1, FlightSame
  <2>3. busy'[s] # 0
    <3>1. FirstOut(s) <= sNext[s] /\ sNext[s] < batch[s].x2
      BY <1>0, <2>1 DEF SInv, OneRange, RangeInWork
    <3> QED  BY <1>0, <1>1, <3>1, Counts, ConstAssumption
  <2>4. ~HasRange(s)'
    BY <1>0, <2>1 DEF SInv, OneRange, HasRange
  <2>5. ~sFatal[s] => DataAt(s) = {}
    <3>1. ~sFatal[s] => FlightLen(s) = 0
      BY <1>0, <2>1 DEF SInv, OneRequest
    <3> QED  BY <3>1 DEF DataAt
  <2> QED  BY <1>0, <2>1, <2>2, <2>3, <2>4, <2>5 DEF ListFits, Abandoned
<1>5. CASE ServerJob(s) \/ ServerRequest(s)
  <2>1. PICK id \in FileReqIDs : /\ spc[s] \in {"job", "parse", "rend"}
                                 /\ RequestFile(s, id, spc[s])
    BY <1>5 DEF ServerJob, ServerRequest, FileReqIDs
  <2>2. UNCHANGED <<recvQ, sX2, sN, sFatal>>
    BY <1>5 DEF ServerJob, ServerRequest
  <2>3. Working(s)' => Working(s)
    BY <1>0, <2>1 DEF RequestFile, Goto, Working, FileReqIDs, TypeOK
  <2>4. DataAt(s)' = DataAt(s) /\ \A k \in DataAt(s) : Flight(s, k)' = Flight(s, k)
    BY <2>1, <2>2, RequestFlight
  <2>5. toSrv'[s] = toSrv[s] \/ (toSrv[s] # << >> /\ toSrv'[s] = Tail(toSrv[s]))
    BY <1>0, <1>5 DEF ServerJob, ServerRequest, TypeOK
  <2>6. Abandoned(s) => busy'[s] # 0 /\ ~HasRange(s)'
    BY <1>0, <1>1, <2>5, NoRangeComes DEF Abandoned
  <2> QED  BY <1>0, <2>2, <2>3, <2>4, <2>6, ListKept
<1>6. CASE ServerRendBuckets(s)
  <2>1. /\ spc[s] = "wait" /\ ~sFatal[s] /\ RangeAtHead(s) /\ Head(toSrv[s]).x2 <= sN[s]
        /\ sX2'[s] = Head(toSrv[s]).x2 /\ UNCHANGED <<recvQ, wire, sN, sFatal>>
    BY <1>0, <1>6 DEF ServerRendBuckets, TypeOK
  <2>2. HasRange(s)
    BY <1>0, <2>1, FirstCtl DEF RangeAtHead, HasRange
  <2>3. sN[s] = NBuckets
    BY <1>0, <2>1, <2>2 DEF ListFits, Abandoned
  <2>4. DataAt(s)' = DataAt(s) /\ \A k : Flight(s, k)' = Flight(s, k)
    BY <2>1, FlightSame
  <2> QED  BY <1>0, <2>1, <2>3, <2>4 DEF ListFits
<1>7. CASE ServerSendData(s)
  <2>1. /\ spc[s] = "send" /\ Working(s) /\ ~Abandoned(s)
        /\ UNCHANGED <<recvQ, sX2, sN, sFatal>>
    BY <1>7 DEF ServerSendData, Working, Abandoned
  <2>2. CASE sFatal[s]
    <3>1. wire' = wire
      BY <1>7, <2>2 DEF ServerSendData, ServerSend
    <3>2. DataAt(s)' = DataAt(s) /\ \A k : Flight(s, k)' = Flight(s, k)
      BY <2>1, <3>1, FlightSame
    <3> QED  BY <1>0, <2>1, <3>2, ListKept
  <2>3. CASE ~sFatal[s]
    <3>1. PICK f : /\ f = 0 \/ f = Shows(sNext[s], sN[s], sFrame[s])
                   /\ ServerSend(s, MsgBucketData(sNext[s], f))
      BY <1>7 DEF ServerSendData
    <3> DEFINE m == MsgBucketData(sNext[s], f)
    <3>2. m \in SrvMsg /\ wire'[s] = Append(wire[s], m) /\ m.idx = sNext[s]
      <4>1. f \in Shown /\ sNext[s] \in Nat
        BY <1>0, <3>1, ConstAssumption DEF TypeOK, Frames, Shows, Shown
      <4> QED
        BY <1>0, <2>3, <3>1, <4>1, MessageTypes DEF ServerSend, TypeOK, MsgBucketData
    <3> HIDE DEF m
    <3>3. /\ FlightLen(s)' = FlightLen(s) + 1 /\ FlightLen(s) \in Nat
          /\ \A k \in 1..FlightLen(s) : Flight(s, k)' = Flight(s, k)
          /\ \A n : n = FlightLen(s) + 1 => Flight(s, n)' = m
      BY <1>0, <2>1, <3>2, FlightAppend, Lens
    <3>4. sN[s] = NBuckets /\ sX2[s] <= NBuckets
      BY <1>0, <2>1, <2>3 DEF ListFits
    <3>5. sNext[s] < NBuckets
      <4>1. sX2[s] = batch[s].x2 /\ sNext[s] < batch[s].x2
        BY <1>0, <2>1 DEF SInv, OneRange, RangeInWork
      <4> QED  BY <1>0, <3>4, <4>1, Counts, ConstAssumption
    <3>6. ASSUME NEW k \in DataAt(s)' PROVE Flight(s, k)'.idx < NBuckets
      <4>1. k \in 1..(FlightLen(s) + 1) /\ Flight(s, k)'.id = "BUCKETDATA"
        BY <3>3 DEF DataAt
      <4>2. k \in 1..FlightLen(s) \/ k = FlightLen(s) + 1
        BY <3>3, <4>1
      <4> QED  BY <1>0, <3>2, <3>3, <3>5, <4>1, <4>2 DEF ListFits, DataAt
    <3> QED  BY <2>1, <3>4, <3>6 DEF ListFits
  <2> QED  BY <2>2, <2>3
<1>8. CASE Deliver(s) \/ FileServerTake(s)
  <2>1. UNCHANGED <<toSrv, spc, sRet, sX2, sN, sFatal>>
    BY <1>8 DEF Deliver, FileServerTake, serverVars
  <2>2. Working(s)' => Working(s)
    BY <2>1 DEF Working
  <2>3. Abandoned(s) => busy'[s] # 0 /\ ~HasRange(s)'
    BY <1>1, <2>1 DEF Abandoned, HasRange
  <2> QED  BY <1>0, <1>8, <2>1, <2>2, <2>3, DeliverFlight, ListKept
<1>9. CASE ClientTailLost(s)
  <2>1. UNCHANGED <<recvQ, wire, spc, sRet, sX2, sN, sFatal>>
    BY <1>9 DEF ClientTailLost, serverVars
  <2>2. Working(s)' => Working(s)
    BY <2>1 DEF Working
  <2>3. DataAt(s)' = DataAt(s) /\ \A k : Flight(s, k)' = Flight(s, k)
    BY <2>1, FlightSame
  <2>4. \/ toSrv'[s] = toSrv[s]
        \/ toSrv[s] # << >> /\ toSrv'[s] = SubSeq(toSrv[s], 1, Len(toSrv[s]) - 1)
    BY <1>0, <1>9 DEF ClientTailLost, TypeOK
  <2>5. Abandoned(s) => busy'[s] # 0 /\ ~HasRange(s)'
    BY <1>0, <1>1, <2>4, NoRangeComes DEF Abandoned
  <2> QED  BY <1>0, <2>1, <2>2, <2>3, <2>5, ListKept
<1>10. CASE ServerTailLost(s)
  <2>1. /\ UNCHANGED <<recvQ, toSrv, spc, sRet, sX2, sN, sFatal>> /\ wire[s] # << >>
        /\ wire'[s] = SubSeq(wire[s], 1, Len(wire[s]) - 1)
    BY <1>0, <1>10 DEF ServerTailLost, serverVars, TypeOK
  <2>2. /\ FlightLen(s) \in Nat \ {0} /\ FlightLen(s)' = FlightLen(s) - 1
        /\ \A k \in 1..(FlightLen(s) - 1) : Flight(s, k)' = Flight(s, k)
    BY <1>0, <2>1, FlightFront
  <2>3. \A k \in DataAt(s)' : k \in DataAt(s) /\ Flight(s, k)' = Flight(s, k)
    <3>1. \A k \in 1..(FlightLen(s) - 1) : k \in 1..FlightLen(s)
      BY <2>2
    <3> QED  BY <2>2, <3>1 DEF DataAt
  <2>4. Working(s)' => Working(s)
    BY <2>1 DEF Working
  <2>5. Abandoned(s) => busy'[s] # 0 /\ ~HasRange(s)'
    BY <1>1, <2>1 DEF Abandoned, HasRange
  <2> QED  BY <1>0, <2>1, <2>3, <2>4, <2>5, ListKept
<1> QED
  BY <1>2, <1>3, <1>4, <1>5, <1>6, <1>7, <1>8, <1>9, <1>10 DEF ServerStep, LinkStep

\* The client sends only to servers it awaits nothing from.
LEMMA ListIdle ==
    ASSUME IInv, NEW s \in Servers, busy[s] = 0,
           UNCHANGED <<spc, sRet, sX2, sN, sFatal, recvQ, wire>>
    PROVE  ListFits(s)'
<1>0. ListFits(s) /\ ~Abandoned(s)
  BY DEF IInv, ListsFit, Abandoned
<1>1. DataAt(s)' = DataAt(s) /\ \A k : Flight(s, k)' = Flight(s, k)
  BY FlightSame
<1>2. Working(s)' => Working(s)
  BY DEF Working
<1> QED  BY <1>0, <1>1, <1>2, ListKept

\* checkServersData takes one of the buckets under way.
LEMMA ListsStoreHead ==
    ASSUME IInv, NEW s \in Servers, StoreHead(s), recvQ[s] # << >>,
           recvQ[s][1].id = "BUCKETDATA"
    PROVE  ListsFit'
<1>0. TypeOK /\ ListsFit
  BY DEF IInv
<1>1. /\ UNCHANGED <<batch, spc, sRet, sNext, sX2, sN, sFatal, fsv, ans, wire>>
      /\ recvQ'[s] = Tail(recvQ[s])
  BY <1>0 DEF StoreHead, serverVars, TypeOK
<1>2. \A t \in Servers \ {s} : Same(t)
  BY <1>0, <1>1 DEF StoreHead, ClientSend, Same, TypeOK
<1>3. ASSUME NEW t \in Servers \ {s} PROVE ListFits(t)'
  BY <1>0, <1>1, <1>2, ListSame DEF ListsFit
<1>4. /\ FlightLen(s) \in Nat \ {0} /\ FlightLen(s)' = FlightLen(s) - 1
      /\ Flight(s, 1) = recvQ[s][1]
      /\ \A k \in 1..(FlightLen(s) - 1) : Flight(s, k)' = Flight(s, k + 1)
  BY <1>0, <1>1, FlightStore
<1>5. \A k \in DataAt(s)' : k + 1 \in DataAt(s) /\ Flight(s, k)' = Flight(s, k + 1)
  <2>1. \A k \in 1..(FlightLen(s) - 1) : k + 1 \in 1..FlightLen(s)
    BY <1>4
  <2> QED  BY <1>4, <2>1 DEF DataAt
<1>6. ~Abandoned(s)
  <2>1. 1 \in 1..FlightLen(s)
    BY <1>4
  <2> QED  BY <1>4, <2>1 DEF Abandoned, DataAt
<1>7. ListFits(s)'
  <2>1. ListFits(s) /\ (Working(s)' => Working(s))
    BY <1>0, <1>1 DEF ListsFit, Working
  <2> QED  BY <1>1, <1>5, <1>6, <2>1, ListKept
<1> QED  BY <1>3, <1>7 DEF ListsFit

(* Every step keeps what the lists of client and servers have to do with    *)
(* each other.                                                             *)
LEMMA ListsStep ==
    ASSUME IInv, [Next]_vars
    PROVE  ListsFit'
<1>0. TypeOK /\ ListsFit
  BY DEF IInv
<1>1. CASE ClientStep
  <2>1. CASE ClientStore
    <3>1. scanI \in Servers /\ recvQ[scanI] # << >> /\ recvQ[scanI][1].id = "BUCKETDATA"
      BY <2>1 DEF ClientStore, IInv, PeekedDataStays
    <3> QED  BY <3>1, <2>1, ListsStoreHead DEF ClientStore
  <2>2. CASE ClientReadReused
    <3>1. scanI \in Servers
      BY <2>2 DEF ClientReadReused, IInv, PeekedDataStays
    <3>2. recvQ[scanI] \in Seq(SrvMsg)
      BY <3>1 DEF IInv, TypeOK
    <3>3. recvQ[scanI] # << >> /\ recvQ[scanI][1].id = "BUCKETDATA"
      BY <2>2, <3>2, SeqTail DEF ClientReadReused
    <3> QED  BY <3>1, <3>3, <2>2, ListsStoreHead DEF ClientReadReused
  <2>3. CASE \/ ClientGoLocal \/ ClientLocalDone \/ ClientLocalThrow \/ ClientSkip
             \/ ClientNoPacket \/ ClientPeek \/ ClientPassOver \/ ClientReadBroken
             \/ ClientScanEnd \/ ClientRescan \/ ClientReturn \/ ClientNextWorld
             \/ ClientExit
    <3>1. \A t \in Servers : Same(t) /\ sN'[t] = sN[t]
      BY <2>3 DEF ClientGoLocal, ClientLocalDone, ClientLocalThrow, ClientSkip,
         ClientNoPacket, ClientPeek, ClientPassOver, ClientReadBroken, ClientScanEnd,
         ClientRescan, ClientReturn, ClientNextWorld, ClientExit, serverVars, linkVars,
         histVars, Same
    <3> QED  BY <1>0, <3>1, ListSame DEF ListsFit
  <2>4. CASE ClientDispatch
    <3>1. UNCHANGED <<spc, sRet, sNext, sX2, sN, sFatal, fsv, ans, recvQ, wire>>
      BY <2>4 DEF ClientDispatch, serverVars
    <3>2. PICK s \in FreeServers :
            /\ toSrv' = ClientSend(toSrv, s, MsgRendBuckes(x1, BatchEnd))
            /\ busy' = [busy EXCEPT ![s] = @ + (BatchEnd - x1)]
            /\ batch' = [batch EXCEPT ![s] = [x1 |-> x1, x2 |-> BatchEnd, frame |-> cFrame]]
      BY <2>4 DEF ClientDispatch, IsFirst
    <3>3. s \in Servers /\ busy[s] = 0
      BY <3>2 DEF FreeServers
    <3>4. \A t \in Servers \ {s} : Same(t) /\ sN'[t] = sN[t]
      BY <1>0, <3>1, <3>2, <3>3 DEF ClientSend, Same, TypeOK
    <3>5. ListFits(s)'
      BY <3>1, <3>3, ListIdle
    <3> QED  BY <1>0, <3>4, <3>5, ListSame DEF ListsFit
  <2>5. CASE ClientBye
    <3>1. /\ UNCHANGED <<busy, batch, spc, sRet, sNext, sX2, sN, sFatal, fsv, ans, recvQ, wire>>
          /\ toSrv' = [s \in Servers |->
                        IF s \in FreeServers THEN Append(toSrv[s], MsgRendDone) ELSE toSrv[s]]
      BY <2>5 DEF ClientBye, serverVars, histVars
    <3>2. ASSUME NEW t \in Servers, t \notin FreeServers PROVE ListFits(t)'
      <4>1. Same(t) /\ sN'[t] = sN[t]
        BY <3>1, <3>2 DEF Same
      <4> QED  BY <1>0, <4>1, ListSame DEF ListsFit
    <3>3. ASSUME NEW t \in FreeServers PROVE ListFits(t)'
      BY <3>1, ListIdle DEF FreeServers
    <3> QED  BY <3>2, <3>3 DEF ListsFit
  <2> QED  BY <1>1, <2>1, <2>2, <2>3, <2>4, <2>5 DEF ClientStep
<1>2. ASSUME NEW s \in Servers,
             FileServerTake(s) \/ FileServerAnswer(s) \/ ServerStep(s) \/ LinkStep(s)
      PROVE  ListsFit'
  <2>1. \A t \in Servers \ {s} : Same(t) /\ sN'[t] = sN[t]
    BY <1>0, <1>2, OthersSame
  <2>2. ListFits(s)'
    BY <1>2, ListsServer
  <2> QED  BY <1>0, <2>1, <2>2, ListSame DEF ListsFit
<1>3. CASE UNCHANGED vars
  <2>1. \A t \in Servers : Same(t) /\ sN'[t] = sN[t]
    BY <1>3 DEF vars, serverVars, linkVars, histVars, Same
  <2> QED  BY <1>0, <2>1, ListSame DEF ListsFit
<1> QED  BY <1>1, <1>2, <1>3 DEF Next

----------------------------------------------------------------------------
(* The client's part of the invariant.                                     *)

\* checkServersData stores only what is still the head of its queue.
LEMMA PeekStep ==
    ASSUME IInv, [Next]_vars
    PROVE  PeekedDataStays'
<1>1. CASE ClientStep
  <2>1. CASE ClientPeek
    <3>1. /\ scanI' = scanI /\ scanI \in Servers /\ recvQ[scanI] # << >> /\ recvQ' = recvQ
          /\ peek' = "data" => Head(recvQ[scanI]).id = "BUCKETDATA"
      BY <2>1 DEF ClientPeek, linkVars
    <3>2. recvQ[scanI] \in Seq(SrvMsg)
      BY <3>1 DEF IInv, TypeOK
    <3>3. Head(recvQ[scanI]) = recvQ[scanI][1]
      BY <3>1, <3>2, SeqTail
    <3> QED  BY <3>1, <3>3 DEF PeekedDataStays
  <2>2. CASE ~ClientPeek
    <3>1. cpc' # "read"
      BY <1>1, <2>2 DEF ClientStep, ClientDispatch, ClientGoLocal, ClientLocalDone,
         ClientLocalThrow, ClientSkip, ClientNoPacket, ClientStore, ClientPassOver,
         ClientReadReused, ClientReadBroken, ClientScanEnd, ClientBye, ClientRescan,
         ClientReturn, ClientNextWorld, ClientExit, StartScan, ScanNext, StoreHead
    <3> QED  BY <3>1 DEF PeekedDataStays
  <2> QED  BY <2>1, <2>2
<1>2. ASSUME NEW s \in Servers,
             FileServerTake(s) \/ FileServerAnswer(s) \/ ServerStep(s) \/ LinkStep(s)
      PROVE  PeekedDataStays'
  <2>0. cpc' = cpc /\ scanI' = scanI /\ (peek' = "data" => peek = "data")
    BY <1>2, OutsideClient
  <2>1. CASE UNCHANGED recvQ
    BY <2>0, <2>1 DEF IInv, PeekedDataStays
  <2>2. CASE FileServerTake(s)
    <3>1. PICK i \in DOMAIN recvQ[s] :
            /\ IsFirst(i, FileReqsIn(recvQ[s])) /\ recvQ' = [recvQ EXCEPT ![s] = DropAt(@, i)]
      BY <2>2 DEF FileServerTake
    <3>2. recvQ[s][i].id \in FileReqIDs
      BY <3>1 DEF IsFirst, FileReqsIn
    <3>3. i = 1
      BY <3>2, RequestAlone
    <3>4. recvQ[s][1].id # "BUCKETDATA"
      BY <3>2, <3>3 DEF FileReqIDs
    <3>5. \A r \in Servers \ {s} : recvQ'[r] = recvQ[r]
      BY <3>1 DEF IInv, TypeOK
    <3> QED  BY <2>0, <3>4, <3>5 DEF IInv, PeekedDataStays
  <2>3. CASE Deliver(s)
    <3>1. SUFFICES ASSUME cpc = "read", peek = "data"
                   PROVE  recvQ'[scanI] # << >> /\ recvQ'[scanI][1].id = "BUCKETDATA"
      BY <2>0 DEF IInv, PeekedDataStays
    <3>2. scanI \in Servers /\ recvQ[scanI] # << >> /\ recvQ[scanI][1].id = "BUCKETDATA"
      BY <3>1 DEF IInv, PeekedDataStays
    <3>3. CASE scanI # s
      <4>1. recvQ'[scanI] = recvQ[scanI]
        BY <2>3, <3>2, <3>3 DEF Deliver, IInv, TypeOK
      <4> QED  BY <4>1, <3>2
    <3>4. CASE scanI = s
      <4>1. recvQ[s] \in Seq(SrvMsg) /\ wire[s] \in Seq(SrvMsg) /\ wire[s] # << >>
        BY <2>3 DEF Deliver, IInv, TypeOK
      <4>2. recvQ'[s] = Append(recvQ[s], Head(wire[s]))
        BY <2>3 DEF Deliver, IInv, TypeOK
      <4>3. Head(wire[s]) \in SrvMsg /\ Len(recvQ[s]) \in Nat \ {0}
        BY <4>1, <3>2, <3>4, SeqTail
      <4>4. 1 \in 1..Len(recvQ[s])
        BY <4>3
      <4>5. /\ Append(recvQ[s], Head(wire[s]))[1] = recvQ[s][1]
            /\ Len(Append(recvQ[s], Head(wire[s]))) = Len(recvQ[s]) + 1
        BY <4>1, <4>3, <4>4, SeqAppend
      <4>6. Append(recvQ[s], Head(wire[s])) # << >>
        BY <4>3, <4>5
      <4> QED  BY <4>2, <4>5, <4>6, <3>2, <3>4
    <3> QED  BY <3>3, <3>4
  <2> QED  BY <1>2, <2>1, <2>2, <2>3, OutsideClient
<1>3. CASE UNCHANGED vars
  BY <1>3 DEF vars, clientVars, linkVars, IInv, PeekedDataStays
<1> QED  BY <1>1, <1>2, <1>3 DEF Next

\* The dispatch loop ends only when every bucket was handed out.
LEMMA HandedOutStep ==
    ASSUME IInv, [Next]_vars
    PROVE  AllHandedOut'
<1>0. x1 \in 0..cN /\ cN \in Nat /\ AllHandedOut
  BY DEF IInv, TypeOK
<1>1. CASE ClientStep
  <2>1. CASE \/ ClientDispatch \/ ClientLocalDone \/ ClientLocalThrow \/ ClientReadBroken
             \/ ClientExit
    BY <2>1 DEF ClientDispatch, ClientLocalDone, ClientLocalThrow, ClientReadBroken,
       ClientExit, StartScan, AllHandedOut
  <2>2. CASE ClientGoLocal
    BY <1>0, <2>2 DEF ClientGoLocal, AllHandedOut
  <2>3. CASE \/ ClientSkip \/ ClientNoPacket \/ ClientPeek \/ ClientStore \/ ClientPassOver
             \/ ClientReadReused
    <3>1. /\ x1' = x1 /\ reply' = reply /\ cN' = cN
          /\ cpc \in {"scan", "read"} /\ cpc' \in {"scan", "read"}
      BY <2>3 DEF ClientSkip, ClientNoPacket, ClientPeek, ClientStore, ClientPassOver,
         ClientReadReused, StoreHead, ScanNext
    <3> QED  BY <3>1, <1>0 DEF AllHandedOut
  <2>4. CASE ClientScanEnd
    <3>1. ~(x1 < cN) => x1 = cN
      BY <1>0, ConstAssumption
    <3> QED  BY <3>1, <2>4 DEF ClientScanEnd, AllHandedOut
  <2>5. CASE ClientBye
    BY <1>0, <2>5 DEF ClientBye, StartScan, AllHandedOut
  <2>6. CASE ClientRescan
    BY <1>0, <2>6 DEF ClientRescan, StartScan, AllHandedOut
  <2>7. CASE ClientReturn
    <3>1. x1' = cN /\ cN' = cN /\ cpc' = "world"
      BY <1>0, <2>7 DEF ClientReturn, AllHandedOut
    <3>2. ~overrun' => \A s \in Servers : ~Watched(s)
      BY <2>7, Zenon DEF ClientReturn
    <3>3. \A s \in Servers : Watched(s)' <=> Watched(s)
      BY <2>7 DEF ClientReturn, Watched
    <3> QED  BY <3>1, <3>2, <3>3 DEF AllHandedOut
  <2>8. CASE ClientNextWorld
    <3>1. cN' \in Nat /\ 0 < cN'
      BY <1>0, <2>8, ConstAssumption DEF ClientNextWorld, NextList
    <3> QED  BY <2>8, <3>1 DEF ClientNextWorld, AllHandedOut
  <2> QED
    BY <1>1, <2>1, <2>2, <2>3, <2>4, <2>5, <2>6, <2>7, <2>8 DEF ClientStep
<1>2. ASSUME NEW s \in Servers,
             FileServerTake(s) \/ FileServerAnswer(s) \/ ServerStep(s) \/ LinkStep(s)
      PROVE  AllHandedOut'
  <2>1. /\ cpc' = cpc /\ x1' = x1 /\ cN' = cN /\ reply' = reply /\ busy' = busy
        /\ overrun' = overrun
    BY <1>2, OutsideClient
  <2>2. \A r \in Servers : ~Watched(r) => ~Watched(r)'
    <3>1. CASE UNCHANGED cFatal
      BY <2>1, <3>1 DEF Watched
    <3>2. CASE ClientLinkFails(s)
      <4>1. cFatal \in [Servers -> BOOLEAN] /\ cFatal' = [cFatal EXCEPT ![s] = TRUE]
        BY <3>2 DEF ClientLinkFails, IInv, TypeOK
      <4>2. \A r \in Servers : cFatal[r] => cFatal'[r]
        BY <4>1, Zenon
      <4> QED  BY <2>1, <4>2 DEF Watched
    <3> QED  BY <1>2, <3>1, <3>2, OutsideClient
  <2> QED  BY <1>0, <2>1, <2>2 DEF AllHandedOut
<1>3. CASE UNCHANGED vars
  <2>1. UNCHANGED <<cpc, x1, cN, reply, busy, cFatal, overrun>>
    BY <1>3 DEF vars, clientVars, histVars
  <2> QED  BY <1>0, <2>1 DEF AllHandedOut, Watched
<1> QED  BY <1>1, <1>2, <1>3 DEF Next

\* A bucket stays accounted for while image, frame and ranges stay.
LEMMA ImageKept ==
    ASSUME ImageAccounted, UNCHANGED <<out, holes, x1, cN, cFrame, batch, busy>>
    PROVE  ImageAccounted'
BY DEF ImageAccounted, Outstanding, FirstOut, Buckets

\* dispatchToServer: the buckets of the batch are now the server's.
LEMMA ImageDispatch ==
    ASSUME IInv, ClientDispatch
    PROVE  ImageAccounted'
<1>0. TypeOK /\ ServersInv /\ ImageAccounted /\ x1 \in 0..cN
  BY IInvServers DEF IInv, TypeOK
<1>1. PICK s \in Servers :
        /\ IsFirst(s, FreeServers)
        /\ busy' = [busy EXCEPT ![s] = @ + (BatchEnd - x1)]
        /\ batch' = [batch EXCEPT ![s] = [x1 |-> x1, x2 |-> BatchEnd, frame |-> cFrame]]
  BY DEF ClientDispatch
<1>2. UNCHANGED <<out, holes, cFrame>> /\ x1' = BatchEnd /\ Buckets' = Buckets
  BY DEF ClientDispatch, Buckets
<1>3. busy[s] = 0
  BY <1>1 DEF IsFirst, FreeServers
<1>4. BatchEnd \in 1..cN /\ x1 < BatchEnd
  <2>1. x1 < cN
    BY DEF IInv, AllHandedOut, ClientDispatch
  <2> QED  BY <1>0, <2>1, BatchEndType
<1>5. /\ busy \in [Servers -> Nat]
      /\ batch \in [Servers -> [x1 : Nat, x2 : Nat, frame : 0..NFrames]]
  BY <1>0 DEF TypeOK
<1>6. busy'[s] = busy[s] + (BatchEnd - x1) /\ batch'[s].x2 = BatchEnd /\ batch'[s].frame = cFrame
  BY <1>1, <1>5
<1>7. \A t \in Servers \ {s} : busy'[t] = busy[t] /\ batch'[t] = batch[t]
  BY <1>1, <1>5
<1>8. Outstanding(s)' = x1..(BatchEnd - 1)
  <2>1. BatchEnd - (0 + (BatchEnd - x1)) = x1
    BY <1>0, <1>4, ConstAssumption
  <2> QED  BY <1>3, <1>6, <2>1 DEF Outstanding, FirstOut
<1>9. Outstanding(s) = {}
  <2>1. batch[s].x2 \in Nat
    BY <1>5
  <2>2. FirstOut(s) = batch[s].x2
    BY <2>1, <1>3, ConstAssumption DEF FirstOut
  <2> QED  BY <2>1, <2>2, ConstAssumption DEF Outstanding
<1>10. ASSUME NEW b \in Buckets
       PROVE  \/ out'[b] # 0 \/ b \in holes' \/ b >= x1'
              \/ \E t \in Servers : batch'[t].frame = cFrame' /\ b \in Outstanding(t)'
  <2>1. b \in 0..(cN - 1)
    BY DEF Buckets
  <2>2. CASE out[b] # 0 \/ b \in holes
    BY <1>2, <2>2
  <2>3. CASE b >= x1
    <3>1. b >= BatchEnd \/ b \in x1..(BatchEnd - 1)
      BY <1>0, <1>4, <2>1, <2>3, ConstAssumption
    <3> QED  BY <3>1, <1>2, <1>6, <1>8
  <2>4. CASE \E t \in Servers : batch[t].frame = cFrame /\ b \in Outstanding(t)
    <3>1. PICK t \in Servers : batch[t].frame = cFrame /\ b \in Outstanding(t)
      BY <2>4
    <3>2. t # s
      BY <3>1, <1>9
    <3>3. batch'[t] = batch[t] /\ Outstanding(t)' = Outstanding(t)
      BY <3>2, <1>7 DEF Outstanding, FirstOut
    <3> QED  BY <3>1, <3>3, <1>2
  <2> QED  BY <1>0, <2>2, <2>3, <2>4 DEF ImageAccounted
<1> QED  BY <1>2, <1>10 DEF ImageAccounted

\* checkServersData: the bucket that leaves the account is in the image.
LEMMA ImageStoreHead ==
    ASSUME IInv, NEW s \in Servers, StoreHead(s), recvQ[s] # << >>,
           recvQ[s][1].id = "BUCKETDATA"
    PROVE  ImageAccounted'
<1>0. TypeOK /\ SInv(s) /\ ImageAccounted
  BY IInvServers DEF IInv, ServersInv
<1> DEFINE m == Head(recvQ[s])
<1>1. /\ out' = [out EXCEPT ![m.idx] = m.frame] /\ busy' = [busy EXCEPT ![s] = @ - 1]
      /\ UNCHANGED <<x1, cFrame, batch>> /\ holes \subseteq holes'
      /\ m.frame = 0 => m.idx \in holes'
      /\ Buckets' = Buckets
  BY DEF StoreHead, Buckets
<1>2. /\ FlightLen(s) \in Nat \ {0} /\ Flight(s, 1) = recvQ[s][1] /\ m = recvQ[s][1]
  <2>1. recvQ'[s] = Tail(recvQ[s]) /\ wire'[s] = wire[s]
    BY <1>0 DEF StoreHead, TypeOK
  <2> QED  BY <1>0, <2>1, FlightStore
<1>3. m.idx = FirstOut(s) + 1 - 1
  <2>1. 1 \in 1..FlightLen(s)
    BY <1>2
  <2>2. 1 \in DataAt(s)
    BY <2>1, <1>2 DEF DataAt
  <2> QED  BY <2>2, <1>0, <1>2 DEF SInv, BusyAccountsFor
<1> HIDE DEF m
<1>4. /\ busy \in [Servers -> Nat] /\ out \in [Buckets -> Shown]
      /\ batch[s].x2 \in Nat
  BY <1>0 DEF TypeOK
<1>5. /\ busy'[s] = busy[s] - 1 /\ \A t \in Servers \ {s} : busy'[t] = busy[t]
      /\ \A b \in Buckets : out'[b] = IF b = m.idx THEN m.frame ELSE out[b]
  BY <1>1, <1>4
<1>6. \A b \in Outstanding(s) : b = m.idx \/ b \in Outstanding(s)'
  <2>1. FirstOut(s) = batch[s].x2 - busy[s] /\ FirstOut(s)' = batch[s].x2 - (busy[s] - 1)
    BY <1>1, <1>5 DEF FirstOut
  <2>2. busy[s] \in Nat
    BY <1>4
  <2>a. batch[s].x2 \in Int /\ busy[s] \in Int
    BY <2>2, <1>4, ConstAssumption
  <2>3. FirstOut(s) \in Int /\ FirstOut(s)' = FirstOut(s) + 1 /\ m.idx = FirstOut(s)
    BY <2>1, <2>a, <1>3
  <2>4. Outstanding(s)' = (FirstOut(s) + 1)..(batch[s].x2 - 1)
    BY <2>3, <1>1 DEF Outstanding
  <2>5. Outstanding(s) = FirstOut(s)..(batch[s].x2 - 1)
    BY DEF Outstanding
  <2>6. \A f, c \in Int : \A b \in f..c : b = f \/ b \in (f + 1)..c
    OBVIOUS
  <2>7. batch[s].x2 - 1 \in Int
    BY <2>a
  <2> QED  BY <2>3, <2>4, <2>5, <2>6, <2>7
<1>7. \A t \in Servers \ {s} : Outstanding(t)' = Outstanding(t)
  BY <1>1, <1>5 DEF Outstanding, FirstOut
<1>8. ASSUME NEW b \in Buckets
      PROVE  \/ out'[b] # 0 \/ b \in holes' \/ b >= x1'
             \/ \E t \in Servers : batch'[t].frame = cFrame' /\ b \in Outstanding(t)'
  <2>1. CASE b = m.idx
    BY <2>1, <1>1, <1>5
  <2>2. CASE b # m.idx /\ (out[b] # 0 \/ b \in holes \/ b >= x1)
    BY <2>2, <1>1, <1>5
  <2>3. CASE b # m.idx /\ \E t \in Servers : batch[t].frame = cFrame /\ b \in Outstanding(t)
    BY <2>3, <1>1, <1>6, <1>7
  <2> QED  BY <1>0, <2>1, <2>2, <2>3 DEF ImageAccounted
<1> QED  BY <1>1, <1>8 DEF ImageAccounted

\* No step loses a bucket.
LEMMA ImageStep ==
    ASSUME IInv, [Next]_vars
    PROVE  ImageAccounted'
<1>0. /\ ImageAccounted /\ TypeOK /\ x1 \in 0..cN
      /\ \A b : Shows(b, cN, cFrame) # 0
  <2>1. ImageAccounted /\ TypeOK
    BY DEF IInv
  <2>2. x1 \in 0..cN /\ cFrame \in 1..NFrames
    BY <2>1 DEF TypeOK, Frames
  <2> QED  BY <2>1, <2>2, ConstAssumption DEF Shows, Several
<1>1. CASE ClientStep
  <2>1. CASE ClientStore
    <3>1. scanI \in Servers /\ recvQ[scanI] # << >> /\ recvQ[scanI][1].id = "BUCKETDATA"
      BY <2>1 DEF ClientStore, IInv, PeekedDataStays
    <3> QED  BY <3>1, <2>1, ImageStoreHead DEF ClientStore
  <2>2. CASE ClientReadReused
    <3>1. scanI \in Servers
      BY <2>2 DEF ClientReadReused, IInv, PeekedDataStays
    <3>2. recvQ[scanI] \in Seq(SrvMsg)
      BY <3>1 DEF IInv, TypeOK
    <3>3. recvQ[scanI] # << >> /\ recvQ[scanI][1].id = "BUCKETDATA"
      BY <2>2, <3>2, SeqTail DEF ClientReadReused
    <3> QED  BY <3>1, <3>3, <2>2, ImageStoreHead DEF ClientReadReused
  <2>3. CASE \/ ClientGoLocal \/ ClientSkip \/ ClientNoPacket \/ ClientPeek
             \/ ClientPassOver \/ ClientReadBroken \/ ClientScanEnd \/ ClientBye
             \/ ClientRescan \/ ClientReturn \/ ClientExit
    <3>1. UNCHANGED <<out, holes, x1, cN, cFrame, batch, busy>>
      BY <2>3 DEF ClientGoLocal, ClientSkip, ClientNoPacket, ClientPeek, ClientPassOver,
         ClientReadBroken, ClientScanEnd, ClientBye, ClientRescan, ClientReturn,
         ClientExit, histVars
    <3> QED  BY <1>0, <3>1, ImageKept
  <2>4. CASE ClientLocalDone
    <3>1. x1' = BatchEnd /\ UNCHANGED <<cFrame, batch, busy>> /\ Buckets' = Buckets
      BY <2>4 DEF ClientLocalDone, Buckets
    <3>a. PICK failed :
             /\ out' = [b \in Buckets |->
                          IF b \in (x1..(BatchEnd - 1)) \ failed
                          THEN Shows(b, cN, cFrame) ELSE out[b]]
             /\ holes' = holes \cup failed
      BY <2>4 DEF ClientLocalDone
    <3>b. \A b \in Buckets :
             /\ out[b] # 0 \/ b \in holes => out'[b] # 0 \/ b \in holes'
             /\ b \in x1..(BatchEnd - 1) => out'[b] # 0 \/ b \in holes'
      BY <1>0, <3>a
    <3>2. BatchEnd \in 1..cN /\ x1 < BatchEnd
      <4>1. x1 < cN
        BY <2>4 DEF IInv, AllHandedOut, ClientLocalDone
      <4> QED  BY <1>0, <4>1, BatchEndType
    <3>3. \A b \in Buckets : b >= x1 => b >= BatchEnd \/ b \in x1..(BatchEnd - 1)
      BY <1>0, <3>2, ConstAssumption DEF Buckets
    <3>4. \A t \in Servers : Outstanding(t)' = Outstanding(t)
      BY <3>1 DEF Outstanding, FirstOut
    <3>5. ASSUME NEW b \in Buckets
          PROVE  \/ out'[b] # 0 \/ b \in holes' \/ b >= x1'
                 \/ \E t \in Servers : batch'[t].frame = cFrame' /\ b \in Outstanding(t)'
      <4>1. CASE out[b] # 0 \/ b \in holes  BY <4>1, <3>b
      <4>2. CASE b >= x1  BY <4>2, <3>1, <3>3, <3>b
      <4>3. CASE \E t \in Servers : batch[t].frame = cFrame /\ b \in Outstanding(t)
        BY <4>3, <3>1, <3>4
      <4> QED  BY <1>0, <4>1, <4>2, <4>3 DEF ImageAccounted
    <3> QED  BY <3>1, <3>5 DEF ImageAccounted
  <2>5. CASE ClientLocalThrow
    <3>1. PICK D : out' = [b \in Buckets |-> IF b \in D THEN Shows(b, cN, cFrame) ELSE out[b]]
      BY <2>5, Zenon DEF ClientLocalThrow
    <3>2. UNCHANGED <<x1, cFrame, batch, busy, holes>> /\ Buckets' = Buckets
      BY <2>5 DEF ClientLocalThrow, Buckets
    <3>3. \A t \in Servers : Outstanding(t)' = Outstanding(t)
      BY <3>2 DEF Outstanding, FirstOut
    <3>4. \A b \in Buckets : out[b] # 0 => out'[b] # 0
      BY <1>0, <3>1
    <3> QED  BY <1>0, <3>2, <3>3, <3>4 DEF ImageAccounted
  <2>6. CASE ClientNextWorld
    <3>1. x1' = 0
      BY <2>6 DEF ClientNextWorld
    <3>2. \A b \in Buckets' : b >= x1'
      BY <3>1 DEF Buckets
    <3> QED  BY <3>2 DEF ImageAccounted
  <2> QED
    BY <1>1, <2>1, <2>2, <2>3, <2>4, <2>5, <2>6, ImageDispatch DEF ClientStep
<1>2. CASE \E s \in Servers :
              FileServerTake(s) \/ FileServerAnswer(s) \/ ServerStep(s) \/ LinkStep(s)
  <2>1. UNCHANGED <<out, holes, x1, cN, cFrame, batch, busy>>
    BY <1>2, OutsideClient
  <2> QED  BY <1>0, <2>1, ImageKept
<1>3. CASE UNCHANGED vars
  <2>1. UNCHANGED <<out, holes, x1, cN, cFrame, batch, busy>>
    BY <1>3 DEF vars, clientVars, histVars
  <2> QED  BY <1>0, <2>1, ImageKept
<1> QED  BY <1>1, <1>2, <1>3 DEF Next

----------------------------------------------------------------------------
(* The results.                                                            *)

\* Every step of clients, servers and links keeps the inductive invariant.
THEOREM IInvStep == IInv /\ [Next]_vars => IInv'
<1> SUFFICES ASSUME IInv, [Next]_vars PROVE IInv'
  OBVIOUS
<1>1. TypeOK'
  BY TypeStep
<1>2. ServersInv'
  BY ServersStep
<1>3. QueueUnmixed' /\ BusyAccounts' /\ OneRangeAtATime' /\ OneRequestAtATime'
  BY <1>2 DEF ServersInv, SInv, QueueUnmixed, BusyAccounts, OneRangeAtATime,
     OneRequestAtATime
<1> QED  BY <1>1, <1>3, PeekStep, ListsStep, ImageStep, HandedOutStep DEF IInv

\* The inductive invariant holds in every reachable state of the network render.
THEOREM Invariance == Spec => []IInv
<1>1. Init => IInv
  BY InitIInv
<1>2. IInv /\ [Next]_vars => IInv'
  BY IInvStep
<1> QED  BY <1>1, <1>2, PTL DEF Spec

\* The state keeps to its types in every run of the network render.
THEOREM TypeCorrect == Spec => []TypeOK
<1>1. IInv => TypeOK
  BY DEF IInv
<1> QED  BY <1>1, Invariance, PTL

\* File requests and bucket data of one server are never under way together.
THEOREM QueuesUnmixed == Spec => []QueueUnmixed
<1>1. IInv => QueueUnmixed
  BY DEF IInv
<1> QED  BY <1>1, Invariance, PTL

(* mBusyCnt agrees with the buckets under way: checkServersData never takes *)
(* it below zero and never ignores a bucket message.                       *)
THEOREM BusyAccounted == Spec => []BusyAccounts
<1>1. IInv => BusyAccounts
  BY DEF IInv
<1> QED  BY <1>1, Invariance, PTL

\* dispatchToServer never gives a server a second range before the first is stored.
THEOREM OneRangeOnly == Spec => []OneRangeAtATime
<1>1. IInv => OneRangeAtATime
  BY DEF IInv
<1> QED  BY <1>1, Invariance, PTL

\* GrabFile and FileExists never take an answer to another request.
THEOREM OneRequestOnly == Spec => []OneRequestAtATime
<1>1. IInv => OneRequestAtATime
  BY DEF IInv
<1> QED  BY <1>1, Invariance, PTL

\* No thread removes a BUCKETDATA packet between checkServersData's peek and its store.
THEOREM PeekedStays == Spec => []PeekedDataStays
<1>1. IInv => PeekedDataStays
  BY DEF IInv
<1> QED  BY <1>1, Invariance, PTL

\* Render loses no bucket of the frame, whatever links fail and whoever throws.
THEOREM NoBucketLost == Spec => []ImageAccounted
<1>1. IInv => ImageAccounted
  BY DEF IInv
<1> QED  BY <1>1, Invariance, PTL

(* When Render returns without having passed a server over, what is missing *)
(* from the image was with servers whose link failed.                      *)
THEOREM CompleteImage == Spec => []ImageComplete
<1>1. IInv => ImageComplete
  <2> SUFFICES ASSUME IInv, cpc = "world", ~overrun, NEW b \in Buckets, out[b] = 0,
                      b \notin holes
               PROVE  \E s \in Servers : cFatal[s] /\ b \in Outstanding(s)
    BY DEF ImageComplete
  <2>1. x1 = cN /\ \A s \in Servers : ~Watched(s)
    BY DEF IInv, AllHandedOut
  <2>2. ~(b >= x1)
    <3>1. cN \in Nat
      BY DEF IInv, TypeOK
    <3> QED  BY <2>1, <3>1 DEF Buckets
  <2>3. PICK s \in Servers : b \in Outstanding(s)
    BY <2>2 DEF IInv, ImageAccounted
  <2>4. busy[s] # 0
    <3>1. batch[s].x2 \in Nat /\ FirstOut(s) = batch[s].x2 - busy[s]
      BY Counts DEF IInv
    <3>2. busy[s] = 0 => FirstOut(s) = batch[s].x2
      BY <3>1, ConstAssumption
    <3>3. \A x \in Int : x..(x - 1) = {}
      OBVIOUS
    <3>4. batch[s].x2 \in Int
      BY <3>1, ConstAssumption
    <3> QED  BY <2>3, <3>2, <3>3, <3>4 DEF Outstanding
  <2>5. cFatal[s]
    BY <2>1, <2>4 DEF Watched
  <2> QED  BY <2>3, <2>5
<1> QED  BY <1>1, Invariance, PTL

----------------------------------------------------------------------------
(* RENDDONE messages counted.                                              *)

DonesAt(q) == {i \in DOMAIN q : q[i].id = "RENDDONE"}

\* There are finitely many RENDDONE messages in a queue.
LEMMA DonesFinite ==
    ASSUME NEW q \in Seq(CtlMsg)
    PROVE  /\ IsFiniteSet(DonesAt(q)) /\ RendDonesIn(q) = Cardinality(DonesAt(q))
           /\ RendDonesIn(q) \in Nat /\ DonesAt(q) \subseteq 1..Len(q)
<1>1. Len(q) \in Nat /\ DOMAIN q = 1..Len(q)
  BY SeqEmpty
<1>2. IsFiniteSet(1..Len(q))
  BY <1>1, FS_Interval
<1>3. DonesAt(q) \in SUBSET (1..Len(q))
  BY <1>1 DEF DonesAt
<1>4. IsFiniteSet(DonesAt(q))
  BY <1>2, <1>3, FS_Subset
<1>5. RendDonesIn(q) = Cardinality(DonesAt(q))
  BY DEF RendDonesIn, DonesAt
<1> QED  BY <1>3, <1>4, <1>5, FS_CardinalityType

\* No message, no RENDDONE.
LEMMA DonesEmpty == RendDonesIn(<< >>) = 0
<1>1. {i \in DOMAIN << >> : (<< >>)[i].id = "RENDDONE"} = {}
  OBVIOUS
<1> QED  BY <1>1, FS_EmptySet DEF RendDonesIn

\* A message sent to a server adds one RENDDONE exactly if it is one.
LEMMA DonesAppend ==
    ASSUME NEW q \in Seq(CtlMsg), NEW m \in CtlMsg
    PROVE  RendDonesIn(Append(q, m))
             = RendDonesIn(q) + (IF m.id = "RENDDONE" THEN 1 ELSE 0)
<1> DEFINE a == Append(q, m)
           n == Len(q) + 1
<1>1. /\ a \in Seq(CtlMsg) /\ Len(a) = n /\ Len(q) \in Nat /\ a[n] = m
      /\ \A k \in 1..Len(q) : a[k] = q[k]
  BY SeqAppend, SeqEmpty
<1>2. DOMAIN a = 1..n /\ DOMAIN q = 1..Len(q)
  BY <1>1, SeqEmpty
<1>3. 1..n = (1..Len(q)) \cup {n} /\ n \notin 1..Len(q)
  BY <1>1
<1>4. IsFiniteSet(DonesAt(q)) /\ RendDonesIn(q) = Cardinality(DonesAt(q))
      /\ RendDonesIn(q) \in Nat /\ RendDonesIn(a) = Cardinality(DonesAt(a))
  BY <1>1, DonesFinite
<1> HIDE DEF a, n
<1>5. DonesAt(a) = IF m.id = "RENDDONE" THEN DonesAt(q) \cup {n} ELSE DonesAt(q)
  BY <1>1, <1>2, <1>3 DEF DonesAt
<1>6. n \notin DonesAt(q)
  BY <1>2, <1>3 DEF DonesAt
<1>7. Cardinality(DonesAt(q) \cup {n}) = Cardinality(DonesAt(q)) + 1
  BY <1>4, <1>6, FS_AddElement
<1> QED  BY <1>4, <1>5, <1>7 DEF a

\* A message read from the head takes one RENDDONE away exactly if it is one.
LEMMA DonesTail ==
    ASSUME NEW q \in Seq(CtlMsg), q # << >>
    PROVE  RendDonesIn(q)
             = RendDonesIn(Tail(q)) + (IF Head(q).id = "RENDDONE" THEN 1 ELSE 0)
<1> DEFINE r == Tail(q)
           S == DonesAt(q)
           T == DonesAt(r)
           f == [i \in T |-> i + 1]
<1>1. /\ r \in Seq(CtlMsg) /\ Len(r) = Len(q) - 1 /\ Head(q) = q[1] /\ Len(q) \in Nat \ {0}
      /\ \A k \in 1..(Len(q) - 1) : r[k] = q[k + 1]
  BY SeqTail
<1>2. DOMAIN r = 1..(Len(q) - 1) /\ DOMAIN q = 1..Len(q)
  BY <1>1, SeqEmpty
<1>3. /\ IsFiniteSet(S) /\ RendDonesIn(q) = Cardinality(S)
      /\ IsFiniteSet(T) /\ RendDonesIn(r) = Cardinality(T) /\ Cardinality(T) \in Nat
  BY <1>1, DonesFinite
<1> HIDE DEF r
<1>4. f \in Bijection(T, S \ {1})
  <2>1. \A i \in T : i \in 1..(Len(q) - 1) /\ i + 1 \in S \ {1}
    BY <1>1, <1>2 DEF DonesAt
  <2>2. f \in [T -> S \ {1}]
    BY <2>1
  <2>3. \A i, j \in T : f[i] = f[j] => i = j
    <3>1. \A i, j \in 1..(Len(q) - 1) : i + 1 = j + 1 => i = j
      BY <1>1
    <3> QED  BY <2>1, <3>1
  <2>4. \A j \in S \ {1} : \E i \in T : f[i] = j
    <3>1. SUFFICES ASSUME NEW j \in S \ {1} PROVE j - 1 \in T /\ (j - 1) + 1 = j
      OBVIOUS
    <3>2. j \in 1..Len(q) /\ j # 1 /\ q[j].id = "RENDDONE"
      BY <1>2 DEF DonesAt
    <3>3. j - 1 \in 1..(Len(q) - 1) /\ (j - 1) + 1 = j
      BY <1>1, <3>2
    <3> QED  BY <1>1, <1>2, <3>2, <3>3 DEF DonesAt
  <2> QED  BY <2>2, <2>3, <2>4 DEF Bijection, Injection, Surjection, IsInjective
<1>5. Cardinality(S \ {1}) = Cardinality(T)
  BY <1>3, <1>4, FS_Bijection DEF ExistsBijection
<1>6. Cardinality(S \ {1}) = IF 1 \in S THEN Cardinality(S) - 1 ELSE Cardinality(S)
  BY <1>3, FS_RemoveElement
<1>7. 1 \in S <=> Head(q).id = "RENDDONE"
  BY <1>1, <1>2 DEF DonesAt
<1>8. Cardinality(S) \in Nat
  BY <1>3, FS_CardinalityType
<1> QED  BY <1>3, <1>5, <1>6, <1>7, <1>8 DEF r
----------------------------------------------------------------------------
(* The frame invariant, server by server.                                  *)

\* The numbers the frame invariant relates.
LEMMA FrameTypes ==
    ASSUME TypeOK, NEW s \in Servers
    PROVE  /\ sFrame[s] \in Nat /\ cFrame \in Nat /\ toSrv[s] \in Seq(CtlMsg)
           /\ RendDonesIn(toSrv[s]) \in Nat /\ FrameDue(s) \in Nat
<1>1. sFrame[s] \in 1..NFrames /\ cFrame \in 1..NFrames /\ toSrv[s] \in Seq(CtlMsg)
  BY DEF TypeOK, Frames
<1>2. RendDonesIn(toSrv[s]) \in Nat
  BY <1>1, DonesFinite
<1> QED  BY <1>1, <1>2, ConstAssumption DEF FrameDue

\* All that FrameInvOf reads about server t has kept its value.
FrameSame(t) ==
    /\ busy'[t] = busy[t] /\ batch'[t] = batch[t] /\ spc'[t] = spc[t]
    /\ sRet'[t] = sRet[t] /\ sFrame'[t] = sFrame[t] /\ sFatal'[t] = sFatal[t]
    /\ toSrv'[t] = toSrv[t] /\ recvQ'[t] = recvQ[t] /\ wire'[t] = wire[t]

\* What follows from FrameSame for the notions the invariant is made of.
LEMMA FrameSameParts ==
    ASSUME NEW t \in Servers, FrameSame(t)
    PROVE  /\ FrameDue(t)' = FrameDue(t) /\ (HasRange(t)' <=> HasRange(t))
           /\ (Working(t)' <=> Working(t)) /\ (Abandoned(t)' <=> Abandoned(t))
           /\ (Short(t)' <=> Short(t))
           /\ DataAt(t)' = DataAt(t) /\ (DataOfFrame(t)' <=> DataOfFrame(t))
<1>1. recvQ'[t] = recvQ[t] /\ wire'[t] = wire[t]
  BY DEF FrameSame
<1>2. /\ \A k : Flight(t, k)' = Flight(t, k)
      /\ DataAt(t)' = DataAt(t)
  BY <1>1, FlightSame
<1>3. FrameDue(t)' = FrameDue(t)
  BY DEF FrameSame, FrameDue
<1>4. HasRange(t)' <=> HasRange(t)
  BY DEF FrameSame, HasRange
<1>5. Working(t)' <=> Working(t)
  BY DEF FrameSame, Working
<1>6. (Abandoned(t)' <=> Abandoned(t)) /\ (Short(t)' <=> Short(t))
  BY <1>2, <1>4, <1>5 DEF FrameSame, Abandoned, Short
<1>7. DataOfFrame(t)' <=> DataOfFrame(t)
  BY <1>2, <1>5 DEF FrameSame, DataOfFrame
<1> QED  BY <1>2, <1>3, <1>4, <1>5, <1>6, <1>7

(* A step of the client that leaves server t alone: what it may do to its   *)
(* own program counter and frame.                                          *)
LEMMA FrameClient ==
    ASSUME NEW t \in Servers, FrameInvOf(t), FrameSame(t), cFatal'[t] = cFatal[t],
           cpc = "end" => cpc' = "end",
           overrun => overrun',
           ~overrun' /\ busy[t] # 0 => cFatal[t] \/ cFrame' = cFrame,
           ~overrun' /\ cpc' = "read" /\ scanI' = t =>
               Watched(t) /\ cFrame' = cFrame,
           ~overrun' /\ busy[t] = 0 /\ ~cFatal[t] /\ cpc' # "end" =>
               cFrame' + (IF Released(t)' THEN 1 ELSE 0)
                   = cFrame + (IF Released(t) THEN 1 ELSE 0)
    PROVE  FrameInvOf(t)'
<1> DEFINE D == FrameDue(t)
           R == cFrame + (IF Released(t) THEN 1 ELSE 0)
<1>0. /\ FrameDue(t)' = FrameDue(t) /\ (Abandoned(t)' <=> Abandoned(t))
      /\ (Short(t)' <=> Short(t)) /\ (DataOfFrame(t)' <=> DataOfFrame(t))
  BY FrameSameParts
<1>1. JobFirst(t)'
  BY DEF FrameInvOf, JobFirst, FrameSame
<1>2. SUFFICES ASSUME ~overrun'
               PROVE  RangeOfFrame(t)' /\ FrameBalance(t)' /\ WhyShort(t)' /\ DataOfFrame(t)'
  BY <1>1 DEF FrameInvOf
<1>3. ~overrun /\ RangeOfFrame(t) /\ FrameBalance(t) /\ WhyShort(t) /\ DataOfFrame(t)
  BY <1>2 DEF FrameInvOf
<1>4. RangeOfFrame(t)'
  BY <1>2, <1>3 DEF RangeOfFrame, FrameSame, Watched
<1>5. FrameBalance(t)'
  BY <1>0, <1>2, <1>3 DEF FrameBalance, FrameSame
<1>6. WhyShort(t)'
  BY <1>0, <1>3 DEF WhyShort, FrameSame
<1> QED  BY <1>0, <1>3, <1>4, <1>5, <1>6

(* A step of server s, of its FileServer thread or of its link: what it has *)
(* to show of s itself.                                                    *)
LEMMA FrameServer ==
    ASSUME NEW s \in Servers, FrameInvOf(s), JobFirst(s)',
           UNCHANGED <<cpc, cFrame, scanI, reply, overrun>>,
           busy'[s] = busy[s], batch'[s] = batch[s],
           cFatal[s] => cFatal'[s], sFatal[s] => sFatal'[s],
           spc[s] = "closed" => spc'[s] = "closed",
           ~overrun => DataOfFrame(s)',
           ~overrun /\ ~sFatal'[s] /\ spc'[s] # "closed" =>
               \/ FrameDue(s)' = FrameDue(s) /\ (Abandoned(s) => Abandoned(s)')
               \/ Abandoned(s)'
               \/ busy[s] = 0 /\ (cFatal'[s] \/ cpc = "end"),
           ~overrun /\ Short(s)' =>
               \/ Short(s) \/ "serverThrow" \in Faults
               \/ cFatal'[s] \/ sFatal'[s] \/ spc'[s] = "closed" \/ cpc = "end"
    PROVE  FrameInvOf(s)'
<1>1. SUFFICES ASSUME ~overrun
               PROVE  RangeOfFrame(s)' /\ FrameBalance(s)' /\ WhyShort(s)'
  BY DEF FrameInvOf
<1>2. RangeOfFrame(s) /\ FrameBalance(s) /\ WhyShort(s)
  BY <1>1 DEF FrameInvOf
<1>3. RangeOfFrame(s)'
  BY <1>2 DEF RangeOfFrame
<1>4. Released(s)' <=> Released(s)
  BY DEF Released
<1>5. WhyShort(s)'
  BY <1>1, <1>2 DEF WhyShort
<1>6. FrameBalance(s)'
  <2>1. Abandoned(s)' => busy[s] # 0
    BY DEF Abandoned
  <2> QED  BY <1>1, <1>2, <1>4, <2>1 DEF FrameBalance
<1> QED  BY <1>3, <1>5, <1>6

\* Servers a step does not touch keep the frame invariant.
LEMMA FrameOthers ==
    ASSUME NEW t \in Servers, FrameInvOf(t), FrameSame(t), cFatal'[t] = cFatal[t],
           UNCHANGED <<cpc, cFrame, scanI, reply, overrun>>
    PROVE  FrameInvOf(t)'
<1>1. /\ FrameDue(t)' = FrameDue(t) /\ (Abandoned(t)' <=> Abandoned(t))
      /\ (Short(t)' <=> Short(t)) /\ (DataOfFrame(t)' <=> DataOfFrame(t))
  BY FrameSameParts
<1>2. JobFirst(t)' /\ (RangeOfFrame(t)' <=> RangeOfFrame(t))
  BY DEF FrameInvOf, JobFirst, FrameSame, RangeOfFrame
<1>3. Released(t)' <=> Released(t)
  BY DEF Released, FrameSame
<1>4. (FrameBalance(t)' <=> FrameBalance(t)) /\ (WhyShort(t)' <=> WhyShort(t))
  BY <1>1, <1>3 DEF FrameBalance, WhyShort, FrameSame
<1> QED  BY <1>1, <1>2, <1>4 DEF FrameInvOf

\* Steps that move nothing but program counters and link failures of s.
LEMMA FrameQuiet ==
    ASSUME NEW s \in Servers, FrameInvOf(s),
           UNCHANGED <<cpc, cFrame, scanI, reply, overrun>>,
           busy'[s] = busy[s], batch'[s] = batch[s], sFrame'[s] = sFrame[s],
           toSrv'[s] = toSrv[s], recvQ'[s] = recvQ[s], wire'[s] = wire[s],
           cFatal[s] => cFatal'[s], sFatal[s] => sFatal'[s],
           spc[s] = "closed" => spc'[s] = "closed",
           spc'[s] = "job" => spc[s] = "job", Working(s)' <=> Working(s)
    PROVE  FrameInvOf(s)'
<1>1. /\ \A k : Flight(s, k)' = Flight(s, k)
      /\ DataAt(s)' = DataAt(s)
  BY FlightSame
<1>2. FrameDue(s)' = FrameDue(s) /\ (HasRange(s)' <=> HasRange(s))
  BY DEF FrameDue, HasRange
<1>3. (Abandoned(s)' <=> Abandoned(s)) /\ (Short(s)' <=> Short(s))
  BY <1>1, <1>2 DEF Abandoned, Short
<1>4. JobFirst(s)'
  BY DEF FrameInvOf, JobFirst
<1>5. ~overrun => DataOfFrame(s)'
  BY <1>1 DEF FrameInvOf, DataOfFrame
<1> QED  BY <1>2, <1>3, <1>4, <1>5, FrameServer

\* What such a step leaves alone of the other servers.
LEMMA FrameQuietSteps ==
    ASSUME IInv, FrameInv, NEW s \in Servers,
           \/ ServerNoJob(s) \/ ServerFileBroken(s) \/ ServerWorldEnd(s)
           \/ ServerRendered(s) \/ ServerAnswered(s)
           \/ ServerLinkFails(s) \/ ClientLinkFails(s) \/ FileServerAnswer(s)
    PROVE  \A t \in Servers : FrameInvOf(t)'
<1>0. TypeOK /\ \A t \in Servers : FrameInvOf(t)
  BY DEF IInv, FrameInv
<1>1. UNCHANGED <<cpc, cFrame, scanI, reply, overrun, busy, batch, sRet, sFrame, toSrv, recvQ, wire>>
  BY DEF ServerNoJob, ServerFileBroken, ServerWorldEnd, ServerRendered, ServerAnswered,
     ServerLinkFails, ClientLinkFails, FileServerAnswer, clientVars, serverVars, linkVars, histVars
<1>2. \A t \in Servers \ {s} : spc'[t] = spc[t] /\ sFatal'[t] = sFatal[t] /\ cFatal'[t] = cFatal[t]
  BY <1>0 DEF ServerNoJob, ServerFileBroken, ServerWorldEnd, ServerRendered, ServerAnswered,
     ServerLinkFails, ClientLinkFails, FileServerAnswer, serverVars, Goto, TypeOK
<1>3. ASSUME NEW t \in Servers \ {s} PROVE FrameInvOf(t)'
  BY <1>0, <1>1, <1>2, FrameOthers DEF FrameSame
<1>4. (cFatal[s] => cFatal'[s]) /\ (sFatal[s] => sFatal'[s])
  BY <1>0 DEF ServerNoJob, ServerFileBroken, ServerWorldEnd, ServerRendered, ServerAnswered,
     ServerLinkFails, ClientLinkFails, FileServerAnswer, serverVars, TypeOK
<1>5. /\ spc[s] = "closed" => spc'[s] = "closed"
      /\ spc'[s] = "job" => spc[s] = "job"
      /\ Working(s)' <=> Working(s)
  <2>1. CASE ServerNoJob(s) \/ ServerWorldEnd(s) \/ ServerRendered(s)
    BY <1>0, <1>1, <2>1 DEF ServerNoJob, ServerWorldEnd, ServerRendered, Goto, TypeOK, Working, FileReqIDs
  <2>2. CASE ServerFileBroken(s) \/ ServerAnswered(s)
    <3>1. /\ spc[s] \in FileReqIDs
          /\ \E ok \in BOOLEAN : spc'[s] = AfterAnswer(s, ok)
      BY <1>0, <2>2 DEF ServerFileBroken, ServerAnswered, Goto, TypeOK
    <3>2. sRet[s] \in {"job", "parse", "rend"} /\ sRet'[s] = sRet[s]
      BY <1>0, <1>1 DEF TypeOK
    <3> QED  BY <3>1, <3>2 DEF AfterAnswer, Working, FileReqIDs
  <2>3. CASE ServerLinkFails(s) \/ ClientLinkFails(s) \/ FileServerAnswer(s)
    <3>1. spc' = spc
      BY <2>3 DEF ServerLinkFails, ClientLinkFails, FileServerAnswer, serverVars
    <3> QED  BY <1>1, <3>1 DEF Working
  <2> QED  BY <2>1, <2>2, <2>3
<1>6. FrameInvOf(s)'
  BY <1>0, <1>1, <1>4, <1>5, FrameQuiet
<1> QED  BY <1>3, <1>6

\* Reading the head of its queue: the ranges and the frame a server is due.
LEMMA FrameReads ==
    ASSUME TypeOK, NEW s \in Servers, toSrv[s] # << >>, toSrv'[s] = Tail(toSrv[s])
    PROVE  /\ RendDonesIn(toSrv[s]) \in Nat /\ RendDonesIn(toSrv'[s]) \in Nat
           /\ RendDonesIn(toSrv[s]) = RendDonesIn(toSrv'[s])
                + (IF toSrv[s][1].id = "RENDDONE" THEN 1 ELSE 0)
           /\ Head(toSrv[s]) = toSrv[s][1]
           /\ toSrv[s][1].id # "RENDBUCKETS" => (HasRange(s)' <=> HasRange(s))
<1> DEFINE q == toSrv[s]
<1>1. q \in Seq(CtlMsg) /\ Tail(q) \in Seq(CtlMsg) /\ Head(q) = q[1]
      /\ Len(q) \in Nat \ {0} /\ Len(Tail(q)) = Len(q) - 1
      /\ \A k \in 1..(Len(q) - 1) : Tail(q)[k] = q[k + 1]
  BY SeqTail DEF TypeOK
<1>2. DOMAIN q = 1..Len(q) /\ DOMAIN Tail(q) = 1..(Len(q) - 1)
  BY <1>1, SeqEmpty
<1>3. RendDonesIn(q) = RendDonesIn(Tail(q)) + (IF q[1].id = "RENDDONE" THEN 1 ELSE 0)
  BY <1>1, DonesTail
<1>4. RendDonesIn(q) \in Nat /\ RendDonesIn(Tail(q)) \in Nat
  BY <1>1, DonesFinite
<1>5. ASSUME q[1].id # "RENDBUCKETS" PROVE HasRange(s)' <=> HasRange(s)
  <2>1. ASSUME NEW k \in DOMAIN q, q[k].id = "RENDBUCKETS"
        PROVE  k - 1 \in DOMAIN Tail(q) /\ Tail(q)[k - 1] = q[k]
    <3>1. k \in 1..Len(q) /\ k # 1
      BY <1>2, <1>5, <2>1
    <3>2. k - 1 \in 1..(Len(q) - 1) /\ (k - 1) + 1 = k
      BY <1>1, <3>1
    <3> QED  BY <1>1, <1>2, <3>2
  <2>2. ASSUME NEW k \in DOMAIN Tail(q), Tail(q)[k].id = "RENDBUCKETS"
        PROVE  k + 1 \in DOMAIN q /\ q[k + 1].id = "RENDBUCKETS"
    <3>1. k \in 1..(Len(q) - 1) /\ k + 1 \in 1..Len(q)
      BY <1>1, <1>2
    <3> QED  BY <1>1, <1>2, <2>2, <3>1
  <2>3. HasRange(s) => HasRange(s)'
    BY <2>1 DEF HasRange
  <2>4. HasRange(s)' => HasRange(s)
    BY <2>2 DEF HasRange
  <2> QED  BY <2>3, <2>4
<1> QED  BY <1>1, <1>3, <1>4, <1>5

\* Where the end of a frame leaves server s, and what it leaves alone.
LEMMA EndFrameMoves ==
    ASSUME TypeOK, NEW s \in Servers, NEW r \in BOOLEAN, EndFrame(s, r)
    PROVE  /\ \A t \in Servers \ {s} : spc'[t] = spc[t] /\ sFrame'[t] = sFrame[t]
           /\ spc'[s] \in {"parse", "closed"}
           /\ spc'[s] # "closed" => sFrame'[s] = sFrame[s] + 1
BY DEF EndFrame, Goto, TypeOK

\* An interrupted or thrown Render, or one that got its RENDDONE, ends the frame.
LEMMA FrameEnds ==
    ASSUME IInv, FrameInv, NEW s \in Servers,
           ServerRendDone(s) \/ ServerInterrupted(s) \/ ServerThrow(s)
    PROVE  \A t \in Servers : FrameInvOf(t)'
<1>0. /\ TypeOK /\ SInv(s) /\ \A t \in Servers : FrameInvOf(t)
      /\ (\E r \in BOOLEAN : EndFrame(s, r)) /\ toSrv \in [Servers -> Seq(CtlMsg)]
      /\ sFrame[s] \in Nat
  <2>1. \E r \in BOOLEAN : EndFrame(s, r)
    BY DEF ServerRendDone, ServerInterrupted, ServerThrow
  <2>2. TypeOK /\ SInv(s) /\ \A t \in Servers : FrameInvOf(t)
    BY IInvServers DEF FrameInv, ServersInv
  <2>3. toSrv \in [Servers -> Seq(CtlMsg)]
    BY <2>2 DEF TypeOK
  <2> QED  BY <2>1, <2>2, <2>3, FrameTypes
<1>1. UNCHANGED <<cpc, cFrame, scanI, reply, overrun, busy, batch, sRet, cFatal, sFatal, recvQ, wire>>
  BY DEF ServerRendDone, ServerInterrupted, ServerThrow, clientVars, linkVars, histVars
<1>2. /\ \A t \in Servers \ {s} : spc'[t] = spc[t] /\ sFrame'[t] = sFrame[t]
      /\ spc'[s] \in {"parse", "closed"}
      /\ spc'[s] # "closed" => sFrame'[s] = sFrame[s] + 1
  BY <1>0, EndFrameMoves
<1>3. \A t \in Servers \ {s} : toSrv'[t] = toSrv[t]
  BY <1>0 DEF ServerRendDone, ServerInterrupted, ServerThrow, linkVars
<1>4. ASSUME NEW t \in Servers \ {s} PROVE FrameInvOf(t)'
  BY <1>0, <1>1, <1>2, <1>3, FrameOthers DEF FrameSame
<1>5. ~Working(s)' /\ JobFirst(s)' /\ spc[s] # "closed"
  BY <1>2 DEF Working, FileReqIDs, JobFirst, ServerRendDone, ServerInterrupted, ServerThrow
<1>6. /\ \A k : Flight(s, k)' = Flight(s, k)
      /\ DataAt(s)' = DataAt(s)
  BY <1>1, FlightSame
<1>7. ~overrun => DataOfFrame(s)'
  BY <1>0, <1>1, <1>5, <1>6 DEF FrameInvOf, DataOfFrame
<1>8. CASE ServerRendDone(s)
  <2>1. /\ spc[s] = "wait" /\ toSrv[s] # << >> /\ toSrv'[s] = Tail(toSrv[s])
        /\ Head(toSrv[s]).id = "RENDDONE"
    BY <1>0, <1>8 DEF ServerRendDone
  <2>2. /\ RendDonesIn(toSrv[s]) = RendDonesIn(toSrv'[s]) + 1 /\ (HasRange(s)' <=> HasRange(s))
        /\ RendDonesIn(toSrv'[s]) \in Nat
    <3>1. toSrv[s][1].id = "RENDDONE" /\ toSrv[s][1].id # "RENDBUCKETS"
      BY <1>0, <2>1, FirstCtl
    <3> QED  BY <1>0, <2>1, <3>1, FrameReads
  <2>3. spc'[s] # "closed" => FrameDue(s)' = FrameDue(s)
    <3>1. \A a, b \in Nat : (a + 1) + b = a + (b + 1)
      OBVIOUS
    <3>2. SUFFICES ASSUME spc'[s] # "closed"
                   PROVE  sFrame'[s] + RendDonesIn(toSrv'[s]) = sFrame[s] + RendDonesIn(toSrv[s])
      BY DEF FrameDue
    <3>3. sFrame'[s] = sFrame[s] + 1 /\ sFrame[s] \in Nat
      BY <1>0, <1>2, <3>2
    <3> QED  BY <2>2, <3>1, <3>3
  <2>4. (Abandoned(s)' <=> Abandoned(s)) /\ (Short(s)' <=> Short(s))
    <3>1. ~Working(s)
      BY <2>1 DEF Working, FileReqIDs
    <3> QED  BY <1>1, <1>5, <1>6, <2>2, <3>1 DEF Abandoned, Short
  <2>5. FrameInvOf(s)'
    BY <1>0, <1>1, <1>5, <1>7, <2>3, <2>4, FrameServer
  <2> QED  BY <1>4, <2>5
<1>9. CASE ServerInterrupted(s)
  <2>1. sFatal[s] /\ sFatal'[s]
    BY <1>1, <1>9 DEF ServerInterrupted
  <2>2. FrameInvOf(s)'
    BY <1>0, <1>1, <1>5, <1>7, <2>1, FrameServer
  <2> QED  BY <1>4, <2>2
<1>10. CASE ServerThrow(s)
  <2>1. spc[s] = "rend" /\ Working(s) /\ "serverThrow" \in Faults /\ toSrv' = toSrv
    BY <1>10 DEF ServerThrow, Working, linkVars
  <2>2. toSrv[s] = << >> /\ ~HasRange(s)'
    BY <1>0, <2>1 DEF SInv, OneRange, HasRange
  <2>3. busy[s] # 0
    <3>1. FirstOut(s) < batch[s].x2
      <4>1. FirstOut(s) <= sNext[s] /\ sNext[s] < batch[s].x2
        BY <1>0, <2>1 DEF SInv, OneRange, RangeInWork
      <4> QED  BY <4>1, <1>0, Counts, ConstAssumption
    <3> QED  BY <3>1, <1>0, Counts, ConstAssumption
  <2>4. ~sFatal[s] => DataAt(s) = {}
    <3>1. ~sFatal[s] => FlightLen(s) = 0
      BY <1>0, <2>1 DEF SInv, OneRequest
    <3> QED  BY <3>1 DEF DataAt
  <2>5. ~sFatal'[s] => Abandoned(s)'
    BY <1>1, <1>5, <1>6, <2>2, <2>3, <2>4 DEF Abandoned
  <2>6. FrameInvOf(s)'
    BY <1>0, <1>1, <1>5, <1>7, <2>1, <2>5, FrameServer
  <2> QED  BY <1>4, <2>6
<1> QED  BY <1>8, <1>9, <1>10

\* A range is taken: its server is in the frame the range was sent for.
LEMMA FrameRendBuckets ==
    ASSUME IInv, FrameInv, NEW s \in Servers, ServerRendBuckets(s)
    PROVE  \A t \in Servers : FrameInvOf(t)'
<1>0. /\ TypeOK /\ SInv(s) /\ \A t \in Servers : FrameInvOf(t)
      /\ toSrv[s] # << >> /\ ~sFatal[s] /\ spc[s] = "wait"
      /\ toSrv[s] \in Seq(CtlMsg) /\ sFrame[s] \in Nat
  <2>1. TypeOK /\ SInv(s) /\ \A t \in Servers : FrameInvOf(t)
    BY IInvServers DEF FrameInv, ServersInv
  <2> QED  BY <2>1, FrameTypes DEF ServerRendBuckets, RangeAtHead
<1>1. UNCHANGED <<cpc, cFrame, scanI, reply, overrun, busy, batch, sRet, sFrame, cFatal, sFatal, recvQ, wire>>
  BY DEF ServerRendBuckets, clientVars, histVars
<1>2. /\ \A t \in Servers \ {s} : spc'[t] = spc[t] /\ toSrv'[t] = toSrv[t]
      /\ spc'[s] = "rend" /\ toSrv'[s] = Tail(toSrv[s])
  BY <1>0 DEF ServerRendBuckets, Goto, TypeOK
<1>3. ASSUME NEW t \in Servers \ {s} PROVE FrameInvOf(t)'
  BY <1>0, <1>1, <1>2, FrameOthers DEF FrameSame
<1>4. /\ toSrv[s][1].id = "RENDBUCKETS" /\ 1 \in DOMAIN toSrv[s] /\ HasRange(s)
      /\ RendDonesIn(toSrv[s]) = RendDonesIn(toSrv'[s])
  <2>1. Head(toSrv[s]).id = "RENDBUCKETS"
    BY DEF ServerRendBuckets, RangeAtHead
  <2>2. Head(toSrv[s]) = toSrv[s][1] /\ 1 \in DOMAIN toSrv[s]
    BY <1>0, FirstCtl
  <2>3. /\ RendDonesIn(toSrv[s]) = RendDonesIn(toSrv'[s])
             + (IF toSrv[s][1].id = "RENDDONE" THEN 1 ELSE 0)
        /\ RendDonesIn(toSrv'[s]) \in Nat
    BY <1>0, <1>2, FrameReads
  <2> QED  BY <2>1, <2>2, <2>3 DEF HasRange
<1>5. Len(toSrv[s]) = 1 /\ FirstOut(s) < batch[s].x2
  BY <1>0, <1>4 DEF SInv, OneRange, RangeUnread
<1>6. busy[s] # 0
  BY <1>5, <1>0, Counts, ConstAssumption
<1>7. toSrv'[s] = << >>
  <2>1. Tail(toSrv[s]) \in Seq(CtlMsg) /\ Len(Tail(toSrv[s])) = 0
    BY <1>0, <1>5, SeqTail
  <2> QED  BY <2>1, <1>2, SeqEmpty
<1>8. FrameDue(s)' = FrameDue(s) /\ FrameDue(s) = sFrame[s]
  <2>1. RendDonesIn(toSrv[s]) = 0
    BY <1>4, <1>7, DonesEmpty
  <2> QED  BY <1>0, <1>1, <1>4, <2>1 DEF FrameDue
<1>9. ~Abandoned(s) /\ Working(s)' /\ ~Short(s)' /\ JobFirst(s)'
  BY <1>2, <1>4 DEF Abandoned, Short, Working, JobFirst
<1>10. /\ \A k : Flight(s, k)' = Flight(s, k)
       /\ DataAt(s)' = DataAt(s)
  BY <1>1, FlightSame
<1>11. ~overrun => DataOfFrame(s)'
  <2>1. SUFFICES ASSUME ~overrun PROVE DataOfFrame(s)'
    OBVIOUS
  <2>2. FrameBalance(s) /\ DataOfFrame(s)
    BY <1>0, <2>1 DEF FrameInvOf
  <2>3. sFrame[s] = batch[s].frame
    BY <1>0, <1>6, <1>8, <1>9, <2>2 DEF FrameBalance
  <2> QED  BY <1>1, <1>10, <2>2, <2>3 DEF DataOfFrame
<1>12. FrameInvOf(s)'
  BY <1>0, <1>1, <1>8, <1>9, <1>11, FrameServer
<1> QED  BY <1>3, <1>12

\* A range that a server does not have ends its process.
LEMMA FrameRangeOutside ==
    ASSUME IInv, FrameInv, NEW s \in Servers, ServerRangeOutside(s)
    PROVE  \A t \in Servers : FrameInvOf(t)'
<1>0. TypeOK /\ \A t \in Servers : FrameInvOf(t)
  BY DEF IInv, FrameInv
<1>1. /\ UNCHANGED <<cpc, cFrame, scanI, reply, overrun, busy, batch, sRet, sFrame, cFatal, sFatal,
                     recvQ, wire>>
      /\ \A t \in Servers \ {s} : spc'[t] = spc[t] /\ toSrv'[t] = toSrv[t]
      /\ spc'[s] = "closed"
  BY <1>0 DEF ServerRangeOutside, Goto, TypeOK, clientVars, histVars
<1>2. ASSUME NEW t \in Servers \ {s} PROVE FrameInvOf(t)'
  BY <1>0, <1>1, FrameOthers DEF FrameSame
<1>3. JobFirst(s)' /\ ~Working(s)'
  BY <1>1 DEF JobFirst, Working, FileReqIDs
<1>4. /\ \A k : Flight(s, k)' = Flight(s, k)
      /\ DataAt(s)' = DataAt(s)
  BY <1>1, FlightSame
<1>5. ~overrun => DataOfFrame(s)'
  BY <1>0, <1>1, <1>3, <1>4 DEF FrameInvOf, DataOfFrame
<1>6. FrameInvOf(s)'
  BY <1>0, <1>1, <1>3, <1>5, FrameServer
<1> QED  BY <1>2, <1>6

\* A file request, of a server that has no pixels under way, is not pixels.
LEMMA FrameRequest ==
    ASSUME IInv, FrameInv, NEW s \in Servers, ServerJob(s) \/ ServerRequest(s)
    PROVE  \A t \in Servers : FrameInvOf(t)'
<1>0. /\ TypeOK /\ SInv(s) /\ \A t \in Servers : FrameInvOf(t)
  BY IInvServers DEF FrameInv, ServersInv
<1>1. UNCHANGED <<cpc, cFrame, scanI, reply, overrun, busy, batch, sFrame, cFatal, sFatal, recvQ>>
  BY DEF ServerJob, ServerRequest, clientVars, histVars
<1>2. PICK id \in FileReqIDs : /\ spc[s] \in {"job", "parse", "rend"}
                               /\ RequestFile(s, id, spc[s])
  BY DEF ServerJob, ServerRequest, FileReqIDs
<1>3. /\ \A t \in Servers \ {s} : /\ spc'[t] = spc[t] /\ sRet'[t] = sRet[t]
                                  /\ toSrv'[t] = toSrv[t] /\ wire'[t] = wire[t]
      /\ spc'[s] = id /\ sRet'[s] = spc[s]
  <2>1. \A t \in Servers \ {s} : toSrv'[t] = toSrv[t]
    BY <1>0 DEF ServerJob, ServerRequest, TypeOK, linkVars
  <2>2. /\ \A t \in Servers \ {s} : spc'[t] = spc[t] /\ sRet'[t] = sRet[t] /\ wire'[t] = wire[t]
        /\ spc'[s] = id /\ sRet'[s] = spc[s]
    BY <1>0, <1>2 DEF RequestFile, ServerSend, Goto, TypeOK
  <2> QED
    BY <2>1, <2>2
<1>4. ASSUME NEW t \in Servers \ {s} PROVE FrameInvOf(t)'
  BY <1>0, <1>1, <1>3, FrameOthers DEF FrameSame
<1>5. (Working(s)' <=> Working(s)) /\ spc'[s] # "job" /\ spc[s] # "closed"
  BY <1>2, <1>3 DEF Working, FileReqIDs
<1>6. JobFirst(s)'
  BY <1>5 DEF JobFirst
<1>7. DataAt(s)' = DataAt(s) /\ \A k \in DataAt(s) : Flight(s, k)' = Flight(s, k)
  BY <1>1, <1>2, RequestFlight
<1>8. ~overrun => DataOfFrame(s)'
  BY <1>0, <1>1, <1>5, <1>7 DEF FrameInvOf, DataOfFrame
<1>9. FrameDue(s)' = FrameDue(s) /\ (HasRange(s)' <=> HasRange(s))
  <2>1. CASE ServerJob(s)
    <3>1. spc[s] = "job" /\ toSrv[s] # << >> /\ toSrv'[s] = Tail(toSrv[s])
      BY <1>0, <2>1 DEF ServerJob, TypeOK
    <3>2. toSrv[s][1].id = "RENDJOB"
      BY <1>0, <3>1 DEF FrameInvOf, JobFirst
    <3>3. RendDonesIn(toSrv[s]) = RendDonesIn(toSrv'[s]) /\ (HasRange(s)' <=> HasRange(s))
      BY <1>0, <3>1, <3>2, FrameReads
    <3> QED  BY <1>1, <3>3 DEF FrameDue
  <2>2. CASE ServerRequest(s)
    <3>1. toSrv' = toSrv
      BY <2>2 DEF ServerRequest
    <3> QED  BY <1>1, <3>1 DEF FrameDue, HasRange
  <2> QED  BY <2>1, <2>2
<1>10. (Abandoned(s)' <=> Abandoned(s)) /\ (Short(s)' <=> Short(s))
  BY <1>1, <1>5, <1>7, <1>9 DEF Abandoned, Short
<1>11. FrameInvOf(s)'
  BY <1>0, <1>1, <1>5, <1>6, <1>8, <1>9, <1>10, FrameServer
<1> QED  BY <1>4, <1>11

\* sendBucketsData sends pixels of the range's frame, or of none.
LEMMA FrameSendData ==
    ASSUME IInv, FrameInv, NEW s \in Servers, ServerSendData(s)
    PROVE  \A t \in Servers : FrameInvOf(t)'
<1>0. /\ TypeOK /\ SInv(s) /\ \A t \in Servers : FrameInvOf(t)
  BY IInvServers DEF FrameInv, ServersInv
<1>1. UNCHANGED <<cpc, cFrame, scanI, reply, overrun, busy, batch, sFrame, sRet, cFatal, sFatal,
                  toSrv, recvQ>>
  BY DEF ServerSendData, clientVars, histVars
<1>2. PICK f : /\ f \in {0, Shows(sNext[s], sN[s], sFrame[s])}
               /\ ServerSend(s, MsgBucketData(sNext[s], f))
  BY DEF ServerSendData
<1>3. /\ \A t \in Servers \ {s} : spc'[t] = spc[t] /\ wire'[t] = wire[t]
      /\ spc[s] = "send" /\ spc'[s] \in {"send", "wait"}
  BY <1>0, <1>2 DEF ServerSendData, ServerSend, Goto, TypeOK
<1>4. ASSUME NEW t \in Servers \ {s} PROVE FrameInvOf(t)'
  BY <1>0, <1>1, <1>3, FrameOthers DEF FrameSame
<1>5. Working(s) /\ ~Abandoned(s) /\ JobFirst(s)' /\ spc[s] # "closed"
  BY <1>3 DEF Working, Abandoned, JobFirst
<1>6. FrameDue(s)' = FrameDue(s)
  BY <1>1 DEF FrameDue
<1>7. CASE sFatal[s]
  <2>1. wire' = wire
    BY <1>2, <1>7 DEF ServerSend
  <2>2. DataAt(s)' = DataAt(s) /\ \A k : Flight(s, k)' = Flight(s, k)
    BY <1>1, <2>1, FlightSame
  <2>3. ~overrun => DataOfFrame(s)'
    BY <1>0, <1>1, <1>5, <2>2 DEF FrameInvOf, DataOfFrame
  <2>4. FrameInvOf(s)'
    BY <1>0, <1>1, <1>5, <1>6, <1>7, <2>3, FrameServer
  <2> QED  BY <1>4, <2>4
<1>8. CASE ~sFatal[s]
  <2> DEFINE m == MsgBucketData(sNext[s], f)
  <2>1. m \in SrvMsg /\ wire'[s] = Append(wire[s], m)
    <3>1. f \in Shown /\ sNext[s] \in Nat
      BY <1>0, <1>2, ConstAssumption DEF TypeOK, Frames, Shows, Shown
    <3> QED  BY <1>0, <1>2, <1>8, <3>1, MessageTypes DEF ServerSend, TypeOK
  <2>2. m.id = "BUCKETDATA" /\ m.frame = f
    BY DEF MsgBucketData
  <2> HIDE DEF m
  <2>3. /\ FlightLen(s)' = FlightLen(s) + 1
        /\ \A k \in 1..FlightLen(s) : Flight(s, k)' = Flight(s, k)
        /\ \A n : n = FlightLen(s) + 1 => Flight(s, n)' = m
    BY <1>0, <1>1, <2>1, FlightAppend
  <2>4. FlightLen(s) \in Nat
    BY <1>0, Lens
  <2>5. ASSUME NEW k \in DataAt(s)'
        PROVE  \/ k \in DataAt(s) /\ Flight(s, k)' = Flight(s, k)
               \/ Flight(s, k)' = m
    <3>1. k \in 1..(FlightLen(s) + 1) /\ Flight(s, k)'.id = "BUCKETDATA"
      BY <2>3 DEF DataAt
    <3>2. k \in 1..FlightLen(s) \/ k = FlightLen(s) + 1
      BY <2>4, <3>1
    <3> QED  BY <2>3, <3>1, <3>2 DEF DataAt
  <2>6. DataAt(s)' # {}
    <3>1. PICK n : n = FlightLen(s) + 1
      OBVIOUS
    <3>2. n \in 1..(FlightLen(s) + 1)
      BY <2>4, <3>1
    <3>3. n \in 1..FlightLen(s)' /\ Flight(s, n)'.id = "BUCKETDATA"
      BY <2>2, <2>3, <3>1, <3>2
    <3> QED  BY <3>3 DEF DataAt
  <2>7. ~overrun => DataOfFrame(s)'
    <3>1. SUFFICES ASSUME ~overrun PROVE DataOfFrame(s)'
      OBVIOUS
    <3>2. DataOfFrame(s) /\ sFrame[s] = batch[s].frame
      BY <1>0, <1>5, <3>1 DEF FrameInvOf, DataOfFrame
    <3>a. sN[s] = NBuckets
      BY <1>5, <1>8 DEF IInv, ListsFit, ListFits
    <3>b. f \in {0, sFrame[s]}
      <4>1. sNext[s] \in Nat
        BY <1>0, Counts
      <4> QED  BY <1>2, <3>a, <4>1, ConstAssumption DEF Shows
    <3>3. m.frame \in {0, batch[s].frame}
      BY <2>2, <3>2, <3>b
    <3>4. \A k \in DataAt(s)' : Flight(s, k)'.frame \in {0, batch[s].frame}
      BY <2>5, <3>2, <3>3 DEF DataOfFrame
    <3> QED  BY <1>1, <3>2, <3>4 DEF DataOfFrame
  <2>8. ~Abandoned(s)'
    BY <2>6 DEF Abandoned
  <2>9. ~Short(s)'
    <3>1. SUFFICES ASSUME ~Working(s)' PROVE DataAt(s)' = 1..busy[s]
      BY <1>1 DEF Short
    <3>2. /\ sX2[s] = batch[s].x2 /\ sNext[s] < batch[s].x2
          /\ sNext[s] = FirstOut(s) + FlightLen(s)
      BY <1>0, <1>3, <1>5, <1>8 DEF SInv, OneRange, RangeInWork
    <3>3. ~(sNext[s] + 1 < sX2[s])
      BY <1>0, <3>1 DEF ServerSendData, Goto, TypeOK, Working
    <3>4. FlightLen(s) + 1 = busy[s]
      BY <1>0, <2>4, <3>2, <3>3, Counts, ConstAssumption
    <3>5. FileAt(s) = {}
      BY <1>0, <1>3, <1>8, NoRequest DEF FileReqIDs
    <3>6. \A k \in 1..FlightLen(s) : Flight(s, k).id = "BUCKETDATA"
      BY <1>0, <3>5, FlightKinds DEF DataAt
    <3>7. \A k \in 1..(FlightLen(s) + 1) : k \in 1..FlightLen(s) \/ k = FlightLen(s) + 1
      BY <2>4
    <3>8. \A k \in 1..(FlightLen(s) + 1) : Flight(s, k)'.id = "BUCKETDATA"
      BY <2>2, <2>3, <3>6, <3>7
    <3>9. DataAt(s)' = 1..(FlightLen(s) + 1)
      BY <2>3, <3>8 DEF DataAt
    <3> QED  BY <3>4, <3>9
  <2>10. FrameInvOf(s)'
    BY <1>0, <1>1, <1>5, <1>6, <2>7, <2>8, <2>9, FrameServer
  <2> QED  BY <1>4, <2>10
<1> QED  BY <1>7, <1>8

\* A packet moves up in the network, or its FileServer takes a request.
LEMMA FrameDelivers ==
    ASSUME IInv, FrameInv, NEW s \in Servers, Deliver(s) \/ FileServerTake(s)
    PROVE  \A t \in Servers : FrameInvOf(t)'
<1>0. /\ TypeOK /\ SInv(s) /\ \A t \in Servers : FrameInvOf(t)
  BY IInvServers DEF FrameInv, ServersInv
<1>1. UNCHANGED <<cpc, cFrame, scanI, reply, overrun, busy, batch, spc, sFrame, sRet, cFatal,
                  sFatal, toSrv>>
  BY DEF Deliver, FileServerTake, clientVars, serverVars, histVars
<1>2. \A t \in Servers \ {s} : recvQ'[t] = recvQ[t] /\ wire'[t] = wire[t]
  BY <1>0 DEF Deliver, FileServerTake, TypeOK
<1>3. ASSUME NEW t \in Servers \ {s} PROVE FrameInvOf(t)'
  BY <1>0, <1>1, <1>2, FrameOthers DEF FrameSame
<1>4. DataAt(s)' = DataAt(s) /\ \A k \in DataAt(s) : Flight(s, k)' = Flight(s, k)
  BY DeliverFlight
<1>5. /\ FrameDue(s)' = FrameDue(s) /\ (HasRange(s)' <=> HasRange(s)) /\ (Working(s)' <=> Working(s))
  BY <1>1 DEF FrameDue, HasRange, Working
<1>6. (Abandoned(s)' <=> Abandoned(s)) /\ (Short(s)' <=> Short(s))
  BY <1>1, <1>4, <1>5 DEF Abandoned, Short
<1>7. JobFirst(s)' /\ (~overrun => DataOfFrame(s)')
  BY <1>0, <1>1, <1>4, <1>5 DEF FrameInvOf, JobFirst, DataOfFrame
<1>8. FrameInvOf(s)'
  BY <1>0, <1>1, <1>5, <1>6, <1>7, FrameServer
<1> QED  BY <1>3, <1>8

\* What an end that failed or quit had queued is lost: the range with it.
LEMMA FrameClientTailLost ==
    ASSUME IInv, FrameInv, NEW s \in Servers, ClientTailLost(s)
    PROVE  \A t \in Servers : FrameInvOf(t)'
<1>0. /\ TypeOK /\ SInv(s) /\ \A t \in Servers : FrameInvOf(t)
  BY IInvServers DEF FrameInv, ServersInv
<1>1. UNCHANGED <<cpc, cFrame, scanI, reply, overrun, busy, batch, spc, sFrame, sRet, cFatal,
                  sFatal, wire, recvQ>>
  BY DEF ClientTailLost, clientVars, serverVars, histVars
<1>2. \A t \in Servers \ {s} : toSrv'[t] = toSrv[t]
  BY <1>0 DEF ClientTailLost, TypeOK
<1>3. ASSUME NEW t \in Servers \ {s} PROVE FrameInvOf(t)'
  BY <1>0, <1>1, <1>2, FrameOthers DEF FrameSame
<1>4. /\ DataAt(s)' = DataAt(s) /\ (Working(s)' <=> Working(s))
      /\ \A k : Flight(s, k)' = Flight(s, k)
  BY <1>1, FlightSame DEF Working
<1>5. ~overrun => DataOfFrame(s)'
  BY <1>0, <1>1, <1>4 DEF FrameInvOf, DataOfFrame
<1>6. cFatal'[s] \/ cpc = "end"
  BY <1>1 DEF ClientTailLost
<1>7. CASE UNCHANGED toSrv
  <2>1. FrameSame(s)
    BY <1>1, <1>7 DEF FrameSame
  <2> QED  BY <1>0, <1>1, <1>3, <2>1, FrameOthers
<1>8. CASE toSrv[s] # << >> /\ toSrv' = [toSrv EXCEPT ![s] = SubSeq(@, 1, Len(@) - 1)]
  <2> DEFINE q == toSrv[s]
             f == SubSeq(q, 1, Len(q) - 1)
  <2>1. q \in Seq(CtlMsg) /\ toSrv'[s] = f /\ q # << >>
    BY <1>0, <1>8 DEF TypeOK
  <2>2. /\ f \in Seq(CtlMsg) /\ Len(f) = Len(q) - 1 /\ Len(q) \in Nat \ {0}
        /\ \A k \in 1..(Len(q) - 1) : f[k] = q[k]
    BY <2>1, SeqFront, SeqTail
  <2>3. DOMAIN q = 1..Len(q) /\ DOMAIN f = 1..(Len(q) - 1) /\ (f # << >> => Len(f) # 0)
    BY <2>1, <2>2, SeqEmpty
  <2> HIDE DEF f
  <2>4. ~HasRange(s)'
    <3>1. SUFFICES ASSUME NEW k \in DOMAIN f, f[k].id = "RENDBUCKETS" PROVE FALSE
      BY <2>1 DEF HasRange
    <3>2. k \in 1..(Len(q) - 1) /\ k \in 1..Len(q) /\ k # Len(q)
      BY <2>2, <2>3
    <3>3. q[k].id = "RENDBUCKETS" /\ k \in DOMAIN toSrv[s]
      BY <2>2, <2>3, <3>1, <3>2
    <3> QED  BY <1>0, <3>2, <3>3 DEF SInv, OneRange, RangeUnread
  <2>5. ~Working(s) /\ DataAt(s) = {}
    BY <1>0, <2>1 DEF SInv, OneRange
  <2>6. busy[s] # 0 => Abandoned(s)'
    BY <1>1, <1>4, <2>4, <2>5 DEF Abandoned
  <2>7. JobFirst(s)'
    <3>1. SUFFICES ASSUME spc[s] = "job", f # << >> PROVE f[1].id = "RENDJOB"
      BY <1>1, <1>6, <2>1 DEF JobFirst
    <3>2. q[1].id = "RENDJOB"
      BY <1>0, <2>1, <3>1 DEF FrameInvOf, JobFirst
    <3>3. Len(f) # 0
      BY <2>3, <3>1
    <3>4. 1 \in 1..(Len(q) - 1)
      <4>1. \A n \in Nat \ {0} : n - 1 # 0 => 1 \in 1..(n - 1)
        OBVIOUS
      <4>2. Len(q) \in Nat \ {0} /\ Len(q) - 1 # 0
        BY <2>2, <3>3
      <4> QED  BY <4>1, <4>2
    <3> QED  BY <2>2, <3>2, <3>4
  <2>8. FrameInvOf(s)'
    BY <1>0, <1>1, <1>5, <1>6, <2>6, <2>7, FrameServer
  <2> QED  BY <1>3, <2>8
<1> QED  BY <1>7, <1>8 DEF ClientTailLost

\* Pixels a server that failed or closed had queued are lost.
LEMMA FrameServerTailLost ==
    ASSUME IInv, FrameInv, NEW s \in Servers, ServerTailLost(s)
    PROVE  \A t \in Servers : FrameInvOf(t)'
<1>0. /\ TypeOK /\ SInv(s) /\ \A t \in Servers : FrameInvOf(t)
  BY IInvServers DEF FrameInv, ServersInv
<1>1. UNCHANGED <<cpc, cFrame, scanI, reply, overrun, busy, batch, spc, sFrame, sRet, cFatal,
                  sFatal, toSrv, recvQ>>
  BY DEF ServerTailLost, clientVars, serverVars, histVars
<1>2. /\ \A t \in Servers \ {s} : wire'[t] = wire[t]
      /\ wire[s] # << >> /\ wire'[s] = SubSeq(wire[s], 1, Len(wire[s]) - 1)
  BY <1>0 DEF ServerTailLost, TypeOK
<1>3. ASSUME NEW t \in Servers \ {s} PROVE FrameInvOf(t)'
  BY <1>0, <1>1, <1>2, FrameOthers DEF FrameSame
<1>4. /\ FlightLen(s) \in Nat \ {0} /\ FlightLen(s)' = FlightLen(s) - 1
      /\ \A k \in 1..(FlightLen(s) - 1) : Flight(s, k)' = Flight(s, k)
  BY <1>0, <1>1, <1>2, FlightFront
<1>5. \A k \in DataAt(s)' : k \in DataAt(s) /\ Flight(s, k)' = Flight(s, k)
  <2>1. \A k \in 1..(FlightLen(s) - 1) : k \in 1..FlightLen(s)
    BY <1>4
  <2> QED  BY <1>4, <2>1 DEF DataAt
<1>6. JobFirst(s)' /\ (Working(s)' <=> Working(s))
  BY <1>0, <1>1 DEF FrameInvOf, JobFirst, Working
<1>7. ~overrun => DataOfFrame(s)'
  BY <1>0, <1>1, <1>5, <1>6 DEF FrameInvOf, DataOfFrame
<1>8. sFatal'[s] \/ spc'[s] = "closed"
  BY <1>1 DEF ServerTailLost
<1>9. FrameInvOf(s)'
  BY <1>0, <1>1, <1>6, <1>7, <1>8, FrameServer
<1> QED  BY <1>3, <1>9

----------------------------------------------------------------------------
(* The client's steps.                                                     *)

\* Sending to s: the ranges in its queue and the frame it is due.
LEMMA FrameSends ==
    ASSUME TypeOK, NEW s \in Servers, NEW m \in CtlMsg, toSrv'[s] = Append(toSrv[s], m),
           sFrame'[s] = sFrame[s]
    PROVE  /\ FrameDue(s)' = FrameDue(s) + (IF m.id = "RENDDONE" THEN 1 ELSE 0)
           /\ HasRange(s) \/ m.id = "RENDBUCKETS" => HasRange(s)'
           /\ m.id # "RENDBUCKETS" => (HasRange(s)' => HasRange(s))
           /\ toSrv'[s] # << >>
           /\ toSrv[s] # << >> => toSrv'[s][1] = toSrv[s][1]
<1> DEFINE q == toSrv[s]
           a == Append(q, m)
           n == Len(q) + 1
<1>1. q \in Seq(CtlMsg) /\ sFrame[s] \in Nat /\ RendDonesIn(q) \in Nat
  BY FrameTypes
<1>2. /\ a \in Seq(CtlMsg) /\ Len(a) = n /\ Len(q) \in Nat /\ a[n] = m
      /\ \A k \in 1..Len(q) : a[k] = q[k]
  BY <1>1, SeqAppend, SeqEmpty
<1>3. DOMAIN a = 1..n /\ DOMAIN q = 1..Len(q) /\ (q # << >> => Len(q) # 0)
  BY <1>1, <1>2, SeqEmpty
<1>4. /\ n \in 1..n /\ \A k \in 1..Len(q) : k \in 1..n
      /\ \A k \in 1..n : k \in 1..Len(q) \/ k = n
      /\ Len(q) # 0 => 1 \in 1..Len(q)
  BY <1>2
<1>5. RendDonesIn(a) = RendDonesIn(q) + (IF m.id = "RENDDONE" THEN 1 ELSE 0)
  BY <1>1, DonesAppend
<1>6. FrameDue(s)' = FrameDue(s) + (IF m.id = "RENDDONE" THEN 1 ELSE 0)
  <2>1. \A x, y \in Nat : x + (y + 1) = (x + y) + 1 /\ x + (y + 0) = (x + y) + 0
    OBVIOUS
  <2> QED  BY <1>1, <1>5, <2>1 DEF FrameDue
<1>7. a # << >>
  BY <1>2
<1> HIDE DEF a, n
<1>8. toSrv'[s] = a
  BY DEF a
<1>9. HasRange(s) => HasRange(s)'
  BY <1>2, <1>3, <1>4, <1>8 DEF HasRange
<1>10. m.id = "RENDBUCKETS" => HasRange(s)'
  BY <1>2, <1>3, <1>4, <1>8 DEF HasRange
<1>11. m.id # "RENDBUCKETS" => (HasRange(s)' => HasRange(s))
  BY <1>2, <1>3, <1>4, <1>8 DEF HasRange
<1>12. q # << >> => a[1] = q[1]
  BY <1>2, <1>3, <1>4
<1> QED  BY <1>6, <1>7, <1>8, <1>9, <1>10, <1>11, <1>12

\* A batch goes to a free server, which is in the client's frame.
LEMMA FrameDispatch ==
    ASSUME IInv, FrameInv, ClientDispatch
    PROVE  \A t \in Servers : FrameInvOf(t)'
<1>0. /\ TypeOK /\ ServersInv /\ \A t \in Servers : FrameInvOf(t)
  BY IInvServers DEF FrameInv
<1>1. /\ UNCHANGED <<cFrame, overrun, spc, sFrame, sRet, cFatal, sFatal, wire, recvQ>>
      /\ cpc = "disp" /\ cpc' = "scan" /\ reply' = FALSE
  BY DEF ClientDispatch, StartScan, serverVars
<1>2. PICK s \in Servers :
        /\ s \in FreeServers
        /\ toSrv' = ClientSend(toSrv, s, MsgRendBuckes(x1, BatchEnd))
        /\ busy' = [busy EXCEPT ![s] = @ + (BatchEnd - x1)]
        /\ batch' = [batch EXCEPT ![s] = [x1 |-> x1, x2 |-> BatchEnd, frame |-> cFrame]]
  BY DEF ClientDispatch, IsFirst
<1>3. ~cFatal[s] /\ busy[s] = 0
  BY <1>2 DEF FreeServers
<1>4. x1 \in 0..cN /\ x1 < cN /\ BatchEnd \in 1..cN /\ x1 < BatchEnd
  <2>1. x1 \in 0..cN /\ x1 < cN
    BY <1>1 DEF IInv, AllHandedOut, TypeOK
  <2> QED  BY <1>0, <2>1, BatchEndType
<1> DEFINE m == MsgRendBuckes(x1, BatchEnd)
<1>5. m \in CtlMsg /\ m.id = "RENDBUCKETS"
  <2>1. x1 \in Nat /\ BatchEnd \in Nat
    BY <1>4, ConstAssumption
  <2> QED  BY <2>1, MessageTypes DEF MsgRendBuckes
<1> HIDE DEF m
<1>6. /\ toSrv'[s] = Append(toSrv[s], m) /\ \A t \in Servers \ {s} : toSrv'[t] = toSrv[t]
      /\ batch'[s].frame = cFrame
      /\ \A t \in Servers \ {s} : batch'[t] = batch[t] /\ busy'[t] = busy[t]
  BY <1>0, <1>2, <1>3 DEF ClientSend, TypeOK, m
<1>7. busy'[s] # 0
  <2>1. busy'[s] = busy[s] + (BatchEnd - x1)
    BY <1>0, <1>2 DEF TypeOK
  <2> QED  BY <1>3, <1>4, <2>1, ConstAssumption
<1>8. \A t \in Servers : ~Released(t) /\ ~Released(t)'
  BY <1>1 DEF Released
<1>9. ASSUME NEW t \in Servers \ {s} PROVE FrameInvOf(t)'
  <2>1. FrameSame(t)
    BY <1>1, <1>6 DEF FrameSame
  <2> QED  BY <1>0, <1>1, <1>8, <2>1, FrameClient
<1>10. FrameInvOf(s)'
  <2>1. FrameInvOf(s) /\ SInv(s)
    BY <1>0 DEF ServersInv
  <2>2. /\ FrameDue(s)' = FrameDue(s) /\ HasRange(s)' /\ toSrv'[s] # << >>
        /\ toSrv[s] # << >> => toSrv'[s][1] = toSrv[s][1]
    <3>1. m.id # "RENDDONE"
      BY <1>5
    <3>2. /\ FrameDue(s)' = FrameDue(s) + 0 /\ HasRange(s)' /\ toSrv'[s] # << >>
          /\ toSrv[s] # << >> => toSrv'[s][1] = toSrv[s][1]
      BY <1>0, <1>1, <1>5, <1>6, <3>1, FrameSends
    <3>3. FrameDue(s) \in Nat
      BY <1>0, FrameTypes
    <3> QED  BY <3>2, <3>3
  <2>3. JobFirst(s)'
    BY <1>1, <1>3, <2>1, <2>2 DEF FrameInvOf, JobFirst
  <2>4. SUFFICES ASSUME ~overrun
                 PROVE  RangeOfFrame(s)' /\ DataOfFrame(s)' /\ FrameBalance(s)' /\ WhyShort(s)'
    BY <1>1, <2>3 DEF FrameInvOf
  <2>5. RangeOfFrame(s)'
    BY <1>1, <1>6, <1>7 DEF RangeOfFrame
  <2>6. ~Working(s) /\ DataAt(s) = {}
    BY <1>0, <1>3, <2>1, IdleServer
  <2>7. DataAt(s)' = {} /\ ~Working(s)'
    <3>1. DataAt(s)' = DataAt(s)
      BY <1>1, FlightSame
    <3> QED  BY <1>1, <2>6, <3>1 DEF Working
  <2>8. DataOfFrame(s)'
    BY <2>7 DEF DataOfFrame
  <2>9. ~Abandoned(s)'
    BY <2>2 DEF Abandoned
  <2>10. FrameBalance(s)'
    <3>1. FrameBalance(s)
      BY <2>1, <2>4 DEF FrameInvOf
    <3>2. cpc # "end" /\ cFrame \in Nat
      BY <1>0, <1>1, FrameTypes
    <3>3. (~sFatal[s] /\ spc[s] # "closed") => FrameDue(s) = cFrame + 0
      BY <1>3, <1>8, <3>1, <3>2 DEF FrameBalance
    <3>4. (~sFatal[s] /\ spc[s] # "closed") => FrameDue(s) = cFrame
      BY <3>2, <3>3
    <3> QED  BY <1>1, <1>6, <1>7, <2>2, <3>4 DEF FrameBalance
  <2>11. WhyShort(s)'
    BY <2>2 DEF WhyShort, Short
  <2> QED  BY <2>5, <2>8, <2>10, <2>11
<1> QED  BY <1>9, <1>10

\* sendRendDoneToNotBusy: every free server is due the next frame.
LEMMA FrameBye ==
    ASSUME IInv, FrameInv, ClientBye
    PROVE  \A t \in Servers : FrameInvOf(t)'
<1>0. /\ TypeOK /\ \A t \in Servers : FrameInvOf(t)
  BY IInvServers DEF FrameInv
<1>1. /\ UNCHANGED <<cFrame, overrun, busy, batch, spc, sFrame, sRet, cFatal, sFatal, wire, recvQ>>
      /\ cpc = "bye" /\ cpc' = "scan" /\ reply' = TRUE
      /\ toSrv' = [s \in Servers |->
                      IF s \in FreeServers THEN Append(toSrv[s], MsgRendDone) ELSE toSrv[s]]
  BY DEF ClientBye, StartScan, serverVars, histVars
<1>2. SUFFICES ASSUME NEW t \in Servers PROVE FrameInvOf(t)'
  OBVIOUS
<1>3. ~Released(t) /\ (Released(t)' <=> busy[t] = 0)
  BY <1>1 DEF Released
<1>4. CASE t \notin FreeServers
  <2>1. FrameSame(t) /\ (busy[t] = 0 => cFatal[t])
    BY <1>1, <1>4 DEF FrameSame, FreeServers
  <2> QED  BY <1>0, <1>1, <2>1, FrameClient
<1>5. CASE t \in FreeServers
  <2>1. ~cFatal[t] /\ busy[t] = 0 /\ toSrv'[t] = Append(toSrv[t], MsgRendDone)
    BY <1>1, <1>5 DEF FreeServers
  <2>2. MsgRendDone \in CtlMsg /\ MsgRendDone.id = "RENDDONE"
    BY MessageTypes DEF MsgRendDone
  <2>3. /\ FrameDue(t)' = FrameDue(t) + 1 /\ toSrv'[t] # << >>
        /\ toSrv[t] # << >> => toSrv'[t][1] = toSrv[t][1]
    BY <1>0, <1>1, <2>1, <2>2, FrameSends
  <2>4. JobFirst(t)'
    BY <1>0, <1>1, <2>1, <2>3 DEF FrameInvOf, JobFirst
  <2>5. SUFFICES ASSUME ~overrun
                 PROVE  RangeOfFrame(t)' /\ DataOfFrame(t)' /\ FrameBalance(t)' /\ WhyShort(t)'
    BY <1>1, <2>4 DEF FrameInvOf
  <2>6. RangeOfFrame(t)' /\ WhyShort(t)'
    BY <1>1, <2>1 DEF RangeOfFrame, WhyShort, Short
  <2>7. DataOfFrame(t)'
    <3>1. DataAt(t)' = DataAt(t) /\ \A k : Flight(t, k)' = Flight(t, k)
      BY <1>1, FlightSame
    <3> QED  BY <1>0, <1>1, <2>5, <3>1 DEF FrameInvOf, DataOfFrame, Working
  <2>8. FrameBalance(t)'
    <3>1. FrameBalance(t)
      BY <1>0, <2>5 DEF FrameInvOf
    <3>2. cFrame \in Nat
      BY <1>0, FrameTypes
    <3>3. (~sFatal[t] /\ spc[t] # "closed") => FrameDue(t) = cFrame
      BY <1>1, <1>3, <2>1, <3>1, <3>2 DEF FrameBalance
    <3> QED  BY <1>1, <1>3, <2>1, <2>3, <3>3 DEF FrameBalance
  <2> QED  BY <2>6, <2>7, <2>8
<1> QED  BY <1>4, <1>5

\* A bucket is stored: its frame is the client's, and the last one may release s.
LEMMA FrameStoreHead ==
    ASSUME IInv, FrameInv, cpc = "read", NEW s \in Servers, s = scanI, StoreHead(s),
           recvQ[s] # << >>, recvQ[s][1].id = "BUCKETDATA"
    PROVE  (\A t \in Servers : FrameInvOf(t)') /\ FrameAgreement'
<1>0. /\ TypeOK /\ SInv(s) /\ FrameInvOf(s) /\ \A t \in Servers : FrameInvOf(t)
  BY IInvServers DEF FrameInv, ServersInv
<1>1. /\ UNCHANGED <<cFrame, reply, overrun, batch, spc, sFrame, sRet, cFatal, sFatal, wire>>
      /\ cpc' = "scan"
      /\ recvQ' = [recvQ EXCEPT ![s] = Tail(@)] /\ busy' = [busy EXCEPT ![s] = @ - 1]
      /\ toSrv' = IF busy[s] = 1 /\ reply THEN ClientSend(toSrv, s, MsgRendDone) ELSE toSrv
      /\ out' = [out EXCEPT ![Head(recvQ[s]).idx] = Head(recvQ[s]).frame]
      /\ Buckets' = Buckets /\ cN' = cN
  BY DEF StoreHead, ScanNext, serverVars, Buckets
<1>2. /\ \A t \in Servers \ {s} : recvQ'[t] = recvQ[t] /\ busy'[t] = busy[t]
      /\ recvQ'[s] = Tail(recvQ[s]) /\ busy'[s] = busy[s] - 1 /\ busy[s] \in Nat
  BY <1>0, <1>1 DEF TypeOK
<1>3. \A t \in Servers \ {s} : toSrv'[t] = toSrv[t]
  BY <1>0, <1>1 DEF ClientSend, TypeOK
<1>4. ASSUME NEW t \in Servers \ {s} PROVE FrameInvOf(t)'
  <2>1. FrameSame(t)
    BY <1>1, <1>2, <1>3 DEF FrameSame
  <2>2. Released(t)' <=> Released(t)
    BY <1>1, <1>2 DEF Released
  <2> QED  BY <1>0, <1>1, <2>1, <2>2, FrameClient
<1>5. /\ FlightLen(s) \in Nat \ {0} /\ FlightLen(s)' = FlightLen(s) - 1
      /\ Flight(s, 1) = recvQ[s][1] /\ Head(recvQ[s]) = recvQ[s][1]
      /\ \A k \in 1..(FlightLen(s) - 1) : Flight(s, k)' = Flight(s, k + 1)
  BY <1>0, <1>1, <1>2, FlightStore
<1>6. 1 \in DataAt(s)
  <2>1. 1 \in 1..FlightLen(s)
    BY <1>5
  <2> QED  BY <1>5, <2>1 DEF DataAt
<1>7. \A k \in DataAt(s)' : k \in Nat /\ k + 1 \in DataAt(s) /\ Flight(s, k)' = Flight(s, k + 1)
  <2>1. \A k \in 1..(FlightLen(s) - 1) : k \in Nat /\ k + 1 \in 1..FlightLen(s)
    BY <1>5
  <2> QED  BY <1>5, <2>1 DEF DataAt
<1>8. busy[s] \in Nat \ {0}
  <2>1. 1 <= busy[s]
    BY <1>0, <1>6 DEF SInv, BusyAccountsFor
  <2> QED  BY <1>2, <2>1, ConstAssumption
<1>9. toSrv[s] = << >> /\ ~HasRange(s) /\ ~Abandoned(s)
  BY <1>0, <1>6 DEF SInv, OneRange, HasRange, Abandoned
<1>10. Working(s)' <=> Working(s)
  BY <1>1 DEF Working
<1>11. Head(recvQ[s]).idx \in Nat /\ FrameDue(s) \in Nat /\ cFrame \in Nat
  <2>1. Flight(s, 1) \in SrvMsg
    BY <1>0, <1>6, FlightTyped DEF DataAt
  <2> QED  BY <1>0, <1>5, <2>1, FrameTypes DEF SrvMsg
<1>12. ASSUME ~overrun
       PROVE  /\ batch[s].frame = cFrame
              /\ Head(recvQ[s]).frame \in {0, cFrame}
              /\ (~sFatal[s] /\ spc[s] # "closed") => FrameDue(s) = cFrame
  <2>1. RangeOfFrame(s) /\ DataOfFrame(s) /\ FrameBalance(s)
    BY <1>0, <1>12 DEF FrameInvOf
  <2>2. batch[s].frame = cFrame
    BY <2>1 DEF RangeOfFrame
  <2>3. Flight(s, 1).frame \in {0, batch[s].frame}
    BY <1>6, <2>1 DEF DataOfFrame
  <2>4. (~sFatal[s] /\ spc[s] # "closed") => FrameDue(s) = batch[s].frame
    BY <1>8, <1>9, <2>1 DEF FrameBalance
  <2> QED  BY <1>5, <2>2, <2>3, <2>4
<1>13. FrameAgreement'
  <2>1. out \in [Buckets -> Shown]
    BY <1>0 DEF TypeOK
  <2>2. SUFFICES ASSUME ~overrun, NEW b \in Buckets PROVE out'[b] \in {0, cFrame}
    BY <1>1 DEF FrameAgreement
  <2>3. out[b] \in {0, cFrame} /\ Head(recvQ[s]).frame \in {0, cFrame}
    BY <1>12, <2>2 DEF FrameInv, FrameAgreement
  <2> QED  BY <1>1, <2>1, <2>3
<1>14. CASE ~(busy[s] = 1 /\ reply)
  <2>1. toSrv' = toSrv
    BY <1>1, <1>14
  <2>2. ~HasRange(s)' /\ FrameDue(s)' = FrameDue(s)
    BY <1>1, <1>9, <2>1 DEF HasRange, FrameDue
  <2> QED
    <3> SUFFICES FrameInvOf(s)'
      BY <1>4, <1>13
    <3>1. JobFirst(s)'
      BY <1>0, <1>1, <2>1 DEF FrameInvOf, JobFirst
    <3>2. SUFFICES ASSUME ~overrun
                   PROVE  RangeOfFrame(s)' /\ DataOfFrame(s)' /\ FrameBalance(s)' /\ WhyShort(s)'
      BY <1>1, <3>1 DEF FrameInvOf
    <3>3. RangeOfFrame(s)'
      BY <1>1, <1>12, <3>2 DEF RangeOfFrame
    <3>4. DataOfFrame(s)'
      BY <1>0, <1>1, <1>7, <1>10, <3>2 DEF FrameInvOf, DataOfFrame
    <3>5. FrameBalance(s)'
      <4>1. busy'[s] = 0 => ~reply
        BY <1>2, <1>8, <1>14
      <4>2. busy'[s] = 0 => ~Released(s)'
        BY <1>1, <4>1 DEF Released
      <4>3. cFrame + 0 = cFrame
        BY <1>11
      <4> QED  BY <1>1, <1>12, <2>2, <3>2, <4>2, <4>3 DEF FrameBalance
    <3>6. WhyShort(s)'
      <4>1. SUFFICES ASSUME Short(s)', ~Short(s) PROVE FALSE
        BY <1>0, <1>1, <3>2 DEF FrameInvOf, WhyShort
      <4>2. DataAt(s) = 1..busy[s]
        BY <1>8, <1>9, <1>10, <4>1 DEF Short
      <4>3. DataAt(s)' = 1..(busy[s] - 1)
        <5>1. \A k \in DataAt(s)' : k \in 1..(busy[s] - 1)
          <6>1. SUFFICES ASSUME NEW k \in DataAt(s)' PROVE k \in 1..(busy[s] - 1)
            OBVIOUS
          <6>2. k \in 1..(FlightLen(s) - 1) /\ k + 1 \in 1..busy[s]
            BY <1>5, <1>7, <4>2 DEF DataAt
          <6> QED  BY <1>5, <1>8, <6>2
        <5>2. ASSUME NEW k \in 1..(busy[s] - 1) PROVE k \in DataAt(s)'
          <6>1. k \in Nat /\ 1 <= k /\ k + 1 \in 1..busy[s]
            BY <1>8
          <6>2. k + 1 \in 1..FlightLen(s) /\ Flight(s, k + 1).id = "BUCKETDATA"
            BY <4>2, <6>1 DEF DataAt
          <6>3. k \in 1..(FlightLen(s) - 1)
            BY <1>5, <6>1, <6>2
          <6>4. Flight(s, k)' = Flight(s, k + 1)
            BY <1>5, <6>3
          <6> QED  BY <1>5, <6>2, <6>3, <6>4 DEF DataAt
        <5> QED  BY <5>1, <5>2
      <4> QED  BY <1>2, <4>1, <4>3 DEF Short
    <3> QED  BY <3>3, <3>4, <3>5, <3>6
<1>15. CASE busy[s] = 1 /\ reply
  <2>1. busy'[s] = 0 /\ Released(s)'
    BY <1>1, <1>2, <1>15 DEF Released
  <2>2. ~cFatal[s] => FrameDue(s)' = FrameDue(s) + 1
    <3>1. MsgRendDone \in CtlMsg /\ MsgRendDone.id = "RENDDONE"
      BY MessageTypes DEF MsgRendDone
    <3>2. ~cFatal[s] => toSrv'[s] = Append(toSrv[s], MsgRendDone)
      BY <1>0, <1>1, <1>15 DEF ClientSend, TypeOK
    <3> QED  BY <1>0, <1>1, <3>1, <3>2, FrameSends
  <2>3. JobFirst(s)'
    <3>1. spc[s] = "job" => cFatal[s] \/ cpc = "end"
      BY <1>0, <1>9 DEF FrameInvOf, JobFirst
    <3>2. cFatal[s] => toSrv' = toSrv
      BY <1>1 DEF ClientSend
    <3> QED  BY <1>1, <1>9, <3>1, <3>2 DEF JobFirst
  <2>4. SUFFICES ASSUME ~overrun
                 PROVE  RangeOfFrame(s)' /\ DataOfFrame(s)' /\ FrameBalance(s)' /\ WhyShort(s)'
    BY <1>1, <1>4, <1>13, <2>3 DEF FrameInvOf
  <2>5. RangeOfFrame(s)' /\ WhyShort(s)'
    BY <1>1, <2>1 DEF RangeOfFrame, WhyShort, Short
  <2>6. DataOfFrame(s)'
    BY <1>0, <1>1, <1>7, <1>10, <2>4 DEF FrameInvOf, DataOfFrame
  <2>7. FrameBalance(s)'
    BY <1>1, <1>12, <2>1, <2>2, <2>4 DEF FrameBalance
  <2> QED  BY <2>5, <2>6, <2>7
<1> QED  BY <1>14, <1>15

\* The steps of the client that send nothing and store nothing from a server.
LEMMA FrameQuietClient ==
    ASSUME IInv, FrameInv,
           \/ ClientGoLocal \/ ClientLocalDone \/ ClientLocalThrow \/ ClientSkip
           \/ ClientNoPacket \/ ClientPeek \/ ClientPassOver \/ ClientReadBroken
           \/ ClientScanEnd \/ ClientRescan \/ ClientReturn \/ ClientNextWorld
           \/ ClientExit
    PROVE  \A t \in Servers : FrameInvOf(t)'
<1>0. /\ TypeOK /\ AllHandedOut /\ (cpc = "failed" => overrun) /\ cFrame \in Nat
      /\ \A t \in Servers : FrameInvOf(t)
  <2>1. TypeOK /\ AllHandedOut /\ (cpc = "failed" => overrun) /\ \A t \in Servers : FrameInvOf(t)
    BY DEF IInv, FrameInv
  <2>2. cFrame \in 1..NFrames
    BY <2>1 DEF TypeOK, Frames
  <2> QED  BY <2>1, <2>2, ConstAssumption
<1>1. SUFFICES ASSUME NEW t \in Servers PROVE FrameInvOf(t)'
  OBVIOUS
<1>2. FrameSame(t) /\ cFatal' = cFatal
  BY DEF ClientGoLocal, ClientLocalDone, ClientLocalThrow, ClientSkip,
     ClientNoPacket, ClientPeek, ClientPassOver, ClientReadBroken, ClientScanEnd,
     ClientRescan, ClientReturn, ClientNextWorld, ClientExit, serverVars, linkVars,
     histVars, FrameSame
<1>3. CASE \/ ClientGoLocal \/ ClientLocalDone \/ ClientSkip \/ ClientNoPacket
           \/ ClientPassOver \/ ClientScanEnd \/ ClientRescan
  <2>1. /\ cpc # "end" /\ cpc' \notin {"read", "end"} /\ cFrame' = cFrame /\ overrun' = overrun
    BY <1>3 DEF ClientGoLocal, ClientLocalDone, ClientSkip, ClientNoPacket, ClientPassOver,
       ClientScanEnd, ClientRescan, StartScan, ScanNext, histVars
  <2>2. Released(t)' <=> Released(t)
    BY <1>2, <1>3 DEF ClientGoLocal, ClientLocalDone, ClientSkip, ClientNoPacket,
       ClientPassOver, ClientScanEnd, ClientRescan, StartScan, ScanNext, Released, FrameSame
  <2> QED  BY <1>0, <1>2, <2>1, <2>2, FrameClient
<1>4. CASE ClientPeek
  <2>1. /\ cpc # "end" /\ cFrame' = cFrame /\ overrun' = overrun /\ scanI' = scanI
        /\ Watched(scanI) /\ cpc = "scan" /\ cpc' = "read" /\ reply' = reply
    BY <1>4 DEF ClientPeek, histVars
  <2>2. Released(t)' <=> Released(t)
    BY <1>2, <2>1 DEF Released, FrameSame
  <2> QED  BY <1>0, <1>2, <2>1, <2>2, FrameClient
<1>5. CASE ClientLocalThrow \/ ClientReadBroken
  <2>1. overrun' /\ cpc # "end"
    BY <1>5 DEF ClientLocalThrow, ClientReadBroken
  <2> QED  BY <1>0, <1>2, <2>1, FrameClient
<1>6. CASE ClientReturn
  <2>1. /\ cpc = "scan" /\ reply /\ cpc' = "world" /\ cFrame' = cFrame
        /\ overrun => overrun'
    BY <1>0, <1>6 DEF ClientReturn, TypeOK
  <2>2. Released(t)' /\ (busy[t] = 0 => Released(t))
    BY <2>1 DEF Released
  <2> QED  BY <1>0, <1>2, <2>1, <2>2, FrameClient
<1>7. CASE ClientNextWorld
  <2>1. /\ cpc \in {"world", "failed"} /\ cpc' = "disp" /\ cFrame' = cFrame + 1
        /\ overrun' = overrun
    BY <1>7 DEF ClientNextWorld
  <2>2. ~overrun => cpc = "world" /\ ~Watched(t)
    BY <1>0, <2>1 DEF AllHandedOut
  <2>3. ~Released(t)' /\ (cpc = "world" => Released(t))
    BY <2>1 DEF Released
  <2>4. ~overrun => cFrame' + 0 = cFrame + 1
    BY <1>0, <2>1
  <2> QED  BY <1>0, <1>2, <2>1, <2>2, <2>3, <2>4, FrameClient DEF Watched
<1>8. CASE ClientExit
  <2>1. cpc' = "end" /\ cFrame' = cFrame /\ overrun' = overrun
    BY <1>8 DEF ClientExit, histVars
  <2> QED  BY <1>0, <1>2, <2>1, FrameClient
<1> QED  BY <1>3, <1>4, <1>5, <1>6, <1>7, <1>8

\* The image keeps to the client's frame.
LEMMA ImageOfFrame ==
    ASSUME IInv, FrameInv, [Next]_vars, ~ClientStore, ~ClientReadReused
    PROVE  FrameAgreement' /\ (cpc' = "failed" => overrun') /\ (~overrun' => cN' = NBuckets)
<1>0. /\ TypeOK /\ FrameAgreement /\ (cpc = "failed" => overrun)
      /\ (~overrun => cN = NBuckets)
  BY DEF IInv, FrameInv
<1>1. CASE ClientLocalThrow \/ ClientReadBroken
  BY <1>0, <1>1 DEF ClientLocalThrow, ClientReadBroken, FrameAgreement
<1>2. CASE ClientLocalDone
  <2>1. PICK failed : out' = [b \in Buckets |->
                    IF b \in (x1..(BatchEnd - 1)) \ failed
                    THEN Shows(b, cN, cFrame) ELSE out[b]]
    BY <1>2 DEF ClientLocalDone
  <2>2. /\ cFrame' = cFrame /\ overrun' = overrun /\ cpc' = "scan" /\ cN' = cN
        /\ Buckets' = Buckets
    BY <1>2 DEF ClientLocalDone, StartScan, Buckets
  <2>3. ~overrun => \A b \in Buckets : Shows(b, cN, cFrame) = cFrame
    BY <1>0, ConstAssumption DEF Shows, Buckets
  <2> QED  BY <1>0, <2>1, <2>2, <2>3 DEF FrameAgreement
<1>3. CASE ClientNextWorld
  <2>1. ~overrun => cpc = "world"
    BY <1>0, <1>3 DEF ClientNextWorld
  <2>2. ~overrun' => cN' = NBuckets
    BY <1>3, <2>1 DEF ClientNextWorld, NextList
  <2>3. cpc' # "failed" /\ \A b \in Buckets' : out'[b] = 0
    BY <1>3 DEF ClientNextWorld, Buckets
  <2> QED  BY <2>2, <2>3 DEF FrameAgreement
<1>4. CASE \/ ClientDispatch \/ ClientGoLocal \/ ClientSkip \/ ClientNoPacket \/ ClientPeek
           \/ ClientPassOver \/ ClientScanEnd \/ ClientBye \/ ClientRescan \/ ClientExit
  <2>1. UNCHANGED <<out, cFrame, cN, overrun>> /\ cpc' # "failed"
    BY <1>4 DEF ClientDispatch, ClientGoLocal, ClientSkip, ClientNoPacket, ClientPeek,
       ClientPassOver, ClientScanEnd, ClientBye, ClientRescan, ClientExit, StartScan,
       ScanNext, histVars
  <2> QED  BY <1>0, <2>1 DEF FrameAgreement, Buckets
<1>5. CASE ClientReturn
  <2>1. UNCHANGED <<out, cFrame, cN>> /\ cpc' = "world" /\ (overrun => overrun')
    BY <1>0, <1>5 DEF ClientReturn, TypeOK
  <2> QED  BY <1>0, <2>1 DEF FrameAgreement, Buckets
<1>6. ASSUME NEW s \in Servers,
             FileServerTake(s) \/ FileServerAnswer(s) \/ ServerStep(s) \/ LinkStep(s)
      PROVE  FrameAgreement' /\ (cpc' = "failed" => overrun') /\ (~overrun' => cN' = NBuckets)
  <2>1. UNCHANGED <<out, cFrame, cN, overrun, cpc>>
    BY <1>6, OutsideClient
  <2> QED  BY <1>0, <2>1 DEF FrameAgreement, Buckets
<1>7. CASE UNCHANGED vars
  BY <1>0, <1>7 DEF vars, clientVars, histVars, FrameAgreement, Buckets
<1> QED  BY <1>1, <1>2, <1>3, <1>4, <1>5, <1>6, <1>7 DEF Next, ClientStep

\* No Render was called yet: every server reached is due the client's frame.
LEMMA InitFrameInv == Init => FrameInv
<1> SUFFICES ASSUME Init PROVE FrameInv
  OBVIOUS
<1>1. FrameAgreement /\ (cpc = "failed" => overrun) /\ cN = NBuckets
  BY DEF Init, FrameAgreement
<1>2. SUFFICES ASSUME NEW s \in Servers PROVE FrameInvOf(s)
  BY <1>1 DEF FrameInv
<1>3. /\ busy[s] = 0 /\ cpc = "disp" /\ cFrame = 1 /\ sFrame[s] = 1
      /\ recvQ[s] = << >> /\ wire[s] = << >>
  BY DEF Init
<1>4. /\ spc[s] \in {"job", "closed"}
      /\ spc[s] = "job" => toSrv[s] = <<MsgRendJob>>
  BY DEF Init
<1>5. DataAt(s) = {} /\ ~Working(s) /\ ~Released(s)
  BY <1>3, <1>4 DEF DataAt, FlightLen, Working, FileReqIDs, Released
<1>6. ~Abandoned(s) /\ ~Short(s)
  BY <1>3 DEF Abandoned, Short
<1>7. spc[s] = "job" => RendDonesIn(toSrv[s]) = 0
  <2>1. MsgRendJob \in CtlMsg /\ MsgRendJob.id = "RENDJOB"
    BY MessageTypes DEF MsgRendJob
  <2>2. << >> \in Seq(CtlMsg) /\ <<MsgRendJob>> = Append(<< >>, MsgRendJob)
    BY <2>1
  <2>3. RendDonesIn(Append(<< >>, MsgRendJob)) = RendDonesIn(<< >>) + 0
    BY <2>1, <2>2, DonesAppend
  <2> QED  BY <1>4, <2>2, <2>3, DonesEmpty
<1>8. JobFirst(s)
  BY <1>4 DEF JobFirst, MsgRendJob
<1>9. RangeOfFrame(s) /\ DataOfFrame(s) /\ WhyShort(s)
  BY <1>3, <1>5, <1>6 DEF RangeOfFrame, DataOfFrame, WhyShort
<1>10. FrameBalance(s)
  BY <1>3, <1>4, <1>5, <1>7 DEF FrameBalance, FrameDue
<1> QED  BY <1>8, <1>9, <1>10 DEF FrameInvOf

\* Every step keeps the frame invariant.
LEMMA FrameInvStep == IInv /\ FrameInv /\ [Next]_vars => FrameInv'
<1> SUFFICES ASSUME IInv, FrameInv, [Next]_vars PROVE FrameInv'
  OBVIOUS
<1>1. CASE ClientStore \/ ClientReadReused
  <2>1. /\ scanI \in Servers /\ cpc = "read" /\ StoreHead(scanI) /\ cpc' # "failed"
        /\ cN' = cN /\ overrun' = overrun
        /\ recvQ[scanI] # << >> /\ recvQ[scanI][1].id = "BUCKETDATA"
    <3>1. /\ cpc = "read" /\ StoreHead(scanI) /\ cpc' # "failed"
          /\ cN' = cN /\ overrun' = overrun
      BY <1>1 DEF ClientStore, ClientReadReused, StoreHead, ScanNext
    <3>2. scanI \in Servers
      BY <3>1 DEF IInv, PeekedDataStays
    <3>3. CASE ClientStore
      BY <3>1, <3>2, <3>3 DEF ClientStore, IInv, PeekedDataStays
    <3>4. CASE ClientReadReused
      <4>1. recvQ[scanI] \in Seq(SrvMsg)
        BY <3>2 DEF IInv, TypeOK
      <4> QED  BY <3>1, <3>2, <3>4, <4>1, SeqTail DEF ClientReadReused
    <3> QED  BY <1>1, <3>3, <3>4
  <2>2. (\A t \in Servers : FrameInvOf(t)') /\ FrameAgreement'
    BY <2>1, FrameStoreHead
  <2> QED  BY <2>1, <2>2 DEF FrameInv
<1>2. CASE ~ClientStore /\ ~ClientReadReused
  <2>1. FrameAgreement' /\ (cpc' = "failed" => overrun') /\ (~overrun' => cN' = NBuckets)
    BY <1>2, ImageOfFrame
  <2>2. SUFFICES \A t \in Servers : FrameInvOf(t)'
    BY <2>1 DEF FrameInv
  <2>3. CASE ClientStep
    BY <1>2, <2>3, FrameDispatch, FrameBye, FrameQuietClient DEF ClientStep
  <2>4. ASSUME NEW s \in Servers,
               FileServerTake(s) \/ FileServerAnswer(s) \/ ServerStep(s) \/ LinkStep(s)
        PROVE  \A t \in Servers : FrameInvOf(t)'
    BY <2>4, FrameQuietSteps, FrameEnds, FrameRendBuckets, FrameRangeOutside, FrameRequest, FrameSendData,
       FrameDelivers, FrameClientTailLost, FrameServerTailLost
       DEF ServerStep, LinkStep
  <2>5. CASE UNCHANGED vars
    <3>1. /\ UNCHANGED <<cpc, cFrame, scanI, reply, overrun, cFatal>>
          /\ \A t \in Servers : FrameSame(t) /\ cFatal'[t] = cFatal[t]
      BY <2>5 DEF vars, clientVars, serverVars, linkVars, histVars, FrameSame
    <3> QED  BY <3>1, FrameOthers DEF FrameInv
  <2> QED  BY <2>3, <2>4, <2>5 DEF Next
<1> QED  BY <1>1, <1>2

\* The frame invariant holds in every reachable state.
THEOREM FrameInvariance == Spec => []FrameInv
<1>1. Init => FrameInv
  BY InitFrameInv
<1>2. IInv /\ FrameInv /\ [Next]_vars => FrameInv'
  BY FrameInvStep
<1> QED  BY <1>1, <1>2, Invariance, PTL DEF Spec

(* As long as no Render of the client threw or returned early, no pixel of  *)
(* another frame gets into the client's image, whatever links fail, packets *)
(* are lost or servers throw and go on with longer lists of buckets.       *)
THEOREM FramesAgree == Spec => []FrameAgreement
<1>1. FrameInv => FrameAgreement
  BY DEF FrameInv
<1> QED  BY <1>1, FrameInvariance, PTL

(* Each live server gets exactly one RENDDONE per frame.  A server that     *)
(* threw out of its Render is the one exception.                           *)
THEOREM RendDonesBalanced ==
    ASSUME "serverThrow" \notin Faults
    PROVE  Spec => []RendDoneBalance
<1>1. IInv /\ FrameInv => RendDoneBalance
  <2> SUFFICES ASSUME IInv, FrameInv, NEW s \in Servers, ~overrun, ~cFatal[s], ~sFatal[s],
                      spc[s] # "closed", cpc # "end"
               PROVE  FrameDue(s) = cFrame + (IF Released(s) THEN 1 ELSE 0)
    BY DEF RendDoneBalance, FrameDue
  <2>1. RangeOfFrame(s) /\ FrameBalance(s) /\ WhyShort(s)
    BY DEF FrameInv, FrameInvOf
  <2>2. CASE busy[s] = 0
    BY <2>1, <2>2 DEF FrameBalance
  <2>3. CASE busy[s] # 0
    <3>0. TypeOK
      BY DEF IInv
    <3>1. busy[s] \in Nat \ {0}
      BY <2>3, <3>0, Counts, ConstAssumption
    <3>2. 1..busy[s] # {}
      BY <3>1, ConstAssumption
    <3>3. ~Short(s)
      BY <2>1 DEF WhyShort
    <3>4. ~Abandoned(s)
      BY <3>2, <3>3 DEF Abandoned, Short
    <3>5. FrameDue(s) = cFrame
      BY <2>1, <2>3, <3>4 DEF FrameBalance, RangeOfFrame
    <3>6. ~Released(s)
      BY <2>3 DEF Released, IInv, AllHandedOut, Watched
    <3>7. cFrame \in Nat
      BY <3>0, FrameTypes
    <3> QED  BY <3>5, <3>6, <3>7
  <2> QED  BY <2>2, <2>3
<1> QED  BY <1>1, Invariance, FrameInvariance, PTL
=============================================================================
