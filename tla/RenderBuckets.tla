---------------------------- MODULE RenderBuckets ----------------------------
(***************************************************************************)
(* Network rendering: the client's RenderBucketsClient::Render loop, the   *)
(* per-server FileServer threads it runs next to, and the render servers   *)
(* (serverTask, FileManagerNet, RenderBucketsServer).                      *)
(*                                                                         *)
(* One world (WorldBegin..WorldEnd) of the RIB file is one frame: every    *)
(* process parses the same file and calls its own Render once per frame.   *)
(* Transport is the contract of PacketLink: FIFO, nothing lost unless an   *)
(* end fails.  toSrv[s] is what server s can still read from the client    *)
(* (the server only reads by message id, so transit and receive queue need *)
(* not be told apart); wire[s] and recvQ[s] are the transit and the        *)
(* client's receive queue of server s, which the client does tell apart.   *)
(*                                                                         *)
(* Every process names a bucket by its index in the list of its own Hider. *)
(* A world appends its NBuckets buckets to that list; only the end of a    *)
(* Render that returned empties it, so the buckets of a world whose Render *)
(* threw stay in front of those of the next.  All worlds have the same     *)
(* resolution here (Hider.tla has mixed ones).                             *)
(***************************************************************************)
EXTENDS Integers, Sequences, FiniteSets

CONSTANTS
    NServers,     \* length of the server list
    NBuckets,     \* buckets that WorldBegin appends to the Hider's list
    BatchSize,    \* BUCKETS_BATCH_SIZE
    NFrames,      \* worlds in the RIB file
    NThreads,     \* std::thread::hardware_concurrency()
    MaxFileReqs,  \* bound: file requests of a server per frame
    Faults        \* which faults may happen, a subset of FaultKinds

FaultKinds == {"clientLink", "serverLink", "clientThrow", "serverThrow", "noFile",
               "longName", "exit"}

ASSUME ConstAssumption ==
    /\ NServers \in Nat \ {0}
    /\ NBuckets \in Nat \ {0}
    /\ BatchSize \in Nat \ {0}
    /\ NFrames \in Nat \ {0}
    /\ NThreads \in Nat \ {0}
    /\ MaxFileReqs \in Nat
    /\ Faults \subseteq FaultKinds

VARIABLES
    cpc, cFrame, cN, x1, scanI, peek, allDone, reply,  \* client main thread
    out,                    \* the client's image: frame per bucket of its list
    busy, cFatal,           \* per server: mBusyCnt; ~IsConnected()
    fsv,                    \* per server: request held by its FileServer thread
    spc, sRet, sFrame, sN, sFiles, sNext, sX2, sFatal,  \* per server: its process
    toSrv, ans, wire, recvQ,                        \* per server: the links
    batch, overrun,         \* history: last range sent to s; Render gave up early
    holes                   \* history: buckets of out whose task failed unnoticed

clientVars == <<cpc, cFrame, cN, x1, scanI, peek, allDone, reply>>
serverVars == <<spc, sRet, sFrame, sN, sFiles, sNext, sX2, sFatal>>
linkVars   == <<toSrv, ans, wire, recvQ>>
histVars   == <<batch, overrun, holes>>
vars == <<clientVars, out, busy, cFatal, fsv, serverVars, linkVars, histVars>>

Servers == 1..NServers
Buckets == 0..(cN - 1)           \* the client's list
Frames  == 1..NFrames

\* The length of the list in the next world, n being that of a world that ended.
NextList(n, returned) == IF returned THEN NBuckets ELSE n + NBuckets

(* What bucket i of a list of length n shows in frame f: a bucket that an   *)
(* abandoned world left there still has the primitives of that world too.  *)
Several == -1

Shows(i, n, f) == IF i < n - NBuckets THEN Several ELSE f

----------------------------------------------------------------------------
(* Messages.  A BUCKETDATA message also carries what its pixels show,      *)
(* which the real message does not: a frame, or 0 if they were not made.   *)

FileReqIDs == {"FILEREQ", "FILEEXISTREQ"}
Shown == {Several} \cup 0..NFrames
SrvMsg == [id : FileReqIDs \cup {"BUCKETDATA"}, idx : Nat, frame : Shown]
CtlMsg == [id : {"RENDJOB", "RENDBUCKETS", "RENDDONE"}, x1 : Nat, x2 : Nat]
AnsIDs == {"FILEREQANS_DATA", "FILEREQANS_FAIL", "FILEEXISTANSYES", "FILEEXISTANSNO"}

MsgRendJob           == [id |-> "RENDJOB", x1 |-> 0, x2 |-> 0]
MsgRendBuckes(a, b)  == [id |-> "RENDBUCKETS", x1 |-> a, x2 |-> b]
MsgRendDone          == [id |-> "RENDDONE", x1 |-> 0, x2 |-> 0]
MsgBucketData(b, f)  == [id |-> "BUCKETDATA", idx |-> b, frame |-> f]
FileReq(id)          == [id |-> id, idx |-> 0, frame |-> 0]

AnswersTo(id) == IF id = "FILEREQ" THEN {"FILEREQANS_DATA", "FILEREQANS_FAIL"}
                                   ELSE {"FILEEXISTANSYES", "FILEEXISTANSNO"}

\* Mutant: a FileServer that takes whatever packet comes first.
AnyMessageIn(q) == DOMAIN q

FileReqsIn(q) == {i \in DOMAIN q : q[i].id \in FileReqIDs}
IsFirst(i, S) == i \in S /\ \A j \in S : i <= j
DropAt(q, i)  == SubSeq(q, 1, i - 1) \o SubSeq(q, i + 1, Len(q))

----------------------------------------------------------------------------
(* InitServers has connected to some of the servers and sent each of them  *)
(* the job; a server that was not reached plays no part.                   *)

Init ==
    \E up \in SUBSET Servers :
        /\ cpc = "disp" /\ cFrame = 1 /\ cN = NBuckets /\ x1 = 0
        /\ scanI = 1 /\ peek = "none" /\ allDone = TRUE /\ reply = FALSE
        /\ out = [b \in Buckets |-> 0]
        /\ busy = [s \in Servers |-> 0]
        /\ cFatal = [s \in Servers |-> s \notin up]
        /\ fsv = [s \in Servers |-> "none"]
        /\ spc = [s \in Servers |-> IF s \in up THEN "job" ELSE "closed"]
        /\ sRet = [s \in Servers |-> "job"]
        /\ sFrame = [s \in Servers |-> 1] /\ sN = [s \in Servers |-> NBuckets]
        /\ sFiles = [s \in Servers |-> 0]
        /\ sNext = [s \in Servers |-> 0] /\ sX2 = [s \in Servers |-> 0]
        /\ sFatal = [s \in Servers |-> s \notin up]
        /\ toSrv = [s \in Servers |-> IF s \in up THEN <<MsgRendJob>> ELSE << >>]
        /\ ans = [s \in Servers |-> << >>]
        /\ wire = [s \in Servers |-> << >>] /\ recvQ = [s \in Servers |-> << >>]
        /\ batch = [s \in Servers |-> [x1 |-> 0, x2 |-> 0, frame |-> 0]]
        /\ overrun = FALSE /\ holes = {}

----------------------------------------------------------------------------
(* The client's main thread: RenderBucketsClient::Render.                  *)

\* A link whose PacketManager is a zombie (mFatalError) transmits nothing.
ClientSend(q, s, m) == IF cFatal[s] THEN q ELSE [q EXCEPT ![s] = Append(@, m)]

BatchEnd == IF x1 + BatchSize < cN THEN x1 + BatchSize ELSE cN

\* Mutant: findFreeServer that forgets mBusyCnt.
ConnectedServers == {s \in Servers : ~cFatal[s]}

FreeServers == {s \in Servers : ~cFatal[s] /\ busy[s] = 0}

StartScan(withReply) ==
    /\ cpc' = "scan" /\ scanI' = 1 /\ allDone' = TRUE /\ peek' = "none"
    /\ reply' = withReply

\* Mutant: mBusyCnt grows by the batch size, also for the short last batch.
DispatchCountsFullBatch ==
    /\ cpc = "disp"
    /\ \E s \in Servers :
       /\ IsFirst(s, FreeServers)
       /\ toSrv' = ClientSend(toSrv, s, MsgRendBuckes(x1, BatchEnd))
       /\ busy' = [busy EXCEPT ![s] = @ + BatchSize]
       /\ batch' = [batch EXCEPT ![s] = [x1 |-> x1, x2 |-> BatchEnd, frame |-> cFrame]]
    /\ x1' = BatchEnd
    /\ StartScan(FALSE)
    /\ UNCHANGED <<cFrame, cN, out, cFatal, fsv, serverVars, ans, wire, recvQ, overrun, holes>>

\* The next batch goes to the first free server of the list.
ClientDispatch ==
    /\ cpc = "disp"
    /\ \E s \in Servers :
       /\ IsFirst(s, FreeServers)
       /\ toSrv' = ClientSend(toSrv, s, MsgRendBuckes(x1, BatchEnd))
       /\ busy' = [busy EXCEPT ![s] = @ + (BatchEnd - x1)]
       /\ batch' = [batch EXCEPT ![s] = [x1 |-> x1, x2 |-> BatchEnd, frame |-> cFrame]]
    /\ x1' = BatchEnd
    /\ StartScan(FALSE)
    /\ UNCHANGED <<cFrame, cN, out, cFatal, fsv, serverVars, ans, wire, recvQ, overrun, holes>>

(* ParallelTasks: AddTask starts a task and, once NThreads are under way,   *)
(* gets the result of the oldest, and with it its exception.  The results   *)
(* of the last NThreads - 1 tasks of a..(b - 1) are never got: the          *)
(* destructor waits for the tasks and drops their exceptions.               *)
NeverGot(a, b) == {i \in a..(b - 1) : i > b - NThreads}

\* No free server: the batch is rendered here (ParallelTasks joins its tasks).
ClientGoLocal ==
    /\ cpc = "disp" /\ FreeServers = {}
    /\ cpc' = "local"
    /\ UNCHANGED <<cFrame, cN, x1, scanI, peek, allDone, reply, out, busy, cFatal, fsv,
                   serverVars, linkVars, histVars>>

\* Mutant: the local loop stops one bucket early.
LocalDoneSkipsLast ==
    /\ cpc = "local"
    /\ out' = [b \in Buckets |->
                IF b \in x1..(BatchEnd - 2) THEN Shows(b, cN, cFrame) ELSE out[b]]
    /\ x1' = BatchEnd
    /\ StartScan(FALSE)
    /\ UNCHANGED <<cFrame, cN, busy, cFatal, fsv, serverVars, linkVars, histVars>>

ClientLocalDone ==
    /\ cpc = "local"
    /\ \E failed \in SUBSET NeverGot(x1, BatchEnd) :
       /\ failed # {} => "clientThrow" \in Faults
       /\ out' = [b \in Buckets |->
                    IF b \in (x1..(BatchEnd - 1)) \ failed
                    THEN Shows(b, cN, cFrame) ELSE out[b]]
       /\ holes' = holes \cup failed
    /\ x1' = BatchEnd
    /\ StartScan(FALSE)
    /\ UNCHANGED <<cFrame, cN, busy, cFatal, fsv, serverVars, linkVars, batch, overrun>>

(* The exception of bucket task k is got: the tasks before it are done, the *)
(* NThreads - 1 started after it end somehow, and Render is left.           *)
ClientLocalThrow ==
    /\ "clientThrow" \in Faults
    /\ cpc = "local"
    /\ \E k \in x1..(BatchEnd - NThreads) :
       \E done \in SUBSET ((k + 1)..(k + NThreads - 1)) :
           out' = [b \in Buckets |->
               IF b \in (x1..(k - 1)) \cup done THEN Shows(b, cN, cFrame) ELSE out[b]]
    /\ cpc' = "failed" /\ overrun' = TRUE
    /\ UNCHANGED <<cFrame, cN, x1, scanI, peek, allDone, reply, busy, cFatal, fsv,
                   serverVars, linkVars, batch, holes>>

(* checkServersData, one server of the list per step.  The packet is peeked *)
(* and read in two steps: the FileServer thread of the same link may take   *)
(* and delete it in between.                                               *)

\* Mutant: checkServersData does not ask IsConnected.
WatchedWhenBusy(s) == busy[s] # 0

Watched(s) == ~cFatal[s] /\ busy[s] # 0

ScanNext == /\ scanI' = scanI + 1 /\ peek' = "none" /\ cpc' = "scan"

ClientSkip ==
    /\ cpc = "scan" /\ scanI \in Servers /\ ~Watched(scanI)
    /\ ScanNext
    /\ UNCHANGED <<cFrame, cN, x1, allDone, reply, out, busy, cFatal, fsv, serverVars,
                   linkVars, histVars>>

ClientNoPacket ==
    /\ cpc = "scan" /\ scanI \in Servers /\ Watched(scanI) /\ recvQ[scanI] = << >>
    /\ allDone' = FALSE
    /\ ScanNext
    /\ UNCHANGED <<cFrame, cN, x1, reply, out, busy, cFatal, fsv, serverVars, linkVars,
                   histVars>>

ClientPeek ==
    /\ cpc = "scan" /\ scanI \in Servers /\ Watched(scanI) /\ recvQ[scanI] # << >>
    /\ peek' = IF Head(recvQ[scanI]).id = "BUCKETDATA" THEN "data" ELSE "file"
    /\ cpc' = "read"
    /\ UNCHANGED <<cFrame, cN, x1, scanI, allDone, reply, out, busy, cFatal, fsv,
                   serverVars, linkVars, histVars>>

\* Mutant: RENDDONE is sent in the dispatch loop too.
StoreHeadAlwaysReplies(s) ==
    LET m == Head(recvQ[s]) IN
    /\ out' = [out EXCEPT ![m.idx] = m.frame]
    /\ recvQ' = [recvQ EXCEPT ![s] = Tail(@)]
    /\ busy' = [busy EXCEPT ![s] = @ - 1]
    /\ allDone' = (allDone /\ busy[s] = 1)
    /\ toSrv' = IF busy[s] = 1 THEN ClientSend(toSrv, s, MsgRendDone) ELSE toSrv
    /\ holes' = IF m.frame = 0 THEN holes \cup {m.idx} ELSE holes
    /\ ScanNext
    /\ UNCHANGED <<cFrame, cN, x1, reply, cFatal, fsv, serverVars, ans, wire, batch, overrun>>

\* BUCKETDATA: StoreOutputBucket, RemoveAndDeletePacket, mBusyCnt -= 1.
StoreHead(s) ==
    LET m == Head(recvQ[s]) IN
    /\ out' = [out EXCEPT ![m.idx] = m.frame]
    /\ recvQ' = [recvQ EXCEPT ![s] = Tail(@)]
    /\ busy' = [busy EXCEPT ![s] = @ - 1]
    /\ allDone' = (allDone /\ busy[s] = 1)
    /\ toSrv' = IF busy[s] = 1 /\ reply THEN ClientSend(toSrv, s, MsgRendDone) ELSE toSrv
    /\ holes' = IF m.frame = 0 THEN holes \cup {m.idx} ELSE holes
    /\ ScanNext
    /\ UNCHANGED <<cFrame, cN, x1, reply, cFatal, fsv, serverVars, ans, wire, batch, overrun>>

ClientStore == cpc = "read" /\ peek = "data" /\ StoreHead(scanI)

\* Any other message is passed over; allDone keeps its value.
ClientPassOver ==
    /\ cpc = "read" /\ peek # "data"
    /\ ScanNext
    /\ UNCHANGED <<cFrame, cN, x1, allDone, reply, out, busy, cFatal, fsv, serverVars,
                   linkVars, histVars>>

(* The peeked packet has been deleted: the read of freed memory may see the *)
(* old message (ClientPassOver), a packet allocated at the same address,    *)
(* or a size that makes the "broken packet" check throw.                   *)
ClientReadReused ==
    /\ cpc = "read" /\ peek = "freed"
    /\ recvQ[scanI] # << >> /\ Head(recvQ[scanI]).id = "BUCKETDATA"
    /\ StoreHead(scanI)

ClientReadBroken ==
    /\ cpc = "read" /\ peek = "freed"
    /\ cpc' = "failed" /\ overrun' = TRUE
    /\ UNCHANGED <<cFrame, cN, x1, scanI, peek, allDone, reply, out, busy, cFatal, fsv,
                   serverVars, linkVars, batch, holes>>

\* Mutant: the dispatch loop ends one bucket early.
ScanEndStopsEarly ==
    /\ cpc = "scan" /\ scanI > NServers /\ ~reply
    /\ cpc' = IF x1 < cN - 1 THEN "disp" ELSE "bye"
    /\ UNCHANGED <<cFrame, cN, x1, scanI, peek, allDone, reply, out, busy, cFatal, fsv,
                   serverVars, linkVars, histVars>>

\* End of one checkServersData call inside the dispatch loop.
ClientScanEnd ==
    /\ cpc = "scan" /\ scanI > NServers /\ ~reply
    /\ cpc' = IF x1 < cN THEN "disp" ELSE "bye"
    /\ UNCHANGED <<cFrame, cN, x1, scanI, peek, allDone, reply, out, busy, cFatal, fsv,
                   serverVars, linkVars, histVars>>

\* Mutant: RENDDONE goes to busy servers as well.
ByeToBusyToo ==
    /\ cpc = "bye"
    /\ toSrv' = [s \in Servers |->
                    IF cFatal[s] THEN toSrv[s] ELSE Append(toSrv[s], MsgRendDone)]
    /\ StartScan(TRUE)
    /\ UNCHANGED <<cFrame, cN, x1, out, busy, cFatal, fsv, serverVars, ans, wire, recvQ,
                   histVars>>

\* sendRendDoneToNotBusy, then the first checkServersData of the final loop.
ClientBye ==
    /\ cpc = "bye"
    /\ toSrv' = [s \in Servers |->
                    IF s \in FreeServers THEN Append(toSrv[s], MsgRendDone) ELSE toSrv[s]]
    /\ StartScan(TRUE)
    /\ UNCHANGED <<cFrame, cN, x1, out, busy, cFatal, fsv, serverVars, ans, wire, recvQ,
                   histVars>>

ClientRescan ==
    /\ cpc = "scan" /\ scanI > NServers /\ reply /\ ~allDone
    /\ StartScan(TRUE)
    /\ UNCHANGED <<cFrame, cN, x1, out, busy, cFatal, fsv, serverVars, linkVars, histVars>>

\* checkServersData returned true: Render returns.
ClientReturn ==
    /\ cpc = "scan" /\ scanI > NServers /\ reply /\ allDone
    /\ cpc' = "world"
    /\ overrun' = (overrun \/ \E s \in Servers : Watched(s))
    /\ UNCHANGED <<cFrame, cN, x1, scanI, peek, allDone, reply, out, busy, cFatal, fsv,
                   serverVars, linkVars, batch, holes>>

\* Mutant: the next world renders into the image of the last one.
NextWorldKeepsImage ==
    /\ cpc \in {"world", "failed"} /\ cFrame < NFrames
    /\ cpc' = "disp" /\ cFrame' = cFrame + 1 /\ x1' = 0
    /\ cN' = NextList(cN, cpc = "world")
    /\ out' = [b \in 0..(cN' - 1) |-> IF b \in Buckets THEN out[b] ELSE 0]
    /\ UNCHANGED <<scanI, peek, allDone, reply, busy, cFatal, fsv, serverVars,
                   linkVars, histVars>>

(* The next world: WorldBegin clears the image and appends its buckets, and *)
(* its WorldEnd calls Render again.  Hider::WorldEnd, which empties the     *)
(* list, was skipped if Render threw.                                      *)
ClientNextWorld ==
    /\ cpc \in {"world", "failed"} /\ cFrame < NFrames
    /\ cpc' = "disp" /\ cFrame' = cFrame + 1 /\ x1' = 0
    /\ cN' = NextList(cN, cpc = "world")
    /\ out' = [b \in 0..(cN' - 1) |-> 0] /\ holes' = {}
    /\ UNCHANGED <<scanI, peek, allDone, reply, busy, cFatal, fsv, serverVars,
                   linkVars, batch, overrun>>

\* The client process ends.
ClientExit ==
    /\ cpc \in {"world", "failed"} /\ cFrame = NFrames
    /\ cpc' = "end"
    /\ UNCHANGED <<cFrame, cN, x1, scanI, peek, allDone, reply, out, busy, cFatal, fsv,
                   serverVars, linkVars, histVars>>

ClientStep ==
    \/ ClientDispatch \/ ClientGoLocal \/ ClientLocalDone \/ ClientLocalThrow
    \/ ClientSkip \/ ClientNoPacket \/ ClientPeek
    \/ ClientStore \/ ClientPassOver \/ ClientReadReused \/ ClientReadBroken
    \/ ClientScanEnd \/ ClientBye \/ ClientRescan \/ ClientReturn
    \/ ClientNextWorld \/ ClientExit

----------------------------------------------------------------------------
(* The FileServer thread of link s, in the client process.                 *)

\* WaitNextPacketMatchID32 takes the first file request out of the queue.
FileServerTake(s) ==
    /\ cpc # "end" /\ fsv[s] = "none" /\ ~cFatal[s]
    /\ \E i \in DOMAIN recvQ[s] :
       /\ IsFirst(i, FileReqsIn(recvQ[s]))
       /\ fsv' = [fsv EXCEPT ![s] = recvQ[s][i].id]
       /\ recvQ' = [recvQ EXCEPT ![s] = DropAt(@, i)]
    /\ peek' = IF cpc = "read" /\ scanI = s /\ peek = "file" THEN "taken" ELSE peek
    /\ UNCHANGED <<cpc, cFrame, cN, x1, scanI, allDone, reply, out, busy, cFatal,
                   serverVars, toSrv, ans, wire, histVars>>

\* Mutant: a file that cannot be opened is not answered.
AnswerOnlySuccess(s) ==
    /\ cpc # "end" /\ fsv[s] # "none"
    /\ \E a \in AnswersTo(fsv[s]) :
          ans' = IF a = "FILEREQANS_FAIL" THEN ans ELSE ClientSend(ans, s, a)
    /\ fsv' = [fsv EXCEPT ![s] = "none"]
    /\ peek' = IF cpc = "read" /\ scanI = s /\ peek = "taken" THEN "freed" ELSE peek
    /\ UNCHANGED <<cpc, cFrame, cN, x1, scanI, allDone, reply, out, busy, cFatal,
                   serverVars, toSrv, wire, recvQ, histVars>>

(* Sends the answer, then deletes the request packet.  The client has read  *)
(* the RIB file itself before it renders: that request only fails if the   *)
(* file went away ("noFile").  A name of 1024 characters or more is a "bad *)
(* filename": makeString fails and the request is dropped ("longName"; the *)
(* name of the RIB file came in 512 characters and is short).              *)
FileServerAnswer(s) ==
    /\ cpc # "end" /\ fsv[s] # "none"
    /\ \/ \E a \in AnswersTo(fsv[s]) :
             /\ (a = "FILEREQANS_FAIL" /\ sRet[s] = "job") => "noFile" \in Faults
             /\ ans' = ClientSend(ans, s, a)
       \/ "longName" \in Faults /\ sRet[s] # "job" /\ UNCHANGED ans
    /\ fsv' = [fsv EXCEPT ![s] = "none"]
    /\ peek' = IF cpc = "read" /\ scanI = s /\ peek = "taken" THEN "freed" ELSE peek
    /\ UNCHANGED <<cpc, cFrame, cN, x1, scanI, allDone, reply, out, busy, cFatal,
                   serverVars, toSrv, wire, recvQ, histVars>>

----------------------------------------------------------------------------
(* The server process s: serverTask, the parse of the RIB file, Render.    *)

ServerSend(s, m) ==
    wire' = IF sFatal[s] THEN wire ELSE [wire EXCEPT ![s] = Append(@, m)]

Goto(s, pc) == spc' = [spc EXCEPT ![s] = pc]

\* Mutant: mMutex is not held, the caller goes on and may ask again.
RequestWithoutWait(s, id, ret) ==
    /\ ServerSend(s, FileReq(id))
    /\ Goto(s, "parse") /\ sRet' = [sRet EXCEPT ![s] = ret]

\* FileManagerNet: send the request (under mMutex) and wait for its answer.
RequestFile(s, id, ret) ==
    /\ ServerSend(s, FileReq(id))
    /\ Goto(s, id) /\ sRet' = [sRet EXCEPT ![s] = ret]

\* serverTask has the job; Render() first grabs the RIB file itself.
ServerJob(s) ==
    /\ spc[s] = "job" /\ ~sFatal[s] /\ toSrv[s] # << >>
    /\ toSrv' = [toSrv EXCEPT ![s] = Tail(@)]
    /\ RequestFile(s, "FILEREQ", "job")
    /\ UNCHANGED <<clientVars, out, busy, cFatal, fsv, sFrame, sN, sFiles, sNext, sX2,
                   sFatal, ans, recvQ, histVars>>

\* A shader, archive or texture is looked up while parsing or rendering.
ServerRequest(s) ==
    /\ spc[s] \in {"parse", "rend"} /\ sFiles[s] < MaxFileReqs
    /\ \E id \in FileReqIDs : RequestFile(s, id, spc[s])
    /\ sFiles' = [sFiles EXCEPT ![s] = @ + 1]
    /\ UNCHANGED <<clientVars, out, busy, cFatal, fsv, sFrame, sN, sNext, sX2, sFatal,
                   toSrv, ans, recvQ, histVars>>

(* The answer arrives, or the link is found broken and GrabFile throws.     *)
(* Without the RIB file serverTask gives up; any other failed look-up is    *)
(* caught command by command in readArchive.                               *)
AfterAnswer(s, ok) ==
    IF sRet[s] # "job" THEN sRet[s] ELSE IF ok THEN "parse" ELSE "closed"

ServerAnswered(s) ==
    /\ spc[s] \in FileReqIDs /\ ~sFatal[s] /\ ans[s] # << >>
    /\ Head(ans[s]) \in AnswersTo(spc[s])
    /\ ans' = [ans EXCEPT ![s] = Tail(@)]
    /\ Goto(s, AfterAnswer(s, Head(ans[s]) = "FILEREQANS_DATA"))
    /\ UNCHANGED <<clientVars, out, busy, cFatal, fsv, sRet, sFrame, sN, sFiles, sNext, sX2,
                   sFatal, toSrv, wire, recvQ, histVars>>

ServerFileBroken(s) ==
    /\ spc[s] \in FileReqIDs /\ sFatal[s]
    /\ Goto(s, AfterAnswer(s, FALSE))
    /\ UNCHANGED <<clientVars, out, busy, cFatal, fsv, sRet, sFrame, sN, sFiles, sNext, sX2,
                   sFatal, linkVars, histVars>>

\* WorldEnd of the server's own parse: RenderBucketsServer::Render starts.
ServerWorldEnd(s) ==
    /\ spc[s] = "parse" /\ Goto(s, "wait")
    /\ UNCHANGED <<clientVars, out, busy, cFatal, fsv, sRet, sFrame, sN, sFiles, sNext, sX2,
                   sFatal, linkVars, histVars>>

\* Render is over: parse on to the next world, or finish and close.
EndFrame(s, returned) ==
    IF sFrame[s] < NFrames
    THEN /\ Goto(s, "parse") /\ sFrame' = [sFrame EXCEPT ![s] = @ + 1]
         /\ sN' = [sN EXCEPT ![s] = NextList(@, returned)]
         /\ sFiles' = [sFiles EXCEPT ![s] = 0]
    ELSE Goto(s, "closed") /\ UNCHANGED <<sFrame, sN, sFiles>>

RangeAtHead(s) == toSrv[s] # << >> /\ Head(toSrv[s]).id = "RENDBUCKETS"

ServerRendBuckets(s) ==
    /\ spc[s] = "wait" /\ ~sFatal[s] /\ RangeAtHead(s)
    /\ Head(toSrv[s]).x2 <= sN[s]
    /\ sNext' = [sNext EXCEPT ![s] = Head(toSrv[s]).x1]
    /\ sX2' = [sX2 EXCEPT ![s] = Head(toSrv[s]).x2]
    /\ toSrv' = [toSrv EXCEPT ![s] = Tail(@)]
    /\ Goto(s, "rend")
    /\ UNCHANGED <<clientVars, out, busy, cFatal, fsv, sRet, sFrame, sN, sFiles, sFatal,
                   ans, wire, recvQ, histVars>>

(* rendBucketsRange is given buckets that are not in its list: the range   *)
(* check fails, or the tasks follow pointers from beyond the array.  The   *)
(* process ends either way.                                                *)
ServerRangeOutside(s) ==
    /\ spc[s] = "wait" /\ ~sFatal[s] /\ RangeAtHead(s)
    /\ Head(toSrv[s]).x2 > sN[s]
    /\ toSrv' = [toSrv EXCEPT ![s] = Tail(@)]
    /\ Goto(s, "closed")
    /\ UNCHANGED <<clientVars, out, busy, cFatal, fsv, sRet, sFrame, sN, sFiles, sNext, sX2,
                   sFatal, ans, wire, recvQ, histVars>>

ServerRendDone(s) ==
    /\ spc[s] = "wait" /\ ~sFatal[s] /\ toSrv[s] # << >>
    /\ Head(toSrv[s]).id = "RENDDONE"
    /\ toSrv' = [toSrv EXCEPT ![s] = Tail(@)]
    /\ EndFrame(s, TRUE)
    /\ UNCHANGED <<clientVars, out, busy, cFatal, fsv, sRet, sNext, sX2, sFatal,
                   ans, wire, recvQ, histVars>>

\* "Connection interrupted, but no DONE rendering message received".
ServerInterrupted(s) ==
    /\ spc[s] = "wait" /\ sFatal[s]
    /\ EndFrame(s, TRUE)
    /\ UNCHANGED <<clientVars, out, busy, cFatal, fsv, sRet, sNext, sX2, sFatal,
                   linkVars, histVars>>

\* serverTask waits for the job with no timeout and returns on a dead link.
ServerNoJob(s) ==
    /\ spc[s] = "job" /\ sFatal[s] /\ Goto(s, "closed")
    /\ UNCHANGED <<clientVars, out, busy, cFatal, fsv, sRet, sFrame, sN, sFiles, sNext, sX2,
                   sFatal, linkVars, histVars>>

\* rendBucketsRange has joined its tasks.
ServerRendered(s) ==
    /\ spc[s] = "rend" /\ Goto(s, "send")
    /\ UNCHANGED <<clientVars, out, busy, cFatal, fsv, sRet, sFrame, sN, sFiles, sNext, sX2,
                   sFatal, linkVars, histVars>>

\* The exception of a bucket task is got; readArchive catches it and parses on.
ServerThrow(s) ==
    /\ "serverThrow" \in Faults
    /\ spc[s] = "rend" /\ sNext[s] <= sX2[s] - NThreads
    /\ EndFrame(s, FALSE)
    /\ UNCHANGED <<clientVars, out, busy, cFatal, fsv, sRet, sNext, sX2, sFatal,
                   linkVars, histVars>>

\* sendBucketsData, one bucket per step; the task of this one may have failed.
ServerSendData(s) ==
    /\ spc[s] = "send"
    /\ \E frame \in {0, Shows(sNext[s], sN[s], sFrame[s])} :
       /\ frame = 0 => "serverThrow" \in Faults /\ sNext[s] \in NeverGot(0, sX2[s])
       /\ ServerSend(s, MsgBucketData(sNext[s], frame))
    /\ sNext' = [sNext EXCEPT ![s] = @ + 1]
    /\ Goto(s, IF sNext[s] + 1 < sX2[s] THEN "send" ELSE "wait")
    /\ UNCHANGED <<clientVars, out, busy, cFatal, fsv, sRet, sFrame, sN, sFiles, sX2, sFatal,
                   toSrv, ans, recvQ, histVars>>

ServerStep(s) ==
    \/ ServerJob(s) \/ ServerNoJob(s) \/ ServerRequest(s) \/ ServerAnswered(s)
    \/ ServerFileBroken(s) \/ ServerWorldEnd(s) \/ ServerRendBuckets(s)
    \/ ServerRangeOutside(s) \/ ServerRendDone(s) \/ ServerInterrupted(s) \/ ServerRendered(s)
    \/ ServerThrow(s) \/ ServerSendData(s)

----------------------------------------------------------------------------
(* The links, external to the two programs.                                *)

\* The client's PacketManager thread completes a packet of server s.
Deliver(s) ==
    /\ wire[s] # << >> /\ ~cFatal[s] /\ cpc # "end"
    /\ recvQ' = [recvQ EXCEPT ![s] = Append(@, Head(wire[s]))]
    /\ wire' = [wire EXCEPT ![s] = Tail(@)]
    /\ UNCHANGED <<clientVars, out, busy, cFatal, fsv, serverVars, toSrv, ans, histVars>>

\* A socket call of one end fails: mFatalError, for good.
ClientLinkFails(s) ==
    /\ "clientLink" \in Faults /\ ~cFatal[s]
    /\ cFatal' = [cFatal EXCEPT ![s] = TRUE]
    /\ UNCHANGED <<clientVars, out, busy, fsv, serverVars, linkVars, histVars>>

ServerLinkFails(s) ==
    /\ "serverLink" \in Faults /\ ~sFatal[s]
    /\ sFatal' = [sFatal EXCEPT ![s] = TRUE]
    /\ UNCHANGED <<clientVars, out, busy, cFatal, fsv, spc, sRet, sFrame, sN, sFiles, sNext,
                   sX2, linkVars, histVars>>

(* What an end had queued but not transmitted when it failed or quit never *)
(* arrives: KillThread does not flush the send queue.                      *)
ClientTailLost(s) ==
    /\ cFatal[s] \/ (cpc = "end" /\ "exit" \in Faults)
    /\ \/ /\ toSrv[s] # << >>
          /\ toSrv' = [toSrv EXCEPT ![s] = SubSeq(@, 1, Len(@) - 1)]
          /\ UNCHANGED ans
       \/ /\ ans[s] # << >>
          /\ ans' = [ans EXCEPT ![s] = SubSeq(@, 1, Len(@) - 1)]
          /\ UNCHANGED toSrv
    /\ UNCHANGED <<clientVars, out, busy, cFatal, fsv, serverVars, wire, recvQ, histVars>>

ServerTailLost(s) ==
    /\ sFatal[s] \/ (spc[s] = "closed" /\ "exit" \in Faults)
    /\ wire[s] # << >>
    /\ wire' = [wire EXCEPT ![s] = SubSeq(@, 1, Len(@) - 1)]
    /\ UNCHANGED <<clientVars, out, busy, cFatal, fsv, serverVars, toSrv, ans, recvQ,
                   histVars>>

LinkStep(s) ==
    \/ Deliver(s) \/ ClientLinkFails(s) \/ ServerLinkFails(s)
    \/ ClientTailLost(s) \/ ServerTailLost(s)

Next ==
    \/ ClientStep
    \/ \E s \in Servers :
          FileServerTake(s) \/ FileServerAnswer(s) \/ ServerStep(s) \/ LinkStep(s)

(* Every thread keeps running and the network keeps moving; faults are     *)
(* free to happen or not.                                                  *)
Fairness ==
    /\ WF_vars(ClientStep)
    /\ \A s \in Servers :
          /\ WF_vars(FileServerTake(s)) /\ WF_vars(FileServerAnswer(s))
          /\ WF_vars(ServerStep(s)) /\ WF_vars(Deliver(s))

Spec == Init /\ [][Next]_vars

FairSpec == Spec /\ Fairness

----------------------------------------------------------------------------
(* Properties.                                                             *)

ClientPCs == {"disp", "local", "scan", "read", "bye", "world", "failed", "end"}
ServerPCs == {"job", "parse", "wait", "rend", "send", "closed"} \cup FileReqIDs

\* The state keeps to its types: indices, counters and message queues.
TypeOK ==
    /\ cpc \in ClientPCs /\ cFrame \in Frames
    /\ cN \in Nat /\ NBuckets <= cN /\ x1 \in 0..cN
    /\ scanI \in 1..(NServers + 1)
    /\ peek \in {"none", "data", "file", "taken", "freed"}
    /\ allDone \in BOOLEAN /\ reply \in BOOLEAN /\ overrun \in BOOLEAN
    /\ holes \subseteq Buckets
    /\ out \in [Buckets -> Shown]
    /\ busy \in [Servers -> Nat]
    /\ cFatal \in [Servers -> BOOLEAN] /\ sFatal \in [Servers -> BOOLEAN]
    /\ fsv \in [Servers -> FileReqIDs \cup {"none"}]
    /\ spc \in [Servers -> ServerPCs]
    /\ sRet \in [Servers -> {"job", "parse", "rend"}]
    /\ sFrame \in [Servers -> Frames] /\ sN \in [Servers -> Nat]
    /\ sFiles \in [Servers -> 0..MaxFileReqs]
    /\ sNext \in [Servers -> Nat] /\ sX2 \in [Servers -> Nat]
    /\ toSrv \in [Servers -> Seq(CtlMsg)] /\ ans \in [Servers -> Seq(AnsIDs)]
    /\ wire \in [Servers -> Seq(SrvMsg)] /\ recvQ \in [Servers -> Seq(SrvMsg)]
    /\ batch \in [Servers -> [x1 : Nat, x2 : Nat, frame : 0..NFrames]]

(* What server s has sent and the client has not consumed, oldest first:   *)
(* FlightLen(s) messages, the k-th of which is Flight(s, k).               *)
FlightLen(s) == Len(recvQ[s]) + Len(wire[s])
Flight(s, k) == IF k <= Len(recvQ[s]) THEN recvQ[s][k] ELSE wire[s][k - Len(recvQ[s])]

DataAt(s) == {k \in 1..FlightLen(s) : Flight(s, k).id = "BUCKETDATA"}
FileAt(s) == {k \in 1..FlightLen(s) : Flight(s, k).id \in FileReqIDs}

\* Server s has taken a RENDBUCKETS message and not sent all its data.
Working(s) == spc[s] \in {"rend", "send"} \/ (spc[s] \in FileReqIDs /\ sRet[s] = "rend")

\* The first of the buckets, in the last range given to s, not stored yet.
FirstOut(s) == batch[s].x2 - busy[s]

Outstanding(s) == FirstOut(s)..(batch[s].x2 - 1)

(* A file request and bucket data of one server are never under way        *)
(* together: a server asks for files only when all the pixels it has sent  *)
(* are stored, so neither reader of the client's receive queue (the Render *)
(* loop, which only looks at the head, and the FileServer thread) can be   *)
(* held up by messages for the other.                                      *)
Unmixed(s) == FileAt(s) # {} => FlightLen(s) = 1

QueueUnmixed == \A s \in Servers : Unmixed(s)

(* mBusyCnt accounts for every bucket message of its server: the k-th one   *)
(* in flight is the k-th bucket not yet stored of the last range given to  *)
(* it, so none is ever ignored because mBusyCnt is 0, stored twice or out  *)
(* of range, and mBusyCnt stays >= 0 (the assertion of findFreeServer).    *)
BusyAccountsFor(s) ==
    /\ busy[s] <= batch[s].x2
    /\ \A k \in DataAt(s) :
          /\ k <= busy[s]
          /\ Flight(s, k).idx = FirstOut(s) + k - 1

BusyAccounts == \A s \in Servers : BusyAccountsFor(s)

(* A server is given at most one range at a time, and nothing (no RENDDONE *)
(* and no other range) follows it until its last bucket is stored: the     *)
(* range is unread in the server's queue, or the server works on it, and   *)
(* then what it has still to send are the last of the outstanding buckets. *)
RangeUnread(s) ==
    \A k \in DOMAIN toSrv[s] : toSrv[s][k].id = "RENDBUCKETS" =>
        /\ k = Len(toSrv[s])
        /\ toSrv[s][k].x1 = FirstOut(s) /\ toSrv[s][k].x2 = batch[s].x2
        /\ FirstOut(s) < batch[s].x2

RangeInWork(s) ==
    Working(s) =>
        /\ sX2[s] = batch[s].x2
        /\ FirstOut(s) <= sNext[s] /\ sNext[s] < batch[s].x2
        /\ \A k \in DataAt(s) : Flight(s, k).idx < sNext[s]
        /\ ~sFatal[s] =>
              sNext[s] = FirstOut(s) + (IF spc[s] = "send" THEN FlightLen(s) ELSE 0)

OneRange(s) ==
    /\ RangeUnread(s)
    /\ RangeInWork(s)
    /\ toSrv[s] # << >> => ~Working(s) /\ DataAt(s) = {}

OneRangeAtATime == \A s \in Servers : OneRange(s)

HasRange(s) == \E k \in DOMAIN toSrv[s] : toSrv[s][k].id = "RENDBUCKETS"

\* The client waits for buckets of s that nobody will send any more.
Abandoned(s) == busy[s] # 0 /\ ~HasRange(s) /\ ~Working(s) /\ DataAt(s) = {}

(* Whatever worlds were abandoned, on either side, a bucket that a server  *)
(* works on or has sent is in both lists: one whose own Render threw gets  *)
(* no other range, since the client waits for that one for good or the     *)
(* link is dead, and one that did not has the buckets of one world, which  *)
(* any list begins with.                                                   *)
ListFits(s) ==
    /\ sN[s] # NBuckets => sFatal[s] \/ Abandoned(s)
    /\ Working(s) => sX2[s] <= sN[s]
    /\ \A k \in DataAt(s) : Flight(s, k).idx < NBuckets

ListsFit == \A s \in Servers : ListFits(s)

(* A live server has at most one file request open, in its queue, with the *)
(* FileServer thread or answered, and only while it waits for that answer: *)
(* an answer is never taken for the answer to another request.             *)
OneRequest(s) ==
    ~sFatal[s] =>
        /\ spc[s] \in {"job", "parse", "rend"} => FlightLen(s) = 0
        /\ spc[s] \in FileReqIDs => DataAt(s) = {}
        /\ FileAt(s) # {} => spc[s] \in FileReqIDs /\ fsv[s] = "none" /\ ans[s] = << >>
        /\ fsv[s] # "none" => spc[s] \in FileReqIDs /\ FileAt(s) = {} /\ ans[s] = << >>
        /\ ans[s] # << >> => spc[s] \in FileReqIDs /\ FileAt(s) = {} /\ Len(ans[s]) = 1

OneRequestAtATime == \A s \in Servers : OneRequest(s)

(* checkServersData stores a peeked BUCKETDATA packet only while it is     *)
(* still the head of the queue: no other thread removes it in between.     *)
PeekedDataStays ==
    cpc = "read" =>
        /\ scanI \in Servers
        /\ peek = "data" =>
              recvQ[scanI] # << >> /\ recvQ[scanI][1].id = "BUCKETDATA"

(* Every bucket of the client's list, those an abandoned world left there  *)
(* included, is in the image (or its task failed and ParallelTasks dropped *)
(* the exception), still to be handed out, or with the server its range    *)
(* was sent to: the dispatch loop and checkServersData lose no bucket,     *)
(* whatever fails.                                                         *)
ImageAccounted ==
    \A b \in Buckets :
        \/ out[b] # 0 \/ b \in holes
        \/ b >= x1
        \/ \E s \in Servers : batch[s].frame = cFrame /\ b \in Outstanding(s)

\* The dispatch loop is over when Render waits for the servers or returns.
AllHandedOut ==
    /\ cpc \in {"disp", "local"} => x1 < cN
    /\ (cpc \in {"bye", "world"} \/ (cpc \in {"scan", "read"} /\ reply)) => x1 = cN
    /\ (cpc = "world" /\ ~overrun) => \A s \in Servers : ~Watched(s)

(* When Render returns and no server was passed over, the image is complete *)
(* except for the ranges of servers whose link failed and for tasks whose  *)
(* exception was dropped.                                                  *)
ImageComplete ==
    (cpc = "world" /\ ~overrun) =>
        \A b \in Buckets :
            \/ out[b] # 0 \/ b \in holes
            \/ \E s \in Servers : cFatal[s] /\ b \in Outstanding(s)

\* The inductive invariant behind the properties above.
IInv ==
    /\ TypeOK /\ QueueUnmixed /\ BusyAccounts /\ OneRangeAtATime /\ OneRequestAtATime
    /\ PeekedDataStays /\ ListsFit /\ ImageAccounted /\ AllHandedOut

(* As long as no Render of the client has thrown or returned early, pixels *)
(* are never stored into the image of another frame than the one they were *)
(* rendered for, whatever the servers do: one that threw has other buckets *)
(* at its indices, and stores none of them here.                           *)
FrameAgreement ==
    ~overrun => \A b \in Buckets : out[b] \in {0, cFrame}

\* Render has said goodbye to server s in the current frame.
Released(s) ==
    \/ cpc \in {"scan", "read"} /\ reply /\ busy[s] = 0
    \/ cpc = "world"

RendDonesIn(q) == Cardinality({i \in DOMAIN q : q[i].id = "RENDDONE"})

(* Each live server gets exactly one RENDDONE per frame, whichever of       *)
(* sendRendDoneToNotBusy and checkServersData sends it: its own frame and  *)
(* the RENDDONE messages it has not read add up to the client's frame.     *)
(* (Not for a server that threw, which skips the rest of its frame.)       *)
RendDoneBalance ==
    \A s \in Servers :
        (~overrun /\ ~cFatal[s] /\ ~sFatal[s] /\ spc[s] # "closed" /\ cpc # "end") =>
            sFrame[s] + RendDonesIn(toSrv[s])
                = cFrame + (IF Released(s) THEN 1 ELSE 0)

(* The strengthening that makes FrameAgreement and RendDoneBalance          *)
(* inductive, next to IInv.  FrameDue(s) is the frame server s will be in   *)
(* once it has read what it was sent.                                      *)
FrameDue(s) == sFrame[s] + RendDonesIn(toSrv[s])

\* A server that waits for its job finds the job first in its queue.
JobFirst(s) ==
    spc[s] = "job" =>
        \/ toSrv[s] = << >> /\ (cFatal[s] \/ cpc = "end")
        \/ toSrv[s] # << >> /\ toSrv[s][1].id = "RENDJOB"

\* The range a connected server works on is of the client's frame.
RangeOfFrame(s) ==
    /\ busy[s] # 0 => cFatal[s] \/ batch[s].frame = cFrame
    /\ (cpc = "read" /\ scanI = s) => busy[s] # 0 /\ batch[s].frame = cFrame

\* The pixels under way, and those still to be sent, are of the range's frame.
DataOfFrame(s) ==
    /\ \A k \in DataAt(s) : Flight(s, k).frame \in {0, batch[s].frame}
    /\ Working(s) => sFrame[s] = batch[s].frame

\* A live server is one RENDDONE behind the client, or none.
FrameBalance(s) ==
    (~sFatal[s] /\ spc[s] # "closed") =>
        /\ (busy[s] # 0 /\ ~Abandoned(s)) => FrameDue(s) = batch[s].frame
        /\ (busy[s] = 0 /\ ~cFatal[s] /\ cpc # "end") =>
              FrameDue(s) = cFrame + (IF Released(s) THEN 1 ELSE 0)

\* Buckets of s are awaited that neither it nor its link has any more.
Short(s) == busy[s] # 0 /\ ~HasRange(s) /\ ~Working(s) /\ DataAt(s) # 1..busy[s]

\* Only a server that threw, and links and processes that ended, leave a range short.
WhyShort(s) ==
    Short(s) => \/ "serverThrow" \in Faults
                \/ cFatal[s] \/ sFatal[s] \/ spc[s] = "closed" \/ cpc = "end"

FrameInvOf(s) ==
    /\ JobFirst(s)
    /\ ~overrun => RangeOfFrame(s) /\ DataOfFrame(s) /\ FrameBalance(s) /\ WhyShort(s)

FrameInv ==
    /\ cpc = "failed" => overrun
    /\ ~overrun => cN = NBuckets
    /\ \A s \in Servers : FrameInvOf(s)
    /\ FrameAgreement

(* rendBucketsRange: DASSERT( buckRangeX1 >= 0 && buckRangeX1 < buckRangeX2 *)
(* && buckRangeX2 <= (int)buckets.size() ), the range that a server reads.  *)
RangeInList ==
    \A s \in Servers :
        (spc[s] = "wait" /\ ~sFatal[s] /\ RangeAtHead(s)) =>
            /\ Head(toSrv[s]).x1 < Head(toSrv[s]).x2
            /\ Head(toSrv[s]).x2 <= sN[s]

(* "wait for all servers to complete !!" (the final loop of Render): when   *)
(* it returns, no connected server still owes buckets.                     *)
AllServersComplete ==
    cpc = "world" => \A s \in Servers : ~Watched(s)

(* Render returns for every frame, whatever links fail on the client's     *)
(* side, and the client comes to its end, unless one of its Renders threw: *)
(* the next world then has a longer list than the servers', and one that   *)
(* ends on a range it does not have (RangeInList) without the client's     *)
(* socket failing is waited for without end.                               *)
ClientTerminates == <>(cpc = "end" \/ cN # NBuckets)

(* A file request of a server is answered unless the link fails or the     *)
(* client ends first: the Render loop, which also reads that queue, never  *)
(* starves the FileServer thread.                                          *)
RequestsAnswered ==
    \A s \in Servers :
        (spc[s] \in FileReqIDs) ~> (spc[s] \notin FileReqIDs \/ cFatal[s] \/ cpc = "end")
=============================================================================
