---------------------------- MODULE PacketManager ----------------------------
(***************************************************************************)
(* The two PacketManagers of a connection, byte by byte: the thread that   *)
(* each runs (threadMain) on a non-blocking socket, and the operations of  *)
(* the program's other threads on its queues.                              *)
(*                                                                         *)
(* A packet is a size in HeadSize bytes, least significant first, and then *)
(* the payload.  Sockets are external: net[e] is what is under way to end  *)
(* e, at most NetCap bytes; recv gets some of it or nothing, send takes as *)
(* many bytes as it likes and would block only when there is no room.      *)
(***************************************************************************)
EXTENDS Integers, Sequences, FiniteSets, SequencesExt

CONSTANTS
    Base,         \* values of a byte
    HeadSize,     \* sizeof(U32)
    Messages,     \* payloads, non-empty sequences of bytes
    MaxSends,     \* bound: how many packets each end sends
    NetCap,       \* bytes a connection holds in each direction
    SplitHeads,   \* may recv return only part of a header?
    Failures      \* may socket calls fail and ends be destroyed?

Ends == {"A", "B"}
Peer(e) == IF e = "A" THEN "B" ELSE "A"
Bytes == 0..(Base - 1)

\* The powers of the base.
Power[i \in Nat] == IF i = 0 THEN 1 ELSE Base * Power[i - 1]
MaxSize == Power[HeadSize] - 1

ASSUME PacketAssumption ==
    /\ Base \in Nat \ {0, 1} /\ HeadSize \in Nat \ {0}
    /\ NetCap \in Nat /\ NetCap >= HeadSize
    /\ \A m \in Messages : m \in Seq(Bytes) /\ Len(m) \in 1..MaxSize
    /\ MaxSends \in [Ends -> Nat]
    /\ SplitHeads \in BOOLEAN /\ Failures \in BOOLEAN

VARIABLES
    tpc,                     \* where threadMain is
    inQ, sendQ, sendDone,    \* mInQueue, mQueue, curSendPackDataSize
    headDone, dataSize,      \* curRecvPackDoneHeadSize, curRecvPackDataSize
    buffSize, recvd,         \* recvBuff.size(), the bytes received into it
    recvOutQ, fatal, quit,      \* mRecvOutQueue, mFatalError, mQuitRequest
    net,                     \* bytes under way to each end
    pend, nSent              \* history: payloads sent and not received; count

threadVars == <<sendQ, sendDone, headDone, dataSize, buffSize, recvd>>
endVars == <<tpc, inQ, threadVars, recvOutQ, fatal, quit, net, pend, nSent>>

\* A size as HeadSize bytes in memory, and the size that is in memory.
Digits(n) == [i \in 1..HeadSize |-> (n \div Power[i - 1]) % Base]
SizeOf(h) == CHOOSE n \in 0..MaxSize : Digits(n) = h

Frame(m) == Digits(Len(m)) \o m

WithoutAt(q, i) == SubSeq(q, 1, i - 1) \o SubSeq(q, i + 1, Len(q))
DropFirst(q, n) == SubSeq(q, n + 1, Len(q))
Least(a, b) == IF a < b THEN a ELSE b

LinkInit ==
    /\ tpc = [e \in Ends |-> "top"]
    /\ inQ = [e \in Ends |-> << >>] /\ sendQ = [e \in Ends |-> << >>]
    /\ sendDone = [e \in Ends |-> 0] /\ headDone = [e \in Ends |-> 0]
    /\ dataSize = [e \in Ends |-> Digits(0)]
    /\ buffSize = [e \in Ends |-> 0] /\ recvd = [e \in Ends |-> << >>]
    /\ recvOutQ = [e \in Ends |-> << >>]
    /\ fatal = [e \in Ends |-> FALSE] /\ quit = [e \in Ends |-> FALSE]
    /\ net = [e \in Ends |-> << >>]
    /\ pend = [e \in Ends |-> << >>] /\ nSent = [e \in Ends |-> 0]

----------------------------------------------------------------------------
(* The program's threads.                                                  *)

\* Send, SendBegin .. SendEnd: the framed packet joins mInQueue.
Send(e, m) ==
    /\ ~quit[e] /\ nSent[e] < MaxSends[e]
    /\ inQ' = [inQ EXCEPT ![e] = Append(@, Frame(m))]
    /\ pend' = [pend EXCEPT ![e] = Append(@, m)]
    /\ nSent' = [nSent EXCEPT ![e] = @ + 1]
    /\ UNCHANGED <<tpc, threadVars, recvOutQ, fatal, quit, net>>

(* GetNextPacketMatchID32 with doRemove: the first packet whose id is one  *)
(* of ids; GetNextPacket is the case of all ids.                           *)
GetNextPacketMatchID32(e, ids) ==
    LET match == {i \in DOMAIN recvOutQ[e] : recvOutQ[e][i] # << >> /\ recvOutQ[e][i][1] \in ids}
    IN  /\ ~quit[e]
        /\ \E i \in match :
              /\ \A j \in match : i <= j
              /\ recvOutQ' = [recvOutQ EXCEPT ![e] = WithoutAt(@, i)]
        /\ UNCHANGED <<tpc, inQ, threadVars, fatal, quit, net, pend, nSent>>

\* RemovePacket, RemoveAndDeletePacket of a packet that was peeked at.
RemovePacket(e, i) ==
    /\ ~quit[e] /\ i \in DOMAIN recvOutQ[e]
    /\ recvOutQ' = [recvOutQ EXCEPT ![e] = WithoutAt(@, i)]
    /\ UNCHANGED <<tpc, inQ, threadVars, fatal, quit, net, pend, nSent>>

\* ~PacketManager: KillThread.
KillThread(e) ==
    /\ Failures /\ ~quit[e]
    /\ quit' = [quit EXCEPT ![e] = TRUE]
    /\ UNCHANGED <<tpc, inQ, threadVars, recvOutQ, fatal, net, pend, nSent>>

----------------------------------------------------------------------------
(* threadMain.                                                             *)

ThreadAt(e, pc) == tpc' = [tpc EXCEPT ![e] = pc]

\* Top of the loop: quit, stay a zombie, or flush mInQueue and go on.
LoopQuit(e) ==
    /\ tpc[e] = "top" /\ quit[e]
    /\ ThreadAt(e, "ended")
    /\ UNCHANGED <<inQ, threadVars, recvOutQ, fatal, quit, net, pend, nSent>>

\* Mutant: new packets jump the queue.
FlushInFront(e) ==
    /\ tpc[e] = "top" /\ ~quit[e] /\ ~fatal[e]
    /\ sendQ' = [sendQ EXCEPT ![e] = inQ[e] \o @]
    /\ inQ' = [inQ EXCEPT ![e] = << >>]
    /\ ThreadAt(e, "send")
    /\ UNCHANGED <<sendDone, headDone, dataSize, buffSize, recvd, recvOutQ, fatal, quit, net,
                   pend, nSent>>

FlushInQueue(e) ==
    /\ tpc[e] = "top" /\ ~quit[e] /\ ~fatal[e]
    /\ sendQ' = [sendQ EXCEPT ![e] = @ \o inQ[e]]
    /\ inQ' = [inQ EXCEPT ![e] = << >>]
    /\ ThreadAt(e, "send")
    /\ UNCHANGED <<sendDone, headDone, dataSize, buffSize, recvd, recvOutQ, fatal, quit, net,
                   pend, nSent>>

\* select, send or recv fails: mFatalError.
SocketError(e) ==
    /\ Failures /\ tpc[e] \in {"send", "head", "body"}
    /\ fatal' = [fatal EXCEPT ![e] = TRUE]
    /\ ThreadAt(e, "top")
    /\ UNCHANGED <<inQ, threadVars, recvOutQ, quit, net, pend, nSent>>

Room(e) == NetCap - Len(net[Peer(e)])

\* Mutant: curSendPackDataSize counts on after the packet is done.
SendSomeNoReset(e) ==
    /\ tpc[e] = "send" /\ sendQ[e] # << >>
    /\ LET rest == DropFirst(Head(sendQ[e]), sendDone[e])
       IN  \E n \in 1..Least(Len(rest), Room(e)) :
              /\ net' = [net EXCEPT ![Peer(e)] = @ \o SubSeq(rest, 1, n)]
              /\ sendDone' = [sendDone EXCEPT ![e] = @ + n]
              /\ sendQ' = IF n = Len(rest) THEN [sendQ EXCEPT ![e] = Tail(@)] ELSE sendQ
    /\ UNCHANGED <<tpc, inQ, headDone, dataSize, buffSize, recvd, recvOutQ, fatal, quit, pend,
                   nSent>>

\* niceSend takes n bytes of the first packet; the loop goes on.
SendSome(e) ==
    /\ tpc[e] = "send" /\ sendQ[e] # << >>
    /\ LET rest == DropFirst(Head(sendQ[e]), sendDone[e])
       IN  \E n \in 1..Least(Len(rest), Room(e)) :
              /\ net' = [net EXCEPT ![Peer(e)] = @ \o SubSeq(rest, 1, n)]
              /\ IF n = Len(rest)
                 THEN /\ sendQ' = [sendQ EXCEPT ![e] = Tail(@)]
                      /\ sendDone' = [sendDone EXCEPT ![e] = 0]
                 ELSE /\ sendDone' = [sendDone EXCEPT ![e] = @ + n]
                      /\ UNCHANGED sendQ
    /\ UNCHANGED <<tpc, inQ, headDone, dataSize, buffSize, recvd, recvOutQ, fatal, quit, pend,
                   nSent>>

\* Mutant: a send that would block starts the loop again, without receiving.
SendDoneOrRetry(e) ==
    /\ tpc[e] = "send" /\ (sendQ[e] = << >> \/ Room(e) = 0)
    /\ ThreadAt(e, IF sendQ[e] = << >> THEN "head" ELSE "top")
    /\ UNCHANGED <<inQ, threadVars, recvOutQ, fatal, quit, net, pend, nSent>>

\* Nothing left to send, or send would block: on to receiving.
SendDone(e) ==
    /\ tpc[e] = "send" /\ (sendQ[e] = << >> \/ Room(e) = 0)
    /\ ThreadAt(e, "head")
    /\ UNCHANGED <<inQ, threadVars, recvOutQ, fatal, quit, net, pend, nSent>>

(* The read of the header: recv writes at the start of curRecvPackDataSize, *)
(* whatever part of the header has come before.                            *)
HeadSizes(e) ==
    IF SplitHeads THEN 1..Least(HeadSize - headDone[e], Len(net[e]))
    ELSE {n \in {HeadSize} : n <= Len(net[e])}

RecvHead(e) ==
    /\ tpc[e] = "head" /\ headDone[e] < HeadSize
    /\ \E n \in HeadSizes(e) :
          /\ dataSize' = [dataSize EXCEPT ![e] =
                             [i \in 1..HeadSize |-> IF i <= n THEN net[e][i] ELSE @[i]]]
          /\ net' = [net EXCEPT ![e] = DropFirst(@, n)]
          /\ headDone' = [headDone EXCEPT ![e] = @ + n]
          /\ IF headDone[e] + n = HeadSize
             THEN buffSize' = [buffSize EXCEPT ![e] = SizeOf(dataSize'[e])] /\ ThreadAt(e, "body")
             ELSE ThreadAt(e, "top") /\ UNCHANGED buffSize
    /\ UNCHANGED <<inQ, sendQ, sendDone, recvd, recvOutQ, fatal, quit, pend, nSent>>

HeadWaits(e) ==
    /\ tpc[e] = "head" /\ headDone[e] < HeadSize
    /\ ThreadAt(e, "top")
    /\ UNCHANGED <<inQ, threadVars, recvOutQ, fatal, quit, net, pend, nSent>>

HeadKnown(e) ==
    /\ tpc[e] = "head" /\ headDone[e] = HeadSize
    /\ ThreadAt(e, "body")
    /\ UNCHANGED <<inQ, threadVars, recvOutQ, fatal, quit, net, pend, nSent>>

\* niceRecv gets n bytes of the body; a complete one is pushed.
RecvBody(e) ==
    /\ tpc[e] = "body"
    /\ \E n \in 0..Least(buffSize[e] - Len(recvd[e]), Len(net[e])) :
          LET got == recvd[e] \o SubSeq(net[e], 1, n)
          IN  /\ net' = [net EXCEPT ![e] = DropFirst(@, n)]
              /\ IF Len(got) = buffSize[e]
                 THEN /\ recvOutQ' = [recvOutQ EXCEPT ![e] = Append(@, got)]
                      /\ recvd' = [recvd EXCEPT ![e] = << >>]
                      /\ buffSize' = [buffSize EXCEPT ![e] = 0]
                      /\ headDone' = [headDone EXCEPT ![e] = 0]
                      /\ dataSize' = [dataSize EXCEPT ![e] = Digits(0)]
                      /\ pend' = [pend EXCEPT ![Peer(e)] = DropFirst(@, 1)]
                 ELSE /\ recvd' = [recvd EXCEPT ![e] = got]
                      /\ UNCHANGED <<recvOutQ, buffSize, headDone, dataSize, pend>>
    /\ ThreadAt(e, "top")
    /\ UNCHANGED <<inQ, sendQ, sendDone, fatal, quit, nSent>>

ThreadStep(e) ==
    \/ LoopQuit(e) \/ FlushInQueue(e) \/ SendSome(e) \/ SendDone(e)
    \/ RecvHead(e) \/ HeadWaits(e) \/ HeadKnown(e) \/ RecvBody(e)

LinkNext ==
    \E e \in Ends :
       \/ ThreadStep(e) \/ SocketError(e) \/ KillThread(e)
       \/ \E m \in Messages : Send(e, m)
       \/ \E ids \in SUBSET Bytes : GetNextPacketMatchID32(e, ids)
       \/ \E i \in DOMAIN recvOutQ[e] : RemovePacket(e, i)

(* The threads run, and what is under way to an end that keeps asking for  *)
(* it arrives.                                                             *)
LinkFairness ==
    \A e \in Ends :
       /\ WF_endVars(ThreadStep(e))
       /\ SF_endVars(RecvHead(e))
       /\ SF_endVars(RecvBody(e) /\ net' # net)

LinkSpec == LinkInit /\ [][LinkNext]_endVars

LinkFairSpec == LinkSpec /\ LinkFairness

----------------------------------------------------------------------------
(* Properties.                                                             *)

\* The state keeps to its types: queues of bytes, sizes that fit the header.
LinkTypeOK ==
    /\ tpc \in [Ends -> {"top", "send", "head", "body", "ended"}]
    /\ inQ \in [Ends -> Seq(Seq(Bytes))] /\ sendQ \in [Ends -> Seq(Seq(Bytes))]
    /\ sendDone \in [Ends -> 0..(HeadSize + MaxSize)] /\ headDone \in [Ends -> 0..HeadSize]
    /\ dataSize \in [Ends -> [1..HeadSize -> Bytes]]
    /\ buffSize \in [Ends -> 0..MaxSize] /\ recvd \in [Ends -> Seq(Bytes)]
    /\ recvOutQ \in [Ends -> Seq(Seq(Bytes))]
    /\ fatal \in [Ends -> BOOLEAN] /\ quit \in [Ends -> BOOLEAN]
    /\ net \in [Ends -> Seq(Bytes)]
    /\ pend \in [Ends -> Seq(Messages)] /\ nSent \in [Ends -> Nat]

(* The bytes end e has queued or sent, from the first byte its peer has    *)
(* not made into a packet: received part, under way, still to be sent.     *)
HeadSoFar(e) == SubSeq(dataSize[e], 1, headDone[e])
Stream(e) ==
    LET p == Peer(e)
    IN  HeadSoFar(p) \o recvd[p] \o net[p]
          \o DropFirst(FlattenSeq(sendQ[e] \o inQ[e]), sendDone[e])

FramesOf(q) == [i \in DOMAIN q |-> Frame(q[i])]

(* The two threads agree on where packets begin: the byte stream is, at    *)
(* every moment, the frames of exactly the payloads sent and not received, *)
(* whatever the sizes of the partial sends and receives were.              *)
StreamInStep == \A e \in Ends : Stream(e) = FlattenSeq(FramesOf(pend[e]))

(* "DASSERT( curRecvPackDoneDataSize < recvBuff.size() )" before the body  *)
(* is received.                                                            *)
BodyHasRoom == \A e \in Ends : tpc[e] = "body" => Len(recvd[e]) < buffSize[e]

(* The inductive invariant of StreamInStep, where headers arrive whole: the *)
(* queues of an end hold whole frames, the first of which is not yet sent  *)
(* completely, and an end either waits for a header or has read the size   *)
(* of the oldest payload sent to it and misses some of it.                 *)
SendsFrames(e) ==
    /\ sendQ[e] \in Seq({Frame(m) : m \in Messages})
    /\ inQ[e] \in Seq({Frame(m) : m \in Messages})
    /\ IF sendQ[e] = << >> THEN sendDone[e] = 0 ELSE sendDone[e] < Len(Head(sendQ[e]))

AwaitsHead(e) == headDone[e] = 0 /\ recvd[e] = << >> /\ tpc[e] # "body"

AwaitsBody(e) ==
    /\ headDone[e] = HeadSize /\ pend[Peer(e)] # << >>
    /\ buffSize[e] = Len(Head(pend[Peer(e)])) /\ dataSize[e] = Digits(buffSize[e])
    /\ Len(recvd[e]) < buffSize[e]

LinkInv ==
    /\ LinkTypeOK /\ StreamInStep
    /\ \A e \in Ends : SendsFrames(e) /\ (AwaitsHead(e) \/ AwaitsBody(e))

\* The contract of each direction of the connection.
AB == INSTANCE PacketLink WITH transit <- pend["A"], queue <- recvOutQ["B"]
BA == INSTANCE PacketLink WITH transit <- pend["B"], queue <- recvOutQ["A"]

(* Both directions implement PacketLink: what a reader finds in its queue   *)
(* are the payloads its peer sent, whole, in order and once, through any   *)
(* interleaving of partial sends and receives, failures and shutdowns.     *)
Reliable == AB!Spec /\ BA!Spec

(* A packet that was sent arrives, unless an end fails or is destroyed: no *)
(* end starves, even when both have more to send than the connection holds *)
(* (a thread that cannot send still receives).                             *)
SentArrives ==
    \A e \in Ends : (pend[e] # << >>) ~> (pend[e] = << >> \/ \E f \in Ends : fatal[f] \/ quit[f])
=============================================================================
