------------------------------ MODULE PacketLink ------------------------------
(***************************************************************************)
(* What PacketManager promises about one direction of a connection: packets *)
(* arrive whole, in the order they were sent, each at most once.  A packet *)
(* that stays in transit for ever is one that was lost with its end.       *)
(***************************************************************************)
EXTENDS Integers, Sequences

CONSTANT Messages     \* the payloads that are sent

VARIABLES
    transit,          \* sent, not yet in the receive queue, oldest first
    queue             \* the receive queue (mRecvOutQueue)

Init == transit = << >> /\ queue = << >>

Send(m) == transit' = Append(transit, m) /\ UNCHANGED queue

Deliver ==
    /\ transit # << >>
    /\ queue' = Append(queue, Head(transit))
    /\ transit' = Tail(transit)

\* A reader may take a packet from the middle: it selects by message id.
Take(i) ==
    /\ i \in DOMAIN queue
    /\ queue' = SubSeq(queue, 1, i - 1) \o SubSeq(queue, i + 1, Len(queue))
    /\ UNCHANGED transit

Next ==
    \/ \E m \in Messages : Send(m)
    \/ Deliver
    \/ \E i \in DOMAIN queue : Take(i)

Spec == Init /\ [][Next]_<<transit, queue>>
=============================================================================
