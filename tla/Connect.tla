------------------------------ MODULE Connect ------------------------------
(***************************************************************************)
(* How a client reaches its render servers: InitServers and                *)
(* ConnectToServers with one non-blocking Connecter for each server and a  *)
(* time-out, and on each server serverMain with its Listener, which serves *)
(* one client at a time.                                                   *)
(*                                                                         *)
(* The network completes or refuses a connection on its own; it has        *)
(* completed it before the server accepts it and before the client looks.  *)
(* select() reports a refused connection as writable or not at all,        *)
(* depending on the system: both are possible.                             *)
(***************************************************************************)
EXTENDS Integers, FiniteSets

CONSTANTS
    NServers,       \* servList.size()
    Unresolvable    \* servers whose address is not found

ASSUME ConnectAssumption == NServers \in Nat /\ Unresolvable \subseteq 1..NServers

VARIABLES
    cpc,        \* "fill", "poll", "send" or "done"
    cidx,       \* i of the loop
    cwait,      \* isSomeConnectionWaiting
    cexpired,   \* timeOut.IsExpired()
    cconn,      \* pConnecters: "null", "waiting" or "connected"
    cowner,     \* who closes the socket: "none", "connecter", "packets" or "closed"
    cpak,       \* number of times Init has set mpPakMan
    cfatal,     \* mFatalError of mpPakMan
    cjob,       \* the job is sent
    clink,      \* the connection: "none", "syn", "up", "accepted" or "broken"
    lstate      \* server: "listening", "serving", "rendering", "other", "deaf" or "exited"

cvars == <<cpc, cidx, cwait, cexpired, cconn, cowner, cpak, cfatal, cjob, clink, lstate>>
loopvars == <<cpc, cidx, cwait>>
Srvs == 1..NServers

CInit ==
    /\ cpc = "fill" /\ cidx = 1 /\ cwait = FALSE /\ cexpired = FALSE
    /\ cconn = [i \in Srvs |-> "null"] /\ cowner = [i \in Srvs |-> "none"]
    /\ cpak = [i \in Srvs |-> 0] /\ cfatal = [i \in Srvs |-> FALSE]
    /\ cjob = [i \in Srvs |-> FALSE] /\ clink = [i \in Srvs |-> "none"]
    /\ lstate \in [Srvs -> {"listening", "other"}]

----------------------------------------------------------------------------
(* The client.                                                             *)

AtServer(pc) == cpc = pc /\ cidx \in Srvs
Advance == cidx' = cidx + 1 /\ UNCHANGED cpc

\* The Connecter's constructor: StartConnect.
StartConnect ==
    /\ AtServer("fill") /\ cidx \notin Unresolvable
    /\ cconn' = [cconn EXCEPT ![cidx] = "waiting"]
    /\ cowner' = [cowner EXCEPT ![cidx] = "connecter"]
    /\ clink' = [clink EXCEPT ![cidx] = "syn"]
    /\ Advance
    /\ UNCHANGED <<cwait, cexpired, cpak, cfatal, cjob, lstate>>

\* It throws: no address, no socket, or connect fails at once.
StartThrows ==
    /\ AtServer("fill")
    /\ Advance
    /\ UNCHANGED <<cwait, cexpired, cconn, cowner, cpak, cfatal, cjob, clink, lstate>>

StartPolling ==
    /\ cpc = "fill" /\ cidx > NServers
    /\ cpc' = "poll" /\ cidx' = 1
    /\ UNCHANGED <<cwait, cexpired, cconn, cowner, cpak, cfatal, cjob, clink, lstate>>

NeedsPoll(i) == cconn[i] = "waiting"

\* No Connecter, or a connected one.
PollSkip ==
    /\ AtServer("poll") /\ ~NeedsPoll(cidx)
    /\ Advance
    /\ UNCHANGED <<cwait, cexpired, cconn, cowner, cpak, cfatal, cjob, clink, lstate>>

\* IdleConnect: nothing yet.
PollWaiting ==
    /\ AtServer("poll") /\ NeedsPoll(cidx) /\ clink[cidx] \in {"syn", "broken"}
    /\ cwait' = TRUE
    /\ Advance
    /\ UNCHANGED <<cexpired, cconn, cowner, cpak, cfatal, cjob, clink, lstate>>

\* Mutant: the Connecter keeps the socket too.
GetSocketKeeps(i) == UNCHANGED cowner

GetSocket(i) == cowner' = [cowner EXCEPT ![i] = "packets"]

\* The socket is writable: it goes to a PacketManager.
PollConnected ==
    /\ AtServer("poll") /\ NeedsPoll(cidx) /\ clink[cidx] # "syn"
    /\ cconn' = [cconn EXCEPT ![cidx] = "connected"]
    /\ GetSocket(cidx)
    /\ cpak' = [cpak EXCEPT ![cidx] = @ + 1]
    /\ Advance
    /\ UNCHANGED <<cwait, cexpired, cfatal, cjob, clink, lstate>>

\* select fails: the server is marked invalid, and polled again.
PollError ==
    /\ AtServer("poll") /\ NeedsPoll(cidx)
    /\ Advance
    /\ UNCHANGED <<cwait, cexpired, cconn, cowner, cpak, cfatal, cjob, clink, lstate>>

\* Mutant: the time-out is not looked at.
PassOverNoTimeout ==
    /\ cpc = "poll" /\ cidx > NServers
    /\ cidx' = 1
    /\ IF cwait THEN UNCHANGED <<cpc, cowner>>
       ELSE /\ cpc' = "send"
            /\ cowner' = [i \in Srvs |-> IF cowner[i] = "connecter" THEN "closed" ELSE cowner[i]]
    /\ UNCHANGED <<cwait, cexpired, cconn, cpak, cfatal, cjob, clink, lstate>>

(* The end of a pass.  isSomeConnectionWaiting is never reset: once one    *)
(* has waited, only the time-out ends the loop.  Then the Connecters are   *)
(* deleted, which closes the sockets they still have.                      *)
PassOver ==
    /\ cpc = "poll" /\ cidx > NServers
    /\ cidx' = 1
    /\ IF cwait /\ ~cexpired THEN UNCHANGED <<cpc, cowner>>
       ELSE /\ cpc' = "send"
            /\ cowner' = [i \in Srvs |-> IF cowner[i] = "connecter" THEN "closed" ELSE cowner[i]]
    /\ UNCHANGED <<cwait, cexpired, cconn, cpak, cfatal, cjob, clink, lstate>>

\* Server::IsConnected
IsConnected(i) == cpak[i] > 0 /\ ~cfatal[i]

\* Mutant: the last server gets no job.
SendJobNotLast ==
    /\ AtServer("send")
    /\ cjob' = [cjob EXCEPT ![cidx] = IsConnected(cidx) /\ cidx < NServers]
    /\ Advance
    /\ UNCHANGED <<cwait, cexpired, cconn, cowner, cpak, cfatal, clink, lstate>>

\* InitServers: the job goes to the servers that are connected.
SendJob ==
    /\ AtServer("send")
    /\ cjob' = [cjob EXCEPT ![cidx] = IsConnected(cidx)]
    /\ Advance
    /\ UNCHANGED <<cwait, cexpired, cconn, cowner, cpak, cfatal, clink, lstate>>

JobsSent ==
    /\ cpc = "send" /\ cidx > NServers
    /\ cpc' = "done"
    /\ UNCHANGED <<cidx, cwait, cexpired, cconn, cowner, cpak, cfatal, cjob, clink, lstate>>

\* The PacketManager's thread meets an error.
PacketsFail(i) ==
    /\ cpak[i] > 0 /\ clink[i] = "broken" /\ ~cfatal[i]
    /\ cfatal' = [cfatal EXCEPT ![i] = TRUE]
    /\ UNCHANGED <<loopvars, cexpired, cconn, cowner, cpak, cjob, clink, lstate>>

Expire ==
    /\ cpc = "poll" /\ ~cexpired
    /\ cexpired' = TRUE
    /\ UNCHANGED <<loopvars, cconn, cowner, cpak, cfatal, cjob, clink, lstate>>

----------------------------------------------------------------------------
(* The network and the servers.                                            *)

clientvars == <<loopvars, cexpired, cconn, cowner, cpak, cfatal, cjob>>

Handshake(i) ==
    /\ clink[i] = "syn" /\ cowner[i] = "connecter" /\ lstate[i] = "listening"
    /\ clink' = [clink EXCEPT ![i] = "up"]
    /\ UNCHANGED <<clientvars, lstate>>

\* Nobody listens, or the network loses the connection.
Break(i) ==
    /\ clink[i] \in {"syn", "up", "accepted"} /\ cowner[i] # "closed"
    /\ clink' = [clink EXCEPT ![i] = "broken"]
    /\ UNCHANGED <<clientvars, lstate>>

\* Listener::Idle and Stop: one connection is taken.
Accept(i) ==
    /\ lstate[i] = "listening" /\ clink[i] = "up"
    /\ clink' = [clink EXCEPT ![i] = "accepted"]
    /\ lstate' = [lstate EXCEPT ![i] = "serving"]
    /\ UNCHANGED clientvars

\* Another client is taken: those that wait for accept are reset.
AcceptOther(i) ==
    /\ lstate[i] = "listening"
    /\ clink' = [clink EXCEPT ![i] = IF @ = "up" THEN "broken" ELSE @]
    /\ lstate' = [lstate EXCEPT ![i] = "other"]
    /\ UNCHANGED clientvars

\* An accepted socket is closed again because the listening one cannot be set up.
AcceptFails(i) ==
    /\ lstate[i] = "listening" /\ clink[i] = "up"
    /\ clink' = [clink EXCEPT ![i] = "broken"]
    /\ UNCHANGED <<clientvars, lstate>>

\* select fails: Idle stops the listener and serverMain never starts it again.
ListenFails(i) ==
    /\ lstate[i] = "listening"
    /\ lstate' = [lstate EXCEPT ![i] = "deaf"]
    /\ clink' = [clink EXCEPT ![i] = IF @ = "up" THEN "broken" ELSE @]
    /\ UNCHANGED clientvars

\* serverTask waits for the job, without a time-out.
TakeJob(i) ==
    /\ lstate[i] = "serving" /\ clink[i] = "accepted" /\ cjob[i]
    /\ lstate' = [lstate EXCEPT ![i] = "rendering"]
    /\ UNCHANGED <<clientvars, clink>>

(* serverTask returns after the rendering, or when it meets an error; then *)
(* the port is opened again.  An orderly close is no error.                *)
TaskEnds(i) ==
    /\ lstate[i] \in {"rendering", "other"} \/ (lstate[i] = "serving" /\ clink[i] = "broken")
    /\ \E s \in {"listening", "exited"} : lstate' = [lstate EXCEPT ![i] = s]
    /\ UNCHANGED <<clientvars, clink>>

CStep ==
    \/ StartConnect \/ StartThrows \/ StartPolling
    \/ PollSkip \/ PollWaiting \/ PollConnected \/ PollError \/ PassOver
    \/ SendJob \/ JobsSent

CNext ==
    \/ CStep
    \/ Expire
    \/ \E i \in Srvs :
          \/ PacketsFail(i) \/ Handshake(i) \/ Break(i)
          \/ Accept(i) \/ AcceptOther(i) \/ AcceptFails(i) \/ ListenFails(i)
          \/ TakeJob(i) \/ TaskEnds(i)

CSpec == CInit /\ [][CNext]_cvars

(* The client runs, its clock too, a server takes a job that has arrived   *)
(* and its task ends.                                                      *)
CFairSpec ==
    /\ CSpec /\ WF_cvars(CStep) /\ WF_cvars(Expire)
    /\ \A i \in Srvs : WF_cvars(TaskEnds(i)) /\ WF_cvars(TakeJob(i))

----------------------------------------------------------------------------
(* Properties.                                                             *)

\* The state keeps to its types.
CTypeOK ==
    /\ cpc \in {"fill", "poll", "send", "done"} /\ cidx \in 1..(NServers + 1)
    /\ cwait \in BOOLEAN /\ cexpired \in BOOLEAN
    /\ cconn \in [Srvs -> {"null", "waiting", "connected"}]
    /\ cowner \in [Srvs -> {"none", "connecter", "packets", "closed"}]
    /\ cpak \in [Srvs -> Nat] /\ cfatal \in [Srvs -> BOOLEAN] /\ cjob \in [Srvs -> BOOLEAN]
    /\ clink \in [Srvs -> {"none", "syn", "up", "accepted", "broken"}]
    /\ lstate \in [Srvs -> {"listening", "serving", "rendering", "other", "deaf", "exited"}]

(* A server gets one PacketManager at most (the DASSERT of                 *)
(* ConnectToServers), its socket is closed by one owner, and when the      *)
(* client goes on no socket is left to a Connecter.                        *)
SocketsOwned ==
    \A i \in Srvs :
        /\ cpak[i] <= 1
        /\ cpak[i] = 1 <=> cowner[i] = "packets"
        /\ cconn[i] = "connected" <=> cowner[i] = "packets"
        /\ cpc \in {"send", "done"} => cowner[i] # "connecter"

(* A server that waits for a job nobody will send it is one whose client   *)
(* gave up, and closed the connection, before it looked at it again.       *)
WaitsInVain ==
    \A i \in Srvs :
        cpc = "done" /\ lstate[i] = "serving" /\ clink[i] = "accepted" /\ ~cjob[i] =>
            cowner[i] = "closed" /\ cconn[i] = "waiting"

(* What makes SocketsOwned and WaitsInVain inductive: how far the loops    *)
(* have come, whose socket it is at each stage, and that a job has been    *)
(* sent on every connection that stands once its turn has come.            *)
LoopsDone ==
    /\ cpc = "fill" => \A i \in Srvs : i >= cidx => cconn[i] = "null"
    /\ cpc = "done" => cidx = NServers + 1

SocketStages ==
    \A i \in Srvs :
        /\ cconn[i] = "null" <=> cowner[i] = "none"
        /\ cconn[i] = "null" <=> clink[i] = "none"
        /\ cowner[i] = "closed" => cpc \in {"send", "done"}
        /\ cfatal[i] => clink[i] = "broken"

JobsFollow ==
    cpc \in {"send", "done"} =>
        \A i \in Srvs : i < cidx /\ cpak[i] > 0 /\ clink[i] # "broken" => cjob[i]

CInv == CTypeOK /\ SocketsOwned /\ LoopsDone /\ SocketStages /\ JobsFollow

\* ConnectToServers is under way, whatever the network and the servers do.
Connecting == cpc # "done"

(* A server that has taken a client listens again or exits: the client     *)
(* sends it a job, or the connection breaks, or it was another one's.  The *)
(* exception is a client that gave up before it looked: its orderly close  *)
(* is not noticed, and the server waits for the job for ever.              *)
ServersBack ==
    \A i \in Srvs :
        lstate[i] \in {"serving", "rendering", "other"} ~>
            \/ lstate[i] \in {"listening", "exited"}
            \/ cowner[i] = "closed" /\ clink[i] = "accepted"
=============================================================================
