----------------------------- MODULE TunnelsMC -----------------------------
(***************************************************************************)
(* The programs that stand between a client and a server, and the client   *)
(* of the sticky tunnel: program names the one that runs, the variables of *)
(* the others keep their initial values.                                   *)
(***************************************************************************)
EXTENDS TrafficForward, WsProxy, Ws2Tcp, StickyTunnel, StickyClient

VARIABLE program

Programs == {"forward", "ws proxy", "ws2tcp", "sticky", "sticky client"}
allVars == <<program, vars, wsVars, rawVars, stickyVars, taskVars>>

AllInit == program \in Programs /\ Init /\ WsInit /\ RawInit /\ StickyInit /\ TaskInit

Runs(name) == program = name /\ UNCHANGED program

AllNext ==
    \/ Runs("forward") /\ Next /\ UNCHANGED <<wsVars, rawVars, stickyVars, taskVars>>
    \/ Runs("ws proxy") /\ WsNext /\ UNCHANGED <<vars, rawVars, stickyVars, taskVars>>
    \/ Runs("ws2tcp") /\ RawNext /\ UNCHANGED <<vars, wsVars, stickyVars, taskVars>>
    \/ Runs("sticky") /\ StickyNext /\ UNCHANGED <<vars, wsVars, rawVars, taskVars>>
    \/ Runs("sticky client") /\ TaskNext /\ UNCHANGED <<vars, wsVars, rawVars, stickyVars>>

(* Goroutines are scheduled, readable sockets are reported, dials end, and  *)
(* a mutex (SF) is not kept from one who waits for ever.                    *)
ForwardFairness ==
    /\ WF_vars(program = "forward" /\ ClientStep)
    /\ WF_vars(program = "forward" /\ ServerEcho)
    /\ WF_vars(program = "forward" /\ OnOpen)
    /\ WF_vars(program = "forward" /\ DialEnds)
    /\ WF_vars(program = "forward" /\ Callback)
    /\ SF_vars(program = "forward" /\ LockSession)
    /\ WF_vars(program = "forward" /\ (OnDataSrc \/ OnDataForward))
    /\ SF_vars(program = "forward" /\ OnDataLock)
    /\ WF_vars(program = "forward" /\ OnDataDst)

(* The two websocket proxies: the client's loop and what it does after it,  *)
(* the app server's loop, the proxy's handlers.                             *)
WsFairness ==
    /\ WF_wsVars(program = "ws proxy" /\ WsClientStep)
    /\ WF_wsVars(program = "ws proxy" /\ wsPhase = "done" /\ WsClientLeaves)
    /\ WF_wsVars(program = "ws proxy" /\ WsAppEcho)
    /\ WF_wsVars(program = "ws proxy" /\ WsOnWebsocket)
    /\ \A c \in WsConns : WF_wsVars(program = "ws proxy" /\ OnMessage(c))
    /\ \A c \in WsConns : WF_wsVars(program = "ws proxy" /\ WsOnClose(c))

RawFairness ==
    /\ WF_rawVars(program = "ws2tcp" /\ RawClientStep)
    /\ WF_rawVars(program = "ws2tcp" /\ RawAppEcho)
    /\ WF_rawVars(program = "ws2tcp" /\ RawOnWebsocket)
    /\ \A c \in RawConns : WF_rawVars(program = "ws2tcp" /\ OnData(c))
    /\ \A c \in RawConns : WF_rawVars(program = "ws2tcp" /\ RawOnClose(c))

(* The tunnel's goroutines run, and both ends read what has arrived;        *)
(* neither has to send or to close.                                         *)
StickyFairness ==
    /\ WF_stickyVars(program = "sticky" /\ (Dial \/ StickyDialFails))
    /\ \A s \in Sides : WF_stickyVars(program = "sticky" /\ Cor(s))
    /\ \A s \in Sides : WF_stickyVars(program = "sticky" /\ EndReads(s))

TaskFairness ==
    /\ WF_taskVars(program = "sticky client" /\ (Go \/ Wait))
    /\ \A t \in TaskIds : WF_taskVars(program = "sticky client" /\ TaskStep(t))
    /\ \A c \in TaskConns : WF_taskVars(program = "sticky client" /\ TaskServerEcho(c))

AllSpec ==
    /\ AllInit /\ [][AllNext]_allVars
    /\ ForwardFairness /\ WsFairness /\ RawFairness /\ StickyFairness /\ TaskFairness

(* Type correctness of the programs. *)
TunnelsTypeOK == TypeOK /\ WsTypeOK /\ RawTypeOK /\ StickyTypeOK /\ TaskTypeOK

(* The websocket proxy drops no message, whatever the interleaving of a     *)
(* connection's handlers with its set-up.  proxy_ws2tcp may lose bytes of   *)
(* the first frame, or of its answer, to its own engine between Upgrade and *)
(* the change of the data handlers (onWebsocket), and loses no others.  In  *)
(* the sticky tunnel every byte is in flight, in a buffer or delivered,     *)
(* once and in order.                                                       *)
TunnelsIntact == NothingDropped /\ RawStreamIntact /\ StreamsIntact

(* The tasks that share the sticky client's connections get an answer each, *)
(* and the report printed after Wait counts no task that did not.           *)
TasksAnswered == AnAnswerForEach /\ ReportIsHonest

(* The websocket proxies implement the abstract echo stream of messages and  *)
(* of bytes, the sticky tunnel a stream in each direction.                   *)
ProxiesEcho == WsEchoSpec /\ RawEchoSpec /\ BothStreams

(* A proxied connection that closes after SetSession takes its peer along,   *)
(* and so does a client of the websocket proxy at whatever step of the       *)
(* set-up it leaves; the goroutines of a sticky tunnel end.  A connection    *)
(* that OnClose finds without a session leaves its peer open: excepted.      *)
PeersCloseTogether == WsPeersCloseTogether /\ RawPeersCloseTogether /\ TornDown

(* The clients of the programs return, each as far as its module says.     *)
ForwardReturns == program = "forward" => ClientReturns
WsProxyReturns == program = "ws proxy" => WsClientReturns
Ws2TcpReturns == program = "ws2tcp" => RawClientReturns
StickyClientEnds == program = "sticky client" => Ends
ClientsReturn ==
    ForwardingCompletes /\ ForwardReturns /\ WsProxyReturns /\ Ws2TcpReturns /\ StickyClientEnds
=============================================================================
