------------------------------- MODULE SmallMC -------------------------------
(***************************************************************************)
(* The small programs, each with a few states: program names the one that  *)
(* runs, the variables of the others keep their initial values.            *)
(***************************************************************************)
EXTENDS Transfer, UdpForward, UdpEcho, Edges, TlsRing, NbClient, Uploader, StreamEcho, TlsCount, AsyncDial

VARIABLE program

MCUsers == {"u1", "u2"}
MCFramesOf == <<2, 1, 3>>
MCConns == {"c1", "c2"}
MCFlooders == {"f1", "f2"}

Programs == {"transfer", "udp forward", "udp echo", "edges", "tls ring", "nb client", "uploader", "stream echo",
             "tls count", "async dial"}
vars == <<program, transferVars, udpVars, echoVars, edgeVars, ringVars, nbVars, uploadVars, streamVars,
          countVars, dialVars>>

(* The initial states of the programs that do not run: one of them.        *)
TransferIdle == program # "transfer" => \A u \in Users : via[u] = "nb"
UdpEchoIdle == program # "udp echo" => kind = "nb"
EdgesIdle == program # "edges" => poller = "LT"
RingIdle == program # "tls ring" => ring = "tls"
NbIdle == program # "nb client" => noEcho
StreamIdle == program # "stream echo" => variant = "test"

Init ==
    /\ program \in Programs
    /\ TransferInit /\ UdpInit /\ UdpEchoInit /\ EdgesInit /\ TlsRingInit /\ NbInit /\ UploadInit /\ StreamInit
    /\ TlsCountInit /\ AsyncInit
    /\ TransferIdle /\ UdpEchoIdle /\ EdgesIdle /\ RingIdle /\ NbIdle /\ StreamIdle

Runs(name) == program = name /\ UNCHANGED program

Next ==
    \/ /\ Runs("transfer") /\ TransferNext
       /\ UNCHANGED <<udpVars, echoVars, edgeVars, ringVars, nbVars, uploadVars, streamVars, countVars, dialVars>>
    \/ /\ Runs("udp forward") /\ UdpNext
       /\ UNCHANGED <<transferVars, echoVars, edgeVars, ringVars, nbVars, uploadVars, streamVars, countVars, dialVars>>
    \/ /\ Runs("udp echo") /\ UdpEchoNext
       /\ UNCHANGED <<transferVars, udpVars, edgeVars, ringVars, nbVars, uploadVars, streamVars, countVars, dialVars>>
    \/ /\ Runs("edges") /\ EdgesNext
       /\ UNCHANGED <<transferVars, udpVars, echoVars, ringVars, nbVars, uploadVars, streamVars, countVars, dialVars>>
    \/ /\ Runs("tls ring") /\ TlsRingNext
       /\ UNCHANGED <<transferVars, udpVars, echoVars, edgeVars, nbVars, uploadVars, streamVars, countVars, dialVars>>
    \/ /\ Runs("nb client") /\ NbNext
       /\ UNCHANGED <<transferVars, udpVars, echoVars, edgeVars, ringVars, uploadVars, streamVars, countVars, dialVars>>
    \/ /\ Runs("uploader") /\ UploadNext
       /\ UNCHANGED <<transferVars, udpVars, echoVars, edgeVars, ringVars, nbVars, streamVars, countVars, dialVars>>
    \/ /\ Runs("stream echo") /\ StreamNext
       /\ UNCHANGED <<transferVars, udpVars, echoVars, edgeVars, ringVars, nbVars, uploadVars, countVars, dialVars>>
    \/ /\ Runs("tls count") /\ TlsCountNext
       /\ UNCHANGED <<transferVars, udpVars, echoVars, edgeVars, ringVars, nbVars, uploadVars, streamVars, dialVars>>
    \/ /\ Runs("async dial") /\ AsyncNext
       /\ UNCHANGED <<transferVars, udpVars, echoVars, edgeVars, ringVars, nbVars, uploadVars, streamVars, countVars>>

(* Goroutines run, pollers report and the network delivers in the end what *)
(* it does not lose.  A send that waits for a channel waits in its queue   *)
(* (SF): no later send overtakes it.                                       *)
Fairness ==
    /\ WF_transferVars(program = "transfer" /\ StartStep)
    /\ WF_transferVars(program = "transfer" /\ ShutdownStep)
    /\ \A u \in Users : WF_transferVars(program = "transfer" /\ UserStep(u))
    /\ WF_udpVars(program = "udp forward" /\ UdpProgress)
    /\ WF_edgeVars(program = "edges" /\ (BenchClientWrites \/ BenchOnData))
    /\ WF_edgeVars(program = "edges" /\ Arrive)
    /\ WF_edgeVars(program = "edges" /\ (LTRead \/ ETRead \/ OnRead))
    /\ WF_ringVars(program = "tls ring" /\ TlsRingNext)
    /\ WF_nbVars(program = "nb client" /\ (NbDial \/ NbPush))
    /\ \A f \in Flooders : WF_nbVars(program = "nb client" /\ (FloodTake(f) \/ FloodWrite(f)))
    /\ \A c \in Conns : SF_nbVars(program = "nb client" /\ OnEchoReturns(c))
    /\ WF_streamVars(program = "stream echo" /\ StreamNext)
    /\ WF_countVars(program = "tls count" /\ TlsCountNext)
    /\ WF_dialVars(program = "async dial" /\ AsyncNext)

Spec == Init /\ [][Next]_vars /\ Fairness

(* Type correctness of the programs. *)
SmallTypeOK ==
    /\ TransferTypeOK /\ UdpTypeOK /\ UdpEchoTypeOK /\ EdgesTypeOK /\ TlsRingTypeOK
    /\ NbTypeOK /\ UploadTypeOK /\ StreamTypeOK /\ TlsCountTypeOK /\ AsyncTypeOK

(* The engine is shut down after the servers that hand connections over have *)
(* stopped, and no connection of theirs ever is with the engine: Online(),   *)
(* which main prints, counts only the engine's own.                          *)
TransferIsOrdered == EngineLast /\ OnlineMissesTransferred

(* A datagram of the UDP forwarder never mixes two writes of its client,    *)
(* though its cache merges copies of the first, what the server sends is     *)
(* forwarded, and without a duplicate of the network an answer is that of    *)
(* its round; nor is the done channel of the echo client closed twice.       *)
DatagramsMatch == BoundariesKept /\ ServerDataForwarded /\ AnswersMatch /\ PanicNeedsDuplicate

(* Data that no event will announce again never waits: neither in a socket  *)
(* that is read edge-triggered nor in the TLS library behind one that is     *)
(* read record by record; and one message goes round on a TLS connection.    *)
NothingLeftUnread == NothingStranded /\ NothingLeftRaw /\ OneMessageRound

(* No token of connectedClients is lost or made twice by the OnMessage and   *)
(* the floods that share it, and putting in a new connection never waits.    *)
StartUpIsSound == TokensKept /\ StartUpNeverBlocks

(* The echo keeps the order and never exceeds the write limit, and the       *)
(* programs that count calls of OnData count messages only when TCP has      *)
(* neither merged nor cut them.                                              *)
EchoesAreCounted == EchoInOrder /\ NeverOverflows /\ PassNeedsSeparateRecords /\ FewerEchoesNeedFragments

(* A finished file is one message, whole, also when another could not be     *)
(* created, and no file stays open when its connection is closed.            *)
UploadsAreSound == FilesAreMessages /\ NoFileLeaks

(* After an interrupt the transfer server's main returns.                  *)
TransferReturns == tmain = "shutdown tls" ~> MainEnds

(* Its clients do not outlive it. *)
UsersEndWithServer == MainEnds ~> UsersEnd

(* The UDP client returns, or panics over a duplicate, unless a datagram   *)
(* was lost or the dial failed.                                            *)
ForwardClientReturns == program = "udp forward" ~> ClientReturns

(* Level- and edge-triggered reading both read everything. *)
EverythingRead == program = "edges" ~> AllPrinted

(* The bytes of a bench client go round for ever. *)
BenchGoesRound ==
    /\ []<>(program = "edges" /\ written => ClientTurn)
    /\ []<>(program = "edges" /\ written => ServerTurn)

(* The message of a TLS client goes round for ever. *)
RingNeverStops == []<>(program = "tls ring" => RingGoes) /\ []<>(program = "tls ring" => RingComes)

(* An OnMessage that waits for room in connectedClients returns. *)
OnMessageReturns == \A c \in Conns : Blocked(c) ~> ~Blocked(c)

(* The test of the echo server passes. *)
EchoTestPasses == program = "stream echo" ~> TestPasses

(* So does the test of the TLS server, unless it dialled before the server *)
(* listened or records were read together.                                 *)
TlsTestEnds == program = "tls count" ~> TestReturnsOrMerged

(* The client of async_dialer closes in the end. *)
AsyncDialerEnds == program = "async dial" ~> DialerEnds

(* What each of the small programs promises in the end. *)
SmallProgramsProgress ==
    /\ TransferReturns /\ UsersEndWithServer
    /\ ForwardClientReturns
    /\ EverythingRead /\ BenchGoesRound /\ RingNeverStops
    /\ OnMessageReturns
    /\ EchoTestPasses /\ TlsTestEnds /\ AsyncDialerEnds
=============================================================================
