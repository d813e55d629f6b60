------------------------------- MODULE Ws2Tcp -------------------------------
(***************************************************************************)
(* websocket_proxy/proxy_ws2tcp: the proxy that speaks websocket only for  *)
(* the two handshakes and then copies the TCP streams.  app_client and     *)
(* app_server are the same as in WsProxy.                                  *)
(*                                                                         *)
(* onWebsocket dials the app server, upgrades the client's connection,     *)
(* makes each connection the session of the other and then gives each a    *)
(* data handler that writes to the other.  Until it has that handler the   *)
(* data of a connection is parsed by the proxy's own websocket engine,     *)
(* which has no OnMessage and drops it.                                    *)
(*                                                                         *)
(* Bytes are numbered by their place in what the client writes; a frame    *)
(* of the client is FrameLen consecutive ones, an answer repeats it.       *)
(***************************************************************************)
EXTENDS Naturals, Sequences, Chunks

CONSTANTS Frames,       \* the client's loop writes this many
          FrameLen

ASSUME FramesArePositive == Frames \in Nat \ {0} /\ FrameLen \in Nat \ {0}

VARIABLES rawPhase,        \* what the client is doing
          rawWritten, rawRead,        \* the frames it wrote and read, as bytes
          rawNet,          \* bytes on their way, on each leg
          rawHandler,      \* where onWebsocket stands
          rawConn,         \* the proxy's two connections
          rawSession,      \* whether a connection's session is its peer
          raw,          \* whether a connection has its own data handler
          parsed        \* bytes taken by the proxy's websocket engine

rawClient == <<rawPhase, rawWritten, rawRead>>
rawVars == <<rawClient, rawNet, rawHandler, rawConn, rawSession, raw, parsed>>

RawConns == {"src", "dst"}
RawPeer(c) == CHOOSE p \in RawConns : p # c

RawLegs == {"toProxy", "toApp", "fromApp", "toClient"}
RawIn(c) == IF c = "src" THEN "toProxy" ELSE "fromApp"
RawOut(c) == IF c = "src" THEN "toClient" ELSE "toApp"

RawStream == Seq(1..Frames * FrameLen)
Frame(k) == [b \in 1..FrameLen |-> (k - 1) * FrameLen + b]
FirstFrame(s) == SubSeq(s, 1, IF Len(s) < FrameLen THEN Len(s) ELSE FrameLen)
Starts(s) == \E k \in 1..Frames : SubSeq(Frame(k), 1, Len(s)) = s

(* A connection is closing until OnClose has run; alone means that OnClose *)
(* has found no peer in the session.                                       *)
RawTypeOK ==
    /\ rawPhase \in {"dial", "write", "read", "done", "failed", "wrong answer"}
    /\ rawWritten \in RawStream /\ rawRead \in RawStream
    /\ rawNet \in [RawLegs -> RawStream]
    /\ rawHandler \in {"idle", "dialed", "upgraded", "src session", "dst session",
                    "src data", "done", "failed"}
    /\ rawConn \in [RawConns -> {"none", "open", "closing", "closed", "alone"}]
    /\ rawSession \in [RawConns -> BOOLEAN] /\ raw \in [RawConns -> BOOLEAN]
    /\ parsed \in [RawConns -> RawStream]

RawInit ==
    /\ rawPhase = "dial" /\ rawWritten = <<>> /\ rawRead = <<>>
    /\ rawNet = [leg \in RawLegs |-> <<>>]
    /\ rawHandler = "idle"
    /\ rawConn = [c \in RawConns |-> IF c = "src" THEN "open" ELSE "none"]
    /\ rawSession = [c \in RawConns |-> FALSE]
    /\ raw = [c \in RawConns |-> FALSE]
    /\ parsed = [c \in RawConns |-> <<>>]

RawUp(c) == rawConn[c] = "open"
RawClose(c, conns) == IF conns[c] = "open" THEN [conns EXCEPT ![c] = "closing"] ELSE conns

-----------------------------------------------------------------------------
(* app_client: Dial has got the handshake's answer, 101 or 502. *)
RawClientDialed ==
    /\ rawPhase = "dial" /\ rawHandler \notin {"idle", "dialed"}
    /\ rawPhase' = IF rawHandler = "failed" THEN "failed" ELSE "write"
    /\ UNCHANGED <<rawWritten, rawRead, rawNet, rawHandler, rawConn, rawSession, raw, parsed>>

NextFrame == Frame(Len(rawWritten) \div FrameLen + 1)

(* app_client: WriteMessage; on a connection that is gone nothing arrives. *)
RawClientWrite ==
    /\ rawPhase = "write" /\ rawPhase' = "read"
    /\ rawWritten' = rawWritten \o NextFrame
    /\ rawNet' = IF RawUp("src") THEN [rawNet EXCEPT !.toProxy = @ \o NextFrame] ELSE rawNet
    /\ UNCHANGED <<rawRead, rawHandler, rawConn, rawSession, raw, parsed>>

LastFrame == Frame(Len(rawWritten) \div FrameLen)

(* app_client: ReadMessage waits for a whole frame, which is compared with *)
(* the request.  Bytes that are not the start of a frame are an error.     *)
RawClientRead ==
    /\ rawPhase = "read" /\ rawNet.toClient # <<>>
    /\ LET s == FirstFrame(rawNet.toClient)
       IN  IF ~Starts(s) THEN rawPhase' = "failed" /\ UNCHANGED <<rawRead, rawNet>>
           ELSE /\ Len(s) = FrameLen
                /\ rawRead' = rawRead \o s
                /\ rawNet' = [rawNet EXCEPT !.toClient = Rest(@, s)]
                /\ rawPhase' = CASE s # LastFrame -> "wrong answer"
                              [] s = LastFrame /\ Len(rawWritten) < Frames * FrameLen -> "write"
                              [] OTHER -> "done"
    /\ UNCHANGED <<rawWritten, rawHandler, rawConn, rawSession, raw, parsed>>

(* app_client: WriteMessage or ReadMessage fails, main returns. *)
RawClientFails ==
    /\ rawPhase \in {"dial", "write", "read"} /\ ~RawUp("src")
    /\ rawPhase' = "failed"
    /\ UNCHANGED <<rawWritten, rawRead, rawNet, rawHandler, rawConn, rawSession, raw, parsed>>

(* The client's process ends or dies, its connection with it.              *)
RawClientLeaves ==
    /\ RawUp("src")
    /\ rawPhase' = IF rawPhase = "done" THEN "done" ELSE "failed"
    /\ rawConn' = RawClose("src", rawConn)
    /\ rawNet' = [rawNet EXCEPT !.toClient = <<>>]
    /\ UNCHANGED <<rawWritten, rawRead, rawHandler, rawSession, raw, parsed>>

(* app_server: echo reads a whole message and writes it back; bytes that   *)
(* are not the start of one make it return.                                *)
RawAppEcho ==
    /\ RawUp("dst") /\ rawNet.toApp # <<>>
    /\ LET s == FirstFrame(rawNet.toApp)
       IN  IF ~Starts(s) THEN /\ rawConn' = RawClose("dst", rawConn)
                              /\ rawNet' = [rawNet EXCEPT !.toApp = <<>>]
           ELSE /\ Len(s) = FrameLen
                /\ rawNet' = [rawNet EXCEPT !.toApp = Rest(@, s), !.fromApp = @ \o s]
                /\ UNCHANGED rawConn
    /\ UNCHANGED <<rawClient, rawHandler, rawSession, raw, parsed>>

(* The app server dies.                                                    *)
RawAppLeaves ==
    /\ RawUp("dst")
    /\ rawConn' = RawClose("dst", rawConn)
    /\ rawNet' = [rawNet EXCEPT !.toApp = <<>>]
    /\ UNCHANGED <<rawClient, rawHandler, rawSession, raw, parsed>>

-----------------------------------------------------------------------------
RawOnWebsocketTo(from, to) == rawHandler = from /\ rawHandler' = to

(* onWebsocket: Dial fails and the client is answered 502.                 *)
RawDialFails ==
    /\ RawOnWebsocketTo("idle", "failed")
    /\ UNCHANGED <<rawClient, rawNet, rawConn, rawSession, raw, parsed>>

RawDialConnects ==
    /\ RawOnWebsocketTo("idle", "dialed")
    /\ rawConn' = [rawConn EXCEPT !.dst = "open"]
    /\ UNCHANGED <<rawClient, rawNet, rawSession, raw, parsed>>

(* onWebsocket: Upgrade answers the client; from here on it may write.     *)
RawUpgrade ==
    /\ RawOnWebsocketTo("dialed", "upgraded")
    /\ UNCHANGED <<rawClient, rawNet, rawConn, rawSession, raw, parsed>>

SetSession(c, from, to) ==
    /\ RawOnWebsocketTo(from, to)
    /\ rawSession' = [rawSession EXCEPT ![c] = TRUE]
    /\ UNCHANGED <<rawClient, rawNet, rawConn, raw, parsed>>

SetOnData(c, from, to) ==
    /\ RawOnWebsocketTo(from, to)
    /\ raw' = [raw EXCEPT ![c] = TRUE]
    /\ UNCHANGED <<rawClient, rawNet, rawConn, rawSession, parsed>>

(* onWebsocket: steps 3 and 4 of its comments. *)
Link ==
    \/ SetSession("src", "upgraded", "src session")
    \/ SetSession("dst", "src session", "dst session")
    \/ SetOnData("src", "dst session", "src data")
    \/ SetOnData("dst", "src data", "done")

(* A connection's own data handler writes to the peer.                     *)
OnData(c) ==
    /\ RawUp(c) /\ raw[c]
    /\ \E p \in Prefixes(rawNet[RawIn(c)]) :
          LET left == [rawNet EXCEPT ![RawIn(c)] = Rest(@, p)]
          IN  rawNet' = IF RawUp(RawPeer(c)) THEN [left EXCEPT ![RawOut(RawPeer(c))] = @ \o p] ELSE left
    /\ UNCHANGED <<rawClient, rawHandler, rawConn, rawSession, raw, parsed>>

(* Without one the data is parsed as frames of the proxy itself.           *)
ParseFrames(c) ==
    /\ RawUp(c) /\ ~raw[c]
    /\ \E p \in Prefixes(rawNet[RawIn(c)]) :
          /\ rawNet' = [rawNet EXCEPT ![RawIn(c)] = Rest(@, p)]
          /\ parsed' = [parsed EXCEPT ![c] = @ \o p]
    /\ UNCHANGED <<rawClient, rawHandler, rawConn, rawSession, raw>>

(* proxyServer.OnClose: the peer in the session, if any, is closed.        *)
RawOnClose(c) ==
    /\ rawConn[c] = "closing"
    /\ rawConn' = IF rawSession[c] THEN RawClose(RawPeer(c), [rawConn EXCEPT ![c] = "closed"])
                             ELSE [rawConn EXCEPT ![c] = "alone"]
    /\ rawNet' = [rawNet EXCEPT ![RawIn(c)] = <<>>]
    /\ UNCHANGED <<rawClient, rawHandler, rawSession, raw, parsed>>

RawClientStep == RawClientDialed \/ RawClientWrite \/ RawClientRead \/ RawClientFails
RawOnWebsocket == RawDialFails \/ RawDialConnects \/ RawUpgrade \/ Link

RawNext ==
    \/ RawClientStep \/ RawClientLeaves \/ RawAppEcho \/ RawAppLeaves
    \/ RawOnWebsocket
    \/ \E c \in RawConns : OnData(c) \/ ParseFrames(c) \/ RawOnClose(c)

RawSpec == RawInit /\ [][RawNext]_rawVars

-----------------------------------------------------------------------------
Untouched == \A c \in RawConns : parsed[c] = <<>>

(* As onWebsocket's comment has it, dialing before the upgrade makes sure  *)
(* that the proxy never parses a frame of the proxied application.         *)
NoFrameParsed == Untouched

(* While both connections are up, every byte of the client is answered, on  *)
(* one of the legs, or lost to the proxy's own engine, which parses what    *)
(* comes between Upgrade and the change of a data handler.  Only the first  *)
(* frame or its answer can be lost so, wholly or in part, and the client    *)
(* never gets an answer then: no byte of a later frame is dropped.          *)
RawStreamIntact ==
    RawUp("src") /\ RawUp("dst") =>
        /\ rawRead \o parsed.src \o parsed.dst \o
              rawNet.toClient \o rawNet.fromApp \o rawNet.toApp \o rawNet.toProxy = rawWritten
        /\ Untouched \/ (rawRead = <<>> /\ Len(rawWritten) = FrameLen)

RawEcho == INSTANCE EchoStream
    WITH Bytes <- 1..Frames * FrameLen, written <- rawWritten, read <- rawRead

(* The client only ever reads answers to what it wrote, in order, also     *)
(* when the proxy has parsed part of a frame: what it forwards of the rest *)
(* is refused by the other end.                                            *)
RawEchoSpec == RawEcho!Spec

(* A connection that closes once its session is set takes its peer along.  *)
(* One that is closed before, at any step from the dial on, leaves the      *)
(* other open (OnClose finds no session): nothing is said of it.            *)
RawPeersCloseTogether ==
    \A c \in RawConns :
        rawConn[c] = "closing" /\ rawSession[c] ~> rawConn[RawPeer(c)] \in {"closed", "alone"}

(* The client does not wait forever, unless the proxy has parsed its data  *)
(* or dst was closed before its session was set.                           *)
RawClientReturns ==
    <>(rawPhase \in {"done", "failed"} \/ ~Untouched \/ rawConn.dst = "alone")
=============================================================================
