------------------------------ MODULE WsProxy ------------------------------
(***************************************************************************)
(* websocket_proxy: a client that writes messages and waits for each       *)
(* answer (app_client), an echo server (app_server) and between them the   *)
(* proxy of proxy_server, for one client.                                  *)
(*                                                                         *)
(* The proxy's onWebsocket upgrades the client's connection src, dials the *)
(* app server for dst and then makes each the session of the other.        *)
(* OnMessage and OnClose find the peer in the session.  The engine runs    *)
(* what belongs to one connection in order, so OnMessage and OnClose of    *)
(* src come after onWebsocket, which is part of it; those of dst run at    *)
(* any time once it is dialed.                                             *)
(***************************************************************************)
EXTENDS Naturals, Sequences

CONSTANT WsRounds         \* the client's loop: two messages in each

ASSUME RoundsIsPositive == WsRounds \in Nat \ {0}

VARIABLES wsPhase,        \* what the client is doing
          wsSent, received,       \* the client's messages and their answers
          wsNet,          \* messages on their way, on each leg
          wsHandler,      \* where onWebsocket stands
          wsConn,         \* the proxy's two connections
          wsSession       \* whether a connection's session is its peer

wsClient == <<wsPhase, wsSent, received>>
wsVars == <<wsClient, wsNet, wsHandler, wsConn, wsSession>>

WsConns == {"src", "dst"}
WsPeer(c) == CHOOSE p \in WsConns : p # c

WsLegs == {"toProxy", "toApp", "fromApp", "toClient"}
WsIn(c) == IF c = "src" THEN "toProxy" ELSE "fromApp"
WsOut(c) == IF c = "src" THEN "toClient" ELSE "toApp"

WsMessages == [round : 1..WsRounds, type : {"binary", "text"}]
Request(k) == [round |-> (k + 1) \div 2,
               type |-> IF k % 2 = 1 THEN "binary" ELSE "text"]

(* A connection is closing until its OnClose has run; alone means that     *)
(* OnClose has found no peer in the session.                               *)
WsTypeOK ==
    /\ wsPhase \in {"dial", "write", "read", "done", "failed", "wrong answer"}
    /\ wsSent \in Seq(WsMessages) /\ received \in Seq(WsMessages)
    /\ wsNet \in [WsLegs -> Seq(WsMessages)]
    /\ wsHandler \in {"idle", "upgraded", "dialed", "linking", "done", "failed"}
    /\ wsConn \in [WsConns -> {"none", "open", "closing", "closed", "alone"}]
    /\ wsSession \in [WsConns -> BOOLEAN]

WsInit ==
    /\ wsPhase = "dial" /\ wsSent = <<>> /\ received = <<>>
    /\ wsNet = [leg \in WsLegs |-> <<>>]
    /\ wsHandler = "idle"
    /\ wsConn = [c \in WsConns |-> "none"]
    /\ wsSession = [c \in WsConns |-> FALSE]

WsUp(c) == wsConn[c] = "open"
WsClose(c, conns) == IF conns[c] = "open" THEN [conns EXCEPT ![c] = "closing"] ELSE conns

-----------------------------------------------------------------------------
(* app_client: Dial has got the handshake's answer. *)
WsClientDialed ==
    /\ wsPhase = "dial" /\ wsHandler # "idle" /\ wsPhase' = "write"
    /\ UNCHANGED <<wsSent, received, wsNet, wsHandler, wsConn, wsSession>>

(* app_client: WriteMessage; on a connection that is gone nothing arrives. *)
WsClientWrite ==
    /\ wsPhase = "write" /\ wsPhase' = "read"
    /\ wsSent' = Append(wsSent, Request(Len(wsSent) + 1))
    /\ wsNet' = IF WsUp("src")
              THEN [wsNet EXCEPT !.toProxy = Append(@, Request(Len(wsSent) + 1))] ELSE wsNet
    /\ UNCHANGED <<received, wsHandler, wsConn, wsSession>>

(* app_client: ReadMessage, then type and content are compared. *)
WsClientRead ==
    /\ wsPhase = "read" /\ wsNet.toClient # <<>>
    /\ LET answer == Head(wsNet.toClient)
       IN  /\ received' = Append(received, answer)
           /\ wsPhase' = CASE answer # Request(Len(wsSent)) -> "wrong answer"
                         [] Len(wsSent) < 2 * WsRounds -> "write"
                         [] OTHER -> "done"
    /\ wsNet' = [wsNet EXCEPT !.toClient = Tail(@)]
    /\ UNCHANGED <<wsSent, wsHandler, wsConn, wsSession>>

(* app_client: WriteMessage or ReadMessage fails, main returns. *)
WsClientFails ==
    /\ wsPhase \in {"write", "read"} /\ wsConn.src \in {"closing", "closed", "alone"}
    /\ wsPhase' = "failed"
    /\ UNCHANGED <<wsSent, received, wsNet, wsHandler, wsConn, wsSession>>

(* The client's process ends or dies, its connection with it.              *)
WsClientLeaves ==
    /\ wsPhase # "dial" /\ WsUp("src")
    /\ wsPhase' = IF wsPhase \in {"write", "read"} THEN "failed" ELSE wsPhase
    /\ wsConn' = WsClose("src", wsConn)
    /\ wsNet' = [wsNet EXCEPT !.toClient = <<>>]
    /\ UNCHANGED <<wsSent, received, wsHandler, wsSession>>

(* app_server: echo reads a message and writes it back. *)
WsAppEcho ==
    /\ WsUp("dst") /\ wsNet.toApp # <<>>
    /\ wsNet' = [wsNet EXCEPT !.toApp = Tail(@), !.fromApp = Append(@, Head(wsNet.toApp))]
    /\ UNCHANGED <<wsClient, wsHandler, wsConn, wsSession>>

(* app_server: echo returns after an error, or the server dies.            *)
WsAppLeaves ==
    /\ WsUp("dst")
    /\ wsConn' = WsClose("dst", wsConn)
    /\ wsNet' = [wsNet EXCEPT !.toApp = <<>>]
    /\ UNCHANGED <<wsClient, wsHandler, wsSession>>

-----------------------------------------------------------------------------
WsOnWebsocketTo(from, to) == wsHandler = from /\ wsHandler' = to

(* onWebsocket: upgrader.Upgrade answers the client's handshake. *)
WsUpgrade ==
    /\ WsOnWebsocketTo("idle", "upgraded")
    /\ wsConn' = [wsConn EXCEPT !.src = "open"]
    /\ UNCHANGED <<wsClient, wsNet, wsSession>>

(* onWebsocket: dialer.Dial returns an error. *)
WsDialFails ==
    /\ WsOnWebsocketTo("upgraded", "failed")
    /\ wsConn' = WsClose("src", wsConn)
    /\ UNCHANGED <<wsClient, wsNet, wsSession>>

WsDialConnects ==
    /\ WsOnWebsocketTo("upgraded", "dialed")
    /\ wsConn' = [wsConn EXCEPT !.dst = "open"]
    /\ UNCHANGED <<wsClient, wsNet, wsSession>>

(* onWebsocket: srcConn.SetSession(dstConn). *)
SetSrcSession ==
    /\ WsOnWebsocketTo("dialed", "linking")
    /\ wsSession' = [wsSession EXCEPT !.src = TRUE]
    /\ UNCHANGED <<wsClient, wsNet, wsConn>>

(* onWebsocket: dstConn.SetSession(srcConn). *)
WsSetDstSession ==
    /\ WsOnWebsocketTo("linking", "done")
    /\ wsSession' = [wsSession EXCEPT !.dst = TRUE]
    /\ UNCHANGED <<wsClient, wsNet, wsConn>>

(* A connection's handlers run one after the other, onWebsocket is src's.  *)
InOrder(c) == c = "src" => wsHandler \in {"done", "failed"}

(* Mutant: answers are always sent as text. *)
OnMessageAsText(c) ==
    /\ WsUp(c) /\ InOrder(c) /\ wsNet[WsIn(c)] # <<>>
    /\ LET text == [Head(wsNet[WsIn(c)]) EXCEPT !.type = "text"]
           left == [wsNet EXCEPT ![WsIn(c)] = Tail(@)]
       IN  wsNet' = IF wsSession[c] /\ WsUp(WsPeer(c))
                  THEN [left EXCEPT ![WsOut(WsPeer(c))] = Append(@, text)] ELSE left
    /\ UNCHANGED <<wsClient, wsHandler, wsConn, wsSession>>

(* OnMessage: the peer in the session, if there is one, is written to.     *)
OnMessage(c) ==
    /\ WsUp(c) /\ InOrder(c) /\ wsNet[WsIn(c)] # <<>>
    /\ LET left == [wsNet EXCEPT ![WsIn(c)] = Tail(@)]
       IN  wsNet' = IF wsSession[c] /\ WsUp(WsPeer(c))
                  THEN [left EXCEPT ![WsOut(WsPeer(c))] = Append(@, Head(wsNet[WsIn(c)]))]
                  ELSE left
    /\ UNCHANGED <<wsClient, wsHandler, wsConn, wsSession>>

(* OnClose: the peer in the session, if there is one, is closed.           *)
WsOnClose(c) ==
    /\ wsConn[c] = "closing" /\ InOrder(c)
    /\ wsConn' = IF wsSession[c] THEN WsClose(WsPeer(c), [wsConn EXCEPT ![c] = "closed"])
                             ELSE [wsConn EXCEPT ![c] = "alone"]
    /\ wsNet' = [wsNet EXCEPT ![WsIn(c)] = <<>>]
    /\ UNCHANGED <<wsClient, wsHandler, wsSession>>

WsClientStep == WsClientDialed \/ WsClientWrite \/ WsClientRead \/ WsClientFails
WsOnWebsocket == WsUpgrade \/ WsDialFails \/ WsDialConnects \/ SetSrcSession \/ WsSetDstSession

WsNext ==
    \/ WsClientStep \/ WsClientLeaves \/ WsAppEcho \/ WsAppLeaves
    \/ WsOnWebsocket
    \/ \E c \in WsConns : OnMessage(c) \/ WsOnClose(c)

WsSpec == WsInit /\ [][WsNext]_wsVars

-----------------------------------------------------------------------------
(* While both connections are up, or dst is still to be dialed, every      *)
(* request is on one of the legs or answered: no message is dropped for    *)
(* want of a session (OnMessage's !ok), though the client may write as     *)
(* soon as Upgrade has answered and before the sessions are set.           *)
NothingDropped ==
    WsUp("src") /\ (WsUp("dst") \/ wsConn.dst = "none") =>
        received \o wsNet.toClient \o wsNet.fromApp \o wsNet.toApp \o wsNet.toProxy = wsSent

WsEcho == INSTANCE EchoStream WITH Bytes <- WsMessages, written <- wsSent, read <- received

(* The proxied application is an echo of whole messages, types included.   *)
WsEchoSpec == WsEcho!Spec

(* A connection that closes once its session is set takes its peer along,  *)
(* and src does so at whatever step of onWebsocket the client leaves, since *)
(* its OnClose comes after it.  Of dst closed between Dial and SetSession   *)
(* nothing is said: it leaves src open.                                     *)
WsPeersCloseTogether ==
    /\ \A c \in WsConns :
          wsConn[c] = "closing" /\ wsSession[c] ~> wsConn[WsPeer(c)] \in {"closed", "alone"}
    /\ wsConn.src = "closing" ~> wsConn.dst \in {"none", "closed", "alone"}

(* The client does not wait forever, unless dst was closed before its      *)
(* session was set: then nobody tells src (OnClose's else).                *)
WsClientReturns == <>(wsPhase \in {"done", "failed"} \/ wsConn.dst = "alone")
=============================================================================
