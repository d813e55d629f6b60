--------------------------- MODULE TrafficForward ---------------------------
(***************************************************************************)
(* traffic_forward_tcp/proxy.go: one connection forwarded by the proxy     *)
(* (engine.OnOpen, DialAsyncTimeout's callback, engine.OnData) between the *)
(* stop-and-wait client() and the echo server() of the same file.          *)
(*                                                                         *)
(* The source connection's OnData, the dial callback and the destination's *)
(* OnData run on three goroutines.  OnData may be called before the dial   *)
(* has succeeded: the data then waits in the session's cache.  The mutex   *)
(* sess.mux orders that cache against data forwarded directly.             *)
(*                                                                         *)
(* Bytes are numbered by their place in what the client writes; a message  *)
(* of client() is MessageLen consecutive ones.  TCP hands over any prefix  *)
(* of what is in flight.                                                   *)
(***************************************************************************)
EXTENDS Naturals, Sequences, Chunks

CONSTANTS Rounds,       \* client() writes and reads this many messages
          MessageLen    \* bytes of a message

ASSUME RoundsIsNat == Rounds \in Nat \ {0} /\ MessageLen \in Nat \ {0}

VARIABLES phase,        \* what client() is doing
          round,        \* its loop variable i, from 1
          written, read,        \* all bytes it has written and read
          net,          \* bytes in flight on each leg, there and back
          srcOpen,      \* the accepted connection is open at the proxy
          dial,         \* where DialAsyncTimeout and its callback stand
          sess,         \* the source's Session; peer is sess.Peer # nil
          data,         \* what the source's OnData was called with
          dst           \* the destination's Session and whether it has one

client == <<phase, round, written, read>>
proxy == <<srcOpen, dial, sess, data, dst>>
vars == <<client, net, proxy>>

Total == Rounds * MessageLen
Message(i) == [k \in 1..MessageLen |-> (i - 1) * MessageLen + k]

Stream == Seq(1..Total)
Legs == {"toProxy", "toServer", "fromServer", "toClient"}

TypeOK ==
    /\ phase \in {"write", "read", "done", "failed", "killed", "not equal"}
    /\ round \in 1..Rounds
    /\ written \in Stream /\ read \in Stream /\ data \in Stream
    /\ net \in [Legs -> Stream]
    /\ srcOpen \in BOOLEAN
    /\ dial \in {"none", "dialing", "connected", "locking", "publishing",
                 "flushing", "done", "failed"}
    /\ sess \in [peer : BOOLEAN, cache : Stream, mux : {"free", "onData", "callback"}]
    /\ dst \in [session : {"nil", "peer", "own"}, cache : Stream]

DialTo(from, to) == dial = from /\ dial' = to

Init ==
    /\ phase = "write" /\ round = 1 /\ written = <<>> /\ read = <<>>
    /\ net = [leg \in Legs |-> <<>>]
    /\ srcOpen = TRUE
    /\ dial = "none"
    /\ sess = [peer |-> FALSE, cache |-> <<>>, mux |-> "free"]
    /\ data = <<>>
    /\ dst = [session |-> "nil", cache |-> <<>>]

-----------------------------------------------------------------------------
(* client(): conn.Write(wbuf). *)
ClientWrite ==
    /\ phase = "write" /\ phase' = "read"
    /\ written' = written \o Message(round)
    /\ net' = [net EXCEPT !.toProxy = @ \o Message(round)]
    /\ UNCHANGED <<round, read, proxy>>

(* client(): a read inside io.ReadFull. *)
ReadSome ==
    /\ phase = "read"
    /\ \E p \in Prefixes(net.toClient) :
          /\ Len(read) + Len(p) <= round * MessageLen
          /\ read' = read \o p
          /\ net' = [net EXCEPT !.toClient = Rest(@, p)]
    /\ UNCHANGED <<written, proxy>>

RoundOver == Len(read') = round * MessageLen
Rbuf == SubSeq(read', (round - 1) * MessageLen + 1, round * MessageLen)

(* Mutant: the loop of client() runs once more. *)
ClientReadOnceMore ==
    /\ ReadSome
    /\ IF RoundOver THEN phase' = "write" /\ round' = round + 1
                    ELSE UNCHANGED <<phase, round>>

(* client(): after the last read of a round wbuf and rbuf are compared.    *)
ClientRead ==
    /\ ReadSome
    /\ IF ~RoundOver THEN UNCHANGED <<phase, round>>
       ELSE /\ phase' = CASE Rbuf # Message(round) -> "not equal"
                          [] Rbuf = Message(round) /\ round < Rounds -> "write"
                          [] OTHER -> "done"
            /\ round' = IF phase' = "write" THEN round + 1 ELSE round

(* client(): Write or ReadFull returns an error, the proxy has closed.     *)
ClientFails ==
    /\ phase \in {"write", "read"} /\ ~srcOpen
    /\ phase' = "failed"
    /\ UNCHANGED <<round, written, read, net, proxy>>

(* The client's process dies.                                              *)
ClientKilled ==
    /\ phase \in {"write", "read"}
    /\ phase' = "killed"
    /\ UNCHANGED <<round, written, read, net, proxy>>

(* nbio notices that the client is gone; there is no OnClose handler, so   *)
(* the destination connection stays as it is.                              *)
SrcGone ==
    /\ phase \in {"done", "killed"} /\ srcOpen
    /\ srcOpen' = FALSE
    /\ net' = [net EXCEPT !.toProxy = <<>>]
    /\ UNCHANGED <<client, dial, sess, data, dst>>

-----------------------------------------------------------------------------
(* engine.OnOpen: the session is set before any data is read, then dialed. *)
OnOpen ==
    /\ DialTo("none", "dialing")
    /\ UNCHANGED <<client, net, srcOpen, sess, data, dst>>

(* Mutant: the callback does not close the source when the dial fails. *)
DialFailsSilently ==
    /\ DialTo("dialing", "failed")
    /\ UNCHANGED <<client, net, srcOpen, sess, data, dst>>

(* The callback's err # nil: refused, or three seconds have passed.        *)
DialFails ==
    /\ DialTo("dialing", "failed")
    /\ srcOpen' = FALSE
    /\ UNCHANGED <<client, net, sess, data, dst>>

DialConnects ==
    /\ DialTo("dialing", "connected")
    /\ UNCHANGED <<client, net, srcOpen, sess, data, dst>>

(* Mutant: the callback gives the destination no session. *)
NoDstSession ==
    /\ DialTo("connected", "locking")
    /\ UNCHANGED <<client, net, srcOpen, sess, data, dst>>

(* The callback: dstConn.SetSession(&Session{Peer: srcConn}).              *)
SetDstSession ==
    /\ DialTo("connected", "locking")
    /\ dst' = [session |-> "peer", cache |-> <<>>]
    /\ UNCHANGED <<client, net, srcOpen, sess, data>>

(* Mutant: the callback does not take the mutex. *)
NoLock ==
    /\ DialTo("locking", "publishing")
    /\ UNCHANGED <<client, net, srcOpen, sess, data, dst>>

(* The callback: sess.mux.Lock().                                          *)
LockSession ==
    /\ DialTo("locking", "publishing")
    /\ sess.mux = "free" /\ sess' = [sess EXCEPT !.mux = "callback"]
    /\ UNCHANGED <<client, net, srcOpen, data, dst>>

(* The callback: sess.Peer = dstConn.                                      *)
PublishPeer ==
    /\ DialTo("publishing", "flushing")
    /\ sess' = [sess EXCEPT !.peer = TRUE]
    /\ UNCHANGED <<client, net, srcOpen, data, dst>>

(* Mutant: the callback leaves the cache unwritten. *)
NoFlush ==
    /\ DialTo("flushing", "done")
    /\ sess' = [sess EXCEPT !.mux = "free"]
    /\ UNCHANGED <<client, net, srcOpen, data, dst>>

(* The callback: the cache is written to the peer, the mutex released.     *)
FlushCache ==
    /\ DialTo("flushing", "done")
    /\ net' = [net EXCEPT !.toServer = @ \o sess.cache]
    /\ sess' = [sess EXCEPT !.cache = <<>>, !.mux = "free"]
    /\ UNCHANGED <<client, srcOpen, data, dst>>

-----------------------------------------------------------------------------
(* engine.OnData of the source connection, up to sess.mux.Lock().          *)
OnDataSrc ==
    /\ srcOpen /\ dial # "none" /\ data = <<>>
    /\ \E p \in Prefixes(net.toProxy) :
          data' = p /\ net' = [net EXCEPT !.toProxy = Rest(@, p)]
    /\ UNCHANGED <<client, srcOpen, dial, sess, dst>>

OnDataLock ==
    /\ data # <<>>
    /\ sess.mux = "free" /\ sess' = [sess EXCEPT !.mux = "onData"]
    /\ UNCHANGED <<client, net, srcOpen, dial, data, dst>>

(* Cached while there is no peer, written to it when there is one.         *)
OnDataForward ==
    /\ data # <<>> /\ sess.mux = "onData"
    /\ IF sess.peer
       THEN /\ net' = [net EXCEPT !.toServer = @ \o data]
            /\ sess' = [sess EXCEPT !.mux = "free"]
       ELSE /\ sess' = [sess EXCEPT !.cache = @ \o data, !.mux = "free"]
            /\ UNCHANGED net
    /\ data' = <<>>
    /\ UNCHANGED <<client, srcOpen, dial, dst>>

(* engine.OnData of the destination connection: its session's Peer is the  *)
(* source.  Without a session it makes one whose Cache is the data, and    *)
(* appends the data to that.  A write to a closed source is lost.          *)
OnDataDst ==
    /\ \E p \in Prefixes(net.fromServer) :
          LET left == [net EXCEPT !.fromServer = Rest(@, p)]
          IN  IF dst.session = "peer"
              THEN /\ net' = IF srcOpen THEN [left EXCEPT !.toClient = @ \o p] ELSE left
                   /\ UNCHANGED dst
              ELSE /\ net' = left
                   /\ dst' = [session |-> "own", cache |->
                         IF dst.session = "nil" THEN p \o p ELSE dst.cache \o p]
    /\ UNCHANGED <<client, srcOpen, dial, sess, data>>

(* server(): conn.Read, then conn.Write of what was read.                  *)
ServerEcho ==
    /\ \E p \in Prefixes(net.toServer) :
          net' = [net EXCEPT !.toServer = Rest(@, p), !.fromServer = @ \o p]
    /\ UNCHANGED <<client, proxy>>

Callback == SetDstSession \/ LockSession \/ PublishPeer \/ FlushCache
DialEnds == DialFails \/ DialConnects
ClientStep == ClientWrite \/ ClientRead \/ ClientFails

Next ==
    \/ ClientStep \/ ClientKilled \/ SrcGone
    \/ OnOpen \/ DialEnds \/ Callback
    \/ OnDataSrc \/ OnDataLock \/ OnDataForward \/ OnDataDst \/ ServerEcho

Spec == Init /\ [][Next]_vars

-----------------------------------------------------------------------------
(* Nothing is lost, duplicated or overtaken between the client's Write and *)
(* its Read while the proxy keeps the connection: cached bytes are written *)
(* before those that find the peer set (mux, Cache).                       *)
StreamIntact ==
    srcOpen => read \o net.toClient \o net.fromServer \o net.toServer
                    \o sess.cache \o data \o net.toProxy = written

(* The destination's OnData always finds the session the dial callback set *)
(* for it (OnData's sess == nil branch, which would keep the data, twice,  *)
(* is never taken): the server only speaks when spoken to.                 *)
DstHasSession == dst.session # "own"

Echo == INSTANCE EchoStream WITH Bytes <- 1..Total

(* The forwarded connection is an echo stream: what client() reads is a    *)
(* prefix of what it has written, through dial, cache and echo.            *)
EchoSpec == Echo!Spec

(* Once the callback has run the client gets through all of its rounds,    *)
(* whatever was cached, unless it dies.                                    *)
ForwardingCompletes == dial = "done" ~> phase \in {"done", "killed"}

(* Every client returns: it is not left waiting when the dial fails.       *)
ClientReturns == <>(phase \in {"done", "failed", "killed"})
=============================================================================
