---------------------------- MODULE StickyTunnel ----------------------------
(***************************************************************************)
(* sticky/proxy: one tunnel between a client's connection and a server.    *)
(* Two goroutines, c2sCor and s2cCor, each read from one side and write    *)
(* what they have read to the other in pieces of arbitrary size, to test   *)
(* that the ends cope with chunks.  A goroutine whose Read or Write fails  *)
(* closes both connections.  The tunnels of websocket/server_sticky and    *)
(* tls_sticky_packet are the same with pieces of one byte.                 *)
(*                                                                         *)
(* Either end may send, stop reading for a while, or close; what is on the *)
(* way to an end is bounded by Window, so that a Write blocks.             *)
(***************************************************************************)
EXTENDS Naturals, Sequences, Chunks

CONSTANTS SendLimit,    \* bytes an end sends at most
          Window        \* bytes in flight on a leg at most

ASSUME LimitsArePositive == SendLimit \in Nat \ {0} /\ Window \in Nat \ {0}

VARIABLES stickySent, got,    \* what each end has sent and received
          gone,         \* an end has closed its connection
          toTunnel, toEnd,      \* bytes in flight to and from the tunnel
          open,         \* the tunnel's own connections
          cor,          \* the goroutine that reads from a side
          tmp           \* what it has read and not yet written

ends == <<stickySent, got, gone>>
stickyVars == <<ends, toTunnel, toEnd, open, cor, tmp>>

Sides == {"client", "server"}
Other(s) == CHOOSE o \in Sides : o # s

StickyStream == Seq(1..SendLimit)

StickyTypeOK ==
    /\ stickySent \in [Sides -> StickyStream] /\ got \in [Sides -> StickyStream]
    /\ gone \in [Sides -> BOOLEAN]
    /\ toTunnel \in [Sides -> StickyStream] /\ toEnd \in [Sides -> StickyStream]
    /\ \A s \in Sides : Len(toTunnel[s]) =< Window /\ Len(toEnd[s]) =< Window
    /\ open \in [Sides -> {"no", "yes", "closed"}]
    /\ cor \in [Sides -> {"none", "read", "write", "ended"}]
    /\ tmp \in [Sides -> StickyStream]
    /\ \A s \in Sides : tmp[s] # <<>> => cor[s] = "write"

StickyInit ==
    /\ stickySent = [s \in Sides |-> <<>>] /\ got = [s \in Sides |-> <<>>]
    /\ gone = [s \in Sides |-> FALSE]
    /\ toTunnel = [s \in Sides |-> <<>>] /\ toEnd = [s \in Sides |-> <<>>]
    /\ open = [s \in Sides |-> IF s = "client" THEN "yes" ELSE "no"]
    /\ cor = [s \in Sides |-> "none"]
    /\ tmp = [s \in Sides |-> <<>>]

CloseBoth == [s \in Sides |-> "closed"]

-----------------------------------------------------------------------------
(* An end writes its next byte; into a closed connection it is lost.       *)
EndSends(s) ==
    /\ ~gone[s] /\ open[s] # "no"
    /\ Len(stickySent[s]) < SendLimit /\ Len(toTunnel[s]) < Window
    /\ LET byte == Len(stickySent[s]) + 1
       IN  /\ stickySent' = [stickySent EXCEPT ![s] = Append(@, byte)]
           /\ toTunnel' = IF open[s] = "yes"
                          THEN [toTunnel EXCEPT ![s] = Append(@, byte)] ELSE toTunnel
    /\ UNCHANGED <<got, gone, toEnd, open, cor, tmp>>

EndReads(s) ==
    /\ ~gone[s]
    /\ \E p \in Prefixes(toEnd[s]) :
          /\ got' = [got EXCEPT ![s] = @ \o p]
          /\ toEnd' = [toEnd EXCEPT ![s] = Rest(@, p)]
    /\ UNCHANGED <<stickySent, gone, toTunnel, open, cor, tmp>>

(* An end closes; what it has sent still reaches the tunnel.               *)
EndCloses(s) ==
    /\ ~gone[s] /\ open[s] # "no"
    /\ gone' = [gone EXCEPT ![s] = TRUE]
    /\ toEnd' = [toEnd EXCEPT ![s] = <<>>]
    /\ UNCHANGED <<stickySent, got, toTunnel, open, cor, tmp>>

-----------------------------------------------------------------------------
(* stickyTunnel: net.Dial, then both goroutines are started. *)
Dial ==
    /\ open.client = "yes" /\ cor.client = "none"
    /\ open' = [open EXCEPT !.server = "yes"]
    /\ cor' = [s \in Sides |-> "read"]
    /\ UNCHANGED <<ends, toTunnel, toEnd, tmp>>

(* stickyTunnel: dialErr # nil. *)
StickyDialFails ==
    /\ open.client = "yes" /\ cor.client = "none"
    /\ open' = [open EXCEPT !.client = "closed"]
    /\ toTunnel' = [toTunnel EXCEPT !.client = <<>>]
    /\ UNCHANGED <<ends, toEnd, cor, tmp>>

(* c2sCor, s2cCor: Read returns some bytes. *)
CorReads(s) ==
    /\ cor[s] = "read" /\ open[s] = "yes"
    /\ \E p \in Prefixes(toTunnel[s]) :
          /\ tmp' = [tmp EXCEPT ![s] = p]
          /\ toTunnel' = [toTunnel EXCEPT ![s] = Rest(@, p)]
    /\ cor' = [cor EXCEPT ![s] = "write"]
    /\ UNCHANGED <<ends, toEnd, open>>

EndOfFile(s) == gone[s] /\ toTunnel[s] = <<>>

(* Mutant: after a failed Read only the side read from is closed. *)
ReadFailsClosesOne(s) ==
    /\ cor[s] = "read" /\ (open[s] = "closed" \/ EndOfFile(s))
    /\ cor' = [cor EXCEPT ![s] = "ended"]
    /\ open' = [open EXCEPT ![s] = "closed"]
    /\ toTunnel' = [toTunnel EXCEPT ![s] = <<>>]
    /\ UNCHANGED <<ends, toEnd, tmp>>

(* c2sCor, s2cCor: Read fails, the end or the other goroutine has closed.  *)
CorReadFails(s) ==
    /\ cor[s] = "read" /\ (open[s] = "closed" \/ EndOfFile(s))
    /\ cor' = [cor EXCEPT ![s] = "ended"]
    /\ open' = CloseBoth
    /\ toTunnel' = [side \in Sides |-> <<>>]
    /\ UNCHANGED <<ends, toEnd, tmp>>

(* What f may take of max bytes: a random number below max, at least one.  *)
Pieces(max) == {IF n = 0 THEN 1 ELSE n : n \in 0..max - 1}

(* The piece w from s goes to the other end; if that has closed, it is lost *)
(* until the first error.                                                  *)
Transmit(s, w) ==
    LET o == Other(s)
    IN  IF gone[o] THEN UNCHANGED toEnd
        ELSE /\ Len(toEnd[o]) + Len(w) =< Window
             /\ toEnd' = [toEnd EXCEPT ![o] = @ \o w]

(* Mutant: one piece is written instead of all of tmp. *)
WritesOnePiece(s) ==
    /\ cor[s] = "write" /\ open[Other(s)] = "yes"
    /\ \E n \in Pieces(Len(tmp[s])) :
          /\ Transmit(s, SubSeq(tmp[s], 1, n))
          /\ tmp' = [tmp EXCEPT ![s] = SubSeq(@, n + 1, Len(@))]
    /\ cor' = [cor EXCEPT ![s] = "read"]
    /\ UNCHANGED <<ends, toTunnel, open>>

(* c2sCor, s2cCor: the next piece of tmp is written.                       *)
CorWrites(s) ==
    /\ cor[s] = "write" /\ open[Other(s)] = "yes"
    /\ \E n \in Pieces(Len(tmp[s])) :
          /\ Transmit(s, SubSeq(tmp[s], 1, n))
          /\ tmp' = [tmp EXCEPT ![s] = SubSeq(@, n + 1, Len(@))]
    /\ cor' = [cor EXCEPT ![s] = IF tmp'[s] = <<>> THEN "read" ELSE "write"]
    /\ UNCHANGED <<ends, toTunnel, open>>

(* c2sCor, s2cCor: Write fails, also one that is blocked. *)
CorWriteFails(s) ==
    /\ cor[s] = "write" /\ (open[Other(s)] = "closed" \/ gone[Other(s)])
    /\ cor' = [cor EXCEPT ![s] = "ended"] /\ tmp' = [tmp EXCEPT ![s] = <<>>]
    /\ open' = CloseBoth
    /\ toTunnel' = [side \in Sides |-> <<>>]
    /\ UNCHANGED <<ends, toEnd>>

Cor(s) == CorReads(s) \/ CorReadFails(s) \/ CorWrites(s) \/ CorWriteFails(s)

StickyNext ==
    \/ Dial \/ StickyDialFails
    \/ \E s \in Sides : EndSends(s) \/ EndReads(s) \/ EndCloses(s) \/ Cor(s)

StickySpec == StickyInit /\ [][StickyNext]_stickyVars

-----------------------------------------------------------------------------
(* While the tunnel is up, all that an end has sent is in flight, with the *)
(* goroutine or received, in order, whatever pieces it was cut into.       *)
StreamsIntact ==
    \A s \in Sides :
        LET o == Other(s)
        IN  open[s] = "yes" /\ ~gone[o] =>
                got[o] \o toEnd[o] \o tmp[s] \o toTunnel[s] = stickySent[s]

ToServer == INSTANCE EchoStream
    WITH Bytes <- 1..SendLimit, written <- stickySent.client, read <- got.server

ToClient == INSTANCE EchoStream
    WITH Bytes <- 1..SendLimit, written <- stickySent.server, read <- got.client

(* Each direction is a stream of its own, whatever happens to the other    *)
(* and also while the tunnel is torn down.                                 *)
BothStreams == ToServer!Spec /\ ToClient!Spec

(* When an end closes, the tunnel closes the connection of the other and   *)
(* neither goroutine is left behind, even one that is blocked in Write.    *)
TornDown ==
    \A s \in Sides : gone[s] ~>
        /\ \A c \in Sides : open[c] # "yes"
        /\ \A c \in Sides : cor[c] \in {"none", "ended"}
=============================================================================
