------------------------------- MODULE Edges -------------------------------
(***************************************************************************)
(* How servers learn that a connection has data.  lt_et: a level-triggered *)
(* poller reads one buffer per event and is told again of the rest, an     *)
(* edge-triggered one is told once per arrival and reads until nothing is  *)
(* left (the comment at the end of lt_et.go).  bench: the server's OnRead  *)
(* reads one buffer per edge and echoes it, the client echoes the echo.    *)
(***************************************************************************)
EXTENDS Naturals

CONSTANTS LtBuffer,     \* ReadBufferSize of the servers of lt_et
          LtData,       \* the length of "hello" and "world"
          BenchBuffer,  \* the buffer of bench's OnRead
          BenchData     \* bench's bufsize

(* bench's bufsize, 64, is no longer than OnRead's buffer, 1024. *)
ASSUME BenchFits == BenchBuffer \in Nat /\ BenchData \in 1..BenchBuffer
ASSUME LtSizes == LtBuffer \in Nat \ {0} /\ LtData \in Nat

VARIABLES poller,       \* LT, ET or bench
          written,      \* the client has written its data
          onWire, inSocket,        \* bytes on the way and in the server's socket
          event,        \* an event of the server's socket is due
          back,         \* bytes on the way to, or in, the client's socket
          printed       \* bytes given to OnData

edgeVars == <<poller, written, onWire, inSocket, event, back, printed>>

EdgesTypeOK ==
    /\ poller \in {"LT", "ET", "bench"} /\ written \in BOOLEAN /\ event \in BOOLEAN
    /\ onWire \in Nat /\ inSocket \in Nat /\ back \in Nat /\ printed \in Nat
    /\ onWire + inSocket + back + printed =
          IF ~written THEN 0 ELSE IF poller = "bench" THEN BenchData ELSE LtData

EdgesInit ==
    /\ poller \in {"LT", "ET", "bench"} /\ written = FALSE /\ event = FALSE
    /\ onWire = 0 /\ inSocket = 0 /\ back = 0 /\ printed = 0

MinOf(a, b) == IF a < b THEN a ELSE b
-----------------------------------------------------------------------------
(* Client and the goroutines of bench's main. *)
BenchClientWrites ==
    /\ ~written /\ written' = TRUE
    /\ onWire' = IF poller = "bench" THEN BenchData ELSE LtData
    /\ UNCHANGED <<poller, inSocket, event, back, printed>>

(* The network delivers in parts; each arrival is an event. *)
Arrive ==
    \E n \in 1..onWire :
        /\ onWire' = onWire - n /\ inSocket' = inSocket + n /\ event' = TRUE
        /\ UNCHANGED <<poller, written, back, printed>>

(* LTServer: one buffer, and another event if something is left.           *)
LTRead ==
    /\ poller = "LT" /\ event
    /\ \E n \in {MinOf(inSocket, LtBuffer)} :
          inSocket' = inSocket - n /\ printed' = printed + n /\ event' = (inSocket > n)
    /\ UNCHANGED <<poller, written, onWire, back>>

(* Mutant: MaxConnReadTimesPerEventLoop stays 1. *)
ETReadOnce ==
    /\ poller = "ET" /\ event /\ event' = FALSE
    /\ \E n \in {MinOf(inSocket, LtBuffer)} : inSocket' = inSocket - n /\ printed' = printed + n
    /\ UNCHANGED <<poller, written, onWire, back>>

(* ETServer: the event is taken, then everything is read.                  *)
ETRead ==
    /\ poller = "ET" /\ event /\ event' = FALSE
    /\ inSocket' = 0 /\ printed' = printed + inSocket
    /\ UNCHANGED <<poller, written, onWire, back>>

(* Mutant: the buffer is one byte too short for a message. *)
OnReadShort ==
    /\ poller = "bench" /\ event /\ event' = FALSE
    /\ \E n \in {MinOf(inSocket, BenchData - 1)} : inSocket' = inSocket - n /\ back' = back + n
    /\ UNCHANGED <<poller, written, onWire, printed>>

(* bench's OnRead: one Read, an error of which returns, and the echo. *)
OnRead ==
    /\ poller = "bench" /\ event /\ event' = FALSE
    /\ \E n \in {MinOf(inSocket, BenchBuffer)} : inSocket' = inSocket - n /\ back' = back + n
    /\ UNCHANGED <<poller, written, onWire, printed>>

(* bench's client: OnData echoes what it is given. *)
BenchOnData ==
    \E n \in 1..back :
        /\ poller = "bench" /\ back' = back - n /\ onWire' = onWire + n
        /\ UNCHANGED <<poller, written, inSocket, event, printed>>

EdgesNext == BenchClientWrites \/ Arrive \/ LTRead \/ ETRead \/ OnRead \/ BenchOnData

-----------------------------------------------------------------------------
(* What is in the server's socket is announced by an event still to come,  *)
(* also after a read that took only one buffer.                            *)
NothingStranded == inSocket > 0 => event

(* The servers of lt_et read all that a client writes, *)
AllPrinted == poller = "bench" \/ printed = LtData

(* and the bytes of a bench client keep going round: there is always again *)
(* something to echo for the client and something on its way to the server.*)
ClientTurn == poller = "bench" => back > 0
ServerTurn == poller = "bench" => onWire > 0
=============================================================================
