------------------------------ MODULE NbClient ------------------------------
(***************************************************************************)
(* The nbio websocket client: main dials its connections and puts each     *)
(* into connectedClients, a channel of that capacity; with the flag flood  *)
(* goroutines take a connection out, write a large message and leave it;   *)
(* OnMessage puts the connection back for every message that comes in and, *)
(* unless the flag no-echo is set, sends it back a second later.  The      *)
(* server echoes.  A connection may break at any time: OnClose does        *)
(* nothing, and no write reports its error.                                *)
(***************************************************************************)
EXTENDS Naturals, Sequences, FiniteSets, Functions

CONSTANTS Conns,        \* the dialled connections
          Flooders,     \* goroutines, 100 in the code
          MaxInUse,     \* bound: connections taken and put, see InUse
          MaxTimers     \* bound: the pending AfterFunc of a connection

VARIABLES noEcho,       \* the flag
          dialled,      \* connections of main's loop
          pushing,      \* the one main is putting into the channel
          nbMain,       \* where main stands
          connected,    \* connectedClients, a channel: first in, first out
          flooder,      \* the connection a goroutine of flood has taken
          away,         \* messages of a connection at the server or on the way
          handling,     \* OnMessage blocks in its send to the channel
          timers,       \* the pending AfterFunc of a connection
          broken        \* connections that have been closed

nbVars == <<noEcho, dialled, pushing, nbMain, connected, flooder, away, handling, timers, broken>>

Nobody == "nobody"
ASSUME ConnsAreFinite == IsFiniteSet(Conns) /\ Nobody \notin Conns
ASSUME TimersAreBounded == MaxTimers \in Nat

Full == Len(connected) >= Cardinality(Conns)
Put(c) == connected' = Append(connected, c)

(* A connection is in the channel, with a goroutine of flood, the subject  *)
(* of a message or of an OnMessage that waits.                             *)
InChannel(c) == {i \in 1..Len(connected) : connected[i] = c}
InFlood(c) == {f \in Flooders : flooder[f] = c}
Total(f) == FoldFunction(LAMBDA x, y : x + y, 0, f)
Held == Cardinality({f \in Flooders : flooder[f] # Nobody})
InUse == Len(connected) + Held + Total(away) + Cardinality(handling)

NbTypeOK ==
    /\ noEcho \in BOOLEAN /\ dialled \subseteq Conns
    /\ pushing \in Conns \cup {Nobody} /\ nbMain \in {"dial", "push", "flood", "panicked"}
    /\ connected \in Seq(Conns) /\ Len(connected) =< Cardinality(Conns)
    /\ flooder \in [Flooders -> Conns \cup {Nobody}]
    /\ away \in [Conns -> Nat] /\ handling \subseteq Conns /\ timers \in [Conns -> 0..MaxTimers]
    /\ broken \subseteq dialled

NbInit ==
    /\ noEcho \in BOOLEAN /\ dialled = {} /\ pushing = Nobody /\ nbMain = "dial"
    /\ connected = <<>> /\ flooder = [f \in Flooders |-> Nobody]
    /\ away = [c \in Conns |-> 0] /\ handling = {} /\ timers = [c \in Conns |-> 0]
    /\ broken = {}

-----------------------------------------------------------------------------
(* main: a Dial, whose error is a panic, *)
NbDial ==
    /\ nbMain = "dial"
    /\ \/ nbMain' = "panicked" /\ UNCHANGED <<dialled, pushing>>
       \/ /\ nbMain' = "push"
          /\ \E c \in Conns \ dialled : dialled' = dialled \cup {c} /\ pushing' = c
    /\ UNCHANGED <<noEcho, connected, flooder, away, handling, timers, broken>>

(* and the new connection into the channel. *)
NbPush ==
    /\ nbMain = "push" /\ ~Full /\ Put(pushing) /\ pushing' = Nobody
    /\ nbMain' = IF dialled = Conns THEN "flood" ELSE "dial"
    /\ UNCHANGED <<noEcho, dialled, flooder, away, handling, timers, broken>>

(* A message is away unless the connection is broken: nobody looks at the  *)
(* error of WriteMessage.                                                  *)
WriteMessage(c) == away' = [away EXCEPT ![c] = IF c \in broken THEN @ ELSE @ + 1]

(* A goroutine of flood: a connection out of the channel, *)
FloodTake(f) ==
    /\ nbMain = "flood" /\ flooder[f] = Nobody /\ connected # <<>>
    /\ connected' = Tail(connected) /\ flooder' = [flooder EXCEPT ![f] = Head(connected)]
    /\ UNCHANGED <<noEcho, dialled, pushing, nbMain, away, handling, timers, broken>>

(* and a message to it. *)
FloodWrite(f) ==
    /\ flooder[f] # Nobody /\ flooder' = [flooder EXCEPT ![f] = Nobody]
    /\ WriteMessage(flooder[f])
    /\ UNCHANGED <<noEcho, dialled, pushing, nbMain, connected, handling, timers, broken>>

(* The echo of a message comes in: OnMessage, one at a time on each        *)
(* connection, schedules a message *)
OnEcho(c) ==
    /\ away[c] > 0 /\ c \notin handling /\ timers[c] < MaxTimers
    /\ away' = [away EXCEPT ![c] = @ - 1] /\ handling' = handling \cup {c}
    /\ timers' = [timers EXCEPT ![c] = IF noEcho THEN @ ELSE @ + 1]
    /\ UNCHANGED <<noEcho, dialled, pushing, nbMain, connected, flooder, broken>>

(* Mutant: the connection is not put back. *)
OnEchoForgets(c) ==
    /\ c \in handling /\ handling' = handling \ {c}
    /\ UNCHANGED <<noEcho, dialled, pushing, nbMain, connected, flooder, away, timers, broken>>

(* and blocks until there is room in the channel. *)
OnEchoReturns(c) ==
    /\ c \in handling /\ ~Full /\ Put(c) /\ handling' = handling \ {c}
    /\ UNCHANGED <<noEcho, dialled, pushing, nbMain, flooder, away, timers, broken>>

(* AfterFunc: the message is sent back. *)
NbTimer(c) ==
    /\ timers[c] > 0 /\ InUse < MaxInUse
    /\ timers' = [timers EXCEPT ![c] = @ - 1] /\ WriteMessage(c)
    /\ UNCHANGED <<noEcho, dialled, pushing, nbMain, connected, flooder, handling, broken>>

(* A connection breaks; of its messages some may still come in. *)
NbBreaks(c) ==
    /\ nbMain # "panicked" /\ c \in dialled \ broken /\ broken' = broken \cup {c}
    /\ \E n \in 0..away[c] : away' = [away EXCEPT ![c] = n]
    /\ UNCHANGED <<noEcho, dialled, pushing, nbMain, connected, flooder, handling, timers>>

NbNext ==
    \/ NbDial \/ NbPush
    \/ \E f \in Flooders : FloodTake(f) \/ FloodWrite(f)
    \/ \E c \in Conns : OnEcho(c) \/ OnEchoReturns(c) \/ NbTimer(c) \/ NbBreaks(c)

-----------------------------------------------------------------------------
(* Nobody writes before the last connection is in the channel, so that no  *)
(* OnMessage takes the room main needs: its sends never block.             *)
StartUpNeverBlocks == nbMain # "flood" => ~(nbMain = "push" /\ Full)

(* With no-echo a connection that has been dialled is in one place: with   *)
(* main, in the channel, with a goroutine, or its message is away or comes *)
(* in; and OnMessage never waits for room.  A broken one is in one place   *)
(* too, until a message to it, or its echo, is lost: then it is in none    *)
(* and never comes back.  Without no-echo every echo is worth two.         *)
One(held) == IF held THEN 1 ELSE 0
Tokens(c) == Cardinality(InChannel(c)) + Cardinality(InFlood(c)) + away[c] + One(c \in handling) + One(pushing = c)
TokensKept ==
    /\ noEcho => \A c \in Conns : Tokens(c) \in IF c \notin dialled THEN {0} ELSE IF c \in broken THEN {0, 1} ELSE {1}
    /\ noEcho /\ handling # {} => ~Full

(* The goroutines of flood make room, again and again: an OnMessage that   *)
(* waits for the channel returns.                                          *)
Blocked(c) == c \in handling
=============================================================================
