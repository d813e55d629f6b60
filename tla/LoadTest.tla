------------------------------ MODULE LoadTest ------------------------------
(***************************************************************************)
(* websocket_1m/client: goroutineNum goroutines each dial                  *)
(* connNum/goroutineNum connections and announce them on a channel; main   *)
(* takes connNum of them, starts the counting, reports a number of times   *)
(* and ends the test.  The goroutines echo on their connections in turn,   *)
(* from the moment their own are dialed.                                   *)
(***************************************************************************)
EXTENDS LoadReport

CONSTANTS Flags,        \* the values of -c and -g to try
          Ticks,        \* how often main reports
          MaxLoops,     \* bound: goroutines
          MaxEchoes     \* bound: calls of echo

ASSUME FlagsArePositive == \A f \in Flags : f.c \in Nat \ {0} /\ f.g \in 1..MaxLoops
ASSUME BoundsOfTest == MaxLoops \in Nat /\ Ticks \in Nat /\ IsFiniteSet(Conns) /\ Bodies # {}
ASSUME FlagsFitConns == \A f \in Flags : 1..(f.g * (f.c \div f.g)) \subseteq Conns

VARIABLES flags, main, announced, tick, counting, running,
          loop,         \* per goroutine: where it stands and its index i
          buf           \* per goroutine: the body it has written last

clientVars == <<flags, main, announced, tick, counting, running, loop, buf>>
loadVars == <<serverVars, reportVars, clientVars>>

Goroutines == 1..flags.g
PerLoop == flags.c \div flags.g
ConnOf(g) == (g - 1) * PerLoop + loop[g].i
AddrOf(g) == (g - 1) % NumAddrs

LoadTypeOK ==
    /\ ServerTypeOK /\ ReportTypeOK
    /\ main \in {"collect", "settle", "report", "end", "exited"}
    /\ flags \in Flags /\ announced \in 0..flags.c /\ tick \in 0..Ticks
    /\ counting \in BOOLEAN /\ running \in BOOLEAN
    /\ loop \in [1..MaxLoops -> [at : {"dial", "announce", "write", "read",
                                       "got", "stopped"}, i : 1..(flags.c + 1), ok : BOOLEAN]]
    /\ buf \in [1..MaxLoops -> Bodies]

LoadInit ==
    /\ flags \in Flags /\ main = "collect" /\ announced = 0 /\ tick = 0
    /\ counting = FALSE /\ running = TRUE
    /\ loop = [g \in 1..MaxLoops |-> [at |-> "dial", i |-> 1, ok |-> TRUE]]
    /\ buf = [g \in 1..MaxLoops |-> CHOOSE b \in Bodies : TRUE]

Alive == main # "exited"
At(g, at) == Alive /\ g \in Goroutines /\ loop[g].at = at
MoveTo(g, at) == loop' = [loop EXCEPT ![g].at = at]
Turn(g, at, i) == loop' = [loop EXCEPT ![g].at = at, ![g].i = i]

-----------------------------------------------------------------------------
(* loop: Dial, repeated until somebody listens. *)
Dial(g) ==
    /\ At(g, "dial") /\ PerLoop > 0 /\ AddrOf(g) \in listening
    /\ link' = [link EXCEPT ![ConnOf(g)] = "up"]
    /\ MoveTo(g, "announce")
    /\ UNCHANGED <<protocol, listening, toServer, toClient, handler, counters, reportVars,
                   flags, main, announced, tick, counting, running, buf>>

(* loop: chConns <- conn, which has room for every connection, and on to   *)
(* the next one or to the echoes.                                          *)
Announce(g) ==
    /\ At(g, "announce") /\ announced' = announced + 1
    /\ IF loop[g].i = PerLoop THEN Turn(g, "write", 1) ELSE Turn(g, "dial", loop[g].i + 1)
    /\ UNCHANGED <<serverVars, reportVars, flags, main, tick, counting, running, buf>>

(* The next turn: i moves on, and after a round running is looked at. *)
NextTurn(g) ==
    IF loop[g].i < PerLoop THEN Turn(g, "write", loop[g].i + 1)
    ELSE Turn(g, IF running THEN "write" ELSE "stopped", 1)

InFlight == Cardinality({c \in Conns : toServer[c] # <<>>})
WithinBound == Served + InFlight + Failures < MaxEchoes

(* loop and echo: a fresh body is written. *)
Write(g) ==
    /\ At(g, "write") /\ WithinBound /\ link[ConnOf(g)] = "up"
    /\ \E b \in Bodies \ {buf[g]} :
           /\ buf' = [buf EXCEPT ![g] = b]
           /\ toServer' = [toServer EXCEPT ![ConnOf(g)] = Append(@, b)]
    /\ MoveTo(g, "read")
    /\ UNCHANGED <<protocol, listening, link, toClient, handler, counters, reportVars,
                   flags, main, announced, tick, counting, running>>

(* echo: WriteMessage or ReadMessage fails, which is always counted.       *)
EchoFails(g) ==
    /\ \/ At(g, "write") /\ WithinBound
       \/ At(g, "read")
    /\ link[ConnOf(g)] = "broken"
    /\ Fail /\ NextTurn(g)
    /\ UNCHANGED <<serverVars, flags, main, announced, tick, counting, running, buf>>

(* echo: ReadMessage. *)
Read(g) ==
    /\ At(g, "read") /\ toClient[ConnOf(g)] # <<>>
    /\ toClient' = [toClient EXCEPT ![ConnOf(g)] = Tail(@)]
    /\ loop' = [loop EXCEPT ![g] = [at |-> "got", i |-> @.i, ok |-> Head(toClient[ConnOf(g)]) = buf[g]]]
    /\ UNCHANGED <<protocol, listening, link, toServer, handler, counters, reportVars,
                   flags, main, announced, tick, counting, running, buf>>

(* Mutant: echo counts whether or not the counting has started. *)
CountAlways(g) ==
    /\ At(g, "got") /\ NextTurn(g)
    /\ IF loop[g].ok THEN Succeed ELSE Fail
    /\ UNCHANGED <<serverVars, flags, main, announced, tick, counting, running, buf>>

(* echo: the answer is compared and counted, once the counting is on.      *)
Count(g) ==
    /\ At(g, "got") /\ NextTurn(g)
    /\ CASE ~counting -> UNCHANGED reportVars
         [] counting /\ loop[g].ok -> Succeed
         [] counting /\ ~loop[g].ok -> Fail
    /\ UNCHANGED <<serverVars, flags, main, announced, tick, counting, running, buf>>

-----------------------------------------------------------------------------
MainGoes(from, to) ==
    /\ main = from /\ main' = to
    /\ UNCHANGED <<serverVars, flags, announced, loop, buf>>

(* Mutant: main waits for one connection more than there are. *)
CollectOneMore ==
    /\ MainGoes("collect", "settle") /\ announced > flags.c
    /\ UNCHANGED <<reportVars, tick, counting, running>>

(* main: connNum times c := <-chConns. *)
Collect ==
    /\ MainGoes("collect", "settle") /\ announced = flags.c
    /\ UNCHANGED <<reportVars, tick, counting, running>>

(* main: after three seconds counting = true. *)
StartCounting ==
    /\ MainGoes("settle", "report") /\ counting' = TRUE
    /\ UNCHANGED <<reportVars, tick, running>>

(* main: a report in its three steps, i counts them. *)
Report ==
    /\ MainGoes("report", "report") /\ tick < Ticks
    /\ \/ SwapSuccess /\ UNCHANGED tick
       \/ SwapFailed /\ UNCHANGED tick
       \/ AddTotals /\ tick' = tick + 1
    /\ UNCHANGED <<counting, running>>

(* main: running = false, and a second for the goroutines to notice.       *)
StopRunning ==
    /\ MainGoes("report", "end") /\ tick = Ticks /\ running' = FALSE
    /\ UNCHANGED <<reportVars, tick, counting>>

(* main returns: the deferred calls close every connection. *)
Exit ==
    /\ main = "end" /\ main' = "exited"
    /\ link' = [c \in Conns |-> IF link[c] = "up" THEN "broken" ELSE link[c]]
    /\ toServer' = [c \in Conns |-> <<>>] /\ toClient' = [c \in Conns |-> <<>>]
    /\ UNCHANGED <<protocol, listening, handler, counters, reportVars, flags, announced,
                   tick, counting, running, loop, buf>>

LoopStep(g) ==
    Dial(g) \/ Announce(g) \/ Write(g) \/ EchoFails(g) \/ Read(g) \/ Count(g)
MainStep == Collect \/ StartCounting \/ Report \/ StopRunning \/ Exit

LoadClientNext == MainStep \/ \E g \in 1..MaxLoops : LoopStep(g)

LoadNext ==
    \/ LoadClientNext
    \/ ServerNext /\ UNCHANGED <<reportVars, clientVars>>
    \/ (\E c \in Conns : Break(c)) /\ UNCHANGED <<reportVars, clientVars>>

(* Goroutines run, answers arrive, the ticker ticks.                       *)
LoadFairness ==
    /\ ServerFairness /\ WF_loadVars(MainStep)
    /\ \A g \in 1..MaxLoops : WF_loadVars(LoopStep(g))

LoadSpec == protocol = "websocket" /\ ServerInit /\ ReportInit /\ LoadInit /\ [][LoadNext]_loadVars
LoadFairSpec == LoadSpec /\ LoadFairness

-----------------------------------------------------------------------------
(* Nothing is counted as a success before main has every connection it     *)
(* waits for, though goroutines echo from the moment their own are dialed. *)
CountsAfterStart ==
    Successes > 0 => /\ main # "collect"
                     /\ Cardinality({c \in Conns : link[c] # "none"}) = flags.c

(* A failure means a connection that broke: no answer is ever compared     *)
(* with another request's body.                                            *)
FailureNeedsBreak ==
    Failures > 0 => \E c \in Conns : link[c] = "broken"

(* With connNum not a multiple of goroutineNum main waits forever for      *)
(* connections nobody dials,                                               *)
Even == flags.c % flags.g = 0
UnevenTestsWait == ~Even => main = "collect"

(* and otherwise the test starts and ends.                                 *)
EvenTestsEnd == Even ~> main = "exited"
=============================================================================
