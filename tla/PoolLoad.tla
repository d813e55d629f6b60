------------------------------ MODULE PoolLoad ------------------------------
(***************************************************************************)
(* The load generators that dial with a task pool: websocket_1m/nbioclient *)
(* and its TLS twin, whose message handlers send every answer back, and    *)
(* websocket_1m_tls/client, whose goroutines each echo on a slice of the   *)
(* connections.  A starting goroutine gives the pool a task per connection *)
(* and uses the array conns when the wait group says they are all dialed.  *)
(***************************************************************************)
EXTENDS LoadReport

CONSTANTS Settings,     \* mode, connNum, goroutineNum and sleepTime > 0
          PoolWorkers, PoolQueue,       \* taskpool.New's arguments
          MaxLoopers,   \* bound: goroutines of loop
          MaxRounds     \* bound: messages sent on a connection

ASSUME SettingsArePositive ==
    \A s \in Settings : /\ s.mode \in {"handlers", "loops"} /\ s.sleep \in BOOLEAN
                        /\ s.c \in Nat \ {0} /\ 1..s.c \subseteq Conns /\ s.g \in 1..MaxLoopers
ASSUME BoundsOfPool ==
    /\ MaxLoopers \in Nat /\ MaxRounds \in Nat \ {0} /\ PoolWorkers \in Nat /\ PoolQueue \in Nat
    /\ IsFiniteSet(Conns) /\ Bodies # {}

VARIABLES setting, starter,
          queue,        \* connections whose task waits in the pool
          task,         \* per connection, its task
          wg,           \* the wait group's counter
          conns,        \* the connections that are in the array
          rest, sub,    \* conns[..] as the starter cuts it, the loops' slices
          looper,       \* per goroutine of the loops where it stands
          onMessage,    \* per connection where its handler stands
          timer,        \* per connection what a timer will send
          rounds, crashed

poolVars == <<starter, queue, task, wg, conns, rest, sub>>
echoVars == <<looper, onMessage, timer, rounds>>
poolLoadVars == <<serverVars, reportVars, setting, poolVars, echoVars, crashed>>

DialAddr(c) == (c - 1) % NumAddrs
text == CHOOSE b \in Bodies : TRUE
Loopers == 1..setting.g
Share == setting.c \div setting.g

PoolLoadTypeOK ==
    /\ ServerTypeOK /\ ReportTypeOK /\ setting \in Settings
    /\ starter \in [at : {"go", "wait", "write", "slice", "done"}, i : Nat \ {0}]
    /\ queue \in Seq(Conns) /\ Len(queue) =< PoolQueue
    /\ task \in [Conns -> {"none", "queued", "dial", "stored", "done"}]
    /\ wg \in 0..setting.c /\ conns \subseteq Conns
    /\ rest \in Seq(Conns) /\ sub \in [1..MaxLoopers -> Seq(Conns)]
    /\ looper \in [1..MaxLoopers -> [at : {"none", "write", "read"}, i : 1..setting.c]]
    /\ onMessage \in [Conns -> [at : {"idle", "reply", "compare"}, data : Bodies]]
    /\ timer \in [Conns -> Seq(Bodies)] /\ rounds \in [Conns -> 0..MaxRounds]
    /\ crashed \in {"no", "nilConnection", "error"}

PoolLoadInit ==
    /\ setting \in Settings /\ starter = [at |-> "go", i |-> 1]
    /\ queue = <<>> /\ task = [c \in Conns |-> "none"] /\ wg = 0 /\ conns = {}
    /\ rest = [c \in 1..setting.c |-> c] /\ sub = [g \in 1..MaxLoopers |-> <<>>]
    /\ looper = [g \in 1..MaxLoopers |-> [at |-> "none", i |-> 1]]
    /\ onMessage = [c \in Conns |-> [at |-> "idle", data |-> text]]
    /\ timer = [c \in Conns |-> <<>>]
    /\ rounds = [c \in Conns |-> 0] /\ crashed = "no"

Runs == crashed = "no"

-----------------------------------------------------------------------------
(* The starter: wg.Add(1) and pool.Go, which blocks while the queue is full. *)
Go ==
    /\ Runs /\ starter.at = "go" /\ Len(queue) < PoolQueue
    /\ wg' = wg + 1
    /\ queue' = Append(queue, starter.i) /\ task' = [task EXCEPT ![starter.i] = "queued"]
    /\ starter' = [at |-> IF starter.i = setting.c THEN "wait" ELSE "go", i |-> starter.i + 1]
    /\ UNCHANGED <<serverVars, reportVars, setting, conns, rest, sub, echoVars, crashed>>

(* The pool: a worker that is free takes the oldest task. *)
StartTask ==
    /\ Runs /\ queue # <<>>
    /\ Cardinality({c \in Conns : task[c] \in {"dial", "stored"}}) < PoolWorkers
    /\ task' = [task EXCEPT ![Head(queue)] = "dial"] /\ queue' = Tail(queue)
    /\ UNCHANGED <<serverVars, reportVars, setting, starter, wg, conns, rest, sub,
                   echoVars, crashed>>

(* A task: Dial, again and again until it succeeds; conns[idx] = conn.     *)
DialTask(c) ==
    /\ Runs /\ task[c] = "dial" /\ DialAddr(c) \in listening
    /\ link' = [link EXCEPT ![c] = "up"] /\ conns' = conns \cup {c}
    /\ task' = [task EXCEPT ![c] = "stored"]
    /\ UNCHANGED <<protocol, listening, toServer, toClient, handler, counters, reportVars,
                   setting, starter, queue, wg, rest, sub, echoVars, crashed>>

(* Mutant: Done is deferred and called. *)
TaskDoneTwice(c) ==
    /\ Runs /\ task[c] = "stored" /\ task' = [task EXCEPT ![c] = "done"] /\ wg' = wg - 2
    /\ UNCHANGED <<serverVars, reportVars, setting, starter, queue, conns, rest, sub,
                   echoVars, crashed>>

(* A task: defer wg.Done(). *)
TaskDone(c) ==
    /\ Runs /\ task[c] = "stored" /\ task' = [task EXCEPT ![c] = "done"] /\ wg' = wg - 1
    /\ UNCHANGED <<serverVars, reportVars, setting, starter, queue, conns, rest, sub,
                   echoVars, crashed>>

(* Mutant: the starter does not wait. *)
NoWait ==
    /\ Runs /\ starter.at = "wait"
    /\ starter' = [at |-> IF setting.mode = "loops" THEN "slice" ELSE "write", i |-> 1]
    /\ UNCHANGED <<serverVars, reportVars, setting, queue, task, wg, conns, rest, sub,
                   echoVars, crashed>>

(* The starter: wg.Wait(). *)
WaitAll ==
    /\ Runs /\ starter.at = "wait" /\ wg = 0
    /\ starter' = [at |-> IF setting.mode = "loops" THEN "slice" ELSE "write", i |-> 1]
    /\ UNCHANGED <<serverVars, reportVars, setting, queue, task, wg, conns, rest, sub,
                   echoVars, crashed>>

(* A message on c: nil connections and errors of WriteMessage panic.       *)
Sends(c, body) ==
    /\ IF c \in conns /\ link[c] = "up"
       THEN /\ toServer' = [toServer EXCEPT ![c] = Append(@, body)]
            /\ rounds' = [rounds EXCEPT ![c] = @ + 1]
            /\ UNCHANGED <<reportVars, crashed>>
       ELSE /\ crashed' = IF c \in conns THEN "error" ELSE "nilConnection"
            /\ IF c \in conns THEN Fail ELSE UNCHANGED reportVars
            /\ UNCHANGED <<toServer, rounds>>
    /\ UNCHANGED <<protocol, listening, link, toClient, handler, counters, setting>>

(* The starter of the handlers' client: the first message on conns[i].     *)
WriteFirst ==
    /\ Runs /\ starter.at = "write" /\ Sends(starter.i, text)
    /\ starter' = [at |-> IF starter.i = setting.c THEN "done" ELSE "write", i |-> starter.i + 1]
    /\ UNCHANGED <<queue, task, wg, conns, rest, sub, looper, onMessage, timer>>

(* The starter of the loops' client: the next goroutine and its slice.     *)
Slice ==
    /\ Runs /\ starter.at = "slice"
    /\ sub' = [sub EXCEPT ![starter.i] = SubSeq(rest, 1, Share)]
    /\ rest' = SubSeq(rest, Share + 1, Len(rest))
    /\ looper' = [looper EXCEPT ![starter.i].at = "write"]
    /\ starter' = [at |-> IF starter.i = setting.g THEN "done" ELSE "slice", i |-> starter.i + 1]
    /\ UNCHANGED <<serverVars, reportVars, setting, queue, task, wg, conns,
                   onMessage, timer, rounds, crashed>>

-----------------------------------------------------------------------------
(* OnMessage of the handlers' client: data has arrived on c. *)
OnMessage(c) ==
    /\ Runs /\ setting.mode = "handlers"
    /\ onMessage[c].at = "idle" /\ toClient[c] # <<>>
    /\ onMessage' = [onMessage EXCEPT ![c] = [at |-> "reply", data |-> Head(toClient[c])]]
    /\ toClient' = [toClient EXCEPT ![c] = Tail(@)]
    /\ UNCHANGED <<protocol, listening, link, toServer, handler, counters, reportVars,
                   setting, poolVars, looper, timer, rounds, crashed>>

(* OnMessage: the data goes back, at once or when a timer fires, up to the *)
(* bound; a panic of the handler is caught by the engine.                  *)
Reply(c) ==
    /\ Runs /\ onMessage[c].at = "reply"
    /\ \/ /\ rounds[c] = MaxRounds
          /\ onMessage' = [onMessage EXCEPT ![c].at = "compare"]
          /\ UNCHANGED <<serverVars, reportVars, setting, timer, rounds, crashed>>
       \/ /\ setting.sleep /\ rounds[c] < MaxRounds
          /\ timer' = [timer EXCEPT ![c] = Append(@, onMessage[c].data)]
          /\ onMessage' = [onMessage EXCEPT ![c].at = "compare"]
          /\ UNCHANGED <<serverVars, reportVars, setting, rounds, crashed>>
       \/ /\ ~setting.sleep /\ rounds[c] < MaxRounds /\ link[c] = "up" /\ Sends(c, onMessage[c].data)
          /\ onMessage' = [onMessage EXCEPT ![c].at = "compare"]
          /\ UNCHANGED timer
       \/ /\ ~setting.sleep /\ rounds[c] < MaxRounds /\ link[c] = "broken" /\ Fail
          /\ onMessage' = [onMessage EXCEPT ![c].at = "idle"]
          /\ UNCHANGED <<serverVars, setting, timer, rounds, crashed>>
    /\ UNCHANGED <<poolVars, looper>>

(* OnMessage: the data is compared and counted. *)
Compare(c) ==
    /\ Runs /\ onMessage[c].at = "compare" /\ onMessage' = [onMessage EXCEPT ![c].at = "idle"]
    /\ IF onMessage[c].data = text THEN Succeed ELSE Fail
    /\ UNCHANGED <<serverVars, setting, poolVars, looper, timer, rounds, crashed>>

(* The function given to time.AfterFunc. *)
Timer(c) ==
    /\ Runs /\ timer[c] # <<>> /\ timer' = [timer EXCEPT ![c] = Tail(@)]
    /\ Sends(c, Head(timer[c]))
    /\ UNCHANGED <<poolVars, looper, onMessage>>

-----------------------------------------------------------------------------
Current(g) == sub[g][looper[g].i]
InLoop(g, at) == Runs /\ g \in Loopers /\ looper[g].at = at /\ sub[g] # <<>>

(* loop, echo: WriteMessage on the next connection of the slice. *)
LoopWrite(g) ==
    /\ InLoop(g, "write") /\ rounds[Current(g)] < MaxRounds
    /\ Sends(Current(g), text)
    /\ looper' = [looper EXCEPT ![g].at = "read"]
    /\ UNCHANGED <<poolVars, onMessage, timer>>

(* echo: ReadMessage, the answer is compared and counted. *)
LoopRead(g) ==
    /\ InLoop(g, "read") /\ toClient[Current(g)] # <<>>
    /\ toClient' = [toClient EXCEPT ![Current(g)] = Tail(@)]
    /\ IF Head(toClient[Current(g)]) = text
       THEN Succeed /\ UNCHANGED crashed
       ELSE Fail /\ crashed' = "error"
    /\ looper' = [looper EXCEPT ![g] = [at |-> "write", i |-> (@.i % Share) + 1]]
    /\ UNCHANGED <<protocol, listening, link, toServer, handler, counters,
                   setting, poolVars, onMessage, timer, rounds>>

(* echo: ReadMessage fails and echo panics. *)
LoopReadFails(g) ==
    /\ InLoop(g, "read") /\ link[Current(g)] = "broken" /\ Fail /\ crashed' = "error"
    /\ UNCHANGED <<serverVars, setting, poolVars, echoVars>>

Starter == Go \/ WaitAll \/ WriteFirst \/ Slice
Task(c) == DialTask(c) \/ TaskDone(c)
Handle(c) == OnMessage(c) \/ Reply(c) \/ Compare(c) \/ Timer(c)
Loop(g) == LoopWrite(g) \/ LoopRead(g) \/ LoopReadFails(g)

(* The ticker's goroutine; a report of nothing changes nothing.            *)
PoolReport ==
    /\ Runs /\ (reporting = "ticker" => success + failed > 0)
    /\ (SwapSuccess \/ SwapFailed \/ AddTotals)
    /\ UNCHANGED <<serverVars, setting, poolVars, echoVars, crashed>>

PoolLoadNext ==
    \/ Starter \/ StartTask \/ PoolReport
    \/ \E c \in Conns : Task(c) \/ Handle(c)
    \/ \E g \in 1..MaxLoopers : Loop(g)
    \/ (ServerNext \/ \E c \in Conns : Break(c))
           /\ UNCHANGED <<reportVars, setting, poolVars, echoVars, crashed>>

PoolLoadFairness ==
    /\ ServerFairness /\ WF_poolLoadVars(Starter) /\ WF_poolLoadVars(StartTask)
    /\ \A c \in Conns : WF_poolLoadVars(Task(c) \/ Handle(c))
    /\ \A g \in 1..MaxLoopers : WF_poolLoadVars(Loop(g))

PoolLoadSpec ==
    /\ protocol = "websocket" /\ ServerInit /\ ReportInit /\ PoolLoadInit
    /\ [][PoolLoadNext]_poolLoadVars
PoolLoadFairSpec == PoolLoadSpec /\ PoolLoadFairness

-----------------------------------------------------------------------------
(* Nobody writes on a connection that is not in the array yet: the wait    *)
(* group holds the starter back until the last task has stored its own.    *)
NoNilConnection == crashed # "nilConnection"

(* A connection has one message at most, wherever it is: on the wire, with *)
(* the server, in the handler or with a timer.  In the loops' client that  *)
(* needs slices that do not overlap.                                       *)
OneMessageEach ==
    \A c \in Conns : Len(toServer[c]) + Len(toClient[c]) + Len(timer[c])
                        + (IF onMessage[c].at = "reply" THEN 1 ELSE 0) =< 1

(* A failure, and the panic that follows, means that a connection broke.   *)
PanicNeedsBreak ==
    Failures > 0 \/ crashed = "error" => \E c \in Conns : link[c] = "broken"

(* Every connection that is in use is echoed on, unless one breaks; of the *)
(* loops' connections connNum % goroutineNum are dialed and never used.    *)
InUse == IF setting.mode = "loops" THEN Share * setting.g ELSE setting.c
AllEchoed == \/ \E c \in Conns : link[c] = "broken"
             \/ Successes >= MaxRounds * InUse
EveryConnectionEchoes == <>AllEchoed
=============================================================================
