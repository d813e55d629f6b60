------------------------------- MODULE IoMod -------------------------------
(***************************************************************************)
(* iomod: main starts a server per address, of net/http or of nbio, then   *)
(* for one address after the other runs HTTP tests and websocket tests,    *)
(* the latter in goroutines of their own, waits for them and at last shuts *)
(* all servers down together.  A handler upgrades a websocket in one of    *)
(* three ways, after which its messages are read by the server itself, by  *)
(* the engine engineTransfer or by a goroutine the handler starts.         *)
(***************************************************************************)
EXTENDS Naturals, Sequences, FiniteSets

CONSTANTS Plans,        \* allAddrs (STD or not), wsUrls and the number of rounds
          MaxAddrs, MaxRounds, MaxUrls  \* the largest numbers of them in a plan

(* There is an address and a url, and a round of tests. *)
ASSUME PlansFit ==
    /\ MaxAddrs \in Nat /\ MaxRounds \in Nat /\ MaxUrls \in Nat
    /\ \A p \in Plans :
          /\ p.addrs \in Seq({"std", "nb"}) /\ Len(p.addrs) \in 1..MaxAddrs
          /\ p.urls \in Seq({"upgrade", "transfer", "handleRead"}) /\ Len(p.urls) \in 1..MaxUrls
          /\ p.rounds \in 1..MaxRounds

VARIABLES plan,
          main,         \* where main stands: at, i for allAddrs, j and k for clients
          server, transfer,     \* the servers and engineTransfer
          wg, wgShutdown,
          test,         \* where each websocket test stands
          reader,       \* who reads a test's connection on the server's side
          toServer, toClient,
          cnt,          \* messages an nbio test's OnMessage has seen
          done,         \* what is closed: the done channels
          fatal         \* a log.Fatalf or a panic

wires == <<toServer, toClient>>
serverSide == <<server, transfer, reader>>
testSide == <<test, cnt, done, fatal>>
vars == <<plan, main, serverSide, wg, wgShutdown, testSide, wires>>

Tests == [i : 1..MaxAddrs, j : 1..MaxRounds, k : 1..MaxUrls, client : {"nb", "gorilla"}]
Types == {"text", "binary"}
Last == Len(plan.addrs)
Std(i) == plan.addrs[i] = "std"

TypeOK ==
    /\ plan \in Plans
    /\ main \in [at : {"start", "sleep", "http", "nbhttp", "nbhttpDone", "goNb", "goGorilla", "wait",
                       "shutdown", "waitShutdown", "returned"},
                 i : 1..(Last + 1), j : 1..plan.rounds, k : 1..Len(plan.urls)]
    /\ server \in [1..Last -> {"none", "starting", "up", "stopping", "down"}]
    /\ transfer \in {"up", "stopping", "down"}
    /\ wg \in 0..Cardinality(Tests) /\ wgShutdown \in 0..(Last + 1)
    /\ test \in [Tests -> {"none", "dial", "text", "textBack", "binary", "binaryBack",
                           "wait", "close", "closed", "finished"}]
    /\ reader \in [Tests -> {"none", "handler", "server", "transfer", "gone"}]
    /\ toServer \in [Tests -> Seq(Types)] /\ toClient \in [Tests -> Seq(Types)]
    /\ cnt \in [Tests -> 0..2] /\ done \subseteq Tests /\ fatal \in BOOLEAN

Init ==
    /\ plan \in Plans /\ main = [at |-> "start", i |-> 1, j |-> 1, k |-> 1]
    /\ server = [i \in 1..Last |-> "none"] /\ transfer = "up"
    /\ wg = 0 /\ wgShutdown = 1
    /\ test = [t \in Tests |-> "none"] /\ reader = [t \in Tests |-> "none"]
    /\ toServer = [t \in Tests |-> <<>>] /\ toClient = [t \in Tests |-> <<>>]
    /\ cnt = [t \in Tests |-> 0] /\ done = {} /\ fatal = FALSE

-----------------------------------------------------------------------------
MainAt(at) == ~fatal /\ main.at = at
MainGoes(from, to) == MainAt(from) /\ main' = [main EXCEPT !.at = to]

(* main: newHTTPServer listens in a goroutine, newNBHTTPServer in Start.   *)
StartServer ==
    /\ MainAt("start")
    /\ server' = [server EXCEPT ![main.i] = IF Std(main.i) THEN "starting" ELSE "up"]
    /\ wgShutdown' = wgShutdown + 1
    /\ main' = IF main.i < Last THEN [main EXCEPT !.i = @ + 1]
                                ELSE [main EXCEPT !.at = "sleep", !.i = 1]
    /\ UNCHANGED <<plan, transfer, reader, wg, testSide, wires>>

StdListens(i) ==
    /\ server[i] = "starting" /\ server' = [server EXCEPT ![i] = "up"]
    /\ UNCHANGED <<plan, main, transfer, reader, wg, wgShutdown, testSide, wires>>

(* Assumption: after the second main sleeps every server listens. *)
Sleep ==
    /\ MainGoes("sleep", "http") /\ \A i \in 1..Last : server[i] = "up"
    /\ UNCHANGED <<plan, serverSide, wg, wgShutdown, testSide, wires>>

(* clients: httpTest, a request and its answer; wg goes up and down.       *)
HttpTest ==
    /\ MainGoes("http", "nbhttp") /\ fatal' = (server[main.i] # "up")
    /\ UNCHANGED <<plan, serverSide, wg, wgShutdown, test, cnt, done, wires>>

(* clients: nbhttpTest gives engineTransfer the request, *)
NbHttpDo ==
    /\ MainGoes("nbhttp", "nbhttpDone") /\ wg' = wg + 1
    /\ UNCHANGED <<plan, serverSide, wgShutdown, testSide, wires>>

(* whose callback closes done, and nbhttpTest returns. *)
NbHttpDone ==
    /\ MainGoes("nbhttpDone", "goNb") /\ wg' = wg - 1
    /\ fatal' = (server[main.i] # "up" \/ transfer # "up")
    /\ UNCHANGED <<plan, serverSide, wgShutdown, test, cnt, done, wires>>

(* clients: wg.Add(1), and a websocket test in a goroutine. *)
GoTest(client, at, next) ==
    /\ MainAt(at) /\ wg' = wg + 1
    /\ test' = [test EXCEPT ![[i |-> main.i, j |-> main.j, k |-> main.k, client |-> client]] = "dial"]
    /\ main' = IF main.k < Len(plan.urls) THEN [main EXCEPT !.k = @ + 1]
                                          ELSE next
    /\ UNCHANGED <<plan, serverSide, wgShutdown, cnt, done, fatal, wires>>

GoNbTests == GoTest("nb", "goNb", [main EXCEPT !.at = "goGorilla", !.k = 1])
GoGorillaTests ==
    GoTest("gorilla", "goGorilla",
           IF main.j < plan.rounds THEN [main EXCEPT !.at = "http", !.j = @ + 1, !.k = 1]
                                   ELSE [main EXCEPT !.at = "wait", !.k = 1])

(* Mutant: clients does not wait. *)
WaitNobody ==
    /\ MainAt("wait")
    /\ main' = IF main.i < Last THEN [main EXCEPT !.at = "http", !.i = @ + 1, !.j = 1]
                                ELSE [main EXCEPT !.at = "shutdown"]
    /\ UNCHANGED <<plan, serverSide, wg, wgShutdown, testSide, wires>>

(* clients: wg.Wait(), then main's next address or the shutdown. *)
WaitClients ==
    /\ MainAt("wait") /\ wg = 0
    /\ main' = IF main.i < Last THEN [main EXCEPT !.at = "http", !.i = @ + 1, !.j = 1]
                                ELSE [main EXCEPT !.at = "shutdown"]
    /\ UNCHANGED <<plan, serverSide, wg, wgShutdown, testSide, wires>>

(* main: go fn(ctx), for every server. *)
GoShutdown ==
    /\ MainGoes("shutdown", "waitShutdown")
    /\ server' = [i \in 1..Last |-> "stopping"] /\ transfer' = "stopping"
    /\ UNCHANGED <<plan, reader, wg, wgShutdown, testSide, wires>>

(* The shutdown functions: Shutdown returns, within five seconds. *)
TransferShutdown ==
    /\ ~fatal /\ transfer = "stopping" /\ transfer' = "down" /\ wgShutdown' = wgShutdown - 1
    /\ UNCHANGED <<plan, main, server, reader, wg, testSide, wires>>

ServerShutdown(i) ==
    /\ ~fatal /\ server[i] = "stopping" /\ server' = [server EXCEPT ![i] = "down"]
    /\ wgShutdown' = wgShutdown - 1
    /\ UNCHANGED <<plan, main, transfer, reader, wg, testSide, wires>>

Return ==
    /\ MainGoes("waitShutdown", "returned") /\ wgShutdown = 0
    /\ UNCHANGED <<plan, serverSide, wg, wgShutdown, testSide, wires>>

-----------------------------------------------------------------------------
Url(t) == plan.urls[t.k]
TestAt(t, at) == ~fatal /\ test[t] = at
TestGoes(t, from, to) == TestAt(t, from) /\ test' = [test EXCEPT ![t] = to]

(* Dial, and the handler of its path: Upgrade, UpgradeAndTransferConnTo-   *)
(* Poller or UpgradeWithoutHandlingRead..., which only differ in a server  *)
(* of net/http.                                                            *)
Dial(t) ==
    /\ TestGoes(t, "dial", "text") /\ fatal' = (server[t.i] # "up")
    /\ reader' = [reader EXCEPT ![t] =
          CASE ~Std(t.i) \/ Url(t) = "upgrade" -> "server"
            [] Std(t.i) /\ Url(t) = "transfer" -> "transfer"
            [] Std(t.i) /\ Url(t) = "handleRead" -> "handler"]
    /\ UNCHANGED <<plan, main, server, transfer, wg, wgShutdown, cnt, done, wires>>

(* Mutant: the handler does not start HandleRead. *)
NoHandleRead(t) ==
    /\ reader[t] = "handler" /\ reader' = [reader EXCEPT ![t] = "none"]
    /\ UNCHANGED <<plan, main, server, transfer, wg, wgShutdown, testSide, wires>>

(* The third handler: go conn.HandleRead(1024 * 4). *)
HandleRead(t) ==
    /\ reader[t] = "handler" /\ reader' = [reader EXCEPT ![t] = "server"]
    /\ UNCHANGED <<plan, main, server, transfer, wg, wgShutdown, testSide, wires>>

Served(t) == \/ reader[t] = "server" /\ server[t.i] = "up"
             \/ reader[t] = "transfer" /\ transfer = "up"

(* Mutant: messages of a connection are handled in any order. *)
EchoAny(t) ==
    /\ Served(t) /\ \E n \in 1..Len(toServer[t]) :
          /\ toServer' = [toServer EXCEPT ![t] = SubSeq(@, 1, n - 1) \o SubSeq(@, n + 1, Len(@))]
          /\ toClient' = [toClient EXCEPT ![t] = Append(@, toServer[t][n])]
    /\ UNCHANGED <<plan, main, serverSide, wg, wgShutdown, testSide>>

(* The servers' OnMessage, message by message. *)
Echo(t) ==
    /\ Served(t) /\ toServer[t] # <<>>
    /\ toServer' = [toServer EXCEPT ![t] = Tail(@)]
    /\ toClient' = [toClient EXCEPT ![t] = Append(@, Head(toServer[t]))]
    /\ UNCHANGED <<plan, main, serverSide, wg, wgShutdown, testSide>>

(* nbWebsocketTest writes both messages, gorillaWebsocketEcho waits for    *)
(* the answer to each.                                                     *)
Write(t) ==
    /\ \E type \in Types :
          /\ TestGoes(t, type, CASE t.client = "gorilla" /\ type = "text" -> "textBack"
                                 [] t.client = "gorilla" /\ type = "binary" -> "binaryBack"
                                 [] t.client = "nb" /\ type = "text" -> "binary"
                                 [] t.client = "nb" /\ type = "binary" -> "wait")
          /\ toServer' = [toServer EXCEPT ![t] = Append(@, type)]
    /\ UNCHANGED <<plan, main, serverSide, wg, wgShutdown, cnt, done, fatal, toClient>>

(* gorillaWebsocketEcho: ReadMessage; another type is fatal. *)
ReadEcho(t) ==
    /\ toClient[t] # <<>> /\ toClient' = [toClient EXCEPT ![t] = Tail(@)]
    /\ \/ TestGoes(t, "textBack", "binary") /\ fatal' = (Head(toClient[t]) # "text")
       \/ TestGoes(t, "binaryBack", "close") /\ fatal' = (Head(toClient[t]) # "binary")
    /\ UNCHANGED <<plan, main, serverSide, wg, wgShutdown, cnt, done, toServer>>

(* nbWebsocketTest: OnMessage, which closes done with the second message.  *)
OnMessage(t) ==
    /\ ~fatal /\ t.client = "nb" /\ toClient[t] # <<>> /\ test[t] \notin {"closed", "finished"}
    /\ toClient' = [toClient EXCEPT ![t] = Tail(@)]
    /\ fatal' = \/ cnt[t] = 0 /\ Head(toClient[t]) # "text"
                \/ cnt[t] = 1 /\ (Head(toClient[t]) # "binary" \/ t \in done)
    /\ done' = IF cnt[t] = 1 THEN done \cup {t} ELSE done
    /\ cnt' = [cnt EXCEPT ![t] = @ + 1]
    /\ UNCHANGED <<plan, main, serverSide, wg, wgShutdown, test, toServer>>

WaitDone(t) ==
    /\ TestGoes(t, "wait", "close") /\ t \in done
    /\ UNCHANGED <<plan, main, serverSide, wg, wgShutdown, cnt, done, fatal, wires>>

(* Mutant: wg.Done() is called before the connection is closed. *)
CloseDone(t) ==
    /\ TestGoes(t, "close", "closed") /\ wg' = wg - 1
    /\ UNCHANGED <<plan, main, serverSide, wgShutdown, cnt, done, fatal, wires>>

(* The deferred c.Close() *)
CloseConn(t) ==
    /\ TestGoes(t, "close", "closed") /\ reader' = [reader EXCEPT ![t] = "gone"]
    /\ UNCHANGED <<plan, main, server, transfer, wg, wgShutdown, cnt, done, fatal, wires>>

(* and the deferred wg.Done(), which was the first to be deferred. *)
TestDone(t) ==
    /\ TestGoes(t, "closed", "finished") /\ wg' = wg - 1
    /\ UNCHANGED <<plan, main, serverSide, wgShutdown, cnt, done, fatal, wires>>

-----------------------------------------------------------------------------
MainStep ==
    \/ StartServer \/ Sleep \/ HttpTest \/ NbHttpDo \/ NbHttpDone
    \/ GoNbTests \/ GoGorillaTests \/ WaitClients \/ GoShutdown \/ Return

ServerStep == TransferShutdown \/ \E i \in 1..Last : StdListens(i) \/ ServerShutdown(i)

TestStep(t) == Dial(t) \/ Write(t) \/ ReadEcho(t) \/ WaitDone(t) \/ CloseConn(t) \/ TestDone(t)
ConnStep(t) == HandleRead(t) \/ Echo(t) \/ OnMessage(t)

Next == MainStep \/ ServerStep \/ \E t \in Tests : TestStep(t) \/ ConnStep(t)

Spec == Init /\ [][Next]_vars

(* Goroutines run, engines and servers handle what has arrived. *)
FairSpec ==
    /\ Spec /\ WF_vars(MainStep) /\ WF_vars(ServerStep)
    /\ \A t \in Tests : WF_vars(TestStep(t) \/ ConnStep(t))

-----------------------------------------------------------------------------
(* None of the log.Fatalf and no close of a closed channel is reached: the *)
(* answers come in the order of the messages and every server a test needs *)
(* is there.                                                               *)
NothingFatal == ~fatal

(* When main goes on to the next address or to the shutdown, the tests     *)
(* before have closed their connections: wg.Done is deferred first and so  *)
(* called last.                                                            *)
TestsAreOver ==
    /\ \A t \in Tests : t.i < main.i => test[t] \in {"none", "finished"}
    /\ main.at \in {"shutdown", "waitShutdown", "returned"} =>
          \A t \in Tests : reader[t] \in {"none", "gone"} /\ toServer[t] = <<>>

(* main returns, and then everything is shut down. *)
MainReturns ==
    <>(main.at = "returned" /\ transfer = "down" /\ \A i \in 1..Last : server[i] = "down")
=============================================================================
