# A verification project for nbio-examples

`nbio-examples` is a collection of programs that show how the networking
library nbio is used: servers, clients, proxies and load generators in Go.  The
library itself (pollers, connections, websocket parsing), gorilla/websocket,
the Go runtime and the kernel are external.  What is worth verifying in the
examples is the logic they add around it: a shared pool of buffers, messages
put together from frames, proxies that connect two connections with dial
callbacks running next to data handlers, tunnels, completion protocols of
clients, start-up and shutdown orders.

This directory holds TLA+ models of those parts, TLC configurations that check
them on small instances and TLAPS proofs of the theorems that matter most.

## Inventory

| Component | State it keeps | Operations | What is hard | What makes it correct |
|---|---|---|---|---|
| Fixed buffer pool (`fixedbufferpool`) | token channel `buffers`, `sync.Pool` | `NewFixedBufferPool`, `Get`, `Put` | two objects updated one after the other, timeout racing a returned token, panics of `Put` | tokens conserved, at most N buffers out, a buffer has one owner, `Put` does not panic for disciplined callers |
| Frame assembly servers (`websocket*/server_manual_frame_assembly`) | session per connection: the buffer of the unfinished message; the pool | `OnDataFrame`, `OnClose`, `onWebsocket` | pool exhaustion and its timeout inside a handler, size limit after `Get`, closing with or without a message | whole messages echoed, buffers returned on every path, handlers return |
| TCP forwarder (`traffic_forward_tcp`) | `Session{mux, Peer, Cache}` of both connections | `OnOpen`, dial callback, `OnData`, `client`, `server` | the callback runs next to `OnData` | the byte stream is intact, clients return |
| UDP forwarder (`traffic_forward_udp`) | the same, over datagrams | the same | loss, duplication, merged datagrams | an answer belongs to its request, as far as the network lets it |
| Websocket proxy (`websocket_proxy/proxy_server`) | each connection's session is its peer | `onWebsocket`, `OnMessage`, `OnClose` | messages and closes before the sessions are set | messages forwarded in order, peers closed together once their sessions are set |
| Websocket to TCP proxy (`websocket_proxy/proxy_ws2tcp`) | peers, data handlers | `onWebsocket`, `OnData`, `OnClose` | window between upgrade and change of handlers | no frame is parsed by the proxy; if one is, nothing after it is lost |
| Sticky tunnels (`sticky`, `websocket/server_sticky`, `websocket_tls/sticky`, `tls_sticky_packet`) | two connections, a chunk in flight per direction | `stickyTunnel`, `Run` | two goroutines closing both connections, `recover` | each direction is a FIFO stream, both ends close together |
| Sticky TLS client (`websocket_tls/sticky/client`) | connections, task pool | tasks | tasks share connections | each task reads its own answer |
| Transfer server (`websocket_transfer`) | engine pointer, three servers, online count | start-up, upgrade, shutdown | captured pointer, shutdown order | every connection is transferred to a running engine |
| I/O mode matrix (`iomod`) | wait groups, shutdown functions | start, test clients, shutdown | completion of many clients | all clients finish, then all servers stop |
| Load generators (`websocket_1m*`, `http_1m`, `bench`, `tls_bench`, `http/nbclient`) | connection queues, counters, flags | connect, `loop`, `echo` | start-up barrier, unsynchronised flags, counters of successes and failures | start-up ends, every request is counted once |
| Counting servers (`http*`, `websocket_1m*/server_*`) | atomic counters | handler, ticker | swap races with add | no request is lost from the total |
| Echo programs (`echo`, `netstd`, `udp`, `tls`, `websocket`, `async_dialer`, `shutdown`, `async_sendfile`) | bytes received so far, completion channels | handlers, clients | completion detected once | clients end exactly when everything is back |
| Pollers (`lt_et`) | unread bytes, readiness | `OnRead` | edge-triggered readiness | which bytes stay unread |
| Data uploader (`websocket/data_uploader`) | output file of a connection | `OnDataFrame`, `OnClose` | failures between frames | a file per message, closed once |
| HTTP framework servers | none | one handler each | nothing | not modelled |

The hazards of each part, with their lines, are listed in `PROJECT.json`.  Six of
them have no property but a note: the code does meet them, and no document of
the repository says that it must not (a peer left open, a lost append, the
captured engine, both ends of `tls/test` that are not a pass).

## Plan

Modules are written so that they can be proved about: parameters are
CONSTANTS with named assumptions, one action per operation, no RECURSIVE.

1. `BufferPool` with the abstract `BufferLease`.
2. `FrameAssembly`, which extends `BufferPool` with the servers' handlers.
3. `TrafficForward` (TCP) with the abstract `EchoStream`.
4. `WsProxy` and `Ws2Tcp`: sessions and handlers that are set after the peers
   may already speak or leave; they implement `EchoStream` too.
5. `StickyTunnel`, implementing a stream in each direction, for the four
   tunnels.
6. `StickyClient`, the task pool on shared connections.
7. `UdpForward` and `UdpEcho`, over a network that loses, duplicates and
   reorders.
8. `NbClient`, the channel of connections.
9. `Transfer` and `IoMod`: start-up, wait groups, shutdown.
10. The load generators (`LoadTest`, `PoolLoad`, `HttpLoad`, `LoadReport`) with
    the servers they run against (`CountingServer`) and the abstract `Tally`.
11. `Uploader`, `Edges`, `TlsRing`, `StreamEcho`, `TlsCount`, `AsyncDial`.

All are written and checked, and every invariant, action property and
refinement that a passing run checks is proved (see Proofs).  What could follow:

* that `Served` of a server is what a ticker will have printed, as a theorem of
  `CountingServer` alone, and `Tally` for `HttpLoad` without failed reads;
* a common abstract specification of the completion protocols of the clients
  (`StreamEcho`, `AsyncDial`, `TlsCount`), which differ in what they count;
* `PutNeverPanics` for users of the pool that are not disciplined, that is,
  which misuses each panic detects and which it does not.

## Modules

| Module | Models | State | Actions |
|---|---|---|---|
| `BufferLease` | abstract: at most N buffers leased, each to one goroutine | leases | acquire, refuse, release |
| `BufferPool` | `fixedbufferpool.go` | tokens in the channel `buffers`, the arrays in the `sync.Pool`, per goroutine where it stands in `Get`/`Put` and what it holds | `GetFast`, `GetMiss`, `GetWake`, `GetTimeout`, `PoolGet`, `Put`, `PoolPut`; `Collect` (the garbage collector empties a `sync.Pool`) and `Discard` (a user drops its buffer) |
| `FrameAssembly` | both `server_manual_frame_assembly` servers, on top of `BufferPool` | session per connection, the frame being handled | connecting, receiving a frame, `OnDataFrame` branch by branch, `OnClose` of either server |
| `EchoStream` | abstract: what is read is a prefix of what was written | written, read | write, read |
| `Chunks` | prefixes of a byte stream and what they leave | | |
| `TrafficForward` | `traffic_forward_tcp/proxy.go` | bytes on the four legs, both `Session`s, the mutex, where the dial callback stands, the client's loop | the client, `OnOpen`, the dial and its callback in steps, `OnData` of either side, the server |
| `WsProxy` | `websocket_proxy/proxy_server`, `app_client`, `app_server` | messages on the four legs, both connections and sessions, where `onWebsocket` stands | `onWebsocket` in steps, `OnMessage`, `OnClose`, client and server, either of which may leave |
| `Ws2Tcp` | `websocket_proxy/proxy_ws2tcp` with the same client and server | the same in bytes, whether a connection has its own data handler, what the proxy's websocket engine has parsed | `onWebsocket` in steps, both data handlers, `OnClose`, the engine's parser |
| `StickyTunnel` | `stickyTunnel` / `fuzzTunnel` | bytes sent, received and in flight in both directions, the two goroutines and what they have read | the ends, dial, read, write in pieces, failures |
| `StickyClient` | `websocket_tls/sticky/client` | the tasks, messages on each connection, `success`, main | `pool.Go`, the pool's start of a task, writes and reads, the append in two steps, `wg.Wait` |
| `Tally` | abstract: served and counted only grow, nothing is counted before it is served | two numbers | serve, count |
| `CountingServer` | the servers under load: `websocket_1m*/server_*`, `websocket_1m/nhooyr`, `http_1m` | listening addresses, connections and their messages, handlers, `qps`, `total` | listening, both kinds of echo handler, the ticker's swap and sum, connections that break |
| `LoadReport` | the counters of the generators and their report | `success`, `failed`, what was swapped, the totals | counting, `SwapSuccess`, `SwapFailed`, `AddTotals` |
| `LoadTest` | `websocket_1m/client`, for each pair of flags `-c`, `-g` of at most `MaxLoops` goroutines | `chConns`, `counting`, `running`, the loops, main | dial, announce, write, read, count; main's collecting, three seconds, fifteen reports, stop |
| `PoolLoad` | `websocket_1m*/nbioclient` and `websocket_1m_tls/client`, with at most `MaxLoopers` goroutines | the task pool, wait group, `conns`, timers or loops | starter, tasks, first messages, `OnMessage` with and without timer, slices and loops |
| `HttpLoad` | `http_1m/client`; a loop without connections (fewer clients than goroutines) does nothing | per goroutine where `loop` and `post` stand, answers of which a part was read | dial, write, read of a whole answer or of a part, both counters, the panic |
| `IoMod` | `iomod/iomod.go`, for plans of at most `MaxAddrs` addresses, `MaxUrls` urls and `MaxRounds` rounds | main, servers, `engineTransfer`, both wait groups, tests with their connections | start of the servers, the tests in a row and those in goroutines, echo and upgrade variants, shutdown functions |
| `Transfer` | `websocket_transfer` | main, `nbhttpEngine`, the two `Serve` goroutines and their channels, clients, who reads a connection | start-up, upgrades, echo, interrupt and shutdown step by step, clients that exit |
| `UdpForward` | `traffic_forward_udp/proxy.go` | datagrams on the four legs, both sessions, the dial | the client and its panic, `OnOpen`, callback, `OnData` of both sides, server, loss, duplication, datagrams in any order |
| `UdpEcho` | `udp` | requests and answers as bags, the clients, `done` | both clients, server, loss, duplication |
| `Edges` | `lt_et` and `bench` | bytes in each socket, the event that is due | client, arrivals, one-buffer and read-all handlers, echo |
| `TlsRing` | `tls_bench`, `tls` | records each way and in the `tls.Conn`, `Session.Buffer` | handshake, first message, echo, `wrapData`, the other clients |
| `TlsCount` | `tls/test` | the listener, records, calls of `OnData`, the context | start, dial and its panic, writes, `OnData`, return |
| `AsyncDial` | `async_dialer` | bytes each way, `echoCount` | dial, both sides of `OnData` |
| `NbClient` | `websocket_tls/nbioclient` | `connectedClients` (first in, first out), main, flood goroutines, blocked handlers, timers, broken connections | dial and its panic, push, take and write, `OnMessage`, timer, connections that break |
| `Uploader` | `websocket/data_uploader` | `output`, the files, frames read | frames, failing create and write, last frame, `OnClose` |
| `StreamEcho` | `echo`, `netstd` | bytes in the client's and the server's sockets, the server's write list, `ret` | writes, `OnData`, flush, both clients' ends, the test's client |

`FrameAssembly` EXTENDS `BufferPool`: a connection's handler is a goroutine of
the pool (`Conns == Goroutines`), every call of `Get` and `Put` in a handler is
the pool's own sequence of steps.  `TrafficForward`, `WsProxy`, `Ws2Tcp` and
`StickyTunnel` each INSTANCE `EchoStream`, with a refinement mapping from their
variables; the tunnel twice, once per direction.  The generators EXTEND
`LoadReport`, which EXTENDS `CountingServer`: client and server run together,
and `LoadReport` INSTANCEs `Tally` with all that the server has answered and all
that the client has counted, wherever the numbers are.

Programs that do not interact share an MC module and a run.  `TunnelsMC`,
`LoadMC` and `SmallMC` have a variable `program` that names the one which runs;
their next-state relation is the disjunction of the modules' own, the variables
of the other programs keep one of their initial values, and the MC
module joins what the parts promise about one concern into one property, whose
conjuncts are stated and explained in the modules they come from:

| Property | Conjuncts |
|---|---|
| `TunnelsIntact` | `NothingDropped` (`WsProxy`), `RawStreamIntact` (`Ws2Tcp`: what the proxy's engine takes is of the first frame or its answer, every other byte is on its way), `StreamsIntact` (`StickyTunnel`) |
| `TasksAnswered` | `AnAnswerForEach`, `ReportIsHonest` (`StickyClient`) |
| `ProxiesEcho` | `WsEchoSpec`, `RawEchoSpec`, `BothStreams`: refinements of `EchoStream` |
| `PeersCloseTogether` | `WsPeersCloseTogether`, `RawPeersCloseTogether` (a connection that closes once its session is set takes its peer along, and so does the client's of `WsProxy` at every step of the set-up; one that `OnClose` finds without a session leaves its peer open, and nothing is said of it), `TornDown` (`StickyTunnel`) |
| `ClientsReturn` | `ForwardingCompletes`, `ForwardReturns`, `WsProxyReturns`, `Ws2TcpReturns`, `StickyClientEnds` |
| `TestIsSound`, `PoolLoadIsSound`, `LoadersFinish` | the safety of `LoadTest`, that of `PoolLoad`, the end of both |
| `TransferIsOrdered` | `EngineLast` (the engine goes down when both servers have returned and, unless the context has expired, no handler of theirs is left), `OnlineMissesTransferred` (`Transfer`) |
| `DatagramsMatch` | `BoundariesKept` (only copies of the first write are merged), `ServerDataForwarded`, `AnswersMatch` (`UdpForward`: the client compares an old answer only when a datagram was duplicated), `PanicNeedsDuplicate` (`UdpEcho`) |
| `NothingLeftUnread` | `NothingStranded` (`Edges`), `NothingLeftRaw`, `OneMessageRound` (`TlsRing`: the records on the connection are the rest of one message, in order) |
| `StartUpIsSound` | `TokensKept` (each connection is in the channel or in one other place, or, if it broke, may be in none), `StartUpNeverBlocks` (`NbClient`) |
| `UploadsAreSound` | `FilesAreMessages`, `NoFileLeaks` (`Uploader`) |
| `EchoesAreCounted` | `EchoInOrder`, `NeverOverflows` (`StreamEcho`), `PassNeedsSeparateRecords` (`TlsCount`), `FewerEchoesNeedFragments` (`AsyncDial`) |
| `SmallProgramsProgress` | the liveness of each program of `SmallMC` |

The reachable states are the sum of those of the parts, not their product.

What is external is modelled from how the code uses it:

* nbio runs the handlers of one connection one after the other, handlers of
  different connections run concurrently.  `FrameAssembly` needs it for its
  session, `WsProxy` (`InOrder`) for OnMessage of the client's connection, which
  waits for `onWebsocket`.  The parser and a data handler set with `OnData` run
  where data is read, not in that order; the comment at
  `websocket_proxy/proxy_ws2tcp/server.go:36` is about this.
* Frames that were read before `c.Close` are still handled (`Uploader`).
* TCP delivers any prefix of what is in flight, in order.  A write to a closed
  peer is lost; errors of writes the code ignores are ignored.  UDP loses,
  reorders and duplicates datagrams, in `UdpForward` on each of the four legs.
* A `sync.Pool` may forget what it holds at any time and may return a new
  array although it holds one.
* A task pool starts tasks in the order of `Go`, a fixed number at a time.
* `success = append(success, n)` without a lock is a read and a store of the
  slice, between which other tasks may run.
* The TLS library's Read returns one record, and its `WrapData` is the loop
  which `tls_bench` has copied; TLS 1.0 cuts a Write into two records.
* An upgrade whose engine is nil fails or hands the connection to an engine
  that is not the program's (`Transfer`, either outcome).
* `udp/client` dials port 8888, where `udp/server_std` listens; `udp/server`,
  on 8080, is the same echo.
* The servers of `iomod` listen when the second that main sleeps is over.

## Runs

| Run | Instance | What it shows |
|---|---|---|
| `pool` | 3 goroutines, 2 buffers (symmetric) | tokens are conserved, buffers exclusive, `Put` does not panic, the lease service is implemented. One more goroutine than buffers makes Gets wait and time out while others are half way through `Put` |
| `frames` | 2 connections, 1 buffer, messages of up to 3 frames that fit, fill or overflow it | a session always is the buffer its connection got; what is echoed is exactly the message; an idle server has all its tokens but the forgotten ones; the handlers are disciplined users of the pool and return, also when it is exhausted |
| `frames_leak`, `frames_fragment`, `frames_close` | the code as it is | the first three findings below |
| `tunnels` (forwarder) | 3 rounds of 3 bytes | the byte stream is intact through cache, dial callback and chunks; the client gets through its rounds, or returns when the dial fails |
| `tunnels` (websocket proxy) | 4 messages in 2 rounds | no message is lost for want of a session, whole messages are echoed with their types, connections close together, the client returns |
| `tunnels` (websocket to TCP) | 3 frames of 2 bytes | the same in bytes, but that bytes of the first frame or of its answer may be lost to the proxy's own engine; the client never reads a wrong answer |
| `tunnels` (sticky tunnel) | 4 bytes each way, window 3 | each direction is a stream; when an end closes everything ends |
| `tunnels` (sticky client) | 4 tasks, 2 connections | as many messages as readers on a connection, the report holds finished tasks once, the client ends |
| `ws2tcp_window` | 1 frame | the window of the fourth finding |
| `sticky_client_shared` | 3 tasks, 2 connections | the fifth finding |
| `load` | 2 connections, one of which may break, 2 loops, 2 reports | the websocket generators: nothing is counted before the start, no failure without a broken connection, no nil connection, one message per connection, every connection is echoed on; a test whose flags do not divide never starts, every other ends; no count is lost or made between handlers and reports (`TallySpec`) |
| `http_load` | 2 connections, 3 posts, answers in 1 or 2 parts | the reports of client and server differ only by failures and posts under way, although a failed read is counted as a success too and its rest is read by the next post; a post returns or panics |
| `iomod` | a net/http and an nbio server with 2 rounds; both other upgrades at once | no `log.Fatalf` is reached, the tests of an address are over before the next begins, main returns with everything shut down |
| `small` (transfer) | 2 clients on any of 3 servers, 1 round | the engine is shut down last, main returns after an interrupt unless it came before the engine existed, no client waits for ever; connections of the net/http servers never reach the program's engine, so that `Online` misses them |
| `small` (UDP forwarder, UDP echo) | 3 rounds, 2 copies | the forwarder merges nothing but copies of the first write, its client panics on an old answer only if there was a copy, and returns or panics unless a datagram is lost or the dial fails; neither echo client panics without a duplicate |
| `small` (pollers) | 7 bytes in buffers of 2; a ring of 4 bytes | nothing is left in a socket unannounced, everything is read, the ring goes on |
| `small` (TLS) | a message of 5 bytes; 4 records | the ring goes on because a message is one record, which TLS 1.0 would break; the library's test passes only if its records are read one by one, and panics if it dials before the server listens |
| `small` (nbio client) | 2 connections that may break, 2 flooders | start-up does not block, only broken connections are lost from the channel, a blocked handler returns |
| `small` (uploader) | messages of 2, 1 and 3 frames | a closed file is a message, no file stays open, nothing is written after a failed create |
| `small` (stream echo, dialer) | 5 bytes, a socket of 2; 3 echoes of 3 bytes | the write list never overflows, the echo is complete and in order, the test passes; the dialer closes, early only if its message was cut up |

The bounds: two connections are enough to compete for a buffer, three
goroutines for one to time out while the other two are in `Get` and `Put`.
A first message of up to three frames has a first, a middle and a last one; the
second, of up to two, meets what the first may have left behind.  Frames of 1
and 3 on a buffer of 2 fit, fill and overflow it.  Three rounds of three bytes let a
round be cut into chunks, the first be cached before the dial and the others be
forwarded directly.  Two tasks per connection share it.  Four bytes on a window
of three block a write that a further read has to free.  Two copies of a datagram let
one be merged in the forwarder's cache and another answer a later round.  Two reports and two
echoes per loop let a count fall before, between and after the swaps of both
sides.  The connections of `NbClient` have up to four messages and two timers
each, more than its channel has room for; a broken connection is enough to end
a handler, a reader or a timer's write.

Deadlock is not checked where the modelled programs end: clients are done, the
proxies then wait for others.

### Fairness

Fairness is stated where it is used: in the MC modules for the programs that
share a run, as `WF` or `SF` of the program's action, in the module itself for
`FrameAssembly`, `HttpLoad` and `IoMod`.  Weak fairness says that a goroutine
that can run does, that data which has arrived is reported and that a timer
fires.  Strong fairness is used only for taking the session's mutex in
`TrafficForward` (Go's mutex does not keep a waiter out forever: after a
millisecond it is handed to the longest waiter) and for a send that waits for
room in a channel in `NbClient` (waiting senders are served in their order).
Nothing obliges a remote peer to finish its message, to send or to close;
in `StickyTunnel` the ends are assumed to read what has arrived, without
which a blocked write may keep a tunnel open.  The network is fair only where
it is TCP; nothing is assumed of connections that break.

## Proofs

One module of proofs per run (`pool`, `frames`, `tunnels` with the forwarder in
a module of its own, `load`, `http_load`, `iomod`, `small`).  Each has an
inductive invariant, a lemma that the initial states satisfy it, one lemma per
action that the action keeps it, and the theorems.

| Theorem | For every | Argument |
|---|---|---|
| `PoolTypeCorrect`, `TokensConserved`, `BuffersExclusive`, `PutNeverPanics` | capacity and finite set of goroutines | the inductive invariant `PoolIInv`: besides the properties it ties the slice a goroutine holds to where it stands in `Get` or `Put` (`SliceMatchesPc`). `NoPanic` needs the token count too: `Put` panics when the channel is full, and it cannot be while the caller's own token is out |
| `ImplementsLease` | the same | every step maps to a step of `BufferLease` or a stutter |
| `UsesPool` | any number of connections, buffer and message size | every step of the servers is a step of the pool or leaves it alone; the invariant ties session, handler position and slice (`Owning`, `Position`) |
| `SessionOwns`, `PoolSound` | the same | the session is the buffer the connection got; with `UsesPool` the pool's theorems hold in the servers |
| `PoolKeeps` | the same | with no message in assembly no connection owns a token (`Owning`), so `TokensAccounted` leaves them all in the channel, but for those `RefuseLarge` has lost |
| `AssemblyTypeCorrect`, `EchoesAreExact` | the same, and any number of messages and frames | `Assembling`: at each step of a handler, what the session holds is the frames of the message so far, from the first that was not refused, and the frame being handled is the next one. `EchoExact` speaks only of the end of a message and says nothing of the way there |
| `ForwardTypeCorrect`, `StreamStaysIntact`, `DestinationKnown` | rounds and message length | `IInv` of `TrafficForward_proofs`: `StreamIntact` alone is not inductive, a direct write could overtake the cache. `CallbackProgress` says that the peer is published only under the mutex, that the cache is empty once the callback is done and that nothing is beyond the proxy before |
| `ImplementsEcho` | the same | a client's read takes a prefix of the pipe of `StreamIntact`; a source the failed dial has closed has nothing left to read |
| `TunnelsTypeCorrect` | the constants of the five programs | `TunnelsIInv`, the invariants of the parts; a program that does not run keeps its initial state |
| `NothingIsDropped` | rounds, frames, frame length, bytes and window | websocket proxy, `WsIInv`: how far `onWebsocket` is tells which sessions are set, and nothing is beyond the proxy before both are (`WsLinked`); the client never reads more than it has written, also after a connection broke (`WsAnswered`). Websocket to TCP proxy, `RawIInv`: the one frame not yet answered is what the client has read of it, what the engine has taken (`Lost`) and what is on the way, in that order; once something is taken nothing was read, so that it is the first frame (`RawFlow`, `OnTheWay`), and no data passes a connection without its own handler (`RawHandlers`). Tunnel, `StickyIInv`: bytes are held only while writing and both connections close together (`StickyOpen`) |
| `EachTaskIsAnswered` | tasks and clients | `TaskIInv`: on a connection there are as many messages as tasks that wait there; every slice of `success` a task has read, be it an old one, has tasks that are done, each once |
| `ProxiesImplementEcho` | as `NothingIsDropped` | each read of a client or of an end takes the next part of what was written, by the invariants above |
| `SmallIsTyped` | the constants of the ten programs | the invariants of the parts, joined as in `TunnelsIInv` |
| `TransferStopsInOrder` | any set of clients | `MainInOrder`: a server's `Serve` has returned before main receives from its channel; `HandlersOver`: a server that is past its shutdown has no handler left unless the context expired |
| `DatagramsAreMatched` | rounds, requests, duplicates | at most one datagram is under way, and that only while the client reads, and one more for each copy (`AnswersMatch`); without a copy it is the one of this round (`Unmixed`); the cache and what came of it hold copies of the first write alone (`BoundariesKept`), and the destination has its session before anything is sent to it (`SessionsMatch`). Echo: per request, answers and requests never exceed those sent, lost and duplicated (`Balance`) |
| `NothingIsLeftUnread` | sizes of messages, buffers and ring | pollers: no byte is lost between the sockets, so what is in the one `bench` reads fits the buffer it reads with. Ring: one record of the size of a message, on one of the wires (`OneRecord`), or, for the client that speaks TLS 1.0, the pieces of one message in order (`Carry`) |
| `StartUpIsSafe` | sets of connections and floods | `Placed`, `NeverTwice`: each connection is in one place only; `StartUp`: main has pushed at most as many as it has dialled, so its sends find room |
| `UploadsAreSafe` | messages, frames and failures | `InSequence`, `FilesSoFar`: frames are read in order and the open file holds the frames of its message read so far |
| `EchoesAreRight` | sizes of buffer and socket, counts | stream: received, on the way back, in the write list and on the way there make up the buffer, in that order (`Circulates`); the programs that count calls: records that are read together stay in the library, so that fewer calls than records are counted (`CountIInv`); a call brings at most one message, and exactly one unless it was cut up (`DialIInv`) |
| `IoTypeCorrect`, `NoTestFails`, `TestsEndFirst` | plans of any size | `Counted`: the wait group is the number of tests that run; `Finished`: the tests of earlier addresses are over; `Reached`: only tests that main has come to were started; `Servers`: where main stands tells which servers are up and what the other wait group is; `Talk`: what is on a test's wire is the next answer the test or its `OnMessage` expects |
| `HttpTypeCorrect`, `ReportsAgree` | clients, goroutines and posts | `CountsAgree` speaks of sums only and is not inductive. `Charged`: successes, those about to be counted, unread answers and requests that were counted and not answered are together at most what was served or failed. `Posted`: unless a connection broke, every post is served or waits to be. Messages are counted as pairs of connection and number, `Below` |
| `LoadersTypeCorrect` | flags, connections, workers, rounds | `IInv` of `LoadMC_proofs` |
| `TestCountsSound` | flags, connections, reports | `LoopTalk`: what is on a connection is the body of the one loop that waits for it, so a comparison fails only if it broke; `LoopShape`: a loop dials its own connections, and those of two loops differ (a lemma on the division, `Slots`); `Barrier`: main has taken as many connections as were dialled, but for those about to be announced |
| `PoolLoadSound` | flags, connections, workers and queue | `Tasks`: the wait group is the number of tasks that run, the array holds the connections of those that have dialled; `Slices`: what the starter has cut off are the loops' own parts, the rest is what follows; `PoolTalk`: a connection has one message at most, on a wire, in its handler or with its timer, and only if it was greeted or a loop waits |
| `LoadersImplementTally` | the same | `Accounted`: successes, unread answers, and those read and not yet counted are together at most what was served. `Tally`'s own bound says nothing of the answers on their way and is not inductive. The steps of the reports move numbers between counters and leave both sums |

The assumptions are the named `ASSUME`s on the constants, which the runs
evaluate too: sizes, counts and flags are natural numbers (positive where a
program divides by them or a message would be empty), sets of goroutines, clients and
connections are finite, a plan of `iomod` has an address, a url and a round,
there are as many connections as the flags make (`FlagsFitConns`,
`LoopsHaveConns`), a message fits the buffer it is read into where the program
chose them so (`BenchFits`, `MessageIsSmall`, `BufferFits`).  Bounds such as
`MaxRead`, `MaxPosts`, `MaxLoops`, `MaxAddrs` may have any value.

`TrafficForward_proofs` and `TunnelsMC_proofs` have lemmas on sequences that
serve the byte streams (`PrefixAndRest`, `MoveChunk`, `Merge`; `PipeJoins`,
`PipeMoves`, `BeginsOn`, `PartShifts`), `SmallMC_proofs` those on messages cut
into records (`CarryIsCut`, `RecordsJoined`) and on taking from a channel
(`PutAdds`, `TakeRemoves`), the generators those on dividing
connections among goroutines (`Slots`, `Shares`).

Only model-checked: the liveness properties (`HandlersReturn`, `ClientsReturn`,
`PeersCloseTogether`, `LoadersFinish`, `PostsReturn`, `MainReturns`,
`SmallProgramsProgress`), since fairness and ENABLED are out of the proof
system's reach; and the properties the code does not have (`AdmitsWhenIdle`,
`FrameIsMessage`, `CloseFindsBuffer`, `NoFrameParsed`, `EachItsOwn`), which the
findings below refute.

## Findings

* `frames_leak`: a first frame larger than a buffer loses that buffer: after N
  of them the idle server admits no message
  (`websocket/server_manual_frame_assembly/server.go:45`).
* `frames_fragment`: when the first frame of a message was refused its last
  frame is echoed as a message of its own (line 38).
* `frames_close`: the plain server's `OnClose` panics for a connection without
  an unfinished message (line 59); the TLS server checks.
* `ws2tcp_window`: dialing before the upgrade does not keep the proxy from
  parsing the client's first frame: the data handlers are changed after the
  upgrade has been answered (`websocket_proxy/proxy_ws2tcp/server.go:62`).
* `sticky_client_shared`: tasks that share a connection take each other's
  answers (`websocket_tls/sticky/client/client.go:54`).

Things the models show that no document of the repository speaks of:

* In both websocket proxies the app server's connection may close before its
  session is set, which leaves the client's connection open and its client
  waiting (`alone` in `WsProxy` and `Ws2Tcp`); in the forwarders nothing closes
  the destination when the source goes.
* A `websocket_1m` test whose client number is not a multiple of its goroutine
  number waits for ever (`UnevenTestsWait`).
* `http_1m/client` counts a failed read twice and reads the rest of an answer as
  the next one; a Read of fewer than five bytes panics (`CountsAgree`,
  `PostsReturn`).  Its report also prints `failed`, which it has just reset,
  where the others print `nFailed`.
* `websocket_transfer` captures its engine variable before it is assigned:
  the connections it transfers go elsewhere or are refused
  (`OnlineMissesTransferred`).
* A duplicated datagram makes either UDP client panic, and that of the UDP
  forwarder too; a lost one keeps it waiting for ever.  Copies of its first
  write that arrive before the dial completes are merged in the cache, and the
  server gets them as one datagram.
* `tls/test` passes only if the server's poller reads its records one by one.
  `time.Sleep(1)` before it dials is a nanosecond: it panics if the server does
  not listen yet.
* `websocket_tls/nbioclient` loses a connection from its channel for good when
  a message to it fails or has no echo (`TokensKept`); nothing tells it.
* `websocket_1m_tls/server_net` prints a counter it never adds to.

## Not modelled

Log output, the websocket wire format and the text of HTTP; start and shutdown
of the processes where nothing depends on their order; the statistics counters
of the TLS frame server and of the transfer server, which are swapped as in
`CountingServer`.

* HTTP servers on other frameworks and their client, `http/client`,
  `http_trailer/client`: one handler without state each.
* `websocket_tls/client_websocketpp` and `client_macfoundation`: interactive
  clients in C++ and Objective-C.
* `http/nbclient`, `async_sendfile`, `shutdown`: what is hard in them (the pool
  of connections, the order of responses on a connection, the shutdown of an
  engine) is the library's, which is not in the repository.
* The websocket echo programs other than the nbio TLS client: they echo, or
  wait for an echo, on one connection and share nothing between goroutines.
* The recorded keys, certificates and address lists: data.
