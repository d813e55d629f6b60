--------------------------- MODULE CountingServer ---------------------------
(***************************************************************************)
(* The servers the load generators run against: websocket_1m(_tls) and     *)
(* http_1m.  They listen on a list of addresses, echo what a connection    *)
(* sends, add one to qps for each message and move qps to total once per   *)
(* second.  A websocket server counts after it has written the answer; an  *)
(* HTTP server counts in its handler, whose answer leaves when the handler *)
(* has returned.                                                           *)
(***************************************************************************)
EXTENDS Naturals, Sequences, FiniteSets

CONSTANTS Conns,        \* the connections of the test
          NumAddrs,     \* length of the list addrs
          Bodies,       \* what a message may say
          MaxBreaks     \* bound: connections that break

VARIABLES protocol,     \* "websocket" or "http"
          listening,    \* the addresses that accept connections
          link,         \* the state of each connection
          toServer, toClient,   \* messages on their way
          handler,      \* where the handler of a connection stands
          qps, n, total

traffic == <<link, toServer, toClient>>
counters == <<qps, n, total>>
serverVars == <<protocol, listening, traffic, handler, counters>>

Addrs == 0..(NumAddrs - 1)

ServerTypeOK ==
    /\ protocol \in {"websocket", "http"}
    /\ listening \subseteq Addrs
    /\ link \in [Conns -> {"none", "up", "broken"}]
    /\ toServer \in [Conns -> Seq(Bodies)] /\ toClient \in [Conns -> Seq(Bodies)]
    /\ handler \in [Conns -> {"reading", "echoed", "counted", "ended"}]
    /\ qps \in Nat /\ n \in Nat /\ total \in Nat

ServerInit ==
    /\ listening = {}
    /\ link = [c \in Conns |-> "none"]
    /\ toServer = [c \in Conns |-> <<>>] /\ toClient = [c \in Conns |-> <<>>]
    /\ handler = [c \in Conns |-> "reading"]
    /\ qps = 0 /\ n = 0 /\ total = 0

(* serve: each address has a goroutine that listens on it. *)
Listen(addr) ==
    /\ addr \notin listening /\ listening' = listening \cup {addr}
    /\ UNCHANGED <<protocol, traffic, handler, counters>>

Goes(c, from, to) == handler[c] = from /\ handler' = [handler EXCEPT ![c] = to]

HasRequest(c) == link[c] = "up" /\ toServer[c] # <<>>

Answer(c) ==
    /\ toServer' = [toServer EXCEPT ![c] = Tail(@)]
    /\ toClient' = [toClient EXCEPT ![c] = Append(@, Head(toServer[c]))]
    /\ UNCHANGED link

(* echo: ReadMessage, WriteMessage. *)
WsEcho(c) ==
    /\ protocol = "websocket" /\ HasRequest(c)
    /\ Goes(c, "reading", "echoed") /\ Answer(c)
    /\ UNCHANGED <<protocol, listening, counters>>

(* echo: atomic.AddUint64(&qps, 1). *)
WsCount(c) ==
    /\ Goes(c, "echoed", "reading") /\ qps' = qps + 1
    /\ UNCHANGED <<protocol, listening, traffic, n, total>>

(* echo: ReadMessage or WriteMessage fails, the handler returns. *)
HandlerEnds(c) ==
    /\ link[c] = "broken" /\ Goes(c, "reading", "ended")
    /\ UNCHANGED <<protocol, listening, traffic, counters>>

(* onEcho: the body is read and written to a buffer, qps counts it.        *)
HttpCount(c) ==
    /\ protocol = "http" /\ HasRequest(c)
    /\ Goes(c, "reading", "counted") /\ qps' = qps + 1
    /\ UNCHANGED <<protocol, listening, traffic, n, total>>

(* onEcho has returned: the answer is sent, to whoever still listens. *)
HttpAnswer(c) ==
    /\ Goes(c, "counted", "reading")
    /\ IF link[c] = "up" THEN Answer(c) ELSE UNCHANGED traffic
    /\ UNCHANGED <<protocol, listening, counters>>

(* Mutant: qps is read in one step and reset in the next. *)
ReadThenReset ==
    /\ \/ n = 0 /\ qps > 0 /\ n' = qps /\ UNCHANGED qps
       \/ n > 0 /\ qps' = 0 /\ UNCHANGED n
    /\ UNCHANGED <<protocol, listening, traffic, handler, total>>

(* main: n := atomic.SwapUint64(&qps, 0), on every tick. *)
SwapQps ==
    /\ n = 0 /\ qps > 0 /\ n' = qps /\ qps' = 0
    /\ UNCHANGED <<protocol, listening, traffic, handler, total>>

(* main: total += n; n is not used again. *)
AddTotal ==
    /\ n > 0 /\ total' = total + n /\ n' = 0
    /\ UNCHANGED <<protocol, listening, traffic, handler, qps>>

(* A connection fails, or the server's read deadline for it has passed.    *)
Break(c) ==
    /\ link[c] = "up" /\ Cardinality({d \in Conns : link[d] = "broken"}) < MaxBreaks
    /\ link' = [link EXCEPT ![c] = "broken"]
    /\ toServer' = [toServer EXCEPT ![c] = <<>>]
    /\ toClient' = [toClient EXCEPT ![c] = <<>>]
    /\ UNCHANGED <<protocol, listening, handler, counters>>

HandlerStep(c) == WsEcho(c) \/ WsCount(c) \/ HandlerEnds(c) \/ HttpCount(c) \/ HttpAnswer(c)

(* A server goes on while clients come and go: the part of Next that is    *)
(* its own, and the fairness of its goroutines.                            *)
ServerNext ==
    \/ \E addr \in Addrs : Listen(addr)
    \/ SwapQps \/ AddTotal
    \/ \E c \in Conns : HandlerStep(c)

ServerFairness ==
    /\ WF_serverVars(\E addr \in Addrs : Listen(addr))
    /\ \A c \in Conns : WF_serverVars(HandlerStep(c))

(* Messages the server has answered, as far as its counters and the        *)
(* handlers that are about to count know.                                  *)
Served ==
    qps + n + total + Cardinality({c \in Conns : handler[c] = "echoed"})
=============================================================================
