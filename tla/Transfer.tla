------------------------------ MODULE Transfer ------------------------------
(***************************************************************************)
(* The transfer server: two servers of net/http hand their websockets to a *)
(* poller, a third server is nbhttp's own engine; an interrupt shuts them  *)
(* down one after the other within three seconds.  Its clients write a     *)
(* message and wait for the echo, round after round.                       *)
(***************************************************************************)
EXTENDS Naturals

CONSTANTS Users,        \* goroutines of the client programs
          MaxRounds     \* bound: the rounds of a client
ASSUME RoundsAreNat == MaxRounds \in Nat

VARIABLES tmain,        \* where main stands
          nbhttpEngine,
          serve,        \* the goroutines of startHTTP
          chDone,       \* chTLS and chTCP
          closing,      \* Shutdown was called
          expired,      \* the context of the shutdown
          via,          \* the server a client is pointed at
          user, rounds, \* the clients
          holder,       \* who reads a client's connection on the server's side
          wire          \* of a client's connection

userSide == <<user, rounds, wire>>
httpSide == <<serve, chDone, closing>>
transferVars == <<tmain, nbhttpEngine, httpSide, expired, via, holder, userSide>>

Http == {"tls", "tcp"}

TransferTypeOK ==
    /\ tmain \in {"interrupt", "shutdown tls", "shutdown tcp", "receive tls", "receive tcp",
                  "shutdown engine", "returned", "crashed"}
    /\ nbhttpEngine \in {"nil", "new", "up", "failed", "down"}
    /\ serve \in [Http -> {"starting", "serving", "returned"}]
    /\ chDone \in [Http -> {0, 1}] /\ closing \subseteq Http /\ expired \in BOOLEAN
    /\ via \in [Users -> Http \cup {"nb"}]
    /\ user \in [Users -> {"dial", "upgrade", "write", "read", "returned", "exited"}]
    /\ rounds \in [Users -> 0..MaxRounds]
    /\ holder \in [Users -> {"none", "handler", "engine", "other", "closed"}]
    /\ wire \in [Users -> {"empty", "request", "answer"}]

(* main has started its goroutines and waits for the interrupt.            *)
TransferInit ==
    /\ tmain = "interrupt" /\ nbhttpEngine = "nil"
    /\ serve = [h \in Http |-> "starting"] /\ chDone = [h \in Http |-> 0]
    /\ closing = {} /\ expired = FALSE
    /\ via \in [Users -> Http \cup {"nb"}]
    /\ user = [u \in Users |-> "dial"] /\ rounds = [u \in Users |-> 0]
    /\ holder = [u \in Users |-> "none"] /\ wire = [u \in Users |-> "empty"]

Running == tmain \notin {"returned", "crashed"}
Closed(u) == holder[u] = "closed" \/ ~Running

-----------------------------------------------------------------------------
(* startNBIO: the variable is assigned, then Start, which may fail.        *)
startNBIO ==
    /\ Running
    /\ \/ nbhttpEngine = "nil" /\ nbhttpEngine' = "new"
       \/ nbhttpEngine = "new" /\ nbhttpEngine' \in {"up", "failed"}
    /\ UNCHANGED <<tmain, httpSide, expired, via, holder, userSide>>

(* startHTTP: Serve, which returns once Shutdown was called, and the send. *)
startHTTP(h) ==
    /\ Running
    /\ \/ serve[h] = "starting" /\ h \notin closing
          /\ serve' = [serve EXCEPT ![h] = "serving"] /\ UNCHANGED chDone
       \/ serve[h] # "returned" /\ h \in closing
          /\ serve' = [serve EXCEPT ![h] = "returned"] /\ chDone' = [chDone EXCEPT ![h] = @ + 1]
    /\ UNCHANGED <<tmain, nbhttpEngine, closing, expired, via, holder, userSide>>

(* main: an interrupt, and Shutdown of the TLS server closes its listener. *)
Interrupt ==
    /\ tmain = "interrupt" /\ tmain' = "shutdown tls" /\ closing' = {"tls"}
    /\ UNCHANGED <<nbhttpEngine, serve, chDone, expired, via, holder, userSide>>

Expire ==
    /\ tmain # "interrupt" /\ Running /\ ~expired /\ expired' = TRUE
    /\ UNCHANGED <<tmain, nbhttpEngine, httpSide, via, holder, userSide>>

(* Shutdown returns when no handler runs, hijacked connections not counted,*)
(* or when the context has expired.                                        *)
Quiet(h) == expired \/ \A u \in Users : via[u] = h => holder[u] # "handler"

ShutdownReturns ==
    /\ \/ tmain = "shutdown tls" /\ Quiet("tls") /\ tmain' = "shutdown tcp" /\ closing' = Http
       \/ tmain = "shutdown tcp" /\ Quiet("tcp") /\ tmain' = "receive tls" /\ UNCHANGED closing
    /\ UNCHANGED <<nbhttpEngine, serve, chDone, expired, via, holder, userSide>>

(* Mutant: main does not wait for the goroutines of startHTTP. *)
ReceiveNothing ==
    /\ tmain = "receive tls" /\ tmain' = "shutdown engine"
    /\ UNCHANGED <<nbhttpEngine, httpSide, expired, via, holder, userSide>>

ReceiveDone(h, at, next) ==
    /\ tmain = at /\ chDone[h] = 1 /\ tmain' = next /\ chDone' = [chDone EXCEPT ![h] = 0]
    /\ UNCHANGED <<nbhttpEngine, serve, closing, expired, via, holder, userSide>>

Receive == ReceiveDone("tls", "receive tls", "receive tcp") \/ ReceiveDone("tcp", "receive tcp", "shutdown engine")

(* nbhttpEngine.Shutdown, of nil if startNBIO has not run yet.             *)
ShutdownEngine ==
    /\ tmain = "shutdown engine"
    /\ IF nbhttpEngine = "nil"
       THEN tmain' = "crashed" /\ UNCHANGED <<nbhttpEngine, holder>>
       ELSE /\ tmain' = "returned" /\ nbhttpEngine' = "down"
            /\ holder' = [u \in Users |-> IF holder[u] = "engine" THEN "closed" ELSE holder[u]]
    /\ UNCHANGED <<httpSide, expired, via, userSide>>

-----------------------------------------------------------------------------
(* log.Fatal ends a client program, with all its goroutines.               *)
Fatal(u) == user' = [v \in Users |-> IF via[v] = via[u] /\ user[v] # "returned" THEN "exited" ELSE user[v]]

Accepts(server) == IF server = "nb" THEN nbhttpEngine = "up"
                                    ELSE serve[server] = "serving" /\ server \notin closing

(* A server of net/http listens from the start, its backlog waits.         *)
Refuses(server) == IF server = "nb" THEN nbhttpEngine # "up" ELSE server \in closing

(* The client's Dial; onNBWebsocket upgrades in the engine itself.         *)
UserDials(u) ==
    /\ user[u] = "dial" /\ Running /\ Accepts(via[u])
    /\ user' = [user EXCEPT ![u] = IF via[u] = "nb" THEN "write" ELSE "upgrade"]
    /\ holder' = [holder EXCEPT ![u] = IF via[u] = "nb" THEN "engine" ELSE "handler"]
    /\ UNCHANGED <<tmain, nbhttpEngine, httpSide, expired, via, rounds, wire>>

DialFails(u) ==
    /\ \/ user[u] = "dial" /\ (~Running \/ Refuses(via[u]))
       \/ user[u] = "upgrade" /\ Closed(u)
    /\ Fatal(u)
    /\ UNCHANGED <<tmain, nbhttpEngine, httpSide, expired, via, holder, rounds, wire>>

(* onWebsocket: UpgradeAndTransferConnToPoller.  newUpgrader ran when the  *)
(* package was initialised, so that u.Engine is nil: the upgrade fails or  *)
(* the connection goes to a poller that is not nbhttpEngine's.             *)
onWebsocket(u) ==
    /\ Running /\ holder[u] = "handler" /\ user[u] = "upgrade"
    /\ holder' \in {[holder EXCEPT ![u] = h] : h \in {"other", "closed"}}
    /\ user' = IF holder'[u] = "closed" THEN user ELSE [user EXCEPT ![u] = "write"]
    /\ UNCHANGED <<tmain, nbhttpEngine, httpSide, expired, via, rounds, wire>>

(* The upgrader's OnMessage. *)
UserEcho(u) ==
    /\ Running /\ holder[u] \in {"engine", "other"} /\ wire[u] = "request"
    /\ wire' = [wire EXCEPT ![u] = "answer"]
    /\ UNCHANGED <<tmain, nbhttpEngine, httpSide, expired, via, holder, user, rounds>>

UserWrites(u) ==
    /\ user[u] = "write" /\ rounds[u] < MaxRounds /\ ~Closed(u)
    /\ user' = [user EXCEPT ![u] = "read"] /\ wire' = [wire EXCEPT ![u] = "request"]
    /\ rounds' = [rounds EXCEPT ![u] = @ + 1]
    /\ UNCHANGED <<tmain, nbhttpEngine, httpSide, expired, via, holder>>

WriteIsFatal(u) ==
    /\ user[u] = "write" /\ Closed(u) /\ Fatal(u)
    /\ UNCHANGED <<tmain, nbhttpEngine, httpSide, expired, via, holder, rounds, wire>>

UserReads(u) ==
    /\ user[u] = "read"
    /\ \/ wire[u] = "answer" /\ user' = [user EXCEPT ![u] = "write"] /\ wire' = [wire EXCEPT ![u] = "empty"]
       \/ wire[u] # "answer" /\ Closed(u) /\ user' = [user EXCEPT ![u] = "returned"] /\ UNCHANGED wire
    /\ UNCHANGED <<tmain, nbhttpEngine, httpSide, expired, via, holder, rounds>>

-----------------------------------------------------------------------------
UserStep(u) ==
    \/ UserDials(u) \/ DialFails(u) \/ onWebsocket(u) \/ UserEcho(u)
    \/ UserWrites(u) \/ WriteIsFatal(u) \/ UserReads(u)
ShutdownStep == Expire \/ ShutdownReturns \/ Receive \/ ShutdownEngine
StartStep == startNBIO \/ \E h \in Http : startHTTP(h)

TransferNext == Interrupt \/ ShutdownStep \/ StartStep \/ \E u \in Users : UserStep(u)

-----------------------------------------------------------------------------
(* The engine is shut down last: by then both calls of Serve have returned *)
(* and, if the three seconds were enough, no handler is about to hand over *)
(* a connection.                                                           *)
EngineLast ==
    nbhttpEngine = "down" =>
        /\ \A h \in Http : serve[h] = "returned"
        /\ expired \/ \A u \in Users : holder[u] # "handler"

(* The engine never gets a connection of the servers of net/http: the      *)
(* upgrader holds the variable's value of before startNBIO.  Online(),     *)
(* which main prints, counts only the engine's own.                        *)
OnlineMissesTransferred == \A u \in Users : holder[u] = "engine" => via[u] = "nb"

(* After an interrupt main returns, or it came before startNBIO ran.       *)
MainEnds == tmain = "returned" \/ (tmain = "crashed" /\ nbhttpEngine = "nil")

(* Once the server is gone every client that has not exited has returned.  *)
UsersEnd == \A u \in Users : user[u] \in {"returned", "exited"}
=============================================================================
