----------------------------- MODULE UdpForward -----------------------------
(***************************************************************************)
(* The UDP forwarder: client, proxy and echo server in one program.  The   *)
(* proxy opens a session per source address, dials the server and keeps    *)
(* what arrives before the dial completes in a byte slice.  A datagram is  *)
(* the sequence of the client's writes, each of 512 bytes and named by its *)
(* round, whose bytes it carries.  The network loses, duplicates and       *)
(* reorders datagrams.                                                     *)
(***************************************************************************)
EXTENDS Naturals, Sequences, SequencesExt

CONSTANTS Rounds,       \* the client's loop, 3 in the code
          MaxCopies     \* bound: the duplicates the network makes
ASSUME SomeRounds == Rounds \in Nat \ {0} /\ MaxCopies \in Nat

VARIABLES round, client,
          src,          \* the Session of the connection to the client
          dial,         \* where DialAsyncTimeout stands
          dst,          \* the Session of the connection to the server
          toProxy, toServer, fromServer, fromProxy,
          doubled,      \* the duplicates the network has made
          lost          \* some datagram was

datagrams == <<toProxy, toServer, fromServer, fromProxy>>
sessions == <<src, dial, dst>>
network == <<doubled, lost>>
udpVars == <<round, client, sessions, datagrams, network>>

UdpTypeOK ==
    /\ round \in 1..(Rounds + 1) /\ client \in {"write", "read", "returned", "panicked"}
    /\ src \in [open : BOOLEAN, Peer : BOOLEAN, Cache : Seq(1..Rounds)]
    /\ dial \in {"none", "dialing", "dialed", "connected", "failed"}
    /\ dst \in [session : BOOLEAN, Peer : BOOLEAN, Cache : Seq(1..Rounds)]
    /\ doubled \in 0..MaxCopies /\ lost \in BOOLEAN
    /\ \A w \in {toProxy, toServer, fromServer, fromProxy} : w \in Seq(Seq(1..Rounds))

UdpInit ==
    /\ round = 1 /\ client = "write"
    /\ src = [open |-> FALSE, Peer |-> FALSE, Cache |-> <<>>] /\ dial = "none"
    /\ dst = [session |-> FALSE, Peer |-> FALSE, Cache |-> <<>>]
    /\ toProxy = <<>> /\ toServer = <<>> /\ fromServer = <<>> /\ fromProxy = <<>>
    /\ doubled = 0 /\ lost = FALSE

(* A read of a datagram into a buffer of n writes cuts off the rest.       *)
InBuffer(d, n) == SubSeq(d, 1, IF Len(d) < n THEN Len(d) ELSE n)

-----------------------------------------------------------------------------
(* client: Write, which may fail, *)
ClientWrites ==
    /\ client = "write"
    /\ \/ client' = "read" /\ toProxy' = Append(toProxy, <<round>>)
       \/ client' = "returned" /\ UNCHANGED toProxy
    /\ UNCHANGED <<round, sessions, toServer, fromServer, fromProxy, network>>

(* and ReadFull into a buffer of one write. *)
ClientReads ==
    /\ client = "read"
    /\ \E i \in 1..Len(fromProxy) :
          /\ fromProxy' = RemoveAt(fromProxy, i)
          /\ IF InBuffer(fromProxy[i], 1) # <<round>> THEN client' = "panicked" /\ UNCHANGED round
             ELSE round' = round + 1 /\ client' = IF round = Rounds THEN "returned" ELSE "write"
    /\ UNCHANGED <<sessions, toProxy, toServer, fromServer, network>>

(* ReadFull returns an error: nobody listens on the proxy's address. *)
ClientReadFails ==
    /\ client = "read" /\ client' = "returned"
    /\ UNCHANGED <<round, sessions, datagrams, network>>

(* OnOpen: the session of a new source address, and the dial. *)
SrcOpen ==
    /\ ~src.open /\ toProxy # <<>>
    /\ src' = [open |-> TRUE, Peer |-> FALSE, Cache |-> <<>>] /\ dial' = "dialing"
    /\ UNCHANGED <<round, client, dst, datagrams, network>>

(* OnData of a connection to the client, under the session's mutex. *)
SrcData ==
    \E i \in 1..Len(toProxy) :
        /\ src.open /\ toProxy' = RemoveAt(toProxy, i)
        /\ IF src.Peer THEN toServer' = Append(toServer, toProxy[i]) /\ UNCHANGED src
           ELSE src' = [src EXCEPT !.Cache = @ \o toProxy[i]] /\ UNCHANGED toServer
        /\ UNCHANGED <<round, client, dial, dst, fromServer, fromProxy, network>>

(* The dial's callback: an error closes the connection to the client, *)
DialFailed ==
    /\ dial = "dialing" /\ dial' = "failed" /\ src' = [src EXCEPT !.open = FALSE]
    /\ UNCHANGED <<round, client, dst, datagrams, network>>

(* Mutant: the connection to the server gets its session at the end. *)
DialSessionLate ==
    /\ dial = "dialing" /\ dial' = "dialed"
    /\ UNCHANGED <<round, client, src, dst, datagrams, network>>

(* else the new connection gets a session first, *)
DialSession ==
    /\ dial = "dialing" /\ dial' = "dialed"
    /\ dst' = [session |-> TRUE, Peer |-> TRUE, Cache |-> <<>>]
    /\ UNCHANGED <<round, client, src, datagrams, network>>

(* and under the mutex of the source's session becomes its peer. *)
DialPeer ==
    /\ dial = "dialed" /\ dial' = "connected"
    /\ src' = [src EXCEPT !.Peer = TRUE, !.Cache = <<>>]
    /\ toServer' = IF src.Cache # <<>> THEN Append(toServer, src.Cache) ELSE toServer
    /\ UNCHANGED <<round, client, dst, toProxy, fromServer, fromProxy, network>>

(* OnData of the connection to the server.  Without a session it makes one *)
(* from the data and, as that one has no peer, appends the data again.     *)
DstData ==
    \E i \in 1..Len(fromServer) :
        /\ fromServer' = RemoveAt(fromServer, i)
        /\ IF dst.session /\ dst.Peer
           THEN fromProxy' = Append(fromProxy, fromServer[i]) /\ UNCHANGED dst
           ELSE /\ dst' = [session |-> TRUE, Peer |-> FALSE, Cache |->
                              (IF dst.session THEN dst.Cache ELSE fromServer[i]) \o fromServer[i]]
                /\ UNCHANGED fromProxy
        /\ UNCHANGED <<round, client, src, dial, toProxy, toServer, network>>

(* server, whose buffer holds two writes. *)
ServerEcho ==
    \E i \in 1..Len(toServer) :
        /\ toServer' = RemoveAt(toServer, i)
        /\ fromServer' = Append(fromServer, InBuffer(toServer[i], 2))
        /\ UNCHANGED <<round, client, sessions, toProxy, fromProxy, network>>

(* The network loses a datagram, wherever it is, *)
Lose ==
    /\ lost' = TRUE /\ UNCHANGED <<round, client, sessions, doubled>>
    /\ \/ /\ \E i \in 1..Len(toProxy) : toProxy' = RemoveAt(toProxy, i)
          /\ UNCHANGED <<toServer, fromServer, fromProxy>>
       \/ /\ \E i \in 1..Len(toServer) : toServer' = RemoveAt(toServer, i)
          /\ UNCHANGED <<toProxy, fromServer, fromProxy>>
       \/ /\ \E i \in 1..Len(fromServer) : fromServer' = RemoveAt(fromServer, i)
          /\ UNCHANGED <<toProxy, toServer, fromProxy>>
       \/ /\ \E i \in 1..Len(fromProxy) : fromProxy' = RemoveAt(fromProxy, i)
          /\ UNCHANGED <<toProxy, toServer, fromServer>>

(* or delivers it once more. *)
Double ==
    /\ doubled < MaxCopies /\ doubled' = doubled + 1 /\ UNCHANGED <<round, client, sessions, lost>>
    /\ \/ /\ \E i \in 1..Len(toProxy) : toProxy' = Append(toProxy, toProxy[i])
          /\ UNCHANGED <<toServer, fromServer, fromProxy>>
       \/ /\ \E i \in 1..Len(toServer) : toServer' = Append(toServer, toServer[i])
          /\ UNCHANGED <<toProxy, fromServer, fromProxy>>
       \/ /\ \E i \in 1..Len(fromServer) : fromServer' = Append(fromServer, fromServer[i])
          /\ UNCHANGED <<toProxy, toServer, fromProxy>>
       \/ /\ \E i \in 1..Len(fromProxy) : fromProxy' = Append(fromProxy, fromProxy[i])
          /\ UNCHANGED <<toProxy, toServer, fromServer>>

-----------------------------------------------------------------------------
(* The client's panic ends the one process they all are. *)
UdpProgress ==
    /\ client # "panicked"
    /\ \/ ClientWrites \/ ClientReads \/ SrcOpen \/ SrcData
       \/ DialFailed \/ DialSession \/ DialPeer \/ DstData \/ ServerEcho

UdpNext == UdpProgress \/ (client # "panicked" /\ (ClientReadFails \/ Lose \/ Double))

-----------------------------------------------------------------------------
(* The cache, a byte slice, merges datagrams, and the slice is sent as one *)
(* datagram.  What it merges are copies the network made of the client's   *)
(* first write, as the client writes no other before it has an answer:     *)
(* without a duplicate every datagram is one write, and with duplicates a  *)
(* datagram of several holds that first write and nothing else.            *)
OneWrite == {<<r>> : r \in {q \in 1..Rounds : q =< round}}
FirstWrites == {d \in Seq({1}) : Len(d) \in 1..(1 + doubled)}
BoundariesKept ==
    /\ toProxy \in Seq(OneWrite)
    /\ \A w \in {toServer, fromServer, fromProxy} : w \in Seq(OneWrite \cup FirstWrites)
    /\ src.Cache = <<>> \/ src.Cache \in FirstWrites

(* No datagram of the server finds its connection without a session: the   *)
(* callback sets it before it makes the connection the source's peer.      *)
ServerDataForwarded == dst.Cache = <<>>

(* There are never more datagrams than the one the client waits for and    *)
(* the copies of the network.  Without a copy, whatever is lost or         *)
(* overtaken, the answer that the client reads is that of its round; with  *)
(* one it may compare an old answer with a new write, and panic.           *)
Cached == Len(src.Cache)
UnderWay == Len(toProxy) + Cached + Len(toServer) + Len(fromServer) + Len(fromProxy)
AnswersMatch ==
    /\ UnderWay =< (IF client = "write" THEN 0 ELSE 1) + doubled
    /\ client = "panicked" => doubled > 0

(* There is no timeout in client: it returns unless a datagram was lost or *)
(* the dial failed, and then waits for ever, or a copy made it panic.      *)
ClientReturns == client \in {"returned", "panicked"} \/ lost \/ dial = "failed"
=============================================================================
