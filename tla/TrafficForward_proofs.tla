------------------------ MODULE TrafficForward_proofs ------------------------
(***************************************************************************)
(* Proofs about TrafficForward, for any number of rounds and any message   *)
(* length: the bytes between the client's Write and its Read are never     *)
(* lost, duplicated or reordered, whatever the interleaving of OnData, the *)
(* dial callback and the chunks TCP delivers, and what the client reads is *)
(* an echo stream.                                                         *)
(***************************************************************************)
EXTENDS TrafficForward, SequenceTheorems, TLAPS

(* What the callback's progress says of the two sessions and of what can   *)
(* have gone beyond the proxy.                                             *)
CallbackProgress ==
    /\ sess.peer <=> dial \in {"flushing", "done"}
    /\ sess.mux = "callback" <=> dial \in {"publishing", "flushing"}
    /\ dst.session = "peer" <=> dial \in {"locking", "publishing", "flushing", "done"}
    /\ dst.session # "own"
    /\ IF dial = "done" THEN sess.cache = <<>>
       ELSE net.toServer = <<>> /\ net.fromServer = <<>> /\ net.toClient = <<>>
    /\ ~srcOpen => phase \in {"done", "failed", "killed"} \/ net.toClient = <<>>

IInv == TypeOK /\ CallbackProgress /\ StreamIntact

USE RoundsIsNat

-----------------------------------------------------------------------------
(* A message of client() is made of the bytes it may write. *)
LEMMA MessageIsStream ==
    ASSUME NEW i \in 1..Rounds
    PROVE  Message(i) \in Stream /\ Len(Message(i)) = MessageLen
<1>1. ASSUME NEW k \in 1..MessageLen PROVE (i - 1) * MessageLen + k \in 1..Total
  <2>1. i * MessageLen =< Rounds * MessageLen
    OBVIOUS
  <2>2. (i - 1) * MessageLen + MessageLen = i * MessageLen
    OBVIOUS
  <2>3. (i - 1) * MessageLen \in Nat /\ Rounds * MessageLen \in Nat
    OBVIOUS
  <2>4. QED
    BY <2>1, <2>2, <2>3 DEF Total
<1>2. Message(i) \in [1..MessageLen -> 1..Total]
  BY <1>1 DEF Message
<1>3. ASSUME NEW S, NEW m \in [1..MessageLen -> S]
      PROVE  m \in Seq(S) /\ Len(m) = MessageLen
  OBVIOUS
<1>4. QED
  BY <1>2, <1>3, Zenon DEF Stream

(* A non-empty prefix and the rest make up the whole. *)
LEMMA PrefixAndRest ==
    ASSUME NEW s \in Stream, NEW p \in Prefixes(s)
    PROVE  /\ p \in Stream /\ Rest(s, p) \in Stream
           /\ p \o Rest(s, p) = s
           /\ s # <<>> /\ Len(p) > 0
<1>0. PICK S : Stream = Seq(S)
  BY DEF Stream
<1>1. PICK n \in 1..Len(s) : p = SubSeq(s, 1, n)
  BY DEF Prefixes
<1>2. Len(s) \in Nat /\ n \in 0..Len(s) /\ Len(s) \in n..Len(s)
  BY <1>0, <1>1
<1>3. p \in Seq(S) /\ Len(p) = n
  BY <1>0, <1>1, <1>2, SubSeqProperties
<1>4. Rest(s, p) \in Seq(S)
  BY <1>0, <1>2, <1>3, SubSeqProperties DEF Rest
<1>5. SubSeq(s, 1, n) \o SubSeq(s, n + 1, Len(s)) = SubSeq(s, 1, Len(s))
  BY <1>0, <1>2, ConcatAdjacentSubSeq
<1>6. QED
  BY <1>0, <1>1, <1>2, <1>3, <1>4, <1>5, SubSeqFull DEF Rest

LEMMA Associative ==
    ASSUME NEW x \in Stream, NEW y \in Stream, NEW z \in Stream
    PROVE  (x \o y) \o z = x \o (y \o z)
<1>1. PICK S : Stream = Seq(S)
  BY DEF Stream
<1>2. QED
  BY <1>1, ConcatAssociative

LEMMA Concat ==
    ASSUME NEW s \in Stream, NEW t \in Stream
    PROVE  /\ s \o t \in Stream
           /\ Len(s) \in Nat
           /\ Len(s \o t) = Len(s) + Len(t)
           /\ SubSeq(s \o t, 1, Len(s)) = s
<1>1. PICK S : Stream = Seq(S)
  BY DEF Stream
<1>2. s \o t \in Seq(S) /\ Len(s \o t) = Len(s) + Len(t) /\ Len(s) \in Nat
  BY <1>1, ConcatProperties
<1>3. SubSeq(s \o t, 1, Len(s)) \in Seq(S) /\ Len(SubSeq(s \o t, 1, Len(s))) = Len(s)
  BY <1>1, <1>2
<1>4. \A i \in 1..Len(s) : SubSeq(s \o t, 1, Len(s))[i] = s[i]
  BY <1>1, <1>2
<1>5. QED
  BY <1>1, <1>2, <1>3, <1>4, SeqEqual

LEMMA Empty ==
    /\ <<>> \in Stream /\ Prefixes(<<>>) = {}
    /\ \A s \in Stream : s \o <<>> = s /\ <<>> \o s = s
<1>1. PICK S : Stream = Seq(S)
  BY DEF Stream
<1>2. QED
  BY <1>1, ConcatEmptySeq DEF Prefixes

(* Moving p from the head of one leg to the end of the leg before it.      *)
MovesChunk(x, y, p, r) == x \o (y \o p) \o r = x \o y \o (p \o r)

LEMMA MoveChunk ==
    ASSUME NEW x \in Stream, NEW y \in Stream, NEW p \in Stream, NEW r \in Stream
    PROVE  MovesChunk(x, y, p, r)
<1>1. x \o (y \o p) = (x \o y) \o p
  BY Associative, ZenonT(40)
<1>2. x \o y \in Stream
  BY Concat
<1>3. ((x \o y) \o p) \o r = (x \o y) \o (p \o r)
  BY <1>2, Associative, ZenonT(40)
<1>4. QED
  BY <1>1, <1>3 DEF MovesChunk

-----------------------------------------------------------------------------
LEMMA InitIInv == Init => IInv
<1> SUFFICES ASSUME Init PROVE IInv
  OBVIOUS
<1>1. <<>> \in Stream /\ <<>> \o <<>> = <<>>
  BY Empty
<1>2. TypeOK
  BY <1>1 DEF Init, TypeOK, Legs
<1>3. CallbackProgress
  BY DEF Init, CallbackProgress, Legs
<1>4. StreamIntact
  BY <1>1 DEF Init, StreamIntact, Legs
<1>5. QED
  BY <1>2, <1>3, <1>4 DEF IInv

(* The parts of the pipe that StreamIntact joins are byte sequences. *)
LEMMA Parts ==
    ASSUME TypeOK
    PROVE  /\ read \in Stream /\ written \in Stream /\ data \in Stream
           /\ sess.cache \in Stream
           /\ \A leg \in Legs : net[leg] \in Stream
           /\ read \o net.toClient \in Stream
           /\ read \o net.toClient \o net.fromServer \in Stream
           /\ read \o net.toClient \o net.fromServer \o net.toServer \in Stream
           /\ read \o net.toClient \o net.fromServer \o net.toServer
                   \o sess.cache \in Stream
           /\ read \o net.toClient \o net.fromServer \o net.toServer
                   \o sess.cache \o data \in Stream
<1>1. /\ read \in Stream /\ written \in Stream /\ data \in Stream
      /\ sess.cache \in Stream
      /\ \A leg \in Legs : net[leg] \in Stream
  BY DEF TypeOK
<1>2. /\ net.toClient \in Stream /\ net.fromServer \in Stream /\ net.toServer \in Stream
  BY <1>1 DEF Legs
<1>3. read \o net.toClient \in Stream
  BY <1>1, <1>2, Concat
<1>4. read \o net.toClient \o net.fromServer \in Stream
  BY <1>2, <1>3, Concat
<1>5. read \o net.toClient \o net.fromServer \o net.toServer \in Stream
  BY <1>2, <1>4, Concat
<1>6. read \o net.toClient \o net.fromServer \o net.toServer \o sess.cache \in Stream
  BY <1>1, <1>5, Concat
<1>7. QED
  BY <1>1, <1>3, <1>4, <1>5, <1>6, Concat

(* x starts with r; what joins further sequences to x still does.         *)
StartsWith(x, r) == x \in Stream /\ \E s \in Stream : r \o s = x

LEMMA Extends ==
    ASSUME NEW r \in Stream, NEW x, StartsWith(x, r), NEW y \in Stream
    PROVE  StartsWith(x \o y, r)
<1>1. PICK s \in Stream : r \o s = x
  BY DEF StartsWith
<1>2. s \o y \in Stream /\ x \o y \in Stream
  BY Concat DEF StartsWith
<1>3. (r \o s) \o y = r \o (s \o y)
  BY Associative, ZenonT(40)
<1>4. QED
  BY <1>1, <1>2, <1>3 DEF StartsWith

LEMMA StartOfPipe ==
    ASSUME NEW r \in Stream, NEW a \in Stream, NEW b \in Stream, NEW c \in Stream,
           NEW d \in Stream, NEW e \in Stream, NEW g \in Stream
    PROVE  StartsWith(r \o a \o b \o c \o d \o e \o g, r)
<1>1. StartsWith(r \o a, r)
  BY Concat DEF StartsWith
<1>2. StartsWith(r \o a \o b, r)
  BY <1>1, Extends, Zenon
<1>3. StartsWith(r \o a \o b \o c, r)
  BY <1>2, Extends, Zenon
<1>4. StartsWith(r \o a \o b \o c \o d, r)
  BY <1>3, Extends, Zenon
<1>5. StartsWith(r \o a \o b \o c \o d \o e, r)
  BY <1>4, Extends, Zenon
<1>6. QED
  BY <1>5, Extends, Zenon

(* client(): a write goes to the end of the pipe, a read leaves its head. *)
LEMMA WriteStep == ASSUME IInv, ClientWrite PROVE IInv'
<1>1. round \in 1..Rounds /\ Message(round) \in Stream
  BY MessageIsStream DEF IInv, TypeOK
<1>2. /\ written \o Message(round) \in Stream
      /\ net.toProxy \o Message(round) \in Stream
  BY <1>1, Parts, Concat DEF IInv, Legs
<1>3. /\ net'.toProxy = net.toProxy \o Message(round)
      /\ \A leg \in Legs \ {"toProxy"} : net'[leg] = net[leg]
      /\ net' \in [Legs -> Stream]
  BY <1>2 DEF IInv, TypeOK, ClientWrite, Legs
<1>4. TypeOK'
  BY <1>2, <1>3 DEF IInv, TypeOK, ClientWrite, proxy
<1>5. CallbackProgress'
  BY <1>3 DEF IInv, CallbackProgress, ClientWrite, proxy, Legs
<1>6. StreamIntact'
  <2> DEFINE x == read \o net.toClient \o net.fromServer \o net.toServer
                       \o sess.cache \o data
  <2>1. x \in Stream /\ net.toProxy \in Stream
    BY Parts DEF IInv, Legs
  <2>2. (x \o net.toProxy) \o Message(round) = x \o (net.toProxy \o Message(round))
    BY <1>1, <2>1, Associative, ZenonT(40)
  <2>3. QED
    BY <1>3, <2>2 DEF IInv, StreamIntact, ClientWrite, proxy, Legs
<1>7. QED
  BY <1>4, <1>5, <1>6 DEF IInv

LEMMA ReadStep == ASSUME IInv, ClientRead PROVE IInv'
<1>1. PICK p \in Prefixes(net.toClient) :
         /\ read' = read \o p
         /\ net' = [net EXCEPT !.toClient = Rest(@, p)]
  BY DEF ClientRead, ReadSome
<1>2. /\ p \in Stream /\ Rest(net.toClient, p) \in Stream
      /\ p \o Rest(net.toClient, p) = net.toClient
      /\ net.toClient # <<>>
  BY Parts, PrefixAndRest DEF IInv, Legs
<1>3. /\ net'.toClient = Rest(net.toClient, p)
      /\ \A leg \in Legs \ {"toClient"} : net'[leg] = net[leg]
      /\ net' \in [Legs -> Stream]
  BY <1>1, <1>2 DEF IInv, TypeOK, Legs
<1>4. read' \in Stream
  BY <1>1, <1>2, Parts, Concat DEF IInv
<1>5. UNCHANGED <<written, srcOpen, dial, sess, data, dst>> /\ phase = "read"
  BY DEF ClientRead, ReadSome, proxy
<1>6. phase' \in {"write", "read", "done", "not equal"} /\ round' \in 1..Rounds
  <2>1. CASE ~RoundOver
    BY <1>5, <2>1 DEF IInv, TypeOK, ClientRead
  <2>2. CASE RoundOver /\ Rbuf # Message(round)
    <3>1. phase' = "not equal" /\ round' = round
      BY <2>2 DEF ClientRead
    <3>2. QED
      BY <3>1 DEF IInv, TypeOK
  <2>3. CASE RoundOver /\ Rbuf = Message(round) /\ round < Rounds
    <3>1. phase' = "write" /\ round' = round + 1
      BY <2>3 DEF ClientRead
    <3>2. round \in 1..Rounds /\ round < Rounds
      BY <2>3 DEF IInv, TypeOK
    <3>3. QED
      BY <3>1, <3>2
  <2>4. CASE RoundOver /\ Rbuf = Message(round) /\ ~(round < Rounds)
    <3>1. phase' = "done" /\ round' = round
      BY <2>4 DEF ClientRead
    <3>2. QED
      BY <3>1 DEF IInv, TypeOK
  <2>5. QED
    BY <2>1, <2>2, <2>3, <2>4
<1>7. TypeOK'
  BY <1>3, <1>4, <1>5, <1>6, ZenonT(40) DEF IInv, TypeOK
<1>8. srcOpen /\ dial = "done"
  BY <1>2, <1>5 DEF IInv, TypeOK, CallbackProgress
<1>9. CallbackProgress'
  BY <1>3, <1>5, <1>8 DEF IInv, CallbackProgress, Legs
<1>10. StreamIntact'
  <2>0. read \in Stream
    BY DEF IInv, TypeOK
  <2>1. read \o p \o Rest(net.toClient, p) = read \o net.toClient
    <3> DEFINE left == Rest(net.toClient, p)
    <3>1. (read \o p) \o left = read \o (p \o left)
      <4> HIDE DEF left
      <4>1. left \in Stream
        BY <1>2 DEF left
      <4>2. QED
        BY <1>2, <2>0, <4>1, Associative
    <3>2. QED
      BY <1>2, <3>1
  <2>2. read' \o net'.toClient = read \o net.toClient
    BY <1>1, <1>3, <2>1
  <2>3. QED
    BY <1>3, <1>5, <2>2 DEF IInv, StreamIntact, Legs
<1>11. QED
  BY <1>7, <1>9, <1>10 DEF IInv

(* The client ends; a source that is gone is not in StreamIntact's scope.  *)
LEMMA EndStep ==
    ASSUME IInv, ClientFails \/ ClientKilled \/ SrcGone
    PROVE  IInv'
<1>1. CASE ClientFails \/ ClientKilled
  <2>1. UNCHANGED <<round, written, read, net, proxy>> /\ phase' \in {"failed", "killed"}
    BY <1>1 DEF ClientFails, ClientKilled
  <2>2. TypeOK'
    BY <2>1 DEF IInv, TypeOK, proxy
  <2>3. CallbackProgress'
    BY <2>1 DEF IInv, CallbackProgress, proxy
  <2>4. StreamIntact'
    BY <2>1 DEF IInv, StreamIntact, proxy
  <2>5. QED
    BY <2>2, <2>3, <2>4 DEF IInv
<1>2. CASE SrcGone
  <2>1. <<>> \in Stream
    BY Empty
  <2>2. TypeOK'
    BY <1>2, <2>1 DEF IInv, TypeOK, SrcGone, client, Legs
  <2>3. CallbackProgress'
    BY <1>2 DEF IInv, TypeOK, CallbackProgress, SrcGone, client, Legs
  <2>4. QED
    BY <1>2, <2>2, <2>3 DEF IInv, StreamIntact, SrcGone
<1>3. QED
  BY <1>1, <1>2

-----------------------------------------------------------------------------
(* The dial callback up to the flush touches no byte. *)
LEMMA DialStep ==
    ASSUME IInv, OnOpen \/ DialEnds \/ SetDstSession \/ LockSession \/ PublishPeer
    PROVE  IInv'
<1>1. /\ UNCHANGED <<phase, round, written, read, net, data>>
      /\ srcOpen' => srcOpen
  BY DEF OnOpen, DialEnds, DialFails, DialConnects, SetDstSession, LockSession,
         PublishPeer, client
<1>2. sess'.cache = sess.cache
  BY DEF IInv, TypeOK, OnOpen, DialEnds, DialFails, DialConnects, SetDstSession,
         LockSession, PublishPeer
<1>3. TypeOK'
  <2>1. <<>> \in Stream
    BY Empty
  <2>2. CASE OnOpen \/ DialEnds
    BY <1>1, <2>2 DEF IInv, TypeOK, OnOpen, DialEnds, DialFails, DialConnects, DialTo
  <2>3. CASE SetDstSession
    BY <1>1, <2>1, <2>3 DEF IInv, TypeOK, SetDstSession, DialTo
  <2>4. CASE LockSession \/ PublishPeer
    BY <1>1, <2>4 DEF IInv, TypeOK, LockSession, PublishPeer, DialTo
  <2>5. QED
    BY <2>2, <2>3, <2>4
<1>4. CallbackProgress'
  <2>1. CASE OnOpen \/ DialEnds
    BY <1>1, <2>1 DEF IInv, CallbackProgress, OnOpen, DialEnds, DialFails,
                      DialConnects, DialTo
  <2>2. CASE SetDstSession
    BY <1>1, <2>2 DEF IInv, CallbackProgress, SetDstSession, DialTo
  <2>3. CASE LockSession \/ PublishPeer
    BY <1>1, <2>3 DEF IInv, TypeOK, CallbackProgress, LockSession, PublishPeer, DialTo
  <2>4. QED
    BY <2>1, <2>2, <2>3
<1>5. StreamIntact'
  BY <1>1, <1>2 DEF IInv, StreamIntact
<1>6. QED
  BY <1>3, <1>4, <1>5 DEF IInv

(* x is what is beyond a leg y: y grows by p, whoever kept p is empty now. *)
LEMMA Merge ==
    ASSUME NEW x \in Stream, NEW y \in Stream, NEW p \in Stream
    PROVE  x \o (y \o p) \o <<>> = x \o y \o p
<1>1. y \o p \in Stream
  BY Concat
<1>2. x \o (y \o p) \in Stream
  BY <1>1, Concat
<1>3. QED
  BY <1>2, Associative, Empty, SMTT(30)

LEMMA FlushStep == ASSUME IInv, FlushCache PROVE IInv'
<1>1. net.toServer \o sess.cache \in Stream /\ <<>> \in Stream
  BY Parts, Concat, Empty DEF IInv, Legs
<1>2. /\ net'.toServer = net.toServer \o sess.cache
      /\ \A leg \in Legs \ {"toServer"} : net'[leg] = net[leg]
      /\ net' \in [Legs -> Stream]
  BY <1>1 DEF IInv, TypeOK, FlushCache, Legs
<1>3. TypeOK'
  BY <1>1, <1>2 DEF IInv, TypeOK, FlushCache, DialTo, client
<1>4. CallbackProgress'
  BY <1>2 DEF IInv, TypeOK, CallbackProgress, FlushCache, DialTo, client, Legs
<1>5. StreamIntact'
  <2> DEFINE x == read \o net.toClient \o net.fromServer
  <2>0. x \in Stream /\ net.toServer \in Stream /\ sess.cache \in Stream
    BY Parts DEF IInv, Legs
  <2>1. x \o (net.toServer \o sess.cache) \o <<>> = x \o net.toServer \o sess.cache
    BY <2>0, Merge, ZenonT(40)
  <2>2. sess'.cache = <<>>
    BY DEF IInv, TypeOK, FlushCache
  <2>3. QED
    BY <1>2, <2>1, <2>2 DEF IInv, StreamIntact, FlushCache, client, Legs
<1>6. QED
  BY <1>3, <1>4, <1>5 DEF IInv

-----------------------------------------------------------------------------
LEMMA OnDataSrcStep == ASSUME IInv, OnDataSrc PROVE IInv'
<1>1. PICK p \in Prefixes(net.toProxy) :
         data' = p /\ net' = [net EXCEPT !.toProxy = Rest(@, p)]
  BY DEF OnDataSrc
<1>2. /\ p \in Stream /\ Rest(net.toProxy, p) \in Stream
      /\ p \o Rest(net.toProxy, p) = net.toProxy
  BY Parts, PrefixAndRest DEF IInv, Legs
<1>3. /\ net'.toProxy = Rest(net.toProxy, p)
      /\ \A leg \in Legs \ {"toProxy"} : net'[leg] = net[leg]
      /\ net' \in [Legs -> Stream]
  BY <1>1, <1>2 DEF IInv, TypeOK, Legs
<1>4. /\ UNCHANGED <<phase, round, written, read, srcOpen, dial, sess, dst>>
      /\ data = <<>>
  BY DEF OnDataSrc, client
<1>5. TypeOK'
  BY <1>1, <1>2, <1>3, <1>4, ZenonT(40) DEF IInv, TypeOK
<1>6. CallbackProgress'
  BY <1>3, <1>4 DEF IInv, CallbackProgress, Legs
<1>7. StreamIntact'
  <2> DEFINE x == read \o net.toClient \o net.fromServer \o net.toServer
                       \o sess.cache
             left == Rest(net.toProxy, p)
  <2>1. x \in Stream /\ left \in Stream
    BY <1>2, Parts DEF IInv
  <2>2. x \o data = x
    BY <1>4, <2>1, Empty
  <2>3. x \o p \o left = x \o (p \o left)
    <3> HIDE DEF x, left
    <3>1. QED
      BY <1>2, <2>1, Associative, SMTT(30)
  <2>4. x \o p \o left = x \o data \o net.toProxy
    BY <1>2, <2>2, <2>3
  <2>5. /\ net'.toProxy = left /\ data' = p
        /\ (read \o net.toClient \o net.fromServer \o net.toServer \o sess.cache)' = x
    BY <1>1, <1>3, <1>4 DEF Legs
  <2>6. QED
    BY <1>4, <2>4, <2>5 DEF IInv, StreamIntact
<1>8. QED
  BY <1>5, <1>6, <1>7 DEF IInv

LEMMA OnDataLockStep == ASSUME IInv, OnDataLock PROVE IInv'
<1>1. /\ UNCHANGED <<phase, round, written, read, net, srcOpen, dial, data, dst>>
      /\ sess.mux = "free" /\ sess' = [sess EXCEPT !.mux = "onData"]
  BY DEF OnDataLock, client
<1>2. TypeOK'
  BY <1>1 DEF IInv, TypeOK
<1>3. sess'.cache = sess.cache /\ sess'.peer = sess.peer /\ sess'.mux = "onData"
  BY <1>1 DEF IInv, TypeOK
<1>4. CallbackProgress'
  BY <1>1, <1>3 DEF IInv, CallbackProgress
<1>5. StreamIntact'
  BY <1>1, <1>3 DEF IInv, StreamIntact
<1>6. QED
  BY <1>2, <1>4, <1>5 DEF IInv

(* Without a peer data joins the cache; with one the mutex has made sure   *)
(* that the cache was written before.                                      *)
LEMMA OnDataForwardStep == ASSUME IInv, OnDataForward PROVE IInv'
<1>1. /\ UNCHANGED <<phase, round, written, read, srcOpen, dial, dst>>
      /\ sess.mux = "onData" /\ data' = <<>>
  BY DEF OnDataForward, client
<1>2. <<>> \in Stream
  BY Empty
<1>3. CASE ~sess.peer
  <2>1. sess' = [sess EXCEPT !.cache = @ \o data, !.mux = "free"] /\ net' = net
    BY <1>3 DEF OnDataForward
  <2>2. sess.cache \o data \in Stream
    BY Parts, Concat DEF IInv
  <2>3. /\ sess'.cache = sess.cache \o data
        /\ sess'.peer = sess.peer /\ sess'.mux = "free"
    BY <2>1 DEF IInv, TypeOK
  <2>4. TypeOK'
    BY <1>1, <1>2, <2>1, <2>2, ZenonT(40) DEF IInv, TypeOK
  <2>5. CallbackProgress'
    BY <1>1, <1>3, <2>1, <2>3 DEF IInv, CallbackProgress
  <2>6. StreamIntact'
    <3> DEFINE x == read \o net.toClient \o net.fromServer \o net.toServer
    <3>1. x \in Stream /\ sess.cache \in Stream /\ data \in Stream
      BY Parts DEF IInv
    <3>2. x \o (sess.cache \o data) \o <<>> = x \o sess.cache \o data
      BY <3>1, Merge, ZenonT(40)
    <3>3. QED
      BY <1>1, <2>1, <2>3, <3>2 DEF IInv, StreamIntact
  <2>7. QED
    BY <2>4, <2>5, <2>6 DEF IInv
<1>4. CASE sess.peer
  <2>1. /\ sess' = [sess EXCEPT !.mux = "free"]
        /\ net' = [net EXCEPT !.toServer = @ \o data]
    BY <1>4 DEF OnDataForward
  <2>2. net.toServer \o data \in Stream
    BY Parts, Concat DEF IInv, Legs
  <2>3. /\ net'.toServer = net.toServer \o data
        /\ \A leg \in Legs \ {"toServer"} : net'[leg] = net[leg]
        /\ net' \in [Legs -> Stream]
    BY <2>1, <2>2 DEF IInv, TypeOK, Legs
  <2>4. sess'.cache = sess.cache /\ sess'.peer = sess.peer /\ sess'.mux = "free"
    BY <2>1 DEF IInv, TypeOK
  <2>5. dial = "done" /\ sess.cache = <<>>
    BY <1>1, <1>4 DEF IInv, CallbackProgress
  <2>6. TypeOK'
    BY <1>1, <1>2, <2>1, <2>3 DEF IInv, TypeOK
  <2>7. CallbackProgress'
    BY <1>1, <2>3, <2>4, <2>5 DEF IInv, CallbackProgress, Legs
  <2>8. StreamIntact'
    <3> DEFINE x == read \o net.toClient \o net.fromServer
    <3>1. x \in Stream /\ net.toServer \in Stream /\ data \in Stream
      BY Parts DEF IInv, Legs
    <3>2. x \o (net.toServer \o data) \o <<>> = x \o net.toServer \o data
      BY <3>1, Merge, ZenonT(40)
    <3>3. x \o (net.toServer \o data) \o <<>> \o <<>> = x \o net.toServer \o <<>> \o data
      <4>1. x \o net.toServer \in Stream /\ x \o net.toServer \o data \in Stream
        BY <3>1, Concat
      <4>2. QED
        BY <3>2, <4>1, Empty
    <3>4. QED
      BY <1>1, <2>3, <2>4, <2>5, <3>3 DEF IInv, StreamIntact, Legs
  <2>9. QED
    BY <2>6, <2>7, <2>8 DEF IInv
<1>5. QED
  BY <1>3, <1>4

(* Bytes come back only after the callback has finished, so the            *)
(* destination has its session.                                            *)
LEMMA OnDataDstStep == ASSUME IInv, OnDataDst PROVE IInv'
<1>1. PICK p \in Prefixes(net.fromServer) :
         LET left == [net EXCEPT !.fromServer = Rest(@, p)]
         IN  dst.session = "peer" =>
               /\ net' = IF srcOpen THEN [left EXCEPT !.toClient = @ \o p] ELSE left
               /\ UNCHANGED dst
  BY DEF OnDataDst
<1>2. UNCHANGED <<phase, round, written, read, srcOpen, dial, sess, data>>
  BY DEF OnDataDst, client
<1>3. /\ p \in Stream /\ Rest(net.fromServer, p) \in Stream
      /\ p \o Rest(net.fromServer, p) = net.fromServer
      /\ net.fromServer # <<>>
  BY Parts, PrefixAndRest DEF IInv, Legs
<1>4. dial = "done" /\ dst.session = "peer"
  BY <1>3 DEF IInv, CallbackProgress
<1>5. dst' = dst
  BY <1>1, <1>4
<1>6. CASE srcOpen
  <2>1. net.toClient \o p \in Stream
    BY <1>3, Parts, Concat DEF IInv, Legs
  <2>2. /\ net'.fromServer = Rest(net.fromServer, p)
        /\ net'.toClient = net.toClient \o p
        /\ \A leg \in Legs \ {"fromServer", "toClient"} : net'[leg] = net[leg]
        /\ net' \in [Legs -> Stream]
    BY <1>1, <1>3, <1>4, <1>6, <2>1, ZenonT(40) DEF IInv, TypeOK, Legs
  <2>3. TypeOK'
    BY <1>2, <1>5, <2>2, ZenonT(40) DEF IInv, TypeOK
  <2>4. CallbackProgress'
    BY <1>2, <1>4, <1>5, <1>6 DEF IInv, CallbackProgress
  <2>5. StreamIntact'
    <3> DEFINE left == Rest(net.fromServer, p)
    <3>1. read \in Stream /\ net.toClient \in Stream /\ left \in Stream
      BY <1>3, Parts DEF IInv, Legs
    <3>2. read \o (net.toClient \o p) \o left = read \o net.toClient \o (p \o left)
      <4>1. MovesChunk(read, net.toClient, p, left)
        BY <1>3, <3>1, MoveChunk
      <4>2. QED
        BY <4>1, Zenon DEF MovesChunk
    <3>3. (read \o net.toClient \o net.fromServer)' = read \o net.toClient \o net.fromServer
      BY <1>2, <1>3, <2>2, <3>2
    <3>4. QED
      BY <1>2, <2>2, <3>3 DEF IInv, StreamIntact, Legs
  <2>6. QED
    BY <2>3, <2>4, <2>5 DEF IInv
<1>7. CASE ~srcOpen
  <2>1. /\ net'.toClient = net.toClient
        /\ net' \in [Legs -> Stream]
    BY <1>1, <1>3, <1>4, <1>7, ZenonT(40) DEF IInv, TypeOK, Legs
  <2>2. TypeOK'
    BY <1>2, <1>5, <2>1, ZenonT(40) DEF IInv, TypeOK
  <2>3. CallbackProgress'
    BY <1>2, <1>4, <1>5, <2>1 DEF IInv, CallbackProgress
  <2>4. QED
    BY <1>2, <1>7, <2>2, <2>3 DEF IInv, StreamIntact
<1>8. QED
  BY <1>6, <1>7 DEF IInv, TypeOK

LEMMA ServerStep == ASSUME IInv, ServerEcho PROVE IInv'
<1>1. PICK p \in Prefixes(net.toServer) :
         net' = [net EXCEPT !.toServer = Rest(@, p), !.fromServer = @ \o p]
  BY DEF ServerEcho
<1>2. UNCHANGED <<phase, round, written, read, srcOpen, dial, sess, data, dst>>
  BY DEF ServerEcho, client, proxy
<1>3. /\ p \in Stream /\ Rest(net.toServer, p) \in Stream
      /\ p \o Rest(net.toServer, p) = net.toServer
      /\ net.toServer # <<>>
  BY Parts, PrefixAndRest DEF IInv, Legs
<1>4. net.fromServer \o p \in Stream
  BY <1>3, Parts, Concat DEF IInv, Legs
<1>5. /\ net'.toServer = Rest(net.toServer, p)
      /\ net'.fromServer = net.fromServer \o p
      /\ \A leg \in Legs \ {"fromServer", "toServer"} : net'[leg] = net[leg]
      /\ net' \in [Legs -> Stream]
  BY <1>1, <1>3, <1>4 DEF IInv, TypeOK, Legs
<1>6. TypeOK'
  BY <1>2, <1>5, ZenonT(40) DEF IInv, TypeOK
<1>7. dial = "done"
  BY <1>3 DEF IInv, CallbackProgress
<1>8. CallbackProgress'
  BY <1>2, <1>5, <1>7 DEF IInv, CallbackProgress, Legs
<1>9. StreamIntact'
  <2> DEFINE x == read \o net.toClient
             left == Rest(net.toServer, p)
  <2>1. x \in Stream /\ net.fromServer \in Stream /\ left \in Stream
    BY <1>3, Parts DEF IInv, Legs
  <2>2. x \o (net.fromServer \o p) \o left = x \o net.fromServer \o (p \o left)
    <3>1. MovesChunk(x, net.fromServer, p, left)
      BY <1>3, <2>1, MoveChunk
    <3>2. QED
      BY <3>1, Zenon DEF MovesChunk
  <2>3. x' = x
    BY <1>2, <1>5 DEF Legs
  <2>4. (x \o net.fromServer \o net.toServer)' = x \o net.fromServer \o net.toServer
    BY <1>3, <1>5, <2>2, <2>3
  <2>5. QED
    BY <1>2, <1>5, <2>4 DEF IInv, StreamIntact, Legs
<1>10. QED
  BY <1>6, <1>8, <1>9 DEF IInv

LEMMA StepIInv == IInv /\ [Next]_vars => IInv'
<1> SUFFICES ASSUME IInv, [Next]_vars PROVE IInv'
  OBVIOUS
<1>1. CASE Next
  BY <1>1, WriteStep, ReadStep, EndStep, DialStep, FlushStep, OnDataSrcStep,
     OnDataLockStep, OnDataForwardStep, OnDataDstStep, ServerStep, Zenon
     DEF Next, ClientStep, Callback
<1>2. CASE UNCHANGED vars
  <2>1. UNCHANGED <<phase, round, written, read, net, srcOpen, dial, sess, data, dst>>
    BY <1>2 DEF vars, client, proxy
  <2>2. QED
    BY <2>1, ZenonT(40) DEF IInv, TypeOK, CallbackProgress, StreamIntact
<1>3. QED
  BY <1>1, <1>2

-----------------------------------------------------------------------------
(* The invariant of the forwarder's client, connections and callbacks.      *)
THEOREM Invariance == Spec => []IInv
  BY InitIInv, StepIInv, PTL DEF Spec

(* The variables keep their types: the client never starts a round it does *)
(* not have, bytes on every leg are bytes the client writes.               *)
THEOREM ForwardTypeCorrect == Spec => []TypeOK
<1>1. IInv => TypeOK
  BY DEF IInv
<1>2. QED
  BY <1>1, Invariance, PTL

(* No byte is lost, duplicated or overtaken between the client's Write and *)
(* its Read while the proxy keeps the source connection, for any number of *)
(* rounds, message length and chunking.                                    *)
THEOREM StreamStaysIntact == Spec => []StreamIntact
<1>1. IInv => StreamIntact
  BY DEF IInv
<1>2. QED
  BY <1>1, Invariance, PTL

(* The destination's OnData never takes the branch for a connection        *)
(* without a session.                                                      *)
THEOREM DestinationKnown == Spec => []DstHasSession
<1>1. IInv => DstHasSession
  BY DEF IInv, CallbackProgress, DstHasSession
<1>2. QED
  BY <1>1, Invariance, PTL

(* The forwarder implements the echo stream: the client reads what it      *)
(* wrote, in order, each byte once.                                        *)
THEOREM ImplementsEcho == Spec => EchoSpec
<1>1. Init => Echo!Init
  BY DEF Init, Echo!Init
<1>2. ASSUME IInv, [Next]_vars PROVE [Echo!Next]_(Echo!vars)
  <2>1. CASE ClientWrite
    <3>1. round \in 1..Rounds /\ Message(round) \in Stream /\ Len(Message(round)) = MessageLen
      BY <1>2, MessageIsStream DEF IInv, TypeOK
    <3>2. written' = written \o Message(round) /\ read' = read /\ written \in Stream
      BY <1>2, <2>1 DEF ClientWrite, IInv, TypeOK
    <3>3. /\ written' \in Stream
          /\ Len(written') > Len(written)
          /\ SubSeq(written', 1, Len(written)) = written
      BY <3>1, <3>2, Concat
    <3>4. QED
      BY <3>2, <3>3 DEF Echo!Next, Echo!Write, Stream
  <2>2. CASE ClientRead
    <3>1. PICK p \in Prefixes(net.toClient) :
             /\ read' = read \o p
             /\ net' = [net EXCEPT !.toClient = Rest(@, p)]
      BY <2>2 DEF ClientRead, ReadSome
    <3>2. /\ p \in Stream /\ Len(p) > 0 /\ net.toClient # <<>>
      BY <1>2, <3>1, Parts, PrefixAndRest DEF IInv, Legs
    <3>3. srcOpen /\ phase = "read" /\ written' = written
      BY <1>2, <2>2, <3>2 DEF IInv, TypeOK, CallbackProgress, ClientRead, ReadSome
    <3>4. IInv'
      BY <1>2, <2>2, ReadStep
    <3>5. srcOpen'
      BY <2>2, <3>3 DEF ClientRead, ReadSome, proxy
    <3>6. PICK s \in Stream : read' \o s = written'
      <4>1. /\ read' \in Stream /\ data' \in Stream /\ sess'.cache \in Stream
            /\ net'.toClient \in Stream /\ net'.fromServer \in Stream
            /\ net'.toServer \in Stream /\ net'.toProxy \in Stream
        BY <3>4 DEF IInv, TypeOK, Legs
      <4>2. read' \o net'.toClient \o net'.fromServer \o net'.toServer
                  \o sess'.cache \o data' \o net'.toProxy = written'
        BY <3>4, <3>5 DEF IInv, StreamIntact
      <4>3. StartsWith(read' \o net'.toClient \o net'.fromServer \o net'.toServer
                           \o sess'.cache \o data' \o net'.toProxy, read')
        BY <4>1, StartOfPipe
      <4>4. QED
        BY <4>2, <4>3 DEF StartsWith
    <3>7. /\ SubSeq(read' \o s, 1, Len(read')) = read'
          /\ Len(read' \o s) = Len(read') + Len(s)
          /\ Len(read') = Len(read) + Len(p)
          /\ Len(read) \in Nat /\ Len(p) \in Nat /\ Len(s) \in Nat
      <4>1. read \in Stream /\ read' \in Stream
        BY <1>2, <3>4 DEF IInv, TypeOK
      <4>2. QED
        BY <3>1, <3>2, <3>6, <4>1, Concat
    <3>8. Len(read') \in (Len(read) + 1)..Len(written)
      BY <3>2, <3>3, <3>6, <3>7
    <3>9. read' = SubSeq(written, 1, Len(read'))
      BY <3>3, <3>6, <3>7
    <3>10. QED
      BY <3>3, <3>8, <3>9 DEF Echo!Next, Echo!Read
  <2>3. CASE UNCHANGED <<written, read>>
    BY <2>3 DEF Echo!vars
  <2>4. QED
    BY <1>2, <2>1, <2>2, <2>3 DEF Next, ClientStep, ClientFails, ClientKilled,
       SrcGone, OnOpen, DialEnds, DialFails, DialConnects, Callback,
       SetDstSession, LockSession, PublishPeer, FlushCache, OnDataSrc,
       OnDataLock, OnDataForward, OnDataDst, ServerEcho, vars, client
<1>3. QED
  BY <1>1, <1>2, Invariance, PTL DEF Spec, EchoSpec, Echo!Spec
==============================================================================
