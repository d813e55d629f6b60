---------------------------- MODULE TunnelsMC_proofs ----------------------------
(***************************************************************************)
(* Proofs about the programs between a client and a server, for every      *)
(* value of their constants: the websocket proxies and the sticky tunnel   *)
(* keep their streams intact and implement the abstract stream, the tasks  *)
(* of the sticky client get an answer each.  What TrafficForward_proofs    *)
(* proves of the forwarder holds of the composition too.                   *)
(***************************************************************************)
EXTENDS TunnelsMC, TrafficForward_proofs, FiniteSetTheorems

-----------------------------------------------------------------------------
(* A pipe: what has arrived, three legs or buffers on the way and what is  *)
(* still to set out, in the order in which it was written.                 *)
Pipe(a, b, c, d, e) == a \o b \o c \o d \o e

(* The parts of a pipe, and a part more.                                   *)
PipeParts(S, a, b, c, d, e, p) ==
    a \in Seq(S) /\ b \in Seq(S) /\ c \in Seq(S) /\ d \in Seq(S) /\ e \in Seq(S) /\ p \in Seq(S)

(* w begins with x. *)
Begins(x, w, S) == x \in Seq(S) /\ w \in Seq(S) /\ \E s \in Seq(S) : x \o s = w

(* Named, for the provers to find their instances by. *)
Assoc(x, y, z) == (x \o y) \o z = x \o (y \o z)
Follows(a, b, c, d, e) == Pipe(a, b, c, d, e) = a \o Pipe(<<>>, b, c, d, e)
PipeSum(a, b, c, d, e) == Len(Pipe(a, b, c, d, e)) = Len(a) + Len(b) + Len(c) + Len(d) + Len(e)
Grows(a, b, c, d, e, p) == Pipe(a, b, c, d, e \o p) = Pipe(a, b, c, d, e) \o p
Shifts(x, y, p, r) == (x \o (y \o p)) \o r = (x \o y) \o (p \o r)

(* Concatenation is associative,                                           *)
LEMMA SeqsAssociate ==
    ASSUME NEW S, NEW x \in Seq(S), NEW y \in Seq(S), NEW z \in Seq(S)
    PROVE  Assoc(x, y, z)
  BY ConcatAssociative DEF Assoc

(* keeps the elements and adds the lengths, and <<>> is neutral.           *)
LEMMA SeqsJoin ==
    ASSUME NEW S, NEW x \in Seq(S), NEW y \in Seq(S)
    PROVE  /\ x \o y \in Seq(S) /\ Len(x) \in Nat /\ Len(x \o y) = Len(x) + Len(y)
           /\ x \o <<>> = x /\ <<>> \o x = x /\ <<>> \in Seq(S)
  BY ConcatEmptySeq

(* The parts of an empty sequence are empty.                               *)
LEMMA EmptyJoin ==
    ASSUME NEW S, NEW x \in Seq(S), NEW y \in Seq(S), Len(x \o y) = 0
    PROVE  x = <<>> /\ y = <<>>
<1>1. Len(x) + Len(y) = 0 /\ Len(x) \in Nat /\ Len(y) \in Nat
  BY SeqsJoin
<1>2. Len(x) = 0 /\ Len(y) = 0
  BY <1>1
<1>3. QED
  BY <1>2

(* A sequence of messages is its first message and the others.             *)
LEMMA HeadAndTail ==
    ASSUME NEW S, NEW s \in Seq(S), s # <<>>
    PROVE  /\ Head(s) \in S /\ <<Head(s)>> \in Seq(S) /\ Tail(s) \in Seq(S)
           /\ <<Head(s)>> \o Tail(s) = s
<1>1. Head(s) \in S /\ Tail(s) \in Seq(S) /\ Len(Tail(s)) = Len(s) - 1 /\ Len(s) \in Nat \ {0}
      /\ \A i \in 1..Len(Tail(s)) : Tail(s)[i] = s[i + 1]
  BY HeadTailProperties
<1>2. <<Head(s)>> \in Seq(S) /\ Len(<<Head(s)>>) = 1 /\ <<Head(s)>>[1] = s[1]
  BY <1>1
<1>3. <<Head(s)>> \o Tail(s) \in Seq(S) /\ Len(<<Head(s)>> \o Tail(s)) = Len(s)
  BY <1>1, <1>2
<1>4. \A i \in 1..Len(s) : (<<Head(s)>> \o Tail(s))[i] = s[i]
  BY <1>1, <1>2, ConcatProperties
<1>5. QED
  BY <1>1, <1>2, <1>3, <1>4, SeqEqual

(* A message more: it comes at the end.                                    *)
LEMMA OneMore ==
    ASSUME NEW S, NEW s \in Seq(S), NEW m \in S
    PROVE  /\ <<m>> \in Seq(S) /\ Append(s, m) = s \o <<m>> /\ s \o <<m>> \in Seq(S)
           /\ Len(s) \in Nat /\ Len(s \o <<m>>) = Len(s) + 1
           /\ (s \o <<m>>)[Len(s) + 1] = m /\ \A i \in 1..Len(s) : (s \o <<m>>)[i] = s[i]
<1>1. <<m>> \in Seq(S) /\ Append(s, m) = s \o <<m>>
  BY AppendIsConcat
<1>2. /\ Append(s, m) \in Seq(S) /\ Len(s) \in Nat /\ Len(Append(s, m)) = Len(s) + 1
      /\ Append(s, m)[Len(s) + 1] = m /\ \A i \in 1..Len(s) : Append(s, m)[i] = s[i]
  BY AppendProperties
<1>3. QED
  BY <1>1, <1>2, Zenon

(* p goes from the head of one part to the end of the part before it.      *)
LEMMA PartShifts ==
    ASSUME NEW S, NEW x \in Seq(S), NEW y \in Seq(S), NEW p \in Seq(S), NEW r \in Seq(S)
    PROVE  Shifts(x, y, p, r)
<1>1. Assoc(x, y, p)
  BY SeqsAssociate
<1>2. x \o y \in Seq(S)
  BY SeqsJoin
<1> DEFINE xy == x \o y
<1>3. xy \in Seq(S)
  BY <1>2
<1> HIDE DEF xy
<1>4. Assoc(xy, p, r)
  BY <1>3, SeqsAssociate
<1>5. QED
  BY <1>1, <1>4, Zenon DEF Assoc, Shifts, xy

(* The pipe as a whole is a sequence,                                      *)
LEMMA PipeJoins ==
    ASSUME NEW S, NEW a \in Seq(S), NEW b \in Seq(S), NEW c \in Seq(S), NEW d \in Seq(S), NEW e \in Seq(S)
    PROVE  /\ a \o b \in Seq(S) /\ a \o b \o c \in Seq(S) /\ a \o b \o c \o d \in Seq(S)
           /\ Pipe(a, b, c, d, e) \in Seq(S)
           /\ Len(Pipe(a, b, c, d, e)) = Len(a) + Len(b) + Len(c) + Len(d) + Len(e)
<1>1. a \o b \in Seq(S) /\ Len(a \o b) = Len(a) + Len(b)
  BY SeqsJoin
<1>2. a \o b \o c \in Seq(S) /\ Len(a \o b \o c) = Len(a) + Len(b) + Len(c)
  BY <1>1
<1>3. a \o b \o c \o d \in Seq(S) /\ Len(a \o b \o c \o d) = Len(a) + Len(b) + Len(c) + Len(d)
  BY <1>2
<1>4. a \o b \o c \o d \o e \in Seq(S) /\ Len(a \o b \o c \o d \o e) = Len(a) + Len(b) + Len(c) + Len(d) + Len(e)
  BY <1>3
<1>5. QED
  BY <1>1, <1>2, <1>3, <1>4, Zenon DEF Pipe

(* which stays what it is when p moves on from one part to the next,       *)
LEMMA PipeMoves ==
    ASSUME NEW S, NEW a, NEW b, NEW c, NEW d, NEW e, NEW p, PipeParts(S, a, b, c, d, e, p)
    PROVE  /\ Pipe(a \o p, b, c, d, e) = Pipe(a, p \o b, c, d, e)
           /\ Pipe(a, b \o p, c, d, e) = Pipe(a, b, p \o c, d, e)
           /\ Pipe(a, b, c \o p, d, e) = Pipe(a, b, c, p \o d, e)
           /\ Pipe(a, b, c, d \o p, e) = Pipe(a, b, c, d, p \o e)
<1>0. a \in Seq(S) /\ b \in Seq(S) /\ c \in Seq(S) /\ d \in Seq(S) /\ e \in Seq(S) /\ p \in Seq(S)
  BY DEF PipeParts
<1> USE <1>0
<1>1. Assoc(a, p, b)
  BY SeqsAssociate
<1>2. Shifts(a, b, p, c)
  BY PartShifts
<1> DEFINE ab == a \o b
           abc == ab \o c
<1>3. ab \in Seq(S)
  BY SeqsJoin
<1> HIDE DEF ab
<1>4. abc \in Seq(S)
  BY <1>3, SeqsJoin
<1> HIDE DEF abc
<1>5. Shifts(ab, c, p, d)
  BY <1>3, PartShifts
<1>6. Shifts(abc, d, p, e)
  BY <1>4, PartShifts
<1>7. Pipe(a \o p, b, c, d, e) = Pipe(a, p \o b, c, d, e)
  BY <1>1, Zenon DEF Pipe, Assoc
<1>8. Pipe(a, b \o p, c, d, e) = Pipe(a, b, p \o c, d, e)
  BY <1>2, Zenon DEF Pipe, Shifts
<1>9. Pipe(a, b, c \o p, d, e) = Pipe(a, b, c, p \o d, e)
  BY <1>5, Zenon DEF Pipe, Shifts, ab
<1>10. Pipe(a, b, c, d \o p, e) = Pipe(a, b, c, d, p \o e)
  BY <1>6, Zenon DEF Pipe, Shifts, ab, abc
<1>11. QED
  BY <1>7, <1>8, <1>9, <1>10

(* grows at its end, and begins with what has arrived and what is about to.*)
LEMMA PipeEnds ==
    ASSUME NEW S, NEW a, NEW b, NEW c, NEW d, NEW e, NEW p, PipeParts(S, a, b, c, d, e, p)
    PROVE  Grows(a, b, c, d, e, p) /\ Begins(a \o b, Pipe(a, b, c, d, e), S)
<1>0. a \in Seq(S) /\ b \in Seq(S) /\ c \in Seq(S) /\ d \in Seq(S) /\ e \in Seq(S) /\ p \in Seq(S)
  BY DEF PipeParts
<1> USE <1>0
<1> DEFINE ab == a \o b
           abc == ab \o c
           abcd == abc \o d
<1>1. ab \in Seq(S) /\ abc \in Seq(S) /\ abcd \in Seq(S) /\ Pipe(a, b, c, d, e) \in Seq(S)
  BY PipeJoins
<1>2. Pipe(a, b, c, d, e) = abcd \o e
  BY DEF Pipe
<1>3. Pipe(a, b, c, d, e \o p) = abcd \o (e \o p)
  BY DEF Pipe
<1> HIDE DEF abcd
<1>4. Assoc(abcd, e, p)
  BY <1>1, SeqsAssociate
<1>5. Pipe(a, b, c, d, e \o p) = Pipe(a, b, c, d, e) \o p
  BY <1>2, <1>3, <1>4, Zenon DEF Assoc
<1> HIDE DEF abc
<1>6. Assoc(abc, d, e)
  BY <1>1, SeqsAssociate
<1> DEFINE de == d \o e
<1>7. de \in Seq(S)
  BY SeqsJoin
<1> HIDE DEF de, ab
<1>8. Assoc(ab, c, de)
  BY <1>1, <1>7, SeqsAssociate
<1>9. c \o de \in Seq(S)
  BY <1>7, SeqsJoin
<1>10. ab \o (c \o de) = Pipe(a, b, c, d, e)
  BY <1>2, <1>6, <1>8, Zenon DEF Assoc, abc, abcd, de
<1>11. Begins(ab, Pipe(a, b, c, d, e), S)
  BY <1>1, <1>9, <1>10 DEF Begins
<1>12. QED
  BY <1>5, <1>11, Zenon DEF ab, Grows

(* Its length is the sum of theirs.                                        *)
LEMMA PipeLength ==
    ASSUME NEW S, NEW a, NEW b, NEW c, NEW d, NEW e, NEW p, PipeParts(S, a, b, c, d, e, p)
    PROVE  PipeSum(a, b, c, d, e)
<1>1. a \in Seq(S) /\ b \in Seq(S) /\ c \in Seq(S) /\ d \in Seq(S) /\ e \in Seq(S)
  BY DEF PipeParts
<1>2. Len(Pipe(a, b, c, d, e)) = Len(a) + Len(b) + Len(c) + Len(d) + Len(e)
  BY <1>1, PipeJoins
<1>3. QED
  BY <1>2 DEF PipeSum

(* What begins a beginning is one, and a beginning stays one when more is  *)
(* written.                                                                *)
LEMMA BeginsOn ==
    ASSUME NEW S, NEW x \in Seq(S), NEW y \in Seq(S), NEW w \in Seq(S), NEW z \in Seq(S)
    PROVE  /\ Begins(x \o y, w, S) => Begins(x, w, S)
           /\ Begins(x, w, S) => Begins(x, w \o z, S)
           /\ Begins(x, w, S) => Len(x) =< Len(w) /\ SubSeq(w, 1, Len(x)) = x
           /\ Begins(x, x, S)
<1>1. ASSUME Begins(x \o y, w, S) PROVE Begins(x, w, S)
  <2>1. PICK s \in Seq(S) : (x \o y) \o s = w
    BY <1>1 DEF Begins
  <2>2. y \o s \in Seq(S)
    BY SeqsJoin
  <2>3. Assoc(x, y, s)
    BY SeqsAssociate
  <2>4. QED
    BY <2>1, <2>2, <2>3 DEF Begins, Assoc
<1>2. ASSUME Begins(x, w, S) PROVE Begins(x, w \o z, S)
  <2>1. PICK s \in Seq(S) : x \o s = w
    BY <1>2 DEF Begins
  <2>2. s \o z \in Seq(S) /\ w \o z \in Seq(S)
    BY SeqsJoin
  <2>3. Assoc(x, s, z)
    BY SeqsAssociate
  <2>4. QED
    BY <2>1, <2>2, <2>3 DEF Begins, Assoc
<1>3. ASSUME Begins(x, w, S) PROVE Len(x) =< Len(w) /\ SubSeq(w, 1, Len(x)) = x
  <2>1. PICK s \in Seq(S) : x \o s = w
    BY <1>3 DEF Begins
  <2>2. Len(w) = Len(x) + Len(s) /\ Len(x) \in Nat /\ Len(s) \in Nat
    BY <2>1
  <2>3. SubSeq(w, 1, Len(x)) \in Seq(S) /\ Len(SubSeq(w, 1, Len(x))) = Len(x)
    BY <2>2
  <2>4. \A i \in 1..Len(x) : SubSeq(w, 1, Len(x))[i] = x[i]
    BY <2>1, <2>2
  <2>5. QED
    BY <2>2, <2>3, <2>4, SeqEqual
<1>4. Begins(x, x, S)
  BY SeqsJoin DEF Begins
<1>5. QED
  BY <1>1, <1>2, <1>3, <1>4

-----------------------------------------------------------------------------
(* WsProxy: how far onWebsocket is tells which connections there are, and  *)
(* that nothing has gone beyond the proxy before both sessions are set.    *)
WsLinked ==
    /\ wsHandler = "idle" => wsPhase = "dial"
    /\ wsPhase = "dial" => wsSent = <<>> /\ received = <<>> /\ wsNet.toProxy = <<>>
    /\ wsHandler = "failed" => wsConn.src # "open"
    /\ wsConn.dst = "none" <=> wsHandler \in {"idle", "upgraded", "failed"}
    /\ wsSession.src <=> wsHandler \in {"linking", "done"}
    /\ wsSession.dst <=> wsHandler = "done"
    /\ wsHandler # "done" => wsNet.toApp = <<>> /\ wsNet.fromApp = <<>> /\ wsNet.toClient = <<>>

(* Types; the client never gets a wrong answer.                            *)
WsShape ==
    /\ wsPhase \in {"dial", "write", "read", "done", "failed"}
    /\ wsSent \in Seq(WsMessages) /\ received \in Seq(WsMessages)
    /\ wsNet \in [WsLegs -> Seq(WsMessages)]
    /\ wsHandler \in {"idle", "upgraded", "dialed", "linking", "done", "failed"}
    /\ wsConn \in [WsConns -> {"none", "open", "closing", "closed", "alone"}]
    /\ wsSession \in [WsConns -> BOOLEAN]

(* The client's loop: it sends a request when the one before is answered.  *)
WsLoop ==
    /\ wsPhase \in {"dial", "write"} => Len(wsSent) < 2 * WsRounds
    /\ wsPhase \in {"dial", "write", "done"} => Len(received) = Len(wsSent)
    /\ wsPhase = "read" => Len(received) + 1 = Len(wsSent)
    /\ \A i \in 1..Len(wsSent) : wsSent[i] = Request(i)

(* What the client has, and what it still reads when a connection has      *)
(* broken, is the beginning of what it has sent.                           *)
WsAnswered == Begins(received \o wsNet.toClient, wsSent, WsMessages)

WsIInv == WsShape /\ WsLinked /\ WsLoop /\ WsAnswered /\ NothingDropped

(* NothingDropped speaks of a pipe. *)
LEMMA WsPipe ==
    NothingDropped <=> (WsUp("src") /\ (WsUp("dst") \/ wsConn.dst = "none") =>
        Pipe(received, wsNet.toClient, wsNet.fromApp, wsNet.toApp, wsNet.toProxy) = wsSent)
  BY Zenon DEF NothingDropped, Pipe

(* The two connections are each other's peer.                              *)
LEMMA WsPeers == WsPeer("src") = "dst" /\ WsPeer("dst") = "src" /\ WsConns = {"src", "dst"}
  BY DEF WsPeer, WsConns

(* A request within the client's loop is a message.                        *)
LEMMA RequestIsMessage ==
    ASSUME NEW k \in Nat, k < 2 * WsRounds
    PROVE  Request(k + 1) \in WsMessages
<1>1. (k + 1 + 1) \div 2 \in 1..WsRounds
  BY RoundsIsPositive
<1>2. (IF (k + 1) % 2 = 1 THEN "binary" ELSE "text") \in {"binary", "text"}
  OBVIOUS
<1>3. QED
  BY <1>1, <1>2 DEF Request, WsMessages

(* The parts of the pipe are sequences of messages.                        *)
LEMMA WsParts ==
    ASSUME WsShape
    PROVE  /\ received \in Seq(WsMessages) /\ wsSent \in Seq(WsMessages)
           /\ wsNet.toClient \in Seq(WsMessages) /\ wsNet.fromApp \in Seq(WsMessages)
           /\ wsNet.toApp \in Seq(WsMessages) /\ wsNet.toProxy \in Seq(WsMessages)
           /\ DOMAIN wsNet = WsLegs
  BY DEF WsShape, WsLegs

(* Nothing has been written.                                               *)
LEMMA WsInitial == WsInit => WsIInv
<1> SUFFICES ASSUME WsInit PROVE WsIInv
  OBVIOUS
<1>1. <<>> \in Seq(WsMessages) /\ Len(<<>>) = 0 /\ <<>> \o <<>> = <<>>
  BY EmptySeq, SeqsJoin
<1>2. WsShape
  BY <1>1 DEF WsInit, WsShape, WsLegs, WsConns
<1>3. WsLinked
  BY DEF WsInit, WsLinked, WsLegs, WsConns
<1>4. WsLoop
  BY <1>1, RoundsIsPositive DEF WsInit, WsLoop
<1>5. WsAnswered
  BY <1>1 DEF WsInit, WsAnswered, Begins, WsLegs
<1>6. NothingDropped
  BY <1>1 DEF WsInit, NothingDropped, WsUp, WsConns
<1>7. QED
  BY <1>2, <1>3, <1>4, <1>5, <1>6 DEF WsIInv

(* The client dials, fails or leaves: no message moves.                    *)
LEMMA WsClientRestStep == WsIInv /\ (WsClientDialed \/ WsClientFails \/ WsClientLeaves) => WsIInv'
<1> SUFFICES ASSUME WsIInv, WsClientDialed \/ WsClientFails \/ WsClientLeaves PROVE WsIInv'
  OBVIOUS
<1>0. WsShape /\ WsLinked /\ WsLoop /\ WsAnswered /\ NothingDropped
  BY DEF WsIInv
<1>1. CASE WsClientDialed
  BY <1>0, <1>1 DEF WsClientDialed, WsIInv, WsShape, WsLinked, WsLoop, WsAnswered, NothingDropped, WsUp
<1>2. CASE WsClientFails
  BY <1>0, <1>2 DEF WsClientFails, WsIInv, WsShape, WsLinked, WsLoop, WsAnswered, NothingDropped, WsUp
<1>3. CASE WsClientLeaves
  <2>1. /\ wsConn' = [wsConn EXCEPT !["src"] = "closing"] /\ wsNet' = [wsNet EXCEPT !["toClient"] = <<>>]
        /\ UNCHANGED <<wsSent, received, wsHandler, wsSession>>
        /\ wsPhase # "dial" /\ wsPhase' \in {wsPhase, "failed"} /\ wsConn.src = "open"
    BY <1>3 DEF WsClientLeaves, WsClose, WsUp
  <2>2. <<>> \in Seq(WsMessages)
    BY EmptySeq
  <2>3. WsShape'
    BY <1>0, <2>1, <2>2 DEF WsShape, WsLegs, WsConns
  <2>4. WsLinked'
    BY <1>0, <2>1 DEF WsShape, WsLinked, WsLegs, WsConns
  <2>5. WsLoop'
    BY <1>0, <2>1 DEF WsLoop
  <2>6. WsAnswered'
    <3>1. received \o wsNet'.toClient = received /\ wsSent' = wsSent /\ received' = received
      BY <1>0, <2>1, WsParts, SeqsJoin DEF WsLegs
    <3>2. Begins(received, wsSent, WsMessages)
      BY <1>0, WsParts, BeginsOn DEF WsAnswered
    <3>3. QED
      BY <3>1, <3>2 DEF WsAnswered
  <2>7. NothingDropped'
    BY <1>0, <2>1 DEF NothingDropped, WsUp, WsShape, WsConns
  <2>8. QED
    BY <2>3, <2>4, <2>5, <2>6, <2>7 DEF WsIInv
<1>4. QED
  BY <1>1, <1>2, <1>3

(* The client's next request goes to the end of the pipe.                  *)
LEMMA WsWriteStep == WsIInv /\ WsClientWrite => WsIInv' /\ WsEcho!Write
<1> SUFFICES ASSUME WsIInv, WsClientWrite PROVE WsIInv' /\ WsEcho!Write
  OBVIOUS
<1>0. WsShape /\ WsLinked /\ WsLoop /\ WsAnswered /\ NothingDropped
  BY DEF WsIInv
<1> DEFINE m == Request(Len(wsSent) + 1)
<1>1. m \in WsMessages /\ Len(wsSent) \in Nat
  BY <1>0, WsParts, RequestIsMessage DEF WsClientWrite, WsLoop
<1>2. /\ wsPhase = "write" /\ wsPhase' = "read" /\ wsSent' = Append(wsSent, m)
      /\ UNCHANGED <<received, wsHandler, wsConn, wsSession>>
      /\ wsNet' = IF wsConn.src = "open" THEN [wsNet EXCEPT !["toProxy"] = Append(@, m)] ELSE wsNet
  BY DEF WsClientWrite, WsUp
<1> HIDE DEF m
<1>a. wsSent \in Seq(WsMessages) /\ wsNet.toProxy \in Seq(WsMessages) /\ m \in WsMessages
  BY <1>0, <1>1, WsParts
<1>b. /\ <<m>> \in Seq(WsMessages) /\ Append(wsSent, m) = wsSent \o <<m>> /\ wsSent \o <<m>> \in Seq(WsMessages)
      /\ Len(wsSent \o <<m>>) = Len(wsSent) + 1 /\ (wsSent \o <<m>>)[Len(wsSent) + 1] = m
      /\ \A i \in 1..Len(wsSent) : (wsSent \o <<m>>)[i] = wsSent[i]
  BY <1>a, OneMore
<1>c. Append(wsNet.toProxy, m) = wsNet.toProxy \o <<m>> /\ wsNet.toProxy \o <<m>> \in Seq(WsMessages)
  BY <1>a, OneMore
<1>3. /\ <<m>> \in Seq(WsMessages) /\ wsSent' = wsSent \o <<m>> /\ wsSent' \in Seq(WsMessages)
      /\ Append(wsNet.toProxy, m) = wsNet.toProxy \o <<m>> /\ Append(wsNet.toProxy, m) \in Seq(WsMessages)
      /\ Len(wsSent') = Len(wsSent) + 1 /\ wsSent'[Len(wsSent) + 1] = m /\ \A i \in 1..Len(wsSent) : wsSent'[i] = wsSent[i]
  BY <1>2, <1>b, <1>c, Zenon
<1>4. /\ wsNet' \in [WsLegs -> Seq(WsMessages)]
      /\ wsNet'.toClient = wsNet.toClient /\ wsNet'.fromApp = wsNet.fromApp /\ wsNet'.toApp = wsNet.toApp
      /\ wsConn.src = "open" => wsNet'.toProxy = wsNet.toProxy \o <<m>>
  BY <1>0, <1>2, <1>3, WsParts DEF WsShape, WsLegs
<1>5. WsShape'
  BY <1>0, <1>2, <1>3, <1>4 DEF WsShape
<1>6. WsLinked'
  BY <1>0, <1>2, <1>4 DEF WsLinked
<1>7. WsLoop'
  BY <1>0, <1>1, <1>2, <1>3, WsParts DEF WsLoop, m
<1>8. WsAnswered'
  <2>1. received \o wsNet.toClient \in Seq(WsMessages)
    BY <1>0, WsParts, SeqsJoin
  <2> DEFINE x == received \o wsNet.toClient
  <2> HIDE DEF x
  <2>2. x \in Seq(WsMessages) /\ Begins(x, wsSent, WsMessages) /\ wsSent \in Seq(WsMessages)
    BY <1>0, <2>1, WsParts DEF WsAnswered, x
  <2>3. Begins(x, wsSent \o <<m>>, WsMessages)
    BY <1>3, <2>2, BeginsOn
  <2>4. QED
    BY <1>2, <1>3, <1>4, <2>3 DEF WsAnswered, x
<1>9. NothingDropped'
  <2>1. PipeParts(WsMessages, received, wsNet.toClient, wsNet.fromApp, wsNet.toApp, wsNet.toProxy, <<m>>)
    BY <1>0, <1>3, WsParts DEF PipeParts
  <2>a. Grows(received, wsNet.toClient, wsNet.fromApp, wsNet.toApp, wsNet.toProxy, <<m>>)
    BY <2>1, PipeEnds, Zenon
  <2>2. QED
    BY <1>0, <1>2, <1>3, <1>4, <2>a, Zenon DEF NothingDropped, WsUp, Pipe, Grows
<1>10. WsEcho!Write
  <2>1. Begins(wsSent, wsSent \o <<m>>, WsMessages) => SubSeq(wsSent \o <<m>>, 1, Len(wsSent)) = wsSent
    BY <1>0, <1>3, WsParts, BeginsOn
  <2>2. Begins(wsSent, wsSent \o <<m>>, WsMessages)
    BY <1>0, <1>3, WsParts DEF Begins
  <2>3. QED
    BY <1>1, <1>2, <1>3, <2>1, <2>2 DEF WsEcho!Write
<1>11. QED
  BY <1>5, <1>6, <1>7, <1>8, <1>9, <1>10 DEF WsIInv

(* The answer the client reads is the next one it waits for.               *)
LEMMA WsReadStep == WsIInv /\ WsClientRead => WsIInv' /\ WsEcho!Read
<1> SUFFICES ASSUME WsIInv, WsClientRead PROVE WsIInv' /\ WsEcho!Read
  OBVIOUS
<1>0. WsShape /\ WsLinked /\ WsLoop /\ WsAnswered /\ NothingDropped
  BY DEF WsIInv
<1> DEFINE m == Head(wsNet.toClient)
           t == Tail(wsNet.toClient)
<1>a. received \in Seq(WsMessages) /\ wsNet.toClient \in Seq(WsMessages) /\ wsNet.toClient # <<>>
  BY <1>0, WsParts DEF WsClientRead
<1>b. m \in WsMessages /\ <<m>> \in Seq(WsMessages) /\ t \in Seq(WsMessages) /\ <<m>> \o t = wsNet.toClient
  BY <1>a, HeadAndTail
<1>c. /\ Append(received, m) = received \o <<m>> /\ received \o <<m>> \in Seq(WsMessages)
      /\ Len(received \o <<m>>) = Len(received) + 1 /\ Len(received) \in Nat /\ (received \o <<m>>)[Len(received) + 1] = m
  BY <1>a, <1>b, OneMore
<1>1. /\ m \in WsMessages /\ <<m>> \in Seq(WsMessages) /\ t \in Seq(WsMessages) /\ <<m>> \o t = wsNet.toClient
      /\ wsNet.toClient # <<>> /\ Append(received, m) = received \o <<m>> /\ received \o <<m>> \in Seq(WsMessages)
      /\ Len(received \o <<m>>) = Len(received) + 1 /\ Len(received) \in Nat /\ (received \o <<m>>)[Len(received) + 1] = m
  BY <1>a, <1>b, <1>c, Zenon
<1>2. /\ wsPhase = "read" /\ received' = Append(received, m)
      /\ wsNet' = [wsNet EXCEPT !["toClient"] = t]
      /\ UNCHANGED <<wsSent, wsHandler, wsConn, wsSession>>
  BY DEF WsClientRead
<1>3. m = Request(Len(wsSent)) => wsPhase' = IF Len(wsSent) < 2 * WsRounds THEN "write" ELSE "done"
  BY Zenon DEF WsClientRead
<1> HIDE DEF m, t
<1>4. /\ wsNet' \in [WsLegs -> Seq(WsMessages)]
      /\ wsNet'.toClient = t /\ wsNet'.fromApp = wsNet.fromApp /\ wsNet'.toApp = wsNet.toApp
      /\ wsNet'.toProxy = wsNet.toProxy
  BY <1>0, <1>1, <1>2, WsParts DEF WsShape, WsLegs
<1>5. received' \o t = received \o wsNet.toClient
  <2>1. Assoc(received, <<m>>, t)
    BY <1>0, <1>1, WsParts, SeqsAssociate
  <2>2. QED
    BY <1>1, <1>2, <2>1 DEF Assoc
<1>6. WsAnswered'
  BY <1>0, <1>2, <1>4, <1>5 DEF WsAnswered
<1>7. Len(received') =< Len(wsSent) /\ SubSeq(wsSent, 1, Len(received')) = received'
  <2>1. Begins(received' \o t, wsSent, WsMessages) /\ received' \in Seq(WsMessages) /\ wsSent \in Seq(WsMessages)
    BY <1>0, <1>1, <1>2, <1>5, WsParts DEF WsAnswered
  <2>2. QED
    BY <1>1, <2>1, BeginsOn
<1>8. m = Request(Len(wsSent))
  <2>1. Len(received') = Len(received) + 1 /\ received'[Len(received) + 1] = m /\ Len(wsSent) = Len(received) + 1
    BY <1>0, <1>1, <1>2 DEF WsLoop
  <2>2. wsSent \in Seq(WsMessages) /\ SubSeq(wsSent, 1, Len(wsSent)) = received'
    BY <1>0, <1>7, <2>1, WsParts
  <2>3. wsSent = received'
    BY <2>2, SubSeqFull
  <2>4. Len(wsSent) \in 1..Len(wsSent)
    BY <1>1, <2>1
  <2>5. QED
    BY <1>0, <2>1, <2>3, <2>4 DEF WsLoop
<1>9. wsPhase' \in {"write", "done"} /\ (wsPhase' = "write" => Len(wsSent) < 2 * WsRounds)
  BY <1>3, <1>8
<1>10. WsShape'
  BY <1>0, <1>1, <1>2, <1>4, <1>9 DEF WsShape
<1>11. WsLinked'
  <2>1. wsHandler = "done"
    BY <1>0, <1>1 DEF WsLinked
  <2>2. QED
    BY <1>0, <1>2, <1>4, <1>9, <2>1 DEF WsLinked
<1>12. WsLoop'
  BY <1>0, <1>1, <1>2, <1>9 DEF WsLoop
<1>13. NothingDropped'
  <2>a. PipeParts(WsMessages, received, t, wsNet.fromApp, wsNet.toApp, wsNet.toProxy, <<m>>)
    BY <1>0, <1>1, WsParts DEF PipeParts
  <2>1. Pipe(received \o <<m>>, t, wsNet.fromApp, wsNet.toApp, wsNet.toProxy)
           = Pipe(received, <<m>> \o t, wsNet.fromApp, wsNet.toApp, wsNet.toProxy)
    BY <2>a, PipeMoves
  <2>2. QED
    BY <1>0, <1>1, <1>2, <1>4, <2>1, Zenon DEF NothingDropped, WsUp, Pipe
<1>14. WsEcho!Read
  <2>1. Len(received') \in (Len(received) + 1)..Len(wsSent)
    BY <1>0, <1>1, <1>2, <1>7, WsParts
  <2>2. QED
    BY <1>2, <1>7, <2>1 DEF WsEcho!Read
<1>15. QED
  BY <1>6, <1>10, <1>11, <1>12, <1>13, <1>14 DEF WsIInv

(* The app server echoes a message, or leaves.                             *)
LEMMA WsAppStep == WsIInv /\ (WsAppEcho \/ WsAppLeaves) => WsIInv'
<1> SUFFICES ASSUME WsIInv, WsAppEcho \/ WsAppLeaves PROVE WsIInv'
  OBVIOUS
<1>0. WsShape /\ WsLinked /\ WsLoop /\ WsAnswered /\ NothingDropped
  BY DEF WsIInv
<1>1. CASE WsAppEcho
  <2> DEFINE m == Head(wsNet.toApp)
             t == Tail(wsNet.toApp)
  <2>1. wsNet.toApp \in Seq(WsMessages) /\ wsNet.toApp # <<>> /\ wsNet.fromApp \in Seq(WsMessages)
    BY <1>0, <1>1, WsParts DEF WsAppEcho
  <2>2. m \in WsMessages /\ <<m>> \in Seq(WsMessages) /\ t \in Seq(WsMessages) /\ <<m>> \o t = wsNet.toApp
    BY <2>1, HeadAndTail
  <2>3. /\ wsNet' = [wsNet EXCEPT !["toApp"] = t, !["fromApp"] = Append(@, m)]
        /\ UNCHANGED <<wsPhase, wsSent, received, wsHandler, wsConn, wsSession>>
    BY <1>1 DEF WsAppEcho, wsClient
  <2> HIDE DEF m, t
  <2>4. Append(wsNet.fromApp, m) = wsNet.fromApp \o <<m>> /\ wsNet.fromApp \o <<m>> \in Seq(WsMessages)
    BY <2>1, <2>2, OneMore
  <2>5. /\ wsNet' \in [WsLegs -> Seq(WsMessages)]
        /\ wsNet'.toClient = wsNet.toClient /\ wsNet'.fromApp = wsNet.fromApp \o <<m>> /\ wsNet'.toApp = t
        /\ wsNet'.toProxy = wsNet.toProxy
    BY <1>0, <2>2, <2>3, <2>4 DEF WsShape, WsLegs
  <2>6. WsShape'
    BY <1>0, <2>3, <2>5 DEF WsShape
  <2>7. WsLinked'
    BY <1>0, <2>1, <2>3, <2>5 DEF WsLinked
  <2>8. WsLoop' /\ WsAnswered'
    BY <1>0, <2>3, <2>5 DEF WsLoop, WsAnswered
  <2>9. NothingDropped'
    <3>1. PipeParts(WsMessages, received, wsNet.toClient, wsNet.fromApp, t, wsNet.toProxy, <<m>>)
      BY <1>0, <2>2, WsParts DEF PipeParts
    <3>2. Pipe(received, wsNet.toClient, wsNet.fromApp \o <<m>>, t, wsNet.toProxy)
             = Pipe(received, wsNet.toClient, wsNet.fromApp, <<m>> \o t, wsNet.toProxy)
      BY <3>1, PipeMoves
    <3>3. QED
      BY <1>0, <2>2, <2>3, <2>5, <3>2, Zenon DEF NothingDropped, WsUp, Pipe
  <2>10. QED
    BY <2>6, <2>7, <2>8, <2>9 DEF WsIInv
<1>2. CASE WsAppLeaves
  <2>1. /\ wsConn' = [wsConn EXCEPT !["dst"] = "closing"] /\ wsNet' = [wsNet EXCEPT !["toApp"] = <<>>]
        /\ UNCHANGED <<wsPhase, wsSent, received, wsHandler, wsSession>> /\ wsConn.dst = "open"
    BY <1>2 DEF WsAppLeaves, WsClose, WsUp, wsClient
  <2>2. <<>> \in Seq(WsMessages)
    BY EmptySeq
  <2>3. wsNet' \in [WsLegs -> Seq(WsMessages)] /\ wsNet'.toClient = wsNet.toClient
    BY <1>0, <2>1, <2>2 DEF WsShape, WsLegs
  <2>4. WsShape'
    BY <1>0, <2>1, <2>3 DEF WsShape, WsConns
  <2>5. WsLinked'
    BY <1>0, <2>1 DEF WsShape, WsLinked, WsLegs, WsConns
  <2>6. WsLoop' /\ WsAnswered'
    BY <1>0, <2>1, <2>3 DEF WsLoop, WsAnswered
  <2>7. NothingDropped'
    BY <1>0, <2>1 DEF NothingDropped, WsUp, WsShape, WsConns
  <2>8. QED
    BY <2>4, <2>5, <2>6, <2>7 DEF WsIInv
<1>3. QED
  BY <1>1, <1>2

(* onWebsocket: nothing is on its way to the app server before dst has its *)
(* session.                                                                *)
LEMMA WsOnWebsocketStep == WsIInv /\ WsOnWebsocket => WsIInv'
<1> SUFFICES ASSUME WsIInv, WsOnWebsocket PROVE WsIInv'
  OBVIOUS
<1>0. WsShape /\ WsLinked /\ WsLoop /\ WsAnswered /\ NothingDropped
  BY DEF WsIInv
<1>1. UNCHANGED <<wsPhase, wsSent, received, wsNet>>
  BY DEF WsOnWebsocket, WsUpgrade, WsDialFails, WsDialConnects, SetSrcSession, WsSetDstSession, wsClient
<1>2. WsLoop' /\ WsAnswered'
  BY <1>0, <1>1 DEF WsLoop, WsAnswered
<1>3. CASE WsUpgrade
  <2>1. /\ wsHandler = "idle" /\ wsHandler' = "upgraded" /\ wsConn' = [wsConn EXCEPT !["src"] = "open"]
        /\ wsSession' = wsSession
    BY <1>3 DEF WsUpgrade, WsOnWebsocketTo
  <2>2. WsShape' /\ WsLinked'
    BY <1>0, <1>1, <2>1 DEF WsShape, WsLinked, WsConns
  <2>3. <<>> \o <<>> = <<>>
    BY SeqsJoin
  <2>4. NothingDropped'
    BY <1>0, <1>1, <2>1, <2>3 DEF WsLinked, NothingDropped
  <2>5. QED
    BY <1>2, <2>2, <2>4 DEF WsIInv
<1>4. CASE WsDialFails
  <2>1. /\ wsHandler = "upgraded" /\ wsHandler' = "failed" /\ wsSession' = wsSession
        /\ wsConn' \in [WsConns -> {"none", "open", "closing", "closed", "alone"}]
        /\ wsConn'.src # "open" /\ wsConn'.dst = wsConn.dst
    BY <1>0, <1>4 DEF WsDialFails, WsOnWebsocketTo, WsClose, WsShape, WsConns
  <2>2. WsShape' /\ WsLinked' /\ NothingDropped'
    BY <1>0, <1>1, <2>1 DEF WsShape, WsLinked, NothingDropped, WsUp
  <2>3. QED
    BY <1>2, <2>2 DEF WsIInv
<1>5. CASE WsDialConnects
  <2>1. /\ wsHandler = "upgraded" /\ wsHandler' = "dialed" /\ wsConn' = [wsConn EXCEPT !["dst"] = "open"]
        /\ wsSession' = wsSession
    BY <1>5 DEF WsDialConnects, WsOnWebsocketTo
  <2>2. WsShape' /\ WsLinked'
    BY <1>0, <1>1, <2>1 DEF WsShape, WsLinked, WsConns
  <2>3. NothingDropped'
    BY <1>0, <1>1, <2>1 DEF WsShape, WsLinked, NothingDropped, WsUp, WsConns
  <2>4. QED
    BY <1>2, <2>2, <2>3 DEF WsIInv
<1>6. CASE SetSrcSession
  <2>1. /\ wsHandler = "dialed" /\ wsHandler' = "linking" /\ wsSession' = [wsSession EXCEPT !["src"] = TRUE]
        /\ wsConn' = wsConn
    BY <1>6 DEF SetSrcSession, WsOnWebsocketTo
  <2>2. WsShape' /\ WsLinked'
    BY <1>0, <1>1, <2>1 DEF WsShape, WsLinked, WsConns
  <2>3. NothingDropped'
    BY <1>0, <1>1, <2>1 DEF NothingDropped, WsUp
  <2>4. QED
    BY <1>2, <2>2, <2>3 DEF WsIInv
<1>7. CASE WsSetDstSession
  <2>1. /\ wsHandler = "linking" /\ wsHandler' = "done" /\ wsSession' = [wsSession EXCEPT !["dst"] = TRUE]
        /\ wsConn' = wsConn
    BY <1>7 DEF WsSetDstSession, WsOnWebsocketTo
  <2>2. WsShape' /\ WsLinked'
    BY <1>0, <1>1, <2>1 DEF WsShape, WsLinked, WsConns
  <2>3. NothingDropped'
    BY <1>0, <1>1, <2>1 DEF NothingDropped, WsUp
  <2>4. QED
    BY <1>2, <2>2, <2>3 DEF WsIInv
<1>8. QED
  BY <1>3, <1>4, <1>5, <1>6, <1>7 DEF WsOnWebsocket

(* OnMessage of src: the request goes on to the app server.                *)
LEMMA OnMessageSrcStep == WsIInv /\ OnMessage("src") => WsIInv'
<1> SUFFICES ASSUME WsIInv, OnMessage("src") PROVE WsIInv'
  OBVIOUS
<1>0. WsShape /\ WsLinked /\ WsLoop /\ WsAnswered /\ NothingDropped
  BY DEF WsIInv
<1> DEFINE m == Head(wsNet.toProxy)
           t == Tail(wsNet.toProxy)
<1>1. WsIn("src") = "toProxy" /\ WsOut(WsPeer("src")) = "toApp" /\ WsPeer("src") = "dst"
  BY WsPeers DEF WsIn, WsOut
<1>2. /\ wsConn.src = "open" /\ wsHandler \in {"done", "failed"} /\ wsNet.toProxy # <<>>
      /\ UNCHANGED <<wsPhase, wsSent, received, wsHandler, wsConn, wsSession>>
  BY <1>1 DEF OnMessage, WsUp, InOrder, wsClient
<1>3. wsNet' = IF wsSession.src /\ wsConn.dst = "open"
               THEN [wsNet EXCEPT !["toProxy"] = t, !["toApp"] = Append(@, m)]
               ELSE [wsNet EXCEPT !["toProxy"] = t]
  BY <1>0, <1>1, Zenon DEF OnMessage, WsUp
<1>4. wsHandler = "done" /\ wsSession.src /\ wsConn.dst # "none"
  BY <1>0, <1>2 DEF WsLinked
<1>5. wsNet.toProxy \in Seq(WsMessages) /\ wsNet.toApp \in Seq(WsMessages)
  BY <1>0, WsParts
<1>6. m \in WsMessages /\ <<m>> \in Seq(WsMessages) /\ t \in Seq(WsMessages) /\ <<m>> \o t = wsNet.toProxy
  BY <1>2, <1>5, HeadAndTail
<1> HIDE DEF m, t
<1>7. Append(wsNet.toApp, m) = wsNet.toApp \o <<m>> /\ wsNet.toApp \o <<m>> \in Seq(WsMessages)
  BY <1>5, <1>6, OneMore
<1>8. /\ wsNet' \in [WsLegs -> Seq(WsMessages)]
      /\ wsNet'.toClient = wsNet.toClient /\ wsNet'.fromApp = wsNet.fromApp /\ wsNet'.toProxy = t
      /\ wsConn.dst = "open" => wsNet'.toApp = wsNet.toApp \o <<m>>
  BY <1>0, <1>3, <1>4, <1>6, <1>7 DEF WsShape, WsLegs
<1>9. WsShape'
  BY <1>0, <1>2, <1>8 DEF WsShape
<1>10. WsLinked'
  <2>1. wsPhase # "dial"
    BY <1>0, <1>2 DEF WsLinked
  <2>2. QED
    BY <1>0, <1>2, <1>4, <1>8, <2>1 DEF WsLinked
<1>11. WsLoop' /\ WsAnswered'
  BY <1>0, <1>2, <1>8 DEF WsLoop, WsAnswered
<1>12. NothingDropped'
  <2>1. PipeParts(WsMessages, received, wsNet.toClient, wsNet.fromApp, wsNet.toApp, t, <<m>>)
    BY <1>0, <1>6, WsParts DEF PipeParts
  <2>2. Pipe(received, wsNet.toClient, wsNet.fromApp, wsNet.toApp \o <<m>>, t)
           = Pipe(received, wsNet.toClient, wsNet.fromApp, wsNet.toApp, <<m>> \o t)
    BY <2>1, PipeMoves
  <2>3. QED
    BY <1>0, <1>2, <1>4, <1>6, <1>8, <2>2, Zenon DEF NothingDropped, WsUp, Pipe
<1>13. QED
  BY <1>9, <1>10, <1>11, <1>12 DEF WsIInv

(* OnMessage of dst: the answer goes on to the client.                     *)
LEMMA OnMessageDstStep == WsIInv /\ OnMessage("dst") => WsIInv'
<1> SUFFICES ASSUME WsIInv, OnMessage("dst") PROVE WsIInv'
  OBVIOUS
<1>0. WsShape /\ WsLinked /\ WsLoop /\ WsAnswered /\ NothingDropped
  BY DEF WsIInv
<1> DEFINE m == Head(wsNet.fromApp)
           t == Tail(wsNet.fromApp)
<1>1. WsIn("dst") = "fromApp" /\ WsOut(WsPeer("dst")) = "toClient" /\ WsPeer("dst") = "src"
  BY WsPeers DEF WsIn, WsOut
<1>2. /\ wsConn.dst = "open" /\ wsNet.fromApp # <<>>
      /\ UNCHANGED <<wsPhase, wsSent, received, wsHandler, wsConn, wsSession>>
  BY <1>1 DEF OnMessage, WsUp, wsClient
<1>3. wsNet' = IF wsSession.dst /\ wsConn.src = "open"
               THEN [wsNet EXCEPT !["fromApp"] = t, !["toClient"] = Append(@, m)]
               ELSE [wsNet EXCEPT !["fromApp"] = t]
  BY <1>0, <1>1, Zenon DEF OnMessage, WsUp
<1>4. wsHandler = "done" /\ wsSession.dst
  BY <1>0, <1>2 DEF WsLinked
<1>5. wsNet.fromApp \in Seq(WsMessages) /\ wsNet.toClient \in Seq(WsMessages)
  BY <1>0, WsParts
<1>6. m \in WsMessages /\ <<m>> \in Seq(WsMessages) /\ t \in Seq(WsMessages) /\ <<m>> \o t = wsNet.fromApp
  BY <1>2, <1>5, HeadAndTail
<1> HIDE DEF m, t
<1>7. Append(wsNet.toClient, m) = wsNet.toClient \o <<m>> /\ wsNet.toClient \o <<m>> \in Seq(WsMessages)
  BY <1>5, <1>6, OneMore
<1>8. /\ wsNet' \in [WsLegs -> Seq(WsMessages)]
      /\ wsNet'.toApp = wsNet.toApp /\ wsNet'.fromApp = t /\ wsNet'.toProxy = wsNet.toProxy
      /\ wsNet'.toClient = IF wsConn.src = "open" THEN wsNet.toClient \o <<m>> ELSE wsNet.toClient
  BY <1>0, <1>3, <1>4, <1>6, <1>7 DEF WsShape, WsLegs
<1>9. WsShape'
  BY <1>0, <1>2, <1>8 DEF WsShape
<1>10. WsLinked'
  BY <1>0, <1>2, <1>4, <1>8 DEF WsLinked
<1>11. WsLoop'
  BY <1>0, <1>2 DEF WsLoop
<1>12. PipeParts(WsMessages, received, wsNet.toClient, t, wsNet.toApp, wsNet.toProxy, <<m>>)
       /\ PipeParts(WsMessages, received, wsNet.toClient \o <<m>>, t, wsNet.toApp, wsNet.toProxy, <<m>>)
  BY <1>0, <1>6, <1>7, WsParts DEF PipeParts
<1>13. NothingDropped'
  <2>1. Pipe(received, wsNet.toClient \o <<m>>, t, wsNet.toApp, wsNet.toProxy)
           = Pipe(received, wsNet.toClient, <<m>> \o t, wsNet.toApp, wsNet.toProxy)
    BY <1>12, PipeMoves
  <2>2. QED
    BY <1>0, <1>2, <1>4, <1>6, <1>8, <2>1, Zenon DEF NothingDropped, WsUp, Pipe
<1>14. WsAnswered'
  <2>1. CASE wsConn.src = "open"
    <3>1. Begins(received \o (wsNet.toClient \o <<m>>),
                 Pipe(received, wsNet.toClient \o <<m>>, t, wsNet.toApp, wsNet.toProxy), WsMessages)
      BY <1>12, PipeEnds, Zenon
    <3>2. Pipe(received, wsNet.toClient \o <<m>>, t, wsNet.toApp, wsNet.toProxy) = wsSent
      BY <1>2, <1>8, <1>13, <2>1, Zenon DEF NothingDropped, WsUp, Pipe
    <3>3. QED
      BY <1>2, <1>8, <2>1, <3>1, <3>2, Zenon DEF WsAnswered
  <2>2. CASE wsConn.src # "open"
    BY <1>0, <1>2, <1>8, <2>2 DEF WsAnswered
  <2>3. QED
    BY <2>1, <2>2
<1>15. QED
  BY <1>9, <1>10, <1>11, <1>13, <1>14 DEF WsIInv

(* OnClose: what was on its way to a closed connection is lost.            *)
LEMMA WsOnCloseStep == ASSUME NEW c \in WsConns PROVE WsIInv /\ WsOnClose(c) => WsIInv'
<1> SUFFICES ASSUME WsIInv, WsOnClose(c) PROVE WsIInv'
  OBVIOUS
<1>0. WsShape /\ WsLinked /\ WsLoop /\ WsAnswered /\ NothingDropped
  BY DEF WsIInv
<1>1. /\ UNCHANGED <<wsPhase, wsSent, received, wsHandler, wsSession>>
      /\ wsNet' = [wsNet EXCEPT ![WsIn(c)] = <<>>] /\ WsIn(c) \in {"toProxy", "fromApp"}
  BY DEF WsOnClose, wsClient, WsIn
<1>2. /\ wsConn' \in [WsConns -> {"none", "open", "closing", "closed", "alone"}]
      /\ wsConn.dst = "none" <=> wsConn'.dst = "none"
      /\ wsConn.src # "open" => wsConn'.src # "open"
      /\ ~(wsConn'.src = "open" /\ wsConn'.dst \in {"open", "none"})
  <2>1. c \in {"src", "dst"} /\ WsPeer(c) = IF c = "src" THEN "dst" ELSE "src"
    BY WsPeers
  <2>2. wsConn \in [{"src", "dst"} -> {"none", "open", "closing", "closed", "alone"}] /\ WsConns = {"src", "dst"}
    BY <1>0, WsPeers DEF WsShape
  <2>3. /\ wsConn[c] = "closing"
        /\ wsConn' = IF wsSession[c]
                     THEN IF [wsConn EXCEPT ![c] = "closed"][WsPeer(c)] = "open"
                          THEN [[wsConn EXCEPT ![c] = "closed"] EXCEPT ![WsPeer(c)] = "closing"]
                          ELSE [wsConn EXCEPT ![c] = "closed"]
                     ELSE [wsConn EXCEPT ![c] = "alone"]
    BY Zenon DEF WsOnClose, WsClose
  <2>4. QED
    BY <2>1, <2>2, <2>3
<1>3. <<>> \in Seq(WsMessages)
  BY EmptySeq
<1>4. /\ wsNet' \in [WsLegs -> Seq(WsMessages)] /\ wsNet'.toClient = wsNet.toClient /\ wsNet'.toApp = wsNet.toApp
      /\ wsNet'.toProxy \in {<<>>, wsNet.toProxy} /\ wsNet'.fromApp \in {<<>>, wsNet.fromApp}
  BY <1>0, <1>1, <1>3 DEF WsShape, WsLegs
<1>5. WsShape'
  BY <1>0, <1>1, <1>2, <1>4 DEF WsShape
<1>6. WsLinked'
  BY <1>0, <1>1, <1>2, <1>4 DEF WsLinked
<1>7. WsLoop' /\ WsAnswered'
  BY <1>0, <1>1, <1>4 DEF WsLoop, WsAnswered
<1>8. NothingDropped'
  BY <1>2 DEF NothingDropped, WsUp
<1>9. QED
  BY <1>5, <1>6, <1>7, <1>8 DEF WsIInv

(* Steps other than the client's reads and writes leave its streams alone. *)
LEMMA WsOthers ==
    ASSUME WsIInv, \/ WsClientDialed \/ WsClientFails \/ WsClientLeaves \/ WsAppEcho \/ WsAppLeaves
                   \/ WsOnWebsocket \/ \E c \in WsConns : OnMessage(c) \/ WsOnClose(c)
    PROVE  UNCHANGED <<wsSent, received>>
  BY DEF WsClientDialed, WsClientFails, WsClientLeaves, WsAppEcho, WsAppLeaves, WsOnWebsocket, WsUpgrade,
         WsDialFails, WsDialConnects, SetSrcSession, WsSetDstSession, OnMessage, WsOnClose, wsClient

(* Every step of the websocket proxy preserves the invariant and is a step *)
(* of the abstract stream.                                                 *)
LEMMA WsStep == WsIInv /\ [WsNext]_wsVars => WsIInv' /\ [WsEcho!Write \/ WsEcho!Read]_<<wsSent, received>>
<1> SUFFICES ASSUME WsIInv, [WsNext]_wsVars
             PROVE  WsIInv' /\ [WsEcho!Write \/ WsEcho!Read]_<<wsSent, received>>
  OBVIOUS
<1>1. CASE WsClientDialed \/ WsClientFails \/ WsClientLeaves
  BY <1>1, WsClientRestStep, WsOthers, Zenon
<1>2. CASE WsClientWrite
  BY <1>2, WsWriteStep, Zenon
<1>3. CASE WsClientRead
  BY <1>3, WsReadStep, Zenon
<1>4. CASE WsAppEcho \/ WsAppLeaves
  BY <1>4, WsAppStep, WsOthers, Zenon
<1>5. CASE WsOnWebsocket
  BY <1>5, WsOnWebsocketStep, WsOthers, Zenon
<1>6. CASE \E c \in WsConns : OnMessage(c) \/ WsOnClose(c)
  <2>1. PICK c \in WsConns : OnMessage(c) \/ WsOnClose(c)
    BY <1>6
  <2>2. OnMessage("src") \/ OnMessage("dst") \/ WsOnClose(c)
    BY <2>1, WsPeers
  <2>3. QED
    BY <1>6, <2>2, OnMessageSrcStep, OnMessageDstStep, WsOnCloseStep, WsOthers, Zenon
<1>7. CASE UNCHANGED wsVars
  BY <1>7 DEF wsVars, wsClient, WsIInv, WsShape, WsLinked, WsLoop, WsAnswered, NothingDropped, WsUp
<1>8. QED
  BY <1>1, <1>2, <1>3, <1>4, <1>5, <1>6, <1>7, Zenon DEF WsNext, WsClientStep

-----------------------------------------------------------------------------
(* StickyTunnel: what one end has, what is on its way to it, what the      *)
(* goroutine holds and what is on its way to the goroutine.                *)
Tunnelled(a, b, c, d) == a \o b \o c \o d

TunnelGrows(a, b, c, d, p) == Tunnelled(a, b, c, d \o p) = Tunnelled(a, b, c, d) \o p

(* A piece goes from one part of the tunnel to the one before it, or to    *)
(* its end; what has arrived or is about to is where the whole begins.     *)
LEMMA TunnelMoves ==
    ASSUME NEW S, NEW a, NEW b, NEW c, NEW d, NEW p, PipeParts(S, a, b, c, d, d, p)
    PROVE  /\ Tunnelled(a \o p, b, c, d) = Tunnelled(a, p \o b, c, d)
           /\ Tunnelled(a, b \o p, c, d) = Tunnelled(a, b, p \o c, d)
           /\ Tunnelled(a, b, c \o p, d) = Tunnelled(a, b, c, p \o d)
           /\ TunnelGrows(a, b, c, d, p)
           /\ Begins(a \o b, Tunnelled(a, b, c, d), S)
<1>0. a \in Seq(S) /\ b \in Seq(S) /\ c \in Seq(S) /\ d \in Seq(S) /\ p \in Seq(S) /\ <<>> \in Seq(S)
  BY SeqsJoin DEF PipeParts
<1>1. /\ a \o b \o c \in Seq(S) /\ a \o b \o c \o d \in Seq(S)
      /\ a \o b \o c \o (d \o p) \in Seq(S) /\ a \o (p \o b) \o c \o d \in Seq(S) /\ (a \o p) \o b \o c \o d \in Seq(S)
      /\ a \o (b \o p) \o c \o d \in Seq(S) /\ a \o b \o (p \o c) \o d \in Seq(S)
      /\ a \o b \o (c \o p) \o d \in Seq(S) /\ a \o b \o c \o (p \o d) \in Seq(S)
  BY <1>0
<1>2. \A x \in Seq(S) : x \o <<>> = x
  BY SeqsJoin
<1>3. /\ Pipe(a, b, c, d, <<>>) = Tunnelled(a, b, c, d)
      /\ Pipe(a \o p, b, c, d, <<>>) = Tunnelled(a \o p, b, c, d)
      /\ Pipe(a, p \o b, c, d, <<>>) = Tunnelled(a, p \o b, c, d)
      /\ Pipe(a, b \o p, c, d, <<>>) = Tunnelled(a, b \o p, c, d)
      /\ Pipe(a, b, p \o c, d, <<>>) = Tunnelled(a, b, p \o c, d)
      /\ Pipe(a, b, c \o p, d, <<>>) = Tunnelled(a, b, c \o p, d)
      /\ Pipe(a, b, c, p \o d, <<>>) = Tunnelled(a, b, c, p \o d)
  BY <1>1, <1>2, Zenon DEF Pipe, Tunnelled
<1>4. PipeParts(S, a, b, c, d, <<>>, p)
  BY <1>0 DEF PipeParts
<1>5. /\ Pipe(a \o p, b, c, d, <<>>) = Pipe(a, p \o b, c, d, <<>>)
      /\ Pipe(a, b \o p, c, d, <<>>) = Pipe(a, b, p \o c, d, <<>>)
      /\ Pipe(a, b, c \o p, d, <<>>) = Pipe(a, b, c, p \o d, <<>>)
  BY <1>4, PipeMoves
<1>6. Begins(a \o b, Pipe(a, b, c, d, <<>>), S)
  BY <1>4, PipeEnds, Zenon
<1> DEFINE abc == a \o b \o c
<1>7. abc \in Seq(S)
  BY <1>1
<1> HIDE DEF abc
<1>8. Assoc(abc, d, p)
  BY <1>0, <1>7, SeqsAssociate
<1>9. TunnelGrows(a, b, c, d, p)
  BY <1>8, Zenon DEF TunnelGrows, Tunnelled, Assoc, abc
<1>10. QED
  BY <1>3, <1>5, <1>6, <1>9, Zenon

(* A chunk, or the next piece, and the rest.                               *)
LEMMA Splits ==
    ASSUME NEW S, NEW s \in Seq(S), NEW n \in 1..Len(s)
    PROVE  /\ SubSeq(s, 1, n) \in Seq(S) /\ Len(SubSeq(s, 1, n)) = n /\ SubSeq(s, 1, n) # <<>>
           /\ SubSeq(s, n + 1, Len(s)) \in Seq(S) /\ Len(SubSeq(s, n + 1, Len(s))) = Len(s) - n
           /\ SubSeq(s, 1, n) \o SubSeq(s, n + 1, Len(s)) = s
           /\ Len(s) \in Nat
<1>1. Len(s) \in Nat /\ n \in 0..Len(s) /\ Len(s) \in n..Len(s) /\ n \in Nat /\ n > 0
  OBVIOUS
<1>2. SubSeq(s, 1, n) \in Seq(S) /\ Len(SubSeq(s, 1, n)) = n
  BY <1>1, SubSeqProperties
<1>3. SubSeq(s, n + 1, Len(s)) \in Seq(S) /\ Len(SubSeq(s, n + 1, Len(s))) = Len(s) - n
  BY <1>1, SubSeqProperties
<1>4. SubSeq(s, 1, n) \o SubSeq(s, n + 1, Len(s)) = s
  BY <1>1, ConcatAdjacentSubSeq, SubSeqFull
<1>5. SubSeq(s, 1, n) # <<>>
  BY <1>1, <1>2
<1>6. QED
  BY <1>1, <1>2, <1>3, <1>4, <1>5

LEMMA ChunkAndRest ==
    ASSUME NEW S, NEW s \in Seq(S), NEW p \in Prefixes(s)
    PROVE  /\ p \in Seq(S) /\ Rest(s, p) \in Seq(S) /\ p \o Rest(s, p) = s /\ p # <<>>
           /\ Len(p) \in 1..Len(s) /\ Len(Rest(s, p)) =< Len(s) /\ Len(s) \in Nat
<1>1. PICK n \in 1..Len(s) : p = SubSeq(s, 1, n)
  BY DEF Prefixes
<1>2. /\ SubSeq(s, 1, n) \in Seq(S) /\ Len(SubSeq(s, 1, n)) = n /\ SubSeq(s, 1, n) # <<>>
      /\ SubSeq(s, n + 1, Len(s)) \in Seq(S) /\ Len(SubSeq(s, n + 1, Len(s))) = Len(s) - n
      /\ SubSeq(s, 1, n) \o SubSeq(s, n + 1, Len(s)) = s
      /\ Len(s) \in Nat
  BY Splits
<1>3. QED
  BY <1>1, <1>2, SMTT(30) DEF Rest

StickyBytes == 1..SendLimit

(* The tunnel's connections open one after the other and close together;   *)
(* both goroutines start when both are open, and hold bytes while writing. *)
StickyOpen ==
    /\ open.client # "no" /\ (open.server # "no" => open.client = open.server)
    /\ \A s \in Sides : cor[s] = "none" <=> open.server = "no"
    /\ \A s \in Sides : cor[s] = "write" <=> tmp[s] # <<>>
    /\ open.server = "no" => /\ got.client = <<>> /\ toEnd.client = <<>>
                             /\ toTunnel.server = <<>> /\ stickySent.server = <<>>

(* The stream from s to the other end.                                     *)
Flow(s) ==
    LET o == Other(s)
    IN  /\ Begins(got[o] \o toEnd[o], stickySent[s], StickyBytes)
        /\ open[s] = "yes" /\ ~gone[o] =>
               Tunnelled(got[o], toEnd[o], tmp[s], toTunnel[s]) = stickySent[s]

StickyIInv == StickyTypeOK /\ StickyOpen /\ \A s \in Sides : Flow(s)

(* The streams are the ones of StreamsIntact.                              *)
LEMMA FlowsAreIntact == (\A s \in Sides : Flow(s)) => StreamsIntact
  BY Zenon DEF Flow, StreamsIntact, Tunnelled

(* A step of the stream that s writes and the other end reads.             *)
FlowStep(s) ==
    LET o == Other(s)
    IN  \/ /\ stickySent'[s] \in StickyStream
           /\ Len(stickySent'[s]) > Len(stickySent[s])
           /\ SubSeq(stickySent'[s], 1, Len(stickySent[s])) = stickySent[s]
           /\ UNCHANGED got[o]
        \/ /\ \E n \in (Len(got[o]) + 1)..Len(stickySent[s]) : got'[o] = SubSeq(stickySent[s], 1, n)
           /\ UNCHANGED stickySent[s]
        \/ UNCHANGED <<stickySent[s], got[o]>>

(* There are two sides.                                                    *)
LEMMA Opposite ==
    ASSUME NEW s \in Sides
    PROVE  /\ Other(s) \in Sides /\ Other(s) # s /\ Other(Other(s)) = s /\ Sides = {s, Other(s)}
           /\ Sides = {"client", "server"} /\ Other("client") = "server" /\ Other("server") = "client"
  BY DEF Other, Sides

(* What is in flight between them are sequences of bytes.                  *)
LEMMA SideParts ==
    ASSUME StickyTypeOK, NEW s \in Sides
    PROVE  /\ stickySent[s] \in Seq(StickyBytes) /\ got[s] \in Seq(StickyBytes)
           /\ toTunnel[s] \in Seq(StickyBytes) /\ toEnd[s] \in Seq(StickyBytes) /\ tmp[s] \in Seq(StickyBytes)
           /\ StickyStream = Seq(StickyBytes) /\ <<>> \in StickyStream /\ Len(<<>>) = 0
           /\ Window \in Nat \ {0}
<1>1. StickyStream = Seq(StickyBytes)
  BY Zenon DEF StickyStream, StickyBytes
<1>2. <<>> \in Seq(StickyBytes) /\ Len(<<>>) = 0 /\ Window \in Nat \ {0}
  BY LimitsArePositive
<1>3. QED
  BY <1>1, <1>2 DEF StickyTypeOK

(* A stream goes on as it was when its parts do, or it may break.          *)
LEMMA FlowGoesOn ==
    ASSUME NEW s \in Sides, Flow(s), got'[Other(s)] = got[Other(s)],
           stickySent'[s] = stickySent[s], toEnd'[Other(s)] = toEnd[Other(s)],
           open'[s] = "yes" /\ ~gone'[Other(s)] =>
              open[s] = "yes" /\ ~gone[Other(s)] /\ tmp'[s] = tmp[s] /\ toTunnel'[s] = toTunnel[s]
    PROVE  Flow(s)' /\ FlowStep(s)
<1>1. Flow(s)'
  BY Zenon DEF Flow
<1>2. FlowStep(s)
  BY Zenon DEF FlowStep
<1>3. QED
  BY <1>1, <1>2

(* Nothing has been sent.                                                  *)
LEMMA StickyInitial == StickyInit => StickyIInv
<1> SUFFICES ASSUME StickyInit PROVE StickyIInv
  OBVIOUS
<1>1. StickyStream = Seq(StickyBytes)
  BY Zenon DEF StickyStream, StickyBytes
<1>2. <<>> \in Seq(StickyBytes) /\ Len(<<>>) = 0 /\ <<>> \o <<>> = <<>> /\ Window \in Nat
  BY SeqsJoin, LimitsArePositive
<1>3. StickyTypeOK
  BY <1>1, <1>2 DEF StickyInit, StickyTypeOK, Sides
<1>4. StickyOpen
  BY DEF StickyInit, StickyOpen, Sides
<1>5. ASSUME NEW s \in Sides PROVE Flow(s)
  <2>1. Other(s) \in Sides
    BY Opposite
  <2>2. /\ got[Other(s)] = <<>> /\ toEnd[Other(s)] = <<>> /\ tmp[s] = <<>> /\ toTunnel[s] = <<>>
        /\ stickySent[s] = <<>>
    BY <2>1 DEF StickyInit
  <2>3. QED
    BY <1>2, <2>2 DEF Flow, Begins, Tunnelled
<1>6. QED
  BY <1>3, <1>4, <1>5 DEF StickyIInv

(* An end sends a byte: it enters the tunnel if that is still up.          *)
LEMMA EndSendsStep ==
    ASSUME StickyIInv, NEW s \in Sides, EndSends(s)
    PROVE  StickyIInv' /\ \A d \in Sides : FlowStep(d)
<1> DEFINE o == Other(s)
           byte == Len(stickySent[s]) + 1
<1>1. /\ o \in Sides /\ o # s /\ Other(o) = s /\ Sides = {s, o}
  BY Opposite
<1>2. StickyTypeOK /\ StickyOpen /\ Flow(s) /\ Flow(o)
  BY <1>1 DEF StickyIInv
<1> HIDE DEF o
<1>3. /\ stickySent[s] \in Seq(StickyBytes) /\ toTunnel[s] \in Seq(StickyBytes) /\ tmp[s] \in Seq(StickyBytes)
      /\ StickyStream = Seq(StickyBytes)
  BY <1>2, SideParts
<1>4. got[o] \in Seq(StickyBytes) /\ toEnd[o] \in Seq(StickyBytes)
  BY <1>1, <1>2, SideParts
<1>5. byte \in StickyBytes
  BY <1>3, LimitsArePositive DEF EndSends, StickyBytes
<1>6. /\ open[s] # "no" /\ Len(toTunnel[s]) < Window
      /\ stickySent' = [stickySent EXCEPT ![s] = Append(@, byte)]
      /\ toTunnel' = IF open[s] = "yes" THEN [toTunnel EXCEPT ![s] = Append(@, byte)] ELSE toTunnel
      /\ UNCHANGED <<got, gone, toEnd, open, cor, tmp>>
  BY DEF EndSends
<1> HIDE DEF byte
<1>7. /\ <<byte>> \in Seq(StickyBytes) /\ Append(stickySent[s], byte) = stickySent[s] \o <<byte>>
      /\ stickySent[s] \o <<byte>> \in Seq(StickyBytes) /\ Len(stickySent[s]) \in Nat
      /\ Len(stickySent[s] \o <<byte>>) = Len(stickySent[s]) + 1
  BY <1>3, <1>5, OneMore
<1>8. /\ Append(toTunnel[s], byte) = toTunnel[s] \o <<byte>> /\ toTunnel[s] \o <<byte>> \in Seq(StickyBytes)
      /\ Len(toTunnel[s]) \in Nat /\ Len(toTunnel[s] \o <<byte>>) = Len(toTunnel[s]) + 1
  BY <1>3, <1>5, OneMore
<1>9. /\ stickySent' \in [Sides -> StickyStream] /\ stickySent'[s] = stickySent[s] \o <<byte>>
      /\ stickySent'[o] = stickySent[o]
      /\ toTunnel' \in [Sides -> StickyStream] /\ toTunnel'[o] = toTunnel[o]
      /\ toTunnel'[s] = IF open[s] = "yes" THEN toTunnel[s] \o <<byte>> ELSE toTunnel[s]
  BY <1>1, <1>2, <1>3, <1>6, <1>7, <1>8, SMTT(30) DEF StickyTypeOK
<1>10. StickyTypeOK'
  <2>1. \A side \in Sides : Len(toTunnel'[side]) =< Window /\ Len(toEnd'[side]) =< Window
    BY <1>1, <1>2, <1>6, <1>8, <1>9, LimitsArePositive DEF StickyTypeOK
  <2>2. QED
    BY <1>2, <1>6, <1>9, <2>1 DEF StickyTypeOK
<1>11. StickyOpen'
  <2>1. open.server = "no" => s = "client" /\ o = "server"
    BY <1>1, <1>6, Opposite DEF Sides
  <2>2. QED
    BY <1>2, <1>6, <1>9, <2>1 DEF StickyOpen
<1>12. Flow(s)'
  <2>1. got[o] \o toEnd[o] \in Seq(StickyBytes)
    BY <1>4, SeqsJoin
  <2> DEFINE x == got[o] \o toEnd[o]
  <2> HIDE DEF x
  <2>2. Begins(x, stickySent[s] \o <<byte>>, StickyBytes)
    <3>1. x \in Seq(StickyBytes) /\ Begins(x, stickySent[s], StickyBytes)
      BY <1>2, <2>1 DEF x, Flow, o
    <3>2. QED
      BY <1>3, <1>7, <3>1, BeginsOn
  <2>3. PipeParts(StickyBytes, got[o], toEnd[o], tmp[s], toTunnel[s], toTunnel[s], <<byte>>)
    BY <1>3, <1>4, <1>7 DEF PipeParts
  <2>4. TunnelGrows(got[o], toEnd[o], tmp[s], toTunnel[s], <<byte>>)
    BY <2>3, TunnelMoves, Zenon
  <2>5. QED
    BY <1>2, <1>6, <1>9, <2>2, <2>4, Zenon DEF Flow, x, o, TunnelGrows
<1>13. Flow(o)' /\ FlowStep(o)
  BY <1>1, <1>2, <1>6, <1>9, FlowGoesOn
<1>14. FlowStep(s)
  <2>1. Begins(stickySent[s], stickySent[s] \o <<byte>>, StickyBytes)
    BY <1>3, <1>7 DEF Begins
  <2>2. SubSeq(stickySent[s] \o <<byte>>, 1, Len(stickySent[s])) = stickySent[s]
    BY <1>3, <1>7, <2>1, BeginsOn
  <2>3. Len(stickySent'[s]) > Len(stickySent[s])
    BY <1>7, <1>9
  <2>4. stickySent'[s] \in StickyStream /\ got'[o] = got[o]
    BY <1>3, <1>6, <1>7, <1>9
  <2>5. QED
    BY <1>9, <2>2, <2>3, <2>4, Zenon DEF FlowStep, o
<1>15. QED
  BY <1>1, <1>10, <1>11, <1>12, <1>13, <1>14 DEF StickyIInv

(* An end reads a chunk: it is what the other has sent next.               *)
LEMMA EndReadsStep ==
    ASSUME StickyIInv, NEW s \in Sides, EndReads(s)
    PROVE  StickyIInv' /\ \A d \in Sides : FlowStep(d)
<1> DEFINE o == Other(s)
<1>1. /\ o \in Sides /\ o # s /\ Other(o) = s /\ Sides = {s, o}
  BY Opposite
<1>2. StickyTypeOK /\ StickyOpen /\ Flow(s) /\ Flow(o)
  BY <1>1 DEF StickyIInv
<1>3. PICK p \in Prefixes(toEnd[s]) :
         got' = [got EXCEPT ![s] = @ \o p] /\ toEnd' = [toEnd EXCEPT ![s] = Rest(@, p)]
  BY DEF EndReads
<1> DEFINE r == Rest(toEnd[s], p)
<1> HIDE DEF o
<1>4. /\ got[s] \in Seq(StickyBytes) /\ toEnd[s] \in Seq(StickyBytes) /\ StickyStream = Seq(StickyBytes)
  BY <1>2, SideParts
<1>5. /\ tmp[o] \in Seq(StickyBytes) /\ toTunnel[o] \in Seq(StickyBytes) /\ stickySent[o] \in Seq(StickyBytes)
  BY <1>1, <1>2, SideParts
<1>6. /\ p \in Seq(StickyBytes) /\ r \in Seq(StickyBytes) /\ p \o r = toEnd[s] /\ p # <<>>
      /\ Len(p) \in 1..Len(toEnd[s]) /\ Len(r) =< Len(toEnd[s]) /\ Len(toEnd[s]) \in Nat
  BY <1>4, ChunkAndRest
<1>7. /\ UNCHANGED <<stickySent, gone, toTunnel, open, cor, tmp>>
      /\ toEnd' = [toEnd EXCEPT ![s] = r]
  BY <1>3 DEF EndReads
<1> HIDE DEF r
<1>8. got[s] \o p \in Seq(StickyBytes) /\ Len(got[s] \o p) = Len(got[s]) + Len(p) /\ Len(got[s]) \in Nat
  BY <1>4, <1>6, SeqsJoin
<1>9. /\ got' \in [Sides -> StickyStream] /\ got'[s] = got[s] \o p /\ got'[o] = got[o]
      /\ toEnd' \in [Sides -> StickyStream] /\ toEnd'[s] = r /\ toEnd'[o] = toEnd[o]
  BY <1>1, <1>2, <1>3, <1>4, <1>6, <1>7, <1>8, SMTT(30) DEF StickyTypeOK
<1>10. StickyTypeOK'
  <2>1. \A side \in Sides : Len(toTunnel'[side]) =< Window /\ Len(toEnd'[side]) =< Window
    BY <1>1, <1>2, <1>6, <1>7, <1>9, LimitsArePositive DEF StickyTypeOK
  <2>2. QED
    BY <1>2, <1>7, <1>9, <2>1 DEF StickyTypeOK
<1>11. StickyOpen'
  <2>1. toEnd[s] # <<>>
    BY <1>6
  <2>2. open.server = "no" => s = "server" /\ o = "client"
    BY <1>1, <1>2, <2>1, Opposite DEF Sides, StickyOpen
  <2>3. QED
    BY <1>2, <1>7, <1>9, <2>2 DEF StickyOpen
<1>12. PipeParts(StickyBytes, got[s], r, tmp[o], toTunnel[o], toTunnel[o], p)
  BY <1>4, <1>5, <1>6 DEF PipeParts
<1>13. Begins((got[s] \o p) \o r, stickySent[o], StickyBytes)
  <2>1. Assoc(got[s], p, r)
    BY <1>4, <1>6, SeqsAssociate
  <2>2. Begins(got[s] \o toEnd[s], stickySent[o], StickyBytes)
    BY <1>1, <1>2, Zenon DEF Flow
  <2>3. QED
    BY <1>6, <2>1, <2>2, Zenon DEF Assoc
<1>14. Flow(o)'
  <2>1. Tunnelled(got[s] \o p, r, tmp[o], toTunnel[o]) = Tunnelled(got[s], p \o r, tmp[o], toTunnel[o])
    BY <1>12, TunnelMoves
  <2>2. QED
    BY <1>1, <1>2, <1>6, <1>7, <1>9, <1>13, <2>1, Zenon DEF Flow
<1>15. Flow(s)' /\ FlowStep(s)
  <2>1. Other(s) = o
    BY DEF o
  <2>2. QED
    BY <1>2, <1>7, <1>9, <2>1, FlowGoesOn
<1>16. FlowStep(o)
  <2>1. Begins(got[s] \o p, stickySent[o], StickyBytes)
    <3> DEFINE x == got[s] \o p
    <3>1. x \in Seq(StickyBytes)
      BY <1>8
    <3> HIDE DEF x
    <3>2. Begins(x, stickySent[o], StickyBytes)
      BY <1>5, <1>6, <1>13, <3>1, BeginsOn DEF x
    <3>3. QED
      BY <3>2 DEF x
  <2>2. Len(got[s] \o p) =< Len(stickySent[o]) /\ SubSeq(stickySent[o], 1, Len(got[s] \o p)) = got[s] \o p
    BY <1>5, <1>8, <2>1, BeginsOn
  <2>3. Len(got[s] \o p) \in (Len(got[s]) + 1)..Len(stickySent[o])
    BY <1>5, <1>6, <1>8, <2>2
  <2>4. QED
    BY <1>1, <1>7, <1>9, <2>2, <2>3, Zenon DEF FlowStep
<1>17. QED
  BY <1>1, <1>10, <1>11, <1>14, <1>15, <1>16 DEF StickyIInv

(* An end closes: what was still on its way to it is lost.                 *)
LEMMA EndClosesStep ==
    ASSUME StickyIInv, NEW s \in Sides, EndCloses(s)
    PROVE  StickyIInv' /\ \A d \in Sides : FlowStep(d)
<1> DEFINE o == Other(s)
<1>1. /\ o \in Sides /\ o # s /\ Other(o) = s /\ Sides = {s, o}
  BY Opposite
<1>2. StickyTypeOK /\ StickyOpen /\ Flow(s) /\ Flow(o)
  BY <1>1 DEF StickyIInv
<1> HIDE DEF o
<1>3. /\ got[s] \in Seq(StickyBytes) /\ toEnd[s] \in Seq(StickyBytes) /\ StickyStream = Seq(StickyBytes)
      /\ <<>> \in StickyStream /\ Len(<<>>) = 0 /\ Window \in Nat
  BY <1>2, SideParts
<1>4. stickySent[o] \in Seq(StickyBytes)
  BY <1>1, <1>2, SideParts
<1>5. /\ gone' = [gone EXCEPT ![s] = TRUE] /\ toEnd' = [toEnd EXCEPT ![s] = <<>>]
      /\ UNCHANGED <<stickySent, got, toTunnel, open, cor, tmp>>
  BY DEF EndCloses
<1>6. /\ gone' \in [Sides -> BOOLEAN] /\ gone'[s] = TRUE /\ gone'[o] = gone[o]
      /\ toEnd' \in [Sides -> StickyStream] /\ toEnd'[s] = <<>> /\ toEnd'[o] = toEnd[o]
  BY <1>1, <1>2, <1>3, <1>5 DEF StickyTypeOK
<1>7. StickyTypeOK'
  <2>1. \A side \in Sides : Len(toTunnel'[side]) =< Window /\ Len(toEnd'[side]) =< Window
    BY <1>1, <1>2, <1>3, <1>5, <1>6 DEF StickyTypeOK
  <2>2. QED
    BY <1>2, <1>5, <1>6, <2>1 DEF StickyTypeOK
<1>8. StickyOpen'
  <2>1. toEnd.client = <<>> => toEnd'.client = <<>>
    BY <1>1, <1>6, Opposite DEF Sides
  <2>2. QED
    BY <1>2, <1>5, <2>1 DEF StickyOpen
<1>9. Flow(o)' /\ FlowStep(o)
  <2>1. Begins(got[s] \o toEnd[s], stickySent[o], StickyBytes)
    BY <1>1, <1>2, Zenon DEF Flow
  <2>2. Begins(got[s], stickySent[o], StickyBytes) /\ got[s] \o <<>> = got[s]
    BY <1>3, <1>4, <2>1, BeginsOn, SeqsJoin
  <2>3. QED
    BY <1>1, <1>5, <1>6, <2>2, Zenon DEF Flow, FlowStep
<1>10. Flow(s)' /\ FlowStep(s)
  <2>1. Other(s) = o
    BY DEF o
  <2>2. QED
    BY <1>2, <1>5, <1>6, <2>1, FlowGoesOn
<1>11. QED
  BY <1>1, <1>7, <1>8, <1>9, <1>10 DEF StickyIInv

(* stickyTunnel dials: until then the server has sent nothing.             *)
LEMMA StickyDialStep ==
    ASSUME StickyIInv, Dial \/ StickyDialFails
    PROVE  StickyIInv' /\ \A d \in Sides : FlowStep(d)
<1>1. StickyTypeOK /\ StickyOpen /\ Flow("client") /\ Flow("server")
  BY DEF StickyIInv, Sides
<1>2. open.server = "no" /\ tmp.client = <<>> /\ tmp.server = <<>>
  BY <1>1 DEF Dial, StickyDialFails, StickyOpen, Sides
<1>3. Other("client") = "server" /\ Other("server") = "client" /\ "client" \in Sides /\ "server" \in Sides
      /\ Sides = {"client", "server"}
  BY Opposite DEF Sides
<1>4. <<>> \in StickyStream /\ Len(<<>>) = 0 /\ Window \in Nat /\ StickyStream = Seq(StickyBytes)
  BY <1>1, <1>3, SideParts
<1>5. CASE Dial
  <2>1. /\ open.client = "yes" /\ open' = [open EXCEPT !["server"] = "yes"] /\ cor' = [s \in Sides |-> "read"]
        /\ UNCHANGED <<stickySent, got, gone, toTunnel, toEnd, tmp>>
    BY <1>5 DEF Dial, ends
  <2>2. StickyTypeOK'
    BY <1>1, <1>2, <2>1, <1>3 DEF StickyTypeOK
  <2>3. open'.server = "yes" /\ open'.client = "yes"
    BY <1>1, <1>3, <2>1 DEF StickyTypeOK
  <2>4. StickyOpen'
    BY <1>1, <1>2, <1>3, <2>1, <2>3 DEF StickyOpen
  <2>5. Flow("client")' /\ FlowStep("client")
    BY <1>1, <1>3, <2>1, FlowGoesOn
  <2>6. Flow("server")' /\ FlowStep("server")
    <3>1. /\ got.client = <<>> /\ toEnd.client = <<>> /\ toTunnel.server = <<>> /\ stickySent.server = <<>>
          /\ tmp.server = <<>>
      BY <1>1, <1>2 DEF StickyOpen
    <3>2. <<>> \o <<>> = <<>>
      BY <1>4, SeqsJoin
    <3>3. Tunnelled(got["client"], toEnd["client"], tmp["server"], toTunnel["server"]) = stickySent["server"]
      BY <3>1, <3>2 DEF Tunnelled
    <3>4. QED
      BY <1>1, <1>3, <2>1, <3>3, Zenon DEF Flow, FlowStep
  <2>7. QED
    BY <1>3, <2>2, <2>4, <2>5, <2>6 DEF StickyIInv
<1>6. CASE StickyDialFails
  <2>1. /\ open' = [open EXCEPT !["client"] = "closed"] /\ toTunnel' = [toTunnel EXCEPT !["client"] = <<>>]
        /\ UNCHANGED <<stickySent, got, gone, toEnd, cor, tmp>>
    BY <1>6 DEF StickyDialFails, ends
  <2>2. StickyTypeOK'
    <3>1. toTunnel' \in [Sides -> StickyStream]
      BY <1>1, <1>3, <1>4, <2>1 DEF StickyTypeOK
    <3>2. open' \in [Sides -> {"no", "yes", "closed"}]
      BY <1>1, <1>3, <2>1 DEF StickyTypeOK
    <3>3. \A s \in Sides : Len(toTunnel'[s]) =< Window /\ Len(toEnd'[s]) =< Window
      BY <1>1, <1>3, <1>4, <2>1 DEF StickyTypeOK
    <3>4. QED
      BY <1>1, <2>1, <3>1, <3>2, <3>3 DEF StickyTypeOK
  <2>3. open'.server = "no" /\ open'.client = "closed" /\ toTunnel'.server = toTunnel.server
    BY <1>1, <1>2, <1>3, <2>1 DEF StickyTypeOK
  <2>4. StickyOpen'
    BY <1>1, <1>2, <1>3, <2>1, <2>3 DEF StickyOpen
  <2>5. Flow("client")' /\ FlowStep("client")
    BY <1>1, <1>3, <2>1, <2>3, FlowGoesOn
  <2>6. Flow("server")' /\ FlowStep("server")
    BY <1>1, <1>3, <2>1, <2>3, FlowGoesOn
  <2>7. QED
    BY <1>3, <2>2, <2>4, <2>5, <2>6 DEF StickyIInv
<1>7. QED
  BY <1>5, <1>6

(* A goroutine's Read or Write fails: both connections are closed.         *)
LEMMA CorFailsStep ==
    ASSUME StickyIInv, NEW s \in Sides, CorReadFails(s) \/ CorWriteFails(s)
    PROVE  StickyIInv' /\ \A d \in Sides : FlowStep(d)
<1>1. StickyTypeOK /\ StickyOpen
  BY DEF StickyIInv
<1>2. /\ cor[s] \in {"read", "write"} /\ cor' = [cor EXCEPT ![s] = "ended"]
      /\ open' = [side \in Sides |-> "closed"] /\ toTunnel' = [side \in Sides |-> <<>>]
      /\ tmp' = [tmp EXCEPT ![s] = <<>>] \/ (cor[s] = "read" /\ tmp' = tmp)
      /\ UNCHANGED <<stickySent, got, gone, toEnd>>
  BY DEF CorReadFails, CorWriteFails, CloseBoth, ends
<1>3. Sides = {"client", "server"} /\ "client" \in Sides /\ "server" \in Sides
  BY DEF Sides
<1>4. <<>> \in StickyStream /\ Len(<<>>) = 0 /\ Window \in Nat
  BY <1>1, SideParts
<1>5. open'["client"] = "closed" /\ open'["server"] = "closed"
  BY <1>2, <1>3
<1>6. cor[s] = "read" => tmp[s] = <<>>
  BY <1>1 DEF StickyOpen
<1>7. tmp' \in [Sides -> StickyStream] /\ \A d \in Sides : tmp'[d] = IF d = s THEN <<>> ELSE tmp[d]
  BY <1>1, <1>2, <1>4, <1>6, ZenonT(40) DEF StickyTypeOK
<1>8. cor' \in [Sides -> {"none", "read", "write", "ended"}]
      /\ \A d \in Sides : cor'[d] = IF d = s THEN "ended" ELSE cor[d]
  BY <1>1, <1>2 DEF StickyTypeOK
<1>9. StickyTypeOK'
  <2>1. /\ toTunnel' \in [Sides -> StickyStream] /\ open' \in [Sides -> {"no", "yes", "closed"}]
        /\ \A d \in Sides : Len(toTunnel'[d]) =< Window /\ Len(toEnd'[d]) =< Window
    BY <1>1, <1>2, <1>4 DEF StickyTypeOK
  <2>2. \A d \in Sides : tmp'[d] # <<>> => cor'[d] = "write"
    BY <1>1, <1>7, <1>8 DEF StickyTypeOK
  <2>3. QED
    BY <1>1, <1>2, <1>7, <1>8, <2>1, <2>2 DEF StickyTypeOK
<1>10. StickyOpen'
  <2>1. open.server # "no"
    BY <1>1, <1>2 DEF StickyOpen
  <2>2. QED
    BY <1>1, <1>5, <1>7, <1>8, <2>1 DEF StickyOpen
<1>11. ASSUME NEW d \in Sides PROVE Flow(d)' /\ FlowStep(d)
  <2>1. Flow(d) /\ Other(d) \in Sides /\ open'[d] = "closed"
    BY <1>2, Opposite DEF StickyIInv
  <2>2. QED
    BY <1>2, <2>1, FlowGoesOn
<1>12. QED
  BY <1>9, <1>10, <1>11 DEF StickyIInv

(* A goroutine has read a chunk.                                           *)
LEMMA CorReadsStep ==
    ASSUME StickyIInv, NEW s \in Sides, CorReads(s)
    PROVE  StickyIInv' /\ \A d \in Sides : FlowStep(d)
<1> DEFINE o == Other(s)
<1>1. /\ o \in Sides /\ o # s /\ Other(o) = s /\ Sides = {s, o}
  BY Opposite
<1>2. StickyTypeOK /\ StickyOpen /\ Flow(s) /\ Flow(o)
  BY <1>1 DEF StickyIInv
<1>3. PICK p \in Prefixes(toTunnel[s]) :
         tmp' = [tmp EXCEPT ![s] = p] /\ toTunnel' = [toTunnel EXCEPT ![s] = Rest(@, p)]
  BY DEF CorReads
<1> DEFINE r == Rest(toTunnel[s], p)
<1> HIDE DEF o
<1>4. /\ toTunnel[s] \in Seq(StickyBytes) /\ StickyStream = Seq(StickyBytes) /\ <<>> \in Seq(StickyBytes)
  BY <1>2, SideParts
<1>5. got[o] \in Seq(StickyBytes) /\ toEnd[o] \in Seq(StickyBytes)
  BY <1>1, <1>2, SideParts
<1>6. /\ p \in Seq(StickyBytes) /\ r \in Seq(StickyBytes) /\ p \o r = toTunnel[s] /\ p # <<>>
      /\ Len(r) =< Len(toTunnel[s]) /\ Len(toTunnel[s]) \in Nat /\ Len(r) \in Nat
  BY <1>4, ChunkAndRest
<1>7. /\ cor[s] = "read" /\ cor' = [cor EXCEPT ![s] = "write"]
      /\ UNCHANGED <<stickySent, got, gone, toEnd, open>>
      /\ toTunnel' = [toTunnel EXCEPT ![s] = r]
  BY <1>3 DEF CorReads, ends
<1> HIDE DEF r
<1>8. /\ tmp' \in [Sides -> StickyStream] /\ tmp'[s] = p /\ tmp'[o] = tmp[o]
      /\ toTunnel' \in [Sides -> StickyStream] /\ toTunnel'[s] = r /\ toTunnel'[o] = toTunnel[o]
      /\ cor' \in [Sides -> {"none", "read", "write", "ended"}] /\ cor'[s] = "write" /\ cor'[o] = cor[o]
  BY <1>1, <1>2, <1>3, <1>4, <1>6, <1>7, SMTT(30) DEF StickyTypeOK
<1>9. StickyTypeOK'
  <2>1. \A side \in Sides : Len(toTunnel'[side]) =< Window /\ Len(toEnd'[side]) =< Window
    BY <1>1, <1>2, <1>6, <1>7, <1>8, LimitsArePositive DEF StickyTypeOK
  <2>2. \A side \in Sides : tmp'[side] # <<>> => cor'[side] = "write"
    BY <1>1, <1>2, <1>8 DEF StickyTypeOK
  <2>3. QED
    BY <1>2, <1>7, <1>8, <2>1, <2>2 DEF StickyTypeOK
<1>10. open.server # "no" /\ tmp[s] = <<>>
  BY <1>2, <1>7 DEF StickyOpen
<1>11. StickyOpen'
  BY <1>1, <1>2, <1>6, <1>7, <1>8, <1>10 DEF StickyOpen
<1>12. Flow(s)' /\ FlowStep(s)
  <2>1. PipeParts(StickyBytes, got[o], toEnd[o], tmp[s], r, r, p)
    BY <1>4, <1>5, <1>6, <1>10 DEF PipeParts
  <2>2. Tunnelled(got[o], toEnd[o], tmp[s] \o p, r) = Tunnelled(got[o], toEnd[o], tmp[s], p \o r)
    BY <2>1, TunnelMoves
  <2>3. tmp[s] \o p = p
    BY <1>6, <1>10, SeqsJoin
  <2>4. QED
    BY <1>2, <1>6, <1>7, <1>8, <2>2, <2>3, Zenon DEF Flow, FlowStep, o
<1>13. Flow(o)' /\ FlowStep(o)
  BY <1>1, <1>2, <1>7, <1>8, FlowGoesOn
<1>14. QED
  BY <1>1, <1>9, <1>11, <1>12, <1>13 DEF StickyIInv

(* A goroutine writes the next piece of what it has read.                  *)
LEMMA CorWritesStep ==
    ASSUME StickyIInv, NEW s \in Sides, CorWrites(s)
    PROVE  StickyIInv' /\ \A d \in Sides : FlowStep(d)
<1> DEFINE o == Other(s)
<1>1. /\ o \in Sides /\ o # s /\ Other(o) = s /\ Sides = {s, o}
  BY Opposite
<1>2. StickyTypeOK /\ StickyOpen /\ Flow(s) /\ Flow(o)
  BY <1>1 DEF StickyIInv
<1>3. PICK n \in Pieces(Len(tmp[s])) :
         Transmit(s, SubSeq(tmp[s], 1, n)) /\ tmp' = [tmp EXCEPT ![s] = SubSeq(@, n + 1, Len(@))]
  BY DEF CorWrites
<1> DEFINE w == SubSeq(tmp[s], 1, n)
           r == SubSeq(tmp[s], n + 1, Len(tmp[s]))
<1>4. /\ cor[s] = "write" /\ open[o] = "yes" /\ cor' = [cor EXCEPT ![s] = IF tmp'[s] = <<>> THEN "read" ELSE "write"]
      /\ UNCHANGED <<stickySent, got, gone, toTunnel, open>>
      /\ tmp' = [tmp EXCEPT ![s] = r]
      /\ IF gone[o] THEN UNCHANGED toEnd
         ELSE Len(toEnd[o]) + Len(w) =< Window /\ toEnd' = [toEnd EXCEPT ![o] = @ \o w]
  BY <1>3 DEF CorWrites, ends, Transmit
<1> HIDE DEF o
<1>5. /\ toTunnel[s] \in Seq(StickyBytes) /\ StickyStream = Seq(StickyBytes) /\ tmp[s] \in Seq(StickyBytes)
      /\ tmp[s] # <<>> /\ Len(tmp[s]) \in Nat \ {0}
  <2>1. toTunnel[s] \in Seq(StickyBytes) /\ StickyStream = Seq(StickyBytes) /\ tmp[s] \in Seq(StickyBytes)
    BY <1>2, SideParts
  <2>2. tmp[s] # <<>>
    BY <1>2, <1>4 DEF StickyOpen
  <2>3. QED
    BY <2>1, <2>2
<1>6. got[o] \in Seq(StickyBytes) /\ toEnd[o] \in Seq(StickyBytes)
  BY <1>1, <1>2, SideParts
<1>7. n \in 1..Len(tmp[s])
  BY <1>5 DEF Pieces
<1>8. w \in Seq(StickyBytes) /\ r \in Seq(StickyBytes) /\ w \o r = tmp[s]
  BY <1>5, <1>7, Splits
<1> HIDE DEF w, r
<1>9. toEnd[o] \o w \in Seq(StickyBytes) /\ Len(toEnd[o] \o w) = Len(toEnd[o]) + Len(w)
  BY <1>6, <1>8, SeqsJoin
<1>10. /\ tmp' \in [Sides -> StickyStream] /\ tmp'[s] = r /\ tmp'[o] = tmp[o]
       /\ toEnd' \in [Sides -> StickyStream] /\ toEnd'[s] = toEnd[s]
       /\ toEnd'[o] = IF gone[o] THEN toEnd[o] ELSE toEnd[o] \o w
  BY <1>1, <1>2, <1>4, <1>5, <1>8, <1>9, ZenonT(40) DEF StickyTypeOK
<1>11. /\ cor' \in [Sides -> {"none", "read", "write", "ended"}] /\ cor'[o] = cor[o]
       /\ cor'[s] = IF r = <<>> THEN "read" ELSE "write"
  BY <1>1, <1>2, <1>4, <1>10 DEF StickyTypeOK
<1>12. StickyTypeOK'
  <2>1. \A side \in Sides : Len(toTunnel'[side]) =< Window /\ Len(toEnd'[side]) =< Window
    BY <1>1, <1>2, <1>4, <1>9, <1>10, LimitsArePositive DEF StickyTypeOK
  <2>2. \A side \in Sides : tmp'[side] # <<>> => cor'[side] = "write"
    BY <1>1, <1>2, <1>10, <1>11 DEF StickyTypeOK
  <2>3. QED
    BY <1>2, <1>4, <1>10, <1>11, <2>1, <2>2 DEF StickyTypeOK
<1>13. open.server # "no"
  BY <1>2, <1>4 DEF StickyOpen
<1>14. StickyOpen'
  BY <1>1, <1>2, <1>4, <1>10, <1>11, <1>13 DEF StickyOpen
<1>15. open[s] = "yes"
  BY <1>1, <1>2, <1>4, <1>13, Opposite DEF StickyOpen, Sides
<1>16. Flow(s)' /\ FlowStep(s)
  <2>1. CASE gone[o]
    <3>1. Other(s) = o
      BY DEF o
    <3>2. QED
      BY <1>2, <1>4, <1>10, <2>1, <3>1, FlowGoesOn
  <2>2. CASE ~gone[o]
    <3>1. PipeParts(StickyBytes, got[o], toEnd[o], r, toTunnel[s], toTunnel[s], w)
      BY <1>5, <1>6, <1>8 DEF PipeParts
    <3>2. Tunnelled(got[o], toEnd[o] \o w, r, toTunnel[s]) = Tunnelled(got[o], toEnd[o], w \o r, toTunnel[s])
      BY <3>1, TunnelMoves
    <3>3. Tunnelled(got[o], toEnd[o] \o w, r, toTunnel[s]) = stickySent[s]
      BY <1>2, <1>8, <1>15, <2>2, <3>2, Zenon DEF Flow, o
    <3>4. PipeParts(StickyBytes, got[o], toEnd[o] \o w, r, toTunnel[s], toTunnel[s], w)
      BY <1>5, <1>6, <1>8, <1>9 DEF PipeParts
    <3>5. Begins(got[o] \o (toEnd[o] \o w), Tunnelled(got[o], toEnd[o] \o w, r, toTunnel[s]), StickyBytes)
      BY <3>4, TunnelMoves, Zenon
    <3>6. QED
      BY <1>4, <1>10, <2>2, <3>3, <3>5, Zenon DEF Flow, FlowStep, o
  <2>3. QED
    BY <2>1, <2>2
<1>17. Flow(o)' /\ FlowStep(o)
  BY <1>1, <1>2, <1>4, <1>10, FlowGoesOn
<1>18. QED
  BY <1>1, <1>12, <1>14, <1>16, <1>17 DEF StickyIInv

(* Every step of the tunnel preserves the invariant and is a step of the   *)
(* abstract stream in each direction.                                      *)
LEMMA StickyStep ==
    ASSUME StickyIInv, [StickyNext]_stickyVars
    PROVE  /\ StickyIInv'
           /\ [ToServer!Next]_<<stickySent.client, got.server>>
           /\ [ToClient!Next]_<<stickySent.server, got.client>>
<1>1. StickyIInv' /\ \A d \in Sides : FlowStep(d)
  <2>1. CASE Dial \/ StickyDialFails
    BY <2>1, StickyDialStep, Zenon
  <2>2. CASE \E s \in Sides : EndSends(s) \/ EndReads(s) \/ EndCloses(s) \/ Cor(s)
    <3>1. PICK s \in Sides : EndSends(s) \/ EndReads(s) \/ EndCloses(s) \/ Cor(s)
      BY <2>2
    <3>2. QED
      BY <3>1, EndSendsStep, EndReadsStep, EndClosesStep, CorFailsStep, CorReadsStep, CorWritesStep, Zenon DEF Cor
  <2>3. CASE UNCHANGED stickyVars
    <3>1. /\ stickySent' = stickySent /\ got' = got /\ gone' = gone /\ toTunnel' = toTunnel /\ toEnd' = toEnd
          /\ open' = open /\ cor' = cor /\ tmp' = tmp
      BY <2>3 DEF stickyVars, ends
    <3>2. StickyTypeOK' /\ StickyOpen'
      BY <3>1 DEF StickyIInv, StickyTypeOK, StickyOpen
    <3>3. ASSUME NEW d \in Sides PROVE Flow(d)' /\ FlowStep(d)
      BY <3>1, FlowGoesOn DEF StickyIInv
    <3>4. QED
      BY <3>2, <3>3 DEF StickyIInv
  <2>4. QED
    BY <2>1, <2>2, <2>3, Zenon DEF StickyNext
<1>2. FlowStep("client") /\ FlowStep("server") /\ Other("client") = "server" /\ Other("server") = "client"
  BY <1>1, Opposite DEF Sides
<1>3. StickyStream = Seq(1..SendLimit)
  BY Zenon DEF StickyStream
<1>4. [ToServer!Next]_<<stickySent.client, got.server>>
  BY <1>2, <1>3, Zenon DEF FlowStep, ToServer!Next, ToServer!Write, ToServer!Read
<1>5. [ToClient!Next]_<<stickySent.server, got.client>>
  BY <1>2, <1>3, Zenon DEF FlowStep, ToClient!Next, ToClient!Write, ToClient!Read
<1>6. QED
  BY <1>1, <1>4, <1>5

-----------------------------------------------------------------------------
(* Ws2Tcp: the bytes of its streams. *)
RawBytes == 1..Frames * FrameLen

(* k frames are k * FrameLen bytes.                                        *)
LEMMA FrameCount == \A k \in Nat : (k * FrameLen) \div FrameLen = k
<1>1. FrameLen \in Nat \ {0}
  BY FramesArePositive
<1>2. ASSUME NEW k \in Nat PROVE (k * FrameLen) \div FrameLen = k
  BY <1>1
<1>3. QED
  BY <1>2

(* A frame of the client is a sequence of FrameLen bytes.                  *)
LEMMA FrameIsStream ==
    ASSUME NEW k \in 1..Frames
    PROVE  /\ Frame(k) \in Seq(RawBytes) /\ Len(Frame(k)) = FrameLen /\ FrameLen \in Nat \ {0}
<1>0. FrameLen \in Nat \ {0} /\ Frames \in Nat \ {0}
  BY FramesArePositive
<1>1. ASSUME NEW b \in 1..FrameLen PROVE (k - 1) * FrameLen + b \in 1..Frames * FrameLen
  <2>1. k * FrameLen =< Frames * FrameLen
    BY <1>0
  <2>2. (k - 1) * FrameLen + FrameLen = k * FrameLen /\ (k - 1) * FrameLen \in Nat /\ Frames * FrameLen \in Nat
    BY <1>0
  <2>3. QED
    BY <1>0, <2>1, <2>2
<1>2. Frame(k) \in [1..FrameLen -> 1..Frames * FrameLen]
  BY <1>1 DEF Frame
<1> DEFINE bytes == 1..Frames * FrameLen
<1>3. Frame(k) \in [1..FrameLen -> bytes]
  BY <1>2
<1> HIDE DEF bytes
<1>4. Frame(k) \in Seq(bytes) /\ Len(Frame(k)) = FrameLen
  BY <1>0, <1>3
<1>5. QED
  BY <1>0, <1>4, Zenon DEF RawBytes, bytes

(* A named set: the stages of onWebsocket.                                 *)
RawStages == {"idle", "dialed", "upgraded", "src session", "dst session", "src data", "done", "failed"}

RawBoth == RawUp("src") /\ RawUp("dst")

(* Types; the client never gets a wrong answer.                            *)
RawShape ==
    /\ rawPhase \in {"dial", "write", "read", "done", "failed"}
    /\ rawWritten \in Seq(RawBytes) /\ rawRead \in Seq(RawBytes)
    /\ rawNet \in [RawLegs -> Seq(RawBytes)]
    /\ rawHandler \in RawStages
    /\ rawConn \in [RawConns -> {"none", "open", "closing", "closed", "alone"}]
    /\ rawSession \in [RawConns -> BOOLEAN] /\ raw \in [RawConns -> BOOLEAN]
    /\ parsed \in [RawConns -> Seq(RawBytes)]

(* A frame of the client is not answered, or it has refused the answer.    *)
FrameOut == rawPhase = "read" \/ (rawPhase = "failed" /\ RawBoth)

(* The client's loop: it writes a frame when the one before is answered.   *)
RawLoop ==
    /\ \E n \in 0..Frames : /\ Len(rawWritten) = n * FrameLen
                            /\ rawPhase \in {"dial", "write"} => n < Frames
                            /\ FrameOut => n > 0
    /\ rawPhase = "dial" => rawWritten = <<>>
    /\ rawPhase \in {"dial", "write", "done"} => rawRead = rawWritten /\ rawNet.toClient = <<>>
    /\ FrameOut => rawWritten = rawRead \o LastFrame

(* The client is answered 101 when both connections are there; it does not *)
(* fail before the dial but by losing its connection.                      *)
RawLinked ==
    /\ rawPhase \in {"write", "read", "done"} => rawHandler \notin {"idle", "dialed", "failed"}
    /\ rawHandler \in {"idle", "failed"} => rawConn.dst = "none"
    /\ rawPhase = "failed" /\ rawHandler = "idle" => ~RawUp("src")

(* What the proxy's own engine has taken, and what is on the way, is the   *)
(* frame that is not answered.                                             *)
Lost == parsed.src \o parsed.dst
OnTheWay == Pipe(Lost, rawNet.toClient, rawNet.fromApp, rawNet.toApp, rawNet.toProxy) = LastFrame

RawFlow ==
    /\ FrameOut => \E x \in Seq(RawBytes) : Begins(x \o rawNet.toClient, LastFrame, RawBytes)
    /\ RawBoth /\ FrameOut => OnTheWay
    /\ rawPhase = "dial" \/ (RawBoth /\ rawPhase \in {"write", "done"}) =>
           rawNet.fromApp = <<>> /\ rawNet.toApp = <<>> /\ rawNet.toProxy = <<>> /\ Untouched
    /\ RawBoth /\ ~Untouched => rawRead = <<>>

(* Nothing passes a connection that has no data handler yet.               *)
RawHandlers ==
    /\ ~raw.src => /\ rawNet.toApp = <<>> /\ rawNet.fromApp = <<>> /\ rawNet.toClient = <<>>
                   /\ parsed.dst = <<>> /\ rawRead = <<>>
    /\ ~raw.dst => rawNet.toClient = <<>> /\ rawRead = <<>>

RawIInv == RawShape /\ RawLoop /\ RawLinked /\ RawFlow /\ RawHandlers

(* The frame that is not answered yet is one of the client's.              *)
LEMMA LastFrameIsStream ==
    ASSUME RawShape, RawLoop, FrameOut
    PROVE  \E n \in 1..Frames : /\ Len(rawWritten) = n * FrameLen /\ LastFrame = Frame(n)
                                /\ LastFrame \in Seq(RawBytes) /\ Len(LastFrame) = FrameLen
<1>0. PICK n \in 0..Frames : Len(rawWritten) = n * FrameLen /\ n > 0
  BY Zenon DEF RawLoop
<1>1. n \in 1..Frames /\ Len(rawWritten) = n * FrameLen
  BY <1>0, FramesArePositive
<1>2. Len(rawWritten) \div FrameLen = n
  BY <1>1, FrameCount
<1>3. LastFrame = Frame(n)
  BY <1>2 DEF LastFrame
<1>4. Frame(n) \in Seq(RawBytes) /\ Len(Frame(n)) = FrameLen
  BY <1>1, FrameIsStream
<1>5. QED
  BY <1>1, <1>3, <1>4

(* Parts of the pipe are sequences of bytes.                               *)
LEMMA RawParts ==
    ASSUME RawShape
    PROVE  /\ rawNet.toClient \in Seq(RawBytes) /\ rawNet.fromApp \in Seq(RawBytes)
           /\ rawNet.toApp \in Seq(RawBytes) /\ rawNet.toProxy \in Seq(RawBytes)
           /\ <<>> \in Seq(RawBytes) /\ DOMAIN rawNet = RawLegs
           /\ RawLegs = {"toProxy", "toApp", "fromApp", "toClient"}
           /\ parsed.src \in Seq(RawBytes) /\ parsed.dst \in Seq(RawBytes) /\ Lost \in Seq(RawBytes)
           /\ Untouched => Lost = <<>>
<1>1. /\ rawNet.toClient \in Seq(RawBytes) /\ rawNet.fromApp \in Seq(RawBytes)
      /\ rawNet.toApp \in Seq(RawBytes) /\ rawNet.toProxy \in Seq(RawBytes)
      /\ <<>> \in Seq(RawBytes) /\ DOMAIN rawNet = RawLegs
      /\ RawLegs = {"toProxy", "toApp", "fromApp", "toClient"}
  BY DEF RawShape, RawLegs
<1>2. parsed.src \in Seq(RawBytes) /\ parsed.dst \in Seq(RawBytes)
  BY DEF RawShape, RawConns
<1>3. Lost \in Seq(RawBytes)
  BY <1>2, SeqsJoin DEF Lost
<1>4. ASSUME Untouched PROVE Lost = <<>>
  <2>1. parsed.src = <<>> /\ parsed.dst = <<>> /\ <<>> \o <<>> = <<>>
    BY <1>1, <1>4, SeqsJoin DEF Untouched, RawConns
  <2>2. QED
    BY <2>1 DEF Lost
<1>5. QED
  BY <1>1, <1>2, <1>3, <1>4

(* The two connections are each other's peer.                              *)
LEMMA RawPeers ==
    /\ RawPeer("src") = "dst" /\ RawPeer("dst") = "src" /\ RawConns = {"src", "dst"}
    /\ "src" \in RawConns /\ "dst" \in RawConns
  BY DEF RawPeer, RawConns

(* The parts of a pipe after the first are the rest of what it begins with.*)
LEMMA PipeFollows ==
    ASSUME NEW S, NEW a, NEW b, NEW c, NEW d, NEW e, PipeParts(S, a, b, c, d, e, a)
    PROVE  Follows(a, b, c, d, e)
<1>0. a \in Seq(S) /\ b \in Seq(S) /\ c \in Seq(S) /\ d \in Seq(S) /\ e \in Seq(S)
  BY DEF PipeParts
<1> DEFINE bc == b \o c
           bcd == bc \o d
<1>1. bc \in Seq(S) /\ bcd \in Seq(S) /\ <<>> \o b = b
  BY <1>0, SeqsJoin
<1>2. Assoc(a, b, c)
  BY <1>0, SeqsAssociate
<1> HIDE DEF bc
<1>3. Assoc(a, bc, d)
  BY <1>0, <1>1, SeqsAssociate
<1> HIDE DEF bcd
<1>4. Assoc(a, bcd, e)
  BY <1>0, <1>1, SeqsAssociate
<1>5. QED
  BY <1>1, <1>2, <1>3, <1>4, Zenon DEF Follows, Pipe, Assoc, bc, bcd

(* The invariant says what the run checks.                                 *)
LEMMA RawIsIntact == RawIInv => RawTypeOK /\ RawStreamIntact
<1> SUFFICES ASSUME RawIInv PROVE RawTypeOK /\ RawStreamIntact
  OBVIOUS
<1>0. RawShape /\ RawLoop /\ RawLinked /\ RawFlow
  BY DEF RawIInv
<1>1. RawTypeOK
  <2>1. rawPhase \in {"dial", "write", "read", "done", "failed", "wrong answer"}
    BY <1>0, Zenon DEF RawShape
  <2>2. QED
    BY <1>0, <2>1, Zenon DEF RawShape, RawTypeOK, RawStages, RawStream, RawBytes
<1>2. ASSUME RawBoth
      PROVE  /\ Pipe(rawRead \o Lost, rawNet.toClient, rawNet.fromApp, rawNet.toApp, rawNet.toProxy) = rawWritten
             /\ Untouched \/ (rawRead = <<>> /\ Len(rawWritten) = FrameLen)
  <2>1. CASE rawPhase \in {"dial", "write", "done"}
    <3>1. /\ rawRead = rawWritten /\ rawNet.toClient = <<>> /\ rawNet.fromApp = <<>> /\ rawNet.toApp = <<>>
          /\ rawNet.toProxy = <<>> /\ Untouched
      BY <1>0, <1>2, <2>1 DEF RawLoop, RawFlow
    <3>2. rawWritten \o <<>> = rawWritten /\ Lost = <<>>
      BY <1>0, <3>1, SeqsJoin, RawParts DEF RawShape
    <3>3. QED
      BY <3>1, <3>2 DEF Pipe
  <2>2. CASE FrameOut
    <3>1. OnTheWay /\ rawWritten = rawRead \o LastFrame
      BY <1>0, <1>2, <2>2 DEF RawLoop, RawFlow
    <3>2. rawRead \in Seq(RawBytes) /\ Lost \in Seq(RawBytes) /\ rawNet.toClient \in Seq(RawBytes)
      BY <1>0, RawParts DEF RawShape
    <3>3. Lost \o rawNet.toClient \in Seq(RawBytes) /\ <<>> \o Lost = Lost /\ <<>> \in Seq(RawBytes)
      BY <3>2, SeqsJoin
    <3>4. /\ PipeParts(RawBytes, rawRead, rawNet.toClient, rawNet.fromApp, rawNet.toApp, rawNet.toProxy, Lost)
          /\ PipeParts(RawBytes, <<>>, rawNet.toClient, rawNet.fromApp, rawNet.toApp, rawNet.toProxy, Lost)
          /\ PipeParts(RawBytes, rawRead, Lost \o rawNet.toClient, rawNet.fromApp, rawNet.toApp, rawNet.toProxy,
                       rawRead)
      BY <1>0, <3>2, <3>3, RawParts DEF PipeParts
    <3>5. /\ Pipe(rawRead \o Lost, rawNet.toClient, rawNet.fromApp, rawNet.toApp, rawNet.toProxy)
               = Pipe(rawRead, Lost \o rawNet.toClient, rawNet.fromApp, rawNet.toApp, rawNet.toProxy)
          /\ Pipe(<<>> \o Lost, rawNet.toClient, rawNet.fromApp, rawNet.toApp, rawNet.toProxy)
               = Pipe(<<>>, Lost \o rawNet.toClient, rawNet.fromApp, rawNet.toApp, rawNet.toProxy)
      <4>1. Pipe(rawRead \o Lost, rawNet.toClient, rawNet.fromApp, rawNet.toApp, rawNet.toProxy)
              = Pipe(rawRead, Lost \o rawNet.toClient, rawNet.fromApp, rawNet.toApp, rawNet.toProxy)
        BY <3>4, PipeMoves
      <4>2. Pipe(<<>> \o Lost, rawNet.toClient, rawNet.fromApp, rawNet.toApp, rawNet.toProxy)
              = Pipe(<<>>, Lost \o rawNet.toClient, rawNet.fromApp, rawNet.toApp, rawNet.toProxy)
        <5>1. PICK nothing : nothing = <<>>
          OBVIOUS
        <5>2. PipeParts(RawBytes, nothing, rawNet.toClient, rawNet.fromApp, rawNet.toApp, rawNet.toProxy, Lost)
          BY <3>4, <5>1, Zenon
        <5>3. Pipe(nothing \o Lost, rawNet.toClient, rawNet.fromApp, rawNet.toApp, rawNet.toProxy)
                = Pipe(nothing, Lost \o rawNet.toClient, rawNet.fromApp, rawNet.toApp, rawNet.toProxy)
          BY <5>2, PipeMoves
        <5>4. QED
          BY <5>1, <5>3, Zenon
      <4>3. QED
        BY <4>1, <4>2
    <3>6. Follows(rawRead, Lost \o rawNet.toClient, rawNet.fromApp, rawNet.toApp, rawNet.toProxy)
      BY <3>4, PipeFollows, Zenon
    <3>7. Pipe(rawRead \o Lost, rawNet.toClient, rawNet.fromApp, rawNet.toApp, rawNet.toProxy) = rawWritten
      BY <3>1, <3>3, <3>5, <3>6, Zenon DEF OnTheWay, Follows
    <3>8. ASSUME ~Untouched PROVE rawRead = <<>> /\ Len(rawWritten) = FrameLen
      <4>1. rawRead = <<>>
        BY <1>0, <1>2, <3>8 DEF RawFlow
      <4>2. LastFrame \in Seq(RawBytes) /\ Len(LastFrame) = FrameLen
        BY <1>0, <2>2, LastFrameIsStream
      <4>3. <<>> \o LastFrame = LastFrame
        BY <4>2, SeqsJoin
      <4>4. QED
        BY <3>1, <4>1, <4>2, <4>3
    <3>9. QED
      BY <3>7, <3>8
  <2>3. QED
    BY <1>0, <1>2, <2>1, <2>2 DEF RawShape, FrameOut
<1>3. RawStreamIntact
  <2>1. Assoc(rawRead, parsed.src, parsed.dst)
    BY <1>0, RawParts, SeqsAssociate DEF RawShape
  <2>2. QED
    BY <1>2, <2>1, Zenon DEF RawStreamIntact, RawBoth, Pipe, Assoc, Lost
<1>4. QED
  BY <1>1, <1>3

(* Nothing has been written.                                               *)
LEMMA RawInitial == RawInit => RawIInv
<1> SUFFICES ASSUME RawInit PROVE RawIInv
  OBVIOUS
<1>1. <<>> \in Seq(RawBytes) /\ Len(<<>>) = 0 /\ "src" \in RawConns /\ "dst" \in RawConns
  BY SeqsJoin DEF RawConns
<1>2. /\ rawNet.toClient = <<>> /\ rawNet.fromApp = <<>> /\ rawNet.toApp = <<>> /\ rawNet.toProxy = <<>>
      /\ rawConn.src = "open" /\ rawConn.dst = "none" /\ parsed.src = <<>> /\ parsed.dst = <<>> /\ Untouched
  BY DEF RawInit, RawLegs, RawConns, Untouched
<1>3. rawHandler \in RawStages
  BY Zenon DEF RawInit, RawStages
<1>4. RawShape
  BY <1>1, <1>3 DEF RawInit, RawShape
<1>5. RawLoop
  <2>1. 0 \in 0..Frames /\ 0 < Frames /\ 0 * FrameLen = 0
    BY FramesArePositive
  <2>2. QED
    BY <1>1, <1>2, <2>1 DEF RawInit, RawLoop, FrameOut
<1>6. RawLinked /\ RawFlow /\ RawHandlers
  BY <1>2 DEF RawInit, RawLinked, RawFlow, RawHandlers, FrameOut
<1>7. QED
  BY <1>4, <1>5, <1>6 DEF RawIInv

(* The loop and what is on the way stay so when no byte moves and nothing  *)
(* opens.                                                                  *)
LEMMA RawLoopGoesOn ==
    ASSUME RawLoop, UNCHANGED <<rawPhase, rawWritten, rawRead>>, rawNet'.toClient = rawNet.toClient,
           FrameOut' => FrameOut
    PROVE  RawLoop'
<1>1. LastFrame' = LastFrame
  BY DEF LastFrame
<1>2. QED
  BY <1>1 DEF RawLoop

LEMMA RawFlowGoesOn ==
    ASSUME RawLoop, RawFlow, UNCHANGED <<rawPhase, rawWritten, rawRead, rawNet, parsed>>, FrameOut' => FrameOut,
           RawBoth' => RawBoth
    PROVE  RawLoop' /\ RawFlow'
<1>1. LastFrame' = LastFrame /\ (Untouched' <=> Untouched) /\ Lost' = Lost
  BY DEF LastFrame, Untouched, Lost
<1>2. OnTheWay' <=> OnTheWay
  BY <1>1 DEF OnTheWay
<1>3. RawFlow'
  BY <1>1, <1>2 DEF RawFlow
<1>4. RawLoop'
  BY RawLoopGoesOn
<1>5. QED
  BY <1>3, <1>4

(* The client's steps that move no byte to or from it.                     *)
LEMMA RawClientRestStep == RawIInv /\ (RawClientDialed \/ RawClientFails \/ RawClientLeaves) => RawIInv'
<1> SUFFICES ASSUME RawIInv, RawClientDialed \/ RawClientFails \/ RawClientLeaves PROVE RawIInv'
  OBVIOUS
<1>0. RawShape /\ RawLoop /\ RawLinked /\ RawFlow /\ RawHandlers
  BY DEF RawIInv
<1>1. CASE RawClientDialed
  <2>1. /\ rawPhase = "dial" /\ rawHandler \notin {"idle", "dialed"}
        /\ rawPhase' = IF rawHandler = "failed" THEN "failed" ELSE "write"
        /\ UNCHANGED <<rawWritten, rawRead, rawNet, rawHandler, rawConn, rawSession, raw, parsed>>
    BY <1>1 DEF RawClientDialed
  <2>2. ~FrameOut'
    <3>1. rawHandler = "failed" => ~RawBoth'
      BY <1>0, <2>1 DEF RawLinked, RawBoth, RawUp
    <3>2. QED
      BY <2>1, <3>1 DEF FrameOut
  <2>3. RawShape' /\ RawLoop' /\ RawHandlers'
    BY <1>0, <2>1, <2>2 DEF RawShape, RawLoop, RawHandlers
  <2>4. RawLinked'
    BY <1>0, <2>1 DEF RawLinked, RawUp
  <2>5. RawFlow'
    BY <1>0, <2>1, <2>2 DEF RawFlow, Untouched
  <2>6. QED
    BY <2>3, <2>4, <2>5 DEF RawIInv
<1>2. CASE RawClientFails
  <2>1. /\ rawPhase \in {"dial", "write", "read"} /\ rawConn.src # "open" /\ rawPhase' = "failed"
        /\ UNCHANGED <<rawWritten, rawRead, rawNet, rawHandler, rawConn, rawSession, raw, parsed>>
    BY <1>2 DEF RawClientFails, RawUp
  <2>2. ~FrameOut' /\ ~RawBoth'
    BY <2>1 DEF FrameOut, RawBoth, RawUp
  <2>3. RawShape' /\ RawLoop' /\ RawHandlers'
    BY <1>0, <2>1, <2>2 DEF RawShape, RawLoop, RawHandlers
  <2>4. RawLinked' /\ RawFlow'
    BY <1>0, <2>1, <2>2 DEF RawLinked, RawFlow, RawUp
  <2>5. QED
    BY <2>3, <2>4 DEF RawIInv
<1>3. CASE RawClientLeaves
  <2>1. /\ rawConn.src = "open" /\ rawPhase' = IF rawPhase = "done" THEN "done" ELSE "failed"
        /\ rawConn' = [rawConn EXCEPT !["src"] = "closing"] /\ rawNet' = [rawNet EXCEPT !["toClient"] = <<>>]
        /\ UNCHANGED <<rawWritten, rawRead, rawHandler, rawSession, raw, parsed>>
    BY <1>3 DEF RawClientLeaves, RawUp, RawClose
  <2>2. /\ rawNet' \in [RawLegs -> Seq(RawBytes)] /\ rawNet'.toClient = <<>>
        /\ rawNet'.fromApp = rawNet.fromApp /\ rawNet'.toApp = rawNet.toApp
    BY <1>0, <2>1, RawParts DEF RawShape
  <2>3. /\ rawConn' \in [RawConns -> {"none", "open", "closing", "closed", "alone"}]
        /\ rawConn'.src = "closing" /\ rawConn'.dst = rawConn.dst
    BY <1>0, <2>1, RawPeers DEF RawShape
  <2>4. ~FrameOut' /\ ~RawBoth'
    BY <2>1, <2>3 DEF FrameOut, RawBoth, RawUp
  <2>5. RawShape' /\ RawHandlers'
    BY <1>0, <2>1, <2>2, <2>3 DEF RawShape, RawHandlers
  <2>6. RawLoop'
    BY <1>0, <2>1, <2>2, <2>4 DEF RawLoop, RawShape
  <2>7. RawLinked' /\ RawFlow'
    BY <1>0, <2>1, <2>3, <2>4 DEF RawLinked, RawFlow, RawUp
  <2>8. QED
    BY <2>5, <2>6, <2>7 DEF RawIInv
<1>4. QED
  BY <1>1, <1>2, <1>3

(* The client's next frame: nothing else is on the way.                    *)
LEMMA RawWriteStep == RawIInv /\ RawClientWrite => RawIInv' /\ RawEcho!Write
<1> SUFFICES ASSUME RawIInv, RawClientWrite PROVE RawIInv' /\ RawEcho!Write
  OBVIOUS
<1>0. RawShape /\ RawLoop /\ RawLinked /\ RawFlow /\ RawHandlers
  BY DEF RawIInv
<1>1. rawPhase = "write" /\ rawPhase' = "read"
  BY DEF RawClientWrite
<1>2. PICK n \in 0..Frames : Len(rawWritten) = n * FrameLen /\ n < Frames
  BY <1>0, <1>1 DEF RawLoop
<1> DEFINE f == Frame(n + 1)
<1>3. f \in Seq(RawBytes) /\ Len(f) = FrameLen /\ FrameLen \in Nat \ {0} /\ n + 1 \in 1..Frames
  <2>1. n + 1 \in 1..Frames
    BY <1>2, FramesArePositive
  <2>2. QED
    BY <2>1, FrameIsStream
<1>4. Len(rawWritten) \div FrameLen = n
  BY <1>2, FrameCount
<1>5. /\ rawWritten' = rawWritten \o f
      /\ rawNet' = IF RawUp("src") THEN [rawNet EXCEPT !["toProxy"] = @ \o f] ELSE rawNet
      /\ UNCHANGED <<rawRead, rawHandler, rawConn, rawSession, raw, parsed>>
  BY <1>4 DEF RawClientWrite, NextFrame
<1> HIDE DEF f
<1>6. rawWritten \in Seq(RawBytes) /\ rawNet.toProxy \in Seq(RawBytes)
  BY <1>0, RawParts DEF RawShape
<1>7. /\ rawWritten \o f \in Seq(RawBytes) /\ Len(rawWritten \o f) = Len(rawWritten) + FrameLen
      /\ Len(rawWritten) \in Nat /\ Begins(rawWritten, rawWritten \o f, RawBytes)
  <2>1. rawWritten \o f \in Seq(RawBytes) /\ Len(rawWritten \o f) = Len(rawWritten) + Len(f)
        /\ Len(rawWritten) \in Nat
    BY <1>3, <1>6, SeqsJoin
  <2>2. QED
    BY <1>3, <1>6, <2>1 DEF Begins
<1>8. rawNet.toProxy \o f \in Seq(RawBytes) /\ <<>> \o f = f
  BY <1>3, <1>6, SeqsJoin
<1>9. /\ rawNet' \in [RawLegs -> Seq(RawBytes)] /\ rawNet'.toClient = rawNet.toClient
      /\ rawNet'.fromApp = rawNet.fromApp /\ rawNet'.toApp = rawNet.toApp
      /\ RawUp("src") => rawNet'.toProxy = rawNet.toProxy \o f
  BY <1>0, <1>5, <1>8, RawParts DEF RawShape
<1>10. RawShape'
  BY <1>0, <1>1, <1>5, <1>7, <1>9 DEF RawShape
<1>11. Len(rawWritten') = (n + 1) * FrameLen
  BY <1>2, <1>3, <1>5, <1>7
<1>12. LastFrame' = f
  <2>1. Len(rawWritten') \div FrameLen = n + 1
    BY <1>2, <1>11, FrameCount
  <2>2. QED
    BY <2>1 DEF LastFrame, f
<1>13. RawLoop'
  <2>1. n + 1 \in 0..Frames /\ n + 1 > 0
    BY <1>3, FramesArePositive
  <2>2. rawRead = rawWritten
    BY <1>0, <1>1 DEF RawLoop
  <2>3. QED
    BY <1>1, <1>5, <1>11, <1>12, <2>1, <2>2 DEF RawLoop, FrameOut
<1>14. RawLinked' /\ RawHandlers'
  BY <1>0, <1>1, <1>5, <1>9 DEF RawLinked, RawHandlers, RawUp
<1>15. RawFlow'
  <2>1. <<>> \in Seq(RawBytes) /\ rawNet.toClient = <<>>
    BY <1>0, <1>1, RawParts DEF RawLoop
  <2>2. <<>> \o <<>> = <<>> /\ <<>> \o f = f
    BY <1>3, SeqsJoin
  <2>3. Begins(<<>> \o rawNet'.toClient, LastFrame', RawBytes)
    BY <1>3, <1>9, <1>12, <2>1, <2>2 DEF Begins
  <2>4. ASSUME RawBoth' PROVE OnTheWay' /\ Untouched'
    <3>1. RawBoth
      BY <1>5, <2>4 DEF RawBoth, RawUp
    <3>2. rawNet.fromApp = <<>> /\ rawNet.toApp = <<>> /\ rawNet.toProxy = <<>> /\ Untouched
      BY <1>0, <1>1, <3>1 DEF RawFlow
    <3>3. rawNet'.toProxy = f
      BY <1>9, <2>2, <3>1, <3>2 DEF RawBoth
    <3>4. Pipe(<<>>, rawNet'.toClient, rawNet'.fromApp, rawNet'.toApp, rawNet'.toProxy) = f
      BY <1>9, <2>1, <2>2, <3>2, <3>3 DEF Pipe
    <3>5. Lost' = <<>> /\ Untouched'
      BY <1>0, <1>5, <3>2, RawParts DEF Lost, Untouched
    <3>6. QED
      BY <1>12, <3>4, <3>5 DEF OnTheWay
  <2>5. QED
    BY <1>1, <2>1, <2>3, <2>4 DEF RawFlow
<1>16. RawEcho!Write
  <2>1. SubSeq(rawWritten \o f, 1, Len(rawWritten)) = rawWritten
    BY <1>6, <1>7, BeginsOn
  <2>2. Len(rawWritten') > Len(rawWritten)
    BY <1>3, <1>5, <1>7
  <2>3. QED
    BY <1>5, <1>7, <2>1, <2>2 DEF RawEcho!Write, RawBytes
<1>17. QED
  BY <1>10, <1>13, <1>14, <1>15, <1>16 DEF RawIInv

(* A frame that the client can read is the one it waits for.               *)
LEMMA RawReadStep == RawIInv /\ RawClientRead => RawIInv' /\ [RawEcho!Read]_<<rawWritten, rawRead>>
<1> SUFFICES ASSUME RawIInv, RawClientRead PROVE RawIInv' /\ [RawEcho!Read]_<<rawWritten, rawRead>>
  OBVIOUS
<1>0. RawShape /\ RawLoop /\ RawLinked /\ RawFlow /\ RawHandlers
  BY DEF RawIInv
<1>1. rawPhase = "read" /\ UNCHANGED <<rawWritten, rawHandler, rawConn, rawSession, raw, parsed>>
  BY DEF RawClientRead
<1> DEFINE in == rawNet.toClient
           s == FirstFrame(in)
<1>2. PICK n \in 1..Frames : /\ Len(rawWritten) = n * FrameLen /\ LastFrame = Frame(n)
                             /\ LastFrame \in Seq(RawBytes) /\ Len(LastFrame) = FrameLen
  BY <1>0, <1>1, LastFrameIsStream DEF FrameOut
<1>3. PICK x \in Seq(RawBytes) : Begins(x \o in, LastFrame, RawBytes)
  BY <1>0, <1>1 DEF RawFlow, FrameOut
<1>4. in \in Seq(RawBytes) /\ Len(in) \in Nat /\ rawRead \in Seq(RawBytes) /\ rawWritten \in Seq(RawBytes)
  BY <1>0, RawParts DEF RawShape
<1>5. in # <<>> /\ FrameLen \in Nat \ {0} /\ Len(in) > 0
  <2>1. in # <<>>
    BY Zenon DEF RawClientRead
  <2>2. QED
    BY <1>4, <2>1, FramesArePositive
<1>6. x \o in \in Seq(RawBytes) /\ Len(x \o in) = Len(x) + Len(in) /\ Len(x) \in Nat
  <2> HIDE DEF in
  <2>1. QED
    BY <1>4, SeqsJoin
<1>7. Len(x) + Len(in) =< FrameLen
  <2> DEFINE y == x \o in
  <2>1. y \in Seq(RawBytes) /\ Begins(y, LastFrame, RawBytes) /\ Len(y) = Len(x) + Len(in)
    BY <1>3, <1>6
  <2> HIDE DEF y
  <2>2. Len(y) =< Len(LastFrame)
    BY <1>2, <2>1, BeginsOn
  <2>3. QED
    BY <1>2, <2>1, <2>2
<1>8. s = in
  <2>1. s = SubSeq(in, 1, IF Len(in) < FrameLen THEN Len(in) ELSE FrameLen)
    BY DEF FirstFrame
  <2>2. s = SubSeq(in, 1, Len(in))
    BY <1>4, <1>5, <1>6, <1>7, <2>1
  <2>3. QED
    BY <1>4, <2>2, SubSeqFull
<1>9. \/ ~Starts(in) /\ rawPhase' = "failed" /\ UNCHANGED <<rawRead, rawNet>>
      \/ /\ Len(in) = FrameLen /\ rawRead' = rawRead \o in
         /\ rawNet' = [rawNet EXCEPT !["toClient"] = Rest(in, in)]
         /\ in = LastFrame => rawPhase' = IF Len(rawWritten) < Frames * FrameLen THEN "write" ELSE "done"
  BY <1>8, Zenon DEF RawClientRead
<1>10. CASE ~Starts(in) /\ rawPhase' = "failed" /\ UNCHANGED <<rawRead, rawNet>>
  <2>1. FrameOut /\ LastFrame' = LastFrame /\ Lost' = Lost /\ (Untouched' <=> Untouched) /\ (RawBoth' <=> RawBoth)
    BY <1>1, <1>10 DEF FrameOut, LastFrame, Lost, Untouched, RawBoth, RawUp
  <2>2. RawShape' /\ RawHandlers'
    BY <1>0, <1>1, <1>10 DEF RawShape, RawHandlers
  <2>3. RawLoop'
    BY <1>0, <1>1, <1>10, <2>1 DEF RawLoop
  <2>4. RawLinked'
    BY <1>0, <1>1, <1>10 DEF RawLinked, RawUp
  <2>5. RawFlow'
    <3>1. OnTheWay' <=> OnTheWay
      BY <1>10, <2>1 DEF OnTheWay
    <3>2. QED
      BY <1>0, <1>1, <1>10, <2>1, <3>1 DEF RawFlow
  <2>6. QED
    BY <1>1, <1>10, <2>2, <2>3, <2>4, <2>5 DEF RawIInv
<1>11. CASE /\ Len(in) = FrameLen /\ rawRead' = rawRead \o in
            /\ rawNet' = [rawNet EXCEPT !["toClient"] = Rest(in, in)]
            /\ in = LastFrame => rawPhase' = IF Len(rawWritten) < Frames * FrameLen THEN "write" ELSE "done"
  <2>1. Len(x) = 0 /\ x = <<>>
    BY <1>6, <1>7, <1>11
  <2>2. in = LastFrame
    <3> HIDE DEF in
    <3>1. <<>> \o in = in
      BY <1>4, SeqsJoin
    <3>2. SubSeq(LastFrame, 1, Len(in)) = in
      BY <1>2, <1>3, <1>4, <2>1, <3>1, BeginsOn
    <3>3. SubSeq(LastFrame, 1, Len(LastFrame)) = LastFrame
      BY <1>2, SubSeqFull
    <3>4. QED
      BY <1>2, <1>11, <3>2, <3>3
  <2>3. rawRead' = rawWritten
    BY <1>0, <1>1, <1>11, <2>2 DEF RawLoop, FrameOut
  <2>4. Rest(in, in) = <<>>
    BY <1>4 DEF Rest
  <2>5. /\ rawNet' \in [RawLegs -> Seq(RawBytes)] /\ rawNet'.toClient = <<>> /\ rawNet'.toProxy = rawNet.toProxy
        /\ rawNet'.fromApp = rawNet.fromApp /\ rawNet'.toApp = rawNet.toApp
    BY <1>0, <1>11, <2>4, RawParts DEF RawShape
  <2>6. rawPhase' \in {"write", "done"} /\ (rawPhase' = "write" => Len(rawWritten) < Frames * FrameLen)
    BY <1>11, <2>2
  <2>a. raw.src /\ raw.dst /\ ~FrameOut'
    BY <1>0, <1>5, <2>6 DEF RawHandlers, FrameOut
  <2>7. RawShape'
    BY <1>0, <1>1, <1>4, <2>3, <2>5, <2>6 DEF RawShape
  <2>8. RawLoop'
    <3>1. rawPhase' = "write" => n < Frames
      <4>1. SUFFICES ASSUME rawPhase' = "write", n = Frames PROVE FALSE
        BY FramesArePositive
      <4>2. Len(rawWritten) = Frames * FrameLen /\ Len(rawWritten) < Frames * FrameLen /\ Frames * FrameLen \in Nat
        BY <1>2, <1>5, <2>6, <4>1, FramesArePositive
      <4>3. QED
        BY <4>2
    <3>2. n \in 0..Frames
      BY FramesArePositive
    <3>3. QED
      BY <1>1, <1>2, <2>3, <2>5, <2>6, <2>a, <3>1, <3>2 DEF RawLoop
  <2>9. RawLinked' /\ RawHandlers'
    BY <1>0, <1>1, <2>5, <2>6, <2>a DEF RawLinked, RawHandlers, RawUp
  <2>10. RawFlow'
    <3>1. SUFFICES ASSUME RawBoth
                   PROVE  rawNet.fromApp = <<>> /\ rawNet.toApp = <<>> /\ rawNet.toProxy = <<>> /\ Untouched
      BY <1>1, <2>5, <2>6, <2>a DEF RawFlow, RawBoth, RawUp, Untouched
    <3>2. OnTheWay /\ Lost \in Seq(RawBytes)
      BY <1>0, <1>1, <3>1, RawParts DEF RawFlow, FrameOut
    <3>3. /\ rawNet.fromApp \in Seq(RawBytes) /\ rawNet.toApp \in Seq(RawBytes) /\ rawNet.toProxy \in Seq(RawBytes)
      BY <1>0, RawParts
    <3>4. Len(LastFrame) = Len(Lost) + Len(in) + Len(rawNet.fromApp) + Len(rawNet.toApp) + Len(rawNet.toProxy)
      <4>1. PipeParts(RawBytes, Lost, in, rawNet.fromApp, rawNet.toApp, rawNet.toProxy, in)
        BY <1>4, <3>2, <3>3 DEF PipeParts
      <4>2. PipeSum(Lost, in, rawNet.fromApp, rawNet.toApp, rawNet.toProxy)
        BY <4>1, PipeLength, Zenon
      <4>3. QED
        BY <3>2, <4>2, Zenon DEF OnTheWay, PipeSum
    <3>5. Len(Lost) \in Nat /\ Len(rawNet.fromApp) \in Nat /\ Len(rawNet.toApp) \in Nat /\ Len(rawNet.toProxy) \in Nat
      BY <3>2, <3>3
    <3>a. Len(LastFrame) = Len(in) /\ Len(in) \in Nat
      BY <1>2, <1>4, <1>11, Zenon
    <3>c. Len(in) = Len(Lost) + Len(in) + Len(rawNet.fromApp) + Len(rawNet.toApp) + Len(rawNet.toProxy)
      BY <3>a, <3>4, Zenon
    <3>6. Len(rawNet.fromApp) = 0 /\ Len(rawNet.toApp) = 0 /\ Len(rawNet.toProxy) = 0 /\ Len(Lost) = 0
      <4> DEFINE i == Len(in)
                 l == Len(Lost)
                 a == Len(rawNet.fromApp)
                 b == Len(rawNet.toApp)
                 c == Len(rawNet.toProxy)
      <4>1. i \in Nat /\ l \in Nat /\ a \in Nat /\ b \in Nat /\ c \in Nat
        BY <3>a, <3>5
      <4>2. i = l + i + a + b + c
        BY <3>c
      <4> HIDE DEF i, l, a, b, c
      <4>3. a = 0 /\ b = 0 /\ c = 0 /\ l = 0
        BY <4>1, <4>2
      <4>4. QED
        BY <4>3 DEF a, b, c, l
    <3>7. Untouched
      <4>1. parsed.src \in Seq(RawBytes) /\ parsed.dst \in Seq(RawBytes)
        BY <1>0, RawParts
      <4>2. parsed.src = <<>> /\ parsed.dst = <<>>
        BY <3>6, <4>1, EmptyJoin, Zenon DEF Lost
      <4>3. QED
        BY <4>2 DEF Untouched, RawConns
    <3>8. QED
      BY <3>3, <3>6, <3>7
  <2>11. RawEcho!Read
    <3>1. SubSeq(rawWritten, 1, Len(rawWritten)) = rawWritten
      BY <1>4, SubSeqFull
    <3>2. Len(rawWritten) = Len(rawRead) + Len(in) /\ Len(rawRead) \in Nat
      <4>1. rawWritten = rawRead \o in
        BY <1>11, <2>3
      <4> HIDE DEF in
      <4>2. QED
        BY <1>4, <4>1, SeqsJoin
    <3>3. Len(rawWritten) \in (Len(rawRead) + 1)..Len(rawWritten)
      BY <1>4, <1>5, <3>2
    <3>4. QED
      BY <1>1, <2>3, <3>1, <3>3 DEF RawEcho!Read
  <2>12. QED
    BY <2>7, <2>8, <2>9, <2>10, <2>11 DEF RawIInv
<1>12. QED
  BY <1>9, <1>10, <1>11, Zenon

(* Closing a connection that is up, or clearing a leg, keeps the shape and *)
(* ends what the invariant says of a pair of connections.                  *)
LEMMA RawBreaks ==
    ASSUME RawIInv, ~RawBoth', UNCHANGED <<rawPhase, rawWritten, rawRead, rawHandler, rawSession, raw, parsed>>,
           rawConn' \in [RawConns -> {"none", "open", "closing", "closed", "alone"}],
           rawConn.dst = "none" => rawConn'.dst = "none", ~RawUp("src") => ~RawUp("src")',
           rawNet' \in [RawLegs -> Seq(RawBytes)], rawNet'.toClient = rawNet.toClient,
           rawNet.fromApp = <<>> => rawNet'.fromApp = <<>>, rawNet.toApp = <<>> => rawNet'.toApp = <<>>,
           rawNet.toProxy = <<>> => rawNet'.toProxy = <<>>
    PROVE  RawIInv'
<1>0. RawShape /\ RawLoop /\ RawLinked /\ RawFlow /\ RawHandlers
  BY DEF RawIInv
<1>1. RawShape' /\ RawHandlers'
  BY <1>0 DEF RawShape, RawHandlers
<1>2. LastFrame' = LastFrame /\ (Untouched' <=> Untouched) /\ (FrameOut' => FrameOut)
  BY DEF LastFrame, Untouched, FrameOut
<1>3. RawLoop'
  BY <1>0, <1>2, RawLoopGoesOn
<1>4. RawLinked'
  BY <1>0 DEF RawLinked
<1>5. RawFlow'
  BY <1>0, <1>2 DEF RawFlow
<1>6. QED
  BY <1>1, <1>3, <1>4, <1>5 DEF RawIInv

(* The app server echoes a whole frame, refuses what is none, or leaves.   *)
LEMMA RawAppStep == RawIInv /\ (RawAppEcho \/ RawAppLeaves) => RawIInv'
<1> SUFFICES ASSUME RawIInv, RawAppEcho \/ RawAppLeaves PROVE RawIInv'
  OBVIOUS
<1>0. RawShape /\ RawLoop /\ RawLinked /\ RawFlow /\ RawHandlers
  BY DEF RawIInv
<1> DEFINE in == rawNet.toApp
           s == FirstFrame(in)
           r == Rest(in, s)
<1>1. rawConn.dst = "open" /\ UNCHANGED <<rawPhase, rawWritten, rawRead, rawHandler, rawSession, raw, parsed>>
  BY Zenon DEF RawAppEcho, RawAppLeaves, RawUp, rawClient
<1>2. \/ rawConn' = [rawConn EXCEPT !["dst"] = "closing"] /\ rawNet' = [rawNet EXCEPT !["toApp"] = <<>>]
      \/ /\ in # <<>> /\ rawConn' = rawConn
         /\ rawNet' = [rawNet EXCEPT !["toApp"] = r, !["fromApp"] = @ \o s]
  BY <1>1, Zenon DEF RawAppEcho, RawAppLeaves, RawClose, RawUp
<1>3. CASE rawConn' = [rawConn EXCEPT !["dst"] = "closing"] /\ rawNet' = [rawNet EXCEPT !["toApp"] = <<>>]
  <2>1. /\ rawConn' \in [RawConns -> {"none", "open", "closing", "closed", "alone"}]
        /\ rawConn'.src = rawConn.src /\ rawConn'.dst = "closing"
    BY <1>0, <1>3, RawPeers DEF RawShape
  <2>2. /\ rawNet' \in [RawLegs -> Seq(RawBytes)] /\ rawNet'.toClient = rawNet.toClient
        /\ rawNet'.fromApp = rawNet.fromApp /\ rawNet'.toApp = <<>> /\ rawNet'.toProxy = rawNet.toProxy
    BY <1>0, <1>3, RawParts DEF RawShape
  <2>3. ~RawBoth' /\ (~RawUp("src") => ~RawUp("src")')
    BY <2>1 DEF RawBoth, RawUp
  <2>4. QED
    BY <1>1, <2>1, <2>2, <2>3, RawBreaks
<1>4. CASE /\ in # <<>> /\ rawConn' = rawConn
           /\ rawNet' = [rawNet EXCEPT !["toApp"] = r, !["fromApp"] = @ \o s]
  <2>1. in \in Seq(RawBytes) /\ rawNet.fromApp \in Seq(RawBytes) /\ Len(in) \in Nat /\ Len(in) > 0
    BY <1>0, <1>4, RawParts
  <2>2. s \in Seq(RawBytes) /\ r \in Seq(RawBytes) /\ s \o r = in
    <3> DEFINE k == IF Len(in) < FrameLen THEN Len(in) ELSE FrameLen
    <3>1. k \in 1..Len(in)
      BY <2>1, FramesArePositive
    <3>2. s = SubSeq(in, 1, k)
      BY DEF FirstFrame
    <3> HIDE DEF in, k, s
    <3>3. s \in Prefixes(in)
      BY <3>1, <3>2 DEF Prefixes
    <3>4. QED
      BY <2>1, <3>3, ChunkAndRest
  <2> HIDE DEF s, r
  <2>3. rawNet.fromApp \o s \in Seq(RawBytes)
    BY <2>1, <2>2, SeqsJoin
  <2>4. /\ rawNet' \in [RawLegs -> Seq(RawBytes)] /\ rawNet'.toClient = rawNet.toClient
        /\ rawNet'.fromApp = rawNet.fromApp \o s /\ rawNet'.toApp = r /\ rawNet'.toProxy = rawNet.toProxy
    BY <1>0, <1>4, <2>2, <2>3, RawParts DEF RawShape
  <2>5. RawShape'
    BY <1>0, <1>1, <1>4, <2>4 DEF RawShape
  <2>6. /\ LastFrame' = LastFrame /\ (RawBoth' <=> RawBoth) /\ (Untouched' <=> Untouched)
        /\ Lost' = Lost /\ (FrameOut' <=> FrameOut)
    BY <1>1, <1>4 DEF LastFrame, RawBoth, RawUp, Untouched, Lost, FrameOut
  <2>7. RawLoop' /\ RawLinked'
    <3>1. RawLoop'
      BY <1>0, <1>1, <2>4, <2>6, RawLoopGoesOn
    <3>2. QED
      BY <1>0, <1>1, <1>4, <3>1 DEF RawLinked, RawUp
  <2>8. raw.src /\ RawHandlers'
    BY <1>0, <1>1, <1>4, <2>4 DEF RawHandlers
  <2>9. rawPhase # "dial" /\ (RawBoth => rawPhase \notin {"write", "done"})
    BY <1>0, <1>4 DEF RawFlow
  <2>10. ASSUME OnTheWay PROVE OnTheWay'
    <3>1. PipeParts(RawBytes, Lost, rawNet.toClient, rawNet.fromApp, r, rawNet.toProxy, s)
      BY <1>0, <2>2, RawParts DEF PipeParts
    <3>2. Pipe(Lost, rawNet.toClient, rawNet.fromApp \o s, r, rawNet.toProxy)
             = Pipe(Lost, rawNet.toClient, rawNet.fromApp, s \o r, rawNet.toProxy)
      BY <3>1, PipeMoves
    <3>3. QED
      BY <2>2, <2>4, <2>6, <2>10, <3>2, Zenon DEF OnTheWay
  <2>11. RawFlow'
    BY <1>0, <1>1, <2>4, <2>6, <2>9, <2>10 DEF RawFlow
  <2>12. QED
    BY <2>5, <2>7, <2>8, <2>11 DEF RawIInv
<1>5. QED
  BY <1>2, <1>3, <1>4

(* onWebsocket: before it opens dst nothing has been written.              *)
LEMMA RawOnWebsocketStep == RawIInv /\ RawOnWebsocket => RawIInv'
<1> SUFFICES ASSUME RawIInv, RawOnWebsocket PROVE RawIInv'
  OBVIOUS
<1>0. RawShape /\ RawLoop /\ RawLinked /\ RawFlow /\ RawHandlers
  BY DEF RawIInv
<1>1. UNCHANGED <<rawPhase, rawWritten, rawRead, rawNet, parsed>>
  BY Zenon DEF RawOnWebsocket, RawDialFails, RawDialConnects, RawUpgrade, Link, SetSession, SetOnData, rawClient
<1>2. ASSUME rawConn' = rawConn PROVE RawLoop' /\ RawFlow'
  <2>1. (RawBoth' => RawBoth) /\ (FrameOut' => FrameOut)
    BY <1>1, <1>2 DEF RawBoth, RawUp, FrameOut
  <2>2. QED
    BY <1>0, <1>1, <2>1, RawFlowGoesOn
<1>3. rawHandler' \in RawStages
  BY Zenon DEF RawOnWebsocket, RawDialFails, RawDialConnects, RawUpgrade, Link, SetSession, SetOnData,
               RawOnWebsocketTo, RawStages
<1>4. CASE RawDialFails
  <2>1. /\ rawHandler = "idle" /\ rawHandler' = "failed" /\ UNCHANGED <<rawConn, rawSession, raw>>
    BY <1>4 DEF RawDialFails, RawOnWebsocketTo
  <2>2. RawShape' /\ RawHandlers'
    BY <1>0, <1>1, <1>3, <2>1 DEF RawShape, RawHandlers
  <2>3. RawLinked'
    BY <1>0, <1>1, <2>1 DEF RawLinked, RawUp
  <2>4. QED
    BY <1>2, <2>1, <2>2, <2>3 DEF RawIInv
<1>5. CASE RawDialConnects
  <2>1. /\ rawHandler = "idle" /\ rawHandler' = "dialed" /\ rawConn' = [rawConn EXCEPT !["dst"] = "open"]
        /\ UNCHANGED <<rawSession, raw>>
    BY <1>5 DEF RawDialConnects, RawOnWebsocketTo
  <2>2. rawConn' \in [RawConns -> {"none", "open", "closing", "closed", "alone"}] /\ rawConn'.src = rawConn.src
    BY <1>0, <2>1, RawPeers DEF RawShape
  <2>3. RawShape' /\ RawHandlers'
    BY <1>0, <1>1, <1>3, <2>1, <2>2 DEF RawShape, RawHandlers
  <2>4. rawPhase \in {"dial", "failed"} /\ (rawPhase = "failed" => ~RawUp("src"))
    BY <1>0, <2>1 DEF RawShape, RawLinked
  <2>5. ~FrameOut /\ ~FrameOut' /\ rawPhase' \notin {"write", "done"}
    BY <1>1, <2>2, <2>4 DEF FrameOut, RawBoth, RawUp
  <2>6. RawLinked'
    BY <1>1, <2>1, <2>2, <2>4 DEF RawLinked, RawUp
  <2>7. RawLoop'
    BY <1>0, <1>1, <2>5, RawLoopGoesOn
  <2>8. RawFlow'
    <3>1. (Untouched' <=> Untouched) /\ (RawBoth' => rawPhase = "dial")
      BY <1>1, <2>2, <2>4 DEF Untouched, RawBoth, RawUp
    <3>2. QED
      BY <1>0, <1>1, <2>4, <2>5, <3>1 DEF RawFlow
  <2>9. QED
    BY <2>3, <2>6, <2>7, <2>8 DEF RawIInv
<1>6. CASE RawUpgrade
  <2>1. /\ rawHandler = "dialed" /\ rawHandler' = "upgraded" /\ UNCHANGED <<rawConn, rawSession, raw>>
    BY <1>6 DEF RawUpgrade, RawOnWebsocketTo
  <2>2. RawShape' /\ RawHandlers'
    BY <1>0, <1>1, <1>3, <2>1 DEF RawShape, RawHandlers
  <2>3. RawLinked'
    BY <1>0, <1>1, <2>1 DEF RawLinked, RawUp
  <2>4. QED
    BY <1>2, <2>1, <2>2, <2>3 DEF RawIInv
<1>7. CASE Link
  <2>1. /\ rawHandler \notin {"idle", "dialed", "failed"} /\ rawHandler' \notin {"idle", "dialed", "failed"}
    BY <1>7, Zenon DEF Link, SetSession, SetOnData, RawOnWebsocketTo
  <2>2. PICK c \in RawConns : /\ rawConn' = rawConn
                              /\ \/ rawSession' = [rawSession EXCEPT ![c] = TRUE] /\ raw' = raw
                                 \/ raw' = [raw EXCEPT ![c] = TRUE] /\ rawSession' = rawSession
    BY <1>7, RawPeers, Zenon DEF Link, SetSession, SetOnData
  <2>3. /\ rawSession' \in [RawConns -> BOOLEAN] /\ raw' \in [RawConns -> BOOLEAN]
        /\ (raw.src => raw'.src) /\ (raw.dst => raw'.dst)
    <3>1. rawSession \in [RawConns -> BOOLEAN] /\ raw \in [RawConns -> BOOLEAN]
      BY <1>0 DEF RawShape
    <3>2. rawSession' \in [RawConns -> BOOLEAN] /\ raw' \in [RawConns -> BOOLEAN]
      BY <2>2, <3>1
    <3>3. \A d \in RawConns : raw[d] => raw'[d]
      BY <2>2, <3>1, Zenon
    <3>4. QED
      BY <3>2, <3>3, RawPeers, Zenon
  <2>4. RawShape' /\ RawHandlers'
    <3>1. RawShape'
      BY <1>0, <1>1, <1>3, <2>2, <2>3 DEF RawShape
    <3>2. RawHandlers'
      <4>1. UNCHANGED <<rawNet, rawRead, parsed>> /\ RawHandlers
        BY <1>0, <1>1
      <4>2. (~raw'.src => ~raw.src) /\ (~raw'.dst => ~raw.dst)
        BY <2>3, Zenon
      <4>3. QED
        BY <4>1, <4>2, Zenon DEF RawHandlers
    <3>3. QED
      BY <3>1, <3>2
  <2>5. RawLinked'
    BY <1>0, <1>1, <2>1, <2>2 DEF RawLinked, RawUp
  <2>6. QED
    BY <1>2, <2>2, <2>4, <2>5 DEF RawIInv
<1>8. QED
  BY <1>4, <1>5, <1>6, <1>7 DEF RawOnWebsocket

(* OnClose: the connections are not both up any more.                      *)
LEMMA RawOnCloseStep == ASSUME NEW c \in RawConns PROVE RawIInv /\ RawOnClose(c) => RawIInv'
<1> SUFFICES ASSUME RawIInv, RawOnClose(c) PROVE RawIInv'
  OBVIOUS
<1>0. RawShape
  BY DEF RawIInv
<1>1. /\ UNCHANGED <<rawPhase, rawWritten, rawRead, rawHandler, rawSession, raw, parsed>>
      /\ rawNet' = [rawNet EXCEPT ![RawIn(c)] = <<>>] /\ RawIn(c) \in {"toProxy", "fromApp"}
  BY DEF RawOnClose, rawClient, RawIn
<1>2. /\ rawConn' \in [RawConns -> {"none", "open", "closing", "closed", "alone"}]
      /\ rawConn.dst = "none" => rawConn'.dst = "none"
      /\ rawConn.src # "open" => rawConn'.src # "open"
      /\ ~(rawConn'.src = "open" /\ rawConn'.dst = "open")
  <2>1. c \in {"src", "dst"} /\ RawPeer(c) = IF c = "src" THEN "dst" ELSE "src"
    BY RawPeers
  <2>2. rawConn \in [{"src", "dst"} -> {"none", "open", "closing", "closed", "alone"}] /\ RawConns = {"src", "dst"}
    BY <1>0, RawPeers DEF RawShape
  <2>3. /\ rawConn[c] = "closing"
        /\ rawConn' = IF rawSession[c]
                      THEN IF [rawConn EXCEPT ![c] = "closed"][RawPeer(c)] = "open"
                           THEN [[rawConn EXCEPT ![c] = "closed"] EXCEPT ![RawPeer(c)] = "closing"]
                           ELSE [rawConn EXCEPT ![c] = "closed"]
                      ELSE [rawConn EXCEPT ![c] = "alone"]
    BY Zenon DEF RawOnClose, RawClose
  <2>4. QED
    BY <2>1, <2>2, <2>3
<1>3. /\ rawNet' \in [RawLegs -> Seq(RawBytes)] /\ rawNet'.toClient = rawNet.toClient
      /\ rawNet'.toApp = rawNet.toApp
      /\ rawNet'.toProxy \in {<<>>, rawNet.toProxy} /\ rawNet'.fromApp \in {<<>>, rawNet.fromApp}
  BY <1>0, <1>1, RawParts DEF RawShape
<1>4. ~RawBoth' /\ (~RawUp("src") => ~RawUp("src")')
  BY <1>2 DEF RawBoth, RawUp
<1>5. QED
  BY <1>1, <1>2, <1>3, <1>4, RawBreaks

(* src's data handler passes on a chunk of the request.                    *)
LEMMA RawOnDataSrcStep == RawIInv /\ OnData("src") => RawIInv'
<1> SUFFICES ASSUME RawIInv, OnData("src") PROVE RawIInv'
  OBVIOUS
<1>0. RawShape /\ RawLoop /\ RawLinked /\ RawFlow /\ RawHandlers
  BY DEF RawIInv
<1>1. RawIn("src") = "toProxy" /\ RawOut(RawPeer("src")) = "toApp" /\ RawPeer("src") = "dst"
  BY RawPeers DEF RawIn, RawOut
<1>2. PICK p \in Prefixes(rawNet.toProxy) :
         rawNet' = IF rawConn.dst = "open"
                   THEN [rawNet EXCEPT !["toProxy"] = Rest(rawNet.toProxy, p), !["toApp"] = @ \o p]
                   ELSE [rawNet EXCEPT !["toProxy"] = Rest(rawNet.toProxy, p)]
  BY <1>1, ZenonT(60) DEF OnData, RawUp
<1> DEFINE r == Rest(rawNet.toProxy, p)
<1>3. /\ rawConn.src = "open" /\ raw.src
      /\ UNCHANGED <<rawPhase, rawWritten, rawRead, rawHandler, rawConn, rawSession, raw, parsed>>
  BY Zenon DEF OnData, RawUp, rawClient
<1>4. rawNet.toProxy \in Seq(RawBytes) /\ rawNet.toApp \in Seq(RawBytes)
  BY <1>0, RawParts
<1>5. p \in Seq(RawBytes) /\ r \in Seq(RawBytes) /\ p \o r = rawNet.toProxy /\ p # <<>>
  BY <1>4, ChunkAndRest
<1>6. rawNet.toApp \o p \in Seq(RawBytes) /\ rawNet.toProxy # <<>>
  <2>1. rawNet.toApp \o p \in Seq(RawBytes)
    BY <1>4, <1>5, SeqsJoin
  <2>2. Len(p \o r) = Len(p) + Len(r) /\ Len(p) \in Nat /\ Len(r) \in Nat
    BY <1>5, SeqsJoin
  <2>3. Len(p) > 0
    BY <1>5
  <2>4. Len(rawNet.toProxy) > 0
    BY <1>5, <2>2, <2>3
  <2>5. QED
    BY <2>1, <2>4
<1> HIDE DEF r
<1>7. /\ rawNet' \in [RawLegs -> Seq(RawBytes)] /\ rawNet'.toClient = rawNet.toClient
      /\ rawNet'.fromApp = rawNet.fromApp /\ rawNet'.toProxy = r
      /\ rawNet'.toApp = IF rawConn.dst = "open" THEN rawNet.toApp \o p ELSE rawNet.toApp
  BY <1>0, <1>2, <1>5, <1>6, RawParts DEF RawShape, r
<1>8. RawShape' /\ RawHandlers'
  BY <1>0, <1>3, <1>7 DEF RawShape, RawHandlers
<1>9. /\ LastFrame' = LastFrame /\ (RawBoth' <=> RawBoth) /\ (Untouched' <=> Untouched)
      /\ Lost' = Lost /\ (FrameOut' <=> FrameOut)
  BY <1>3 DEF LastFrame, RawBoth, RawUp, Untouched, Lost, FrameOut
<1>10. RawLoop' /\ RawLinked'
  <2>1. RawLoop'
    BY <1>0, <1>3, <1>7, <1>9, RawLoopGoesOn
  <2>2. QED
    BY <1>0, <1>3, <1>7, <2>1 DEF RawLinked, RawUp
<1>11. rawPhase # "dial" /\ (RawBoth => rawPhase \notin {"write", "done"})
  BY <1>0, <1>6 DEF RawFlow
<1>12. ASSUME RawBoth, OnTheWay PROVE OnTheWay'
  <2>1. PipeParts(RawBytes, Lost, rawNet.toClient, rawNet.fromApp, rawNet.toApp, r, p)
    BY <1>0, <1>5, RawParts DEF PipeParts
  <2>2. Pipe(Lost, rawNet.toClient, rawNet.fromApp, rawNet.toApp \o p, r)
           = Pipe(Lost, rawNet.toClient, rawNet.fromApp, rawNet.toApp, p \o r)
    BY <2>1, PipeMoves
  <2>3. rawNet'.toApp = rawNet.toApp \o p
    BY <1>7, <1>12 DEF RawBoth, RawUp
  <2>4. QED
    BY <1>5, <1>7, <1>9, <1>12, <2>2, <2>3, Zenon DEF OnTheWay
<1>13. RawFlow'
  BY <1>0, <1>3, <1>7, <1>9, <1>11, <1>12 DEF RawFlow
<1>14. QED
  BY <1>8, <1>10, <1>13 DEF RawIInv

(* dst's data handler passes on a chunk of the answer.                     *)
LEMMA RawOnDataDstStep == RawIInv /\ OnData("dst") => RawIInv'
<1> SUFFICES ASSUME RawIInv, OnData("dst") PROVE RawIInv'
  OBVIOUS
<1>0. RawShape /\ RawLoop /\ RawLinked /\ RawFlow /\ RawHandlers
  BY DEF RawIInv
<1>1. RawIn("dst") = "fromApp" /\ RawOut(RawPeer("dst")) = "toClient" /\ RawPeer("dst") = "src"
  BY RawPeers DEF RawIn, RawOut
<1>2. PICK p \in Prefixes(rawNet.fromApp) :
         rawNet' = IF rawConn.src = "open"
                   THEN [rawNet EXCEPT !["fromApp"] = Rest(rawNet.fromApp, p), !["toClient"] = @ \o p]
                   ELSE [rawNet EXCEPT !["fromApp"] = Rest(rawNet.fromApp, p)]
  BY <1>1, ZenonT(60) DEF OnData, RawUp
<1> DEFINE r == Rest(rawNet.fromApp, p)
<1>3. /\ rawConn.dst = "open" /\ raw.dst
      /\ UNCHANGED <<rawPhase, rawWritten, rawRead, rawHandler, rawConn, rawSession, raw, parsed>>
  BY Zenon DEF OnData, RawUp, rawClient
<1>4. rawNet.fromApp \in Seq(RawBytes) /\ rawNet.toClient \in Seq(RawBytes)
  BY <1>0, RawParts
<1>5. p \in Seq(RawBytes) /\ r \in Seq(RawBytes) /\ p \o r = rawNet.fromApp /\ p # <<>>
  BY <1>4, ChunkAndRest
<1>6. rawNet.toClient \o p \in Seq(RawBytes) /\ rawNet.fromApp # <<>>
  <2>1. rawNet.toClient \o p \in Seq(RawBytes)
    BY <1>4, <1>5, SeqsJoin
  <2>2. Len(p \o r) = Len(p) + Len(r) /\ Len(p) \in Nat /\ Len(r) \in Nat
    BY <1>5, SeqsJoin
  <2>3. Len(p) > 0
    BY <1>5
  <2>4. Len(rawNet.fromApp) > 0
    BY <1>5, <2>2, <2>3
  <2>5. QED
    BY <2>1, <2>4
<1> HIDE DEF r
<1>7. /\ rawNet' \in [RawLegs -> Seq(RawBytes)] /\ rawNet'.toApp = rawNet.toApp
      /\ rawNet'.fromApp = r /\ rawNet'.toProxy = rawNet.toProxy
      /\ rawNet'.toClient = IF rawConn.src = "open" THEN rawNet.toClient \o p ELSE rawNet.toClient
  BY <1>0, <1>2, <1>5, <1>6, RawParts DEF RawShape, r
<1>8. raw.src
  BY <1>0, <1>6 DEF RawHandlers
<1>9. RawShape' /\ RawHandlers'
  BY <1>0, <1>3, <1>7, <1>8 DEF RawShape, RawHandlers
<1>10. /\ LastFrame' = LastFrame /\ (RawBoth' <=> RawBoth) /\ (Untouched' <=> Untouched)
       /\ Lost' = Lost /\ (FrameOut' <=> FrameOut)
  BY <1>3 DEF LastFrame, RawBoth, RawUp, Untouched, Lost, FrameOut
<1>11. rawPhase # "dial" /\ (RawBoth => rawPhase \notin {"write", "done"})
  BY <1>0, <1>6 DEF RawFlow
<1>12. RawLoop' /\ RawLinked'
  <2>1. rawPhase \in {"write", "done"} => rawNet'.toClient = rawNet.toClient
    BY <1>3, <1>7, <1>11 DEF RawBoth, RawUp
  <2>2. QED
    BY <1>0, <1>3, <1>10, <1>11, <2>1 DEF RawLoop, RawLinked, RawUp
<1>13. ASSUME RawBoth, OnTheWay
       PROVE  OnTheWay' /\ Begins(Lost \o rawNet'.toClient, LastFrame, RawBytes)
  <2>1. PipeParts(RawBytes, Lost, rawNet.toClient, r, rawNet.toApp, rawNet.toProxy, p)
        /\ PipeParts(RawBytes, Lost, rawNet.toClient \o p, r, rawNet.toApp, rawNet.toProxy, p)
    BY <1>0, <1>5, <1>6, RawParts DEF PipeParts
  <2>2. Pipe(Lost, rawNet.toClient \o p, r, rawNet.toApp, rawNet.toProxy)
           = Pipe(Lost, rawNet.toClient, p \o r, rawNet.toApp, rawNet.toProxy)
    BY <2>1, PipeMoves
  <2>3. rawNet'.toClient = rawNet.toClient \o p
    BY <1>7, <1>13 DEF RawBoth, RawUp
  <2>4. OnTheWay'
    BY <1>5, <1>7, <1>10, <1>13, <2>2, <2>3, Zenon DEF OnTheWay
  <2>5. Begins(Lost \o (rawNet.toClient \o p),
               Pipe(Lost, rawNet.toClient \o p, r, rawNet.toApp, rawNet.toProxy), RawBytes)
    BY <2>1, PipeEnds, Zenon
  <2>6. Pipe(Lost, rawNet.toClient \o p, r, rawNet.toApp, rawNet.toProxy) = LastFrame
    BY <1>5, <1>13, <2>2, Zenon DEF OnTheWay
  <2>7. QED
    BY <2>3, <2>4, <2>5, <2>6, Zenon
<1>14. RawFlow'
  <2>1. ASSUME FrameOut PROVE \E x \in Seq(RawBytes) : Begins(x \o rawNet'.toClient, LastFrame, RawBytes)
    <3>1. CASE RawBoth
      <4>1. OnTheWay /\ Lost \in Seq(RawBytes)
        BY <1>0, <2>1, <3>1, RawParts DEF RawFlow
      <4>2. Begins(Lost \o rawNet'.toClient, LastFrame, RawBytes)
        BY <1>13, <3>1, <4>1
      <4>3. QED
        BY <4>1, <4>2, Zenon
    <3>2. CASE ~RawBoth
      <4>1. rawNet'.toClient = rawNet.toClient
        BY <1>3, <1>7, <3>2 DEF RawBoth, RawUp
      <4>2. QED
        BY <1>0, <2>1, <4>1 DEF RawFlow
    <3>3. QED
      BY <3>1, <3>2
  <2>2. ASSUME RawBoth, FrameOut PROVE OnTheWay'
    BY <1>0, <1>13, <2>2 DEF RawFlow
  <2>3. QED
    BY <1>0, <1>3, <1>10, <1>11, <2>1, <2>2 DEF RawFlow
<1>15. QED
  BY <1>9, <1>12, <1>14 DEF RawIInv

(* The proxy's own engine takes a chunk of a connection without a handler: *)
(* nothing has passed that connection, so it is the beginning that is lost.*)
LEMMA ParseFramesStep == ASSUME NEW c \in RawConns PROVE RawIInv /\ ParseFrames(c) => RawIInv'
<1> SUFFICES ASSUME RawIInv, ParseFrames(c) PROVE RawIInv'
  OBVIOUS
<1>0. RawShape /\ RawLoop /\ RawLinked /\ RawFlow /\ RawHandlers
  BY DEF RawIInv
<1> DEFINE leg == RawIn(c)
<1>1. (c = "src" /\ leg = "toProxy") \/ (c = "dst" /\ leg = "fromApp")
  <2>1. c = "src" \/ c = "dst"
    BY DEF RawConns
  <2>2. QED
    BY <2>1 DEF RawIn
<1>2. PICK p \in Prefixes(rawNet[leg]) :
         rawNet' = [rawNet EXCEPT ![leg] = Rest(rawNet[leg], p)] /\ parsed' = [parsed EXCEPT ![c] = @ \o p]
  BY Zenon DEF ParseFrames
<1>3. /\ ~raw[c]
      /\ UNCHANGED <<rawPhase, rawWritten, rawRead, rawHandler, rawConn, rawSession, raw>>
  BY Zenon DEF ParseFrames, rawClient
<1> DEFINE r == Rest(rawNet[leg], p)
<1> HIDE DEF leg
<1>4. leg \in RawLegs /\ rawNet[leg] \in Seq(RawBytes) /\ parsed[c] \in Seq(RawBytes)
  BY <1>0, <1>1 DEF RawLegs, RawShape
<1>5. p \in Seq(RawBytes) /\ r \in Seq(RawBytes) /\ p \o r = rawNet[leg] /\ p # <<>>
  BY <1>4, ChunkAndRest
<1>6. /\ parsed[c] \o p \in Seq(RawBytes) /\ Len(parsed[c] \o p) = Len(parsed[c]) + Len(p)
      /\ Len(p) \in Nat /\ Len(parsed[c]) \in Nat /\ Len(p \o r) = Len(p) + Len(r) /\ Len(r) \in Nat
  BY <1>4, <1>5, SeqsJoin, SMTT(30)
<1>7. parsed[c] \o p # <<>> /\ rawNet[leg] # <<>>
  <2>1. Len(p) > 0
    BY <1>5
  <2>2. Len(parsed[c] \o p) > 0 /\ Len(p \o r) > 0
    BY <1>6, <2>1
  <2>3. QED
    BY <1>5, <2>2
<1> HIDE DEF r
<1>8. /\ rawNet' \in [RawLegs -> Seq(RawBytes)] /\ rawNet'.toClient = rawNet.toClient /\ rawNet'.toApp = rawNet.toApp
      /\ rawNet'.toProxy = (IF c = "src" THEN r ELSE rawNet.toProxy)
      /\ rawNet'.fromApp = (IF c = "dst" THEN r ELSE rawNet.fromApp)
  BY <1>0, <1>1, <1>2, <1>4, <1>5, RawParts DEF RawShape, r
<1>9. /\ parsed' \in [RawConns -> Seq(RawBytes)] /\ parsed'[c] = parsed[c] \o p
      /\ c = "src" => parsed'.dst = parsed.dst
      /\ c = "dst" => parsed'.src = parsed.src
  BY <1>0, <1>2, <1>4, <1>6, RawPeers DEF RawShape
<1>10. LastFrame' = LastFrame /\ (RawBoth' <=> RawBoth) /\ (FrameOut' <=> FrameOut)
  BY <1>3 DEF LastFrame, RawBoth, RawUp, FrameOut
<1>11. RawShape'
  BY <1>0, <1>3, <1>8, <1>9 DEF RawShape
<1>12. RawHandlers'
  <2>1. c = "dst" => raw.src
    BY <1>0, <1>1, <1>7 DEF RawHandlers
  <2>2. QED
    BY <1>0, <1>1, <1>3, <1>8, <1>9, <2>1 DEF RawHandlers
<1>13. RawLoop' /\ RawLinked'
  <2>1. RawLoop'
    BY <1>0, <1>3, <1>8, <1>10, RawLoopGoesOn
  <2>2. QED
    BY <1>0, <1>3, <1>8, <2>1 DEF RawLinked, RawUp
<1>14. rawPhase # "dial" /\ (RawBoth => rawPhase \notin {"write", "done"})
  BY <1>0, <1>1, <1>7 DEF RawFlow
<1>a. Lost' = Lost \o p
  <2>1. parsed.src \in Seq(RawBytes) /\ parsed.dst \in Seq(RawBytes)
    BY <1>0, RawParts
  <2>2. CASE c = "src"
    <3>1. parsed'.src = parsed.src \o p /\ parsed.dst = <<>> /\ parsed'.dst = <<>>
      BY <1>0, <1>3, <1>9, <2>2 DEF RawHandlers
    <3>2. (parsed.src \o p) \o <<>> = parsed.src \o p /\ parsed.src \o <<>> = parsed.src
      BY <1>5, <2>1, SeqsJoin
    <3>3. QED
      BY <3>1, <3>2 DEF Lost
  <2>3. CASE c = "dst"
    <3>1. parsed'.dst = parsed.dst \o p /\ parsed'.src = parsed.src
      BY <1>9, <2>3
    <3>2. Assoc(parsed.src, parsed.dst, p)
      BY <1>5, <2>1, SeqsAssociate
    <3>3. QED
      BY <3>1, <3>2 DEF Lost, Assoc
  <2>4. QED
    BY <1>1, <2>2, <2>3
<1>15. ASSUME OnTheWay PROVE OnTheWay'
  <2>0. Lost \in Seq(RawBytes)
    BY <1>0, RawParts
  <2>1. Lost \o p \in Seq(RawBytes) /\ <<>> \o p = p /\ p \o <<>> = p /\ <<>> \in Seq(RawBytes)
    BY <1>5, <2>0, SeqsJoin
  <2>2. rawNet.toClient = <<>>
    BY <1>0, <1>1, <1>3 DEF RawHandlers
  <2>3. CASE c = "dst"
    <3>1. PipeParts(RawBytes, Lost, rawNet.toClient, r, rawNet.toApp, rawNet.toProxy, p)
      BY <1>0, <1>5, <2>0, RawParts DEF PipeParts
    <3>2. /\ Pipe(Lost \o p, rawNet.toClient, r, rawNet.toApp, rawNet.toProxy)
               = Pipe(Lost, p \o rawNet.toClient, r, rawNet.toApp, rawNet.toProxy)
          /\ Pipe(Lost, rawNet.toClient \o p, r, rawNet.toApp, rawNet.toProxy)
               = Pipe(Lost, rawNet.toClient, p \o r, rawNet.toApp, rawNet.toProxy)
      BY <3>1, PipeMoves
    <3>3. p \o rawNet.toClient = rawNet.toClient \o p /\ p \o r = rawNet.fromApp
      BY <1>1, <1>5, <2>1, <2>2, <2>3
    <3>4. rawNet'.fromApp = r /\ rawNet'.toProxy = rawNet.toProxy
      BY <1>8, <2>3
    <3>5. QED
      BY <1>8, <1>10, <1>15, <1>a, <2>1, <3>2, <3>3, <3>4, Zenon DEF OnTheWay
  <2>4. CASE c = "src"
    <3>1. PipeParts(RawBytes, Lost, rawNet.toClient, rawNet.fromApp, rawNet.toApp, r, p)
      BY <1>0, <1>5, <2>0, RawParts DEF PipeParts
    <3>2. /\ Pipe(Lost \o p, rawNet.toClient, rawNet.fromApp, rawNet.toApp, r)
               = Pipe(Lost, p \o rawNet.toClient, rawNet.fromApp, rawNet.toApp, r)
          /\ Pipe(Lost, rawNet.toClient \o p, rawNet.fromApp, rawNet.toApp, r)
               = Pipe(Lost, rawNet.toClient, p \o rawNet.fromApp, rawNet.toApp, r)
          /\ Pipe(Lost, rawNet.toClient, rawNet.fromApp \o p, rawNet.toApp, r)
               = Pipe(Lost, rawNet.toClient, rawNet.fromApp, p \o rawNet.toApp, r)
          /\ Pipe(Lost, rawNet.toClient, rawNet.fromApp, rawNet.toApp \o p, r)
               = Pipe(Lost, rawNet.toClient, rawNet.fromApp, rawNet.toApp, p \o r)
      BY <3>1, PipeMoves
    <3>3. rawNet.fromApp = <<>> /\ rawNet.toApp = <<>>
      BY <1>0, <1>3, <2>4 DEF RawHandlers
    <3>4. /\ p \o rawNet.toClient = rawNet.toClient \o p /\ p \o rawNet.fromApp = rawNet.fromApp \o p
          /\ p \o rawNet.toApp = rawNet.toApp \o p /\ p \o r = rawNet.toProxy
      BY <1>1, <1>5, <2>1, <2>2, <2>4, <3>3
    <3>5. rawNet'.fromApp = rawNet.fromApp /\ rawNet'.toProxy = r
      BY <1>8, <2>4
    <3>6. QED
      BY <1>8, <1>10, <1>15, <1>a, <2>1, <3>2, <3>4, <3>5, Zenon DEF OnTheWay
  <2>5. QED
    BY <1>1, <2>3, <2>4
<1>16. RawFlow'
  <2>1. rawRead = <<>>
    BY <1>0, <1>1, <1>3 DEF RawHandlers
  <2>2. QED
    BY <1>0, <1>3, <1>8, <1>10, <1>14, <1>15, <2>1 DEF RawFlow
<1>17. QED
  BY <1>11, <1>12, <1>13, <1>16 DEF RawIInv

(* Steps other than the client's reads and writes leave its streams alone. *)
LEMMA RawOthers ==
    ASSUME \/ RawClientDialed \/ RawClientFails \/ RawClientLeaves \/ RawAppEcho \/ RawAppLeaves \/ RawOnWebsocket
           \/ \E c \in RawConns : OnData(c) \/ ParseFrames(c) \/ RawOnClose(c)
    PROVE  UNCHANGED <<rawWritten, rawRead>>
<1>1. CASE RawClientDialed \/ RawClientFails \/ RawClientLeaves
  BY <1>1, Zenon DEF RawClientDialed, RawClientFails, RawClientLeaves
<1>2. CASE RawAppEcho \/ RawAppLeaves \/ RawOnWebsocket
  BY <1>2, Zenon DEF RawAppEcho, RawAppLeaves, RawOnWebsocket, RawDialFails, RawDialConnects, RawUpgrade, Link,
                     SetSession, SetOnData, rawClient
<1>3. CASE \E c \in RawConns : OnData(c) \/ ParseFrames(c) \/ RawOnClose(c)
  BY <1>3, Zenon DEF OnData, ParseFrames, RawOnClose, rawClient
<1>4. QED
  BY <1>1, <1>2, <1>3

(* Every step of proxy_ws2tcp preserves the invariant and is a step of the *)
(* abstract stream.                                                        *)
LEMMA RawStep == RawIInv /\ [RawNext]_rawVars => RawIInv' /\ [RawEcho!Next]_<<rawWritten, rawRead>>
<1> SUFFICES ASSUME RawIInv, [RawNext]_rawVars PROVE RawIInv' /\ [RawEcho!Next]_<<rawWritten, rawRead>>
  OBVIOUS
<1>1. CASE RawClientDialed \/ RawClientFails \/ RawClientLeaves
  BY <1>1, RawClientRestStep, RawOthers, Zenon
<1>2. CASE RawClientWrite
  BY <1>2, RawWriteStep, Zenon DEF RawEcho!Next
<1>3. CASE RawClientRead
  BY <1>3, RawReadStep, Zenon DEF RawEcho!Next
<1>4. CASE RawAppEcho \/ RawAppLeaves
  BY <1>4, RawAppStep, RawOthers, Zenon
<1>5. CASE RawOnWebsocket
  BY <1>5, RawOnWebsocketStep, RawOthers, Zenon
<1>6. CASE \E c \in RawConns : OnData(c) \/ ParseFrames(c) \/ RawOnClose(c)
  <2>1. PICK c \in RawConns : OnData(c) \/ ParseFrames(c) \/ RawOnClose(c)
    BY <1>6
  <2>2. OnData("src") \/ OnData("dst") \/ ParseFrames(c) \/ RawOnClose(c)
    BY <2>1, RawPeers
  <2>3. QED
    <3>1. OnData("src") => RawIInv'
      BY RawOnDataSrcStep, Zenon
    <3>2. OnData("dst") => RawIInv'
      BY RawOnDataDstStep, Zenon
    <3>3. ParseFrames(c) => RawIInv'
      BY ParseFramesStep, Zenon
    <3>4. RawOnClose(c) => RawIInv'
      BY RawOnCloseStep, Zenon
    <3>5. UNCHANGED <<rawWritten, rawRead>>
      BY <1>6, RawOthers, Zenon
    <3>6. QED
      BY <2>2, <3>1, <3>2, <3>3, <3>4, <3>5, Zenon
<1>7. CASE UNCHANGED rawVars
  <2>1. UNCHANGED <<rawPhase, rawWritten, rawRead, rawNet, rawHandler, rawConn, rawSession, raw, parsed>>
    BY <1>7 DEF rawVars, rawClient
  <2>2. (RawBoth' <=> RawBoth) /\ (FrameOut' <=> FrameOut)
    BY <2>1 DEF RawBoth, RawUp, FrameOut
  <2>3. RawShape' /\ RawLinked' /\ RawHandlers'
    BY <2>1 DEF RawIInv, RawShape, RawLinked, RawHandlers, RawUp
  <2>4. RawLoop' /\ RawFlow'
    BY <2>1, <2>2, RawFlowGoesOn DEF RawIInv
  <2>5. QED
    BY <2>1, <2>3, <2>4 DEF RawIInv
<1>8. QED
  BY <1>1, <1>2, <1>3, <1>4, <1>5, <1>6, <1>7, Zenon DEF RawNext, RawClientStep

-----------------------------------------------------------------------------
(* StickyClient: the states of a task, and those in which it waits for an  *)
(* answer.                                                                 *)
TaskStates == {"none", "queued", "write text", "read text", "write binary", "read binary", "append", "store", "done"}
Awaits(t) == task[t] \in {"read text", "read binary"}
Awaiting(c) == {t \in TaskIds : ConnOf(t) = c /\ Awaits(t)}

TaskShape ==
    /\ task \in [TaskIds -> TaskStates]
    /\ next \in 0..Tasks
    /\ toServer \in [TaskConns -> Seq(TaskMessages)] /\ toClient \in [TaskConns -> Seq(TaskMessages)]
    /\ success \in Seq(TaskIds) /\ old \in [TaskIds -> Seq(TaskIds)]
    /\ main \in {"adding", "waiting", "done", "fatal"}

(* main adds the tasks one after the other.                                *)
TasksAdded ==
    /\ main = "adding" => next < Tasks
    /\ \A t \in TaskIds : t >= next => task[t] = "none"

(* A slice of success, be it an old one, has tasks that are done, each once*)
FinishedOnce(s) ==
    /\ \A i \in 1..Len(s) : task[s[i]] = "done"
    /\ \A i, j \in 1..Len(s) : i # j => s[i] # s[j]

Slices ==
    /\ FinishedOnce(success) /\ \A t \in TaskIds : FinishedOnce(old[t])
    /\ (\E t \in TaskIds : task[t] = "done") => success # <<>>
    /\ main = "done" => \A t \in TaskIds : task[t] = "done"

AnswersOnTheWay ==
    main # "fatal" => \A c \in TaskConns : Cardinality(Awaiting(c)) = Len(toServer[c]) + Len(toClient[c])

TaskIInv == TaskShape /\ TasksAdded /\ Slices /\ AnswersOnTheWay

(* There is a first task, and tasks are finitely many.                     *)
LEMMA TaskFacts ==
    /\ 0 \in TaskIds /\ IsFiniteSet(TaskIds) /\ Tasks \in Nat \ {0} /\ TaskIds \subseteq Nat
    /\ \A t \in TaskIds : ConnOf(t) \in TaskConns /\ t < Tasks
    /\ \A t \in Nat : t < Tasks => t \in TaskIds
<1>1. Tasks \in Nat \ {0} /\ ClientNum \in Nat \ {0}
  BY CountsArePositive
<1>2. IsFiniteSet(0..Tasks - 1)
  BY <1>1, FS_Interval
<1>3. QED
  BY <1>1, <1>2 DEF TaskIds, ConnOf, TaskConns

(* The invariant says what the run checks.                                 *)
LEMMA TasksAreAnswered == TaskIInv => TaskTypeOK /\ AnAnswerForEach /\ ReportIsHonest
<1> SUFFICES ASSUME TaskIInv PROVE TaskTypeOK /\ AnAnswerForEach /\ ReportIsHonest
  OBVIOUS
<1>1. TaskTypeOK
  BY Zenon DEF TaskIInv, TaskShape, TaskTypeOK, TaskStates
<1>2. AnAnswerForEach
  BY Zenon DEF TaskIInv, AnswersOnTheWay, AnAnswerForEach, Awaiting, Awaits
<1>3. ReportIsHonest
  BY TaskFacts, Zenon DEF TaskIInv, Slices, FinishedOnce, ReportIsHonest
<1>4. QED
  BY <1>1, <1>2, <1>3

(* No task is there.                                                       *)
LEMMA TaskInitial == TaskInit => TaskIInv
<1> SUFFICES ASSUME TaskInit PROVE TaskIInv
  OBVIOUS
<1>1. <<>> \in Seq(TaskMessages) /\ <<>> \in Seq(TaskIds) /\ Len(<<>>) = 0
  BY EmptySeq
<1>2. "none" \in TaskStates /\ "none" # "done" /\ \A t \in TaskIds : task[t] = "none"
  BY Zenon DEF TaskInit, TaskStates
<1>3. \A t \in TaskIds : ~Awaits(t)
  BY <1>2, Zenon DEF Awaits
<1>4. TaskShape
  BY <1>1, <1>2, TaskFacts DEF TaskInit, TaskShape
<1>5. TasksAdded
  BY <1>2, TaskFacts DEF TaskInit, TasksAdded
<1>6. Slices
  BY <1>1, <1>2 DEF TaskInit, Slices, FinishedOnce
<1>7. AnswersOnTheWay
  <2>1. \A c \in TaskConns : Awaiting(c) = {}
    BY <1>3 DEF Awaiting
  <2>2. Cardinality({}) = 0
    BY FS_EmptySet
  <2>3. \A c \in TaskConns : toServer[c] = <<>> /\ toClient[c] = <<>>
    BY DEF TaskInit
  <2>4. 0 = 0 + 0
    OBVIOUS
  <2>5. QED
    BY <1>1, <2>1, <2>2, <2>3, <2>4, Zenon DEF AnswersOnTheWay
<1>8. QED
  BY <1>4, <1>5, <1>6, <1>7 DEF TaskIInv

(* The slices stay honest when no task ends and main does not return.      *)
LEMMA SlicesStay ==
    ASSUME TaskShape, Slices, UNCHANGED <<success, old>>,
           \A t \in TaskIds : task'[t] = "done" <=> task[t] = "done", main' = "done" => main = "done"
    PROVE  Slices'
<1>1. \A i \in 1..Len(success) : success[i] \in TaskIds
  BY DEF TaskShape
<1>2. \A t \in TaskIds : \A i \in 1..Len(old[t]) : old[t][i] \in TaskIds
  BY DEF TaskShape
<1>3. QED
  BY <1>1, <1>2, ZenonT(60) DEF Slices, FinishedOnce

(* Answers stay matched when no message moves and no task begins or ends   *)
(* to wait for one.                                                        *)
LEMMA AnswersStay ==
    ASSUME AnswersOnTheWay, UNCHANGED <<toServer, toClient>>,
           \A t \in TaskIds : Awaits(t)' <=> Awaits(t), main' # "fatal" => main # "fatal"
    PROVE  AnswersOnTheWay'
<1>1. \A c \in TaskConns : Awaiting(c)' = Awaiting(c)
  BY DEF Awaiting
<1>2. QED
  BY <1>1, Zenon DEF AnswersOnTheWay

(* ... and when what happens on one connection keeps them matched there.   *)
LEMMA AnswersMatch ==
    ASSUME AnswersOnTheWay, NEW c \in TaskConns, main' # "fatal" => main # "fatal",
           \A d \in TaskConns : d # c =>
               Awaiting(d)' = Awaiting(d) /\ toServer'[d] = toServer[d] /\ toClient'[d] = toClient[d],
           Cardinality(Awaiting(c)) = Len(toServer[c]) + Len(toClient[c]) =>
               Cardinality(Awaiting(c)') = Len(toServer'[c]) + Len(toClient'[c])
    PROVE  AnswersOnTheWay'
BY Zenon DEF AnswersOnTheWay

(* What TaskTo does.                                                       *)
LEMMA TaskGoes ==
    ASSUME TaskIInv, NEW t \in TaskIds, NEW from, NEW to \in TaskStates, from # "none", TaskTo(t, from, to)
    PROVE  /\ task' \in [TaskIds -> TaskStates] /\ task[t] = from /\ task'[t] = to
           /\ \A u \in TaskIds : u # t => task'[u] = task[u]
           /\ main \notin {"done", "fatal"}
           /\ \A u \in TaskIds : u >= next => task'[u] = "none"
<1>1. task \in [TaskIds -> TaskStates] /\ task[t] = from /\ task' = [task EXCEPT ![t] = to] /\ main \notin {"done", "fatal"}
  BY Zenon DEF TaskIInv, TaskShape, TaskTo
<1>2. task' \in [TaskIds -> TaskStates] /\ task'[t] = to /\ \A u \in TaskIds : u # t => task'[u] = task[u]
  BY <1>1, Zenon
<1>3. \A u \in TaskIds : u >= next => task'[u] = "none"
  BY <1>1, <1>2, Zenon DEF TaskIInv, TasksAdded
<1>4. QED
  BY <1>1, <1>2, <1>3

(* main adds a task, or waits for all.                                     *)
LEMMA TaskMainStep == TaskIInv /\ (Go \/ Wait) => TaskIInv'
<1> SUFFICES ASSUME TaskIInv, Go \/ Wait PROVE TaskIInv'
  OBVIOUS
<1>0. TaskShape /\ TasksAdded /\ Slices /\ AnswersOnTheWay
  BY DEF TaskIInv
<1>1. CASE Go
  <2>1. /\ main = "adding" /\ task' = [task EXCEPT ![next] = "queued"] /\ next' = next + 1
        /\ main' = (IF next + 1 = Tasks THEN "waiting" ELSE "adding")
        /\ UNCHANGED <<toServer, toClient, success, old>>
    BY <1>1, Zenon DEF Go
  <2>2. next \in TaskIds /\ next + 1 \in 0..Tasks /\ (next + 1 # Tasks => next + 1 < Tasks) /\ next \in Nat
        /\ task[next] = "none"
    <3>1. next \in 0..Tasks /\ next < Tasks
      BY <1>0, <2>1 DEF TaskShape, TasksAdded
    <3>2. next \in TaskIds
      BY <3>1, TaskFacts
    <3>3. QED
      BY <1>0, <3>1, <3>2, TaskFacts DEF TasksAdded
  <2>3. "queued" \in TaskStates
    BY Zenon DEF TaskStates
  <2>4. /\ task' \in [TaskIds -> TaskStates] /\ task'[next] = "queued"
        /\ \A u \in TaskIds : u # next => task'[u] = task[u]
    BY <1>0, <2>1, <2>2, <2>3, Zenon DEF TaskShape
  <2>5. TaskShape'
    BY <1>0, <2>1, <2>2, <2>4 DEF TaskShape
  <2>6. TasksAdded'
    BY <1>0, <2>1, <2>2, <2>4, TaskFacts DEF TasksAdded
  <2>7. Slices'
    <3>1. \A t \in TaskIds : task'[t] = "done" <=> task[t] = "done"
      BY <2>2, <2>4
    <3>2. main' # "done"
      BY <2>1
    <3>3. QED
      BY <1>0, <2>1, <3>1, <3>2, SlicesStay
  <2>8. AnswersOnTheWay'
    <3>1. \A t \in TaskIds : Awaits(t)' <=> Awaits(t)
      BY <2>2, <2>4, Zenon DEF Awaits
    <3>2. main' # "fatal" /\ main # "fatal"
      BY <2>1
    <3>3. QED
      BY <1>0, <2>1, <3>1, <3>2, AnswersStay
  <2>9. QED
    BY <2>5, <2>6, <2>7, <2>8 DEF TaskIInv
<1>2. CASE Wait
  <2>1. /\ main = "waiting" /\ main' = "done" /\ \A t \in TaskIds : task[t] = "done"
        /\ UNCHANGED <<task, next, toServer, toClient, success, old>>
    BY <1>2 DEF Wait
  <2>2. TaskShape' /\ TasksAdded'
    BY <1>0, <2>1 DEF TaskShape, TasksAdded
  <2>3. Slices'
    BY <1>0, <2>1 DEF Slices, FinishedOnce
  <2>4. AnswersOnTheWay'
    BY <1>0, <2>1, AnswersStay DEF Awaits
  <2>5. QED
    BY <2>2, <2>3, <2>4 DEF TaskIInv
<1>3. QED
  BY <1>1, <1>2

(* The pool starts a task, or a task reads the slice.                      *)
LEMMA StartStep == ASSUME TaskIInv, NEW t \in TaskIds, Start(t) PROVE TaskIInv'
<1>0. TaskShape /\ TasksAdded /\ Slices /\ AnswersOnTheWay
  BY DEF TaskIInv
<1>1. TaskTo(t, "queued", "write text") /\ UNCHANGED <<next, toServer, toClient, success, old, main>>
  BY Zenon DEF Start
<1>2. "write text" \in TaskStates /\ "queued" # "none" /\ "queued" # "done" /\ "write text" # "done"
  BY Zenon DEF TaskStates
<1>3. /\ task' \in [TaskIds -> TaskStates] /\ task[t] = "queued" /\ task'[t] = "write text"
      /\ \A u \in TaskIds : u # t => task'[u] = task[u]
      /\ \A u \in TaskIds : u >= next => task'[u] = "none"
  BY <1>1, <1>2, TaskGoes, Zenon
<1>4. \A u \in TaskIds : (task'[u] = "done" <=> task[u] = "done") /\ (Awaits(u)' <=> Awaits(u))
  BY <1>2, <1>3, Zenon DEF Awaits
<1>5. TaskShape' /\ TasksAdded'
  BY <1>0, <1>1, <1>3 DEF TaskShape, TasksAdded
<1>6. Slices' /\ AnswersOnTheWay'
  BY <1>0, <1>1, <1>4, SlicesStay, AnswersStay
<1>7. QED
  BY <1>5, <1>6 DEF TaskIInv

LEMMA ReadSuccessStep == ASSUME TaskIInv, NEW t \in TaskIds, ReadSuccess(t) PROVE TaskIInv'
<1>0. TaskShape /\ TasksAdded /\ Slices /\ AnswersOnTheWay
  BY DEF TaskIInv
<1>1. /\ TaskTo(t, "append", "store") /\ old' = [old EXCEPT ![t] = success]
      /\ UNCHANGED <<next, toServer, toClient, success, main>>
  BY Zenon DEF ReadSuccess
<1>2. "store" \in TaskStates /\ "append" # "none" /\ "append" # "done" /\ "store" # "done"
  BY Zenon DEF TaskStates
<1>3. /\ task' \in [TaskIds -> TaskStates] /\ task[t] = "append" /\ task'[t] = "store"
      /\ \A u \in TaskIds : u # t => task'[u] = task[u]
      /\ \A u \in TaskIds : u >= next => task'[u] = "none"
      /\ main # "done"
  BY <1>1, <1>2, TaskGoes, Zenon
<1>4. \A u \in TaskIds : (task'[u] = "done" <=> task[u] = "done") /\ (Awaits(u)' <=> Awaits(u))
  BY <1>2, <1>3, Zenon DEF Awaits
<1>5. old' \in [TaskIds -> Seq(TaskIds)] /\ \A u \in TaskIds : old'[u] = IF u = t THEN success ELSE old[u]
  BY <1>0, <1>1 DEF TaskShape
<1>6. TaskShape' /\ TasksAdded'
  BY <1>0, <1>1, <1>3, <1>5 DEF TaskShape, TasksAdded
<1>7. Slices'
  <2>1. ASSUME NEW s \in Seq(TaskIds), FinishedOnce(s) PROVE FinishedOnce(s)'
    <3>1. \A i \in 1..Len(s) : s[i] \in TaskIds
      BY <2>1
    <3>2. QED
      BY <1>4, <2>1, <3>1, Zenon DEF FinishedOnce
  <2>2. FinishedOnce(success)'
    <3>1. success \in Seq(TaskIds) /\ success' = success /\ FinishedOnce(success)
      BY <1>0, <1>1 DEF TaskShape, Slices
    <3>2. \A s \in Seq(TaskIds) : FinishedOnce(s) => FinishedOnce(s)'
      BY <2>1
    <3>3. QED
      BY <3>1, <3>2, Zenon DEF FinishedOnce
  <2>3. ASSUME NEW u \in TaskIds PROVE FinishedOnce(old[u])'
    <3> DEFINE s == IF u = t THEN success ELSE old[u]
    <3>1. s \in Seq(TaskIds) /\ old'[u] = s /\ FinishedOnce(s)
      BY <1>0, <1>5 DEF TaskShape, Slices
    <3> HIDE DEF s
    <3>2. \A i \in 1..Len(s) : s[i] \in TaskIds
      BY <3>1
    <3>3. QED
      BY <1>4, <3>1, <3>2, Zenon DEF FinishedOnce
  <2>4. QED
    BY <1>0, <1>1, <1>3, <1>4, <2>2, <2>3, Zenon DEF Slices
<1>8. AnswersOnTheWay'
  BY <1>0, <1>1, <1>4, AnswersStay
<1>9. QED
  BY <1>6, <1>7, <1>8 DEF TaskIInv

(* A task stores its slice and ends: the slice has tasks that are done.    *)
LEMMA StoreSuccessStep == ASSUME TaskIInv, NEW t \in TaskIds, StoreSuccess(t) PROVE TaskIInv'
<1>0. TaskShape /\ TasksAdded /\ Slices /\ AnswersOnTheWay
  BY DEF TaskIInv
<1>1. /\ TaskTo(t, "store", "done") /\ old' = [old EXCEPT ![t] = <<>>] /\ success' = Append(old[t], t)
      /\ UNCHANGED <<next, toServer, toClient, main>>
  BY Zenon DEF StoreSuccess
<1>2. "done" \in TaskStates /\ "store" # "none" /\ "store" # "done"
  BY Zenon DEF TaskStates
<1>3. /\ task' \in [TaskIds -> TaskStates] /\ task[t] = "store" /\ task'[t] = "done"
      /\ \A u \in TaskIds : u # t => task'[u] = task[u]
      /\ \A u \in TaskIds : u >= next => task'[u] = "none"
      /\ main # "done"
  BY <1>1, <1>2, TaskGoes, Zenon
<1>4. \A u \in TaskIds : (task[u] = "done" => task'[u] = "done") /\ (Awaits(u)' <=> Awaits(u))
  BY <1>2, <1>3, Zenon DEF Awaits
<1>5. /\ old[t] \in Seq(TaskIds) /\ FinishedOnce(old[t]) /\ <<>> \in Seq(TaskIds) /\ Len(<<>>) = 0
  BY <1>0 DEF TaskShape, Slices
<1>6. /\ Append(old[t], t) \in Seq(TaskIds) /\ Len(Append(old[t], t)) = Len(old[t]) + 1 /\ Len(old[t]) \in Nat
      /\ Append(old[t], t)[Len(old[t]) + 1] = t /\ \A i \in 1..Len(old[t]) : Append(old[t], t)[i] = old[t][i]
  BY <1>5, AppendProperties
<1>7. old' \in [TaskIds -> Seq(TaskIds)] /\ \A u \in TaskIds : old'[u] = IF u = t THEN <<>> ELSE old[u]
  BY <1>0, <1>1, <1>5 DEF TaskShape
<1>8. TaskShape' /\ TasksAdded'
  BY <1>0, <1>1, <1>3, <1>6, <1>7 DEF TaskShape, TasksAdded
<1>9. Slices'
  <2>0. \A u \in TaskIds : old[u] \in Seq(TaskIds) /\ FinishedOnce(old[u])
    BY <1>0, Zenon DEF TaskShape, Slices
  <2>1. ASSUME NEW u \in TaskIds PROVE FinishedOnce(old[u])'
    <3>1. CASE u = t
      <4>1. old'[u] = <<>> /\ \A i \in 1..0 : FALSE
        BY <1>7, <3>1
      <4>2. QED
        BY <1>5, <4>1, Zenon DEF FinishedOnce
    <3>2. CASE u # t
      <4> DEFINE s == old[u]
      <4>1. s \in Seq(TaskIds) /\ old'[u] = s /\ FinishedOnce(s)
        BY <1>7, <2>0, <3>2
      <4> HIDE DEF s
      <4>2. \A i \in 1..Len(s) : s[i] \in TaskIds
        BY <4>1
      <4>3. QED
        BY <1>4, <4>1, <4>2, Zenon DEF FinishedOnce
    <3>3. QED
      BY <3>1, <3>2
  <2> DEFINE s == old[t]
             a == Append(s, t)
  <2> HIDE DEF s
  <2>2. /\ success' = a /\ s \in Seq(TaskIds) /\ FinishedOnce(s) /\ Len(a) = Len(s) + 1 /\ Len(s) \in Nat
        /\ a[Len(s) + 1] = t /\ \A i \in 1..Len(s) : a[i] = s[i]
    BY <1>1, <1>5, <1>6 DEF s
  <2> HIDE DEF a
  <2>3. \A i \in 1..Len(s) : s[i] \in TaskIds /\ task[s[i]] = "done" /\ s[i] # t
    BY <1>2, <1>3, <2>2 DEF FinishedOnce
  <2>4. \A i \in 1..Len(a) : i \in 1..Len(s) \/ i = Len(s) + 1
    BY <2>2
  <2>5. \A i \in 1..Len(a) : task'[a[i]] = "done"
    <3>1. \A i \in 1..Len(s) : a[i] \in TaskIds /\ task[a[i]] = "done"
      BY <2>2, <2>3
    <3>2. QED
      BY <1>3, <1>4, <2>2, <2>4, <3>1, Zenon
  <2>6. \A i, j \in 1..Len(a) : i # j => a[i] # a[j]
    <3>1. \A i \in 1..Len(s) : a[i] = s[i] /\ a[i] # t
      BY <2>2, <2>3, Zenon
    <3>2. \A i, j \in 1..Len(s) : i # j => a[i] # a[j]
      BY <2>2, <3>1, Zenon DEF FinishedOnce
    <3>3. \A i \in 1..Len(a) : i \notin 1..Len(s) => a[i] = t
      BY <2>2, <2>4, Zenon
    <3>4. QED
      BY <2>4, <3>1, <3>2, <3>3, Zenon
  <2>7. FinishedOnce(success)'
    BY <2>2, <2>5, <2>6, Zenon DEF FinishedOnce
  <2>8. success' # <<>>
    BY <1>5, <2>2
  <2>9. QED
    BY <1>1, <1>3, <2>1, <2>7, <2>8, Zenon DEF Slices
<1>10. AnswersOnTheWay'
  BY <1>0, <1>1, <1>4, AnswersStay
<1>11. QED
  BY <1>8, <1>9, <1>10 DEF TaskIInv

(* A task writes: its message is on the way and it waits.                  *)
LEMMA TaskWriteStep == ASSUME TaskIInv, NEW t \in TaskIds, Write(t) PROVE TaskIInv'
<1>0. TaskShape /\ TasksAdded /\ Slices /\ AnswersOnTheWay
  BY DEF TaskIInv
<1> DEFINE c == ConnOf(t)
           m == TaskMessage(t)
<1>1. PICK to : /\ to \in {"read text", "read binary"}
                /\ \E from \in {"write text", "write binary"} : TaskTo(t, from, to)
                /\ toServer' = [toServer EXCEPT ![c] = Append(@, m)]
                /\ UNCHANGED <<next, toClient, success, old, main>>
  BY Zenon DEF Write
<1>2. PICK from : from \in {"write text", "write binary"} /\ TaskTo(t, from, to)
  BY <1>1, Zenon
<1>3. to \in TaskStates /\ from # "none" /\ from # "done" /\ to # "done"
      /\ from \notin {"read text", "read binary"}
  BY <1>1, <1>2, Zenon DEF TaskStates
<1>4. m \in TaskMessages
  <2>1. (IF task[t] \in {"write text", "read text"} THEN "text" ELSE "binary") \in {"text", "binary"}
    BY Zenon
  <2> DEFINE type == IF task[t] \in {"write text", "read text"} THEN "text" ELSE "binary"
  <2>2. m = [task |-> t, type |-> type]
    BY Zenon DEF TaskMessage
  <2>3. type \in {"text", "binary"}
    BY <2>1
  <2> HIDE DEF type, m
  <2>4. QED
    BY <2>2, <2>3 DEF TaskMessages
<1> HIDE DEF c, m
<1>5. /\ task' \in [TaskIds -> TaskStates] /\ task[t] = from /\ task'[t] = to
      /\ \A u \in TaskIds : u # t => task'[u] = task[u]
      /\ \A u \in TaskIds : u >= next => task'[u] = "none"
  BY <1>2, <1>3, TaskGoes, Zenon
<1>6. c \in TaskConns /\ toServer[c] \in Seq(TaskMessages) /\ toClient[c] \in Seq(TaskMessages)
  BY <1>0, TaskFacts DEF TaskShape, c
<1>7. /\ Append(toServer[c], m) \in Seq(TaskMessages) /\ Len(toServer[c]) \in Nat
      /\ Len(Append(toServer[c], m)) = Len(toServer[c]) + 1
  BY <1>4, <1>6, AppendProperties
<1>8. /\ toServer' \in [TaskConns -> Seq(TaskMessages)]
      /\ \A d \in TaskConns : toServer'[d] = IF d = c THEN Append(toServer[c], m) ELSE toServer[d]
  BY <1>0, <1>1, <1>6, <1>7 DEF TaskShape
<1>9. TaskShape' /\ TasksAdded'
  <2>1. UNCHANGED <<next, toClient, success, old, main>>
    BY <1>1
  <2>2. QED
    BY <1>0, <1>5, <1>8, <2>1 DEF TaskShape, TasksAdded
<1>10. Slices'
  <2>1. UNCHANGED <<success, old, main>>
    BY <1>1
  <2>2. \A u \in TaskIds : task'[u] = "done" <=> task[u] = "done"
    BY <1>3, <1>5, Zenon
  <2>3. QED
    BY <1>0, <2>1, <2>2, SlicesStay
<1>11. AnswersOnTheWay'
  <2>1. ~Awaits(t) /\ Awaits(t)' /\ \A u \in TaskIds : u # t => (Awaits(u)' <=> Awaits(u))
    BY <1>1, <1>3, <1>5, Zenon DEF Awaits
  <2>2. Awaiting(c)' = Awaiting(c) \cup {t} /\ t \notin Awaiting(c)
    BY <2>1 DEF Awaiting, c
  <2>3. ASSUME NEW d \in TaskConns, d # c PROVE Awaiting(d)' = Awaiting(d)
    BY <2>1, <2>3 DEF Awaiting, c
  <2>4. IsFiniteSet(Awaiting(c))
    BY TaskFacts, FS_Subset DEF Awaiting
  <2>5. Cardinality(Awaiting(c)') = Cardinality(Awaiting(c)) + 1
    BY <2>2, <2>4, FS_AddElement
  <2>6. toClient' = toClient /\ main' = main
    BY <1>1, Zenon
  <2>7. toServer'[c] = Append(toServer[c], m) /\ \A d \in TaskConns : d # c => toServer'[d] = toServer[d]
    BY <1>6, <1>8, Zenon
  <2>9. Cardinality(Awaiting(c)) = Len(toServer[c]) + Len(toClient[c]) =>
            Cardinality(Awaiting(c)') = Len(toServer'[c]) + Len(toClient'[c])
    <3>1. Len(toServer[c]) \in Nat /\ Len(toClient[c]) \in Nat
      BY <1>6
    <3>2. Len(toServer'[c]) = Len(toServer[c]) + 1 /\ Len(toClient'[c]) = Len(toClient[c])
      BY <1>7, <2>6, <2>7, Zenon
    <3>3. (Len(toServer[c]) + Len(toClient[c])) + 1 = (Len(toServer[c]) + 1) + Len(toClient[c])
      <4>1. \A x, y \in Nat : (x + y) + 1 = (x + 1) + y
        OBVIOUS
      <4>2. QED
        BY <3>1, <4>1, Zenon
    <3>4. QED
      BY <2>5, <3>2, <3>3, Zenon
  <2>10. QED
    BY <1>0, <1>6, <2>3, <2>6, <2>7, <2>9, AnswersMatch, Zenon
<1>12. QED
  BY <1>9, <1>10, <1>11 DEF TaskIInv

(* A task reads an answer, its own or not, and does not wait any more.     *)
LEMMA TaskReadStep == ASSUME TaskIInv, NEW t \in TaskIds, Read(t) PROVE TaskIInv'
<1>0. TaskShape /\ TasksAdded /\ Slices /\ AnswersOnTheWay
  BY DEF TaskIInv
<1> DEFINE c == ConnOf(t)
<1>1. PICK from : /\ from \in {"read text", "read binary"}
                  /\ \E to \in {"write binary", "append"} : TaskTo(t, from, to)
                  /\ toClient[c] # <<>> /\ toClient' = [toClient EXCEPT ![c] = Tail(@)]
                  /\ main' = (IF Head(toClient[c]) = TaskMessage(t) THEN main ELSE "fatal")
                  /\ UNCHANGED <<next, toServer, success, old>>
  BY Zenon DEF Read
<1>2. PICK to : to \in {"write binary", "append"} /\ TaskTo(t, from, to)
  BY <1>1, Zenon
<1>3. to \in TaskStates /\ from # "none" /\ from # "done" /\ to # "done"
      /\ to \notin {"read text", "read binary"}
  BY <1>1, <1>2, Zenon DEF TaskStates
<1> HIDE DEF c
<1>4. /\ task' \in [TaskIds -> TaskStates] /\ task[t] = from /\ task'[t] = to
      /\ \A u \in TaskIds : u # t => task'[u] = task[u]
      /\ \A u \in TaskIds : u >= next => task'[u] = "none"
      /\ main \notin {"done", "fatal"}
  BY <1>2, <1>3, TaskGoes, Zenon
<1>5. /\ c \in TaskConns /\ toServer[c] \in Seq(TaskMessages) /\ toClient[c] \in Seq(TaskMessages)
      /\ toClient[c] # <<>>
  <2>1. toClient[c] # <<>>
    BY <1>1, Zenon
  <2>2. QED
    BY <1>0, <2>1, TaskFacts DEF TaskShape, c
<1>6. /\ Tail(toClient[c]) \in Seq(TaskMessages) /\ Len(toClient[c]) \in Nat
      /\ Len(Tail(toClient[c])) = Len(toClient[c]) - 1
  BY <1>5, HeadTailProperties
<1>7. UNCHANGED <<next, toServer, success, old>> /\ main' \in {main, "fatal"}
  BY <1>1, Zenon
<1>8. /\ toClient' \in [TaskConns -> Seq(TaskMessages)]
      /\ \A d \in TaskConns : toClient'[d] = IF d = c THEN Tail(toClient[c]) ELSE toClient[d]
  <2>1. toClient' = [toClient EXCEPT ![c] = Tail(@)]
    BY <1>1, Zenon
  <2>2. QED
    BY <1>0, <1>5, <1>6, <2>1 DEF TaskShape
<1>9. TaskShape' /\ TasksAdded'
  BY <1>0, <1>4, <1>7, <1>8 DEF TaskShape, TasksAdded
<1>10. Slices'
  <2>1. \A u \in TaskIds : task'[u] = "done" <=> task[u] = "done"
    BY <1>3, <1>4, Zenon
  <2>2. QED
    BY <1>0, <1>7, <2>1, SlicesStay
<1>11. AnswersOnTheWay'
  <2>1. Awaits(t) /\ ~Awaits(t)' /\ \A u \in TaskIds : u # t => (Awaits(u)' <=> Awaits(u))
    BY <1>1, <1>3, <1>4, Zenon DEF Awaits
  <2>2. Awaiting(c)' = Awaiting(c) \ {t} /\ t \in Awaiting(c)
    BY <2>1 DEF Awaiting, c
  <2>3. ASSUME NEW d \in TaskConns, d # c PROVE Awaiting(d)' = Awaiting(d)
    BY <2>1, <2>3 DEF Awaiting, c
  <2>4. IsFiniteSet(Awaiting(c))
    BY TaskFacts, FS_Subset DEF Awaiting
  <2>5. Cardinality(Awaiting(c)') = Cardinality(Awaiting(c)) - 1
    BY <2>2, <2>4, FS_RemoveElement
  <2>6. Len(toServer[c]) \in Nat
    BY <1>5
  <2>7. toClient'[c] = Tail(toClient[c]) /\ \A d \in TaskConns : d # c => toClient'[d] = toClient[d]
    BY <1>5, <1>8, Zenon
  <2>9. Cardinality(Awaiting(c)) = Len(toServer[c]) + Len(toClient[c]) =>
            Cardinality(Awaiting(c)') = Len(toServer'[c]) + Len(toClient'[c])
    <3>1. Len(toServer'[c]) = Len(toServer[c]) /\ Len(toClient'[c]) = Len(toClient[c]) - 1
      BY <1>6, <1>7, <2>7, Zenon
    <3>2. Len(toServer[c]) \in Nat /\ Len(toClient[c]) \in Nat
      BY <1>6, <2>6
    <3>3. QED
      BY <2>5, <3>1, <3>2
  <2>10. main # "fatal"
    BY <1>4
  <2>11. QED
    BY <1>0, <1>5, <1>7, <2>3, <2>7, <2>9, <2>10, AnswersMatch, Zenon
<1>12. QED
  BY <1>9, <1>10, <1>11 DEF TaskIInv

(* The server answers a message.                                           *)
LEMMA TaskServerStep == ASSUME TaskIInv, NEW c \in TaskConns, TaskServerEcho(c) PROVE TaskIInv'
<1>0. TaskShape /\ TasksAdded /\ Slices /\ AnswersOnTheWay
  BY DEF TaskIInv
<1> DEFINE m == Head(toServer[c])
<1>1. /\ toServer[c] # <<>> /\ toServer' = [toServer EXCEPT ![c] = Tail(@)]
      /\ toClient' = [toClient EXCEPT ![c] = Append(@, m)]
      /\ UNCHANGED <<task, next, success, old, main>>
  BY DEF TaskServerEcho
<1>2. toServer[c] \in Seq(TaskMessages) /\ toClient[c] \in Seq(TaskMessages)
  BY <1>0 DEF TaskShape
<1>3. /\ m \in TaskMessages /\ Tail(toServer[c]) \in Seq(TaskMessages) /\ Len(toServer[c]) \in Nat
      /\ Len(Tail(toServer[c])) = Len(toServer[c]) - 1
  BY <1>1, <1>2, HeadTailProperties
<1> HIDE DEF m
<1>4. /\ Append(toClient[c], m) \in Seq(TaskMessages) /\ Len(toClient[c]) \in Nat
      /\ Len(Append(toClient[c], m)) = Len(toClient[c]) + 1
  BY <1>2, <1>3, AppendProperties
<1>5. /\ toServer' \in [TaskConns -> Seq(TaskMessages)] /\ toClient' \in [TaskConns -> Seq(TaskMessages)]
      /\ \A d \in TaskConns : toServer'[d] = IF d = c THEN Tail(toServer[c]) ELSE toServer[d]
      /\ \A d \in TaskConns : toClient'[d] = IF d = c THEN Append(toClient[c], m) ELSE toClient[d]
  BY <1>0, <1>1, <1>3, <1>4 DEF TaskShape
<1>6. TaskShape' /\ TasksAdded'
  BY <1>0, <1>1, <1>5 DEF TaskShape, TasksAdded
<1>7. Slices'
  BY <1>0, <1>1, SlicesStay
<1>8. AnswersOnTheWay'
  <2>1. \A d \in TaskConns : Awaiting(d)' = Awaiting(d)
    BY <1>1, Zenon DEF Awaiting, Awaits
  <2>2. QED
    BY <1>0, <1>1, <1>3, <1>4, <1>5, <2>1 DEF AnswersOnTheWay
<1>9. QED
  BY <1>6, <1>7, <1>8 DEF TaskIInv

(* Every step of the sticky client preserves the invariant.                *)
LEMMA TaskStepIInv == TaskIInv /\ [TaskNext]_taskVars => TaskIInv'
<1> SUFFICES ASSUME TaskIInv, [TaskNext]_taskVars PROVE TaskIInv'
  OBVIOUS
<1>1. CASE Go \/ Wait
  BY <1>1, TaskMainStep
<1>2. CASE \E t \in TaskIds : TaskStep(t)
  <2>1. PICK t \in TaskIds : TaskStep(t)
    BY <1>2
  <2>2. QED
    BY <2>1, StartStep, TaskWriteStep, TaskReadStep, ReadSuccessStep, StoreSuccessStep, Zenon DEF TaskStep
<1>3. CASE \E c \in TaskConns : TaskServerEcho(c)
  BY <1>3, TaskServerStep
<1>4. CASE UNCHANGED taskVars
  <2>1. UNCHANGED <<task, next, toServer, toClient, success, old, main>>
    BY <1>4 DEF taskVars
  <2>2. TaskShape' /\ TasksAdded'
    BY <2>1 DEF TaskIInv, TaskShape, TasksAdded
  <2>3. Slices' /\ AnswersOnTheWay'
    BY <2>1, SlicesStay, AnswersStay DEF TaskIInv, Awaits
  <2>4. QED
    BY <2>2, <2>3 DEF TaskIInv
<1>5. QED
  BY <1>1, <1>2, <1>3, <1>4, Zenon DEF TaskNext

-----------------------------------------------------------------------------
(* One program runs, the others stand still.                               *)
LEMMA AllSteps ==
    [AllNext]_allVars =>
        [Next]_vars /\ [WsNext]_wsVars /\ [RawNext]_rawVars /\ [StickyNext]_stickyVars /\ [TaskNext]_taskVars
<1> SUFFICES ASSUME [AllNext]_allVars
             PROVE  [Next]_vars /\ [WsNext]_wsVars /\ [RawNext]_rawVars /\ [StickyNext]_stickyVars /\ [TaskNext]_taskVars
  OBVIOUS
<1>1. CASE AllNext
  BY <1>1, Zenon DEF AllNext
<1>2. CASE UNCHANGED allVars
  BY <1>2, Zenon DEF allVars
<1>3. QED
  BY <1>1, <1>2

(* What holds of every state of every program.                             *)
TunnelsIInv == WsIInv /\ RawIInv /\ StickyIInv /\ TaskIInv

LEMMA TunnelsInitial == AllInit => TunnelsIInv
BY WsInitial, RawInitial, StickyInitial, TaskInitial DEF AllInit, TunnelsIInv

LEMMA TunnelsStep == TunnelsIInv /\ [AllNext]_allVars => TunnelsIInv'
<1> SUFFICES ASSUME TunnelsIInv, [AllNext]_allVars PROVE TunnelsIInv'
  OBVIOUS
<1>1. WsIInv' /\ RawIInv'
  BY AllSteps, WsStep, RawStep, Zenon DEF TunnelsIInv
<1>2. StickyIInv' /\ TaskIInv'
  BY AllSteps, StickyStep, TaskStepIInv, Zenon DEF TunnelsIInv
<1>3. QED
  BY <1>1, <1>2 DEF TunnelsIInv

(* The websocket proxy's part of it.                                       *)
LEMMA WsIsIntact == WsIInv => WsTypeOK /\ NothingDropped
BY Zenon DEF WsIInv, WsShape, WsTypeOK

(* Each of the programs is what its module says.                           *)
LEMMA ForwardRuns == AllSpec => Spec
<1>1. AllInit => Init
  BY DEF AllInit
<1>2. [AllNext]_allVars => [Next]_vars
  BY AllSteps, Zenon
<1>3. QED
  BY <1>1, <1>2, PTL DEF AllSpec, Spec

(* The variables of all the programs keep their types.                     *)
THEOREM TunnelsTypeCorrect == AllSpec => []TunnelsTypeOK
<1>1. TypeOK /\ TunnelsIInv => TunnelsTypeOK
  BY WsIsIntact, RawIsIntact, TasksAreAnswered, Zenon DEF TunnelsIInv, StickyIInv, TunnelsTypeOK
<1>2. AllSpec => []TypeOK
  BY ForwardRuns, ForwardTypeCorrect, PTL
<1>3. QED
  BY <1>1, <1>2, TunnelsInitial, TunnelsStep, PTL DEF AllSpec

(* The websocket proxy drops no message, whatever the interleaving of its  *)
(* handlers with the set-up.  proxy_ws2tcp loses bytes of the first frame  *)
(* or of its answer only, and only to its own engine; every byte that is   *)
(* not lost is on its way, once and in order.  Between the ends of the     *)
(* tunnel every byte is in flight, in a buffer or delivered.               *)
THEOREM NothingIsDropped == AllSpec => []TunnelsIntact
<1>1. TunnelsIInv => TunnelsIntact
  BY WsIsIntact, RawIsIntact, FlowsAreIntact, Zenon DEF TunnelsIInv, StickyIInv, TunnelsIntact
<1>2. QED
  BY <1>1, TunnelsInitial, TunnelsStep, PTL DEF AllSpec

(* On a shared connection there is an answer on the way for each task that *)
(* waits, and what main reports are tasks that are done.                   *)
THEOREM EachTaskIsAnswered == AllSpec => []TasksAnswered
<1>1. TunnelsIInv => TasksAnswered
  BY TasksAreAnswered, Zenon DEF TunnelsIInv, TasksAnswered
<1>2. QED
  BY <1>1, TunnelsInitial, TunnelsStep, PTL DEF AllSpec

(* The websocket proxy is an echo stream of messages, the websocket to TCP *)
(* proxy one of bytes, the sticky tunnel a stream in each direction.       *)
THEOREM ProxiesImplementEcho == AllSpec => ProxiesEcho
<1>1. AllInit => WsEcho!Init /\ RawEcho!Init /\ ToServer!Init /\ ToClient!Init
  <2>1. AllInit => WsEcho!Init
    BY DEF AllInit, WsInit, WsEcho!Init
  <2>2. AllInit => RawEcho!Init
    BY DEF AllInit, RawInit, RawEcho!Init
  <2>3. AllInit => ToServer!Init /\ ToClient!Init
    BY DEF AllInit, StickyInit, ToServer!Init, ToClient!Init, Sides
  <2>4. QED
    BY <2>1, <2>2, <2>3
<1>2. ASSUME TunnelsIInv, [AllNext]_allVars
      PROVE  /\ [WsEcho!Next]_(WsEcho!vars) /\ [RawEcho!Next]_(RawEcho!vars)
             /\ [ToServer!Next]_(ToServer!vars) /\ [ToClient!Next]_(ToClient!vars)
  <2>1. [WsEcho!Next]_(WsEcho!vars)
    BY <1>2, AllSteps, WsStep, Zenon DEF TunnelsIInv, WsEcho!Next, WsEcho!vars
  <2>2. [RawEcho!Next]_(RawEcho!vars)
    BY <1>2, AllSteps, RawStep, Zenon DEF TunnelsIInv, RawEcho!vars
  <2>3. [ToServer!Next]_(ToServer!vars) /\ [ToClient!Next]_(ToClient!vars)
    BY <1>2, AllSteps, StickyStep, Zenon DEF TunnelsIInv, ToServer!vars, ToClient!vars
  <2>4. QED
    BY <2>1, <2>2, <2>3
<1>3. QED
  BY <1>1, <1>2, TunnelsInitial, TunnelsStep, PTL
     DEF AllSpec, ProxiesEcho, WsEchoSpec, RawEchoSpec, BothStreams, WsEcho!Spec, RawEcho!Spec, ToServer!Spec, ToClient!Spec
=============================================================================
