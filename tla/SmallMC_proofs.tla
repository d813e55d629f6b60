----------------------------- MODULE SmallMC_proofs -----------------------------
(***************************************************************************)
(* Proofs about the small programs, for every value of their constants:    *)
(* for each an invariant that is inductive under the program's own steps,  *)
(* and at the end those of all of them under the steps of SmallMC.         *)
(***************************************************************************)
EXTENDS SmallMC, SequenceTheorems, FiniteSetTheorems, TLAPS

-----------------------------------------------------------------------------
(* Edges: conservation of the bytes bounds what is in bench's socket by    *)
(* the buffer that OnRead reads it with.                                   *)
EdgesIInv == EdgesTypeOK /\ NothingStranded

(* Nothing has been written and no byte is anywhere.                       *)
LEMMA EdgesInitial == EdgesInit => EdgesIInv
<1> SUFFICES ASSUME EdgesInit PROVE EdgesIInv
  OBVIOUS
<1>1. ~written /\ written \in BOOLEAN /\ event \in BOOLEAN
  BY Zenon DEF EdgesInit
<1>2. QED
  BY <1>1 DEF EdgesInit, EdgesIInv, EdgesTypeOK, NothingStranded

(* Every read leaves an event for what it leaves in the socket: bench's    *)
(* OnRead, the only one that does not look again, leaves nothing.          *)
LEMMA EdgesStep == EdgesIInv /\ EdgesNext => EdgesIInv'
<1> SUFFICES ASSUME EdgesIInv, EdgesNext PROVE EdgesIInv'
  OBVIOUS
<1> USE BenchFits, LtSizes DEF EdgesIInv, EdgesTypeOK, NothingStranded
<1>1. CASE BenchClientWrites
  BY <1>1 DEF BenchClientWrites
<1>2. CASE Arrive
  BY <1>2 DEF Arrive
<1>3. CASE LTRead
  BY <1>3 DEF LTRead, MinOf
<1>4. CASE ETRead
  <2>1. ~event' /\ event' \in BOOLEAN
    BY <1>4, Zenon DEF ETRead
  <2>2. QED
    BY <1>4, <2>1 DEF ETRead
<1>5. CASE OnRead
  <2>1. poller = "bench" /\ ~event' /\ event' \in BOOLEAN
    BY <1>5, Zenon DEF OnRead
  <2>2. inSocket =< BenchBuffer
    BY <2>1
  <2>3. QED
    BY <1>5, <2>1, <2>2 DEF OnRead, MinOf
<1>6. CASE BenchOnData
  BY <1>6 DEF BenchOnData
<1>7. QED
  BY <1>1, <1>2, <1>3, <1>4, <1>5, <1>6 DEF EdgesNext

-----------------------------------------------------------------------------
(* TlsCount: records read together stay in the library, so that the server *)
(* never counts as many calls as there are records.                        *)
CountIInv ==
    /\ TlsCountTypeOK
    /\ together <=> leftover > 0
    /\ ctxDone => count = readCount
    /\ testAt \in {"dials", "writes", "panicked"} => sentRecords < readCount

(* No record has been written or counted.                                  *)
LEMMA CountInitial == TlsCountInit => CountIInv
<1> SUFFICES ASSUME TlsCountInit PROVE CountIInv
  OBVIOUS
<1>1. /\ ~together /\ ~ctxDone /\ together \in BOOLEAN /\ ctxDone \in BOOLEAN
      /\ listening \in BOOLEAN
  BY Zenon DEF TlsCountInit
<1>2. QED
  BY <1>1, SomeRecords DEF TlsCountInit, CountIInv, TlsCountTypeOK

(* A call of OnData that merges records leaves them in the library, so     *)
(* that the count stays behind the records for good.                       *)
LEMMA CountStep == CountIInv /\ TlsCountNext => CountIInv'
<1> SUFFICES ASSUME CountIInv, TlsCountNext PROVE CountIInv'
  OBVIOUS
<1> USE SomeRecords DEF CountIInv, TlsCountTypeOK
<1>1. CASE TestWrites
  BY <1>1 DEF TestWrites
<1>2. CASE TestReturns
  BY <1>2 DEF TestReturns
<1>3. CASE TestOnData
  <2>1. PICK k \in 1..onTheWay :
          /\ onTheWay' = onTheWay - k /\ together' = (together \/ k > 1)
          /\ leftover' = leftover + k - 1
          /\ count' = count + 1 /\ ctxDone' = (ctxDone \/ count' = readCount)
          /\ UNCHANGED <<listening, sentRecords, testAt>>
    BY <1>3 DEF TestOnData
  <2>2. /\ together' <=> together \/ k > 1
        /\ ctxDone' <=> ctxDone \/ count' = readCount
        /\ together' \in BOOLEAN /\ ctxDone' \in BOOLEAN
    BY <2>1, Zenon
  <2>3. QED
    BY <2>1, <2>2
<1>4. CASE TestServerStarts
  BY <1>4 DEF TestServerStarts
<1>5. CASE TestDials
  BY <1>5 DEF TestDials
<1>6. QED
  BY <1>1, <1>2, <1>3, <1>4, <1>5 DEF TlsCountNext

(* A full count is a call for each record, and so none was merged.         *)
LEMMA CountSafe == CountIInv => PassNeedsSeparateRecords
  BY SomeRecords DEF CountIInv, TlsCountTypeOK, PassNeedsSeparateRecords
-----------------------------------------------------------------------------
(* AsyncDial: while the client is connected its message is on the way.  A  *)
(* call of OnData brings at most one message, and exactly one as long as   *)
(* none was cut up.                                                        *)
Echoes == EchoCount - echoCount

DialIInv ==
    /\ AsyncTypeOK
    /\ dialer \in {"dialing", "failed"} =>
          echoCount = EchoCount /\ toEchoer = 0 /\ toDialer = 0 /\ echoed = 0
    /\ dialer = "connected" => echoCount > 0
    /\ dialer = "closed" => echoCount = 0 /\ toDialer = 0
    /\ echoed =< Echoes * HelloLen
    /\ ~fragmented => echoed = Echoes * HelloLen

(* The arithmetic of counting whole messages.                              *)
LEMMA TimesMonotonic ==
    ASSUME NEW a \in Nat, NEW b \in Nat, NEW n \in Nat, a =< b
    PROVE  a * n =< b * n /\ a * n \in Nat /\ (a + 1) * n = a * n + n
  OBVIOUS

(* Before the dial ends nothing is on the way.                             *)
LEMMA DialInitial == AsyncInit => DialIInv
<1> SUFFICES ASSUME AsyncInit PROVE DialIInv
  OBVIOUS
<1>1. ~fragmented /\ fragmented \in BOOLEAN
  BY Zenon DEF AsyncInit
<1>2. Echoes = 0 /\ Echoes * HelloLen = 0 /\ EchoCount * HelloLen \in Nat
  BY SomeEchoes DEF AsyncInit, Echoes
<1>3. QED
  BY <1>1, <1>2, SomeEchoes DEF AsyncInit, DialIInv, AsyncTypeOK

(* Each call of OnData brings at most one message, and all of it unless it *)
(* was cut.                                                                *)
LEMMA DialStep == DialIInv /\ AsyncNext => DialIInv'
<1> SUFFICES ASSUME DialIInv, AsyncNext PROVE DialIInv'
  OBVIOUS
<1> USE SomeEchoes DEF DialIInv, AsyncTypeOK
<1>1. CASE AsyncDialFails
  BY <1>1 DEF AsyncDialFails, Echoes
<1>2. CASE AsyncDialConnects
  BY <1>2 DEF AsyncDialConnects, Echoes
<1>3. CASE EchoerOnData
  BY <1>3 DEF EchoerOnData, Echoes
<1>4. CASE DialerOnData
  <2>1. PICK n \in 1..toDialer :
          /\ echoed' = echoed + n /\ echoCount' = echoCount - 1
          /\ fragmented' = (fragmented \/ n < HelloLen)
          /\ dialer' = IF echoCount' = 0 THEN "closed" ELSE dialer
          /\ toEchoer' = IF echoCount' = 0 THEN toEchoer ELSE toEchoer + n
          /\ toDialer' = IF echoCount' = 0 THEN 0 ELSE toDialer - n
    BY <1>4 DEF DialerOnData
  <2>2. /\ dialer = "connected"
        /\ fragmented' <=> fragmented \/ n < HelloLen
        /\ fragmented' \in BOOLEAN
    BY <1>4, <2>1, Zenon DEF DialerOnData
  <2>3. /\ Echoes \in Nat /\ Echoes' = Echoes + 1 /\ Echoes' =< EchoCount
        /\ Echoes' * HelloLen = Echoes * HelloLen + HelloLen
        /\ Echoes' * HelloLen =< EchoCount * HelloLen
        /\ Echoes * HelloLen \in Nat /\ EchoCount * HelloLen \in Nat
    BY <2>1, <2>2, TimesMonotonic DEF Echoes
  <2>4. echoed' \in 0..(EchoCount * HelloLen) /\ echoed' =< Echoes' * HelloLen
    BY <2>1, <2>3
  <2>5. ~fragmented' => echoed' = Echoes' * HelloLen
    BY <2>1, <2>2, <2>3
  <2>6. QED
    BY <2>1, <2>2, <2>4, <2>5
<1>5. QED
  BY <1>1, <1>2, <1>3, <1>4 DEF AsyncNext

(* A client that closes has counted all its echoes.                        *)
LEMMA DialSafe == DialIInv => FewerEchoesNeedFragments
<1>1. ASSUME DialIInv, dialer = "closed", ~fragmented
      PROVE  echoed = EchoCount * HelloLen
  <2>1. echoCount = 0 /\ Echoes = EchoCount
    BY <1>1, SomeEchoes DEF DialIInv, Echoes
  <2>2. QED
    BY <1>1, <2>1 DEF DialIInv
<1>2. QED
  BY <1>1 DEF FewerEchoesNeedFragments
-----------------------------------------------------------------------------
(* UdpEcho: the copies of a request on the way, and the one the client has *)
(* taken for its answer, are no more than those written and duplicated.    *)
Written(r) == IF r < sent \/ (r = sent /\ sender # "write") THEN 1 ELSE 0
Answered(r) == IF (kind = "nb" /\ doneClosed /\ r = 1) \/ (kind = "std" /\ r < sent) THEN 1 ELSE 0

Balance(r) == requests[r] + answers[r] + Answered(r) =< duplicates + Written(r)

EchoShape ==
    /\ kind \in {"nb", "std"} /\ (kind = "nb" => sent = 1)
    /\ sender \in {"write", "wait", "success", "timeout", "panicked"}
    /\ sent \in 1..Requests /\ doneClosed \in BOOLEAN /\ duplicates \in 0..MaxDuplicates
    /\ requests \in [1..Requests -> Nat] /\ answers \in [1..Requests -> Nat]

EchoIInv ==
    /\ EchoShape
    /\ \A r \in 1..Requests : Balance(r)
    /\ PanicNeedsDuplicate

(* No datagram is on the way.                                              *)
LEMMA EchoInitial == UdpEchoInit => EchoIInv
<1> SUFFICES ASSUME UdpEchoInit PROVE EchoIInv
  OBVIOUS
<1>1. ~doneClosed /\ doneClosed \in BOOLEAN
  BY Zenon DEF UdpEchoInit
<1>2. QED
  BY <1>1, SomeRequests
     DEF UdpEchoInit, EchoIInv, EchoShape, Balance, Written, Answered, PanicNeedsDuplicate

(* What the balance of a request is made of. *)
LEMMA BalanceTerms ==
    ASSUME EchoShape, NEW r \in 1..Requests
    PROVE  /\ requests[r] \in Nat /\ answers[r] \in Nat /\ duplicates \in Nat
           /\ Written(r) \in 0..1 /\ Answered(r) \in 0..1
  BY DEF EchoShape, Written, Answered

(* Each step moves, drops or duplicates one copy of one request.           *)
LEMMA EchoStep == EchoIInv /\ UdpEchoNext => EchoIInv'
<1> SUFFICES ASSUME EchoIInv, UdpEchoNext PROVE EchoIInv'
  OBVIOUS
<1>0. EchoShape /\ (\A r \in 1..Requests : Balance(r)) /\ PanicNeedsDuplicate
  BY DEF EchoIInv
<1>1. CASE SenderWrites
  <2>1. EchoShape' /\ PanicNeedsDuplicate'
    BY <1>0, <1>1 DEF More, Less, SenderWrites, EchoShape, PanicNeedsDuplicate
  <2>2. ASSUME NEW r \in 1..Requests PROVE Balance(r)'
    <3>1. requests'[r] = (IF r = sent THEN requests[r] + 1 ELSE requests[r]) /\ answers' = answers
      BY <1>0, <1>1 DEF More, Less, SenderWrites, EchoShape
    <3>2. /\ Written(r)' = IF r = sent THEN 1 ELSE Written(r)
          /\ Written(sent) = 0 /\ Answered(r)' = Answered(r) /\ duplicates' = duplicates
      BY <1>0, <1>1 DEF SenderWrites, EchoShape, Written, Answered
    <3>3. QED
      BY <1>0, <3>1, <3>2, BalanceTerms DEF Balance
  <2>3. QED
    BY <2>1, <2>2 DEF EchoIInv
<1>2. CASE ServerAnswers
  <2>1. PICK q \in 1..Requests : requests[q] > 0 /\ requests' = Less(requests, q) /\ answers' = More(answers, q)
    BY <1>2 DEF ServerAnswers
  <2>2. UNCHANGED <<kind, sender, sent, doneClosed, duplicates>>
    BY <1>2 DEF ServerAnswers
  <2>3. EchoShape' /\ PanicNeedsDuplicate'
    BY <1>0, <2>1, <2>2 DEF More, Less, EchoShape, PanicNeedsDuplicate
  <2>4. ASSUME NEW r \in 1..Requests PROVE Balance(r)'
    <3>1. requests'[r] + answers'[r] = requests[r] + answers[r]
      BY <1>0, <2>1 DEF More, Less, EchoShape
    <3>2. Written(r)' = Written(r) /\ Answered(r)' = Answered(r)
      BY <2>2 DEF Written, Answered
    <3>3. QED
      BY <1>0, <2>2, <3>1, <3>2, BalanceTerms DEF Balance
  <2>5. QED
    BY <2>3, <2>4 DEF EchoIInv
<1>3. CASE NbOnData
  <2>1. doneClosed' /\ doneClosed' \in BOOLEAN /\ 1 \in 1..Requests
    BY <1>3, SomeRequests DEF NbOnData
  <2>2. answers' = Less(answers, 1) /\ answers[1] > 0 /\ kind = "nb" /\ sent = 1 /\ sender = "wait"
    BY <1>0, <1>3 DEF NbOnData, EchoShape
  <2>3. /\ UNCHANGED <<kind, sent, requests, duplicates>>
        /\ sender' = IF doneClosed THEN "panicked" ELSE sender
    BY <1>3 DEF NbOnData
  <2>4. EchoShape'
    BY <1>0, <2>1, <2>2, <2>3 DEF More, Less, EchoShape
  <2>5. doneClosed => duplicates > 0
    <3>1. doneClosed => Answered(1) = 1
      BY <2>2 DEF Answered
    <3>2. QED
      BY <1>0, <2>1, <2>2, <3>1, BalanceTerms DEF Balance
  <2>6. ASSUME NEW r \in 1..Requests PROVE Balance(r)'
    <3>1. answers'[r] = IF r = 1 THEN answers[r] - 1 ELSE answers[r]
      BY <1>0, <2>1, <2>2 DEF More, Less, EchoShape
    <3>2. Written(r)' = Written(r)
      BY <2>2, <2>3 DEF Written
    <3>3. CASE r = 1
      <4>1. Written(1) = 1 /\ Answered(1)' = 1
        BY <2>1, <2>2, <2>3 DEF Written, Answered
      <4>2. QED
        BY <1>0, <2>2, <2>3, <3>1, <3>2, <3>3, <4>1, BalanceTerms DEF Balance
    <3>4. CASE r # 1
      <4>1. Answered(r)' = Answered(r)
        BY <1>0, <2>2, <2>3, <3>4 DEF Answered, EchoShape
      <4>2. QED
        BY <1>0, <2>3, <3>1, <3>2, <3>4, <4>1, BalanceTerms DEF Balance
    <3>5. QED
      BY <3>3, <3>4
  <2>7. QED
    BY <1>0, <2>2, <2>3, <2>4, <2>5, <2>6 DEF EchoIInv, PanicNeedsDuplicate
<1>4. CASE NbSelects
  <2>1. EchoShape' /\ PanicNeedsDuplicate'
    BY <1>0, <1>4 DEF NbSelects, EchoShape, PanicNeedsDuplicate
  <2>2. ASSUME NEW r \in 1..Requests PROVE Balance(r)'
    BY <1>0, <1>4 DEF NbSelects, Balance, Written, Answered
  <2>3. QED
    BY <2>1, <2>2 DEF EchoIInv
<1>5. CASE StdReads
  <2>1. PICK q \in 1..Requests :
          /\ answers[q] > 0 /\ answers' = Less(answers, q)
          /\ IF q # sent THEN sender' = "panicked" /\ UNCHANGED sent
             ELSE IF sent < Requests THEN sender' = "write" /\ sent' = sent + 1
             ELSE sender' = "success" /\ UNCHANGED sent
    BY <1>5 DEF StdReads
  <2>2. kind = "std" /\ sender = "wait" /\ UNCHANGED <<kind, doneClosed, requests, duplicates>>
    BY <1>5 DEF StdReads
  <2>3. EchoShape'
    <3>1. answers' \in [1..Requests -> Nat]
      BY <1>0, <2>1 DEF Less, EchoShape
    <3>2. sent' \in 1..Requests /\ sender' \in {"write", "success", "panicked"}
      <4>1. sent \in 1..Requests
        BY <1>0 DEF EchoShape
      <4>2. QED
        BY <2>1, <4>1, SomeRequests
    <3>3. QED
      BY <1>0, <2>2, <3>1, <3>2 DEF EchoShape
  <2>4. q # sent => duplicates > 0
    <3>1. q < sent => Answered(q) = 1
      BY <2>2 DEF Answered
    <3>2. q > sent => Written(q) = 0
      BY <1>0 DEF Written, EchoShape
    <3>3. q # sent => q < sent \/ q > sent
      BY <1>0 DEF EchoShape
    <3>4. QED
      BY <1>0, <2>1, <3>1, <3>2, <3>3, BalanceTerms DEF Balance
  <2>5. ASSUME NEW r \in 1..Requests PROVE Balance(r)'
    <3>1. answers'[r] = IF r = q THEN answers[r] - 1 ELSE answers[r]
      BY <1>0, <2>1 DEF More, Less, EchoShape
    <3>2. Written(r)' = Written(r)
      BY <1>0, <2>1, <2>2 DEF EchoShape, Written
    <3>3. Answered(r)' = Answered(r) \/ (r = q /\ Answered(r)' = 1 /\ Answered(r) = 0)
      BY <1>0, <2>1, <2>2 DEF EchoShape, Answered
    <3>4. QED
      BY <1>0, <2>1, <2>2, <3>1, <3>2, <3>3, BalanceTerms DEF Balance
  <2>6. QED
    BY <1>0, <2>1, <2>2, <2>3, <2>4, <2>5 DEF EchoIInv, PanicNeedsDuplicate
<1>6. CASE LoseOne
  <2>1. PICK q \in 1..Requests :
          \/ requests[q] > 0 /\ requests' = Less(requests, q) /\ UNCHANGED answers
          \/ answers[q] > 0 /\ answers' = Less(answers, q) /\ UNCHANGED requests
    BY <1>6 DEF LoseOne
  <2>2. UNCHANGED <<kind, sender, sent, doneClosed, duplicates>>
    BY <1>6 DEF LoseOne
  <2>3. EchoShape' /\ PanicNeedsDuplicate'
    BY <1>0, <2>1, <2>2 DEF More, Less, EchoShape, PanicNeedsDuplicate
  <2>4. ASSUME NEW r \in 1..Requests PROVE Balance(r)'
    <3>1. requests'[r] + answers'[r] =< requests[r] + answers[r] /\ requests'[r] + answers'[r] \in Nat
      <4>1. CASE requests[q] > 0 /\ requests' = Less(requests, q) /\ UNCHANGED answers
        BY <1>0, <4>1, SMTT(30) DEF Less, EchoShape
      <4>2. CASE answers[q] > 0 /\ answers' = Less(answers, q) /\ UNCHANGED requests
        BY <1>0, <4>2, SMTT(30) DEF Less, EchoShape
      <4>3. QED
        BY <2>1, <4>1, <4>2
    <3>2. Written(r)' = Written(r) /\ Answered(r)' = Answered(r)
      BY <2>2 DEF Written, Answered
    <3>3. QED
      BY <1>0, <2>2, <3>1, <3>2, BalanceTerms DEF Balance
  <2>5. QED
    BY <2>3, <2>4 DEF EchoIInv
<1>7. CASE Duplicate
  <2>1. PICK q \in 1..Requests :
          \/ requests[q] > 0 /\ requests' = More(requests, q) /\ UNCHANGED answers
          \/ answers[q] > 0 /\ answers' = More(answers, q) /\ UNCHANGED requests
    BY <1>7 DEF Duplicate
  <2>2. /\ UNCHANGED <<kind, sender, sent, doneClosed>>
        /\ duplicates < MaxDuplicates /\ duplicates' = duplicates + 1
    BY <1>7 DEF Duplicate
  <2>3. EchoShape' /\ PanicNeedsDuplicate'
    <3>1. requests' \in [1..Requests -> Nat] /\ answers' \in [1..Requests -> Nat]
      BY <1>0, <2>1 DEF More, EchoShape
    <3>2. duplicates' \in 0..MaxDuplicates /\ duplicates' > 0
      BY <1>0, <2>2, SomeRequests DEF EchoShape
    <3>3. QED
      BY <1>0, <2>2, <3>1, <3>2 DEF EchoShape, PanicNeedsDuplicate
  <2>4. ASSUME NEW r \in 1..Requests PROVE Balance(r)'
    <3>1. requests'[r] + answers'[r] =< requests[r] + answers[r] + 1 /\ requests'[r] + answers'[r] \in Nat
      <4>1. CASE requests[q] > 0 /\ requests' = More(requests, q) /\ UNCHANGED answers
        BY <1>0, <4>1, SMTT(30) DEF More, EchoShape
      <4>2. CASE answers[q] > 0 /\ answers' = More(answers, q) /\ UNCHANGED requests
        BY <1>0, <4>2, SMTT(30) DEF More, EchoShape
      <4>3. QED
        BY <2>1, <4>1, <4>2
    <3>2. Written(r)' = Written(r) /\ Answered(r)' = Answered(r)
      BY <2>2 DEF Written, Answered
    <3>3. QED
      BY <1>0, <2>2, <3>1, <3>2, BalanceTerms DEF Balance
  <2>5. QED
    BY <2>3, <2>4 DEF EchoIInv
<1>8. QED
  BY <1>1, <1>2, <1>3, <1>4, <1>5, <1>6, <1>7 DEF UdpEchoNext

(* A second answer to the only request of the nbio client needs a          *)
(* duplicate; and the copies on the way are bounded.                       *)
LEMMA EchoSafe == EchoIInv => UdpEchoTypeOK /\ PanicNeedsDuplicate
<1> SUFFICES ASSUME EchoIInv PROVE UdpEchoTypeOK /\ PanicNeedsDuplicate
  OBVIOUS
<1>1. ASSUME NEW r \in 1..Requests
      PROVE  requests[r] \in 0..(2 * MaxDuplicates + 2) /\ answers[r] \in 0..(2 * MaxDuplicates + 2)
  <2>1. duplicates \in 0..MaxDuplicates /\ Balance(r)
    BY DEF EchoIInv, EchoShape
  <2>2. QED
    BY <2>1, BalanceTerms, SomeRequests DEF EchoIInv, Balance
<1>2. QED
  BY <1>1 DEF EchoIInv, EchoShape, UdpEchoTypeOK, Copies

-----------------------------------------------------------------------------
(* Transfer: how far main is tells what it has closed and waited for, and  *)
(* that no handler of a closed server can still hand over a connection.    *)
Past(h) ==
    IF h = "tls" THEN tmain \in {"shutdown tcp", "receive tls", "receive tcp", "shutdown engine", "returned", "crashed"}
                 ELSE tmain \in {"receive tls", "receive tcp", "shutdown engine", "returned", "crashed"}
Received(h) ==
    IF h = "tls" THEN tmain \in {"receive tcp", "shutdown engine", "returned", "crashed"}
                 ELSE tmain \in {"shutdown engine", "returned", "crashed"}

(* main's progress and the servers it has shut down. *)
MainInOrder ==
    /\ tmain = "interrupt" => closing = {}
    /\ tmain = "shutdown tls" => closing = {"tls"}
    /\ tmain \notin {"interrupt", "shutdown tls"} => closing = Http
    /\ nbhttpEngine = "down" => tmain = "returned"
    /\ \A h \in Http : /\ chDone[h] = 1 => serve[h] = "returned"
                       /\ Received(h) => serve[h] = "returned"

(* The handlers of a server that has been shut down, and what becomes of   *)
(* the connections.                                                        *)
HandlersOver ==
    \A h \in Http : Past(h) => expired \/ \A u \in Users : via[u] = h => holder[u] # "handler"
HoldersMatch ==
    \A u \in Users : /\ holder[u] = "handler" => via[u] \in Http
                     /\ holder[u] = "engine" => via[u] = "nb"

TransferIInv == TransferTypeOK /\ MainInOrder /\ HandlersOver /\ HoldersMatch

(* Before the interrupt nothing is closed.                                 *)
LEMMA TransferInitial == TransferInit => TransferIInv
<1> SUFFICES ASSUME TransferInit PROVE TransferIInv
  OBVIOUS
<1>1. ~expired /\ expired \in BOOLEAN
  BY Zenon DEF TransferInit
<1>2. QED
  BY <1>1, RoundsAreNat
     DEF TransferInit, TransferIInv, TransferTypeOK, MainInOrder, HandlersOver, HoldersMatch, Http, Past, Received

(* The steps of main and of the goroutines that serve. *)
LEMMA TransferMainStep ==
    TransferIInv /\ (Interrupt \/ ShutdownStep \/ StartStep) => TransferIInv'
<1> SUFFICES ASSUME TransferIInv, Interrupt \/ ShutdownStep \/ StartStep PROVE TransferIInv'
  OBVIOUS
<1> USE DEF httpSide, userSide, Running
<1>0. TransferTypeOK /\ MainInOrder /\ HandlersOver /\ HoldersMatch
  BY DEF TransferIInv
<1>1. CASE Interrupt
  <2>1. TransferTypeOK' /\ MainInOrder'
    BY <1>0, <1>1 DEF Interrupt, TransferTypeOK, MainInOrder, Http, Received
  <2>2. HandlersOver' /\ HoldersMatch'
    BY <1>0, <1>1 DEF Interrupt, HandlersOver, HoldersMatch, Past, Http
  <2>3. QED
    BY <2>1, <2>2 DEF TransferIInv
<1>2. CASE Expire
  <2>1. expired' /\ expired' \in BOOLEAN
    BY <1>2, Zenon DEF Expire
  <2>2. TransferTypeOK' /\ MainInOrder'
    BY <1>0, <1>2, <2>1 DEF Expire, TransferTypeOK, MainInOrder, Http, Received
  <2>3. HandlersOver' /\ HoldersMatch'
    BY <1>0, <1>2, <2>1 DEF Expire, HandlersOver, HoldersMatch, Past, Http
  <2>4. QED
    BY <2>2, <2>3 DEF TransferIInv
<1>3. CASE ShutdownReturns
  <2>1. TransferTypeOK' /\ MainInOrder'
    BY <1>0, <1>3 DEF ShutdownReturns, TransferTypeOK, MainInOrder, Http, Received
  <2>2. HandlersOver' /\ HoldersMatch'
    BY <1>0, <1>3 DEF ShutdownReturns, Quiet, HandlersOver, HoldersMatch, Past, Http
  <2>3. QED
    BY <2>1, <2>2 DEF TransferIInv
<1>4. ASSUME NEW h \in Http, NEW at, NEW next, ReceiveDone(h, at, next),
             \/ h = "tls" /\ at = "receive tls" /\ next = "receive tcp"
             \/ h = "tcp" /\ at = "receive tcp" /\ next = "shutdown engine"
      PROVE  TransferIInv'
  <2>1. /\ tmain = at /\ chDone[h] = 1 /\ tmain' = next /\ chDone' = [chDone EXCEPT ![h] = 0]
        /\ UNCHANGED <<nbhttpEngine, serve, closing, expired, via, holder, user, rounds, wire>>
    BY <1>4 DEF ReceiveDone
  <2>2. chDone' \in [Http -> {0, 1}]
    BY <1>0, <2>1 DEF TransferTypeOK
  <2>3. TransferTypeOK'
    BY <1>0, <1>4, <2>1, <2>2 DEF TransferTypeOK
  <2>4. MainInOrder'
    BY <1>0, <1>4, <2>1 DEF TransferTypeOK, MainInOrder, Http, Received
  <2>5. HandlersOver' /\ HoldersMatch'
    BY <1>0, <1>4, <2>1 DEF HandlersOver, HoldersMatch, Past, Http
  <2>6. QED
    BY <2>3, <2>4, <2>5 DEF TransferIInv
<1>5. CASE ShutdownEngine
  <2>0. /\ tmain = "shutdown engine" /\ tmain' \in {"crashed", "returned"}
        /\ nbhttpEngine' \in {nbhttpEngine, "down"}
        /\ nbhttpEngine' = "down" => tmain' = "returned" \/ nbhttpEngine = "down"
        /\ holder' \in [Users -> {"none", "handler", "engine", "other", "closed"}]
        /\ UNCHANGED <<serve, chDone, closing, expired, via, user, rounds, wire>>
    <3>1. CASE nbhttpEngine = "nil"
      BY <1>0, <1>5, <3>1 DEF ShutdownEngine, TransferTypeOK
    <3>2. CASE nbhttpEngine # "nil"
      <4>1. holder' = [u \in Users |-> IF holder[u] = "engine" THEN "closed" ELSE holder[u]]
        BY <1>5, <3>2 DEF ShutdownEngine
      <4>2. holder' \in [Users -> {"none", "handler", "engine", "other", "closed"}]
        BY <1>0, <4>1 DEF TransferTypeOK
      <4>3. QED
        BY <1>5, <3>2, <4>2 DEF ShutdownEngine
    <3>3. QED
      BY <3>1, <3>2
  <2>1. TransferTypeOK' /\ MainInOrder'
    BY <1>0, <2>0 DEF TransferTypeOK, MainInOrder, Http, Received
  <2>2. \A u \in Users : holder'[u] = holder[u] \/ holder'[u] = "closed"
    BY <1>0, <1>5, ZenonT(40) DEF ShutdownEngine, TransferTypeOK
  <2>3. HandlersOver' /\ HoldersMatch'
    BY <1>0, <1>5, <2>2 DEF ShutdownEngine, HandlersOver, HoldersMatch, Past, Http
  <2>4. QED
    BY <2>1, <2>3 DEF TransferIInv
<1>6. CASE startNBIO
  <2>1. TransferTypeOK' /\ MainInOrder'
    BY <1>0, <1>6 DEF startNBIO, TransferTypeOK, MainInOrder, Http, Received
  <2>2. HandlersOver' /\ HoldersMatch'
    BY <1>0, <1>6 DEF startNBIO, HandlersOver, HoldersMatch, Past, Http
  <2>3. QED
    BY <2>1, <2>2 DEF TransferIInv
<1>7. ASSUME NEW h \in Http, startHTTP(h) PROVE TransferIInv'
  <2>1. chDone[h] \in {0, 1} /\ (serve[h] # "returned" => chDone[h] = 0)
    BY <1>0 DEF TransferTypeOK, MainInOrder
  <2>2. serve' \in [Http -> {"starting", "serving", "returned"}] /\ chDone' \in [Http -> {0, 1}]
    <3>1. CASE serve' = [serve EXCEPT ![h] = "serving"] /\ UNCHANGED chDone
      BY <1>0, <3>1 DEF TransferTypeOK
    <3>2. CASE /\ serve[h] # "returned"
               /\ serve' = [serve EXCEPT ![h] = "returned"] /\ chDone' = [chDone EXCEPT ![h] = @ + 1]
      <4>1. chDone' = [chDone EXCEPT ![h] = 1]
        <5>1. chDone[h] + 1 = 1
          BY <2>1, <3>2
        <5>2. QED
          BY <3>2, <5>1
      <4>2. QED
        BY <1>0, <3>2, <4>1 DEF TransferTypeOK
    <3>3. QED
      BY <1>7, <3>1, <3>2 DEF startHTTP
  <2>3. TransferTypeOK'
    BY <1>0, <1>7, <2>2 DEF startHTTP, TransferTypeOK
  <2>4. \A g \in Http : /\ chDone'[g] = 1 => serve'[g] = "returned"
                        /\ serve[g] = "returned" => serve'[g] = "returned"
    BY <1>0, <1>7, <2>1, ZenonT(40) DEF startHTTP, TransferTypeOK, MainInOrder
  <2>5. MainInOrder'
    <3>1. UNCHANGED <<tmain, nbhttpEngine, closing>>
      BY <1>7 DEF startHTTP
    <3>2. \A g \in Http : Received(g)' => serve[g] = "returned"
      BY <1>0, <3>1 DEF MainInOrder, Received
    <3>3. QED
      BY <1>0, <2>4, <3>1, <3>2 DEF MainInOrder
  <2>6. HandlersOver' /\ HoldersMatch'
    BY <1>0, <1>7 DEF startHTTP, HandlersOver, HoldersMatch, Past, Http
  <2>7. QED
    BY <2>3, <2>5, <2>6 DEF TransferIInv
<1>8. QED
  BY <1>1, <1>2, <1>3, <1>4, <1>5, <1>6, <1>7 DEF ShutdownStep, StartStep, Receive, Http

(* The steps of a client and of its connection. *)
LEMMA TransferUserStep ==
    ASSUME TransferIInv, NEW u \in Users, UserStep(u)
    PROVE  TransferIInv'
<1> USE DEF httpSide, userSide, Running
<1>0. TransferTypeOK /\ MainInOrder /\ HandlersOver /\ HoldersMatch
  BY DEF TransferIInv
<1>1. UNCHANGED <<tmain, nbhttpEngine, serve, chDone, closing, expired, via>>
  BY DEF UserStep, UserDials, DialFails, onWebsocket, UserEcho, UserWrites, WriteIsFatal, UserReads
<1>2. MainInOrder'
  BY <1>0, <1>1 DEF MainInOrder, Http, Received
<1>3. TransferTypeOK'
  <2>1. CASE UserDials(u)
    BY <1>0, <1>1, <2>1 DEF UserDials, TransferTypeOK
  <2>2. CASE DialFails(u)
    BY <1>0, <1>1, <2>2 DEF DialFails, Fatal, TransferTypeOK
  <2>3. CASE onWebsocket(u)
    <3>1. /\ holder' \in [Users -> {"none", "handler", "engine", "other", "closed"}]
          /\ user' \in [Users -> {"dial", "upgrade", "write", "read", "returned", "exited"}]
      <4>1. PICK h \in {"other", "closed"} : holder' = [holder EXCEPT ![u] = h]
        BY <2>3 DEF onWebsocket
      <4>2. user' = user \/ user' = [user EXCEPT ![u] = "write"]
        BY <2>3 DEF onWebsocket
      <4>3. QED
        BY <1>0, <4>1, <4>2 DEF TransferTypeOK
    <3>2. UNCHANGED <<rounds, wire>>
      BY <2>3 DEF onWebsocket
    <3>3. QED
      BY <1>0, <1>1, <3>1, <3>2 DEF TransferTypeOK
  <2>4. CASE UserEcho(u)
    BY <1>0, <1>1, <2>4 DEF UserEcho, TransferTypeOK
  <2>5. CASE UserWrites(u)
    <3>1. rounds' \in [Users -> 0..MaxRounds]
      <4>1. rounds \in [Users -> 0..MaxRounds] /\ rounds[u] < MaxRounds /\ rounds[u] \in 0..MaxRounds
        BY <1>0, <2>5 DEF UserWrites, TransferTypeOK
      <4>2. rounds' = [rounds EXCEPT ![u] = rounds[u] + 1]
        BY <2>5 DEF UserWrites
      <4>3. \A S, n : rounds \in [Users -> S] /\ n \in S => [rounds EXCEPT ![u] = n] \in [Users -> S]
        OBVIOUS
      <4>4. rounds[u] + 1 \in 0..MaxRounds
        BY <4>1, RoundsAreNat
      <4>5. QED
        BY <4>1, <4>2, <4>3, <4>4
    <3>2. QED
      BY <1>0, <1>1, <2>5, <3>1 DEF UserWrites, TransferTypeOK
  <2>6. CASE WriteIsFatal(u)
    BY <1>0, <1>1, <2>6 DEF WriteIsFatal, Fatal, TransferTypeOK
  <2>7. CASE UserReads(u)
    BY <1>0, <1>1, <2>7, ZenonT(40) DEF UserReads, TransferTypeOK
  <2>8. QED
    BY <2>1, <2>2, <2>3, <2>4, <2>5, <2>6, <2>7 DEF UserStep
<1>4. \A v \in Users : /\ holder'[v] = "handler" => \/ holder[v] = "handler"
                                                    \/ via[v] \in Http \ closing
                       /\ holder'[v] = "engine" => holder[v] = "engine" \/ via[v] = "nb"
  <2>1. CASE UserDials(u)
    BY <1>0, <2>1 DEF UserDials, Accepts, TransferTypeOK
  <2>2. CASE onWebsocket(u)
    BY <1>0, <2>2 DEF onWebsocket, TransferTypeOK
  <2>3. CASE UNCHANGED holder
    BY <2>3
  <2>4. QED
    BY <2>1, <2>2, <2>3 DEF UserStep, DialFails, UserEcho, UserWrites, WriteIsFatal, UserReads
<1>5. \A h \in Http : Past(h) => h \in closing
  BY <1>0 DEF MainInOrder, Past, Http
<1>6. HoldersMatch'
  BY <1>0, <1>1, <1>4 DEF HoldersMatch
<1>7. HandlersOver'
  <2>1. SUFFICES ASSUME NEW h \in Http, Past(h), ~expired, NEW v \in Users, via[v] = h
                 PROVE  holder'[v] # "handler"
    BY <1>1 DEF HandlersOver, Past
  <2>2. holder[v] # "handler" /\ via[v] \in closing
    BY <1>0, <1>5, <2>1 DEF HandlersOver
  <2>3. QED
    BY <1>4, <2>2
<1>8. QED
  BY <1>2, <1>3, <1>6, <1>7 DEF TransferIInv

(* main, the servers and the clients of the transfer server.               *)
LEMMA TransferStep == TransferIInv /\ TransferNext => TransferIInv'
  BY TransferMainStep, TransferUserStep DEF TransferNext

(* The engine is down only after main has received from both servers,      *)
(* whose handlers are over.                                                *)
LEMMA TransferSafe == TransferIInv => TransferIsOrdered
<1> SUFFICES ASSUME TransferIInv PROVE EngineLast /\ OnlineMissesTransferred
  BY DEF TransferIsOrdered
<1>1. OnlineMissesTransferred
  BY DEF TransferIInv, HoldersMatch, OnlineMissesTransferred
<1>2. ASSUME nbhttpEngine = "down"
      PROVE  /\ \A h \in Http : serve[h] = "returned"
             /\ expired \/ \A u \in Users : holder[u] # "handler"
  <2>1. tmain = "returned"
    BY <1>2 DEF TransferIInv, MainInOrder
  <2>2. \A h \in Http : Received(h) /\ Past(h)
    BY <2>1 DEF Received, Past, Http
  <2>3. \A h \in Http : serve[h] = "returned"
    BY <2>2 DEF TransferIInv, MainInOrder
  <2>4. ASSUME NEW u \in Users, ~expired PROVE holder[u] # "handler"
    <3>1. holder[u] = "handler" => via[u] \in Http
      BY DEF TransferIInv, HoldersMatch
    <3>2. via[u] \in Http => holder[u] # "handler"
      BY <2>2, <2>4 DEF TransferIInv, HandlersOver
    <3>3. QED
      BY <3>1, <3>2
  <2>5. QED
    BY <2>3, <2>4
<1>3. QED
  BY <1>1, <1>2 DEF EngineLast
-----------------------------------------------------------------------------
(* UdpForward: the datagrams under way are copies of the one whose answer  *)
(* the client waits for.                                                   *)
UdpShape ==
    /\ round \in 1..(Rounds + 1) /\ client \in {"write", "read", "returned", "panicked"}
    /\ client \in {"write", "read"} => round \in 1..Rounds
    /\ dial \in {"none", "dialing", "dialed", "connected", "failed"}
    /\ src = [open |-> src.open, Peer |-> src.Peer, Cache |-> src.Cache]
    /\ src.open \in BOOLEAN /\ src.Peer \in BOOLEAN
    /\ doubled \in 0..MaxCopies /\ lost \in BOOLEAN

(* The dial has given the connection to the server its session before the  *)
(* connection to the client has a peer, and so before anything is sent;    *)
(* until then the client is in its first round.                            *)
SessionsMatch ==
    /\ dial \in {"dialing", "dialed", "connected"} => src.open
    /\ src.Peer <=> dial = "connected"
    /\ dst = IF dial \in {"dialed", "connected"} THEN [session |-> TRUE, Peer |-> TRUE, Cache |-> <<>>]
                                                 ELSE [session |-> FALSE, Peer |-> FALSE, Cache |-> <<>>]
    /\ IF dial = "connected" THEN src.Cache = <<>>
       ELSE round = 1 /\ toServer = <<>> /\ fromServer = <<>> /\ fromProxy = <<>>

(* Without a copy every datagram is the write of this round.               *)
Unmixed ==
    doubled = 0 => \A w \in {toProxy, toServer, fromServer, fromProxy} : w \in Seq({<<round>>})

UdpIInv == UdpShape /\ SessionsMatch /\ BoundariesKept /\ AnswersMatch /\ Unmixed

(* A list with an element less.                                            *)
LEMMA TakenOut ==
    ASSUME NEW S, NEW w \in Seq(S), NEW i \in 1..Len(w)
    PROVE  RemoveAt(w, i) \in Seq(S) /\ Len(RemoveAt(w, i)) = Len(w) - 1 /\ w[i] \in S
<1> DEFINE before == SubSeq(w, 1, i - 1)
           after == SubSeq(w, i + 1, Len(w))
<1>1. before \in Seq(S) /\ Len(before) = i - 1
  <2>1. \A k \in 1..(i - 1) : w[k] \in S
    OBVIOUS
  <2>2. QED
    BY <2>1, SubSeqProperties
<1>2. after \in Seq(S) /\ Len(after) = Len(w) - i
  <2>1. \A k \in (i + 1)..Len(w) : w[k] \in S
    OBVIOUS
  <2>2. QED
    BY <2>1, SubSeqProperties
<1>3. before \o after \in Seq(S) /\ Len(before \o after) = Len(w) - 1
  <2> HIDE DEF before, after
  <2>1. QED
    BY <1>1, <1>2
<1>4. RemoveAt(w, i) = before \o after
  BY DEF RemoveAt
<1>5. w[i] \in S
  OBVIOUS
<1> HIDE DEF before, after
<1>6. QED
  BY <1>3, <1>4, <1>5

(* A list with an element more.                                            *)
LEMMA PutIn ==
    ASSUME NEW S, NEW w \in Seq(S), NEW x \in S
    PROVE  Append(w, x) \in Seq(S) /\ Len(Append(w, x)) = Len(w) + 1
  OBVIOUS

(* A buffer takes a datagram of one write whole.                           *)
LEMMA BufferedOne ==
    ASSUME NEW x, NEW n \in Nat \ {0}
    PROVE  InBuffer(<<x>>, n) = <<x>>
<1>1. <<x>> \in Seq({x}) /\ Len(<<x>>) = 1
  OBVIOUS
<1>2. (IF Len(<<x>>) < n THEN Len(<<x>>) ELSE n) = Len(<<x>>)
  BY <1>1
<1>3. SubSeq(<<x>>, 1, Len(<<x>>)) = <<x>>
  BY <1>1, SubSeqFull
<1>4. QED
  BY <1>2, <1>3, Zenon DEF InBuffer

(* Of several copies it takes some, at least one.                          *)
LEMMA BufferedCopies ==
    ASSUME NEW d \in Seq({1}), d # <<>>, NEW n \in Nat \ {0}
    PROVE  InBuffer(d, n) \in Seq({1}) /\ Len(InBuffer(d, n)) \in 1..Len(d)
<1> DEFINE m == IF Len(d) < n THEN Len(d) ELSE n
<1>1. m \in 1..Len(d)
  OBVIOUS
<1>2. \A k \in 1..m : d[k] \in {1}
  BY <1>1
<1>3. SubSeq(d, 1, m) \in Seq({1}) /\ Len(SubSeq(d, 1, m)) = m
  <2> HIDE DEF m
  <2>1. QED
    BY <1>1, <1>2, SubSeqProperties
<1>4. QED
  BY <1>1, <1>3 DEF InBuffer

(* The sets of datagrams grow with the rounds and with the copies.         *)
LEMMA WritesGrow ==
    ASSUME round \in Nat, round' \in Nat, round =< round', doubled \in Nat, doubled' \in Nat, doubled =< doubled'
    PROVE  OneWrite \subseteq OneWrite' /\ FirstWrites \subseteq FirstWrites'
  BY DEF OneWrite, FirstWrites

(* No datagram is on the way and no session is open.                       *)
LEMMA UdpInitial == UdpInit => UdpIInv
<1> SUFFICES ASSUME UdpInit PROVE UdpIInv
  OBVIOUS
<1>1. /\ src = [open |-> FALSE, Peer |-> FALSE, Cache |-> <<>>] /\ dial = "none"
      /\ ~src.open /\ ~src.Peer /\ src.open \in BOOLEAN /\ src.Peer \in BOOLEAN
      /\ src = [open |-> src.open, Peer |-> src.Peer, Cache |-> src.Cache]
      /\ dst = [session |-> FALSE, Peer |-> FALSE, Cache |-> <<>>]
      /\ lost \in BOOLEAN
  BY DEF UdpInit
<1>2. UdpShape
  BY <1>1, SomeRounds DEF UdpInit, UdpShape
<1>3. SessionsMatch
  BY <1>1 DEF UdpInit, SessionsMatch
<1>4. \A S : <<>> \in Seq(S)
  OBVIOUS
<1>5. BoundariesKept /\ Unmixed
  <2>1. src.Cache = <<>>
    BY <1>1
  <2>2. \A w \in {toProxy, toServer, fromServer, fromProxy} : w = <<>>
    BY Zenon DEF UdpInit
  <2>3. QED
    BY <1>4, <2>1, <2>2, Zenon DEF BoundariesKept, Unmixed
<1>6. AnswersMatch
  <2>1. Cached = 0
    BY <1>1 DEF Cached
  <2>2. QED
    BY <2>1 DEF UdpInit, AnswersMatch, UnderWay
<1>7. QED
  BY <1>2, <1>3, <1>5, <1>6 DEF UdpIInv

(* What the invariant says of each list of datagrams.                      *)
LEMMA UdpLists ==
    ASSUME UdpIInv
    PROVE  /\ toProxy \in Seq(OneWrite) /\ src.Cache \in Seq({1})
           /\ toServer \in Seq(OneWrite \cup FirstWrites)
           /\ fromServer \in Seq(OneWrite \cup FirstWrites)
           /\ fromProxy \in Seq(OneWrite \cup FirstWrites)
           /\ round \in Nat /\ doubled \in Nat
           /\ Len(toProxy) \in Nat /\ Cached \in Nat /\ Len(toServer) \in Nat
           /\ Len(fromServer) \in Nat /\ Len(fromProxy) \in Nat
<1>1. src.Cache \in Seq({1})
  <2>1. src.Cache = <<>> \/ src.Cache \in FirstWrites
    BY Zenon DEF UdpIInv, BoundariesKept
  <2>2. <<>> \in Seq({1}) /\ FirstWrites \subseteq Seq({1})
    BY DEF FirstWrites
  <2>3. QED
    BY <2>1, <2>2, Zenon
<1>2. Cached \in Nat
  BY <1>1 DEF Cached
<1>3. QED
  BY <1>1, <1>2 DEF UdpIInv, BoundariesKept, UdpShape

(* A step that leaves the client's round, the copies and the dial alone    *)
(* keeps what the invariant says of them.                                  *)
LEMMA UdpQuiet ==
    ASSUME UdpIInv, UNCHANGED <<round, client, src, dial, dst, doubled>>, lost' \in BOOLEAN,
           dial # "connected" => toServer' = <<>> /\ fromServer' = <<>> /\ fromProxy' = <<>>
    PROVE  UdpShape' /\ SessionsMatch' /\ OneWrite' = OneWrite /\ FirstWrites' = FirstWrites
<1>1. UdpShape'
  BY DEF UdpIInv, UdpShape
<1>2. SessionsMatch'
  BY DEF UdpIInv, SessionsMatch
<1>3. OneWrite' = OneWrite /\ FirstWrites' = FirstWrites
  BY DEF OneWrite, FirstWrites
<1>4. QED
  BY <1>1, <1>2, <1>3

(* The client writes, reads its answer and goes on, or gives up.           *)
LEMMA UdpClientStep == UdpIInv /\ (ClientWrites \/ ClientReads \/ ClientReadFails) => UdpIInv'
<1> SUFFICES ASSUME UdpIInv, ClientWrites \/ ClientReads \/ ClientReadFails PROVE UdpIInv'
  OBVIOUS
<1> USE DEF sessions, datagrams, network
<1>0. UdpShape /\ SessionsMatch /\ BoundariesKept /\ AnswersMatch /\ Unmixed
  BY DEF UdpIInv
<1>l. /\ toProxy \in Seq(OneWrite) /\ src.Cache \in Seq({1})
      /\ toServer \in Seq(OneWrite \cup FirstWrites)
      /\ fromServer \in Seq(OneWrite \cup FirstWrites)
      /\ fromProxy \in Seq(OneWrite \cup FirstWrites)
      /\ round \in Nat /\ doubled \in Nat
      /\ Len(toProxy) \in Nat /\ Cached \in Nat /\ Len(toServer) \in Nat
      /\ Len(fromServer) \in Nat /\ Len(fromProxy) \in Nat
  BY UdpLists
<1>1. CASE ClientWrites /\ toProxy' = Append(toProxy, <<round>>)
  <2>1. /\ client = "write" /\ client' = "read"
        /\ UNCHANGED <<round, src, dial, dst, toServer, fromServer, fromProxy, doubled, lost>>
    <3>1. toProxy' # toProxy
      BY <1>1, <1>l
    <3>2. QED
      BY <1>1, <3>1 DEF ClientWrites
  <2>2. UdpShape' /\ SessionsMatch'
    BY <1>0, <2>1 DEF UdpShape, SessionsMatch
  <2>3. OneWrite' = OneWrite /\ FirstWrites' = FirstWrites /\ <<round>> \in OneWrite
    BY <1>0, <2>1 DEF OneWrite, FirstWrites, UdpShape
  <2>4. toProxy' \in Seq(OneWrite) /\ Len(toProxy') = Len(toProxy) + 1
    BY <1>1, <1>l, <2>3, PutIn
  <2>5. BoundariesKept'
    BY <1>0, <2>1, <2>3, <2>4 DEF BoundariesKept
  <2>6. AnswersMatch'
    <3>1. UnderWay' = UnderWay + 1
      <4>1. Cached' = Cached
        BY <2>1 DEF Cached
      <4>2. QED
        BY <1>l, <2>1, <2>4, <4>1 DEF UnderWay
    <3>n. UnderWay \in Nat
      BY <1>l DEF UnderWay
    <3>2. UnderWay =< doubled
      BY <1>0, <1>l, <2>1, <3>n DEF AnswersMatch
    <3>3. QED
      BY <1>0, <1>l, <2>1, <3>1, <3>2, <3>n DEF AnswersMatch
  <2>7. Unmixed'
    <3>1. toProxy \in Seq({<<round>>}) => toProxy' \in Seq({<<round>>})
      BY <1>1, PutIn
    <3>2. QED
      BY <1>0, <2>1, <3>1 DEF Unmixed
  <2>8. QED
    BY <2>2, <2>5, <2>6, <2>7 DEF UdpIInv
<1>2. CASE client' = "returned" /\ UNCHANGED <<round, src, dial, dst, toProxy, toServer, fromServer, fromProxy, doubled, lost>>
  <2>1. UdpShape' /\ SessionsMatch'
    BY <1>0, <1>2 DEF UdpShape, SessionsMatch
  <2>2. BoundariesKept' /\ Unmixed'
    BY <1>0, <1>2 DEF BoundariesKept, OneWrite, FirstWrites, Unmixed
  <2>3. AnswersMatch'
    <3>1. Cached' = Cached
      BY <1>2 DEF Cached
    <3>2. QED
      BY <1>0, <1>l, <1>2, <3>1 DEF AnswersMatch, UnderWay
  <2>4. QED
    BY <2>1, <2>2, <2>3 DEF UdpIInv
<1>3. CASE ClientReads
  <2>1. PICK i \in 1..Len(fromProxy) :
          /\ fromProxy' = RemoveAt(fromProxy, i)
          /\ IF InBuffer(fromProxy[i], 1) # <<round>> THEN client' = "panicked" /\ UNCHANGED round
             ELSE round' = round + 1 /\ client' = IF round = Rounds THEN "returned" ELSE "write"
    BY <1>3 DEF ClientReads
  <2>2. client = "read" /\ UNCHANGED <<src, dial, dst, toProxy, toServer, fromServer, doubled, lost>>
    BY <1>3 DEF ClientReads
  <2>3. fromProxy' \in Seq(OneWrite \cup FirstWrites) /\ Len(fromProxy') = Len(fromProxy) - 1
    BY <1>l, <2>1, TakenOut
  <2>4. dial = "connected" /\ src.Cache = <<>>
    BY <1>0, <2>1 DEF SessionsMatch
  <2>5. round' \in {round, round + 1} /\ client' \in {"panicked", "returned", "write"}
        /\ (client' = "write" => round' \in 1..Rounds) /\ round' \in 1..(Rounds + 1)
    BY <1>0, <2>1, <2>2, SomeRounds DEF UdpShape
  <2>6. UdpShape' /\ SessionsMatch'
    BY <1>0, <2>2, <2>4, <2>5 DEF UdpShape, SessionsMatch
  <2>7. OneWrite \subseteq OneWrite' /\ FirstWrites \subseteq FirstWrites'
    BY <1>l, <2>2, <2>5, WritesGrow
  <2>8. BoundariesKept'
    <3>1. \A S, T, w : S \subseteq T /\ w \in Seq(S) => w \in Seq(T)
      OBVIOUS
    <3>2. toProxy' \in Seq(OneWrite') /\ \A w \in {toServer', fromServer', fromProxy'} : w \in Seq(OneWrite' \cup FirstWrites')
      <4>1. (OneWrite \cup FirstWrites) \subseteq (OneWrite' \cup FirstWrites')
        BY <2>7
      <4>2. QED
        BY <1>l, <2>2, <2>3, <2>7, <3>1, <4>1, Zenon
    <3>3. QED
      BY <2>2, <2>4, <3>2 DEF BoundariesKept
  <2>c. Cached' = Cached
    BY <2>2 DEF Cached
  <2>9. UnderWay' = UnderWay - 1
    BY <1>l, <2>2, <2>3, <2>c DEF UnderWay
  <2>10. ASSUME doubled = 0
         PROVE  client' # "panicked" /\ UnderWay' = 0
    <3>1. fromProxy \in Seq({<<round>>})
      BY <1>0, <2>10 DEF Unmixed
    <3>2. fromProxy[i] = <<round>>
      BY <2>1, <3>1
    <3>3. client' # "panicked"
      BY <2>1, <3>2, BufferedOne
    <3>4. UnderWay =< 1 /\ UnderWay \in Nat /\ UnderWay' \in Nat
      <4>1. UnderWay =< 1
        BY <1>0, <2>2, <2>10 DEF AnswersMatch
      <4>2. UnderWay \in Nat /\ UnderWay' \in Nat
        BY <1>l, <2>2, <2>3, <2>c DEF UnderWay
      <4>3. QED
        BY <4>1, <4>2
    <3>5. QED
      BY <2>9, <3>3, <3>4
  <2>11. AnswersMatch'
    BY <1>0, <1>l, <2>2, <2>5, <2>9, <2>10 DEF AnswersMatch, UnderWay
  <2>12. Unmixed'
    <3>0. \A S : <<>> \in Seq(S)
      OBVIOUS
    <3>1. SUFFICES ASSUME doubled = 0 PROVE \A w \in {toProxy', toServer', fromServer', fromProxy'} : w = <<>>
      BY <2>2, <3>0, Zenon DEF Unmixed
    <3>2. Len(toProxy') = 0 /\ Len(toServer') = 0 /\ Len(fromServer') = 0 /\ Len(fromProxy') = 0
      BY <1>l, <2>2, <2>3, <2>c, <2>10, <3>1 DEF UnderWay
    <3>3. QED
      BY <1>l, <2>2, <2>3, <3>2
  <2>13. QED
    BY <2>6, <2>8, <2>11, <2>12 DEF UdpIInv
<1>4. QED
  BY <1>1, <1>2, <1>3 DEF ClientWrites, ClientReadFails

(* A new session, its first dial, and the dial's end.                      *)
LEMMA UdpDialStep == UdpIInv /\ (SrcOpen \/ DialFailed \/ DialSession \/ DialPeer) => UdpIInv'
<1> SUFFICES ASSUME UdpIInv, SrcOpen \/ DialFailed \/ DialSession \/ DialPeer PROVE UdpIInv'
  OBVIOUS
<1> USE DEF sessions, datagrams, network
<1>0. UdpShape /\ SessionsMatch /\ BoundariesKept /\ AnswersMatch /\ Unmixed
  BY DEF UdpIInv
<1>l. /\ toProxy \in Seq(OneWrite) /\ src.Cache \in Seq({1})
      /\ toServer \in Seq(OneWrite \cup FirstWrites)
      /\ fromServer \in Seq(OneWrite \cup FirstWrites)
      /\ fromProxy \in Seq(OneWrite \cup FirstWrites)
      /\ round \in Nat /\ doubled \in Nat
      /\ Len(toProxy) \in Nat /\ Cached \in Nat /\ Len(toServer) \in Nat
      /\ Len(fromServer) \in Nat /\ Len(fromProxy) \in Nat
  BY UdpLists
<1>1. UNCHANGED <<round, client, toProxy, fromServer, fromProxy, doubled, lost>>
  BY DEF SrcOpen, DialFailed, DialSession, DialPeer
<1>2. OneWrite' = OneWrite /\ FirstWrites' = FirstWrites
  BY <1>1 DEF OneWrite, FirstWrites
(* A step that leaves the list to the server alone, and the cache or empties it. *)
<1>3. ASSUME UNCHANGED toServer, src'.Cache \in {<<>>, src.Cache}
      PROVE  BoundariesKept' /\ AnswersMatch' /\ Unmixed'
  <2>1. BoundariesKept'
    BY <1>0, <1>1, <1>2, <1>3 DEF BoundariesKept
  <2>2. Cached' \in Nat /\ Cached' =< Cached
    BY <1>l, <1>3 DEF Cached
  <2>3. AnswersMatch'
    BY <1>0, <1>l, <1>1, <1>3, <2>2 DEF AnswersMatch, UnderWay
  <2>4. QED
    BY <1>0, <1>1, <1>3, <2>1, <2>3 DEF Unmixed
<1>4. CASE SrcOpen
  <2>1. /\ ~src.open /\ dial' = "dialing" /\ src' = [open |-> TRUE, Peer |-> FALSE, Cache |-> <<>>]
        /\ UNCHANGED <<dst, toServer>>
    BY <1>4 DEF SrcOpen
  <2>2. /\ src'.open /\ ~src'.Peer /\ src'.Cache = <<>>
        /\ src'.open \in BOOLEAN /\ src'.Peer \in BOOLEAN
        /\ src' = [open |-> src'.open, Peer |-> src'.Peer, Cache |-> src'.Cache]
    BY <2>1
  <2>3. UdpShape' /\ SessionsMatch'
    BY <1>0, <1>1, <2>1, <2>2 DEF UdpShape, SessionsMatch
  <2>4. QED
    BY <1>3, <2>1, <2>2, <2>3 DEF UdpIInv
<1>5. CASE DialFailed
  <2>1. /\ dial = "dialing" /\ dial' = "failed" /\ src' = [src EXCEPT !.open = FALSE] /\ UNCHANGED <<dst, toServer>>
    BY <1>5 DEF DialFailed
  <2>2. /\ src'.open = FALSE /\ src'.Peer = src.Peer /\ src'.Cache = src.Cache
        /\ src' = [open |-> src'.open, Peer |-> src'.Peer, Cache |-> src'.Cache]
    BY <1>0, <2>1 DEF UdpShape
  <2>3. UdpShape' /\ SessionsMatch'
    BY <1>0, <1>1, <2>1, <2>2 DEF UdpShape, SessionsMatch
  <2>4. QED
    BY <1>3, <2>1, <2>2, <2>3 DEF UdpIInv
<1>6. CASE DialSession
  <2>1. UdpShape' /\ SessionsMatch' /\ UNCHANGED <<src, toServer>>
    BY <1>0, <1>1, <1>6 DEF DialSession, UdpShape, SessionsMatch
  <2>2. src'.Cache = src.Cache
    BY <2>1
  <2>3. QED
    BY <1>3, <2>1, <2>2 DEF UdpIInv
<1>7. CASE DialPeer
  <2>1. /\ dial = "dialed" /\ dial' = "connected" /\ src' = [src EXCEPT !.Peer = TRUE, !.Cache = <<>>]
        /\ toServer' = IF src.Cache # <<>> THEN Append(toServer, src.Cache) ELSE toServer
        /\ UNCHANGED dst
    BY <1>7 DEF DialPeer
  <2>2. /\ src'.open = src.open /\ src'.Peer = TRUE /\ src'.Cache = <<>>
        /\ src' = [open |-> src'.open, Peer |-> src'.Peer, Cache |-> src'.Cache]
    BY <1>0, <2>1 DEF UdpShape
  <2>3. UdpShape' /\ SessionsMatch'
    BY <1>0, <1>1, <2>1, <2>2 DEF UdpShape, SessionsMatch
  <2>4. CASE src.Cache = <<>>
    BY <1>3, <2>1, <2>2, <2>3, <2>4 DEF UdpIInv
  <2>5. CASE src.Cache # <<>>
    <3>1. src.Cache \in FirstWrites
      BY <1>0, <2>5 DEF BoundariesKept
    <3>2. toServer' \in Seq(OneWrite \cup FirstWrites) /\ Len(toServer') = Len(toServer) + 1
      BY <1>l, <2>1, <2>5, <3>1, PutIn
    <3>3. BoundariesKept'
      BY <1>0, <1>1, <1>2, <2>2, <3>2 DEF BoundariesKept
    <3>4. Cached' = 0 /\ Cached >= 1
      BY <1>l, <2>2, <2>5 DEF Cached
    <3>5. AnswersMatch'
      BY <1>0, <1>l, <1>1, <3>2, <3>4 DEF AnswersMatch, UnderWay
    <3>6. doubled = 0 => src.Cache = <<round>>
      <4>1. round = 1
        BY <1>0, <2>1 DEF SessionsMatch
      <4>2. \A d \in Seq({1}) : Len(d) = 1 => d = <<1>>
        OBVIOUS
      <4>3. doubled = 0 => Len(src.Cache) = 1
        BY <3>1 DEF FirstWrites
      <4>4. QED
        BY <1>l, <4>1, <4>2, <4>3
    <3>7. toServer \in Seq({<<round>>}) /\ src.Cache = <<round>> => toServer' \in Seq({<<round>>})
      BY <2>1, <2>5, PutIn
    <3>8. Unmixed'
      BY <1>0, <1>1, <3>6, <3>7 DEF Unmixed
    <3>9. QED
      BY <2>3, <3>3, <3>5, <3>8 DEF UdpIInv
  <2>6. QED
    BY <2>4, <2>5
<1>8. QED
  BY <1>4, <1>5, <1>6, <1>7

(* A datagram of the client: to the server, or into the cache.             *)
LEMMA UdpSrcStep == UdpIInv /\ SrcData => UdpIInv'
<1> SUFFICES ASSUME UdpIInv, SrcData PROVE UdpIInv'
  OBVIOUS
<1> USE DEF sessions, datagrams, network
<1>0. UdpShape /\ SessionsMatch /\ BoundariesKept /\ AnswersMatch /\ Unmixed
  BY DEF UdpIInv
<1>l. /\ toProxy \in Seq(OneWrite) /\ src.Cache \in Seq({1})
      /\ toServer \in Seq(OneWrite \cup FirstWrites)
      /\ fromServer \in Seq(OneWrite \cup FirstWrites)
      /\ fromProxy \in Seq(OneWrite \cup FirstWrites)
      /\ round \in Nat /\ doubled \in Nat
      /\ Len(toProxy) \in Nat /\ Cached \in Nat /\ Len(toServer) \in Nat
      /\ Len(fromServer) \in Nat /\ Len(fromProxy) \in Nat
  BY UdpLists
<1>1. PICK i \in 1..Len(toProxy) :
        /\ src.open /\ toProxy' = RemoveAt(toProxy, i)
        /\ IF src.Peer THEN toServer' = Append(toServer, toProxy[i]) /\ UNCHANGED src
           ELSE src' = [src EXCEPT !.Cache = @ \o toProxy[i]] /\ UNCHANGED toServer
        /\ UNCHANGED <<round, client, dial, dst, fromServer, fromProxy, doubled, lost>>
  BY DEF SrcData
<1>2. /\ toProxy' \in Seq(OneWrite) /\ Len(toProxy') = Len(toProxy) - 1
      /\ toProxy[i] \in OneWrite
      /\ toProxy \in Seq({<<round>>}) => toProxy' \in Seq({<<round>>}) /\ toProxy[i] = <<round>>
  <2>1. toProxy \in Seq({<<round>>}) => toProxy' \in Seq({<<round>>}) /\ toProxy[i] \in {<<round>>}
    BY <1>1, TakenOut
  <2>2. QED
    BY <1>l, <1>1, <2>1, TakenOut
<1>3. OneWrite' = OneWrite /\ FirstWrites' = FirstWrites
  BY <1>1 DEF OneWrite, FirstWrites
<1>4. CASE src.Peer
  <2>1. toServer' = Append(toServer, toProxy[i]) /\ UNCHANGED src
    BY <1>1, <1>4
  <2>2. UdpShape' /\ SessionsMatch'
    BY <1>0, <1>1, <1>4, <2>1 DEF UdpShape, SessionsMatch
  <2>3. toServer' \in Seq(OneWrite \cup FirstWrites) /\ Len(toServer') = Len(toServer) + 1
    BY <1>l, <1>2, <2>1, PutIn
  <2>4. BoundariesKept'
    BY <1>0, <1>1, <1>2, <1>3, <2>1, <2>3 DEF BoundariesKept
  <2>5. Cached' = Cached
    BY <2>1 DEF Cached
  <2>6. AnswersMatch'
    BY <1>0, <1>l, <1>1, <1>2, <2>3, <2>5 DEF AnswersMatch, UnderWay
  <2>7. toServer \in Seq({<<round>>}) /\ toProxy[i] = <<round>> => toServer' \in Seq({<<round>>})
    BY <2>1, PutIn
  <2>8. Unmixed'
    BY <1>0, <1>1, <1>2, <2>7 DEF Unmixed
  <2>9. QED
    BY <2>2, <2>4, <2>6, <2>8 DEF UdpIInv
<1>5. CASE ~src.Peer
  <2>1. src' = [src EXCEPT !.Cache = src.Cache \o toProxy[i]] /\ UNCHANGED toServer
    BY <1>1, <1>5
  <2>2. /\ src'.open = src.open /\ src'.Peer = src.Peer /\ src'.Cache = src.Cache \o toProxy[i]
        /\ src' = [open |-> src'.open, Peer |-> src'.Peer, Cache |-> src'.Cache]
    BY <1>0, <2>1 DEF UdpShape
  <2>3. dial # "connected" /\ round = 1 /\ toServer = <<>> /\ fromServer = <<>> /\ fromProxy = <<>>
    BY <1>0, <1>5 DEF SessionsMatch
  <2>4. UdpShape' /\ SessionsMatch'
    BY <1>0, <1>1, <2>1, <2>2, <2>3 DEF UdpShape, SessionsMatch
  <2>5. toProxy[i] = <<1>>
    BY <1>2, <2>3 DEF OneWrite
  <2>6. src'.Cache \in Seq({1}) /\ Len(src'.Cache) = Cached + 1
    <3>1. \A d \in Seq({1}) : d \o <<1>> \in Seq({1}) /\ Len(d \o <<1>>) = Len(d) + 1
      OBVIOUS
    <3>2. QED
      BY <1>l, <2>2, <2>5, <3>1 DEF Cached
  <2>7. Cached' = Cached + 1
    BY <2>6 DEF Cached
  <2>8. UnderWay' = UnderWay
    BY <1>l, <1>1, <1>2, <2>1, <2>7 DEF UnderWay
  <2>9. AnswersMatch'
    BY <1>0, <1>1, <2>8 DEF AnswersMatch
  <2>10. src'.Cache \in FirstWrites
    <3>1. UnderWay =< 1 + doubled /\ UnderWay = Len(toProxy) + Cached
      <4>1. UnderWay = Len(toProxy) + Cached
        BY <1>l, <2>3 DEF UnderWay
      <4>2. QED
        BY <1>0, <1>l, <4>1 DEF AnswersMatch
    <3>2. Cached + 1 \in 1..(1 + doubled)
      BY <1>l, <1>1, <3>1
    <3>3. QED
      BY <2>6, <3>2 DEF FirstWrites
  <2>11. BoundariesKept'
    BY <1>0, <1>1, <1>2, <1>3, <2>1, <2>10 DEF BoundariesKept
  <2>12. Unmixed'
    BY <1>0, <1>1, <1>2, <2>1 DEF Unmixed
  <2>13. QED
    BY <2>4, <2>9, <2>11, <2>12 DEF UdpIInv
<1>6. QED
  BY <1>4, <1>5

(* A datagram of the server comes back, and the server echoes one.         *)
LEMMA UdpServerStep == UdpIInv /\ (DstData \/ ServerEcho) => UdpIInv'
<1> SUFFICES ASSUME UdpIInv, DstData \/ ServerEcho PROVE UdpIInv'
  OBVIOUS
<1> USE DEF sessions, datagrams, network
<1>0. UdpShape /\ SessionsMatch /\ BoundariesKept /\ AnswersMatch /\ Unmixed
  BY DEF UdpIInv
<1>l. /\ toProxy \in Seq(OneWrite) /\ src.Cache \in Seq({1})
      /\ toServer \in Seq(OneWrite \cup FirstWrites)
      /\ fromServer \in Seq(OneWrite \cup FirstWrites)
      /\ fromProxy \in Seq(OneWrite \cup FirstWrites)
      /\ round \in Nat /\ doubled \in Nat
      /\ Len(toProxy) \in Nat /\ Cached \in Nat /\ Len(toServer) \in Nat
      /\ Len(fromServer) \in Nat /\ Len(fromProxy) \in Nat
  BY UdpLists
<1>1. CASE DstData
  <2>1. PICK i \in 1..Len(fromServer) :
          /\ fromServer' = RemoveAt(fromServer, i)
          /\ IF dst.session /\ dst.Peer
             THEN fromProxy' = Append(fromProxy, fromServer[i]) /\ UNCHANGED dst
             ELSE /\ dst' = [session |-> TRUE, Peer |-> FALSE, Cache |->
                                (IF dst.session THEN dst.Cache ELSE fromServer[i]) \o fromServer[i]]
                  /\ UNCHANGED fromProxy
          /\ UNCHANGED <<round, client, src, dial, toProxy, toServer, doubled, lost>>
    BY <1>1 DEF DstData
  <2>2. dial = "connected"
    BY <1>0, <2>1 DEF SessionsMatch
  <2>3. dst.session /\ dst.Peer
    BY <1>0, <2>2 DEF SessionsMatch
  <2>4. fromProxy' = Append(fromProxy, fromServer[i]) /\ UNCHANGED dst
    BY <2>1, <2>3
  <2>5. UdpShape' /\ SessionsMatch' /\ OneWrite' = OneWrite /\ FirstWrites' = FirstWrites
    BY <1>0, <2>1, <2>2, <2>4, UdpQuiet DEF UdpShape
  <2>6. /\ fromServer' \in Seq(OneWrite \cup FirstWrites) /\ Len(fromServer') = Len(fromServer) - 1
        /\ fromServer[i] \in OneWrite \cup FirstWrites
    BY <1>l, <2>1, TakenOut
  <2>7. fromProxy' \in Seq(OneWrite \cup FirstWrites) /\ Len(fromProxy') = Len(fromProxy) + 1
    BY <1>l, <2>4, <2>6, PutIn
  <2>8. BoundariesKept'
    BY <1>0, <2>1, <2>5, <2>6, <2>7 DEF BoundariesKept
  <2>9. Cached' = Cached
    BY <2>1 DEF Cached
  <2>10. AnswersMatch'
    BY <1>0, <1>l, <2>1, <2>6, <2>7, <2>9 DEF AnswersMatch, UnderWay
  <2>11. ASSUME fromServer \in Seq({<<round>>}), fromProxy \in Seq({<<round>>})
         PROVE  fromServer' \in Seq({<<round>>}) /\ fromProxy' \in Seq({<<round>>})
    BY <2>1, <2>4, <2>11, TakenOut, PutIn
  <2>12. Unmixed'
    BY <1>0, <2>1, <2>11 DEF Unmixed
  <2>13. QED
    BY <2>5, <2>8, <2>10, <2>12 DEF UdpIInv
<1>2. CASE ServerEcho
  <2>1. PICK i \in 1..Len(toServer) :
          /\ toServer' = RemoveAt(toServer, i)
          /\ fromServer' = Append(fromServer, InBuffer(toServer[i], 2))
          /\ UNCHANGED <<round, client, src, dial, dst, toProxy, fromProxy, doubled, lost>>
    BY <1>2 DEF ServerEcho
  <2>2. dial = "connected"
    BY <1>0, <2>1 DEF SessionsMatch
  <2>3. UdpShape' /\ SessionsMatch' /\ OneWrite' = OneWrite /\ FirstWrites' = FirstWrites
    BY <1>0, <2>1, <2>2, UdpQuiet DEF UdpShape
  <2>4. /\ toServer' \in Seq(OneWrite \cup FirstWrites) /\ Len(toServer') = Len(toServer) - 1
        /\ toServer[i] \in OneWrite \cup FirstWrites
    BY <1>l, <2>1, TakenOut
  <2>5. InBuffer(toServer[i], 2) \in OneWrite \cup FirstWrites
    <3>1. ASSUME toServer[i] \in OneWrite PROVE InBuffer(toServer[i], 2) \in OneWrite
      <4>1. PICK r \in Nat : toServer[i] = <<r>>
        BY <3>1, SomeRounds DEF OneWrite
      <4>2. InBuffer(toServer[i], 2) = toServer[i]
        BY <4>1, BufferedOne
      <4>3. QED
        BY <3>1, <4>2
    <3>2. ASSUME toServer[i] \in FirstWrites PROVE InBuffer(toServer[i], 2) \in FirstWrites
      <4>1. toServer[i] \in Seq({1}) /\ Len(toServer[i]) \in 1..(1 + doubled) /\ toServer[i] # <<>>
        BY <3>2 DEF FirstWrites
      <4>2. InBuffer(toServer[i], 2) \in Seq({1}) /\ Len(InBuffer(toServer[i], 2)) \in 1..Len(toServer[i])
        BY <4>1, BufferedCopies
      <4>3. QED
        BY <1>l, <4>1, <4>2 DEF FirstWrites
    <3>3. QED
      BY <2>4, <3>1, <3>2
  <2>6. fromServer' \in Seq(OneWrite \cup FirstWrites) /\ Len(fromServer') = Len(fromServer) + 1
    BY <1>l, <2>1, <2>5, PutIn
  <2>7. BoundariesKept'
    BY <1>0, <2>1, <2>3, <2>4, <2>6 DEF BoundariesKept
  <2>8. Cached' = Cached
    BY <2>1 DEF Cached
  <2>9. AnswersMatch'
    BY <1>0, <1>l, <2>1, <2>4, <2>6, <2>8 DEF AnswersMatch, UnderWay
  <2>10. ASSUME toServer \in Seq({<<round>>}), fromServer \in Seq({<<round>>})
         PROVE  toServer' \in Seq({<<round>>}) /\ fromServer' \in Seq({<<round>>})
    <3>1. toServer' \in Seq({<<round>>}) /\ toServer[i] \in {<<round>>}
      BY <2>1, <2>10, TakenOut
    <3>2. InBuffer(toServer[i], 2) = <<round>>
      BY <3>1, BufferedOne
    <3>3. QED
      BY <2>1, <2>10, <3>1, <3>2, PutIn
  <2>11. Unmixed'
    BY <1>0, <2>1, <2>10 DEF Unmixed
  <2>12. QED
    BY <2>3, <2>7, <2>9, <2>11 DEF UdpIInv
<1>3. QED
  BY <1>1, <1>2

(* The network takes a datagram away, *)
LEMMA UdpLoseStep == UdpIInv /\ Lose => UdpIInv'
<1> SUFFICES ASSUME UdpIInv, Lose PROVE UdpIInv'
  OBVIOUS
<1> USE DEF sessions, datagrams, network
<1>0. UdpShape /\ SessionsMatch /\ BoundariesKept /\ AnswersMatch /\ Unmixed
  BY DEF UdpIInv
<1>l. /\ toProxy \in Seq(OneWrite) /\ src.Cache \in Seq({1})
      /\ toServer \in Seq(OneWrite \cup FirstWrites)
      /\ fromServer \in Seq(OneWrite \cup FirstWrites)
      /\ fromProxy \in Seq(OneWrite \cup FirstWrites)
      /\ round \in Nat /\ doubled \in Nat
      /\ Len(toProxy) \in Nat /\ Cached \in Nat /\ Len(toServer) \in Nat
      /\ Len(fromServer) \in Nat /\ Len(fromProxy) \in Nat
  BY UdpLists
<1>1. lost' \in BOOLEAN /\ UNCHANGED <<round, client, src, dial, dst, doubled>>
  BY DEF Lose
<1>2. Cached' = Cached
  BY <1>1 DEF Cached
<1>3. ASSUME NEW i \in 1..Len(toProxy), toProxy' = RemoveAt(toProxy, i), UNCHANGED <<toServer, fromServer, fromProxy>>
      PROVE  UdpIInv'
  <2>1. toProxy' \in Seq(OneWrite) /\ Len(toProxy') = Len(toProxy) - 1
    BY <1>l, <1>3, TakenOut
  <2>2. toProxy \in Seq({<<round>>}) => toProxy' \in Seq({<<round>>})
    BY <1>3, TakenOut
  <2>3. UdpShape' /\ SessionsMatch' /\ OneWrite' = OneWrite /\ FirstWrites' = FirstWrites
    <3>1. dial # "connected" => toServer' = <<>> /\ fromServer' = <<>> /\ fromProxy' = <<>>
      BY <1>0, <1>3 DEF SessionsMatch
    <3>2. QED
      BY <1>1, <3>1, UdpQuiet
  <2>4. BoundariesKept'
    BY <1>0, <1>1, <1>3, <2>1, <2>3 DEF BoundariesKept
  <2>5. AnswersMatch'
    BY <1>0, <1>l, <1>1, <1>2, <1>3, <2>1 DEF AnswersMatch, UnderWay
  <2>6. Unmixed'
    BY <1>0, <1>1, <1>3, <2>2 DEF Unmixed
  <2>7. QED
    BY <2>3, <2>4, <2>5, <2>6 DEF UdpIInv
<1>4. ASSUME NEW i \in 1..Len(toServer), toServer' = RemoveAt(toServer, i), UNCHANGED <<toProxy, fromServer, fromProxy>>
      PROVE  UdpIInv'
  <2>1. toServer' \in Seq(OneWrite \cup FirstWrites) /\ Len(toServer') = Len(toServer) - 1
    BY <1>l, <1>4, TakenOut
  <2>2. toServer \in Seq({<<round>>}) => toServer' \in Seq({<<round>>})
    BY <1>4, TakenOut
  <2>3. UdpShape' /\ SessionsMatch' /\ OneWrite' = OneWrite /\ FirstWrites' = FirstWrites
    <3>1. dial # "connected" => toServer' = <<>> /\ fromServer' = <<>> /\ fromProxy' = <<>>
      BY <1>0, <1>4 DEF SessionsMatch
    <3>2. QED
      BY <1>1, <3>1, UdpQuiet
  <2>4. BoundariesKept'
    BY <1>0, <1>1, <1>4, <2>1, <2>3 DEF BoundariesKept
  <2>5. AnswersMatch'
    BY <1>0, <1>l, <1>1, <1>2, <1>4, <2>1 DEF AnswersMatch, UnderWay
  <2>6. Unmixed'
    BY <1>0, <1>1, <1>4, <2>2 DEF Unmixed
  <2>7. QED
    BY <2>3, <2>4, <2>5, <2>6 DEF UdpIInv
<1>5. ASSUME NEW i \in 1..Len(fromServer), fromServer' = RemoveAt(fromServer, i), UNCHANGED <<toProxy, toServer, fromProxy>>
      PROVE  UdpIInv'
  <2>1. fromServer' \in Seq(OneWrite \cup FirstWrites) /\ Len(fromServer') = Len(fromServer) - 1
    BY <1>l, <1>5, TakenOut
  <2>2. fromServer \in Seq({<<round>>}) => fromServer' \in Seq({<<round>>})
    BY <1>5, TakenOut
  <2>3. UdpShape' /\ SessionsMatch' /\ OneWrite' = OneWrite /\ FirstWrites' = FirstWrites
    <3>1. dial # "connected" => toServer' = <<>> /\ fromServer' = <<>> /\ fromProxy' = <<>>
      BY <1>0, <1>5 DEF SessionsMatch
    <3>2. QED
      BY <1>1, <3>1, UdpQuiet
  <2>4. BoundariesKept'
    BY <1>0, <1>1, <1>5, <2>1, <2>3 DEF BoundariesKept
  <2>5. AnswersMatch'
    BY <1>0, <1>l, <1>1, <1>2, <1>5, <2>1 DEF AnswersMatch, UnderWay
  <2>6. Unmixed'
    BY <1>0, <1>1, <1>5, <2>2 DEF Unmixed
  <2>7. QED
    BY <2>3, <2>4, <2>5, <2>6 DEF UdpIInv
<1>6. ASSUME NEW i \in 1..Len(fromProxy), fromProxy' = RemoveAt(fromProxy, i), UNCHANGED <<toProxy, toServer, fromServer>>
      PROVE  UdpIInv'
  <2>1. fromProxy' \in Seq(OneWrite \cup FirstWrites) /\ Len(fromProxy') = Len(fromProxy) - 1
    BY <1>l, <1>6, TakenOut
  <2>2. fromProxy \in Seq({<<round>>}) => fromProxy' \in Seq({<<round>>})
    BY <1>6, TakenOut
  <2>3. UdpShape' /\ SessionsMatch' /\ OneWrite' = OneWrite /\ FirstWrites' = FirstWrites
    <3>1. dial # "connected" => toServer' = <<>> /\ fromServer' = <<>> /\ fromProxy' = <<>>
      BY <1>0, <1>6 DEF SessionsMatch
    <3>2. QED
      BY <1>1, <3>1, UdpQuiet
  <2>4. BoundariesKept'
    BY <1>0, <1>1, <1>6, <2>1, <2>3 DEF BoundariesKept
  <2>5. AnswersMatch'
    BY <1>0, <1>l, <1>1, <1>2, <1>6, <2>1 DEF AnswersMatch, UnderWay
  <2>6. Unmixed'
    BY <1>0, <1>1, <1>6, <2>2 DEF Unmixed
  <2>7. QED
    BY <2>3, <2>4, <2>5, <2>6 DEF UdpIInv
<1>7. QED
  BY <1>3, <1>4, <1>5, <1>6 DEF Lose

(* or delivers it twice.                                                   *)
LEMMA UdpDoubleStep == UdpIInv /\ Double => UdpIInv'
<1> SUFFICES ASSUME UdpIInv, Double PROVE UdpIInv'
  OBVIOUS
<1> USE DEF sessions, datagrams, network
<1>0. UdpShape /\ SessionsMatch /\ BoundariesKept /\ AnswersMatch /\ Unmixed
  BY DEF UdpIInv
<1>l. /\ toProxy \in Seq(OneWrite) /\ src.Cache \in Seq({1})
      /\ toServer \in Seq(OneWrite \cup FirstWrites)
      /\ fromServer \in Seq(OneWrite \cup FirstWrites)
      /\ fromProxy \in Seq(OneWrite \cup FirstWrites)
      /\ round \in Nat /\ doubled \in Nat
      /\ Len(toProxy) \in Nat /\ Cached \in Nat /\ Len(toServer) \in Nat
      /\ Len(fromServer) \in Nat /\ Len(fromProxy) \in Nat
  BY UdpLists
<1>1. /\ doubled < MaxCopies /\ doubled' = doubled + 1 /\ UNCHANGED <<round, client, src, dial, dst, lost>>
      /\ Cached' = Cached
  BY DEF Double, Cached
<1>2. OneWrite \subseteq OneWrite' /\ FirstWrites \subseteq FirstWrites' /\ Unmixed'
  <2>1. OneWrite \subseteq OneWrite' /\ FirstWrites \subseteq FirstWrites'
    BY <1>l, <1>1, WritesGrow
  <2>2. QED
    BY <1>l, <1>1, <2>1 DEF Unmixed
(* The datagrams are of the sets that have grown, and one more.            *)
<1>3. ASSUME toProxy' \in Seq(OneWrite),
             \A w \in {toServer', fromServer', fromProxy'} : w \in Seq(OneWrite \cup FirstWrites)
      PROVE  BoundariesKept'
  <2>1. \A S, T, w : S \subseteq T /\ w \in Seq(S) => w \in Seq(T)
    OBVIOUS
  <2>2. (OneWrite \cup FirstWrites) \subseteq (OneWrite' \cup FirstWrites')
    BY <1>2
  <2>3. toProxy' \in Seq(OneWrite') /\ \A w \in {toServer', fromServer', fromProxy'} : w \in Seq(OneWrite' \cup FirstWrites')
    BY <1>2, <1>3, <2>1, <2>2, Zenon
  <2>4. src'.Cache = <<>> \/ src'.Cache \in FirstWrites'
    BY <1>0, <1>1, <1>2 DEF BoundariesKept
  <2>5. QED
    BY <2>3, <2>4, Zenon DEF BoundariesKept
<1>4. ASSUME UnderWay' = UnderWay + 1
      PROVE  AnswersMatch'
  <2>1. UnderWay \in Nat
    BY <1>l DEF UnderWay
  <2>2. QED
    BY <1>0, <1>l, <1>1, <1>4, <2>1 DEF AnswersMatch
<1>5. ASSUME dial # "connected" => toServer' = <<>> /\ fromServer' = <<>> /\ fromProxy' = <<>>
      PROVE  UdpShape' /\ SessionsMatch'
  <2>1. UdpShape'
    BY <1>0, <1>1, SomeRounds DEF UdpShape
  <2>2. SessionsMatch'
    BY <1>0, <1>1, <1>5 DEF SessionsMatch
  <2>3. QED
    BY <2>1, <2>2
<1>6. ASSUME NEW i \in 1..Len(toProxy), toProxy' = Append(toProxy, toProxy[i]), UNCHANGED <<toServer, fromServer, fromProxy>>
      PROVE  UdpIInv'
  <2>1. toProxy' \in Seq(OneWrite) /\ Len(toProxy') = Len(toProxy) + 1
    BY <1>l, <1>6, TakenOut, PutIn
  <2>2. dial # "connected" => toServer' = <<>> /\ fromServer' = <<>> /\ fromProxy' = <<>>
    BY <1>0, <1>6 DEF SessionsMatch
  <2>3. BoundariesKept'
    BY <1>l, <1>3, <1>6, <2>1
  <2>4. UnderWay' = UnderWay + 1
    BY <1>l, <1>1, <1>6, <2>1 DEF UnderWay
  <2>5. QED
    BY <1>2, <1>4, <1>5, <2>2, <2>3, <2>4 DEF UdpIInv
<1>7. ASSUME NEW i \in 1..Len(toServer), toServer' = Append(toServer, toServer[i]), UNCHANGED <<toProxy, fromServer, fromProxy>>
      PROVE  UdpIInv'
  <2>1. toServer' \in Seq(OneWrite \cup FirstWrites) /\ Len(toServer') = Len(toServer) + 1
    BY <1>l, <1>7, TakenOut, PutIn
  <2>2. dial # "connected" => toServer' = <<>> /\ fromServer' = <<>> /\ fromProxy' = <<>>
    BY <1>0, <1>7 DEF SessionsMatch
  <2>3. BoundariesKept'
    BY <1>l, <1>3, <1>7, <2>1
  <2>4. UnderWay' = UnderWay + 1
    BY <1>l, <1>1, <1>7, <2>1 DEF UnderWay
  <2>5. QED
    BY <1>2, <1>4, <1>5, <2>2, <2>3, <2>4 DEF UdpIInv
<1>8. ASSUME NEW i \in 1..Len(fromServer), fromServer' = Append(fromServer, fromServer[i]), UNCHANGED <<toProxy, toServer, fromProxy>>
      PROVE  UdpIInv'
  <2>1. fromServer' \in Seq(OneWrite \cup FirstWrites) /\ Len(fromServer') = Len(fromServer) + 1
    BY <1>l, <1>8, TakenOut, PutIn
  <2>2. dial # "connected" => toServer' = <<>> /\ fromServer' = <<>> /\ fromProxy' = <<>>
    BY <1>0, <1>8 DEF SessionsMatch
  <2>3. BoundariesKept'
    BY <1>l, <1>3, <1>8, <2>1
  <2>4. UnderWay' = UnderWay + 1
    BY <1>l, <1>1, <1>8, <2>1 DEF UnderWay
  <2>5. QED
    BY <1>2, <1>4, <1>5, <2>2, <2>3, <2>4 DEF UdpIInv
<1>9. ASSUME NEW i \in 1..Len(fromProxy), fromProxy' = Append(fromProxy, fromProxy[i]), UNCHANGED <<toProxy, toServer, fromServer>>
      PROVE  UdpIInv'
  <2>1. fromProxy' \in Seq(OneWrite \cup FirstWrites) /\ Len(fromProxy') = Len(fromProxy) + 1
    BY <1>l, <1>9, TakenOut, PutIn
  <2>2. dial # "connected" => toServer' = <<>> /\ fromServer' = <<>> /\ fromProxy' = <<>>
    BY <1>0, <1>9 DEF SessionsMatch
  <2>3. BoundariesKept'
    BY <1>l, <1>3, <1>9, <2>1
  <2>4. UnderWay' = UnderWay + 1
    BY <1>l, <1>1, <1>9, <2>1 DEF UnderWay
  <2>5. QED
    BY <1>2, <1>4, <1>5, <2>2, <2>3, <2>4 DEF UdpIInv
<1>10. QED
  BY <1>6, <1>7, <1>8, <1>9 DEF Double

(* Each step keeps the invariant.                                          *)
LEMMA UdpStep == UdpIInv /\ UdpNext => UdpIInv'
  BY UdpClientStep, UdpDialStep, UdpSrcStep, UdpServerStep, UdpLoseStep, UdpDoubleStep DEF UdpNext, UdpProgress

(* The types, and that nothing of the server waits in its own session.     *)
LEMMA UdpSafe == UdpIInv => UdpTypeOK /\ BoundariesKept /\ ServerDataForwarded /\ AnswersMatch
<1> SUFFICES ASSUME UdpIInv PROVE UdpTypeOK /\ BoundariesKept /\ ServerDataForwarded /\ AnswersMatch
  OBVIOUS
<1>0. UdpShape /\ SessionsMatch /\ BoundariesKept /\ AnswersMatch /\ Unmixed
  BY DEF UdpIInv
<1>1. \A S, T, w : S \subseteq T /\ w \in Seq(S) => w \in Seq(T)
  OBVIOUS
<1>2. OneWrite \subseteq Seq(1..Rounds) /\ FirstWrites \subseteq Seq(1..Rounds) /\ {1} \subseteq 1..Rounds
  <2>1. \A r \in 1..Rounds : <<r>> \in Seq(1..Rounds)
    OBVIOUS
  <2>2. {1} \subseteq 1..Rounds
    BY SomeRounds
  <2>3. FirstWrites \subseteq Seq({1})
    BY DEF FirstWrites
  <2>4. FirstWrites \subseteq Seq(1..Rounds)
    BY <1>1, <2>2, <2>3, Zenon
  <2>5. QED
    BY <2>1, <2>2, <2>4 DEF OneWrite
<1>3. \A w \in {toProxy, toServer, fromServer, fromProxy} : w \in Seq(Seq(1..Rounds))
  <2>1. (OneWrite \cup FirstWrites) \subseteq Seq(1..Rounds)
    BY <1>2
  <2>2. /\ toProxy \in Seq(OneWrite) /\ toServer \in Seq(OneWrite \cup FirstWrites)
        /\ fromServer \in Seq(OneWrite \cup FirstWrites) /\ fromProxy \in Seq(OneWrite \cup FirstWrites)
    BY UdpLists
  <2>3. QED
    BY <1>1, <1>2, <2>1, <2>2, Zenon
<1>4. src \in [open : BOOLEAN, Peer : BOOLEAN, Cache : Seq(1..Rounds)]
  <2>1. \A S, a, b, c : a \in BOOLEAN /\ b \in BOOLEAN /\ c \in S =>
            [open |-> a, Peer |-> b, Cache |-> c] \in [open : BOOLEAN, Peer : BOOLEAN, Cache : S]
    OBVIOUS
  <2>2. src.open \in BOOLEAN /\ src.Peer \in BOOLEAN /\ src = [open |-> src.open, Peer |-> src.Peer, Cache |-> src.Cache]
    BY <1>0 DEF UdpShape
  <2>3. src.Cache \in Seq(1..Rounds)
    BY <1>1, <1>2, UdpLists, Zenon
  <2>4. [open |-> src.open, Peer |-> src.Peer, Cache |-> src.Cache]
            \in [open : BOOLEAN, Peer : BOOLEAN, Cache : Seq(1..Rounds)]
    BY <2>1, <2>2, <2>3, Zenon
  <2>5. QED
    BY <2>2, <2>4, Zenon
<1>5. dst \in [session : BOOLEAN, Peer : BOOLEAN, Cache : Seq(1..Rounds)] /\ dst.Cache = <<>>
  <2>1. \A S, a, b, c : a \in BOOLEAN /\ b \in BOOLEAN /\ c \in S =>
            [session |-> a, Peer |-> b, Cache |-> c] \in [session : BOOLEAN, Peer : BOOLEAN, Cache : S]
    OBVIOUS
  <2>2. PICK b \in BOOLEAN : dst = [session |-> b, Peer |-> b, Cache |-> <<>>]
    BY <1>0 DEF SessionsMatch
  <2>3. \A S : <<>> \in Seq(S)
    OBVIOUS
  <2>4. [session |-> b, Peer |-> b, Cache |-> <<>>] \in [session : BOOLEAN, Peer : BOOLEAN, Cache : Seq(1..Rounds)]
    BY <2>1, <2>3, Zenon
  <2>5. QED
    BY <2>2, <2>4
<1>6. UdpTypeOK
  BY <1>0, <1>3, <1>4, <1>5 DEF UdpShape, UdpTypeOK
<1>7. QED
  BY <1>0, <1>5, <1>6 DEF ServerDataForwarded

-----------------------------------------------------------------------------
(* Uploader: the frames that have been read and not yet handled follow one *)
(* another up to the one the client sends next, and as long as no write    *)
(* has failed the first of them is the one the server's file is due.       *)
FileRecords == [data : Seq(Frames), open : BOOLEAN, fin : BOOLEAN]
Succ(frame) == IF Fin(frame) THEN [msg |-> frame.msg + 1, n |-> 1] ELSE [msg |-> frame.msg, n |-> frame.n + 1]
After(i) == IF i = Len(read) THEN upNext ELSE read[i + 1]

UploadShape ==
    /\ uplink \in {"open", "closing", "closed"} /\ failure \subseteq {"create", "write"}
    /\ upNext \in [msg : Nat, n : Nat] /\ read \in Seq(Frames) /\ files \in Seq(FileRecords)
    /\ upNext.msg \in Messages => upNext.n \in 1..FramesOf[upNext.msg]
    /\ output \in {Nil, Len(files), TypedNil}

InSequence == \A i \in 1..Len(read) : After(i) = Succ(read[i])

Due == IF output = Nil THEN [msg |-> Len(files) + 1, n |-> 1]
                       ELSE [msg |-> output, n |-> Len(files[output].data) + 1]
Beginning(m, k) == [n \in 1..k |-> [msg |-> m, n |-> n]]

FilesSoFar ==
    "write" \notin failure /\ output # TypedNil =>
        /\ After(0) = Due
        /\ output # Nil => files[output].data = Beginning(output, Len(files[output].data))

UploadIInv == UploadShape /\ InSequence /\ FilesSoFar /\ FilesAreMessages /\ NoFileLeaks

(* No frame was read and no file created.                                  *)
LEMMA UploadInitial == UploadInit => UploadIInv
<1> SUFFICES ASSUME UploadInit PROVE UploadIInv
  OBVIOUS
<1>1. UploadShape
  BY FramesAreSome DEF UploadInit, UploadShape, Messages, Nil, FileRecords
<1>2. InSequence /\ FilesAreMessages /\ NoFileLeaks
  BY DEF UploadInit, InSequence, FilesAreMessages, NoFileLeaks
<1>3. FilesSoFar
  BY DEF UploadInit, FilesSoFar, After, Due
<1>4. QED
  BY <1>1, <1>2, <1>3 DEF UploadIInv

(* A frame is taken from those that have been read. *)
LEMMA FrameTaken ==
    ASSUME UploadShape, InSequence, NextFrame, upNext' = upNext
    PROVE  /\ Head(read) \in Frames /\ read' \in Seq(Frames) /\ After(0) = Head(read)
           /\ After(0)' = Succ(Head(read)) /\ InSequence'
<1>1. read \in Seq(Frames) /\ read # <<>> /\ read' = Tail(read)
  BY DEF UploadShape, NextFrame
<1>2. /\ Head(read) = read[1] /\ Head(read) \in Frames /\ read' \in Seq(Frames)
      /\ Len(read') = Len(read) - 1 /\ Len(read) \in Nat \ {0}
      /\ \A i \in 1..Len(read') : read'[i] = read[i + 1]
  BY <1>1
<1>3. \A i \in 0..Len(read') : After(i)' = After(i + 1)
  BY <1>2 DEF After
<1>4. After(0) = Head(read) /\ After(1) = Succ(Head(read)) /\ After(0)' = After(1)
  BY <1>2, <1>3 DEF After, InSequence
<1>5. ASSUME NEW i \in 1..Len(read') PROVE After(i)' = Succ(read'[i])
  <2>1. After(i)' = After(i + 1) /\ read'[i] = read[i + 1] /\ i + 1 \in 1..Len(read)
    BY <1>2, <1>3
  <2>2. After(i + 1) = Succ(read[i + 1])
    BY <2>1 DEF InSequence
  <2>3. QED
    BY <2>1, <2>2
<1>6. InSequence'
  BY <1>5 DEF InSequence, Succ, Fin
<1>7. QED
  BY <1>2, <1>4, <1>6

(* A frame that is read follows those read before it.                      *)
LEMMA UploadFrameStep == UploadIInv /\ UploadFrame => UploadIInv'
<1> SUFFICES ASSUME UploadIInv, UploadFrame PROVE UploadIInv'
  OBVIOUS
<1>1. /\ read' = Append(read, upNext) /\ upNext' = Succ(upNext) /\ upNext \in Frames
      /\ UNCHANGED <<uplink, output, files, failure>>
  BY SMTT(30) DEF UploadIInv, UploadShape, UploadFrame, Succ, Frames
<1>2. /\ read' \in Seq(Frames) /\ Len(read') = Len(read) + 1 /\ Len(read) \in Nat
      /\ read'[Len(read) + 1] = upNext
      /\ \A i \in 1..Len(read) : read'[i] = read[i]
  BY <1>1 DEF UploadIInv, UploadShape
<1>3. upNext' \in [msg : Nat, n : Nat] /\ (upNext'.msg \in Messages => upNext'.n \in 1..FramesOf[upNext'.msg])
  <2>1. upNext.msg \in Messages /\ upNext.n \in 1..FramesOf[upNext.msg] /\ FramesOf[upNext.msg] \in Nat \ {0}
    BY <1>1, FramesAreSome DEF UploadIInv, UploadShape, Frames, Messages
  <2>2. CASE Fin(upNext)
    <3>1. upNext' = [msg |-> upNext.msg + 1, n |-> 1]
      BY <1>1, <2>2 DEF Succ
    <3>2. QED
      BY <2>1, <3>1, FramesAreSome, SMTT(30) DEF Messages
  <2>3. CASE ~Fin(upNext)
    <3>1. upNext' = [msg |-> upNext.msg, n |-> upNext.n + 1] /\ upNext.n # FramesOf[upNext.msg]
      BY <1>1, <2>3 DEF Succ, Fin
    <3>2. QED
      BY <2>1, <3>1 DEF Messages
  <2>4. QED
    BY <2>2, <2>3
<1>4. UploadShape'
  BY <1>1, <1>2, <1>3 DEF UploadIInv, UploadShape, TypedNil
<1>5. \A i \in 0..Len(read) : After(i)' = IF i = Len(read) THEN upNext ELSE read[i + 1]
  BY <1>2 DEF After
<1>6. InSequence'
  <2>1. SUFFICES ASSUME NEW i \in 1..Len(read') PROVE After(i)' = Succ(read'[i])
    BY DEF InSequence, Succ, Fin
  <2>2. CASE i = Len(read')
    BY <1>1, <1>2, <2>2 DEF After
  <2>3. CASE i # Len(read')
    <3>1. i \in 1..Len(read)
      BY <1>2, <2>3
    <3>2. QED
      BY <1>2, <1>5, <3>1 DEF UploadIInv, InSequence, After
  <2>4. QED
    BY <2>2, <2>3
<1>7. After(0)' = After(0)
  BY <1>2, <1>5 DEF After
<1>8. FilesSoFar'
  BY <1>1, <1>7 DEF UploadIInv, FilesSoFar, Due, Beginning, TypedNil
<1>9. FilesAreMessages' /\ NoFileLeaks'
  BY <1>1 DEF UploadIInv, FilesAreMessages, NoFileLeaks
<1>10. QED
  BY <1>4, <1>6, <1>8, <1>9 DEF UploadIInv

(* The failures: no later frame of the connection starts a file.           *)
LEMMA UploadFailStep == UploadIInv /\ (CreateFails \/ WriteFails \/ NilWrite) => UploadIInv'
<1> SUFFICES ASSUME UploadIInv, CreateFails \/ WriteFails \/ NilWrite PROVE UploadIInv'
  OBVIOUS
<1>0. UploadShape /\ InSequence /\ FilesSoFar /\ FilesAreMessages /\ NoFileLeaks
  BY DEF UploadIInv
<1>1. NextFrame /\ upNext' = upNext
  BY DEF CreateFails, WriteFails, NilWrite
<1>2. InSequence' /\ read' \in Seq(Frames)
  BY <1>0, <1>1, FrameTaken
<1>3. uplink' = "closing" \/ (uplink' = uplink /\ uplink' # "open")
  BY <1>0 DEF CreateFails, WriteFails, NilWrite, Close, UploadShape
<1>4. uplink' \in {"closing", "closed"} /\ uplink' # "closed"
  BY <1>0, <1>1, <1>3 DEF UploadShape, NextFrame
<1>5. Len(files) \in Nat /\ files \in Seq(FileRecords)
  BY <1>0 DEF UploadShape
<1>6. CASE CreateFails \/ NilWrite
  <2>1. /\ files' = files /\ output' = TypedNil /\ TypedNil' = TypedNil
        /\ output \in {Nil, TypedNil} /\ failure' \subseteq {"create", "write"}
        /\ "write" \in failure => "write" \in failure'
        /\ "write" \in failure' => "write" \in failure
    BY <1>0, <1>6 DEF CreateFails, NilWrite, UploadShape, TypedNil
  <2>2. UploadShape'
    BY <1>0, <1>1, <1>2, <1>4, <2>1 DEF UploadShape
  <2>3. FilesSoFar' /\ FilesAreMessages'
    BY <1>0, <2>1 DEF FilesSoFar, FilesAreMessages
  <2>4. \A i \in 1..Len(files) : ~files[i].open
    BY <1>0, <1>5, <2>1 DEF NoFileLeaks, Nil, TypedNil
  <2>5. NoFileLeaks'
    BY <2>1, <2>4 DEF NoFileLeaks
  <2>6. QED
    BY <1>2, <2>2, <2>3, <2>5 DEF UploadIInv
<1>7. CASE WriteFails
  <2>1. /\ files' = IF output = Nil THEN Create ELSE files
        /\ output' = IF output = Nil THEN Len(files') ELSE output
        /\ failure' = failure \cup {"write"} /\ output # TypedNil
    BY <1>7 DEF WriteFails
  <2>2. Create \in Seq(FileRecords) /\ Len(Create) = Len(files) + 1 /\ \A i \in 1..Len(files) : Create[i] = files[i]
    <3>1. [data |-> <<>>, open |-> TRUE, fin |-> FALSE] \in FileRecords
      BY DEF FileRecords
    <3>2. QED
      BY <1>5, <3>1 DEF Create
  <2>3. files' \in Seq(FileRecords) /\ output' = Len(files')
    BY <1>0, <1>5, <2>1, <2>2 DEF UploadShape
  <2>4. UploadShape'
    BY <1>0, <1>1, <1>2, <1>4, <2>1, <2>3 DEF UploadShape
  <2>5. FilesSoFar' /\ FilesAreMessages'
    BY <2>1 DEF FilesSoFar, FilesAreMessages
  <2>6. NoFileLeaks'
    <3>1. SUFFICES ASSUME NEW i \in 1..Len(files'), files'[i].open PROVE output' = i
      BY <1>4 DEF NoFileLeaks
    <3>2. CASE output = Nil
      <4>1. \A k \in 1..Len(files) : ~files[k].open
        BY <1>0, <1>5, <3>2 DEF NoFileLeaks, Nil
      <4>2. files' = Create /\ (i \in 1..Len(files) \/ i = Len(files'))
        BY <1>5, <2>1, <2>2, <3>2
      <4>3. QED
        BY <2>2, <2>3, <3>1, <4>1, <4>2
    <3>3. CASE output # Nil
      BY <1>0, <2>1, <3>1, <3>3 DEF NoFileLeaks
    <3>4. QED
      BY <3>2, <3>3
  <2>7. QED
    BY <1>2, <2>4, <2>5, <2>6 DEF UploadIInv
<1>8. QED
  BY <1>6, <1>7

(* One more frame of a message is the next of its beginning, and with the  *)
(* last one the beginning is the message.                                  *)
LEMMA BeginningGrows ==
    ASSUME NEW m \in Messages, NEW k \in Nat
    PROVE  /\ Append(Beginning(m, k), [msg |-> m, n |-> k + 1]) = Beginning(m, k + 1)
           /\ Len(Beginning(m, k)) = k /\ Beginning(m, 0) = <<>>
           /\ Beginning(m, FramesOf[m]) = Whole(m)
<1>1. \A S : \A f, g \in Seq(S) : Len(f) = Len(g) /\ (\A n \in 1..Len(f) : f[n] = g[n]) => f = g
  BY SeqEqual
<1>2. Beginning(m, k) \in Seq(Frames) /\ Len(Beginning(m, k)) = k
  BY DEF Beginning, Frames
<1>3. Beginning(m, k + 1) \in Seq(Frames) /\ Len(Beginning(m, k + 1)) = k + 1
  BY DEF Beginning, Frames
<1>4. [msg |-> m, n |-> k + 1] \in Frames
  BY DEF Frames
<1> DEFINE grown == Append(Beginning(m, k), [msg |-> m, n |-> k + 1])
<1>5. /\ grown \in Seq(Frames) /\ Len(grown) = k + 1 /\ grown[k + 1] = [msg |-> m, n |-> k + 1]
      /\ \A n \in 1..k : grown[n] = Beginning(m, k)[n]
  BY <1>2, <1>4
<1>6. \A n \in 1..(k + 1) : grown[n] = Beginning(m, k + 1)[n]
  BY <1>5 DEF Beginning
<1>7. grown = Beginning(m, k + 1)
  <2> HIDE DEF grown
  <2> QED
    BY <1>1, <1>3, <1>5, <1>6
<1>8. Beginning(m, FramesOf[m]) = Whole(m)
  BY DEF Beginning, Whole
<1>9. Beginning(m, 0) = <<>>
  BY DEF Beginning
<1>10. QED
  BY <1>2, <1>7, <1>8, <1>9

(* A frame that is written goes to the end of the file it is due in.       *)
LEMMA UploadWriteStep == UploadIInv /\ WriteFrame => UploadIInv'
<1> SUFFICES ASSUME UploadIInv, WriteFrame PROVE UploadIInv'
  OBVIOUS
<1>0. UploadShape /\ InSequence /\ FilesSoFar /\ FilesAreMessages /\ NoFileLeaks
  BY DEF UploadIInv
<1> DEFINE head == Head(read)
           all == IF output = Nil THEN Create ELSE files
           m == Len(all)
           record == [data |-> Append(all[m].data, head), open |-> ~Fin(head), fin |-> Fin(head)]
<1>1. /\ NextFrame /\ output # TypedNil /\ UNCHANGED <<uplink, upNext, failure>>
      /\ files' = [all EXCEPT ![m] = record]
      /\ output' = IF Fin(head) THEN Nil ELSE Len(files')
  BY DEF WriteFrame
<1>2. /\ head \in Frames /\ read' \in Seq(Frames) /\ After(0) = head /\ After(0)' = Succ(head)
      /\ InSequence' /\ uplink # "closed"
  BY <1>0, <1>1, FrameTaken DEF NextFrame
<1>3. /\ all \in Seq(FileRecords) /\ m \in Nat \ {0}
      /\ m = IF output = Nil THEN Len(files) + 1 ELSE output
      /\ \A i \in 1..(m - 1) : i \in 1..Len(files) /\ all[i] = files[i]
      /\ all[m].data = IF output = Nil THEN <<>> ELSE files[output].data
      /\ all[m].data \in Seq(Frames) /\ output \in Nat
  <2>1. files \in Seq(FileRecords) /\ Len(files) \in Nat
    BY <1>0 DEF UploadShape
  <2>2. CASE output = Nil
    <3>1. [data |-> <<>>, open |-> TRUE, fin |-> FALSE] \in FileRecords
      BY DEF FileRecords
    <3>2. /\ all = Append(files, [data |-> <<>>, open |-> TRUE, fin |-> FALSE])
          /\ all \in Seq(FileRecords) /\ m = Len(files) + 1
          /\ all[m] = [data |-> <<>>, open |-> TRUE, fin |-> FALSE]
          /\ \A i \in 1..Len(files) : all[i] = files[i]
      BY <2>1, <2>2, <3>1 DEF Create
    <3>3. all[m].data = <<>> /\ all[m].data \in Seq(Frames)
      <4> DEFINE empty == [data |-> <<>>, open |-> TRUE, fin |-> FALSE]
      <4>1. all[m].data = <<>>
        <5>1. all[m] = empty /\ empty.data = <<>>
          BY <3>2, Zenon
        <5> HIDE DEF empty, all, m
        <5>2. QED
          BY <5>1, Zenon
      <4>2. <<>> \in Seq(Frames)
        OBVIOUS
      <4>3. QED
        BY <4>1, <4>2, Zenon
    <3>4. m \in Nat \ {0} /\ m = Len(files) + 1 /\ m - 1 = Len(files)
      BY <2>1, <3>2
    <3>5. \A i \in 1..(m - 1) : i \in 1..Len(files) /\ all[i] = files[i]
      BY <3>2, <3>4
    <3>6. output \in Nat
      BY <2>2 DEF Nil
    <3> HIDE DEF all, m
    <3>7. QED
      BY <2>2, <3>2, <3>3, <3>4, <3>5, <3>6
  <2>3. CASE output # Nil
    <3>1. output = Len(files) /\ Len(files) # 0 /\ all = files
      BY <1>0, <1>1, <2>3 DEF UploadShape, Nil
    <3>2. all[m] \in FileRecords
      BY <2>1, <3>1
    <3>3. QED
      BY <2>1, <2>3, <3>1, <3>2 DEF FileRecords
  <2>4. QED
    BY <2>2, <2>3
<1>4. record \in FileRecords
  <2>1. Append(all[m].data, head) \in Seq(Frames)
    BY <1>2, <1>3
  <2>2. (~Fin(head)) \in BOOLEAN
    BY Zenon DEF Fin
  <2>3. Fin(head) \in BOOLEAN
    BY Zenon DEF Fin
  <2>4. QED
    BY <2>1, <2>2, <2>3, Zenon DEF FileRecords
<1> HIDE DEF all, m, record
<1>5. /\ files' \in Seq(FileRecords) /\ Len(files') = m /\ files'[m] = record
      /\ \A i \in 1..(m - 1) : i \in 1..Len(files) /\ files'[i] = files[i]
  <2>1. m = Len(all)
    BY DEF m
  <2>2. QED
    BY <1>1, <1>3, <1>4, <2>1
<1>6. record.data = Append(all[m].data, head) /\ record.open = ~Fin(head) /\ record.fin = Fin(head)
  BY DEF record
<1>7. UploadShape'
  BY <1>0, <1>1, <1>2, <1>5 DEF UploadShape
<1>8. NoFileLeaks'
  <2>1. SUFFICES ASSUME NEW i \in 1..m, files'[i].open PROVE output' = i /\ uplink' # "closed"
    BY <1>5 DEF NoFileLeaks
  <2>2. CASE i = m
    BY <1>1, <1>2, <1>5, <1>6, <2>1, <2>2
  <2>3. CASE i # m
    <3>1. i \in 1..(m - 1)
      BY <1>3, <2>3
    <3>2. files[i].open /\ output = i
      BY <1>0, <1>5, <2>1, <3>1 DEF NoFileLeaks
    <3>3. QED
      BY <1>3, <3>1, <3>2 DEF Nil
  <2>4. QED
    BY <2>2, <2>3
<1>9. ASSUME "write" \notin failure
      PROVE  /\ head = [msg |-> m, n |-> Len(all[m].data) + 1] /\ m \in Messages
             /\ record.data = Beginning(m, Len(all[m].data) + 1)
             /\ Len(record.data) = Len(all[m].data) + 1
  <2>1. After(0) = Due /\ (output # Nil => files[output].data = Beginning(output, Len(files[output].data)))
    BY <1>0, <1>1, <1>9 DEF FilesSoFar
  <2>2. head = [msg |-> m, n |-> Len(all[m].data) + 1]
    BY <1>2, <1>3, <2>1 DEF Due
  <2>3. m \in Messages
    BY <1>2, <2>2 DEF Frames
  <2>4. Len(all[m].data) \in Nat
    BY <1>3
  <2>5. all[m].data = Beginning(m, Len(all[m].data))
    BY <1>3, <2>1, <2>3, BeginningGrows
  <2>6. record.data = Append(Beginning(m, Len(all[m].data)), [msg |-> m, n |-> Len(all[m].data) + 1])
    BY <1>6, <2>2, <2>5, Zenon
  <2>7. record.data = Beginning(m, Len(all[m].data) + 1)
    <3>1. m \in Messages => \A k \in Nat : Append(Beginning(m, k), [msg |-> m, n |-> k + 1]) = Beginning(m, k + 1)
      BY BeginningGrows
    <3>2. QED
      BY <2>3, <2>4, <2>6, <3>1, Zenon
  <2>8. Len(Beginning(m, Len(all[m].data) + 1)) = Len(all[m].data) + 1
    <3>1. m \in Messages => \A k \in Nat : Len(Beginning(m, k)) = k
      BY BeginningGrows
    <3>2. Len(all[m].data) + 1 \in Nat
      BY <2>4
    <3>3. QED
      BY <2>3, <3>1, <3>2, Zenon
  <2>9. QED
    BY <2>2, <2>3, <2>7, <2>8
<1>10. FilesAreMessages'
  <2>1. SUFFICES ASSUME "write" \notin failure, NEW i \in 1..m, files'[i].fin PROVE files'[i].data = Whole(i)
    BY <1>1, <1>5 DEF FilesAreMessages
  <2>2. CASE i = m
    <3>1. Fin(head) /\ files'[i].data = record.data
      BY <1>5, <1>6, <2>1, <2>2
    <3>2. Len(all[m].data) + 1 = FramesOf[m]
      BY <1>9, <2>1, <3>1 DEF Fin
    <3>3. record.data = Beginning(m, FramesOf[m])
      BY <1>9, <2>1, <3>2
    <3>4. Beginning(m, FramesOf[m]) = Whole(m)
      BY <1>9, <2>1 DEF Beginning, Whole
    <3>5. QED
      BY <2>2, <3>1, <3>3, <3>4
  <2>3. CASE i # m
    <3>1. i \in 1..(m - 1)
      BY <1>3, <2>3
    <3>2. QED
      BY <1>0, <1>5, <2>1, <3>1 DEF FilesAreMessages
  <2>4. QED
    BY <2>2, <2>3
<1>11. FilesSoFar'
  <2>1. SUFFICES ASSUME "write" \notin failure
                 PROVE  /\ After(0)' = Due'
                        /\ output' # Nil => files'[output'].data = Beginning(output', Len(files'[output'].data))
    BY <1>1 DEF FilesSoFar, Beginning
  <2>2. CASE Fin(head)
    BY <1>1, <1>2, <1>5, <1>9, <2>1, <2>2 DEF Due, Succ
  <2>3. CASE ~Fin(head)
    <3>1. output' = m /\ m # Nil /\ files'[output'].data = record.data
      BY <1>1, <1>3, <1>5, <2>3 DEF Nil
    <3>2. Due' = [msg |-> m, n |-> Len(record.data) + 1]
      BY <3>1 DEF Due
    <3>3. Succ(head) = [msg |-> m, n |-> Len(all[m].data) + 1 + 1]
      BY <1>9, <2>1, <2>3 DEF Succ
    <3>4. QED
      BY <1>2, <1>9, <2>1, <3>1, <3>2, <3>3
  <2>4. QED
    BY <2>2, <2>3
<1>12. QED
  BY <1>2, <1>7, <1>8, <1>10, <1>11 DEF UploadIInv

(* OnClose closes the file that is open, if one is.                        *)
LEMMA UploadClosedStep == UploadIInv /\ UploadClosed => UploadIInv'
<1> SUFFICES ASSUME UploadIInv, UploadClosed PROVE UploadIInv'
  OBVIOUS
<1>0. UploadShape /\ InSequence /\ FilesSoFar /\ FilesAreMessages /\ NoFileLeaks
  BY DEF UploadIInv
<1>1. /\ uplink' = "closed" /\ UNCHANGED <<upNext, read, output, failure>>
      /\ files' = IF output \in 1..Len(files) THEN [files EXCEPT ![output].open = FALSE] ELSE files
  BY DEF UploadClosed
<1>2. files \in Seq(FileRecords) /\ Len(files) \in Nat
  BY <1>0 DEF UploadShape
<1>3. /\ files' \in Seq(FileRecords) /\ Len(files') = Len(files)
      /\ \A i \in 1..Len(files) : /\ files'[i].data = files[i].data /\ files'[i].fin = files[i].fin
                                  /\ files'[i].open => files[i].open /\ i # output
  <2>1. CASE output \in 1..Len(files)
    <3>1. files[output] \in FileRecords
      BY <1>2, <2>1
    <3> DEFINE closed == [files[output] EXCEPT !.open = FALSE]
    <3>2. /\ closed \in FileRecords /\ closed.data = files[output].data /\ closed.fin = files[output].fin
          /\ closed.open = FALSE
      BY <3>1 DEF FileRecords
    <3>3. files' = [files EXCEPT ![output] = closed]
      BY <1>1, <2>1
    <3> HIDE DEF closed
    <3>4. files' \in Seq(FileRecords) /\ Len(files') = Len(files)
      BY <1>2, <2>1, <3>2, <3>3
    <3>5. files'[output] = closed /\ \A i \in 1..Len(files) : i # output => files'[i] = files[i]
      BY <1>2, <2>1, <3>3
    <3>6. QED
      BY <3>2, <3>4, <3>5
  <2>2. CASE output \notin 1..Len(files)
    <3>1. \A i \in 1..Len(files) : i # output
      BY <2>2
    <3>2. QED
      BY <1>1, <1>2, <2>2, <3>1
  <2>3. QED
    BY <2>1, <2>2
<1>4. UploadShape'
  BY <1>0, <1>1, <1>3 DEF UploadShape, TypedNil
<1>5. InSequence' /\ After(0)' = After(0)
  BY <1>0, <1>1 DEF InSequence, After, Succ, Fin
<1>6. FilesAreMessages'
  BY <1>0, <1>1, <1>3 DEF FilesAreMessages
<1>7. NoFileLeaks'
  BY <1>0, <1>1, <1>3 DEF NoFileLeaks
<1>8. FilesSoFar'
  <2>1. SUFFICES ASSUME "write" \notin failure, output # TypedNil
                 PROVE  /\ After(0) = Due'
                        /\ output # Nil => files'[output].data = Beginning(output, Len(files'[output].data))
    BY <1>1, <1>3, <1>5 DEF FilesSoFar, Beginning, TypedNil
  <2>2. output # Nil => output \in 1..Len(files) /\ files'[output].data = files[output].data
    BY <1>0, <1>2, <1>3, <2>1 DEF UploadShape, Nil
  <2>3. QED
    BY <1>0, <1>1, <1>3, <2>1, <2>2 DEF FilesSoFar, Due
<1>9. QED
  BY <1>4, <1>5, <1>6, <1>7, <1>8 DEF UploadIInv

(* The steps of the client and of the upgrader's closures.                 *)
LEMMA UploadStep == UploadIInv /\ UploadNext => UploadIInv'
  BY UploadFrameStep, UploadFailStep, UploadWriteStep, UploadClosedStep DEF UploadNext

(* Types and the two promises about files.                                 *)
LEMMA UploadSafe == UploadIInv => UploadTypeOK /\ FilesAreMessages /\ NoFileLeaks
  BY DEF UploadIInv, UploadShape, UploadTypeOK, FileRecords, Nil, TypedNil

-----------------------------------------------------------------------------
(* StreamEcho: what the client has, what is on the way to it, what is in   *)
(* the server's list and what is on the way to the server make up the      *)
(* buffer, in that order: so no list ever holds more than the buffer, and  *)
(* what the client has is its beginning.                                   *)
Circulates ==
    /\ ~begun => ret = <<>> /\ kernel = <<>> /\ queue = <<>> /\ uplinked = <<>>
    /\ begun => ret \o ((kernel \o queue) \o uplinked) = buf

StreamIInv ==
    /\ variant \in {"echo", "netstd", "test"} /\ begun \in BOOLEAN
    /\ uplinked \in Units /\ queue \in Units /\ kernel \in Units /\ ret \in Units
    /\ Len(kernel) =< KernelBuffer
    /\ srvConn = "open" /\ finished \in BOOLEAN
    /\ outcome \in {"none", "success", "timeout"}
    /\ Circulates
    /\ finished => ret = buf
    /\ outcome = "success" => ret = buf

(* A sequence is its first n elements and the rest. *)
LEMMA CutInTwo ==
    ASSUME NEW s \in Units, NEW n \in 0..Len(s)
    PROVE  /\ SubSeq(s, 1, n) \in Units /\ Len(SubSeq(s, 1, n)) = n
           /\ SubSeq(s, n + 1, Len(s)) \in Units /\ Len(SubSeq(s, n + 1, Len(s))) = Len(s) - n
           /\ SubSeq(s, 1, n) \o SubSeq(s, n + 1, Len(s)) = s
<1>0. PICK S : Units = Seq(S)
  BY DEF Units
<1>1. Len(s) \in Nat /\ n \in 0..Len(s) /\ Len(s) \in n..Len(s)
  BY <1>0
<1>2. SubSeq(s, 1, n) \in Seq(S) /\ Len(SubSeq(s, 1, n)) = n
  BY <1>0, <1>1, SubSeqProperties
<1>3. SubSeq(s, n + 1, Len(s)) \in Seq(S) /\ Len(SubSeq(s, n + 1, Len(s))) = Len(s) - n
  BY <1>0, <1>1, SubSeqProperties
<1>4. SubSeq(s, 1, n) \o SubSeq(s, n + 1, Len(s)) = SubSeq(s, 1, Len(s))
  <2>1. s \in Seq(S) /\ 1 \in 1..Len(s) + 1 /\ n \in 1 - 1..Len(s) /\ Len(s) \in n..Len(s)
    BY <1>0, <1>1
  <2>2. QED
    BY <2>1, ConcatAdjacentSubSeq, Zenon
<1>5. QED
  BY <1>0, <1>2, <1>3, <1>4, SubSeqFull

(* Concatenation of units: its length, its units, its empty element, and   *)
(* that it is associative.                                                 *)
LEMMA Joined ==
    /\ <<>> \in Units /\ Len(<<>>) = 0
    /\ \A s \in Units : Len(s) \in Nat /\ s \o <<>> = s /\ <<>> \o s = s /\ (Len(s) = 0 => s = <<>>)
    /\ \A s, t \in Units : s \o t \in Units /\ Len(s \o t) = Len(s) + Len(t)
    /\ \A s, t, u \in Units : (s \o t) \o u = s \o (t \o u)
<1>0. PICK S : Units = Seq(S)
  BY DEF Units
<1>1. \A s \in Units : s \o <<>> = s /\ <<>> \o s = s
  BY <1>0, ConcatEmptySeq
<1>2. \A s, t \in Units : s \o t \in Units /\ Len(s \o t) = Len(s) + Len(t)
  BY <1>0
<1>3. \A s, t, u \in Units : (s \o t) \o u = s \o (t \o u)
  BY <1>0, ConcatAssociative, SMTT(30)
<1>4. <<>> \in Units /\ Len(<<>>) = 0 /\ \A s \in Units : Len(s) \in Nat /\ (Len(s) = 0 => s = <<>>)
  BY <1>0
<1>5. QED
  BY <1>1, <1>2, <1>3, <1>4, Zenon

(* Named, for the provers to find their instances by. *)
Association(s, t, u) == (s \o t) \o u = s \o (t \o u)
MovedOn(x, p, r, q, u) == (x \o p) \o ((r \o q) \o u) = x \o (((p \o r) \o q) \o u)

(* Concatenation is associative.                                           *)
LEMMA Associates ==
    ASSUME NEW s \in Units, NEW t \in Units, NEW u \in Units
    PROVE  Association(s, t, u)
  BY Joined, SMTT(30) DEF Association

(* Moving p from the head of what is on the way to the end of what has     *)
(* arrived changes nothing in the whole.                                   *)
LEMMA MovesOn ==
    ASSUME NEW x \in Units, NEW p \in Units, NEW r \in Units, NEW q \in Units, NEW u \in Units
    PROVE  MovedOn(x, p, r, q, u)
<1> DEFINE rq == r \o q
           rest == rq \o u
<1>1. rq \in Units /\ p \o rq = (p \o r) \o q
  BY Joined, ZenonT(40)
<1> HIDE DEF rq
<1>2. rest \in Units
  BY <1>1, Joined
<1>3. Association(p, rq, u)
  BY <1>1, Associates
<1> HIDE DEF rest
<1>4. Association(x, p, rest)
  BY <1>2, Associates
<1>5. QED
  BY <1>1, <1>3, <1>4, Zenon DEF Association, MovedOn, rq, rest

(* The buffer is a sequence of BufSize units. *)
LEMMA BufIsUnits == buf \in Units /\ Len(buf) = BufSize
<1>1. \A S : \A m \in [1..BufSize -> S] : m \in Seq(S) /\ Len(m) = BufSize
  BY BufferFits
<1>2. buf \in [1..BufSize -> 1..BufSize]
  BY DEF buf
<1>3. QED
  BY <1>1, <1>2, Zenon DEF Units

(* The parts that make up the buffer are together as long as it. *)
LEMMA PartsFit ==
    ASSUME StreamIInv
    PROVE  Len(ret) + Len(kernel) + Len(queue) + Len(uplinked) =< BufSize
<1>1. ret \in Units /\ kernel \in Units /\ queue \in Units /\ uplinked \in Units
  BY DEF StreamIInv
<1>2. CASE ~begun
  BY <1>1, <1>2, Joined, BufferFits DEF StreamIInv, Circulates
<1>3. CASE begun
  <2>1. kernel \o queue \in Units /\ Len(kernel \o queue) = Len(kernel) + Len(queue)
    BY <1>1, Joined
  <2>2. /\ (kernel \o queue) \o uplinked \in Units
        /\ Len((kernel \o queue) \o uplinked) = Len(kernel \o queue) + Len(uplinked)
    BY <1>1, <2>1, Joined
  <2>3. Len(ret \o ((kernel \o queue) \o uplinked)) = Len(ret) + Len((kernel \o queue) \o uplinked)
    BY <1>1, <2>2, Joined
  <2>4. Len(ret \o ((kernel \o queue) \o uplinked)) = BufSize
    BY <1>3, BufIsUnits, Zenon DEF StreamIInv, Circulates
  <2>5. Len(ret) \in Nat /\ Len(kernel) \in Nat /\ Len(queue) \in Nat /\ Len(uplinked) \in Nat
    BY <1>1, Joined
  <2>6. QED
    BY <2>1, <2>2, <2>3, <2>4, <2>5
<1>4. QED
  BY <1>2, <1>3

(* What is written is appended to what is on the way, and as long as the   *)
(* list and the data are no longer than the buffer the list takes it.      *)
LEMMA WriteAppends ==
    ASSUME StreamIInv, NEW data \in Units, Len(queue) + Len(data) =< BufSize, ServerWrites(data)
    PROVE  /\ srvConn' = "open" /\ kernel' \in Units /\ queue' \in Units /\ Len(kernel') =< KernelBuffer
           /\ kernel' \o queue' = (kernel \o queue) \o data
<1>1. /\ kernel \in Units /\ queue \in Units /\ srvConn = "open"
      /\ Len(kernel) \in Nat /\ Len(queue) \in Nat /\ Len(data) \in Nat /\ Len(kernel) =< KernelBuffer
  BY Joined DEF StreamIInv
<1>2. PICK n \in 0..(IF queue = <<>> THEN Len(data) ELSE 0) :
         /\ n =< KernelBuffer - Len(kernel)
         /\ IF Len(queue) + Len(data) - n > MaxWriteBufferSize
            THEN srvConn' = "overflow" /\ UNCHANGED <<queue, kernel>>
            ELSE /\ kernel' = kernel \o SubSeq(data, 1, n)
                 /\ queue' = queue \o SubSeq(data, n + 1, Len(data))
                 /\ UNCHANGED srvConn
  BY Zenon DEF ServerWrites
<1> DEFINE p == SubSeq(data, 1, n)
           r == SubSeq(data, n + 1, Len(data))
<1>3. n \in 0..Len(data) /\ n \in Nat /\ (queue # <<>> => n = 0)
  BY <1>1, <1>2
<1>4. ~(Len(queue) + Len(data) - n > MaxWriteBufferSize)
  BY <1>1, <1>3, BufferFits
<1>5. kernel' = kernel \o p /\ queue' = queue \o r /\ srvConn' = "open"
  BY <1>1, <1>2, <1>4
<1>6. p \in Units /\ Len(p) = n /\ r \in Units /\ p \o r = data
  BY <1>3, CutInTwo
<1> HIDE DEF p, r
<1>7. kernel' \in Units /\ queue' \in Units /\ Len(kernel') = Len(kernel) + n
  BY <1>1, <1>5, <1>6, Joined
<1>8. kernel' \o queue' = (kernel \o queue) \o data
  <2>1. CASE queue = <<>>
    <3>1. queue' = r /\ kernel \o queue = kernel
      BY <1>1, <1>5, <1>6, <2>1, Joined
    <3>2. (kernel \o p) \o r = kernel \o (p \o r)
      <4>1. kernel \in Units /\ p \in Units /\ r \in Units
        BY <1>1, <1>6
      <4>2. QED
        BY <4>1, Associates, SMTT(30) DEF Association
    <3>3. QED
      BY <1>5, <1>6, <3>1, <3>2
  <2>2. CASE queue # <<>>
    <3>1. p = <<>>
      BY <1>3, <1>6, <2>2, Joined
    <3>2. r = data /\ kernel' = kernel
      BY <1>1, <1>5, <1>6, <3>1, Joined
    <3>3. QED
      <4>1. (kernel \o queue) \o data = kernel \o (queue \o data)
        BY <1>1, Associates DEF Association
      <4>2. QED
        BY <1>5, <3>2, <4>1, Zenon
  <2>3. QED
    BY <2>1, <2>2
<1>9. QED
  BY <1>1, <1>2, <1>3, <1>5, <1>7, <1>8, BufferFits

(* Before anything is written there is nothing anywhere. *)
LEMMA StreamInitial == StreamInit => StreamIInv
<1> SUFFICES ASSUME StreamInit PROVE StreamIInv
  OBVIOUS
<1>1. ~begun /\ begun \in BOOLEAN /\ ~finished /\ finished \in BOOLEAN
  BY Zenon DEF StreamInit
<1>2. QED
  BY <1>1, Joined, BufferFits DEF StreamInit, StreamIInv, Circulates

(* The writes of the server: in the test the whole buffer when the         *)
(* connection opens, else what has arrived of the client's.                *)
LEMMA StreamWriteStep == StreamIInv /\ (OnOpenWrites \/ ClientWritesBuf \/ ServerOnData) => StreamIInv'
<1> SUFFICES ASSUME StreamIInv, OnOpenWrites \/ ClientWritesBuf \/ ServerOnData PROVE StreamIInv'
  OBVIOUS
<1>0. /\ uplinked \in Units /\ queue \in Units /\ kernel \in Units /\ ret \in Units
      /\ Len(kernel) \in Nat /\ Len(queue) \in Nat /\ Len(uplinked) \in Nat /\ Len(ret) \in Nat
      /\ kernel \o queue \in Units
  BY Joined DEF StreamIInv
<1>1. CASE OnOpenWrites
  <2>1. /\ ~begun /\ begun' /\ begun' \in BOOLEAN /\ ServerWrites(buf)
        /\ UNCHANGED <<variant, uplinked, ret, finished, outcome>>
    BY <1>1, Zenon DEF OnOpenWrites
  <2>2. ret = <<>> /\ kernel = <<>> /\ queue = <<>> /\ uplinked = <<>>
    BY <2>1 DEF StreamIInv, Circulates
  <2>3. Len(queue) + Len(buf) =< BufSize
    BY <2>2, BufIsUnits, BufferFits
  <2>4. /\ srvConn' = "open" /\ kernel' \in Units /\ queue' \in Units /\ Len(kernel') =< KernelBuffer
        /\ kernel' \o queue' = (kernel \o queue) \o buf
    BY <2>1, <2>3, BufIsUnits, WriteAppends
  <2>5. kernel' \o queue' = buf
    BY <2>2, <2>4, BufIsUnits, Joined
  <2>6. ret' \o ((kernel' \o queue') \o uplinked') = buf
    BY <2>1, <2>2, <2>5, BufIsUnits, Joined
  <2>7. Circulates'
    BY <2>1, <2>6 DEF Circulates
  <2>8. (finished' => ret' = buf') /\ (outcome' = "success" => ret' = buf')
    BY <2>1 DEF StreamIInv, buf
  <2>9. QED
    BY <2>1, <2>4, <2>7, <2>8 DEF StreamIInv
<1>2. CASE ClientWritesBuf
  <2>1. /\ ~begun /\ begun' /\ begun' \in BOOLEAN /\ uplinked' = buf
        /\ UNCHANGED <<variant, queue, kernel, srvConn, ret, finished, outcome>>
    BY <1>2, Zenon DEF ClientWritesBuf
  <2>2. ret = <<>> /\ kernel = <<>> /\ queue = <<>>
    BY <2>1 DEF StreamIInv, Circulates
  <2>3. ret' \o ((kernel' \o queue') \o uplinked') = buf
    BY <2>1, <2>2, BufIsUnits, Joined
  <2>4. Circulates'
    BY <2>1, <2>3 DEF Circulates
  <2>5. QED
    BY <2>1, <2>4, BufIsUnits DEF StreamIInv
<1>3. CASE ServerOnData
  <2>1. PICK n \in 1..Len(uplinked) :
           /\ uplinked' = SubSeq(uplinked, n + 1, Len(uplinked))
           /\ ServerWrites(SubSeq(uplinked, 1, n))
           /\ UNCHANGED <<variant, begun, ret, finished, outcome>>
    BY <1>3, Zenon DEF ServerOnData
  <2> DEFINE p == SubSeq(uplinked, 1, n)
             r == SubSeq(uplinked, n + 1, Len(uplinked))
  <2>2. n \in 0..Len(uplinked) /\ n =< Len(uplinked) /\ uplinked # <<>>
    BY <1>0, <2>1, Joined
  <2>3. p \in Units /\ Len(p) = n /\ r \in Units /\ p \o r = uplinked
    BY <1>0, <2>2, CutInTwo
  <2>4. uplinked' = r /\ ServerWrites(p)
    BY <2>1
  <2> HIDE DEF p, r
  <2>5. Len(queue) + Len(p) =< BufSize
    BY <1>0, <2>2, <2>3, PartsFit, BufferFits
  <2>6. /\ srvConn' = "open" /\ kernel' \in Units /\ queue' \in Units /\ Len(kernel') =< KernelBuffer
        /\ kernel' \o queue' = (kernel \o queue) \o p
    BY <2>3, <2>4, <2>5, WriteAppends
  <2>7. ((kernel \o queue) \o p) \o r = (kernel \o queue) \o (p \o r)
    <3>1. kernel \o queue \in Units /\ p \in Units /\ r \in Units
      BY <1>0, <2>3
    <3>2. QED
      BY <3>1, Associates DEF Association
  <2>8. (kernel' \o queue') \o uplinked' = (kernel \o queue) \o uplinked
    BY <2>3, <2>4, <2>6, <2>7, Zenon
  <2>9. begun
    BY <2>2 DEF StreamIInv, Circulates
  <2>10. Circulates'
    BY <2>1, <2>8, <2>9 DEF StreamIInv, Circulates, buf
  <2>11. QED
    BY <2>1, <2>3, <2>4, <2>6, <2>10 DEF StreamIInv, buf
<1>4. QED
  BY <1>1, <1>2, <1>3

(* The poller's flush, the reads of the clients and the select of main.    *)
LEMMA StreamReadStep ==
    StreamIInv /\ (ServerFlush \/ ClientOnData \/ TestReads \/ ClientSelects) => StreamIInv'
<1> SUFFICES ASSUME StreamIInv, ServerFlush \/ ClientOnData \/ TestReads \/ ClientSelects PROVE StreamIInv'
  OBVIOUS
<1>0. /\ uplinked \in Units /\ queue \in Units /\ kernel \in Units /\ ret \in Units
      /\ Len(kernel) \in Nat /\ Len(queue) \in Nat /\ Len(uplinked) \in Nat /\ Len(ret) \in Nat
  BY Joined DEF StreamIInv
<1>1. CASE ServerFlush
  <2>1. PICK n \in 1..Len(queue) :
           /\ n =< KernelBuffer - Len(kernel)
           /\ kernel' = kernel \o SubSeq(queue, 1, n) /\ queue' = SubSeq(queue, n + 1, Len(queue))
           /\ UNCHANGED <<variant, begun, uplinked, srvConn, ret, finished, outcome>>
    BY <1>1, Zenon DEF ServerFlush
  <2> DEFINE p == SubSeq(queue, 1, n)
             r == SubSeq(queue, n + 1, Len(queue))
  <2>2. n \in 0..Len(queue) /\ n \in Nat /\ queue # <<>>
    BY <1>0, <2>1, Joined
  <2>3. p \in Units /\ Len(p) = n /\ r \in Units /\ p \o r = queue
    BY <1>0, <2>2, CutInTwo
  <2>4. kernel' = kernel \o p /\ queue' = r
    BY <2>1
  <2> HIDE DEF p, r
  <2>5. kernel' \in Units /\ Len(kernel') = Len(kernel) + n
    BY <1>0, <2>3, <2>4, Joined
  <2>6. Len(kernel') =< KernelBuffer
    BY <1>0, <2>1, <2>2, <2>5, BufferFits
  <2>7. (kernel \o p) \o r = kernel \o (p \o r)
    <3>1. kernel \in Units /\ p \in Units /\ r \in Units
      BY <1>0, <2>3
    <3>2. QED
      BY <3>1, Associates DEF Association
  <2>8. begun
    BY <2>2 DEF StreamIInv, Circulates
  <2>9. Circulates'
    BY <2>1, <2>3, <2>4, <2>7, <2>8 DEF StreamIInv, Circulates, buf
  <2>10. QED
    BY <2>1, <2>3, <2>4, <2>5, <2>6, <2>9 DEF StreamIInv, buf
<1>2. CASE ClientOnData \/ TestReads
  <2>1. PICK n \in 1..Len(kernel) :
           /\ kernel' = SubSeq(kernel, n + 1, Len(kernel)) /\ ret' = ret \o SubSeq(kernel, 1, n)
           /\ UNCHANGED <<variant, begun, uplinked, queue, srvConn>>
           /\ \/ finished' = (finished \/ ret' = buf) /\ outcome' = outcome
              \/ finished' = finished /\ outcome' = (IF ret' = buf THEN "success" ELSE outcome)
    BY <1>2, Zenon DEF ClientOnData, TestReads
  <2> DEFINE p == SubSeq(kernel, 1, n)
             r == SubSeq(kernel, n + 1, Len(kernel))
  <2>2. n \in 0..Len(kernel) /\ n \in Nat \ {0} /\ kernel # <<>>
    BY <1>0, <2>1, Joined
  <2>3. p \in Units /\ Len(p) = n /\ r \in Units /\ Len(r) = Len(kernel) - n /\ p \o r = kernel
    BY <1>0, <2>2, CutInTwo
  <2>4. kernel' = r /\ ret' = ret \o p
    BY <2>1
  <2> HIDE DEF p, r
  <2>5. ret' \in Units /\ Len(kernel') =< KernelBuffer
    <3>1. ret' \in Units
      BY <1>0, <2>3, <2>4, Joined
    <3>2. Len(kernel) =< KernelBuffer
      BY DEF StreamIInv
    <3>3. QED
      BY <1>0, <2>2, <2>3, <2>4, <3>1, <3>2, BufferFits
  <2>6. begun
    BY <2>2 DEF StreamIInv, Circulates
  <2>7. ret' \o ((kernel' \o queue) \o uplinked) = ret \o ((kernel \o queue) \o uplinked)
    <3>1. ret \in Units /\ p \in Units /\ r \in Units /\ queue \in Units /\ uplinked \in Units
      BY <1>0, <2>3
    <3>2. MovedOn(ret, p, r, queue, uplinked)
      BY <3>1, MovesOn
    <3>3. QED
      BY <2>3, <2>4, <3>2, Zenon DEF MovedOn
  <2>8. Circulates'
    BY <2>1, <2>6, <2>7 DEF StreamIInv, Circulates, buf
  <2>9. ~(ret = buf)
    BY <1>0, <2>2, PartsFit, BufIsUnits, BufferFits
  <2>10. ~finished /\ outcome # "success" /\ outcome \in {"none", "timeout"}
    BY <2>9 DEF StreamIInv
  <2>11. buf' = buf
    BY DEF buf
  <2>12. finished' \in BOOLEAN /\ (finished' => ret' = buf)
    <3>1. finished \in BOOLEAN
      BY DEF StreamIInv
    <3>2. CASE finished' = (finished \/ ret' = buf)
      <4>1. finished' <=> ret' = buf
        BY <2>10, <3>2, Zenon
      <4>2. finished' \in BOOLEAN
        BY <3>2, Zenon
      <4>3. QED
        BY <4>1, <4>2, Zenon
    <3>3. CASE finished' = finished
      BY <2>10, <3>1, <3>3, Zenon
    <3>4. QED
      BY <2>1, <3>2, <3>3
  <2>13. outcome' \in {"none", "success", "timeout"} /\ (outcome' = "success" => ret' = buf)
    BY <2>1, <2>10
  <2>14. QED
    BY <2>1, <2>3, <2>4, <2>5, <2>8, <2>11, <2>12, <2>13 DEF StreamIInv
<1>3. CASE ClientSelects
  <2>1. outcome' = "timeout" \/ (outcome' = "success" /\ finished)
    BY <1>3 DEF ClientSelects
  <2>2. UNCHANGED <<variant, begun, uplinked, queue, kernel, srvConn, ret, finished>>
    BY <1>3 DEF ClientSelects
  <2>3. QED
    BY <2>1, <2>2 DEF StreamIInv, Circulates, buf
<1>4. QED
  BY <1>1, <1>2, <1>3

(* Every step of an echo program keeps the parts together. *)
LEMMA StreamStep == StreamIInv /\ StreamNext => StreamIInv'
  BY StreamWriteStep, StreamReadStep DEF StreamNext

(* What the client has is the beginning of the buffer, and the server's    *)
(* list is no longer than its limit.                                       *)
LEMMA StreamSafe == StreamIInv => StreamTypeOK /\ EchoInOrder /\ NeverOverflows
<1> SUFFICES ASSUME StreamIInv PROVE StreamTypeOK /\ EchoInOrder /\ NeverOverflows
  OBVIOUS
<1>0. /\ uplinked \in Units /\ queue \in Units /\ kernel \in Units /\ ret \in Units
      /\ Len(kernel) \in Nat /\ Len(queue) \in Nat /\ Len(uplinked) \in Nat /\ Len(ret) \in Nat
      /\ Len(ret) =< BufSize /\ Len(queue) =< BufSize
  <2>1. /\ uplinked \in Units /\ queue \in Units /\ kernel \in Units /\ ret \in Units
        /\ Len(kernel) \in Nat /\ Len(queue) \in Nat /\ Len(uplinked) \in Nat /\ Len(ret) \in Nat
    BY Joined DEF StreamIInv
  <2>2. QED
    BY <2>1, PartsFit, BufferFits
<1>1. StreamTypeOK
  BY <1>0, BufferFits DEF StreamIInv, StreamTypeOK
<1>2. IsPrefix(ret, buf)
  <2>1. SubSeq(ret, 1, Len(ret)) = SubSeq(buf, 1, Len(ret))
    <3>1. CASE ~begun
      <4>1. ret = <<>> /\ Len(ret) = 0
        BY <1>0, <3>1, Joined DEF StreamIInv, Circulates
      <4>2. \A s : SubSeq(s, 1, 0) = <<>>
        BY SubSeqEmpty
      <4>3. QED
        BY <4>1, <4>2, Zenon
    <3>2. CASE begun
      <4> DEFINE t == (kernel \o queue) \o uplinked
      <4>1. t \in Units
        BY <1>0, Joined
      <4>2. ret \o t = buf
        BY <3>2 DEF StreamIInv, Circulates
      <4> HIDE DEF t
      <4>3. PICK S : Units = Seq(S)
        BY DEF Units
      <4>4. ret \in Seq(S) /\ t \in Seq(S) /\ buf \in Seq(S) /\ Len(buf) = BufSize
        BY <1>0, <4>1, <4>3, BufIsUnits
      <4>5. \A i \in 1..Len(ret) : buf[i] = ret[i]
        BY <1>0, <4>2, <4>4
      <4>6. SubSeq(buf, 1, Len(ret)) \in Seq(S) /\ Len(SubSeq(buf, 1, Len(ret))) = Len(ret)
        BY <1>0, <4>4, BufferFits
      <4>7. \A i \in 1..Len(ret) : SubSeq(buf, 1, Len(ret))[i] = ret[i]
        BY <1>0, <4>4, <4>5, BufferFits
      <4>8. SubSeq(buf, 1, Len(ret)) = ret
        BY <1>0, <4>4, <4>6, <4>7, SeqEqual
      <4>9. SubSeq(ret, 1, Len(ret)) = ret
        BY <4>4, SubSeqFull
      <4>10. QED
        BY <4>8, <4>9
    <3>3. QED
      BY <3>1, <3>2
  <2>2. QED
    BY <1>0, <2>1, BufIsUnits DEF IsPrefix
<1>3. QED
  BY <1>1, <1>2 DEF StreamIInv, EchoInOrder, NeverOverflows

-----------------------------------------------------------------------------
(* NbClient: until the floods begin the channel holds what has been        *)
(* dialled and main does not still hold; and with no-echo every connection *)
(* that has been dialled is in exactly one place, or broken and in none.   *)
OnChannel(c) == \E i \in 1..Len(connected) : connected[i] = c
WithFlood(c) == \E f \in Flooders : flooder[f] = c

Place(w, c) ==
    /\ w # "none" => c \in dialled
    /\ w = "none" => c \notin dialled \/ c \in broken
    /\ w = "main" <=> pushing = c
    /\ w = "channel" <=> OnChannel(c)
    /\ w = "flood" <=> WithFlood(c)
    /\ w = "away" <=> away[c] = 1
    /\ w = "handling" <=> c \in handling
Placed(c) == \E w \in {"none", "main", "channel", "flood", "away", "handling"} : Place(w, c)

NeverTwice ==
    /\ \A i, j \in 1..Len(connected) : connected[i] = connected[j] => i = j
    /\ \A f, g \in Flooders : flooder[f] = flooder[g] /\ flooder[f] # Nobody => f = g
    /\ \A c \in Conns : away[c] =< 1 /\ timers[c] = 0

NbShape ==
    /\ noEcho \in BOOLEAN /\ dialled \subseteq Conns
    /\ pushing \in Conns \cup {Nobody} /\ nbMain \in {"dial", "push", "flood", "panicked"}
    /\ connected \in Seq(Conns) /\ Len(connected) =< Cardinality(Conns)
    /\ flooder \in [Flooders -> Conns \cup {Nobody}]
    /\ away \in [Conns -> Nat] /\ handling \subseteq Conns /\ timers \in [Conns -> Nat]
    /\ \A c \in Conns : timers[c] =< MaxTimers
    /\ broken \subseteq dialled

StartUp ==
    /\ nbMain = "push" <=> pushing # Nobody
    /\ pushing # Nobody => pushing \in dialled
    /\ nbMain # "flood" => /\ Len(connected) + (IF nbMain = "push" THEN 1 ELSE 0) = Cardinality(dialled)
                           /\ \A f \in Flooders : flooder[f] = Nobody
                           /\ \A c \in Conns : away[c] = 0 /\ timers[c] = 0
                           /\ handling = {}

NbIInv == NbShape /\ StartUp /\ (noEcho => NeverTwice /\ \A c \in Conns : Placed(c))

(* The set of connections has a cardinality, and every subset one that is  *)
(* no larger, and smaller when a connection is missing.                    *)
LEMMA ConnsCounted ==
    /\ Cardinality(Conns) \in Nat
    /\ \A T \in SUBSET Conns : /\ Cardinality(T) \in Nat /\ Cardinality(T) =< Cardinality(Conns)
                               /\ \A c \in Conns \ T : Cardinality(T \cup {c}) = Cardinality(T) + 1
<1>1. Cardinality(Conns) \in Nat
  BY ConnsAreFinite, FS_CardinalityType
<1>2. SUFFICES ASSUME NEW T \in SUBSET Conns
               PROVE  /\ Cardinality(T) \in Nat /\ Cardinality(T) =< Cardinality(Conns)
                      /\ \A c \in Conns \ T : Cardinality(T \cup {c}) = Cardinality(T) + 1
  BY <1>1
<1>3. IsFiniteSet(T) /\ Cardinality(T) =< Cardinality(Conns)
  BY ConnsAreFinite, FS_Subset
<1>4. Cardinality(T) \in Nat
  BY <1>3, FS_CardinalityType
<1>5. ASSUME NEW c \in Conns \ T PROVE Cardinality(T \cup {c}) = Cardinality(T) + 1
  BY <1>3, FS_AddElement
<1>6. QED
  BY <1>3, <1>4, <1>5

(* A send to the channel adds the connection at its end. *)
LEMMA PutAdds ==
    ASSUME NbShape, NEW c \in Conns, Put(c)
    PROVE  /\ connected' \in Seq(Conns) /\ Len(connected') = Len(connected) + 1
           /\ \A d : OnChannel(d)' <=> OnChannel(d) \/ d = c
           /\ ~OnChannel(c) /\ (\A i, j \in 1..Len(connected) : connected[i] = connected[j] => i = j)
                 => \A i, j \in 1..Len(connected') : connected'[i] = connected'[j] => i = j
<1>1. connected \in Seq(Conns) /\ Len(connected) \in Nat
  BY DEF NbShape
<1>2. /\ connected' \in Seq(Conns) /\ Len(connected') = Len(connected) + 1
      /\ connected'[Len(connected) + 1] = c
      /\ \A i \in 1..Len(connected) : connected'[i] = connected[i]
  BY <1>1 DEF Put
<1>3. \A i \in 1..Len(connected') : i \in 1..Len(connected) \/ i = Len(connected) + 1
  BY <1>1, <1>2
<1>4. \A i \in 1..Len(connected) : i \in 1..Len(connected')
  BY <1>1, <1>2
<1>5. Len(connected) + 1 \in 1..Len(connected')
  BY <1>1, <1>2
<1>6. ASSUME NEW d PROVE OnChannel(d)' <=> OnChannel(d) \/ d = c
  BY <1>2, <1>3, <1>4, <1>5, Zenon DEF OnChannel
<1>7. ASSUME ~OnChannel(c), \A i, j \in 1..Len(connected) : connected[i] = connected[j] => i = j
      PROVE  \A i, j \in 1..Len(connected') : connected'[i] = connected'[j] => i = j
  BY <1>2, <1>3, <1>7, Zenon DEF OnChannel
<1>8. QED
  BY <1>2, <1>6, <1>7

(* A receive takes the first one out. *)
LEMMA TakeRemoves ==
    ASSUME NbShape, connected # <<>>, connected' = Tail(connected)
    PROVE  /\ connected' \in Seq(Conns) /\ Len(connected') = Len(connected) - 1 /\ Head(connected) \in Conns
           /\ OnChannel(Head(connected))
           /\ \A d : OnChannel(d)' => OnChannel(d)
           /\ \A d : OnChannel(d) => OnChannel(d)' \/ d = Head(connected)
           /\ (\A i, j \in 1..Len(connected) : connected[i] = connected[j] => i = j)
                 => /\ \A d : d = Head(connected) => ~OnChannel(d)'
                    /\ \A i, j \in 1..Len(connected') : connected'[i] = connected'[j] => i = j
<1>1. connected \in Seq(Conns) /\ Len(connected) \in Nat \ {0} /\ Head(connected) = connected[1]
  BY DEF NbShape
<1>2. /\ connected' \in Seq(Conns) /\ Len(connected') = Len(connected) - 1 /\ connected[1] \in Conns
      /\ \A i \in 1..Len(connected') : i + 1 \in 1..Len(connected) /\ connected'[i] = connected[i + 1] /\ i + 1 # 1
  BY <1>1
<1>3. \A i \in 1..Len(connected) :
          i = 1 \/ (i - 1 \in 1..Len(connected') /\ connected'[i - 1] = connected[i])
  BY <1>1, <1>2
<1>4. 1 \in 1..Len(connected)
  BY <1>1
<1>5. OnChannel(Head(connected))
  BY <1>1, <1>4, Zenon DEF OnChannel
<1>6. ASSUME NEW d PROVE OnChannel(d)' => OnChannel(d)
  BY <1>2, Zenon DEF OnChannel
<1>7. ASSUME NEW d, OnChannel(d) PROVE OnChannel(d)' \/ d = Head(connected)
  BY <1>1, <1>3, <1>7, Zenon DEF OnChannel
<1>8. ASSUME \A i, j \in 1..Len(connected) : connected[i] = connected[j] => i = j
      PROVE  /\ \A d : d = Head(connected) => ~OnChannel(d)'
             /\ \A i, j \in 1..Len(connected') : connected'[i] = connected'[j] => i = j
  <2>1. ASSUME NEW i \in 1..Len(connected'), NEW j \in 1..Len(connected'), connected'[i] = connected'[j]
        PROVE  i = j
    BY <1>2, <1>8, <2>1
  <2>2. ASSUME NEW i \in 1..Len(connected') PROVE connected'[i] # Head(connected)
    BY <1>1, <1>2, <1>4, <1>8
  <2>3. ASSUME NEW d, d = Head(connected) PROVE ~OnChannel(d)'
    BY <2>2, <2>3 DEF OnChannel
  <2>4. QED
    BY <2>1, <2>3
<1>9. QED
  BY <1>1, <1>2, <1>5, <1>6, <1>7, <1>8

(* No connection has been dialled.                                         *)
LEMMA NbInitial == NbInit => NbIInv
<1> SUFFICES ASSUME NbInit PROVE NbIInv
  OBVIOUS
<1>1. /\ noEcho \in BOOLEAN /\ dialled = {} /\ pushing = Nobody /\ nbMain = "dial"
      /\ connected = <<>> /\ flooder = [f \in Flooders |-> Nobody]
      /\ away = [c \in Conns |-> 0] /\ handling = {} /\ timers = [c \in Conns |-> 0]
      /\ broken = {}
  BY DEF NbInit
<1>2. Cardinality(Conns) \in Nat /\ Cardinality({}) = 0
  BY ConnsCounted, FS_EmptySet
<1>3. NbShape
  BY <1>1, <1>2, TimersAreBounded DEF NbShape
<1>4. StartUp
  BY <1>1, <1>2 DEF StartUp
<1>5. NeverTwice
  BY <1>1 DEF NeverTwice
<1>6. ASSUME NEW c \in Conns PROVE Placed(c)
  <2>1. ~OnChannel(c)
    BY <1>1 DEF OnChannel
  <2>2. ~WithFlood(c)
    BY <1>1, ConnsAreFinite DEF WithFlood
  <2>3. Place("none", c)
    BY <1>1, <2>1, <2>2, ConnsAreFinite DEF Place
  <2>4. QED
    BY <2>3 DEF Placed
<1>7. QED
  BY <1>3, <1>4, <1>5, <1>6 DEF NbIInv

(* main: a connection is dialled, and put into the channel. *)
LEMMA NbMainStep == NbIInv /\ (NbDial \/ NbPush) => NbIInv'
<1> SUFFICES ASSUME NbIInv, NbDial \/ NbPush PROVE NbIInv'
  OBVIOUS
<1>0. NbShape /\ StartUp /\ noEcho \in BOOLEAN
  BY DEF NbIInv, NbShape
<1>1. CASE NbDial /\ nbMain' = "push"
  <2>1. /\ nbMain = "dial" /\ nbMain' = "push"
        /\ UNCHANGED <<noEcho, connected, flooder, away, handling, timers, broken>>
    BY <1>1 DEF NbDial
  <2>2. PICK c \in Conns \ dialled : dialled' = dialled \cup {c} /\ pushing' = c
    BY <1>1 DEF NbDial
  <2>3. pushing = Nobody /\ c # Nobody
    BY <1>0, <2>1, ConnsAreFinite DEF StartUp
  <2>4. NbShape'
    BY <1>0, <2>1, <2>2 DEF NbShape
  <2>5. Cardinality(dialled') = Cardinality(dialled) + 1
    BY <1>0, <2>2, ConnsCounted DEF NbShape
  <2>6. StartUp'
    BY <1>0, <2>1, <2>2, <2>3, <2>5, ConnsCounted DEF NbShape, StartUp
  <2>7. ASSUME noEcho', NEW d \in Conns PROVE Placed(d)'
    <3>1. Placed(d) /\ (OnChannel(d)' <=> OnChannel(d)) /\ (WithFlood(d)' <=> WithFlood(d))
      BY <2>1, <2>7 DEF NbIInv, OnChannel, WithFlood
    <3>2. PICK w \in {"none", "main", "channel", "flood", "away", "handling"} : Place(w, d)
      BY <3>1 DEF Placed
    <3>3. CASE d = c
      <4>1. w = "none" /\ Place("main", d)'
        BY <2>1, <2>2, <3>1, <3>2, <3>3 DEF Place
      <4>2. QED
        BY <4>1 DEF Placed
    <3>4. CASE d # c
      <4>1. Place(w, d)'
        BY <2>1, <2>2, <2>3, <3>1, <3>2, <3>4, ConnsAreFinite DEF Place
      <4>2. QED
        BY <4>1 DEF Placed
    <3>5. QED
      BY <3>3, <3>4
  <2>8. noEcho' => NeverTwice'
    BY <2>1 DEF NbIInv, NeverTwice
  <2>9. QED
    BY <2>4, <2>6, <2>7, <2>8 DEF NbIInv
<1>2. CASE NbPush
  <2>1. /\ nbMain = "push" /\ ~Full /\ Put(pushing) /\ pushing' = Nobody
        /\ nbMain' = IF dialled = Conns THEN "flood" ELSE "dial"
        /\ UNCHANGED <<noEcho, dialled, flooder, away, handling, timers, broken>>
    BY <1>2 DEF NbPush
  <2>2. PICK c \in Conns : c = pushing
    BY <1>0, <2>1 DEF NbShape, StartUp
  <2>3. c \in dialled /\ Put(c)
    BY <1>0, <2>1, <2>2, ConnsAreFinite DEF StartUp
  <2>4. /\ connected' \in Seq(Conns) /\ Len(connected') = Len(connected) + 1
        /\ \A d : OnChannel(d)' <=> OnChannel(d) \/ d = c
        /\ ~OnChannel(c) /\ (\A i, j \in 1..Len(connected) : connected[i] = connected[j] => i = j)
              => \A i, j \in 1..Len(connected') : connected'[i] = connected'[j] => i = j
    BY <1>0, <2>3, PutAdds
  <2>5. Len(connected') =< Cardinality(Conns)
    BY <1>0, <2>1, <2>4, ConnsCounted DEF NbShape, Full
  <2>6. NbShape'
    BY <1>0, <2>1, <2>4, <2>5 DEF NbShape
  <2>7. StartUp'
    BY <1>0, <2>1, <2>4, ConnsCounted DEF NbShape, StartUp
  <2>8. ASSUME noEcho' PROVE NeverTwice' /\ \A d \in Conns : Placed(d)'
    <3>1. NeverTwice /\ \A d \in Conns : Placed(d)
      BY <2>1, <2>8 DEF NbIInv
    <3>2. ASSUME NEW d \in Conns PROVE Placed(d)' /\ (d = c => ~OnChannel(d))
      <4>1. PICK w \in {"none", "main", "channel", "flood", "away", "handling"} : Place(w, d)
        BY <3>1 DEF Placed
      <4>2. WithFlood(d)' <=> WithFlood(d)
        BY <2>1 DEF WithFlood
      <4>3. CASE d = c
        <5>1. w = "main" /\ ~OnChannel(d)
          BY <2>2, <4>1, <4>3 DEF Place
        <5>2. Place("channel", d)'
          BY <2>1, <2>3, <2>4, <4>1, <4>2, <4>3, <5>1, ConnsAreFinite DEF Place
        <5>3. QED
          BY <5>1, <5>2 DEF Placed
      <4>4. CASE d # c
        <5>1. Place(w, d)'
          BY <2>1, <2>2, <2>4, <4>1, <4>2, <4>4, ConnsAreFinite DEF Place
        <5>2. QED
          BY <4>4, <5>1 DEF Placed
      <4>5. QED
        BY <4>3, <4>4
    <3>3. NeverTwice'
      <4>1. \A i, j \in 1..Len(connected') : connected'[i] = connected'[j] => i = j
        BY <2>4, <3>1, <3>2 DEF NeverTwice
      <4>2. QED
        BY <2>1, <3>1, <4>1, Zenon DEF NeverTwice
    <3>4. QED
      BY <3>2, <3>3
  <2>9. QED
    BY <2>6, <2>7, <2>8 DEF NbIInv
<1>3. CASE NbDial /\ nbMain' = "panicked"
  <2>1. nbMain = "dial" /\ UNCHANGED <<noEcho, dialled, pushing, connected, flooder, away, handling, timers, broken>>
    BY <1>3 DEF NbDial
  <2>2. NbShape' /\ StartUp'
    BY <1>0, <1>3, <2>1 DEF NbShape, StartUp
  <2>3. noEcho' => NeverTwice' /\ \A d \in Conns : Placed(d)'
    BY <2>1 DEF NbIInv, NeverTwice, Placed, Place, OnChannel, WithFlood
  <2>4. QED
    BY <2>2, <2>3 DEF NbIInv
<1>4. QED
  BY <1>1, <1>2, <1>3 DEF NbDial

(* A goroutine of flood: a connection out of the channel, a message to it. *)
LEMMA NbFloodStep == ASSUME NbIInv, NEW f \in Flooders, FloodTake(f) \/ FloodWrite(f) PROVE NbIInv'
<1>0. NbShape /\ StartUp /\ noEcho \in BOOLEAN
  BY DEF NbIInv, NbShape
<1>1. CASE FloodTake(f)
  <2>1. /\ nbMain = "flood" /\ flooder[f] = Nobody /\ connected # <<>>
        /\ connected' = Tail(connected) /\ flooder' = [flooder EXCEPT ![f] = Head(connected)]
        /\ UNCHANGED <<noEcho, dialled, pushing, nbMain, away, handling, timers, broken>>
    BY <1>1 DEF FloodTake
  <2>2. /\ connected' \in Seq(Conns) /\ Len(connected') = Len(connected) - 1 /\ Head(connected) \in Conns
        /\ OnChannel(Head(connected))
        /\ \A d : OnChannel(d)' => OnChannel(d)
        /\ \A d : OnChannel(d) => OnChannel(d)' \/ d = Head(connected)
        /\ (\A i, j \in 1..Len(connected) : connected[i] = connected[j] => i = j)
              => /\ \A d : d = Head(connected) => ~OnChannel(d)'
                 /\ \A i, j \in 1..Len(connected') : connected'[i] = connected'[j] => i = j
    BY <1>0, <2>1, TakeRemoves
  <2>3. PICK c \in Conns : c = Head(connected)
    BY <2>2
  <2>4. flooder' = [flooder EXCEPT ![f] = c] /\ flooder \in [Flooders -> Conns \cup {Nobody}]
    BY <1>0, <2>1, <2>3 DEF NbShape
  <2>5. Len(connected) \in Nat /\ Len(connected') =< Cardinality(Conns)
    <3>1. connected \in Seq(Conns) /\ Len(connected) =< Cardinality(Conns)
      BY <1>0 DEF NbShape
    <3>2. Len(connected) \in Nat /\ Cardinality(Conns) \in Nat /\ Len(connected') = Len(connected) - 1
      BY <2>2, <3>1, ConnsCounted
    <3>3. QED
      BY <3>1, <3>2
  <2>6. NbShape'
    BY <1>0, <2>1, <2>2, <2>4, <2>5 DEF NbShape
  <2>7. StartUp'
    BY <1>0, <2>1 DEF StartUp
  <2>8. ASSUME noEcho' PROVE NeverTwice' /\ \A d \in Conns : Placed(d)'
    <3>1. NeverTwice /\ \A d \in Conns : Placed(d)
      BY <2>1, <2>8 DEF NbIInv
    <3>2. /\ \A d : d = c => ~OnChannel(d)'
          /\ \A i, j \in 1..Len(connected') : connected'[i] = connected'[j] => i = j
      BY <2>2, <2>3, <3>1, Zenon DEF NeverTwice
    <3>3. \A d \in Conns : WithFlood(d)' <=> WithFlood(d) \/ d = c
      BY <2>1, <2>4, ConnsAreFinite DEF WithFlood
    <3>4. ASSUME NEW d \in Conns PROVE Placed(d)' /\ (d = c => ~WithFlood(d))
      <4>1. PICK w \in {"none", "main", "channel", "flood", "away", "handling"} : Place(w, d)
        BY <3>1 DEF Placed
      <4>2. CASE d = c
        <5>1. w = "channel" /\ ~WithFlood(d)
          BY <2>2, <2>3, <4>1, <4>2 DEF Place
        <5>2. Place("flood", d)'
          BY <2>1, <3>2, <3>3, <4>1, <4>2, <5>1 DEF Place
        <5>3. QED
          BY <5>1, <5>2 DEF Placed
      <4>3. CASE d # c
        <5>1. OnChannel(d)' <=> OnChannel(d)
          BY <2>2, <2>3, <4>3, Zenon
        <5>2. Place(w, d)'
          BY <2>1, <3>3, <4>1, <4>3, <5>1 DEF Place
        <5>3. QED
          BY <4>3, <5>2 DEF Placed
      <4>4. QED
        BY <4>2, <4>3
    <3>5. \A g, h \in Flooders : flooder'[g] = flooder'[h] /\ flooder'[g] # Nobody => g = h
      <4>1. \A g \in Flooders : flooder[g] # c
        BY <3>4 DEF WithFlood
      <4>2. QED
        BY <2>1, <2>4, <3>1, <4>1 DEF NeverTwice
    <3>6. NeverTwice'
      BY <2>1, <3>1, <3>2, <3>5 DEF NeverTwice
    <3>7. QED
      BY <3>4, <3>6
  <2>9. QED
    BY <2>6, <2>7, <2>8 DEF NbIInv
<1>2. CASE FloodWrite(f)
  <2>1. /\ flooder[f] # Nobody /\ flooder' = [flooder EXCEPT ![f] = Nobody]
        /\ WriteMessage(flooder[f])
        /\ UNCHANGED <<noEcho, dialled, pushing, nbMain, connected, handling, timers, broken>>
    BY <1>2 DEF FloodWrite
  <2>2. PICK c \in Conns : c = flooder[f]
    BY <1>0, <2>1 DEF NbShape
  <2>3. /\ flooder \in [Flooders -> Conns \cup {Nobody}] /\ away \in [Conns -> Nat] /\ c # Nobody
        /\ away' = [away EXCEPT ![c] = IF c \in broken THEN away[c] ELSE away[c] + 1]
    BY <1>0, <2>1, <2>2, ConnsAreFinite DEF NbShape, WriteMessage
  <2>4. NbShape'
    <3>1. away' \in [Conns -> Nat]
      BY <2>3
    <3>2. QED
      BY <1>0, <2>1, <2>3, <3>1 DEF NbShape
  <2>5. nbMain = "flood"
    BY <1>0, <2>1 DEF NbShape, StartUp
  <2>6. StartUp'
    BY <1>0, <2>1, <2>5 DEF StartUp
  <2>7. ASSUME noEcho' PROVE NeverTwice' /\ \A d \in Conns : Placed(d)'
    <3>1. NeverTwice /\ \A d \in Conns : Placed(d)
      BY <2>1, <2>7 DEF NbIInv
    <3>2. \A g \in Flooders : flooder[g] = c => g = f
      BY <2>2, <2>3, <3>1 DEF NeverTwice
    <3>3. ~WithFlood(c)' /\ WithFlood(c)
      BY <2>1, <2>2, <2>3, <3>2, ConnsAreFinite DEF WithFlood
    <3>4. ASSUME NEW d \in Conns, d # c PROVE WithFlood(d)' <=> WithFlood(d)
      BY <2>1, <2>2, <2>3, <3>4, ConnsAreFinite DEF WithFlood
    <3>5. ASSUME NEW d \in Conns PROVE Placed(d)' /\ (d = c => away[d] # 1)
      <4>1. PICK w \in {"none", "main", "channel", "flood", "away", "handling"} : Place(w, d)
        BY <3>1 DEF Placed
      <4>2. OnChannel(d)' <=> OnChannel(d)
        BY <2>1 DEF OnChannel
      <4>3. CASE d = c
        <5>1. w = "flood" /\ away[d] # 1
          BY <3>3, <4>1, <4>3 DEF Place
        <5>2. away[d] = 0 /\ away'[d] = IF d \in broken THEN 0 ELSE 1
          BY <2>3, <3>1, <4>3, <5>1 DEF NeverTwice
        <5>3. CASE d \notin broken
          <6>1. Place("away", d)'
            BY <2>1, <3>3, <4>1, <4>2, <4>3, <5>1, <5>2, <5>3 DEF Place
          <6>2. QED
            BY <5>1, <6>1 DEF Placed
        <5>4. CASE d \in broken
          <6>1. Place("none", d)'
            BY <2>1, <3>3, <4>1, <4>2, <4>3, <5>1, <5>2, <5>4 DEF Place
          <6>2. QED
            BY <5>1, <6>1 DEF Placed
        <5>5. QED
          BY <5>3, <5>4
      <4>4. CASE d # c
        <5>1. Place(w, d)'
          BY <2>1, <2>3, <3>4, <4>1, <4>2, <4>4 DEF Place
        <5>2. QED
          BY <4>4, <5>1 DEF Placed
      <4>5. QED
        BY <4>3, <4>4
    <3>6. NeverTwice'
      BY <2>1, <2>3, <3>1, <3>5 DEF NeverTwice
    <3>7. QED
      BY <3>5, <3>6
  <2>8. QED
    BY <2>4, <2>6, <2>7 DEF NbIInv
<1>3. QED
  BY <1>1, <1>2

(* OnMessage takes the echo of a message and puts its connection back; the *)
(* timers send a message again.                                            *)
LEMMA NbEchoStep ==
    ASSUME NbIInv, NEW c \in Conns, OnEcho(c) \/ OnEchoReturns(c) \/ NbTimer(c) PROVE NbIInv'
<1>0. NbShape /\ StartUp /\ noEcho \in BOOLEAN /\ c # Nobody
  BY ConnsAreFinite DEF NbIInv, NbShape
<1>1. CASE OnEcho(c)
  <2>1. /\ away[c] > 0 /\ c \notin handling /\ timers[c] < MaxTimers
        /\ away' = [away EXCEPT ![c] = @ - 1] /\ handling' = handling \cup {c}
        /\ timers' = [timers EXCEPT ![c] = IF noEcho THEN @ ELSE @ + 1]
        /\ UNCHANGED <<noEcho, dialled, pushing, nbMain, connected, flooder, broken>>
    BY <1>1 DEF OnEcho
  <2>2. away \in [Conns -> Nat] /\ timers \in [Conns -> Nat]
    BY <1>0 DEF NbShape
  <2>3. /\ timers' \in [Conns -> Nat] /\ \A d \in Conns : timers'[d] =< MaxTimers
        /\ noEcho => timers' = timers
    <3>1. CASE noEcho
      BY <1>0, <2>1, <2>2, <3>1 DEF NbShape
    <3>2. CASE ~noEcho
      <4>1. timers' = [timers EXCEPT ![c] = @ + 1]
        BY <2>1, <3>2
      <4>2. QED
        BY <1>0, <2>1, <2>2, <3>2, <4>1, TimersAreBounded DEF NbShape
    <3>3. QED
      BY <3>1, <3>2
  <2>4. NbShape'
    BY <1>0, <2>1, <2>2, <2>3 DEF NbShape
  <2>5. nbMain = "flood"
    BY <1>0, <2>1 DEF NbShape, StartUp
  <2>6. StartUp'
    BY <1>0, <2>1, <2>5 DEF StartUp
  <2>7. ASSUME noEcho' PROVE NeverTwice' /\ \A d \in Conns : Placed(d)'
    <3>1. NeverTwice /\ \A d \in Conns : Placed(d)
      BY <2>1, <2>7 DEF NbIInv
    <3>2. away[c] = 1 /\ away'[c] = 0
      BY <2>1, <2>2, <3>1 DEF NeverTwice
    <3>3. ASSUME NEW d \in Conns PROVE Placed(d)'
      <4>1. PICK w \in {"none", "main", "channel", "flood", "away", "handling"} : Place(w, d)
        BY <3>1 DEF Placed
      <4>2. (OnChannel(d)' <=> OnChannel(d)) /\ (WithFlood(d)' <=> WithFlood(d))
        BY <2>1 DEF OnChannel, WithFlood
      <4>3. CASE d = c
        <5>1. w = "away"
          BY <3>2, <4>1, <4>3 DEF Place
        <5>2. Place("handling", d)'
          BY <2>1, <3>2, <4>1, <4>2, <4>3, <5>1 DEF Place
        <5>3. QED
          BY <5>2 DEF Placed
      <4>4. CASE d # c
        <5>1. Place(w, d)'
          BY <2>1, <2>2, <4>1, <4>2, <4>4 DEF Place
        <5>2. QED
          BY <5>1 DEF Placed
      <4>5. QED
        BY <4>3, <4>4
    <3>4. NeverTwice'
      BY <2>1, <2>2, <2>3, <2>7, <3>1 DEF NeverTwice
    <3>5. QED
      BY <3>3, <3>4
  <2>8. QED
    BY <2>4, <2>6, <2>7 DEF NbIInv
<1>2. CASE OnEchoReturns(c)
  <2>1. /\ c \in handling /\ ~Full /\ Put(c) /\ handling' = handling \ {c}
        /\ UNCHANGED <<noEcho, dialled, pushing, nbMain, flooder, away, timers, broken>>
    BY <1>2 DEF OnEchoReturns
  <2>2. /\ connected' \in Seq(Conns) /\ Len(connected') = Len(connected) + 1
        /\ \A d : OnChannel(d)' <=> OnChannel(d) \/ d = c
        /\ ~OnChannel(c) /\ (\A i, j \in 1..Len(connected) : connected[i] = connected[j] => i = j)
              => \A i, j \in 1..Len(connected') : connected'[i] = connected'[j] => i = j
    BY <1>0, <2>1, PutAdds
  <2>3. Len(connected') =< Cardinality(Conns)
    BY <1>0, <2>1, <2>2, ConnsCounted DEF NbShape, Full
  <2>4. NbShape'
    BY <1>0, <2>1, <2>2, <2>3 DEF NbShape
  <2>5. nbMain = "flood"
    BY <1>0, <2>1 DEF NbShape, StartUp
  <2>6. StartUp'
    BY <1>0, <2>1, <2>5 DEF StartUp
  <2>7. ASSUME noEcho' PROVE NeverTwice' /\ \A d \in Conns : Placed(d)'
    <3>1. NeverTwice /\ \A d \in Conns : Placed(d)
      BY <2>1, <2>7 DEF NbIInv
    <3>2. ASSUME NEW d \in Conns PROVE Placed(d)' /\ (d = c => ~OnChannel(d))
      <4>1. PICK w \in {"none", "main", "channel", "flood", "away", "handling"} : Place(w, d)
        BY <3>1 DEF Placed
      <4>2. WithFlood(d)' <=> WithFlood(d)
        BY <2>1 DEF WithFlood
      <4>3. CASE d = c
        <5>1. w = "handling" /\ ~OnChannel(d)
          BY <2>1, <4>1, <4>3 DEF Place
        <5>2. Place("channel", d)'
          BY <2>1, <2>2, <4>1, <4>2, <4>3, <5>1 DEF Place
        <5>3. QED
          BY <5>1, <5>2 DEF Placed
      <4>4. CASE d # c
        <5>1. Place(w, d)'
          BY <2>1, <2>2, <4>1, <4>2, <4>4 DEF Place
        <5>2. QED
          BY <4>4, <5>1 DEF Placed
      <4>5. QED
        BY <4>3, <4>4
    <3>3. NeverTwice'
      <4>1. \A i, j \in 1..Len(connected') : connected'[i] = connected'[j] => i = j
        BY <2>2, <3>1, <3>2 DEF NeverTwice
      <4>2. QED
        BY <2>1, <3>1, <4>1, Zenon DEF NeverTwice
    <3>4. QED
      BY <3>2, <3>3
  <2>8. QED
    BY <2>4, <2>6, <2>7 DEF NbIInv
<1>3. CASE NbTimer(c)
  <2>1. /\ timers[c] > 0
        /\ timers' = [timers EXCEPT ![c] = @ - 1]
        /\ away' = [away EXCEPT ![c] = IF c \in broken THEN away[c] ELSE away[c] + 1]
        /\ UNCHANGED <<noEcho, dialled, pushing, nbMain, connected, flooder, handling, broken>>
    BY <1>3 DEF NbTimer, WriteMessage
  <2>2. away \in [Conns -> Nat] /\ timers \in [Conns -> Nat]
    BY <1>0 DEF NbShape
  <2>3. ~noEcho /\ nbMain = "flood"
    BY <1>0, <2>1, <2>2 DEF NbIInv, NeverTwice, StartUp
  <2>4. NbShape'
    <3>1. away' \in [Conns -> Nat]
      BY <2>1, <2>2
    <3>2. QED
      BY <1>0, <2>1, <2>2, <3>1, TimersAreBounded DEF NbShape
  <2>5. StartUp'
    BY <1>0, <2>1, <2>3 DEF StartUp
  <2>6. QED
    BY <2>1, <2>3, <2>4, <2>5 DEF NbIInv
<1>4. QED
  BY <1>1, <1>2, <1>3

(* A connection that breaks stays where it is, unless its message is lost. *)
LEMMA NbBreakStep ==
    ASSUME NbIInv, NEW c \in Conns, NbBreaks(c) PROVE NbIInv'
<1>0. NbShape /\ StartUp /\ noEcho \in BOOLEAN
  BY DEF NbIInv, NbShape
<1>1. /\ c \in dialled /\ broken' = broken \cup {c}
      /\ UNCHANGED <<noEcho, dialled, pushing, nbMain, connected, flooder, handling, timers>>
  BY DEF NbBreaks
<1>2. PICK n \in 0..away[c] : away' = [away EXCEPT ![c] = n]
  BY DEF NbBreaks
<1>3. away \in [Conns -> Nat] /\ n \in Nat /\ n =< away[c]
  BY <1>0 DEF NbShape
<1>4. NbShape'
  BY <1>0, <1>1, <1>2, <1>3 DEF NbShape
<1>5. StartUp'
  BY <1>0, <1>1, <1>2, <1>3 DEF StartUp
<1>6. ASSUME noEcho' PROVE NeverTwice' /\ \A d \in Conns : Placed(d)'
  <2>1. NeverTwice /\ \A d \in Conns : Placed(d)
    BY <1>1, <1>6 DEF NbIInv
  <2>2. ASSUME NEW d \in Conns PROVE Placed(d)'
    <3>1. PICK w \in {"none", "main", "channel", "flood", "away", "handling"} : Place(w, d)
      BY <2>1 DEF Placed
    <3>2. (OnChannel(d)' <=> OnChannel(d)) /\ (WithFlood(d)' <=> WithFlood(d))
      BY <1>1 DEF OnChannel, WithFlood
    <3>3. CASE d = c /\ w = "away" /\ n = 0
      <4>1. Place("none", d)'
        BY <1>1, <1>2, <1>3, <3>1, <3>2, <3>3 DEF Place
      <4>2. QED
        BY <4>1 DEF Placed
    <3>4. CASE ~(d = c /\ w = "away" /\ n = 0)
      <4>1. away'[d] = 1 <=> away[d] = 1
        BY <1>2, <1>3, <2>1, <3>1, <3>4 DEF Place, NeverTwice
      <4>2. Place(w, d)'
        BY <1>1, <3>1, <3>2, <4>1 DEF Place
      <4>3. QED
        BY <4>2 DEF Placed
    <3>5. QED
      BY <3>3, <3>4
  <2>3. NeverTwice'
    BY <1>1, <1>2, <1>3, <2>1 DEF NeverTwice
  <2>4. QED
    BY <2>2, <2>3
<1>7. QED
  BY <1>4, <1>5, <1>6 DEF NbIInv

(* The steps of main, of the floods and of OnMessage, and what breaks.     *)
LEMMA NbStep == NbIInv /\ NbNext => NbIInv'
<1> SUFFICES ASSUME NbIInv, NbNext PROVE NbIInv'
  OBVIOUS
<1>1. CASE \E f \in Flooders : FloodTake(f) \/ FloodWrite(f)
  BY <1>1, NbFloodStep
<1>2. CASE \E c \in Conns : OnEcho(c) \/ OnEchoReturns(c) \/ NbTimer(c) \/ NbBreaks(c)
  BY <1>2, NbEchoStep, NbBreakStep
<1>3. QED
  BY <1>1, <1>2, NbMainStep DEF NbNext

(* A connection has a token for each place that it is in. *)
LEMMA OneToken ==
    ASSUME NbShape, NeverTwice, NEW c \in Conns, Placed(c)
    PROVE  Tokens(c) \in IF c \notin dialled THEN {0} ELSE IF c \in broken THEN {0, 1} ELSE {1}
<1>1. PICK w \in {"none", "main", "channel", "flood", "away", "handling"} : Place(w, c)
  BY DEF Placed
<1>2. /\ w = "channel" => Cardinality(InChannel(c)) = 1
      /\ w # "channel" => Cardinality(InChannel(c)) = 0
  <2>1. CASE w = "channel"
    <3>1. PICK i \in 1..Len(connected) : connected[i] = c
      BY <1>1, <2>1 DEF Place, OnChannel
    <3>2. InChannel(c) = {i}
      BY <3>1 DEF InChannel, NeverTwice
    <3>3. QED
      BY <2>1, <3>2, FS_Singleton
  <2>2. CASE w # "channel"
    <3>1. InChannel(c) = {}
      BY <1>1, <2>2 DEF Place, OnChannel, InChannel
    <3>2. QED
      BY <2>2, <3>1, FS_EmptySet
  <2>3. QED
    BY <2>1, <2>2
<1>3. /\ w = "flood" => Cardinality(InFlood(c)) = 1
      /\ w # "flood" => Cardinality(InFlood(c)) = 0
  <2>1. CASE w = "flood"
    <3>1. PICK f \in Flooders : flooder[f] = c
      BY <1>1, <2>1 DEF Place, WithFlood
    <3>2. InFlood(c) = {f}
      BY <3>1, ConnsAreFinite DEF InFlood, NeverTwice
    <3>3. QED
      BY <2>1, <3>2, FS_Singleton
  <2>2. CASE w # "flood"
    <3>1. InFlood(c) = {}
      BY <1>1, <2>2 DEF Place, WithFlood, InFlood
    <3>2. QED
      BY <2>2, <3>1, FS_EmptySet
  <2>3. QED
    BY <2>1, <2>2
<1>4. (w = "away" => away[c] = 1) /\ (w # "away" => away[c] = 0)
  BY <1>1 DEF Place, NeverTwice, NbShape
<1>5. (w = "handling" => One(c \in handling) = 1) /\ (w # "handling" => One(c \in handling) = 0)
  BY <1>1 DEF Place, One
<1>6. (w = "main" => One(pushing = c) = 1) /\ (w # "main" => One(pushing = c) = 0)
  BY <1>1 DEF Place, One
<1>7. (w = "none" => c \notin dialled \/ c \in broken) /\ (w # "none" => c \in dialled)
  BY <1>1 DEF Place
<1>8. QED
  BY <1>1, <1>2, <1>3, <1>4, <1>5, <1>6, <1>7 DEF Tokens

(* An OnMessage that is being run holds a token that is not in the         *)
(* channel: by the pigeon hole principle the channel is not full.          *)
LEMMA RoomForHandler ==
    ASSUME NbShape, NeverTwice, NEW c \in Conns, Placed(c), c \in handling
    PROVE  ~Full
<1>1. PICK w \in {"none", "main", "channel", "flood", "away", "handling"} : Place(w, c)
  BY DEF Placed
<1>2. ~OnChannel(c)
  BY <1>1 DEF Place
<1>3. connected \in Seq(Conns) /\ Len(connected) \in Nat
  BY DEF NbShape
<1>4. IsFiniteSet(Conns \ {c}) /\ Cardinality(Conns \ {c}) = Cardinality(Conns) - 1
  BY ConnsAreFinite, FS_RemoveElement
<1>5. IsFiniteSet(1..Len(connected)) /\ Cardinality(1..Len(connected)) = Len(connected)
  BY <1>3, FS_Interval, SMTT(30)
<1>6. SUFFICES ASSUME Full PROVE FALSE
  OBVIOUS
<1>7. Cardinality(Conns \ {c}) < Cardinality(1..Len(connected))
  BY <1>3, <1>4, <1>5, <1>6, ConnsCounted DEF Full
<1>8. connected \in [1..Len(connected) -> Conns \ {c}]
  <2>1. \A i \in 1..Len(connected) : connected[i] \in Conns \ {c}
    BY <1>2, <1>3 DEF OnChannel
  <2>2. connected \in [1..Len(connected) -> Conns]
    BY <1>3
  <2>3. QED
    BY <2>1, <2>2
<1>9. \E i, j \in 1..Len(connected) : i # j /\ connected[i] = connected[j]
  BY <1>4, <1>5, <1>7, <1>8, FS_PigeonHole
<1>10. QED
  BY <1>9 DEF NeverTwice

(* Types, one token for each connection, and room for every send of        *)
(* main's.                                                                 *)
LEMMA NbSafe == NbIInv => NbTypeOK /\ StartUpIsSound
<1> SUFFICES ASSUME NbIInv PROVE NbTypeOK /\ StartUpIsSound
  OBVIOUS
<1>0. NbShape /\ StartUp
  BY DEF NbIInv
<1>1. NbTypeOK
  <2>1. timers \in [Conns -> 0..MaxTimers]
    <3>1. \A S : (\A c \in Conns : timers[c] \in S) => timers \in [Conns -> S]
      BY <1>0 DEF NbShape
    <3>2. \A c \in Conns : timers[c] \in 0..MaxTimers
      BY <1>0, TimersAreBounded DEF NbShape
    <3>3. QED
      BY <3>1, <3>2, Zenon
  <2>2. QED
    BY <1>0, <2>1 DEF NbShape, NbTypeOK
<1>2. TokensKept
  <2>1. ASSUME noEcho, NEW c \in Conns 
        PROVE  Tokens(c) \in IF c \notin dialled THEN {0} ELSE IF c \in broken THEN {0, 1} ELSE {1}
    BY <1>0, <2>1, OneToken DEF NbIInv
  <2>2. ASSUME noEcho, handling # {} PROVE ~Full
    <3>1. PICK c \in Conns : c \in handling
      BY <1>0, <2>2 DEF NbShape
    <3>2. QED
      BY <1>0, <2>2, <3>1, RoomForHandler DEF NbIInv
  <2>3. QED
    BY <2>1, <2>2 DEF TokensKept
<1>3. StartUpNeverBlocks
  <2>1. SUFFICES ASSUME nbMain = "push" PROVE ~Full
    BY DEF StartUpNeverBlocks
  <2>2. Len(connected) + 1 = Cardinality(dialled) /\ Len(connected) \in Nat /\ dialled \in SUBSET Conns
    BY <1>0, <2>1 DEF StartUp, NbShape
  <2>3. QED
    BY <2>2, ConnsCounted DEF Full
<1>4. QED
  BY <1>1, <1>2, <1>3 DEF StartUpIsSound

-----------------------------------------------------------------------------
(* TlsRing: a later version of TLS makes one record of the message, and it *)
(* is on its way to the server or to the client.  With TLS 1.0, which only *)
(* client_std speaks, the records get smaller; what the client has not yet *)
(* read of the message is all on its way, in order.                        *)
RingShape ==
    /\ ring \in {"tls_bench", "tls", "client_std"} /\ version \in {"1.0", "later"}
    /\ version = "1.0" => ring = "client_std"
    /\ link \in {"dial", "added", "written"}
    /\ toEcho \in Records /\ toRing \in Records /\ raw = <<>> /\ Buffer \in Nat /\ Buffer < bufsize

OneRecord ==
    /\ Buffer = 0
    /\ (toEcho = <<bufsize>> /\ toRing = <<>>) \/ (toEcho = <<>> /\ toRing = <<bufsize>>)

RingIInv ==
    /\ RingShape
    /\ link # "written" => toEcho = <<>> /\ toRing = <<>> /\ Buffer = 0
    /\ link = "written" => Carry(toRing \o toEcho, Buffer) /\ (version = "later" => OneRecord)

(* The cuts of some records, as a function and what it returns.            *)
LEMMA CarryIsCut ==
    ASSUME NEW s \in Records, NEW begin
    PROVE  Carry(s, begin) <=>
             \E cut : /\ cut = [i \in 0..Len(s) |-> cut[i]]
                      /\ \A i \in 0..Len(s) : cut[i] \in Nat /\ cut[i] =< bufsize
                      /\ Cuts(cut, s, begin)
<1>1. \A x : x \in Positions <=> x \in Nat /\ x =< bufsize
  BY MessageIsSmall DEF Positions
<1>2. \A cut : cut \in [0..Len(s) -> Positions]
                 <=> cut = [i \in 0..Len(s) |-> cut[i]] /\ \A i \in 0..Len(s) : cut[i] \in Positions
  OBVIOUS
<1>3. QED
  BY <1>1, <1>2 DEF Carry

(* The elements of sequences of records, their rests and concatenations.   *)
LEMMA RecordsElements ==
    \A s \in Records : /\ Len(s) \in Nat
                       /\ \A i \in 1..Len(s) : s[i] \in Nat \ {0} /\ s[i] =< bufsize
                       /\ s # <<>> => /\ Len(s) \in Nat \ {0} /\ Head(s) = s[1]
                                      /\ Tail(s) \in Records /\ Len(Tail(s)) = Len(s) - 1
                                      /\ \A i \in 1..Len(Tail(s)) : Tail(s)[i] = s[i + 1]
<1>1. PICK S : Records = Seq(S) /\ \A x \in S : x \in Nat \ {0} /\ x =< bufsize
  <2>1. \A x \in 1..bufsize : x \in Nat \ {0} /\ x =< bufsize
    BY MessageIsSmall
  <2>2. QED
    BY <2>1 DEF Records
<1>2. QED
  BY <1>1

(* Records joined to records, their number and the first of them.          *)
LEMMA RecordsJoined ==
    \A s, t \in Records : /\ s \o t \in Records /\ Len(s \o t) = Len(s) + Len(t)
                          /\ \A i \in 1..Len(s) : (s \o t)[i] = s[i]
                          /\ \A i \in 1..Len(t) : (s \o t)[Len(s) + i] = t[i]
<1>1. PICK S : Records = Seq(S)
  BY DEF Records
<1>2. SUFFICES ASSUME NEW s \in Seq(S), NEW t \in Seq(S)
               PROVE  /\ s \o t \in Seq(S) /\ Len(s \o t) = Len(s) + Len(t)
                      /\ \A i \in 1..Len(s) : (s \o t)[i] = s[i]
                      /\ \A i \in 1..Len(t) : (s \o t)[Len(s) + i] = t[i]
  BY <1>1
<1>3. QED
  BY ConcatProperties

(* A whole message in one record, and in two. *)
LEMMA WholeCarried == Carry(<<bufsize>>, 0) /\ (bufsize > 1 => Carry(<<1, bufsize - 1>>, 0))
<1>1. <<bufsize>> \in Records /\ Len(<<bufsize>>) = 1 /\ <<bufsize>>[1] = bufsize
  BY MessageIsSmall DEF Records
<1>2. Carry(<<bufsize>>, 0)
  <2> DEFINE cut == [i \in 0..1 |-> IF i = 0 THEN 0 ELSE bufsize]
  <2>1. \A i \in 0..1 : cut[i] \in Nat /\ cut[i] =< bufsize
    BY MessageIsSmall
  <2>2. Cuts(cut, <<bufsize>>, 0)
    BY <1>1, MessageIsSmall DEF Cuts
  <2>3. cut = [i \in 0..1 |-> cut[i]]
    OBVIOUS
  <2> HIDE DEF cut
  <2>4. QED
    BY <1>1, <2>1, <2>2, <2>3, CarryIsCut
<1>3. ASSUME bufsize > 1 PROVE Carry(<<1, bufsize - 1>>, 0)
  <2> DEFINE t == <<1, bufsize - 1>>
  <2>1. t \in Records /\ Len(t) = 2 /\ t[1] = 1 /\ t[2] = bufsize - 1
    BY <1>3, MessageIsSmall DEF Records
  <2> HIDE DEF t
  <2> DEFINE cut == [i \in 0..2 |-> IF i = 0 THEN 0 ELSE IF i = 1 THEN 1 ELSE bufsize]
  <2>2. \A i \in 0..2 : cut[i] \in Nat /\ cut[i] =< bufsize
    BY <1>3, MessageIsSmall
  <2>3. Cuts(cut, t, 0)
    BY <2>1, MessageIsSmall DEF Cuts
  <2>4. cut = [i \in 0..2 |-> cut[i]]
    OBVIOUS
  <2> HIDE DEF cut
  <2>5. Carry(t, 0)
    BY <2>1, <2>2, <2>3, <2>4, CarryIsCut
  <2>6. QED
    BY <2>5 DEF t
<1>4. QED
  BY <1>2, <1>3

(* The first record ends inside the message and the others carry on from   *)
(* there, or it is the only one.                                           *)
LEMMA FirstRead ==
    ASSUME NEW s \in Records, s # <<>>, NEW begin \in Nat, Carry(s, begin)
    PROVE  /\ begin + s[1] =< bufsize /\ s[1] \in Nat \ {0}
           /\ begin + s[1] < bufsize => Carry(Tail(s), begin + s[1])
           /\ ~(begin + s[1] < bufsize) => Len(s) = 1
<1>1. PICK cut : /\ cut = [i \in 0..Len(s) |-> cut[i]]
                 /\ \A i \in 0..Len(s) : cut[i] \in Nat /\ cut[i] =< bufsize
                 /\ Cuts(cut, s, begin)
  BY CarryIsCut
<1>2. /\ Len(s) \in Nat \ {0} /\ Tail(s) \in Records /\ Len(Tail(s)) = Len(s) - 1
      /\ \A i \in 1..Len(Tail(s)) : Tail(s)[i] = s[i + 1]
      /\ \A i \in 1..Len(s) : s[i] \in Nat \ {0}
  BY MessageIsSmall DEF Records
<1>3. cut[0] = begin /\ cut[Len(s)] = bufsize /\ \A i \in 1..Len(s) : cut[i] = cut[i - 1] + s[i]
  BY <1>1 DEF Cuts
<1>4. cut[1] = begin + s[1] /\ cut[1] =< bufsize /\ s[1] \in Nat \ {0}
  BY <1>1, <1>2, <1>3, SMTT(30)
<1>5. ASSUME ~(begin + s[1] < bufsize) PROVE Len(s) = 1
  <2>1. SUFFICES ASSUME Len(s) > 1 PROVE FALSE
    BY <1>2
  <2>2. 2 \in 1..Len(s) /\ 2 \in 0..Len(s) /\ 2 - 1 = 1
    BY <1>2, <2>1
  <2>3. cut[2] = cut[1] + s[2] /\ cut[2] \in Nat /\ cut[2] =< bufsize /\ s[2] \in Nat \ {0}
    BY <1>1, <1>2, <1>3, <2>2
  <2>4. QED
    BY <1>4, <1>5, <2>3, MessageIsSmall
<1>6. Carry(Tail(s), begin + s[1])
  <2> DEFINE next == [i \in 0..Len(Tail(s)) |-> cut[i + 1]]
  <2>1. \A i \in 0..Len(Tail(s)) : next[i] \in Nat /\ next[i] =< bufsize
    BY <1>1, <1>2
  <2>2. Cuts(next, Tail(s), begin + s[1])
    <3>1. next[0] = begin + s[1] /\ next[Len(Tail(s))] = bufsize
      BY <1>2, <1>3, <1>4
    <3>2. \A i \in 1..Len(Tail(s)) : next[i] = next[i - 1] + Tail(s)[i]
      BY <1>2, <1>3
    <3>3. QED
      BY <3>1, <3>2 DEF Cuts
  <2>3. next = [i \in 0..Len(Tail(s)) |-> next[i]]
    OBVIOUS
  <2> HIDE DEF next
  <2>4. QED
    BY <1>2, <2>1, <2>2, <2>3, CarryIsCut
<1>7. QED
  BY <1>4, <1>5, <1>6

(* A record in the middle that is sent on as two: one more cut. *)
LEMMA SplitCarried ==
    ASSUME NEW r \in Records, NEW e \in Records, e # <<>>, Head(e) > 1, NEW begin \in Nat, Carry(r \o e, begin)
    PROVE  Carry((r \o <<1, Head(e) - 1>>) \o Tail(e), begin)
<1> DEFINE s == r \o e
           two == <<1, Head(e) - 1>>
           t == (r \o two) \o Tail(e)
           j == Len(r)
<1>1. /\ j \in Nat /\ Len(e) \in Nat \ {0} /\ Head(e) = e[1] /\ e[1] \in 1..bufsize /\ e[1] > 1
      /\ Tail(e) \in Records /\ Len(Tail(e)) = Len(e) - 1
      /\ \A i \in 1..Len(Tail(e)) : Tail(e)[i] = e[i + 1]
  BY RecordsElements, MessageIsSmall
<1>2. two \in Records /\ Len(two) = 2 /\ two[1] = 1 /\ two[2] = e[1] - 1
  <2>1. 1 \in 1..bufsize /\ Head(e) - 1 \in 1..bufsize
    BY <1>1, MessageIsSmall
  <2>2. \A S : \A x, y \in S : <<x, y>> \in Seq(S)
    OBVIOUS
  <2>3. two \in Records
    BY <2>1, <2>2, Zenon DEF Records
  <2>4. QED
    BY <1>1, <2>3
<1> HIDE DEF two
<1>3. /\ s \in Records /\ Len(s) = j + Len(e)
      /\ \A i \in 1..j : s[i] = r[i]
      /\ s[j + 1] = e[1]
      /\ \A i \in 1..Len(Tail(e)) : s[j + 1 + i] = Tail(e)[i]
  <2>1. /\ s \in Records /\ Len(s) = j + Len(e) /\ \A i \in 1..j : s[i] = r[i]
        /\ \A i \in 1..Len(e) : s[j + i] = e[i]
    BY RecordsJoined
  <2>2. \A i \in 1..Len(Tail(e)) : i + 1 \in 1..Len(e) /\ j + (i + 1) = j + 1 + i
    BY <1>1
  <2>3. QED
    BY <1>1, <2>1, <2>2
<1>4. /\ r \o two \in Records /\ Len(r \o two) = j + 2
      /\ \A i \in 1..j : (r \o two)[i] = r[i]
      /\ (r \o two)[j + 1] = 1 /\ (r \o two)[j + 2] = e[1] - 1
  <2>1. /\ r \o two \in Records /\ Len(r \o two) = j + Len(two) /\ \A i \in 1..j : (r \o two)[i] = r[i]
        /\ \A i \in 1..Len(two) : (r \o two)[j + i] = two[i]
    BY <1>2, RecordsJoined
  <2>2. 1 \in 1..Len(two) /\ 2 \in 1..Len(two)
    BY <1>2
  <2>3. QED
    BY <1>2, <2>1, <2>2
<1>5. /\ t \in Records /\ Len(t) = j + 2 + Len(Tail(e))
      /\ \A i \in 1..j : t[i] = r[i]
      /\ t[j + 1] = 1 /\ t[j + 2] = e[1] - 1
      /\ \A i \in 1..Len(Tail(e)) : t[j + 2 + i] = Tail(e)[i]
  <2> DEFINE q == r \o two
  <2>1. q \in Records /\ t = q \o Tail(e)
    BY <1>4
  <2>2. /\ t \in Records /\ Len(t) = Len(q) + Len(Tail(e)) /\ \A i \in 1..Len(q) : t[i] = q[i]
        /\ \A i \in 1..Len(Tail(e)) : t[Len(q) + i] = Tail(e)[i]
    BY <1>1, <2>1, RecordsJoined
  <2>3. Len(q) = j + 2 /\ (\A i \in 1..j : q[i] = r[i] /\ i \in 1..Len(q))
        /\ q[j + 1] = 1 /\ q[j + 2] = e[1] - 1 /\ j + 1 \in 1..Len(q) /\ j + 2 \in 1..Len(q)
    BY <1>1, <1>4
  <2> HIDE DEF q, t
  <2>4. QED
    BY <2>2, <2>3
<1> HIDE DEF s, t, j
<1>6. PICK cut : /\ cut = [i \in 0..Len(s) |-> cut[i]]
                 /\ \A i \in 0..Len(s) : cut[i] \in Nat /\ cut[i] =< bufsize
                 /\ Cuts(cut, s, begin)
  BY <1>3, CarryIsCut DEF s
<1>7. cut[0] = begin /\ cut[Len(s)] = bufsize /\ \A i \in 1..Len(s) : cut[i] = cut[i - 1] + s[i]
  BY <1>6 DEF Cuts
<1> DEFINE next == [i \in 0..Len(t) |-> IF i =< j THEN cut[i] ELSE IF i = j + 1 THEN cut[j] + 1 ELSE cut[i - 1]]
<1>8. Len(t) = Len(s) + 1 /\ Len(s) \in Nat /\ j + 1 =< Len(s) /\ cut[j + 1] = cut[j] + e[1]
  <2>1. Len(t) = Len(s) + 1 /\ Len(s) \in Nat /\ j + 1 =< Len(s)
    BY <1>1, <1>3, <1>5
  <2>2. j + 1 \in 1..Len(s) /\ (j + 1) - 1 = j
    BY <1>1, <2>1
  <2>3. QED
    BY <1>3, <1>7, <2>1, <2>2
<1>16. /\ \A i \in 0..j : i \in 0..Len(t) /\ next[i] = cut[i]
       /\ next[j + 1] = cut[j] + 1
       /\ \A i \in (j + 2)..Len(t) : next[i] = cut[i - 1] /\ i - 1 \in 0..Len(s)
       /\ next = [i \in 0..Len(t) |-> next[i]]
  BY <1>1, <1>8
<1>17. /\ cut[j] \in Nat /\ cut[j + 1] \in Nat /\ cut[j + 1] =< bufsize
       /\ \A i \in 0..j : cut[i] \in Nat /\ cut[i] =< bufsize
  BY <1>1, <1>6, <1>8
<1> HIDE DEF next
<1>9. \A i \in 0..Len(t) : next[i] \in Nat /\ next[i] =< bufsize
  <2>1. SUFFICES ASSUME NEW i \in 0..Len(t) PROVE next[i] \in Nat /\ next[i] =< bufsize
    OBVIOUS
  <2>2. CASE i \in 0..j
    BY <1>16, <1>17, <2>2
  <2>3. CASE i = j + 1
    BY <1>1, <1>8, <1>16, <1>17, <2>3, MessageIsSmall, SMTT(30)
  <2>4. CASE i \in (j + 2)..Len(t)
    BY <1>6, <1>16, <2>4
  <2>5. QED
    BY <1>1, <1>8, <2>2, <2>3, <2>4
<1>10. \A i \in 1..Len(t) : next[i] = next[i - 1] + t[i]
  <2>1. SUFFICES ASSUME NEW i \in 1..Len(t) PROVE next[i] = next[i - 1] + t[i]
    OBVIOUS
  <2>2. CASE i =< j
    <3>1. i \in 0..j /\ i - 1 \in 0..j /\ i \in 1..Len(s) /\ i \in 1..j
      BY <1>1, <1>8, <2>2
    <3>2. t[i] = s[i] /\ cut[i] = cut[i - 1] + s[i]
      BY <1>3, <1>5, <1>7, <3>1
    <3>3. QED
      BY <1>16, <3>1, <3>2
  <2>3. CASE i = j + 1
    <3>1. i - 1 = j /\ j \in 0..j
      BY <1>1, <2>3
    <3>2. QED
      BY <1>5, <1>16, <2>3, <3>1
  <2>4. CASE i = j + 2
    <3>1. i - 1 = j + 1 /\ i \in (j + 2)..Len(t)
      BY <1>1, <1>8, <2>4
    <3>2. next[i] = cut[j + 1] /\ next[i - 1] = cut[j] + 1
      BY <1>16, <3>1
    <3>3. t[i] = e[1] - 1
      BY <1>5, <2>4
    <3>4. cut[j] \in Nat /\ e[1] \in Nat /\ cut[j + 1] = cut[j] + e[1]
      BY <1>1, <1>8, <1>17, MessageIsSmall
    <3>5. cut[j] + e[1] = (cut[j] + 1) + (e[1] - 1)
      BY <3>4
    <3>6. QED
      BY <3>2, <3>3, <3>4, <3>5
  <2>5. CASE i > j + 2
    <3>1. i - (j + 2) \in 1..Len(Tail(e)) /\ i - 1 \in 1..Len(s)
      BY <1>1, <1>5, <1>8, <2>5
    <3>2. t[i] = s[i - 1]
      <4>1. t[j + 2 + (i - (j + 2))] = s[j + 1 + (i - (j + 2))]
        BY <1>3, <1>5, <3>1
      <4>2. j + 2 + (i - (j + 2)) = i /\ j + 1 + (i - (j + 2)) = i - 1
        BY <1>1
      <4>3. QED
        BY <4>1, <4>2
    <3>3. next[i] = cut[i - 1] /\ next[i - 1] = cut[i - 2]
      <4>1. i \in (j + 2)..Len(t) /\ i - 1 \in (j + 2)..Len(t) /\ (i - 1) - 1 = i - 2
        BY <1>1, <1>8, <2>5
      <4>2. QED
        BY <1>16, <4>1
    <3>4. cut[i - 1] = cut[i - 1 - 1] + s[i - 1] /\ i - 1 - 1 = i - 2
      BY <1>7, <3>1
    <3>5. QED
      BY <3>2, <3>3, <3>4
  <2>6. QED
    BY <1>1, <2>2, <2>3, <2>4, <2>5
<1>11. next[0] = begin /\ next[Len(t)] = bufsize
  <2>1. 0 \in 0..j /\ Len(t) \in (j + 2)..Len(t) /\ Len(t) - 1 = Len(s)
    BY <1>1, <1>8
  <2>2. QED
    BY <1>7, <1>16, <2>1
<1>12. next = [i \in 0..Len(t) |-> next[i]]
  BY <1>16
<1>13. Cuts(next, t, begin)
  BY <1>10, <1>11 DEF Cuts
<1>14. Carry(t, begin)
  BY <1>5, <1>9, <1>12, <1>13, CarryIsCut
<1>15. QED
  BY <1>14 DEF t, two

(* What RecordsOf makes of a message, and of a record on its way.          *)
LEMMA RecordsMade ==
    ASSUME RingShape
    PROVE  /\ RecordsOf(bufsize) \in Records /\ Carry(RecordsOf(bufsize), 0)
           /\ version = "later" => \A n : RecordsOf(n) = <<n>>
<1>1. bufsize \in 1..bufsize /\ (bufsize > 1 => 1 \in 1..bufsize /\ bufsize - 1 \in 1..bufsize)
  BY MessageIsSmall
<1>2. \A S : \A x, y \in S : <<x, y>> \in Seq(S) /\ <<x>> \in Seq(S)
  OBVIOUS
<1>3. <<bufsize>> \in Records /\ (bufsize > 1 => <<1, bufsize - 1>> \in Records)
  BY <1>1, <1>2, Zenon DEF Records
<1>4. QED
  BY <1>3, WholeCarried DEF RecordsOf

(* Nothing is on its way from nothing. *)
LEMMA NothingJoined == <<>> \in Records /\ \A s \in Records : s \o <<>> = s /\ <<>> \o s = s
<1>1. PICK S : Records = Seq(S)
  BY DEF Records
<1>2. QED
  BY <1>1, ConcatEmptySeq

(* Nothing has been written.                                               *)
LEMMA RingInitial == TlsRingInit => RingIInv
<1> SUFFICES ASSUME TlsRingInit PROVE RingIInv
  OBVIOUS
<1>1. version \in {"1.0", "later"} /\ (version = "1.0" => ring = "client_std")
  BY DEF TlsRingInit, Versions
<1>2. QED
  BY <1>1, NothingJoined, MessageIsSmall DEF TlsRingInit, RingIInv, RingShape

(* The client's goroutine, and the server's echo of a record.              *)
LEMMA RingServerStep == RingIInv /\ (RingConnects \/ RingWrites \/ RingEcho) => RingIInv'
<1> SUFFICES ASSUME RingIInv, RingConnects \/ RingWrites \/ RingEcho PROVE RingIInv'
  OBVIOUS
<1>0. RingShape
  BY DEF RingIInv
<1>1. CASE RingConnects
  BY <1>0, <1>1 DEF RingConnects, RingIInv, RingShape
<1>2. CASE RingWrites
  <2>1. /\ link = "added" /\ link' = "written" /\ toEcho' = RecordsOf(bufsize)
        /\ UNCHANGED <<ring, version, toRing, raw, Buffer>>
    BY <1>2 DEF RingWrites
  <2>2. toRing = <<>> /\ Buffer = 0
    BY <2>1 DEF RingIInv
  <2>3. /\ toEcho' \in Records /\ Carry(toEcho', 0)
        /\ version = "later" => toEcho' = <<bufsize>>
    BY <1>0, <2>1, RecordsMade
  <2>4. toRing' \o toEcho' = toEcho'
    BY <2>1, <2>2, <2>3, NothingJoined
  <2>5. QED
    BY <1>0, <2>1, <2>2, <2>3, <2>4 DEF RingIInv, RingShape, OneRecord
<1>3. CASE RingEcho
  <2>1. /\ toEcho # <<>> /\ toEcho' = Tail(toEcho) /\ toRing' = toRing \o RecordsOf(Head(toEcho))
        /\ UNCHANGED <<ring, version, link, raw, Buffer>>
    BY <1>3 DEF RingEcho
  <2>2. link = "written" /\ Carry(toRing \o toEcho, Buffer) /\ (version = "later" => OneRecord)
    BY <2>1 DEF RingIInv
  <2> DEFINE h == Head(toEcho)
  <2>3. /\ toEcho \in Records /\ toRing \in Records /\ Buffer \in Nat
        /\ Tail(toEcho) \in Records /\ h = toEcho[1] /\ h \in Nat \ {0} /\ h =< bufsize
        /\ Len(toEcho) \in Nat \ {0} /\ Len(Tail(toEcho)) = Len(toEcho) - 1
        /\ \A i \in 1..Len(Tail(toEcho)) : Tail(toEcho)[i] = toEcho[i + 1]
    BY <1>0, <2>1, RecordsElements DEF RingShape
  <2>4. CASE version = "1.0" /\ h > 1
    <3>1. RecordsOf(h) = <<1, h - 1>>
      BY <2>4 DEF RecordsOf
    <3>2. toRing' = toRing \o <<1, Head(toEcho) - 1>> /\ Head(toEcho) > 1
      BY <2>1, <2>4, <3>1
    <3>3. Carry(toRing' \o toEcho', Buffer)
      BY <2>1, <2>2, <2>3, <3>2, SplitCarried
    <3>4. toRing' \in Records
      <4>1. 1 \in 1..bufsize /\ h - 1 \in 1..bufsize
        BY <2>3, <2>4, MessageIsSmall
      <4>2. \A S : \A x, y \in S : <<x, y>> \in Seq(S)
        OBVIOUS
      <4>3. <<1, h - 1>> \in Records
        BY <4>1, <4>2, Zenon DEF Records
      <4>4. QED
        BY <2>3, <3>2, <4>3, RecordsJoined
    <3>5. QED
      BY <1>0, <2>1, <2>2, <2>3, <2>4, <3>3, <3>4 DEF RingIInv, RingShape
  <2>5. CASE ~(version = "1.0" /\ h > 1)
    <3>1. toRing' = toRing \o <<h>>
      BY <2>1, <2>5 DEF RecordsOf
    <3>2. <<h>> \in Records
      <4>1. h \in 1..bufsize
        BY <2>3, MessageIsSmall
      <4>2. \A S : \A x \in S : <<x>> \in Seq(S)
        OBVIOUS
      <4>3. QED
        BY <4>1, <4>2, Zenon DEF Records
    <3>3. toRing' \in Records
      BY <2>3, <3>1, <3>2, RecordsJoined
    <3>4. toEcho = <<h>> \o Tail(toEcho)
      <4>1. PICK S : Records = Seq(S)
        BY DEF Records
      <4>2. QED
        BY <2>1, <2>3, <4>1
    <3>5. toRing' \o toEcho' = toRing \o toEcho
      <4>1. PICK S : Records = Seq(S)
        BY DEF Records
      <4>2. (toRing \o <<h>>) \o Tail(toEcho) = toRing \o (<<h>> \o Tail(toEcho))
        BY <2>3, <3>2, <4>1, ConcatAssociative, SMTT(30)
      <4>3. QED
        BY <2>1, <3>1, <3>4, <4>2, Zenon
    <3>6. version = "later" => OneRecord'
      <4>1. SUFFICES ASSUME version = "later" PROVE OneRecord'
        OBVIOUS
      <4>2. toEcho = <<bufsize>> /\ toRing = <<>> /\ Buffer = 0
        BY <2>1, <2>2, <4>1 DEF OneRecord
      <4>3. h = bufsize /\ Tail(toEcho) = <<>>
        BY <4>2
      <4>4. toRing' = <<bufsize>> /\ toEcho' = <<>>
        BY <2>1, <3>1, <3>2, <4>2, <4>3, NothingJoined
      <4>5. QED
        BY <2>1, <4>2, <4>4 DEF OneRecord
    <3>7. Carry(toRing' \o toEcho', Buffer')
      BY <2>1, <2>2, <3>5
    <3>8. QED
      BY <1>0, <2>1, <2>2, <2>3, <3>3, <3>6, <3>7 DEF RingIInv, RingShape
  <2>6. QED
    BY <2>4, <2>5
<1>4. QED
  BY <1>1, <1>2, <1>3

(* A sequence of one sequence, flattened.                                  *)
LEMMA FlattenOne == ASSUME NEW x PROVE FlattenSeq([m \in 1..1 |-> x]) = x
<1> DEFINE q == [m \in 1..1 |-> x]
           Def(f) == f = [i \in 1..Len(q) |-> IF i = 1 THEN q[i] ELSE f[i - 1] \o q[i]]
           g == [i \in 1..Len(q) |-> x]
<1>1. Len(q) = 1 /\ q[1] = x
  OBVIOUS
<1>2. \A f : f[1] = x => [i \in 1..Len(q) |-> IF i = 1 THEN q[i] ELSE f[i - 1] \o q[i]] = g
  BY <1>1
<1>3. g[1] = x
  BY <1>1
<1>4. Def(g)
  BY <1>2, <1>3
<1> HIDE DEF g, q
<1>5. Def(CHOOSE f : Def(f))
  BY <1>4, Zenon
<1>6. (CHOOSE f : Def(f))[1] = x
  <2> DEFINE f == CHOOSE h : Def(h)
  <2>1. f = [i \in 1..Len(q) |-> IF i = 1 THEN q[i] ELSE f[i - 1] \o q[i]]
    BY <1>5
  <2>2. 1 \in 1..Len(q)
    BY <1>1
  <2> HIDE DEF f
  <2>3. f[1] = x
    BY <1>1, <2>1, <2>2
  <2>4. QED
    BY <2>3, SMTT(30) DEF f
<1>7. FlattenSeq(q) = (CHOOSE f : Def(f))[Len(q)]
  <2>1. Len(q) # 0
    BY <1>1
  <2>2. QED
    BY <2>1, Zenon DEF FlattenSeq
<1>8. QED
  BY <1>1, <1>6, <1>7 DEF q

(* The clients on nbio, which speak a later version: the record that is on *)
(* its way to the client is the message, and the next one is written.      *)
LEMMA RingClientStep == RingIInv /\ (wrapData \/ HelloOnData) => RingIInv'
<1> SUFFICES ASSUME RingIInv, wrapData \/ HelloOnData PROVE RingIInv'
  OBVIOUS
<1>0. RingShape
  BY DEF RingIInv
<1>1. toRing # <<>> /\ UNCHANGED <<ring, version>> /\ version = "later" /\ raw = <<>>
  <2>1. toRing # <<>>
    <3>1. CASE wrapData
      <4>1. PICK k \in 1..Len(toRing) : TRUE
        BY <3>1 DEF wrapData
      <4>2. 1..Len(<<>>) = {}
        OBVIOUS
      <4>3. QED
        BY <4>1, <4>2, SMTT(30)
    <3>2. CASE HelloOnData
      BY <3>2 DEF HelloOnData
    <3>3. QED
      BY <3>1, <3>2
  <2>2. ring \in {"tls_bench", "tls"} /\ UNCHANGED <<ring, version>>
    BY Zenon DEF wrapData, HelloOnData
  <2>3. QED
    BY <1>0, <2>1, <2>2 DEF RingShape
<1>2. link = "written" /\ OneRecord
  BY <1>1 DEF RingIInv
<1>3. Buffer = 0 /\ toEcho = <<>> /\ toRing = <<bufsize>>
  BY <1>1, <1>2 DEF OneRecord
<1>4. RecordsOf(bufsize) = <<bufsize>> /\ <<bufsize>> \in Records /\ Carry(<<bufsize>>, 0)
  BY <1>0, <1>1, RecordsMade
<1>5. toRing' = <<>> /\ toEcho' = <<bufsize>> /\ Buffer' = 0 /\ raw' = <<>> /\ link' = "written"
  <2>1. CASE wrapData
    <3>1. PICK k \in 1..Len(toRing) :
             /\ toRing' = SubSeq(toRing, k + 1, Len(toRing))
             /\ \E all \in {raw \o SubSeq(toRing, 1, k)} :
                   /\ raw' = Tail(all)
                   /\ \E taken \in {TakeMessages(Buffer + Head(all))} :
                         /\ Buffer' = taken.rest
                         /\ toEcho' = toEcho \o FlattenSeq([m \in 1..taken.messages |-> RecordsOf(bufsize)])
      BY <2>1 DEF wrapData
    <3>2. k = 1 /\ Len(toRing) = 1
      BY <1>3
    <3>3. SubSeq(toRing, 1, 1) = <<bufsize>> /\ SubSeq(toRing, 2, 1) = <<>>
      <4>1. \A b : <<b>> \in Seq({b}) /\ Len(<<b>>) = 1
        OBVIOUS
      <4>2. \A b : SubSeq(<<b>>, 1, Len(<<b>>)) = <<b>>
        BY <4>1, SubSeqFull
      <4>3. \A b : SubSeq(b, 2, 1) = <<>>
        BY SubSeqEmpty
      <4>4. QED
        BY <1>3, <4>1, <4>2, <4>3
    <3>4. raw \o SubSeq(toRing, 1, k) = <<bufsize>>
      BY <1>1, <1>4, <3>2, <3>3, NothingJoined
    <3> DEFINE all == <<bufsize>>
    <3>5. Head(all) = bufsize /\ Tail(all) = <<>> /\ Buffer + Head(all) = bufsize
      BY <1>3, MessageIsSmall
    <3>6. /\ raw' = <<>> /\ Buffer' = TakeMessages(bufsize).rest
          /\ toEcho' = toEcho \o FlattenSeq([m \in 1..TakeMessages(bufsize).messages |-> RecordsOf(bufsize)])
      BY <3>1, <3>4, <3>5, Zenon
    <3>7. TakeMessages(bufsize).messages = 1 /\ TakeMessages(bufsize).rest = 0
      BY MessageIsSmall DEF TakeMessages
    <3>8. FlattenSeq([m \in 1..1 |-> RecordsOf(bufsize)]) = <<bufsize>>
      BY <1>4, FlattenOne
    <3>9. QED
      BY <1>2, <1>3, <1>4, <2>1, <3>1, <3>2, <3>3, <3>6, <3>7, <3>8, NothingJoined, SMTT(30) DEF wrapData
  <2>2. CASE HelloOnData
    <3>1. Head(toRing) = bufsize /\ Tail(toRing) = <<>>
      BY <1>3
    <3>2. toEcho' = toEcho \o RecordsOf(bufsize) /\ UNCHANGED <<link, raw, Buffer>> /\ toRing' = <<>>
      BY <2>2, <3>1 DEF HelloOnData
    <3>3. QED
      BY <1>1, <1>2, <1>3, <1>4, <3>2, NothingJoined
  <2>3. QED
    BY <2>1, <2>2, SMTT(30)
<1>6. toRing' \o toEcho' = <<bufsize>>
  BY <1>4, <1>5, NothingJoined
<1>7. RingShape'
  BY <1>0, <1>1, <1>4, <1>5, NothingJoined, MessageIsSmall DEF RingShape
<1>8. OneRecord'
  BY <1>5 DEF OneRecord
<1>9. QED
  BY <1>4, <1>5, <1>6, <1>7, <1>8 DEF RingIInv

(* client_std: a record is added to what has been read of the message, and *)
(* with the last one the next message is written.                          *)
LEMMA RingStdStep == RingIInv /\ StdReadFull => RingIInv'
<1> SUFFICES ASSUME RingIInv, StdReadFull PROVE RingIInv'
  OBVIOUS
<1>0. RingShape
  BY DEF RingIInv
<1>1. /\ toRing # <<>> /\ toRing' = Tail(toRing) /\ UNCHANGED <<ring, version, link, raw>>
      /\ \/ Buffer + Head(toRing) < bufsize /\ Buffer' = Buffer + Head(toRing) /\ toEcho' = toEcho
         \/ ~(Buffer + Head(toRing) < bufsize) /\ Buffer' = 0 /\ toEcho' = toEcho \o RecordsOf(bufsize)
  BY DEF StdReadFull
<1>2. link = "written" /\ Carry(toRing \o toEcho, Buffer) /\ (version = "later" => OneRecord)
  BY <1>1 DEF RingIInv
<1> DEFINE s == toRing \o toEcho
<1>3. /\ toRing \in Records /\ toEcho \in Records /\ Buffer \in Nat
      /\ Len(toRing) \in Nat \ {0} /\ Len(toEcho) \in Nat /\ Head(toRing) = toRing[1] /\ Tail(toRing) \in Records
  BY <1>0, <1>1, RecordsElements DEF RingShape
<1>4. /\ s \in Records /\ Len(s) = Len(toRing) + Len(toEcho) /\ s[1] = Head(toRing) /\ s # <<>>
      /\ Tail(s) = Tail(toRing) \o toEcho
  <2>1. PICK S : Records = Seq(S)
    BY DEF Records
  <2>2. toRing \in Seq(S) /\ toEcho \in Seq(S)
    BY <1>3, <2>1
  <2>3. s \in Records /\ Len(s) = Len(toRing) + Len(toEcho) /\ s[1] = toRing[1]
    BY <1>3, RecordsJoined
  <2>4. s # <<>>
    BY <1>3, <2>3
  <2>5. Tail(s) = Tail(toRing) \o toEcho
    BY <1>1, <1>3, <2>2, <2>3, <2>4
  <2>6. QED
    BY <1>3, <2>3, <2>4, <2>5
<1>5. Carry(s, Buffer)
  BY <1>2
<1> HIDE DEF s
<1>6. /\ Buffer + s[1] =< bufsize /\ s[1] \in Nat \ {0}
      /\ Buffer + s[1] < bufsize => Carry(Tail(s), Buffer + s[1])
      /\ ~(Buffer + s[1] < bufsize) => Len(s) = 1
  BY <1>3, <1>4, <1>5, FirstRead
<1>7. CASE Buffer + Head(toRing) < bufsize
  <2>1. Buffer' = Buffer + s[1] /\ toEcho' = toEcho /\ Buffer' \in Nat /\ Buffer' < bufsize
    BY <1>1, <1>3, <1>4, <1>6, <1>7
  <2>2. Carry(toRing' \o toEcho', Buffer')
    BY <1>1, <1>4, <1>6, <1>7, <2>1
  <2>3. version # "later"
    <3>1. ASSUME version = "later" PROVE FALSE
      <4>1. toRing = <<bufsize>> /\ Buffer = 0
        BY <1>1, <1>2, <3>1 DEF OneRecord
      <4>2. Head(toRing) = bufsize
        BY <4>1
      <4>3. QED
        BY <1>7, <4>1, <4>2, MessageIsSmall
    <3>2. QED
      BY <3>1
  <2>4. QED
    BY <1>0, <1>1, <1>2, <1>3, <2>1, <2>2, <2>3 DEF RingIInv, RingShape
<1>8. CASE ~(Buffer + Head(toRing) < bufsize)
  <2>1. Len(toRing) = 1 /\ Len(toEcho) = 0
    <3>1. Len(s) = 1
      BY <1>4, <1>6, <1>8
    <3>2. Len(toRing) \in Nat /\ Len(toRing) # 0 /\ Len(toEcho) \in Nat /\ Len(s) = Len(toRing) + Len(toEcho)
      BY <1>3, <1>4
    <3>3. \A a, b \in Nat : a + b = 1 /\ a # 0 => a = 1 /\ b = 0
      OBVIOUS
    <3>4. Len(toRing) + Len(toEcho) = 1
      BY <3>1, <3>2
    <3>5. QED
      BY <3>2, <3>3, <3>4, Zenon
  <2>2. PICK S : Records = Seq(S)
    BY DEF Records
  <2>3. toEcho = <<>> /\ toRing' = <<>>
    BY <1>1, <1>3, <2>1, <2>2
  <2>4. /\ RecordsOf(bufsize) \in Records /\ Carry(RecordsOf(bufsize), 0)
        /\ version = "later" => RecordsOf(bufsize) = <<bufsize>>
    BY <1>0, RecordsMade
  <2>5. Buffer' = 0 /\ toEcho' = RecordsOf(bufsize)
    BY <1>1, <1>8, <2>3, <2>4, NothingJoined
  <2>6. toRing' \o toEcho' = RecordsOf(bufsize)
    BY <2>3, <2>4, <2>5, NothingJoined
  <2>7. Carry(toRing' \o toEcho', Buffer')
    BY <2>4, <2>5, <2>6
  <2>8. version' = "later" => OneRecord'
    BY <1>1, <2>3, <2>4, <2>5 DEF OneRecord
  <2>9. QED
    BY <1>0, <1>1, <1>2, <1>3, <2>3, <2>4, <2>5, <2>7, <2>8, MessageIsSmall DEF RingIInv, RingShape
<1>9. QED
  BY <1>7, <1>8

(* The steps of the servers and of the three clients.                      *)
LEMMA RingStep == RingIInv /\ TlsRingNext => RingIInv'
  BY RingServerStep, RingClientStep, RingStdStep DEF TlsRingNext

(* The library of wrapData is empty after every event, and the records on  *)
(* the way are one message in order.                                       *)
LEMMA RingSafe == RingIInv => TlsRingTypeOK /\ NothingLeftRaw /\ OneMessageRound
<1> SUFFICES ASSUME RingIInv PROVE TlsRingTypeOK /\ NothingLeftRaw /\ OneMessageRound
  OBVIOUS
<1>0. RingShape
  BY DEF RingIInv
<1>1. raw \in Records /\ Buffer \in 0..(bufsize - 1)
  BY <1>0, NothingJoined, MessageIsSmall DEF RingShape
<1>2. TlsRingTypeOK
  BY <1>0, <1>1 DEF RingShape, TlsRingTypeOK
<1>3. raw \o toRing = toRing
  BY <1>0, NothingJoined DEF RingShape
<1>4. QED
  BY <1>0, <1>2, <1>3 DEF RingIInv, RingShape, NothingLeftRaw, OneMessageRound
-----------------------------------------------------------------------------
(* All of them: a step of one program leaves the variables of the others,  *)
(* and so the invariants of the others, as they are.                       *)
LEMMA EdgesIdles == EdgesIInv /\ UNCHANGED edgeVars => EdgesIInv'
<1> SUFFICES ASSUME EdgesIInv, UNCHANGED edgeVars PROVE EdgesIInv'
  OBVIOUS
<1>1. written' = written /\ event' = event /\ UNCHANGED <<poller, onWire, inSocket, back, printed>>
  BY Zenon DEF edgeVars
<1>2. EdgesTypeOK'
  BY <1>1, Zenon DEF EdgesIInv, EdgesTypeOK
<1>3. NothingStranded'
  BY <1>1, Zenon DEF EdgesIInv, NothingStranded
<1>4. QED
  BY <1>2, <1>3, Zenon DEF EdgesIInv

(* The variables of the TLS test.                                          *)
LEMMA CountIdles == CountIInv /\ UNCHANGED countVars => CountIInv'
  BY DEF CountIInv, TlsCountTypeOK, countVars

(* The variables of the client of async_dialer.                            *)
LEMMA DialIdles == DialIInv /\ UNCHANGED dialVars => DialIInv'
  BY DEF DialIInv, AsyncTypeOK, Echoes, dialVars

(* The variables of the UDP echo programs.                                 *)
LEMMA EchoIdles == EchoIInv /\ UNCHANGED echoVars => EchoIInv'
  BY DEF EchoIInv, EchoShape, Balance, Answered, Written, PanicNeedsDuplicate, echoVars

(* The variables of the transfer server.                                   *)
LEMMA TransferIdles == TransferIInv /\ UNCHANGED transferVars => TransferIInv'
<1> SUFFICES ASSUME TransferIInv, UNCHANGED transferVars PROVE TransferIInv'
  OBVIOUS
<1>0. /\ UNCHANGED <<tmain, nbhttpEngine, serve, chDone, closing, expired, via, user, rounds, holder, wire>>
      /\ TransferTypeOK /\ MainInOrder /\ HandlersOver /\ HoldersMatch
  BY Zenon DEF TransferIInv, transferVars, userSide, httpSide
<1>1. TransferTypeOK'
  BY <1>0, Zenon DEF TransferTypeOK
<1>2. MainInOrder'
  BY <1>0, Zenon DEF MainInOrder, Received
<1>3. HandlersOver'
  BY <1>0, Zenon DEF HandlersOver, Past
<1>4. HoldersMatch'
  BY <1>0, Zenon DEF HoldersMatch
<1>5. QED
  BY <1>1, <1>2, <1>3, <1>4, Zenon DEF TransferIInv

(* The variables of the UDP forwarder.                                     *)
LEMMA UdpIdles == UdpIInv /\ UNCHANGED udpVars => UdpIInv'
<1> SUFFICES ASSUME UdpIInv, UNCHANGED udpVars PROVE UdpIInv'
  OBVIOUS
<1>1. UNCHANGED <<round, client, src, dial, dst, toProxy, toServer, fromServer, fromProxy, doubled, lost>>
  BY DEF udpVars, sessions, datagrams, network
<1>2. UdpShape' /\ SessionsMatch' /\ Unmixed'
  BY <1>1 DEF UdpIInv, UdpShape, SessionsMatch, Unmixed
<1>3. BoundariesKept' /\ AnswersMatch'
  BY <1>1 DEF UdpIInv, BoundariesKept, OneWrite, FirstWrites, AnswersMatch, UnderWay, Cached
<1>4. QED
  BY <1>2, <1>3 DEF UdpIInv

(* The variables of the uploader.                                          *)
LEMMA UploadIdles == UploadIInv /\ UNCHANGED uploadVars => UploadIInv'
<1> SUFFICES ASSUME UploadIInv, UNCHANGED uploadVars PROVE UploadIInv'
  OBVIOUS
<1>0. /\ UNCHANGED <<uplink, upNext, read, output, files, failure>>
      /\ UploadShape /\ InSequence /\ FilesSoFar /\ FilesAreMessages /\ NoFileLeaks
  BY DEF UploadIInv, uploadVars
<1>1. UploadShape'
  <2>1. /\ uplink' \in {"open", "closing", "closed"} /\ failure' \subseteq {"create", "write"}
        /\ upNext' \in [msg : Nat, n : Nat] /\ read' \in Seq(Frames) /\ files' \in Seq(FileRecords)
    BY <1>0, SMT DEF UploadShape
  <2>2. upNext'.msg \in Messages => upNext'.n \in 1..FramesOf[upNext'.msg]
    BY <1>0, Zenon DEF UploadShape
  <2>3. output' \in {Nil, Len(files'), TypedNil'}
    BY <1>0, Zenon DEF UploadShape, TypedNil
  <2>4. QED
    BY <2>1, <2>2, <2>3, Zenon DEF UploadShape, Messages, Frames, FileRecords, Nil
<1>2. InSequence'
  BY <1>0, Zenon DEF InSequence, After
<1>3. FilesSoFar'
  <2>1. After(0)' = After(0)
    BY <1>0, Zenon DEF After
  <2>2. Due' = Due
    BY <1>0, Zenon DEF Due
  <2>3. QED
    BY <1>0, <2>1, <2>2, Zenon DEF FilesSoFar, Beginning, Nil, TypedNil
<1>4. FilesAreMessages' /\ NoFileLeaks'
  BY <1>0, Zenon DEF FilesAreMessages, NoFileLeaks
<1>5. QED
  BY <1>1, <1>2, <1>3, <1>4 DEF UploadIInv

(* The variables of the stream echo programs.                              *)
LEMMA StreamIdles == StreamIInv /\ UNCHANGED streamVars => StreamIInv'
  BY DEF StreamIInv, Circulates, streamVars

(* The variables of the nbio websocket client.                             *)
LEMMA NbIdles == NbIInv /\ UNCHANGED nbVars => NbIInv'
  BY DEF NbIInv, NbShape, StartUp, NeverTwice, Placed, Place, OnChannel, WithFlood, nbVars

(* The variables of the TLS load programs.                                 *)
LEMMA RingIdles == RingIInv /\ UNCHANGED ringVars => RingIInv'
  BY DEF RingIInv, RingShape, OneRecord, ringVars

(* The invariant of every program, whichever of them runs.                 *)
IInv ==
    /\ TransferIInv /\ UdpIInv /\ EchoIInv /\ EdgesIInv /\ RingIInv
    /\ NbIInv /\ UploadIInv /\ StreamIInv /\ CountIInv /\ DialIInv

(* Every program begins in its own invariant. *)
LEMMA SmallInitial == Init => IInv
  BY TransferInitial, UdpInitial, EchoInitial, EdgesInitial, RingInitial, NbInitial, UploadInitial, StreamInitial,
     CountInitial, DialInitial DEF Init, IInv

(* The step of the program that runs keeps its own invariant, by the lemma *)
(* of that program, and every other program is idle.                       *)
LEMMA SmallStep == IInv /\ [Next]_vars => IInv'
<1> SUFFICES ASSUME IInv, [Next]_vars PROVE IInv'
  OBVIOUS
<1>0. /\ TransferIInv /\ UdpIInv /\ EchoIInv /\ EdgesIInv /\ RingIInv
      /\ NbIInv /\ UploadIInv /\ StreamIInv /\ CountIInv /\ DialIInv
  BY DEF IInv
<1>1. CASE TransferNext /\ UNCHANGED <<udpVars, echoVars, edgeVars, ringVars, nbVars, uploadVars, streamVars, countVars, dialVars>>
  BY <1>0, <1>1, TransferStep, UdpIdles, EchoIdles, EdgesIdles, RingIdles, NbIdles, UploadIdles, StreamIdles, CountIdles, DialIdles DEF IInv
<1>2. CASE UdpNext /\ UNCHANGED <<transferVars, echoVars, edgeVars, ringVars, nbVars, uploadVars, streamVars, countVars, dialVars>>
  BY <1>0, <1>2, UdpStep, TransferIdles, EchoIdles, EdgesIdles, RingIdles, NbIdles, UploadIdles, StreamIdles, CountIdles, DialIdles DEF IInv
<1>3. CASE UdpEchoNext /\ UNCHANGED <<transferVars, udpVars, edgeVars, ringVars, nbVars, uploadVars, streamVars, countVars, dialVars>>
  BY <1>0, <1>3, EchoStep, TransferIdles, UdpIdles, EdgesIdles, RingIdles, NbIdles, UploadIdles, StreamIdles, CountIdles, DialIdles DEF IInv
<1>4. CASE EdgesNext /\ UNCHANGED <<transferVars, udpVars, echoVars, ringVars, nbVars, uploadVars, streamVars, countVars, dialVars>>
  BY <1>0, <1>4, EdgesStep, TransferIdles, UdpIdles, EchoIdles, RingIdles, NbIdles, UploadIdles, StreamIdles, CountIdles, DialIdles DEF IInv
<1>5. CASE TlsRingNext /\ UNCHANGED <<transferVars, udpVars, echoVars, edgeVars, nbVars, uploadVars, streamVars, countVars, dialVars>>
  BY <1>0, <1>5, RingStep, TransferIdles, UdpIdles, EchoIdles, EdgesIdles, NbIdles, UploadIdles, StreamIdles, CountIdles, DialIdles DEF IInv
<1>6. CASE NbNext /\ UNCHANGED <<transferVars, udpVars, echoVars, edgeVars, ringVars, uploadVars, streamVars, countVars, dialVars>>
  BY <1>0, <1>6, NbStep, TransferIdles, UdpIdles, EchoIdles, EdgesIdles, RingIdles, UploadIdles, StreamIdles, CountIdles, DialIdles DEF IInv
<1>7. CASE UploadNext /\ UNCHANGED <<transferVars, udpVars, echoVars, edgeVars, ringVars, nbVars, streamVars, countVars, dialVars>>
  BY <1>0, <1>7, UploadStep, TransferIdles, UdpIdles, EchoIdles, EdgesIdles, RingIdles, NbIdles, StreamIdles, CountIdles, DialIdles DEF IInv
<1>8. CASE StreamNext /\ UNCHANGED <<transferVars, udpVars, echoVars, edgeVars, ringVars, nbVars, uploadVars, countVars, dialVars>>
  BY <1>0, <1>8, StreamStep, TransferIdles, UdpIdles, EchoIdles, EdgesIdles, RingIdles, NbIdles, UploadIdles, CountIdles, DialIdles DEF IInv
<1>9. CASE TlsCountNext /\ UNCHANGED <<transferVars, udpVars, echoVars, edgeVars, ringVars, nbVars, uploadVars, streamVars, dialVars>>
  BY <1>0, <1>9, CountStep, TransferIdles, UdpIdles, EchoIdles, EdgesIdles, RingIdles, NbIdles, UploadIdles, StreamIdles, DialIdles DEF IInv
<1>10. CASE AsyncNext /\ UNCHANGED <<transferVars, udpVars, echoVars, edgeVars, ringVars, nbVars, uploadVars, streamVars, countVars>>
  BY <1>0, <1>10, DialStep, TransferIdles, UdpIdles, EchoIdles, EdgesIdles, RingIdles, NbIdles, UploadIdles, StreamIdles, CountIdles DEF IInv
<1>11. CASE UNCHANGED vars
  <2>1. UNCHANGED <<transferVars, udpVars, echoVars, edgeVars, ringVars, nbVars, uploadVars, streamVars, countVars, dialVars>>
    BY <1>11 DEF vars
  <2>2. QED
    BY <1>0, <2>1, TransferIdles, UdpIdles, EchoIdles, EdgesIdles, RingIdles, NbIdles, UploadIdles, StreamIdles, CountIdles, DialIdles DEF IInv
<1>12. QED
  BY <1>1, <1>2, <1>3, <1>4, <1>5, <1>6, <1>7, <1>8, <1>9, <1>10, <1>11 DEF Next

(* Type correctness of all small programs: no step takes a variable out of *)
(* the values its declaration gives it.                                    *)
THEOREM SmallIsTyped == Spec => []SmallTypeOK
<1>1. IInv => SmallTypeOK
  BY TransferSafe, UdpSafe, EchoSafe, RingSafe, NbSafe, UploadSafe, StreamSafe DEF IInv, SmallTypeOK, TransferIInv, EdgesIInv, CountIInv, DialIInv
<1>2. QED
  BY <1>1, SmallInitial, SmallStep, PTL DEF Spec

(* The transfer server's engine is shut down after the servers that hand   *)
(* connections over, and never has a connection of theirs.                 *)
THEOREM TransferStopsInOrder == Spec => []TransferIsOrdered
<1>1. IInv => TransferIsOrdered
  BY TransferSafe DEF IInv
<1>2. QED
  BY <1>1, SmallInitial, SmallStep, PTL DEF Spec

(* Whatever the network loses, reorders and duplicates, a datagram of the  *)
(* forwarder is one write of the client or copies of its first, what the   *)
(* server sends is forwarded, and the clients, the forwarder's and those   *)
(* of the echo programs, panic only when there has been a duplicate:       *)
(* without one an answer is that of its round.                             *)
THEOREM DatagramsAreMatched == Spec => []DatagramsMatch
<1>1. IInv => DatagramsMatch
  BY UdpSafe, EchoSafe DEF IInv, DatagramsMatch
<1>2. QED
  BY <1>1, SmallInitial, SmallStep, PTL DEF Spec

(* No byte waits in a socket or in the TLS library for an event that does  *)
(* not come, and what goes round on a TLS connection is the message.       *)
THEOREM NothingIsLeftUnread == Spec => []NothingLeftUnread
<1>1. IInv => NothingLeftUnread
  BY RingSafe DEF IInv, EdgesIInv, NothingLeftUnread
<1>2. QED
  BY <1>1, SmallInitial, SmallStep, PTL DEF Spec

(* The tokens of connectedClients: none is lost or made twice, and main's  *)
(* own sends into the channel never wait.                                  *)
THEOREM StartUpIsSafe == Spec => []StartUpIsSound
<1>1. IInv => StartUpIsSound
  BY NbSafe DEF IInv
<1>2. QED
  BY <1>1, SmallInitial, SmallStep, PTL DEF Spec

(* A finished file is one message, whole, and no file outlives its         *)
(* connection.                                                             *)
THEOREM UploadsAreSafe == Spec => []UploadsAreSound
<1>1. IInv => UploadsAreSound
  BY UploadSafe DEF IInv, UploadsAreSound
<1>2. QED
  BY <1>1, SmallInitial, SmallStep, PTL DEF Spec

(* The echo of a stream is in order and never overflows the write list;    *)
(* the programs that count calls count messages unless TCP merged or cut   *)
(* them.                                                                   *)
THEOREM EchoesAreRight == Spec => []EchoesAreCounted
<1>1. IInv => EchoesAreCounted
  BY StreamSafe, CountSafe, DialSafe DEF IInv, EchoesAreCounted
<1>2. QED
  BY <1>1, SmallInitial, SmallStep, PTL DEF Spec
=============================================================================
