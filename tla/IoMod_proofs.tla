---------------------------- MODULE IoMod_proofs ----------------------------
(***************************************************************************)
(* Proofs about IoMod, for any set of plans: no test meets a server that   *)
(* is not there, an answer that is not its own or a channel that is closed *)
(* already, and the tests of an address are over when main goes on.        *)
(***************************************************************************)
EXTENDS IoMod, FiniteSetTheorems, SequenceTheorems, TLAPS

-----------------------------------------------------------------------------
(* The states of main and of a test, named.                                *)
MainAts == {"start", "sleep", "http", "nbhttp", "nbhttpDone", "goNb", "goGorilla", "wait",
            "shutdown", "waitShutdown", "returned"}
Rounding == {"http", "nbhttp", "nbhttpDone", "goNb", "goGorilla", "wait"}
Leaving == {"shutdown", "waitShutdown", "returned"}
TestAts == {"none", "dial", "text", "textBack", "binary", "binaryBack", "wait", "close", "closed", "finished"}
Readers == {"none", "handler", "server", "transfer", "gone"}
Clients == {"nb", "gorilla"}

MainShape ==
    /\ plan \in Plans
    /\ main \in [at : MainAts, i : 1..Last, j : 1..plan.rounds, k : 1..Len(plan.urls)]
    /\ fatal = FALSE

TestShape ==
    /\ test \in [Tests -> TestAts] /\ reader \in [Tests -> Readers]
    /\ toServer \in [Tests -> Seq(Types)] /\ toClient \in [Tests -> Seq(Types)]
    /\ cnt \in [Tests -> 0..2] /\ done \subseteq Tests

(* The servers, from their start to the shutdown, and its wait group.      *)
StillUp == {i \in 1..Last : server[i] # "down"}

Servers ==
    /\ server \in [1..Last -> {"none", "starting", "up", "stopping", "down"}]
    /\ transfer \in {"up", "stopping", "down"}
    /\ main.at = "start" =>
          /\ wgShutdown = main.i /\ transfer = "up"
          /\ \A i \in 1..Last : IF i < main.i THEN server[i] \in {"starting", "up"} ELSE server[i] = "none"
    /\ main.at = "sleep" =>
          wgShutdown = Last + 1 /\ transfer = "up" /\ \A i \in 1..Last : server[i] \in {"starting", "up"}
    /\ main.at \in Rounding \cup {"shutdown"} =>
          wgShutdown = Last + 1 /\ transfer = "up" /\ \A i \in 1..Last : server[i] = "up"
    /\ main.at \in {"waitShutdown", "returned"} =>
          /\ wgShutdown = Cardinality(StillUp) + (IF transfer = "down" THEN 0 ELSE 1)
          /\ transfer # "up" /\ \A i \in 1..Last : server[i] \in {"stopping", "down"}

(* How far clients has come in a round: the tests that have been started.  *)
Reached(t) ==
    /\ t.i =< main.i /\ t.k =< Len(plan.urls) /\ main.at \notin {"start", "sleep"}
    /\ t.i < main.i \/ main.at \in {"wait"} \cup Leaving \/ t.j < main.j
       \/ (t.j = main.j /\ \/ main.at = "goNb" /\ t.client = "nb" /\ t.k < main.k
                           \/ main.at = "goGorilla" /\ (t.client = "nb" \/ t.k < main.k))

Over(t) == test[t] \in {"none", "finished"}
Running == {t \in Tests : ~Over(t)}

(* The wait group counts the tests that run, and tests of earlier          *)
(* addresses do not.                                                       *)
Counted == wg = Cardinality(Running) + (IF main.at = "nbhttpDone" THEN 1 ELSE 0)
Finished ==
    /\ \A t \in Tests : test[t] # "none" => Reached(t)
    /\ \A t \in Tests : t.i < main.i \/ main.at \in Leaving => Over(t)

(* What is on the wire of a test, and what its handler has seen of it.     *)
Wire(t) == toClient[t] \o toServer[t]

Exchange(at, client, n, wire) ==
    /\ at \in {"none", "dial", "text"} => n = 0 /\ wire = <<>>
    /\ client = "gorilla" =>
          /\ n = 0
          /\ at = "textBack" => wire = <<"text">>
          /\ at = "binaryBack" => wire = <<"binary">>
          /\ at \notin {"textBack", "binaryBack"} => wire = <<>>
    /\ client = "nb" =>
          /\ at \notin {"textBack", "binaryBack"}
          /\ at = "binary" => (n = 0 /\ wire = <<"text">>) \/ (n = 1 /\ wire = <<>>)
          /\ at = "wait" => (n = 0 /\ wire = <<"text", "binary">>) \/ (n = 1 /\ wire = <<"binary">>) \/ (n = 2 /\ wire = <<>>)
          /\ at \in {"close", "closed", "finished"} => n = 2 /\ wire = <<>>

Talk(t) == Exchange(test[t], t.client, cnt[t], Wire(t)) /\ (t \in done <=> cnt[t] = 2)

Attended(t) ==
    /\ test[t] \in {"none", "dial"} => reader[t] = "none"
    /\ test[t] \in {"closed", "finished"} => reader[t] = "gone"

IInv ==
    /\ MainShape /\ TestShape /\ Servers /\ Counted /\ Finished
    /\ \A t \in Tests : Talk(t) /\ Attended(t)

(* The plan's numbers, and the fields of main and of a test.               *)
LEMMA PlanFields ==
    ASSUME MainShape
    PROVE  /\ Last \in 1..MaxAddrs /\ Len(plan.urls) \in 1..MaxUrls /\ plan.rounds \in 1..MaxRounds
           /\ MaxAddrs \in Nat /\ MaxRounds \in Nat /\ MaxUrls \in Nat
           /\ main.at \in MainAts /\ main.i \in 1..Last /\ main.j \in 1..plan.rounds
           /\ main.k \in 1..Len(plan.urls)
           /\ \A k \in 1..Len(plan.urls) : plan.urls[k] \in {"upgrade", "transfer", "handleRead"}
<1>1. /\ plan \in Plans /\ main \in [at : MainAts, i : 1..Last, j : 1..plan.rounds, k : 1..Len(plan.urls)]
  BY DEF MainShape
<1>2. /\ Last \in 1..MaxAddrs /\ Len(plan.urls) \in 1..MaxUrls /\ plan.rounds \in 1..MaxRounds
      /\ MaxAddrs \in Nat /\ MaxRounds \in Nat /\ MaxUrls \in Nat
      /\ plan.urls \in Seq({"upgrade", "transfer", "handleRead"})
  BY <1>1, PlansFit DEF Last
<1>3. main.at \in MainAts /\ main.i \in 1..Last /\ main.j \in 1..plan.rounds /\ main.k \in 1..Len(plan.urls)
  BY <1>1
<1>4. \A k \in 1..Len(plan.urls) : plan.urls[k] \in {"upgrade", "transfer", "handleRead"}
  BY <1>2
<1>5. QED
  BY <1>2, <1>3, <1>4

LEMMA TestFields ==
    \A t \in Tests : t.i \in 1..MaxAddrs /\ t.j \in 1..MaxRounds /\ t.k \in 1..MaxUrls /\ t.client \in Clients
BY DEF Tests, Clients

(* There are finitely many tests.                                          *)
LEMMA TestsAreFinite == IsFiniteSet(Tests)
<1>1. IsFiniteSet(1..MaxAddrs) /\ IsFiniteSet(1..MaxRounds) /\ IsFiniteSet(1..MaxUrls)
  BY PlansFit, FS_Interval
<1>2. IsFiniteSet({"nb", "gorilla"})
  <2>1. IsFiniteSet({"nb"}) /\ IsFiniteSet({"gorilla"})
    BY FS_Singleton
  <2>2. {"nb", "gorilla"} = {"nb"} \cup {"gorilla"}
    OBVIOUS
  <2>3. QED
    BY <2>1, <2>2, FS_Union
<1> DEFINE A == (1..MaxAddrs) \X (1..MaxRounds)
           B == (1..MaxUrls) \X {"nb", "gorilla"}
<1>3. IsFiniteSet(A) /\ IsFiniteSet(B)
  BY <1>1, <1>2, FS_Product
<1>4. IsFiniteSet(A \X B)
  BY <1>3, FS_Product
<1> DEFINE f == [q \in A \X B |-> [i |-> q[1][1], j |-> q[1][2], k |-> q[2][1], client |-> q[2][2]]]
<1>5. \A t \in Tests : \E q \in A \X B : f[q] = t
  <2>1. ASSUME NEW t \in Tests PROVE \E q \in A \X B : f[q] = t
    <3>1. /\ t.i \in 1..MaxAddrs /\ t.j \in 1..MaxRounds /\ t.k \in 1..MaxUrls /\ t.client \in {"nb", "gorilla"}
          /\ t = [i |-> t.i, j |-> t.j, k |-> t.k, client |-> t.client]
      BY DEF Tests
    <3>2. <<<<t.i, t.j>>, <<t.k, t.client>>>> \in A \X B
      BY <3>1
    <3>3. f[<<<<t.i, t.j>>, <<t.k, t.client>>>>] = t
      BY <3>1, <3>2
    <3>4. QED
      BY <3>2, <3>3
  <2>2. QED
    BY <2>1
<1>6. f \in [A \X B -> Tests]
  BY DEF Tests
<1>7. f \in Surjection(A \X B, Tests)
  BY <1>5, <1>6 DEF Surjection
<1>8. QED
  BY <1>4, <1>7, FS_Surjection

(* A test's messages: what is sent joins the wire at its end, what the     *)
(* server echoes stays on it, what is read leaves it at its head.          *)
LEMMA WireGrows ==
    ASSUME NEW S, NEW a \in Seq(S), NEW b \in Seq(S), NEW m \in S
    PROVE  a \o Append(b, m) = Append(a \o b, m) /\ Append(b, m) \in Seq(S)
OBVIOUS

LEMMA WireMoves ==
    ASSUME NEW S, NEW a \in Seq(S), NEW b \in Seq(S), b # <<>>
    PROVE  Append(a, Head(b)) \o Tail(b) = a \o b /\ Append(a, Head(b)) \in Seq(S) /\ Tail(b) \in Seq(S)
OBVIOUS

LEMMA WireShrinks ==
    ASSUME NEW S, NEW a \in Seq(S), NEW b \in Seq(S), a # <<>>
    PROVE  /\ Tail(a) \o b = Tail(a \o b) /\ Head(a) = Head(a \o b) /\ a \o b # <<>> /\ Tail(a) \in Seq(S)
BY SMTT(30)

(* What the steps of main alone show of the tests.                         *)
LEMMA TestsStay ==
    ASSUME IInv, UNCHANGED <<reader, test, cnt, done, toServer, toClient>>
    PROVE  TestShape' /\ Running' = Running /\ \A t \in Tests : Talk(t)' /\ Attended(t)'
<1>1. TestShape /\ \A t \in Tests : Talk(t) /\ Attended(t)
  BY DEF IInv
<1>2. TestShape'
  BY <1>1 DEF TestShape
<1>3. Running' = Running
  BY DEF Running, Over
<1>4. \A t \in Tests : Talk(t)' /\ Attended(t)'
  BY <1>1, Zenon DEF Talk, Attended, Wire
<1>5. QED
  BY <1>2, <1>3, <1>4

(* Nothing has begun.                                                      *)
LEMMA InitIInv == Init => IInv
<1> SUFFICES ASSUME Init PROVE IInv
  OBVIOUS
<1>1. /\ plan \in Plans /\ main = [at |-> "start", i |-> 1, j |-> 1, k |-> 1] /\ fatal = FALSE
      /\ server = [i \in 1..Last |-> "none"] /\ transfer = "up" /\ wg = 0 /\ wgShutdown = 1
  BY DEF Init
<1>2. /\ test = [t \in Tests |-> "none"] /\ reader = [t \in Tests |-> "none"]
      /\ toServer = [t \in Tests |-> <<>>] /\ toClient = [t \in Tests |-> <<>>]
      /\ cnt = [t \in Tests |-> 0] /\ done = {}
  BY DEF Init
<1>3. Last \in Nat \ {0} /\ Len(plan.urls) \in Nat \ {0} /\ plan.rounds \in Nat \ {0}
  BY <1>1, PlansFit DEF Last
<1>4. MainShape
  BY <1>1, <1>3 DEF MainShape, MainAts
<1>5. TestShape
  BY <1>2 DEF TestShape, TestAts, Readers
<1>6. Servers
  BY <1>1, <1>3 DEF Servers, Rounding
<1>7. Counted
  <2>1. Running = {}
    BY <1>2 DEF Running, Over
  <2>2. QED
    BY <1>1, <2>1, FS_EmptySet DEF Counted
<1>8. Finished
  BY <1>1, <1>2 DEF Finished, Over, Leaving
<1>9. ASSUME NEW t \in Tests PROVE Talk(t) /\ Attended(t)
  <2>1. test[t] = "none" /\ reader[t] = "none" /\ cnt[t] = 0 /\ t \notin done /\ Wire(t) = <<>> /\ t.client \in Clients
    BY <1>2, TestFields DEF Wire
  <2>2. QED
    BY <2>1 DEF Talk, Attended, Exchange, Clients
<1>10. QED
  BY <1>4, <1>5, <1>6, <1>7, <1>8, <1>9 DEF IInv

(* main goes on to its next statement.                                     *)
LEMMA MainGoesOn ==
    ASSUME IInv, NEW from, NEW to \in MainAts, MainGoes(from, to), fatal' = FALSE, plan' = plan
    PROVE  /\ MainShape' /\ main.at = from /\ main'.at = to /\ main'.i = main.i /\ main'.j = main.j
           /\ main'.k = main.k /\ Last' = Last
<1>1. MainShape /\ main.at = from /\ main' = [main EXCEPT !.at = to]
  BY DEF IInv, MainGoes, MainAt
<1>2. Last' = Last
  BY DEF Last
<1>3. QED
  BY <1>1, <1>2, PlanFields DEF MainShape

LEMMA RunningIsFinite == IsFiniteSet(Running) /\ Cardinality(Running) \in Nat
<1>1. Running \in SUBSET Tests
  BY DEF Running
<1>2. QED
  BY <1>1, TestsAreFinite, FS_Subset, FS_CardinalityType

(* The steps of main that start no server and no test of their own.        *)
LEMMA MainRestStep ==
    ASSUME IInv, Sleep \/ HttpTest \/ NbHttpDo \/ NbHttpDone \/ Return
    PROVE  IInv'
<1>0. MainShape /\ TestShape /\ Servers /\ Counted /\ Finished
  BY DEF IInv
<1>1. UNCHANGED <<plan, server, transfer, reader, wgShutdown, test, cnt, done, toServer, toClient>>
  BY DEF Sleep, HttpTest, NbHttpDo, NbHttpDone, Return, serverSide, testSide, wires
<1>2. TestShape' /\ Running' = Running /\ \A t \in Tests : Talk(t)' /\ Attended(t)'
  BY <1>1, TestsStay
<1>3. Cardinality(Running) \in Nat
  BY RunningIsFinite
<1>4. Last \in Nat /\ main.i \in 1..Last /\ StillUp' = StillUp
  BY <1>0, <1>1, PlanFields DEF StillUp, Last
<1>5. CASE Sleep
  <2>1. MainGoes("sleep", "http") /\ (\A i \in 1..Last : server[i] = "up") /\ fatal' = FALSE /\ wg' = wg
    BY <1>0, <1>5 DEF Sleep, testSide, MainShape
  <2>2. /\ MainShape' /\ main.at = "sleep" /\ main'.at = "http" /\ main'.i = main.i /\ main'.j = main.j
        /\ main'.k = main.k /\ Last' = Last
    BY <1>1, <2>1, MainGoesOn DEF MainAts
  <2>3. Servers'
    BY <1>0, <1>1, <2>1, <2>2 DEF Servers, Rounding
  <2>4. Counted'
    BY <1>0, <1>2, <2>1, <2>2 DEF Counted
  <2>5. Finished'
    BY <1>0, <1>1, <2>2 DEF Finished, Reached, Over, Leaving
  <2>6. QED
    BY <1>2, <2>2, <2>3, <2>4, <2>5 DEF IInv
<1>6. CASE HttpTest
  <2>1. MainGoes("http", "nbhttp") /\ fatal' = FALSE /\ wg' = wg
    <3>1. MainGoes("http", "nbhttp") /\ fatal' = (server[main.i] # "up") /\ wg' = wg
      BY <1>6 DEF HttpTest
    <3>2. server[main.i] = "up"
      BY <1>0, <1>4, <3>1 DEF Servers, Rounding, MainGoes, MainAt
    <3>3. QED
      BY <3>1, <3>2
  <2>2. /\ MainShape' /\ main.at = "http" /\ main'.at = "nbhttp" /\ main'.i = main.i /\ main'.j = main.j
        /\ main'.k = main.k /\ Last' = Last
    BY <1>1, <2>1, MainGoesOn DEF MainAts
  <2>3. Servers'
    BY <1>0, <1>1, <2>2 DEF Servers, Rounding
  <2>4. Counted'
    BY <1>0, <1>2, <2>1, <2>2 DEF Counted
  <2>5. Finished'
    BY <1>0, <1>1, <2>2 DEF Finished, Reached, Over, Leaving
  <2>6. QED
    BY <1>2, <2>2, <2>3, <2>4, <2>5 DEF IInv
<1>7. CASE NbHttpDo
  <2>1. MainGoes("nbhttp", "nbhttpDone") /\ fatal' = FALSE /\ wg' = wg + 1
    BY <1>0, <1>7 DEF NbHttpDo, testSide, MainShape
  <2>2. /\ MainShape' /\ main.at = "nbhttp" /\ main'.at = "nbhttpDone" /\ main'.i = main.i /\ main'.j = main.j
        /\ main'.k = main.k /\ Last' = Last
    BY <1>1, <2>1, MainGoesOn DEF MainAts
  <2>3. Servers'
    BY <1>0, <1>1, <2>2 DEF Servers, Rounding
  <2>4. Counted'
    BY <1>0, <1>2, <1>3, <2>1, <2>2 DEF Counted
  <2>5. Finished'
    BY <1>0, <1>1, <2>2 DEF Finished, Reached, Over, Leaving
  <2>6. QED
    BY <1>2, <2>2, <2>3, <2>4, <2>5 DEF IInv
<1>8. CASE NbHttpDone
  <2>1. MainGoes("nbhttpDone", "goNb") /\ fatal' = FALSE /\ wg' = wg - 1
    <3>1. MainGoes("nbhttpDone", "goNb") /\ fatal' = (server[main.i] # "up" \/ transfer # "up") /\ wg' = wg - 1
      BY <1>8 DEF NbHttpDone
    <3>2. server[main.i] = "up" /\ transfer = "up"
      BY <1>0, <1>4, <3>1 DEF Servers, Rounding, MainGoes, MainAt
    <3>3. QED
      BY <3>1, <3>2
  <2>2. /\ MainShape' /\ main.at = "nbhttpDone" /\ main'.at = "goNb" /\ main'.i = main.i /\ main'.j = main.j
        /\ main'.k = main.k /\ Last' = Last
    BY <1>1, <2>1, MainGoesOn DEF MainAts
  <2>3. Servers'
    BY <1>0, <1>1, <2>2 DEF Servers, Rounding
  <2>4. Counted'
    BY <1>0, <1>2, <1>3, <2>1, <2>2 DEF Counted
  <2>5. Finished'
    BY <1>0, <1>1, <2>2 DEF Finished, Reached, Over, Leaving
  <2>6. QED
    BY <1>2, <2>2, <2>3, <2>4, <2>5 DEF IInv
<1>9. CASE Return
  <2>1. MainGoes("waitShutdown", "returned") /\ fatal' = FALSE /\ wg' = wg
    BY <1>0, <1>9 DEF Return, testSide, MainShape
  <2>2. /\ MainShape' /\ main.at = "waitShutdown" /\ main'.at = "returned" /\ main'.i = main.i /\ main'.j = main.j
        /\ main'.k = main.k /\ Last' = Last
    BY <1>1, <2>1, MainGoesOn DEF MainAts
  <2>3. Servers'
    BY <1>0, <1>1, <1>4, <2>2 DEF Servers, Rounding
  <2>4. Counted'
    BY <1>0, <1>2, <2>1, <2>2 DEF Counted
  <2>5. Finished'
    BY <1>0, <1>1, <2>2 DEF Finished, Reached, Over, Leaving
  <2>6. QED
    BY <1>2, <2>2, <2>3, <2>4, <2>5 DEF IInv
<1>10. QED
  BY <1>5, <1>6, <1>7, <1>8, <1>9

(* While main starts the servers there is no test.                         *)
LEMMA NoTestYet ==
    ASSUME Finished, main.at \in {"start", "sleep"}
    PROVE  \A t \in Tests : test[t] = "none"
BY DEF Finished, Reached

(* main starts the next server.                                            *)
LEMMA StartStep == ASSUME IInv, StartServer PROVE IInv'
<1>0. MainShape /\ TestShape /\ Servers /\ Counted /\ Finished
  BY DEF IInv
<1>1. /\ main.at = "start" /\ UNCHANGED <<plan, transfer, reader, wg, test, cnt, done, fatal, toServer, toClient>>
      /\ server' = [server EXCEPT ![main.i] = IF Std(main.i) THEN "starting" ELSE "up"]
      /\ wgShutdown' = wgShutdown + 1
      /\ main' = IF main.i < Last THEN [main EXCEPT !.i = @ + 1] ELSE [main EXCEPT !.at = "sleep", !.i = 1]
  BY DEF StartServer, MainAt, testSide, wires
<1>2. TestShape' /\ Running' = Running /\ \A t \in Tests : Talk(t)' /\ Attended(t)'
  BY <1>1, TestsStay
<1>3. /\ Last \in Nat /\ main.i \in 1..Last /\ Last' = Last /\ main.j \in 1..plan.rounds
      /\ main.k \in 1..Len(plan.urls) /\ plan \in Plans /\ plan' = plan
      /\ main \in [at : MainAts, i : 1..Last, j : 1..plan.rounds, k : 1..Len(plan.urls)]
  BY <1>0, <1>1, PlanFields DEF Last, MainShape
<1>4. /\ server \in [1..Last -> {"none", "starting", "up", "stopping", "down"}]
      /\ wgShutdown = main.i /\ transfer = "up"
      /\ \A i \in 1..Last : IF i < main.i THEN server[i] \in {"starting", "up"} ELSE server[i] = "none"
  BY <1>0, <1>1 DEF Servers
<1>5. /\ server' \in [1..Last -> {"none", "starting", "up", "stopping", "down"}]
      /\ server'[main.i] \in {"starting", "up"} /\ \A i \in 1..Last : i # main.i => server'[i] = server[i]
  BY <1>1, <1>3, <1>4
<1>6. \A t \in Tests : test[t] = "none"
  BY <1>0, <1>1, NoTestYet
<1>7. Counted'
  <2>1. main.at # "nbhttpDone" /\ main'.at # "nbhttpDone"
    BY <1>1, <1>3
  <2>2. QED
    BY <1>0, <1>1, <1>2, <2>1 DEF Counted
<1>8. Finished'
  BY <1>1, <1>6 DEF Finished, Over
<1>9. MainShape' /\ Servers'
  <2>1. CASE main.i < Last
    <3>1. main' = [main EXCEPT !.i = @ + 1] /\ main'.at = "start" /\ main'.i = main.i + 1
      BY <1>1, <1>3, <2>1
    <3>2. MainShape'
      BY <1>0, <1>1, <1>3, <2>1, <3>1 DEF MainShape, MainAts
    <3>3. Servers'
      BY <1>1, <1>3, <1>4, <1>5, <3>1 DEF Servers, Rounding
    <3>4. QED
      BY <3>2, <3>3
  <2>2. CASE ~(main.i < Last)
    <3>1. main' = [main EXCEPT !.at = "sleep", !.i = 1] /\ main'.at = "sleep" /\ main'.i = 1 /\ main.i = Last
      BY <1>1, <1>3, <2>2
    <3>2. MainShape'
      <4>1. "sleep" \in MainAts /\ 1 \in 1..Last
        BY <1>3 DEF MainAts
      <4>2. main' \in [at : MainAts, i : 1..Last, j : 1..plan.rounds, k : 1..Len(plan.urls)]
        BY <1>3, <3>1, <4>1
      <4>3. fatal' = FALSE
        BY <1>0, <1>1 DEF MainShape
      <4>4. QED
        BY <1>3, <4>2, <4>3 DEF MainShape
    <3>3. \A i \in 1..Last : server'[i] \in {"starting", "up"}
      BY <1>3, <1>4, <1>5, <3>1
    <3>4. Servers'
      BY <1>1, <1>3, <1>4, <1>5, <3>1, <3>3 DEF Servers, Rounding
    <3>5. QED
      BY <3>2, <3>4
  <2>3. QED
    BY <2>1, <2>2
<1>10. QED
  BY <1>2, <1>7, <1>8, <1>9 DEF IInv

(* What the steps of the servers leave alone.                              *)
LEMMA OnlyServersMove ==
    ASSUME IInv, UNCHANGED <<plan, main, reader, wg, testSide, wires>>
    PROVE  MainShape' /\ TestShape' /\ Counted' /\ Finished' /\ Last' = Last
           /\ \A t \in Tests : Talk(t)' /\ Attended(t)'
<1>0. MainShape /\ TestShape /\ Servers /\ Counted /\ Finished
  BY DEF IInv
<1>1. UNCHANGED <<plan, main, reader, wg, test, cnt, done, fatal, toServer, toClient>>
  BY DEF testSide, wires
<1>2. TestShape' /\ Running' = Running /\ \A t \in Tests : Talk(t)' /\ Attended(t)'
  BY <1>1, TestsStay
<1>3. Last' = Last
  BY <1>1 DEF Last
<1>4. MainShape'
  BY <1>0, <1>1, <1>3 DEF MainShape
<1>5. Counted'
  BY <1>0, <1>1, <1>2 DEF Counted
<1>6. Finished'
  BY <1>0, <1>1, Zenon DEF Finished, Reached, Over
<1>7. QED
  BY <1>2, <1>3, <1>4, <1>5, <1>6

(* A server of net/http listens.                                           *)
LEMMA ListenStep == ASSUME IInv, NEW i \in 1..Last, StdListens(i) PROVE IInv'
<1>0. MainShape /\ Servers
  BY DEF IInv
<1>1. /\ UNCHANGED <<plan, main, reader, wg, testSide, wires>> /\ transfer' = transfer /\ wgShutdown' = wgShutdown
      /\ server[i] = "starting" /\ server' = [server EXCEPT ![i] = "up"]
  BY DEF StdListens
<1>2. MainShape' /\ TestShape' /\ Counted' /\ Finished' /\ Last' = Last /\ \A t \in Tests : Talk(t)' /\ Attended(t)'
  BY <1>1, OnlyServersMove
<1>3. server \in [1..Last -> {"none", "starting", "up", "stopping", "down"}]
  BY <1>0 DEF Servers
<1>4. /\ server' \in [1..Last -> {"none", "starting", "up", "stopping", "down"}] /\ server'[i] = "up"
      /\ \A n \in 1..Last : n # i => server'[n] = server[n]
  BY <1>1, <1>3
<1>5. main.at \in MainAts
  BY <1>0, PlanFields
<1>6. main.at \in {"start", "sleep"}
  BY <1>0, <1>1, <1>5 DEF Servers, Rounding, MainAts
<1>7. Servers'
  BY <1>0, <1>1, <1>2, <1>4, <1>6 DEF Servers, Rounding
<1>8. QED
  BY <1>2, <1>7 DEF IInv

(* The shutdown functions begin, as many as there are servers to shut down.*)
LEMMA GoShutdownStep == ASSUME IInv, GoShutdown PROVE IInv'
<1>0. MainShape /\ TestShape /\ Servers /\ Counted /\ Finished
  BY DEF IInv
<1>1. /\ MainGoes("shutdown", "waitShutdown")
      /\ UNCHANGED <<plan, reader, wg, wgShutdown, test, cnt, done, fatal, toServer, toClient>>
      /\ server' = [i \in 1..Last |-> "stopping"] /\ transfer' = "stopping"
  BY DEF GoShutdown, testSide, wires
<1>2. TestShape' /\ Running' = Running /\ \A t \in Tests : Talk(t)' /\ Attended(t)'
  BY <1>1, TestsStay
<1>3. fatal' = FALSE
  BY <1>0, <1>1 DEF MainShape
<1>4. /\ MainShape' /\ main.at = "shutdown" /\ main'.at = "waitShutdown" /\ main'.i = main.i /\ main'.j = main.j
      /\ main'.k = main.k /\ Last' = Last
  BY <1>1, <1>3, MainGoesOn DEF MainAts
<1>5. Last \in Nat
  BY <1>0, PlanFields
<1>6. Cardinality(StillUp') = Last
  <2>1. StillUp' = 1..Last
    BY <1>1, <1>4 DEF StillUp
  <2>2. Cardinality(1..Last) = Last
    BY <1>5, FS_Interval
  <2>3. QED
    BY <2>1, <2>2
<1>7. Servers'
  BY <1>0, <1>1, <1>4, <1>5, <1>6 DEF Servers, Rounding
<1>8. Counted'
  BY <1>0, <1>1, <1>2, <1>4 DEF Counted
<1>9. Finished'
  BY <1>0, <1>1, <1>4 DEF Finished, Reached, Over, Leaving
<1>10. QED
  BY <1>2, <1>4, <1>7, <1>8, <1>9 DEF IInv

(* A shutdown function returns, and the wait group counts one less.        *)
LEMMA ShutdownStep ==
    ASSUME IInv, TransferShutdown \/ \E i \in 1..Last : ServerShutdown(i)
    PROVE  IInv'
<1>0. MainShape /\ Servers
  BY DEF IInv
<1>1. UNCHANGED <<plan, main, reader, wg, testSide, wires>> /\ wgShutdown' = wgShutdown - 1
  BY DEF TransferShutdown, ServerShutdown
<1>2. MainShape' /\ TestShape' /\ Counted' /\ Finished' /\ Last' = Last /\ \A t \in Tests : Talk(t)' /\ Attended(t)'
  BY <1>1, OnlyServersMove
<1>3. /\ server \in [1..Last -> {"none", "starting", "up", "stopping", "down"}]
      /\ Last \in Nat /\ main.at \in MainAts
  BY <1>0, PlanFields DEF Servers
<1>4. IsFiniteSet(StillUp) /\ Cardinality(StillUp) \in Nat
  <2>1. StillUp \in SUBSET (1..Last) /\ IsFiniteSet(1..Last)
    BY <1>3, FS_Interval DEF StillUp
  <2>2. QED
    BY <2>1, FS_Subset, FS_CardinalityType
<1>5. CASE TransferShutdown
  <2>1. transfer = "stopping" /\ transfer' = "down" /\ server' = server
    BY <1>5 DEF TransferShutdown
  <2>2. main.at \in {"waitShutdown", "returned"}
    BY <1>0, <1>3, <2>1 DEF Servers, Rounding, MainAts
  <2>3. StillUp' = StillUp
    BY <1>2, <2>1 DEF StillUp
  <2>4. Servers'
    BY <1>0, <1>1, <1>2, <1>4, <2>1, <2>2, <2>3 DEF Servers, Rounding
  <2>5. QED
    BY <1>2, <2>4 DEF IInv
<1>6. CASE \E i \in 1..Last : ServerShutdown(i)
  <2>1. PICK i \in 1..Last : ServerShutdown(i)
    BY <1>6
  <2>2. server[i] = "stopping" /\ transfer' = transfer /\ server' = [server EXCEPT ![i] = "down"]
    BY <2>1 DEF ServerShutdown
  <2>3. main.at \in {"waitShutdown", "returned"}
    BY <1>0, <1>3, <2>2 DEF Servers, Rounding, MainAts
  <2>4. StillUp' = StillUp \ {i} /\ i \in StillUp
    BY <1>2, <1>3, <2>2 DEF StillUp
  <2>5. Cardinality(StillUp') = Cardinality(StillUp) - 1
    BY <1>4, <2>4, FS_RemoveElement
  <2>6. /\ server' \in [1..Last -> {"none", "starting", "up", "stopping", "down"}] /\ server'[i] = "down"
        /\ \A n \in 1..Last : n # i => server'[n] = server[n]
    BY <1>3, <2>2
  <2>7. Servers'
    BY <1>0, <1>1, <1>2, <1>4, <2>2, <2>3, <2>5, <2>6 DEF Servers, Rounding
  <2>8. QED
    BY <1>2, <2>7 DEF IInv
<1>7. QED
  BY <1>5, <1>6

(* Nobody waits for is nobody left: the wait group is zero once every test *)
(* that was started is over, and main goes on.                             *)
LEMMA WaitClientsStep == ASSUME IInv, WaitClients PROVE IInv'
<1>0. MainShape /\ TestShape /\ Servers /\ Counted /\ Finished
  BY DEF IInv
<1>1. /\ main.at = "wait" /\ wg = 0
      /\ UNCHANGED <<plan, server, transfer, reader, wg, wgShutdown, test, cnt, done, fatal, toServer, toClient>>
      /\ main' = IF main.i < Last THEN [main EXCEPT !.at = "http", !.i = @ + 1, !.j = 1]
                                  ELSE [main EXCEPT !.at = "shutdown"]
  BY DEF WaitClients, MainAt, serverSide, testSide, wires
<1>2. TestShape' /\ Running' = Running /\ \A t \in Tests : Talk(t)' /\ Attended(t)'
  BY <1>1, TestsStay
<1>3. /\ Last \in Nat /\ main.i \in 1..Last /\ Last' = Last /\ main.j \in 1..plan.rounds
      /\ 1 \in 1..plan.rounds /\ main.k \in 1..Len(plan.urls) /\ plan \in Plans /\ plan' = plan
      /\ main \in [at : MainAts, i : 1..Last, j : 1..plan.rounds, k : 1..Len(plan.urls)]
      /\ fatal' = FALSE
  <2>1. /\ Last \in 1..MaxAddrs /\ MaxAddrs \in Nat /\ main.i \in 1..Last /\ main.j \in 1..plan.rounds
        /\ plan.rounds \in 1..MaxRounds /\ MaxRounds \in Nat /\ main.k \in 1..Len(plan.urls)
    BY <1>0, PlanFields
  <2>2. plan \in Plans /\ main \in [at : MainAts, i : 1..Last, j : 1..plan.rounds, k : 1..Len(plan.urls)]
    BY <1>0 DEF MainShape
  <2>3. Last' = Last /\ plan' = plan /\ fatal' = FALSE
    BY <1>0, <1>1 DEF Last, MainShape
  <2>4. QED
    BY <2>1, <2>2, <2>3
<1>4. \A t \in Tests : Over(t)
  <2>1. IsFiniteSet(Running) /\ Cardinality(Running) = 0
    <3>1. Cardinality(Running) \in Nat /\ IsFiniteSet(Running)
      BY RunningIsFinite
    <3>2. QED
      BY <1>0, <1>1, <3>1 DEF Counted
  <2>2. Running = {}
    BY <2>1, FS_EmptySet
  <2>3. QED
    BY <2>2 DEF Running
<1>5. /\ main'.at \in {"http", "shutdown"} /\ main'.i \in 1..Last /\ main.i =< main'.i
      /\ main' \in [at : MainAts, i : 1..Last, j : 1..plan.rounds, k : 1..Len(plan.urls)]
      /\ main'.i = main.i => main'.at = "shutdown"
  <2>1. "http" \in MainAts /\ "shutdown" \in MainAts
    BY DEF MainAts
  <2>2. CASE main.i < Last
    <3>1. main' = [main EXCEPT !.at = "http", !.i = @ + 1, !.j = 1] /\ main.i + 1 \in 1..Last
      BY <1>1, <1>3, <2>2
    <3>2. main' \in [at : MainAts, i : 1..Last, j : 1..plan.rounds, k : 1..Len(plan.urls)]
      BY <1>3, <2>1, <3>1
    <3>3. main'.at = "http" /\ main'.i = main.i + 1
      BY <1>3, <3>1
    <3>4. QED
      BY <1>3, <3>1, <3>2, <3>3
  <2>3. CASE ~(main.i < Last)
    <3>1. main' = [main EXCEPT !.at = "shutdown"]
      BY <1>1, <2>3
    <3>2. main' \in [at : MainAts, i : 1..Last, j : 1..plan.rounds, k : 1..Len(plan.urls)]
      BY <1>3, <2>1, <3>1
    <3>3. main'.at = "shutdown" /\ main'.i = main.i
      BY <1>3, <3>1
    <3>4. QED
      BY <1>3, <3>2, <3>3
  <2>4. QED
    BY <2>2, <2>3
<1>6. MainShape'
  BY <1>3, <1>5 DEF MainShape
<1>7. Servers'
  BY <1>0, <1>1, <1>3, <1>5 DEF Servers, Rounding
<1>8. Counted'
  BY <1>0, <1>1, <1>2, <1>5 DEF Counted
<1>9. Finished'
  <2>1. \A t \in Tests : Over(t)'
    BY <1>1, <1>4 DEF Over
  <2>2. ASSUME NEW t \in Tests, test[t]' # "none" PROVE Reached(t)'
    <3>1. Reached(t) /\ t.i \in 1..MaxAddrs /\ MaxAddrs \in Nat
      BY <1>0, <1>1, <2>2, TestFields, PlanFields DEF Finished
    <3>2. t.i =< main.i /\ t.k =< Len(plan.urls)
      BY <3>1 DEF Reached
    <3>3. t.i =< main'.i /\ main'.at \notin {"start", "sleep"} /\ (t.i < main'.i \/ main'.at = "shutdown")
      BY <1>3, <1>5, <3>1, <3>2
    <3>4. QED
      BY <1>3, <3>2, <3>3 DEF Reached, Leaving
  <2>3. QED
    BY <2>1, <2>2 DEF Finished
<1>10. QED
  BY <1>2, <1>6, <1>7, <1>8, <1>9 DEF IInv

(* A websocket test is started, one that was not before.                   *)
Place(client) == [i |-> main.i, j |-> main.j, k |-> main.k, client |-> client]

LEMMA GoTestStep ==
    ASSUME IInv, GoNbTests \/ GoGorillaTests
    PROVE  IInv'
<1>0. MainShape /\ TestShape /\ Servers /\ Counted /\ Finished /\ \A t \in Tests : Talk(t) /\ Attended(t)
  BY DEF IInv
<1>1. /\ Last \in 1..MaxAddrs /\ Len(plan.urls) \in 1..MaxUrls /\ plan.rounds \in 1..MaxRounds
      /\ MaxAddrs \in Nat /\ MaxRounds \in Nat /\ MaxUrls \in Nat
      /\ main.i \in 1..Last /\ main.j \in 1..plan.rounds /\ main.k \in 1..Len(plan.urls) /\ plan \in Plans
      /\ main \in [at : MainAts, i : 1..Last, j : 1..plan.rounds, k : 1..Len(plan.urls)]
  BY <1>0, PlanFields DEF MainShape
<1>2. PICK client \in Clients :
         /\ main.at = IF client = "nb" THEN "goNb" ELSE "goGorilla"
         /\ test' = [test EXCEPT ![Place(client)] = "dial"] /\ wg' = wg + 1
         /\ UNCHANGED <<plan, server, transfer, reader, wgShutdown, cnt, done, fatal, toServer, toClient>>
         /\ main' = IF main.k < Len(plan.urls) THEN [main EXCEPT !.k = @ + 1]
                    ELSE IF client = "nb" THEN [main EXCEPT !.at = "goGorilla", !.k = 1]
                    ELSE IF main.j < plan.rounds THEN [main EXCEPT !.at = "http", !.j = @ + 1, !.k = 1]
                    ELSE [main EXCEPT !.at = "wait", !.k = 1]
  <2>1. "nb" \in Clients /\ "gorilla" \in Clients /\ "nb" # "gorilla"
    BY DEF Clients
  <2>2. CASE GoNbTests
    BY <2>1, <2>2, Zenon DEF GoNbTests, GoTest, MainAt, Place, serverSide, wires
  <2>3. CASE GoGorillaTests
    BY <2>1, <2>3, Zenon DEF GoGorillaTests, GoTest, MainAt, Place, serverSide, wires
  <2>4. QED
    BY <2>2, <2>3
<1> DEFINE t0 == Place(client)
<1>3. t0 \in Tests /\ t0.i = main.i /\ t0.j = main.j /\ t0.k = main.k /\ t0.client = client
  <2>1. main.i \in 1..MaxAddrs /\ main.j \in 1..MaxRounds /\ main.k \in 1..MaxUrls
    BY <1>1
  <2>2. client \in {"nb", "gorilla"}
    BY DEF Clients
  <2>3. QED
    BY <2>1, <2>2 DEF Tests, Place
<1> HIDE DEF t0
<1>4. ~Reached(t0)
  <2>1. CASE client = "nb"
    BY <1>1, <1>2, <1>3, <2>1 DEF Reached, Leaving
  <2>2. CASE client = "gorilla"
    BY <1>1, <1>2, <1>3, <2>2 DEF Reached, Leaving
  <2>3. QED
    BY <2>1, <2>2 DEF Clients
<1>5. test[t0] = "none"
  BY <1>0, <1>3, <1>4 DEF Finished
<1>6. test' = [test EXCEPT ![t0] = "dial"]
  BY <1>2 DEF t0
<1>7. test' \in [Tests -> TestAts] /\ test'[t0] = "dial" /\ \A t \in Tests : t # t0 => test'[t] = test[t]
  <2>1. test \in [Tests -> TestAts] /\ "dial" \in TestAts
    BY <1>0 DEF TestShape, TestAts
  <2>2. QED
    BY <1>3, <1>6, <2>1
<1>8. Last' = Last /\ plan' = plan /\ fatal' = FALSE
  BY <1>0, <1>2 DEF Last, MainShape
<1>9. MainShape'
  <2>1. "goGorilla" \in MainAts /\ "http" \in MainAts /\ "wait" \in MainAts /\ 1 \in 1..Len(plan.urls)
    BY <1>1 DEF MainAts
  <2>2. main' \in [at : MainAts, i : 1..Last, j : 1..plan.rounds, k : 1..Len(plan.urls)]
    <3>1. CASE main.k < Len(plan.urls)
      BY <1>1, <1>2, <3>1, SMTT(30)
    <3>2. CASE ~(main.k < Len(plan.urls)) /\ client = "nb"
      BY <1>1, <1>2, <2>1, <3>2
    <3>3. CASE ~(main.k < Len(plan.urls)) /\ client # "nb" /\ main.j < plan.rounds
      <4>1. main' = [main EXCEPT !.at = "http", !.j = @ + 1, !.k = 1] /\ main.j + 1 \in 1..plan.rounds
        BY <1>1, <1>2, <3>3, SMTT(30)
      <4>2. QED
        BY <1>1, <2>1, <4>1
    <3>4. CASE ~(main.k < Len(plan.urls)) /\ client # "nb" /\ ~(main.j < plan.rounds)
      BY <1>1, <1>2, <2>1, <3>4
    <3>5. QED
      BY <3>1, <3>2, <3>3, <3>4
  <2>3. QED
    BY <1>1, <1>8, <2>2 DEF MainShape
<1>10. /\ main'.i = main.i /\ main'.at \in {"goNb", "goGorilla", "http", "wait"}
       /\ \A t \in Tests : Reached(t) \/ t = t0 => Reached(t)'
  <2>1. ASSUME NEW t \in Tests, Reached(t) \/ t = t0
        PROVE  /\ t.i \in Nat /\ t.j \in Nat /\ t.k \in Nat /\ t.client \in Clients
               /\ t.i =< main.i /\ t.k =< Len(plan.urls)
               /\ \/ t.i < main.i \/ t.j < main.j
                  \/ t.j = main.j /\ client = "nb" /\ t.client = "nb" /\ t.k =< main.k
                  \/ t.j = main.j /\ client = "gorilla" /\ (t.client = "nb" \/ t.k =< main.k)
    <3>1. t.i \in Nat /\ t.j \in Nat /\ t.k \in Nat /\ t.client \in Clients
      BY TestFields, <1>1, SMTT(30)
    <3>2. CASE Reached(t)
      BY <1>1, <1>2, <3>1, <3>2 DEF Reached, Clients, Leaving
    <3>3. CASE t = t0
      BY <1>1, <1>2, <1>3, <3>1, <3>3 DEF Clients
    <3>4. QED
      BY <2>1, <3>1, <3>2, <3>3
  <2>2. CASE main.k < Len(plan.urls)
    <3>1. main'.i = main.i /\ main'.j = main.j /\ main'.k = main.k + 1 /\ main'.at = main.at
      BY <1>1, <1>2, <2>2
    <3>2. \A t \in Tests : Reached(t) \/ t = t0 => Reached(t)'
      BY <1>1, <1>2, <1>8, <2>1, <3>1, SMTT(30) DEF Reached, Clients
    <3>3. QED
      BY <1>2, <3>1, <3>2
  <2>3. CASE ~(main.k < Len(plan.urls)) /\ client = "nb"
    <3>1. main'.i = main.i /\ main'.j = main.j /\ main'.k = 1 /\ main'.at = "goGorilla"
      BY <1>1, <1>2, <2>3
    <3>2. \A t \in Tests : Reached(t) \/ t = t0 => Reached(t)'
      BY <1>1, <1>2, <1>8, <2>1, <2>3, <3>1 DEF Reached, Clients
    <3>3. QED
      BY <3>1, <3>2
  <2>4. CASE ~(main.k < Len(plan.urls)) /\ client # "nb" /\ main.j < plan.rounds
    <3>1. main'.i = main.i /\ main'.j = main.j + 1 /\ main'.k = 1 /\ main'.at = "http"
      BY <1>1, <1>2, <2>4
    <3>2. \A t \in Tests : Reached(t) \/ t = t0 => Reached(t)'
      BY <1>1, <1>2, <1>8, <2>1, <2>4, <3>1 DEF Reached, Clients
    <3>3. QED
      BY <3>1, <3>2
  <2>5. CASE ~(main.k < Len(plan.urls)) /\ client # "nb" /\ ~(main.j < plan.rounds)
    <3>1. main'.i = main.i /\ main'.j = main.j /\ main'.k = 1 /\ main'.at = "wait"
      BY <1>1, <1>2, <2>5
    <3>2. \A t \in Tests : Reached(t) \/ t = t0 => Reached(t)'
      BY <1>1, <1>2, <1>8, <2>1, <2>5, <3>1 DEF Reached, Clients
    <3>3. QED
      BY <3>1, <3>2
  <2>6. QED
    BY <2>2, <2>3, <2>4, <2>5
<1>11. TestShape'
  BY <1>0, <1>2, <1>7 DEF TestShape
<1>12. Servers'
  BY <1>0, <1>2, <1>8, <1>10 DEF Servers, Rounding
<1>13. Counted'
  <2>1. Running' = Running \cup {t0} /\ t0 \notin Running
    BY <1>3, <1>5, <1>7 DEF Running, Over
  <2>2. Cardinality(Running') = Cardinality(Running) + 1 /\ Cardinality(Running) \in Nat
    BY <2>1, RunningIsFinite, FS_AddElement
  <2>3. main.at # "nbhttpDone" /\ main'.at # "nbhttpDone"
    BY <1>2, <1>10
  <2>4. QED
    BY <1>0, <1>2, <2>2, <2>3 DEF Counted
<1>14. Finished'
  <2>1. \A t \in Tests : test'[t] # "none" => Reached(t)'
    BY <1>0, <1>7, <1>10 DEF Finished
  <2>2. ASSUME NEW t \in Tests, t.i < main'.i \/ main'.at \in Leaving PROVE Over(t)'
    <3>1. t.i < main.i
      BY <1>10, <2>2 DEF Leaving
    <3>2. t # t0
      BY <1>1, <1>3, <3>1
    <3>3. QED
      BY <1>0, <1>7, <3>1, <3>2 DEF Finished, Over
  <2>3. QED
    BY <2>1, <2>2 DEF Finished
<1>15. ASSUME NEW t \in Tests PROVE Talk(t)' /\ Attended(t)'
  <2>1. Wire(t)' = Wire(t)
    BY <1>2 DEF Wire
  <2>2. CASE t # t0
    BY <1>0, <1>2, <1>7, <2>1, <2>2, Zenon DEF Talk, Attended
  <2>3. CASE t = t0
    <3>1. Talk(t) /\ Attended(t) /\ test[t] = "none" /\ test'[t] = "dial" /\ t.client \in Clients
      BY <1>0, <1>5, <1>7, <2>3, TestFields
    <3>2. cnt[t] = 0 /\ Wire(t) = <<>> /\ reader[t] = "none" /\ t \notin done
      BY <3>1 DEF Talk, Attended, Exchange
    <3>3. Exchange("dial", t.client, 0, <<>>)
      BY <3>1 DEF Exchange, Clients
    <3>4. QED
      BY <1>2, <2>1, <3>1, <3>2, <3>3 DEF Talk, Attended
  <2>4. QED
    BY <2>2, <2>3
<1>16. QED
  BY <1>9, <1>11, <1>12, <1>13, <1>14, <1>15 DEF IInv

(* A step of one test, or of its connection, which neither begins nor ends *)
(* the test, leaves the rest as it was.                                    *)
LEMMA OneTest ==
    ASSUME IInv, NEW t \in Tests, TestShape', fatal' = FALSE,
           UNCHANGED <<plan, main, server, transfer, wg, wgShutdown>>,
           \A u \in Tests : u # t =>
              /\ test'[u] = test[u] /\ reader'[u] = reader[u] /\ cnt'[u] = cnt[u]
              /\ toServer'[u] = toServer[u] /\ toClient'[u] = toClient[u] /\ (u \in done' <=> u \in done),
           test'[t] = test[t] \/ (~Over(t) /\ ~Over(t)'),
           Talk(t)', Attended(t)'
    PROVE  IInv'
<1>0. MainShape /\ Servers /\ Counted /\ Finished /\ \A u \in Tests : Talk(u) /\ Attended(u)
  BY DEF IInv
<1>1. Last' = Last /\ main' = main
  BY DEF Last
<1>2. MainShape'
  BY <1>0, <1>1 DEF MainShape
<1>3. Servers'
  <2>1. StillUp' = StillUp
    BY <1>1 DEF StillUp
  <2>2. QED
    BY <1>0, <1>1, <2>1, Zenon DEF Servers
<1>4. \A u \in Tests : Over(u)' <=> Over(u)
  BY DEF Over
<1>5. Counted'
  <2>1. Running' = Running
    BY <1>4 DEF Running
  <2>2. QED
    BY <1>0, <1>1, <2>1 DEF Counted
<1>6. Finished'
  <2>1. \A u \in Tests : Reached(u)' <=> Reached(u)
    BY <1>1, Zenon DEF Reached
  <2>2. \A u \in Tests : test'[u] # "none" => test[u] # "none"
    BY DEF Over
  <2>3. QED
    BY <1>0, <1>1, <1>4, <2>1, <2>2 DEF Finished
<1>7. ASSUME NEW u \in Tests PROVE Talk(u)' /\ Attended(u)'
  <2>1. CASE u = t
    BY <2>1
  <2>2. CASE u # t
    <3>1. Wire(u)' = Wire(u)
      BY <2>2 DEF Wire
    <3>2. QED
      BY <1>0, <2>2, <3>1, Zenon DEF Talk, Attended
  <2>3. QED
    BY <2>1, <2>2
<1>8. QED
  BY <1>2, <1>3, <1>5, <1>6, <1>7 DEF IInv

(* A test that runs is of the address main has come to, whose server is up.*)
LEMMA ServerIsThere ==
    ASSUME IInv, NEW t \in Tests, ~Over(t)
    PROVE  server[t.i] = "up" /\ main.at \in Rounding /\ t.i \in 1..Last /\ t.k \in 1..Len(plan.urls)
<1>1. MainShape /\ Servers /\ Finished
  BY DEF IInv
<1>2. main.at \in MainAts /\ main.i \in 1..Last /\ Last \in Nat /\ Len(plan.urls) \in Nat
  BY <1>1, PlanFields
<1>3. t.i \in Nat \ {0} /\ t.k \in Nat \ {0}
  <2>1. MaxAddrs \in Nat /\ MaxUrls \in Nat
    BY PlansFit
  <2>2. QED
    BY <2>1, TestFields
<1>4. Reached(t) /\ ~(t.i < main.i) /\ main.at \notin Leaving
  BY <1>1 DEF Finished, Over
<1>5. t.i =< main.i /\ t.k =< Len(plan.urls) /\ main.at \notin {"start", "sleep"}
  BY <1>4 DEF Reached
<1>6. main.at \in Rounding /\ t.i \in 1..Last /\ t.k \in 1..Len(plan.urls)
  BY <1>2, <1>3, <1>4, <1>5 DEF MainAts, Leaving, Rounding
<1>7. QED
  BY <1>1, <1>6 DEF Servers

(* A test dials the server of its address, which upgrades the connection.  *)
LEMMA DialStep == ASSUME IInv, NEW t \in Tests, Dial(t) PROVE IInv'
<1>0. MainShape /\ TestShape /\ Talk(t) /\ Attended(t)
  BY DEF IInv
<1>1. test[t] = "dial" /\ test' = [test EXCEPT ![t] = "text"] /\ fatal' = (server[t.i] # "up")
      /\ UNCHANGED <<plan, main, server, transfer, wg, wgShutdown, cnt, done, toServer, toClient>>
  BY DEF Dial, TestGoes, TestAt, wires
<1>2. ~Over(t)
  BY <1>1 DEF Over
<1>3. server[t.i] = "up" /\ t.k \in 1..Len(plan.urls)
  BY <1>2, ServerIsThere
<1>4. fatal' = FALSE
  BY <1>1, <1>3
<1>5. Url(t) \in {"upgrade", "transfer", "handleRead"}
  BY <1>0, <1>3, PlanFields DEF Url
<1>6. PICK r \in {"server", "transfer", "handler"} : reader' = [reader EXCEPT ![t] = r]
  <2>1. Std(t.i) \in BOOLEAN
    BY DEF Std
  <2>2. CASE ~Std(t.i) \/ Url(t) = "upgrade"
    <3>1. reader' = [reader EXCEPT ![t] = "server"]
      BY <2>2, <1>5 DEF Dial
    <3>2. QED
      BY <3>1
  <2>3. CASE Std(t.i) /\ Url(t) = "transfer"
    <3>1. reader' = [reader EXCEPT ![t] = "transfer"]
      BY <2>3 DEF Dial
    <3>2. QED
      BY <3>1
  <2>4. CASE Std(t.i) /\ Url(t) = "handleRead"
    <3>1. reader' = [reader EXCEPT ![t] = "handler"]
      BY <2>4 DEF Dial
    <3>2. QED
      BY <3>1
  <2>5. QED
    BY <1>5, <2>1, <2>2, <2>3, <2>4
<1>7. /\ test' \in [Tests -> TestAts] /\ test'[t] = "text" /\ reader' \in [Tests -> Readers]
      /\ \A u \in Tests : u # t => test'[u] = test[u] /\ reader'[u] = reader[u]
  <2>1. test \in [Tests -> TestAts] /\ reader \in [Tests -> Readers] /\ "text" \in TestAts /\ r \in Readers
    BY <1>0 DEF TestShape, TestAts, Readers
  <2>2. QED
    BY <1>1, <1>6, <2>1
<1>8. TestShape'
  BY <1>0, <1>1, <1>7 DEF TestShape
<1>9. Talk(t)'
  <2>1. cnt[t] = 0 /\ Wire(t) = <<>> /\ t \notin done
    BY <1>0, <1>1 DEF Talk, Exchange
  <2>2. Wire(t)' = <<>> /\ cnt'[t] = 0 /\ t \notin done'
    BY <1>1, <2>1 DEF Wire
  <2>3. Exchange("text", t.client, 0, <<>>)
    BY TestFields DEF Exchange, Clients
  <2>4. QED
    BY <1>7, <2>2, <2>3 DEF Talk
<1>10. Attended(t)'
  BY <1>7 DEF Attended
<1>11. ~Over(t)'
  BY <1>7 DEF Over
<1>12. QED
  BY <1>1, <1>2, <1>4, <1>7, <1>8, <1>9, <1>10, <1>11, OneTest

(* A goroutine of the handler begins to read the connection.               *)
LEMMA HandleReadStep == ASSUME IInv, NEW t \in Tests, HandleRead(t) PROVE IInv'
<1>0. MainShape /\ TestShape /\ Talk(t) /\ Attended(t)
  BY DEF IInv
<1>1. /\ reader[t] = "handler" /\ reader' = [reader EXCEPT ![t] = "server"]
      /\ UNCHANGED <<plan, main, server, transfer, wg, wgShutdown, test, cnt, done, fatal, toServer, toClient>>
  BY DEF HandleRead, testSide, wires
<1>2. reader' \in [Tests -> Readers] /\ reader'[t] = "server" /\ \A u \in Tests : u # t => reader'[u] = reader[u]
  <2>1. reader \in [Tests -> Readers] /\ "server" \in Readers
    BY <1>0 DEF TestShape, Readers
  <2>2. QED
    BY <1>1, <2>1
<1>3. TestShape' /\ fatal' = FALSE
  BY <1>0, <1>1, <1>2 DEF TestShape, MainShape
<1>4. Talk(t)'
  BY <1>0, <1>1, Zenon DEF Talk, Wire
<1>5. Attended(t)'
  BY <1>0, <1>1, <1>2 DEF Attended
<1>6. test'[t] = test[t]
  BY <1>1
<1>7. QED
  BY <1>1, <1>2, <1>3, <1>4, <1>5, <1>6, OneTest

(* The server echoes the next message: the wire holds what it held.        *)
LEMMA EchoStep == ASSUME IInv, NEW t \in Tests, Echo(t) PROVE IInv'
<1>0. MainShape /\ TestShape /\ Talk(t) /\ Attended(t)
  BY DEF IInv
<1>1. /\ toServer[t] # <<>> /\ toServer' = [toServer EXCEPT ![t] = Tail(@)]
      /\ toClient' = [toClient EXCEPT ![t] = Append(@, Head(toServer[t]))]
      /\ UNCHANGED <<plan, main, server, transfer, reader, wg, wgShutdown, test, cnt, done, fatal>>
  BY DEF Echo, serverSide, testSide
<1>2. toServer \in [Tests -> Seq(Types)] /\ toClient \in [Tests -> Seq(Types)]
  BY <1>0 DEF TestShape
<1>3. toServer[t] \in Seq(Types) /\ toClient[t] \in Seq(Types)
  BY <1>2
<1>4. /\ Append(toClient[t], Head(toServer[t])) \o Tail(toServer[t]) = toClient[t] \o toServer[t]
      /\ Append(toClient[t], Head(toServer[t])) \in Seq(Types) /\ Tail(toServer[t]) \in Seq(Types)
  BY <1>1, <1>3, WireMoves
<1>5. /\ toServer' \in [Tests -> Seq(Types)] /\ toClient' \in [Tests -> Seq(Types)]
      /\ toServer'[t] = Tail(toServer[t]) /\ toClient'[t] = Append(toClient[t], Head(toServer[t]))
      /\ \A u \in Tests : u # t => toServer'[u] = toServer[u] /\ toClient'[u] = toClient[u]
  BY <1>1, <1>2, <1>4
<1>6. TestShape' /\ fatal' = FALSE
  BY <1>0, <1>1, <1>5 DEF TestShape, MainShape
<1>7. Wire(t)' = Wire(t)
  BY <1>4, <1>5 DEF Wire
<1>8. Talk(t)' /\ Attended(t)'
  BY <1>0, <1>1, <1>7, Zenon DEF Talk, Attended
<1>9. test'[t] = test[t]
  BY <1>1
<1>10. QED
  BY <1>1, <1>5, <1>6, <1>8, <1>9, OneTest

(* A test writes its next message.                                         *)
LEMMA WriteStep == ASSUME IInv, NEW t \in Tests, Write(t) PROVE IInv'
<1>0. MainShape /\ TestShape /\ Talk(t) /\ Attended(t) /\ t.client \in Clients
  BY TestFields DEF IInv
<1>1. UNCHANGED <<plan, main, server, transfer, reader, wg, wgShutdown, cnt, done, fatal, toClient>>
  BY DEF Write, serverSide
<1>2. PICK type \in Types :
         /\ TestGoes(t, type, CASE t.client = "gorilla" /\ type = "text" -> "textBack"
                                [] t.client = "gorilla" /\ type = "binary" -> "binaryBack"
                                [] t.client = "nb" /\ type = "text" -> "binary"
                                [] t.client = "nb" /\ type = "binary" -> "wait")
         /\ toServer' = [toServer EXCEPT ![t] = Append(@, type)]
  BY DEF Write
<1>3. test[t] = type /\ type \in {"text", "binary"} /\ type \in Types
  BY <1>2 DEF TestGoes, TestAt, Types
<1>4. PICK to \in {"textBack", "binaryBack", "binary", "wait"} :
         /\ test' = [test EXCEPT ![t] = to]
         /\ to = "textBack" => t.client = "gorilla" /\ type = "text"
         /\ to = "binaryBack" => t.client = "gorilla" /\ type = "binary"
         /\ to = "binary" => t.client = "nb" /\ type = "text"
         /\ to = "wait" => t.client = "nb" /\ type = "binary"
  <2>1. CASE t.client = "gorilla" /\ type = "text"
    <3>1. test' = [test EXCEPT ![t] = "textBack"]
      BY <1>2, <2>1 DEF TestGoes
    <3>2. QED
      BY <2>1, <3>1
  <2>2. CASE t.client = "gorilla" /\ type = "binary"
    <3>1. test' = [test EXCEPT ![t] = "binaryBack"]
      BY <1>2, <2>2 DEF TestGoes
    <3>2. QED
      BY <2>2, <3>1
  <2>3. CASE t.client = "nb" /\ type = "text"
    <3>1. test' = [test EXCEPT ![t] = "binary"]
      BY <1>2, <2>3 DEF TestGoes
    <3>2. QED
      BY <2>3, <3>1
  <2>4. CASE t.client = "nb" /\ type = "binary"
    <3>1. test' = [test EXCEPT ![t] = "wait"]
      BY <1>2, <2>4 DEF TestGoes
    <3>2. QED
      BY <2>4, <3>1
  <2>5. QED
    BY <1>0, <1>3, <2>1, <2>2, <2>3, <2>4 DEF Clients
<1>5. /\ test' \in [Tests -> TestAts] /\ test'[t] = to /\ \A u \in Tests : u # t => test'[u] = test[u]
  <2>1. test \in [Tests -> TestAts] /\ to \in TestAts
    BY <1>0 DEF TestShape, TestAts
  <2>2. QED
    BY <1>4, <2>1
<1>6. toServer \in [Tests -> Seq(Types)] /\ toClient[t] \in Seq(Types) /\ toServer[t] \in Seq(Types)
  BY <1>0 DEF TestShape
<1>7. toClient[t] \o Append(toServer[t], type) = Append(toClient[t] \o toServer[t], type)
      /\ Append(toServer[t], type) \in Seq(Types)
  <2>1. type \in Types /\ toClient[t] \in Seq(Types) /\ toServer[t] \in Seq(Types)
    BY <1>3, <1>6
  <2>2. \A a, b \in Seq(Types) : \A m \in Types : a \o Append(b, m) = Append(a \o b, m) /\ Append(b, m) \in Seq(Types)
    BY WireGrows
  <2>3. QED
    BY <2>1, <2>2
<1>8. /\ toServer' \in [Tests -> Seq(Types)] /\ toServer'[t] = Append(toServer[t], type)
      /\ \A u \in Tests : u # t => toServer'[u] = toServer[u]
  BY <1>2, <1>6, <1>7
<1>9. TestShape' /\ fatal' = FALSE
  BY <1>0, <1>1, <1>5, <1>8 DEF TestShape, MainShape
<1>10. ~Over(t) /\ ~Over(t)'
  BY <1>3, <1>4, <1>5 DEF Over
<1>11. Attended(t)'
  BY <1>4, <1>5 DEF Attended
<1>12. Wire(t)' = Append(Wire(t), type)
  BY <1>1, <1>7, <1>8 DEF Wire
<1>13. Talk(t)'
  <2>1. Exchange(test[t], t.client, cnt[t], Wire(t)) /\ (t \in done <=> cnt[t] = 2)
    BY <1>0 DEF Talk
  <2>2. Append(<<>>, "text") = <<"text">> /\ Append(<<>>, "binary") = <<"binary">>
        /\ Append(<<"text">>, "binary") = <<"text", "binary">>
    <3>1. \A m : Append(<<>>, m) = <<m>>
      OBVIOUS
    <3>2. Append(<<"text">>, "binary") = <<"text", "binary">>
      <4>1. <<"text">> \in Seq(Types) /\ "binary" \in Types /\ Len(<<"text">>) = 1
        BY DEF Types
      <4>2. /\ Append(<<"text">>, "binary") \in Seq(Types) /\ Len(Append(<<"text">>, "binary")) = 2
            /\ Append(<<"text">>, "binary")[1] = "text" /\ Append(<<"text">>, "binary")[2] = "binary"
        BY <4>1
      <4>3. <<"text", "binary">> \in Seq(Types) /\ Len(<<"text", "binary">>) = 2
        BY DEF Types
      <4>4. \A n \in 1..2 : Append(<<"text">>, "binary")[n] = <<"text", "binary">>[n]
        BY <4>2
      <4>5. QED
        BY <4>2, <4>3, <4>4, SeqEqual
    <3>3. QED
      BY <3>1, <3>2
  <2>3. CASE t.client = "gorilla"
    <3>1. cnt[t] = 0 /\ Wire(t) = <<>>
      BY <1>3, <2>1, <2>3 DEF Exchange
    <3>2. Exchange(to, t.client, 0, Append(<<>>, type))
      BY <1>3, <1>4, <2>2, <2>3 DEF Exchange
    <3>3. QED
      BY <1>1, <1>5, <1>12, <2>1, <3>1, <3>2 DEF Talk
  <2>4. CASE t.client = "nb" /\ type = "text"
    <3>1. cnt[t] = 0 /\ Wire(t) = <<>> /\ to = "binary"
      BY <1>3, <1>4, <2>1, <2>4 DEF Exchange
    <3>2. Exchange("binary", "nb", 0, <<"text">>)
      BY DEF Exchange
    <3>3. QED
      BY <1>1, <1>5, <1>12, <2>1, <2>2, <2>4, <3>1, <3>2 DEF Talk
  <2>5. CASE t.client = "nb" /\ type = "binary"
    <3>1. to = "wait" /\ ((cnt[t] = 0 /\ Wire(t) = <<"text">>) \/ (cnt[t] = 1 /\ Wire(t) = <<>>))
      BY <1>3, <1>4, <2>1, <2>5 DEF Exchange
    <3>2. Exchange("wait", "nb", 0, <<"text", "binary">>) /\ Exchange("wait", "nb", 1, <<"binary">>)
      BY DEF Exchange
    <3>3. Exchange(to, t.client, cnt[t], Append(Wire(t), type))
      BY <2>2, <2>5, <3>1, <3>2
    <3>4. QED
      BY <1>1, <1>5, <1>12, <2>1, <3>3 DEF Talk
  <2>6. QED
    BY <1>0, <1>3, <2>3, <2>4, <2>5 DEF Clients
<1>14. QED
  BY <1>1, <1>5, <1>8, <1>9, <1>10, <1>11, <1>13, OneTest

(* A test of gorilla reads the echo of what it sent last, of the same type.*)
LEMMA ReadEchoStep == ASSUME IInv, NEW t \in Tests, ReadEcho(t) PROVE IInv'
<1>0. MainShape /\ TestShape /\ Talk(t) /\ Attended(t) /\ t.client \in Clients
  BY TestFields DEF IInv
<1>1. /\ UNCHANGED <<plan, main, server, transfer, reader, wg, wgShutdown, cnt, done, toServer>>
      /\ toClient[t] # <<>> /\ toClient' = [toClient EXCEPT ![t] = Tail(@)]
  BY DEF ReadEcho, serverSide
<1>2. PICK m \in Types, to \in {"binary", "close"} :
         /\ test' = [test EXCEPT ![t] = to] /\ fatal' = (Head(toClient[t]) # m)
         /\ \/ test[t] = "textBack" /\ to = "binary" /\ m = "text"
            \/ test[t] = "binaryBack" /\ to = "close" /\ m = "binary"
  <2>1. CASE TestGoes(t, "textBack", "binary") /\ fatal' = (Head(toClient[t]) # "text")
    BY <2>1 DEF TestGoes, TestAt, Types
  <2>2. CASE TestGoes(t, "binaryBack", "close") /\ fatal' = (Head(toClient[t]) # "binary")
    BY <2>2 DEF TestGoes, TestAt, Types
  <2>3. QED
    BY <2>1, <2>2 DEF ReadEcho
<1>3. /\ test' \in [Tests -> TestAts] /\ test'[t] = to /\ \A u \in Tests : u # t => test'[u] = test[u]
  <2>1. test \in [Tests -> TestAts] /\ to \in TestAts
    BY <1>0 DEF TestShape, TestAts
  <2>2. QED
    BY <1>2, <2>1
<1>4. toClient \in [Tests -> Seq(Types)] /\ toClient[t] \in Seq(Types) /\ toServer[t] \in Seq(Types)
  BY <1>0 DEF TestShape
<1>5. /\ Tail(toClient[t]) \o toServer[t] = Tail(Wire(t)) /\ Head(toClient[t]) = Head(Wire(t))
      /\ Tail(toClient[t]) \in Seq(Types)
  BY <1>1, <1>4, WireShrinks DEF Wire
<1>6. /\ toClient' \in [Tests -> Seq(Types)] /\ toClient'[t] = Tail(toClient[t])
      /\ \A u \in Tests : u # t => toClient'[u] = toClient[u]
  BY <1>1, <1>4, <1>5
<1>7. Exchange(test[t], t.client, cnt[t], Wire(t)) /\ (t \in done <=> cnt[t] = 2)
  BY <1>0 DEF Talk
<1>8. t.client = "gorilla" /\ cnt[t] = 0 /\ Wire(t) = <<m>>
  <2>1. t.client = "gorilla"
    BY <1>0, <1>2, <1>7 DEF Exchange, Clients
  <2>2. QED
    BY <1>2, <1>7, <2>1 DEF Exchange
<1>9. fatal' = FALSE
  <2>1. Head(<<m>>) = m
    OBVIOUS
  <2>2. QED
    BY <1>2, <1>5, <1>8, <2>1
<1>10. TestShape'
  BY <1>0, <1>1, <1>3, <1>6 DEF TestShape
<1>11. ~Over(t) /\ ~Over(t)'
  BY <1>2, <1>3 DEF Over
<1>12. Attended(t)'
  BY <1>2, <1>3 DEF Attended
<1>13. Talk(t)'
  <2>1. Tail(<<m>>) = <<>>
    OBVIOUS
  <2>2. Wire(t)' = <<>>
    BY <1>1, <1>5, <1>6, <1>8, <2>1 DEF Wire
  <2>3. Exchange(to, "gorilla", 0, <<>>)
    BY DEF Exchange
  <2>4. QED
    BY <1>1, <1>3, <1>7, <1>8, <2>2, <2>3 DEF Talk
<1>14. QED
  BY <1>1, <1>3, <1>6, <1>9, <1>10, <1>11, <1>12, <1>13, OneTest

(* The handler of an nbio test sees the two messages in their order, and   *)
(* closes done with the second, once.                                      *)
LEMMA OnMessageStep == ASSUME IInv, NEW t \in Tests, OnMessage(t) PROVE IInv'
<1>0. MainShape /\ TestShape /\ Talk(t) /\ Attended(t)
  BY DEF IInv
<1>1. /\ UNCHANGED <<plan, main, server, transfer, reader, wg, wgShutdown, test, toServer>>
      /\ t.client = "nb" /\ toClient[t] # <<>> /\ toClient' = [toClient EXCEPT ![t] = Tail(@)]
      /\ fatal' = \/ cnt[t] = 0 /\ Head(toClient[t]) # "text"
                  \/ cnt[t] = 1 /\ (Head(toClient[t]) # "binary" \/ t \in done)
      /\ done' = IF cnt[t] = 1 THEN done \cup {t} ELSE done
      /\ cnt' = [cnt EXCEPT ![t] = @ + 1]
  BY DEF OnMessage, serverSide
<1>2. /\ toClient \in [Tests -> Seq(Types)] /\ toClient[t] \in Seq(Types) /\ toServer[t] \in Seq(Types)
      /\ cnt \in [Tests -> 0..2] /\ done \subseteq Tests
  BY <1>0 DEF TestShape
<1>3. /\ Tail(toClient[t]) \o toServer[t] = Tail(Wire(t)) /\ Head(toClient[t]) = Head(Wire(t))
      /\ Wire(t) # <<>> /\ Tail(toClient[t]) \in Seq(Types)
  BY <1>1, <1>2, WireShrinks DEF Wire
<1>4. /\ toClient' \in [Tests -> Seq(Types)] /\ toClient'[t] = Tail(toClient[t])
      /\ \A u \in Tests : u # t => toClient'[u] = toClient[u]
  BY <1>1, <1>2, <1>3
<1>5. Exchange(test[t], "nb", cnt[t], Wire(t)) /\ (t \in done <=> cnt[t] = 2)
  BY <1>0, <1>1 DEF Talk
<1>6. /\ test[t] \in {"binary", "wait"} /\ cnt[t] \in {0, 1}
      /\ cnt[t] = 0 => Wire(t) = <<"text">> \/ (test[t] = "wait" /\ Wire(t) = <<"text", "binary">>)
      /\ cnt[t] = 1 => test[t] = "wait" /\ Wire(t) = <<"binary">>
  <2>1. test[t] \in TestAts
    BY <1>0 DEF TestShape
  <2>2. test[t] \in {"binary", "wait"}
    BY <1>3, <1>5, <2>1 DEF Exchange, TestAts
  <2>3. CASE test[t] = "binary"
    BY <1>3, <1>5, <2>3 DEF Exchange
  <2>4. CASE test[t] = "wait"
    BY <1>3, <1>5, <2>4 DEF Exchange
  <2>5. QED
    BY <2>2, <2>3, <2>4
<1>7. \A m, n : Head(<<m>>) = m /\ Tail(<<m>>) = <<>> /\ Head(<<m, n>>) = m /\ Tail(<<m, n>>) = <<n>>
  OBVIOUS
<1>8. fatal' = FALSE
  <2>1. cnt[t] = 0 => Head(Wire(t)) = "text"
    BY <1>6, <1>7
  <2>2. cnt[t] = 1 => Head(Wire(t)) = "binary" /\ t \notin done
    BY <1>5, <1>6, <1>7
  <2>3. QED
    BY <1>1, <1>3, <2>1, <2>2
<1>9. /\ cnt' \in [Tests -> 0..2] /\ cnt'[t] = cnt[t] + 1 /\ \A u \in Tests : u # t => cnt'[u] = cnt[u]
  BY <1>1, <1>2, <1>6
<1>10. done' \subseteq Tests /\ (t \in done' <=> cnt[t] = 1) /\ \A u \in Tests : u # t => (u \in done' <=> u \in done)
  BY <1>1, <1>2, <1>5, <1>6
<1>11. TestShape'
  BY <1>0, <1>1, <1>4, <1>9, <1>10 DEF TestShape
<1>12. Wire(t)' = Tail(Wire(t))
  BY <1>1, <1>3, <1>4 DEF Wire
<1>13. Talk(t)'
  <2>1. CASE cnt[t] = 0 /\ Wire(t) = <<"text">>
    <3>1. Wire(t)' = <<>> /\ cnt'[t] = 1 /\ t \notin done'
      BY <1>7, <1>9, <1>10, <1>12, <2>1
    <3>2. Exchange(test[t], "nb", 1, <<>>)
      BY <1>6, <2>1, <1>5 DEF Exchange
    <3>3. QED
      BY <1>1, <3>1, <3>2 DEF Talk
  <2>2. CASE cnt[t] = 0 /\ test[t] = "wait" /\ Wire(t) = <<"text", "binary">>
    <3>1. Wire(t)' = <<"binary">> /\ cnt'[t] = 1 /\ t \notin done'
      BY <1>7, <1>9, <1>10, <1>12, <2>2
    <3>2. Exchange("wait", "nb", 1, <<"binary">>)
      BY DEF Exchange
    <3>3. QED
      BY <1>1, <2>2, <3>1, <3>2 DEF Talk
  <2>3. CASE cnt[t] = 1
    <3>1. Wire(t) = <<"binary">> /\ test[t] = "wait"
      BY <1>6, <2>3
    <3>4. Wire(t)' = <<>>
      BY <1>7, <1>12, <3>1
    <3>5. cnt'[t] = 2 /\ t \in done'
      BY <1>9, <1>10, <2>3
    <3>2. Exchange("wait", "nb", 2, <<>>)
      BY DEF Exchange
    <3>3. QED
      BY <1>1, <3>1, <3>2, <3>4, <3>5 DEF Talk
  <2>4. QED
    BY <1>6, <2>1, <2>2, <2>3
<1>14. Attended(t)'
  BY <1>0, <1>1, <1>6 DEF Attended
<1>15. test'[t] = test[t]
  BY <1>1
<1>16. QED
  BY <1>1, <1>4, <1>8, <1>9, <1>10, <1>11, <1>13, <1>14, <1>15, OneTest

(* A test sees that done is closed, or closes its connection.              *)
LEMMA EndStep == ASSUME IInv, NEW t \in Tests, WaitDone(t) \/ CloseConn(t) PROVE IInv'
<1>0. MainShape /\ TestShape /\ Talk(t) /\ Attended(t) /\ t.client \in Clients
  BY TestFields DEF IInv
<1>1. UNCHANGED <<plan, main, server, transfer, wg, wgShutdown, cnt, done, fatal, toServer, toClient>>
  BY DEF WaitDone, CloseConn, serverSide, wires
<1>2. Wire(t)' = Wire(t) /\ Exchange(test[t], t.client, cnt[t], Wire(t)) /\ (t \in done <=> cnt[t] = 2)
  BY <1>0, <1>1 DEF Wire, Talk
<1>3. PICK to \in {"close", "closed"} : test' = [test EXCEPT ![t] = to] /\ ~Over(t)
  BY DEF WaitDone, CloseConn, TestGoes, TestAt, Over
<1>4. /\ test' \in [Tests -> TestAts] /\ test'[t] = to /\ \A u \in Tests : u # t => test'[u] = test[u]
  <2>1. test \in [Tests -> TestAts] /\ to \in TestAts
    BY <1>0 DEF TestShape, TestAts
  <2>2. QED
    BY <1>3, <2>1
<1>5. fatal' = FALSE /\ ~Over(t)'
  BY <1>0, <1>1, <1>4 DEF MainShape, Over
<1>6. CASE WaitDone(t)
  <2>1. test[t] = "wait" /\ test'[t] = "close" /\ t \in done /\ reader' = reader
    <3>1. test \in [Tests -> TestAts]
      BY <1>0 DEF TestShape
    <3>2. QED
      BY <1>6, <3>1 DEF WaitDone, TestGoes, TestAt, serverSide
  <2>2. TestShape'
    BY <1>0, <1>1, <1>4, <2>1 DEF TestShape
  <2>3. cnt[t] = 2 /\ t.client = "nb" /\ Wire(t) = <<>>
    <3>1. cnt[t] = 2
      BY <1>2, <2>1
    <3>2. t.client = "nb"
      BY <1>0, <1>2, <3>1 DEF Exchange, Clients
    <3>3. QED
      BY <1>2, <2>1, <3>1, <3>2 DEF Exchange
  <2>4. Exchange("close", "nb", 2, <<>>)
    BY DEF Exchange
  <2>5. Talk(t)' /\ Attended(t)'
    BY <1>1, <1>2, <2>1, <2>3, <2>4 DEF Talk, Attended
  <2>6. QED
    BY <1>1, <1>3, <1>4, <1>5, <2>1, <2>2, <2>5, OneTest
<1>7. CASE CloseConn(t)
  <2>1. /\ test[t] = "close" /\ test'[t] = "closed" /\ reader' = [reader EXCEPT ![t] = "gone"]
    <3>1. test \in [Tests -> TestAts]
      BY <1>0 DEF TestShape
    <3>2. QED
      BY <1>7, <3>1 DEF CloseConn, TestGoes, TestAt
  <2>2. reader' \in [Tests -> Readers] /\ reader'[t] = "gone" /\ \A u \in Tests : u # t => reader'[u] = reader[u]
    <3>1. reader \in [Tests -> Readers] /\ "gone" \in Readers
      BY <1>0 DEF TestShape, Readers
    <3>2. QED
      BY <2>1, <3>1
  <2>3. TestShape'
    BY <1>0, <1>1, <1>4, <2>2 DEF TestShape
  <2>4. Exchange("closed", t.client, cnt[t], Wire(t))
    BY <1>0, <1>2, <2>1 DEF Exchange, Clients
  <2>5. Talk(t)' /\ Attended(t)'
    BY <1>1, <1>2, <2>1, <2>2, <2>4 DEF Talk, Attended
  <2>6. QED
    BY <1>1, <1>3, <1>4, <1>5, <2>2, <2>3, <2>5, OneTest
<1>8. QED
  BY <1>6, <1>7

(* A test is over, and the wait group counts one less.                     *)
LEMMA TestDoneStep == ASSUME IInv, NEW t \in Tests, TestDone(t) PROVE IInv'
<1>0. MainShape /\ TestShape /\ Servers /\ Counted /\ Finished /\ \A u \in Tests : Talk(u) /\ Attended(u)
  BY DEF IInv
<1>1. /\ test[t] = "closed" /\ test' = [test EXCEPT ![t] = "finished"] /\ wg' = wg - 1
      /\ UNCHANGED <<plan, main, server, transfer, reader, wgShutdown, cnt, done, fatal, toServer, toClient>>
  BY DEF TestDone, TestGoes, TestAt, serverSide, wires
<1>2. /\ test' \in [Tests -> TestAts] /\ test'[t] = "finished" /\ \A u \in Tests : u # t => test'[u] = test[u]
  <2>1. test \in [Tests -> TestAts] /\ "finished" \in TestAts
    BY <1>0 DEF TestShape, TestAts
  <2>2. QED
    BY <1>1, <2>1
<1>3. Last' = Last /\ main' = main
  BY <1>1 DEF Last
<1>4. MainShape'
  BY <1>0, <1>1, <1>3 DEF MainShape
<1>5. TestShape'
  BY <1>0, <1>1, <1>2 DEF TestShape
<1>6. Servers'
  <2>1. StillUp' = StillUp
    BY <1>1, <1>3 DEF StillUp
  <2>2. QED
    BY <1>0, <1>1, <1>3, <2>1, Zenon DEF Servers
<1>7. Counted'
  <2>1. Running' = Running \ {t} /\ t \in Running
    BY <1>1, <1>2 DEF Running, Over
  <2>2. Cardinality(Running') = Cardinality(Running) - 1 /\ Cardinality(Running) \in Nat
    BY <2>1, RunningIsFinite, FS_RemoveElement
  <2>3. QED
    BY <1>0, <1>1, <2>2 DEF Counted
<1>8. Finished'
  <2>1. \A u \in Tests : Reached(u)' <=> Reached(u)
    BY <1>1, <1>3, Zenon DEF Reached
  <2>2. \A u \in Tests : (Over(u) => Over(u)') /\ (test'[u] # "none" => test[u] # "none")
    BY <1>1, <1>2 DEF Over
  <2>3. QED
    BY <1>0, <1>3, <2>1, <2>2 DEF Finished
<1>9. ASSUME NEW u \in Tests PROVE Talk(u)' /\ Attended(u)'
  <2>1. Wire(u)' = Wire(u)
    BY <1>1 DEF Wire
  <2>2. CASE u = t
    <3>1. Exchange("closed", u.client, cnt[u], Wire(u)) /\ (u \in done <=> cnt[u] = 2) /\ reader[u] = "gone"
      BY <1>0, <1>1, <2>2 DEF Talk, Attended
    <3>2. Exchange("finished", u.client, cnt[u], Wire(u))
      BY <3>1, TestFields DEF Exchange, Clients
    <3>3. QED
      BY <1>1, <1>2, <2>1, <2>2, <3>1, <3>2 DEF Talk, Attended
  <2>3. CASE u # t
    BY <1>0, <1>1, <1>2, <2>1, <2>3, Zenon DEF Talk, Attended
  <2>4. QED
    BY <2>2, <2>3
<1>10. QED
  BY <1>4, <1>5, <1>6, <1>7, <1>8, <1>9 DEF IInv

(* No step leaves the invariant.                                           *)
LEMMA StepIInv == IInv /\ [Next]_vars => IInv'
<1> SUFFICES ASSUME IInv, [Next]_vars PROVE IInv'
  OBVIOUS
<1>1. CASE MainStep
  BY <1>1, StartStep, MainRestStep, GoTestStep, WaitClientsStep, GoShutdownStep DEF MainStep
<1>2. CASE ServerStep
  BY <1>2, ListenStep, ShutdownStep DEF ServerStep
<1>3. CASE \E t \in Tests : TestStep(t) \/ ConnStep(t)
  BY <1>3, DialStep, WriteStep, ReadEchoStep, EndStep, TestDoneStep, HandleReadStep, EchoStep, OnMessageStep
     DEF TestStep, ConnStep
<1>4. CASE UNCHANGED vars
  <2>1. /\ UNCHANGED <<plan, main, server, transfer, reader, wg, wgShutdown, test, cnt, done, fatal, toServer, toClient>>
        /\ UNCHANGED <<plan, main, reader, wg, testSide, wires>>
    BY <1>4 DEF vars, serverSide, testSide, wires
  <2>2. MainShape' /\ TestShape' /\ Counted' /\ Finished' /\ Last' = Last /\ \A t \in Tests : Talk(t)' /\ Attended(t)'
    BY <2>1, OnlyServersMove
  <2>3. Servers'
    <3>1. StillUp' = StillUp
      BY <2>1, <2>2 DEF StillUp
    <3>2. QED
      BY <2>1, <2>2, <3>1, Zenon DEF Servers, IInv
  <2>4. QED
    BY <2>2, <2>3 DEF IInv
<1>5. QED
  BY <1>1, <1>2, <1>3, <1>4 DEF Next

LEMMA AlwaysIInv == Spec => []IInv
BY InitIInv, StepIInv, PTL DEF Spec

-----------------------------------------------------------------------------
(* No log.Fatalf of the tests is reached and no closed channel is closed   *)
(* again: every server a test meets is up, every answer it reads is of the *)
(* type of its question, and done is closed with the second message alone. *)
THEOREM NoTestFails == Spec => []NothingFatal
<1>1. IInv => NothingFatal
  BY DEF IInv, MainShape, NothingFatal
<1>2. QED
  BY <1>1, AlwaysIInv, PTL

(* When main goes on to the next address, and when it begins to shut down, *)
(* the tests before are over: their connections are closed, and nothing    *)
(* they sent is unread.                                                    *)
THEOREM TestsEndFirst == Spec => []TestsAreOver
<1>1. IInv => TestsAreOver
  <2> SUFFICES ASSUME IInv PROVE TestsAreOver
    OBVIOUS
  <2>1. TestShape /\ Finished /\ \A t \in Tests : Talk(t) /\ Attended(t)
    BY DEF IInv
  <2>2. \A t \in Tests : t.i < main.i => test[t] \in {"none", "finished"}
    BY <2>1 DEF Finished, Over
  <2>3. ASSUME main.at \in Leaving, NEW t \in Tests
        PROVE  reader[t] \in {"none", "gone"} /\ toServer[t] = <<>>
    <3>1. test[t] \in {"none", "finished"}
      BY <2>1, <2>3 DEF Finished, Over
    <3>2. reader[t] \in {"none", "gone"}
      BY <2>1, <3>1 DEF Attended
    <3>3. Wire(t) = <<>>
      BY <2>1, <3>1, TestFields DEF Talk, Exchange, Clients
    <3>4. toClient[t] \in Seq(Types) /\ toServer[t] \in Seq(Types)
      BY <2>1 DEF TestShape
    <3>5. toServer[t] = <<>>
      BY <3>3, <3>4, ConcatEmptySeq DEF Wire
    <3>6. QED
      BY <3>2, <3>5
  <2>4. QED
    BY <2>2, <2>3 DEF TestsAreOver, Leaving
<1>2. QED
  BY <1>1, AlwaysIInv, PTL

(* The wait groups never go below zero, and their counts and the places of *)
(* main and of the tests stay in their ranges.                             *)
THEOREM IoTypeCorrect == Spec => []TypeOK
<1>1. IInv => TypeOK
  <2> SUFFICES ASSUME IInv PROVE TypeOK
    OBVIOUS
  <2>1. MainShape /\ TestShape /\ Servers /\ Counted /\ Finished
    BY DEF IInv
  <2>2. /\ Last \in 1..MaxAddrs /\ Len(plan.urls) \in 1..MaxUrls /\ plan.rounds \in 1..MaxRounds
        /\ MaxAddrs \in Nat /\ MaxRounds \in Nat /\ MaxUrls \in Nat /\ main.at \in MainAts
        /\ main.i \in 1..Last /\ main.j \in 1..plan.rounds /\ main.k \in 1..Len(plan.urls) /\ plan \in Plans
    BY <2>1, PlanFields DEF MainShape
  <2>3. main \in [at : MainAts, i : 1..(Last + 1), j : 1..plan.rounds, k : 1..Len(plan.urls)]
    <3>1. main \in [at : MainAts, i : 1..Last, j : 1..plan.rounds, k : 1..Len(plan.urls)]
      BY <2>1 DEF MainShape
    <3>2. main.i \in 1..(Last + 1)
      BY <2>2
    <3>3. QED
      BY <3>1, <3>2
  <2>4. wgShutdown \in 0..(Last + 1)
    <3>1. Cardinality(StillUp) \in 0..Last
      <4>0. Last \in Nat
        BY <2>2
      <4>1. StillUp \in SUBSET (1..Last) /\ IsFiniteSet(1..Last) /\ Cardinality(1..Last) = Last
        <5>1. StillUp \in SUBSET (1..Last)
          BY DEF StillUp
        <5>2. IsFiniteSet(1..Last) /\ Cardinality(1..Last) = Last
          BY <4>0, FS_Interval
        <5>3. QED
          BY <5>1, <5>2
      <4>2. Cardinality(StillUp) \in Nat /\ Cardinality(StillUp) =< Cardinality(1..Last)
        BY <4>1, FS_Subset, FS_CardinalityType
      <4>3. QED
        BY <2>2, <4>1, <4>2
    <3>2. QED
      BY <2>1, <2>2, <3>1, SMTT(30) DEF Servers, Rounding, MainAts
  <2>5. wg \in 0..Cardinality(Tests)
    <3>1. /\ Running \in SUBSET Tests /\ IsFiniteSet(Tests) /\ Cardinality(Tests) \in Nat
          /\ Cardinality(Running) \in Nat /\ Cardinality(Running) =< Cardinality(Tests)
      <4>1. Running \in SUBSET Tests
        BY DEF Running
      <4>2. QED
        BY <4>1, TestsAreFinite, RunningIsFinite, FS_Subset, FS_CardinalityType
    <3>2. CASE main.at # "nbhttpDone"
      BY <2>1, <3>1, <3>2 DEF Counted
    <3>3. CASE main.at = "nbhttpDone"
      <4>1. PICK t \in Tests : ~Reached(t)
        <5>1. Place("nb") \in Tests
          BY <2>2 DEF Place, Tests
        <5>2. ~Reached(Place("nb"))
          BY <2>2, <3>3 DEF Place, Reached, Leaving
        <5>3. QED
          BY <5>1, <5>2
      <4>2. Running \in SUBSET Tests /\ Running # Tests
        BY <2>1, <4>1 DEF Finished, Running, Over
      <4>3. Cardinality(Running) < Cardinality(Tests)
        BY <3>1, <4>2, FS_Subset
      <4>4. QED
        BY <2>1, <3>1, <3>3, <4>3 DEF Counted
    <3>4. QED
      BY <3>2, <3>3
  <2>6. main \in [at : {"start", "sleep", "http", "nbhttp", "nbhttpDone", "goNb", "goGorilla", "wait",
                         "shutdown", "waitShutdown", "returned"},
                  i : 1..(Last + 1), j : 1..plan.rounds, k : 1..Len(plan.urls)]
    BY <2>3, Zenon DEF MainAts
  <2>7. /\ test \in [Tests -> {"none", "dial", "text", "textBack", "binary", "binaryBack",
                               "wait", "close", "closed", "finished"}]
        /\ reader \in [Tests -> {"none", "handler", "server", "transfer", "gone"}]
        /\ toServer \in [Tests -> Seq(Types)] /\ toClient \in [Tests -> Seq(Types)]
        /\ cnt \in [Tests -> 0..2] /\ done \subseteq Tests
    BY <2>1, Zenon DEF TestShape, TestAts, Readers
  <2>8. server \in [1..Last -> {"none", "starting", "up", "stopping", "down"}] /\ transfer \in {"up", "stopping", "down"}
    BY <2>1, Zenon DEF Servers
  <2>9. plan \in Plans /\ fatal \in BOOLEAN
    BY <2>1 DEF MainShape
  <2>10. QED
    BY <2>4, <2>5, <2>6, <2>7, <2>8, <2>9, Zenon DEF TypeOK
<1>2. QED
  BY <1>1, AlwaysIInv, PTL
=============================================================================
