--------------------------- MODULE LoadMC_proofs ---------------------------
(***************************************************************************)
(* Proofs about the websocket load generators, for any number of           *)
(* connections and goroutines: nothing is counted that was not served or   *)
(* before the last connection is made, a failure means that a connection   *)
(* broke, and each connection carries one message at a time.               *)
(***************************************************************************)
EXTENDS LoadMC, FiniteSetTheorems, SequenceTheorems, TLAPS

-----------------------------------------------------------------------------
(* The j-th of the k connections of the g-th goroutine.                    *)
Slot(g, k, j) == (g - 1) * k + j

Silent(c) == toServer[c] = <<>> /\ toClient[c] = <<>>
Carries(c, m) == \/ toServer[c] = <<m>> /\ toClient[c] = <<>>
                 \/ toServer[c] = <<>> /\ toClient[c] = <<m>>
SomeBroken == \E c \in Conns : link[c] = "broken"
Dialed == {c \in Conns : link[c] # "none"}

(* The websocket servers, whatever the client.                             *)
Wires ==
    /\ protocol = "websocket"
    /\ \A c \in Conns : handler[c] # "counted" /\ (link[c] # "up" => Silent(c))

(* An answer that a client has yet to count was served.                    *)
Echoed == {c \in Conns : handler[c] = "echoed"}
Unread == {c \in Conns : toClient[c] # <<>>}
Got == {g \in 1..MaxLoops : loop[g].at = "got"}
Handling == {c \in Conns : onMessage[c].at # "idle"}
Accounted ==
    Successes + Cardinality(Unread) + Cardinality(Got) + Cardinality(Handling) =< Served

Blamed ==
    /\ crashed # "nilConnection"
    /\ Failures > 0 \/ crashed = "error" => SomeBroken

Reporting ==
    /\ reporting = "ticker" => nSuccess = 0 /\ nFailed = 0
    /\ reporting = "success" => nFailed = 0

(* A loop dials its connections in order and is the only one to use them.  *)
Undialed(g, j) == \/ loop[g].at = "dial" /\ loop[g].i =< j
                  \/ loop[g].at = "announce" /\ loop[g].i < j
LoopShape ==
    /\ \A g \in Goroutines :
          /\ loop[g].ok
          /\ loop[g].at # "dial" => PerLoop > 0
          /\ PerLoop > 0 => loop[g].i =< PerLoop
          /\ \A j \in 1..PerLoop : Undialed(g, j) => link[Slot(g, PerLoop, j)] = "none"
    /\ Dialed \subseteq 1..(flags.g * PerLoop)

(* What is on a wire is the body of the loop that waits for it.            *)
Waits(g, c) == g \in Goroutines /\ loop[g].at = "read" /\ ConnOf(g) = c
LoopTalk == \A c \in Conns : Silent(c) \/ \E g \in 1..MaxLoops : Waits(g, c) /\ Carries(c, buf[g])

(* The channel has taken every connection that was dialed, but those whose *)
(* loop is about to announce them.                                         *)
Announcing == {g \in 1..MaxLoops : loop[g].at = "announce"}
Barrier ==
    /\ announced + Cardinality(Announcing) = Cardinality(Dialed)
    /\ main # "collect" => announced = flags.c
    /\ counting => main # "collect"
    /\ Successes > 0 => counting

PoolIdle == crashed = "no" /\ \A c \in Conns : onMessage[c].at = "idle" /\ timer[c] = <<>>
TestInv == LoopShape /\ LoopTalk /\ Barrier /\ PoolIdle

(* The starter, the tasks and the wait group.                              *)
Running == {c \in Conns : task[c] \in {"queued", "dial", "stored"}}
Started == starter.at \in {"write", "slice", "done"}
Tasks ==
    /\ starter.at \in {"go", "write"} => starter.i =< setting.c
    /\ starter.at = "slice" => starter.i =< setting.g
    /\ starter.at = "write" => setting.mode = "handlers"
    /\ starter.at = "slice" => setting.mode = "loops"
    /\ \A k \in 1..Len(queue) : /\ task[queue[k]] = "queued"
                                /\ \A l \in 1..Len(queue) : queue[l] = queue[k] => l = k
    /\ wg = Cardinality(Running)
    /\ \A c \in Conns : /\ c \in conns <=> task[c] \in {"stored", "done"}
                        /\ c \in conns <=> link[c] # "none"
                        /\ task[c] # "none" => c \in 1..setting.c
    /\ \A c \in 1..setting.c : /\ starter.at = "go" => (task[c] = "none" <=> starter.i =< c)
                               /\ starter.at # "go" => task[c] # "none"
                               /\ Started => task[c] = "done"

(* The slices do not overlap.                                              *)
Cut == IF starter.at = "slice" THEN starter.i - 1 ELSE 0
Slices ==
    /\ setting.mode = "loops" /\ starter.at # "done" =>
          /\ Len(rest) = setting.c - Cut * Share
          /\ \A k \in 1..Len(rest) : rest[k] = Cut * Share + k
    /\ \A g \in Loopers :
          /\ Share > 0 => looper[g].i =< Share
          /\ looper[g].at # "none" =>
                /\ setting.mode = "loops" /\ starter.at \in {"slice", "done"}
                /\ starter.at = "slice" => g < starter.i
                /\ Len(sub[g]) = Share /\ \A i \in 1..Share : sub[g][i] = Slot(g, Share, i)

(* A message at most on each connection, wherever it is.                   *)
Quiet(c) == Silent(c) /\ onMessage[c].at # "reply" /\ timer[c] = <<>>
Busy(c) == \/ Carries(c, text) /\ onMessage[c].at # "reply" /\ timer[c] = <<>>
           \/ Silent(c) /\ onMessage[c].at = "reply" /\ timer[c] = <<>>
           \/ Silent(c) /\ onMessage[c].at # "reply" /\ timer[c] = <<text>>
Greeted(c) == \/ starter.at = "done" /\ c \in 1..setting.c
              \/ starter.at = "write" /\ c \in 1..(starter.i - 1)
Awaits(g, c) == looper[g].at = "read" /\ sub[g] # <<>> /\ Current(g) = c
InUseBy(c) == \/ setting.mode = "handlers" /\ Greeted(c)
              \/ setting.mode = "loops" /\ \E g \in Loopers : Awaits(g, c)
PoolTalk ==
    \A c \in Conns :
       /\ Quiet(c) \/ (InUseBy(c) /\ Busy(c))
       /\ onMessage[c].data = text
       /\ setting.mode = "loops" => onMessage[c].at = "idle" /\ timer[c] = <<>>
       /\ setting.mode = "handlers" /\ ~Greeted(c) => rounds[c] = 0
       /\ timer[c] # <<>> => rounds[c] < MaxRounds

TestIdle == ~counting /\ main = "collect" /\ \A g \in 1..MaxLoops : loop[g].at = "dial"
PoolInv == Tasks /\ Slices /\ PoolTalk /\ TestIdle

IInv ==
    /\ LoadersTypeOK /\ program \in {"test", "pool"}
    /\ Wires /\ Accounted /\ Blamed /\ Reporting
    /\ program = "test" => TestInv
    /\ program = "pool" => PoolInv
-----------------------------------------------------------------------------
(* The shares of the goroutines do not overlap.                            *)
LEMMA Slots ==
    ASSUME NEW G \in Nat, NEW k \in Nat
    PROVE  /\ \A g \in 1..G, i \in 1..k : Slot(g, k, i) \in 1..(G * k)
           /\ \A g, h \in 1..G, i, j \in 1..k : Slot(g, k, i) = Slot(h, k, j) => g = h /\ i = j
<1>1. \A a, b, c \in Nat : a =< b => a * c =< b * c
  OBVIOUS
<1>2. ASSUME NEW g \in 1..G, NEW i \in 1..k PROVE Slot(g, k, i) \in 1..(G * k)
  <2>1. g \in Nat /\ g - 1 \in Nat /\ g =< G
    OBVIOUS
  <2>2. (g - 1) * k \in Nat /\ g * k = (g - 1) * k + k
    BY <2>1
  <2>3. g * k =< G * k /\ G * k \in Nat
    BY <1>1, <2>1
  <2>4. QED
    BY <2>2, <2>3 DEF Slot
<1>3. ASSUME NEW g \in 1..G, NEW h \in 1..G, g < h, NEW i \in 1..k, NEW j \in 1..k
      PROVE  Slot(g, k, i) < Slot(h, k, j)
  <2>1. g \in Nat /\ h - 1 \in Nat /\ g =< h - 1 /\ g - 1 \in Nat
    BY <1>3
  <2>2. g * k =< (h - 1) * k
    BY <1>1, <2>1
  <2>3. g * k = (g - 1) * k + k /\ (g - 1) * k \in Nat /\ (h - 1) * k \in Nat
    BY <2>1
  <2>4. QED
    BY <2>2, <2>3 DEF Slot
<1>4. ASSUME NEW g \in 1..G, NEW h \in 1..G, NEW i \in 1..k, NEW j \in 1..k, Slot(g, k, i) = Slot(h, k, j)
      PROVE  g = h /\ i = j
  <2>1. g \in Nat /\ h \in Nat /\ g - 1 \in Nat
    OBVIOUS
  <2>2. Slot(g, k, i) \in Nat /\ Slot(h, k, j) \in Nat
    BY <1>2
  <2>3. ~(g < h) /\ ~(h < g)
    BY <1>3, <1>4, <2>2
  <2>4. g = h
    BY <2>1, <2>3
  <2>5. (g - 1) * k \in Nat /\ (g - 1) * k + i = (g - 1) * k + j
    BY <1>4, <2>1, <2>4 DEF Slot
  <2>6. i = j
    BY <2>5
  <2>7. QED
    BY <2>4, <2>6
<1>5. QED
  BY <1>2, <1>4

LEMMA Division ==
    ASSUME NEW c \in Nat, NEW g \in Nat \ {0}
    PROVE  /\ c \div g \in Nat /\ c % g \in Nat
           /\ g * (c \div g) \in Nat /\ c = g * (c \div g) + (c % g)
OBVIOUS

(* The flags of the test and the settings of the pool's clients.           *)
LEMMA FlagFacts ==
    ASSUME flags \in Flags
    PROVE  /\ flags.c \in Nat \ {0} /\ flags.g \in Nat \ {0} /\ PerLoop \in Nat
           /\ Goroutines \subseteq 1..MaxLoops /\ flags.g * PerLoop \in Nat
           /\ flags.g * PerLoop =< flags.c /\ (~Even => flags.g * PerLoop < flags.c)
           /\ 1..(flags.g * PerLoop) \subseteq Conns
           /\ \A g \in Goroutines, i \in 1..PerLoop :
                 Slot(g, PerLoop, i) \in 1..(flags.g * PerLoop) /\ Slot(g, PerLoop, i) \in Conns
           /\ \A g, h \in Goroutines, i, j \in 1..PerLoop :
                 Slot(g, PerLoop, i) = Slot(h, PerLoop, j) => g = h /\ i = j
<1>1. flags.c \in Nat \ {0} /\ flags.g \in 1..MaxLoops /\ MaxLoops \in Nat
  BY FlagsArePositive, BoundsOfTest
<1>2. flags.g \in Nat \ {0} /\ Goroutines \subseteq 1..MaxLoops
  BY <1>1 DEF Goroutines
<1>3. PerLoop \in Nat /\ flags.g * PerLoop \in Nat /\ flags.c % flags.g \in Nat /\ flags.c = flags.g * PerLoop + (flags.c % flags.g)
  BY <1>1, <1>2, Division DEF PerLoop
<1>4. flags.g * PerLoop =< flags.c /\ (~Even => flags.g * PerLoop < flags.c)
  BY <1>3 DEF Even
<1>5. 1..(flags.g * PerLoop) \subseteq Conns
  BY FlagsFitConns DEF PerLoop
<1>6. /\ \A g \in Goroutines, i \in 1..PerLoop : Slot(g, PerLoop, i) \in 1..(flags.g * PerLoop)
      /\ \A g, h \in Goroutines, i, j \in 1..PerLoop :
            Slot(g, PerLoop, i) = Slot(h, PerLoop, j) => g = h /\ i = j
  BY <1>2, <1>3, Slots DEF Goroutines
<1>7. \A g \in Goroutines, i \in 1..PerLoop : Slot(g, PerLoop, i) \in Conns
  BY <1>5, <1>6
<1>8. QED
  BY <1>1, <1>2, <1>3, <1>4, <1>5, <1>6, <1>7

LEMMA SettingFacts ==
    ASSUME setting \in Settings
    PROVE  /\ setting.c \in Nat \ {0} /\ setting.g \in Nat \ {0} /\ Share \in Nat
           /\ setting.mode \in {"handlers", "loops"} /\ setting.sleep \in BOOLEAN
           /\ Loopers \subseteq 1..MaxLoopers /\ Loopers = 1..setting.g
           /\ setting.g * Share \in Nat /\ setting.g * Share =< setting.c
           /\ 1..setting.c \subseteq Conns
           /\ \A g \in Loopers, i \in 1..Share : Slot(g, Share, i) \in 1..setting.c /\ Slot(g, Share, i) \in Conns
           /\ \A g, h \in Loopers, i, j \in 1..Share : Slot(g, Share, i) = Slot(h, Share, j) => g = h /\ i = j
<1>1. /\ setting.c \in Nat \ {0} /\ setting.g \in 1..MaxLoopers /\ MaxLoopers \in Nat
      /\ setting.mode \in {"handlers", "loops"} /\ setting.sleep \in BOOLEAN /\ 1..setting.c \subseteq Conns
  BY SettingsArePositive, BoundsOfPool
<1>2. setting.g \in Nat \ {0} /\ Loopers \subseteq 1..MaxLoopers /\ Loopers = 1..setting.g
  BY <1>1 DEF Loopers
<1>3. Share \in Nat /\ setting.g * Share \in Nat /\ setting.c % setting.g \in Nat /\ setting.c = setting.g * Share + (setting.c % setting.g)
  BY <1>1, <1>2, Division DEF Share
<1>4. setting.g * Share =< setting.c
  BY <1>3
<1>5. /\ \A g \in Loopers, i \in 1..Share : Slot(g, Share, i) \in 1..(setting.g * Share)
      /\ \A g, h \in Loopers, i, j \in 1..Share : Slot(g, Share, i) = Slot(h, Share, j) => g = h /\ i = j
  BY <1>2, <1>3, Slots DEF Loopers
<1>6. 1..(setting.g * Share) \subseteq 1..setting.c
  BY <1>1, <1>3, <1>4
<1>7. \A g \in Loopers, i \in 1..Share : Slot(g, Share, i) \in 1..setting.c /\ Slot(g, Share, i) \in Conns
  BY <1>1, <1>5, <1>6
<1>8. QED
  BY <1>1, <1>2, <1>3, <1>4, <1>5, <1>7

(* What the clients have counted and what the servers have.                *)
LEMMA Numbers ==
    ASSUME LoadersTypeOK
    PROVE  /\ IsFiniteSet(Conns) /\ IsFiniteSet(1..MaxLoops)
           /\ IsFiniteSet(Unread) /\ IsFiniteSet(Got) /\ IsFiniteSet(Handling) /\ IsFiniteSet(Echoed)
           /\ IsFiniteSet(Dialed) /\ IsFiniteSet(Announcing) /\ IsFiniteSet(Running)
           /\ Cardinality(Unread) \in Nat /\ Cardinality(Got) \in Nat /\ Cardinality(Handling) \in Nat
           /\ Cardinality(Echoed) \in Nat /\ Cardinality(Dialed) \in Nat /\ Cardinality(Announcing) \in Nat
           /\ Cardinality(Running) \in Nat
           /\ qps \in Nat /\ n \in Nat /\ total \in Nat /\ Served = qps + n + total + Cardinality(Echoed)
           /\ Successes \in Nat /\ Failures \in Nat /\ Served \in Nat
<1>1. IsFiniteSet(Conns) /\ IsFiniteSet(1..MaxLoops)
  BY BoundsOfTest, FS_Interval
<1>2. /\ Unread \in SUBSET Conns /\ Handling \in SUBSET Conns /\ Echoed \in SUBSET Conns /\ Dialed \in SUBSET Conns
      /\ Running \in SUBSET Conns /\ Got \in SUBSET (1..MaxLoops) /\ Announcing \in SUBSET (1..MaxLoops)
  BY DEF Unread, Handling, Echoed, Dialed, Running, Got, Announcing
<1>3. /\ IsFiniteSet(Unread) /\ IsFiniteSet(Got) /\ IsFiniteSet(Handling) /\ IsFiniteSet(Echoed)
      /\ IsFiniteSet(Dialed) /\ IsFiniteSet(Announcing) /\ IsFiniteSet(Running)
  BY <1>1, <1>2, FS_Subset
<1>4. /\ Cardinality(Unread) \in Nat /\ Cardinality(Got) \in Nat /\ Cardinality(Handling) \in Nat
      /\ Cardinality(Echoed) \in Nat /\ Cardinality(Dialed) \in Nat /\ Cardinality(Announcing) \in Nat
      /\ Cardinality(Running) \in Nat
  BY <1>3, FS_CardinalityType
<1>5. qps \in Nat /\ n \in Nat /\ total \in Nat /\ Successes \in Nat /\ Failures \in Nat
  BY DEF LoadersTypeOK, LoadTypeOK, ServerTypeOK, ReportTypeOK, Successes, Failures
<1>6. Served = qps + n + total + Cardinality(Echoed) /\ Served \in Nat
  BY <1>4, <1>5 DEF Served, Echoed
<1>7. QED
  BY <1>1, <1>3, <1>4, <1>5, <1>6

(* One element more or less in a finite set.                               *)
LEMMA OneMore ==
    ASSUME NEW S, IsFiniteSet(S), NEW x
    PROVE  /\ x \notin S => Cardinality(S \cup {x}) = Cardinality(S) + 1
           /\ x \in S => Cardinality(S \ {x}) = Cardinality(S) - 1
           /\ x \notin S => Cardinality(S \ {x}) = Cardinality(S)
           /\ x \in S => Cardinality(S \cup {x}) = Cardinality(S)
<1>1. x \notin S => Cardinality(S \cup {x}) = Cardinality(S) + 1
  BY FS_AddElement
<1>2. x \in S => Cardinality(S \ {x}) = Cardinality(S) - 1
  BY FS_RemoveElement
<1>3. (x \notin S => S \ {x} = S) /\ (x \in S => S \cup {x} = S)
  OBVIOUS
<1>4. QED
  BY <1>1, <1>2, <1>3

LEMMA InitIInv == MCInit => IInv
<1> SUFFICES ASSUME MCInit PROVE IInv
  OBVIOUS
<1>1. /\ listening = {} /\ link = [c \in Conns |-> "none"] /\ toServer = [c \in Conns |-> <<>>]
      /\ toClient = [c \in Conns |-> <<>>] /\ handler = [c \in Conns |-> "reading"]
      /\ qps = 0 /\ n = 0 /\ total = 0 /\ protocol = "websocket"
  BY DEF MCInit, ServerInit
<1>2. /\ success = 0 /\ failed = 0 /\ nSuccess = 0 /\ nFailed = 0
      /\ totalSuccess = 0 /\ totalFailed = 0 /\ reporting = "ticker"
  BY DEF MCInit, ReportInit
<1>3. /\ flags \in Flags /\ main = "collect" /\ announced = 0 /\ tick = 0 /\ counting = FALSE /\ running = TRUE
      /\ loop = [g \in 1..MaxLoops |-> [at |-> "dial", i |-> 1, ok |-> TRUE]]
      /\ buf = [g \in 1..MaxLoops |-> CHOOSE b \in Bodies : TRUE]
  BY DEF MCInit, LoadInit
<1>4. /\ setting \in Settings /\ starter = [at |-> "go", i |-> 1]
      /\ queue = <<>> /\ task = [c \in Conns |-> "none"] /\ wg = 0 /\ conns = {}
      /\ rest = [c \in 1..setting.c |-> c] /\ sub = [g \in 1..MaxLoopers |-> <<>>]
      /\ looper = [g \in 1..MaxLoopers |-> [at |-> "none", i |-> 1]]
      /\ onMessage = [c \in Conns |-> [at |-> "idle", data |-> text]]
      /\ timer = [c \in Conns |-> <<>>]
      /\ rounds = [c \in Conns |-> 0] /\ crashed = "no"
  BY DEF MCInit, PoolLoadInit
<1>5. text \in Bodies /\ (CHOOSE b \in Bodies : TRUE) \in Bodies
  BY BoundsOfTest DEF text
<1>6. ServerTypeOK
  BY <1>1 DEF ServerTypeOK
<1>7. ReportTypeOK
  BY <1>2 DEF ReportTypeOK
<1>8. LoadTypeOK
  <2>1. loop \in [1..MaxLoops -> [at : {"dial", "announce", "write", "read", "got", "stopped"},
                                  i : 1..(flags.c + 1), ok : BOOLEAN]]
    <3>1. 1 \in 1..(flags.c + 1)
      BY <1>3, FlagFacts
    <3>2. TRUE \in BOOLEAN
      OBVIOUS
    <3>3. QED
      BY <1>3, <3>1, <3>2, Zenon
  <2>2. announced \in 0..flags.c /\ tick \in 0..Ticks
    BY <1>3, FlagFacts, BoundsOfTest
  <2>3. buf \in [1..MaxLoops -> Bodies]
    BY <1>3, <1>5
  <2>4. main \in {"collect", "settle", "report", "end", "exited"} /\ counting \in BOOLEAN /\ running \in BOOLEAN
    BY <1>3, Zenon
  <2>5. QED
    BY <1>3, <1>6, <1>7, <2>1, <2>2, <2>3, <2>4 DEF LoadTypeOK
<1>9. PoolLoadTypeOK
  <2>1. starter \in [at : {"go", "wait", "write", "slice", "done"}, i : Nat \ {0}]
    BY <1>4
  <2>2. queue \in Seq(Conns) /\ Len(queue) =< PoolQueue /\ task \in [Conns -> {"none", "queued", "dial", "stored", "done"}]
    BY <1>4, BoundsOfPool
  <2>3. wg \in 0..setting.c /\ conns \subseteq Conns
    BY <1>4, SettingFacts
  <2>4. rest \in Seq(Conns)
    <3>1. setting.c \in Nat /\ \A c \in 1..setting.c : c \in Conns
      BY <1>4, SettingFacts
    <3>2. QED
      BY <1>4, <3>1, SeqDef
  <2>5. sub \in [1..MaxLoopers -> Seq(Conns)]
    BY <1>4
  <2>6. looper \in [1..MaxLoopers -> [at : {"none", "write", "read"}, i : 1..setting.c]]
    <3>1. 1 \in 1..setting.c
      BY <1>4, SettingFacts
    <3>2. QED
      BY <1>4, <3>1, Zenon
  <2>7. onMessage \in [Conns -> [at : {"idle", "reply", "compare"}, data : Bodies]]
    BY <1>4, <1>5
  <2>8. timer \in [Conns -> Seq(Bodies)] /\ rounds \in [Conns -> 0..MaxRounds]
    <3>1. 0 \in 0..MaxRounds /\ <<>> \in Seq(Bodies)
      BY BoundsOfPool
    <3>2. QED
      BY <1>4, <3>1
  <2>9. QED
    BY <1>4, <1>6, <1>7, <2>1, <2>2, <2>3, <2>4, <2>5, <2>6, <2>7, <2>8 DEF PoolLoadTypeOK
<1>10. \A c \in Conns : Silent(c) /\ link[c] = "none" /\ handler[c] = "reading"
  BY <1>1 DEF Silent
<1>11. Wires
  BY <1>1, <1>10 DEF Wires
<1>12. /\ Unread = {} /\ Got = {} /\ Handling = {} /\ Echoed = {} /\ Dialed = {} /\ Announcing = {} /\ Running = {}
       /\ Cardinality({}) = 0
  BY <1>1, <1>3, <1>4, FS_EmptySet DEF Unread, Got, Handling, Echoed, Dialed, Announcing, Running
<1>13. LoadersTypeOK
  BY <1>8, <1>9 DEF LoadersTypeOK
<1>14. Successes = 0 /\ Failures = 0
  BY <1>2 DEF Successes, Failures
<1>15. Accounted
  <2>1. Served \in Nat
    BY <1>13, Numbers
  <2>2. QED
    BY <1>12, <1>14, <2>1 DEF Accounted
<1>16. Blamed /\ Reporting
  BY <1>2, <1>4, <1>14 DEF Blamed, Reporting
<1>17. TestInv
  <2>1. \A g \in Goroutines : g \in 1..MaxLoops /\ loop[g].at = "dial" /\ loop[g].i = 1 /\ loop[g].ok
    <3>1. \A g \in Goroutines : g \in 1..MaxLoops
      BY <1>3, FlagFacts
    <3>2. QED
      BY <1>3, <3>1, Zenon
  <2>2. LoopShape
    BY <1>3, <1>10, <1>12, <2>1, FlagFacts DEF LoopShape
  <2>3. LoopTalk
    BY <1>10 DEF LoopTalk
  <2>4. Barrier
    BY <1>3, <1>12, <1>14 DEF Barrier
  <2>5. PoolIdle
    BY <1>4 DEF PoolIdle
  <2>6. QED
    BY <2>2, <2>3, <2>4, <2>5 DEF TestInv
<1>18. PoolInv
  <2>1. Tasks
    <3>1. starter.at = "go" /\ starter.i = 1 /\ Len(queue) = 0 /\ ~Started
      BY <1>4 DEF Started
    <3>2. \A c \in Conns : task[c] = "none" /\ c \notin conns /\ link[c] = "none"
      BY <1>4, <1>10
    <3>3. setting.c \in Nat \ {0} /\ \A c \in 1..setting.c : c \in Conns
      BY <1>4, SettingFacts
    <3>4. wg = Cardinality(Running)
      BY <1>4, <1>12
    <3>5. QED
      BY <3>1, <3>2, <3>3, <3>4 DEF Tasks
  <2>2. Slices
    <3>1. Len(rest) = setting.c /\ \A k \in 1..Len(rest) : rest[k] = k
      <4>1. setting.c \in Nat
        BY <1>4, SettingFacts
      <4>2. QED
        BY <1>4, <4>1
    <3>2. Cut = 0
      BY <1>4 DEF Cut
    <3>3. \A g \in Loopers : looper[g].at = "none" /\ looper[g].i = 1
      BY <1>4, SettingFacts
    <3>4. QED
      BY <1>4, <3>1, <3>2, <3>3, SettingFacts DEF Slices
  <2>3. PoolTalk
    BY <1>4, <1>10 DEF PoolTalk, Quiet
  <2>4. TestIdle
    BY <1>3 DEF TestIdle
  <2>5. QED
    BY <2>1, <2>2, <2>3, <2>4 DEF PoolInv
<1>19. program \in {"test", "pool"}
  BY DEF MCInit
<1>20. QED
  BY <1>11, <1>13, <1>15, <1>16, <1>17, <1>18, <1>19 DEF IInv
-----------------------------------------------------------------------------
(* What a step of the environment leaves of the connections: messages may  *)
(* move on or disappear, connections break.                                *)
Fades ==
    \A c \in Conns : /\ link'[c] = "none" <=> link[c] = "none"
                     /\ link[c] = "broken" => link'[c] = "broken"
                     /\ Silent(c)' \/ \A m \in Bodies : Carries(c, m) => Carries(c, m)'
                     /\ Silent(c) => Silent(c)'

(* A step of Tally: a message is served or counted, or neither.            *)
Tallies == \/ Served' = Served /\ (Successes' = Successes \/ Successes' = Successes + 1)
           \/ Served' = Served + 1 /\ Successes' = Successes

(* The report moves counts, and loses none.                                *)
LEMMA ReportKeepsCounts ==
    ASSUME ReportTypeOK, Reporting
    PROVE  /\ SwapSuccess \/ SwapFailed \/ AddTotals =>
                 ReportTypeOK' /\ Reporting' /\ Successes' = Successes /\ Failures' = Failures
           /\ Succeed => ReportTypeOK' /\ Reporting' /\ Successes' = Successes + 1 /\ Failures' = Failures
           /\ Fail => ReportTypeOK' /\ Reporting' /\ Successes' = Successes /\ Failures' = Failures + 1
           /\ UNCHANGED reportVars => ReportTypeOK' /\ Reporting' /\ Successes' = Successes /\ Failures' = Failures
<1>1. /\ success \in Nat /\ failed \in Nat /\ nSuccess \in Nat /\ nFailed \in Nat
      /\ totalSuccess \in Nat /\ totalFailed \in Nat /\ reporting \in {"ticker", "success", "failed"}
  BY DEF ReportTypeOK
<1>2. SwapSuccess => ReportTypeOK' /\ Reporting' /\ Successes' = Successes /\ Failures' = Failures
  BY <1>1 DEF SwapSuccess, ReportTypeOK, Reporting, Successes, Failures
<1>3. SwapFailed => ReportTypeOK' /\ Reporting' /\ Successes' = Successes /\ Failures' = Failures
  BY <1>1 DEF SwapFailed, ReportTypeOK, Reporting, Successes, Failures
<1>4. AddTotals => ReportTypeOK' /\ Reporting' /\ Successes' = Successes /\ Failures' = Failures
  BY <1>1 DEF AddTotals, ReportTypeOK, Reporting, Successes, Failures
<1>5. Succeed => ReportTypeOK' /\ Reporting' /\ Successes' = Successes + 1 /\ Failures' = Failures
  BY <1>1 DEF Succeed, ReportTypeOK, Reporting, Successes, Failures
<1>6. Fail => ReportTypeOK' /\ Reporting' /\ Successes' = Successes /\ Failures' = Failures + 1
  BY <1>1 DEF Fail, ReportTypeOK, Reporting, Successes, Failures
<1>7. UNCHANGED reportVars => ReportTypeOK' /\ Reporting' /\ Successes' = Successes /\ Failures' = Failures
  BY <1>1 DEF reportVars, ReportTypeOK, Reporting, Successes, Failures
<1>8. QED
  BY <1>2, <1>3, <1>4, <1>5, <1>6, <1>7

(* The conjuncts of the type invariant that the proofs use.                *)
LEMMA Types ==
    ASSUME LoadersTypeOK
    PROVE  /\ ServerTypeOK /\ ReportTypeOK /\ flags \in Flags /\ setting \in Settings
           /\ link \in [Conns -> {"none", "up", "broken"}] /\ listening \subseteq Addrs
           /\ toServer \in [Conns -> Seq(Bodies)] /\ toClient \in [Conns -> Seq(Bodies)]
           /\ handler \in [Conns -> {"reading", "echoed", "counted", "ended"}]
           /\ buf \in [1..MaxLoops -> Bodies] /\ text \in Bodies
BY BoundsOfPool DEF LoadersTypeOK, LoadTypeOK, PoolLoadTypeOK, ServerTypeOK, text

(* Each connection carries one message at most.                            *)
LEMMA OneMessage ==
    ASSUME IInv
    PROVE  \A c \in Conns : Silent(c) \/ \E m \in Bodies : Carries(c, m)
<1>1. LoadersTypeOK /\ program \in {"test", "pool"} /\ text \in Bodies /\ \A g \in 1..MaxLoops : buf[g] \in Bodies
  BY Types DEF IInv
<1>2. CASE program = "test"
  <2>1. LoopTalk
    BY <1>2 DEF IInv, TestInv
  <2>2. QED
    BY <1>1, <2>1 DEF LoopTalk
<1>3. CASE program = "pool"
  <2>1. PoolTalk
    BY <1>3 DEF IInv, PoolInv
  <2>2. QED
    BY <1>1, <2>1 DEF PoolTalk, Quiet, Busy
<1>4. QED
  BY <1>1, <1>2, <1>3

(* The report and the clients do not move.                                 *)
LEMMA ClientsRest ==
    ASSUME IInv, UNCHANGED <<reportVars, clientVars, poolOwnVars, program>>
    PROVE  /\ Successes' = Successes /\ Failures' = Failures /\ ReportTypeOK' /\ Reporting'
           /\ Got' = Got /\ Handling' = Handling
<1>1. ReportTypeOK /\ Reporting /\ UNCHANGED reportVars
  BY DEF IInv, LoadersTypeOK, LoadTypeOK
<1>2. Successes' = Successes /\ Failures' = Failures /\ ReportTypeOK' /\ Reporting'
  BY <1>1, ReportKeepsCounts
<1>3. Got' = Got /\ Handling' = Handling
  BY DEF Got, Handling, clientVars, poolOwnVars, echoVars
<1>4. QED
  BY <1>2, <1>3

(* A server listens, or its report moves what was counted.                 *)
LEMMA QuietServer ==
    ASSUME IInv, UNCHANGED <<reportVars, clientVars, poolOwnVars, program>>,
           (\E addr \in Addrs : Listen(addr)) \/ SwapQps \/ AddTotal
    PROVE  ServerTypeOK' /\ Wires' /\ Fades /\ Accounted' /\ Tallies
<1>1. UNCHANGED <<protocol, link, toServer, toClient, handler>>
  BY DEF Listen, SwapQps, AddTotal, traffic
<1>2. /\ qps \in Nat /\ n \in Nat /\ total \in Nat /\ Served = qps + n + total + Cardinality(Echoed)
      /\ Cardinality(Echoed) \in Nat /\ listening \subseteq Addrs /\ ServerTypeOK
  BY Numbers, Types DEF IInv
<1>3. /\ qps' \in Nat /\ n' \in Nat /\ total' \in Nat /\ qps' + n' + total' = qps + n + total
      /\ listening' \subseteq Addrs
  <2>1. CASE \E addr \in Addrs : Listen(addr)
    BY <1>2, <2>1 DEF Listen, counters
  <2>2. CASE SwapQps
    BY <1>2, <2>2 DEF SwapQps
  <2>3. CASE AddTotal
    BY <1>2, <2>3 DEF AddTotal
  <2>4. QED
    BY <2>1, <2>2, <2>3
<1>4. Echoed' = Echoed /\ Unread' = Unread
  BY <1>1 DEF Echoed, Unread
<1>5. Served' = qps' + n' + total' + Cardinality(Echoed')
  BY DEF Served, Echoed
<1>6. Served' = Served
  BY <1>2, <1>3, <1>4, <1>5
<1>7. ServerTypeOK'
  BY <1>1, <1>2, <1>3 DEF ServerTypeOK
<1>8. Wires'
  BY <1>1 DEF IInv, Wires, Silent
<1>9. Fades
  BY <1>1 DEF Fades, Silent, Carries
<1>10. Accounted' /\ Tallies
  BY <1>4, <1>6, ClientsRest DEF IInv, Accounted, Tallies
<1>11. QED
  BY <1>7, <1>8, <1>9, <1>10

(* The handler of a connection echoes, counts or ends.                     *)
LEMMA HandlerMoves ==
    ASSUME IInv, UNCHANGED <<reportVars, clientVars, poolOwnVars, program>>,
           NEW c \in Conns, HandlerStep(c)
    PROVE  ServerTypeOK' /\ Wires' /\ Fades /\ Accounted' /\ Tallies
<1>1. /\ link \in [Conns -> {"none", "up", "broken"}] /\ listening \subseteq Addrs
      /\ toServer \in [Conns -> Seq(Bodies)] /\ toClient \in [Conns -> Seq(Bodies)]
      /\ handler \in [Conns -> {"reading", "echoed", "counted", "ended"}] /\ ServerTypeOK
  BY Types DEF IInv
<1>2. /\ protocol = "websocket"
      /\ \A d \in Conns : handler[d] # "counted" /\ (link[d] # "up" => Silent(d))
  BY DEF IInv, Wires
<1>3. /\ qps \in Nat /\ n \in Nat /\ total \in Nat /\ Served = qps + n + total + Cardinality(Echoed)
      /\ Cardinality(Echoed) \in Nat /\ Cardinality(Unread) \in Nat /\ IsFiniteSet(Echoed) /\ IsFiniteSet(Unread)
      /\ Cardinality(Got) \in Nat /\ Cardinality(Handling) \in Nat /\ Successes \in Nat
  BY Numbers DEF IInv
<1>4. Successes + Cardinality(Unread) + Cardinality(Got) + Cardinality(Handling) =< Served
  BY DEF IInv, Accounted
<1>5. /\ Successes' = Successes /\ Got' = Got /\ Handling' = Handling
  BY ClientsRest
<1>6. Served' = qps' + n' + total' + Cardinality(Echoed')
  BY DEF Served, Echoed
<1>7. UNCHANGED <<protocol, listening, link, n, total>>
  BY DEF HandlerStep, WsEcho, WsCount, HandlerEnds, HttpCount, HttpAnswer, Answer, counters, traffic
<1>8. CASE WsEcho(c)
  <2>1. link[c] = "up" /\ toServer[c] # <<>> /\ handler[c] = "reading" /\ handler' = [handler EXCEPT ![c] = "echoed"] /\ qps' = qps
    BY <1>8 DEF WsEcho, HasRequest, Goes, counters
  <2>2. PICK m \in Bodies : Carries(c, m)
    BY <2>1, OneMessage DEF Silent
  <2>3. toServer[c] = <<m>> /\ toClient[c] = <<>>
    BY <2>1, <2>2 DEF Carries
  <2>4. toServer' = [toServer EXCEPT ![c] = <<>>] /\ toClient' = [toClient EXCEPT ![c] = <<m>>]
    <3>1. toServer' = [toServer EXCEPT ![c] = Tail(toServer[c])] /\ toClient' = [toClient EXCEPT ![c] = Append(toClient[c], Head(toServer[c]))]
      BY <1>8 DEF WsEcho, Answer
    <3>2. Tail(<<m>>) = <<>> /\ Head(<<m>>) = m /\ Append(<<>>, m) = <<m>>
      OBVIOUS
    <3>3. QED
      BY <2>3, <3>1, <3>2
  <2>5. <<>> \in Seq(Bodies) /\ <<m>> \in Seq(Bodies) /\ <<m>> # <<>>
    OBVIOUS
  <2>6. ServerTypeOK'
    BY <1>1, <1>7, <2>1, <2>4, <2>5 DEF ServerTypeOK
  <2>7. Carries(c, m)' /\ \A k : Carries(c, k) => k = m
    BY <1>1, <2>3, <2>4, <2>5 DEF Carries
  <2>8. \A d \in Conns : d # c => toServer'[d] = toServer[d] /\ toClient'[d] = toClient[d] /\ handler'[d] = handler[d]
    BY <1>1, <2>1, <2>4
  <2>9. handler'[c] = "echoed" /\ ~Silent(c) /\ toClient'[c] = <<m>>
    BY <1>1, <2>1, <2>4 DEF Silent
  <2>10. Wires'
    BY <1>2, <1>7, <2>1, <2>8, <2>9 DEF Wires, Silent
  <2>11. Fades
    BY <1>7, <2>7, <2>8, <2>9 DEF Fades, Silent, Carries
  <2>12. Unread' = Unread \cup {c} /\ c \notin Unread /\ Echoed' = Echoed \cup {c} /\ c \notin Echoed
    BY <2>1, <2>3, <2>5, <2>8, <2>9 DEF Unread, Echoed
  <2>13. Cardinality(Unread') = Cardinality(Unread) + 1 /\ Cardinality(Echoed') = Cardinality(Echoed) + 1
    BY <1>3, <2>12, OneMore
  <2>14. Served' = Served + 1
    BY <1>3, <1>6, <1>7, <2>1, <2>13
  <2>15. Accounted' /\ Tallies
    BY <1>3, <1>4, <1>5, <2>13, <2>14 DEF Accounted, Tallies
  <2>16. QED
    BY <2>6, <2>10, <2>11, <2>15
<1>9. CASE WsCount(c)
  <2>1. handler[c] = "echoed" /\ handler' = [handler EXCEPT ![c] = "reading"] /\ qps' = qps + 1 /\ UNCHANGED <<toServer, toClient>>
    BY <1>9 DEF WsCount, Goes, traffic
  <2>2. ServerTypeOK'
    BY <1>1, <1>3, <1>7, <2>1 DEF ServerTypeOK
  <2>3. \A d \in Conns : handler'[d] = IF d = c THEN "reading" ELSE handler[d]
    BY <1>1, <2>1
  <2>4. Wires' /\ Fades
    BY <1>2, <1>7, <2>1, <2>3 DEF Wires, Fades, Silent, Carries
  <2>5. Unread' = Unread /\ Echoed' = Echoed \ {c} /\ c \in Echoed
    BY <2>1, <2>3 DEF Unread, Echoed
  <2>6. Cardinality(Echoed') = Cardinality(Echoed) - 1
    BY <1>3, <2>5, OneMore
  <2>7. Served' = Served
    BY <1>3, <1>6, <1>7, <2>1, <2>6
  <2>8. Accounted' /\ Tallies
    BY <1>4, <1>5, <2>5, <2>7 DEF Accounted, Tallies
  <2>9. QED
    BY <2>2, <2>4, <2>8
<1>10. CASE HandlerEnds(c)
  <2>1. handler[c] = "reading" /\ handler' = [handler EXCEPT ![c] = "ended"] /\ qps' = qps /\ UNCHANGED <<toServer, toClient>>
    BY <1>10 DEF HandlerEnds, Goes, traffic, counters
  <2>2. ServerTypeOK'
    BY <1>1, <1>3, <1>7, <2>1 DEF ServerTypeOK
  <2>3. \A d \in Conns : handler'[d] = IF d = c THEN "ended" ELSE handler[d]
    BY <1>1, <2>1
  <2>4. Wires' /\ Fades
    BY <1>2, <1>7, <2>1, <2>3 DEF Wires, Fades, Silent, Carries
  <2>5. Unread' = Unread /\ Echoed' = Echoed
    BY <2>1, <2>3 DEF Unread, Echoed
  <2>6. Served' = Served
    BY <1>3, <1>6, <1>7, <2>1, <2>5
  <2>7. Accounted' /\ Tallies
    BY <1>4, <1>5, <2>5, <2>6 DEF Accounted, Tallies
  <2>8. QED
    BY <2>2, <2>4, <2>7
<1>11. ~HttpCount(c) /\ ~HttpAnswer(c)
  BY <1>2 DEF HttpCount, HttpAnswer, Goes
<1>12. QED
  BY <1>8, <1>9, <1>10, <1>11 DEF HandlerStep

(* A connection breaks, and what is on its way is lost.                    *)
LEMMA LinkBreaks ==
    ASSUME IInv, UNCHANGED <<reportVars, clientVars, poolOwnVars, program>>,
           NEW c \in Conns, Break(c)
    PROVE  ServerTypeOK' /\ Wires' /\ Fades /\ Accounted' /\ Tallies
<1>1. /\ link \in [Conns -> {"none", "up", "broken"}] /\ listening \subseteq Addrs
      /\ toServer \in [Conns -> Seq(Bodies)] /\ toClient \in [Conns -> Seq(Bodies)]
      /\ handler \in [Conns -> {"reading", "echoed", "counted", "ended"}] /\ ServerTypeOK
  BY Types DEF IInv
<1>2. /\ protocol = "websocket"
      /\ \A d \in Conns : handler[d] # "counted" /\ (link[d] # "up" => Silent(d))
  BY DEF IInv, Wires
<1>3. /\ link[c] = "up" /\ link' = [link EXCEPT ![c] = "broken"]
      /\ toServer' = [toServer EXCEPT ![c] = <<>>] /\ toClient' = [toClient EXCEPT ![c] = <<>>]
      /\ UNCHANGED <<protocol, listening, handler, qps, n, total>>
  BY DEF Break, counters
<1>4. \A d \in Conns : /\ d # c => link'[d] = link[d] /\ toServer'[d] = toServer[d] /\ toClient'[d] = toClient[d]
                       /\ d = c => link'[d] = "broken" /\ toServer'[d] = <<>> /\ toClient'[d] = <<>>
  BY <1>1, <1>3
<1>5. ServerTypeOK'
  <2>1. <<>> \in Seq(Bodies)
    OBVIOUS
  <2>2. QED
    BY <1>1, <1>3, <2>1 DEF ServerTypeOK
<1>6. Wires' /\ Fades
  BY <1>2, <1>3, <1>4 DEF Wires, Fades, Silent, Carries
<1>7. Echoed' = Echoed /\ Unread' = Unread \ {c}
  BY <1>3, <1>4 DEF Echoed, Unread
<1>8. Served' = Served
  BY <1>3, <1>7 DEF Served, Echoed
<1>9. /\ IsFiniteSet(Unread) /\ Cardinality(Unread) \in Nat /\ Cardinality(Got) \in Nat
      /\ Cardinality(Handling) \in Nat /\ Successes \in Nat /\ Served \in Nat
  BY Numbers DEF IInv
<1>10. Cardinality(Unread') = Cardinality(Unread) - 1 \/ Cardinality(Unread') = Cardinality(Unread)
  BY <1>7, <1>9, OneMore
<1>11. Accounted' /\ Tallies
  BY <1>8, <1>9, <1>10, ClientsRest DEF IInv, Accounted, Tallies
<1>12. QED
  BY <1>5, <1>6, <1>11

(* The goroutines of the test do not move, messages fade.                  *)
LEMMA LoopsRest ==
    ASSUME IInv, program = "test", Fades, UNCHANGED <<flags, loop, buf>>
    PROVE  LoopShape' /\ LoopTalk' /\ Dialed' = Dialed /\ Announcing' = Announcing
<1>1. flags \in Flags /\ LoopShape /\ LoopTalk /\ \A g \in 1..MaxLoops : buf[g] \in Bodies
  BY Types DEF IInv, TestInv
<1>2. Dialed' = Dialed /\ Announcing' = Announcing
  BY DEF Dialed, Fades, Announcing
<1>3. LoopShape'
  <2>1. \A g \in Goroutines, j \in 1..PerLoop : link[Slot(g, PerLoop, j)] = "none" => link'[Slot(g, PerLoop, j)] = "none"
    BY <1>1, FlagFacts DEF Fades
  <2>2. UNCHANGED <<Goroutines, PerLoop>> /\ \A g, j : Undialed(g, j)' <=> Undialed(g, j)
    BY DEF Goroutines, PerLoop, Undialed
  <2>3. QED
    BY <1>1, <1>2, <2>1, <2>2 DEF LoopShape, Slot
<1>4. LoopTalk'
  <2>1. \A g, c : Waits(g, c)' <=> Waits(g, c)
    BY DEF Waits, Goroutines, ConnOf, PerLoop
  <2>2. ASSUME NEW c \in Conns PROVE Silent(c)' \/ \E g \in 1..MaxLoops : Waits(g, c)' /\ Carries(c, buf[g])'
    <3>1. CASE Silent(c)
      BY <3>1 DEF Fades
    <3>2. CASE ~Silent(c)
      <4>1. PICK g \in 1..MaxLoops : Waits(g, c) /\ Carries(c, buf[g])
        BY <1>1, <3>2 DEF LoopTalk
      <4>2. Silent(c)' \/ (Carries(c, buf[g]))'
        BY <1>1, <4>1 DEF Fades, Carries
      <4>3. QED
        BY <2>1, <4>1, <4>2
    <3>3. QED
      BY <3>1, <3>2
  <2>3. QED
    BY <2>2 DEF LoopTalk
<1>5. QED
  BY <1>2, <1>3, <1>4

(* The clients' parts of the invariant do not depend on the environment.   *)
LEMMA EnvironmentKeeps ==
    ASSUME IInv, UNCHANGED <<reportVars, clientVars, poolOwnVars, program>>,
           ServerTypeOK', Wires', Fades, Accounted'
    PROVE  IInv'
<1>1. /\ UNCHANGED <<flags, main, announced, tick, counting, running, loop, buf>>
      /\ UNCHANGED <<setting, starter, queue, task, wg, conns, rest, sub>>
      /\ UNCHANGED <<looper, onMessage, timer, rounds, crashed, program>>
  BY DEF clientVars, poolOwnVars, poolVars, echoVars
<1>2. /\ Successes' = Successes /\ Failures' = Failures /\ ReportTypeOK' /\ Reporting'
  BY ClientsRest
<1>3. LoadersTypeOK'
  <2>1. LoadTypeOK'
    BY <1>1, <1>2 DEF IInv, LoadersTypeOK, LoadTypeOK
  <2>2. PoolLoadTypeOK'
    BY <1>1, <1>2 DEF IInv, LoadersTypeOK, PoolLoadTypeOK
  <2>3. QED
    BY <2>1, <2>2 DEF LoadersTypeOK
<1>4. SomeBroken => SomeBroken'
  BY DEF SomeBroken, Fades
<1>5. Blamed'
  BY <1>1, <1>2, <1>4 DEF IInv, Blamed
<1>6. Dialed' = Dialed
  BY DEF Dialed, Fades
<1>7. ASSUME program = "test" PROVE TestInv'
  <2>1. Barrier /\ PoolIdle
    BY <1>7 DEF IInv, TestInv
  <2>2. LoopShape' /\ LoopTalk' /\ Announcing' = Announcing
    BY <1>1, <1>7, LoopsRest
  <2>3. Barrier'
    BY <1>1, <1>2, <1>6, <2>1, <2>2 DEF Barrier
  <2>4. PoolIdle'
    BY <1>1, <2>1 DEF PoolIdle
  <2>5. QED
    BY <2>2, <2>3, <2>4 DEF TestInv
<1>8. ASSUME program = "pool" PROVE PoolInv'
  <2>1. Tasks /\ Slices /\ PoolTalk /\ TestIdle
    BY <1>8 DEF IInv, PoolInv
  <2>2. setting \in Settings /\ text \in Bodies
    BY Types DEF IInv
  <2>3. Tasks'
    BY <1>1, <2>1 DEF Tasks, Started, Running, Fades
  <2>4. Slices'
    BY <1>1, <2>1 DEF Slices, Cut, Share, Loopers, Slot
  <2>5. PoolTalk'
    <3>1. \A c : (Greeted(c)' <=> Greeted(c)) /\ (InUseBy(c)' <=> InUseBy(c))
      BY <1>1 DEF Greeted, InUseBy, Awaits, Current, Loopers
    <3>2. \A c \in Conns : (Quiet(c) => Quiet(c)') /\ (Busy(c) => Quiet(c)' \/ Busy(c)')
      BY <1>1, <2>2 DEF Quiet, Busy, Fades
    <3>3. QED
      BY <1>1, <2>1, <3>1, <3>2 DEF PoolTalk
  <2>6. TestIdle'
    BY <1>1, <2>1 DEF TestIdle
  <2>7. QED
    BY <2>3, <2>4, <2>5, <2>6 DEF PoolInv
<1>9. QED
  BY <1>1, <1>2, <1>3, <1>5, <1>7, <1>8 DEF IInv

LEMMA Environment ==
    ASSUME IInv, UNCHANGED <<reportVars, clientVars, poolOwnVars, program>>,
           ServerNext \/ \E c \in Conns : Break(c)
    PROVE  IInv' /\ Tallies
<1>1. ServerTypeOK' /\ Wires' /\ Fades /\ Accounted' /\ Tallies
  <2>1. CASE \E c \in Conns : Break(c)
    BY <2>1, LinkBreaks
  <2>2. CASE \E c \in Conns : HandlerStep(c)
    BY <2>2, HandlerMoves
  <2>3. CASE (\E addr \in Addrs : Listen(addr)) \/ SwapQps \/ AddTotal
    BY <2>3, QuietServer
  <2>4. QED
    BY <2>1, <2>2, <2>3 DEF ServerNext
<1>2. QED
  BY <1>1, EnvironmentKeeps
-----------------------------------------------------------------------------
(* The test: the goroutines.                                               *)
LoopStates == {"dial", "announce", "write", "read", "got", "stopped"}
LoopType == [at : LoopStates, i : 1..(flags.c + 1), ok : BOOLEAN]

(* The connection of a goroutine is one of its own.                        *)
LEMMA OwnConnection ==
    ASSUME IInv, program = "test", NEW g \in Goroutines, PerLoop > 0
    PROVE  /\ loop[g].i \in 1..PerLoop /\ ConnOf(g) = Slot(g, PerLoop, loop[g].i)
           /\ ConnOf(g) \in Conns /\ ConnOf(g) \in 1..(flags.g * PerLoop)
           /\ loop[g].ok /\ g \in 1..MaxLoops
<1>1. flags \in Flags /\ loop \in [1..MaxLoops -> LoopType]
  BY DEF IInv, LoadersTypeOK, LoadTypeOK, LoopType, LoopStates
<1>2. PerLoop \in Nat /\ g \in 1..MaxLoops
  BY <1>1, FlagFacts
<1>3. loop[g].i =< PerLoop /\ loop[g].ok
  BY DEF IInv, TestInv, LoopShape
<1>4. loop[g].i \in 1..(flags.c + 1) /\ flags.c \in Nat
  BY <1>1, <1>2, FlagFacts DEF LoopType
<1>5. loop[g].i \in 1..PerLoop
  BY <1>2, <1>3, <1>4
<1>6. ConnOf(g) = Slot(g, PerLoop, loop[g].i)
  BY DEF ConnOf, Slot
<1>7. QED
  BY <1>1, <1>2, <1>3, <1>5, <1>6, FlagFacts

(* Only the goroutine that waits for it has a message on its connection.   *)
LEMMA OnlyReader ==
    ASSUME IInv, program = "test", NEW g \in Goroutines, PerLoop > 0
    PROVE  Silent(ConnOf(g)) \/ (loop[g].at = "read" /\ Carries(ConnOf(g), buf[g]))
<1>1. flags \in Flags
  BY Types DEF IInv
<1>2. CASE ~Silent(ConnOf(g))
  <2>1. PICK h \in 1..MaxLoops : Waits(h, ConnOf(g)) /\ Carries(ConnOf(g), buf[h])
    BY <1>2, OwnConnection DEF IInv, TestInv, LoopTalk
  <2>2. h \in Goroutines /\ loop[h].at = "read" /\ ConnOf(h) = ConnOf(g)
    BY <2>1 DEF Waits
  <2>3. /\ loop[h].i \in 1..PerLoop /\ ConnOf(h) = Slot(h, PerLoop, loop[h].i)
        /\ loop[g].i \in 1..PerLoop /\ ConnOf(g) = Slot(g, PerLoop, loop[g].i)
    BY <2>2, OwnConnection
  <2>4. Slot(h, PerLoop, loop[h].i) = Slot(g, PerLoop, loop[g].i)
    BY <2>2, <2>3
  <2>5. \A k, l \in Goroutines, i, j \in 1..PerLoop : Slot(k, PerLoop, i) = Slot(l, PerLoop, j) => k = l
    BY <1>1, FlagFacts
  <2>6. h = g
    BY <2>2, <2>3, <2>4, <2>5
  <2>7. QED
    BY <2>1, <2>2, <2>6
<1>3. QED
  BY <1>2

(* A goroutine that is past its first dial has connections.                *)
LEMMA HasConnections ==
    ASSUME IInv, program = "test", NEW g \in Goroutines, loop[g].at # "dial"
    PROVE  PerLoop > 0
BY DEF IInv, TestInv, LoopShape

LEMMA Turns ==
    ASSUME IInv, NEW g \in 1..MaxLoops, NEW at \in LoopStates, NEW i \in 1..(flags.c + 1), flags' = flags,
           Turn(g, at, i) \/ (MoveTo(g, at) /\ i = loop[g].i)
    PROVE  /\ loop' \in [1..MaxLoops -> LoopType]
           /\ loop'[g].at = at /\ loop'[g].i = i /\ loop'[g].ok = loop[g].ok
           /\ \A h \in 1..MaxLoops : h # g => loop'[h] = loop[h]
<1>1. loop \in [1..MaxLoops -> LoopType]
  BY DEF IInv, LoadersTypeOK, LoadTypeOK, LoopType, LoopStates
<1>2. loop[g].at \in LoopStates /\ loop[g].i \in 1..(flags.c + 1) /\ loop[g].ok \in BOOLEAN
  BY <1>1, Zenon DEF LoopType
<1>3. loop' = [loop EXCEPT ![g] = [at |-> at, i |-> i, ok |-> loop[g].ok]]
  <2>1. loop[g] = [at |-> loop[g].at, i |-> loop[g].i, ok |-> loop[g].ok]
    BY <1>1 DEF LoopType
  <2>2. QED
    BY <1>1, <2>1 DEF Turn, MoveTo
<1>4. [at |-> at, i |-> i, ok |-> loop[g].ok] \in LoopType
  BY <1>2, Zenon DEF LoopType
<1>5. loop' \in [1..MaxLoops -> LoopType]
  BY <1>1, <1>3, <1>4, Zenon
<1>6. /\ loop'[g] = [at |-> at, i |-> i, ok |-> loop[g].ok]
      /\ \A h \in 1..MaxLoops : h # g => loop'[h] = loop[h]
  BY <1>1, <1>3, Zenon
<1>7. loop'[g].at = at /\ loop'[g].i = i /\ loop'[g].ok = loop[g].ok
  BY <1>6
<1>8. QED
  BY <1>5, <1>6, <1>7, Zenon

LEMMA NextTurns ==
    ASSUME IInv, program = "test", NEW g \in Goroutines, PerLoop > 0, NextTurn(g), flags' = flags
    PROVE  /\ loop' \in [1..MaxLoops -> LoopType]
           /\ loop'[g].at \in {"write", "stopped"} /\ loop'[g].i \in 1..PerLoop /\ loop'[g].ok
           /\ \A h \in 1..MaxLoops : h # g => loop'[h] = loop[h]
<1>1. loop[g].i \in 1..PerLoop /\ loop[g].ok /\ g \in 1..MaxLoops
  BY OwnConnection
<1>2. PerLoop \in Nat /\ flags.c \in Nat \ {0} /\ PerLoop =< flags.c
  <2>1. flags \in Flags
    BY Types DEF IInv
  <2>2. flags.g \in Nat \ {0} /\ PerLoop \in Nat /\ flags.c \in Nat \ {0} /\ flags.g * PerLoop =< flags.c
    BY <2>1, FlagFacts
  <2>3. PerLoop =< flags.g * PerLoop
    BY <2>2
  <2>4. flags.g * PerLoop \in Nat
    BY <2>2
  <2>5. QED
    BY <2>2, <2>3, <2>4
<1>3. PICK at \in {"write", "stopped"}, i \in 1..PerLoop : Turn(g, at, i)
  <2>1. CASE loop[g].i < PerLoop
    BY <1>1, <1>2, <2>1 DEF NextTurn
  <2>2. CASE ~(loop[g].i < PerLoop)
    <3>1. Turn(g, IF running THEN "write" ELSE "stopped", 1)
      BY <2>2 DEF NextTurn
    <3>2. 1 \in 1..PerLoop
      BY <1>2
    <3>3. (IF running THEN "write" ELSE "stopped") \in {"write", "stopped"}
      BY Zenon
    <3>4. QED
      BY <3>1, <3>2, <3>3, Zenon
  <2>3. QED
    BY <2>1, <2>2
<1>4. at \in LoopStates /\ i \in 1..(flags.c + 1)
  BY <1>2 DEF LoopStates
<1>5. QED
  BY <1>1, <1>3, <1>4, Turns

(* A step of one goroutine leaves the others and their connections alone.  *)
LEMMA OneLoopMoves ==
    ASSUME IInv, program = "test", NEW g \in Goroutines, PerLoop > 0, flags' = flags,
           NEW c, c = ConnOf(g),
           loop' \in [1..MaxLoops -> LoopType], loop'[g].ok, loop'[g].i =< PerLoop,
           \A h \in 1..MaxLoops : h # g => loop'[h] = loop[h] /\ buf'[h] = buf[h],
           \A d \in Conns : d # c => link'[d] = link[d] /\ toServer'[d] = toServer[d] /\ toClient'[d] = toClient[d],
           \A j \in 1..PerLoop : Undialed(g, j)' => Undialed(g, j) /\ (link' = link \/ j # loop[g].i),
           Silent(c)' \/ (loop'[g].at = "read" /\ loop'[g].i = loop[g].i /\ Carries(c, buf[g])')
    PROVE  LoopShape' /\ LoopTalk'
<1>1. flags \in Flags /\ LoopShape /\ LoopTalk
  BY Types DEF IInv, TestInv
<1>2. Goroutines' = Goroutines /\ PerLoop' = PerLoop
  BY DEF Goroutines, PerLoop
<1>3. loop[g].i \in 1..PerLoop /\ c = Slot(g, PerLoop, loop[g].i) /\ c \in Conns /\ c \in 1..(flags.g * PerLoop) /\ g \in 1..MaxLoops
  BY OwnConnection
<1>4. /\ \A h \in Goroutines, i \in 1..PerLoop : Slot(h, PerLoop, i) \in Conns
      /\ \A h, k \in Goroutines, i, j \in 1..PerLoop :
            Slot(h, PerLoop, i) = Slot(k, PerLoop, j) => h = k /\ i = j
      /\ Goroutines \subseteq 1..MaxLoops /\ PerLoop \in Nat
  BY <1>1, FlagFacts
<1>5. LoopShape'
  <2>1. ASSUME NEW h \in Goroutines
        PROVE  /\ loop'[h].ok /\ (loop'[h].at # "dial" => PerLoop > 0) /\ (PerLoop > 0 => loop'[h].i =< PerLoop)
               /\ \A j \in 1..PerLoop : Undialed(h, j)' => link'[Slot(h, PerLoop, j)] = "none"
    <3>1. CASE h = g
      <4>1. ASSUME NEW j \in 1..PerLoop, Undialed(g, j)' PROVE link'[Slot(g, PerLoop, j)] = "none"
        <5>1. Undialed(g, j) /\ (link' = link \/ j # loop[g].i)
          BY <4>1
        <5>2. link[Slot(g, PerLoop, j)] = "none" /\ Slot(g, PerLoop, j) \in Conns
          BY <1>1, <1>4, <5>1 DEF LoopShape
        <5>3. CASE link' = link
          BY <5>2, <5>3
        <5>4. CASE j # loop[g].i
          <6>1. Slot(g, PerLoop, j) # c
            BY <1>3, <1>4, <5>4
          <6>2. QED
            BY <5>2, <6>1
        <5>5. QED
          BY <5>1, <5>3, <5>4
      <4>2. QED
        BY <3>1, <4>1
    <3>2. CASE h # g
      <4>1. h \in 1..MaxLoops /\ loop'[h] = loop[h]
        BY <1>4, <3>2
      <4>2. \A j \in 1..PerLoop : Undialed(h, j)' => Undialed(h, j)
        BY <4>1 DEF Undialed
      <4>3. \A j \in 1..PerLoop : Slot(h, PerLoop, j) # c /\ Slot(h, PerLoop, j) \in Conns
        BY <1>3, <1>4, <3>2
      <4>4. loop[h].ok /\ (PerLoop > 0 => loop[h].i =< PerLoop) /\ \A j \in 1..PerLoop : Undialed(h, j) => link[Slot(h, PerLoop, j)] = "none"
        BY <1>1 DEF LoopShape
      <4>5. QED
        BY <4>1, <4>2, <4>3, <4>4
    <3>3. QED
      BY <3>1, <3>2
  <2>2. Dialed' \subseteq Dialed \cup {c}
    BY DEF Dialed
  <2>3. Dialed' \subseteq 1..(flags.g * PerLoop)
    BY <1>1, <1>3, <2>2 DEF LoopShape
  <2>4. QED
    BY <1>2, <2>1, <2>3 DEF LoopShape, Slot
<1>6. LoopTalk'
  <2>1. ASSUME NEW d \in Conns PROVE Silent(d)' \/ \E h \in 1..MaxLoops : Waits(h, d)' /\ Carries(d, buf[h])'
    <3>1. CASE d = c
      <4>1. ConnOf(g)' = c \/ loop'[g].i # loop[g].i
        BY <1>2 DEF ConnOf
      <4>2. QED
        BY <1>2, <1>3, <3>1, <4>1 DEF Waits
    <3>2. CASE d # c
      <4>1. CASE Silent(d)
        BY <3>2, <4>1 DEF Silent
      <4>2. CASE ~Silent(d)
        <5>1. PICK h \in 1..MaxLoops : Waits(h, d) /\ Carries(d, buf[h])
          BY <1>1, <4>2 DEF LoopTalk
        <5>2. h # g
          BY <3>2, <5>1 DEF Waits
        <5>3. loop'[h] = loop[h] /\ buf'[h] = buf[h]
          BY <5>2
        <5>4. Waits(h, d)'
          BY <1>2, <5>1, <5>3 DEF Waits, ConnOf
        <5>5. Carries(d, buf[h])'
          BY <3>2, <5>1, <5>3 DEF Carries
        <5>6. QED
          BY <5>4, <5>5
      <4>3. QED
        BY <4>1, <4>2
    <3>3. QED
      BY <3>1, <3>2
  <2>2. QED
    BY <2>1 DEF LoopTalk
<1>7. QED
  BY <1>5, <1>6

(* There are never more connections than the flags say.                    *)
LEMMA DialedFit ==
    ASSUME IInv, program = "test"
    PROVE  /\ Cardinality(Dialed) =< flags.g * PerLoop /\ Cardinality(Dialed) =< flags.c
           /\ flags.g * PerLoop \in Nat /\ flags.c \in Nat /\ Cardinality(Dialed) \in Nat
           /\ announced \in Nat /\ Cardinality(Announcing) \in Nat
           /\ announced + Cardinality(Announcing) = Cardinality(Dialed)
<1>1. flags \in Flags /\ LoadersTypeOK
  BY Types DEF IInv
<1>2. flags.g * PerLoop \in Nat /\ flags.g * PerLoop =< flags.c /\ flags.c \in Nat
  BY <1>1, FlagFacts
<1>3. IsFiniteSet(1..(flags.g * PerLoop)) /\ Cardinality(1..(flags.g * PerLoop)) = flags.g * PerLoop
  <2>1. 0 \in Int /\ 1 \in Int /\ flags.g * PerLoop \in Int
    BY <1>2
  <2>2. /\ IsFiniteSet(1..(flags.g * PerLoop))
        /\ Cardinality(1..(flags.g * PerLoop)) = IF 1 > flags.g * PerLoop THEN 0 ELSE flags.g * PerLoop - 1 + 1
    BY <2>1, FS_Interval
  <2>3. QED
    BY <1>2, <2>2
<1>4. Dialed \in SUBSET (1..(flags.g * PerLoop))
  BY DEF IInv, TestInv, LoopShape
<1>5. Cardinality(Dialed) =< flags.g * PerLoop
  BY <1>3, <1>4, FS_Subset, ZenonT(40)
<1>6. Cardinality(Dialed) \in Nat /\ Cardinality(Announcing) \in Nat
  BY <1>1, Numbers
<1>7. announced \in Nat
  BY <1>1, <1>2 DEF LoadersTypeOK, LoadTypeOK
<1>8. announced + Cardinality(Announcing) = Cardinality(Dialed)
  BY DEF IInv, TestInv, Barrier
<1>9. QED
  BY <1>2, <1>5, <1>6, <1>7, <1>8

(* The parts of the invariant, put together after a step of the test.      *)
LEMMA TestAssembles ==
    ASSUME IInv, program = "test", UNCHANGED <<poolOwnVars, program>>, flags' = flags,
           ServerTypeOK', ReportTypeOK', Reporting',
           loop' \in [1..MaxLoops -> LoopType], buf' \in [1..MaxLoops -> Bodies],
           main' \in {"collect", "settle", "report", "end", "exited"},
           announced' \in 0..flags.c, tick' \in 0..Ticks, counting' \in BOOLEAN, running' \in BOOLEAN,
           LoopShape', LoopTalk', Barrier', Wires', Accounted', Failures' > 0 => SomeBroken'
    PROVE  IInv'
<1>1. /\ UNCHANGED <<setting, starter, queue, task, wg, conns, rest, sub>>
      /\ UNCHANGED <<looper, onMessage, timer, rounds, crashed, program>>
  BY DEF poolOwnVars, poolVars, echoVars
<1>2. PoolIdle /\ flags \in Flags
  BY Types DEF IInv, TestInv
<1>3. LoadTypeOK'
  BY <1>2 DEF LoadTypeOK, LoopType, LoopStates
<1>4. PoolLoadTypeOK'
  BY <1>1 DEF IInv, LoadersTypeOK, PoolLoadTypeOK
<1>5. PoolIdle'
  BY <1>1, <1>2 DEF PoolIdle
<1>6. Blamed'
  BY <1>1, <1>2 DEF Blamed, PoolIdle
<1>7. TestInv'
  BY <1>5 DEF TestInv
<1>8. program' = "test"
  BY <1>1
<1>9. QED
  BY <1>3, <1>4, <1>6, <1>7, <1>8 DEF IInv, LoadersTypeOK

(* A step of a goroutine: main, the flags and the pool do not move.        *)
LEMMA GoroutineAssembles ==
    ASSUME IInv, program = "test", UNCHANGED <<poolOwnVars, program>>,
           UNCHANGED <<flags, main, tick, counting, running>>,
           ServerTypeOK', ReportTypeOK', Reporting',
           loop' \in [1..MaxLoops -> LoopType], buf' \in [1..MaxLoops -> Bodies],
           announced' \in 0..flags.c,
           LoopShape', LoopTalk', Barrier', Wires', Accounted', Failures' > 0 => SomeBroken'
    PROVE  IInv'
<1>1. LoadTypeOK
  BY DEF IInv, LoadersTypeOK
<1>2. /\ main' \in {"collect", "settle", "report", "end", "exited"}
      /\ tick' \in 0..Ticks
  BY <1>1 DEF LoadTypeOK
<1>3. counting' \in BOOLEAN /\ running' \in BOOLEAN
  BY <1>1, Zenon DEF LoadTypeOK
<1>4. QED
  BY <1>2, <1>3, TestAssembles

(* What every step of a goroutine starts from.                             *)
LEMMA TestParts ==
    ASSUME IInv, program = "test"
    PROVE  /\ LoadersTypeOK /\ Wires /\ Accounted /\ Blamed /\ Reporting /\ LoopShape /\ LoopTalk /\ Barrier /\ PoolIdle
           /\ loop \in [1..MaxLoops -> LoopType] /\ flags \in Flags /\ ReportTypeOK /\ ServerTypeOK
           /\ announced \in 0..flags.c /\ PerLoop \in Nat /\ crashed = "no"
           /\ Failures > 0 => SomeBroken
           /\ \A g \in 1..MaxLoops : loop[g].i \in 1..(flags.c + 1)
<1>1. LoadersTypeOK /\ Wires /\ Accounted /\ Blamed /\ Reporting /\ LoopShape /\ LoopTalk /\ Barrier /\ PoolIdle
  BY DEF IInv, TestInv
<1>2. loop \in [1..MaxLoops -> LoopType] /\ announced \in 0..flags.c
  BY <1>1 DEF LoadersTypeOK, LoadTypeOK, LoopType, LoopStates
<1>3. flags \in Flags /\ ReportTypeOK /\ ServerTypeOK /\ PerLoop \in Nat
  BY <1>1, Types, FlagFacts
<1>4. \A g \in 1..MaxLoops : loop[g].i \in 1..(flags.c + 1)
  BY <1>2 DEF LoopType
<1>5. QED
  BY <1>1, <1>2, <1>3, <1>4 DEF Blamed, PoolIdle

(* A goroutine dials the next of its connections.                          *)
LEMMA DialStep ==
    ASSUME IInv, program = "test", UNCHANGED <<poolOwnVars, program>>, NEW g \in 1..MaxLoops, Dial(g)
    PROVE  IInv' /\ Tallies
<1>1. /\ g \in Goroutines /\ loop[g].at = "dial" /\ PerLoop > 0
      /\ link' = [link EXCEPT ![ConnOf(g)] = "up"] /\ MoveTo(g, "announce")
      /\ UNCHANGED <<protocol, listening, toServer, toClient, handler, qps, n, total, reportVars>>
      /\ UNCHANGED <<flags, main, announced, tick, counting, running, buf>>
  BY DEF Dial, At, counters
<1>2. /\ LoadersTypeOK /\ Wires /\ Accounted /\ Blamed /\ Reporting /\ LoopShape /\ Barrier
      /\ ReportTypeOK /\ ServerTypeOK /\ announced \in 0..flags.c /\ (Failures > 0 => SomeBroken)
      /\ loop[g].i \in 1..(flags.c + 1) /\ loop \in [1..MaxLoops -> LoopType]
  BY TestParts
<1>3. PICK c \in Conns : c = ConnOf(g)
  BY <1>1, OwnConnection
<1>4. loop[g].i \in 1..PerLoop /\ c = Slot(g, PerLoop, loop[g].i) /\ loop[g].ok
  BY <1>1, <1>3, OwnConnection
<1>5. link[c] = "none"
  <2>1. Undialed(g, loop[g].i)
    BY <1>1, <1>4 DEF Undialed
  <2>2. QED
    BY <1>1, <1>2, <1>4, <2>1 DEF LoopShape
<1>6. link \in [Conns -> {"none", "up", "broken"}] /\ buf \in [1..MaxLoops -> Bodies]
  BY <1>2, Types
<1>7. link'[c] = "up" /\ \A d \in Conns : d # c => link'[d] = link[d]
  BY <1>1, <1>3, <1>6
<1>8. Silent(c) /\ Silent(c)'
  BY <1>1, <1>2, <1>5 DEF Wires, Silent
<1>9. /\ loop' \in [1..MaxLoops -> LoopType] /\ loop'[g].at = "announce" /\ loop'[g].i = loop[g].i /\ loop'[g].ok = loop[g].ok
      /\ \A h \in 1..MaxLoops : h # g => loop'[h] = loop[h]
  BY <1>1, <1>2, Turns DEF LoopStates
<1>10. LoopShape' /\ LoopTalk'
  <2>1. \A j \in 1..PerLoop : Undialed(g, j)' => Undialed(g, j) /\ (link' = link \/ j # loop[g].i)
    BY <1>1, <1>4, <1>9 DEF Undialed
  <2>2. loop'[g].ok /\ loop'[g].i =< PerLoop
    BY <1>2, <1>4, <1>9
  <2>3. \A d \in Conns : d # c => link'[d] = link[d] /\ toServer'[d] = toServer[d] /\ toClient'[d] = toClient[d]
    BY <1>1, <1>7
  <2>4. \A h \in 1..MaxLoops : h # g => loop'[h] = loop[h] /\ buf'[h] = buf[h]
    BY <1>1, <1>9
  <2>5. QED
    BY <1>1, <1>3, <1>8, <1>9, <2>1, <2>2, <2>3, <2>4, OneLoopMoves
<1>11. ServerTypeOK'
  BY <1>1, <1>2, <1>6 DEF ServerTypeOK
<1>12. ReportTypeOK' /\ Reporting' /\ Successes' = Successes /\ Failures' = Failures
  BY <1>1, <1>2, ReportKeepsCounts
<1>13. Wires'
  BY <1>1, <1>2, <1>7 DEF Wires, Silent
<1>14. Got' = Got /\ Unread' = Unread /\ Handling' = Handling /\ Served' = Served
  <2>1. Got' = Got
    BY <1>1, <1>9 DEF Got
  <2>2. Unread' = Unread /\ Served' = Served
    BY <1>1 DEF Unread, Served
  <2>3. Handling' = Handling
    BY DEF Handling, poolOwnVars, echoVars
  <2>4. QED
    BY <2>1, <2>2, <2>3
<1>15. Accounted' /\ Tallies
  BY <1>2, <1>12, <1>14 DEF Accounted, Tallies
<1>16. Barrier'
  <2>1. Announcing' = Announcing \cup {g} /\ g \notin Announcing /\ Dialed' = Dialed \cup {c} /\ c \notin Dialed
    BY <1>1, <1>5, <1>7, <1>9 DEF Announcing, Dialed
  <2>2. Cardinality(Announcing') = Cardinality(Announcing) + 1 /\ Cardinality(Dialed') = Cardinality(Dialed) + 1
    BY <1>2, <2>1, Numbers, OneMore
  <2>3. announced + Cardinality(Announcing) = Cardinality(Dialed) /\ announced \in Nat /\ Cardinality(Announcing) \in Nat
    BY DialedFit
  <2>4. QED
    BY <1>1, <1>2, <1>12, <2>2, <2>3 DEF Barrier
<1>17. Failures' > 0 => SomeBroken'
  BY <1>2, <1>5, <1>7, <1>12 DEF SomeBroken
<1>18. buf' \in [1..MaxLoops -> Bodies] /\ announced' \in 0..flags.c
  BY <1>1, <1>2, <1>6
<1>19. QED
  BY <1>1, <1>9, <1>10, <1>11, <1>12, <1>13, <1>15, <1>16, <1>17, <1>18, GoroutineAssembles

(* A goroutine announces a connection: there is room for it.               *)
LEMMA AnnounceStep ==
    ASSUME IInv, program = "test", UNCHANGED <<poolOwnVars, program>>, NEW g \in 1..MaxLoops, Announce(g)
    PROVE  IInv' /\ Tallies
<1>1. /\ g \in Goroutines /\ loop[g].at = "announce" /\ announced' = announced + 1
      /\ UNCHANGED <<serverVars, reportVars, flags, main, tick, counting, running, buf>>
  BY DEF Announce, At
<1>2. PerLoop > 0
  BY <1>1, HasConnections
<1>3. UNCHANGED <<protocol, listening, link, toServer, toClient, handler, qps, n, total>>
  BY <1>1 DEF serverVars, traffic, counters
<1>4. /\ LoadersTypeOK /\ Wires /\ Accounted /\ Blamed /\ Reporting /\ LoopShape /\ Barrier
      /\ ReportTypeOK /\ ServerTypeOK /\ announced \in 0..flags.c /\ (Failures > 0 => SomeBroken)
      /\ PerLoop \in Nat /\ flags \in Flags
  BY TestParts
<1>5. PICK c \in Conns : c = ConnOf(g)
  BY <1>1, <1>2, OwnConnection
<1>6. loop[g].i \in 1..PerLoop /\ loop[g].ok
  BY <1>1, <1>2, OwnConnection
<1>7. buf \in [1..MaxLoops -> Bodies] /\ flags.c \in Nat /\ PerLoop =< flags.c + 1
  <2>1. flags.g \in Nat \ {0} /\ flags.c \in Nat /\ flags.g * PerLoop =< flags.c
    BY <1>4, FlagFacts
  <2>2. PerLoop =< flags.g * PerLoop /\ flags.g * PerLoop \in Nat
    BY <1>4, <2>1
  <2>3. QED
    BY <1>4, <2>1, <2>2, Types
<1>8. PICK at \in {"write", "dial"}, i \in 1..PerLoop :
          /\ Turn(g, at, i)
          /\ at = "dial" => i = loop[g].i + 1
  <2>1. CASE loop[g].i = PerLoop
    BY <1>2, <1>4, <2>1 DEF Announce
  <2>2. CASE loop[g].i # PerLoop
    BY <1>4, <1>6, <2>2 DEF Announce
  <2>3. QED
    BY <2>1, <2>2
<1>9. at \in LoopStates /\ i \in 1..(flags.c + 1)
  BY <1>4, <1>7 DEF LoopStates
<1>10. /\ loop' \in [1..MaxLoops -> LoopType] /\ loop'[g].at = at /\ loop'[g].i = i /\ loop'[g].ok = loop[g].ok
       /\ \A h \in 1..MaxLoops : h # g => loop'[h] = loop[h]
  BY <1>1, <1>8, <1>9, Turns
<1>11. Silent(c)'
  <2>1. Silent(c)
    BY <1>1, <1>2, <1>5, OnlyReader
  <2>2. QED
    BY <1>3, <2>1 DEF Silent
<1>12. LoopShape' /\ LoopTalk'
  <2>1. \A j \in 1..PerLoop : Undialed(g, j)' => Undialed(g, j) /\ (link' = link \/ j # loop[g].i)
    <3>1. loop[g].i \in Nat /\ i \in Nat
      BY <1>4, <1>6
    <3>2. QED
      BY <1>1, <1>3, <1>4, <1>8, <1>10, <3>1 DEF Undialed
  <2>2. loop'[g].ok /\ loop'[g].i =< PerLoop
    BY <1>4, <1>6, <1>10
  <2>3. \A d \in Conns : d # c => link'[d] = link[d] /\ toServer'[d] = toServer[d] /\ toClient'[d] = toClient[d]
    BY <1>3
  <2>4. \A h \in 1..MaxLoops : h # g => loop'[h] = loop[h] /\ buf'[h] = buf[h]
    BY <1>1, <1>10
  <2>5. QED
    BY <1>1, <1>2, <1>5, <1>10, <1>11, <2>1, <2>2, <2>3, <2>4, OneLoopMoves
<1>13. ReportTypeOK' /\ Reporting' /\ Successes' = Successes /\ Failures' = Failures
  BY <1>1, <1>4, ReportKeepsCounts
<1>14. ServerTypeOK' /\ Wires' /\ SomeBroken' = SomeBroken /\ Dialed' = Dialed
  BY <1>3, <1>4 DEF ServerTypeOK, Wires, Silent, SomeBroken, Dialed
<1>15. Got' = Got /\ Unread' = Unread /\ Handling' = Handling /\ Served' = Served
  <2>1. Got' = Got
    BY <1>1, <1>8, <1>10 DEF Got
  <2>2. Unread' = Unread /\ Served' = Served
    BY <1>3 DEF Unread, Served
  <2>3. Handling' = Handling
    BY DEF Handling, poolOwnVars, echoVars
  <2>4. QED
    BY <2>1, <2>2, <2>3
<1>16. Accounted' /\ Tallies
  BY <1>4, <1>13, <1>15 DEF Accounted, Tallies
<1>17. Barrier' /\ announced' \in 0..flags.c
  <2>1. Announcing' = Announcing \ {g} /\ g \in Announcing
    BY <1>1, <1>8, <1>10 DEF Announcing
  <2>2. Cardinality(Announcing') = Cardinality(Announcing) - 1
    BY <1>4, <2>1, Numbers, OneMore
  <2>3. /\ announced + Cardinality(Announcing) = Cardinality(Dialed) /\ announced \in Nat
        /\ Cardinality(Announcing) \in Nat /\ Cardinality(Dialed) =< flags.c
    BY DialedFit
  <2>4. Cardinality(Announcing') \in Nat
    <3>1. IsFiniteSet(Announcing)
      BY <1>4, Numbers
    <3>2. IsFiniteSet(Announcing')
      BY <2>1, <3>1, FS_RemoveElement
    <3>3. QED
      BY <3>2, FS_CardinalityType
  <2>5. announced < flags.c
    BY <1>7, <2>2, <2>3, <2>4
  <2>6. main = "collect"
    BY <1>4, <1>7, <2>3, <2>5 DEF Barrier
  <2>7. QED
    BY <1>1, <1>4, <1>7, <1>13, <1>14, <2>2, <2>3, <2>5, <2>6 DEF Barrier
<1>18. Failures' > 0 => SomeBroken'
  BY <1>4, <1>13, <1>14
<1>19. buf' \in [1..MaxLoops -> Bodies]
  BY <1>1, <1>7
<1>20. QED
  BY <1>1, <1>10, <1>12, <1>13, <1>14, <1>16, <1>17, <1>18, <1>19, GoroutineAssembles

(* A step of an echo, between the goroutine and its connection.            *)
LEMMA EchoAssembles ==
    ASSUME IInv, program = "test", UNCHANGED <<poolOwnVars, program>>,
           UNCHANGED <<flags, main, announced, tick, counting, running>>,
           UNCHANGED <<protocol, listening, link, handler, qps, n, total>>,
           NEW g \in Goroutines, loop[g].at \notin {"dial", "announce"}, NEW c \in Conns, c = ConnOf(g),
           loop' \in [1..MaxLoops -> LoopType], loop'[g].at \notin {"dial", "announce"},
           loop'[g].ok, loop'[g].i =< PerLoop,
           buf' \in [1..MaxLoops -> Bodies],
           \A h \in 1..MaxLoops : h # g => loop'[h] = loop[h] /\ buf'[h] = buf[h],
           toServer' \in [Conns -> Seq(Bodies)], toClient' \in [Conns -> Seq(Bodies)],
           \A d \in Conns : d # c => toServer'[d] = toServer[d] /\ toClient'[d] = toClient[d],
           Silent(c)' \/ (loop'[g].at = "read" /\ loop'[g].i = loop[g].i /\ Carries(c, buf[g])'),
           link[c] # "up" => Silent(c)',
           ReportTypeOK', Reporting', Failures' > 0 => SomeBroken, Successes' > 0 => counting, Accounted'
    PROVE  IInv'
<1>1. LoadersTypeOK /\ Wires /\ LoopShape /\ Barrier /\ ServerTypeOK /\ announced \in 0..flags.c
  BY TestParts
<1>2. PerLoop > 0
  BY HasConnections
<1>3. LoopShape' /\ LoopTalk'
  <2>1. \A j \in 1..PerLoop : Undialed(g, j)' => Undialed(g, j) /\ (link' = link \/ j # loop[g].i)
    BY DEF Undialed
  <2>2. \A d \in Conns : d # c => link'[d] = link[d] /\ toServer'[d] = toServer[d] /\ toClient'[d] = toClient[d]
    OBVIOUS
  <2>3. QED
    BY <1>2, <2>1, <2>2, OneLoopMoves, ZenonT(40)
<1>4. ServerTypeOK'
  BY <1>1 DEF ServerTypeOK
<1>5. Wires'
  BY <1>1, ZenonT(40) DEF Wires, Silent
<1>6. Barrier'
  <2>1. Announcing' = Announcing /\ Dialed' = Dialed
    BY ZenonT(40) DEF Announcing, Dialed
  <2>2. QED
    BY <1>1, <2>1 DEF Barrier
<1>7. Failures' > 0 => SomeBroken'
  BY DEF SomeBroken
<1>8. announced' \in 0..flags.c
  BY <1>1
<1>9. QED
  BY <1>3, <1>4, <1>5, <1>6, <1>7, <1>8, GoroutineAssembles

(* A goroutine writes a fresh body.                                        *)
LEMMA WriteStep ==
    ASSUME IInv, program = "test", UNCHANGED <<poolOwnVars, program>>, NEW g \in 1..MaxLoops, Write(g)
    PROVE  IInv' /\ Tallies
<1>1. PICK b \in Bodies :
          /\ buf' = [buf EXCEPT ![g] = b]
          /\ toServer' = [toServer EXCEPT ![ConnOf(g)] = Append(toServer[ConnOf(g)], b)]
  BY DEF Write
<1>2. /\ g \in Goroutines /\ loop[g].at = "write" /\ link[ConnOf(g)] = "up" /\ MoveTo(g, "read")
      /\ UNCHANGED <<protocol, listening, link, toClient, handler, qps, n, total, reportVars>>
      /\ UNCHANGED <<flags, main, announced, tick, counting, running>>
  BY DEF Write, At, counters
<1>3. PerLoop > 0
  BY <1>2, HasConnections
<1>4. PICK c \in Conns : c = ConnOf(g)
  BY <1>2, <1>3, OwnConnection
<1>5. /\ LoadersTypeOK /\ Accounted /\ Reporting /\ Barrier /\ ReportTypeOK /\ (Failures > 0 => SomeBroken)
      /\ loop[g].i \in 1..(flags.c + 1)
  BY TestParts
<1>6. loop[g].i \in 1..PerLoop /\ loop[g].ok
  BY <1>2, <1>3, OwnConnection
<1>7. /\ buf \in [1..MaxLoops -> Bodies] /\ toServer \in [Conns -> Seq(Bodies)] /\ toClient \in [Conns -> Seq(Bodies)]
  BY <1>5, Types
<1>8. toServer[c] = <<>> /\ toClient[c] = <<>>
  BY <1>2, <1>3, <1>4, OnlyReader DEF Silent
<1>9. toServer' = [toServer EXCEPT ![c] = <<b>>]
  <2>1. Append(<<>>, b) = <<b>>
    OBVIOUS
  <2>2. QED
    BY <1>1, <1>4, <1>8, <2>1
<1>10. /\ loop' \in [1..MaxLoops -> LoopType] /\ loop'[g].at = "read" /\ loop'[g].i = loop[g].i /\ loop'[g].ok = loop[g].ok
       /\ \A h \in 1..MaxLoops : h # g => loop'[h] = loop[h]
  BY <1>2, <1>5, Turns DEF LoopStates
<1>11. /\ toServer' \in [Conns -> Seq(Bodies)] /\ buf' \in [1..MaxLoops -> Bodies] /\ buf'[g] = b /\ toServer'[c] = <<b>>
       /\ \A h \in 1..MaxLoops : h # g => buf'[h] = buf[h]
       /\ \A d \in Conns : d # c => toServer'[d] = toServer[d] /\ toClient'[d] = toClient[d]
  <2>1. <<b>> \in Seq(Bodies)
    OBVIOUS
  <2>2. QED
    BY <1>1, <1>2, <1>7, <1>9, <2>1
<1>12. Carries(c, buf[g])'
  BY <1>2, <1>8, <1>11 DEF Carries
<1>13. ReportTypeOK' /\ Reporting' /\ Successes' = Successes /\ Failures' = Failures
  BY <1>2, <1>5, ReportKeepsCounts
<1>14. Got' = Got /\ Unread' = Unread /\ Handling' = Handling /\ Served' = Served
  <2>1. Got' = Got
    BY <1>2, <1>10 DEF Got
  <2>2. Unread' = Unread /\ Served' = Served
    BY <1>2 DEF Unread, Served
  <2>3. Handling' = Handling
    BY DEF Handling, poolOwnVars, echoVars
  <2>4. QED
    BY <2>1, <2>2, <2>3
<1>15. Accounted' /\ Tallies
  BY <1>5, <1>13, <1>14 DEF Accounted, Tallies
<1>16. /\ loop[g].at \notin {"dial", "announce"} /\ loop'[g].at \notin {"dial", "announce"}
       /\ loop'[g].ok /\ loop'[g].i =< PerLoop
  <2>1. PerLoop \in Nat
    BY TestParts
  <2>2. QED
    BY <1>2, <1>6, <1>10, <2>1
<1>17. link[c] # "up" => Silent(c)'
  BY <1>2, <1>4
<1>18. (Failures' > 0 => SomeBroken) /\ (Successes' > 0 => counting)
  BY <1>5, <1>13 DEF Barrier
<1>19. toClient' \in [Conns -> Seq(Bodies)]
  BY <1>2, <1>7
<1>20. \A h \in 1..MaxLoops : h # g => loop'[h] = loop[h] /\ buf'[h] = buf[h]
  BY <1>10, <1>11
<1>21. IInv'
  BY <1>2, <1>4, <1>10, <1>11, <1>12, <1>13, <1>15, <1>16, <1>17, <1>18, <1>19, <1>20, EchoAssembles
<1>22. QED
  BY <1>15, <1>21

(* An echo fails: its connection has broken, and what was on it is lost.   *)
LEMMA EchoFailsStep ==
    ASSUME IInv, program = "test", UNCHANGED <<poolOwnVars, program>>, NEW g \in 1..MaxLoops, EchoFails(g)
    PROVE  IInv' /\ Tallies
<1>1. /\ g \in Goroutines /\ loop[g].at \in {"write", "read"} /\ link[ConnOf(g)] = "broken" /\ Fail /\ NextTurn(g)
      /\ UNCHANGED <<flags, main, announced, tick, counting, running, buf>>
      /\ UNCHANGED <<protocol, listening, link, toServer, toClient, handler, qps, n, total>>
  BY DEF EchoFails, At, serverVars, traffic, counters
<1>2. PerLoop > 0
  BY <1>1, HasConnections
<1>3. PICK c \in Conns : c = ConnOf(g)
  BY <1>1, <1>2, OwnConnection
<1>4. /\ LoadersTypeOK /\ Accounted /\ Reporting /\ Barrier /\ ReportTypeOK /\ Wires /\ PerLoop \in Nat
  BY TestParts
<1>5. /\ buf \in [1..MaxLoops -> Bodies] /\ toServer \in [Conns -> Seq(Bodies)] /\ toClient \in [Conns -> Seq(Bodies)]
  BY <1>4, Types
<1>6. /\ loop' \in [1..MaxLoops -> LoopType]
      /\ loop'[g].at \in {"write", "stopped"} /\ loop'[g].i \in 1..PerLoop /\ loop'[g].ok
      /\ \A h \in 1..MaxLoops : h # g => loop'[h] = loop[h]
  BY <1>1, <1>2, NextTurns
<1>7. Silent(c)'
  BY <1>1, <1>3, <1>4 DEF Wires, Silent
<1>8. ReportTypeOK' /\ Reporting' /\ Successes' = Successes
  BY <1>1, <1>4, ReportKeepsCounts
<1>9. Got' = Got /\ Unread' = Unread /\ Handling' = Handling /\ Served' = Served
  <2>1. Got' = Got
    BY <1>1, <1>6 DEF Got
  <2>2. Unread' = Unread /\ Served' = Served
    BY <1>1 DEF Unread, Served
  <2>3. Handling' = Handling
    BY DEF Handling, poolOwnVars, echoVars
  <2>4. QED
    BY <2>1, <2>2, <2>3
<1>10. Accounted' /\ Tallies
  BY <1>4, <1>8, <1>9 DEF Accounted, Tallies
<1>11. loop[g].at \notin {"dial", "announce"} /\ loop'[g].at \notin {"dial", "announce"} /\ loop'[g].i =< PerLoop
  BY <1>1, <1>4, <1>6
<1>12. SomeBroken /\ (Successes' > 0 => counting)
  BY <1>1, <1>3, <1>4, <1>8 DEF SomeBroken, Barrier
<1>13. \A d \in Conns : d # c => toServer'[d] = toServer[d] /\ toClient'[d] = toClient[d]
  BY <1>1
<1>14. \A h \in 1..MaxLoops : h # g => loop'[h] = loop[h] /\ buf'[h] = buf[h]
  BY <1>1, <1>6
<1>15. toServer' \in [Conns -> Seq(Bodies)] /\ toClient' \in [Conns -> Seq(Bodies)] /\ buf' \in [1..MaxLoops -> Bodies]
  BY <1>1, <1>5
<1>16. IInv'
  BY <1>1, <1>3, <1>6, <1>7, <1>8, <1>10, <1>11, <1>12, <1>13, <1>14, <1>15, EchoAssembles
<1>17. QED
  BY <1>10, <1>16

(* A goroutine reads its answer, which is what it has written.             *)
LEMMA ReadStep ==
    ASSUME IInv, program = "test", UNCHANGED <<poolOwnVars, program>>, NEW g \in 1..MaxLoops, Read(g)
    PROVE  IInv' /\ Tallies
<1>1. /\ g \in Goroutines /\ loop[g].at = "read" /\ toClient[ConnOf(g)] # <<>>
      /\ toClient' = [toClient EXCEPT ![ConnOf(g)] = Tail(toClient[ConnOf(g)])]
      /\ loop' = [loop EXCEPT ![g] = [at |-> "got", i |-> loop[g].i, ok |-> Head(toClient[ConnOf(g)]) = buf[g]]]
      /\ UNCHANGED <<protocol, listening, link, toServer, handler, qps, n, total, reportVars>>
      /\ UNCHANGED <<flags, main, announced, tick, counting, running, buf>>
  BY DEF Read, At, counters
<1>2. PerLoop > 0
  BY <1>1, HasConnections
<1>3. PICK c \in Conns : c = ConnOf(g)
  BY <1>1, <1>2, OwnConnection
<1>4. /\ LoadersTypeOK /\ Accounted /\ Reporting /\ Barrier /\ ReportTypeOK /\ PerLoop \in Nat
      /\ loop[g].i \in 1..(flags.c + 1) /\ (Failures > 0 => SomeBroken) /\ loop \in [1..MaxLoops -> LoopType]
  BY TestParts
<1>5. /\ buf \in [1..MaxLoops -> Bodies] /\ toServer \in [Conns -> Seq(Bodies)] /\ toClient \in [Conns -> Seq(Bodies)]
  BY <1>4, Types
<1>6. loop[g].i \in 1..PerLoop /\ loop[g].ok
  BY <1>1, <1>2, OwnConnection
<1>7. toServer[c] = <<>> /\ toClient[c] = <<buf[g]>>
  BY <1>1, <1>2, <1>3, OnlyReader DEF Silent, Carries
<1>8. Head(<<buf[g]>>) = buf[g] /\ Tail(<<buf[g]>>) = <<>>
  OBVIOUS
<1>9. toClient' = [toClient EXCEPT ![c] = <<>>] /\ Head(toClient[c]) = buf[g]
  BY <1>1, <1>3, <1>7, <1>8
<1>10. loop' = [loop EXCEPT ![g] = [at |-> "got", i |-> loop[g].i, ok |-> TRUE]]
  <2>1. (Head(toClient[ConnOf(g)]) = buf[g]) = TRUE
    BY <1>3, <1>9
  <2>2. QED
    BY <1>1, <2>1
<1>11. /\ loop' \in [1..MaxLoops -> LoopType]
       /\ loop'[g] = [at |-> "got", i |-> loop[g].i, ok |-> TRUE]
       /\ \A h \in 1..MaxLoops : h # g => loop'[h] = loop[h]
  <2>1. "got" \in LoopStates /\ TRUE \in BOOLEAN
    BY DEF LoopStates
  <2>2. [at |-> "got", i |-> loop[g].i, ok |-> TRUE] \in LoopType
    BY <1>4, <2>1, Zenon DEF LoopType
  <2>3. QED
    BY <1>4, <1>10, <2>2, Zenon
<1>12. loop'[g].at = "got" /\ loop'[g].i = loop[g].i /\ loop'[g].ok
  BY <1>11
<1>13. /\ toClient' \in [Conns -> Seq(Bodies)] /\ toClient'[c] = <<>>
       /\ \A d \in Conns : d # c => toServer'[d] = toServer[d] /\ toClient'[d] = toClient[d]
  <2>1. <<>> \in Seq(Bodies)
    OBVIOUS
  <2>2. QED
    BY <1>1, <1>5, <1>9, <2>1
<1>14. Silent(c)'
  BY <1>1, <1>7, <1>13 DEF Silent
<1>15. ReportTypeOK' /\ Reporting' /\ Successes' = Successes /\ Failures' = Failures
  BY <1>1, <1>4, ReportKeepsCounts
<1>16. Handling' = Handling /\ Served' = Served /\ Got' = Got \cup {g} /\ g \notin Got /\ Unread' = Unread \ {c} /\ c \in Unread
  <2>1. Got' = Got \cup {g} /\ g \notin Got
    BY <1>1, <1>11, <1>12 DEF Got
  <2>2. Unread' = Unread \ {c} /\ c \in Unread
    BY <1>1, <1>3, <1>13 DEF Unread
  <2>3. Served' = Served
    BY <1>1 DEF Served
  <2>4. Handling' = Handling
    BY DEF Handling, poolOwnVars, echoVars
  <2>5. QED
    BY <2>1, <2>2, <2>3, <2>4
<1>17. /\ Cardinality(Got') = Cardinality(Got) + 1 /\ Cardinality(Unread') = Cardinality(Unread) - 1
       /\ Cardinality(Got) \in Nat /\ Cardinality(Unread) \in Nat /\ Cardinality(Handling) \in Nat
       /\ Successes \in Nat /\ Served \in Nat
  BY <1>4, <1>16, Numbers, OneMore
<1>18. Accounted' /\ Tallies
  BY <1>4, <1>15, <1>16, <1>17 DEF Accounted, Tallies
<1>19. loop[g].at \notin {"dial", "announce"} /\ loop'[g].at \notin {"dial", "announce"} /\ loop'[g].i =< PerLoop
  BY <1>1, <1>4, <1>6, <1>12
<1>20. (Failures' > 0 => SomeBroken) /\ (Successes' > 0 => counting)
  BY <1>4, <1>15 DEF Barrier
<1>21. \A h \in 1..MaxLoops : h # g => loop'[h] = loop[h] /\ buf'[h] = buf[h]
  BY <1>1, <1>11
<1>22. toServer' \in [Conns -> Seq(Bodies)] /\ buf' \in [1..MaxLoops -> Bodies]
  BY <1>1, <1>5
<1>23. IInv'
  BY <1>1, <1>3, <1>11, <1>12, <1>13, <1>14, <1>15, <1>18, <1>19, <1>20, <1>21, <1>22, EchoAssembles
<1>24. QED
  BY <1>18, <1>23

(* A goroutine counts its echo, once the counting is on.                   *)
LEMMA CountStep ==
    ASSUME IInv, program = "test", UNCHANGED <<poolOwnVars, program>>, NEW g \in 1..MaxLoops, Count(g)
    PROVE  IInv' /\ Tallies
<1>1. /\ g \in Goroutines /\ loop[g].at = "got" /\ NextTurn(g)
      /\ UNCHANGED <<flags, main, announced, tick, counting, running, buf>>
      /\ UNCHANGED <<protocol, listening, link, toServer, toClient, handler, qps, n, total>>
  BY DEF Count, At, serverVars, traffic, counters
<1>2. PerLoop > 0
  BY <1>1, HasConnections
<1>3. PICK c \in Conns : c = ConnOf(g)
  BY <1>1, <1>2, OwnConnection
<1>4. /\ LoadersTypeOK /\ Accounted /\ Reporting /\ Barrier /\ ReportTypeOK /\ Wires /\ PerLoop \in Nat
      /\ (Failures > 0 => SomeBroken)
  BY TestParts
<1>5. /\ buf \in [1..MaxLoops -> Bodies] /\ toServer \in [Conns -> Seq(Bodies)] /\ toClient \in [Conns -> Seq(Bodies)]
  BY <1>4, Types
<1>6. /\ loop' \in [1..MaxLoops -> LoopType]
      /\ loop'[g].at \in {"write", "stopped"} /\ loop'[g].i \in 1..PerLoop /\ loop'[g].ok
      /\ \A h \in 1..MaxLoops : h # g => loop'[h] = loop[h]
  BY <1>1, <1>2, NextTurns
<1>7. Silent(c)'
  <2>1. Silent(c)
    BY <1>1, <1>2, <1>3, OnlyReader
  <2>2. QED
    BY <1>1, <2>1 DEF Silent
<1>8. (~counting /\ UNCHANGED reportVars) \/ (counting /\ Succeed)
  <2>1. loop[g].ok
    BY <1>1, <1>2, OwnConnection
  <2>2. counting \in BOOLEAN
    BY <1>4 DEF LoadersTypeOK, LoadTypeOK
  <2>3. CASE counting
    BY <2>1, <2>3 DEF Count
  <2>4. CASE ~counting
    BY <2>4 DEF Count
  <2>5. QED
    BY <2>3, <2>4
<1>9. /\ ReportTypeOK' /\ Reporting' /\ Failures' = Failures
      /\ (Successes' = Successes \/ (counting /\ Successes' = Successes + 1))
  BY <1>4, <1>8, ReportKeepsCounts
<1>10. Got' = Got \ {g} /\ g \in Got /\ Unread' = Unread /\ Handling' = Handling /\ Served' = Served
  <2>1. Got' = Got \ {g} /\ g \in Got
    BY <1>1, <1>6 DEF Got
  <2>2. Unread' = Unread /\ Served' = Served
    BY <1>1 DEF Unread, Served
  <2>3. Handling' = Handling
    BY DEF Handling, poolOwnVars, echoVars
  <2>4. QED
    BY <2>1, <2>2, <2>3
<1>11. /\ Cardinality(Got') = Cardinality(Got) - 1
       /\ Cardinality(Got) \in Nat /\ Cardinality(Unread) \in Nat /\ Cardinality(Handling) \in Nat
       /\ Successes \in Nat /\ Served \in Nat
  BY <1>4, <1>10, Numbers, OneMore
<1>12. Accounted' /\ Tallies
  BY <1>4, <1>9, <1>10, <1>11 DEF Accounted, Tallies
<1>13. loop[g].at \notin {"dial", "announce"} /\ loop'[g].at \notin {"dial", "announce"} /\ loop'[g].i =< PerLoop
  BY <1>1, <1>4, <1>6
<1>14. (Failures' > 0 => SomeBroken) /\ (Successes' > 0 => counting)
  BY <1>4, <1>9 DEF Barrier
<1>15. \A d \in Conns : d # c => toServer'[d] = toServer[d] /\ toClient'[d] = toClient[d]
  BY <1>1
<1>16. \A h \in 1..MaxLoops : h # g => loop'[h] = loop[h] /\ buf'[h] = buf[h]
  BY <1>1, <1>6
<1>17. toServer' \in [Conns -> Seq(Bodies)] /\ toClient' \in [Conns -> Seq(Bodies)] /\ buf' \in [1..MaxLoops -> Bodies]
  BY <1>1, <1>5
<1>18. IInv'
  BY <1>1, <1>3, <1>6, <1>7, <1>9, <1>12, <1>13, <1>14, <1>15, <1>16, <1>17, EchoAssembles
<1>19. QED
  BY <1>12, <1>18
-----------------------------------------------------------------------------
(* The test: main.                                                         *)
LEMMA MainAssembles ==
    ASSUME IInv, program = "test", UNCHANGED <<poolOwnVars, program>>,
           UNCHANGED <<serverVars, flags, announced, loop, buf>>,
           main' \in {"collect", "settle", "report", "end", "exited"},
           tick' \in 0..Ticks, counting' \in BOOLEAN, running' \in BOOLEAN,
           (SwapSuccess \/ SwapFailed \/ AddTotals) \/ UNCHANGED reportVars,
           main' # "collect" => announced = flags.c,
           counting' => main' # "collect", counting => counting'
    PROVE  IInv' /\ Tallies
<1>1. /\ LoadersTypeOK /\ Wires /\ Accounted /\ Reporting /\ Barrier /\ ReportTypeOK /\ ServerTypeOK
      /\ announced \in 0..flags.c /\ (Failures > 0 => SomeBroken) /\ loop \in [1..MaxLoops -> LoopType]
  BY TestParts
<1>2. UNCHANGED <<protocol, listening, link, toServer, toClient, handler, qps, n, total>>
  BY DEF serverVars, traffic, counters
<1>3. ReportTypeOK' /\ Reporting' /\ Successes' = Successes /\ Failures' = Failures
  BY <1>1, ReportKeepsCounts
<1>4. Fades
  BY <1>2 DEF Fades, Silent, Carries
<1>5. LoopShape' /\ LoopTalk' /\ Dialed' = Dialed /\ Announcing' = Announcing
  BY <1>4, LoopsRest
<1>6. Barrier'
  BY <1>1, <1>3, <1>5 DEF Barrier
<1>7. ServerTypeOK' /\ Wires' /\ SomeBroken' = SomeBroken
  BY <1>1, <1>2 DEF ServerTypeOK, Wires, Silent, SomeBroken
<1>8. Accounted' /\ Tallies
  <2>1. Got' = Got /\ Unread' = Unread /\ Served' = Served
    BY <1>2 DEF Got, Unread, Served
  <2>2. Handling' = Handling
    BY DEF Handling, poolOwnVars, echoVars
  <2>3. QED
    BY <1>1, <1>3, <2>1, <2>2 DEF Accounted, Tallies
<1>9. loop' \in [1..MaxLoops -> LoopType]
  BY <1>1
<1>10. announced' \in 0..flags.c /\ (Failures' > 0 => SomeBroken')
  BY <1>1, <1>3, <1>7
<1>11. buf' \in [1..MaxLoops -> Bodies]
  BY <1>1, Types
<1>12. QED
  BY <1>3, <1>5, <1>6, <1>7, <1>8, <1>9, <1>10, <1>11, TestAssembles

(* main returns, and what is on the connections is lost.                   *)
LEMMA ExitStep ==
    ASSUME IInv, program = "test", UNCHANGED <<poolOwnVars, program>>, Exit
    PROVE  IInv' /\ Tallies
<1>1. /\ LoadersTypeOK /\ Wires /\ Accounted /\ Reporting /\ Barrier /\ ReportTypeOK /\ ServerTypeOK
      /\ announced \in 0..flags.c /\ (Failures > 0 => SomeBroken) /\ loop \in [1..MaxLoops -> LoopType]
  BY TestParts
<1>2. /\ main = "end" /\ main' = "exited"
      /\ link' = [c \in Conns |-> IF link[c] = "up" THEN "broken" ELSE link[c]]
      /\ toServer' = [c \in Conns |-> <<>>] /\ toClient' = [c \in Conns |-> <<>>]
      /\ UNCHANGED <<protocol, listening, handler, qps, n, total, reportVars>>
      /\ UNCHANGED <<flags, announced, tick, counting, running, loop, buf>>
  BY DEF Exit, counters
<1>3. ReportTypeOK' /\ Reporting' /\ Successes' = Successes /\ Failures' = Failures
  BY <1>1, <1>2, ReportKeepsCounts
<1>4. link \in [Conns -> {"none", "up", "broken"}] /\ buf \in [1..MaxLoops -> Bodies]
  BY <1>1, Types
<1>5. \A c \in Conns : /\ toServer'[c] = <<>> /\ toClient'[c] = <<>> /\ Silent(c)'
                       /\ link'[c] = "none" <=> link[c] = "none"
                       /\ link[c] = "broken" => link'[c] = "broken"
  BY <1>2, <1>4 DEF Silent
<1>6. Fades
  BY <1>5 DEF Fades
<1>7. LoopShape' /\ LoopTalk' /\ Dialed' = Dialed /\ Announcing' = Announcing
  BY <1>2, <1>6, LoopsRest
<1>8. Barrier'
  BY <1>1, <1>2, <1>3, <1>7 DEF Barrier
<1>9. ServerTypeOK'
  <2>1. link' \in [Conns -> {"none", "up", "broken"}]
    BY <1>2, <1>4
  <2>2. <<>> \in Seq(Bodies)
    OBVIOUS
  <2>3. toServer' \in [Conns -> Seq(Bodies)] /\ toClient' \in [Conns -> Seq(Bodies)]
    BY <1>2, <2>2
  <2>4. QED
    BY <1>1, <1>2, <2>1, <2>3 DEF ServerTypeOK
<1>10. Wires'
  BY <1>1, <1>2, <1>5 DEF Wires
<1>11. SomeBroken => SomeBroken'
  BY <1>5 DEF SomeBroken
<1>12. Accounted' /\ Tallies
  <2>1. Got' = Got /\ Served' = Served
    BY <1>2 DEF Got, Served
  <2>2. Handling' = Handling
    BY DEF Handling, poolOwnVars, echoVars
  <2>3. Cardinality(Unread') = 0
    <3>1. Unread' = {}
      BY <1>5 DEF Unread
    <3>2. QED
      BY <3>1, FS_EmptySet
  <2>4. /\ Cardinality(Got) \in Nat /\ Cardinality(Unread) \in Nat /\ Cardinality(Handling) \in Nat
        /\ Successes \in Nat /\ Served \in Nat
    BY <1>1, Numbers
  <2>5. QED
    BY <1>1, <1>3, <2>1, <2>2, <2>3, <2>4 DEF Accounted, Tallies
<1>13. /\ loop' \in [1..MaxLoops -> LoopType] /\ buf' \in [1..MaxLoops -> Bodies] /\ announced' \in 0..flags.c
       /\ main' \in {"collect", "settle", "report", "end", "exited"} /\ flags' = flags
       /\ (Failures' > 0 => SomeBroken')
  BY <1>1, <1>2, <1>3, <1>4, <1>11
<1>14. tick' \in 0..Ticks
  BY <1>1, <1>2 DEF LoadersTypeOK, LoadTypeOK
<1>15. counting' \in BOOLEAN /\ running' \in BOOLEAN
  <2>1. counting \in BOOLEAN /\ running \in BOOLEAN
    BY <1>1 DEF LoadersTypeOK, LoadTypeOK
  <2>2. QED
    BY <1>2, <2>1, Zenon
<1>16. QED
  BY <1>3, <1>7, <1>8, <1>9, <1>10, <1>12, <1>13, <1>14, <1>15, TestAssembles

LEMMA MainSteps ==
    ASSUME IInv, program = "test", UNCHANGED <<poolOwnVars, program>>, MainStep
    PROVE  IInv' /\ Tallies
<1>1. /\ tick \in 0..Ticks /\ main \in {"collect", "settle", "report", "end", "exited"} /\ Ticks \in Nat
  BY BoundsOfTest DEF IInv, LoadersTypeOK, LoadTypeOK
<1>2. counting \in BOOLEAN /\ running \in BOOLEAN
  BY DEF IInv, LoadersTypeOK, LoadTypeOK
<1>3. /\ main # "collect" => announced = flags.c
      /\ counting => main # "collect"
  BY DEF IInv, TestInv, Barrier
<1>4. CASE Exit
  BY <1>4, ExitStep
<1>5. CASE Collect
  <2>1. /\ main = "collect" /\ main' = "settle" /\ announced = flags.c /\ UNCHANGED <<serverVars, flags, announced, loop, buf>>
        /\ UNCHANGED <<reportVars, tick, counting, running>>
    BY <1>5 DEF Collect, MainGoes
  <2>2. counting' \in BOOLEAN /\ running' \in BOOLEAN /\ (counting => counting')
    BY <1>2, <2>1, Zenon
  <2>3. QED
    BY <1>1, <1>3, <2>1, <2>2, MainAssembles
<1>6. CASE StartCounting
  <2>1. /\ main = "settle" /\ main' = "report" /\ counting' = TRUE /\ UNCHANGED <<serverVars, flags, announced, loop, buf>>
        /\ UNCHANGED <<reportVars, tick, running>>
    BY <1>6 DEF StartCounting, MainGoes
  <2>2. counting' \in BOOLEAN /\ running' \in BOOLEAN /\ (counting => counting')
    BY <1>2, <2>1, Zenon
  <2>3. QED
    BY <1>1, <1>3, <2>1, <2>2, MainAssembles
<1>7. CASE Report
  <2>1. /\ main = "report" /\ main' = "report" /\ UNCHANGED <<serverVars, flags, announced, loop, buf>>
        /\ SwapSuccess \/ SwapFailed \/ AddTotals
        /\ tick < Ticks /\ (tick' = tick \/ tick' = tick + 1) /\ UNCHANGED <<counting, running>>
    BY <1>7 DEF Report, MainGoes
  <2>2. counting' \in BOOLEAN /\ running' \in BOOLEAN /\ (counting => counting')
    BY <1>2, <2>1, Zenon
  <2>3. QED
    BY <1>1, <1>3, <2>1, <2>2, MainAssembles
<1>8. CASE StopRunning
  <2>1. /\ main = "report" /\ main' = "end" /\ running' = FALSE /\ UNCHANGED <<serverVars, flags, announced, loop, buf>>
        /\ UNCHANGED <<reportVars, tick, counting>>
    BY <1>8 DEF StopRunning, MainGoes
  <2>2. counting' \in BOOLEAN /\ running' \in BOOLEAN /\ (counting => counting')
    BY <1>2, <2>1, Zenon
  <2>3. QED
    BY <1>1, <1>3, <2>1, <2>2, MainAssembles
<1>9. QED
  BY <1>4, <1>5, <1>6, <1>7, <1>8 DEF MainStep

(* Every step of the test.                                                 *)
LEMMA TestSteps ==
    ASSUME IInv, program = "test", UNCHANGED <<poolOwnVars, program>>, LoadNext
    PROVE  IInv' /\ Tallies
<1>1. CASE MainStep
  BY <1>1, MainSteps
<1>2. ASSUME NEW g \in 1..MaxLoops, LoopStep(g) PROVE IInv' /\ Tallies
  <2>1. CASE Dial(g)
    BY <2>1, DialStep
  <2>2. CASE Announce(g)
    BY <2>2, AnnounceStep
  <2>3. CASE Write(g)
    BY <2>3, WriteStep
  <2>4. CASE EchoFails(g)
    BY <2>4, EchoFailsStep
  <2>5. CASE Read(g)
    BY <2>5, ReadStep
  <2>6. CASE Count(g)
    BY <2>6, CountStep
  <2>7. QED
    BY <1>2, <2>1, <2>2, <2>3, <2>4, <2>5, <2>6 DEF LoopStep
<1>3. CASE ServerNext /\ UNCHANGED <<reportVars, clientVars>>
  BY <1>3, Environment
<1>4. CASE (\E c \in Conns : Break(c)) /\ UNCHANGED <<reportVars, clientVars>>
  BY <1>4, Environment
<1>5. QED
  BY <1>1, <1>2, <1>3, <1>4 DEF LoadNext, LoadClientNext
-----------------------------------------------------------------------------
(* The pool's clients.                                                     *)
TaskStates == {"none", "queued", "dial", "stored", "done"}
LooperType == [at : {"none", "write", "read"}, i : 1..setting.c]
MessageType == [at : {"idle", "reply", "compare"}, data : Bodies]
StarterTypes ==
    /\ starter \in [at : {"go", "wait", "write", "slice", "done"}, i : Nat \ {0}]
    /\ queue \in Seq(Conns) /\ Len(queue) =< PoolQueue
    /\ task \in [Conns -> TaskStates]
    /\ wg \in 0..setting.c /\ conns \subseteq Conns
    /\ rest \in Seq(Conns) /\ sub \in [1..MaxLoopers -> Seq(Conns)]
EchoTypes ==
    /\ looper \in [1..MaxLoopers -> LooperType]
    /\ onMessage \in [Conns -> MessageType]
    /\ timer \in [Conns -> Seq(Bodies)] /\ rounds \in [Conns -> 0..MaxRounds]

LEMMA PoolParts ==
    ASSUME IInv, program = "pool"
    PROVE  /\ LoadersTypeOK /\ ServerTypeOK /\ ReportTypeOK /\ StarterTypes /\ EchoTypes
           /\ Wires /\ Accounted /\ Blamed /\ Reporting /\ Tasks /\ Slices /\ PoolTalk /\ TestIdle
           /\ setting \in Settings /\ crashed \in {"no", "nilConnection", "error"} /\ text \in Bodies
<1>1. LoadersTypeOK /\ Wires /\ Accounted /\ Blamed /\ Reporting /\ Tasks /\ Slices /\ PoolTalk /\ TestIdle
  BY DEF IInv, PoolInv
<1>2. StarterTypes /\ EchoTypes /\ crashed \in {"no", "nilConnection", "error"}
  BY <1>1 DEF LoadersTypeOK, PoolLoadTypeOK, StarterTypes, EchoTypes, TaskStates, LooperType, MessageType
<1>3. QED
  BY <1>1, <1>2, Types

LEMMA PoolAssembles ==
    ASSUME IInv, program = "pool", UNCHANGED <<clientVars, program, setting>>,
           ServerTypeOK', ReportTypeOK', Reporting', StarterTypes', EchoTypes',
           crashed' \in {"no", "error"}, (Failures' > 0 \/ crashed' = "error") => SomeBroken',
           Wires', Accounted', Tasks', Slices', PoolTalk'
    PROVE  IInv'
<1>1. /\ UNCHANGED <<flags, main, announced, tick, counting, running, loop, buf>>
      /\ setting' = setting /\ program' = "pool"
  BY DEF clientVars
<1>2. LoadersTypeOK /\ setting \in Settings /\ TestIdle
  BY PoolParts
<1>3. LoadTypeOK'
  BY <1>1, <1>2 DEF LoadersTypeOK, LoadTypeOK
<1>4. PoolLoadTypeOK'
  BY <1>1, <1>2 DEF PoolLoadTypeOK, StarterTypes, EchoTypes, TaskStates, LooperType, MessageType
<1>5. TestIdle'
  BY <1>1, <1>2 DEF TestIdle
<1>6. Blamed'
  BY DEF Blamed
<1>7. QED
  BY <1>1, <1>3, <1>4, <1>5, <1>6 DEF IInv, LoadersTypeOK, PoolInv

(* While the starter is at work nothing is served or counted.              *)
LEMMA StarterAssembles ==
    ASSUME IInv, program = "pool", UNCHANGED <<clientVars, program, setting>>,
           UNCHANGED <<protocol, listening, toServer, toClient, handler, qps, n, total, reportVars>>,
           UNCHANGED <<onMessage, timer, rounds, crashed>>,
           link' \in [Conns -> {"none", "up", "broken"}],
           \A c \in Conns : link'[c] = link[c] \/ (link[c] = "none" /\ link'[c] = "up"),
           StarterTypes', looper' \in [1..MaxLoopers -> LooperType],
           Tasks', Slices',
           \A c \in Conns : (Greeted(c) => Greeted(c)') /\ (InUseBy(c) => InUseBy(c)')
    PROVE  IInv' /\ Tallies
<1>1. /\ LoadersTypeOK /\ ServerTypeOK /\ ReportTypeOK /\ StarterTypes /\ EchoTypes
      /\ Wires /\ Accounted /\ Blamed /\ Reporting /\ PoolTalk /\ crashed \in {"no", "nilConnection", "error"}
  BY PoolParts
<1>2. ReportTypeOK' /\ Reporting' /\ Successes' = Successes /\ Failures' = Failures
  BY <1>1, ReportKeepsCounts
<1>3. ServerTypeOK'
  BY <1>1 DEF ServerTypeOK
<1>4. EchoTypes'
  BY <1>1 DEF EchoTypes, LooperType, MessageType
<1>5. Wires'
  BY <1>1 DEF Wires, Silent
<1>6. SomeBroken => SomeBroken'
  BY DEF SomeBroken
<1>7. Got' = Got /\ Unread' = Unread /\ Handling' = Handling /\ Served' = Served
  BY DEF Got, Unread, Handling, Served, clientVars
<1>8. Accounted' /\ Tallies
  BY <1>1, <1>2, <1>7 DEF Accounted, Tallies
<1>9. PoolTalk'
  <2>1. text' = text
    BY DEF text
  <2>2. \A c \in Conns : (Quiet(c) => Quiet(c)') /\ (Busy(c) => Busy(c)')
    BY <2>1 DEF Quiet, Busy, Silent, Carries
  <2>3. QED
    BY <1>1, <2>1, <2>2 DEF PoolTalk
<1>10. crashed' \in {"no", "error"} /\ (Failures' > 0 \/ crashed' = "error" => SomeBroken')
  BY <1>1, <1>2, <1>6 DEF Blamed
<1>11. QED
  BY <1>2, <1>3, <1>4, <1>5, <1>8, <1>9, <1>10, PoolAssembles

(* The starter, the tasks and the slices rest.                             *)
LEMMA PoolRests ==
    ASSUME IInv, program = "pool", UNCHANGED <<poolVars, setting, link>>
    PROVE  /\ StarterTypes' /\ Tasks' /\ \A c : Greeted(c)' <=> Greeted(c)
           /\ UNCHANGED looper => Slices' /\ \A c : InUseBy(c) => InUseBy(c)'
<1>1. UNCHANGED <<starter, queue, task, wg, conns, rest, sub, setting, link>>
  BY DEF poolVars
<1>2. StarterTypes'
  BY <1>1, PoolParts DEF StarterTypes
<1>3. Tasks'
  BY <1>1, PoolParts DEF Tasks, Started, Running
<1>4. \A c : Greeted(c)' <=> Greeted(c)
  BY <1>1 DEF Greeted
<1>5. ASSUME UNCHANGED looper PROVE Slices' /\ \A c : InUseBy(c) => InUseBy(c)'
  <2>1. Slices'
    BY <1>1, <1>5, PoolParts DEF Slices, Cut, Share, Loopers, Slot
  <2>2. \A g, c : Awaits(g, c) => Awaits(g, c)'
    BY <1>1, <1>5 DEF Awaits, Current
  <2>3. QED
    BY <1>1, <1>4, <2>1, <2>2 DEF InUseBy, Loopers
<1>6. QED
  BY <1>2, <1>3, <1>4, <1>5

(* A step that concerns one connection's message.                          *)
LEMMA OneTalks ==
    ASSUME IInv, program = "pool", UNCHANGED setting, NEW c \in Conns,
           \A d \in Conns : d # c => /\ toServer'[d] = toServer[d] /\ toClient'[d] = toClient[d]
                                     /\ onMessage'[d] = onMessage[d] /\ timer'[d] = timer[d] /\ rounds'[d] = rounds[d]
                                     /\ (InUseBy(d) => InUseBy(d)') /\ (Greeted(d) => Greeted(d)'),
           Quiet(c)' \/ (InUseBy(c)' /\ Busy(c)'),
           onMessage'[c].data = text,
           setting.mode = "loops" => onMessage'[c].at = "idle" /\ timer'[c] = <<>>,
           setting.mode = "handlers" /\ ~Greeted(c)' => rounds'[c] = 0,
           timer'[c] # <<>> => rounds'[c] < MaxRounds
    PROVE  PoolTalk'
<1>1. PoolTalk /\ text' = text
  BY PoolParts DEF text
<1>2. ASSUME NEW d \in Conns, d # c
      PROVE  /\ Quiet(d)' \/ (InUseBy(d)' /\ Busy(d)')
             /\ onMessage'[d].data = text
             /\ setting.mode = "loops" => onMessage'[d].at = "idle" /\ timer'[d] = <<>>
             /\ setting.mode = "handlers" /\ ~Greeted(d)' => rounds'[d] = 0
             /\ timer'[d] # <<>> => rounds'[d] < MaxRounds
  <2>1. (Quiet(d) => Quiet(d)') /\ (Busy(d) => Busy(d)')
    BY <1>1, <1>2 DEF Quiet, Busy, Silent, Carries
  <2>2. QED
    BY <1>1, <1>2, <2>1 DEF PoolTalk
<1>3. QED
  BY <1>1, <1>2 DEF PoolTalk

(* Every connection of the setting is dialed when the starter goes on.     *)
LEMMA AllDialed ==
    ASSUME IInv, program = "pool", Started
    PROVE  \A c \in 1..setting.c : c \in Conns /\ c \in conns /\ link[c] # "none"
<1>1. setting \in Settings /\ Tasks
  BY PoolParts
<1>2. \A c \in 1..setting.c : c \in Conns
  BY <1>1, SettingFacts
<1>3. QED
  BY <1>1, <1>2 DEF Tasks

(* A message is sent on a connection, or the sender panics.                *)
LEMMA SendsEffect ==
    ASSUME IInv, program = "pool", NEW c \in conns, Sends(c, text), Silent(c), rounds[c] < MaxRounds,
           UNCHANGED <<clientVars, program>>
    PROVE  /\ UNCHANGED <<protocol, listening, link, toClient, handler, qps, n, total, setting>>
           /\ ServerTypeOK' /\ ReportTypeOK' /\ Reporting' /\ Wires' /\ Successes' = Successes /\ Served' = Served
           /\ Unread' = Unread /\ Got' = Got
           /\ rounds' \in [Conns -> 0..MaxRounds]
           /\ \A d \in Conns : d # c => toServer'[d] = toServer[d] /\ toClient'[d] = toClient[d] /\ rounds'[d] = rounds[d]
           /\ Carries(c, text)' \/ Silent(c)'
           /\ crashed' \in {"no", "error"}
           /\ (Failures' > 0 \/ crashed' = "error") => SomeBroken'
<1>1. /\ LoadersTypeOK /\ ServerTypeOK /\ ReportTypeOK /\ StarterTypes /\ EchoTypes /\ text \in Bodies
      /\ Wires /\ Blamed /\ Reporting /\ Tasks /\ crashed \in {"no", "nilConnection", "error"}
  BY PoolParts
<1>2. c \in Conns /\ link[c] # "none"
  BY <1>1 DEF StarterTypes, Tasks
<1>3. /\ link \in [Conns -> {"none", "up", "broken"}] /\ toServer \in [Conns -> Seq(Bodies)]
      /\ toClient \in [Conns -> Seq(Bodies)] /\ rounds \in [Conns -> 0..MaxRounds] /\ MaxRounds \in Nat
  BY <1>1, Types, BoundsOfPool DEF EchoTypes
<1>4. UNCHANGED <<protocol, listening, link, toClient, handler, qps, n, total, setting>>
  BY DEF Sends, counters
<1>5. SomeBroken' = SomeBroken
  BY <1>4 DEF SomeBroken
<1>6. Unread' = Unread /\ Got' = Got /\ Served' = Served
  BY <1>4 DEF Unread, Got, Served, clientVars
<1>7. CASE link[c] = "up"
  <2>1. /\ toServer' = [toServer EXCEPT ![c] = Append(toServer[c], text)]
        /\ rounds' = [rounds EXCEPT ![c] = rounds[c] + 1] /\ UNCHANGED <<reportVars, crashed>>
    BY <1>7 DEF Sends
  <2>2. Append(toServer[c], text) = <<text>> /\ <<text>> \in Seq(Bodies)
    BY <1>1 DEF Silent
  <2>3. /\ toServer' \in [Conns -> Seq(Bodies)] /\ toServer'[c] = <<text>>
        /\ \A d \in Conns : d # c => toServer'[d] = toServer[d]
    BY <1>2, <1>3, <2>1, <2>2
  <2>4. rounds' \in [Conns -> 0..MaxRounds] /\ \A d \in Conns : d # c => rounds'[d] = rounds[d]
    <3>1. rounds[c] + 1 \in 0..MaxRounds
      BY <1>2, <1>3
    <3>2. QED
      BY <1>2, <1>3, <2>1, <3>1
  <2>5. ServerTypeOK'
    BY <1>1, <1>4, <2>3 DEF ServerTypeOK
  <2>6. ReportTypeOK' /\ Reporting' /\ Successes' = Successes /\ Failures' = Failures
    BY <1>1, <2>1, ReportKeepsCounts
  <2>7. Carries(c, text)'
    <3>1. toClient'[c] = <<>> /\ text' = text
      BY <1>4 DEF Silent, text
    <3>2. QED
      BY <2>3, <3>1 DEF Carries
  <2>8. Wires'
    BY <1>1, <1>4, <1>7, <2>3 DEF Wires, Silent
  <2>9. crashed' \in {"no", "error"} /\ (Failures' > 0 \/ crashed' = "error" => SomeBroken')
    BY <1>1, <1>5, <2>1, <2>6 DEF Blamed
  <2>10. QED
    BY <1>4, <1>6, <2>3, <2>4, <2>5, <2>6, <2>7, <2>8, <2>9
<1>8. CASE link[c] # "up"
  <2>1. crashed' = "error" /\ Fail /\ UNCHANGED <<toServer, rounds>>
    BY <1>8 DEF Sends
  <2>2. SomeBroken
    BY <1>2, <1>3, <1>8 DEF SomeBroken
  <2>3. ServerTypeOK' /\ Wires' /\ Silent(c)'
    BY <1>1, <1>4, <2>1 DEF ServerTypeOK, Wires, Silent
  <2>4. ReportTypeOK' /\ Reporting' /\ Successes' = Successes
    BY <1>1, <2>1, ReportKeepsCounts
  <2>5. QED
    BY <1>3, <1>4, <1>5, <1>6, <2>1, <2>2, <2>3, <2>4
<1>9. QED
  BY <1>7, <1>8

(* The counter of the wait group is that of the tasks that run.            *)
LEMMA RunningFits ==
    ASSUME IInv, program = "pool", NEW R \in SUBSET (1..setting.c)
    PROVE  IsFiniteSet(R) /\ Cardinality(R) \in 0..setting.c
<1>1. setting.c \in Nat
  BY PoolParts, SettingFacts
<1>2. IsFiniteSet(1..setting.c) /\ Cardinality(1..setting.c) = setting.c
  <2>1. 0 \in Int /\ 1 \in Int /\ setting.c \in Int
    BY <1>1
  <2>2. /\ IsFiniteSet(1..setting.c)
        /\ Cardinality(1..setting.c) = IF 1 > setting.c THEN 0 ELSE setting.c - 1 + 1
    BY <2>1, FS_Interval
  <2>3. QED
    BY <1>1, <2>2
<1>3. IsFiniteSet(R) /\ Cardinality(R) =< setting.c
  BY <1>2, FS_Subset
<1>4. Cardinality(R) \in Nat
  BY <1>3, FS_CardinalityType
<1>5. QED
  BY <1>1, <1>3, <1>4

(* The starter gives the pool a task.                                      *)
LEMMA GoStep ==
    ASSUME IInv, program = "pool", UNCHANGED <<clientVars, program>>, Go
    PROVE  IInv' /\ Tallies
<1>1. /\ starter.at = "go" /\ Len(queue) < PoolQueue /\ wg' = wg + 1
      /\ queue' = Append(queue, starter.i) /\ task' = [task EXCEPT ![starter.i] = "queued"]
      /\ starter' = [at |-> IF starter.i = setting.c THEN "wait" ELSE "go", i |-> starter.i + 1]
      /\ UNCHANGED <<reportVars, setting, conns, rest, sub, crashed>>
      /\ UNCHANGED <<looper, onMessage, timer, rounds>>
      /\ UNCHANGED <<protocol, listening, link, toServer, toClient, handler, qps, n, total>>
  BY DEF Go, serverVars, traffic, counters, echoVars
<1>2. /\ LoadersTypeOK /\ StarterTypes /\ EchoTypes /\ Tasks /\ Slices /\ setting \in Settings
  BY PoolParts
<1>3. /\ setting.c \in Nat \ {0} /\ PoolQueue \in Nat /\ \A c \in 1..setting.c : c \in Conns
  BY <1>2, SettingFacts, BoundsOfPool
<1>4. /\ starter.i \in 1..setting.c /\ starter.i \in Conns
      /\ queue \in Seq(Conns) /\ task \in [Conns -> TaskStates] /\ wg \in 0..setting.c
  BY <1>1, <1>2, <1>3 DEF StarterTypes, Tasks
<1>5. PICK k : k = starter.i
  OBVIOUS
<1>6. /\ k \in 1..setting.c /\ k \in Conns /\ task[k] = "none"
      /\ starter' = [at |-> IF k = setting.c THEN "wait" ELSE "go", i |-> k + 1]
      /\ queue' = Append(queue, k) /\ task' = [task EXCEPT ![k] = "queued"]
  BY <1>1, <1>2, <1>4, <1>5 DEF Tasks
<1>7. starter'.i = k + 1 /\ starter'.at \in {"go", "wait"} /\ (starter'.at = "go" <=> k # setting.c) /\ ~Started'
  BY <1>6 DEF Started
<1>8. task'[k] = "queued" /\ \A c \in Conns : c # k => task'[c] = task[c]
  BY <1>4, <1>6
<1>9. Running' = Running \cup {k} /\ k \notin Running
  BY <1>6, <1>8 DEF Running
<1>10. wg' = Cardinality(Running') /\ wg' \in 0..setting.c
  <2>1. wg = Cardinality(Running) /\ IsFiniteSet(Running)
    BY <1>2, Numbers DEF Tasks
  <2>2. wg' = Cardinality(Running')
    BY <1>1, <1>9, <2>1, OneMore
  <2>3. \A c \in Conns : task[c] # "none" => c \in 1..setting.c
    BY <1>2 DEF Tasks
  <2>4. Running' \in SUBSET (1..setting.c)
    BY <1>6, <1>9, <2>3 DEF Running
  <2>5. QED
    BY <2>2, <2>4, RunningFits
<1>11. queue' \in Seq(Conns) /\ Len(queue') = Len(queue) + 1 /\ Len(queue') =< PoolQueue /\ Len(queue) \in Nat
  BY <1>1, <1>3, <1>4, <1>6
<1>12. StarterTypes'
  <2>1. task' \in [Conns -> TaskStates]
    BY <1>4, <1>6 DEF TaskStates
  <2>2. starter' \in [at : {"go", "wait", "write", "slice", "done"}, i : Nat \ {0}]
    BY <1>6
  <2>3. QED
    BY <1>1, <1>2, <1>10, <1>11, <2>1, <2>2 DEF StarterTypes, TaskStates
<1>13. Tasks'
  <2>1. \A j \in 1..Len(queue') : /\ j \in 1..Len(queue) => queue'[j] = queue[j]
                                  /\ j \notin 1..Len(queue) => j = Len(queue) + 1 /\ queue'[j] = k
    BY <1>4, <1>6, <1>11
  <2>2. \A j \in 1..Len(queue) : /\ queue[j] \in Conns /\ task[queue[j]] = "queued"
                                 /\ \A l \in 1..Len(queue) : queue[l] = queue[j] => l = j
    BY <1>2, <1>4 DEF Tasks
  <2>3. \A j \in 1..Len(queue) : queue[j] # k
    BY <1>6, <2>2
  <2>4. \A j \in 1..Len(queue') : /\ task'[queue'[j]] = "queued"
                                  /\ \A l \in 1..Len(queue') : queue'[l] = queue'[j] => l = j
    BY <1>8, <2>1, <2>2, <2>3, SMTT(30)
  <2>5. \A c \in Conns : /\ c \in conns <=> task[c] \in {"stored", "done"}
                         /\ c \in conns <=> link[c] # "none"
                         /\ task[c] # "none" => c \in 1..setting.c
    BY <1>2 DEF Tasks
  <2>6. \A c \in Conns : /\ c \in conns' <=> task'[c] \in {"stored", "done"}
                         /\ c \in conns' <=> link'[c] # "none"
                         /\ task'[c] # "none" => c \in 1..setting'.c
    BY <1>1, <1>6, <1>8, <2>5
  <2>7. \A c \in 1..setting.c : task[c] = "none" <=> k =< c
    BY <1>1, <1>2, <1>5 DEF Tasks
  <2>8. \A c \in 1..setting.c : c \in Conns /\ (task'[c] = "none" <=> k + 1 =< c)
    BY <1>3, <1>6, <1>8, <2>7
  <2>9. starter'.at = "wait" => \A c \in 1..setting.c : task'[c] # "none"
    BY <1>3, <1>6, <1>7, <2>8
  <2>10. starter'.at = "go" => starter'.i =< setting.c
    BY <1>3, <1>6, <1>7
  <2>11. QED
    BY <1>1, <1>7, <1>10, <2>4, <2>6, <2>8, <2>9, <2>10 DEF Tasks
<1>14. Slices'
  <2>1. Cut = 0 /\ Cut' = 0
    BY <1>1, <1>7 DEF Cut
  <2>2. \A g \in Loopers : looper[g].at = "none"
    BY <1>1, <1>2 DEF Slices
  <2>3. UNCHANGED <<Loopers, Share>>
    BY <1>1 DEF Loopers, Share
  <2>4. QED
    BY <1>1, <1>2, <1>7, <2>1, <2>2, <2>3 DEF Slices, Slot
<1>15. \A c \in Conns : (Greeted(c) => Greeted(c)') /\ (InUseBy(c) => InUseBy(c)')
  <2>1. \A c : ~Greeted(c) /\ ~Greeted(c)'
    BY <1>1, <1>7 DEF Greeted
  <2>2. \A c : InUseBy(c) => InUseBy(c)'
    BY <1>1, <2>1 DEF InUseBy, Awaits, Current, Loopers
  <2>3. QED
    BY <2>1, <2>2
<1>16. looper' \in [1..MaxLoopers -> LooperType] /\ link' \in [Conns -> {"none", "up", "broken"}]
  BY <1>1, <1>2, Types DEF EchoTypes
<1>17. \A c \in Conns : link'[c] = link[c]
  BY <1>1
<1>18. QED
  BY <1>1, <1>12, <1>13, <1>14, <1>15, <1>16, <1>17, StarterAssembles

(* What the steps of the tasks leave to the starter and the goroutines.    *)
LEMMA TasksMove ==
    ASSUME IInv, program = "pool", UNCHANGED <<clientVars, program>>,
           UNCHANGED <<starter, rest, sub, setting>>,
           UNCHANGED <<looper, onMessage, timer, rounds, crashed>>
    PROVE  /\ Slices'
           /\ \A c \in Conns : (Greeted(c) => Greeted(c)') /\ (InUseBy(c) => InUseBy(c)')
           /\ looper' \in [1..MaxLoopers -> LooperType]
<1>1. Slices /\ looper \in [1..MaxLoopers -> LooperType]
  BY PoolParts DEF EchoTypes
<1>2. Slices'
  BY <1>1 DEF Slices, Cut, Share, Loopers, Slot
<1>3. \A c \in Conns : (Greeted(c) => Greeted(c)') /\ (InUseBy(c) => InUseBy(c)')
  BY DEF Greeted, InUseBy, Awaits, Current, Loopers
<1>4. QED
  BY <1>1, <1>2, <1>3

(* A worker takes the oldest task.                                         *)
LEMMA StartTaskStep ==
    ASSUME IInv, program = "pool", UNCHANGED <<clientVars, program>>, StartTask
    PROVE  IInv' /\ Tallies
<1>1. /\ queue # <<>> /\ task' = [task EXCEPT ![Head(queue)] = "dial"] /\ queue' = Tail(queue)
      /\ UNCHANGED <<reportVars, setting, starter, wg, conns, rest, sub, crashed>>
      /\ UNCHANGED <<looper, onMessage, timer, rounds>>
      /\ UNCHANGED <<protocol, listening, link, toServer, toClient, handler, qps, n, total>>
  BY DEF StartTask, serverVars, traffic, counters, echoVars
<1>2. /\ LoadersTypeOK /\ StarterTypes /\ Tasks /\ setting \in Settings
  BY PoolParts
<1>3. /\ queue \in Seq(Conns) /\ Len(queue) =< PoolQueue /\ task \in [Conns -> TaskStates]
      /\ PoolQueue \in Nat /\ setting.c \in Nat \ {0}
  BY <1>2, BoundsOfPool, SettingFacts DEF StarterTypes
<1>4. Len(queue) \in Nat /\ Len(queue) > 0 /\ Head(queue) = queue[1]
  BY <1>1, <1>3, EmptySeq
<1>5. PICK k \in Conns : k = queue[1]
  BY <1>3, <1>4
<1>6. /\ queue' \in Seq(Conns) /\ Len(queue') = Len(queue) - 1
      /\ \A j \in 1..Len(queue') : queue'[j] = queue[j + 1] /\ j + 1 \in 1..Len(queue) /\ queue'[j] \in Conns
  BY <1>1, <1>3, <1>4
<1>7. \A j \in 1..Len(queue) : /\ task[queue[j]] = "queued"
                               /\ \A l \in 1..Len(queue) : queue[l] = queue[j] => l = j
  BY <1>2 DEF Tasks
<1>8. task[k] = "queued" /\ \A j \in 1..Len(queue') : queue'[j] # k
  <2>1. 1 \in 1..Len(queue) /\ \A j \in 1..Len(queue') : j + 1 # 1
    BY <1>4, <1>6
  <2>2. QED
    BY <1>5, <1>6, <1>7, <2>1
<1>9. task'[k] = "dial" /\ \A c \in Conns : c # k => task'[c] = task[c]
  BY <1>1, <1>3, <1>4, <1>5
<1>10. Running' = Running
  BY <1>8, <1>9 DEF Running
<1>11. StarterTypes'
  <2>1. task' \in [Conns -> TaskStates]
    BY <1>1, <1>3 DEF TaskStates
  <2>2. Len(queue') =< PoolQueue
    BY <1>3, <1>4, <1>6
  <2>3. QED
    BY <1>1, <1>2, <1>6, <2>1, <2>2 DEF StarterTypes, TaskStates
<1>12. Tasks'
  <2>1. \A j \in 1..Len(queue') : /\ task'[queue'[j]] = "queued"
                                  /\ \A l \in 1..Len(queue') : queue'[l] = queue'[j] => l = j
    <3>1. ASSUME NEW j \in 1..Len(queue'), NEW l \in 1..Len(queue'), queue'[l] = queue'[j] PROVE l = j
      <4>1. l + 1 = j + 1
        BY <1>6, <1>7, <3>1
      <4>2. QED
        BY <4>1
    <3>2. \A j \in 1..Len(queue') : task'[queue'[j]] = "queued"
      BY <1>6, <1>7, <1>8, <1>9
    <3>3. QED
      BY <3>1, <3>2
  <2>2. \A c \in Conns : /\ c \in conns <=> task'[c] \in {"stored", "done"}
                         /\ c \in conns <=> link[c] # "none"
                         /\ task'[c] # "none" => c \in 1..setting.c
                         /\ task'[c] = "none" <=> task[c] = "none"
                         /\ task[c] = "done" => task'[c] = "done"
    BY <1>2, <1>8, <1>9 DEF Tasks
  <2>3. \A c \in 1..setting.c : c \in Conns
    BY <1>2, SettingFacts
  <2>4. UNCHANGED Started
    BY <1>1 DEF Started
  <2>5. QED
    BY <1>1, <1>2, <1>10, <2>1, <2>2, <2>3, <2>4 DEF Tasks
<1>13. link' \in [Conns -> {"none", "up", "broken"}] /\ \A c \in Conns : link'[c] = link[c]
  BY <1>1, <1>2, Types
<1>14. QED
  BY <1>1, <1>11, <1>12, <1>13, TasksMove, StarterAssembles

(* A task dials and stores its connection.                                 *)
LEMMA DialTaskStep ==
    ASSUME IInv, program = "pool", UNCHANGED <<clientVars, program>>, NEW k \in Conns, DialTask(k)
    PROVE  IInv' /\ Tallies
<1>1. /\ task[k] = "dial" /\ link' = [link EXCEPT ![k] = "up"] /\ conns' = conns \cup {k}
      /\ task' = [task EXCEPT ![k] = "stored"]
      /\ UNCHANGED <<reportVars, setting, starter, queue, wg, rest, sub, crashed>>
      /\ UNCHANGED <<looper, onMessage, timer, rounds>>
      /\ UNCHANGED <<protocol, listening, toServer, toClient, handler, qps, n, total>>
  BY DEF DialTask, counters, echoVars
<1>2. /\ LoadersTypeOK /\ StarterTypes /\ Tasks /\ setting \in Settings
  BY PoolParts
<1>3. /\ queue \in Seq(Conns) /\ task \in [Conns -> TaskStates] /\ conns \subseteq Conns
      /\ link \in [Conns -> {"none", "up", "broken"}] /\ \A c \in 1..setting.c : c \in Conns
  BY <1>2, Types, SettingFacts DEF StarterTypes
<1>4. /\ task'[k] = "stored" /\ link'[k] = "up"
      /\ \A c \in Conns : c # k => task'[c] = task[c] /\ link'[c] = link[c]
  BY <1>1, <1>3
<1>5. Running' = Running
  BY <1>1, <1>4 DEF Running
<1>6. StarterTypes'
  <2>1. task' \in [Conns -> TaskStates]
    BY <1>1, <1>3 DEF TaskStates
  <2>2. conns' \subseteq Conns
    BY <1>1, <1>3
  <2>3. QED
    BY <1>1, <1>2, <2>1, <2>2 DEF StarterTypes, TaskStates
<1>7. /\ link[k] = "none" /\ k \in 1..setting.c
  BY <1>1, <1>2, <1>3 DEF Tasks
<1>8. Tasks'
  <2>1. \A j \in 1..Len(queue) : /\ task'[queue[j]] = "queued"
                                 /\ \A l \in 1..Len(queue) : queue[l] = queue[j] => l = j
    <3>1. \A j \in 1..Len(queue) : queue[j] \in Conns /\ task[queue[j]] = "queued"
      BY <1>2, <1>3 DEF Tasks
    <3>2. QED
      BY <1>1, <1>2, <1>4, <3>1 DEF Tasks
  <2>2. \A c \in Conns : /\ c \in conns' <=> task'[c] \in {"stored", "done"}
                         /\ c \in conns' <=> link'[c] # "none"
                         /\ task'[c] # "none" => c \in 1..setting.c
                         /\ task'[c] = "none" <=> task[c] = "none"
                         /\ task[c] = "done" => task'[c] = "done"
    BY <1>1, <1>2, <1>4, <1>7 DEF Tasks
  <2>3. UNCHANGED Started
    BY <1>1 DEF Started
  <2>4. QED
    BY <1>1, <1>2, <1>3, <1>5, <2>1, <2>2, <2>3 DEF Tasks
<1>9. link' \in [Conns -> {"none", "up", "broken"}]
  BY <1>1, <1>3
<1>10. \A c \in Conns : link'[c] = link[c] \/ (link[c] = "none" /\ link'[c] = "up")
  BY <1>4, <1>7
<1>11. QED
  BY <1>1, <1>6, <1>8, <1>9, <1>10, TasksMove, StarterAssembles

(* A task ends: the wait group counts one less.                            *)
LEMMA TaskDoneStep ==
    ASSUME IInv, program = "pool", UNCHANGED <<clientVars, program>>, NEW k \in Conns, TaskDone(k)
    PROVE  IInv' /\ Tallies
<1>1. /\ task[k] = "stored" /\ task' = [task EXCEPT ![k] = "done"] /\ wg' = wg - 1
      /\ UNCHANGED <<reportVars, setting, starter, queue, conns, rest, sub, crashed>>
      /\ UNCHANGED <<looper, onMessage, timer, rounds>>
      /\ UNCHANGED <<protocol, listening, link, toServer, toClient, handler, qps, n, total>>
  BY DEF TaskDone, serverVars, traffic, counters, echoVars
<1>2. /\ LoadersTypeOK /\ StarterTypes /\ Tasks /\ setting \in Settings
  BY PoolParts
<1>3. /\ queue \in Seq(Conns) /\ task \in [Conns -> TaskStates]
      /\ link \in [Conns -> {"none", "up", "broken"}] /\ \A c \in 1..setting.c : c \in Conns
  BY <1>2, Types, SettingFacts DEF StarterTypes
<1>4. task'[k] = "done" /\ \A c \in Conns : c # k => task'[c] = task[c]
  BY <1>1, <1>3
<1>5. Running' = Running \ {k} /\ k \in Running
  BY <1>1, <1>4 DEF Running
<1>6. wg' = Cardinality(Running') /\ wg' \in 0..setting.c
  <2>1. wg = Cardinality(Running) /\ IsFiniteSet(Running)
    BY <1>2, Numbers DEF Tasks
  <2>2. wg' = Cardinality(Running')
    BY <1>1, <1>5, <2>1, OneMore
  <2>3. Running' \in SUBSET (1..setting.c)
    BY <1>2, <1>5 DEF Running, Tasks
  <2>4. QED
    BY <2>2, <2>3, RunningFits
<1>7. StarterTypes'
  <2>1. task' \in [Conns -> TaskStates]
    BY <1>1, <1>3 DEF TaskStates
  <2>2. QED
    BY <1>1, <1>2, <1>6, <2>1 DEF StarterTypes, TaskStates
<1>8. Tasks'
  <2>1. \A j \in 1..Len(queue) : /\ task'[queue[j]] = "queued"
                                 /\ \A l \in 1..Len(queue) : queue[l] = queue[j] => l = j
    <3>1. \A j \in 1..Len(queue) : queue[j] \in Conns /\ task[queue[j]] = "queued"
      BY <1>2, <1>3 DEF Tasks
    <3>2. QED
      BY <1>1, <1>2, <1>4, <3>1 DEF Tasks
  <2>2. \A c \in Conns : /\ c \in conns <=> task'[c] \in {"stored", "done"}
                         /\ c \in conns <=> link[c] # "none"
                         /\ task'[c] # "none" => c \in 1..setting.c
                         /\ task'[c] = "none" <=> task[c] = "none"
                         /\ task[c] = "done" => task'[c] = "done"
    BY <1>1, <1>2, <1>4 DEF Tasks
  <2>3. UNCHANGED Started
    BY <1>1 DEF Started
  <2>4. QED
    BY <1>1, <1>2, <1>3, <1>6, <2>1, <2>2, <2>3 DEF Tasks
<1>9. link' \in [Conns -> {"none", "up", "broken"}] /\ \A c \in Conns : link'[c] = link[c]
  BY <1>1, <1>3
<1>10. QED
  BY <1>1, <1>7, <1>8, <1>9, TasksMove, StarterAssembles

(* The wait group is empty: every task has stored its connection.          *)
LEMMA WaitAllStep ==
    ASSUME IInv, program = "pool", UNCHANGED <<clientVars, program>>, WaitAll
    PROVE  IInv' /\ Tallies
<1>1. /\ starter.at = "wait" /\ wg = 0
      /\ starter' = [at |-> IF setting.mode = "loops" THEN "slice" ELSE "write", i |-> 1]
      /\ UNCHANGED <<reportVars, setting, queue, task, wg, conns, rest, sub, crashed>>
      /\ UNCHANGED <<looper, onMessage, timer, rounds>>
      /\ UNCHANGED <<protocol, listening, link, toServer, toClient, handler, qps, n, total>>
  BY DEF WaitAll, serverVars, traffic, counters, echoVars
<1>2. /\ LoadersTypeOK /\ StarterTypes /\ EchoTypes /\ Tasks /\ Slices /\ setting \in Settings
  BY PoolParts
<1>3. /\ task \in [Conns -> TaskStates] /\ \A c \in 1..setting.c : c \in Conns
      /\ setting.mode \in {"handlers", "loops"} /\ setting.c \in Nat \ {0} /\ setting.g \in Nat \ {0}
  BY <1>2, SettingFacts DEF StarterTypes
<1>4. /\ starter'.i = 1
      /\ setting.mode = "loops" => starter'.at = "slice"
      /\ setting.mode = "handlers" => starter'.at = "write"
      /\ starter'.at = "slice" => setting.mode = "loops"
      /\ starter'.at = "write" => setting.mode = "handlers"
      /\ starter'.at \in {"slice", "write"}
  BY <1>1, <1>3
<1>5. Running = {}
  BY <1>1, <1>2, Numbers, FS_EmptySet DEF Tasks
<1>6. \A c \in 1..setting.c : task[c] = "done"
  <2>1. \A c \in 1..setting.c : task[c] # "none" /\ task[c] \in TaskStates
    BY <1>1, <1>2, <1>3 DEF Tasks
  <2>2. QED
    BY <1>3, <1>5, <2>1 DEF Running, TaskStates
<1>7. StarterTypes'
  <2>1. starter' \in [at : {"go", "wait", "write", "slice", "done"}, i : Nat \ {0}]
    BY <1>1
  <2>2. QED
    BY <1>1, <1>2, <2>1 DEF StarterTypes
<1>8. Tasks'
  <2>1. Running' = Running
    BY <1>1 DEF Running
  <2>2. QED
    BY <1>1, <1>2, <1>3, <1>4, <1>6, <2>1 DEF Tasks
<1>9. \A g \in Loopers : looper[g].at = "none"
  BY <1>1, <1>2 DEF Slices
<1>10. Slices'
  <2>1. Cut = 0 /\ Cut' = 0
    BY <1>1, <1>4 DEF Cut
  <2>2. UNCHANGED <<Loopers, Share>>
    BY <1>1 DEF Loopers, Share
  <2>3. QED
    BY <1>1, <1>2, <1>4, <1>9, <2>1, <2>2 DEF Slices, Slot
<1>11. \A c \in Conns : (Greeted(c) => Greeted(c)') /\ (InUseBy(c) => InUseBy(c)')
  <2>1. \A c : ~Greeted(c) /\ ~Greeted(c)'
    BY <1>1, <1>4 DEF Greeted
  <2>2. \A c : InUseBy(c) => InUseBy(c)'
    BY <1>1, <2>1 DEF InUseBy, Awaits, Current, Loopers
  <2>3. QED
    BY <2>1, <2>2
<1>12. looper' \in [1..MaxLoopers -> LooperType] /\ link' \in [Conns -> {"none", "up", "broken"}]
  BY <1>1, <1>2, Types DEF EchoTypes
<1>13. \A c \in Conns : link'[c] = link[c]
  BY <1>1
<1>14. QED
  BY <1>1, <1>7, <1>8, <1>10, <1>11, <1>12, <1>13, StarterAssembles

(* The starter hands the next slice to its goroutine.                      *)
LEMMA SliceStep ==
    ASSUME IInv, program = "pool", UNCHANGED <<clientVars, program>>, Slice
    PROVE  IInv' /\ Tallies
<1>1. /\ starter.at = "slice"
      /\ sub' = [sub EXCEPT ![starter.i] = SubSeq(rest, 1, Share)]
      /\ rest' = SubSeq(rest, Share + 1, Len(rest))
      /\ looper' = [looper EXCEPT ![starter.i].at = "write"]
      /\ starter' = [at |-> IF starter.i = setting.g THEN "done" ELSE "slice", i |-> starter.i + 1]
      /\ UNCHANGED <<reportVars, setting, queue, task, wg, conns, crashed>>
      /\ UNCHANGED <<onMessage, timer, rounds>>
      /\ UNCHANGED <<protocol, listening, link, toServer, toClient, handler, qps, n, total>>
  BY DEF Slice, serverVars, traffic, counters
<1>2. /\ LoadersTypeOK /\ StarterTypes /\ EchoTypes /\ Tasks /\ Slices /\ setting \in Settings
  BY PoolParts
<1>3. /\ setting.c \in Nat \ {0} /\ setting.g \in Nat \ {0} /\ Share \in Nat
      /\ Loopers \subseteq 1..MaxLoopers /\ Loopers = 1..setting.g
      /\ setting.g * Share \in Nat /\ setting.g * Share =< setting.c
  BY <1>2, SettingFacts
<1>4. /\ starter.i \in Loopers /\ setting.mode = "loops" /\ Cut = starter.i - 1
      /\ starter.i \in 1..setting.g /\ starter.i \in 1..MaxLoopers
  BY <1>1, <1>2, <1>3, SMTT(30) DEF StarterTypes, Tasks, Cut
<1>5. PICK g \in Loopers : g = starter.i
  BY <1>4
<1>6. /\ rest \in Seq(Conns) /\ Len(rest) = setting.c - (g - 1) * Share
      /\ \A k \in 1..Len(rest) : rest[k] = (g - 1) * Share + k
  BY <1>1, <1>2, <1>4, <1>5 DEF StarterTypes, Slices
<1>7. /\ g \in Nat /\ g - 1 \in Nat /\ (g - 1) * Share \in Nat /\ g * Share = (g - 1) * Share + Share
      /\ g * Share =< setting.c /\ g * Share \in Nat
  <2>1. g \in 1..setting.g
    BY <1>4, <1>5
  <2>2. g \in Nat /\ g - 1 \in Nat /\ g =< setting.g
    BY <1>3, <2>1
  <2>3. (g - 1) * Share \in Nat /\ g * Share = (g - 1) * Share + Share
    BY <1>3, <2>2
  <2>4. \A a, b, k \in Nat : a =< b => a * k =< b * k
    OBVIOUS
  <2>5. g * Share =< setting.g * Share
    BY <1>3, <2>2, <2>4
  <2>6. QED
    BY <1>3, <2>2, <2>3, <2>5
<1>8. Len(rest) \in Nat /\ Share =< Len(rest)
  BY <1>3, <1>6, <1>7
<1>9. /\ SubSeq(rest, 1, Share) \in Seq(Conns) /\ Len(SubSeq(rest, 1, Share)) = Share
      /\ \A k \in 1..Share : SubSeq(rest, 1, Share)[k] = Slot(g, Share, k)
  <2>1. \A k \in 1..Share : k \in 1..Len(rest) /\ SubSeq(rest, 1, Share)[k] = rest[k]
    BY <1>3, <1>6, <1>8
  <2>2. SubSeq(rest, 1, Share) \in Seq(Conns) /\ Len(SubSeq(rest, 1, Share)) = Share
    BY <1>3, <1>6, <1>8
  <2>3. QED
    BY <1>6, <2>1, <2>2 DEF Slot
<1>10. /\ rest' \in Seq(Conns) /\ Len(rest') = setting.c - g * Share
       /\ \A k \in 1..Len(rest') : rest'[k] = g * Share + k
  <2>0. \A k \in (Share + 1)..Len(rest) : rest[k] \in Conns
    BY <1>3, <1>6, <1>8
  <2>1. rest' \in Seq(Conns) /\ Len(rest') = Len(rest) - Share
    BY <1>1, <1>3, <1>8, <2>0, SubSeqProperties
  <2>2. \A k \in 1..Len(rest') : k + Share \in 1..Len(rest) /\ rest'[k] = rest[k + Share]
    <3>1. \A k \in 1..(Len(rest) - (Share + 1) + 1) : rest'[k] = rest[Share + 1 + k - 1]
      BY <1>1, <1>3, <1>8, <2>0, SubSeqProperties, SMTT(30)
    <3>2. ASSUME NEW k \in 1..Len(rest') PROVE k + Share \in 1..Len(rest) /\ rest'[k] = rest[k + Share]
      <4>1. k \in Nat /\ k >= 1 /\ k =< Len(rest) - Share /\ Share + 1 + k - 1 = k + Share
        BY <1>3, <1>8, <2>1
      <4>2. QED
        BY <1>3, <1>8, <3>1, <4>1
    <3>3. QED
      BY <3>2
  <2>3. \A k \in 1..Len(rest') : rest'[k] = g * Share + k
    BY <1>3, <1>6, <1>7, <2>2
  <2>4. QED
    BY <1>3, <1>6, <1>7, <2>1, <2>3, SMTT(30)
<1>11. /\ sub'[g] = SubSeq(rest, 1, Share) /\ looper'[g].at = "write" /\ looper'[g].i = looper[g].i
       /\ \A h \in 1..MaxLoopers : h # g => sub'[h] = sub[h] /\ looper'[h] = looper[h]
       /\ sub' \in [1..MaxLoopers -> Seq(Conns)] /\ looper' \in [1..MaxLoopers -> LooperType]
  BY <1>1, <1>2, <1>4, <1>5, <1>9 DEF StarterTypes, EchoTypes, LooperType
<1>12. /\ starter'.i = g + 1 /\ starter'.at \in {"slice", "done"}
       /\ starter'.at = "slice" <=> g # setting.g
  BY <1>1, <1>5
<1>13. UNCHANGED <<Loopers, Share>>
  BY <1>1 DEF Loopers, Share
<1>15. StarterTypes'
  <2>1. starter' \in [at : {"go", "wait", "write", "slice", "done"}, i : Nat \ {0}]
    BY <1>1, <1>5, <1>7
  <2>2. QED
    BY <1>1, <1>2, <1>10, <1>11, <2>1 DEF StarterTypes
<1>16. Tasks'
  <2>1. Running' = Running /\ Started /\ Started'
    BY <1>1, <1>12 DEF Running, Started
  <2>2. starter'.at = "slice" => starter'.i =< setting.g
    <3>1. g \in 1..setting.g
      BY <1>3
    <3>2. QED
      BY <1>3, <1>12, <3>1
  <2>3. QED
    BY <1>1, <1>2, <1>4, <1>12, <2>1, <2>2 DEF Tasks
<1>17. Slices'
  <2>1. starter'.at # "done" => Cut' = g
    BY <1>7, <1>12 DEF Cut
  <2>2. ASSUME NEW h \in Loopers
        PROVE  /\ Share > 0 => looper'[h].i =< Share
               /\ looper'[h].at # "none" =>
                     /\ starter'.at = "slice" => h < starter'.i
                     /\ Len(sub'[h]) = Share /\ \A i \in 1..Share : sub'[h][i] = Slot(h, Share, i)
    <3>0. h \in 1..MaxLoopers /\ h \in Nat
      BY <1>3
    <3>1. CASE h = g
      <4>1. Share > 0 => looper[g].i =< Share
        BY <1>2 DEF Slices
      <4>2. Len(sub'[g]) = Share /\ \A i \in 1..Share : sub'[g][i] = Slot(g, Share, i)
        BY <1>9, <1>11
      <4>3. looper'[g].i = looper[g].i /\ g < starter'.i
        BY <1>7, <1>11, <1>12
      <4>4. QED
        BY <3>1, <4>1, <4>2, <4>3
    <3>2. CASE h # g
      <4>1. sub'[h] = sub[h] /\ looper'[h] = looper[h]
        BY <1>11, <3>0, <3>2
      <4>2. looper[h].at # "none" => h < g
        BY <1>1, <1>2, <1>5 DEF Slices
      <4>3. QED
        BY <1>2, <1>7, <1>12, <3>0, <4>1, <4>2, SMTT(30) DEF Slices
    <3>3. QED
      BY <3>1, <3>2
  <2>3. setting'.mode = "loops" /\ setting'.c = setting.c /\ starter'.at \in {"slice", "done"}
    BY <1>1, <1>4, <1>12
  <2>4. starter'.at # "done" =>
           Len(rest') = setting.c - Cut' * Share /\ \A k \in 1..Len(rest') : rest'[k] = Cut' * Share + k
    BY <1>10, <2>1
  <2>5. \A h, i : Slot(h, Share, i)' = Slot(h, Share, i)
    BY <1>13 DEF Slot
  <2>6. QED
    BY <1>13, <2>2, <2>3, <2>4, <2>5 DEF Slices
<1>18. \A c \in Conns : (Greeted(c) => Greeted(c)') /\ (InUseBy(c) => InUseBy(c)')
  <2>1. \A c : ~Greeted(c)
    BY <1>1 DEF Greeted
  <2>2. ASSUME NEW c \in Conns, InUseBy(c) PROVE InUseBy(c)'
    <3>1. PICK h \in Loopers : Awaits(h, c)
      BY <1>4, <2>1, <2>2 DEF InUseBy
    <3>2. looper[g].at = "none"
      BY <1>1, <1>2, <1>5, <1>7 DEF Slices
    <3>3. h # g /\ h \in 1..MaxLoopers
      BY <1>3, <3>1, <3>2 DEF Awaits
    <3>4. Awaits(h, c)'
      BY <1>11, <3>1, <3>3 DEF Awaits, Current
    <3>5. QED
      BY <1>1, <1>4, <1>13, <3>1, <3>4 DEF InUseBy
  <2>3. QED
    BY <2>1, <2>2
<1>19. link' \in [Conns -> {"none", "up", "broken"}] /\ \A c \in Conns : link'[c] = link[c]
  BY <1>1, <1>2, Types
<1>20. QED
  BY <1>1, <1>11, <1>15, <1>16, <1>17, <1>18, <1>19, StarterAssembles

(* A message is sent, and the rest of the program is in order.             *)
LEMMA SendAssembles ==
    ASSUME IInv, program = "pool", UNCHANGED <<clientVars, program>>,
           NEW c \in conns, Sends(c, text), Silent(c), rounds[c] < MaxRounds,
           StarterTypes', Tasks', Slices', PoolTalk', Handling' = Handling,
           looper' \in [1..MaxLoopers -> LooperType], onMessage' \in [Conns -> MessageType],
           timer' \in [Conns -> Seq(Bodies)]
    PROVE  IInv' /\ Tallies
<1>1. /\ setting' = setting /\ ServerTypeOK' /\ ReportTypeOK' /\ Reporting' /\ Wires'
      /\ Successes' = Successes /\ Served' = Served /\ Unread' = Unread /\ Got' = Got
      /\ rounds' \in [Conns -> 0..MaxRounds] /\ crashed' \in {"no", "error"}
      /\ (Failures' > 0 \/ crashed' = "error") => SomeBroken'
  BY SendsEffect
<1>2. EchoTypes'
  BY <1>1 DEF EchoTypes, LooperType, MessageType
<1>3. Accounted
  BY PoolParts
<1>4. Accounted' /\ Tallies
  BY <1>1, <1>3 DEF Accounted, Tallies
<1>5. QED
  BY <1>1, <1>2, <1>4, PoolAssembles

(* The starter sends the first message on a connection.                    *)
LEMMA WriteFirstStep ==
    ASSUME IInv, program = "pool", UNCHANGED <<clientVars, program>>, WriteFirst
    PROVE  IInv' /\ Tallies
<1>1. /\ starter.at = "write" /\ Sends(starter.i, text)
      /\ starter' = [at |-> IF starter.i = setting.c THEN "done" ELSE "write", i |-> starter.i + 1]
      /\ UNCHANGED <<queue, task, wg, conns, rest, sub, looper, onMessage, timer>>
  BY DEF WriteFirst
<1>2. /\ LoadersTypeOK /\ StarterTypes /\ EchoTypes /\ Tasks /\ Slices /\ PoolTalk /\ setting \in Settings
  BY PoolParts
<1>3. setting.c \in Nat \ {0} /\ MaxRounds \in Nat \ {0}
  BY <1>2, SettingFacts, BoundsOfPool
<1>4. starter.i \in Nat \ {0} /\ starter.i \in 1..setting.c /\ setting.mode = "handlers"
  BY <1>1, <1>2, <1>3 DEF StarterTypes, Tasks
<1>5. PICK c \in conns : c = starter.i
  BY <1>1, <1>4, AllDialed DEF Started
<1>6. c \in Conns /\ Sends(c, text) /\ c \in 1..setting.c
  BY <1>1, <1>2, <1>4, <1>5 DEF StarterTypes
<1>7. ~Greeted(c)
  BY <1>1, <1>4, <1>5 DEF Greeted
<1>8. Quiet(c) /\ rounds[c] = 0 /\ onMessage[c].data = text
  BY <1>2, <1>4, <1>6, <1>7 DEF PoolTalk, InUseBy
<1>9. Silent(c) /\ rounds[c] < MaxRounds
  BY <1>3, <1>8 DEF Quiet
<1>10. /\ UNCHANGED <<link, setting>> /\ (Carries(c, text)' \/ Silent(c)')
       /\ \A d \in Conns : d # c => toServer'[d] = toServer[d] /\ toClient'[d] = toClient[d] /\ rounds'[d] = rounds[d]
  BY <1>6, <1>9, SendsEffect
<1>11. /\ starter'.i = starter.i + 1 /\ starter'.at \in {"write", "done"}
       /\ starter'.at = "done" <=> starter.i = setting.c
  BY <1>1
<1>12. \A d \in Conns : Greeted(d) => Greeted(d)'
  BY <1>1, <1>3, <1>4, <1>10, <1>11 DEF Greeted
<1>13. Greeted(c)'
  <2>1. starter.i \in 1..(starter.i + 1 - 1)
    BY <1>4
  <2>2. QED
    BY <1>4, <1>5, <1>10, <1>11, <2>1 DEF Greeted
<1>14. \A d \in Conns : InUseBy(d) => InUseBy(d)'
  BY <1>4, <1>10, <1>12 DEF InUseBy
<1>15. PoolTalk'
  <2>1. Quiet(c)' \/ (InUseBy(c)' /\ Busy(c)')
    BY <1>1, <1>4, <1>8, <1>10, <1>13 DEF Quiet, Busy, InUseBy, text
  <2>2. onMessage'[c].data = text /\ timer'[c] = <<>>
    BY <1>1, <1>8 DEF Quiet
  <2>3. QED
    BY <1>1, <1>4, <1>6, <1>10, <1>12, <1>13, <1>14, <2>1, <2>2, OneTalks
<1>16. StarterTypes'
  <2>1. starter' \in [at : {"go", "wait", "write", "slice", "done"}, i : Nat \ {0}]
    BY <1>1, <1>4
  <2>2. QED
    BY <1>1, <1>2, <1>10, <2>1 DEF StarterTypes
<1>17. Tasks'
  <2>1. Running' = Running /\ Started /\ Started'
    BY <1>1, <1>11 DEF Running, Started
  <2>2. starter'.at = "write" => starter'.i =< setting.c
    BY <1>3, <1>4, <1>11
  <2>3. QED
    BY <1>1, <1>2, <1>4, <1>10, <1>11, <2>1, <2>2 DEF Tasks
<1>18. Slices'
  <2>1. UNCHANGED <<Loopers, Share>>
    BY <1>10 DEF Loopers, Share
  <2>2. QED
    BY <1>1, <1>2, <1>4, <1>10, <2>1 DEF Slices
<1>19. /\ looper' \in [1..MaxLoopers -> LooperType] /\ onMessage' \in [Conns -> MessageType]
       /\ timer' \in [Conns -> Seq(Bodies)] /\ Handling' = Handling
  BY <1>1, <1>2 DEF EchoTypes, Handling
<1>20. QED
  BY <1>6, <1>9, <1>15, <1>16, <1>17, <1>18, <1>19, SendAssembles
-----------------------------------------------------------------------------
(* A message is only where somebody waits for it.                          *)
LEMMA MessageInUse ==
    ASSUME IInv, program = "pool", NEW c \in Conns, ~Quiet(c)
    PROVE  /\ InUseBy(c) /\ Busy(c) /\ onMessage[c].data = text
           /\ setting.mode = "handlers" => c \in conns
<1>1. InUseBy(c) /\ Busy(c) /\ onMessage[c].data = text
  BY PoolParts DEF PoolTalk
<1>2. ASSUME setting.mode = "handlers" PROVE c \in conns
  <2>1. Greeted(c)
    BY <1>1, <1>2 DEF InUseBy
  <2>2. setting.c \in Nat /\ starter.i \in Nat /\ (starter.at = "write" => starter.i =< setting.c)
    BY PoolParts, SettingFacts DEF StarterTypes, Tasks
  <2>3. Started /\ c \in 1..setting.c
    BY <2>1, <2>2 DEF Greeted, Started
  <2>4. QED
    BY <2>3, AllDialed
<1>3. QED
  BY <1>1, <1>2

(* A step of a handler or a goroutine that sends nothing, and may count.   *)
LEMMA CountAssembles ==
    ASSUME IInv, program = "pool", UNCHANGED <<clientVars, program>>,
           UNCHANGED <<poolVars, setting, rounds>>,
           crashed' = crashed \/ (crashed' = "error" /\ SomeBroken),
           looper' \in [1..MaxLoopers -> LooperType], Slices',
           UNCHANGED <<protocol, listening, link, toServer, handler, qps, n, total>>,
           toClient' \in [Conns -> Seq(Bodies)], \A d \in Conns : toClient[d] = <<>> => toClient'[d] = <<>>,
           onMessage' \in [Conns -> MessageType], timer' \in [Conns -> Seq(Bodies)],
           Succeed \/ UNCHANGED reportVars \/ (Fail /\ SomeBroken), PoolTalk',
           Succeed => Cardinality(Unread') + Cardinality(Handling') + 1 =< Cardinality(Unread) + Cardinality(Handling),
           Cardinality(Unread') \in Nat, Cardinality(Handling') \in Nat,
           Cardinality(Unread') + Cardinality(Handling') =< Cardinality(Unread) + Cardinality(Handling)
    PROVE  IInv' /\ Tallies
<1>1. /\ LoadersTypeOK /\ ServerTypeOK /\ ReportTypeOK /\ StarterTypes /\ EchoTypes
      /\ Wires /\ Accounted /\ Blamed /\ Reporting /\ crashed \in {"no", "nilConnection", "error"}
  BY PoolParts
<1>2. /\ ReportTypeOK' /\ Reporting'
      /\ \/ Successes' = Successes /\ (Failures' = Failures \/ SomeBroken)
         \/ Succeed /\ Successes' = Successes + 1 /\ Failures' = Failures
  BY <1>1, ReportKeepsCounts
<1>3. ServerTypeOK' /\ Wires'
  BY <1>1 DEF ServerTypeOK, Wires, Silent
<1>4. SomeBroken' = SomeBroken
  BY DEF SomeBroken
<1>5. StarterTypes' /\ Tasks'
  BY PoolRests
<1>6. EchoTypes'
  BY <1>1 DEF EchoTypes, LooperType, MessageType
<1>7. Got' = Got /\ Served' = Served
  BY DEF Got, Served, clientVars
<1>8. /\ Successes \in Nat /\ Cardinality(Got) \in Nat /\ Served \in Nat
      /\ Cardinality(Unread) \in Nat /\ Cardinality(Handling) \in Nat
  BY <1>1, Numbers
<1>9. Accounted' /\ Tallies
  BY <1>1, <1>2, <1>7, <1>8, SMTT(30) DEF Accounted, Tallies
<1>10. crashed' \in {"no", "error"} /\ (Failures' > 0 \/ crashed' = "error" => SomeBroken')
  BY <1>1, <1>2, <1>4 DEF Blamed
<1>11. QED
  BY <1>2, <1>3, <1>5, <1>6, <1>9, <1>10, PoolAssembles

LEMMA HandlerAssembles ==
    ASSUME IInv, program = "pool", UNCHANGED <<clientVars, program>>,
           UNCHANGED <<poolVars, setting, looper, crashed, rounds>>,
           UNCHANGED <<protocol, listening, link, toServer, handler, qps, n, total>>,
           toClient' \in [Conns -> Seq(Bodies)], \A d \in Conns : toClient[d] = <<>> => toClient'[d] = <<>>,
           onMessage' \in [Conns -> MessageType], timer' \in [Conns -> Seq(Bodies)],
           Succeed \/ UNCHANGED reportVars \/ (Fail /\ SomeBroken), PoolTalk',
           Succeed => Cardinality(Unread') + Cardinality(Handling') + 1 =< Cardinality(Unread) + Cardinality(Handling),
           Cardinality(Unread') \in Nat, Cardinality(Handling') \in Nat,
           Cardinality(Unread') + Cardinality(Handling') =< Cardinality(Unread) + Cardinality(Handling)
    PROVE  IInv' /\ Tallies
<1>1. Slices' /\ looper' \in [1..MaxLoopers -> LooperType]
  BY PoolParts, PoolRests DEF EchoTypes
<1>2. QED
  BY <1>1, CountAssembles

(* A handler takes the answer.                                             *)
LEMMA OnMessageStep ==
    ASSUME IInv, program = "pool", UNCHANGED <<clientVars, program>>, NEW c \in Conns, OnMessage(c)
    PROVE  IInv' /\ Tallies
<1>1. /\ setting.mode = "handlers" /\ onMessage[c].at = "idle" /\ toClient[c] # <<>>
      /\ onMessage' = [onMessage EXCEPT ![c] = [at |-> "reply", data |-> Head(toClient[c])]]
      /\ toClient' = [toClient EXCEPT ![c] = Tail(toClient[c])]
      /\ UNCHANGED <<protocol, listening, link, toServer, handler, qps, n, total>>
      /\ UNCHANGED <<reportVars, setting, poolVars, looper, timer, rounds, crashed>>
  BY DEF OnMessage, counters
<1>2. /\ LoadersTypeOK /\ EchoTypes /\ PoolTalk /\ setting \in Settings /\ text \in Bodies
      /\ toClient \in [Conns -> Seq(Bodies)]
  BY PoolParts, Types
<1>3. ~Silent(c) /\ ~Quiet(c)
  BY <1>1 DEF Silent, Quiet
<1>4. InUseBy(c) /\ toClient[c] = <<text>> /\ toServer[c] = <<>> /\ timer[c] = <<>>
  BY <1>1, <1>3, MessageInUse DEF Busy, Carries
<1>5. /\ onMessage' = [onMessage EXCEPT ![c] = [at |-> "reply", data |-> text]]
      /\ toClient' = [toClient EXCEPT ![c] = <<>>] /\ text' = text
  <2>1. Head(<<text>>) = text /\ Tail(<<text>>) = <<>>
    OBVIOUS
  <2>2. QED
    BY <1>1, <1>4, <2>1 DEF text
<1>6. /\ onMessage' \in [Conns -> MessageType] /\ toClient' \in [Conns -> Seq(Bodies)]
      /\ toClient'[c] = <<>> /\ onMessage'[c].at = "reply" /\ onMessage'[c].data = text
      /\ \A d \in Conns : d # c => toClient'[d] = toClient[d] /\ onMessage'[d] = onMessage[d]
  <2>1. [at |-> "reply", data |-> text] \in MessageType /\ <<>> \in Seq(Bodies)
    BY <1>2 DEF MessageType
  <2>2. QED
    BY <1>2, <1>5, <2>1 DEF EchoTypes
<1>7. \A d \in Conns : (InUseBy(d) => InUseBy(d)') /\ (Greeted(d)' <=> Greeted(d))
  BY <1>1, PoolRests
<1>8. PoolTalk'
  <2>1. InUseBy(c)' /\ Busy(c)'
    BY <1>1, <1>4, <1>6, <1>7 DEF Busy, Silent
  <2>2. setting.mode = "handlers" /\ ~Greeted(c)' => rounds'[c] = 0
    BY <1>1, <1>2, <1>7 DEF PoolTalk
  <2>3. QED
    BY <1>1, <1>4, <1>6, <1>7, <2>1, <2>2, OneTalks
<1>9. Unread' = Unread \ {c} /\ c \in Unread /\ Handling' = Handling \cup {c} /\ c \notin Handling
  BY <1>1, <1>6 DEF Unread, Handling
<1>10. /\ Cardinality(Unread') = Cardinality(Unread) - 1 /\ Cardinality(Handling') = Cardinality(Handling) + 1
       /\ Cardinality(Unread) \in Nat /\ Cardinality(Handling) \in Nat /\ IsFiniteSet(Unread)
  BY <1>2, <1>9, Numbers, OneMore
<1>11. Cardinality(Unread') \in Nat
  <2>1. IsFiniteSet(Unread')
    BY <1>9, <1>10, FS_Subset
  <2>2. QED
    BY <2>1, FS_CardinalityType
<1>12. ~Succeed
  BY <1>1, <1>2 DEF Succeed, reportVars, LoadersTypeOK, LoadTypeOK, ReportTypeOK
<1>13. timer' \in [Conns -> Seq(Bodies)] /\ \A d \in Conns : toClient[d] = <<>> => toClient'[d] = <<>>
  BY <1>1, <1>2, <1>6 DEF EchoTypes
<1>14. QED
  BY <1>1, <1>6, <1>8, <1>10, <1>11, <1>12, <1>13, HandlerAssembles

(* A handler compares the answer and counts it.                            *)
LEMMA CompareStep ==
    ASSUME IInv, program = "pool", UNCHANGED <<clientVars, program>>, NEW c \in Conns, Compare(c)
    PROVE  IInv' /\ Tallies
<1>1. /\ onMessage[c].at = "compare" /\ onMessage' = [onMessage EXCEPT ![c].at = "idle"]
      /\ onMessage[c].data = text => Succeed
      /\ UNCHANGED <<protocol, listening, link, toServer, toClient, handler, qps, n, total>>
      /\ UNCHANGED <<setting, poolVars, looper, timer, rounds, crashed>>
  BY DEF Compare, serverVars, traffic, counters
<1>2. /\ LoadersTypeOK /\ EchoTypes /\ PoolTalk /\ setting \in Settings /\ text \in Bodies
      /\ toClient \in [Conns -> Seq(Bodies)]
  BY PoolParts, Types
<1>3. Succeed
  BY <1>1, <1>2 DEF PoolTalk
<1>4. /\ onMessage' \in [Conns -> MessageType] /\ onMessage'[c].at = "idle" /\ onMessage'[c].data = text
      /\ \A d \in Conns : d # c => onMessage'[d] = onMessage[d]
  BY <1>1, <1>2 DEF EchoTypes, MessageType, PoolTalk
<1>5. \A d \in Conns : (InUseBy(d) => InUseBy(d)') /\ (Greeted(d)' <=> Greeted(d))
  BY <1>1, PoolRests
<1>6. PoolTalk'
  <2>1. text' = text
    BY DEF text
  <2>2. (Quiet(c) => Quiet(c)') /\ (Busy(c) => Busy(c)')
    BY <1>1, <1>4, <2>1 DEF Quiet, Busy, Silent, Carries
  <2>3. /\ Quiet(c)' \/ (InUseBy(c)' /\ Busy(c)')
        /\ setting.mode = "loops" => onMessage'[c].at = "idle" /\ timer'[c] = <<>>
        /\ setting.mode = "handlers" /\ ~Greeted(c)' => rounds'[c] = 0
        /\ timer'[c] # <<>> => rounds'[c] < MaxRounds
    BY <1>1, <1>2, <1>4, <1>5, <2>2 DEF PoolTalk
  <2>4. QED
    BY <1>1, <1>4, <1>5, <2>3, OneTalks
<1>7. Unread' = Unread /\ Handling' = Handling \ {c} /\ c \in Handling
  BY <1>1, <1>4 DEF Unread, Handling
<1>8. /\ Cardinality(Handling') = Cardinality(Handling) - 1
      /\ Cardinality(Unread) \in Nat /\ Cardinality(Handling) \in Nat /\ IsFiniteSet(Handling)
  BY <1>2, <1>7, Numbers, OneMore
<1>9. Cardinality(Handling') \in Nat
  <2>1. IsFiniteSet(Handling')
    BY <1>7, <1>8, FS_Subset
  <2>2. QED
    BY <2>1, FS_CardinalityType
<1>10. /\ timer' \in [Conns -> Seq(Bodies)] /\ toClient' \in [Conns -> Seq(Bodies)]
       /\ \A d \in Conns : toClient[d] = <<>> => toClient'[d] = <<>>
  BY <1>1, <1>2 DEF EchoTypes
<1>11. QED
  BY <1>1, <1>3, <1>4, <1>6, <1>7, <1>8, <1>9, <1>10, HandlerAssembles

LEMMA NoSuccess ==
    ASSUME ReportTypeOK, UNCHANGED reportVars \/ Fail
    PROVE  ~Succeed
BY DEF ReportTypeOK, reportVars, Fail, Succeed

(* A handler sends the answer back, at once or with a timer.               *)
LEMMA ReplyStep ==
    ASSUME IInv, program = "pool", UNCHANGED <<clientVars, program>>, NEW c \in Conns, Reply(c)
    PROVE  IInv' /\ Tallies
<1>1. /\ onMessage[c].at = "reply" /\ UNCHANGED <<poolVars, looper>>
  BY DEF Reply
<1>2. /\ LoadersTypeOK /\ ReportTypeOK /\ EchoTypes /\ PoolTalk /\ setting \in Settings /\ text \in Bodies
      /\ toClient \in [Conns -> Seq(Bodies)] /\ setting.mode \in {"handlers", "loops"} /\ text' = text
  BY PoolParts, Types, SettingFacts DEF text
<1>3. /\ InUseBy(c) /\ c \in conns /\ setting.mode = "handlers" /\ onMessage[c].data = text
      /\ Silent(c) /\ timer[c] = <<>>
  <2>1. ~Quiet(c)
    BY <1>1 DEF Quiet
  <2>2. InUseBy(c) /\ Busy(c) /\ onMessage[c].data = text /\ (setting.mode = "handlers" => c \in conns)
    BY <2>1, MessageInUse
  <2>3. setting.mode = "handlers"
    BY <1>1, <1>2 DEF PoolTalk
  <2>4. QED
    BY <1>1, <2>2, <2>3 DEF Busy
<1>4. ASSUME UNCHANGED <<setting, link>>
      PROVE  \A d \in Conns : (InUseBy(d) => InUseBy(d)') /\ (Greeted(d)' <=> Greeted(d))
  BY <1>1, <1>4, PoolRests
<1>5. ASSUME NEW at \in {"idle", "compare"}, onMessage' = [onMessage EXCEPT ![c].at = at]
      PROVE  /\ onMessage' \in [Conns -> MessageType] /\ onMessage'[c].at = at /\ onMessage'[c].data = text
             /\ \A d \in Conns : d # c => onMessage'[d] = onMessage[d]
             /\ at = "compare" => Handling' = Handling
             /\ at = "idle" => Handling' = Handling \ {c}
  <2>1. /\ onMessage' \in [Conns -> MessageType] /\ onMessage'[c].at = at /\ onMessage'[c].data = text
        /\ \A d \in Conns : d # c => onMessage'[d] = onMessage[d]
    BY <1>2, <1>3, <1>5 DEF EchoTypes, MessageType
  <2>2. (at = "compare" => Handling' = Handling) /\ (at = "idle" => Handling' = Handling \ {c})
    BY <1>1, <2>1 DEF Handling
  <2>3. QED
    BY <2>1, <2>2
<1>6. /\ Cardinality(Unread) \in Nat /\ Cardinality(Handling) \in Nat /\ IsFiniteSet(Handling)
      /\ Cardinality(Handling \ {c}) \in Nat /\ Cardinality(Handling \ {c}) =< Cardinality(Handling)
  <2>1. Cardinality(Unread) \in Nat /\ Cardinality(Handling) \in Nat /\ IsFiniteSet(Handling)
    BY <1>2, Numbers
  <2>2. Cardinality(Handling \ {c}) \in Nat
    BY <2>1, FS_Subset, FS_CardinalityType
  <2>3. Cardinality(Handling \ {c}) = Cardinality(Handling) \/ Cardinality(Handling \ {c}) = Cardinality(Handling) - 1
    BY <2>1, OneMore
  <2>4. QED
    BY <2>1, <2>2, <2>3
<1>7. ASSUME UNCHANGED toClient
      PROVE  Unread' = Unread /\ toClient' \in [Conns -> Seq(Bodies)] /\ \A d \in Conns : toClient[d] = <<>> => toClient'[d] = <<>>
  BY <1>2, <1>7 DEF Unread
<1>8. CASE /\ onMessage' = [onMessage EXCEPT ![c].at = "compare"]
           /\ UNCHANGED <<serverVars, reportVars, setting, timer, rounds, crashed>>
  <2>1. UNCHANGED <<protocol, listening, link, toServer, toClient, handler, qps, n, total>>
    BY <1>8 DEF serverVars, traffic, counters
  <2>2. PoolTalk'
    <3>1. Quiet(c)'
      BY <1>3, <1>5, <1>8, <2>1 DEF Quiet, Silent
    <3>2. /\ setting.mode = "handlers" /\ ~Greeted(c)' => rounds'[c] = 0
          /\ timer'[c] = <<>>
      BY <1>2, <1>3, <1>4, <1>8, <2>1 DEF PoolTalk
    <3>3. QED
      BY <1>3, <1>4, <1>5, <1>8, <2>1, <3>1, <3>2, OneTalks
  <2>3. ~Succeed
    BY <1>2, <1>8, NoSuccess
  <2>4. timer' \in [Conns -> Seq(Bodies)]
    BY <1>2, <1>8 DEF EchoTypes
  <2>5. onMessage' \in [Conns -> MessageType] /\ Handling' = Handling
    BY <1>5, <1>8
  <2>6. /\ UNCHANGED <<poolVars, setting, looper, crashed, rounds>> /\ UNCHANGED reportVars
        /\ Unread' = Unread /\ toClient' \in [Conns -> Seq(Bodies)] /\ \A d \in Conns : toClient[d] = <<>> => toClient'[d] = <<>>
    BY <1>1, <1>7, <1>8, <2>1
  <2>7. QED
    BY <1>6, <2>1, <2>2, <2>3, <2>4, <2>5, <2>6, HandlerAssembles
<1>9. CASE /\ rounds[c] < MaxRounds /\ timer' = [timer EXCEPT ![c] = Append(timer[c], onMessage[c].data)]
           /\ onMessage' = [onMessage EXCEPT ![c].at = "compare"]
           /\ UNCHANGED <<serverVars, reportVars, setting, rounds, crashed>>
  <2>1. UNCHANGED <<protocol, listening, link, toServer, toClient, handler, qps, n, total>>
    BY <1>9 DEF serverVars, traffic, counters
  <2>2. timer' \in [Conns -> Seq(Bodies)] /\ timer'[c] = <<text>> /\ \A d \in Conns : d # c => timer'[d] = timer[d]
    <3>1. Append(timer[c], onMessage[c].data) = <<text>> /\ <<text>> \in Seq(Bodies)
      BY <1>2, <1>3
    <3>2. QED
      BY <1>2, <1>9, <3>1 DEF EchoTypes
  <2>3. PoolTalk'
    <3>1. InUseBy(c)' /\ Busy(c)'
      BY <1>2, <1>3, <1>4, <1>5, <1>9, <2>1, <2>2 DEF Busy, Silent
    <3>2. setting.mode = "handlers" /\ ~Greeted(c)' => rounds'[c] = 0
      BY <1>2, <1>4, <1>9, <2>1 DEF PoolTalk
    <3>3. setting.mode # "loops" /\ rounds'[c] < MaxRounds
      BY <1>3, <1>9
    <3>4. QED
      BY <1>4, <1>5, <1>9, <2>1, <2>2, <3>1, <3>2, <3>3, OneTalks
  <2>4. ~Succeed
    BY <1>2, <1>9, NoSuccess
  <2>5. QED
    BY <1>1, <1>5, <1>6, <1>7, <1>9, <2>1, <2>2, <2>3, <2>4, HandlerAssembles
<1>10. CASE /\ rounds[c] < MaxRounds /\ Sends(c, onMessage[c].data)
            /\ onMessage' = [onMessage EXCEPT ![c].at = "compare"] /\ UNCHANGED timer
  <2>1. Sends(c, text)
    BY <1>3, <1>10
  <2>2. /\ UNCHANGED <<link, setting>> /\ (Carries(c, text)' \/ Silent(c)')
        /\ \A d \in Conns : d # c => toServer'[d] = toServer[d] /\ toClient'[d] = toClient[d] /\ rounds'[d] = rounds[d]
    BY <1>3, <1>10, <2>1, SendsEffect
  <2>3. StarterTypes' /\ Tasks' /\ Slices' /\ \A d \in Conns : (InUseBy(d) => InUseBy(d)') /\ (Greeted(d)' <=> Greeted(d))
    BY <1>1, <2>2, PoolRests
  <2>4. PoolTalk'
    <3>1. Quiet(c)' \/ (InUseBy(c)' /\ Busy(c)')
      BY <1>2, <1>3, <1>5, <1>10, <2>2, <2>3 DEF Quiet, Busy
    <3>2. Greeted(c)' /\ timer'[c] = <<>> /\ setting.mode # "loops"
      BY <1>3, <1>10, <2>3 DEF InUseBy
    <3>3. QED
      BY <1>5, <1>10, <2>2, <2>3, <3>1, <3>2, OneTalks
  <2>5. looper' \in [1..MaxLoopers -> LooperType] /\ timer' \in [Conns -> Seq(Bodies)]
    BY <1>1, <1>2, <1>10 DEF EchoTypes
  <2>6. QED
    BY <1>3, <1>5, <1>10, <2>1, <2>3, <2>4, <2>5, SendAssembles
<1>11. CASE /\ link[c] = "broken" /\ Fail
            /\ onMessage' = [onMessage EXCEPT ![c].at = "idle"]
            /\ UNCHANGED <<serverVars, setting, timer, rounds, crashed>>
  <2>1. UNCHANGED <<protocol, listening, link, toServer, toClient, handler, qps, n, total>>
    BY <1>11 DEF serverVars, traffic, counters
  <2>2. PoolTalk'
    <3>1. Quiet(c)'
      BY <1>3, <1>5, <1>11, <2>1 DEF Quiet, Silent
    <3>2. /\ setting.mode = "handlers" /\ ~Greeted(c)' => rounds'[c] = 0
          /\ timer'[c] = <<>>
      BY <1>2, <1>3, <1>4, <1>11, <2>1 DEF PoolTalk
    <3>3. QED
      BY <1>3, <1>4, <1>5, <1>11, <2>1, <3>1, <3>2, OneTalks
  <2>3. ~Succeed
    BY <1>2, <1>11, NoSuccess
  <2>4. timer' \in [Conns -> Seq(Bodies)] /\ SomeBroken
    BY <1>2, <1>11 DEF EchoTypes, SomeBroken
  <2>5. onMessage' \in [Conns -> MessageType] /\ Handling' = Handling \ {c}
    BY <1>5, <1>11
  <2>6. /\ UNCHANGED <<poolVars, setting, looper, crashed, rounds>> /\ Fail
        /\ Unread' = Unread /\ toClient' \in [Conns -> Seq(Bodies)] /\ \A d \in Conns : toClient[d] = <<>> => toClient'[d] = <<>>
    BY <1>1, <1>7, <1>11, <2>1
  <2>7. QED
    BY <1>6, <2>1, <2>2, <2>3, <2>4, <2>5, <2>6, HandlerAssembles
<1>12. QED
  BY <1>8, <1>9, <1>10, <1>11 DEF Reply

(* A timer sends the answer back.                                          *)
LEMMA TimerStep ==
    ASSUME IInv, program = "pool", UNCHANGED <<clientVars, program>>, NEW c \in Conns, Timer(c)
    PROVE  IInv' /\ Tallies
<1>1. /\ timer[c] # <<>> /\ timer' = [timer EXCEPT ![c] = Tail(timer[c])]
      /\ Sends(c, Head(timer[c])) /\ UNCHANGED <<poolVars, looper, onMessage>>
  BY DEF Timer
<1>2. /\ LoadersTypeOK /\ EchoTypes /\ PoolTalk /\ setting \in Settings /\ text \in Bodies
      /\ setting.mode \in {"handlers", "loops"} /\ text' = text
  BY PoolParts, SettingFacts DEF text
<1>3. /\ InUseBy(c) /\ c \in conns /\ setting.mode = "handlers" /\ onMessage[c].data = text
      /\ Silent(c) /\ timer[c] = <<text>> /\ rounds[c] < MaxRounds /\ onMessage[c].at # "reply"
  <2>1. ~Quiet(c)
    BY <1>1 DEF Quiet
  <2>2. InUseBy(c) /\ Busy(c) /\ onMessage[c].data = text /\ (setting.mode = "handlers" => c \in conns)
    BY <2>1, MessageInUse
  <2>3. setting.mode = "handlers" /\ rounds[c] < MaxRounds
    BY <1>1, <1>2 DEF PoolTalk
  <2>4. QED
    BY <1>1, <2>2, <2>3 DEF Busy
<1>4. Sends(c, text) /\ timer' = [timer EXCEPT ![c] = <<>>]
  <2>1. Head(<<text>>) = text /\ Tail(<<text>>) = <<>>
    OBVIOUS
  <2>2. QED
    BY <1>1, <1>3, <2>1
<1>5. /\ UNCHANGED <<link, setting>> /\ (Carries(c, text)' \/ Silent(c)')
      /\ \A d \in Conns : d # c => toServer'[d] = toServer[d] /\ toClient'[d] = toClient[d] /\ rounds'[d] = rounds[d]
  BY <1>3, <1>4, SendsEffect
<1>6. StarterTypes' /\ Tasks' /\ Slices' /\ \A d \in Conns : (InUseBy(d) => InUseBy(d)') /\ (Greeted(d)' <=> Greeted(d))
  BY <1>1, <1>5, PoolRests
<1>7. timer' \in [Conns -> Seq(Bodies)] /\ timer'[c] = <<>> /\ \A d \in Conns : d # c => timer'[d] = timer[d]
  <2>1. <<>> \in Seq(Bodies)
    OBVIOUS
  <2>2. QED
    BY <1>2, <1>4, <2>1 DEF EchoTypes
<1>8. PoolTalk'
  <2>1. Quiet(c)' \/ (InUseBy(c)' /\ Busy(c)')
    BY <1>1, <1>2, <1>3, <1>5, <1>6, <1>7 DEF Quiet, Busy
  <2>2. Greeted(c)' /\ setting.mode # "loops" /\ onMessage'[c].data = text
    BY <1>1, <1>3, <1>6 DEF InUseBy
  <2>3. QED
    BY <1>1, <1>5, <1>6, <1>7, <2>1, <2>2, OneTalks
<1>9. /\ looper' \in [1..MaxLoopers -> LooperType] /\ onMessage' \in [Conns -> MessageType] /\ Handling' = Handling
  BY <1>1, <1>2 DEF EchoTypes, Handling
<1>10. QED
  BY <1>3, <1>4, <1>6, <1>7, <1>8, <1>9, SendAssembles
-----------------------------------------------------------------------------
(* The goroutine of a slice is the only one that uses its connections.     *)
LEMMA OnlyLooper ==
    ASSUME IInv, program = "pool", NEW g \in Loopers, looper[g].at # "none", sub[g] # <<>>,
           NEW c, c = Current(g)
    PROVE  /\ c \in Conns /\ c \in conns /\ setting.mode = "loops" /\ g \in 1..MaxLoopers
           /\ Share \in Nat \ {0} /\ Share =< setting.c /\ looper[g].i \in 1..Share
           /\ Slot(g, Share, looper[g].i) = c
           /\ \A h \in Loopers : Awaits(h, c) => h = g
           /\ onMessage[c].at = "idle" /\ onMessage[c].data = text /\ timer[c] = <<>>
           /\ Silent(c) \/ (looper[g].at = "read" /\ Carries(c, text))
<1>1. StarterTypes /\ EchoTypes /\ Slices /\ PoolTalk /\ setting \in Settings
  BY PoolParts
<1>2. /\ Share \in Nat /\ setting.c \in Nat /\ Loopers \subseteq 1..MaxLoopers /\ Loopers = 1..setting.g /\ setting.g \in Nat
      /\ \A h \in Loopers, i \in 1..Share : Slot(h, Share, i) \in 1..setting.c /\ Slot(h, Share, i) \in Conns
      /\ \A h, k \in Loopers, i, j \in 1..Share : Slot(h, Share, i) = Slot(k, Share, j) => h = k /\ i = j
  BY <1>1, SettingFacts
<1>3. \A h \in Loopers : looper[h].at # "none" /\ sub[h] # <<>> =>
         /\ setting.mode = "loops" /\ starter.at \in {"slice", "done"}
         /\ Share > 0 /\ looper[h].i \in 1..Share /\ Current(h) = Slot(h, Share, looper[h].i)
  <2>1. ASSUME NEW h \in Loopers, looper[h].at # "none", sub[h] # <<>>
        PROVE  /\ setting.mode = "loops" /\ starter.at \in {"slice", "done"}
               /\ Share > 0 /\ looper[h].i \in 1..Share /\ Current(h) = Slot(h, Share, looper[h].i)
    <3>1. /\ setting.mode = "loops" /\ starter.at \in {"slice", "done"}
          /\ Share > 0 => looper[h].i =< Share
          /\ Len(sub[h]) = Share /\ \A i \in 1..Share : sub[h][i] = Slot(h, Share, i)
      BY <1>1, <2>1 DEF Slices
    <3>2. h \in 1..MaxLoopers /\ sub[h] \in Seq(Conns) /\ looper[h] \in LooperType
      BY <1>1, <1>2 DEF StarterTypes, EchoTypes
    <3>3. Share > 0 /\ looper[h].i \in 1..setting.c
      BY <1>2, <2>1, <3>1, <3>2, EmptySeq DEF LooperType
    <3>4. looper[h].i \in 1..Share
      BY <1>2, <3>1, <3>3
    <3>5. QED
      BY <3>1, <3>3, <3>4 DEF Current
  <2>2. QED
    BY <2>1
<1>4. /\ setting.mode = "loops" /\ starter.at \in {"slice", "done"} /\ Share \in Nat \ {0}
      /\ looper[g].i \in 1..Share /\ c = Slot(g, Share, looper[g].i)
  BY <1>2, <1>3
<1>5. c \in Conns /\ c \in conns
  BY <1>2, <1>4, AllDialed, SMTT(30) DEF Started
<1>6. ASSUME NEW h \in Loopers, Awaits(h, c) PROVE h = g
  <2>1. looper[h].at # "none" /\ sub[h] # <<>> /\ Current(h) = c
    BY <1>6 DEF Awaits
  <2>2. looper[h].i \in 1..Share /\ Current(h) = Slot(h, Share, looper[h].i)
    BY <1>3, <2>1
  <2>3. Slot(h, Share, looper[h].i) = Slot(g, Share, looper[g].i)
    BY <1>4, <2>1, <2>2
  <2>4. QED
    BY <1>2, <1>4, <2>2, <2>3, SMTT(30)
<1>7. Share =< setting.c
  <2>1. Share \in 1..Share /\ g - 1 \in Nat
    BY <1>2, <1>4
  <2>2. Slot(g, Share, Share) =< setting.c /\ (g - 1) * Share \in Nat
    BY <1>2, <2>1
  <2>3. QED
    BY <1>2, <2>2 DEF Slot
<1>8. /\ onMessage[c].at = "idle" /\ onMessage[c].data = text /\ timer[c] = <<>>
      /\ Quiet(c) \/ (InUseBy(c) /\ Busy(c))
  BY <1>1, <1>4, <1>5 DEF PoolTalk
<1>9. Silent(c) \/ (looper[g].at = "read" /\ Carries(c, text))
  <2>1. ASSUME ~Quiet(c) PROVE looper[g].at = "read" /\ Carries(c, text)
    <3>1. PICK h \in Loopers : Awaits(h, c)
      BY <1>4, <1>8, <2>1 DEF InUseBy
    <3>2. looper[g].at = "read"
      BY <1>6, <3>1 DEF Awaits
    <3>3. QED
      BY <1>8, <2>1, <3>2 DEF Busy
  <2>2. QED
    BY <2>1 DEF Quiet
<1>10. QED
  BY <1>2, <1>4, <1>5, <1>6, <1>7, <1>8, <1>9

(* A goroutine moves, within its slice.                                    *)
LEMMA LooperMoves ==
    ASSUME IInv, program = "pool", UNCHANGED <<poolVars, setting, link>>,
           NEW g \in Loopers, looper[g].at # "none", sub[g] # <<>>,
           NEW at \in {"write", "read"}, NEW i \in 1..Share,
           looper' = [looper EXCEPT ![g] = [at |-> at, i |-> i]]
    PROVE  /\ looper' \in [1..MaxLoopers -> LooperType] /\ Slices'
           /\ looper'[g].at = at /\ looper'[g].i = i
           /\ \A d \in Conns : d # Current(g) => (InUseBy(d) => InUseBy(d)')
<1>1. /\ Share \in Nat \ {0} /\ Share =< setting.c /\ setting.mode = "loops" /\ g \in 1..MaxLoopers
  BY OnlyLooper
<1>2. EchoTypes /\ Slices /\ setting \in Settings /\ setting.c \in Nat /\ Loopers \subseteq 1..MaxLoopers
  BY PoolParts, SettingFacts
<1>3. looper' \in [1..MaxLoopers -> LooperType]
  <2>1. i \in 1..setting.c
    BY <1>1, <1>2
  <2>2. [at |-> at, i |-> i] \in LooperType
    BY <2>1 DEF LooperType
  <2>3. QED
    BY <1>2, <2>2 DEF EchoTypes
<1>4. looper'[g].at = at /\ looper'[g].i = i /\ \A h \in 1..MaxLoopers : h # g => looper'[h] = looper[h]
  BY <1>1, <1>2 DEF EchoTypes
<1>5. UNCHANGED <<Loopers, Share, Cut, starter, rest, sub, setting>>
  BY DEF Loopers, Share, Cut, poolVars
<1>6. \A h, j : Slot(h, Share, j)' = Slot(h, Share, j)
  BY <1>5 DEF Slot
<1>7. Slices'
  <2>1. ASSUME NEW h \in Loopers
        PROVE  /\ Share > 0 => looper'[h].i =< Share
               /\ looper'[h].at # "none" =>
                     /\ setting.mode = "loops" /\ starter.at \in {"slice", "done"}
                     /\ starter.at = "slice" => h < starter.i
                     /\ Len(sub[h]) = Share /\ \A j \in 1..Share : sub[h][j] = Slot(h, Share, j)
    <3>1. CASE h = g
      BY <1>1, <1>2, <1>4, <3>1 DEF Slices
    <3>2. CASE h # g
      <4>1. looper'[h] = looper[h]
        BY <1>2, <1>4, <3>2
      <4>2. QED
        BY <1>1, <1>2, <4>1 DEF Slices
    <3>3. QED
      BY <3>1, <3>2
  <2>2. QED
    BY <1>2, <1>5, <1>6, <2>1 DEF Slices
<1>8. ASSUME NEW d \in Conns, d # Current(g), InUseBy(d) PROVE InUseBy(d)'
  <2>1. PICK h \in Loopers : Awaits(h, d)
    BY <1>1, <1>8 DEF InUseBy
  <2>2. h # g /\ h \in 1..MaxLoopers
    BY <1>2, <1>8, <2>1 DEF Awaits
  <2>3. Awaits(h, d)'
    BY <1>4, <1>5, <2>1, <2>2 DEF Awaits, Current
  <2>4. QED
    BY <1>1, <1>5, <2>1, <2>3 DEF InUseBy
<1>9. QED
  BY <1>3, <1>4, <1>7, <1>8

(* A goroutine sends its message on the connection whose turn it is.       *)
LEMMA LoopWriteStep ==
    ASSUME IInv, program = "pool", UNCHANGED <<clientVars, program>>, NEW g \in 1..MaxLoopers, LoopWrite(g)
    PROVE  IInv' /\ Tallies
<1>1. /\ g \in Loopers /\ looper[g].at = "write" /\ sub[g] # <<>>
      /\ rounds[Current(g)] < MaxRounds /\ Sends(Current(g), text)
      /\ looper' = [looper EXCEPT ![g].at = "read"] /\ UNCHANGED <<poolVars, onMessage, timer>>
  BY DEF LoopWrite, InLoop
<1>2. Current(g) \in conns
  BY <1>1, OnlyLooper
<1>3. PICK c \in conns : c = Current(g)
  BY <1>2
<1>4. /\ c \in Conns /\ setting.mode = "loops" /\ looper[g].i \in 1..Share /\ Silent(c)
      /\ onMessage[c].at = "idle" /\ onMessage[c].data = text /\ timer[c] = <<>>
  BY <1>1, <1>3, OnlyLooper
<1>5. EchoTypes /\ text' = text
  BY PoolParts DEF text
<1>6. looper' = [looper EXCEPT ![g] = [at |-> "read", i |-> looper[g].i]]
  <2>1. looper[g] \in LooperType
    BY <1>5 DEF EchoTypes
  <2>2. [looper[g] EXCEPT !.at = "read"] = [at |-> "read", i |-> looper[g].i]
    BY <2>1 DEF LooperType
  <2>3. looper' = [looper EXCEPT ![g] = [looper[g] EXCEPT !.at = "read"]]
    BY <1>1
  <2>4. QED
    BY <2>2, <2>3
<1>7. Sends(c, text) /\ rounds[c] < MaxRounds
  BY <1>1, <1>3
<1>8. /\ UNCHANGED <<link, setting>> /\ (Carries(c, text)' \/ Silent(c)')
      /\ \A d \in Conns : d # c => toServer'[d] = toServer[d] /\ toClient'[d] = toClient[d] /\ rounds'[d] = rounds[d]
  BY <1>4, <1>7, SendsEffect
<1>9. /\ looper' \in [1..MaxLoopers -> LooperType] /\ Slices'
      /\ looper'[g].at = "read" /\ looper'[g].i = looper[g].i
      /\ \A d \in Conns : d # c => (InUseBy(d) => InUseBy(d)')
  BY <1>1, <1>3, <1>4, <1>6, <1>8, LooperMoves
<1>10. StarterTypes' /\ Tasks' /\ \A d \in Conns : Greeted(d)' <=> Greeted(d)
  BY <1>1, <1>8, PoolRests
<1>11. InUseBy(c)'
  <2>1. Awaits(g, c)'
    BY <1>1, <1>3, <1>9 DEF Awaits, Current, poolVars
  <2>2. QED
    BY <1>1, <1>4, <1>8, <2>1 DEF InUseBy, Loopers
<1>12. PoolTalk'
  <2>1. Quiet(c)' \/ (InUseBy(c)' /\ Busy(c)')
    BY <1>1, <1>4, <1>5, <1>8, <1>11 DEF Quiet, Busy
  <2>2. onMessage'[c].at = "idle" /\ onMessage'[c].data = text /\ timer'[c] = <<>> /\ setting.mode # "handlers"
    BY <1>1, <1>4
  <2>3. QED
    BY <1>1, <1>4, <1>8, <1>9, <1>10, <2>1, <2>2, OneTalks
<1>13. /\ onMessage' \in [Conns -> MessageType] /\ timer' \in [Conns -> Seq(Bodies)] /\ Handling' = Handling
  BY <1>1, <1>5 DEF EchoTypes, Handling
<1>14. QED
  BY <1>4, <1>7, <1>9, <1>10, <1>12, <1>13, SendAssembles

(* A goroutine reads the answer, compares it and counts it.                *)
LEMMA LoopReadStep ==
    ASSUME IInv, program = "pool", UNCHANGED <<clientVars, program>>, NEW g \in 1..MaxLoopers, LoopRead(g)
    PROVE  IInv' /\ Tallies
<1>1. /\ g \in Loopers /\ looper[g].at = "read" /\ sub[g] # <<>> /\ toClient[Current(g)] # <<>>
      /\ toClient' = [toClient EXCEPT ![Current(g)] = Tail(toClient[Current(g)])]
      /\ Head(toClient[Current(g)]) = text => Succeed /\ UNCHANGED crashed
      /\ looper' = [looper EXCEPT ![g] = [at |-> "write", i |-> (looper[g].i % Share) + 1]]
      /\ UNCHANGED <<protocol, listening, link, toServer, handler, qps, n, total>>
      /\ UNCHANGED <<setting, poolVars, onMessage, timer, rounds>>
  BY DEF LoopRead, InLoop, counters
<1>2. Current(g) \in Conns
  BY <1>1, OnlyLooper
<1>3. PICK c \in Conns : c = Current(g)
  BY <1>2
<1>4. /\ setting.mode = "loops" /\ looper[g].i \in 1..Share /\ Share \in Nat \ {0}
      /\ onMessage[c].at = "idle" /\ onMessage[c].data = text /\ timer[c] = <<>>
      /\ Carries(c, text)
  <2>1. /\ setting.mode = "loops" /\ looper[g].i \in 1..Share /\ Share \in Nat \ {0}
        /\ onMessage[c].at = "idle" /\ onMessage[c].data = text /\ timer[c] = <<>>
        /\ Silent(c) \/ Carries(c, text)
    BY <1>1, <1>3, OnlyLooper
  <2>2. ~Silent(c)
    BY <1>1, <1>3 DEF Silent
  <2>3. QED
    BY <2>1, <2>2
<1>5. toClient[c] = <<text>> /\ toServer[c] = <<>>
  BY <1>1, <1>3, <1>4 DEF Carries
<1>6. LoadersTypeOK /\ EchoTypes /\ toClient \in [Conns -> Seq(Bodies)]
  BY PoolParts, Types
<1>7. Succeed /\ UNCHANGED crashed /\ toClient' = [toClient EXCEPT ![c] = <<>>]
  <2>1. Head(<<text>>) = text /\ Tail(<<text>>) = <<>>
    OBVIOUS
  <2>2. QED
    BY <1>1, <1>3, <1>5, <2>1
<1>8. /\ toClient'[c] = <<>> /\ \A d \in Conns : d # c => toClient'[d] = toClient[d]
      /\ toClient' \in [Conns -> Seq(Bodies)]
  <2>1. <<>> \in Seq(Bodies)
    OBVIOUS
  <2>2. QED
    BY <1>6, <1>7, <2>1
<1>9. (looper[g].i % Share) + 1 \in 1..Share
  BY <1>4
<1>10. /\ looper' \in [1..MaxLoopers -> LooperType] /\ Slices'
       /\ \A d \in Conns : d # c => (InUseBy(d) => InUseBy(d)')
  BY <1>1, <1>3, <1>9, LooperMoves
<1>11. \A d \in Conns : Greeted(d)' <=> Greeted(d)
  BY <1>1, PoolRests
<1>12. PoolTalk'
  <2>1. Quiet(c)'
    BY <1>1, <1>4, <1>5, <1>8 DEF Quiet, Silent
  <2>2. onMessage'[c].at = "idle" /\ onMessage'[c].data = text /\ timer'[c] = <<>> /\ setting.mode # "handlers"
    BY <1>1, <1>4
  <2>3. QED
    BY <1>1, <1>8, <1>10, <1>11, <2>1, <2>2, OneTalks
<1>13. Unread' = Unread \ {c} /\ c \in Unread /\ Handling' = Handling
  BY <1>1, <1>3, <1>8 DEF Unread, Handling
<1>14. /\ Cardinality(Unread') = Cardinality(Unread) - 1
       /\ Cardinality(Unread) \in Nat /\ Cardinality(Handling) \in Nat /\ IsFiniteSet(Unread)
  BY <1>6, <1>13, Numbers, OneMore
<1>15. Cardinality(Unread') \in Nat
  <2>1. IsFiniteSet(Unread')
    BY <1>13, <1>14, FS_Subset
  <2>2. QED
    BY <2>1, FS_CardinalityType
<1>16. /\ onMessage' \in [Conns -> MessageType] /\ timer' \in [Conns -> Seq(Bodies)]
       /\ \A d \in Conns : toClient[d] = <<>> => toClient'[d] = <<>>
  BY <1>1, <1>6, <1>8 DEF EchoTypes
<1>17. QED
  BY <1>1, <1>7, <1>8, <1>10, <1>12, <1>13, <1>14, <1>15, <1>16, CountAssembles

(* Nothing moves on the connections and in the program, but counts may.    *)
LEMMA TalkRests ==
    ASSUME IInv, program = "pool", UNCHANGED <<serverVars, setting, poolVars, echoVars>>
    PROVE  /\ UNCHANGED <<protocol, listening, link, toServer, toClient, handler, qps, n, total>>
           /\ UNCHANGED <<looper, onMessage, timer, rounds>>
           /\ PoolTalk' /\ Slices' /\ EchoTypes' /\ Unread' = Unread /\ Handling' = Handling
<1>1. /\ UNCHANGED <<protocol, listening, link, toServer, toClient, handler, qps, n, total>>
      /\ UNCHANGED <<looper, onMessage, timer, rounds>>
  BY DEF serverVars, traffic, counters, echoVars
<1>2. PoolTalk /\ EchoTypes /\ text' = text
  BY PoolParts DEF text
<1>3. Slices' /\ \A d : (InUseBy(d) => InUseBy(d)') /\ (Greeted(d)' <=> Greeted(d))
  BY <1>1, PoolRests
<1>4. PoolTalk'
  <2>1. \A d \in Conns : (Quiet(d) => Quiet(d)') /\ (Busy(d) => Busy(d)')
    BY <1>1, <1>2 DEF Quiet, Busy, Silent, Carries
  <2>2. QED
    BY <1>1, <1>2, <1>3, <2>1 DEF PoolTalk
<1>5. EchoTypes' /\ Unread' = Unread /\ Handling' = Handling
  BY <1>1, <1>2 DEF EchoTypes, LooperType, MessageType, Unread, Handling
<1>6. QED
  BY <1>1, <1>3, <1>4, <1>5

(* A goroutine cannot read from a connection that broke, and panics.       *)
LEMMA LoopReadFailsStep ==
    ASSUME IInv, program = "pool", UNCHANGED <<clientVars, program>>, NEW g \in 1..MaxLoopers, LoopReadFails(g)
    PROVE  IInv' /\ Tallies
<1>1. /\ g \in Loopers /\ looper[g].at = "read" /\ sub[g] # <<>> /\ link[Current(g)] = "broken"
      /\ Fail /\ crashed' = "error" /\ UNCHANGED <<serverVars, setting, poolVars, echoVars>>
  BY DEF LoopReadFails, InLoop
<1>2. Current(g) \in Conns
  BY <1>1, OnlyLooper
<1>3. SomeBroken
  BY <1>1, <1>2 DEF SomeBroken
<1>4. /\ UNCHANGED <<protocol, listening, link, toServer, toClient, handler, qps, n, total>>
      /\ UNCHANGED <<looper, onMessage, timer, rounds>>
      /\ PoolTalk' /\ Slices' /\ EchoTypes' /\ Unread' = Unread /\ Handling' = Handling
  BY <1>1, TalkRests
<1>5. LoadersTypeOK /\ ReportTypeOK /\ EchoTypes /\ toClient \in [Conns -> Seq(Bodies)]
  BY PoolParts, Types
<1>6. ~Succeed
  BY <1>1, <1>5, NoSuccess
<1>7. Cardinality(Unread) \in Nat /\ Cardinality(Handling) \in Nat
  BY <1>5, Numbers
<1>8. /\ looper' \in [1..MaxLoopers -> LooperType] /\ onMessage' \in [Conns -> MessageType]
      /\ timer' \in [Conns -> Seq(Bodies)] /\ toClient' \in [Conns -> Seq(Bodies)]
      /\ \A d \in Conns : toClient[d] = <<>> => toClient'[d] = <<>>
  BY <1>4, <1>5 DEF EchoTypes
<1>9. QED
  BY <1>1, <1>3, <1>4, <1>6, <1>7, <1>8, CountAssembles

(* The report of the pool's clients.                                       *)
LEMMA PoolReportStep ==
    ASSUME IInv, program = "pool", UNCHANGED <<clientVars, program>>, PoolReport
    PROVE  IInv' /\ Tallies
<1>1. /\ SwapSuccess \/ SwapFailed \/ AddTotals
      /\ UNCHANGED <<serverVars, setting, poolVars, echoVars, crashed>>
  BY DEF PoolReport
<1>2. /\ LoadersTypeOK /\ ServerTypeOK /\ ReportTypeOK /\ StarterTypes /\ EchoTypes
      /\ Wires /\ Accounted /\ Blamed /\ Reporting /\ crashed \in {"no", "nilConnection", "error"}
  BY PoolParts
<1>3. ReportTypeOK' /\ Reporting' /\ Successes' = Successes /\ Failures' = Failures
  BY <1>1, <1>2, ReportKeepsCounts
<1>4. /\ UNCHANGED <<protocol, listening, link, toServer, toClient, handler, qps, n, total>>
      /\ PoolTalk' /\ Slices' /\ EchoTypes' /\ Unread' = Unread /\ Handling' = Handling
  BY <1>1, TalkRests
<1>5. StarterTypes' /\ Tasks'
  BY <1>1, <1>4, PoolRests
<1>6. ServerTypeOK' /\ Wires' /\ SomeBroken' = SomeBroken
  BY <1>2, <1>4 DEF ServerTypeOK, Wires, Silent, SomeBroken
<1>7. Got' = Got /\ Served' = Served
  BY <1>4 DEF Got, Served, clientVars
<1>8. Accounted' /\ Tallies
  BY <1>2, <1>3, <1>4, <1>7 DEF Accounted, Tallies
<1>9. crashed' \in {"no", "error"} /\ (Failures' > 0 \/ crashed' = "error" => SomeBroken')
  BY <1>1, <1>2, <1>3, <1>6 DEF Blamed
<1>10. QED
  BY <1>1, <1>3, <1>4, <1>5, <1>6, <1>8, <1>9, PoolAssembles

(* Every step of the pool's clients.                                       *)
LEMMA PoolSteps ==
    ASSUME IInv, program = "pool", UNCHANGED <<clientVars, program>>, PoolLoadNext
    PROVE  IInv' /\ Tallies
<1>1. CASE Starter
  BY <1>1, GoStep, WaitAllStep, WriteFirstStep, SliceStep DEF Starter
<1>2. CASE StartTask
  BY <1>2, StartTaskStep
<1>3. CASE PoolReport
  BY <1>3, PoolReportStep
<1>4. ASSUME NEW c \in Conns, Task(c) PROVE IInv' /\ Tallies
  BY <1>4, DialTaskStep, TaskDoneStep DEF Task
<1>5. ASSUME NEW c \in Conns, Handle(c) PROVE IInv' /\ Tallies
  BY <1>5, OnMessageStep, ReplyStep, CompareStep, TimerStep DEF Handle
<1>6. ASSUME NEW g \in 1..MaxLoopers, Loop(g) PROVE IInv' /\ Tallies
  BY <1>6, LoopWriteStep, LoopReadStep, LoopReadFailsStep DEF Loop
<1>7. CASE (ServerNext \/ \E c \in Conns : Break(c)) /\ UNCHANGED <<reportVars, setting, poolVars, echoVars, crashed>>
  <2>1. UNCHANGED <<reportVars, clientVars, poolOwnVars, program>>
    BY <1>7 DEF poolOwnVars
  <2>2. QED
    BY <1>7, <2>1, Environment
<1>8. QED
  BY <1>1, <1>2, <1>3, <1>4, <1>5, <1>6, <1>7 DEF PoolLoadNext
-----------------------------------------------------------------------------
loadersVars == <<serverVars, reportVars, clientVars, poolOwnVars, program>>

(* Every step of the loader that runs, and every step that is not its own, *)
(* keeps the invariant.                                                    *)
LEMMA NextIInv == IInv /\ [MCNext]_loadersVars => IInv' /\ Tallies
<1> SUFFICES ASSUME IInv, [MCNext]_loadersVars PROVE IInv' /\ Tallies
  OBVIOUS
<1>1. CASE program = "test" /\ LoadNext /\ UNCHANGED <<poolOwnVars, program>>
  BY <1>1, TestSteps
<1>2. CASE program = "pool" /\ PoolLoadNext /\ UNCHANGED <<clientVars, program>>
  BY <1>2, PoolSteps
<1>3. CASE UNCHANGED loadersVars
  <2>1. UNCHANGED <<serverVars, reportVars, clientVars, poolOwnVars, program>>
    BY <1>3 DEF loadersVars
  <2>2. UNCHANGED <<protocol, listening, link, toServer, toClient, handler, qps, n, total>>
    BY <2>1 DEF serverVars, traffic, counters
  <2>3. Successes' = Successes /\ Got' = Got /\ Handling' = Handling
    BY <2>1, ClientsRest
  <2>4. Served' = Served /\ Unread' = Unread
    BY <2>2 DEF Served, Unread
  <2>5. Accounted' /\ Tallies
    BY <2>3, <2>4 DEF IInv, Accounted, Tallies
  <2>6. ServerTypeOK' /\ Wires' /\ Fades
    <3>1. ServerTypeOK /\ Wires
      BY Types DEF IInv
    <3>2. QED
      BY <2>2, <3>1 DEF ServerTypeOK, Wires, Fades, Silent, Carries
  <2>7. QED
    BY <2>1, <2>5, <2>6, EnvironmentKeeps
<1>4. QED
  BY <1>1, <1>2, <1>3 DEF MCNext

LEMMA SpecIInv == MCSpec => []IInv
<1>1. MCSpec => MCInit /\ [][MCNext]_loadersVars
  BY PTL DEF MCSpec, loadersVars
<1>2. QED
  BY <1>1, InitIInv, NextIInv, PTL

(* The variables of the load generators and of the servers keep their      *)
(* types: in particular no queue outgrows the pool's, no connection sends  *)
(* more than its rounds, and the channel takes connNum connections at most. *)
THEOREM LoadersTypeCorrect == MCSpec => []LoadersTypeOK
<1>1. IInv => LoadersTypeOK
  BY DEF IInv
<1>2. QED
  BY <1>1, SpecIInv, PTL

LEMMA TestSound == IInv => TestIsSound
<1> SUFFICES ASSUME IInv PROVE TestIsSound
  OBVIOUS
<1>1. ASSUME program = "test", main # "collect"
      PROVE  Cardinality(Dialed) = flags.c /\ Even
  <2>1. announced = flags.c /\ flags \in Flags
    BY <1>1, Types DEF IInv, TestInv, Barrier
  <2>2. /\ Cardinality(Dialed) =< flags.g * PerLoop /\ Cardinality(Dialed) =< flags.c
        /\ flags.g * PerLoop \in Nat /\ flags.c \in Nat /\ Cardinality(Dialed) \in Nat
        /\ Cardinality(Announcing) \in Nat /\ announced + Cardinality(Announcing) = Cardinality(Dialed)
    BY <1>1, DialedFit
  <2>3. ~Even => flags.g * PerLoop < flags.c
    BY <2>1, FlagFacts
  <2>4. Cardinality(Dialed) = flags.c
    BY <2>1, <2>2
  <2>5. Even
    BY <2>2, <2>3, <2>4
  <2>6. QED
    BY <2>4, <2>5
<1>2. TestCountsAfterStart
  <2>1. ASSUME program = "test", Successes > 0
        PROVE  main # "collect" /\ Cardinality(Dialed) = flags.c
    BY <1>1, <2>1 DEF IInv, TestInv, Barrier
  <2>2. QED
    BY <2>1 DEF TestCountsAfterStart, CountsAfterStart, Dialed
<1>3. UnevenTestsWait
  <2>1. CASE program = "test"
    BY <1>1, <2>1 DEF UnevenTestsWait
  <2>2. CASE program = "pool"
    BY <2>2 DEF IInv, PoolInv, TestIdle, UnevenTestsWait
  <2>3. QED
    BY <2>1, <2>2 DEF IInv
<1>4. FailureNeedsBreak
  BY DEF IInv, Blamed, SomeBroken, FailureNeedsBreak
<1>5. QED
  BY <1>2, <1>3, <1>4 DEF TestIsSound

(* Whatever the number of connections and goroutines: the test counts no   *)
(* success before main has taken connNum connections, waits for ever when  *)
(* the division leaves some out, and counts a failure only when a          *)
(* connection broke.                                                       *)
THEOREM TestCountsSound == MCSpec => []TestIsSound
BY TestSound, SpecIInv, PTL

LEMMA AtMostOne ==
    ASSUME NEW a \in {0, 1}, NEW b \in {0, 1}, NEW d \in {0, 1}, a = 0 \/ b = 0, a = 0 \/ d = 0, b = 0 \/ d = 0
    PROVE  a + b + d =< 1
OBVIOUS

LEMMA PoolSound == IInv => PoolLoadIsSound
<1> SUFFICES ASSUME IInv PROVE PoolLoadIsSound
  OBVIOUS
<1>1. NoNilConnection /\ PanicNeedsBreak
  BY DEF IInv, Blamed, SomeBroken, NoNilConnection, PanicNeedsBreak
<1>2. ASSUME NEW c \in Conns
      PROVE  Len(toServer[c]) + Len(toClient[c]) + Len(timer[c])
                + (IF onMessage[c].at = "reply" THEN 1 ELSE 0) =< 1
  <2> DEFINE Replies == IF onMessage[c].at = "reply" THEN 1 ELSE 0
  <2>1. Len(<<>>) = 0 /\ \A m : Len(<<m>>) = 1
    OBVIOUS
  <2>2. ASSUME NEW m, Carries(c, m) PROVE Len(toServer[c]) + Len(toClient[c]) = 1
    <3>1. CASE toServer[c] = <<m>> /\ toClient[c] = <<>>
      <4>1. Len(toServer[c]) = 1 /\ Len(toClient[c]) = 0
        BY <2>1, <3>1, Zenon
      <4>2. QED
        BY <4>1
    <3>2. CASE toServer[c] = <<>> /\ toClient[c] = <<m>>
      <4>1. Len(toServer[c]) = 0 /\ Len(toClient[c]) = 1
        BY <2>1, <3>2, Zenon
      <4>2. QED
        BY <4>1
    <3>3. QED
      BY <2>2, <3>1, <3>2 DEF Carries
  <2>3. ASSUME Silent(c) PROVE Len(toServer[c]) + Len(toClient[c]) = 0
    <3>1. Len(toServer[c]) = 0 /\ Len(toClient[c]) = 0
      BY <2>1, <2>3, Zenon DEF Silent
    <3>2. QED
      BY <3>1
  <2>4. (timer[c] = <<>> => Len(timer[c]) = 0) /\ (timer[c] = <<text>> => Len(timer[c]) = 1)
    BY <2>1, Zenon
  <2>5. (onMessage[c].at = "reply" => Replies = 1) /\ (onMessage[c].at # "reply" => Replies = 0)
    BY Zenon
  <2> HIDE DEF Replies
  <2>6. /\ Len(toServer[c]) + Len(toClient[c]) \in {0, 1} /\ Len(timer[c]) \in {0, 1} /\ Replies \in {0, 1}
        /\ Len(toServer[c]) + Len(toClient[c]) = 0 \/ Len(timer[c]) = 0
        /\ Len(toServer[c]) + Len(toClient[c]) = 0 \/ Replies = 0
        /\ Len(timer[c]) = 0 \/ Replies = 0
    <3>1. CASE Silent(c) /\ timer[c] = <<>>
      BY <2>3, <2>4, <2>5, <3>1, Zenon
    <3>2. CASE Silent(c) /\ timer[c] = <<text>> /\ onMessage[c].at # "reply"
      BY <2>3, <2>4, <2>5, <3>2, Zenon
    <3>3. CASE (\E m : Carries(c, m)) /\ timer[c] = <<>> /\ onMessage[c].at # "reply"
      BY <2>2, <2>4, <2>5, <3>3, Zenon
    <3>4. CASE program = "test"
      <4>1. onMessage[c].at = "idle" /\ timer[c] = <<>>
        BY <3>4 DEF IInv, TestInv, PoolIdle
      <4>2. Silent(c) \/ \E m : Carries(c, m)
        BY OneMessage
      <4>3. QED
        BY <3>1, <3>3, <4>1, <4>2
    <3>5. CASE program = "pool"
      <4>1. Quiet(c) \/ Busy(c)
        BY <3>5 DEF IInv, PoolInv, PoolTalk
      <4>2. QED
        BY <3>1, <3>2, <3>3, <4>1 DEF Quiet, Busy
    <3>6. QED
      BY <3>4, <3>5 DEF IInv
  <2>7. QED
    BY <2>6, AtMostOne, Zenon DEF Replies
<1>3. QED
  BY <1>1, <1>2 DEF PoolLoadIsSound, OneMessageEach

(* Whatever the number of connections, goroutines and workers: the wait    *)
(* group returns when every connection is stored, a connection carries one *)
(* message at a time, and only a broken one makes a failure or a panic.    *)
THEOREM PoolLoadSound == MCSpec => []PoolLoadIsSound
BY PoolSound, SpecIInv, PTL

Fits == Successes \in Nat /\ Served \in Nat /\ Successes =< Served

LEMMA CountsFit == IInv => Fits
<1> SUFFICES ASSUME IInv PROVE Fits
  OBVIOUS
<1>1. LoadersTypeOK /\ Accounted
  BY DEF IInv
<1>2. /\ Successes \in Nat /\ Served \in Nat /\ Cardinality(Unread) \in Nat
      /\ Cardinality(Got) \in Nat /\ Cardinality(Handling) \in Nat
  BY <1>1, Numbers
<1>3. QED
  BY <1>1, <1>2 DEF Accounted, Fits

(* The client never counts what the servers have not served, and no count  *)
(* is lost or taken back by the swaps of the reports: both load generators *)
(* implement Tally.                                                        *)
THEOREM LoadersImplementTally == MCSpec => TallySpec
<1>1. MCInit => Reports!Init
  <2> SUFFICES ASSUME MCInit PROVE Served = 0 /\ Successes = 0
    BY DEF Reports!Init
  <2>2. Successes = 0
    BY DEF MCInit, ReportInit, Successes
  <2>3. handler = [c \in Conns |-> "reading"] /\ qps = 0 /\ n = 0 /\ total = 0
    BY DEF MCInit, ServerInit
  <2>4. Cardinality(Echoed) = 0 /\ Served = qps + n + total + Cardinality(Echoed)
    <3>1. Echoed = {}
      BY <2>3 DEF Echoed
    <3>2. LoadersTypeOK
      BY InitIInv DEF IInv
    <3>3. QED
      BY <3>1, <3>2, FS_EmptySet, Numbers
  <2>5. QED
    BY <2>2, <2>3, <2>4
<1>2. Fits /\ Fits' /\ Tallies => [Reports!Serve \/ Reports!Count]_(Reports!vars)
  BY DEF Fits, Tallies, Reports!Serve, Reports!Count, Reports!vars
<1>3. MCSpec => MCInit /\ [][MCNext]_loadersVars
  BY PTL DEF MCSpec, loadersVars
<1>4. QED
  BY <1>1, <1>2, <1>3, SpecIInv, CountsFit, NextIInv, PTL DEF TallySpec, Reports!Spec
=============================================================================
