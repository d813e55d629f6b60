-------------------------- MODULE HttpLoad_proofs --------------------------
(***************************************************************************)
(* Proofs about HttpLoad, for any number of connections, loops and posts:  *)
(* the client's and the server's reports differ by no more than failures   *)
(* and posts under way.  Every answer that is read completes one post at   *)
(* most, unless a failure is counted; so what is counted as a success can  *)
(* be charged to a request that was served or to a failure.                *)
(***************************************************************************)
EXTENDS HttpLoad, FiniteSetTheorems, SequenceTheorems, TLAPS

-----------------------------------------------------------------------------
Slot(g, i) == (g - 1) * ConnNum + i

(* The first f[c] messages of every connection c.                          *)
Below(f) == {p \in Conns \X Nat : 1 =< p[2] /\ p[2] =< f[p[1]]}

InHandler(c) == IF handler[c] = "counted" THEN 1 ELSE 0
Unserved == [c \in Conns |-> Len(toServer[c]) - InHandler(c)]
Unread == [c \in Conns |-> Len(toClient[c])]
Counted == {c \in Conns : handler[c] = "counted"}
Counting == {g \in Loops : poster[g].at = "count"}
Waiting == {g \in Loops : poster[g].at \in {"read", "count"}}

(* A connection that is not dialed yet is not broken and carries nothing.  *)
Shape ==
    /\ protocol = "http"
    /\ \A c \in Conns : /\ handler[c] # "echoed"
                        /\ link[c] = "none" => handler[c] = "reading"
                        /\ link[c] = "up" /\ handler[c] = "counted" => toServer[c] # <<>>
                        /\ link[c] = "broken" => toServer[c] = <<>>
    /\ \A g \in Loops :
          /\ poster[g].at # "dial" => ConnNum > 0
          /\ ConnNum > 0 => poster[g].i =< ConnNum
          /\ poster[g].at = "dial" =>
                \A j \in 1..ConnNum : poster[g].i =< j => link[Slot(g, j)] = "none"

(* A request that was served, or a failure, accounts for every success, for*)
(* every loop about to count one and for every answer yet to be read.      *)
Charged ==
    /\ IsFiniteSet(Below(Unread))
    /\ Successes + Cardinality(Counting) + Cardinality(Below(Unread)) + Cardinality(Counted)
          =< Served + Failures

(* While no connection is broken every post that was begun is a request    *)
(* that was served or is yet to be, and a success or a loop that waits.    *)
Posted ==
    /\ IsFiniteSet(Below(Unserved))
    /\ (\A c \in Conns : link[c] # "broken") =>
          /\ Served + Cardinality(Below(Unserved)) =< posts
          /\ posts =< Successes + Cardinality(Waiting)

(* What the report has swapped and not added is nothing when it is due.    *)
Reporting ==
    /\ reporting = "ticker" => nSuccess = 0 /\ nFailed = 0
    /\ reporting = "success" => nFailed = 0

IInv == HttpTypes /\ Shape /\ Reporting /\ Charged /\ Posted
-----------------------------------------------------------------------------
(* The loops' shares of the connections do not overlap.                    *)
LEMMA Shares ==
    /\ ConnNum \in Nat /\ GoroutineNum \in Nat \ {0}
    /\ \A g \in Loops, i \in 1..ConnNum : Slot(g, i) \in Conns
    /\ \A g, h \in Loops, i, j \in 1..ConnNum : Slot(g, i) = Slot(h, j) => g = h /\ i = j
<1>1. GoroutineNum \in Nat \ {0} /\ ClientNum \in Nat
  BY FlagsAreNumbers
<1>2. ConnNum \in Nat
  BY <1>1 DEF ConnNum
<1>3. \A a, b, k \in Nat : a =< b => a * k =< b * k
  OBVIOUS
<1>4. ASSUME NEW g \in Loops, NEW i \in 1..ConnNum PROVE Slot(g, i) \in Conns
  <2>1. g \in Nat /\ g - 1 \in Nat /\ g =< GoroutineNum
    BY <1>1 DEF Loops
  <2>2. (g - 1) * ConnNum \in Nat /\ g * ConnNum = (g - 1) * ConnNum + ConnNum /\ ConnNum * GoroutineNum = GoroutineNum * ConnNum
    BY <1>1, <1>2, <2>1
  <2>3. g * ConnNum =< GoroutineNum * ConnNum
    BY <1>1, <1>2, <1>3, <2>1
  <2>4. GoroutineNum * ConnNum \in Nat
    BY <1>1, <1>2
  <2>5. (g - 1) * ConnNum + i \in 1..(ConnNum * GoroutineNum)
    BY <1>2, <2>2, <2>3, <2>4
  <2>6. QED
    BY <2>5, LoopsHaveConns DEF Slot
<1>5. ASSUME NEW g \in Loops, NEW h \in Loops, g < h, NEW i \in 1..ConnNum, NEW j \in 1..ConnNum
      PROVE  Slot(g, i) < Slot(h, j)
  <2>1. g \in Nat /\ h - 1 \in Nat /\ g =< h - 1 /\ g - 1 \in Nat
    BY <1>1, <1>5 DEF Loops
  <2>2. g * ConnNum =< (h - 1) * ConnNum
    BY <1>2, <1>3, <2>1
  <2>3. g * ConnNum = (g - 1) * ConnNum + ConnNum /\ (g - 1) * ConnNum \in Nat /\ (h - 1) * ConnNum \in Nat
    BY <1>2, <2>1
  <2>4. QED
    BY <1>2, <2>2, <2>3 DEF Slot
<1>6. ASSUME NEW g \in Loops, NEW h \in Loops, NEW i \in 1..ConnNum, NEW j \in 1..ConnNum, Slot(g, i) = Slot(h, j)
      PROVE  g = h /\ i = j
  <2>1. g \in Nat /\ h \in Nat /\ g - 1 \in Nat
    BY <1>1 DEF Loops
  <2>2. Slot(g, i) \in Nat /\ Slot(h, j) \in Nat
    <3>1. (g - 1) * ConnNum \in Nat
      BY <1>2, <2>1
    <3>2. QED
      BY <1>2, <1>6, <3>1 DEF Slot
  <2>3. ~(g < h) /\ ~(h < g)
    BY <1>5, <1>6, <2>2
  <2>4. g = h
    BY <2>1, <2>3
  <2>5. (g - 1) * ConnNum \in Nat /\ (g - 1) * ConnNum + i = (g - 1) * ConnNum + j
    BY <1>2, <1>6, <2>1, <2>4 DEF Slot
  <2>6. i = j
    BY <1>2, <2>5
  <2>7. QED
    BY <2>4, <2>6
<1>7. QED
  BY <1>1, <1>2, <1>4, <1>6

LEMMA Added ==
    ASSUME NEW S, IsFiniteSet(S), NEW x, x \notin S
    PROVE  IsFiniteSet(S \cup {x}) /\ Cardinality(S \cup {x}) = Cardinality(S) + 1
BY FS_AddElement

(* One message more on a connection, or fewer messages.                    *)
LEMMA BelowGrows ==
    ASSUME NEW f \in [Conns -> Int], NEW g \in [Conns -> Int], NEW c \in Conns, f[c] >= 0, g[c] = f[c] + 1,
           \A d \in Conns : d # c => g[d] = f[d], IsFiniteSet(Below(f))
    PROVE  IsFiniteSet(Below(g)) /\ Cardinality(Below(g)) = Cardinality(Below(f)) + 1
<1>1. <<c, g[c]>> \notin Below(f)
  BY DEF Below
<1>2. Below(g) = Below(f) \cup {<<c, g[c]>>}
  <2>1. ASSUME NEW p \in Conns \X Nat PROVE p \in Below(g) <=> p \in Below(f) \cup {<<c, g[c]>>}
    <3>1. p[1] \in Conns /\ p[2] \in Nat /\ p = <<p[1], p[2]>>
      OBVIOUS
    <3>2. CASE p[1] = c
      <4>1. p = <<c, g[c]>> <=> p[2] = g[c]
        BY <3>1, <3>2
      <4>2. QED
        BY <3>1, <3>2, <4>1 DEF Below
    <3>3. CASE p[1] # c
      BY <3>1, <3>3 DEF Below
    <3>4. QED
      BY <3>2, <3>3
  <2>2. Below(f) \subseteq Conns \X Nat /\ Below(g) \subseteq Conns \X Nat /\ <<c, g[c]>> \in Conns \X Nat
    BY DEF Below
  <2>3. QED
    BY <2>1, <2>2
<1>3. QED
  BY <1>1, <1>2, Added, Zenon

LEMMA BelowShrinks ==
    ASSUME NEW f \in [Conns -> Int], NEW g \in [Conns -> Int],
           \A d \in Conns : g[d] =< f[d] \/ g[d] =< 0, IsFiniteSet(Below(f))
    PROVE  /\ IsFiniteSet(Below(g)) /\ Cardinality(Below(g)) \in Nat /\ Cardinality(Below(f)) \in Nat
           /\ Cardinality(Below(g)) =< Cardinality(Below(f))
           /\ \A c \in Conns : g[c] < f[c] /\ f[c] > 0 => Cardinality(Below(g)) + 1 =< Cardinality(Below(f))
<1>1. Below(g) \in SUBSET Below(f)
  BY DEF Below
<1>2. IsFiniteSet(Below(g)) /\ Cardinality(Below(g)) =< Cardinality(Below(f))
  BY <1>1, FS_Subset
<1>3. Cardinality(Below(g)) \in Nat /\ Cardinality(Below(f)) \in Nat
  BY <1>2, FS_CardinalityType
<1>4. ASSUME NEW c \in Conns, g[c] < f[c], f[c] > 0 PROVE Cardinality(Below(g)) # Cardinality(Below(f))
  <2>1. <<c, f[c]>> \in Below(f) /\ <<c, f[c]>> \notin Below(g)
    BY <1>4 DEF Below
  <2>2. Below(g) # Below(f)
    BY <2>1
  <2>3. QED
    BY <1>1, <2>2, FS_Subset
<1>5. QED
  BY <1>2, <1>3, <1>4

(* The finite sets of connections and loops that the invariant counts.     *)
LEMMA CountsAreNumbers ==
    ASSUME IInv
    PROVE  /\ IsFiniteSet(Counted) /\ IsFiniteSet(Counting) /\ IsFiniteSet(Waiting)
           /\ Cardinality(Counted) \in Nat /\ Cardinality(Counting) \in Nat /\ Cardinality(Waiting) \in Nat
           /\ Cardinality(Below(Unread)) \in Nat /\ Cardinality(Below(Unserved)) \in Nat
           /\ Successes \in Nat /\ Failures \in Nat /\ Served \in Nat /\ posts \in Nat
           /\ Served = qps + n + total
<1>1. Counted \in SUBSET Conns /\ IsFiniteSet(Conns)
  BY LoopsHaveConns DEF Counted
<1>2. IsFiniteSet(Loops)
  BY FlagsAreNumbers, FS_Interval DEF Loops
<1>3. Counting \in SUBSET Loops /\ Waiting \in SUBSET Loops
  BY DEF Counting, Waiting
<1>4. IsFiniteSet(Counted) /\ IsFiniteSet(Counting) /\ IsFiniteSet(Waiting)
  BY <1>1, <1>2, <1>3, FS_Subset
<1>5. Cardinality(Counted) \in Nat /\ Cardinality(Counting) \in Nat /\ Cardinality(Waiting) \in Nat
  BY <1>4, FS_CardinalityType
<1>6. Cardinality(Below(Unread)) \in Nat /\ Cardinality(Below(Unserved)) \in Nat
  BY FS_CardinalityType DEF IInv, Charged, Posted
<1>7. Successes \in Nat /\ Failures \in Nat /\ posts \in Nat
  BY PostsAreBounded DEF IInv, HttpTypes, ReportTypeOK, Successes, Failures
<1>8. Served = qps + n + total /\ Served \in Nat
  <2>1. {c \in Conns : handler[c] = "echoed"} = {}
    BY DEF IInv, Shape
  <2>2. qps \in Nat /\ n \in Nat /\ total \in Nat
    BY DEF IInv, HttpTypes, ServerTypeOK
  <2>3. QED
    BY <2>1, <2>2, FS_EmptySet DEF Served
<1>9. QED
  BY <1>4, <1>5, <1>6, <1>7, <1>8

LEMMA InitIInv == Init => IInv
<1> SUFFICES ASSUME Init PROVE IInv
  OBVIOUS
<1>1. /\ listening = {} /\ link = [c \in Conns |-> "none"] /\ toServer = [c \in Conns |-> <<>>]
      /\ toClient = [c \in Conns |-> <<>>] /\ handler = [c \in Conns |-> "reading"]
      /\ qps = 0 /\ n = 0 /\ total = 0 /\ protocol = "http"
  BY DEF Init, ServerInit
<1>2. /\ success = 0 /\ failed = 0 /\ nSuccess = 0 /\ nFailed = 0
      /\ totalSuccess = 0 /\ totalFailed = 0 /\ reporting = "ticker"
  BY DEF Init, ReportInit
<1>3. poster = [g \in Loops |-> [at |-> "dial", i |-> 1]] /\ split = [c \in Conns |-> FALSE] /\ posts = 0 /\ crashed = FALSE
  BY DEF Init
<1>4. HttpTypes
  <2>1. ServerTypeOK
    BY <1>1 DEF ServerTypeOK
  <2>2. ReportTypeOK
    BY <1>2 DEF ReportTypeOK
  <2>3. poster \in [Loops -> [at : {"dial", "write", "read", "count"}, i : 1..(ConnNum + 1)]]
    BY <1>3, Shares
  <2>4. split \in [Conns -> BOOLEAN] /\ (\A c \in Conns : ~split[c]) /\ posts \in 0..MaxPosts /\ crashed \in BOOLEAN
    <3>1. posts \in 0..MaxPosts
      BY <1>3, PostsAreBounded
    <3>2. split \in [Conns -> BOOLEAN] /\ (\A c \in Conns : ~split[c]) /\ crashed \in BOOLEAN
      BY <1>3, Zenon
    <3>3. QED
      BY <3>1, <3>2
  <2>5. QED
    BY <2>1, <2>2, <2>3, <2>4 DEF HttpTypes
<1>5. Shape
  BY <1>1, <1>3, Shares DEF Shape
<1>6. Below(Unread) = {} /\ Below(Unserved) = {} /\ Counted = {} /\ Counting = {} /\ Waiting = {}
  <2>1. Len(<<>>) = 0
    OBVIOUS
  <2>2. \A c \in Conns : Unread[c] = 0 /\ Unserved[c] = 0
    BY <1>1, <2>1 DEF Unread, Unserved, InHandler
  <2>3. \A p \in Conns \X Nat : p[1] \in Conns /\ p[2] \in Nat
    OBVIOUS
  <2>4. Below(Unread) = {} /\ Below(Unserved) = {}
    BY <2>2, <2>3 DEF Below
  <2>5. Counted = {} /\ Counting = {} /\ Waiting = {}
    BY <1>1, <1>3 DEF Counted, Counting, Waiting
  <2>6. QED
    BY <2>4, <2>5
<1>7. Served = 0 /\ Successes = 0 /\ Failures = 0
  <2>1. {c \in Conns : handler[c] = "echoed"} = {}
    BY <1>1
  <2>2. QED
    BY <1>1, <1>2, <2>1, FS_EmptySet DEF Served, Successes, Failures
<1>8. Cardinality({}) = 0 /\ IsFiniteSet({})
  BY FS_EmptySet
<1>11. Reporting
  BY <1>2 DEF Reporting
<1>9. Charged /\ Posted
  BY <1>3, <1>6, <1>7, <1>8 DEF Charged, Posted
<1>10. QED
  BY <1>4, <1>5, <1>9, <1>11 DEF IInv
-----------------------------------------------------------------------------
PosterType == [at : {"dial", "write", "read", "count"}, i : 1..(ConnNum + 1)]

(* The parts of the invariant that a step of one loop can disturb.         *)
LoopShape(at, i) == (at # "dial" => ConnNum > 0) /\ (ConnNum > 0 => i =< ConnNum)

LEMMA LoopMoves ==
    ASSUME IInv, NEW g \in Loops, poster' \in [Loops -> PosterType],
           \A h \in Loops : h # g => poster'[h] = poster[h]
    PROVE  /\ Counting' = IF poster'[g].at = "count" THEN Counting \cup {g} ELSE Counting \ {g}
           /\ Waiting' = IF poster'[g].at \in {"read", "count"} THEN Waiting \cup {g} ELSE Waiting \ {g}
           /\ g \in Counting <=> poster[g].at = "count"
           /\ g \in Waiting <=> poster[g].at \in {"read", "count"}
BY DEF Counting, Waiting

(* A loop's own connection is one of the test's.                           *)
LEMMA ItsConnection ==
    ASSUME IInv, NEW g \in Loops, ConnNum > 0
    PROVE  /\ poster[g].i \in 1..ConnNum /\ ConnAt(g) = Slot(g, poster[g].i) /\ ConnAt(g) \in Conns
           /\ (poster[g].i % ConnNum) + 1 \in 1..ConnNum
<1>1. poster[g].i \in 1..ConnNum /\ ConnNum \in Nat
  <2>1. poster \in [Loops -> PosterType]
    BY DEF IInv, HttpTypes, PosterType
  <2>2. poster[g].i \in 1..(ConnNum + 1)
    BY <2>1 DEF PosterType
  <2>3. poster[g].i =< ConnNum
    BY DEF IInv, Shape
  <2>4. QED
    BY <2>2, <2>3, Shares
<1>2. ConnAt(g) = Slot(g, poster[g].i)
  BY DEF ConnAt, Slot
<1>3. (poster[g].i % ConnNum) + 1 \in 1..ConnNum
  BY <1>1
<1>4. QED
  BY <1>1, <1>2, <1>3, Shares

(* The messages of a connection, counted.                                  *)
LEMMA Lengths ==
    ASSUME IInv
    PROVE  /\ Unread \in [Conns -> Int] /\ Unserved \in [Conns -> Int]
           /\ \A c \in Conns : /\ Unread[c] = Len(toClient[c]) /\ Unread[c] \in Nat
                               /\ Unserved[c] = Len(toServer[c]) - InHandler(c) /\ Len(toServer[c]) \in Nat
                               /\ toServer[c] \in Seq(Bodies) /\ toClient[c] \in Seq(Bodies)
                               /\ toServer[c] # <<>> => Len(toServer[c]) > 0
<1>1. \A c \in Conns : toServer[c] \in Seq(Bodies) /\ toClient[c] \in Seq(Bodies)
  BY DEF IInv, HttpTypes, ServerTypeOK
<1>2. \A c \in Conns : Len(toServer[c]) \in Nat /\ Len(toClient[c]) \in Nat
  BY <1>1
<1>3. \A c \in Conns : toServer[c] # <<>> => Len(toServer[c]) > 0
  BY <1>1, EmptySeq
<1>4. QED
  BY <1>1, <1>2, <1>3 DEF Unread, Unserved, InHandler

(* Nothing of the messages, the handlers and the loops changes.            *)
LEMMA QuietStep ==
    ASSUME IInv, HttpTypes', Reporting', UNCHANGED <<protocol, link, toServer, toClient, handler, poster, posts>>,
           Served' = Served, Successes' = Successes, Failures' = Failures
    PROVE  IInv'
<1>1. Shape'
  BY DEF IInv, Shape
<1>2. Below(Unread)' = Below(Unread) /\ Below(Unserved)' = Below(Unserved) /\ Counted' = Counted
      /\ Counting' = Counting /\ Waiting' = Waiting
  BY DEF Below, Unread, Unserved, Counted, Counting, Waiting, InHandler
<1>3. Charged' /\ Posted'
  BY <1>2 DEF IInv, Charged, Posted
<1>4. QED
  BY <1>1, <1>3 DEF IInv

(* The report moves counts, and loses none.                                *)
LEMMA ReportKeepsCounts ==
    ASSUME ReportTypeOK, Reporting
    PROVE  /\ SwapSuccess \/ SwapFailed \/ AddTotals =>
                 ReportTypeOK' /\ Reporting' /\ Successes' = Successes /\ Failures' = Failures
           /\ Succeed => ReportTypeOK' /\ Reporting' /\ Successes' = Successes + 1 /\ Failures' = Failures
           /\ Fail => ReportTypeOK' /\ Reporting' /\ Successes' = Successes /\ Failures' = Failures + 1
           /\ UNCHANGED reportVars => ReportTypeOK' /\ Reporting' /\ Successes' = Successes /\ Failures' = Failures
<1>1. /\ success \in Nat /\ failed \in Nat /\ nSuccess \in Nat /\ nFailed \in Nat
      /\ totalSuccess \in Nat /\ totalFailed \in Nat /\ reporting \in {"ticker", "success", "failed"}
  BY DEF ReportTypeOK
<1>2. SwapSuccess => ReportTypeOK' /\ Reporting' /\ Successes' = Successes /\ Failures' = Failures
  BY <1>1 DEF SwapSuccess, ReportTypeOK, Reporting, Successes, Failures
<1>3. SwapFailed => ReportTypeOK' /\ Reporting' /\ Successes' = Successes /\ Failures' = Failures
  BY <1>1 DEF SwapFailed, ReportTypeOK, Reporting, Successes, Failures
<1>4. AddTotals => ReportTypeOK' /\ Reporting' /\ Successes' = Successes /\ Failures' = Failures
  BY <1>1 DEF AddTotals, ReportTypeOK, Reporting, Successes, Failures
<1>5. Succeed => ReportTypeOK' /\ Reporting' /\ Successes' = Successes + 1 /\ Failures' = Failures
  BY <1>1 DEF Succeed, ReportTypeOK, Reporting, Successes, Failures
<1>6. Fail => ReportTypeOK' /\ Reporting' /\ Successes' = Successes /\ Failures' = Failures + 1
  BY <1>1 DEF Fail, ReportTypeOK, Reporting, Successes, Failures
<1>7. UNCHANGED reportVars => ReportTypeOK' /\ Reporting' /\ Successes' = Successes /\ Failures' = Failures
  BY <1>1 DEF reportVars, ReportTypeOK, Reporting, Successes, Failures
<1>8. QED
  BY <1>2, <1>3, <1>4, <1>5, <1>6, <1>7

(* What a step of the servers leaves alone.                                *)
LEMMA ServersMove ==
    ASSUME IInv, UNCHANGED <<reportVars, httpVars>>
    PROVE  /\ ReportTypeOK' /\ Reporting' /\ Successes' = Successes /\ Failures' = Failures
           /\ Counting' = Counting /\ Waiting' = Waiting
           /\ UNCHANGED <<poster, split, posts, crashed>>
           /\ (ServerTypeOK' /\ \A c \in Conns : split[c] => toClient'[c] # <<>>) => HttpTypes'
<1>1. UNCHANGED <<poster, split, posts, crashed>>
  BY DEF httpVars
<1>2. ReportTypeOK' /\ Reporting' /\ Successes' = Successes /\ Failures' = Failures
  BY ReportKeepsCounts DEF IInv, HttpTypes
<1>3. Counting' = Counting /\ Waiting' = Waiting
  BY <1>1 DEF Counting, Waiting
<1>4. (ServerTypeOK' /\ \A c \in Conns : split[c] => toClient'[c] # <<>>) => HttpTypes'
  BY <1>1, <1>2 DEF IInv, HttpTypes
<1>5. QED
  BY <1>1, <1>2, <1>3, <1>4

(* A server listens, or its report moves what was counted.                 *)
LEMMA QuietServer ==
    ASSUME IInv, UNCHANGED <<reportVars, httpVars>>, (\E addr \in Addrs : Listen(addr)) \/ SwapQps \/ AddTotal
    PROVE  IInv'
<1>1. UNCHANGED <<protocol, link, toServer, toClient, handler>>
  BY DEF Listen, SwapQps, AddTotal, traffic
<1>2. qps \in Nat /\ n \in Nat /\ total \in Nat
  BY DEF IInv, HttpTypes, ServerTypeOK
<1>3. /\ qps' \in Nat /\ n' \in Nat /\ total' \in Nat /\ qps' + n' + total' = qps + n + total
      /\ listening' \subseteq Addrs
  <2>1. listening \subseteq Addrs
    BY DEF IInv, HttpTypes, ServerTypeOK
  <2>2. CASE \E addr \in Addrs : Listen(addr)
    BY <1>2, <2>1, <2>2 DEF Listen, counters
  <2>3. CASE SwapQps
    BY <1>2, <2>1, <2>3 DEF SwapQps
  <2>4. CASE AddTotal
    BY <1>2, <2>1, <2>4 DEF AddTotal
  <2>5. QED
    BY <2>2, <2>3, <2>4
<1>4. Served' = Served
  <2>1. {c \in Conns : handler'[c] = "echoed"} = {} /\ {c \in Conns : handler[c] = "echoed"} = {}
    BY <1>1 DEF IInv, Shape
  <2>2. QED
    BY <1>2, <1>3, <2>1, FS_EmptySet DEF Served
<1>5. ServerTypeOK'
  BY <1>1, <1>3 DEF IInv, HttpTypes, ServerTypeOK
<1>6. HttpTypes'
  <2>1. \A c \in Conns : split[c] => toClient'[c] # <<>>
    BY <1>1 DEF IInv, HttpTypes
  <2>2. QED
    BY <1>5, <2>1, ServersMove
<1>7. QED
  BY <1>1, <1>4, <1>6, ServersMove, QuietStep

(* The server's counters are the requests served, whoever is handling one. *)
LEMMA ServedIsCounted ==
    ASSUME \A c \in Conns : handler[c] # "echoed", qps \in Nat, n \in Nat, total \in Nat
    PROVE  Served = qps + n + total
<1>1. {c \in Conns : handler[c] = "echoed"} = {}
  OBVIOUS
<1>2. QED
  BY <1>1, FS_EmptySet DEF Served

(* The handler of a connection counts a request, answers it or ends.       *)
LEMMA HandlerMoves ==
    ASSUME IInv, UNCHANGED <<reportVars, httpVars>>, NEW c \in Conns, HandlerStep(c)
    PROVE  IInv'
<1>0. HttpTypes /\ Shape /\ Charged /\ Posted
  BY DEF IInv
<1>1. /\ protocol = "http" /\ link \in [Conns -> {"none", "up", "broken"}]
      /\ toServer \in [Conns -> Seq(Bodies)] /\ toClient \in [Conns -> Seq(Bodies)]
      /\ handler \in [Conns -> {"reading", "echoed", "counted", "ended"}]
      /\ qps \in Nat /\ n \in Nat /\ total \in Nat /\ listening \subseteq Addrs
  BY <1>0 DEF HttpTypes, ServerTypeOK, Shape
<1>2. \A d \in Conns : handler[d] # "echoed"
  BY <1>0 DEF Shape
<1>3. Served = qps + n + total
  BY <1>1, <1>2, ServedIsCounted
<1>4. /\ ReportTypeOK' /\ Reporting' /\ Successes' = Successes /\ Failures' = Failures
      /\ Counting' = Counting /\ Waiting' = Waiting /\ UNCHANGED <<poster, split, posts, crashed>>
      /\ (ServerTypeOK' /\ \A d \in Conns : split[d] => toClient'[d] # <<>>) => HttpTypes'
  BY ServersMove
<1>5. \A d \in Conns : split[d] => toClient[d] # <<>>
  BY <1>0 DEF HttpTypes
<1>6. /\ Cardinality(Counted) \in Nat /\ Cardinality(Counting) \in Nat /\ Cardinality(Waiting) \in Nat
      /\ Cardinality(Below(Unread)) \in Nat /\ Cardinality(Below(Unserved)) \in Nat /\ IsFiniteSet(Counted)
      /\ Successes \in Nat /\ Failures \in Nat /\ Served \in Nat /\ posts \in Nat
  BY CountsAreNumbers
<1>7. /\ Unread \in [Conns -> Int] /\ Unserved \in [Conns -> Int]
      /\ \A d \in Conns : /\ Unread[d] = Len(toClient[d]) /\ Unread[d] \in Nat
                          /\ Unserved[d] = Len(toServer[d]) - InHandler(d) /\ Len(toServer[d]) \in Nat
                          /\ toServer[d] # <<>> => Len(toServer[d]) > 0
  BY Lengths
<1>8. CASE HttpCount(c)
  <2>1. /\ link[c] = "up" /\ toServer[c] # <<>> /\ handler[c] = "reading" /\ qps' = qps + 1
        /\ handler' = [handler EXCEPT ![c] = "counted"]
        /\ UNCHANGED <<protocol, listening, link, toServer, toClient, n, total>>
    BY <1>8 DEF HttpCount, HasRequest, Goes, traffic
  <2>2. /\ handler' \in [Conns -> {"reading", "echoed", "counted", "ended"}] /\ handler'[c] = "counted"
        /\ \A d \in Conns : d # c => handler'[d] = handler[d]
    BY <1>1, <2>1
  <2>3. HttpTypes'
    BY <1>1, <1>4, <1>5, <2>1, <2>2 DEF ServerTypeOK
  <2>4. Shape'
    BY <1>0, <1>4, <2>1, <2>2 DEF Shape
  <2>5. Served' = Served + 1
    <3>1. \A d \in Conns : handler'[d] # "echoed"
      BY <1>2, <2>2
    <3>2. Served' = qps' + n' + total'
      <4>1. {d \in Conns : handler'[d] = "echoed"} = {}
        BY <3>1
      <4>2. Cardinality({d \in Conns : handler'[d] = "echoed"}) = 0
        BY <4>1, FS_EmptySet
      <4>3. qps' + n' + total' \in Nat
        BY <1>1, <2>1
      <4>4. QED
        BY <4>2, <4>3 DEF Served
    <3>3. QED
      BY <1>1, <1>3, <2>1, <3>2
  <2>6. Counted' = Counted \cup {c} /\ c \notin Counted
    BY <2>1, <2>2 DEF Counted
  <2>7. Cardinality(Counted)' = Cardinality(Counted) + 1
    BY <1>6, <2>6, FS_AddElement
  <2>8. Unread' = Unread /\ Below(Unread)' = Below(Unread)
    BY <2>1 DEF Unread, Below
  <2>9. /\ Unserved' \in [Conns -> Int] /\ Unserved'[c] < Unserved[c] /\ Unserved[c] > 0
        /\ \A d \in Conns : Unserved'[d] =< Unserved[d]
    <3>1. \A d \in Conns : Unserved'[d] = Len(toServer[d]) - InHandler(d)'
      BY <2>1 DEF Unserved
    <3>2. /\ InHandler(c) = 0 /\ InHandler(c)' = 1
          /\ \A d \in Conns : d # c => InHandler(d)' = InHandler(d)
      BY <2>1, <2>2 DEF InHandler
    <3>3. Unserved' \in [Conns -> Int]
      BY <1>7, <2>1 DEF Unserved, InHandler
    <3>4. \A d \in Conns : d # c => Unserved'[d] = Unserved[d]
      BY <1>7, <3>1, <3>2
    <3>5. Unserved[c] = Len(toServer[c]) - 0 /\ Unserved'[c] = Len(toServer[c]) - 1
          /\ Len(toServer[c]) \in Nat /\ Len(toServer[c]) > 0
      BY <1>7, <2>1, <3>1, <3>2
    <3>6. Unserved'[c] < Unserved[c] /\ Unserved[c] > 0
      BY <3>5
    <3>7. \A d \in Conns : Unserved[d] \in Int
      BY <1>7
    <3>8. QED
      BY <3>3, <3>4, <3>6, <3>7
  <2>10. IsFiniteSet(Below(Unserved')) /\ Cardinality(Below(Unserved')) + 1 =< Cardinality(Below(Unserved))
         /\ Cardinality(Below(Unserved')) \in Nat
    BY <1>0, <1>7, <2>9, BelowShrinks DEF Posted
  <2>11. Below(Unserved)' = Below(Unserved')
    BY DEF Below
  <2>12. Charged'
    BY <1>0, <1>4, <1>6, <2>5, <2>7, <2>8, SMTT(30) DEF Charged
  <2>13. Posted'
    BY <1>0, <1>4, <1>6, <2>1, <2>5, <2>10, <2>11, SMTT(30) DEF Posted
  <2>14. QED
    BY <1>4, <2>3, <2>4, <2>12, <2>13 DEF IInv
<1>9. CASE HttpAnswer(c)
  <2>1. /\ handler[c] = "counted" /\ handler' = [handler EXCEPT ![c] = "reading"]
        /\ UNCHANGED <<protocol, listening, link, qps, n, total>>
        /\ IF link[c] = "up" THEN Answer(c) ELSE UNCHANGED <<toServer, toClient>>
    BY <1>9 DEF HttpAnswer, Goes, traffic, counters, Answer
  <2>2. /\ handler' \in [Conns -> {"reading", "echoed", "counted", "ended"}] /\ handler'[c] = "reading"
        /\ \A d \in Conns : d # c => handler'[d] = handler[d]
    BY <1>1, <2>1
  <2>3. link[c] \in {"up", "broken"}
    BY <1>0, <1>1, <2>1 DEF Shape
  <2>4. Served' = Served
    <3>1. \A d \in Conns : handler'[d] # "echoed"
      BY <1>2, <2>2
    <3>2. {d \in Conns : handler'[d] = "echoed"} = {}
      BY <3>1
    <3>3. QED
      BY <1>1, <1>3, <2>1, <3>2, FS_EmptySet DEF Served
  <2>5. Counted' = Counted \ {c} /\ c \in Counted
    BY <2>1, <2>2 DEF Counted
  <2>6. Cardinality(Counted)' = Cardinality(Counted) - 1
    BY <1>6, <2>5, FS_RemoveElement
  <2>7. Below(Unserved)' = Below(Unserved') /\ Below(Unread)' = Below(Unread')
    BY DEF Below
  <2>8. CASE link[c] = "up"
    <3>1. toServer[c] # <<>> /\ Answer(c) /\ toServer[c] \in Seq(Bodies) /\ toClient[c] \in Seq(Bodies)
      BY <1>0, <1>1, <2>1, <2>8 DEF Shape
    <3>2. /\ Tail(toServer[c]) \in Seq(Bodies) /\ Append(toClient[c], Head(toServer[c])) \in Seq(Bodies)
          /\ Len(Tail(toServer[c])) = Len(toServer[c]) - 1
          /\ Len(Append(toClient[c], Head(toServer[c]))) = Len(toClient[c]) + 1
          /\ Append(toClient[c], Head(toServer[c])) # <<>>
      <4>1. Tail(toServer[c]) \in Seq(Bodies) /\ Len(Tail(toServer[c])) = Len(toServer[c]) - 1 /\ Head(toServer[c]) \in Bodies
        BY <3>1, HeadTailProperties
      <4>2. /\ Append(toClient[c], Head(toServer[c])) \in Seq(Bodies) /\ Append(toClient[c], Head(toServer[c])) # <<>>
            /\ Len(Append(toClient[c], Head(toServer[c]))) = Len(toClient[c]) + 1
        BY <3>1, <4>1, AppendProperties
      <4>3. QED
        BY <4>1, <4>2
    <3>3. /\ toServer' \in [Conns -> Seq(Bodies)] /\ toClient' \in [Conns -> Seq(Bodies)]
          /\ toServer'[c] = Tail(toServer[c]) /\ toClient'[c] = Append(toClient[c], Head(toServer[c]))
          /\ \A d \in Conns : d # c => toServer'[d] = toServer[d] /\ toClient'[d] = toClient[d]
      BY <1>1, <3>1, <3>2 DEF Answer
    <3>4. HttpTypes'
      <4>1. ServerTypeOK'
        BY <1>1, <2>1, <2>2, <3>3 DEF ServerTypeOK
      <4>2. \A d \in Conns : split[d] => toClient'[d] # <<>>
        BY <1>5, <3>2, <3>3
      <4>3. QED
        BY <1>4, <4>1, <4>2
    <3>5. Shape'
      BY <1>0, <1>4, <2>1, <2>2, <2>8, <3>3, ZenonT(40) DEF Shape
    <3>6. Unserved' = Unserved
      <4>1. \A d \in Conns : Len(toServer'[d]) - InHandler(d)' = Len(toServer[d]) - InHandler(d)
        <5>1. \A d \in Conns : d # c => InHandler(d)' = InHandler(d)
          BY <2>2 DEF InHandler
        <5>2. InHandler(c) = 1 /\ InHandler(c)' = 0
          BY <2>1, <2>2 DEF InHandler
        <5>3. \A d \in Conns : d # c => Len(toServer'[d]) - InHandler(d)' = Len(toServer[d]) - InHandler(d)
          BY <3>3, <5>1
        <5>4. Len(toServer'[c]) = Len(toServer[c]) - 1 /\ Len(toServer[c]) \in Nat
          BY <1>7, <3>2, <3>3
        <5>5. Len(toServer'[c]) - InHandler(c)' = Len(toServer[c]) - InHandler(c)
          BY <5>2, <5>4
        <5>6. QED
          BY <5>3, <5>5
      <4>2. QED
        BY <4>1 DEF Unserved
    <3>7. /\ Unread' \in [Conns -> Int] /\ Unread[c] >= 0 /\ Unread'[c] = Unread[c] + 1
          /\ \A d \in Conns : d # c => Unread'[d] = Unread[d]
      <4>1. Unread' \in [Conns -> Int]
        BY <3>3 DEF Unread
      <4>2. \A d \in Conns : Unread'[d] = Len(toClient'[d])
        BY DEF Unread
      <4>3. \A d \in Conns : d # c => Unread'[d] = Unread[d]
        BY <1>7, <3>3, <4>2
      <4>4. Unread'[c] = Unread[c] + 1 /\ Unread[c] >= 0
        BY <1>7, <3>2, <3>3, <4>2
      <4>5. QED
        BY <4>1, <4>3, <4>4
    <3>8. IsFiniteSet(Below(Unread')) /\ Cardinality(Below(Unread')) = Cardinality(Below(Unread)) + 1
      BY <1>0, <1>7, <3>7, BelowGrows DEF Charged
    <3>9. Charged'
      BY <1>0, <1>4, <1>6, <2>4, <2>6, <2>7, <3>8 DEF Charged
    <3>10. Posted'
      BY <1>0, <1>4, <2>1, <2>4, <2>7, <3>6 DEF Posted
    <3>11. QED
      BY <1>4, <3>4, <3>5, <3>9, <3>10 DEF IInv
  <2>9. CASE link[c] = "broken"
    <3>1. toServer' = toServer /\ toClient' = toClient
      BY <2>1, <2>9
    <3>2. HttpTypes'
      BY <1>1, <1>4, <1>5, <2>1, <2>2, <3>1 DEF ServerTypeOK
    <3>3. Shape'
      BY <1>0, <1>4, <2>1, <2>2, <2>9, <3>1 DEF Shape
    <3>4. Unserved' \in [Conns -> Int] /\ \A d \in Conns : Unserved'[d] =< Unserved[d] \/ Unserved'[d] =< 0
      <4>1. \A d \in Conns : Unserved'[d] = Len(toServer[d]) - InHandler(d)'
        BY <3>1 DEF Unserved
      <4>2. InHandler(c)' = 0 /\ \A d \in Conns : d # c => InHandler(d)' = InHandler(d)
        BY <2>2 DEF InHandler
      <4>3. toServer[c] = <<>>
        BY <1>0, <2>9 DEF Shape
      <4>4. Unserved' \in [Conns -> Int]
        BY <1>7, <3>1 DEF Unserved, InHandler
      <4>5. Len(<<>>) = 0
        OBVIOUS
      <4>6. \A d \in Conns : d # c => Unserved'[d] = Unserved[d]
        BY <1>7, <4>1, <4>2
      <4>7. Unserved'[c] = 0
        BY <4>1, <4>2, <4>3, <4>5
      <4>8. \A d \in Conns : Unserved[d] \in Int
        BY <1>7
      <4>9. QED
        BY <4>4, <4>6, <4>7, <4>8
    <3>5. IsFiniteSet(Below(Unserved'))
      BY <1>0, <1>7, <3>4, BelowShrinks DEF Posted
    <3>6. Posted'
      BY <2>1, <2>7, <2>9, <3>5 DEF Posted
    <3>7. Below(Unread)' = Below(Unread)
      BY <3>1 DEF Below, Unread
    <3>8. Charged'
      BY <1>0, <1>4, <1>6, <2>4, <2>6, <3>7, SMTT(30) DEF Charged
    <3>9. QED
      BY <1>4, <3>2, <3>3, <3>6, <3>8 DEF IInv
  <2>10. QED
    BY <2>3, <2>8, <2>9
<1>10. CASE HandlerEnds(c)
  <2>1. /\ link[c] = "broken" /\ handler[c] = "reading" /\ handler' = [handler EXCEPT ![c] = "ended"]
        /\ UNCHANGED <<protocol, listening, link, toServer, toClient, qps, n, total>>
    BY <1>10 DEF HandlerEnds, Goes, traffic, counters
  <2>2. /\ handler' \in [Conns -> {"reading", "echoed", "counted", "ended"}] /\ handler'[c] = "ended"
        /\ \A d \in Conns : d # c => handler'[d] = handler[d]
    BY <1>1, <2>1
  <2>3. HttpTypes'
    BY <1>1, <1>4, <1>5, <2>1, <2>2 DEF ServerTypeOK
  <2>4. Shape'
    BY <1>0, <1>4, <2>1, <2>2 DEF Shape
  <2>5. Served' = Served
    <3>1. {d \in Conns : handler'[d] = "echoed"} = {}
      BY <1>2, <2>2
    <3>2. QED
      BY <1>1, <1>3, <2>1, <3>1, FS_EmptySet DEF Served
  <2>6. Counted' = Counted /\ \A d \in Conns : InHandler(d)' = InHandler(d)
    BY <2>1, <2>2 DEF Counted, InHandler
  <2>7. Below(Unread)' = Below(Unread) /\ Below(Unserved)' = Below(Unserved)
    BY <2>1, <2>6 DEF Below, Unread, Unserved
  <2>8. Charged' /\ Posted'
    BY <1>0, <1>4, <2>1, <2>5, <2>6, <2>7 DEF Charged, Posted
  <2>9. QED
    BY <1>4, <2>3, <2>4, <2>8 DEF IInv
<1>11. ~WsEcho(c) /\ ~WsCount(c)
  BY <1>1, <1>2 DEF WsEcho, WsCount, Goes
<1>12. QED
  BY <1>8, <1>9, <1>10, <1>11 DEF HandlerStep

(* A connection breaks, and a part that was read with it is forgotten.     *)
LEMMA DropStep ==
    ASSUME IInv, NEW c \in Conns, Drop(c), UNCHANGED reportVars
    PROVE  IInv'
<1>0. HttpTypes /\ Shape /\ Reporting /\ Charged /\ Posted
  BY DEF IInv
<1>1. /\ link[c] = "up" /\ link' = [link EXCEPT ![c] = "broken"]
      /\ toServer' = [toServer EXCEPT ![c] = <<>>] /\ toClient' = [toClient EXCEPT ![c] = <<>>]
      /\ split' = [split EXCEPT ![c] = FALSE]
      /\ UNCHANGED <<protocol, listening, handler, qps, n, total, poster, posts, crashed>>
  BY DEF Drop, Break, counters
<1>2. /\ link \in [Conns -> {"none", "up", "broken"}] /\ split \in [Conns -> BOOLEAN]
      /\ toServer \in [Conns -> Seq(Bodies)] /\ toClient \in [Conns -> Seq(Bodies)]
  BY <1>0 DEF HttpTypes, ServerTypeOK
<1>3. <<>> \in Seq(Bodies)
  OBVIOUS
<1>4. /\ link' \in [Conns -> {"none", "up", "broken"}] /\ link'[c] = "broken"
      /\ toServer' \in [Conns -> Seq(Bodies)] /\ toServer'[c] = <<>>
      /\ toClient' \in [Conns -> Seq(Bodies)] /\ toClient'[c] = <<>>
      /\ \A d \in Conns : d # c => link'[d] = link[d] /\ toServer'[d] = toServer[d] /\ toClient'[d] = toClient[d]
  BY <1>1, <1>2, <1>3
<1>5. split' \in [Conns -> BOOLEAN] /\ ~split'[c] /\ \A d \in Conns : d # c => (split'[d] <=> split[d])
  BY <1>1, <1>2, Zenon
<1>6. ReportTypeOK' /\ Reporting' /\ Successes' = Successes /\ Failures' = Failures
  BY <1>0, ReportKeepsCounts DEF HttpTypes
<1>7. HttpTypes'
  <2>1. ServerTypeOK'
    BY <1>0, <1>1, <1>4 DEF HttpTypes, ServerTypeOK
  <2>2. \A d \in Conns : split'[d] => toClient'[d] # <<>>
    BY <1>0, <1>4, <1>5 DEF HttpTypes
  <2>3. QED
    BY <1>0, <1>1, <1>5, <1>6, <2>1, <2>2 DEF HttpTypes
<1>8. Shape'
  <2>1. \A d \in Conns : link'[d] = "none" <=> link[d] = "none"
    BY <1>1, <1>4
  <2>2. \A g \in Loops : poster[g].at = "dial" =>
           \A j \in 1..ConnNum : poster[g].i =< j => link'[Slot(g, j)] = "none"
    BY <1>0, <2>1, Shares DEF Shape
  <2>3. \A d \in Conns : /\ handler[d] # "echoed"
                         /\ link'[d] = "none" => handler[d] = "reading"
                         /\ link'[d] = "up" /\ handler[d] = "counted" => toServer'[d] # <<>>
                         /\ link'[d] = "broken" => toServer'[d] = <<>>
    BY <1>0, <1>4, <2>1 DEF Shape
  <2>4. QED
    BY <1>0, <1>1, <2>2, <2>3 DEF Shape
<1>9. Served' = Served /\ Counted' = Counted /\ Counting' = Counting /\ Waiting' = Waiting
  BY <1>1 DEF Served, Counted, Counting, Waiting
<1>10. /\ Unread \in [Conns -> Int] /\ Unserved \in [Conns -> Int]
       /\ \A d \in Conns : /\ Unread[d] = Len(toClient[d]) /\ Unread[d] \in Nat
                           /\ Unserved[d] = Len(toServer[d]) - InHandler(d) /\ Len(toServer[d]) \in Nat
  BY Lengths
<1>11. /\ Unread' \in [Conns -> Int] /\ Unserved' \in [Conns -> Int]
       /\ \A d \in Conns : Unread'[d] =< Unread[d] \/ Unread'[d] =< 0
       /\ \A d \in Conns : Unserved'[d] =< Unserved[d] \/ Unserved'[d] =< 0
  <2>1. \A d \in Conns : Len(toServer'[d]) \in Nat /\ Len(toClient'[d]) \in Nat /\ InHandler(d)' = InHandler(d)
                         /\ InHandler(d) \in {0, 1}
    BY <1>1, <1>4 DEF InHandler
  <2>2. \A d \in Conns : Unread'[d] = Len(toClient'[d]) /\ Unserved'[d] = Len(toServer'[d]) - InHandler(d)
    BY <2>1 DEF Unread, Unserved
  <2>3. Unread' \in [Conns -> Int] /\ Unserved' \in [Conns -> Int]
    BY <2>1 DEF Unread, Unserved
  <2>4. Len(<<>>) = 0
    OBVIOUS
  <2>5. Unread'[c] =< 0 /\ Unserved'[c] =< 0
    <3>1. Unread'[c] = 0
      BY <1>4, <2>2, <2>4
    <3>2. Unserved'[c] = 0 - InHandler(c) /\ InHandler(c) \in {0, 1}
      BY <1>4, <2>1, <2>2, <2>4
    <3>3. QED
      BY <3>1, <3>2
  <2>6. \A d \in Conns : d # c => Unread'[d] = Unread[d] /\ Unserved'[d] = Unserved[d]
    <3>1. ASSUME NEW d \in Conns, d # c PROVE Unread'[d] = Unread[d] /\ Unserved'[d] = Unserved[d]
      <4>1. toServer'[d] = toServer[d] /\ toClient'[d] = toClient[d]
        BY <1>4, <3>1
      <4>2. Unread'[d] = Len(toClient'[d]) /\ Unserved'[d] = Len(toServer'[d]) - InHandler(d)
        BY <2>2
      <4>3. Unread[d] = Len(toClient[d]) /\ Unserved[d] = Len(toServer[d]) - InHandler(d)
        BY <1>10
      <4>4. QED
        BY <4>1, <4>2, <4>3, Zenon
    <3>2. QED
      BY <3>1
  <2>7. \A d \in Conns : Unread[d] \in Int /\ Unserved[d] \in Int
    BY <1>10
  <2>8. QED
    BY <2>3, <2>5, <2>6, <2>7
<1>12. IsFiniteSet(Below(Unread')) /\ Cardinality(Below(Unread')) \in Nat /\ Cardinality(Below(Unread)) \in Nat
       /\ Cardinality(Below(Unread')) =< Cardinality(Below(Unread))
  BY <1>0, <1>10, <1>11, BelowShrinks DEF Charged
<1>13. IsFiniteSet(Below(Unserved'))
  BY <1>0, <1>10, <1>11, BelowShrinks DEF Posted
<1>14. Below(Unserved)' = Below(Unserved') /\ Below(Unread)' = Below(Unread')
  BY DEF Below
<1>15. /\ Cardinality(Counted) \in Nat /\ Cardinality(Counting) \in Nat
       /\ Successes \in Nat /\ Failures \in Nat /\ Served \in Nat
  BY CountsAreNumbers
<1>16. Charged'
  BY <1>0, <1>6, <1>9, <1>12, <1>14, <1>15 DEF Charged
<1>17. Posted'
  BY <1>4, <1>13, <1>14 DEF Posted
<1>18. QED
  BY <1>6, <1>7, <1>8, <1>16, <1>17 DEF IInv

(* A loop dials its next connection.                                       *)
LEMMA DialStep ==
    ASSUME IInv, NEW g \in Loops, Dial(g)
    PROVE  IInv'
<1>0. HttpTypes /\ Shape /\ Reporting /\ Charged /\ Posted
  BY DEF IInv
<1> DEFINE c == ConnAt(g)
<1>1. /\ poster[g].at = "dial" /\ ConnNum > 0 /\ link' = [link EXCEPT ![c] = "up"]
      /\ poster' = [poster EXCEPT ![g] = IF @.i = ConnNum THEN [at |-> "write", i |-> 1]
                                             ELSE [at |-> "dial", i |-> @.i + 1]]
      /\ UNCHANGED <<protocol, listening, toServer, toClient, handler, qps, n, total, reportVars, split, posts, crashed>>
  BY DEF Dial, PosterAt, counters
<1>2. /\ poster[g].i \in 1..ConnNum /\ c = Slot(g, poster[g].i) /\ c \in Conns
  BY <1>1, ItsConnection
<1> HIDE DEF c
<1>3. link[c] = "none" /\ ConnNum \in Nat
  BY <1>0, <1>1, <1>2, Shares DEF Shape
<1>4. handler[c] = "reading"
  BY <1>0, <1>2, <1>3 DEF Shape
<1>5. poster \in [Loops -> PosterType] /\ link \in [Conns -> {"none", "up", "broken"}]
  BY <1>0 DEF HttpTypes, ServerTypeOK, PosterType
<1>6. /\ link' \in [Conns -> {"none", "up", "broken"}] /\ link'[c] = "up" /\ \A d \in Conns : d # c => link'[d] = link[d]
  BY <1>1, <1>2, <1>5
<1>7. /\ poster' \in [Loops -> PosterType] /\ \A h \in Loops : h # g => poster'[h] = poster[h]
      /\ poster'[g].i =< ConnNum /\ poster'[g].at \in {"dial", "write"}
      /\ poster'[g].at = "dial" => poster'[g].i = poster[g].i + 1
  <2>1. poster[g] \in PosterType
    BY <1>5
  <2>2. CASE poster[g].i = ConnNum
    <3>1. [at |-> "write", i |-> 1] \in PosterType
      BY <1>3 DEF PosterType
    <3>2. poster' = [poster EXCEPT ![g] = [at |-> "write", i |-> 1]]
      BY <1>1, <2>2
    <3>3. QED
      BY <1>1, <1>3, <1>5, <3>1, <3>2
  <2>3. CASE poster[g].i # ConnNum
    <3>1. [at |-> "dial", i |-> poster[g].i + 1] \in PosterType /\ poster[g].i + 1 =< ConnNum
      BY <1>2, <1>3, <2>1, <2>3 DEF PosterType
    <3>2. poster' = [poster EXCEPT ![g] = [at |-> "dial", i |-> poster[g].i + 1]]
      BY <1>1, <2>3
    <3>3. QED
      BY <1>5, <3>1, <3>2
  <2>4. QED
    BY <2>2, <2>3
<1>8. ReportTypeOK' /\ Reporting' /\ Successes' = Successes /\ Failures' = Failures
  BY <1>0, <1>1, ReportKeepsCounts DEF HttpTypes
<1>9. HttpTypes'
  <2>1. ServerTypeOK'
    BY <1>0, <1>1, <1>6 DEF HttpTypes, ServerTypeOK
  <2>2. QED
    BY <1>0, <1>1, <1>7, <1>8, <2>1 DEF HttpTypes, PosterType
<1>10. Shape'
  <2>1. ASSUME NEW h \in Loops, poster'[h].at = "dial", NEW j \in 1..ConnNum, poster'[h].i =< j
        PROVE  link'[Slot(h, j)] = "none"
    <3>1. Slot(h, j) \in Conns
      BY Shares
    <3>2. link[Slot(h, j)] = "none" /\ Slot(h, j) # c
      <4>1. CASE h = g
        <5>1. poster[g].i =< j /\ poster[g].i # j
          BY <1>2, <1>3, <1>7, <2>1, <4>1
        <5>2. QED
          BY <1>0, <1>1, <1>2, <4>1, <5>1, Shares DEF Shape
      <4>2. CASE h # g
        BY <1>0, <1>2, <1>7, <2>1, <4>2, Shares DEF Shape
      <4>3. QED
        BY <4>1, <4>2
    <3>3. QED
      BY <1>6, <3>1, <3>2
  <2>2. \A h \in Loops : (poster'[h].at # "dial" => ConnNum > 0) /\ (ConnNum > 0 => poster'[h].i =< ConnNum)
    BY <1>0, <1>1, <1>7 DEF Shape
  <2>3. \A d \in Conns : /\ handler[d] # "echoed"
                         /\ link'[d] = "none" => handler[d] = "reading"
                         /\ link'[d] = "up" /\ handler[d] = "counted" => toServer[d] # <<>>
                         /\ link'[d] = "broken" => toServer[d] = <<>>
    BY <1>0, <1>4, <1>6 DEF Shape
  <2>4. protocol' = "http"
    BY <1>0, <1>1 DEF Shape
  <2>5. QED
    BY <1>1, <2>1, <2>2, <2>3, <2>4 DEF Shape
<1>11. Counting' = Counting /\ Waiting' = Waiting
  <2>1. Counting' = Counting \ {g} /\ Waiting' = Waiting \ {g} /\ g \notin Counting /\ g \notin Waiting
    BY <1>1, <1>7, LoopMoves
  <2>2. QED
    BY <2>1, Zenon
<1>12. Served' = Served /\ Counted' = Counted /\ Below(Unread)' = Below(Unread) /\ Below(Unserved)' = Below(Unserved)
  BY <1>1 DEF Served, Counted, Below, Unread, Unserved, InHandler
<1>13. Charged'
  BY <1>0, <1>8, <1>11, <1>12 DEF Charged
<1>14. Posted'
  <2>1. (\A d \in Conns : link'[d] # "broken") => \A d \in Conns : link[d] # "broken"
    BY <1>3, <1>6
  <2>2. QED
    BY <1>0, <1>1, <1>8, <1>11, <1>12, <2>1 DEF Posted
<1>15. QED
  BY <1>8, <1>9, <1>10, <1>13, <1>14 DEF IInv

(* A post writes its request.                                              *)
LEMMA PostWriteStep ==
    ASSUME IInv, NEW g \in Loops, PostWrite(g)
    PROVE  IInv'
<1>0. HttpTypes /\ Shape /\ Reporting /\ Charged /\ Posted
  BY DEF IInv
<1> DEFINE c == ConnAt(g)
<1>1. /\ poster[g].at = "write" /\ posts < MaxPosts /\ link[c] = "up"
      /\ toServer' = [toServer EXCEPT ![c] = Append(@, hello)]
      /\ poster' = [poster EXCEPT ![g].at = "read"] /\ posts' = posts + 1
      /\ UNCHANGED <<protocol, listening, link, toClient, handler, qps, n, total, reportVars, split, crashed>>
  BY DEF PostWrite, PosterAt, counters
<1>2. ConnNum > 0 /\ c \in Conns
  <2>1. ConnNum > 0
    BY <1>0, <1>1 DEF Shape
  <2>2. QED
    BY <2>1, ItsConnection
<1> HIDE DEF c
<1>3. /\ poster \in [Loops -> PosterType] /\ toServer \in [Conns -> Seq(Bodies)] /\ hello \in Bodies
      /\ toServer[c] \in Seq(Bodies) /\ posts \in 0..MaxPosts
  BY <1>0, <1>2, LoopsHaveConns DEF HttpTypes, ServerTypeOK, PosterType, hello
<1>4. Append(toServer[c], hello) \in Seq(Bodies) /\ Append(toServer[c], hello) # <<>>
      /\ Len(Append(toServer[c], hello)) = Len(toServer[c]) + 1
  BY <1>3, AppendProperties
<1>5. /\ toServer' \in [Conns -> Seq(Bodies)] /\ toServer'[c] = Append(toServer[c], hello)
      /\ \A d \in Conns : d # c => toServer'[d] = toServer[d]
  BY <1>1, <1>2, <1>3, <1>4
<1>6. /\ poster' \in [Loops -> PosterType] /\ poster'[g].at = "read" /\ poster'[g].i = poster[g].i
      /\ \A h \in Loops : h # g => poster'[h] = poster[h]
  BY <1>1, <1>3 DEF PosterType
<1>7. ReportTypeOK' /\ Reporting' /\ Successes' = Successes /\ Failures' = Failures
  BY <1>0, <1>1, ReportKeepsCounts DEF HttpTypes
<1>8. posts' \in 0..MaxPosts
  BY <1>1, <1>3, PostsAreBounded
<1>9. HttpTypes'
  <2>1. ServerTypeOK'
    BY <1>0, <1>1, <1>5 DEF HttpTypes, ServerTypeOK
  <2>2. QED
    BY <1>0, <1>1, <1>6, <1>7, <1>8, <2>1 DEF HttpTypes, PosterType
<1>10. Shape'
  <2>1. \A h \in Loops : /\ poster'[h].at # "dial" => ConnNum > 0
                         /\ ConnNum > 0 => poster'[h].i =< ConnNum
                         /\ poster'[h].at = "dial" =>
                               \A j \in 1..ConnNum : poster'[h].i =< j => link[Slot(h, j)] = "none"
    BY <1>0, <1>2, <1>6 DEF Shape
  <2>2. \A d \in Conns : /\ handler[d] # "echoed"
                         /\ link[d] = "none" => handler[d] = "reading"
                         /\ link[d] = "up" /\ handler[d] = "counted" => toServer'[d] # <<>>
                         /\ link[d] = "broken" => toServer'[d] = <<>>
    BY <1>0, <1>1, <1>4, <1>5 DEF Shape
  <2>3. QED
    BY <1>0, <1>1, <2>1, <2>2 DEF Shape
<1>11. Counting' = Counting /\ Waiting' = Waiting \cup {g} /\ g \notin Waiting
  <2>1. Counting' = Counting \ {g} /\ Waiting' = Waiting \cup {g} /\ g \notin Counting /\ g \notin Waiting
    BY <1>1, <1>6, LoopMoves
  <2>2. QED
    BY <2>1, Zenon
<1>12. /\ IsFiniteSet(Waiting) /\ Cardinality(Waiting) \in Nat /\ Successes \in Nat /\ Served \in Nat
       /\ Cardinality(Below(Unserved)) \in Nat /\ posts \in Nat
  BY CountsAreNumbers
<1>13. Cardinality(Waiting)' = Cardinality(Waiting) + 1
  BY <1>11, <1>12, FS_AddElement
<1>14. Served' = Served /\ Counted' = Counted /\ Below(Unread)' = Below(Unread)
  BY <1>1 DEF Served, Counted, Below, Unread
<1>15. Charged'
  BY <1>0, <1>7, <1>11, <1>14 DEF Charged
<1>16. /\ Unserved \in [Conns -> Int] /\ Unserved' \in [Conns -> Int] /\ Unserved[c] >= 0
       /\ Unserved'[c] = Unserved[c] + 1 /\ \A d \in Conns : d # c => Unserved'[d] = Unserved[d]
  <2>1. /\ Unserved \in [Conns -> Int]
        /\ \A d \in Conns : /\ Unserved[d] = Len(toServer[d]) - InHandler(d) /\ Len(toServer[d]) \in Nat
                            /\ toServer[d] # <<>> => Len(toServer[d]) > 0
    BY Lengths
  <2>2. \A d \in Conns : Unserved'[d] = Len(toServer'[d]) - InHandler(d)
    BY <1>1 DEF Unserved, InHandler
  <2>3. Unserved' \in [Conns -> Int]
    <3>1. \A d \in Conns : Len(toServer'[d]) \in Nat
      BY <1>5
    <3>2. \A d \in Conns : Len(toServer'[d]) - InHandler(d)' \in Int
      BY <3>1 DEF InHandler
    <3>3. QED
      BY <3>2 DEF Unserved
  <2>4. InHandler(c) \in {0, 1} /\ (InHandler(c) = 1 => toServer[c] # <<>>)
    BY <1>0, <1>1, <1>2 DEF InHandler, Shape
  <2>5. Unserved[c] >= 0 /\ Unserved'[c] = Unserved[c] + 1
    BY <1>2, <1>4, <1>5, <2>1, <2>2, <2>4
  <2>6. \A d \in Conns : d # c => Unserved'[d] = Unserved[d]
    BY <1>5, <2>1, <2>2
  <2>7. QED
    BY <2>1, <2>3, <2>5, <2>6
<1>17. IsFiniteSet(Below(Unserved')) /\ Cardinality(Below(Unserved')) = Cardinality(Below(Unserved)) + 1
  BY <1>0, <1>2, <1>16, BelowGrows DEF Posted
<1>18. Below(Unserved)' = Below(Unserved')
  BY DEF Below
<1>19. Posted'
  BY <1>0, <1>1, <1>7, <1>12, <1>13, <1>14, <1>17, <1>18 DEF Posted
<1>20. QED
  BY <1>7, <1>9, <1>10, <1>15, <1>19 DEF IInv

(* What the steps of a post that are no writes leave alone.                *)
LEMMA PostMoves ==
    ASSUME IInv, NEW g \in Loops, ConnNum > 0, poster[g].at # "dial",
           UNCHANGED <<protocol, listening, link, toServer, handler, qps, n, total>>,
           poster' \in [Loops -> PosterType], poster'[g].at # "dial", poster'[g].i =< ConnNum,
           \A h \in Loops : h # g => poster'[h] = poster[h]
    PROVE  Shape' /\ Served' = Served /\ Counted' = Counted /\ Below(Unserved)' = Below(Unserved)
<1>1. /\ protocol = "http"
      /\ \A c \in Conns : /\ handler[c] # "echoed"
                          /\ link[c] = "none" => handler[c] = "reading"
                          /\ link[c] = "up" /\ handler[c] = "counted" => toServer[c] # <<>>
                          /\ link[c] = "broken" => toServer[c] = <<>>
      /\ \A h \in Loops : /\ poster[h].at # "dial" => ConnNum > 0
                          /\ ConnNum > 0 => poster[h].i =< ConnNum
                          /\ poster[h].at = "dial" =>
                               \A j \in 1..ConnNum : poster[h].i =< j => link[Slot(h, j)] = "none"
  BY DEF IInv, Shape
<1>2. \A h \in Loops : /\ poster'[h].at # "dial" => ConnNum > 0
                       /\ ConnNum > 0 => poster'[h].i =< ConnNum
                       /\ poster'[h].at = "dial" =>
                               \A j \in 1..ConnNum : poster'[h].i =< j => link[Slot(h, j)] = "none"
  BY <1>1
<1>3. Shape'
  BY <1>1, <1>2 DEF Shape
<1>4. Served' = Served /\ Counted' = Counted /\ Below(Unserved)' = Below(Unserved)
  BY DEF Served, Counted, Below, Unserved, InHandler
<1>5. QED
  BY <1>3, <1>4

(* Where a loop goes when a post returns.                                  *)
LEMMA GoesOn ==
    ASSUME IInv, NEW g \in Loops, poster[g].at # "dial", NextConn(g)
    PROVE  /\ poster' \in [Loops -> PosterType] /\ poster'[g].at = "write" /\ poster'[g].i =< ConnNum
           /\ \A h \in Loops : h # g => poster'[h] = poster[h]
<1>1. ConnNum > 0
  BY DEF IInv, Shape
<1>2. (poster[g].i % ConnNum) + 1 \in 1..ConnNum /\ ConnNum \in Nat
  BY <1>1, ItsConnection, Shares
<1> DEFINE r == [at |-> "write", i |-> (poster[g].i % ConnNum) + 1]
<1>3. r \in PosterType /\ r.at = "write" /\ r.i =< ConnNum
  BY <1>2 DEF PosterType
<1>4. poster' = [poster EXCEPT ![g] = r]
  BY DEF NextConn
<1> HIDE DEF r
<1>5. poster \in [Loops -> PosterType]
  BY DEF IInv, HttpTypes, PosterType
<1>6. QED
  BY <1>3, <1>4, <1>5

(* A post fails to write, or is told of a failure by Read, or counts its   *)
(* success.                                                                *)
LEMMA PostCounts ==
    ASSUME IInv, NEW g \in Loops, PostWriteFails(g) \/ PostReadFails(g) \/ PostSucceeds(g)
    PROVE  IInv'
<1>0. HttpTypes /\ Shape /\ Reporting /\ Charged /\ Posted
  BY DEF IInv
<1>1. UNCHANGED <<protocol, listening, link, toServer, toClient, handler, qps, n, total, split, crashed>>
  BY DEF PostWriteFails, PostReadFails, PostSucceeds, serverVars, traffic, counters
<1>2. poster[g].at # "dial" /\ poster \in [Loops -> PosterType]
  BY <1>0 DEF PostWriteFails, PostReadFails, PostSucceeds, PosterAt, Reads, HttpTypes, PosterType
<1>3. ConnNum > 0 /\ poster[g].i =< ConnNum
  BY <1>0, <1>2 DEF Shape
<1>4. ConnAt(g) \in Conns
  BY <1>3, ItsConnection
<1>5. /\ Cardinality(Counted) \in Nat /\ Cardinality(Counting) \in Nat /\ Cardinality(Waiting) \in Nat
      /\ Cardinality(Below(Unread)) \in Nat /\ Cardinality(Below(Unserved)) \in Nat
      /\ IsFiniteSet(Counting) /\ IsFiniteSet(Waiting)
      /\ Successes \in Nat /\ Failures \in Nat /\ Served \in Nat /\ posts \in Nat
  BY CountsAreNumbers
<1>6. Below(Unread)' = Below(Unread)
  BY <1>1 DEF Below, Unread
<1>7. ServerTypeOK'
  BY <1>0, <1>1 DEF HttpTypes, ServerTypeOK
<1>8. CASE PostWriteFails(g)
  <2>1. poster[g].at = "write" /\ posts < MaxPosts /\ link[ConnAt(g)] = "broken" /\ Fail /\ NextConn(g) /\ posts' = posts + 1
    BY <1>8 DEF PostWriteFails, PosterAt
  <2>2. ReportTypeOK' /\ Reporting' /\ Successes' = Successes /\ Failures' = Failures + 1
    BY <1>0, <2>1, ReportKeepsCounts DEF HttpTypes
  <2>3. /\ poster' \in [Loops -> PosterType] /\ poster'[g].at = "write" /\ poster'[g].i =< ConnNum
        /\ \A h \in Loops : h # g => poster'[h] = poster[h]
    BY <1>2, <2>1, GoesOn
  <2>4. Shape' /\ Served' = Served /\ Counted' = Counted /\ Below(Unserved)' = Below(Unserved)
    BY <1>1, <1>2, <1>3, <2>3, PostMoves
  <2>5. Counting' = Counting
    <3>1. Counting' = Counting \ {g} /\ g \notin Counting
      BY <2>1, <2>3, LoopMoves
    <3>2. QED
      BY <3>1, Zenon
  <2>6. posts' \in 0..MaxPosts
    BY <1>5, <2>1, PostsAreBounded
  <2>7. HttpTypes'
    BY <1>0, <1>1, <1>7, <2>2, <2>3, <2>6 DEF HttpTypes, PosterType
  <2>8. Charged'
    BY <1>0, <1>5, <1>6, <2>2, <2>4, <2>5 DEF Charged
  <2>9. Posted'
    BY <1>0, <1>1, <1>4, <2>1, <2>4 DEF Posted
  <2>10. QED
    BY <2>2, <2>4, <2>7, <2>8, <2>9 DEF IInv
<1>9. CASE PostReadFails(g)
  <2>1. poster[g].at = "read" /\ poster' = [poster EXCEPT ![g].at = "count"] /\ Fail /\ posts' = posts
    BY <1>9 DEF PostReadFails, Reads, PosterAt
  <2>2. ReportTypeOK' /\ Reporting' /\ Successes' = Successes /\ Failures' = Failures + 1
    BY <1>0, <2>1, ReportKeepsCounts DEF HttpTypes
  <2>3. /\ poster' \in [Loops -> PosterType] /\ poster'[g].at = "count" /\ poster'[g].i = poster[g].i
        /\ \A h \in Loops : h # g => poster'[h] = poster[h]
    BY <1>2, <2>1 DEF PosterType
  <2>4. Shape' /\ Served' = Served /\ Counted' = Counted /\ Below(Unserved)' = Below(Unserved)
    BY <1>1, <1>2, <1>3, <2>3, PostMoves
  <2>5. Counting' = Counting \cup {g} /\ g \notin Counting /\ Waiting' = Waiting
    <3>1. Counting' = Counting \cup {g} /\ g \notin Counting /\ Waiting' = Waiting \cup {g} /\ g \in Waiting
      BY <2>1, <2>3, LoopMoves
    <3>2. QED
      BY <3>1, Zenon
  <2>6. Cardinality(Counting)' = Cardinality(Counting) + 1
    BY <1>5, <2>5, FS_AddElement
  <2>7. HttpTypes'
    BY <1>0, <1>1, <1>7, <2>1, <2>2, <2>3 DEF HttpTypes, PosterType
  <2>8. Charged'
    BY <1>0, <1>5, <1>6, <2>2, <2>4, <2>6 DEF Charged
  <2>9. Posted'
    BY <1>0, <1>1, <2>1, <2>2, <2>4, <2>5 DEF Posted
  <2>10. QED
    BY <2>2, <2>4, <2>7, <2>8, <2>9 DEF IInv
<1>10. CASE PostSucceeds(g)
  <2>1. poster[g].at = "count" /\ Succeed /\ NextConn(g) /\ posts' = posts
    BY <1>10 DEF PostSucceeds, PosterAt
  <2>2. ReportTypeOK' /\ Reporting' /\ Successes' = Successes + 1 /\ Failures' = Failures
    BY <1>0, <2>1, ReportKeepsCounts DEF HttpTypes
  <2>3. /\ poster' \in [Loops -> PosterType] /\ poster'[g].at = "write" /\ poster'[g].i =< ConnNum
        /\ \A h \in Loops : h # g => poster'[h] = poster[h]
    BY <1>2, <2>1, GoesOn
  <2>4. Shape' /\ Served' = Served /\ Counted' = Counted /\ Below(Unserved)' = Below(Unserved)
    BY <1>1, <1>2, <1>3, <2>3, PostMoves
  <2>5. Counting' = Counting \ {g} /\ g \in Counting /\ Waiting' = Waiting \ {g} /\ g \in Waiting
    BY <2>1, <2>3, LoopMoves
  <2>6. Cardinality(Counting)' = Cardinality(Counting) - 1 /\ Cardinality(Waiting)' = Cardinality(Waiting) - 1
    BY <1>5, <2>5, FS_RemoveElement
  <2>7. HttpTypes'
    BY <1>0, <1>1, <1>7, <2>1, <2>2, <2>3 DEF HttpTypes, PosterType
  <2>8. Charged'
    BY <1>0, <1>5, <1>6, <2>2, <2>4, <2>6 DEF Charged
  <2>9. Posted'
    BY <1>0, <1>1, <1>5, <2>1, <2>2, <2>4, <2>6 DEF Posted
  <2>10. QED
    BY <2>2, <2>4, <2>7, <2>8, <2>9 DEF IInv
<1>11. QED
  BY <1>8, <1>9, <1>10

(* A Read takes whole answers, at least one unless it counts a failure.    *)
LEMMA PostReadStep ==
    ASSUME IInv, NEW g \in Loops, NEW k \in Nat, NEW part \in BOOLEAN, PostRead(g, k, part)
    PROVE  IInv'
<1>0. HttpTypes /\ Shape /\ Reporting /\ Charged /\ Posted
  BY DEF IInv
<1> DEFINE c == ConnAt(g)
<1>1. /\ poster[g].at = "read" /\ poster' = [poster EXCEPT ![g].at = "count"]
      /\ toClient' = [toClient EXCEPT ![c] = SubSeq(@, k + 1, Len(@))]
      /\ split' = [split EXCEPT ![c] = part]
      /\ UNCHANGED <<protocol, listening, link, toServer, handler, qps, n, total, posts, crashed>>
  BY DEF PostRead, Reads, PosterAt, Takes, counters
<1>2. k + (IF part THEN 1 ELSE 0) =< Len(toClient[c]) /\ (k = 0 => part)
  BY DEF PostRead, Takes
<1>3. Fail \/ (UNCHANGED reportVars /\ ~part)
  BY DEF PostRead
<1>4. ConnNum > 0 /\ poster[g].i =< ConnNum /\ c \in Conns
  <2>1. ConnNum > 0 /\ poster[g].i =< ConnNum
    BY <1>0, <1>1 DEF Shape
  <2>2. QED
    BY <2>1, ItsConnection
<1> HIDE DEF c
<1>5. /\ poster \in [Loops -> PosterType] /\ toClient \in [Conns -> Seq(Bodies)] /\ split \in [Conns -> BOOLEAN]
      /\ toClient[c] \in Seq(Bodies)
  BY <1>0, <1>4 DEF HttpTypes, ServerTypeOK, PosterType
<1> DEFINE rest == SubSeq(toClient[c], k + 1, Len(toClient[c]))
<1>6. /\ rest \in Seq(Bodies) /\ Len(rest) = Len(toClient[c]) - k /\ (part => rest # <<>>) /\ Len(toClient[c]) \in Nat
      /\ k =< Len(toClient[c])
  <2>1. Len(toClient[c]) \in Nat /\ k =< Len(toClient[c]) /\ (part => k + 1 =< Len(toClient[c]))
    BY <1>2, <1>5
  <2>2. rest \in Seq(Bodies) /\ Len(rest) = Len(toClient[c]) - k
    BY <1>5, <2>1
  <2>3. part => Len(rest) > 0
    BY <2>1, <2>2
  <2>4. part => rest # <<>>
    <3>1. Len(<<>>) = 0
      OBVIOUS
    <3>2. ASSUME part, rest = <<>> PROVE FALSE
      <4>1. Len(rest) > 0
        BY <2>3, <3>2
      <4>2. Len(rest) = 0
        BY <3>1, <3>2, Zenon
      <4>3. QED
        BY <4>1, <4>2
    <3>3. QED
      BY <3>2
  <2>5. QED
    BY <2>1, <2>2, <2>4
<1>7. toClient' = [toClient EXCEPT ![c] = rest]
  BY <1>1
<1> HIDE DEF rest
<1>8. /\ toClient' \in [Conns -> Seq(Bodies)] /\ toClient'[c] = rest
      /\ \A d \in Conns : d # c => toClient'[d] = toClient[d]
  BY <1>4, <1>5, <1>6, <1>7
<1>9. split' \in [Conns -> BOOLEAN] /\ (split'[c] <=> part) /\ \A d \in Conns : d # c => (split'[d] <=> split[d])
  BY <1>1, <1>4, <1>5, Zenon
<1>10. /\ poster' \in [Loops -> PosterType] /\ poster'[g].at = "count" /\ poster'[g].i = poster[g].i
       /\ \A h \in Loops : h # g => poster'[h] = poster[h]
  BY <1>1, <1>5 DEF PosterType
<1>11. Shape' /\ Served' = Served /\ Counted' = Counted /\ Below(Unserved)' = Below(Unserved)
  BY <1>1, <1>4, <1>10, PostMoves
<1>12. Counting' = Counting \cup {g} /\ g \notin Counting /\ Waiting' = Waiting
  <2>1. Counting' = Counting \cup {g} /\ g \notin Counting /\ Waiting' = Waiting \cup {g} /\ g \in Waiting
    BY <1>1, <1>10, LoopMoves
  <2>2. QED
    BY <2>1, Zenon
<1>13. /\ Cardinality(Counted) \in Nat /\ Cardinality(Counting) \in Nat /\ Cardinality(Below(Unread)) \in Nat
       /\ IsFiniteSet(Counting) /\ Successes \in Nat /\ Failures \in Nat /\ Served \in Nat
  BY CountsAreNumbers
<1>14. Cardinality(Counting)' = Cardinality(Counting) + 1
  BY <1>12, <1>13, FS_AddElement
<1>15. /\ ReportTypeOK' /\ Reporting' /\ Successes' = Successes /\ Failures' \in Nat
       /\ Failures' = Failures + 1 \/ (Failures' = Failures /\ ~part)
  BY <1>0, <1>3, <1>13, ReportKeepsCounts DEF HttpTypes
<1>16. HttpTypes'
  <2>1. ServerTypeOK'
    BY <1>0, <1>1, <1>8 DEF HttpTypes, ServerTypeOK
  <2>2. \A d \in Conns : split'[d] => toClient'[d] # <<>>
    BY <1>0, <1>6, <1>8, <1>9 DEF HttpTypes
  <2>3. QED
    BY <1>0, <1>1, <1>9, <1>10, <1>15, <2>1, <2>2 DEF HttpTypes, PosterType
<1>17. /\ Unread \in [Conns -> Int] /\ Unread' \in [Conns -> Int] /\ \A d \in Conns : Unread'[d] =< Unread[d]
       /\ k > 0 => Unread'[c] < Unread[c] /\ Unread[c] > 0
  <2>1. Unread \in [Conns -> Int] /\ \A d \in Conns : Unread[d] = Len(toClient[d]) /\ Unread[d] \in Nat
    BY Lengths
  <2>2. \A d \in Conns : Unread'[d] = Len(toClient'[d])
    BY DEF Unread
  <2>3. Unread' \in [Conns -> Int]
    <3>1. \A d \in Conns : Len(toClient'[d]) \in Int
      BY <1>8
    <3>2. QED
      BY <3>1 DEF Unread
  <2>4. \A d \in Conns : d # c => Unread'[d] = Unread[d]
    BY <1>8, <2>1, <2>2
  <2>5. Unread'[c] = Unread[c] - k /\ k =< Unread[c] /\ Unread[c] \in Nat
    BY <1>4, <1>6, <1>8, <2>1, <2>2
  <2>6. QED
    BY <2>1, <2>3, <2>4, <2>5
<1>18. /\ IsFiniteSet(Below(Unread')) /\ Cardinality(Below(Unread')) \in Nat
       /\ Cardinality(Below(Unread')) =< Cardinality(Below(Unread))
       /\ k > 0 => Cardinality(Below(Unread')) + 1 =< Cardinality(Below(Unread))
  BY <1>0, <1>4, <1>17, BelowShrinks DEF Charged
<1>19. Below(Unread)' = Below(Unread')
  BY DEF Below
<1>20. Charged'
  <2>1. k > 0 \/ Failures' = Failures + 1
    BY <1>2, <1>15
  <2>2. Successes + Cardinality(Counting) + Cardinality(Below(Unread)) + Cardinality(Counted) =< Served + Failures
    BY <1>0 DEF Charged
  <2>3. Successes + (Cardinality(Counting) + 1) + Cardinality(Below(Unread')) + Cardinality(Counted) =< Served + Failures'
    BY <1>13, <1>15, <1>18, <2>1, <2>2
  <2>4. QED
    BY <1>11, <1>14, <1>15, <1>18, <1>19, <2>3 DEF Charged
<1>21. Posted'
  BY <1>0, <1>1, <1>11, <1>12, <1>15 DEF Posted
<1>22. QED
  BY <1>11, <1>15, <1>16, <1>20, <1>21 DEF IInv

-----------------------------------------------------------------------------
LEMMA StepIInv == IInv /\ [Next]_vars => IInv'
<1> SUFFICES ASSUME IInv, [Next]_vars PROVE IInv'
  OBVIOUS
<1>1. CASE Report
  <2>1. UNCHANGED <<protocol, listening, link, toServer, toClient, handler, qps, n, total, poster, split, posts, crashed>>
        /\ (SwapSuccess \/ SwapFailed \/ AddTotals)
    BY <1>1 DEF Report, serverVars, traffic, counters, httpVars
  <2>2. ReportTypeOK' /\ Reporting' /\ Successes' = Successes /\ Failures' = Failures
    BY <2>1, ReportKeepsCounts DEF IInv, HttpTypes
  <2>3. HttpTypes' /\ Served' = Served
    BY <2>1, <2>2 DEF IInv, HttpTypes, ServerTypeOK, Served
  <2>4. QED
    BY <2>1, <2>2, <2>3, QuietStep
<1>2. ASSUME NEW g \in Loops, Dial(g) \/ Post(g) \/ PostPanics(g) PROVE IInv'
  <2>1. CASE \E k \in 0..Len(toClient[ConnAt(g)]), part \in BOOLEAN : PostRead(g, k, part)
    <3>1. PICK k \in 0..Len(toClient[ConnAt(g)]), part \in BOOLEAN : PostRead(g, k, part)
      BY <2>1
    <3>2. k \in Nat
      OBVIOUS
    <3>3. QED
      BY <3>1, <3>2, PostReadStep
  <2>2. CASE PostPanics(g)
    <3>1. UNCHANGED <<protocol, listening, link, toServer, toClient, handler, qps, n, total, poster, split, posts, reportVars>>
          /\ crashed' = TRUE
      BY <2>2 DEF PostPanics, serverVars, traffic, counters
    <3>2. ReportTypeOK' /\ Reporting' /\ Successes' = Successes /\ Failures' = Failures
      BY <3>1, ReportKeepsCounts DEF IInv, HttpTypes
    <3>3. HttpTypes' /\ Served' = Served
      BY <3>1, <3>2 DEF IInv, HttpTypes, ServerTypeOK, Served
    <3>4. QED
      BY <3>1, <3>2, <3>3, QuietStep
  <2>3. QED
    BY <1>2, <2>1, <2>2, DialStep, PostWriteStep, PostCounts DEF Post
<1>3. CASE ServerNext /\ UNCHANGED <<reportVars, httpVars>>
  BY <1>3, QuietServer, HandlerMoves DEF ServerNext
<1>4. CASE (\E c \in Conns : Drop(c)) /\ UNCHANGED reportVars
  BY <1>4, DropStep
<1>5. CASE UNCHANGED vars
  <2>1. UNCHANGED <<protocol, listening, link, toServer, toClient, handler, qps, n, total, poster, split, posts, crashed, reportVars>>
    BY <1>5 DEF vars, serverVars, traffic, counters, httpVars
  <2>2. ReportTypeOK' /\ Reporting' /\ Successes' = Successes /\ Failures' = Failures
    BY <2>1, ReportKeepsCounts DEF IInv, HttpTypes
  <2>3. HttpTypes' /\ Served' = Served
    BY <2>1, <2>2 DEF IInv, HttpTypes, ServerTypeOK, Served
  <2>4. QED
    BY <2>1, <2>2, <2>3, QuietStep
<1>6. QED
  BY <1>1, <1>2, <1>3, <1>4, <1>5 DEF Next

LEMMA AlwaysIInv == Spec => []IInv
BY InitIInv, StepIInv, PTL DEF Spec

(* Type correctness: the counters never go below zero, and a connection of *)
(* which part of an answer was read holds that answer still.               *)
THEOREM HttpTypeCorrect == Spec => []TypeOK
<1>1. IInv => TypeOK
  BY DEF IInv, Shape, TypeOK
<1>2. QED
  BY <1>1, AlwaysIInv, PTL

(* What the client reports and what the server reports differ by no more   *)
(* than the failures and the posts under way, though post counts a success *)
(* for every Read.                                                         *)
THEOREM ReportsAgree == Spec => []CountsAgree
<1>1. IInv => CountsAgree
  <2> SUFFICES ASSUME IInv PROVE CountsAgree
    OBVIOUS
  <2>1. /\ Cardinality(Counted) \in Nat /\ Cardinality(Counting) \in Nat /\ Cardinality(Waiting) \in Nat
        /\ Cardinality(Below(Unread)) \in Nat /\ Cardinality(Below(Unserved)) \in Nat
        /\ Successes \in Nat /\ Failures \in Nat /\ Served \in Nat /\ posts \in Nat
    BY CountsAreNumbers
  <2>2. Successes =< Served + Failures
    BY <2>1 DEF IInv, Charged
  <2>3. (\A c \in Conns : link[c] # "broken") => Served =< Successes + Cardinality(Waiting)
    BY <2>1 DEF IInv, Posted
  <2>4. QED
    BY <2>2, <2>3 DEF CountsAgree, Waiting
<1>2. QED
  BY <1>1, AlwaysIInv, PTL
=============================================================================
