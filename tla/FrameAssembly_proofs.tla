------------------------ MODULE FrameAssembly_proofs ------------------------
(***************************************************************************)
(* Proofs about FrameAssembly, for any number of connections, any pool     *)
(* capacity and any sizes.  The servers are shown to be disciplined users  *)
(* of the pool (UsesPool), so that what BufferPool_proofs shows of the     *)
(* pool holds in them: Put never panics, no buffer is in two sessions.     *)
(***************************************************************************)
EXTENDS FrameAssembly, BufferPool_proofs

USE DEF Conns

(* What each handler position says of the pool's state of the connection.  *)
(* A session or a message is the buffer the pool knows the connection has. *)
Position(c) ==
    /\ pc[c] = "holding" => slice[c] \in Buffers
    /\ handler[c] = "ready" =>
          IF session[c] = Nil THEN pc[c] = "idle"
          ELSE pc[c] = "holding" /\ slice[c] = session[c].buf
    /\ handler[c] = "frame" =>
          IF session[c] = Nil THEN pc[c] \in {"waiting", "granted", "holding"}
          ELSE pc[c] = "holding" /\ slice[c] = session[c].buf
    /\ handler[c] = "appended" => pc[c] = "holding" /\ message[c].buf = slice[c]
    /\ handler[c] \in {"putting", "closing"} => pc[c] \in {"returning", "panicked"}
    /\ handler[c] \in {"clearing", "closed", "crashed"} => pc[c] = "idle"

(* The variables are functions on the connections. *)
Functions ==
    /\ DOMAIN pc = Conns /\ pc = [c \in Conns |-> pc[c]]
    /\ DOMAIN slice = Conns /\ slice = [c \in Conns |-> slice[c]]
    /\ DOMAIN handler = Conns /\ handler = [c \in Conns |-> handler[c]]
    /\ DOMAIN session = Conns /\ session = [c \in Conns |-> session[c]]
    /\ DOMAIN message = Conns /\ message = [c \in Conns |-> message[c]]

Owning == Functions /\ \A c \in Conns : handler[c] \in Steps /\ Position(c)

LEMMA InitOwning == Init => Owning
  BY DEF Init, Owning, Functions, Position, Steps, PoolInit

LEMMA StepOwning == Owning /\ [Next]_vars => Owning' /\ [PoolNext]_poolVars
<1> SUFFICES ASSUME Owning, [Next]_vars
             PROVE  Owning' /\ (PoolNext \/ UNCHANGED poolVars)
  OBVIOUS
<1> USE DEF Owning, Functions, Position, Steps, Goto, Move
<1>1. ASSUME NEW c \in Conns, FirstFrame(c) PROVE Owning' /\ PoolNext
  BY <1>1 DEF FirstFrame, GetFast, GetMiss, PoolNext, Get
<1>2. ASSUME NEW c \in Conns, GetOn(c) PROVE Owning' /\ PoolNext
  BY <1>2 DEF GetOn, GetWake, PoolGet, PoolNext, Get
<1>3. ASSUME NEW c \in Conns, GetFails(c) PROVE Owning' /\ PoolNext
  BY <1>3 DEF GetFails, GetTimeout, PoolNext, Get
<1>4. ASSUME NEW c \in Conns, RefuseLarge(c)
      PROVE  Owning' /\ (PoolNext \/ UNCHANGED poolVars)
  BY <1>4 DEF RefuseLarge, Discard, PoolNext, poolVars
<1>5. ASSUME NEW c \in Conns, AppendFrame(c) PROVE Owning' /\ UNCHANGED poolVars
  <2>1. ~(MessageSize < SoFar(c).len + frame[c].size)
    BY <1>5 DEF AppendFrame, TooLarge
  <2>2. SoFar(c).buf = slice[c]
    BY <1>5 DEF AppendFrame, SoFar
  <2>3. slice' = slice /\ message'[c].buf = slice[c]
    BY <1>5, <2>1, <2>2 DEF AppendFrame, Extend
  <2>4. /\ \A d \in Conns \ {c} : message'[d] = message[d]
        /\ DOMAIN message' = Conns /\ message' = [d \in Conns |-> message'[d]]
    BY <1>5 DEF AppendFrame, Extend
  <2>5. UNCHANGED <<buffers, pool, pc, slice, lost, session>>
    BY <1>5, <2>3 DEF AppendFrame
  <2>6. Functions'
    BY <1>5, <2>4, <2>5 DEF AppendFrame
  <2>7. \A d \in Conns : handler'[d] \in Steps /\ Position(d)'
    BY <1>5, <2>3, <2>4, <2>5 DEF AppendFrame
  <2>8. QED
    BY <2>5, <2>6, <2>7 DEF poolVars
<1>6. ASSUME NEW c \in Conns, KeepMessage(c) PROVE Owning' /\ UNCHANGED poolVars
  <2>1. message[c].buf # None
    BY <1>6, NotABuffer DEF KeepMessage
  <2>2. message[c] # Nil
    BY <2>1 DEF Nil
  <2>3. QED
    BY <1>6, <2>2 DEF KeepMessage, poolVars
<1>7. ASSUME NEW c \in Conns, EchoMessage(c) PROVE Owning' /\ PoolNext
  BY <1>7, ZenonT(40) DEF EchoMessage, Put, PoolNext
<1>8. ASSUME NEW c \in Conns, PutOn(c) \/ CloseOn(c) PROVE Owning' /\ PoolNext
  BY <1>8 DEF PutOn, CloseOn, PoolPut, PoolNext
<1>9. ASSUME NEW c \in Conns, OnClose(c) PROVE Owning' /\ PoolNext
  BY <1>9 DEF OnClose, Put, PoolNext
<1>10. ASSUME NEW c \in Conns,
              \/ EchoFrame(c) \/ LaterFrame(c) \/ ClearSession(c)
              \/ CloseNil(c) \/ OnOpen(c)
       PROVE  Owning' /\ UNCHANGED poolVars
  BY <1>10 DEF EchoFrame, LaterFrame, ClearSession, CloseNil, OnOpen,
     poolVars
<1>11. CASE GarbageCollect
  BY <1>11 DEF GarbageCollect, Collect, PoolNext
<1>12. CASE UNCHANGED vars
  BY <1>12 DEF vars, poolVars
<1>13. QED
  BY <1>1, <1>2, <1>3, <1>4, <1>5, <1>6, <1>7, <1>8, <1>9, <1>10, <1>11, <1>12
     DEF Next, HandlerStep, ClientStep

(* The servers use the pool as BufferPool assumes of its callers.          *)
THEOREM UsesPool == Spec => PoolUse
<1>1. Init => Owning /\ PoolInit
  BY InitOwning DEF Init
<1>2. Owning /\ [Next]_vars => Owning' /\ [PoolNext]_poolVars
  BY StepOwning
<1>3. QED
  BY <1>1, <1>2, PTL DEF Spec, PoolUse, PoolSpec

(* A session is always the buffer its connection got from the pool, and a  *)
(* connection without an unfinished message keeps none.                    *)
THEOREM SessionOwns == Spec => []SessionOwnsBuffer
<1>1. Init => Owning
  BY InitOwning
<1>2. Owning /\ [Next]_vars => Owning'
  BY StepOwning
<1>3. Owning => SessionOwnsBuffer
  BY DEF Owning, Position, SessionOwnsBuffer
<1>4. QED
  BY <1>1, <1>2, <1>3, PTL DEF Spec

(* What is proved of the pool holds in the servers: Put never panics, and  *)
(* no buffer is with two connections or with one and the cache.            *)
THEOREM PoolSound == Spec => [](NoPanic /\ Exclusive)
<1>1. PoolIInv => NoPanic /\ Exclusive
  BY DEF PoolIInv
<1>2. QED
  BY <1>1, UsesPool, PoolInvariance, PTL DEF PoolUse

(* The pool of an idle server is complete but for the buffers forgotten    *)
(* with a first frame that was too large.                                  *)
THEOREM PoolKeeps == Spec => []IdleKeepsAll
<1>1. Init => Owning
  BY InitOwning
<1>2. Owning /\ [Next]_vars => Owning'
  BY StepOwning
<1>3. ASSUME Owning, PoolIInv, Idle PROVE buffers + lost = N
  <2>1. \A c \in Conns : pc[c] = "idle"
    BY <1>3 DEF Owning, Position, Idle
  <2>2. Owners = {}
    BY <2>1 DEF Owners
  <2>3. Cardinality(Owners) = 0
    BY <2>2, FS_EmptySet
  <2>4. QED
    BY <1>3, <2>3, CapacityIsNat DEF PoolIInv, TokensAccounted, PoolTypeOK
<1>4. Owning /\ PoolIInv => IdleKeepsAll
  BY <1>3 DEF IdleKeepsAll
<1>5. Spec => []PoolIInv
  BY UsesPool, PoolInvariance, PTL DEF PoolUse
<1>6. QED
  BY <1>1, <1>2, <1>4, <1>5, PTL DEF Spec

-----------------------------------------------------------------------------
(* What the handlers have of a message, and what they have echoed.         *)

(* d is the first n frames of message m, and not the last one.             *)
Begun(d, m, n) ==
    /\ d \in Seq(Frame) /\ Len(d) = n
    /\ \A i \in 1..n : d[i].msg = m /\ d[i].idx = i /\ ~d[i].fin

(* d is the frames of message f.msg up to f.                               *)
UpTo(d, f) ==
    /\ d \in Seq(Frame) /\ Len(d) = f.idx
    /\ \A i \in 1..f.idx : d[i].msg = f.msg /\ d[i].idx = i /\ (d[i].fin <=> i = f.idx /\ f.fin)

Completed(s) == IF s.idx = 0 THEN s.msg ELSE s.msg - 1
Echoed(d, m) == m > 0 => d # <<>> /\ WholeMessage(d, m)
DataSoFar(s) == IF s = Nil THEN <<>> ELSE s.data

(* The client's position and the frame that is handled.                    *)
FrameSent(f, s) == f.msg = s.msg /\ s.idx = IF f.fin THEN 0 ELSE f.idx

(* Until a CloseMessage is written, a connection's session has the frames  *)
(* that the client has sent of its message, and the last echo is the last  *)
(* message it completed.                                                   *)
Assembled(at, sess, f, m, pos, rej, e) ==
    ~rej =>
        /\ at = "ready" =>
              /\ Echoed(e, Completed(pos))
              /\ IF pos.idx = 0 THEN sess = Nil
                 ELSE sess # Nil /\ Begun(sess.data, pos.msg, pos.idx)
        /\ at \in {"frame", "appended"} => FrameSent(f, pos) /\ Echoed(e, pos.msg - 1)
        /\ at = "frame" => Begun(DataSoFar(sess), f.msg, f.idx - 1)
        /\ at = "appended" => UpTo(m.data, f)
        /\ at \in {"putting", "clearing"} => pos.idx = 0 /\ Echoed(e, pos.msg)

Assembly(c) == Assembled(handler[c], session[c], frame[c], message[c], sent[c], rejected[c], echo[c])

(* The types of the handlers' variables. *)
HandlerTypes ==
    /\ handler \in [Conns -> Steps]
    /\ session \in [Conns -> Slice \cup {Nil}]
    /\ frame \in [Conns -> Frame \cup {None}]
    /\ message \in [Conns -> Slice \cup {Nil}]
    /\ sent \in [Conns -> [msg : 0..MaxMessages, idx : 0..MaxFrames]]
    /\ rejected \in [Conns -> BOOLEAN]
    /\ echo \in [Conns -> Seq(Frame)]
    /\ \A c \in Conns : handler[c] \in {"frame", "appended"} => frame[c] \in Frame

Assembling == HandlerTypes /\ \A c \in Conns : Assembly(c)

(* The fields of frames, slices and positions.                             *)
LEMMA Fields ==
    /\ \A f \in Frame : f.msg \in 1..MaxMessages /\ f.idx \in 1..MaxFrames /\ f.fin \in BOOLEAN /\ f.size \in Nat
    /\ \A s \in Slice \cup {Nil} : s.data \in Seq(Frame) /\ s.len \in 0..MessageSize
    /\ MessageSize \in Nat /\ MaxMessages \in Nat /\ MaxFrames \in Nat
<1>1. MessageSize \in Nat /\ FrameSizes \subseteq Nat /\ MaxMessages \in Nat /\ MaxFrames \in Nat
  BY SizesAreNat, BoundsAreNat
<1>2. \A f \in Frame : f.msg \in 1..MaxMessages /\ f.idx \in 1..MaxFrames /\ f.fin \in BOOLEAN /\ f.size \in Nat
  BY <1>1 DEF Frame
<1>3. \A s \in Slice : s.data \in Seq(Frame) /\ s.len \in 0..MessageSize
  BY DEF Slice
<1>4. Nil.data \in Seq(Frame) /\ Nil.len \in 0..MessageSize
  BY <1>1 DEF Nil
<1>5. QED
  BY <1>1, <1>2, <1>3, <1>4, Zenon

(* Nothing has been sent.                                                  *)
LEMMA InitAssembling == Init => Assembling
<1> SUFFICES ASSUME Init PROVE Assembling
  OBVIOUS
<1>1. 0 \in 0..MaxMessages /\ 0 \in 0..MaxFrames
  BY Fields
<1>2. HandlerTypes
  BY <1>1 DEF Init, HandlerTypes, Steps
<1>3. ASSUME NEW c \in Conns PROVE Assembly(c)
  BY DEF Init, Assembly, Assembled, Completed, Echoed
<1>4. QED
  BY <1>2, <1>3 DEF Assembling

(* What the connection of an action shows of the others.                   *)
LEMMA OnlyOne ==
    ASSUME NEW c \in Conns, \A d \in Conns : Assembly(d), Assembly(c)',
           \A d \in Conns : d # c =>
               /\ handler'[d] = handler[d] /\ session'[d] = session[d] /\ frame'[d] = frame[d]
               /\ message'[d] = message[d] /\ sent'[d] = sent[d] /\ rejected'[d] = rejected[d]
               /\ echo'[d] = echo[d]
    PROVE  \A d \in Conns : Assembly(d)'
<1>1. ASSUME NEW d \in Conns, d # c PROVE Assembly(d)'
  BY <1>1, Zenon DEF Assembly
<1>2. QED
  BY <1>1

(* A frame is a whole message by itself, or the next one of a message.     *)
LEMMA FrameJoins ==
    ASSUME NEW f \in Frame, NEW d, Begun(d, f.msg, f.idx - 1)
    PROVE  UpTo(d \o <<f>>, f)
<1>1. f.idx \in Nat \ {0} /\ d \in Seq(Frame) /\ Len(d) = f.idx - 1
  BY Fields DEF Begun
<1> DEFINE n == f.idx
           s == d \o <<f>>
<1>2. <<f>> \in Seq(Frame) /\ Len(<<f>>) = 1 /\ <<f>>[1] = f
  OBVIOUS
<1>3. s \in Seq(Frame) /\ Len(s) = n /\ s[n] = f /\ \A i \in 1..n - 1 : s[i] = d[i]
  BY <1>1, <1>2
<1>4. \A i \in 1..n - 1 : d[i].msg = f.msg /\ d[i].idx = i /\ ~d[i].fin
  BY DEF Begun
<1> HIDE DEF s
<1>5. \A i \in 1..n : i = n \/ (i \in 1..n - 1 /\ i # n)
  BY <1>1
<1>6. \A i \in 1..n : s[i].msg = f.msg /\ s[i].idx = i /\ (s[i].fin <=> i = n /\ f.fin)
  <2>1. s[n].msg = f.msg /\ s[n].idx = n /\ (s[n].fin <=> f.fin)
    BY <1>3, Zenon
  <2>2. \A i \in 1..n - 1 : s[i].msg = f.msg /\ s[i].idx = i /\ ~s[i].fin
    BY <1>3, <1>4
  <2>3. QED
    BY <1>5, <2>1, <2>2, Zenon
<1>7. QED
  BY <1>3, <1>6 DEF UpTo, s

LEMMA LastFrameEnds ==
    ASSUME NEW f \in Frame, NEW d, UpTo(d, f)
    PROVE  /\ f.fin => Echoed(d, f.msg)
           /\ ~f.fin => Begun(d, f.msg, f.idx)
<1>1. f.idx \in Nat \ {0} /\ f.fin \in BOOLEAN
  BY Fields
<1>2. ASSUME f.fin PROVE Echoed(d, f.msg)
  BY <1>1, <1>2 DEF UpTo, Echoed, WholeMessage
<1>3. ASSUME ~f.fin PROVE Begun(d, f.msg, f.idx)
  BY <1>1, <1>3 DEF UpTo, Begun
<1>4. QED
  BY <1>2, <1>3

(* A connection's step that leaves the others alone preserves Assembling,  *)
(* given what it does to its own.                                          *)
Own(c) == <<handler[c], session[c], frame[c], message[c], sent[c], rejected[c], echo[c]>>

LEMMA Joins ==
    ASSUME NEW c \in Conns, Assembling, HandlerTypes', Assembly(c)',
           \A d \in Conns : d # c => Own(d)' = Own(d)
    PROVE  Assembling'
<1>1. \A d \in Conns : Assembly(d)
  BY DEF Assembling
<1>2. \A d \in Conns : d # c =>
               /\ handler'[d] = handler[d] /\ session'[d] = session[d] /\ frame'[d] = frame[d]
               /\ message'[d] = message[d] /\ sent'[d] = sent[d] /\ rejected'[d] = rejected[d]
               /\ echo'[d] = echo[d]
  BY DEF Own
<1>3. QED
  BY <1>1, <1>2, OnlyOne, Zenon DEF Assembling

(* The next frame of a client.                                             *)
LEMMA NextFrame ==
    ASSUME HandlerTypes, NEW c \in Conns, NEW f \in NextFrames(c), Receive(c, f), Assembly(c), handler[c] = "ready"
    PROVE  /\ f \in Frame /\ FrameSent(f, sent'[c])
           /\ sent' \in [Conns -> [msg : 0..MaxMessages, idx : 0..MaxFrames]]
           /\ \A d \in Conns : d # c => sent'[d] = sent[d]
           /\ f.fin => Completed(sent'[c]) = f.msg /\ sent'[c].idx = 0
           /\ ~rejected[c] => /\ Begun(DataSoFar(session[c]), f.msg, f.idx - 1) /\ Echoed(echo[c], sent'[c].msg - 1)
                              /\ session[c] = Nil => f.idx = 1
<1>1. f \in Frame /\ sent[c].msg \in 0..MaxMessages /\ sent[c].idx \in 0..MaxFrames
  BY DEF NextFrames, HandlerTypes
<1>2. f.msg \in 1..MaxMessages /\ f.idx \in 1..MaxFrames /\ f.fin \in BOOLEAN /\ MaxFrames \in Nat /\ MaxMessages \in Nat
  BY <1>1, Fields
<1> DEFINE s == [msg |-> f.msg, idx |-> IF f.fin THEN 0 ELSE f.idx]
<1>3. s \in [msg : 0..MaxMessages, idx : 0..MaxFrames] /\ s.msg = f.msg /\ s.idx = IF f.fin THEN 0 ELSE f.idx
  BY <1>2
<1>4. sent' = [sent EXCEPT ![c] = s]
  BY DEF Receive
<1> HIDE DEF s
<1>5. /\ sent' \in [Conns -> [msg : 0..MaxMessages, idx : 0..MaxFrames]] /\ sent'[c] = s
      /\ \A d \in Conns : d # c => sent'[d] = sent[d]
  BY <1>3, <1>4 DEF HandlerTypes
<1>6. FrameSent(f, s) /\ (f.fin => Completed(s) = f.msg /\ s.idx = 0)
  BY <1>2, <1>3 DEF FrameSent, Completed
<1>7. ASSUME ~rejected[c]
      PROVE  /\ Begun(DataSoFar(session[c]), f.msg, f.idx - 1) /\ Echoed(echo[c], s.msg - 1)
             /\ session[c] = Nil => f.idx = 1
  <2>1. /\ Echoed(echo[c], Completed(sent[c]))
        /\ IF sent[c].idx = 0 THEN session[c] = Nil
           ELSE session[c] # Nil /\ Begun(session[c].data, sent[c].msg, sent[c].idx)
    BY <1>7 DEF Assembly, Assembled
  <2>2. CASE sent[c].idx = 0
    <3>1. f.msg = sent[c].msg + 1 /\ f.idx = 1 /\ Completed(sent[c]) = sent[c].msg /\ session[c] = Nil
      BY <2>1, <2>2 DEF NextFrames, Completed
    <3>2. Completed(sent[c]) = s.msg - 1 /\ f.idx - 1 = 0
      BY <1>1, <1>3, <3>1
    <3>3. <<>> \in Seq(Frame) /\ Len(<<>>) = 0 /\ \A i \in 1..0 : FALSE
      OBVIOUS
    <3>4. Begun(<<>>, f.msg, 0)
      BY <3>3, Zenon DEF Begun
    <3>5. QED
      BY <2>1, <3>1, <3>2, <3>4 DEF DataSoFar
  <2>3. CASE sent[c].idx # 0
    <3>1. f.msg = sent[c].msg /\ f.idx = sent[c].idx + 1 /\ Completed(sent[c]) = sent[c].msg - 1 /\ session[c] # Nil
      BY <2>1, <2>3 DEF NextFrames, Completed
    <3>2. Completed(sent[c]) = s.msg - 1 /\ f.idx - 1 = sent[c].idx
      BY <1>1, <1>3, <3>1
    <3>3. QED
      BY <2>1, <2>3, <3>1, <3>2 DEF DataSoFar
  <2>4. QED
    BY <2>2, <2>3
<1>8. QED
  BY <1>1, <1>5, <1>6, <1>7

(* A frame arrives: it is echoed by itself, or handled.                    *)
LEMMA FrameArrives ==
    ASSUME Assembling, NEW c \in Conns, EchoFrame(c) \/ FirstFrame(c) \/ LaterFrame(c)
    PROVE  Assembling'
<1>0. HandlerTypes /\ Assembly(c) /\ handler[c] = "ready"
  BY DEF Assembling, EchoFrame, FirstFrame, LaterFrame, Goto
<1>1. CASE EchoFrame(c)
  <2>1. PICK f \in NextFrames(c) : f.fin /\ Receive(c, f) /\ echo' = [echo EXCEPT ![c] = <<f>>]
    BY <1>1 DEF EchoFrame
  <2>2. session[c] = Nil /\ UNCHANGED <<handler, session, frame, message, rejected>>
    BY <1>1 DEF EchoFrame
  <2>3. /\ f \in Frame
        /\ sent' \in [Conns -> [msg : 0..MaxMessages, idx : 0..MaxFrames]]
        /\ \A d \in Conns : d # c => sent'[d] = sent[d]
        /\ Completed(sent'[c]) = f.msg /\ sent'[c].idx = 0
        /\ ~rejected[c] => f.idx = 1
    BY <1>0, <2>1, <2>2, NextFrame
  <2>4. <<f>> \in Seq(Frame) /\ Len(<<f>>) = 1 /\ <<f>> # <<>> /\ <<f>>[1] = f
    BY <2>3
  <2>5. f.idx = 1 => Echoed(<<f>>, f.msg)
    BY <2>1, <2>4 DEF Echoed, WholeMessage
  <2>6. /\ echo' \in [Conns -> Seq(Frame)] /\ echo'[c] = <<f>>
        /\ \A d \in Conns : d # c => echo'[d] = echo[d]
    BY <1>0, <2>1, <2>4 DEF HandlerTypes
  <2>7. HandlerTypes'
    BY <1>0, <2>2, <2>3, <2>6 DEF HandlerTypes
  <2>8. Assembly(c)'
    BY <1>0, <2>2, <2>3, <2>5, <2>6 DEF Assembly, Assembled
  <2>9. \A d \in Conns : d # c => Own(d)' = Own(d)
    BY <2>2, <2>3, <2>6 DEF Own
  <2>10. QED
    BY <2>7, <2>8, <2>9, Joins
<1>2. CASE FirstFrame(c) \/ LaterFrame(c)
  <2>1. PICK f \in NextFrames(c) : Receive(c, f) /\ frame' = [frame EXCEPT ![c] = f]
    BY <1>2 DEF FirstFrame, LaterFrame
  <2>2. handler' = [handler EXCEPT ![c] = "frame"] /\ UNCHANGED <<session, message, rejected, echo>>
    BY <1>2 DEF FirstFrame, LaterFrame, Goto
  <2>3. /\ f \in Frame /\ FrameSent(f, sent'[c])
        /\ sent' \in [Conns -> [msg : 0..MaxMessages, idx : 0..MaxFrames]]
        /\ \A d \in Conns : d # c => sent'[d] = sent[d]
        /\ ~rejected[c] => Begun(DataSoFar(session[c]), f.msg, f.idx - 1) /\ Echoed(echo[c], sent'[c].msg - 1)
    BY <1>0, <2>1, NextFrame
  <2>4. /\ frame' \in [Conns -> Frame \cup {None}] /\ frame'[c] = f
        /\ \A d \in Conns : d # c => frame'[d] = frame[d]
        /\ handler' \in [Conns -> Steps] /\ handler'[c] = "frame"
        /\ \A d \in Conns : d # c => handler'[d] = handler[d]
    BY <1>0, <2>1, <2>2, <2>3 DEF HandlerTypes, Steps
  <2>5. HandlerTypes'
    BY <1>0, <2>2, <2>3, <2>4 DEF HandlerTypes
  <2>6. Assembly(c)'
    BY <2>2, <2>3, <2>4 DEF Assembly, Assembled
  <2>7. \A d \in Conns : d # c => Own(d)' = Own(d)
    BY <2>2, <2>3, <2>4 DEF Own
  <2>8. QED
    BY <2>5, <2>6, <2>7, Joins
<1>3. QED
  BY <1>1, <1>2

(* The frame is refused, or the message with it rejected.                  *)
LEMMA FrameRejected ==
    ASSUME Assembling, NEW c \in Conns, GetFails(c) \/ RefuseLarge(c)
    PROVE  Assembling'
<1>1. /\ handler' = [handler EXCEPT ![c] = "ready"] /\ frame' = [frame EXCEPT ![c] = None]
      /\ rejected' = [rejected EXCEPT ![c] = TRUE] /\ UNCHANGED <<session, message, sent, echo>>
  BY DEF GetFails, RefuseLarge, Goto
<1>2. HandlerTypes'
  BY <1>1 DEF Assembling, HandlerTypes, Steps
<1>3. rejected'[c]
  BY <1>1 DEF Assembling, HandlerTypes
<1>4. Assembly(c)'
  BY <1>3 DEF Assembly, Assembled
<1>5. \A d \in Conns : d # c => Own(d)' = Own(d)
  BY <1>1 DEF Assembling, HandlerTypes, Own
<1>6. QED
  BY <1>2, <1>4, <1>5, Joins

(* The frame is appended to what there is of its message, in the buffer    *)
(* that the connection has.                                                *)
LEMMA FrameAppended ==
    ASSUME Assembling, Owning, NEW c \in Conns, AppendFrame(c)
    PROVE  Assembling'
<1> DEFINE f == frame[c]
           s == SoFar(c)
           m == [buf |-> s.buf, data |-> s.data \o <<f>>, len |-> s.len + f.size]
<1>1. /\ handler[c] = "frame" /\ handler' = [handler EXCEPT ![c] = "appended"] /\ pc[c] = "holding"
      /\ ~(MessageSize < s.len + f.size) /\ UNCHANGED <<session, frame, sent, rejected, echo>>
  BY DEF AppendFrame, Goto, TooLarge
<1>2. message' = [message EXCEPT ![c] = m]
  BY <1>1 DEF AppendFrame, Extend
<1>3. f \in Frame /\ session[c] \in Slice \cup {Nil} /\ f.size \in Nat /\ MessageSize \in Nat
  BY <1>1, Fields DEF Assembling, HandlerTypes
<1>4. s.buf \in Buffers
  BY <1>1 DEF Owning, Position, SoFar
<1>5. s.data = DataSoFar(session[c]) /\ s.data \in Seq(Frame) /\ s.len \in 0..MessageSize
  BY <1>3, Fields DEF SoFar, DataSoFar
<1> HIDE DEF f, s
<1>6. m \in Slice /\ m.data = s.data \o <<f>>
  <2>1. <<f>> \in Seq(Frame)
    BY <1>3
  <2>2. s.data \o <<f>> \in Seq(Frame)
    BY <1>5, <2>1
  <2>3. s.len + f.size \in 0..MessageSize
    BY <1>1, <1>3, <1>5
  <2>4. QED
    BY <1>4, <2>2, <2>3 DEF Slice
<1> HIDE DEF m
<1>7. /\ message' \in [Conns -> Slice \cup {Nil}] /\ message'[c] = m
      /\ \A d \in Conns : d # c => message'[d] = message[d]
      /\ handler' \in [Conns -> Steps] /\ handler'[c] = "appended"
      /\ \A d \in Conns : d # c => handler'[d] = handler[d]
  BY <1>1, <1>2, <1>6 DEF Assembling, HandlerTypes, Steps
<1>8. HandlerTypes'
  <2>1. frame'[c] \in Frame
    BY <1>1, <1>3 DEF f
  <2>2. QED
    BY <1>1, <1>7, <2>1 DEF Assembling, HandlerTypes
<1>9. Assembly(c)'
  <2>1. ~rejected[c] => FrameSent(f, sent[c]) /\ Echoed(echo[c], sent[c].msg - 1) /\ Begun(s.data, f.msg, f.idx - 1)
    BY <1>1, <1>5 DEF Assembling, Assembly, Assembled, f
  <2>2. ~rejected[c] => UpTo(m.data, f)
    BY <1>3, <1>6, <2>1, FrameJoins
  <2>3. frame'[c] = f /\ sent'[c] = sent[c] /\ echo'[c] = echo[c] /\ rejected'[c] = rejected[c]
    BY <1>1 DEF f
  <2>4. QED
    BY <1>7, <2>1, <2>2, <2>3 DEF Assembly, Assembled
<1>10. \A d \in Conns : d # c => Own(d)' = Own(d)
  BY <1>1, <1>7 DEF Own
<1>11. QED
  BY <1>8, <1>9, <1>10, Joins

(* The message so far is kept, or was the whole of it and is echoed.       *)
LEMMA MessageGoesOn ==
    ASSUME Assembling, Owning, NEW c \in Conns, KeepMessage(c) \/ EchoMessage(c)
    PROVE  Assembling'
<1> DEFINE f == frame[c]
<1>1. handler[c] = "appended" /\ UNCHANGED <<sent, rejected>>
  BY DEF KeepMessage, EchoMessage, Goto
<1>2. /\ f \in Frame /\ message[c] \in Slice \cup {Nil} /\ f.idx \in Nat \ {0} /\ message[c].data \in Seq(Frame)
      /\ message[c].buf \in Buffers
  <2>1. f \in Frame /\ message[c] \in Slice \cup {Nil}
    BY <1>1 DEF Assembling, HandlerTypes
  <2>2. f.idx \in 1..MaxFrames /\ MaxFrames \in Nat /\ message[c].data \in Seq(Frame)
    BY <2>1, Fields, Zenon
  <2>3. message[c].buf \in Buffers
    BY <1>1 DEF Owning, Position
  <2>4. QED
    BY <2>1, <2>2, <2>3
<1>3. ~rejected[c] => FrameSent(f, sent[c]) /\ Echoed(echo[c], sent[c].msg - 1) /\ UpTo(message[c].data, f)
  BY <1>1 DEF Assembling, Assembly, Assembled
<1>4. ~rejected[c] => /\ f.fin => Echoed(message[c].data, f.msg)
                      /\ ~f.fin => Begun(message[c].data, f.msg, f.idx)
  BY <1>2, <1>3, LastFrameEnds
<1> HIDE DEF f
<1>5. CASE KeepMessage(c)
  <2>1. /\ handler' = [handler EXCEPT ![c] = "ready"] /\ session' = [session EXCEPT ![c] = message[c]]
        /\ message' = [message EXCEPT ![c] = Nil] /\ frame' = [frame EXCEPT ![c] = None] /\ ~f.fin /\ UNCHANGED echo
    BY <1>5 DEF KeepMessage, Goto, f
  <2>2. HandlerTypes'
    BY <1>1, <1>2, <2>1 DEF Assembling, HandlerTypes, Steps
  <2>3. message[c] # Nil
    BY <1>2, NotABuffer DEF Nil
  <2>4. handler'[c] = "ready" /\ session'[c] = message[c]
    BY <2>1 DEF Assembling, HandlerTypes
  <2>5. ~rejected[c] => sent[c].idx = f.idx /\ sent[c].msg = f.msg /\ Completed(sent[c]) = sent[c].msg - 1
    BY <1>2, <1>3, <2>1 DEF FrameSent, Completed
  <2>6. Assembly(c)'
    BY <1>1, <1>2, <1>3, <1>4, <2>1, <2>3, <2>4, <2>5 DEF Assembly, Assembled
  <2>7. \A d \in Conns : d # c => Own(d)' = Own(d)
    BY <1>1, <2>1 DEF Assembling, HandlerTypes, Own
  <2>8. QED
    BY <2>2, <2>6, <2>7, Joins
<1>6. CASE EchoMessage(c)
  <2>1. /\ handler' = [handler EXCEPT ![c] = "putting"] /\ echo' = [echo EXCEPT ![c] = message[c].data]
        /\ f.fin /\ UNCHANGED <<session, frame, message>>
    BY <1>6 DEF EchoMessage, Goto, f
  <2>2. HandlerTypes'
    BY <1>1, <1>2, <2>1 DEF Assembling, HandlerTypes, Steps
  <2>3. handler'[c] = "putting" /\ echo'[c] = message[c].data
    BY <2>1 DEF Assembling, HandlerTypes
  <2>4. ~rejected[c] => sent[c].idx = 0 /\ sent[c].msg = f.msg
    BY <1>3, <2>1 DEF FrameSent
  <2>5. Assembly(c)'
    BY <1>1, <1>4, <2>1, <2>3, <2>4 DEF Assembly, Assembled
  <2>6. \A d \in Conns : d # c => Own(d)' = Own(d)
    BY <1>1, <2>1 DEF Assembling, HandlerTypes, Own
  <2>7. QED
    BY <2>2, <2>5, <2>6, Joins
<1>7. QED
  BY <1>5, <1>6

(* The rest of a handler, and what clients do besides sending.             *)
LEMMA HandlerEnds ==
    ASSUME Assembling, NEW c \in Conns, GetOn(c) \/ PutOn(c) \/ ClearSession(c) \/ CloseOn(c)
    PROVE  Assembling'
<1>1. CASE GetOn(c)
  <2>1. UNCHANGED <<handler, session, frame, message, sent, rejected, echo>>
    BY <1>1 DEF GetOn
  <2>2. HandlerTypes' /\ Assembly(c)' /\ \A d \in Conns : d # c => Own(d)' = Own(d)
    BY <2>1 DEF Assembling, HandlerTypes, Assembly, Own
  <2>3. QED
    BY <2>2, Joins
<1>2. CASE PutOn(c) \/ CloseOn(c)
  <2>1. PICK to \in {"clearing", "closed"} :
           /\ handler' = [handler EXCEPT ![c] = to] /\ (to = "clearing" => handler[c] = "putting")
           /\ UNCHANGED <<session, frame, message, sent, rejected, echo>>
    BY <1>2 DEF PutOn, CloseOn, Goto
  <2>2. HandlerTypes' /\ handler'[c] = to
    BY <2>1 DEF Assembling, HandlerTypes, Steps
  <2>3. Assembly(c)'
    BY <2>1, <2>2 DEF Assembling, Assembly, Assembled
  <2>4. \A d \in Conns : d # c => Own(d)' = Own(d)
    BY <2>1 DEF Assembling, HandlerTypes, Own
  <2>5. QED
    BY <2>2, <2>3, <2>4, Joins
<1>3. CASE ClearSession(c)
  <2>1. /\ handler[c] = "clearing" /\ handler' = [handler EXCEPT ![c] = "ready"]
        /\ session' = [session EXCEPT ![c] = Nil] /\ message' = [message EXCEPT ![c] = Nil]
        /\ frame' = [frame EXCEPT ![c] = None] /\ UNCHANGED <<sent, rejected, echo>>
    BY <1>3 DEF ClearSession, Goto
  <2>2. HandlerTypes' /\ handler'[c] = "ready" /\ session'[c] = Nil
    BY <2>1 DEF Assembling, HandlerTypes, Steps
  <2>3. Assembly(c)'
    BY <2>1, <2>2 DEF Assembling, Assembly, Assembled, Completed
  <2>4. \A d \in Conns : d # c => Own(d)' = Own(d)
    BY <2>1 DEF Assembling, HandlerTypes, Own
  <2>5. QED
    BY <2>2, <2>3, <2>4, Joins
<1>4. QED
  BY <1>1, <1>2, <1>3

LEMMA ClientComesAndGoes ==
    ASSUME Assembling, NEW c \in Conns, OnClose(c) \/ CloseNil(c) \/ OnOpen(c)
    PROVE  Assembling'
<1>1. CASE OnClose(c) \/ CloseNil(c)
  <2>1. PICK to \in {"closing", "closed", "crashed"} :
           /\ handler' = [handler EXCEPT ![c] = to]
           /\ UNCHANGED <<session, frame, message, sent, rejected, echo>>
    BY <1>1 DEF OnClose, CloseNil, Goto
  <2>2. HandlerTypes' /\ handler'[c] = to
    BY <2>1 DEF Assembling, HandlerTypes, Steps
  <2>3. Assembly(c)'
    BY <2>1, <2>2 DEF Assembly, Assembled
  <2>4. \A d \in Conns : d # c => Own(d)' = Own(d)
    BY <2>1 DEF Assembling, HandlerTypes, Own
  <2>5. QED
    BY <2>2, <2>3, <2>4, Joins
<1>2. CASE OnOpen(c)
  <2>1. /\ handler' = [handler EXCEPT ![c] = "ready"] /\ session' = [session EXCEPT ![c] = Nil]
        /\ sent' = [sent EXCEPT ![c] = [msg |-> 0, idx |-> 0]] /\ rejected' = [rejected EXCEPT ![c] = FALSE]
        /\ echo' = [echo EXCEPT ![c] = <<>>] /\ UNCHANGED <<frame, message>>
    BY <1>2 DEF OnOpen
  <2>2. 0 \in 0..MaxMessages /\ 0 \in 0..MaxFrames
    BY Fields
  <2>3. /\ HandlerTypes' /\ handler'[c] = "ready" /\ session'[c] = Nil /\ sent'[c].idx = 0 /\ sent'[c].msg = 0
    BY <2>1, <2>2 DEF Assembling, HandlerTypes, Steps
  <2>4. Assembly(c)'
    BY <2>3 DEF Assembly, Assembled, Completed, Echoed
  <2>5. \A d \in Conns : d # c => Own(d)' = Own(d)
    BY <2>1 DEF Assembling, HandlerTypes, Own
  <2>6. QED
    BY <2>3, <2>4, <2>5, Joins
<1>3. QED
  BY <1>1, <1>2

(* Every step of the servers preserves it.                                 *)
LEMMA StepAssembling == Assembling /\ Owning /\ [Next]_vars => Assembling'
<1> SUFFICES ASSUME Assembling, Owning, [Next]_vars PROVE Assembling'
  OBVIOUS
<1>1. CASE \E c \in Conns : HandlerStep(c) \/ ClientStep(c)
  <2>1. PICK c \in Conns : HandlerStep(c) \/ ClientStep(c)
    BY <1>1
  <2>2. QED
    BY <2>1, FrameArrives, FrameRejected, FrameAppended, MessageGoesOn, HandlerEnds, ClientComesAndGoes
       DEF HandlerStep, ClientStep
<1>2. CASE GarbageCollect \/ UNCHANGED vars
  <2>1. UNCHANGED <<handler, session, frame, message, sent, rejected, echo>>
    BY <1>2 DEF GarbageCollect, vars
  <2>2. QED
    BY <2>1 DEF Assembling, HandlerTypes, Assembly
<1>3. QED
  BY <1>1, <1>2 DEF Next

(* The handlers' variables keep their types: a message in assembly stays   *)
(* in the buffer its connection got and is never longer than the buffer.   *)
THEOREM AssemblyTypeCorrect == Spec => []TypeOK
<1>1. PoolIInv /\ Assembling => TypeOK
  BY DEF PoolIInv, Assembling, HandlerTypes, TypeOK
<1>2. Spec => []PoolIInv
  BY UsesPool, PoolInvariance, PTL DEF PoolUse
<1>3. QED
  BY <1>1, <1>2, InitAssembling, StepAssembling, InitOwning, StepOwning, PTL DEF Spec

(* As long as a client has been sent no CloseMessage, its last echo is the *)
(* last message it completed, whole and in order, whatever the handlers of *)
(* the other connections do with the pool.                                 *)
THEOREM EchoesAreExact == Spec => []EchoExact
<1>1. Assembling => EchoExact
  BY DEF Assembling, Assembly, Assembled, EchoExact, Completed, Echoed
<1>2. QED
  BY <1>1, InitAssembling, StepAssembling, InitOwning, StepOwning, PTL DEF Spec
=============================================================================
