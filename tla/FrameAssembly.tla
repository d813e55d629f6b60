--------------------------- MODULE FrameAssembly ---------------------------
(***************************************************************************)
(* websocket/server_manual_frame_assembly/server.go and its TLS twin       *)
(* websocket_tls/server_manual_frame_assembly/server.go: echo servers that *)
(* put the frames of a websocket message together themselves, in a buffer  *)
(* of a fixedbufferpool.Pool that all connections share.  The buffer of an *)
(* unfinished message is the connection's session.                         *)
(*                                                                         *)
(* A connection's handlers run one after the other (nbio's Execute queue,  *)
(* external); handlers of different connections run in parallel and meet   *)
(* in the pool.  handler[c] is where connection c stands:                  *)
(*   ready     no handler is running                                       *)
(*   frame     in OnDataFrame: in Get, or about to check the size          *)
(*   appended  in OnDataFrame: the frame has been appended                 *)
(*   putting   in OnDataFrame: in Put                                      *)
(*   clearing  in OnDataFrame: about to SetSession(nil)                    *)
(*   closing   in OnClose: in Put                                          *)
(*   closed    OnClose has returned                                        *)
(*   crashed   OnClose has panicked (nbio recovers the panic and goes on)  *)
(***************************************************************************)
EXTENDS BufferPool, Sequences

CONSTANTS MessageSize,  \* cap of a pool buffer
          FrameSizes,   \* sizes of the frames clients send
          MaxMessages,  \* bound: messages on one connection
          MaxFrames,    \* bound: frames of message 1; each later message has one less
          GuardedClose  \* TRUE: the TLS server's OnClose, FALSE: the plain one's

ASSUME SizesAreNat == MessageSize \in Nat /\ FrameSizes \subseteq Nat
ASSUME BoundsAreNat == MaxMessages \in Nat /\ MaxFrames \in Nat

VARIABLES handler,      \* where each connection stands
          session,      \* c.Session(): the unfinished message, or Nil
          frame,        \* the frame OnDataFrame is called with
          message,      \* OnDataFrame's messageDataSoFar
          sent,         \* the client's position: message and frame number
          rejected,     \* a CloseMessage has been written to the client
          echo          \* the frames of the last message written back

vars == <<poolVars, handler, session, frame, message, sent, rejected, echo>>

(* The goroutines that use the pool are the connections' handlers. *)
Conns == Goroutines

Steps == {"ready", "frame", "appended", "putting", "clearing",
          "closing", "closed", "crashed"}

Frame == [msg : 1..MaxMessages, idx : 1..MaxFrames, fin : BOOLEAN, size : FrameSizes]

(* A message in a pool buffer: the array, which append has never had to    *)
(* leave, the frames in it and their length.                               *)
Slice == [buf : Buffers, data : Seq(Frame), len : 0..MessageSize]
Nil == [buf |-> None, data |-> <<>>, len |-> 0]

TypeOK ==
    /\ PoolTypeOK
    /\ handler \in [Conns -> Steps]
    /\ session \in [Conns -> Slice \cup {Nil}]
    /\ frame \in [Conns -> Frame \cup {None}]
    /\ message \in [Conns -> Slice \cup {Nil}]
    /\ sent \in [Conns -> [msg : 0..MaxMessages, idx : 0..MaxFrames]]
    /\ rejected \in [Conns -> BOOLEAN]
    /\ echo \in [Conns -> Seq(Frame)]

Goto(c, from, to) == handler[c] = from /\ handler' = [handler EXCEPT ![c] = to]

(* A client sends the frames of a message in order and never mixes two     *)
(* messages; idx 0 in sent means that no message is unfinished.            *)
NextFrames(c) ==
    {f \in Frame :
        /\ IF sent[c].idx = 0 THEN f.msg = sent[c].msg + 1 /\ f.idx = 1
                              ELSE f.msg = sent[c].msg /\ f.idx = sent[c].idx + 1
        /\ f.msg + f.idx > MaxFrames => f.fin}

Receive(c, f) ==
    /\ f \in NextFrames(c)
    /\ sent' = [sent EXCEPT ![c] = [msg |-> f.msg, idx |-> IF f.fin THEN 0 ELSE f.idx]]

(* messageDataSoFar before the frame: the session's, or an empty buffer.   *)
SoFar(c) == IF session[c] = Nil
            THEN [buf |-> slice[c], data |-> <<>>, len |-> 0]
            ELSE session[c]

(* Mutant: the size check is off by one. *)
TooLargeByOne(c) == MessageSize + 1 < SoFar(c).len + frame[c].size

TooLarge(c) == MessageSize < SoFar(c).len + frame[c].size

-----------------------------------------------------------------------------
Init ==
    /\ PoolInit
    /\ handler = [c \in Conns |-> "ready"]
    /\ session = [c \in Conns |-> Nil]
    /\ frame = [c \in Conns |-> None]
    /\ message = [c \in Conns |-> Nil]
    /\ sent = [c \in Conns |-> [msg |-> 0, idx |-> 0]]
    /\ rejected = [c \in Conns |-> FALSE]
    /\ echo = [c \in Conns |-> <<>>]

(* Mutant: `if fin` without the test of the session. *)
EchoAnyFin(c) ==
    /\ handler[c] = "ready"
    /\ \E f \in NextFrames(c) :
          f.fin /\ Receive(c, f) /\ echo' = [echo EXCEPT ![c] = <<f>>]
    /\ UNCHANGED <<poolVars, handler, session, frame, message, rejected>>

(* OnDataFrame, "frame == message": echoed without a pool buffer.          *)
EchoFrame(c) ==
    /\ handler[c] = "ready" /\ session[c] = Nil
    /\ \E f \in NextFrames(c) :
          f.fin /\ Receive(c, f) /\ echo' = [echo EXCEPT ![c] = <<f>>]
    /\ UNCHANGED <<poolVars, handler, session, frame, message, rejected>>

(* OnDataFrame, first frame of a longer message: Get is called.            *)
FirstFrame(c) ==
    /\ Goto(c, "ready", "frame")
    /\ session[c] = Nil
    /\ \E f \in NextFrames(c) :
          ~f.fin /\ Receive(c, f) /\ frame' = [frame EXCEPT ![c] = f]
    /\ GetFast(c) \/ GetMiss(c)
    /\ UNCHANGED <<session, message, rejected, echo>>

(* OnDataFrame, a further frame of the message in the session.             *)
LaterFrame(c) ==
    /\ Goto(c, "ready", "frame")
    /\ session[c] # Nil
    /\ \E f \in NextFrames(c) : Receive(c, f) /\ frame' = [frame EXCEPT ![c] = f]
    /\ UNCHANGED <<poolVars, session, message, rejected, echo>>

(* Get goes on until it has a buffer.                                      *)
GetOn(c) ==
    /\ handler[c] = "frame"
    /\ GetWake(c) \/ PoolGet(c)
    /\ UNCHANGED <<handler, session, frame, message, sent, rejected, echo>>

(* Get returns ErrDeadlineExceeded: a CloseMessage is written, the session *)
(* stays nil and the connection open.                                      *)
GetFails(c) ==
    /\ Goto(c, "frame", "ready")
    /\ GetTimeout(c)
    /\ frame' = [frame EXCEPT ![c] = None]
    /\ rejected' = [rejected EXCEPT ![c] = TRUE]
    /\ UNCHANGED <<session, message, sent, echo>>

(* "websocket message too large": the session is left as it was, so a      *)
(* buffer that came from Get in this call is forgotten.                    *)
RefuseLarge(c) ==
    /\ Goto(c, "frame", "ready")
    /\ pc[c] = "holding" /\ TooLarge(c)
    /\ IF session[c] = Nil THEN Discard(c) ELSE UNCHANGED poolVars
    /\ frame' = [frame EXCEPT ![c] = None]
    /\ rejected' = [rejected EXCEPT ![c] = TRUE]
    /\ UNCHANGED <<session, message, sent, echo>>

(* append(messageDataSoFar, frameData...): beyond cap Go moves the data to *)
(* another, larger array.                                                  *)
Extend(c) ==
    LET size == SoFar(c).len + frame[c].size
        buf  == IF MessageSize < size THEN Grown ELSE SoFar(c).buf
    IN  /\ message' = [message EXCEPT ![c] =
              [buf |-> buf, data |-> SoFar(c).data \o <<frame[c]>>, len |-> size]]
        /\ slice' = [slice EXCEPT ![c] = buf]

AppendFrame(c) ==
    /\ Goto(c, "frame", "appended")
    /\ pc[c] = "holding" /\ ~TooLarge(c)
    /\ Extend(c)
    /\ UNCHANGED <<buffers, pool, pc, lost, session, frame, sent, rejected, echo>>

(* Not the last frame: the message so far becomes the session.             *)
KeepMessage(c) ==
    /\ Goto(c, "appended", "ready")
    /\ ~frame[c].fin
    /\ session' = [session EXCEPT ![c] = message[c]]
    /\ message' = [message EXCEPT ![c] = Nil]
    /\ frame' = [frame EXCEPT ![c] = None]
    /\ UNCHANGED <<poolVars, sent, rejected, echo>>

(* The last frame: the message is written back and Put is called.          *)
EchoMessage(c) ==
    /\ Goto(c, "appended", "putting")
    /\ frame[c].fin
    /\ echo' = [echo EXCEPT ![c] = message[c].data]
    /\ Put(c)
    /\ UNCHANGED <<session, frame, message, sent, rejected>>

PutOn(c) ==
    /\ Goto(c, "putting", "clearing")
    /\ PoolPut(c)
    /\ UNCHANGED <<session, frame, message, sent, rejected, echo>>

(* Mutant: no SetSession(nil). *)
KeepSession(c) ==
    /\ Goto(c, "clearing", "ready")
    /\ message' = [message EXCEPT ![c] = Nil]
    /\ frame' = [frame EXCEPT ![c] = None]
    /\ UNCHANGED <<poolVars, session, sent, rejected, echo>>

(* SetSession(nil), after Put has returned.                                *)
ClearSession(c) ==
    /\ Goto(c, "clearing", "ready")
    /\ session' = [session EXCEPT ![c] = Nil]
    /\ message' = [message EXCEPT ![c] = Nil]
    /\ frame' = [frame EXCEPT ![c] = None]
    /\ UNCHANGED <<poolVars, sent, rejected, echo>>

(* Mutant: OnClose does not put the buffer back. *)
OnCloseForgets(c) ==
    /\ Goto(c, "ready", "closed")
    /\ session[c] # Nil
    /\ UNCHANGED <<poolVars, session, frame, message, sent, rejected, echo>>

(* OnClose with an unfinished message: its buffer is put back.             *)
OnClose(c) ==
    /\ Goto(c, "ready", "closing")
    /\ session[c] # Nil
    /\ Put(c)
    /\ UNCHANGED <<session, frame, message, sent, rejected, echo>>

CloseOn(c) ==
    /\ Goto(c, "closing", "closed")
    /\ PoolPut(c)
    /\ UNCHANGED <<session, frame, message, sent, rejected, echo>>

(* OnClose without one: the TLS server's checked assertion leaves b nil,   *)
(* the plain server's curBuf.([]byte) panics.                              *)
CloseNil(c) ==
    /\ Goto(c, "ready", IF GuardedClose THEN "closed" ELSE "crashed")
    /\ session[c] = Nil
    /\ UNCHANGED <<poolVars, session, frame, message, sent, rejected, echo>>

(* onWebsocket: another client connects; its Conn has no session.          *)
OnOpen(c) ==
    /\ handler[c] \in {"closed", "crashed"}
    /\ handler' = [handler EXCEPT ![c] = "ready"]
    /\ session' = [session EXCEPT ![c] = Nil]
    /\ sent' = [sent EXCEPT ![c] = [msg |-> 0, idx |-> 0]]
    /\ rejected' = [rejected EXCEPT ![c] = FALSE]
    /\ echo' = [echo EXCEPT ![c] = <<>>]
    /\ UNCHANGED <<poolVars, frame, message>>

GarbageCollect ==
    /\ Collect
    /\ UNCHANGED <<handler, session, frame, message, sent, rejected, echo>>

(* What a handler that has been entered does next.                         *)
HandlerStep(c) ==
    \/ GetOn(c) \/ GetFails(c) \/ RefuseLarge(c) \/ AppendFrame(c)
    \/ KeepMessage(c) \/ EchoMessage(c) \/ PutOn(c) \/ ClearSession(c)
    \/ CloseOn(c)

(* What clients decide.                                                    *)
ClientStep(c) ==
    \/ EchoFrame(c) \/ FirstFrame(c) \/ LaterFrame(c)
    \/ OnClose(c) \/ CloseNil(c) \/ OnOpen(c)

Next == GarbageCollect \/ \E c \in Conns : HandlerStep(c) \/ ClientStep(c)

(* A running handler is scheduled; no client has to send or to close.      *)
Fairness == \A c \in Conns : WF_vars(HandlerStep(c))

Spec == Init /\ [][Next]_vars
FairSpec == Spec /\ Fairness

-----------------------------------------------------------------------------
(* The connections use the pool the way BufferPool assumes of its callers: *)
(* every step is a step of the pool's specification or leaves it alone.    *)
PoolUse == PoolSpec

(* A connection between two handlers owns a pool buffer exactly when it    *)
(* has an unfinished message, and its session is that buffer; a closed one *)
(* owns none.  (SetSession and Put on every path of OnDataFrame, OnClose.) *)
SessionOwnsBuffer ==
    \A c \in Conns :
        /\ handler[c] = "ready" =>
              IF session[c] = Nil THEN pc[c] = "idle"
              ELSE pc[c] = "holding" /\ slice[c] = session[c].buf
        /\ handler[c] \in {"closed", "crashed"} => pc[c] = "idle"

(* d is all of message m, in order.                                        *)
WholeMessage(d, m) ==
    \A i \in 1..Len(d) : d[i].msg = m /\ d[i].idx = i /\ (d[i].fin <=> i = Len(d))

(* As long as a client has been sent no CloseMessage, what it was last     *)
(* sent is the last message it completed: whole, in order, nothing of      *)
(* another connection's or an earlier message's, none skipped.             *)
EchoExact ==
    \A c \in Conns :
        LET completed == IF sent[c].idx = 0 THEN sent[c].msg ELSE sent[c].msg - 1
        IN  handler[c] = "ready" /\ ~rejected[c] /\ completed > 0
                => echo[c] # <<>> /\ WholeMessage(echo[c], completed)

(* No connection has a message in assembly, and none a handler running.    *)
Idle == \A c \in Conns : handler[c] \in {"ready", "closed", "crashed"} /\ session[c] = Nil

(* The pool does not wear out by timeouts, refusals of later frames or     *)
(* closed connections: an idle server has all its tokens but those of the  *)
(* buffers that RefuseLarge forgot (every path of OnDataFrame and OnClose).*)
IdleKeepsAll == Idle => buffers + lost = N

(* The README's promise, that the pool limits the messages in flight: a    *)
(* server with none in flight can admit one.                               *)
AdmitsWhenIdle == Idle => buffers > 0

(* server.go:29, "frame == message": a frame that is echoed by itself is   *)
(* a message.                                                              *)
FrameIsMessage ==
    \A c \in Conns : Len(echo[c]) = 1 => echo[c][1].idx = 1

(* server.go:59, curBuf.([]byte): OnClose finds a []byte in the session.   *)
CloseFindsBuffer == \A c \in Conns : handler[c] # "crashed"

(* Every handler returns, even when the connections that have all buffers  *)
(* never finish their messages: Get's timeout.                             *)
HandlersReturn ==
    \A c \in Conns :
        handler[c] = "frame" ~> handler[c] \in {"ready", "closed"}
=============================================================================
