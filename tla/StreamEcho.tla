----------------------------- MODULE StreamEcho -----------------------------
(***************************************************************************)
(* The TCP echo programs.  echo and netstd: a client writes a buffer, the  *)
(* server echoes what it reads, in parts, and the client collects until it *)
(* has as much as it wrote or its time is over.  test: the server pushes   *)
(* the buffer when a connection opens and the client reads until it has    *)
(* it.  A server whose write queue would exceed MaxWriteBufferSize closes  *)
(* the connection.                                                         *)
(***************************************************************************)
EXTENDS Naturals, Sequences, SequencesExt

CONSTANTS BufSize,              \* units of the client's, or the test's, buffer
          MaxWriteBufferSize,   \* of the server
          KernelBuffer          \* what the sockets between server and client hold

(* 4 MB of echo's client and 6 MB of the test, of 6 MB. *)
ASSUME BufferFits ==
    /\ BufSize \in Nat \ {0} /\ MaxWriteBufferSize \in Nat /\ BufSize =< MaxWriteBufferSize
    /\ KernelBuffer \in Nat \ {0}

VARIABLES variant,      \* echo, netstd or test
          begun,        \* the client has written, the server has pushed
          uplinked,     \* units on the way to the server
          queue,        \* the server's write list
          kernel,       \* units on the way to the client
          srvConn,      \* the server's connection: open or overflow
          ret,          \* what the client has
          finished,     \* done is closed
          outcome       \* of the client

streamVars == <<variant, begun, uplinked, queue, kernel, srvConn, ret, finished, outcome>>

buf == [n \in 1..BufSize |-> n]
Units == Seq(1..BufSize)

StreamTypeOK ==
    /\ variant \in {"echo", "netstd", "test"} /\ begun \in BOOLEAN
    /\ uplinked \in Units /\ queue \in Units /\ kernel \in Units /\ ret \in Units
    /\ Len(queue) =< MaxWriteBufferSize /\ Len(kernel) =< KernelBuffer
    /\ srvConn \in {"open", "overflow"} /\ finished \in BOOLEAN
    /\ outcome \in {"none", "success", "timeout"}

StreamInit ==
    /\ variant \in {"echo", "netstd", "test"} /\ begun = FALSE
    /\ uplinked = <<>> /\ queue = <<>> /\ kernel = <<>> /\ ret = <<>>
    /\ srvConn = "open" /\ finished = FALSE /\ outcome = "none"

-----------------------------------------------------------------------------
(* Write: directly to the socket if the list is empty, as much as it takes;*)
(* the rest into the list, unless that becomes too long.                   *)
ServerWrites(data) ==
    \E n \in 0..(IF queue = <<>> THEN Len(data) ELSE 0) :
        /\ n =< KernelBuffer - Len(kernel)
        /\ IF Len(queue) + Len(data) - n > MaxWriteBufferSize
           THEN srvConn' = "overflow" /\ UNCHANGED <<queue, kernel>>
           ELSE /\ kernel' = kernel \o SubSeq(data, 1, n)
                /\ queue' = queue \o SubSeq(data, n + 1, Len(data))
                /\ UNCHANGED srvConn

(* The test's OnOpen: writeComplete, whose first Write takes everything. *)
OnOpenWrites ==
    /\ variant = "test" /\ ~begun /\ begun' = TRUE /\ ServerWrites(buf)
    /\ UNCHANGED <<variant, uplinked, ret, finished, outcome>>

(* The clients of echo and netstd. *)
ClientWritesBuf ==
    /\ variant # "test" /\ ~begun /\ begun' = TRUE /\ uplinked' = buf
    /\ UNCHANGED <<variant, queue, kernel, srvConn, ret, finished, outcome>>

(* The servers' OnData: the part that has arrived is written. *)
ServerOnData ==
    \E n \in 1..Len(uplinked) :
        /\ variant # "test" /\ srvConn = "open"
        /\ uplinked' = SubSeq(uplinked, n + 1, Len(uplinked))
        /\ ServerWrites(SubSeq(uplinked, 1, n))
        /\ UNCHANGED <<variant, begun, ret, finished, outcome>>

(* The poller writes the list out as the socket takes it. *)
ServerFlush ==
    \E n \in 1..Len(queue) :
        /\ n =< KernelBuffer - Len(kernel) /\ srvConn = "open"
        /\ kernel' = kernel \o SubSeq(queue, 1, n) /\ queue' = SubSeq(queue, n + 1, Len(queue))
        /\ UNCHANGED <<variant, begun, uplinked, srvConn, ret, finished, outcome>>

(* OnData of the clients; the length decides, then the comparison. *)
ClientOnData ==
    \E n \in 1..Len(kernel) :
        /\ variant # "test" /\ kernel' = SubSeq(kernel, n + 1, Len(kernel))
        /\ ret' = ret \o SubSeq(kernel, 1, n)
        /\ finished' = (finished \/ ret' = buf)
        /\ UNCHANGED <<variant, begun, uplinked, queue, srvConn, outcome>>

ClientSelects ==
    /\ variant # "test" /\ outcome = "none"
    /\ outcome' \in {"timeout"} \cup (IF finished THEN {"success"} ELSE {})
    /\ UNCHANGED <<variant, begun, uplinked, queue, kernel, srvConn, ret, finished>>

(* The test's client: it reads, also after the end of the stream, until it *)
(* has as much as the buffer.                                              *)
TestReads ==
    \E n \in 1..Len(kernel) :
        /\ variant = "test" /\ outcome = "none" /\ kernel' = SubSeq(kernel, n + 1, Len(kernel))
        /\ ret' = ret \o SubSeq(kernel, 1, n)
        /\ outcome' = IF ret' = buf THEN "success" ELSE outcome
        /\ UNCHANGED <<variant, begun, uplinked, queue, srvConn, finished>>

StreamNext ==
    \/ OnOpenWrites \/ ClientWritesBuf \/ ServerOnData \/ ServerFlush
    \/ ClientOnData \/ ClientSelects \/ TestReads

-----------------------------------------------------------------------------
(* A client that does not read for a while does not cost the connection:   *)
(* all that can be in the server's list is one buffer.                     *)
NeverOverflows == srvConn = "open"

(* The echo comes in order and whole: success is the client's own buffer,  *)
(* and what it has so far is the beginning of it.                          *)
EchoInOrder == IsPrefix(ret, buf) /\ (outcome = "success" => ret = buf)

(* The test's client has no timeout and reads on at the end of the stream; *)
(* it passes because the server does not close before everything is out.   *)
TestPasses == variant = "test" => outcome = "success"
=============================================================================
