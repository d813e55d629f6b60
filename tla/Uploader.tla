------------------------------ MODULE Uploader ------------------------------
(***************************************************************************)
(* The data uploader: the client sends its two files as messages, again    *)
(* and again; the server writes each message, frame by frame, into a file  *)
(* of its own.  Creating or writing a file may fail, upon which the server *)
(* closes the connection; frames it has read before may still come.        *)
(***************************************************************************)
EXTENDS Naturals, Sequences

CONSTANTS FramesOf,     \* the number of frames of each message
          MaxRead       \* bound: frames read and not yet handled
ASSUME FramesAreSome == FramesOf \in Seq(Nat \ {0}) /\ MaxRead \in Nat

VARIABLES uplink,       \* the connection: open, closing or closed
          upNext,       \* the next frame the client sends
          read,         \* frames read from the connection
          output,       \* the variable of the upgrader's closures
          files,        \* what was written, message by message
          failure       \* os.Create or Write returned an error

uploadVars == <<uplink, upNext, read, output, files, failure>>

Messages == 1..Len(FramesOf)
Frames == [msg : Messages, n : Nat]
Fin(frame) == frame.n = FramesOf[frame.msg]
Whole(m) == [n \in 1..FramesOf[m] |-> [msg |-> m, n |-> n]]
Nil == 0
TypedNil == Len(files) + 1      \* (*os.File)(nil), stored in an io.WriteCloser

UploadTypeOK ==
    /\ uplink \in {"open", "closing", "closed"} /\ failure \subseteq {"create", "write"}
    /\ upNext.msg \in Messages => upNext.n \in 1..FramesOf[upNext.msg]
    /\ read \in Seq(Frames)
    /\ output \in Nil..TypedNil
    /\ files \in Seq([data : Seq(Frames), open : BOOLEAN, fin : BOOLEAN])

UploadInit ==
    /\ uplink = "open" /\ upNext = [msg |-> 1, n |-> 1] /\ read = <<>>
    /\ output = Nil /\ files = <<>> /\ failure = {}

-----------------------------------------------------------------------------
(* The client's WriteMessage, of data1 and data2 by turns. *)
UploadFrame ==
    /\ uplink = "open" /\ upNext.msg \in Messages /\ Len(read) < MaxRead
    /\ read' = Append(read, upNext)
    /\ upNext' = IF Fin(upNext) THEN [msg |-> upNext.msg + 1, n |-> 1] ELSE [upNext EXCEPT !.n = @ + 1]
    /\ UNCHANGED <<uplink, output, files, failure>>

NextFrame == uplink # "closed" /\ read # <<>> /\ read' = Tail(read)
Create == Append(files, [data |-> <<>>, open |-> TRUE, fin |-> FALSE])
Close == uplink' = IF uplink = "open" THEN "closing" ELSE uplink

(* OnDataFrame: the file cannot be created.  output is not nil any more.   *)
CreateFails ==
    /\ NextFrame /\ output = Nil
    /\ output' = TypedNil /\ failure' = failure \cup {"create"} /\ Close
    /\ UNCHANGED <<upNext, files>>

(* A write fails: of the disk, or because the file is nil or closed. *)
WriteFails ==
    /\ NextFrame /\ output # TypedNil
    /\ files' = IF output = Nil THEN Create ELSE files
    /\ output' = IF output = Nil THEN Len(files') ELSE output
    /\ failure' = failure \cup {"write"} /\ Close /\ UNCHANGED upNext

NilWrite ==
    /\ NextFrame /\ output = TypedNil /\ Close
    /\ UNCHANGED <<upNext, output, files, failure>>

(* The frame is written; the last one of a message closes the file. *)
WriteFrame ==
    /\ NextFrame /\ output # TypedNil
    /\ \E all \in {IF output = Nil THEN Create ELSE files} :
          files' = [all EXCEPT ![Len(all)] =
                       [data |-> Append(@.data, Head(read)), open |-> ~Fin(Head(read)), fin |-> Fin(Head(read))]]
    /\ output' = IF Fin(Head(read)) THEN Nil ELSE Len(files')
    /\ UNCHANGED <<uplink, upNext, failure>>

(* Mutant: OnClose leaves the file open. *)
UploadClosedOnly ==
    /\ uplink' = "closed" /\ uplink # "closed"
    /\ UNCHANGED <<upNext, read, output, files, failure>>

(* OnClose, after c.Close or when the client went away. *)
UploadClosed ==
    /\ uplink' = "closed" /\ uplink # "closed"
    /\ files' = IF output \in 1..Len(files) THEN [files EXCEPT ![output].open = FALSE] ELSE files
    /\ UNCHANGED <<upNext, read, output, failure>>

UploadNext == UploadFrame \/ CreateFails \/ WriteFails \/ NilWrite \/ WriteFrame \/ UploadClosed

-----------------------------------------------------------------------------
(* A file that the last frame of a message has closed is that message, in  *)
(* the order of the messages.  Only a failed write may leave a gap: the    *)
(* frames read before the connection closed are still written behind it.   *)
(* A failed os.Create leaves none: its nil pointer makes output an          *)
(* interface that is not nil, so that no later frame starts a file in the   *)
(* middle of the message.                                                   *)
FilesAreMessages ==
    "write" \notin failure => \A i \in 1..Len(files) : files[i].fin => files[i].data = Whole(i)

(* No file is left open: the only one that may be is output, which OnClose *)
(* closes.                                                                 *)
NoFileLeaks ==
    \A i \in 1..Len(files) : files[i].open => output = i /\ uplink # "closed"
=============================================================================
