----------------------------- MODULE EchoStream -----------------------------
(***************************************************************************)
(* A stream: what is read is what was written, in order, each byte (or     *)
(* message) once, however it is cut into chunks on the way.  An echo       *)
(* client reads back what it wrote; in a tunnel one end reads what the     *)
(* other wrote.                                                            *)
(***************************************************************************)
EXTENDS Naturals, Sequences

CONSTANT Bytes

VARIABLES written, read

vars == <<written, read>>

Init == written = <<>> /\ read = <<>>

Write ==
    /\ written' \in Seq(Bytes)
    /\ Len(written') > Len(written)
    /\ SubSeq(written', 1, Len(written)) = written
    /\ UNCHANGED read

Read ==
    /\ \E n \in (Len(read) + 1)..Len(written) : read' = SubSeq(written, 1, n)
    /\ UNCHANGED written

Next == Write \/ Read

Spec == Init /\ [][Next]_vars
=============================================================================
