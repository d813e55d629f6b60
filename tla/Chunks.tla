------------------------------- MODULE Chunks -------------------------------
(***************************************************************************)
(* A byte stream hands over what is in flight in chunks of any size: a     *)
(* read takes a prefix p of s and leaves the rest.                         *)
(***************************************************************************)
EXTENDS Naturals, Sequences

Prefixes(s) == {SubSeq(s, 1, n) : n \in 1..Len(s)}

Rest(s, p) == SubSeq(s, Len(p) + 1, Len(s))
=============================================================================
