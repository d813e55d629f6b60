---------------------------- MODULE BufferLease ----------------------------
(***************************************************************************)
(* What fixedbufferpool.Pool promises its callers, with nothing of how it  *)
(* keeps the promise: a buffer is leased to at most one goroutine, and at  *)
(* most N buffers are leased at a time.                                    *)
(***************************************************************************)
EXTENDS Naturals, FiniteSets

CONSTANTS Goroutines,   \* callers of the pool
          Buffers,      \* identities of the byte arrays
          N,            \* the number of buffers the pool was created with
          None          \* no buffer

VARIABLE lease          \* the buffer each goroutine may write to, or None

Leased == {g \in Goroutines : lease[g] # None}

Init == lease = [g \in Goroutines |-> None]

Grant(g, b) ==
    /\ lease[g] = None
    /\ \A h \in Goroutines : lease[h] # b
    /\ Cardinality(Leased) < N
    /\ lease' = [lease EXCEPT ![g] = b]

GiveUp(g) ==
    /\ lease[g] # None
    /\ lease' = [lease EXCEPT ![g] = None]

Next == \E g \in Goroutines : GiveUp(g) \/ \E b \in Buffers : Grant(g, b)

Spec == Init /\ [][Next]_lease
============================================================================
