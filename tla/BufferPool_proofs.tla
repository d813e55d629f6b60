-------------------------- MODULE BufferPool_proofs --------------------------
(***************************************************************************)
(* Proofs about BufferPool, for any finite set of goroutines, any set of   *)
(* buffers and any capacity N.                                             *)
(*                                                                         *)
(* None of the three invariants is inductive alone.  That Put does not     *)
(* panic needs the token account (a goroutine that holds a buffer owns a   *)
(* token, so the channel is not full), and needs the slice to be one of    *)
(* the pool's; that buffers are exclusive needs to know which states have  *)
(* a slice at all.  PoolIInv is the conjunction that is inductive.             *)
(***************************************************************************)
EXTENDS BufferPool, FiniteSetTheorems, TLAPS

(* A goroutine has a slice in exactly the states between the return of     *)
(* sync.Pool.Get and the call of sync.Pool.Put, and it is a pool buffer.   *)
SliceMatchesPc ==
    \A g \in Goroutines :
        IF pc[g] \in {"holding", "returning"} THEN slice[g] \in Buffers
                                              ELSE slice[g] = None

PoolIInv == PoolTypeOK /\ SliceMatchesPc /\ TokensAccounted /\ Exclusive /\ NoPanic

USE GoroutinesFinite, CapacityIsNat, NotABuffer

(* Every set of goroutines is finite and has a cardinality. *)
LEMMA CountIsNat ==
    ASSUME NEW S \in SUBSET Goroutines
    PROVE  IsFiniteSet(S) /\ Cardinality(S) \in Nat
<1>1. IsFiniteSet(S)
  BY FS_Subset
<1>2. QED
  BY <1>1, FS_CardinalityType

(* A goroutine that receives a token joins the owners: one more of them. *)
LEMMA OwnersGain ==
    ASSUME PoolTypeOK, NEW g \in Goroutines,
           pc[g] \notin {"granted", "holding"},
           NEW s \in {"granted", "holding"},
           pc' = [pc EXCEPT ![g] = s]
    PROVE  Cardinality(Owners') = Cardinality(Owners) + 1
<1>1. Owners' = Owners \cup {g} /\ g \notin Owners
  BY DEF Owners, PoolTypeOK
<1>2. QED
  BY <1>1, CountIsNat, FS_AddElement DEF Owners

(* An owner is counted. *)
LEMMA OwnersCounted ==
    ASSUME NEW g \in Owners
    PROVE  Cardinality(Owners) \in Nat \ {0}
<1>1. IsFiniteSet(Owners) /\ Cardinality(Owners) \in Nat
  BY CountIsNat DEF Owners
<1>2. Cardinality(Owners \ {g}) = Cardinality(Owners) - 1
  BY <1>1, FS_RemoveElement
<1>3. Cardinality(Owners \ {g}) \in Nat
  BY CountIsNat DEF Owners
<1>4. QED
  BY <1>1, <1>2, <1>3

(* A goroutine that gives its token up leaves the owners. *)
LEMMA OwnersLose ==
    ASSUME PoolTypeOK, NEW g \in Goroutines,
           pc[g] \in {"granted", "holding"},
           NEW s \in PoolStates \ {"granted", "holding"},
           pc' = [pc EXCEPT ![g] = s]
    PROVE  Cardinality(Owners') = Cardinality(Owners) - 1
<1>1. Owners' = Owners \ {g} /\ g \in Owners
  BY DEF Owners, PoolTypeOK, PoolStates
<1>2. IsFiniteSet(Owners)
  BY CountIsNat DEF Owners
<1>3. QED
  BY <1>1, <1>2, FS_RemoveElement

(* Any other move leaves the set of owners as it is. *)
LEMMA OwnersKeep ==
    ASSUME PoolTypeOK, NEW g \in Goroutines, NEW s \in PoolStates,
           pc[g] \in {"granted", "holding"} <=> s \in {"granted", "holding"},
           pc' = [pc EXCEPT ![g] = s]
    PROVE  Owners' = Owners
BY DEF Owners, PoolTypeOK

LEMMA PoolInitIInv == PoolInit => PoolIInv
<1> SUFFICES ASSUME PoolInit PROVE PoolIInv
  OBVIOUS
<1>1. Owners = {}
  BY DEF PoolInit, Owners
<1>2. TokensAccounted
  BY <1>1, FS_EmptySet DEF PoolInit, TokensAccounted
<1>3. QED
  BY <1>2 DEF PoolInit, PoolIInv, PoolTypeOK, PoolStates, SliceMatchesPc, Exclusive, NoPanic, InUse

(* Under PoolIInv a goroutine that holds a buffer owns a token, so the channel *)
(* has room for it: neither of Put's panics is reachable.                  *)
LEMMA HolderMayPut ==
    ASSUME PoolIInv, NEW g \in Goroutines, pc[g] = "holding"
    PROVE  ~PutPanics(g) /\ buffers + lost < N
<1>1. slice[g] \in Buffers
  BY DEF PoolIInv, SliceMatchesPc
<1>2. Cardinality(Owners) \in Nat \ {0}
  BY OwnersCounted DEF Owners
<1>3. buffers + lost < N
  BY <1>2 DEF PoolIInv, PoolTypeOK, TokensAccounted
<1>4. QED
  BY <1>1, <1>3 DEF PutPanics, PoolIInv, PoolTypeOK

-----------------------------------------------------------------------------
(* The token account survives every step: what a step adds to the channel, *)
(* to the owners or to the lost tokens it takes from another of the three. *)
LEMMA StepTokens == PoolIInv /\ [PoolNext]_poolVars => TokensAccounted'
<1> SUFFICES ASSUME PoolIInv, [PoolNext]_poolVars PROVE TokensAccounted'
  OBVIOUS
<1> USE DEF PoolIInv, TokensAccounted
<1>0. PoolTypeOK /\ Cardinality(Owners) \in Nat
  BY CountIsNat DEF Owners
<1>1. ASSUME NEW g \in Goroutines, GetFast(g) \/ GetWake(g) PROVE TokensAccounted'
  <2>1. Cardinality(Owners') = Cardinality(Owners) + 1
    BY <1>0, <1>1, OwnersGain DEF GetFast, GetWake, Move
  <2>2. QED
    BY <1>0, <1>1, <2>1 DEF GetFast, GetWake, PoolTypeOK
<1>2. ASSUME NEW g \in Goroutines, GetMiss(g) \/ GetTimeout(g) \/ PoolGet(g) \/ PoolPut(g)
      PROVE  TokensAccounted'
  <2>1. Owners' = Owners
    BY <1>0, <1>2 DEF GetMiss, GetTimeout, PoolGet, PoolPut, Move, Owners, PoolTypeOK
  <2>2. QED
    BY <1>2, <2>1 DEF GetMiss, GetTimeout, PoolGet, PoolPut
<1>3. ASSUME NEW g \in Goroutines, Put(g) PROVE TokensAccounted'
  <2>1. ~PutPanics(g)
    BY <1>3, HolderMayPut DEF Put, Move
  <2>2. Cardinality(Owners') = Cardinality(Owners) - 1
    BY <1>0, <1>3, <2>1, OwnersLose DEF Put, Move, PoolStates
  <2>3. QED
    BY <1>0, <1>3, <2>1, <2>2 DEF Put, PoolTypeOK
<1>4. ASSUME NEW g \in Goroutines, Discard(g) PROVE TokensAccounted'
  <2>1. Cardinality(Owners') = Cardinality(Owners) - 1
    BY <1>0, <1>4, OwnersLose DEF Discard, Move, PoolStates
  <2>2. QED
    BY <1>0, <1>4, <2>1 DEF Discard, PoolTypeOK
<1>5. CASE Collect \/ UNCHANGED poolVars
  BY <1>5 DEF Collect, poolVars, Owners
<1>6. QED
  BY <1>1, <1>2, <1>3, <1>4, <1>5 DEF PoolNext, Get

(* Where a goroutine stands, what it has and the ranges of the counters.   *)
LEMMA StepShape == PoolIInv /\ [PoolNext]_poolVars => (PoolTypeOK /\ SliceMatchesPc /\ NoPanic)'
<1> SUFFICES ASSUME PoolIInv, [PoolNext]_poolVars PROVE (PoolTypeOK /\ SliceMatchesPc /\ NoPanic)'
  OBVIOUS
<1> USE DEF PoolIInv, PoolTypeOK, SliceMatchesPc, NoPanic, PoolStates
<1>1. ASSUME NEW g \in Goroutines, Get(g) PROVE (PoolTypeOK /\ SliceMatchesPc /\ NoPanic)'
  BY <1>1 DEF Get, GetFast, GetMiss, GetWake, GetTimeout, PoolGet, Move
<1>2. ASSUME NEW g \in Goroutines, Put(g) PROVE (PoolTypeOK /\ SliceMatchesPc /\ NoPanic)'
  <2>1. ~PutPanics(g) /\ buffers + lost < N
    BY <1>2, HolderMayPut DEF Put, Move
  <2>2. QED
    BY <1>2, <2>1 DEF Put, Move
<1>3. ASSUME NEW g \in Goroutines, PoolPut(g) PROVE (PoolTypeOK /\ SliceMatchesPc /\ NoPanic)'
  BY <1>3 DEF PoolPut, Move
<1>4. ASSUME NEW g \in Goroutines, Discard(g) PROVE (PoolTypeOK /\ SliceMatchesPc /\ NoPanic)'
  <2>1. buffers + lost < N
    BY <1>4, HolderMayPut DEF Discard, Move
  <2>2. QED
    BY <1>4, <2>1 DEF Discard, Move
<1>5. CASE Collect \/ UNCHANGED poolVars
  BY <1>5 DEF Collect, poolVars
<1>6. QED
  BY <1>1, <1>2, <1>3, <1>4, <1>5 DEF PoolNext

(* Only PoolGet gives a goroutine an array, one that nobody uses, and only *)
(* PoolPut gives one to the cache, taking it from its only user.           *)
LEMMA StepExclusive == PoolIInv /\ [PoolNext]_poolVars => Exclusive'
<1> SUFFICES ASSUME PoolIInv, [PoolNext]_poolVars PROVE Exclusive'
  OBVIOUS
<1> USE DEF PoolIInv, PoolTypeOK, Exclusive, InUse
<1>1. ASSUME NEW g \in Goroutines, PoolGet(g) PROVE Exclusive'
  BY <1>1 DEF PoolGet
<1>2. ASSUME NEW g \in Goroutines, PoolPut(g) PROVE Exclusive'
  <2>1. slice[g] \in Buffers
    BY <1>2 DEF PoolPut, Move, SliceMatchesPc
  <2>2. QED
    BY <1>2, <2>1 DEF PoolPut
<1>3. ASSUME NEW g \in Goroutines, Discard(g) PROVE Exclusive'
  BY <1>3 DEF Discard
<1>4. ASSUME NEW g \in Goroutines,
             GetFast(g) \/ GetMiss(g) \/ GetWake(g) \/ GetTimeout(g) \/ Put(g)
      PROVE  Exclusive'
  BY <1>4 DEF GetFast, GetMiss, GetWake, GetTimeout, Put
<1>5. CASE Collect \/ UNCHANGED poolVars
  BY <1>5 DEF Collect, poolVars
<1>6. QED
  BY <1>1, <1>2, <1>3, <1>4, <1>5 DEF PoolNext, Get

LEMMA PoolStepIInv == PoolIInv /\ [PoolNext]_poolVars => PoolIInv'
  BY StepTokens, StepShape, StepExclusive DEF PoolIInv

-----------------------------------------------------------------------------
(* The invariant everything else follows from: the ranges of the pool's    *)
(* two halves and of every goroutine's position, the token account, the    *)
(* exclusive ownership of arrays, and no panic of Put.                     *)
THEOREM PoolInvariance == PoolSpec => []PoolIInv
<1>1. PoolInit => PoolIInv
  BY PoolInitIInv
<1>2. PoolIInv /\ [PoolNext]_poolVars => PoolIInv'
  BY PoolStepIInv
<1>3. QED
  BY <1>1, <1>2, PTL DEF PoolSpec

(* Type correctness of the pool (fixedbufferpool.go:9-61). *)
THEOREM PoolTypeCorrect == PoolSpec => []PoolTypeOK
<1>1. PoolIInv => PoolTypeOK
  BY DEF PoolIInv
<1>2. QED
  BY <1>1, PoolInvariance, PTL

(* Tokens in the channel, tokens out with a Get or its buffer, and tokens  *)
(* dropped with a discarded buffer always add up to N.                     *)
THEOREM TokensConserved == PoolSpec => []TokensAccounted
<1>1. PoolIInv => TokensAccounted
  BY DEF PoolIInv
<1>2. QED
  BY <1>1, PoolInvariance, PTL

(* No byte array is ever in two hands. *)
THEOREM BuffersExclusive == PoolSpec => []Exclusive
<1>1. PoolIInv => Exclusive
  BY DEF PoolIInv
<1>2. QED
  BY <1>1, PoolInvariance, PTL

(* Neither panic of Put is reachable for callers that put back what they   *)
(* got (fixedbufferpool.go:36, 42).                                        *)
THEOREM PutNeverPanics == PoolSpec => []NoPanic
<1>1. PoolIInv => NoPanic
  BY DEF PoolIInv
<1>2. QED
  BY <1>1, PoolInvariance, PTL
-----------------------------------------------------------------------------
(* The leases are fewer than N while a goroutine has a token but no array  *)
(* yet: the others with a lease are owners, and so is it.                  *)
LEMMA RoomForLease ==
    ASSUME PoolIInv, NEW g \in Goroutines, pc[g] = "granted"
    PROVE  Cardinality(Lease!Leased) < N
<1> DEFINE Others == Owners \ {g}
<1>1. g \in Owners
  BY DEF Owners
<1>2. IsFiniteSet(Owners) /\ IsFiniteSet(Others)
  BY CountIsNat DEF Owners
<1>3. Cardinality(Others) = Cardinality(Owners) - 1
  BY <1>1, <1>2, FS_RemoveElement
<1>4. Lease!Leased \subseteq Others
  BY DEF Lease!Leased, lease, Owners
<1>5. Cardinality(Lease!Leased) <= Cardinality(Others)
  BY <1>2, <1>4, FS_Subset
<1>6. /\ Cardinality(Owners) \in Nat
      /\ Cardinality(Others) \in Nat
      /\ Cardinality(Lease!Leased) \in Nat
  BY CountIsNat DEF Owners, Lease!Leased
<1>7. QED
  BY <1>3, <1>5, <1>6 DEF PoolIInv, PoolTypeOK, TokensAccounted

(* Every step of the pool is a step of the lease service or leaves the     *)
(* leases alone: Get grants when sync.Pool.Get returns, Put and Discard    *)
(* give up.                                                                *)
LEMMA StepLease == PoolIInv /\ [PoolNext]_poolVars => [Lease!Next]_lease
<1> SUFFICES ASSUME PoolIInv, [PoolNext]_poolVars PROVE Lease!Next \/ UNCHANGED lease
  OBVIOUS
<1> USE DEF PoolIInv, PoolTypeOK
<1>1. ASSUME NEW g \in Goroutines, PoolGet(g) PROVE Lease!Next
  <2>1. PICK b \in Buffers \ (InUse \ pool) : slice' = [slice EXCEPT ![g] = b]
    BY <1>1 DEF PoolGet
  <2>2. b \notin InUse
    BY <2>1 DEF Exclusive
  <2>3. lease[g] = None /\ \A h \in Goroutines : lease[h] # b
    BY <1>1, <2>1, <2>2 DEF PoolGet, Move, lease, InUse
  <2>4. Cardinality(Lease!Leased) < N
    BY <1>1, RoomForLease DEF PoolGet, Move
  <2>5. lease' = [lease EXCEPT ![g] = b]
    BY <1>1, <2>1 DEF PoolGet, Move, lease
  <2>6. Lease!Grant(g, b)
    BY <2>3, <2>4, <2>5 DEF Lease!Grant, Lease!Cardinality, Cardinality
  <2>7. QED
    BY <2>1, <2>6 DEF Lease!Next
<1>2. ASSUME NEW g \in Goroutines, Put(g) \/ Discard(g) PROVE Lease!Next
  <2>1. slice[g] # None /\ lease[g] # None
    BY <1>2 DEF Put, Discard, Move, SliceMatchesPc, lease
  <2>2. PutPanics(g) => ~Put(g)
    BY HolderMayPut DEF Put, Move
  <2>3. lease' = [lease EXCEPT ![g] = None]
    BY <1>2, <2>2 DEF Put, Discard, Move, lease
  <2>4. Lease!GiveUp(g)
    BY <2>1, <2>3 DEF Lease!GiveUp
  <2>5. QED
    BY <2>4 DEF Lease!Next
<1>3. ASSUME NEW g \in Goroutines,
             GetFast(g) \/ GetMiss(g) \/ GetWake(g) \/ GetTimeout(g) \/ PoolPut(g)
      PROVE  UNCHANGED lease
  BY <1>3 DEF GetFast, GetMiss, GetWake, GetTimeout, PoolPut, Move, lease
<1>4. CASE Collect \/ UNCHANGED poolVars
  BY <1>4 DEF Collect, poolVars, lease
<1>5. QED
  BY <1>1, <1>2, <1>3, <1>4 DEF PoolNext, Get

(* The pool implements the abstract lease service for every capacity and   *)
(* any finite set of goroutines.                                           *)
THEOREM ImplementsLease == PoolSpec => LeaseSpec
<1>1. PoolInit => Lease!Init
  BY DEF PoolInit, Lease!Init, lease
<1>2. PoolIInv /\ [PoolNext]_poolVars => [Lease!Next]_lease
  BY StepLease
<1>3. QED
  BY <1>1, <1>2, PoolInvariance, PTL DEF PoolSpec, LeaseSpec, Lease!Spec
==============================================================================
