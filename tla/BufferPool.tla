----------------------------- MODULE BufferPool -----------------------------
(***************************************************************************)
(* fixedbufferpool/fixedbufferpool.go: a pool of N message buffers.        *)
(*                                                                         *)
(* A Pool is two objects that are not updated together: the channel        *)
(* `buffers`, whose N tokens say how many buffers may still be handed out, *)
(* and the sync.Pool `pool`, which caches the byte arrays and allocates    *)
(* one when it has none.  Get takes a token and then an array; Put returns *)
(* the token and then the array.  Both are split here at that point, so    *)
(* every interleaving of the goroutines' half-finished calls is explored.  *)
(*                                                                         *)
(* pc[g] is where goroutine g stands with respect to the pool:             *)
(*   idle       it has no buffer and is in no call                         *)
(*   waiting    in Get, blocked in the second select                       *)
(*   granted    in Get, token received, p.pool.Get() not yet called        *)
(*   holding    Get has returned a buffer                                  *)
(*   returning  in Put, token sent, p.pool.Put(&in) not yet called         *)
(*   panicked   Put has panicked                                           *)
(***************************************************************************)
EXTENDS Naturals, FiniteSets

CONSTANTS Goroutines,   \* the callers
          Buffers,      \* identities of the byte arrays sync.Pool can hand out
          N,            \* the `buffers` argument of NewFixedBufferPool
          None,         \* no buffer
          Grown         \* a slice whose cap is not messageSize any more

ASSUME GoroutinesFinite == IsFiniteSet(Goroutines)
ASSUME CapacityIsNat    == N \in Nat
ASSUME NotABuffer       == None \notin Buffers /\ Grown \notin Buffers

VARIABLES buffers,      \* tokens in the channel p.buffers
          pool,         \* arrays cached in the sync.Pool p.pool
          pc,           \* where each goroutine stands
          slice,        \* the buffer each goroutine has, or None
          lost          \* tokens dropped with their buffer by a caller

poolVars == <<buffers, pool, pc, slice, lost>>

PoolStates == {"idle", "waiting", "granted", "holding", "returning", "panicked"}

PoolTypeOK ==
    /\ buffers \in 0..N
    /\ pool \in SUBSET Buffers
    /\ pc \in [Goroutines -> PoolStates]
    /\ slice \in [Goroutines -> Buffers \cup {None, Grown}]
    /\ lost \in 0..N

Move(g, from, to) == pc[g] = from /\ pc' = [pc EXCEPT ![g] = to]

InUse == {slice[g] : g \in Goroutines}

-----------------------------------------------------------------------------
(* Mutants: the bugs the properties below are there to catch.              *)

(* The second select wakes up without receiving its token. *)
GetWakeNoToken(g) ==
    /\ Move(g, "waiting", "granted")
    /\ buffers > 0
    /\ UNCHANGED <<buffers, pool, slice, lost>>

(* A timed-out Get still swallows a token that is there. *)
GetTimeoutSwallows(g) ==
    /\ Move(g, "waiting", "idle")
    /\ buffers' = IF buffers > 0 THEN buffers - 1 ELSE 0
    /\ UNCHANGED <<pool, slice, lost>>

(* Get waits without a timer. *)
GetTimeoutNever(g) ==
    /\ Move(g, "waiting", "idle") /\ FALSE
    /\ UNCHANGED <<buffers, pool, slice, lost>>

(* The first select peeks at the channel instead of receiving from it. *)
GetFastPeeks(g) ==
    /\ Move(g, "idle", "granted")
    /\ buffers > 0
    /\ UNCHANGED <<buffers, pool, slice, lost>>

(* The caller goes on using the slice it has put back. *)
PoolPutKeepsSlice(g) ==
    /\ Move(g, "returning", "idle")
    /\ pool' = pool \cup {slice[g]}
    /\ UNCHANGED <<buffers, slice, lost>>

-----------------------------------------------------------------------------
(* NewFixedBufferPool: N tokens, no array allocated yet.                   *)
PoolInit ==
    /\ buffers = N
    /\ pool = {}
    /\ pc = [g \in Goroutines |-> "idle"]
    /\ slice = [g \in Goroutines |-> None]
    /\ lost = 0

(* Get, first select: a token is there, no timer is built.                 *)
GetFast(g) ==
    /\ Move(g, "idle", "granted")
    /\ buffers > 0
    /\ buffers' = buffers - 1
    /\ UNCHANGED <<pool, slice, lost>>

(* Get, first select: the default case, then the timer is started.         *)
GetMiss(g) ==
    /\ Move(g, "idle", "waiting")
    /\ buffers = 0
    /\ UNCHANGED <<buffers, pool, slice, lost>>

(* Get, second select: a token has come back in time.                      *)
GetWake(g) ==
    /\ Move(g, "waiting", "granted")
    /\ buffers > 0
    /\ buffers' = buffers - 1
    /\ UNCHANGED <<pool, slice, lost>>

(* Get, second select: the timer has fired.  When a token is there too the *)
(* select picks either case.                                               *)
GetTimeout(g) ==
    /\ Move(g, "waiting", "idle")
    /\ UNCHANGED <<buffers, pool, slice, lost>>

(* sync.Pool.Get: any cached array, or a new one.  It may ignore what it   *)
(* has cached; an array nobody refers to is as good as a new one.          *)
PoolGet(g) ==
    /\ Move(g, "granted", "holding")
    /\ \E b \in Buffers \ (InUse \ pool) :
          /\ slice' = [slice EXCEPT ![g] = b]
          /\ pool' = pool \ {b}
    /\ UNCHANGED <<buffers, lost>>

(* Put: the cap check and the select with its default.                     *)
PutPanics(g) == slice[g] \notin Buffers \/ buffers = N

Put(g) ==
    /\ Move(g, "holding", IF PutPanics(g) THEN "panicked" ELSE "returning")
    /\ buffers' = IF PutPanics(g) THEN buffers ELSE buffers + 1
    /\ UNCHANGED <<pool, slice, lost>>

(* Put: p.pool.Put(&in), after the token is already in the channel.        *)
PoolPut(g) ==
    /\ Move(g, "returning", "idle")
    /\ pool' = pool \cup {slice[g]}
    /\ slice' = [slice EXCEPT ![g] = None]
    /\ UNCHANGED <<buffers, lost>>

(* A caller that forgets its buffer: the array is garbage, the token is    *)
(* gone (OnDataFrame does so, websocket/server_manual_frame_assembly).     *)
Discard(g) ==
    /\ Move(g, "holding", "idle")
    /\ slice' = [slice EXCEPT ![g] = None]
    /\ lost' = lost + 1
    /\ UNCHANGED <<buffers, pool>>

(* The garbage collector empties a sync.Pool whenever it likes.            *)
Collect ==
    /\ \E b \in pool : pool' = pool \ {b}
    /\ UNCHANGED <<buffers, pc, slice, lost>>

Get(g) == GetFast(g) \/ GetMiss(g) \/ GetWake(g) \/ GetTimeout(g) \/ PoolGet(g)

PoolNext ==
    \/ \E g \in Goroutines : Get(g) \/ Put(g) \/ PoolPut(g) \/ Discard(g)
    \/ Collect

PoolSpec == PoolInit /\ [][PoolNext]_poolVars

-----------------------------------------------------------------------------
(* Goroutines whose token is out of the channel.                           *)
Owners == {g \in Goroutines : pc[g] \in {"granted", "holding"}}

(* No token is duplicated and none vanishes except with a discarded        *)
(* buffer, whatever Get and Put are halfway through (Get's two selects and *)
(* its timeout, Put's select).                                             *)
TokensAccounted == buffers + Cardinality(Owners) + lost = N

(* A byte array belongs to one party: not to two goroutines, not to a      *)
(* goroutine and the cache, although Put makes the token available before  *)
(* the array is back.                                                      *)
Exclusive ==
    /\ \A g, h \in Goroutines : slice[g] = slice[h] /\ slice[g] # None => g = h
    /\ pool \cap InUse = {}

(* A caller that only puts back what Get gave it never meets one of Put's  *)
(* two panics (fixedbufferpool.go:36 and 42), in any interleaving.         *)
NoPanic == \A g \in Goroutines : pc[g] # "panicked"

(* The lease a goroutine has on a buffer: from Get's return to Put's send. *)
lease == [g \in Goroutines |-> IF pc[g] = "holding" THEN slice[g] ELSE None]

Lease == INSTANCE BufferLease

(* The pool implements the abstract lease service: at most N buffers are   *)
(* leased and none to two goroutines, at every step of Get and Put.        *)
LeaseSpec == Lease!Spec
=============================================================================
