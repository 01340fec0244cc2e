----------------------------- MODULE MemoryPool ------------------------------
(***************************************************************************)
(* The pool of src/memory_pool.c, which the frame pool was made from: an   *)
(* allocation from an empty pool returns NULL instead of waiting, and a    *)
(* release has nobody to wake.  The critical sections of mp->mutex are one *)
(* step each, the operations on the atomic refcount are outside them.      *)
(*                                                                         *)
(* As in FramePool, holder is a history variable: the threads that own a   *)
(* reference to each block.                                                *)
(***************************************************************************)
EXTENDS Integers, Sequences, FiniteSets

CONSTANTS
  PoolSize,   \* mp->pool_size, positive
  Thread      \* the threads that use the pool

Block == 1 .. PoolSize  \* mp->blocks
NoBlock == 0            \* the null pointer

VARIABLES
  free_list,  \* mp->free_list, its head first
  refcount,
  pc,         \* where each thread is: outside the pool or inside a call
  blk,        \* the block a thread inside a call works on
  want,       \* the future owners of the block a thread allocates
  holder

vars == <<free_list, refcount, pc, blk, want, holder>>

\* mp_init links each block in front of the ones before it.
Init ==
  /\ free_list = [i \in 1 .. PoolSize |-> PoolSize + 1 - i]
  /\ refcount = [b \in Block |-> 0]
  /\ pc = [t \in Thread |-> "idle"]
  /\ blk = [t \in Thread |-> NoBlock]
  /\ want = [t \in Thread |-> {}]
  /\ holder = [b \in Block |-> {}]

\* mp_alloc is called; init_count <= 0 is rejected at once.
CallAlloc(t, owners) ==
  /\ pc[t] = "idle" /\ owners # {}
  /\ pc' = [pc EXCEPT ![t] = "alloc"] /\ want' = [want EXCEPT ![t] = owners]
  /\ UNCHANGED <<free_list, refcount, blk, holder>>

AllocTake(t) ==
  /\ pc[t] = "alloc" /\ free_list # <<>>
  /\ blk' = [blk EXCEPT ![t] = Head(free_list)] /\ free_list' = Tail(free_list)
  /\ pc' = [pc EXCEPT ![t] = "store"]
  /\ UNCHANGED <<refcount, want, holder>>

\* The list is empty: NULL, and errno ENOMEM.
AllocNull(t) ==
  /\ pc[t] = "alloc" /\ free_list = <<>>
  /\ pc' = [pc EXCEPT ![t] = "idle"] /\ want' = [want EXCEPT ![t] = {}]
  /\ UNCHANGED <<free_list, refcount, blk, holder>>

AllocStore(t) ==
  /\ pc[t] = "store"
  /\ refcount' = [refcount EXCEPT ![blk[t]] = Cardinality(want[t])]
  /\ holder' = [holder EXCEPT ![blk[t]] = want[t]]
  /\ pc' = [pc EXCEPT ![t] = "idle"] /\ blk' = [blk EXCEPT ![t] = NoBlock]
  /\ want' = [want EXCEPT ![t] = {}]
  /\ UNCHANGED free_list

\* mp_retain by an owner, for u.
Retain(t, u, b) ==
  /\ pc[t] = "idle" /\ t \in holder[b] /\ u \notin holder[b]
  /\ refcount' = [refcount EXCEPT ![b] = @ + 1]
  /\ holder' = [holder EXCEPT ![b] = @ \cup {u}]
  /\ UNCHANGED <<free_list, pc, blk, want>>

\* What mp_release tests: prev, the value before its own decrement.
\* MutWasLast: prev <= 2.  MutNeverLast: the value after it, read as prev.
MutWasLast(b) == refcount[b] <= 2
MutNeverLast(b) == refcount[b] = 0
WasLast(b) == refcount[b] = 1

ReleaseSub(t, b) ==
  /\ pc[t] = "idle" /\ t \in holder[b]
  /\ refcount' = [refcount EXCEPT ![b] = @ - 1]
  /\ holder' = [holder EXCEPT ![b] = @ \ {t}]
  /\ IF WasLast(b)
     THEN pc' = [pc EXCEPT ![t] = "push"] /\ blk' = [blk EXCEPT ![t] = b]
     ELSE UNCHANGED <<pc, blk>>
  /\ UNCHANGED <<free_list, want>>

ReleasePush(t) ==
  /\ pc[t] = "push"
  /\ free_list' = <<blk[t]>> \o free_list
  /\ pc' = [pc EXCEPT ![t] = "idle"] /\ blk' = [blk EXCEPT ![t] = NoBlock]
  /\ UNCHANGED <<refcount, want, holder>>

Next ==
  \E t \in Thread :
    \/ \E owners \in SUBSET Thread : CallAlloc(t, owners)
    \/ AllocTake(t)
    \/ AllocNull(t)
    \/ AllocStore(t)
    \/ \E u \in Thread, b \in Block : Retain(t, u, b)
    \/ \E b \in Block : ReleaseSub(t, b)
    \/ ReleasePush(t)

Spec == Init /\ [][Next]_vars

-----------------------------------------------------------------------------
(* Properties *)

\* Every variable keeps its type: no count is negative.
TypeOK ==
  /\ free_list \in Seq(Block)
  /\ refcount \in [Block -> Nat]
  /\ pc \in [Thread -> {"idle", "alloc", "store", "push"}]
  /\ blk \in [Thread -> Block \cup {NoBlock}]
  /\ want \in [Thread -> SUBSET Thread]
  /\ holder \in [Block -> SUBSET Thread]

\* mp_alloc hands out only blocks that nobody owns, whoever retains and releases
\* at the same time without the mutex (memory_pool.c:105, 113, 121-128).
O == INSTANCE Ownership
BlocksExclusive == O!Spec

\* A call of mp_alloc that returns NULL is right: every block is owned, or in
\* the hands of another call (memory_pool.c:93-104); none is lost for good.
NullJustified ==
  \A t \in Thread : pc[t] = "alloc" /\ free_list = <<>> =>
    \A b \in Block :
      holder[b] # {} \/ \E u \in Thread : pc[u] \in {"store", "push"} /\ blk[u] = b

=============================================================================
