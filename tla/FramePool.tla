------------------------------ MODULE FramePool ------------------------------
(***************************************************************************)
(* The pool of reference-counted frame blocks of src/frame_pool.c, used by *)
(* any number of threads.  The linked free_list is the sequence freeList,  *)
(* its head first.  fp->mutex is held only inside one critical section of  *)
(* fp_alloc or fp_release, so each critical section is one step; the       *)
(* atomic operations on refcount, which are outside the mutex, are steps   *)
(* of their own.  fp->cond is the set waiting of the threads blocked in    *)
(* pthread_cond_wait, which may also return spuriously.                    *)
(*                                                                         *)
(* holder is not in the code: holder[b] is the set of threads that own a   *)
(* reference to b and have not given it back.  It states the clients'      *)
(* contract (init_count references are handed out by fp_alloc, retain and  *)
(* release are called by owners); a thread that needs two references to    *)
(* one block stands for two members of Thread.                             *)
(***************************************************************************)
EXTENDS Integers, Sequences, FiniteSets

CONSTANTS
  Block,      \* the blocks of the pool: pool_size of them
  Thread,     \* the threads that use it
  NoBlock     \* the null FrameBlock pointer

ASSUME PoolAssumption ==
  /\ IsFiniteSet(Block) /\ Block # {}   \* frame_pool_init rejects pool_size = 0
  /\ IsFiniteSet(Thread)
  /\ NoBlock \notin Block

VARIABLES
  freeList,   \* fp->free_list
  refcount,   \* blk->refcount of every block
  pc,         \* where each thread is: outside the pool or inside a call
  blk,        \* the block a thread inside a call works on
  want,       \* the future owners of the block a thread allocates
  waiting,    \* the threads blocked on fp->cond
  holder      \* the owners of the references to each block

vars == <<freeList, refcount, pc, blk, want, waiting, holder>>

-----------------------------------------------------------------------------

Elems(s) == {s[i] : i \in DOMAIN s}

Init ==
  /\ freeList \in [1..Cardinality(Block) -> Block]
  /\ Elems(freeList) = Block
  /\ refcount = [b \in Block |-> 0]
  /\ pc = [t \in Thread |-> "idle"]
  /\ blk = [t \in Thread |-> NoBlock]
  /\ want = [t \in Thread |-> {}]
  /\ waiting = {}
  /\ holder = [b \in Block |-> {}]

\* fp_alloc(fp, init_count) is called with init_count = Cardinality(owners);
\* init_count <= 0 is rejected before anything changes.
CallAlloc(t, owners) ==
  /\ pc[t] = "idle" /\ owners # {}
  /\ pc' = [pc EXCEPT ![t] = "alloc"]
  /\ want' = [want EXCEPT ![t] = owners]
  /\ UNCHANGED <<freeList, refcount, blk, waiting, holder>>

\* The free list is empty: wait on fp->cond.
AllocWait(t) ==
  /\ pc[t] = "alloc" /\ t \notin waiting
  /\ freeList = <<>>
  /\ waiting' = waiting \cup {t}
  /\ UNCHANGED <<freeList, refcount, pc, blk, want, holder>>

\* The free list has a block: unlink the first one.
AllocTake(t) ==
  /\ pc[t] = "alloc" /\ t \notin waiting
  /\ freeList # <<>>
  /\ blk' = [blk EXCEPT ![t] = Head(freeList)]
  /\ freeList' = Tail(freeList)
  /\ pc' = [pc EXCEPT ![t] = "store"]
  /\ UNCHANGED <<refcount, want, waiting, holder>>

\* The count fp_alloc is given.  MutInitCount: one reference whoever shares it.
MutInitCount(owners) == 1
InitCount(owners) == Cardinality(owners)

\* After the unlock: store the initial count and return the block.
AllocStore(t) ==
  /\ pc[t] = "store"
  /\ refcount' = [refcount EXCEPT ![blk[t]] = InitCount(want[t])]
  /\ holder' = [holder EXCEPT ![blk[t]] = want[t]]
  /\ pc' = [pc EXCEPT ![t] = "idle"]
  /\ blk' = [blk EXCEPT ![t] = NoBlock]
  /\ want' = [want EXCEPT ![t] = {}]
  /\ UNCHANGED <<freeList, waiting>>

\* fp_retain.  MutAddReference: a plain read and write instead of
\* atomic_fetch_add loses the increment.
MutAddReference(b) == UNCHANGED refcount
AddReference(b) == refcount' = [refcount EXCEPT ![b] = @ + 1]

\* An owner t makes u an owner too.
Retain(t, u, b) ==
  /\ pc[t] = "idle" /\ t \in holder[b] /\ u \notin holder[b]
  /\ AddReference(b)
  /\ holder' = [holder EXCEPT ![b] = @ \cup {u}]
  /\ UNCHANGED <<freeList, pc, blk, want, waiting>>

\* The previous value of the counter says that nobody else owns b.
\* MutWasLast: the test of the new value, prev - 1 <= 1.
MutWasLast(b) == refcount[b] <= 2
WasLast(b) == refcount[b] = 1

\* fp_release: the decrement; the previous value decides whether the caller
\* must put the block back.
ReleaseSub(t, b) ==
  /\ pc[t] = "idle" /\ t \in holder[b]
  /\ refcount' = [refcount EXCEPT ![b] = @ - 1]
  /\ holder' = [holder EXCEPT ![b] = @ \ {t}]
  /\ IF WasLast(b)
     THEN /\ pc' = [pc EXCEPT ![t] = "push"]
          /\ blk' = [blk EXCEPT ![t] = b]
     ELSE UNCHANGED <<pc, blk>>
  /\ UNCHANGED <<freeList, want, waiting>>

\* fp_release without its pthread_cond_signal.
MutSignal == UNCHANGED waiting

\* pthread_cond_signal wakes one waiting thread, if there is one.
Signal ==
  \/ waiting = {} /\ UNCHANGED waiting
  \/ \E t \in waiting : waiting' = waiting \ {t}

\* fp_release: the last owner links the block at the head of the free list.
ReleasePush(t) ==
  /\ pc[t] = "push"
  /\ freeList' = <<blk[t]>> \o freeList
  /\ Signal
  /\ pc' = [pc EXCEPT ![t] = "idle"]
  /\ blk' = [blk EXCEPT ![t] = NoBlock]
  /\ UNCHANGED <<refcount, want, holder>>

\* pthread_cond_wait may return without a signal.
SpuriousWakeup(t) ==
  /\ t \in waiting
  /\ waiting' = waiting \ {t}
  /\ UNCHANGED <<freeList, refcount, pc, blk, want, holder>>

Next ==
  \E t \in Thread :
    \/ \E owners \in SUBSET Thread : CallAlloc(t, owners)
    \/ AllocWait(t)
    \/ AllocTake(t)
    \/ AllocStore(t)
    \/ \E u \in Thread, b \in Block : Retain(t, u, b)
    \/ \E b \in Block : ReleaseSub(t, b)
    \/ ReleasePush(t)
    \/ SpuriousWakeup(t)

Spec == Init /\ [][Next]_vars

\* Every call that has begun goes on, and owners outside a call give their
\* references back.
Fairness ==
  \A t \in Thread :
    /\ WF_vars(AllocWait(t) \/ AllocTake(t) \/ AllocStore(t) \/ ReleasePush(t))
    /\ \A b \in Block : WF_vars(ReleaseSub(t, b))

FairSpec == Spec /\ Fairness

-----------------------------------------------------------------------------
(* Properties *)

IsFree(b) == b \in Elems(freeList)

\* Thread t is inside a call and b is linked nowhere and owned by nobody yet
\* (fp_alloc) or any more (fp_release).
InFlight(t, b) == pc[t] \in {"store", "push"} /\ blk[t] = b

\* Every variable keeps its type.
TypeOK ==
  /\ freeList \in Seq(Block)
  /\ refcount \in [Block -> Nat]
  /\ pc \in [Thread -> {"idle", "alloc", "store", "push"}]
  /\ blk \in [Thread -> Block \cup {NoBlock}]
  /\ want \in [Thread -> SUBSET Thread]
  /\ waiting \in SUBSET Thread
  /\ holder \in [Block -> SUBSET Thread]

\* The refcount of a block is the number of its owners at every moment, also
\* while other threads retain and release it without the mutex
\* (frame_pool.c:132, 140, 148).
RefcountExact == \A b \in Block : refcount[b] = Cardinality(holder[b])

\* The free list never links a block twice.
NoDoubleFree ==
  \A i, j \in DOMAIN freeList : freeList[i] = freeList[j] => i = j

\* Exclusive: a free block has no owner and no call works on it, a block in
\* flight has no owner and one call only, so fp_alloc never hands out a block
\* somebody still uses.  No leak: a block with no owner is free or on its way.
BlockAccounting ==
  /\ NoDoubleFree
  /\ \A b \in Block : IsFree(b) =>
       holder[b] = {} /\ \A t \in Thread : ~InFlight(t, b)
  /\ \A t \in Thread, b \in Block : InFlight(t, b) =>
       holder[b] = {} /\ \A u \in Thread : InFlight(u, b) => u = t
  /\ \A b \in Block :
       IsFree(b) \/ holder[b] # {} \/ \E t \in Thread : InFlight(t, b)

\* The threads that are inside fp_alloc and not asleep on fp->cond.
Awake == {t \in Thread : pc[t] = "alloc" /\ t \notin waiting}

\* No lost wakeup: while a thread sleeps in fp_alloc, every free block has an
\* awake allocator to take it, although fp_release signals one waiter only and
\* a newcomer may overtake the one it woke (frame_pool.c:116-119, 154).
NoLostWakeup == waiting # {} => Len(freeList) <= Cardinality(Awake)

\* The counting protocol keeps what a pool promises: fp_alloc gives a block to new
\* owners only while it has none, whoever retains and releases at the same time
\* without the mutex (frame_pool.c:120-134, 140, 148-157).
O == INSTANCE Ownership
GrantsExclusive == O!Spec

\* test_pool_exhaustion (test/test_frame.c:70-84) says of fp_alloc on an
\* exhausted pool that it returns NULL with errno ENOMEM: such a call ends.
ExhaustedAllocReturns ==
  \A t \in Thread : (pc[t] = "alloc" /\ freeList = <<>>) ~> (pc[t] # "alloc")

=============================================================================
