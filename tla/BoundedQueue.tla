---------------------------- MODULE BoundedQueue -----------------------------
(***************************************************************************)
(* The bounded queue of src/queue.c, as the threads use it: its functions  *)
(* do not lock or wait, their callers do (capture.c:84-101,                *)
(* display.c:39-46, record.c:40-47).  Each critical section is one step; a *)
(* thread in pthread_cond_wait is in asleep.  Any number of threads may    *)
(* call, with one producer and one consumer as the program has them.       *)
(***************************************************************************)
EXTENDS Integers, Sequences, FiniteSets

CONSTANTS
  Item,       \* what is queued
  NoItem,     \* the null pointer, in an empty slot and in an idle thread
  Thread,     \* the threads that use the queue
  Capacity    \* queue->capacity

ASSUME QueueAssumption ==
  /\ NoItem \notin Item
  /\ IsFiniteSet(Thread)
  /\ Capacity \in Nat \ {0}     \* queue_init rejects 0

VARIABLES
  buffer, head, tail, count,  \* the ring
  done,                       \* the shutdown flag
  pc,                         \* whether each thread is in a call
  slot,                       \* the item a thread enqueues, or has dequeued
  asleep                      \* the threads blocked in pthread_cond_wait

ring == <<buffer, head, tail, count>>
vars == <<ring, done, pc, slot, asleep>>

-----------------------------------------------------------------------------

Init ==
  /\ buffer = [n \in 0 .. Capacity - 1 |-> NoItem]
  /\ head = 0 /\ tail = 0 /\ count = 0
  /\ done = FALSE
  /\ pc = [t \in Thread |-> "idle"]
  /\ slot = [t \in Thread |-> NoItem]
  /\ asleep = {}

is_empty == count = 0

\* MutIsFull: room is seen where there is none.
MutIsFull == count > Capacity
is_full == count = Capacity

\* The threads in cond_not_full and in cond_not_empty.
Blocked(call) == {t \in asleep : pc[t] = call}

\* MutSignal: a signal sent when the queue was empty or full only.
MutSignal(call) ==
  IF count \in {0, Capacity} /\ Blocked(call) # {}
  THEN \E t \in Blocked(call) : asleep' = asleep \ {t}
  ELSE UNCHANGED asleep
\* pthread_cond_signal wakes one of the waiting threads, if there is one.
Signal(call) ==
  \/ Blocked(call) = {} /\ UNCHANGED asleep
  \/ \E t \in Blocked(call) : asleep' = asleep \ {t}

\* MutAdvance: the index runs one slot past the end of the buffer.
MutAdvance(n) == (n + 1) % (Capacity + 1)
Advance(n) == (n + 1) % Capacity

CallEnqueue(t, i) ==
  /\ pc[t] = "idle"
  /\ pc' = [pc EXCEPT ![t] = "enqueue"]
  /\ slot' = [slot EXCEPT ![t] = i]
  /\ UNCHANGED <<ring, done, asleep>>

EnqueueWait(t) ==
  /\ pc[t] = "enqueue" /\ t \notin asleep
  /\ is_full
  /\ asleep' = asleep \cup {t}
  /\ UNCHANGED <<ring, done, pc, slot>>

Enqueue(t) ==
  /\ pc[t] = "enqueue" /\ t \notin asleep
  /\ ~is_full
  /\ buffer' = [buffer EXCEPT ![tail] = slot[t]]
  /\ tail' = Advance(tail)
  /\ count' = count + 1
  /\ Signal("dequeue")
  /\ pc' = [pc EXCEPT ![t] = "idle"]
  /\ slot' = [slot EXCEPT ![t] = NoItem]
  /\ UNCHANGED <<head, done>>

CallDequeue(t) ==
  /\ pc[t] = "idle"
  /\ pc' = [pc EXCEPT ![t] = "dequeue"]
  /\ UNCHANGED <<ring, done, slot, asleep>>

DequeueWait(t) ==
  /\ pc[t] = "dequeue" /\ t \notin asleep
  /\ is_empty
  /\ asleep' = asleep \cup {t}
  /\ UNCHANGED <<ring, done, pc, slot>>

Dequeue(t) ==
  /\ pc[t] = "dequeue" /\ t \notin asleep
  /\ ~is_empty
  /\ slot' = [slot EXCEPT ![t] = buffer[head]]
  /\ head' = Advance(head)
  /\ count' = count - 1
  /\ Signal("enqueue")
  /\ pc' = [pc EXCEPT ![t] = "idle"]
  /\ UNCHANGED <<buffer, tail, done>>

\* queue_set_done: the flag and both broadcasts.
SetDone ==
  /\ ~done
  /\ done' = TRUE
  /\ asleep' = {}
  /\ UNCHANGED <<ring, pc, slot>>

SpuriousWakeup(t) ==
  /\ t \in asleep
  /\ asleep' = asleep \ {t}
  /\ UNCHANGED <<ring, done, pc, slot>>

Next ==
  \/ \E t \in Thread :
       \/ \E i \in Item : CallEnqueue(t, i)
       \/ EnqueueWait(t)
       \/ Enqueue(t)
       \/ CallDequeue(t)
       \/ DequeueWait(t)
       \/ Dequeue(t)
       \/ SpuriousWakeup(t)
  \/ SetDone

Spec == Init /\ [][Next]_vars

\* A thread inside a call goes on.
Fairness ==
  \A t \in Thread : WF_vars(EnqueueWait(t) \/ Enqueue(t) \/ DequeueWait(t) \/ Dequeue(t))

-----------------------------------------------------------------------------
(* Properties *)

\* Every variable keeps its type: the indices stay in the buffer.
TypeOK ==
  /\ buffer \in [0 .. Capacity - 1 -> Item \cup {NoItem}]
  /\ head \in 0 .. Capacity - 1 /\ tail \in 0 .. Capacity - 1
  /\ count \in 0 .. Capacity
  /\ done \in BOOLEAN
  /\ pc \in [Thread -> {"idle", "enqueue", "dequeue"}]
  /\ slot \in [Thread -> Item \cup {NoItem}]
  /\ asleep \in SUBSET Thread

\* The queued items, in order.
Items == [n \in 1 .. count |-> buffer[(head + n - 1) % Capacity]]

F == INSTANCE Fifo WITH items <- Items

\* The ring is a first-in first-out buffer (queue.c:55-68): no item is lost,
\* duplicated, overwritten or reordered when the indices wrap.
IsFifo == F!Spec

\* The threads in a call that are not asleep.
Awake(call) == {t \in Thread : pc[t] = call /\ t \notin asleep}

\* No lost wakeup: while a consumer sleeps, every item has an awake consumer to
\* take it, and while a producer sleeps, every free slot has an awake producer
\* to fill it, although each step signals one thread only (capture.c:90,
\* display.c:45) and a newcomer may overtake the one that was woken.
NoLostWakeup ==
  /\ Blocked("dequeue") # {} => count <= Cardinality(Awake("dequeue"))
  /\ Blocked("enqueue") # {} => Capacity - count <= Cardinality(Awake("enqueue"))

=============================================================================
