------------------------------ MODULE SharedCtx ------------------------------
(***************************************************************************)
(* What the threads of tinyBlackBox share (SharedCtx and UiArgs), and the  *)
(* steps every thread takes on it: locking, condition variables, queues,   *)
(* the frame pool.  The modules of the threads extend this one.            *)
(*                                                                         *)
(* A critical section that holds the mutex of a queue or of the pool takes *)
(* no other lock and never ends holding it, so each is one step.  The ui   *)
(* mutex is a variable: two threads end with it locked.  A thread blocked  *)
(* in pthread_cond_wait has released its mutex and is in waiting.          *)
(***************************************************************************)
EXTENDS Integers, Sequences, FiniteSets

CONSTANTS
  Block,      \* the blocks of the frame pool (POOL_SIZE of them)
  NoBlock,    \* the null FrameBlock pointer
  QueueSize,  \* QUEUE_SIZE
  SeqMod,     \* sequence numbers are counted modulo SeqMod
  Faults,     \* the system calls that may fail
  Keys        \* the keys that may be pressed

ASSUME ContextAssumption ==
  /\ IsFiniteSet(Block) /\ Block # {} /\ NoBlock \notin Block
  /\ QueueSize \in Nat \ {0}
  /\ SeqMod \in Nat /\ SeqMod > Cardinality(Block)

VARIABLES
  pc,         \* where each thread is
  waiting,    \* the condition variable each thread is blocked on
  fb,         \* the local FrameBlock pointer of each worker
  state,      \* ui_arg->state
  uiMutex,    \* the holder of ui_arg->mutex
  uiFreed,    \* ui_arg has been destroyed and freed
  screen,     \* fb_init has mapped the framebuffer: frame_dev.fbp # NULL
  freeList,   \* frame_pool->free_list, its head first
  refcount,   \* blk->refcount of every block
  frame,      \* the frame in every block
  queue,      \* display_q and record_q, by their consumer
  wrapSem,    \* the value of wrap_sem
  seq,        \* the next sequence number, local to capture
  taken,      \* history: the sequence number each consumer is to see next
  overrun     \* history: frames each worker handled since a stop or exit

threadVars == <<pc, waiting, fb>>
uiVars == <<state, uiMutex, uiFreed, screen>>
poolVars == <<freeList, refcount>>
streamVars == <<frame, queue, wrapSem, seq, taken>>
vars == <<threadVars, uiVars, poolVars, streamVars, overrun>>

Consumer == {"display", "record"}
Worker == Consumer \cup {"capture"}
Thread == Worker \cup {"main", "ui"}
State == {"STOPPED", "RUNNING", "EXIT"}
Seqno == 0 .. SeqMod - 1
Next1(n) == (n + 1) % SeqMod

\* A frame is its sequence number and whether the input wrapped to fill it.
\* The content of a block that nobody owns is never read: it is NoFrame.
Frame == [seq : Seqno, wrapped : BOOLEAN]
NoFrame == [seq |-> SeqMod, wrapped |-> FALSE]

\* The names of the condition variables of the two queues.
NotEmpty == [display |-> "display_not_empty", record |-> "record_not_empty"]
NotFull == [display |-> "display_not_full", record |-> "record_not_full"]
Cond == {"ui", "pool"} \cup {NotEmpty[c] : c \in Consumer} \cup {NotFull[c] : c \in Consumer}

Elems(s) == {s[i] : i \in DOMAIN s}

-----------------------------------------------------------------------------
(* Threads and condition variables *)

\* main has neither returned nor crashed, which ends every thread.
Alive == pc["main"] \notin {"failed", "crashed"}

\* Thread t is about to run the code at l.
At(t, l) == Alive /\ pc[t] = l /\ waiting[t] = "none"

Goto(t, l) == pc' = [pc EXCEPT ![t] = l]

\* pthread_cond_wait, until a signal, a broadcast or a spurious wakeup.
Sleep(t, c) == waiting' = [waiting EXCEPT ![t] = c]

Sleeping(c) == {t \in Thread : waiting[t] = c}

\* MutSignal: the call is missing.
MutSignal(c) == UNCHANGED waiting
Signal(c) ==
  \/ Sleeping(c) = {} /\ UNCHANGED waiting
  \/ \E t \in Sleeping(c) : waiting' = [waiting EXCEPT ![t] = "none"]

Broadcast(c) ==
  waiting' = [t \in Thread |-> IF waiting[t] = c THEN "none" ELSE waiting[t]]

SpuriousWakeup(t) ==
  /\ Alive /\ waiting[t] # "none"
  /\ waiting' = [waiting EXCEPT ![t] = "none"]
  /\ UNCHANGED <<pc, fb, uiVars, poolVars, streamVars, overrun>>

-----------------------------------------------------------------------------
(* The ui state, as the workers see it *)

\* A worker can lock ui_arg->mutex.  What happens on the freed memory is left
\* to the actions named Freed.
CanLockUi == ~uiFreed /\ uiMutex = "none"

\* The unlocked reads of ui_arg->state: anything once the memory is freed.
SeenStates == IF uiFreed THEN State ELSE {state}

\* Workers stop where they wait for the state to leave STATE_STOPPED.
GateSleep(t) ==
  /\ At(t, "gate") /\ CanLockUi
  /\ state = "STOPPED"
  /\ Sleep(t, "ui")
  /\ UNCHANGED <<pc, fb, uiVars, poolVars, streamVars, overrun>>

\* MutGatePass: a woken worker does not test the state again.
MutGatePass(t, next) ==
  /\ At(t, "gate") /\ CanLockUi
  /\ state # "EXIT"
  /\ Goto(t, next)
  /\ UNCHANGED <<waiting, fb, uiVars, poolVars, streamVars, overrun>>
GatePass(t, next) ==
  /\ At(t, "gate") /\ CanLockUi
  /\ state = "RUNNING"
  /\ Goto(t, next)
  /\ UNCHANGED <<waiting, fb, uiVars, poolVars, streamVars, overrun>>

\* STATE_EXIT: capture and record leave by goto thread_exit, past the unlock.
GateExit(t) ==
  /\ At(t, "gate") /\ CanLockUi
  /\ state = "EXIT"
  /\ Goto(t, "done")
  /\ uiMutex' = t
  /\ UNCHANGED <<waiting, fb, state, uiFreed, screen, poolVars, streamVars, overrun>>

\* The gate on freed memory: the lock may block for good, or the worker goes on
\* and reads any state.
GateFreed(t, next) ==
  /\ At(t, "gate") /\ uiFreed
  /\ \/ Goto(t, next) \/ Goto(t, "done")
  /\ UNCHANGED <<waiting, fb, uiVars, poolVars, streamVars, overrun>>

\* Open succeeded; ui_arg->fds[i] = fd under the ui mutex.
PublishFd(t, next) ==
  /\ At(t, "publish") /\ CanLockUi
  /\ Goto(t, next)
  /\ UNCHANGED <<waiting, fb, uiVars, poolVars, streamVars, overrun>>

PublishFreed(t, next) ==
  /\ At(t, "publish") /\ uiFreed
  /\ Goto(t, next)
  /\ UNCHANGED <<waiting, fb, uiVars, poolVars, streamVars, overrun>>

\* One more frame handled although the user has stopped or quit the program.
\* OverrunCap bounds the history: it stands for itself and every larger number.
OverrunCap == 2
CountOverrun(w) ==
  overrun' = IF state = "RUNNING" \/ overrun[w] = OverrunCap THEN overrun
             ELSE [overrun EXCEPT ![w] = @ + 1]

-----------------------------------------------------------------------------
(* The consumers' ends of the queues and of the pool *)

is_empty(c) == queue[c] = <<>>
\* MutIsFull: a ring that keeps one slot empty.
MutIsFull(c) == Len(queue[c]) = QueueSize - 1
is_full(c) == Len(queue[c]) = QueueSize

DequeueWait(c) ==
  /\ At(c, "dequeue") /\ is_empty(c)
  /\ Sleep(c, NotEmpty[c])
  /\ UNCHANGED <<pc, fb, uiVars, poolVars, streamVars, overrun>>

Dequeue(c, next) ==
  /\ At(c, "dequeue") /\ ~is_empty(c)
  /\ fb' = [fb EXCEPT ![c] = Head(queue[c])]
  /\ queue' = [queue EXCEPT ![c] = Tail(@)]
  /\ taken' = [taken EXCEPT ![c] = Next1(frame[Head(queue[c])].seq)]
  /\ Signal(NotFull[c])
  /\ Goto(c, next)
  /\ UNCHANGED <<uiVars, poolVars, frame, wrapSem, seq, overrun>>

\* fp_release: the decrement and, for the last owner, the way to the free list.
\* MutReleaseSub: the decrement and the test of a counter that is not atomic.
MutReleaseSub(c) ==
  /\ At(c, "release")
  /\ refcount' = [refcount EXCEPT ![fb[c]] = @ - 1]
  /\ Goto(c, "dequeue")
  /\ fb' = [fb EXCEPT ![c] = NoBlock]
  /\ UNCHANGED <<waiting, uiVars, freeList, frame, queue, wrapSem, seq, taken, overrun>>
ReleaseSub(c) ==
  /\ At(c, "release")
  /\ refcount' = [refcount EXCEPT ![fb[c]] = @ - 1]
  /\ IF refcount[fb[c]] = 1
     THEN /\ Goto(c, "push")
          /\ frame' = [frame EXCEPT ![fb[c]] = NoFrame]
          /\ UNCHANGED fb
     ELSE /\ Goto(c, "dequeue")
          /\ fb' = [fb EXCEPT ![c] = NoBlock]
          /\ UNCHANGED frame
  /\ UNCHANGED <<waiting, uiVars, freeList, queue, wrapSem, seq, taken, overrun>>

ReleasePush(c) ==
  /\ At(c, "push")
  /\ freeList' = <<fb[c]>> \o freeList
  /\ Signal("pool")
  /\ Goto(c, "dequeue")
  /\ fb' = [fb EXCEPT ![c] = NoBlock]
  /\ UNCHANGED <<uiVars, refcount, streamVars, overrun>>

=============================================================================
