------------------------------ MODULE TaskQueue ------------------------------
(***************************************************************************)
(* The task queue of src/task.c: a bounded ring whose pushers (the epoll   *)
(* loop) and poppers (the workers) wait on one condition variable, and     *)
(* keep_running, the flag that ends the poppers.  The program does not use *)
(* it; any number of threads may.                                          *)
(*                                                                         *)
(* A pop that finds keep_running cleared goes on without the mutex, takes  *)
(* a slot whether there is a task or not and unlocks a mutex it does not   *)
(* hold.  What follows is undefined and the model stops there.             *)
(***************************************************************************)
EXTENDS Integers, Sequences

CONSTANTS
  Task,       \* what is queued
  NoTask,     \* a slot never written, and the result of no call
  Pusher,     \* the threads that add tasks
  Popper,     \* the threads that take tasks
  Capacity    \* TASK_QUEUE_CAPACITY, positive

Thread == Pusher \cup Popper

VARIABLES
  queue, front, rear, count,  \* the ring
  keep_running,
  pc,                         \* the call each thread is in
  task,                       \* what a thread pushes, or was returned last
  asleep,                     \* the threads blocked in pthread_cond_wait
  undefined                   \* history: a pop took the shutdown path

ring == <<queue, front, rear, count>>
vars == <<ring, keep_running, pc, task, asleep, undefined>>

Init ==
  /\ queue = [n \in 0 .. Capacity - 1 |-> NoTask]
  /\ front = 0 /\ rear = 0 /\ count = 0
  /\ keep_running = TRUE
  /\ pc = [t \in Thread |-> "idle"]
  /\ task = [t \in Thread |-> NoTask]
  /\ asleep = {}
  /\ undefined = FALSE

\* A thread holds the mutex, in the call named.
Runs(t, call) == pc[t] = call /\ t \notin asleep /\ ~undefined

CallPush(t, x) ==
  /\ Runs(t, "idle")
  /\ pc' = [pc EXCEPT ![t] = "push"] /\ task' = [task EXCEPT ![t] = x]
  /\ UNCHANGED <<ring, keep_running, asleep, undefined>>

CallPop(t) ==
  /\ Runs(t, "idle")
  /\ pc' = [pc EXCEPT ![t] = "pop"]
  /\ UNCHANGED <<ring, keep_running, task, asleep, undefined>>

Wait(t) ==
  /\ \/ Runs(t, "push") /\ count = Capacity
     \/ Runs(t, "pop") /\ count = 0 /\ keep_running
  /\ asleep' = asleep \cup {t}
  /\ UNCHANGED <<ring, keep_running, pc, task, undefined>>

\* pthread_cond_signal wakes one waiting thread, a pusher or a popper.
\* MutSignal: the call is missing.
MutSignal == UNCHANGED asleep
Signal ==
  \/ asleep = {} /\ UNCHANGED asleep
  \/ \E t \in asleep : asleep' = asleep \ {t}

Return(t) == pc' = [pc EXCEPT ![t] = "idle"]

\* MutPush: the loop around the wait is an if.
MutPush(t) ==
  /\ Runs(t, "push")
  /\ queue' = [queue EXCEPT ![rear] = task[t]]
  /\ rear' = (rear + 1) % Capacity /\ count' = count + 1
  /\ task' = [task EXCEPT ![t] = NoTask]
  /\ Signal /\ Return(t)
  /\ UNCHANGED <<front, keep_running, undefined>>
Push(t) ==
  /\ Runs(t, "push") /\ count # Capacity
  /\ queue' = [queue EXCEPT ![rear] = task[t]]
  /\ rear' = (rear + 1) % Capacity /\ count' = count + 1
  /\ task' = [task EXCEPT ![t] = NoTask]
  /\ Signal /\ Return(t)
  /\ UNCHANGED <<front, keep_running, undefined>>

Take(t) ==
  /\ task' = [task EXCEPT ![t] = queue[front]]
  /\ front' = (front + 1) % Capacity /\ count' = count - 1
  /\ Signal /\ Return(t)
  /\ UNCHANGED <<queue, rear, keep_running>>

Pop(t) ==
  /\ Runs(t, "pop") /\ count # 0 /\ keep_running
  /\ Take(t)
  /\ UNCHANGED undefined

\* keep_running is cleared: unlock, take, unlock again.
PopShutdown(t) ==
  /\ Runs(t, "pop") /\ ~keep_running
  /\ Take(t)
  /\ undefined' = TRUE

\* keep_running is a sig_atomic_t: a handler clears it, and wakes nobody.
ClearRunning ==
  /\ keep_running /\ keep_running' = FALSE
  /\ UNCHANGED <<ring, pc, task, asleep, undefined>>

SpuriousWakeup(t) ==
  /\ t \in asleep /\ ~undefined
  /\ asleep' = asleep \ {t}
  /\ UNCHANGED <<ring, keep_running, pc, task, undefined>>

Next ==
  \/ \E t \in Pusher, x \in Task : CallPush(t, x)
  \/ \E t \in Popper : CallPop(t)
  \/ \E t \in Thread :
       \/ Wait(t)
       \/ Push(t)
       \/ Pop(t)
       \/ PopShutdown(t)
       \/ SpuriousWakeup(t)
  \/ ClearRunning

Spec == Init /\ [][Next]_vars

-----------------------------------------------------------------------------
(* Properties *)

\* Every variable keeps its type; the shutdown path alone takes count below 0
\* (task.c:43-49).
TypeOK ==
  /\ queue \in [0 .. Capacity - 1 -> Task \cup {NoTask}]
  /\ front \in 0 .. Capacity - 1 /\ rear \in 0 .. Capacity - 1
  /\ count \in (IF undefined THEN -1 ELSE 0) .. Capacity
  /\ keep_running \in BOOLEAN /\ undefined \in BOOLEAN
  /\ pc \in [Thread -> {"idle", "push", "pop"}]
  /\ task \in [Thread -> Task \cup {NoTask}]
  /\ asleep \in SUBSET Thread

\* The queued tasks, in order.
Tasks == [n \in 1 .. count |-> queue[(front + n - 1) % Capacity]]

F == INSTANCE Fifo WITH
  Item <- Task, NoItem <- NoTask, items <- Tasks, slot <- task

\* Tasks are handed over once and in order until keep_running is cleared
\* (task.c:18-53), also while pushers wait.
IsFifoWhileRunning == F!Init /\ [][~undefined' => F!Next]_(F!vars)

\* A sleeper for whom there is a task or room.
Stranded(t) ==
  /\ t \in asleep
  /\ \/ pc[t] = "pop" /\ count > 0
     \/ pc[t] = "push" /\ count < Capacity

\* One condition is enough for both kinds of threads while neither pushers nor
\* poppers outnumber TASK_QUEUE_CAPACITY (task.c:22, 30, 39, 51): whoever could go
\* on and sleeps has another thread awake in a call, which will wake it.  Pushers
\* and poppers then never sleep at the same time.  With more of one kind, one of
\* them can sleep on from an empty ring to a full one, or back, and take a wakeup
\* meant for the other kind: all threads in a call can end up asleep.
NoneStranded == (\E t \in Thread : Stranded(t)) =>
  \E u \in Thread : pc[u] # "idle" /\ u \notin asleep

=============================================================================
