----------------------------- MODULE PartsProofs ------------------------------
(***************************************************************************)
(* Proofs about the task queue and the memory pool, the two parts of       *)
(* MCParts that threads share, for every capacity, every number of blocks  *)
(* and every finite set of threads.                                        *)
(***************************************************************************)
EXTENDS MCParts, FiniteSetTheorems, SequenceTheorems, TLAPS

-----------------------------------------------------------------------------
(* The parts do not disturb each other *)

\* A step of the parts is a step of the task queue, or leaves it alone.
LEMMA TaskQueueStep == [Next]_vars => [T!Next]_(T!vars)
  BY DEF Next, vars, OthersStay, taskQueueVars, T!vars, T!ring

\* A step of the parts is a step of the memory pool, or leaves it alone.
LEMMA MemoryPoolStep == [Next]_vars => [M!Next]_(M!vars)
  BY DEF Next, vars, OthersStay, memoryPoolVars, M!vars

-----------------------------------------------------------------------------
(* Positions in the ring *)

Slot == 0 .. Capacity - 1

\* m mod Capacity for an m below 2 * Capacity.
Wrap(m) == IF m < Capacity THEN m ELSE m - Capacity

LEMMA ModSmall ==
  ASSUME NEW m \in Slot
  PROVE  m % Capacity = m
  BY PartsAssumption DEF PartsAssumption, Slot

LEMMA ModLarge ==
  ASSUME NEW m \in Capacity .. 2 * Capacity - 1
  PROVE  m % Capacity = m - Capacity
  BY PartsAssumption DEF PartsAssumption

\* The slot some distance from another.
LEMMA ModSum ==
  ASSUME NEW h \in Slot, NEW n \in 0 .. Capacity
  PROVE  /\ (h + n) % Capacity = Wrap(h + n)
         /\ (h + n) % Capacity \in Slot
  <1>1. Capacity \in Nat \ {0}
    BY PartsAssumption DEF PartsAssumption
  <1>2. CASE h + n < Capacity
    BY <1>1, <1>2, ModSmall DEF Slot, Wrap
  <1>3. CASE h + n >= Capacity
    BY <1>1, <1>3, ModLarge DEF Slot, Wrap
  <1>4. QED
    BY <1>1, <1>2, <1>3 DEF Slot

\* Two slots less than Capacity away from h are different.
LEMMA ModDistinct ==
  ASSUME NEW h \in Slot, NEW m \in 0 .. Capacity - 1, NEW n \in 0 .. Capacity - 1, m # n
  PROVE  (h + m) % Capacity # (h + n) % Capacity
  <1>1. m \in 0 .. Capacity /\ n \in 0 .. Capacity /\ Capacity \in Nat \ {0}
    BY PartsAssumption DEF PartsAssumption
  <1>2. (h + m) % Capacity = Wrap(h + m) /\ (h + n) % Capacity = Wrap(h + n)
    BY <1>1, ModSum
  <1>3. Wrap(h + m) # Wrap(h + n)
    BY <1>1 DEF Slot, Wrap
  <1>4. QED
    BY <1>2, <1>3

\* The slot after the n-th one from h.
LEMMA ModNext ==
  ASSUME NEW h \in Slot, NEW n \in 0 .. Capacity - 1
  PROVE  /\ (((h + n) % Capacity) + 1) % Capacity = (h + n + 1) % Capacity
         /\ (((h + 1) % Capacity) + n) % Capacity = (h + n + 1) % Capacity
  <1>1. Capacity \in Nat \ {0}
    BY PartsAssumption DEF PartsAssumption
  <1>2. /\ n \in 0 .. Capacity /\ n + 1 \in 0 .. Capacity /\ 1 \in 0 .. Capacity
        /\ h + n + 1 = h + (n + 1)
    BY <1>1 DEF Slot
  <1>3. /\ Wrap(h + n) \in Slot /\ Wrap(h + 1) \in Slot
        /\ (h + n) % Capacity = Wrap(h + n) /\ (h + 1) % Capacity = Wrap(h + 1)
        /\ (h + (n + 1)) % Capacity = Wrap(h + (n + 1))
    BY <1>2, ModSum
  <1>4. /\ (Wrap(h + n) + 1) % Capacity = Wrap(Wrap(h + n) + 1)
        /\ (Wrap(h + 1) + n) % Capacity = Wrap(Wrap(h + 1) + n)
    BY <1>2, <1>3, ModSum
  <1>5. /\ Wrap(Wrap(h + n) + 1) = Wrap(h + (n + 1))
        /\ Wrap(Wrap(h + 1) + n) = Wrap(h + (n + 1))
    BY <1>1 DEF Slot, Wrap
  <1>6. QED
    BY <1>2, <1>3, <1>4, <1>5

-----------------------------------------------------------------------------
(* The task queue: what holds for any number of threads *)

\* A thread in a call is of the kind that makes it, a pusher holds its task, and
\* only threads in a call sleep.
CallsOK ==
  \A t \in T!Thread :
    /\ tq_pc[t] = "push" => t \in Pusher /\ task[t] \in Task
    /\ tq_pc[t] = "pop" => t \in Popper
    /\ t \in tq_asleep => tq_pc[t] # "idle"

\* Until the shutdown path is taken, the write index is determined by the read
\* index and the count.
RingOK == ~undefined => rear = (front + count) % Capacity

TaskInv == T!TypeOK /\ CallsOK /\ RingOK

LEMMA TaskInit == T!Init => TaskInv
  <1> SUFFICES ASSUME T!Init PROVE TaskInv
    OBVIOUS
  <1>1. Capacity \in Nat \ {0} /\ 0 \in 0 .. Capacity - 1 /\ 0 \in 0 .. Capacity
    BY PartsAssumption DEF PartsAssumption
  <1>2. queue \in [0 .. Capacity - 1 -> Task \cup {NoTask}]
    BY DEF T!Init
  <1>3. T!TypeOK
    BY <1>1, <1>2 DEF T!Init, T!TypeOK
  <1>4. RingOK
    BY <1>1 DEF T!Init, RingOK
  <1>5. QED
    BY <1>3, <1>4 DEF T!Init, TaskInv, CallsOK

\* A call begins, a thread falls asleep or wakes up, or keep_running is cleared:
\* the ring does not change.
LEMMA RingStill ==
  ASSUME TaskInv,
         \/ \E t \in Pusher, x0 \in Task : T!CallPush(t, x0)
         \/ \E t \in Popper : T!CallPop(t)
         \/ \E t \in T!Thread : T!Wait(t) \/ T!SpuriousWakeup(t)
         \/ T!ClearRunning
         \/ UNCHANGED T!vars
  PROVE  TaskInv' /\ UNCHANGED <<T!ring, undefined>>
  <1> USE DEF TaskInv
  <1>1. UNCHANGED <<T!ring, undefined>>
    BY DEF T!CallPush, T!CallPop, T!Wait, T!SpuriousWakeup, T!ClearRunning, T!vars
  <1>2. RingOK'
    BY <1>1 DEF RingOK, T!ring
  <1>3. /\ keep_running' \in BOOLEAN
        /\ tq_pc' \in [T!Thread -> {"idle", "push", "pop"}]
        /\ task' \in [T!Thread -> Task \cup {NoTask}]
        /\ tq_asleep' \in SUBSET T!Thread
        /\ CallsOK'
    <2>1. ASSUME NEW t \in Pusher, NEW x0 \in Task, T!CallPush(t, x0)
          PROVE  <1>3
      BY <2>1 DEF T!CallPush, T!Runs, T!TypeOK, T!Thread, CallsOK
    <2>2. ASSUME NEW t \in Popper, T!CallPop(t)
          PROVE  <1>3
      BY <2>2 DEF T!CallPop, T!Runs, T!TypeOK, T!Thread, CallsOK
    <2>3. ASSUME NEW t \in T!Thread, T!Wait(t)
          PROVE  <1>3
      BY <2>3 DEF T!Wait, T!Runs, T!TypeOK, CallsOK
    <2>4. ASSUME NEW t \in T!Thread, T!SpuriousWakeup(t)
          PROVE  <1>3
      BY <2>4 DEF T!SpuriousWakeup, T!TypeOK, CallsOK
    <2>5. ASSUME T!ClearRunning \/ UNCHANGED T!vars
          PROVE  <1>3
      BY <2>5 DEF T!ClearRunning, T!vars, T!TypeOK, CallsOK
    <2>6. QED
      BY <2>1, <2>2, <2>3, <2>4, <2>5
  <1>4. T!TypeOK'
    BY <1>1, <1>3 DEF T!TypeOK, T!ring
  <1>5. QED
    BY <1>1, <1>2, <1>3, <1>4

\* A signal wakes one sleeper, if there is one.
LEMMA SignalWakes ==
  ASSUME T!Signal
  PROVE  /\ tq_asleep' \subseteq tq_asleep
         /\ \/ tq_asleep' = {}
            \/ \E u \in tq_asleep : tq_asleep' = tq_asleep \ {u}
  BY DEF T!Signal

LEMMA PushInv ==
  ASSUME TaskInv, NEW t \in T!Thread, T!Push(t)
  PROVE  TaskInv'
  <1> USE DEF TaskInv
  <1>1. /\ Capacity \in Nat \ {0} /\ ~undefined /\ undefined' = undefined
        /\ front \in Slot /\ front' = front /\ rear \in Slot
        /\ count \in 0 .. Capacity - 1 /\ count' = count + 1
        /\ rear = (front + count) % Capacity /\ rear' = (rear + 1) % Capacity
    BY PartsAssumption DEF PartsAssumption, T!Push, T!Runs, T!TypeOK, RingOK, Slot
  <1>2. rear' \in Slot /\ rear' = (front + count + 1) % Capacity
    BY <1>1, ModSum, ModNext, 1 \in 0 .. Capacity
  <1>3. RingOK'
    <2>1. front' + count' = front + count + 1
      BY <1>1 DEF Slot
    <2>2. QED
      BY <1>2, <2>1 DEF RingOK
  <1>4. tq_asleep' \subseteq tq_asleep
    BY SignalWakes DEF T!Push
  <1>5. CallsOK'
    BY <1>4 DEF T!Push, T!Runs, T!Return, T!TypeOK, CallsOK
  <1>6. T!TypeOK'
    <2>1. count' \in 0 .. Capacity
      BY <1>1
    <2>2. queue' \in [0 .. Capacity - 1 -> Task \cup {NoTask}]
      BY <1>1 DEF T!Push, T!TypeOK, Slot
    <2>3. /\ tq_pc' \in [T!Thread -> {"idle", "push", "pop"}]
          /\ task' \in [T!Thread -> Task \cup {NoTask}]
          /\ tq_asleep' \in SUBSET T!Thread
          /\ keep_running' \in BOOLEAN
      BY <1>4 DEF T!Push, T!Return, T!TypeOK
    <2>4. front' \in 0 .. Capacity - 1 /\ rear' \in 0 .. Capacity - 1
      BY <1>1, <1>2 DEF Slot
    <2>5. QED
      BY <1>1, <2>1, <2>2, <2>3, <2>4 DEF T!TypeOK
  <1>7. QED
    BY <1>3, <1>5, <1>6

LEMMA TakeInv ==
  ASSUME TaskInv, NEW t \in T!Thread, T!Pop(t) \/ T!PopShutdown(t)
  PROVE  TaskInv'
  <1> USE DEF TaskInv
  <1>1. /\ Capacity \in Nat \ {0} /\ ~undefined
        /\ front \in Slot /\ front' = (front + 1) % Capacity
        /\ rear \in Slot /\ rear' = rear
        /\ count \in 0 .. Capacity /\ count' = count - 1
        /\ rear = (front + count) % Capacity
        /\ undefined' \in BOOLEAN
        /\ undefined' \/ count # 0
    BY PartsAssumption
    DEF PartsAssumption, T!Pop, T!PopShutdown, T!Take, T!Runs, T!TypeOK, RingOK, Slot
  <1>2. front' \in Slot
    BY <1>1, ModSum, 1 \in 0 .. Capacity
  <1>3. RingOK'
    <2>1. ASSUME ~undefined'
          PROVE  rear' = (front' + count') % Capacity
      <3>1. count - 1 \in 0 .. Capacity - 1 /\ front + (count - 1) + 1 = front + count
        BY <1>1, <2>1 DEF Slot
      <3>2. (((front + 1) % Capacity) + (count - 1)) % Capacity
              = (front + (count - 1) + 1) % Capacity
        BY <1>1, <3>1, ModNext
      <3>3. QED
        BY <1>1, <3>1, <3>2
    <2>2. QED
      BY <2>1 DEF RingOK
  <1>4. /\ tq_asleep' \subseteq tq_asleep
        /\ tq_pc[t] = "pop" /\ t \notin tq_asleep
        /\ tq_pc' = [tq_pc EXCEPT ![t] = "idle"]
        /\ task' = [task EXCEPT ![t] = queue[front]]
        /\ keep_running' = keep_running /\ queue' = queue
    BY SignalWakes DEF T!Pop, T!PopShutdown, T!Take, T!Return, T!Runs
  <1>5. CallsOK'
    BY <1>4 DEF T!TypeOK, CallsOK
  <1>6. T!TypeOK'
    <2>1. count' \in (IF undefined' THEN -1 ELSE 0) .. Capacity
      BY <1>1
    <2>2. queue[front] \in Task \cup {NoTask}
      BY <1>1 DEF T!TypeOK, Slot
    <2>3. /\ tq_pc' \in [T!Thread -> {"idle", "push", "pop"}]
          /\ task' \in [T!Thread -> Task \cup {NoTask}]
          /\ tq_asleep' \in SUBSET T!Thread
          /\ keep_running' \in BOOLEAN
          /\ queue' \in [0 .. Capacity - 1 -> Task \cup {NoTask}]
      BY <1>4, <2>2 DEF T!TypeOK
    <2>4. front' \in 0 .. Capacity - 1 /\ rear' \in 0 .. Capacity - 1
      BY <1>1, <1>2 DEF Slot
    <2>5. QED
      BY <1>1, <2>1, <2>3, <2>4 DEF T!TypeOK
  <1>7. QED
    BY <1>3, <1>5, <1>6

LEMMA TaskNext == TaskInv /\ [T!Next]_(T!vars) => TaskInv'
  BY RingStill, PushInv, TakeInv DEF T!Next

LEMMA TaskInductive == Spec => []TaskInv
  BY TaskInit, TaskQueueStep, TaskNext, PTL DEF Spec, Init

-----------------------------------------------------------------------------
(* The task queue implements Fifo until keep_running is cleared            *)

\* The queued tasks are a sequence.
LEMMA TasksType ==
  ASSUME TaskInv, ~undefined
  PROVE  /\ T!Tasks \in Seq(Task \cup {NoTask})
         /\ Len(T!Tasks) = count
         /\ \A n \in 1 .. count : T!Tasks[n] = queue[(front + n - 1) % Capacity]
  <1>1. count \in 0 .. Capacity /\ front \in Slot /\ Capacity \in Nat \ {0}
    BY PartsAssumption DEF PartsAssumption, TaskInv, T!TypeOK, Slot
  <1>2. ASSUME NEW n \in 1 .. count
        PROVE  queue[(front + n - 1) % Capacity] \in Task \cup {NoTask}
    <2>1. n - 1 \in 0 .. Capacity /\ front + n - 1 = front + (n - 1)
      BY <1>1 DEF Slot
    <2>2. (front + n - 1) % Capacity \in Slot
      BY <1>1, <2>1, ModSum
    <2>3. QED
      BY <2>2 DEF TaskInv, T!TypeOK, Slot
  <1>3. T!Tasks \in [1 .. count -> Task \cup {NoTask}]
    BY <1>2 DEF T!Tasks
  <1>4. QED
    BY <1>1, <1>3 DEF T!Tasks

\* The same of the next state.
LEMMA TasksTypeNext ==
  ASSUME TaskInv', ~undefined'
  PROVE  /\ T!Tasks' \in Seq(Task \cup {NoTask})
         /\ Len(T!Tasks') = count'
         /\ \A n \in 1 .. count' : T!Tasks'[n] = queue'[(front' + n - 1) % Capacity]
  <1>1. (TaskInv /\ ~undefined =>
           /\ T!Tasks \in Seq(Task \cup {NoTask})
           /\ Len(T!Tasks) = count
           /\ \A n \in 1 .. count : T!Tasks[n] = queue[(front + n - 1) % Capacity])'
    BY TasksType, PTL
  <1>2. QED
    BY <1>1

\* A push appends what the thread brings, without touching a queued slot.
LEMMA PushAppends ==
  ASSUME TaskInv, TaskInv', NEW t \in T!Thread, T!Push(t)
  PROVE  /\ Len(T!Tasks) < Capacity
         /\ T!Tasks' = Append(T!Tasks, task[t])
  <1> DEFINE S == Task \cup {NoTask}
  <1>1. /\ Capacity \in Nat \ {0} /\ ~undefined /\ ~undefined'
        /\ front \in Slot /\ front' = front /\ rear \in Slot
        /\ count \in 0 .. Capacity - 1 /\ count' = count + 1
        /\ rear = (front + count) % Capacity
        /\ task[t] \in S
        /\ queue' = [queue EXCEPT ![rear] = task[t]]
        /\ DOMAIN queue = Slot
    BY PartsAssumption DEF PartsAssumption, TaskInv, T!Push, T!Runs, T!TypeOK, RingOK, Slot
  <1>2. /\ T!Tasks \in Seq(S) /\ Len(T!Tasks) = count
        /\ \A n \in 1 .. count : T!Tasks[n] = queue[(front + n - 1) % Capacity]
    BY <1>1, TasksType
  <1>3. /\ T!Tasks' \in Seq(S) /\ Len(T!Tasks') = count'
        /\ \A n \in 1 .. count' : T!Tasks'[n] = queue'[(front' + n - 1) % Capacity]
    BY <1>1, TasksTypeNext
  <1>4. /\ Append(T!Tasks, task[t]) \in Seq(S)
        /\ Len(Append(T!Tasks, task[t])) = count + 1
        /\ \A n \in 1 .. count : Append(T!Tasks, task[t])[n] = T!Tasks[n]
        /\ Append(T!Tasks, task[t])[count + 1] = task[t]
    BY <1>1, <1>2
  <1>5. ASSUME NEW n \in 1 .. count'
        PROVE  T!Tasks'[n] = Append(T!Tasks, task[t])[n]
    <2>1. n - 1 \in 0 .. Capacity - 1 /\ front + n - 1 = front + (n - 1)
      BY <1>1 DEF Slot
    <2>2. (front + n - 1) % Capacity \in Slot
      <3>1. n - 1 \in 0 .. Capacity
        BY <1>1, <2>1
      <3>2. (front + (n - 1)) % Capacity \in Slot
        BY <1>1, <3>1, ModSum
      <3>3. QED
        BY <2>1, <3>2
    <2>3. CASE n = count + 1
      <3>1. (front + n - 1) % Capacity = rear
        BY <1>1, <2>3 DEF Slot
      <3>2. queue'[rear] = task[t]
        BY <1>1
      <3>3. QED
        BY <1>1, <1>3, <1>4, <2>3, <3>1, <3>2
    <2>4. CASE n # count + 1
      <3>1. n \in 1 .. count /\ n - 1 # count
        BY <1>1, <2>4
      <3>2. (front + (n - 1)) % Capacity # (front + count) % Capacity
        BY <1>1, <2>1, <3>1, ModDistinct
      <3>3. queue'[(front + n - 1) % Capacity] = queue[(front + n - 1) % Capacity]
        BY <1>1, <2>1, <2>2, <3>2
      <3>4. QED
        BY <1>1, <1>2, <1>3, <1>4, <3>1, <3>3
    <2>5. QED
      BY <2>3, <2>4
  <1>6. QED
    BY <1>1, <1>2, <1>3, <1>4, <1>5, SeqEqual

\* A pop returns the oldest task and keeps the others in order.
LEMMA PopTakesHead ==
  ASSUME TaskInv, TaskInv', NEW t \in T!Thread, T!Pop(t)
  PROVE  /\ T!Tasks # <<>>
         /\ queue[front] = Head(T!Tasks)
         /\ T!Tasks' = Tail(T!Tasks)
  <1> DEFINE S == Task \cup {NoTask}
  <1>1. /\ Capacity \in Nat \ {0} /\ ~undefined /\ ~undefined'
        /\ front \in Slot /\ front' = (front + 1) % Capacity
        /\ count \in 1 .. Capacity /\ count' = count - 1
        /\ queue' = queue
    BY PartsAssumption
    DEF PartsAssumption, TaskInv, T!Pop, T!Take, T!Runs, T!TypeOK, RingOK, Slot
  <1>2. /\ T!Tasks \in Seq(S) /\ Len(T!Tasks) = count
        /\ \A n \in 1 .. count : T!Tasks[n] = queue[(front + n - 1) % Capacity]
    BY <1>1, TasksType
  <1>3. /\ T!Tasks # <<>> /\ Head(T!Tasks) = T!Tasks[1]
        /\ Tail(T!Tasks) \in Seq(S) /\ Len(Tail(T!Tasks)) = count'
        /\ \A n \in 1 .. count' : Tail(T!Tasks)[n] = T!Tasks[n + 1]
    BY <1>1, <1>2
  <1>4. T!Tasks[1] = queue[front]
    <2>1. front + 1 - 1 = front /\ 1 \in 1 .. count
      BY <1>1 DEF Slot
    <2>2. QED
      BY <1>1, <1>2, <2>1, ModSmall
  <1>5. ASSUME NEW n \in 1 .. count'
        PROVE  queue'[(front' + n - 1) % Capacity] = Tail(T!Tasks)[n]
    <2>1. /\ n - 1 \in 0 .. Capacity - 1 /\ n + 1 \in 1 .. count
          /\ ((front + 1) % Capacity) + n - 1 = ((front + 1) % Capacity) + (n - 1)
          /\ front + (n - 1) + 1 = front + (n + 1) - 1
      <3>1. (front + 1) % Capacity \in Slot
        BY <1>1, ModSum
      <3>2. QED
        BY <1>1, <3>1 DEF Slot
    <2>2. (((front + 1) % Capacity) + (n - 1)) % Capacity = (front + (n - 1) + 1) % Capacity
      BY <1>1, <2>1, ModNext
    <2>3. QED
      BY <1>1, <1>2, <1>3, <2>1, <2>2
  <1>6. /\ T!Tasks' \in Seq(S) /\ Len(T!Tasks') = count'
        /\ \A n \in 1 .. count' : T!Tasks'[n] = queue'[(front' + n - 1) % Capacity]
    BY <1>1, TasksTypeNext
  <1>7. QED
    BY <1>3, <1>4, <1>5, <1>6, SeqEqual

\* Every step but the one that takes the shutdown path is a step of Fifo.
LEMMA TaskSimulation ==
  ASSUME TaskInv, TaskInv', [T!Next]_(T!vars), ~undefined'
  PROVE  [T!F!Next]_(T!F!vars)
  <1> USE DEF T!F!Next, T!F!vars
  <1>1. ASSUME UNCHANGED T!ring
        PROVE  T!Tasks' = T!Tasks
    BY <1>1 DEF T!ring, T!Tasks
  <1>2. ASSUME NEW t \in Pusher, NEW k \in Task, T!CallPush(t, k)
        PROVE  T!F!Next
    BY <1>1, <1>2 DEF T!CallPush, T!F!Offer, T!Thread
  <1>3. ASSUME NEW t \in T!Thread, T!Push(t)
        PROVE  T!F!Next
    <2>1. Len(T!Tasks) < Capacity /\ T!Tasks' = Append(T!Tasks, task[t])
      BY <1>3, PushAppends
    <2>2. task[t] # NoTask /\ task' = [task EXCEPT ![t] = NoTask]
      BY <1>3, PartsAssumption DEF PartsAssumption, TaskInv, CallsOK, T!Push, T!Runs
    <2>3. QED
      BY <2>1, <2>2 DEF T!F!Put
  <1>4. ASSUME NEW t \in T!Thread, T!Pop(t)
        PROVE  T!F!Next
    <2>1. T!Tasks # <<>> /\ queue[front] = Head(T!Tasks) /\ T!Tasks' = Tail(T!Tasks)
      BY <1>4, PopTakesHead
    <2>2. task' = [task EXCEPT ![t] = queue[front]]
      BY <1>4 DEF T!Pop, T!Take
    <2>3. QED
      BY <2>1, <2>2 DEF T!F!Get
  <1>5. ASSUME \/ \E t \in Popper : T!CallPop(t)
               \/ \E t \in T!Thread : T!Wait(t) \/ T!SpuriousWakeup(t)
               \/ T!ClearRunning
               \/ UNCHANGED T!vars
        PROVE  UNCHANGED <<T!Tasks, task>>
    BY <1>1, <1>5 DEF T!CallPop, T!Wait, T!SpuriousWakeup, T!ClearRunning, T!vars
  <1>6. ASSUME NEW t \in T!Thread
        PROVE  ~T!PopShutdown(t)
    BY DEF T!PopShutdown
  <1>7. QED
    BY <1>2, <1>3, <1>4, <1>5, <1>6 DEF T!Next

\* The task queue hands every task over once and in order until a pop finds
\* keep_running cleared, for every capacity and any number of threads
\* (task.c:18-53).
THEOREM TasksInOrder == Spec => IsFifoWhileRunning
  <1>1. T!Init => T!F!Init
    <2> SUFFICES ASSUME T!Init PROVE T!F!Init
      OBVIOUS
    <2>1. T!Tasks = <<>>
      BY DEF T!Init, T!Tasks
    <2>2. QED
      BY <2>1 DEF T!Init, T!F!Init
  <1>2. TaskInv /\ TaskInv' /\ [T!Next]_(T!vars) => [~undefined' => T!F!Next]_(T!F!vars)
    BY TaskSimulation
  <1>3. QED
    BY <1>1, <1>2, TaskInductive, TaskQueueStep, PTL
    DEF Spec, Init, IsFifoWhileRunning, T!IsFifoWhileRunning

-----------------------------------------------------------------------------
(* One condition variable is enough, if the threads are few                *)

\* The threads asleep in a call.
Sleeping(call) == {t \in tq_asleep : tq_pc[t] = call}

\* Pushers and poppers never sleep at the same time, so that a signal cannot reach
\* a thread of the wrong kind: those who sleep since the ring was full are at most
\* as many as its tasks, those who sleep since it was empty at most as many as its
\* free slots.
SleepersServed ==
  ~undefined =>
    /\ Sleeping("push") = {} \/ Sleeping("pop") = {}
    /\ Cardinality(Sleeping("push")) <= count
    /\ Cardinality(Sleeping("pop")) <= Capacity - count

FewThreads == Cardinality(Pusher) <= Capacity /\ Cardinality(Popper) <= Capacity

\* The sleepers of a kind are some of the threads of that kind.
LEMMA SleepersCounted ==
  TaskInv => /\ IsFiniteSet(Sleeping("push")) /\ IsFiniteSet(Sleeping("pop"))
             /\ Cardinality(Sleeping("push")) \in Nat /\ Cardinality(Sleeping("pop")) \in Nat
             /\ Cardinality(Sleeping("push")) <= Cardinality(Pusher)
             /\ Cardinality(Sleeping("pop")) <= Cardinality(Popper)
  <1> SUFFICES ASSUME TaskInv
               PROVE  /\ IsFiniteSet(Sleeping("push")) /\ IsFiniteSet(Sleeping("pop"))
                      /\ Cardinality(Sleeping("push")) \in Nat
                      /\ Cardinality(Sleeping("pop")) \in Nat
                      /\ Cardinality(Sleeping("push")) <= Cardinality(Pusher)
                      /\ Cardinality(Sleeping("pop")) <= Cardinality(Popper)
    OBVIOUS
  <1>1. Sleeping("push") \subseteq Pusher /\ Sleeping("pop") \subseteq Popper
    BY DEF TaskInv, T!TypeOK, Sleeping, CallsOK
  <1>2. IsFiniteSet(Pusher) /\ IsFiniteSet(Popper)
    BY PartsAssumption DEF PartsAssumption
  <1>3. IsFiniteSet(Sleeping("push")) /\ IsFiniteSet(Sleeping("pop"))
    BY <1>1, <1>2, FS_Subset
  <1>4. QED
    BY <1>1, <1>2, <1>3, FS_Subset, FS_CardinalityType

\* The same of the next state.
LEMMA SleepersCountedNext ==
  ASSUME TaskInv'
  PROVE  /\ IsFiniteSet(Sleeping("push")') /\ IsFiniteSet(Sleeping("pop")')
         /\ Cardinality(Sleeping("push"))' \in Nat /\ Cardinality(Sleeping("pop"))' \in Nat
         /\ Cardinality(Sleeping("push"))' <= Cardinality(Pusher)
         /\ Cardinality(Sleeping("pop"))' <= Cardinality(Popper)
  <1>1. (TaskInv =>
           /\ IsFiniteSet(Sleeping("push")) /\ IsFiniteSet(Sleeping("pop"))
           /\ Cardinality(Sleeping("push")) \in Nat /\ Cardinality(Sleeping("pop")) \in Nat
           /\ Cardinality(Sleeping("push")) <= Cardinality(Pusher)
           /\ Cardinality(Sleeping("pop")) <= Cardinality(Popper))'
    BY SleepersCounted, PTL
  <1>2. QED
    BY <1>1

\* A smaller set of sleepers has no more members, and fewer if one woke up.
LEMMA FewerSleepers ==
  ASSUME NEW R, NEW S, IsFiniteSet(S), R \subseteq S
  PROVE  /\ Cardinality(R) \in Nat /\ Cardinality(S) \in Nat
         /\ Cardinality(R) <= Cardinality(S)
         /\ \A u \in S : u \notin R => Cardinality(R) <= Cardinality(S) - 1
  <1>1. ASSUME NEW u \in S, u \notin R
        PROVE  Cardinality(R) <= Cardinality(S) - 1
    <2>1. IsFiniteSet(S \ {u}) /\ Cardinality(S \ {u}) = Cardinality(S) - 1
      BY FS_RemoveElement
    <2>2. R \subseteq S \ {u}
      BY <1>1
    <2>3. QED
      BY <2>1, <2>2, FS_Subset
  <1>2. QED
    BY <1>1, FS_Subset, FS_CardinalityType

\* A thread that is in no call calls, one wakes up, or keep_running is cleared:
\* nobody falls asleep.
LEMMA ServedCalls ==
  ASSUME TaskInv, TaskInv', SleepersServed, NoneStranded,
         \/ \E t \in Pusher, k \in Task : T!CallPush(t, k)
         \/ \E t \in Popper : T!CallPop(t)
         \/ \E t \in T!Thread : T!SpuriousWakeup(t)
         \/ T!ClearRunning
         \/ UNCHANGED T!vars
  PROVE  SleepersServed' /\ NoneStranded'
  <1>1. /\ UNCHANGED <<count, undefined>>
        /\ Sleeping("push")' \subseteq Sleeping("push")
        /\ Sleeping("pop")' \subseteq Sleeping("pop")
    BY DEF TaskInv, CallsOK, T!TypeOK, Sleeping, T!CallPush, T!CallPop, T!SpuriousWakeup,
           T!ClearRunning, T!vars, T!ring, T!Runs, T!Thread
  <1>2. SleepersServed'
    <2>1. /\ IsFiniteSet(Sleeping("push")) /\ IsFiniteSet(Sleeping("pop"))
      BY SleepersCounted
    <2>2. /\ Cardinality(Sleeping("push")') <= Cardinality(Sleeping("push"))
          /\ Cardinality(Sleeping("pop")') <= Cardinality(Sleeping("pop"))
          /\ Cardinality(Sleeping("push")') \in Nat /\ Cardinality(Sleeping("pop")') \in Nat
          /\ Cardinality(Sleeping("push")) \in Nat /\ Cardinality(Sleeping("pop")) \in Nat
      BY <1>1, <2>1, FewerSleepers
    <2>3. ASSUME ~undefined PROVE count \in Nat /\ Capacity \in Nat
      BY <2>3, PartsAssumption DEF PartsAssumption, TaskInv, T!TypeOK
    <2>4. QED
      BY <1>1, <2>2, <2>3 DEF SleepersServed
  <1>3. NoneStranded'
    BY <1>1 DEF NoneStranded, T!NoneStranded, T!Stranded, TaskInv, CallsOK, T!TypeOK,
                T!CallPush, T!CallPop, T!SpuriousWakeup, T!ClearRunning, T!vars, T!ring,
                T!Runs, T!Thread
  <1>4. QED
    BY <1>2, <1>3

\* A pusher falls asleep when the ring is full, a popper when it is empty: nobody
\* of the other kind sleeps then.
LEMMA ServedWait ==
  ASSUME FewThreads, TaskInv, TaskInv', SleepersServed, NEW t \in T!Thread, T!Wait(t)
  PROVE  SleepersServed' /\ NoneStranded'
  <1>1. /\ ~undefined /\ UNCHANGED <<count, undefined, tq_pc>>
        /\ Capacity \in Nat \ {0} /\ count \in 0 .. Capacity
        /\ tq_asleep' = tq_asleep \cup {t}
        /\ \/ tq_pc[t] = "push" /\ count = Capacity
           \/ tq_pc[t] = "pop" /\ count = 0
    BY PartsAssumption DEF PartsAssumption, TaskInv, T!TypeOK, T!Wait, T!Runs, T!ring
  <1>2. /\ IsFiniteSet(Sleeping("push")) /\ IsFiniteSet(Sleeping("pop"))
        /\ Cardinality(Sleeping("push")) \in Nat /\ Cardinality(Sleeping("pop")) \in Nat
    BY SleepersCounted
  <1>3. /\ Cardinality(Sleeping("push"))' \in Nat /\ Cardinality(Sleeping("pop"))' \in Nat
        /\ Cardinality(Sleeping("push"))' <= Capacity
        /\ Cardinality(Sleeping("pop"))' <= Capacity
    <2>1. Cardinality(Pusher) \in Nat /\ Cardinality(Popper) \in Nat
      BY PartsAssumption, FS_CardinalityType DEF PartsAssumption
    <2>2. QED
      BY <1>1, <2>1, SleepersCountedNext DEF FewThreads
  <1>4. Cardinality({}) = 0
    BY FS_EmptySet
  <1>5. CASE tq_pc[t] = "push" /\ count = Capacity
    <2>1. Sleeping("pop") = {}
      <3>1. Cardinality(Sleeping("pop")) = 0
        BY <1>1, <1>2, <1>5 DEF SleepersServed
      <3>2. QED
        BY <1>2, <3>1, FS_EmptySet
    <2>2. Sleeping("pop")' = {}
      BY <1>1, <1>5, <2>1 DEF Sleeping
    <2>3. SleepersServed'
      BY <1>1, <1>3, <1>4, <1>5, <2>2 DEF SleepersServed
    <2>4. NoneStranded'
      <3>1. count' = Capacity
        BY <1>1, <1>5
      <3>2. ~(count' < Capacity)
        BY <1>1, <3>1
      <3>3. \A u \in T!Thread : ~T!Stranded(u)'
        BY <2>2, <3>2 DEF T!Stranded, Sleeping
      <3>4. QED
        BY <3>3 DEF NoneStranded, T!NoneStranded
    <2>5. QED
      BY <2>3, <2>4
  <1>6. CASE tq_pc[t] = "pop" /\ count = 0
    <2>1. Sleeping("push") = {}
      <3>1. Cardinality(Sleeping("push")) = 0
        BY <1>1, <1>2, <1>6 DEF SleepersServed
      <3>2. QED
        BY <1>2, <3>1, FS_EmptySet
    <2>2. Sleeping("push")' = {}
      BY <1>1, <1>6, <2>1 DEF Sleeping
    <2>3. SleepersServed'
      BY <1>1, <1>3, <1>4, <1>6, <2>2 DEF SleepersServed
    <2>4. NoneStranded'
      <3>1. ~(count' > 0)
        BY <1>1, <1>6
      <3>2. \A u \in T!Thread : ~T!Stranded(u)'
        BY <2>2, <3>1 DEF T!Stranded, Sleeping
      <3>3. QED
        BY <3>2 DEF NoneStranded, T!NoneStranded
    <2>5. QED
      BY <2>3, <2>4
  <1>7. QED
    BY <1>1, <1>5, <1>6

\* The end of a call signals: nobody sleeps then, or somebody is awake in a call.
LEMMA ServedSignal ==
  ASSUME TaskInv, TaskInv', NEW t \in T!Thread, T!Push(t) \/ T!Pop(t) \/ T!PopShutdown(t)
  PROVE  NoneStranded'
  <1>1. /\ t \notin tq_asleep /\ tq_pc' = [tq_pc EXCEPT ![t] = "idle"]
        /\ \/ tq_asleep' = {}
           \/ \E u \in tq_asleep : tq_asleep' = tq_asleep \ {u}
    BY SignalWakes DEF T!Push, T!Pop, T!PopShutdown, T!Take, T!Return, T!Runs
  <1>2. CASE tq_asleep' = {}
    BY <1>2 DEF NoneStranded, T!NoneStranded, T!Stranded
  <1>3. ASSUME NEW u \in tq_asleep, tq_asleep' = tq_asleep \ {u}
        PROVE  NoneStranded'
    <2>1. u \in T!Thread /\ tq_pc[u] # "idle" /\ u # t
      BY <1>1 DEF TaskInv, T!TypeOK, CallsOK
    <2>2. tq_pc'[u] # "idle" /\ u \notin tq_asleep'
      BY <1>1, <1>3, <2>1 DEF TaskInv, T!TypeOK
    <2>3. QED
      BY <2>1, <2>2 DEF NoneStranded, T!NoneStranded
  <1>4. QED
    BY <1>1, <1>2, <1>3

\* While one kind sleeps, the signal of the other kind reaches it.
LEMMA ServedEnd ==
  ASSUME TaskInv, TaskInv', SleepersServed,
         NEW t \in T!Thread, T!Push(t) \/ T!Pop(t) \/ T!PopShutdown(t)
  PROVE  SleepersServed'
  <1> SUFFICES ASSUME ~undefined'
               PROVE  /\ Sleeping("push")' = {} \/ Sleeping("pop")' = {}
                      /\ Cardinality(Sleeping("push"))' <= count'
                      /\ Cardinality(Sleeping("pop"))' <= Capacity - count'
    BY DEF SleepersServed
  <1>1. /\ ~undefined /\ t \notin tq_asleep /\ tq_pc' = [tq_pc EXCEPT ![t] = "idle"]
        /\ tq_asleep' \subseteq tq_asleep
        /\ \/ tq_asleep' = {}
           \/ \E u \in tq_asleep : tq_asleep' = tq_asleep \ {u}
        /\ Capacity \in Nat \ {0} /\ count \in 0 .. Capacity
        /\ \/ count' = count + 1 /\ count < Capacity
           \/ count' = count - 1 /\ count > 0
    BY SignalWakes, PartsAssumption
    DEF PartsAssumption, TaskInv, T!TypeOK, T!Push, T!Pop, T!PopShutdown, T!Take, T!Return,
        T!Runs
  <1>2. /\ IsFiniteSet(Sleeping("push")) /\ IsFiniteSet(Sleeping("pop"))
        /\ Cardinality(Sleeping("push")) \in Nat /\ Cardinality(Sleeping("pop")) \in Nat
    BY SleepersCounted
  <1>3. /\ Sleeping("push") = {} \/ Sleeping("pop") = {}
        /\ Cardinality(Sleeping("push")) <= count
        /\ Cardinality(Sleeping("pop")) <= Capacity - count
    BY <1>1 DEF SleepersServed
  <1>4. /\ Sleeping("push")' \subseteq Sleeping("push")
        /\ Sleeping("pop")' \subseteq Sleeping("pop")
    BY <1>1 DEF TaskInv, T!TypeOK, Sleeping
  <1>5. ASSUME NEW call \in {"push", "pop"}, NEW other \in {"push", "pop"}, call # other,
               Sleeping(other) = {}
        PROVE  \/ Sleeping(call)' = {}
               \/ \E u \in Sleeping(call) : u \notin Sleeping(call)'
    <2>1. CASE tq_asleep' = {}
      BY <2>1 DEF Sleeping
    <2>2. ASSUME NEW u \in tq_asleep, tq_asleep' = tq_asleep \ {u}
          PROVE  u \in Sleeping(call) /\ u \notin Sleeping(call)'
      <3>1. tq_pc[u] \in {"push", "pop"}
        BY DEF TaskInv, CallsOK, T!TypeOK
      <3>2. QED
        BY <1>5, <2>2, <3>1 DEF Sleeping
    <2>3. QED
      BY <1>1, <2>1, <2>2
  <1>6. Cardinality({}) = 0
    BY FS_EmptySet
  <1>7. /\ Cardinality(Sleeping("push")') \in Nat /\ Cardinality(Sleeping("pop")') \in Nat
        /\ Cardinality(Sleeping("push")') <= Cardinality(Sleeping("push"))
        /\ Cardinality(Sleeping("pop")') <= Cardinality(Sleeping("pop"))
    BY <1>2, <1>4, FewerSleepers
  <1>8. /\ \/ Cardinality(Sleeping("push")') = 0
           \/ Cardinality(Sleeping("push")') <= Cardinality(Sleeping("push")) - 1
        /\ \/ Cardinality(Sleeping("pop")') = 0
           \/ Cardinality(Sleeping("pop")') <= Cardinality(Sleeping("pop")) - 1
    <2>1. CASE Sleeping("pop") = {}
      <3>1. Sleeping("pop")' = {}
        BY <1>4, <2>1
      <3>2. Sleeping("push")' = {} \/ \E u \in Sleeping("push") : u \notin Sleeping("push")'
        BY <1>5, <2>1
      <3>3. QED
        BY <1>2, <1>4, <1>6, <3>1, <3>2, FewerSleepers
    <2>2. CASE Sleeping("push") = {}
      <3>1. Sleeping("push")' = {}
        BY <1>4, <2>2
      <3>2. Sleeping("pop")' = {} \/ \E u \in Sleeping("pop") : u \notin Sleeping("pop")'
        BY <1>5, <2>2
      <3>3. QED
        BY <1>2, <1>4, <1>6, <3>1, <3>2, FewerSleepers
    <2>3. QED
      BY <1>3, <2>1, <2>2
  <1>9. Sleeping("push")' = {} \/ Sleeping("pop")' = {}
    BY <1>3, <1>4
  <1>10. /\ Cardinality(Sleeping("push")') <= count'
         /\ Cardinality(Sleeping("pop")') <= Capacity - count'
    BY <1>1, <1>2, <1>3, <1>7, <1>8
  <1>11. QED
    BY <1>9, <1>10

ServedInv == TaskInv /\ SleepersServed /\ NoneStranded

LEMMA ServedInit == T!Init => ServedInv
  <1> SUFFICES ASSUME T!Init PROVE ServedInv
    OBVIOUS
  <1>1. Sleeping("push") = {} /\ Sleeping("pop") = {} /\ Cardinality({}) = 0
    BY FS_EmptySet DEF T!Init, Sleeping
  <1>2. count = 0 /\ Capacity \in Nat
    BY PartsAssumption DEF PartsAssumption, T!Init
  <1>3. SleepersServed
    BY <1>1, <1>2 DEF SleepersServed
  <1>4. NoneStranded
    BY DEF T!Init, NoneStranded, T!NoneStranded, T!Stranded
  <1>5. QED
    BY <1>3, <1>4, TaskInit DEF ServedInv

LEMMA ServedNext == FewThreads /\ ServedInv /\ [T!Next]_(T!vars) => ServedInv'
  <1> SUFFICES ASSUME FewThreads, ServedInv, [T!Next]_(T!vars) PROVE ServedInv'
    OBVIOUS
  <1> USE DEF ServedInv
  <1>1. TaskInv'
    BY TaskNext
  <1>2. ASSUME NEW t \in T!Thread, T!Wait(t)
        PROVE  SleepersServed' /\ NoneStranded'
    BY <1>1, <1>2, ServedWait
  <1>3. ASSUME NEW t \in T!Thread, T!Push(t) \/ T!Pop(t) \/ T!PopShutdown(t)
        PROVE  SleepersServed' /\ NoneStranded'
    BY <1>1, <1>3, ServedSignal, ServedEnd
  <1>4. ASSUME \/ \E t \in Pusher, k \in Task : T!CallPush(t, k)
               \/ \E t \in Popper : T!CallPop(t)
               \/ \E t \in T!Thread : T!SpuriousWakeup(t)
               \/ T!ClearRunning
               \/ UNCHANGED T!vars
        PROVE  SleepersServed' /\ NoneStranded'
    BY <1>1, <1>4, ServedCalls
  <1>5. QED
    BY <1>1, <1>2, <1>3, <1>4 DEF T!Next

\* One condition variable for both kinds of threads strands none of them, as long
\* as neither the pushers nor the poppers outnumber the slots of the ring
\* (task.c:22, 30, 39, 51).  With more of one kind it may: see TaskQueue.
THEOREM NoSleeperStranded ==
  ASSUME FewThreads
  PROVE  Spec => []NoneStranded
  <1>1. ServedInv /\ [Next]_vars => ServedInv'
    BY FewThreads, TaskQueueStep, ServedNext
  <1>2. ServedInv => NoneStranded
    BY DEF ServedInv
  <1>3. QED
    BY <1>1, <1>2, ServedInit, PTL DEF Spec, Init

-----------------------------------------------------------------------------
(* The memory pool: the argument of FramePoolProofs, without the waiting   *)

Elems(s) == {s[n] : n \in DOMAIN s}

\* A list that links no block twice.
Distinct(s) == \A m, n \in DOMAIN s : s[m] = s[n] => m = n

IsFree(b) == b \in Elems(free_list)

\* A block a call works on: linked nowhere, and owned by nobody yet or any more.
InFlight(t, b) == mp_pc[t] \in {"store", "push"} /\ blk[t] = b

\* A thread works on a block exactly inside the second half of a call, and it
\* allocates for somebody.
PoolCallsOK ==
  /\ \A t \in Owner : mp_pc[t] \in {"store", "push"} => blk[t] \in M!Block
  /\ \A t \in Owner : mp_pc[t] \in {"alloc", "store"} => want[t] # {}

\* The refcount of a block is the number of its owners.
RefcountExact == \A b \in M!Block : refcount[b] = Cardinality(holder[b])

\* Every block is free, owned, or in the hands of exactly one call.
BlockAccounting ==
  /\ Distinct(free_list)
  /\ \A b \in M!Block : IsFree(b) =>
       holder[b] = {} /\ \A t \in Owner : ~InFlight(t, b)
  /\ \A t \in Owner, b \in M!Block : InFlight(t, b) =>
       holder[b] = {} /\ \A u \in Owner : InFlight(u, b) => u = t
  /\ \A b \in M!Block :
       IsFree(b) \/ holder[b] # {} \/ \E t \in Owner : InFlight(t, b)

PoolInv ==
  /\ M!TypeOK
  /\ PoolCallsOK
  /\ RefcountExact
  /\ BlockAccounting

\* Unlinking the head removes exactly that block from the list.
LEMMA TailElems ==
  ASSUME NEW S, NEW s \in Seq(S), s # <<>>, Distinct(s)
  PROVE  /\ Tail(s) \in Seq(S)
         /\ Head(s) \in S
         /\ Head(s) \in Elems(s)
         /\ Elems(Tail(s)) = Elems(s) \ {Head(s)}
         /\ Distinct(Tail(s))
         /\ Len(Tail(s)) = Len(s) - 1
  <1> DEFINE r == Tail(s)
  <1>1. /\ Len(s) \in Nat /\ Len(s) > 0 /\ DOMAIN s = 1..Len(s)
        /\ r \in Seq(S) /\ Len(r) = Len(s) - 1 /\ DOMAIN r = 1..(Len(s) - 1)
        /\ \A n \in DOMAIN r : r[n] = s[n + 1]
        /\ Head(s) = s[1] /\ s[1] \in S
    OBVIOUS
  <1>2. Elems(r) \subseteq Elems(s) \ {Head(s)}
    BY <1>1 DEF Elems, Distinct
  <1>3. ASSUME NEW k \in Elems(s) \ {Head(s)}
        PROVE  k \in Elems(r)
    <2>1. PICK n \in DOMAIN s : k = s[n]
      BY DEF Elems
    <2>2. n # 1
      BY <1>1, <2>1
    <2>3. n - 1 \in DOMAIN r /\ r[n - 1] = s[n]
      BY <1>1, <2>2
    <2>4. QED
      BY <2>1, <2>3 DEF Elems
  <1>4. Distinct(r)
    BY <1>1 DEF Distinct
  <1>5. Head(s) \in Elems(s)
    BY <1>1 DEF Elems
  <1>6. QED
    BY <1>1, <1>2, <1>3, <1>4, <1>5

\* Linking a block at the head adds exactly that block to the list.
LEMMA PushElems ==
  ASSUME NEW S, NEW s \in Seq(S), NEW b \in S
  PROVE  /\ <<b>> \o s \in Seq(S)
         /\ Elems(<<b>> \o s) = Elems(s) \cup {b}
         /\ Len(<<b>> \o s) = Len(s) + 1
         /\ Distinct(s) /\ b \notin Elems(s) => Distinct(<<b>> \o s)
  <1> DEFINE r == <<b>> \o s
  <1>1. /\ Len(s) \in Nat /\ DOMAIN s = 1..Len(s)
        /\ r \in Seq(S) /\ Len(r) = Len(s) + 1 /\ DOMAIN r = 1..(Len(s) + 1)
        /\ r[1] = b /\ \A n \in DOMAIN s : r[n + 1] = s[n]
    OBVIOUS
  <1>2. \A n \in DOMAIN r : n = 1 \/ (n - 1 \in DOMAIN s /\ r[n] = s[n - 1])
    BY <1>1
  <1>3. Elems(r) \subseteq Elems(s) \cup {b}
    BY <1>1, <1>2 DEF Elems
  <1>4. ASSUME NEW k \in Elems(s)
        PROVE  k \in Elems(r)
    <2>1. PICK n \in DOMAIN s : k = s[n]
      BY DEF Elems
    <2>2. n + 1 \in DOMAIN r /\ r[n + 1] = k
      BY <1>1, <2>1
    <2>3. QED
      BY <2>2 DEF Elems
  <1>5. b \in Elems(r)
    <2>1. 1 \in DOMAIN r /\ r[1] = b
      BY <1>1
    <2>2. QED
      BY <2>1 DEF Elems
  <1>6. ASSUME Distinct(s), b \notin Elems(s)
        PROVE  Distinct(r)
    <2>1. \A n \in DOMAIN s : s[n] # b
      BY <1>6 DEF Elems
    <2>2. QED
      BY <1>1, <1>2, <1>6, <2>1 DEF Distinct
  <1>7. QED
    BY <1>1, <1>3, <1>4, <1>5, <1>6

\* Cardinalities of sets of owners are numbers, counted one by one.
LEMMA CardOwners ==
  ASSUME NEW S \in SUBSET Owner
  PROVE  /\ Cardinality(S) \in Nat
         /\ Cardinality(S) = 0 <=> S = {}
         /\ \A t \in Owner \ S : Cardinality(S \cup {t}) = Cardinality(S) + 1
         /\ \A t \in S : Cardinality(S \ {t}) = Cardinality(S) - 1
  <1>1. IsFiniteSet(S)
    BY PartsAssumption, FS_Subset DEF PartsAssumption
  <1>2. QED
    BY <1>1, FS_CardinalityType, FS_EmptySet, FS_AddElement, FS_RemoveElement

\* MemoryPool counts as this module does.
LEMMA SameCount == \A S : M!Cardinality(S) = Cardinality(S)
  BY DEF M!Cardinality, Cardinality

LEMMA PoolInit == M!Init => PoolInv
  <1> SUFFICES ASSUME M!Init PROVE PoolInv
    OBVIOUS
  <1>1. PoolSize \in Nat
    BY PartsAssumption DEF PartsAssumption
  <1>2. /\ free_list \in Seq(M!Block) /\ DOMAIN free_list = 1 .. PoolSize
        /\ \A n \in 1 .. PoolSize : free_list[n] = PoolSize + 1 - n
    BY <1>1 DEF M!Init, M!Block
  <1>3. Distinct(free_list)
    BY <1>1, <1>2 DEF Distinct
  <1>4. ASSUME NEW b \in M!Block
        PROVE  IsFree(b)
    <2>1. PoolSize + 1 - b \in DOMAIN free_list /\ free_list[PoolSize + 1 - b] = b
      BY <1>1, <1>2 DEF M!Block
    <2>2. QED
      BY <2>1 DEF IsFree, Elems
  <1>5. M!TypeOK
    BY <1>2 DEF M!Init, M!TypeOK
  <1>6. PoolCallsOK
    BY DEF M!Init, PoolCallsOK
  <1>7. RefcountExact
    BY FS_EmptySet DEF M!Init, RefcountExact
  <1>8. BlockAccounting
    BY <1>3, <1>4 DEF M!Init, BlockAccounting, InFlight
  <1>9. QED
    BY <1>5, <1>6, <1>7, <1>8 DEF PoolInv

LEMMA CallAllocInv ==
  ASSUME PoolInv, NEW t \in Owner, NEW owners \in SUBSET Owner, M!CallAlloc(t, owners)
  PROVE  PoolInv'
  <1> USE DEF PoolInv
  <1>1. M!TypeOK'
    BY DEF M!TypeOK, M!CallAlloc
  <1>2. PoolCallsOK'
    BY DEF M!TypeOK, PoolCallsOK, M!CallAlloc
  <1>3. RefcountExact'
    BY DEF RefcountExact, M!CallAlloc
  <1>4. \A u \in Owner, b \in M!Block : InFlight(u, b)' <=> InFlight(u, b)
    BY DEF M!TypeOK, InFlight, M!CallAlloc
  <1>5. BlockAccounting'
    BY <1>4 DEF BlockAccounting, IsFree, M!CallAlloc
  <1>6. QED
    BY <1>1, <1>2, <1>3, <1>5

LEMMA AllocTakeInv ==
  ASSUME PoolInv, NEW t \in Owner, M!AllocTake(t)
  PROVE  PoolInv'
  <1> USE DEF PoolInv
  <1> DEFINE h == Head(free_list)
  <1>1. /\ free_list' \in Seq(M!Block) /\ h \in M!Block /\ IsFree(h)
        /\ Elems(free_list') = Elems(free_list) \ {h}
        /\ Distinct(free_list)'
        /\ Len(free_list') = Len(free_list) - 1 /\ Len(free_list) \in Nat
    <2>1. Distinct(free_list) /\ free_list # <<>> /\ free_list \in Seq(M!Block)
      BY DEF BlockAccounting, Distinct, M!AllocTake, M!TypeOK
    <2>2. free_list' = Tail(free_list)
      BY DEF M!AllocTake
    <2>3. QED
      BY <2>1, <2>2, TailElems DEF IsFree, Distinct
  <1>2. M!TypeOK'
    BY <1>1 DEF M!TypeOK, M!AllocTake
  <1>3. PoolCallsOK'
    BY <1>1 DEF M!TypeOK, PoolCallsOK, M!AllocTake
  <1>4. RefcountExact'
    BY DEF RefcountExact, M!AllocTake
  <1>5. \A u \in Owner, b \in M!Block :
          InFlight(u, b)' <=> InFlight(u, b) \/ (u = t /\ b = h)
    BY DEF M!TypeOK, InFlight, M!AllocTake
  <1>6. BlockAccounting'
    <2>1. \A b \in M!Block : IsFree(b)' <=> IsFree(b) /\ b # h
      BY <1>1 DEF IsFree
    <2>2. holder' = holder
      BY DEF M!AllocTake
    <2>3. holder[h] = {} /\ \A u \in Owner : ~InFlight(u, h)
      BY <1>1 DEF BlockAccounting
    <2>4. ASSUME NEW b \in M!Block, IsFree(b)'
          PROVE  holder'[b] = {} /\ \A u \in Owner : ~InFlight(u, b)'
      BY <2>1, <2>2, <2>4, <1>5 DEF BlockAccounting
    <2>5. ASSUME NEW u \in Owner, NEW b \in M!Block, InFlight(u, b)'
          PROVE  holder'[b] = {} /\ \A v \in Owner : InFlight(v, b)' => v = u
      BY <2>2, <2>3, <2>5, <1>5 DEF BlockAccounting
    <2>6. ASSUME NEW b \in M!Block
          PROVE  IsFree(b)' \/ holder'[b] # {} \/ \E u \in Owner : InFlight(u, b)'
      BY <2>1, <2>2, <1>5 DEF BlockAccounting
    <2>7. QED
      BY <1>1, <2>4, <2>5, <2>6 DEF BlockAccounting
  <1>7. QED
    BY <1>1, <1>2, <1>3, <1>4, <1>6

LEMMA AllocStoreInv ==
  ASSUME PoolInv, NEW t \in Owner, M!AllocStore(t)
  PROVE  PoolInv'
  <1> USE DEF PoolInv
  <1> DEFINE b0 == blk[t]
  <1>1. b0 \in M!Block /\ InFlight(t, b0) /\ want[t] \in SUBSET Owner /\ want[t] # {}
    BY DEF M!TypeOK, PoolCallsOK, InFlight, M!AllocStore
  <1>2. /\ Cardinality(want[t]) \in Nat
        /\ refcount' = [refcount EXCEPT ![b0] = Cardinality(want[t])]
    BY <1>1, CardOwners, SameCount DEF M!AllocStore
  <1>3. M!TypeOK'
    BY <1>1, <1>2 DEF M!TypeOK, M!AllocStore
  <1>4. PoolCallsOK'
    BY DEF M!TypeOK, PoolCallsOK, M!AllocStore
  <1>5. RefcountExact'
    BY <1>1, <1>2 DEF M!TypeOK, RefcountExact, M!AllocStore
  <1>6. \A u \in Owner, b \in M!Block : InFlight(u, b)' <=> InFlight(u, b) /\ u # t
    BY PartsAssumption DEF PartsAssumption, M!TypeOK, InFlight, M!AllocStore
  <1>7. \A b \in M!Block : holder'[b] = IF b = b0 THEN want[t] ELSE holder[b]
    BY <1>1 DEF M!TypeOK, M!AllocStore
  <1>8. ~IsFree(b0) /\ \A u \in Owner : InFlight(u, b0) => u = t
    BY <1>1 DEF BlockAccounting
  <1>9. \A b \in M!Block : IsFree(b)' <=> IsFree(b)
    BY DEF IsFree, M!AllocStore
  <1>10. BlockAccounting'
    <2>1. Distinct(free_list)'
      BY DEF BlockAccounting, M!AllocStore
    <2>2. ASSUME NEW b \in M!Block, IsFree(b)'
          PROVE  holder'[b] = {} /\ \A u \in Owner : ~InFlight(u, b)'
      BY <2>2, <1>6, <1>7, <1>8, <1>9 DEF BlockAccounting
    <2>3. ASSUME NEW u \in Owner, NEW b \in M!Block, InFlight(u, b)'
          PROVE  holder'[b] = {} /\ \A v \in Owner : InFlight(v, b)' => v = u
      BY <2>3, <1>1, <1>6, <1>7 DEF BlockAccounting
    <2>4. ASSUME NEW b \in M!Block
          PROVE  IsFree(b)' \/ holder'[b] # {} \/ \E u \in Owner : InFlight(u, b)'
      BY <1>1, <1>6, <1>7, <1>9 DEF BlockAccounting, InFlight
    <2>5. QED
      BY <2>1, <2>2, <2>3, <2>4 DEF BlockAccounting
  <1>11. QED
    BY <1>3, <1>4, <1>5, <1>10

LEMMA RetainInv ==
  ASSUME PoolInv, NEW t \in Owner, NEW u \in Owner, NEW b0 \in M!Block, M!Retain(t, u, b0)
  PROVE  PoolInv'
  <1> USE DEF PoolInv
  <1>1. holder[b0] \in SUBSET Owner /\ u \in Owner \ holder[b0] /\ holder[b0] # {}
    BY DEF M!TypeOK, M!Retain
  <1>2. Cardinality(holder[b0] \cup {u}) = refcount[b0] + 1
    BY <1>1, CardOwners DEF RefcountExact
  <1>3. M!TypeOK'
    BY DEF M!TypeOK, M!Retain
  <1>4. PoolCallsOK'
    BY DEF PoolCallsOK, M!Retain
  <1>5. RefcountExact'
    BY <1>2 DEF M!TypeOK, RefcountExact, M!Retain
  <1>6. \A b \in M!Block : holder'[b] = {} <=> holder[b] = {}
    BY <1>1 DEF M!TypeOK, M!Retain
  <1>7. BlockAccounting'
    BY <1>6 DEF BlockAccounting, IsFree, InFlight, M!Retain
  <1>8. QED
    BY <1>3, <1>4, <1>5, <1>7

LEMMA ReleaseSubInv ==
  ASSUME PoolInv, NEW t \in Owner, NEW b0 \in M!Block, M!ReleaseSub(t, b0)
  PROVE  PoolInv'
  <1> USE DEF PoolInv
  <1>1. holder[b0] \in SUBSET Owner /\ t \in holder[b0]
    BY DEF M!TypeOK, M!ReleaseSub
  <1>2. /\ refcount[b0] = Cardinality(holder[b0]) /\ refcount[b0] \in Nat
        /\ Cardinality(holder[b0] \ {t}) = refcount[b0] - 1
        /\ Cardinality(holder[b0] \ {t}) \in Nat
        /\ refcount[b0] = 1 <=> holder[b0] \ {t} = {}
    <2>1. holder[b0] \ {t} \in SUBSET Owner
      BY <1>1
    <2>2. refcount[b0] = Cardinality(holder[b0])
      BY DEF RefcountExact
    <2>3. Cardinality(holder[b0]) \in Nat
      BY <1>1, CardOwners
    <2>4. Cardinality(holder[b0] \ {t}) = Cardinality(holder[b0]) - 1
      BY <1>1, CardOwners
    <2>5. /\ Cardinality(holder[b0] \ {t}) \in Nat
          /\ Cardinality(holder[b0] \ {t}) = 0 <=> holder[b0] \ {t} = {}
      BY <2>1, CardOwners
    <2>6. QED
      BY <2>2, <2>3, <2>4, <2>5
  <1>3. M!TypeOK'
    BY <1>2 DEF M!TypeOK, M!ReleaseSub
  <1>4. PoolCallsOK'
    BY DEF M!TypeOK, PoolCallsOK, M!ReleaseSub
  <1>5. RefcountExact'
    BY <1>2 DEF M!TypeOK, RefcountExact, M!ReleaseSub
  <1>6. \A b \in M!Block : holder'[b] = IF b = b0 THEN holder[b0] \ {t} ELSE holder[b]
    BY DEF M!TypeOK, M!ReleaseSub
  <1>7. /\ \A b \in M!Block : IsFree(b)' <=> IsFree(b)
        /\ Distinct(free_list)'
    BY DEF IsFree, BlockAccounting, M!ReleaseSub
  <1>8. \A u \in Owner, b \in M!Block :
          InFlight(u, b)' <=>
            InFlight(u, b) \/ (u = t /\ b = b0 /\ holder[b0] \ {t} = {})
    BY <1>2 DEF M!TypeOK, InFlight, M!ReleaseSub, M!WasLast
  <1>9. ~IsFree(b0) /\ \A u \in Owner : ~InFlight(u, b0)
    BY <1>1 DEF BlockAccounting
  <1>10. BlockAccounting'
    <2>1. ASSUME NEW b \in M!Block, IsFree(b)'
          PROVE  holder'[b] = {} /\ \A u \in Owner : ~InFlight(u, b)'
      BY <2>1, <1>6, <1>7, <1>8, <1>9 DEF BlockAccounting
    <2>2. ASSUME NEW u \in Owner, NEW b \in M!Block, InFlight(u, b)'
          PROVE  holder'[b] = {} /\ \A v \in Owner : InFlight(v, b)' => v = u
      BY <2>2, <1>6, <1>8, <1>9 DEF BlockAccounting
    <2>3. ASSUME NEW b \in M!Block
          PROVE  IsFree(b)' \/ holder'[b] # {} \/ \E u \in Owner : InFlight(u, b)'
      BY <1>6, <1>7, <1>8 DEF BlockAccounting
    <2>4. QED
      BY <1>7, <2>1, <2>2, <2>3 DEF BlockAccounting
  <1>11. QED
    BY <1>3, <1>4, <1>5, <1>10

LEMMA ReleasePushInv ==
  ASSUME PoolInv, NEW t \in Owner, M!ReleasePush(t)
  PROVE  PoolInv'
  <1> USE DEF PoolInv
  <1> DEFINE b0 == blk[t]
  <1>1. b0 \in M!Block /\ InFlight(t, b0)
    BY DEF M!TypeOK, PoolCallsOK, InFlight, M!ReleasePush
  <1>2. ~IsFree(b0) /\ holder[b0] = {} /\ \A u \in Owner : InFlight(u, b0) => u = t
    BY <1>1 DEF BlockAccounting
  <1>3. /\ free_list' \in Seq(M!Block)
        /\ Elems(free_list') = Elems(free_list) \cup {b0}
        /\ Len(free_list') = Len(free_list) + 1 /\ Len(free_list) \in Nat
        /\ Distinct(free_list)'
    <2>1. Distinct(free_list) /\ free_list \in Seq(M!Block) /\ b0 \notin Elems(free_list)
      BY <1>2 DEF BlockAccounting, Distinct, M!TypeOK, IsFree
    <2>2. free_list' = <<b0>> \o free_list
      BY DEF M!ReleasePush
    <2>3. QED
      BY <1>1, <2>1, <2>2, PushElems DEF Distinct
  <1>4. M!TypeOK'
    BY <1>3 DEF M!TypeOK, M!ReleasePush
  <1>5. PoolCallsOK'
    BY DEF M!TypeOK, PoolCallsOK, M!ReleasePush
  <1>6. RefcountExact'
    BY DEF RefcountExact, M!ReleasePush
  <1>7. \A u \in Owner, b \in M!Block : InFlight(u, b)' <=> InFlight(u, b) /\ u # t
    BY PartsAssumption DEF PartsAssumption, M!TypeOK, InFlight, M!ReleasePush
  <1>8. /\ holder' = holder
        /\ \A b \in M!Block : IsFree(b)' <=> IsFree(b) \/ b = b0
    BY <1>1, <1>3 DEF IsFree, M!ReleasePush
  <1>9. BlockAccounting'
    <2>1. ASSUME NEW b \in M!Block, IsFree(b)'
          PROVE  holder'[b] = {} /\ \A u \in Owner : ~InFlight(u, b)'
      BY <2>1, <1>2, <1>7, <1>8 DEF BlockAccounting
    <2>2. ASSUME NEW u \in Owner, NEW b \in M!Block, InFlight(u, b)'
          PROVE  holder'[b] = {} /\ \A v \in Owner : InFlight(v, b)' => v = u
      BY <2>2, <1>7, <1>8 DEF BlockAccounting
    <2>3. ASSUME NEW b \in M!Block
          PROVE  IsFree(b)' \/ holder'[b] # {} \/ \E u \in Owner : InFlight(u, b)'
      BY <1>2, <1>7, <1>8 DEF BlockAccounting, InFlight
    <2>4. QED
      BY <1>3, <2>1, <2>2, <2>3 DEF BlockAccounting
  <1>10. QED
    BY <1>4, <1>5, <1>6, <1>9

\* A call that finds the list empty returns NULL and holds nothing.
LEMMA AllocNullInv ==
  ASSUME PoolInv, NEW t \in Owner, M!AllocNull(t)
  PROVE  PoolInv'
  <1> USE DEF PoolInv
  <1>1. M!TypeOK'
    BY DEF M!TypeOK, M!AllocNull
  <1>2. PoolCallsOK'
    BY DEF M!TypeOK, PoolCallsOK, M!AllocNull
  <1>3. RefcountExact'
    BY DEF RefcountExact, M!AllocNull
  <1>4. \A u \in Owner, b \in M!Block : InFlight(u, b)' <=> InFlight(u, b)
    BY DEF M!TypeOK, InFlight, M!AllocNull
  <1>5. BlockAccounting'
    BY <1>4 DEF BlockAccounting, IsFree, M!AllocNull
  <1>6. QED
    BY <1>1, <1>2, <1>3, <1>5

LEMMA PoolNext == PoolInv /\ [M!Next]_(M!vars) => PoolInv'
  <1> SUFFICES ASSUME PoolInv, [M!Next]_(M!vars) PROVE PoolInv'
    OBVIOUS
  <1>1. CASE UNCHANGED M!vars
    BY <1>1 DEF M!vars, PoolInv, M!TypeOK, PoolCallsOK, RefcountExact, BlockAccounting,
                IsFree, InFlight
  <1>2. CASE M!Next
    BY <1>2, CallAllocInv, AllocTakeInv, AllocNullInv, AllocStoreInv, RetainInv,
       ReleaseSubInv, ReleasePushInv DEF M!Next
  <1>3. QED
    BY <1>1, <1>2

LEMMA PoolInductive == Spec => []PoolInv
  BY PoolInit, MemoryPoolStep, PoolNext, PTL DEF Spec, Init

\* mp_alloc returns NULL only while every block is owned or in the hands of another
\* call, for every number of blocks and threads (memory_pool.c:93-104): no
\* interleaving of mp_retain and mp_release loses a block.
THEOREM NullOnlyWhenExhausted == Spec => []NullJustified
  <1>1. PoolInv => NullJustified
    <2> SUFFICES ASSUME PoolInv, NEW t \in Owner, mp_pc[t] = "alloc", free_list = <<>>,
                        NEW b \in M!Block
                 PROVE  holder[b] # {} \/ \E u \in Owner : InFlight(u, b)
      BY DEF NullJustified, M!NullJustified, InFlight
    <2>1. ~IsFree(b)
      BY DEF IsFree, Elems
    <2>2. QED
      BY <2>1 DEF PoolInv, BlockAccounting
  <1>2. QED
    BY <1>1, PoolInductive, PTL

\* Only the store of mp_alloc, mp_retain and the decrement of mp_release touch an
\* owner, and each of them is a step of Ownership.
LEMMA PoolSimulation ==
  ASSUME PoolInv, [M!Next]_(M!vars)
  PROVE  [M!O!Next]_holder
  <1>1. CASE UNCHANGED M!vars
    BY <1>1 DEF M!vars
  <1>2. ASSUME NEW t \in Owner, M!AllocStore(t)
        PROVE  M!O!Next
    <2>1. blk[t] \in M!Block /\ want[t] # {} /\ want[t] \in SUBSET Owner
      BY <1>2 DEF PoolInv, PoolCallsOK, M!TypeOK, M!AllocStore
    <2>2. InFlight(t, blk[t])
      BY <1>2 DEF InFlight, M!AllocStore
    <2>3. holder[blk[t]] = {}
      BY <2>1, <2>2 DEF PoolInv, BlockAccounting
    <2>4. M!O!Grant(blk[t], want[t])
      BY <1>2, <2>1, <2>3 DEF M!AllocStore, M!O!Grant
    <2>5. QED
      BY <2>1, <2>4 DEF M!O!Next
  <1>3. ASSUME NEW t \in Owner, NEW u \in Owner, NEW b \in M!Block, M!Retain(t, u, b)
        PROVE  M!O!Next
    BY <1>3 DEF M!Retain, M!O!Share, M!O!Next
  <1>4. ASSUME NEW t \in Owner, NEW b \in M!Block, M!ReleaseSub(t, b)
        PROVE  M!O!Next
    BY <1>4 DEF M!ReleaseSub, M!O!GiveBack, M!O!Next
  <1>5. ASSUME NEW t \in Owner,
               \/ \E owners \in SUBSET Owner : M!CallAlloc(t, owners)
               \/ M!AllocTake(t) \/ M!AllocNull(t) \/ M!ReleasePush(t)
        PROVE  UNCHANGED holder
    BY <1>5 DEF M!CallAlloc, M!AllocTake, M!AllocNull, M!ReleasePush
  <1>6. QED
    BY <1>1, <1>2, <1>3, <1>4, <1>5 DEF M!Next

\* mp_alloc gives a block to new owners only while nobody owns it: the memory pool
\* implements Ownership for every number of blocks and threads
\* (memory_pool.c:105, 113, 121-128).
THEOREM PoolBlocksExclusive == Spec => BlocksExclusive
  <1>1. M!Init => M!O!Init
    BY DEF M!Init, M!O!Init
  <1>2. PoolInv /\ [M!Next]_(M!vars) => [M!O!Next]_holder
    BY PoolSimulation
  <1>3. QED
    BY <1>1, <1>2, PoolInductive, MemoryPoolStep, PTL
    DEF Spec, Init, BlocksExclusive, M!BlocksExclusive, M!O!Spec

=============================================================================
