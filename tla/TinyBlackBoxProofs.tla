------------------------- MODULE TinyBlackBoxProofs --------------------------
(***************************************************************************)
(* Proofs about TinyBlackBox for every pool, queue size, set of keys and   *)
(* set of failing calls: types, no thread asleep without a reason, and the *)
(* bound on what is handled after a stop or an exit.                       *)
(***************************************************************************)
EXTENDS TinyBlackBox, FiniteSetTheorems, SequenceTheorems, TLAPS

-----------------------------------------------------------------------------
(* The inductive invariant *)

\* The places where a worker has a block in hand.
UsesBlock == [
  capture |-> {"store", "read", "enqueue_display", "enqueue_record"},
  display |-> {"draw", "exit_check", "gate", "release", "push"},
  record |-> {"drain", "write", "gate", "release", "push"}]

Hands == \A w \in Worker : pc[w] \in UsesBlock[w] => fb[w] \in Block

\* A thread is not born before main has started it.
Births ==
  /\ pc["main"] = "start_ui" => pc["ui"] = "unborn"
  /\ pc["main"] \in {"start_ui", "start_capture"} => pc["capture"] = "unborn"
  /\ pc["main"] \in {"start_ui", "start_capture", "start_record"} =>
       pc["record"] = "unborn"
  /\ pc["main"] \in {"start_ui", "start_capture", "start_record", "start_display"} =>
       pc["display"] = "unborn"

EnqueueAt == [display |-> "enqueue_display", record |-> "enqueue_record"]

\* A thread sleeps on the condition of the place it is at.
Beds ==
  \A t \in Thread :
    /\ waiting[t] = "ui" => t \in Worker /\ pc[t] = "gate"
    /\ waiting[t] = "pool" => t = "capture" /\ pc[t] = "alloc"
    /\ \A c \in Consumer :
         /\ waiting[t] = NotEmpty[c] => t = c /\ pc[t] = "dequeue"
         /\ waiting[t] = NotFull[c] => t = "capture" /\ pc[t] = EnqueueAt[c]

\* The places of a worker after it has handled a frame and before it passes its
\* gate again; display passes it in STATE_EXIT too.
Handled == [
  capture |-> {"enqueue_display", "enqueue_record", "gate", "done"},
  display |-> {"exit_check", "done"} \cup (IF state = "STOPPED" THEN {"gate"} ELSE {}),
  record |-> {"gate", "done"}]

\* A frame is counted in passing, never in STATE_RUNNING, and only once while
\* ui_arg exists.
Counted ==
  /\ state = "RUNNING" => \A w \in Worker : overrun[w] = 0
  /\ ~uiFreed => \A w \in Worker : overrun[w] \in {0, 1}
  /\ ~uiFreed => \A w \in Worker : overrun[w] = 1 => pc[w] \in Handled[w]

IndInv == TypeOK /\ Hands /\ Births /\ Beds /\ SleepersJustified /\ Counted

-----------------------------------------------------------------------------
(* Facts about threads, conditions and places *)

LEMMA Names ==
  /\ Thread = {"capture", "display", "record", "main", "ui"}
  /\ Worker = {"capture", "display", "record"}
  /\ Consumer = {"display", "record"}
  BY DEF Thread, Worker, Consumer

LEMMA CondNames ==
  /\ NotEmpty["display"] = "display_not_empty" /\ NotEmpty["record"] = "record_not_empty"
  /\ NotFull["display"] = "display_not_full" /\ NotFull["record"] = "record_not_full"
  /\ Cond = {"ui", "pool", "display_not_empty", "record_not_empty",
             "display_not_full", "record_not_full"}
  BY DEF NotEmpty, NotFull, Cond, Consumer

\* Only one thread can sleep on each condition but "ui": to signal it is to
\* broadcast it.
LEMMA SignalIsBroadcast ==
  ASSUME TypeOK, Beds, NEW c \in Cond \ {"ui"}, Signal(c)
  PROVE  Broadcast(c)
  <1>1. waiting \in [Thread -> Cond \cup {"none"}]
    BY DEF TypeOK
  <1>2. \A t, u \in Sleeping(c) : t = u
    <2>1. c \in {"pool"} \cup {NotEmpty[d] : d \in Consumer} \cup {NotFull[d] : d \in Consumer}
      BY DEF Cond
    <2>2. CASE c = "pool"
      BY <2>2 DEF Beds, Sleeping
    <2>3. CASE \E d \in Consumer : c = NotEmpty[d]
      BY <2>3 DEF Beds, Sleeping
    <2>4. CASE \E d \in Consumer : c = NotFull[d]
      BY <2>4 DEF Beds, Sleeping
    <2>5. QED
      BY <2>1, <2>2, <2>3, <2>4
  <1>3. CASE Sleeping(c) = {} /\ UNCHANGED waiting
    BY <1>1, <1>3 DEF Sleeping, Broadcast
  <1>4. CASE \E t \in Sleeping(c) : waiting' = [waiting EXCEPT ![t] = "none"]
    <2>1. PICK t \in Sleeping(c) : waiting' = [waiting EXCEPT ![t] = "none"]
      BY <1>4
    <2>2. \A u \in Thread : waiting[u] = c <=> u = t
      BY <1>2, <2>1 DEF Sleeping
    <2>3. QED
      BY <1>1, <2>1, <2>2 DEF Broadcast
  <1>5. QED
    BY <1>3, <1>4 DEF Signal

\* No thread is woken, or all those in one condition are.
Wakes == waiting' = waiting \/ \E c \in Cond : Broadcast(c)

\* What a step of one awake thread does to the places of the threads.
LEMMA StepPlaces ==
  ASSUME TypeOK, Hands, Births, Beds, Wakes,
         NEW t \in Thread, waiting[t] = "none", pc[t] # "unborn",
         NEW l, pc' = [pc EXCEPT ![t] = l], l \in Labels[t],
         t = "main" => l \in {"join_capture", "join_record", "join_display", "join_ui",
                              "destroy_queue", "crashed", "failed"},
         \A w \in Worker \ {t} : fb'[w] = fb[w],
         t \in Worker /\ l \in UsesBlock[t] => fb'[t] \in Block
  PROVE  Hands' /\ Births' /\ Beds'
  <1>1. DOMAIN pc = Thread /\ waiting \in [Thread -> Cond \cup {"none"}]
    BY DEF TypeOK
  <1>2. pc'[t] = l /\ \A u \in Thread \ {t} : pc'[u] = pc[u]
    BY <1>1
  <1>3. \A u \in Thread : waiting'[u] = waiting[u] \/ waiting'[u] = "none"
    BY <1>1 DEF Wakes, Broadcast
  <1>4. Hands'
    BY <1>2 DEF Hands
  <1>5. Births'
    BY <1>2, Names DEF Births
  <1>6. Beds'
    <2>1. ASSUME NEW u \in Thread, waiting'[u] # "none"
          PROVE  waiting'[u] = waiting[u] /\ pc'[u] = pc[u]
      BY <1>2, <1>3, <2>1
    <2>2. "none" \notin Cond
      BY CondNames
    <2>3. \A c \in Consumer : NotEmpty[c] \in Cond /\ NotFull[c] \in Cond
      BY DEF Cond
    <2>4. "ui" \in Cond /\ "pool" \in Cond
      BY DEF Cond
    <2>5. QED
      BY <2>1, <2>2, <2>3, <2>4 DEF Beds
  <1>7. QED
    BY <1>4, <1>5, <1>6

\* A step that moves one thread and changes nothing the others look at.
LEMMA MoveInv ==
  ASSUME IndInv, NEW t \in Thread, waiting[t] = "none", pc[t] # "unborn",
         NEW l, pc' = [pc EXCEPT ![t] = l], l \in Labels[t],
         UNCHANGED <<waiting, fb, state, uiFreed, poolVars, streamVars, overrun>>,
         uiMutex' \in Thread \cup {"none"}, screen' \in BOOLEAN,
         t = "main" => l \in {"join_capture", "join_record", "join_display", "join_ui",
                              "destroy_queue", "crashed", "failed"},
         t \in Worker /\ l \in UsesBlock[t] => fb[t] \in Block,
         t \in Worker /\ ~uiFreed /\ overrun[t] = 1 => l \in Handled[t]
  PROVE  IndInv'
  <1> USE DEF IndInv
  <1>1. DOMAIN pc = Thread
    BY DEF TypeOK
  <1>2. pc'[t] = l /\ \A u \in Thread \ {t} : pc'[u] = pc[u]
    BY <1>1
  <1>3. TypeOK'
    BY <1>1, <1>2 DEF TypeOK, poolVars, streamVars
  <1>4. Hands' /\ Births' /\ Beds'
    BY StepPlaces DEF Wakes
  <1>5. SleepersJustified'
    BY DEF SleepersJustified, Sleeping, is_empty, is_full, poolVars, streamVars
  <1>6. Counted'
    <2>1. Handled' = Handled
      BY DEF Handled
    <2>2. QED
      BY <1>2, <2>1 DEF Counted, Thread
  <1>7. QED
    BY <1>3, <1>4, <1>5, <1>6

\* A thread goes to sleep on the condition of its place, which holds.
LEMMA SleepInv ==
  ASSUME IndInv, NEW t \in Thread, NEW c \in Cond, waiting[t] = "none", Sleep(t, c),
         UNCHANGED <<pc, fb, uiVars, poolVars, streamVars, overrun>>,
         \/ c = "ui" /\ t \in Worker /\ pc[t] = "gate" /\ state = "STOPPED"
         \/ c = "pool" /\ t = "capture" /\ pc[t] = "alloc" /\ freeList = <<>>
         \/ \E d \in Consumer :
              \/ c = NotEmpty[d] /\ t = d /\ pc[t] = "dequeue" /\ is_empty(d)
              \/ c = NotFull[d] /\ t = "capture" /\ pc[t] = EnqueueAt[d] /\ is_full(d)
  PROVE  IndInv'
  <1> USE DEF IndInv
  <1>1. waiting \in [Thread -> Cond \cup {"none"}]
    BY DEF TypeOK
  <1>2. waiting'[t] = c /\ \A u \in Thread \ {t} : waiting'[u] = waiting[u]
    BY <1>1 DEF Sleep
  <1>3. TypeOK'
    BY <1>1 DEF TypeOK, Sleep, uiVars, poolVars, streamVars
  <1>4. Hands' /\ Births'
    BY DEF Hands, Births
  <1>5. \A d, e \in Consumer :
          /\ NotEmpty[d] # "ui" /\ NotEmpty[d] # "pool" /\ NotEmpty[d] # NotFull[e]
          /\ NotFull[d] # "ui" /\ NotFull[d] # "pool"
          /\ NotEmpty[d] = NotEmpty[e] => d = e
          /\ NotFull[d] = NotFull[e] => d = e
    BY CondNames, Names
  <1>6. Beds'
    BY <1>2, <1>5 DEF Beds
  <1>7. /\ state' = state /\ freeList' = freeList
        /\ \A d \in Consumer : is_empty(d)' = is_empty(d) /\ is_full(d)' = is_full(d)
    BY DEF uiVars, poolVars, streamVars, is_empty, is_full
  <1>8. \A d \in Cond \ {c} : Sleeping(d)' = Sleeping(d)
    <2>1. "none" \notin Cond
      BY CondNames
    <2>2. QED
      BY <1>2, <2>1 DEF Sleeping
  <1>9. /\ \A d \in Consumer : NotEmpty[d] \in Cond /\ NotFull[d] \in Cond
        /\ "ui" \in Cond /\ "pool" \in Cond
    BY DEF Cond
  <1>10. SleepersJustified'
    BY <1>5, <1>7, <1>8, <1>9 DEF SleepersJustified
  <1>11. Counted'
    <2>1. Handled' = Handled
      BY <1>7 DEF Handled
    <2>2. QED
      BY <1>7, <2>1 DEF Counted, uiVars
  <1>12. QED
    BY <1>3, <1>4, <1>6, <1>10, <1>11

\* What a step that changes neither queues, free list nor state does to sleepers.
LEMMA SameReasons ==
  ASSUME TypeOK, SleepersJustified, Wakes, UNCHANGED <<state, freeList, queue>>
  PROVE  SleepersJustified'
  <1>1. \A c : Sleeping(c)' # {} /\ c \in Cond => Sleeping(c) # {}
    <2>1. "none" \notin Cond
      BY CondNames
    <2>2. QED
      BY <2>1 DEF Sleeping, Wakes, Broadcast
  <1>2. /\ \A d \in Consumer : NotEmpty[d] \in Cond /\ NotFull[d] \in Cond
        /\ "ui" \in Cond /\ "pool" \in Cond
    BY DEF Cond
  <1>3. QED
    BY <1>1, <1>2 DEF SleepersJustified, is_empty, is_full

-----------------------------------------------------------------------------
(* The steps of the threads *)

\* MoveInv for a worker that goes from place k to place l.
LEMMA WorkerMove ==
  ASSUME IndInv, NEW w \in Worker, NEW k, At(w, k), k # "unborn",
         NEW l, Goto(w, l), l \in Labels[w],
         UNCHANGED <<waiting, fb, state, uiFreed, screen, poolVars, streamVars, overrun>>,
         uiMutex' \in Thread \cup {"none"},
         l \in UsesBlock[w] => k \in UsesBlock[w],
         l \in Handled[w] \/ k \notin Handled[w] \/ state = "RUNNING" \/ uiFreed
  PROVE  IndInv'
  <1>1. waiting[w] = "none" /\ pc[w] = k /\ pc' = [pc EXCEPT ![w] = l]
    BY DEF At, Goto
  <1>2. l \in UsesBlock[w] => fb[w] \in Block
    BY <1>1 DEF IndInv, Hands
  <1>3. ~uiFreed /\ overrun[w] = 1 => l \in Handled[w]
    BY <1>1 DEF IndInv, Counted
  <1>4. w \in Thread /\ w # "main" /\ screen' \in BOOLEAN
    BY Names DEF IndInv, TypeOK
  <1>5. QED
    BY <1>1, <1>2, <1>3, <1>4, MoveInv

LEMMA GateInv ==
  ASSUME IndInv, NEW w \in Worker,
         NEW next, next \in Labels[w], next \in UsesBlock[w] => "gate" \in UsesBlock[w],
         \/ GateSleep(w) \/ GatePass(w, next)
         \/ GateExit(w) /\ w # "display"
         \/ GateFreed(w, next)
  PROVE  IndInv'
  <1>1. "gate" \in Labels[w] /\ "done" \in Labels[w] /\ "done" \notin UsesBlock[w] /\ "done" \in Handled[w]
    BY Names DEF Labels, UsesBlock, Handled
  <1>2. uiMutex \in Thread \cup {"none"} /\ w \in Thread
    BY Names DEF IndInv, TypeOK
  <1>3. CASE GateSleep(w)
    <2>1. "ui" \in Cond
      BY DEF Cond
    <2>2. QED
      BY <1>2, <1>3, <2>1, SleepInv DEF GateSleep, At
  <1>4. CASE GatePass(w, next)
    BY <1>2, <1>4, WorkerMove DEF GatePass, uiVars
  <1>5. CASE GateExit(w)
    BY <1>1, <1>2, <1>5, WorkerMove DEF GateExit
  <1>6. CASE GateFreed(w, next)
    BY <1>1, <1>2, <1>6, WorkerMove DEF GateFreed, uiVars
  <1>7. QED
    BY <1>3, <1>4, <1>5, <1>6

LEMMA PublishInv ==
  ASSUME IndInv, NEW w \in Worker, "publish" \notin Handled[w],
         NEW next, next \in Labels[w], next \notin UsesBlock[w],
         PublishFd(w, next) \/ PublishFreed(w, next)
  PROVE  IndInv'
  <1>1. uiMutex \in Thread \cup {"none"}
    BY DEF IndInv, TypeOK
  <1>2. At(w, "publish") /\ Goto(w, next)
    BY DEF PublishFd, PublishFreed
  <1>3. UNCHANGED <<waiting, fb, state, uiMutex, uiFreed, screen, poolVars, streamVars, overrun>>
    BY DEF PublishFd, PublishFreed, uiVars
  <1>4. QED
    BY <1>1, <1>2, <1>3, WorkerMove

\* Queues are sequences of blocks.
LEMMA QueueType ==
  ASSUME TypeOK, NEW c \in Consumer
  PROVE  /\ queue[c] \in Seq(Block) /\ Len(queue[c]) \in Nat
         /\ ~is_empty(c) => /\ Head(queue[c]) \in Block
                            /\ Tail(queue[c]) \in Seq(Block)
                            /\ Len(Tail(queue[c])) = Len(queue[c]) - 1
         /\ \A b \in Block : /\ Append(queue[c], b) \in Seq(Block)
                             /\ Len(Append(queue[c], b)) = Len(queue[c]) + 1
                             /\ Append(queue[c], b) # <<>>
  <1>1. queue[c] \in Seq(Block) /\ Len(queue[c]) \in Nat
    BY DEF TypeOK
  <1>2. ASSUME queue[c] # <<>>
        PROVE  /\ Head(queue[c]) \in Block
               /\ Tail(queue[c]) \in Seq(Block)
               /\ Len(Tail(queue[c])) = Len(queue[c]) - 1
    BY <1>1, <1>2
  <1>3. ASSUME NEW b \in Block
        PROVE  /\ Append(queue[c], b) \in Seq(Block)
               /\ Len(Append(queue[c], b)) = Len(queue[c]) + 1
               /\ Append(queue[c], b) # <<>>
    BY <1>1, AppendProperties
  <1>4. QED
    BY <1>1, <1>2, <1>3 DEF is_empty

LEMMA Modulus == SeqMod \in Nat \ {0}
  <1>1. Cardinality(Block) \in Nat
    BY ContextAssumption, FS_CardinalityType DEF ContextAssumption
  <1>2. QED
    BY <1>1, ContextAssumption DEF ContextAssumption

\* The next sequence number is one, also after the content of a free block.
LEMMA NextType ==
  ASSUME NEW n \in 0 .. SeqMod
  PROVE  Next1(n) \in Seqno
  BY Modulus DEF Next1, Seqno

LEMMA DequeueInv ==
  ASSUME IndInv, NEW c \in Consumer, NEW next,
         next \in Labels[c], next \notin Handled[c],
         "dequeue" \notin Handled[c], "dequeue" \notin UsesBlock[c],
         DequeueWait(c) \/ Dequeue(c, next)
  PROVE  IndInv'
  <1> USE DEF IndInv
  <1>1. c \in Worker /\ c \in Thread /\ c # "main"
    BY Names
  <1>2. CASE DequeueWait(c)
    <2>1. NotEmpty[c] \in Cond
      BY DEF Cond
    <2>2. QED
      BY <1>1, <1>2, <2>1, SleepInv DEF DequeueWait, At
  <1>3. CASE Dequeue(c, next)
    <2>1. /\ At(c, "dequeue") /\ ~is_empty(c)
          /\ fb' = [fb EXCEPT ![c] = Head(queue[c])]
          /\ queue' = [queue EXCEPT ![c] = Tail(@)]
          /\ taken' = [taken EXCEPT ![c] = Next1(frame[Head(queue[c])].seq)]
          /\ Signal(NotFull[c])
          /\ Goto(c, next)
          /\ UNCHANGED <<state, uiMutex, uiFreed, screen, freeList, refcount, frame, wrapSem, seq, overrun>>
      BY <1>3 DEF Dequeue, uiVars, poolVars
    <2>2. NotFull[c] \in Cond \ {"ui"}
      BY CondNames, Names
    <2>3. Broadcast(NotFull[c])
      BY <2>1, <2>2, SignalIsBroadcast
    <2>4. /\ queue[c] \in Seq(Block) /\ Len(queue[c]) \in Nat
          /\ Head(queue[c]) \in Block /\ Tail(queue[c]) \in Seq(Block)
          /\ Len(Tail(queue[c])) = Len(queue[c]) - 1
      BY <2>1, QueueType
    <2>5. waiting[c] = "none" /\ pc[c] = "dequeue" /\ pc' = [pc EXCEPT ![c] = next]
      BY <2>1 DEF At, Goto
    <2>6. TypeOK'
      <3>1. waiting' \in [Thread -> Cond \cup {"none"}]
        BY <2>3 DEF TypeOK, Broadcast
      <3>2. DOMAIN pc' = Thread /\ \A t \in Thread : pc'[t] \in Labels[t]
        BY <2>5 DEF TypeOK
      <3>3. /\ queue' \in [Consumer -> Seq(Block)]
            /\ \A d \in Consumer : Len(queue'[d]) <= QueueSize
        BY <2>1, <2>4, ContextAssumption DEF TypeOK, ContextAssumption
      <3>4. frame[Head(queue[c])].seq \in 0 .. SeqMod
        BY <2>4, Modulus DEF TypeOK, Frame, NoFrame, Seqno
      <3>5. taken' \in [Consumer -> Seqno]
        BY <2>1, <3>4, NextType DEF TypeOK
      <3>6. QED
        BY <1>1, <2>1, <2>4, <3>1, <3>2, <3>3, <3>5 DEF TypeOK
    <2>7. Hands' /\ Births' /\ Beds'
      <3>1. fb'[c] \in Block /\ \A w \in Worker \ {c} : fb'[w] = fb[w]
        BY <1>1, <2>1, <2>4 DEF TypeOK
      <3>2. Wakes
        BY <2>2, <2>3 DEF Wakes
      <3>3. QED
        BY <1>1, <2>5, <3>1, <3>2, StepPlaces
    <2>8. SleepersJustified'
      <3>1. /\ Sleeping(NotFull[c])' = {}
            /\ \A d : d # "none" => Sleeping(d)' \subseteq Sleeping(d)
        BY <2>2, <2>3, CondNames DEF Sleeping, Broadcast
      <3>2. Sleeping(NotEmpty[c]) = {}
        BY <2>1 DEF SleepersJustified
      <3>3. /\ \A d \in Consumer \ {c} : queue'[d] = queue[d]
            /\ \A d \in Consumer : NotEmpty[d] # "none" /\ NotFull[d] # "none"
        BY <2>1, CondNames, Names DEF TypeOK
      <3>4. QED
        BY <2>1, <3>1, <3>2, <3>3 DEF SleepersJustified, is_empty, is_full
    <2>9. Counted'
      <3>1. overrun[c] = 1 => uiFreed
        BY <1>1, <2>5 DEF Counted
      <3>2. Handled' = Handled
        BY <2>1 DEF Handled
      <3>3. QED
        BY <1>1, <2>1, <2>5, <3>1, <3>2 DEF Counted, TypeOK
    <2>10. QED
      BY <2>6, <2>7, <2>8, <2>9
  <1>4. QED
    BY <1>2, <1>3

LEMMA ReleaseInv ==
  ASSUME IndInv, NEW c \in Consumer,
         {"release", "push", "dequeue"} \subseteq Labels[c],
         "release" \in UsesBlock[c], "push" \in UsesBlock[c], "dequeue" \notin UsesBlock[c],
         "release" \notin Handled[c], "push" \notin Handled[c],
         ReleaseSub(c) \/ ReleasePush(c)
  PROVE  IndInv'
  <1> USE DEF IndInv
  <1>1. c \in Worker /\ c \in Thread /\ c # "main"
    BY Names
  <1>2. ASSUME NEW k, At(c, k), k \in {"release", "push"}
        PROVE  fb[c] \in Block /\ pc[c] = k /\ waiting[c] = "none" /\ (overrun[c] = 1 => uiFreed)
    BY <1>1, <1>2 DEF At, Hands, Counted
  <1>3. \E l \in {"push", "dequeue"} : Goto(c, l)
    BY DEF ReleaseSub, ReleasePush
  <1>4. PICK l \in {"push", "dequeue"} : pc' = [pc EXCEPT ![c] = l]
    BY <1>3 DEF Goto
  <1>5. DOMAIN pc' = Thread /\ \A t \in Thread : pc'[t] \in Labels[t]
    BY <1>4 DEF TypeOK
  <1>6. /\ fb[c] \in Block /\ pc[c] \in {"release", "push"} /\ waiting[c] = "none"
        /\ (overrun[c] = 1 => uiFreed)
    BY <1>2 DEF ReleaseSub, ReleasePush
  <1>7. /\ UNCHANGED <<uiVars, queue, wrapSem, seq, taken, overrun>>
        /\ fb' \in [Worker -> Block \cup {NoBlock}]
        /\ fb'[c] \in Block \/ l = "dequeue"
        /\ \A w \in Worker \ {c} : fb'[w] = fb[w]
    BY <1>1, <1>4, <1>5, <1>6 DEF ReleaseSub, ReleasePush, streamVars, TypeOK, Goto
  <1>8. Counted'
    <2>1. Handled' = Handled /\ UNCHANGED <<state, uiFreed>>
      BY <1>7 DEF Handled, uiVars
    <2>2. QED
      BY <1>1, <1>4, <1>6, <1>7, <2>1 DEF Counted, TypeOK
  <1>9. CASE ReleaseSub(c)
    <2>1. TypeOK'
      <3>1. refcount' \in [Block -> Int]
        BY <1>6, <1>9 DEF ReleaseSub, TypeOK
      <3>2. frame' \in [Block -> Frame \cup {NoFrame}]
        BY <1>9 DEF ReleaseSub, TypeOK
      <3>3. UNCHANGED <<waiting, freeList>>
        BY <1>9 DEF ReleaseSub
      <3>4. QED
        BY <1>5, <1>7, <3>1, <3>2, <3>3 DEF TypeOK, uiVars
    <2>2. Wakes
      BY <1>9 DEF ReleaseSub, Wakes
    <2>3. Hands' /\ Births' /\ Beds'
      BY <1>1, <1>4, <1>6, <1>7, <2>2, StepPlaces
    <2>4. SleepersJustified'
      BY <1>7, <1>9, <2>2, SameReasons DEF ReleaseSub, uiVars
    <2>5. QED
      BY <1>8, <2>1, <2>3, <2>4
  <1>10. CASE ReleasePush(c)
    <2>1. freeList' = <<fb[c]>> \o freeList /\ UNCHANGED <<refcount, frame>>
      BY <1>10 DEF ReleasePush, streamVars
    <2>2. Broadcast("pool")
      <3>1. "pool" \in Cond \ {"ui"}
        BY CondNames
      <3>2. QED
        BY <1>10, <3>1, SignalIsBroadcast DEF ReleasePush
    <2>3. TypeOK'
      <3>1. freeList' \in Seq(Block)
        BY <1>6, <2>1 DEF TypeOK
      <3>2. waiting' \in [Thread -> Cond \cup {"none"}]
        BY <2>2 DEF TypeOK, Broadcast
      <3>3. QED
        BY <1>5, <1>7, <2>1, <3>1, <3>2 DEF TypeOK, uiVars
    <2>4. Wakes
      BY <2>2, CondNames DEF Wakes
    <2>5. Hands' /\ Births' /\ Beds'
      BY <1>1, <1>4, <1>6, <1>7, <2>4, StepPlaces
    <2>6. SleepersJustified'
      <3>1. Sleeping("pool")' = {} /\ \A d : d # "none" => Sleeping(d)' \subseteq Sleeping(d)
        BY <2>2 DEF Sleeping, Broadcast
      <3>2. \A d \in Consumer : NotEmpty[d] # "none" /\ NotFull[d] # "none"
        BY CondNames, Names
      <3>3. QED
        BY <1>7, <3>1, <3>2 DEF SleepersJustified, is_empty, is_full, uiVars
    <2>7. QED
      BY <1>8, <2>3, <2>5, <2>6
  <1>11. QED
    BY <1>9, <1>10

\* One more frame handled: while ui_arg exists the count goes up only from 0.
LEMMA CountInv ==
  ASSUME IndInv, NEW w \in Worker, NEW k, At(w, k), k \notin Handled[w], CountOverrun(w),
         NEW l, Goto(w, l), l \in Handled[w], UNCHANGED <<state, uiFreed>>
  PROVE  Counted' /\ overrun' \in [Worker -> 0 .. OverrunCap]
  <1>1. pc[w] = k /\ pc' = [pc EXCEPT ![w] = l] /\ w \in Thread
    BY Names DEF At, Goto
  <1>2. Handled' = Handled
    BY DEF Handled
  <1>3. ~uiFreed => overrun[w] = 0
    BY <1>1 DEF IndInv, Counted
  <1>4. overrun' \in [Worker -> 0 .. OverrunCap]
    BY DEF CountOverrun, OverrunCap, IndInv, TypeOK
  <1>5. CASE state = "RUNNING"
    <2>1. overrun' = overrun
      BY <1>5 DEF CountOverrun
    <2>2. QED
      BY <1>1, <1>2, <1>3, <1>4, <1>5, <2>1 DEF IndInv, Counted, TypeOK
  <1>6. CASE state # "RUNNING" /\ ~uiFreed
    <2>1. overrun' = [overrun EXCEPT ![w] = 1]
      BY <1>3, <1>6 DEF CountOverrun, OverrunCap, IndInv, TypeOK
    <2>2. QED
      BY <1>1, <1>2, <1>4, <1>6, <2>1 DEF IndInv, Counted, TypeOK
  <1>7. CASE state # "RUNNING" /\ uiFreed
    BY <1>4, <1>7 DEF Counted
  <1>8. QED
    BY <1>5, <1>6, <1>7

\* DrawFrame and WriteFrame: the frame is counted.
LEMMA HandleInv ==
  ASSUME IndInv, NEW w \in Worker, NEW k, At(w, k), k # "unborn", k \notin Handled[w],
         CountOverrun(w), NEW l, Goto(w, l), l \in Handled[w], l \in Labels[w],
         l \in UsesBlock[w] => k \in UsesBlock[w],
         UNCHANGED <<waiting, fb, uiVars, poolVars, streamVars>>
  PROVE  IndInv'
  <1> USE DEF IndInv
  <1>1. w \in Thread /\ w # "main" /\ waiting[w] = "none" /\ pc[w] = k
        /\ pc' = [pc EXCEPT ![w] = l]
    BY Names DEF At, Goto
  <1>2. Counted' /\ overrun' \in [Worker -> 0 .. OverrunCap]
    BY CountInv DEF uiVars
  <1>3. TypeOK'
    BY <1>1, <1>2 DEF TypeOK, uiVars, poolVars, streamVars
  <1>4. Hands' /\ Births' /\ Beds'
    <2>1. l \in UsesBlock[w] => fb'[w] \in Block
      BY <1>1 DEF Hands
    <2>2. QED
      BY <1>1, <2>1, StepPlaces DEF Wakes
  <1>5. SleepersJustified'
    BY SameReasons DEF Wakes, uiVars, poolVars, streamVars
  <1>6. QED
    BY <1>2, <1>3, <1>4, <1>5

LEMMA DisplayInv ==
  ASSUME IndInv, DisplayStep \/ DisplayFreed
  PROVE  IndInv'
  <1> DEFINE w == "display"
  <1>1. /\ w \in Worker /\ w \in Consumer
        /\ uiMutex \in Thread \cup {"none"}
    BY Names DEF IndInv, TypeOK
  <1>2. /\ Labels[w] = {"unborn", "open", "dequeue", "draw", "exit_check", "gate",
                        "release", "push", "done"}
        /\ UsesBlock[w] = {"draw", "exit_check", "gate", "release", "push"}
        /\ {"exit_check", "done"} \subseteq Handled[w]
        /\ Handled[w] \subseteq {"exit_check", "done", "gate"}
        /\ "gate" \in Handled[w] <=> state = "STOPPED"
    BY DEF Labels, UsesBlock, Handled
  <1>3. CASE DisplayInit
    <2>1. /\ waiting[w] = "none" /\ pc[w] = "open" /\ pc' = [pc EXCEPT ![w] = "dequeue"]
          /\ UNCHANGED <<waiting, fb, state, uiMutex, uiFreed, poolVars, streamVars, overrun>>
      BY <1>3 DEF DisplayInit, At, Goto
    <2>2. screen' \in BOOLEAN
      BY <1>3 DEF DisplayInit, IndInv, TypeOK
    <2>3. w \in Thread /\ (~uiFreed => overrun[w] # 1)
      BY <1>1, <1>2, <2>1, Names DEF IndInv, Counted
    <2>4. QED
      BY <1>1, <1>2, <2>1, <2>2, <2>3, MoveInv
  <1>4. CASE TakeToDraw
    BY <1>1, <1>2, <1>4, DequeueInv DEF TakeToDraw
  <1>5. CASE DrawFrame
    BY <1>1, <1>2, <1>5, HandleInv DEF DrawFrame
  <1>6. CASE DrawFail
    BY <1>1, <1>2, <1>6, WorkerMove DEF DrawFail, uiVars
  <1>7. CASE ExitCheck
    <2>1. PICK seen \in SeenStates : Goto(w, IF seen = "EXIT" THEN "done" ELSE "gate")
      BY <1>7 DEF ExitCheck
    <2>2. CASE seen = "EXIT"
      BY <1>1, <1>2, <1>7, <2>1, <2>2, WorkerMove DEF ExitCheck, uiVars
    <2>3. CASE seen # "EXIT"
      <3>1. state \in {"STOPPED", "RUNNING"} \/ uiFreed
        BY <2>3 DEF SeenStates, State, IndInv, TypeOK
      <3>2. QED
        BY <1>1, <1>2, <1>7, <2>1, <2>3, <3>1, WorkerMove DEF ExitCheck, uiVars
    <2>4. QED
      BY <2>2, <2>3
  <1>8. CASE DisplayGate
    <2>1. CASE GateSleep(w)
      BY <1>1, <1>2, <2>1, GateInv
    <2>2. CASE DisplayGatePass
      BY <1>1, <1>2, <2>2, WorkerMove DEF DisplayGatePass, uiVars
    <2>3. QED
      BY <1>8, <2>1, <2>2 DEF DisplayGate
  <1>9. CASE DisplayRelease
    BY <1>1, <1>2, <1>9, ReleaseInv DEF DisplayRelease
  <1>10. CASE DisplayFreed
    BY <1>1, <1>2, <1>10, WorkerMove DEF DisplayFreed, uiVars
  <1>11. QED
    BY <1>3, <1>4, <1>5, <1>6, <1>7, <1>8, <1>9, <1>10 DEF DisplayStep

LEMMA RecordInv ==
  ASSUME IndInv, RecordStep \/ RecordFreed
  PROVE  IndInv'
  <1> DEFINE w == "record"
  <1>1. /\ w \in Worker /\ w \in Consumer /\ w # "display"
        /\ uiMutex \in Thread \cup {"none"}
    BY Names DEF IndInv, TypeOK
  <1>2. /\ Labels[w] = {"unborn", "open", "publish", "dequeue", "drain", "write", "gate",
                        "release", "push", "done"}
        /\ UsesBlock[w] = {"drain", "write", "gate", "release", "push"}
        /\ Handled[w] = {"gate", "done"}
    BY DEF Labels, UsesBlock, Handled
  <1>3. CASE RecordOpen
    BY <1>1, <1>2, <1>3, WorkerMove DEF RecordOpen, uiVars
  <1>4. CASE PublishRecordFd \/ PublishFreed(w, "dequeue")
    BY <1>1, <1>2, <1>4, PublishInv DEF PublishRecordFd
  <1>5. CASE TakeToWrite
    BY <1>1, <1>2, <1>5, DequeueInv DEF TakeToWrite
  <1>6. CASE DrainWrap
    <2>1. PICK l \in {"drain", "write"} :
            /\ DOMAIN pc' = Thread
            /\ pc'[w] = l /\ \A t \in Thread \ {w} : pc'[t] = pc[t]
      <3>1. DOMAIN pc = Thread /\ pc[w] = "drain" /\ w \in Thread
        BY <1>6, Names DEF DrainWrap, At, IndInv, TypeOK
      <3>2. CASE UNCHANGED pc
        BY <3>1, <3>2
      <3>3. CASE Goto(w, "write")
        BY <3>1, <3>3 DEF Goto
      <3>4. QED
        BY <1>6, <3>2, <3>3 DEF DrainWrap
    <2>2. /\ waiting[w] = "none" /\ pc[w] = "drain" /\ w \in Thread /\ w # "main"
          /\ wrapSem' \in Nat
          /\ UNCHANGED <<waiting, fb, uiVars, poolVars, frame, queue, seq, taken, overrun>>
      BY <1>6, Names DEF DrainWrap, At, IndInv, TypeOK
    <2>3. TypeOK'
      BY <1>2, <2>1, <2>2 DEF IndInv, TypeOK, uiVars, poolVars
    <2>4. Hands' /\ Births' /\ Beds'
      <3>1. Hands' /\ Births'
        BY <1>1, <1>2, <2>1, <2>2, Names DEF IndInv, Hands, Births
      <3>2. waiting' = waiting /\ \A t \in Thread : waiting[t] # "none" => pc'[t] = pc[t]
        BY <2>1, <2>2
      <3>3. /\ \A c \in Consumer : NotEmpty[c] # "none" /\ NotFull[c] # "none"
            /\ "ui" # "none" /\ "pool" # "none"
        BY CondNames, Names
      <3>4. Beds'
        BY <3>2, <3>3 DEF IndInv, Beds
      <3>5. QED
        BY <3>1, <3>4
    <2>5. SleepersJustified'
      BY <2>2, SameReasons DEF IndInv, Wakes, uiVars, poolVars
    <2>6. Counted'
      <3>1. Handled' = Handled /\ UNCHANGED <<state, uiFreed, overrun>>
        BY <2>2 DEF Handled, uiVars
      <3>2. pc'[w] = l /\ \A t \in Worker \ {w} : pc'[t] = pc[t]
        BY <2>1 DEF Thread
      <3>3. QED
        BY <1>1, <1>2, <2>2, <3>1, <3>2 DEF IndInv, Counted
    <2>7. QED
      BY <2>3, <2>4, <2>5, <2>6 DEF IndInv
  <1>7. CASE DrainEnd
    BY <1>1, <1>2, <1>7, WorkerMove DEF DrainEnd, uiVars
  <1>8. CASE WriteFrame
    BY <1>1, <1>2, <1>8, HandleInv DEF WriteFrame
  <1>9. CASE WriteFail
    BY <1>1, <1>2, <1>9, WorkerMove DEF WriteFail, uiVars
  <1>10. CASE RecordGate \/ GateFreed(w, "release")
    BY <1>1, <1>2, <1>10, GateInv DEF RecordGate
  <1>11. CASE RecordRelease
    BY <1>1, <1>2, <1>11, ReleaseInv DEF RecordRelease
  <1>12. QED
    BY <1>3, <1>4, <1>5, <1>6, <1>7, <1>8, <1>9, <1>10, <1>11 DEF RecordStep, RecordFreed

\* A block taken from the free list.
LEMMA AllocInv ==
  ASSUME IndInv, AllocTake
  PROVE  IndInv'
  <1> USE DEF IndInv
  <1> DEFINE w == "capture"
  <1>1. /\ waiting[w] = "none" /\ pc[w] = "alloc" /\ pc' = [pc EXCEPT ![w] = "store"]
        /\ freeList # <<>> /\ freeList' = Tail(freeList)
        /\ fb' = [fb EXCEPT ![w] = Head(freeList)]
        /\ UNCHANGED <<waiting, uiVars, refcount, streamVars, overrun>>
    BY DEF AllocTake, At, Goto
  <1>2. Head(freeList) \in Block /\ Tail(freeList) \in Seq(Block)
    BY <1>1, HeadTailProperties DEF TypeOK
  <1>3. w \in Worker /\ w \in Thread /\ "store" \in Labels[w]
    BY Names DEF Labels
  <1>4. TypeOK'
    BY <1>1, <1>2, <1>3 DEF TypeOK, uiVars, streamVars
  <1>5. Hands' /\ Births' /\ Beds'
    <2>1. fb'[w] \in Block /\ \A u \in Worker \ {w} : fb'[u] = fb[u]
      BY <1>1, <1>2, <1>3 DEF TypeOK
    <2>2. QED
      BY <1>1, <1>3, <2>1, StepPlaces DEF Wakes
  <1>6. SleepersJustified'
    BY <1>1 DEF SleepersJustified, Sleeping, is_empty, is_full, uiVars, streamVars
  <1>7. Counted'
    <2>1. Handled' = Handled /\ UNCHANGED <<state, uiFreed, overrun>>
      BY <1>1 DEF Handled, uiVars
    <2>2. "alloc" \notin Handled[w]
      BY DEF Handled
    <2>3. QED
      BY <1>1, <1>3, <2>1, <2>2 DEF Counted, TypeOK
  <1>8. QED
    BY <1>4, <1>5, <1>6, <1>7

LEMMA ReadInv ==
  ASSUME IndInv, NEW wrapped \in BOOLEAN, ReadFrame(wrapped)
  PROVE  IndInv'
  <1> USE DEF IndInv
  <1> DEFINE w == "capture"
  <1>1. /\ waiting[w] = "none" /\ pc[w] = "read" /\ pc' = [pc EXCEPT ![w] = "enqueue_display"]
        /\ UNCHANGED <<waiting, fb, uiVars, poolVars, queue, taken>>
    BY DEF ReadFrame, At, Goto
  <1>2. w \in Worker /\ w \in Thread /\ "enqueue_display" \in Labels[w]
    BY Names DEF Labels
  <1>3. fb[w] \in Block
    BY <1>1, <1>2 DEF Hands, UsesBlock
  <1>4. Counted' /\ overrun' \in [Worker -> 0 .. OverrunCap]
    BY <1>2, CountInv DEF ReadFrame, uiVars, Handled
  <1>5. TypeOK'
    <2>1. frame' \in [Block -> Frame \cup {NoFrame}]
      BY <1>3 DEF ReadFrame, TypeOK, Frame
    <2>2. wrapSem' \in Nat
      BY DEF ReadFrame, TypeOK
    <2>3. seq' \in Seqno
      BY NextType, Modulus DEF ReadFrame, TypeOK, Seqno
    <2>4. QED
      BY <1>1, <1>2, <1>4, <2>1, <2>2, <2>3 DEF TypeOK, uiVars, poolVars
  <1>6. Hands' /\ Births' /\ Beds'
    BY <1>1, <1>2, <1>3, StepPlaces DEF Wakes
  <1>7. SleepersJustified'
    BY <1>1, SameReasons DEF Wakes, uiVars, poolVars
  <1>8. QED
    BY <1>4, <1>5, <1>6, <1>7

\* The block of capture goes into the queue of c; capture goes on with l.
LEMMA EnqueueInv ==
  ASSUME IndInv, NEW c \in Consumer,
         At("capture", EnqueueAt[c]),
         NEW l \in {"enqueue_record", "gate"},
         \/ EnqueueWait(c)
         \/ /\ Enqueue(c) /\ Goto("capture", l)
            /\ \/ l = "enqueue_record" /\ UNCHANGED fb
               \/ l = "gate" /\ fb' = [fb EXCEPT !["capture"] = NoBlock]
  PROVE  IndInv'
  <1> USE DEF IndInv
  <1> DEFINE w == "capture"
  <1>1. /\ waiting[w] = "none" /\ pc[w] = EnqueueAt[c] /\ pc[w] # "unborn"
        /\ w \in Worker /\ w \in Thread /\ l \in Labels[w]
    BY Names DEF At, Labels, EnqueueAt
  <1>2. fb[w] \in Block
    BY <1>1, Names DEF Hands, UsesBlock, EnqueueAt
  <1>3. CASE EnqueueWait(c)
    <2>1. NotFull[c] \in Cond
      BY DEF Cond
    <2>2. QED
      BY <1>1, <1>3, <2>1, SleepInv DEF EnqueueWait
  <1>4. CASE /\ Enqueue(c) /\ Goto(w, l)
             /\ \/ l = "enqueue_record" /\ UNCHANGED fb
                \/ l = "gate" /\ fb' = [fb EXCEPT ![w] = NoBlock]
    <2>1. /\ ~is_full(c)
          /\ queue' = [queue EXCEPT ![c] = Append(@, fb[w])]
          /\ Signal(NotEmpty[c])
          /\ pc' = [pc EXCEPT ![w] = l]
          /\ UNCHANGED <<uiVars, poolVars, frame, wrapSem, seq, taken, overrun>>
      BY <1>4 DEF Enqueue, Goto
    <2>2. NotEmpty[c] \in Cond \ {"ui"}
      BY CondNames, Names
    <2>3. Broadcast(NotEmpty[c])
      BY <2>1, <2>2, SignalIsBroadcast
    <2>4. /\ Append(queue[c], fb[w]) \in Seq(Block)
          /\ Len(Append(queue[c], fb[w])) = Len(queue[c]) + 1
          /\ Append(queue[c], fb[w]) # <<>>
          /\ Len(queue[c]) \in Nat
      BY <1>2, QueueType
    <2>5. Len(queue[c]) + 1 <= QueueSize
      BY <2>1, <2>4, ContextAssumption DEF TypeOK, is_full, ContextAssumption
    <2>6. TypeOK'
      <3>1. waiting' \in [Thread -> Cond \cup {"none"}]
        BY <2>3 DEF TypeOK, Broadcast
      <3>2. DOMAIN pc' = Thread /\ \A t \in Thread : pc'[t] \in Labels[t]
        BY <1>1, <2>1 DEF TypeOK
      <3>3. /\ queue' \in [Consumer -> Seq(Block)]
            /\ \A d \in Consumer : Len(queue'[d]) <= QueueSize
        BY <2>1, <2>4, <2>5 DEF TypeOK
      <3>4. fb' \in [Worker -> Block \cup {NoBlock}]
        BY <1>4 DEF TypeOK
      <3>5. QED
        BY <2>1, <3>1, <3>2, <3>3, <3>4 DEF TypeOK, uiVars, poolVars
    <2>7. Hands' /\ Births' /\ Beds'
      <3>1. /\ \A u \in Worker \ {w} : fb'[u] = fb[u]
            /\ l \in UsesBlock[w] => fb'[w] \in Block
        BY <1>2, <1>4 DEF UsesBlock, TypeOK
      <3>2. Wakes
        BY <2>2, <2>3 DEF Wakes
      <3>3. QED
        BY <1>1, <2>1, <3>1, <3>2, StepPlaces
    <2>8. SleepersJustified'
      <3>1. /\ Sleeping(NotEmpty[c])' = {}
            /\ \A d : d # "none" => Sleeping(d)' \subseteq Sleeping(d)
        BY <2>2, <2>3, CondNames DEF Sleeping, Broadcast
      <3>2. Sleeping(NotFull[c]) = {}
        BY <2>1 DEF SleepersJustified
      <3>3. /\ \A d \in Consumer \ {c} : queue'[d] = queue[d]
            /\ \A d \in Consumer : NotEmpty[d] # "none" /\ NotFull[d] # "none"
            /\ state' = state /\ freeList' = freeList
        BY <2>1, CondNames, Names DEF TypeOK, uiVars, poolVars
      <3>4. QED
        BY <3>1, <3>2, <3>3 DEF SleepersJustified, is_empty, is_full
    <2>9. Counted'
      <3>1. Handled' = Handled /\ UNCHANGED <<state, uiFreed, overrun>>
        BY <2>1 DEF Handled, uiVars
      <3>2. l \in Handled[w]
        BY DEF Handled
      <3>3. QED
        BY <1>1, <2>1, <3>1, <3>2 DEF Counted, TypeOK
    <2>10. QED
      BY <2>6, <2>7, <2>8, <2>9
  <1>5. QED
    BY <1>3, <1>4

LEMMA CaptureInv ==
  ASSUME IndInv, CaptureStep \/ CaptureFreed
  PROVE  IndInv'
  <1> DEFINE w == "capture"
  <1>1. /\ w \in Worker /\ w # "display"
        /\ uiMutex \in Thread \cup {"none"}
    BY Names DEF IndInv, TypeOK
  <1>2. /\ Labels[w] = {"unborn", "open", "publish", "gate", "alloc", "store", "read",
                        "enqueue_display", "enqueue_record", "done"}
        /\ UsesBlock[w] = {"store", "read", "enqueue_display", "enqueue_record"}
        /\ Handled[w] = {"enqueue_display", "enqueue_record", "gate", "done"}
    BY DEF Labels, UsesBlock, Handled
  <1>3. CASE CaptureOpen
    BY <1>1, <1>2, <1>3, WorkerMove DEF CaptureOpen, uiVars
  <1>4. CASE PublishCaptureFd \/ PublishFreed(w, "gate")
    BY <1>1, <1>2, <1>4, PublishInv DEF PublishCaptureFd
  <1>5. CASE CaptureGate \/ GateFreed(w, "alloc")
    BY <1>1, <1>2, <1>5, GateInv DEF CaptureGate
  <1>6. CASE AllocWait
    BY <1>1, <1>6, SleepInv, CondNames, Names DEF AllocWait, At
  <1>7. CASE AllocTake
    BY <1>7, AllocInv
  <1>8. CASE AllocStore
    <2>1. /\ waiting[w] = "none" /\ pc[w] = "store" /\ pc' = [pc EXCEPT ![w] = "read"]
          /\ refcount' = [refcount EXCEPT ![fb[w]] = 2]
          /\ UNCHANGED <<waiting, fb, uiVars, freeList, streamVars, overrun>>
      BY <1>8 DEF AllocStore, At, Goto, Shares
    <2>2. w \in Thread /\ w # "main" /\ fb[w] \in Block
      BY <1>1, <1>2, <2>1, Names DEF IndInv, Hands
    <2>3. TypeOK'
      BY <1>2, <2>1, <2>2 DEF IndInv, TypeOK, uiVars, streamVars
    <2>4. Hands' /\ Births' /\ Beds'
      BY <1>2, <2>1, <2>2, StepPlaces DEF IndInv, Wakes
    <2>5. SleepersJustified'
      BY <2>1, SameReasons DEF IndInv, Wakes, uiVars, streamVars
    <2>6. Counted'
      <3>1. Handled' = Handled /\ UNCHANGED <<state, uiFreed, overrun>>
        BY <2>1 DEF Handled, uiVars
      <3>2. pc'[w] = "read" /\ \A t \in Worker \ {w} : pc'[t] = pc[t]
        BY <2>1, <2>2, Names DEF IndInv, TypeOK
      <3>3. overrun[w] = 1 => uiFreed
        BY <1>1, <1>2, <2>1 DEF IndInv, Counted
      <3>4. QED
        BY <3>1, <3>2, <3>3 DEF IndInv, Counted
    <2>7. QED
      BY <2>3, <2>4, <2>5, <2>6 DEF IndInv
  <1>9. CASE \E wrapped \in BOOLEAN : ReadFrame(wrapped)
    BY <1>9, ReadInv
  <1>10. CASE ReadFail
    BY <1>1, <1>2, <1>10, WorkerMove DEF ReadFail, uiVars
  <1>11. CASE EnqueueDisplay
    <2>1. "display" \in Consumer /\ EnqueueAt["display"] = "enqueue_display"
      BY Names DEF EnqueueAt
    <2>2. QED
      BY <1>11, <2>1, EnqueueInv DEF EnqueueDisplay
  <1>12. CASE EnqueueRecord
    <2>1. "record" \in Consumer /\ EnqueueAt["record"] = "enqueue_record"
      BY Names DEF EnqueueAt
    <2>2. QED
      BY <1>12, <2>1, EnqueueInv DEF EnqueueRecord
  <1>13. QED
    BY <1>3, <1>4, <1>5, <1>6, <1>7, <1>8, <1>9, <1>10, <1>11, <1>12
       DEF CaptureStep, CaptureFreed

\* The keys: leaving STATE_STOPPED wakes every worker and starts the counts again.
LEMMA UiInv ==
  ASSUME IndInv, UiStep \/ UserStep
  PROVE  IndInv'
  <1> USE DEF IndInv
  <1>1. /\ pc["ui"] # "unborn" /\ waiting["ui"] = "none" /\ "ui" \in Thread
        /\ DOMAIN pc' = Thread /\ \A t \in Thread \ {"ui"} : pc'[t] = pc[t]
        /\ pc'["ui"] \in Labels["ui"]
    BY Names DEF UiStep, UserStep, FinishRestart, Cleanup, PressStart, PressStop,
                 PressRestart, PressQuit, PressKey, At, Goto, TypeOK, Labels, threadVars
  <1>2. /\ UNCHANGED <<fb, poolVars, streamVars>>
        /\ state' \in State /\ uiMutex' \in Thread \cup {"none"} /\ uiFreed' \in BOOLEAN
        /\ screen' = screen
    BY <1>1 DEF UiStep, UserStep, FinishRestart, Cleanup, PressStart, PressStop,
                PressRestart, PressQuit, Resume, TypeOK, State, threadVars
  <1>3. \/ /\ Broadcast("ui") /\ overrun' = [w \in Worker |-> 0]
        \/ /\ UNCHANGED <<waiting, overrun, uiFreed>> /\ state' = "STOPPED"
        \/ /\ UNCHANGED <<waiting, overrun, state>> /\ uiFreed'
    BY DEF UiStep, UserStep, FinishRestart, Cleanup, PressStart, PressStop,
           PressRestart, PressQuit, Resume, threadVars
  <1>4. waiting' \in [Thread -> Cond \cup {"none"}] /\ Wakes
    <2>1. "ui" \in Cond
      BY CondNames
    <2>2. QED
      BY <1>3, <2>1 DEF Broadcast, TypeOK, Wakes
  <1>5. TypeOK'
    <2>1. overrun' \in [Worker -> 0 .. OverrunCap]
      BY <1>3 DEF TypeOK, OverrunCap
    <2>2. QED
      BY <1>1, <1>2, <1>4, <2>1 DEF TypeOK, poolVars, streamVars
  <1>6. Hands' /\ Births'
    BY <1>1, <1>2, Names DEF Hands, Births
  <1>7. Beds'
    <2>1. ASSUME NEW t \in Thread, waiting'[t] # "none"
          PROVE  waiting'[t] = waiting[t] /\ pc'[t] = pc[t]
      BY <1>1, <1>3, <2>1 DEF Broadcast
    <2>2. /\ \A c \in Consumer : NotEmpty[c] # "none" /\ NotFull[c] # "none"
          /\ "ui" # "none" /\ "pool" # "none"
      BY CondNames, Names
    <2>3. QED
      BY <2>1, <2>2 DEF Beds
  <1>8. SleepersJustified'
    <2>1. \A d : d # "none" => Sleeping(d)' \subseteq Sleeping(d)
      BY <1>3 DEF Sleeping, Broadcast
    <2>2. Sleeping("ui")' # {} => state' = "STOPPED"
      BY <1>3, <2>1 DEF Sleeping, Broadcast, SleepersJustified
    <2>3. \A d \in Consumer : NotEmpty[d] # "none" /\ NotFull[d] # "none"
      BY CondNames, Names
    <2>4. QED
      BY <1>2, <2>1, <2>2, <2>3
         DEF SleepersJustified, is_empty, is_full, poolVars, streamVars
  <1>9. Counted'
    <2>1. CASE overrun' = [w \in Worker |-> 0]
      BY <2>1 DEF Counted
    <2>2. CASE UNCHANGED <<overrun, uiFreed>> /\ state' = "STOPPED"
      <3>1. \A w \in Worker : Handled[w] \subseteq Handled'[w]
        BY <2>2, Names DEF Handled
      <3>2. \A w \in Worker : pc'[w] = pc[w]
        BY <1>1, Names
      <3>3. QED
        BY <2>2, <3>1, <3>2 DEF Counted
    <2>3. CASE UNCHANGED <<overrun, state>> /\ uiFreed'
      BY <2>3 DEF Counted
    <2>4. QED
      BY <1>3, <2>1, <2>2, <2>3
  <1>10. QED
    BY <1>5, <1>6, <1>7, <1>8, <1>9

\* main gives birth to a thread.
LEMMA StartInv ==
  ASSUME IndInv, NEW here, NEW t \in Thread \ {"main"}, NEW entry, NEW next,
         Start(here, t, entry, next), pc[t] = "unborn",
         entry \in Labels[t], next \in Labels["main"],
         t \in Worker => entry \notin UsesBlock[t],
         Births',
         here \in Labels["main"]
  PROVE  IndInv'
  <1> USE DEF IndInv
  <1>1. "main" \in Thread /\ waiting["main"] = "none" /\ pc["main"] = here /\ here # "unborn"
    BY Names DEF Start, At, Labels
  <1>2. CASE Goto("main", "failed")
    BY <1>1, <1>2, MoveInv, Names DEF Start, Goto, uiVars, Labels, TypeOK
  <1>3. CASE pc' = [pc EXCEPT ![t] = entry, !["main"] = next]
    <2>1. /\ DOMAIN pc' = Thread /\ pc'[t] = entry /\ pc'["main"] = next
          /\ \A u \in Thread \ {t, "main"} : pc'[u] = pc[u]
      BY <1>1, <1>3 DEF TypeOK
    <2>2. UNCHANGED <<waiting, fb, uiVars, poolVars, streamVars, overrun>>
      BY DEF Start
    <2>3. TypeOK'
      BY <1>1, <2>1, <2>2 DEF TypeOK, uiVars, poolVars, streamVars
    <2>4. Hands'
      BY <2>1, <2>2, Names DEF Hands
    <2>5. Beds'
      <3>1. waiting[t] = "none"
        <4>1. waiting[t] \in Cond \cup {"none"}
          BY DEF TypeOK
        <4>2. QED
          BY <4>1 DEF Beds, Cond, EnqueueAt, Consumer
      <3>2. /\ \A c \in Consumer : NotEmpty[c] # "none" /\ NotFull[c] # "none"
            /\ "ui" # "none" /\ "pool" # "none"
        BY CondNames, Names
      <3>3. \A u \in Thread : waiting'[u] # "none" => pc'[u] = pc[u] /\ waiting'[u] = waiting[u]
        BY <1>1, <2>1, <2>2, <3>1
      <3>4. QED
        BY <3>2, <3>3 DEF Beds
    <2>6. SleepersJustified'
      BY <2>2, SameReasons DEF Wakes, uiVars, poolVars, streamVars
    <2>7. Counted'
      <3>1. Handled' = Handled /\ UNCHANGED <<state, uiFreed, overrun>>
        BY <2>2 DEF Handled, uiVars
      <3>2. t \in Worker => "unborn" \notin Handled[t]
        BY Names DEF Handled
      <3>3. QED
        BY <2>1, <3>1, <3>2, Names DEF Counted
    <2>8. QED
      BY <2>3, <2>4, <2>5, <2>6, <2>7
  <1>4. QED
    BY <1>2, <1>3 DEF Start

LEMMA MainInv ==
  ASSUME IndInv, MainStep
  PROVE  IndInv'
  <1> DEFINE Joins == {"join_capture", "join_record", "join_display", "join_ui",
                       "destroy_queue", "crashed", "failed"}
  <1>1. ASSUME NEW here, NEW l \in Joins, At("main", here), here # "unborn",
               Goto("main", l),
               UNCHANGED <<waiting, fb, uiVars, poolVars, streamVars, overrun>>
        PROVE  IndInv'
    <2>1. l \in Labels["main"] /\ "main" \in Thread /\ "main" \notin Worker
      BY Names DEF Labels
    <2>2. uiMutex' \in Thread \cup {"none"} /\ screen' \in BOOLEAN /\ UNCHANGED <<state, uiFreed>>
      BY <1>1 DEF IndInv, TypeOK, uiVars
    <2>3. waiting["main"] = "none" /\ pc["main"] # "unborn" /\ pc' = [pc EXCEPT !["main"] = l]
      BY <1>1 DEF At, Goto
    <2>4. QED
      BY <1>1, <2>1, <2>2, <2>3, MoveInv
  <1>2. Labels["main"] = Joins \cup {"start_ui", "start_capture", "start_record", "start_display"}
    BY DEF Labels
  <1>3. DOMAIN pc = Thread
    BY DEF IndInv, TypeOK
  <1>4. CASE Start("start_ui", "ui", "read_key", "start_capture")
    <2>1. pc["ui"] = "unborn" /\ Births'
      BY <1>3, <1>4, Names DEF IndInv, Births, Start, At, Goto
    <2>2. "ui" \in Thread \ {"main"} /\ "ui" \notin Worker /\ "read_key" \in Labels["ui"]
      BY Names DEF Labels
    <2>3. QED
      BY <1>2, <1>4, <2>1, <2>2, StartInv
  <1>5. CASE Start("start_capture", "capture", "open", "start_record")
    <2>1. pc["capture"] = "unborn" /\ Births'
      BY <1>3, <1>5, Names DEF IndInv, Births, Start, At, Goto
    <2>2. /\ "capture" \in Thread \ {"main"} /\ "open" \in Labels["capture"]
          /\ "open" \notin UsesBlock["capture"]
      BY Names DEF Labels, UsesBlock
    <2>3. QED
      BY <1>2, <1>5, <2>1, <2>2, StartInv
  <1>6. CASE Start("start_record", "record", "open", "start_display")
    <2>1. pc["record"] = "unborn" /\ Births'
      BY <1>3, <1>6, Names DEF IndInv, Births, Start, At, Goto
    <2>2. /\ "record" \in Thread \ {"main"} /\ "open" \in Labels["record"]
          /\ "open" \notin UsesBlock["record"]
      BY Names DEF Labels, UsesBlock
    <2>3. QED
      BY <1>2, <1>6, <2>1, <2>2, StartInv
  <1>7. CASE Start("start_display", "display", "open", "join_capture")
    <2>1. pc["display"] = "unborn" /\ Births'
      BY <1>3, <1>7, Names DEF IndInv, Births, Start, At, Goto
    <2>2. /\ "display" \in Thread \ {"main"} /\ "open" \in Labels["display"]
          /\ "open" \notin UsesBlock["display"]
      BY Names DEF Labels, UsesBlock
    <2>3. QED
      BY <1>2, <1>7, <2>1, <2>2, StartInv
  <1>8. CASE \/ Join("join_capture", "capture", "join_record")
             \/ Join("join_record", "record", "join_display")
             \/ Join("join_display", "display", "join_ui")
             \/ Join("join_ui", "ui", "destroy_queue")
    BY <1>1, <1>8 DEF Join
  <1>9. CASE DestroyQueue
    BY <1>1, <1>9 DEF DestroyQueue
  <1>10. QED
    BY <1>4, <1>5, <1>6, <1>7, <1>8, <1>9 DEF MainStep

LEMMA SpuriousInv ==
  ASSUME IndInv, NEW t \in Thread, SpuriousWakeup(t)
  PROVE  IndInv'
  <1> USE DEF IndInv
  <1>1. /\ UNCHANGED <<pc, fb, uiVars, poolVars, streamVars, overrun>>
        /\ waiting' = [waiting EXCEPT ![t] = "none"]
    BY DEF SpuriousWakeup
  <1>2. TypeOK'
    BY <1>1 DEF TypeOK, uiVars, poolVars, streamVars
  <1>3. Hands' /\ Births'
    BY <1>1 DEF Hands, Births
  <1>4. /\ \A u \in Thread : waiting'[u] = waiting[u] \/ waiting'[u] = "none"
        /\ \A c \in Consumer : NotEmpty[c] # "none" /\ NotFull[c] # "none"
        /\ "ui" # "none" /\ "pool" # "none"
    BY <1>1, CondNames, Names DEF TypeOK
  <1>5. Beds'
    BY <1>1, <1>4 DEF Beds
  <1>6. SleepersJustified'
    <2>1. \A d : d # "none" => Sleeping(d)' \subseteq Sleeping(d)
      BY <1>4 DEF Sleeping
    <2>2. QED
      BY <1>1, <1>4, <2>1
         DEF SleepersJustified, is_empty, is_full, uiVars, poolVars, streamVars
  <1>7. Counted'
    BY <1>1 DEF Counted, Handled, uiVars
  <1>8. QED
    BY <1>2, <1>3, <1>5, <1>6, <1>7

-----------------------------------------------------------------------------
(* The theorems *)

LEMMA InitInv == Init => IndInv
  <1> SUFFICES ASSUME Init PROVE IndInv
    OBVIOUS
  <1>1. \A t \in Thread : waiting[t] = "none" /\ pc[t] = (IF t = "main" THEN "start_ui" ELSE "unborn")
    BY DEF Init
  <1>2. TypeOK
    <2>1. DOMAIN pc = Thread /\ \A t \in Thread : pc[t] \in Labels[t]
      BY Names DEF Init, Labels
    <2>2. freeList \in Seq(Block)
      <3>1. Cardinality(Block) \in Nat
        BY ContextAssumption, FS_CardinalityType DEF ContextAssumption
      <3>2. QED
        BY <3>1 DEF Init
    <2>3. /\ queue \in [Consumer -> Seq(Block)]
          /\ \A c \in Consumer : Len(queue[c]) <= QueueSize
      BY ContextAssumption DEF Init, ContextAssumption
    <2>4. /\ seq \in Seqno /\ taken \in [Consumer -> Seqno]
          /\ wrapSem \in Nat /\ refcount \in [Block -> Int]
          /\ overrun \in [Worker -> 0 .. OverrunCap]
      BY Modulus DEF Init, Seqno, OverrunCap
    <2>5. QED
      BY <2>1, <2>2, <2>3, <2>4 DEF Init, TypeOK, State
  <1>3. Hands
    BY <1>1, Names DEF Hands, UsesBlock
  <1>4. Births
    BY <1>1, Names DEF Births
  <1>5. /\ \A c \in Consumer : NotEmpty[c] # "none" /\ NotFull[c] # "none"
        /\ "ui" # "none" /\ "pool" # "none"
    BY CondNames, Names
  <1>6. Beds
    BY <1>1, <1>5 DEF Beds
  <1>7. SleepersJustified
    BY <1>1, <1>5 DEF SleepersJustified, Sleeping
  <1>8. Counted
    BY DEF Init, Counted
  <1>9. QED
    BY <1>2, <1>3, <1>4, <1>6, <1>7, <1>8 DEF IndInv

LEMMA NextInv == IndInv /\ [Next]_vars => IndInv'
  <1> SUFFICES ASSUME IndInv, [Next]_vars PROVE IndInv'
    OBVIOUS
  <1>1. CASE ThreadStep
    BY <1>1, MainInv, CaptureInv, DisplayInv, RecordInv, UiInv DEF ThreadStep
  <1>2. CASE UserStep
    BY <1>2, UiInv
  <1>3. CASE FreedStep
    BY <1>3, CaptureInv, DisplayInv, RecordInv DEF FreedStep
  <1>4. CASE \E t \in Thread : SpuriousWakeup(t)
    BY <1>4, SpuriousInv
  <1>5. CASE UNCHANGED vars
    <2>1. UNCHANGED <<pc, waiting, fb, state, uiMutex, uiFreed, screen, freeList, refcount,
                      frame, queue, wrapSem, seq, taken, overrun>>
      BY <1>5 DEF vars, threadVars, uiVars, poolVars, streamVars
    <2>2. TypeOK'
      BY <2>1 DEF IndInv, TypeOK
    <2>3. Hands' /\ Births' /\ Beds'
      BY <2>1 DEF IndInv, Hands, Births, Beds
    <2>4. SleepersJustified'
      BY <2>1 DEF IndInv, SleepersJustified, Sleeping, is_empty, is_full
    <2>5. Counted'
      BY <2>1 DEF IndInv, Counted, Handled
    <2>6. QED
      BY <2>2, <2>3, <2>4, <2>5 DEF IndInv
  <1>6. QED
    BY <1>1, <1>2, <1>3, <1>4, <1>5 DEF Next

LEMMA Inductive == Spec => []IndInv
  BY InitInv, NextInv, PTL DEF Spec

\* Every variable of the program keeps its type, whatever is pressed and
\* whatever fails: queues never hold more than QUEUE_SIZE blocks and every
\* thread is at a place of its own code.
THEOREM TypeCorrect == Spec => []TypeOK
  BY Inductive, PTL DEF IndInv

\* No wakeup is lost anywhere in the program (capture.c, display.c, record.c):
\* a thread sleeps only on a condition that holds.
THEOREM NobodySleepsInVain == Spec => []SleepersJustified
  BY Inductive, PTL DEF IndInv

\* After a stop, or an exit until ui.c:149 frees ui_arg, every worker handles at
\* most one more frame (capture.c:44-56, display.c:74-86, record.c:67-80).
THEOREM StopsInTime == Spec => []StopBound
  <1>1. IndInv => StopBound
    BY DEF IndInv, Counted, StopBound
  <1>2. QED
    BY <1>1, Inductive, PTL

=============================================================================
