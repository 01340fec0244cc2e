---------------------------- MODULE TinyBlackBox -----------------------------
(***************************************************************************)
(* The program: main starts the four threads one after the other, joins    *)
(* them and cleans up; capture, display, record and ui run concurrently.   *)
(***************************************************************************)
EXTENDS CaptureThread, DisplayThread, RecordThread, UiThread

\* main after sem_init, queue_init and frame_pool_create.
Init ==
  /\ pc = [t \in Thread |-> IF t = "main" THEN "start_ui" ELSE "unborn"]
  /\ waiting = [t \in Thread |-> "none"]
  /\ fb = [w \in Worker |-> NoBlock]
  /\ state = "STOPPED" /\ uiMutex = "none" /\ uiFreed = FALSE /\ screen = FALSE
  /\ freeList \in [1..Cardinality(Block) -> Block] /\ Elems(freeList) = Block
  /\ refcount = [b \in Block |-> 0]
  /\ frame = [b \in Block |-> NoFrame]
  /\ queue = [c \in Consumer |-> <<>>]
  /\ wrapSem = 0 /\ seq = 0
  /\ taken = [c \in Consumer |-> 0]
  /\ overrun = [w \in Worker |-> 0]

\* pthread_create, or main returns EXIT_FAILURE.
Start(here, t, entry, next) ==
  /\ At("main", here)
  /\ \/ pc' = [pc EXCEPT ![t] = entry, !["main"] = next]
     \/ "create" \in Faults /\ Goto("main", "failed")
  /\ UNCHANGED <<waiting, fb, uiVars, poolVars, streamVars, overrun>>

Join(here, t, next) ==
  /\ At("main", here) /\ pc[t] = "done"
  /\ Goto("main", next)
  /\ UNCHANGED <<waiting, fb, uiVars, poolVars, streamVars, overrun>>

\* queue_destroy frees the queue, sets its pointer to NULL and destroys the
\* mutex behind that pointer: the process ends there.
DestroyQueue ==
  /\ At("main", "destroy_queue")
  /\ Goto("main", "crashed")
  /\ UNCHANGED <<waiting, fb, uiVars, poolVars, streamVars, overrun>>

MainStep ==
  \/ Start("start_ui", "ui", "read_key", "start_capture")
  \/ Start("start_capture", "capture", "open", "start_record")
  \/ Start("start_record", "record", "open", "start_display")
  \/ Start("start_display", "display", "open", "join_capture")
  \/ Join("join_capture", "capture", "join_record")
  \/ Join("join_record", "record", "join_display")
  \/ Join("join_display", "display", "join_ui")
  \/ Join("join_ui", "ui", "destroy_queue")
  \/ DestroyQueue

\* The steps of a thread that has not touched freed memory.
ThreadStep == MainStep \/ CaptureStep \/ DisplayStep \/ RecordStep \/ UiStep

FreedStep == CaptureFreed \/ DisplayFreed \/ RecordFreed

Next ==
  \/ ThreadStep
  \/ UserStep
  \/ FreedStep
  \/ \E t \in Thread : SpuriousWakeup(t)

Spec == Init /\ [][Next]_vars

\* The scheduler runs every thread that can run; nobody has to press a key, and
\* nothing is assumed about threads that use freed memory.
Fairness ==
  /\ WF_vars(MainStep)
  /\ WF_vars(CaptureStep)
  /\ WF_vars(DisplayStep)
  /\ WF_vars(RecordStep)
  /\ WF_vars(UiStep)

FairSpec == Spec /\ Fairness

\* The best case for the exit: nobody wakes up unasked, and a thread that uses
\* the freed ui_arg always finds its mutex unlocked.
LuckySpec ==
  /\ Init /\ [][ThreadStep \/ UserStep \/ FreedStep]_vars
  /\ Fairness
  /\ WF_vars(CaptureFreed) /\ WF_vars(DisplayFreed) /\ WF_vars(RecordFreed)

-----------------------------------------------------------------------------
(* Who owns a reference to a block *)

\* capture still has to put block b in the queue of c.
Owed(c, b) ==
  /\ fb["capture"] = b
  /\ \/ pc["capture"] \in {"read", "enqueue_display", "done"}
     \/ pc["capture"] = "enqueue_record" /\ c = "record"

\* c reads the frame in block b, or a dead c has left with it.
Holds(c, b) == fb[c] = b /\ pc[c] # "push"

\* The frame in b is with c: on its way or in use.
InHand(c, b) == b \in Elems(queue[c]) \/ Holds(c, b)

HasReference(c, b) == Owed(c, b) \/ InHand(c, b)

\* The pool of FramePool: capture allocates for the two consumers.
PoolPc == [w \in Worker |-> IF pc[w] \in {"alloc", "store", "push"} THEN pc[w] ELSE "idle"]
PoolBlk == [w \in Worker |-> IF pc[w] \in {"store", "push"} THEN fb[w] ELSE NoBlock]
PoolWant == [w \in Worker |->
  IF w = "capture" /\ pc[w] \in {"alloc", "store"} THEN Consumer ELSE {}]
Holders == [b \in Block |-> {c \in Consumer : HasReference(c, b)}]

Pool == INSTANCE FramePool WITH
  Thread <- Worker,
  pc <- PoolPc,
  blk <- PoolBlk,
  want <- PoolWant,
  waiting <- Sleeping("pool"),
  holder <- Holders

Stream == INSTANCE FrameStream WITH
  Capacity <- Cardinality(Block),
  Modulus <- SeqMod,
  produced <- seq

-----------------------------------------------------------------------------
(* Properties *)

\* Where each thread can be.
Labels == [
  main |-> {"start_ui", "start_capture", "start_record", "start_display",
            "join_capture", "join_record", "join_display", "join_ui",
            "destroy_queue", "crashed", "failed"},
  ui |-> {"unborn", "read_key", "restart", "cleanup", "done"},
  capture |-> {"unborn", "open", "publish", "gate", "alloc", "store", "read",
               "enqueue_display", "enqueue_record", "done"},
  display |-> {"unborn", "open", "dequeue", "draw", "exit_check", "gate",
               "release", "push", "done"},
  record |-> {"unborn", "open", "publish", "dequeue", "drain", "write", "gate",
              "release", "push", "done"}]

\* Every variable keeps its type; refcount is an atomic_int, that it is never
\* negative is part of PoolContract.
TypeOK ==
  /\ DOMAIN pc = Thread /\ \A t \in Thread : pc[t] \in Labels[t]
  /\ waiting \in [Thread -> Cond \cup {"none"}]
  /\ fb \in [Worker -> Block \cup {NoBlock}]
  /\ state \in State /\ uiMutex \in Thread \cup {"none"} /\ uiFreed \in BOOLEAN
  /\ screen \in BOOLEAN
  /\ freeList \in Seq(Block)
  /\ refcount \in [Block -> Int]
  /\ frame \in [Block -> Frame \cup {NoFrame}]
  /\ queue \in [Consumer -> Seq(Block)]
  /\ \A c \in Consumer : Len(queue[c]) <= QueueSize
  /\ wrapSem \in Nat /\ seq \in Seqno
  /\ taken \in [Consumer -> Seqno]
  /\ overrun \in [Worker -> 0 .. OverrunCap]

\* The program uses the pool as FramePool describes it: capture allocates each
\* block with one reference for each consumer, every consumer gives its
\* reference back once (capture.c:59, display.c:89, record.c:83).
PoolContract == Pool!Spec

\* Both consumers are handed every captured frame once and in order, and a
\* consumer that stops, or dies, holds up the others after POOL_SIZE frames
\* (capture.c:81-101).
StreamContract == Stream!Spec

\* From its enqueue to its release nobody changes a frame that is with a
\* consumer: capture, display and record share it without a copy or a lock.
FrameStable ==
  [][\A c \in Consumer, b \in Block :
       InHand(c, b) /\ InHand(c, b)' => frame'[b] = frame[b]]_vars

\* Nobody sleeps on a condition that already holds, whatever the order of the
\* signals, the broadcasts and the keys (capture.c:46-99, display.c:40-84,
\* record.c:41-71).
SleepersJustified ==
  /\ Sleeping("ui") # {} => state = "STOPPED"
  /\ Sleeping("pool") # {} => freeList = <<>>
  /\ \A c \in Consumer :
       /\ Sleeping(NotEmpty[c]) # {} => is_empty(c)
       /\ Sleeping(NotFull[c]) # {} => is_full(c)

\* Stop and exit take effect: after them, and for as long as ui_arg exists, each
\* worker handles at most the one frame it is about to handle (capture.c:44-56,
\* display.c:74-86, record.c:67-80).  Once ui.c:149 has freed ui_arg nothing
\* bounds how many it handles: its tests read whatever the memory then holds.
StopBound == ~uiFreed => \A w \in Worker : overrun[w] <= 1

\* With POOL_SIZE <= QUEUE_SIZE (thread_arg.h:17-18) the queues are never full
\* for capture: the pool alone limits how far it runs ahead.
CaptureNeverWaitsOnQueue ==
  Cardinality(Block) <= QueueSize =>
    \A c \in Consumer : waiting["capture"] # NotFull[c]

\* The wrapped frames that record has yet to rewind for.
UndrainedWraps ==
  {b \in Block :
     /\ frame[b].wrapped
     /\ \/ Owed("record", b)
        \/ b \in Elems(queue["record"])
        \/ fb["record"] = b /\ pc["record"] = "drain"}

\* When record writes a frame that the input wrapped for, it has rewound the
\* output for it: a token is never left behind by its frame (capture.c:73-78,
\* record.c:50-57).
RewindNotLate == wrapSem <= Cardinality(UndrainedWraps)

\* While the program stays in STATE_RUNNING and no worker has ended, display
\* draws and record writes again and again (no lost wakeup, no deadlock over pool
\* and queues; capture.c:40-102, display.c:36-92, record.c:38-84).
PipelineProgress ==
  (<>[](state = "RUNNING") /\ [](\A w \in Worker : pc[w] # "done")) =>
    /\ []<><<DrawFrame>>_vars
    /\ []<><<WriteFrame>>_vars

\* A consumer that ends does not cut off the other: while the program stays in
\* STATE_RUNNING, every block capture has taken for consumer c comes to c, unless
\* c has ended, or capture itself has, with the block (capture.c:71,
\* display.c:52, record.c:63).  With POOL_SIZE > QUEUE_SIZE + 1 capture could wait
\* for ever for room in the queue of a dead display, record not yet served.
SurvivorServed ==
  <>[](state = "RUNNING") =>
    \A c \in Consumer, b \in Block :
      (Owed(c, b) \/ b \in Elems(queue[c])) ~>
        (\/ fb[c] = b
         \/ pc[c] = "done"
         \/ Owed(c, b) /\ pc["capture"] = "done")

\* main joins every thread (main.c:79-83): after 'q' each of them ends.
ExitEndsThreads ==
  (state = "EXIT" /\ ~uiFreed /\ \A w \in Worker : pc[w] \notin {"unborn", "open", "publish"})
    ~> (\A w \in Worker : pc[w] = "done")

\* queue_destroy "Destroy a queue and free resources" (queue.h:43): it returns.
CleanupCompletes == pc["main"] # "crashed"

=============================================================================
