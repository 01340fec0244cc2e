---------------------------- MODULE PipelineProofs ----------------------------
(***************************************************************************)
(* Proofs about what the threads of TinyBlackBox do together with blocks   *)
(* and frames, for every pool, queue size, set of keys and set of failing  *)
(* calls: the program keeps the contract of the frame pool, every consumer *)
(* is handed each frame once and in order, as FrameStream says, and record *)
(* rewinds its output in time.  What FramePoolProofs proves of the pool    *)
(* holds of the program through the refinement mapping.                    *)
(***************************************************************************)
EXTENDS TinyBlackBoxProofs

P == INSTANCE FramePoolProofs WITH
  Thread <- Worker,
  pc <- PoolPc,
  blk <- PoolBlk,
  want <- PoolWant,
  waiting <- Sleeping("pool"),
  holder <- Holders

-----------------------------------------------------------------------------
(* The inductive invariant *)

\* The places where a worker has no block, and those where nothing but the
\* content of its block is at stake until it goes on or dies.
Idle == [
  capture |-> {"unborn", "open", "publish", "gate"},
  display |-> {"unborn", "open", "dequeue"},
  record |-> {"unborn", "open", "publish", "dequeue"}]
Using == [
  capture |-> {"read"},
  display |-> {"draw", "exit_check", "gate", "release"},
  record |-> {"drain", "write", "gate", "release"}]

EmptyHands ==
  /\ \A w \in Worker : pc[w] \in Idle[w] => fb[w] = NoBlock
  /\ pc["capture"] = "alloc" => fb["capture"] = NoBlock

Distinct(s) == \A i, j \in DOMAIN s : s[i] = s[j] => i = j

\* A consumer has at most one reference to a block: it is owed, queued or held.
Once ==
  \A c \in Consumer :
    /\ Distinct(queue[c])
    /\ \A b \in Block : Owed(c, b) => ~InHand(c, b)
    /\ \A b \in Elems(queue[c]) : ~Holds(c, b)

\* A block that nobody owns, or that capture has not filled yet, has no frame.
Blank ==
  /\ \A b \in Block : Holders[b] = {} => frame[b] = NoFrame
  /\ \A b \in Block :
       pc["capture"] \in {"read", "done"} /\ fb["capture"] = b => frame[b] = NoFrame

OwnInv == IndInv /\ P!IndInv /\ EmptyHands /\ Once /\ Blank

-----------------------------------------------------------------------------
(* The pool of FramePoolProofs is the pool of TinyBlackBox *)

LEMMA WorkerFinite == IsFiniteSet(Worker)
  <1>1. Worker = (({} \cup {"capture"}) \cup {"display"}) \cup {"record"}
    BY Names
  <1>2. QED
    BY <1>1, FS_EmptySet, FS_AddElement

LEMMA SameFinite == \A S : P!IsFiniteSet(S) <=> IsFiniteSet(S)
  BY Zenon DEF P!IsFiniteSet, IsFiniteSet

LEMMA SameCardinality ==
  \A S : P!Cardinality(S) = Cardinality(S) /\ Pool!Cardinality(S) = Cardinality(S)
  BY Zenon DEF P!Cardinality, Pool!Cardinality, Cardinality

LEMMA PoolConstants == P!PoolAssumption
  BY WorkerFinite, SameFinite, ContextAssumption DEF P!PoolAssumption, ContextAssumption

LEMMA PoolNextInv == P!IndInv /\ [P!Next]_(P!vars) => P!IndInv'
  BY PoolConstants, P!NextInv

LEMMA SameNext == Pool!Next => P!Next
  BY Zenon DEF
     Pool!Next, Pool!CallAlloc, Pool!AllocWait, Pool!AllocTake, Pool!AllocStore, Pool!Retain,
     Pool!ReleaseSub, Pool!ReleasePush, Pool!SpuriousWakeup, Pool!InitCount, Pool!AddReference,
     Pool!WasLast, Pool!Signal, Pool!Cardinality,
     P!Next, P!CallAlloc, P!AllocWait, P!AllocTake, P!AllocStore, P!Retain,
     P!ReleaseSub, P!ReleasePush, P!SpuriousWakeup, P!InitCount, P!AddReference,
     P!WasLast, P!Signal, P!Cardinality

LEMMA ConsumerCount == Cardinality(Consumer) = 2
  <1>1. IsFiniteSet({"display"}) /\ Cardinality({"display"}) = 1
    BY FS_Singleton
  <1>2. Cardinality({"display"} \cup {"record"}) = 2
    BY <1>1, FS_AddElement
  <1>3. QED
    BY <1>2 DEF Consumer

-----------------------------------------------------------------------------
(* The kinds of steps *)

\* A step after which every worker stands to its block as before, or has died.
Quiet ==
  /\ UNCHANGED <<fb, freeList, refcount, queue, frame, seq, taken>>
  /\ UNCHANGED Sleeping("pool")
  /\ \A w \in Worker :
       \/ pc'[w] = pc[w]
       \/ pc[w] \in Idle[w] /\ (pc'[w] \in Idle[w] \/ pc'[w] = "done")
       \/ pc[w] \in Using[w] /\ (pc'[w] \in Using[w] \/ pc'[w] = "done")

\* capture calls fp_alloc.
CaptureCall ==
  /\ At("capture", "gate")
  /\ Goto("capture", "alloc")
  /\ UNCHANGED <<waiting, fb, poolVars, streamVars>>

\* A frame goes from capture to the queue of a consumer, or from there to it.
Put(c) ==
  /\ At("capture", EnqueueAt[c])
  /\ Enqueue(c)
  /\ \/ /\ c = "display"
        /\ Goto("capture", "enqueue_record") /\ UNCHANGED fb
     \/ /\ c = "record"
        /\ Goto("capture", "gate") /\ fb' = [fb EXCEPT !["capture"] = NoBlock]
Get(c) == Dequeue(c, IF c = "display" THEN "draw" ELSE "drain")

Loud ==
  \/ CaptureCall
  \/ AllocWait \/ AllocTake \/ AllocStore
  \/ \E wrapped \in BOOLEAN : ReadFrame(wrapped)
  \/ \E c \in Consumer : Put(c) \/ Get(c) \/ ReleaseSub(c) \/ ReleasePush(c)
  \/ waiting["capture"] = "pool" /\ SpuriousWakeup("capture")

\* A thread moves, or goes to sleep, and the pool does not notice.
LEMMA MoveQuiet ==
  ASSUME IndInv, NEW t \in Thread, NEW l, Goto(t, l),
         UNCHANGED <<waiting, fb, freeList, refcount, queue, frame, seq, taken>>,
         t \in Worker =>
           \/ pc[t] \in Idle[t] /\ (l \in Idle[t] \/ l = "done")
           \/ pc[t] \in Using[t] /\ (l \in Using[t] \/ l = "done")
  PROVE  Quiet
  <1>1. pc'[t] = l /\ \A u \in Thread \ {t} : pc'[u] = pc[u]
    BY DEF IndInv, TypeOK, Goto
  <1>2. UNCHANGED Sleeping("pool")
    BY DEF Sleeping
  <1>3. QED
    BY <1>1, <1>2, Names DEF Quiet

LEMMA SleepQuiet ==
  ASSUME IndInv, NEW t \in Thread, NEW l, At(t, l), NEW c, c # "pool", Sleep(t, c),
         UNCHANGED <<pc, fb, freeList, refcount, queue, frame, seq, taken>>
  PROVE  Quiet
  <1>1. waiting \in [Thread -> Cond \cup {"none"}] /\ waiting[t] = "none"
    BY DEF IndInv, TypeOK, At
  <1>2. UNCHANGED Sleeping("pool")
    BY <1>1 DEF Sleep, Sleeping
  <1>3. QED
    BY <1>2 DEF Quiet

LEMMA CaptureKinds ==
  ASSUME IndInv, CaptureStep \/ CaptureFreed
  PROVE  Quiet \/ Loud
  <1> DEFINE w == "capture"
  <1>1. w \in Worker /\ w \in Thread
    BY Names
  <1>2. Idle[w] = {"unborn", "open", "publish", "gate"} /\ Using[w] = {"read"}
    BY DEF Idle, Using
  <1>3. CASE CaptureOpen \/ PublishCaptureFd \/ PublishFreed(w, "gate") \/ ReadFail
    <2>1. UNCHANGED <<waiting, fb, freeList, refcount, queue, frame, seq, taken>>
      BY <1>3 DEF poolVars, streamVars, CaptureOpen, PublishCaptureFd, PublishFd, PublishFreed, ReadFail
    <2>2. CASE pc[w] = "read" /\ Goto(w, "done")
      BY <1>1, <1>2, <2>1, <2>2, MoveQuiet
    <2>3. CASE pc[w] = "open" /\ Goto(w, "publish")
      BY <1>1, <1>2, <2>1, <2>3, MoveQuiet
    <2>4. CASE pc[w] = "open" /\ Goto(w, "done")
      BY <1>1, <1>2, <2>1, <2>4, MoveQuiet
    <2>5. CASE pc[w] = "publish" /\ Goto(w, "gate")
      BY <1>1, <1>2, <2>1, <2>5, MoveQuiet
    <2>6. QED
      BY <1>3, <2>2, <2>3, <2>4, <2>5
         DEF CaptureOpen, PublishCaptureFd, PublishFd, PublishFreed, ReadFail, At
  <1>4. CASE CaptureGate \/ GateFreed(w, "alloc")
    <2>1. CASE GateSleep(w)
      BY <1>1, <2>1, SleepQuiet DEF poolVars, streamVars, GateSleep
    <2>2. CASE GateExit(w) \/ (GateFreed(w, "alloc") /\ Goto(w, "done"))
      BY <1>1, <1>2, <2>2, MoveQuiet DEF poolVars, streamVars, GateExit, GateFreed, At
    <2>3. CASE GatePass(w, "alloc") \/ (GateFreed(w, "alloc") /\ Goto(w, "alloc"))
      BY <2>3 DEF GatePass, GateFreed, CaptureCall, Loud
    <2>4. QED
      BY <1>4, <2>1, <2>2, <2>3 DEF CaptureGate, GateFreed
  <1>5. CASE AllocWait \/ AllocTake \/ AllocStore \/ \E wrapped \in BOOLEAN : ReadFrame(wrapped)
    BY <1>5 DEF Loud
  <1>6. /\ "display" \in Consumer /\ EnqueueAt["display"] = "enqueue_display"
        /\ "record" \in Consumer /\ EnqueueAt["record"] = "enqueue_record"
        /\ NotFull["display"] # "pool" /\ NotFull["record"] # "pool"
    BY Names, CondNames DEF EnqueueAt
  <1>7. CASE EnqueueDisplay
    <2>1. CASE EnqueueWait("display")
      BY <1>1, <1>6, <1>7, <2>1, SleepQuiet DEF poolVars, streamVars, EnqueueDisplay, EnqueueWait
    <2>2. CASE Enqueue("display") /\ Goto(w, "enqueue_record") /\ UNCHANGED fb
      BY <1>6, <1>7, <2>2 DEF EnqueueDisplay, Put, Loud
    <2>3. QED
      BY <1>7, <2>1, <2>2 DEF EnqueueDisplay
  <1>8. CASE EnqueueRecord
    <2>1. CASE EnqueueWait("record")
      BY <1>1, <1>6, <1>8, <2>1, SleepQuiet DEF poolVars, streamVars, EnqueueRecord, EnqueueWait
    <2>2. CASE Enqueue("record") /\ Goto(w, "gate") /\ fb' = [fb EXCEPT ![w] = NoBlock]
      BY <1>6, <1>8, <2>2 DEF EnqueueRecord, Put, Loud
    <2>3. QED
      BY <1>8, <2>1, <2>2 DEF EnqueueRecord
  <1>9. QED
    BY <1>3, <1>4, <1>5, <1>7, <1>8 DEF CaptureStep, CaptureFreed

LEMMA ConsumerKinds ==
  ASSUME IndInv, DisplayStep \/ DisplayFreed \/ RecordStep \/ RecordFreed
  PROVE  Quiet \/ Loud
  <1>1. /\ {"display", "record"} \subseteq Worker /\ {"display", "record"} \subseteq Thread
        /\ "display" \in Consumer /\ "record" \in Consumer
        /\ NotEmpty["display"] # "pool" /\ NotEmpty["record"] # "pool"
    BY Names, CondNames
  <1>2. /\ Idle["display"] = {"unborn", "open", "dequeue"}
        /\ Using["display"] = {"draw", "exit_check", "gate", "release"}
        /\ Idle["record"] = {"unborn", "open", "publish", "dequeue"}
        /\ Using["record"] = {"drain", "write", "gate", "release"}
    BY DEF Idle, Using
  <1>3. ASSUME NEW c \in Consumer, NEW next, next = (IF c = "display" THEN "draw" ELSE "drain"),
               DequeueWait(c) \/ Dequeue(c, next)
        PROVE  Quiet \/ Loud
    <2>1. NotEmpty[c] # "pool" /\ c \in Thread
      BY <1>1, Names
    <2>2. CASE DequeueWait(c)
      BY <2>1, <2>2, SleepQuiet DEF poolVars, streamVars, DequeueWait
    <2>3. CASE Dequeue(c, next)
      BY <1>3, <2>3 DEF Get, Loud
    <2>4. QED
      BY <1>3, <2>2, <2>3
  <1>4. CASE DisplayInit \/ DrawFrame \/ DrawFail \/ ExitCheck \/ DisplayGatePass \/ DisplayFreed
    <2>1. PICK k, l \in Labels["display"] : At("display", k) /\ Goto("display", l) /\
               \/ k \in {"unborn", "open", "dequeue"} /\ l \in {"unborn", "open", "dequeue", "done"}
               \/ /\ k \in {"draw", "exit_check", "gate", "release"}
                  /\ l \in {"draw", "exit_check", "gate", "release", "done"}
      BY <1>4 DEF DisplayInit, DrawFrame, DrawFail, ExitCheck, DisplayGatePass, DisplayFreed, Labels
    <2>2. UNCHANGED <<waiting, fb, freeList, refcount, queue, frame, seq, taken>>
      BY <1>4 DEF poolVars, streamVars, DisplayInit, DrawFrame, DrawFail, ExitCheck,
                  DisplayGatePass, DisplayFreed
    <2>3. Goto("display", l) /\ pc["display"] = k
      BY <2>1 DEF At
    <2>4. QED
      BY <1>1, <1>2, <2>1, <2>2, <2>3, MoveQuiet
  <1>5. CASE GateSleep("display") \/ GateSleep("record")
    BY <1>1, <1>5, SleepQuiet DEF poolVars, streamVars, GateSleep
  <1>6. CASE TakeToDraw
    BY <1>1, <1>3, <1>6 DEF TakeToDraw
  <1>7. CASE DisplayRelease \/ RecordRelease
    BY <1>1, <1>7 DEF DisplayRelease, RecordRelease, Loud
  <1>8. CASE \/ RecordOpen \/ PublishRecordFd \/ DrainEnd \/ WriteFrame \/ WriteFail
             \/ GatePass("record", "release") \/ GateExit("record") \/ RecordFreed
    <2>1. PICK k, l \in Labels["record"] : At("record", k) /\ Goto("record", l) /\
               \/ /\ k \in {"unborn", "open", "publish", "dequeue"}
                  /\ l \in {"unborn", "open", "publish", "dequeue", "done"}
               \/ /\ k \in {"drain", "write", "gate", "release"}
                  /\ l \in {"drain", "write", "gate", "release", "done"}
      BY <1>8 DEF RecordOpen, PublishRecordFd, PublishFd, DrainEnd, WriteFrame, WriteFail, GatePass,
                  GateExit, RecordFreed, PublishFreed, GateFreed, Labels
    <2>2. UNCHANGED <<waiting, fb, freeList, refcount, queue, frame, seq, taken>>
      BY <1>8 DEF poolVars, streamVars, RecordOpen, PublishRecordFd, PublishFd, DrainEnd, WriteFrame, WriteFail, GatePass,
                  GateExit, RecordFreed, PublishFreed, GateFreed
    <2>3. Goto("record", l) /\ pc["record"] = k
      BY <2>1 DEF At
    <2>4. QED
      BY <1>1, <1>2, <2>1, <2>2, <2>3, MoveQuiet
  <1>9. CASE DrainWrap
    <2>1. UNCHANGED <<waiting, fb, freeList, refcount, queue, frame, seq, taken>>
      BY <1>9 DEF poolVars, DrainWrap
    <2>2. CASE Goto("record", "write")
      BY <1>1, <1>2, <1>9, <2>1, <2>2, MoveQuiet DEF DrainWrap, At
    <2>3. CASE UNCHANGED pc
      BY <2>1, <2>3 DEF Quiet, Sleeping
    <2>4. QED
      BY <1>9, <2>2, <2>3 DEF DrainWrap
  <1>10. CASE TakeToWrite
    BY <1>1, <1>3, <1>10 DEF TakeToWrite
  <1>11. QED
    BY <1>4, <1>5, <1>6, <1>7, <1>8, <1>9, <1>10
       DEF DisplayStep, DisplayGate, RecordStep, RecordGate

\* main and ui touch no block, and only capture sleeps in the pool.
LEMMA OtherKinds ==
  ASSUME IndInv, MainStep \/ UiStep \/ UserStep \/ (\E t \in Thread : SpuriousWakeup(t)) \/ UNCHANGED vars
  PROVE  Quiet \/ Loud
  <1>1. DOMAIN pc = Thread /\ waiting \in [Thread -> Cond \cup {"none"}]
    BY DEF IndInv, TypeOK
  <1>2. CASE MainStep
    <2>1. UNCHANGED <<waiting, fb, poolVars, streamVars>>
      BY <1>2 DEF MainStep, Start, Join, DestroyQueue
    <2>2. \A w \in Worker : pc'[w] = pc[w] \/ (pc[w] = "unborn" /\ pc'[w] = "open")
      <3>1. CASE \/ Join("join_capture", "capture", "join_record")
                 \/ Join("join_record", "record", "join_display")
                 \/ Join("join_display", "display", "join_ui")
                 \/ Join("join_ui", "ui", "destroy_queue") \/ DestroyQueue
        BY <1>1, <3>1, Names DEF Join, DestroyQueue, Goto
      <3>2. CASE Start("start_ui", "ui", "read_key", "start_capture")
        BY <1>1, <3>2, Names DEF Start, Goto
      <3>3. CASE Start("start_capture", "capture", "open", "start_record")
        BY <1>1, <3>3, Names DEF Start, Goto, At, IndInv, Births
      <3>4. CASE Start("start_record", "record", "open", "start_display")
        BY <1>1, <3>4, Names DEF Start, Goto, At, IndInv, Births
      <3>5. CASE Start("start_display", "display", "open", "join_capture")
        BY <1>1, <3>5, Names DEF Start, Goto, At, IndInv, Births
      <3>6. QED
        BY <1>2, <3>1, <3>2, <3>3, <3>4, <3>5 DEF MainStep
    <2>3. \A w \in Worker : {"unborn", "open"} \subseteq Idle[w]
      BY Names DEF Idle
    <2>4. QED
      BY <2>1, <2>2, <2>3 DEF Quiet, Sleeping, poolVars, streamVars
  <1>3. CASE UiStep \/ UserStep
    <2>1. UNCHANGED <<fb, poolVars, streamVars>>
      BY <1>3 DEF UiStep, UserStep, FinishRestart, Cleanup, PressStart, PressStop,
                  PressRestart, PressQuit, Resume, threadVars
    <2>2. \A w \in Worker : pc'[w] = pc[w]
      BY <1>1, <1>3, Names DEF UiStep, UserStep, FinishRestart, Cleanup, PressStart, PressStop,
                  PressRestart, PressQuit, Resume, threadVars, Goto
    <2>3. UNCHANGED waiting \/ Broadcast("ui")
      BY <1>3 DEF UiStep, UserStep, FinishRestart, Cleanup, PressStart, PressStop,
                  PressRestart, PressQuit, Resume, threadVars
    <2>4. UNCHANGED Sleeping("pool")
      BY <1>1, <2>3 DEF Sleeping, Broadcast
    <2>5. QED
      BY <2>1, <2>2, <2>4 DEF Quiet, poolVars, streamVars
  <1>4. ASSUME NEW t \in Thread, SpuriousWakeup(t)
        PROVE  Quiet \/ Loud
    <2>1. CASE waiting[t] = "pool"
      BY <1>4, <2>1 DEF IndInv, Beds, Loud
    <2>2. CASE waiting[t] # "pool"
      BY <1>1, <1>4, <2>2 DEF SpuriousWakeup, Sleeping, Quiet, poolVars, streamVars
    <2>3. QED
      BY <2>1, <2>2
  <1>5. CASE UNCHANGED vars
    BY <1>5 DEF vars, threadVars, poolVars, streamVars, Quiet, Sleeping
  <1>6. QED
    BY <1>2, <1>3, <1>4, <1>5

LEMMA Kinds ==
  ASSUME IndInv, [Next]_vars
  PROVE  Quiet \/ Loud
  BY CaptureKinds, ConsumerKinds, OtherKinds DEF Next, ThreadStep, FreedStep

-----------------------------------------------------------------------------
(* Owners *)

LEMMA QueueGet ==
  ASSUME NEW s \in Seq(Block), s # <<>>, Distinct(s)
  PROVE  /\ Elems(Tail(s)) = Elems(s) \ {Head(s)}
         /\ Head(s) \in Elems(s) /\ Head(s) \in Block
         /\ Distinct(Tail(s))
  <1>1. P!Distinct(s)
    BY DEF Distinct, P!Distinct
  <1>2. /\ P!Elems(Tail(s)) = P!Elems(s) \ {Head(s)}
        /\ Head(s) \in P!Elems(s) /\ Head(s) \in Block
        /\ P!Distinct(Tail(s))
    BY <1>1, PoolConstants, P!TailElems
  <1>3. QED
    BY <1>2 DEF Elems, Distinct, P!Elems, P!Distinct

LEMMA QueuePut ==
  ASSUME NEW s \in Seq(Block), NEW b \in Block
  PROVE  /\ Elems(Append(s, b)) = Elems(s) \cup {b}
         /\ Distinct(s) /\ b \notin Elems(s) => Distinct(Append(s, b))
  <1> DEFINE r == Append(s, b)
  <1>1. /\ Len(s) \in Nat /\ DOMAIN s = 1..Len(s)
        /\ DOMAIN r = 1..(Len(s) + 1) /\ r[Len(s) + 1] = b
        /\ \A i \in DOMAIN s : r[i] = s[i]
    BY AppendProperties
  <1>2. Elems(r) \subseteq Elems(s) \cup {b}
    BY <1>1 DEF Elems
  <1>3. Elems(s) \cup {b} \subseteq Elems(r)
    BY <1>1 DEF Elems
  <1>4. ASSUME Distinct(s), b \notin Elems(s)
        PROVE  Distinct(r)
    <2>1. \A i \in DOMAIN s : s[i] # b
      BY <1>4 DEF Elems
    <2>2. QED
      BY <1>1, <1>4, <2>1 DEF Distinct
  <1>5. QED
    BY <1>2, <1>3, <1>4

\* What the invariant of the pool says about the blocks of the program.
LEMMA PoolFacts ==
  ASSUME OwnInv
  PROVE  /\ \A b \in Block : refcount[b] = Cardinality(Holders[b])
         /\ \A b \in Block, w \in Worker :
              pc[w] \in {"store", "push"} /\ fb[w] = b => Holders[b] = {}
         /\ \A b \in Block, c \in Consumer : c \in Holders[b] <=> HasReference(c, b)
         /\ \A b \in Block : Holders[b] \subseteq Consumer
  <1>1. \A b \in Block : refcount[b] = Cardinality(Holders[b])
    BY SameCardinality DEF OwnInv, P!IndInv, P!RefcountExact
  <1>2. ASSUME NEW b \in Block, NEW w \in Worker, pc[w] \in {"store", "push"}, fb[w] = b
        PROVE  Holders[b] = {}
    <2>1. P!InFlight(w, b)
      BY <1>2 DEF P!InFlight, PoolPc, PoolBlk
    <2>2. QED
      BY <2>1 DEF OwnInv, P!IndInv, P!BlockAccounting
  <1>3. QED
    BY <1>1, <1>2 DEF Holders

\* Blocks are owned and queued as before.
Undisturbed ==
  /\ \A c \in Consumer, b \in Block :
       (Owed(c, b)' <=> Owed(c, b)) /\ (Holds(c, b)' <=> Holds(c, b))
  /\ UNCHANGED <<queue, Holders>>

LEMMA OwnersUndisturbed ==
  ASSUME UNCHANGED queue,
         \A c \in Consumer, b \in Block :
           (Owed(c, b)' <=> Owed(c, b)) /\ (Holds(c, b)' <=> Holds(c, b))
  PROVE  Undisturbed
  BY DEF Undisturbed, Holders, HasReference, InHand

LEMMA UndisturbedOnce ==
  ASSUME IndInv, Once, Undisturbed
  PROVE  Once'
  <1>1. \A c \in Consumer : Elems(queue[c]) \subseteq Block
    BY DEF IndInv, TypeOK, Elems
  <1>2. QED
    BY <1>1 DEF Once, Undisturbed, InHand, Distinct, Elems

LEMMA QuietOwn ==
  ASSUME OwnInv, Quiet
  PROVE  /\ UNCHANGED P!vars
         /\ Undisturbed
         /\ EmptyHands' /\ Once' /\ Blank'
  <1>1. NoBlock \notin Block
    BY ContextAssumption DEF ContextAssumption
  <1>2. \A w \in Worker :
          \/ pc'[w] = pc[w]
          \/ pc[w] \in Idle[w] /\ (pc'[w] \in Idle[w] \/ pc'[w] = "done")
          \/ pc[w] \in Using[w] /\ (pc'[w] \in Using[w] \/ pc'[w] = "done")
    BY DEF Quiet
  <1>3. /\ Idle["capture"] = {"unborn", "open", "publish", "gate"} /\ Using["capture"] = {"read"}
        /\ \A c \in Consumer : /\ Idle[c] \subseteq {"unborn", "open", "publish", "dequeue"}
                               /\ Using[c] \subseteq {"draw", "exit_check", "drain", "write", "gate", "release"}
    BY Names DEF Idle, Using
  <1>4. \A w \in Worker : pc[w] \in Idle[w] => fb[w] = NoBlock
    BY DEF OwnInv, EmptyHands
  <1>5. UNCHANGED <<fb, freeList, refcount, queue, frame>> /\ UNCHANGED Sleeping("pool")
    BY DEF Quiet
  <1>6. \A c \in Consumer, b \in Block : Owed(c, b)' <=> Owed(c, b)
    <2>1. "capture" \in Worker
      BY Names
    <2>2. QED
      BY <1>1, <1>2, <1>3, <1>4, <1>5, <2>1 DEF Owed
  <1>7. \A c \in Consumer, b \in Block : Holds(c, b)' <=> Holds(c, b)
    <2>1. Consumer \subseteq Worker
      BY Names
    <2>2. QED
      BY <1>1, <1>2, <1>3, <1>4, <1>5, <2>1 DEF Holds
  <1>8. Undisturbed
    BY <1>5, <1>6, <1>7, OwnersUndisturbed
  <1>9. \A w \in Worker :
          \/ pc'[w] = pc[w]
          \/ {pc[w], pc'[w]} \cap {"alloc", "store", "push"} = {}
    BY <1>2, <1>3, Names
  <1>10. UNCHANGED <<PoolPc, PoolBlk, PoolWant>>
    BY <1>5, <1>9 DEF PoolPc, PoolBlk, PoolWant
  <1>11. UNCHANGED P!vars
    BY <1>5, <1>8, <1>10 DEF P!vars, Undisturbed
  <1>12. EmptyHands'
    <2>1. "done" \notin Idle["capture"] /\ \A c \in Consumer : "done" \notin Idle[c]
      BY <1>3
    <2>2. \A w \in Worker : Idle[w] \cap Using[w] = {}
      BY Names DEF Idle, Using
    <2>3. \A w \in Worker : pc'[w] \in Idle[w] => fb'[w] = NoBlock
      BY <1>2, <1>4, <1>5, <2>1, <2>2, Names
    <2>4. pc'["capture"] = "alloc" => pc["capture"] = "alloc"
      BY <1>2, <1>3, Names
    <2>5. QED
      BY <1>5, <2>3, <2>4 DEF OwnInv, EmptyHands
  <1>13. Once'
    BY <1>8, UndisturbedOnce DEF OwnInv
  <1>14. Blank'
    <2>1. \A b \in Block : Holders'[b] = {} => frame'[b] = NoFrame
      BY <1>5, <1>8 DEF Undisturbed, OwnInv, Blank
    <2>2. ASSUME NEW b \in Block, pc'["capture"] \in {"read", "done"}, fb'["capture"] = b
          PROVE  frame'[b] = NoFrame
      <3>1. pc["capture"] \in {"read", "done"}
        BY <1>1, <1>2, <1>3, <1>4, <1>5, <2>2, Names
      <3>2. QED
        BY <1>5, <2>2, <3>1 DEF OwnInv, Blank
    <2>3. QED
      BY <2>1, <2>2 DEF Blank
  <1>15. QED
    BY <1>8, <1>11, <1>12, <1>13, <1>14

-----------------------------------------------------------------------------
(* The steps that touch the pool, and the queues *)

\* The image of a worker's move under the refinement mapping.
LEMMA PoolImage ==
  ASSUME IndInv, NEW t \in Worker, NEW l, Goto(t, l), \A w \in Worker \ {t} : fb'[w] = fb[w]
  PROVE  /\ PoolPc' = [PoolPc EXCEPT ![t] = IF l \in {"alloc", "store", "push"} THEN l ELSE "idle"]
         /\ PoolBlk' = [PoolBlk EXCEPT ![t] = IF l \in {"store", "push"} THEN fb'[t] ELSE NoBlock]
         /\ PoolWant' = [PoolWant EXCEPT ![t] =
                           IF t = "capture" /\ l \in {"alloc", "store"} THEN Consumer ELSE {}]
  <1>1. pc'[t] = l /\ \A w \in Worker \ {t} : pc'[w] = pc[w]
    BY DEF IndInv, TypeOK, Goto, Thread
  <1>2. QED
    BY <1>1 DEF PoolPc, PoolBlk, PoolWant

LEMMA SignalElsewhere ==
  ASSUME IndInv, NEW c \in Cond, c # "pool", Signal(c)
  PROVE  UNCHANGED Sleeping("pool")
  <1>1. waiting \in [Thread -> Cond \cup {"none"}]
    BY DEF IndInv, TypeOK
  <1>2. QED
    BY <1>1 DEF Signal, Sleeping

LEMMA SignalPool ==
  ASSUME IndInv, Signal("pool")
  PROVE  Pool!Signal
  <1>1. waiting \in [Thread -> Cond \cup {"none"}]
    BY DEF IndInv, TypeOK
  <1>2. CASE Sleeping("pool") = {} /\ UNCHANGED waiting
    BY <1>2 DEF Sleeping, Pool!Signal
  <1>3. ASSUME NEW t \in Sleeping("pool"), waiting' = [waiting EXCEPT ![t] = "none"]
        PROVE  Pool!Signal
    <2>1. Sleeping("pool")' = Sleeping("pool") \ {t}
      BY <1>1, <1>3 DEF Sleeping
    <2>2. QED
      BY <2>1 DEF Pool!Signal
  <1>4. QED
    BY <1>2, <1>3 DEF Signal

\* What becomes of a step in the pool, and of the invariant.
Kept == [Pool!Next]_(Pool!vars) /\ EmptyHands' /\ Once' /\ Blank'

LEMMA CallKept ==
  ASSUME OwnInv, CaptureCall
  PROVE  Kept /\ Undisturbed
  <1> DEFINE w == "capture"
  <1>1. /\ w \in Worker /\ Consumer \subseteq Worker /\ w \notin Consumer
        /\ Consumer # {}
    BY Names
  <1>2. /\ pc[w] = "gate" /\ Goto(w, "alloc") /\ pc'[w] = "alloc"
        /\ \A u \in Worker \ {w} : pc'[u] = pc[u]
        /\ UNCHANGED <<waiting, fb, freeList, refcount, queue, frame>>
    BY Names DEF CaptureCall, At, Goto, OwnInv, IndInv, TypeOK, poolVars, streamVars
  <1>3. fb[w] = NoBlock /\ NoBlock \notin Block
    BY <1>1, <1>2, ContextAssumption DEF OwnInv, EmptyHands, Idle, ContextAssumption
  <1>4. Undisturbed
    <2>1. \A c \in Consumer, b \in Block : Owed(c, b)' <=> Owed(c, b)
      BY <1>2, <1>3 DEF Owed
    <2>2. \A c \in Consumer, b \in Block : Holds(c, b)' <=> Holds(c, b)
      BY <1>1, <1>2 DEF Holds
    <2>3. QED
      BY <1>2, <2>1, <2>2, OwnersUndisturbed
  <1>5. Pool!CallAlloc(w, Consumer)
    <2>1. PoolPc[w] = "idle" /\ PoolBlk[w] = NoBlock
      BY <1>1, <1>2 DEF PoolPc, PoolBlk
    <2>2. /\ PoolPc' = [PoolPc EXCEPT ![w] = "alloc"]
          /\ PoolBlk' = [PoolBlk EXCEPT ![w] = NoBlock]
          /\ PoolWant' = [PoolWant EXCEPT ![w] = Consumer]
      BY <1>1, <1>2, PoolImage DEF OwnInv
    <2>3. PoolBlk' = PoolBlk
      BY <1>1, <2>1, <2>2 DEF PoolBlk
    <2>4. UNCHANGED <<freeList, refcount, PoolBlk, Sleeping("pool"), Holders>>
      BY <1>2, <1>4, <2>3 DEF Sleeping, Undisturbed
    <2>5. QED
      BY <1>1, <2>1, <2>2, <2>4 DEF Pool!CallAlloc
  <1>6. Pool!Next
    BY <1>1, <1>5 DEF Pool!Next
  <1>7. EmptyHands'
    BY <1>1, <1>2, <1>3 DEF EmptyHands, OwnInv
  <1>8. Blank'
    BY <1>2, <1>4 DEF Blank, OwnInv, Undisturbed
  <1>9. QED
    BY <1>4, <1>6, <1>7, <1>8, UndisturbedOnce DEF OwnInv, Kept

LEMMA WaitKept ==
  ASSUME OwnInv, AllocWait
  PROVE  Kept /\ Undisturbed
  <1>1. /\ "capture" \in Worker /\ pc["capture"] = "alloc" /\ freeList = <<>>
        /\ waiting["capture"] = "none" /\ Sleep("capture", "pool")
        /\ UNCHANGED <<pc, fb, freeList, refcount, queue, frame>>
    BY Names DEF AllocWait, At, poolVars, streamVars
  <1>2. Undisturbed
    BY <1>1, OwnersUndisturbed DEF Owed, Holds
  <1>3. Pool!AllocWait("capture")
    <2>1. waiting \in [Thread -> Cond \cup {"none"}]
      BY DEF OwnInv, IndInv, TypeOK
    <2>2. Sleeping("pool")' = Sleeping("pool") \cup {"capture"} /\ "capture" \notin Sleeping("pool")
      BY <1>1, <2>1, Names DEF Sleeping, Sleep
    <2>3. PoolPc["capture"] = "alloc" /\ UNCHANGED <<PoolPc, PoolBlk, PoolWant>>
      BY <1>1 DEF PoolPc, PoolBlk, PoolWant
    <2>4. QED
      BY <1>1, <1>2, <2>2, <2>3 DEF Pool!AllocWait, Undisturbed
  <1>4. Pool!Next
    BY <1>1, <1>3 DEF Pool!Next
  <1>5. EmptyHands' /\ Blank'
    BY <1>1, <1>2 DEF EmptyHands, Blank, OwnInv, Undisturbed
  <1>6. QED
    BY <1>2, <1>4, <1>5, UndisturbedOnce DEF OwnInv, Kept

LEMMA WakeKept ==
  ASSUME OwnInv, waiting["capture"] = "pool", SpuriousWakeup("capture")
  PROVE  Kept /\ Undisturbed
  <1>1. /\ "capture" \in Worker /\ "capture" \in Thread
        /\ waiting' = [waiting EXCEPT !["capture"] = "none"]
        /\ UNCHANGED <<pc, fb, freeList, refcount, queue, frame>>
    BY Names DEF SpuriousWakeup, poolVars, streamVars
  <1>2. Undisturbed
    BY <1>1, OwnersUndisturbed DEF Owed, Holds
  <1>3. Pool!SpuriousWakeup("capture")
    <2>1. waiting \in [Thread -> Cond \cup {"none"}]
      BY DEF OwnInv, IndInv, TypeOK
    <2>2. Sleeping("pool")' = Sleeping("pool") \ {"capture"} /\ "capture" \in Sleeping("pool")
      BY <1>1, <2>1 DEF Sleeping
    <2>3. UNCHANGED <<PoolPc, PoolBlk, PoolWant>>
      BY <1>1 DEF PoolPc, PoolBlk, PoolWant
    <2>4. QED
      BY <1>1, <1>2, <2>2, <2>3 DEF Pool!SpuriousWakeup, Undisturbed
  <1>4. Pool!Next
    BY <1>1, <1>3 DEF Pool!Next
  <1>5. EmptyHands' /\ Blank'
    BY <1>1, <1>2 DEF EmptyHands, Blank, OwnInv, Undisturbed
  <1>6. QED
    BY <1>2, <1>4, <1>5, UndisturbedOnce DEF OwnInv, Kept

LEMMA TakeKept ==
  ASSUME OwnInv, AllocTake
  PROVE  Kept /\ Undisturbed
  <1> DEFINE w == "capture"
  <1>1. /\ w \in Worker /\ w \notin Consumer
        /\ pc[w] = "alloc" /\ waiting[w] = "none" /\ Goto(w, "store")
        /\ pc'[w] = "store" /\ \A u \in Worker \ {w} : pc'[u] = pc[u]
        /\ freeList # <<>> /\ freeList' = Tail(freeList)
        /\ fb' = [fb EXCEPT ![w] = Head(freeList)]
        /\ UNCHANGED <<waiting, refcount, queue, frame>>
    BY Names DEF AllocTake, At, Goto, OwnInv, IndInv, TypeOK, streamVars
  <1>2. /\ fb[w] = NoBlock /\ NoBlock \notin Block /\ fb'[w] = Head(freeList)
        /\ \A u \in Worker \ {w} : fb'[u] = fb[u]
    BY <1>1, ContextAssumption DEF OwnInv, EmptyHands, ContextAssumption, IndInv, TypeOK
  <1>3. Undisturbed
    <2>1. \A c \in Consumer, b \in Block : Owed(c, b)' <=> Owed(c, b)
      BY <1>1, <1>2 DEF Owed
    <2>2. \A c \in Consumer, b \in Block : Holds(c, b)' <=> Holds(c, b)
      BY <1>1, <1>2, Names DEF Holds
    <2>3. QED
      BY <1>1, <2>1, <2>2, OwnersUndisturbed
  <1>4. Pool!AllocTake(w)
    <2>1. PoolPc[w] = "alloc" /\ w \notin Sleeping("pool") /\ PoolWant[w] = Consumer
      BY <1>1 DEF PoolPc, Sleeping, PoolWant
    <2>2. /\ PoolPc' = [PoolPc EXCEPT ![w] = "store"]
          /\ PoolBlk' = [PoolBlk EXCEPT ![w] = Head(freeList)]
          /\ PoolWant' = [PoolWant EXCEPT ![w] = Consumer]
      BY <1>1, <1>2, PoolImage DEF OwnInv
    <2>3. PoolWant' = PoolWant
      BY <1>1, <2>1, <2>2 DEF PoolWant
    <2>4. UNCHANGED <<refcount, PoolWant, Sleeping("pool"), Holders>>
      BY <1>1, <1>3, <2>3 DEF Sleeping, Undisturbed
    <2>5. QED
      BY <1>1, <2>1, <2>2, <2>4 DEF Pool!AllocTake
  <1>5. Pool!Next
    BY <1>1, <1>4 DEF Pool!Next
  <1>6. EmptyHands'
    BY <1>1, <1>2 DEF EmptyHands, OwnInv, Idle
  <1>7. Blank'
    BY <1>1, <1>2, <1>3 DEF Blank, OwnInv, Undisturbed
  <1>8. QED
    BY <1>3, <1>5, <1>6, <1>7, UndisturbedOnce DEF OwnInv, Kept

\* A block at "store" is nobody's; afterwards it is owed to both consumers.
LEMMA StoreKept ==
  ASSUME OwnInv, AllocStore
  PROVE  Kept /\ \A c \in Consumer, b \in Block : InHand(c, b)' <=> InHand(c, b)
  <1> DEFINE w == "capture"  b == fb[w]
  <1>1. /\ w \in Worker /\ w \notin Consumer /\ Consumer # {} /\ Consumer \subseteq Worker
        /\ pc[w] = "store" /\ Goto(w, "read")
        /\ pc'[w] = "read" /\ \A u \in Worker \ {w} : pc'[u] = pc[u]
        /\ refcount' = [refcount EXCEPT ![b] = 2]
        /\ UNCHANGED <<waiting, fb, freeList, queue, frame>>
    BY Names DEF AllocStore, At, Goto, OwnInv, IndInv, TypeOK, streamVars, Shares
  <1>2. b \in Block
    BY <1>1 DEF OwnInv, IndInv, Hands, UsesBlock
  <1>3. Holders[b] = {} /\ \A c \in Consumer : ~HasReference(c, b)
    BY <1>1, <1>2, PoolFacts
  <1>4. \A c \in Consumer, d \in Block :
          /\ ~Owed(c, d) /\ (Owed(c, d)' <=> d = b)
          /\ Holds(c, d)' <=> Holds(c, d)
    BY <1>1, Names DEF Owed, Holds
  <1>5. \A c \in Consumer, d \in Block : InHand(c, d)' <=> InHand(c, d)
    BY <1>1, <1>4 DEF InHand
  <1>6. Holders' = [Holders EXCEPT ![b] = Consumer]
    BY <1>2, <1>4, <1>5 DEF Holders, HasReference
  <1>7. Pool!AllocStore(w)
    <2>1. PoolPc[w] = "store" /\ PoolBlk[w] = b /\ PoolWant[w] = Consumer
      BY <1>1 DEF PoolPc, PoolBlk, PoolWant
    <2>2. /\ PoolPc' = [PoolPc EXCEPT ![w] = "idle"]
          /\ PoolBlk' = [PoolBlk EXCEPT ![w] = NoBlock]
          /\ PoolWant' = [PoolWant EXCEPT ![w] = {}]
      BY <1>1, PoolImage DEF OwnInv
    <2>3. Pool!InitCount(PoolWant[w]) = 2
      BY <2>1, SameCardinality, ConsumerCount DEF Pool!InitCount
    <2>4. UNCHANGED <<freeList, Sleeping("pool")>>
      BY <1>1 DEF Sleeping
    <2>5. QED
      BY <1>1, <1>6, <2>1, <2>2, <2>3, <2>4 DEF Pool!AllocStore
  <1>8. Pool!Next
    BY <1>1, <1>7 DEF Pool!Next
  <1>9. EmptyHands'
    BY <1>1 DEF EmptyHands, OwnInv, Idle
  <1>10. Once'
    <2>1. \A c \in Consumer : Elems(queue[c]) \subseteq Block
      BY DEF OwnInv, IndInv, TypeOK, Elems
    <2>2. \A c \in Consumer : ~InHand(c, b)
      BY <1>3 DEF HasReference
    <2>3. QED
      BY <1>1, <1>4, <1>5, <2>1, <2>2 DEF Once, OwnInv, Distinct, Elems
  <1>11. Blank'
    BY <1>1, <1>2, <1>3, <1>6 DEF Blank, OwnInv, Holders
  <1>12. QED
    BY <1>5, <1>8, <1>9, <1>10, <1>11 DEF Kept

\* The frame read is in a block that is owed to both and with nobody yet.
LEMMA ReadKept ==
  ASSUME OwnInv, NEW wrapped \in BOOLEAN, ReadFrame(wrapped)
  PROVE  /\ Kept /\ Undisturbed
         /\ fb["capture"] \in Block
         /\ \A c \in Consumer : Owed(c, fb["capture"]) /\ ~InHand(c, fb["capture"])
  <1> DEFINE w == "capture"  b == fb[w]
  <1>1. /\ w \in Worker /\ w \notin Consumer /\ Consumer # {} /\ "display" \in Consumer
        /\ pc[w] = "read" /\ Goto(w, "enqueue_display")
        /\ pc'[w] = "enqueue_display" /\ \A u \in Worker \ {w} : pc'[u] = pc[u]
        /\ \E f : frame' = [frame EXCEPT ![b] = f]
        /\ UNCHANGED <<waiting, fb, freeList, refcount, queue>>
    BY Names DEF ReadFrame, At, Goto, OwnInv, IndInv, TypeOK, poolVars
  <1>2. b \in Block
    BY <1>1 DEF OwnInv, IndInv, Hands, UsesBlock
  <1>3. \A c \in Consumer : Owed(c, b) /\ ~InHand(c, b)
    BY <1>1, <1>2 DEF Owed, OwnInv, Once
  <1>4. Undisturbed
    <2>1. \A c \in Consumer, d \in Block : Owed(c, d)' <=> Owed(c, d)
      BY <1>1 DEF Owed
    <2>2. \A c \in Consumer, d \in Block : Holds(c, d)' <=> Holds(c, d)
      BY <1>1, Names DEF Holds
    <2>3. QED
      BY <1>1, <2>1, <2>2, OwnersUndisturbed
  <1>5. UNCHANGED Pool!vars
    <2>1. UNCHANGED <<PoolPc, PoolBlk, PoolWant>>
      BY <1>1 DEF PoolPc, PoolBlk, PoolWant
    <2>2. QED
      BY <1>1, <1>4, <2>1 DEF Pool!vars, Sleeping, Undisturbed
  <1>6. EmptyHands'
    BY <1>1 DEF EmptyHands, OwnInv, Idle
  <1>7. Blank'
    <2>1. Holders[b] # {}
      BY <1>2, <1>3, PoolFacts, <1>1 DEF HasReference
    <2>2. QED
      BY <1>1, <1>2, <1>4, <2>1 DEF Blank, OwnInv, Undisturbed
  <1>8. QED
    BY <1>2, <1>3, <1>4, <1>5, <1>6, <1>7, UndisturbedOnce DEF OwnInv, Kept

\* What was owed is queued.
LEMMA PutKept ==
  ASSUME OwnInv, NEW c \in Consumer, Put(c)
  PROVE  /\ Kept /\ fb["capture"] \in Block
         /\ Owed(c, fb["capture"]) /\ ~InHand(c, fb["capture"])
  <1> DEFINE w == "capture"  b == fb[w]
  <1>1. /\ w \in Worker /\ w \notin Consumer /\ c \in Worker
        /\ pc[w] = EnqueueAt[c]
        /\ pc'[w] = (IF c = "display" THEN "enqueue_record" ELSE "gate")
        /\ \A u \in Worker \ {w} : pc'[u] = pc[u] /\ fb'[u] = fb[u]
        /\ fb'[w] = (IF c = "display" THEN b ELSE NoBlock)
        /\ queue' = [queue EXCEPT ![c] = Append(@, b)]
        /\ UNCHANGED <<freeList, refcount, frame>>
    BY Names DEF Put, Enqueue, At, Goto, OwnInv, IndInv, TypeOK, poolVars, EnqueueAt
  <1>2. b \in Block /\ NoBlock \notin Block
    BY <1>1, Names, ContextAssumption
       DEF OwnInv, IndInv, Hands, UsesBlock, EnqueueAt, ContextAssumption
  <1>3. Owed(c, b) /\ ~InHand(c, b)
    BY <1>1, <1>2, Names DEF Owed, EnqueueAt, OwnInv, Once
  <1>4. \A d \in Consumer, e \in Block : Owed(d, e)' <=> Owed(d, e) /\ ~(d = c /\ e = b)
    BY <1>1, <1>2, Names DEF Owed, EnqueueAt
  <1>5. \A d \in Consumer, e \in Block : Holds(d, e)' <=> Holds(d, e)
    BY <1>1, Names DEF Holds
  <1>6. /\ queue \in [Consumer -> Seq(Block)]
        /\ \A d \in Consumer : Elems(queue[d]) \subseteq Block
    BY DEF OwnInv, IndInv, TypeOK, Elems
  <1>7. /\ Elems(queue'[c]) = Elems(queue[c]) \cup {b}
        /\ Distinct(queue'[c])
        /\ \A d \in Consumer \ {c} : queue'[d] = queue[d]
    BY <1>1, <1>2, <1>3, <1>6, QueuePut DEF OwnInv, Once, InHand
  <1>8. Once'
    <2>1. ASSUME NEW d \in Consumer
          PROVE  /\ Distinct(queue'[d])
                 /\ \A e \in Block : Owed(d, e)' => ~(e \in Elems(queue'[d]) \/ Holds(d, e)')
                 /\ \A e \in Elems(queue'[d]) : ~Holds(d, e)'
      <3>1. CASE d = c
        BY <1>2, <1>3, <1>4, <1>5, <1>6, <1>7, <3>1 DEF OwnInv, Once, InHand
      <3>2. CASE d # c
        BY <1>4, <1>5, <1>6, <1>7, <3>2 DEF OwnInv, Once, InHand
      <3>3. QED
        BY <3>1, <3>2
    <2>2. QED
      BY <2>1 DEF Once, InHand, Distinct, Elems
  <1>9. UNCHANGED Holders
    <2>1. \A d \in Consumer, e \in Block : HasReference(d, e)' <=> HasReference(d, e)
      <3>1. \A d \in Consumer, e \in Block :
              e \in Elems(queue'[d]) <=> e \in Elems(queue[d]) \/ (d = c /\ e = b)
        BY <1>7
      <3>2. \A d \in Consumer, e \in Block :
              HasReference(d, e)' <=> Owed(d, e)' \/ e \in Elems(queue'[d]) \/ Holds(d, e)'
        BY DEF HasReference, InHand, Elems
      <3>3. QED
        BY <1>3, <1>4, <1>5, <3>1, <3>2 DEF HasReference, InHand
    <2>2. QED
      BY <2>1 DEF Holders
  <1>10. UNCHANGED Pool!vars
    <2>1. UNCHANGED <<PoolPc, PoolBlk, PoolWant>>
      BY <1>1, Names DEF PoolPc, PoolBlk, PoolWant, EnqueueAt
    <2>2. UNCHANGED Sleeping("pool")
      BY SignalElsewhere, CondNames, Names DEF Put, Enqueue, OwnInv
    <2>3. QED
      BY <1>1, <1>9, <2>1, <2>2 DEF Pool!vars
  <1>11. EmptyHands'
    <2>1. "enqueue_record" \notin Idle[w]
      BY DEF Idle
    <2>2. QED
      BY <1>1, <2>1 DEF EmptyHands, OwnInv
  <1>12. Blank'
    <2>1. pc'[w] \notin {"read", "done"}
      BY <1>1
    <2>2. QED
      BY <1>1, <1>9, <2>1 DEF Blank, OwnInv
  <1>13. QED
    BY <1>2, <1>3, <1>8, <1>10, <1>11, <1>12 DEF Kept

\* What was queued is held.
LEMMA GetKept ==
  ASSUME OwnInv, NEW c \in Consumer, Get(c)
  PROVE  /\ Kept /\ Head(queue[c]) \in Block
         /\ \A d \in Consumer, e \in Block : Owed(d, e)' <=> Owed(d, e)
         /\ \A d \in Consumer, e \in Block : InHand(d, e)' <=> InHand(d, e)
  <1> DEFINE b == Head(queue[c])
  <1>1. /\ "capture" \in Worker \ {c} /\ c \in Worker
        /\ pc[c] = "dequeue" /\ queue[c] # <<>>
        /\ pc'[c] = (IF c = "display" THEN "draw" ELSE "drain")
        /\ \A u \in Worker \ {c} : pc'[u] = pc[u] /\ fb'[u] = fb[u]
        /\ fb'[c] = b
        /\ queue' = [queue EXCEPT ![c] = Tail(@)]
        /\ UNCHANGED <<freeList, refcount, frame>>
    BY Names DEF Get, Dequeue, At, Goto, OwnInv, IndInv, TypeOK, poolVars, is_empty
  <1>2. NoBlock \notin Block /\ fb[c] = NoBlock
    BY <1>1, Names, ContextAssumption DEF OwnInv, EmptyHands, Idle, ContextAssumption
  <1>3. /\ queue \in [Consumer -> Seq(Block)]
        /\ \A d \in Consumer : Elems(queue[d]) \subseteq Block
        /\ Distinct(queue[c])
    BY DEF OwnInv, IndInv, TypeOK, Elems, Once
  <1>4. /\ Elems(queue'[c]) = Elems(queue[c]) \ {b}
        /\ b \in Elems(queue[c]) /\ b \in Block
        /\ Distinct(queue'[c])
        /\ \A d \in Consumer \ {c} : queue'[d] = queue[d]
    BY <1>1, <1>3, QueueGet
  <1>5. \A d \in Consumer, e \in Block : Owed(d, e)' <=> Owed(d, e)
    BY <1>1 DEF Owed
  <1>6. \A d \in Consumer, e \in Block : Holds(d, e)' <=> Holds(d, e) \/ (d = c /\ e = b)
    BY <1>1, <1>2, <1>4, Names DEF Holds
  <1>7. \A d \in Consumer, e \in Block : InHand(d, e)' <=> InHand(d, e)
    <2>1. \A d \in Consumer, e \in Block : InHand(d, e)' <=> e \in Elems(queue'[d]) \/ Holds(d, e)'
      BY DEF InHand, Elems
    <2>2. \A d \in Consumer, e \in Block :
            e \in Elems(queue'[d]) <=> e \in Elems(queue[d]) /\ ~(d = c /\ e = b)
      BY <1>4
    <2>3. QED
      BY <1>4, <1>6, <2>1, <2>2 DEF InHand
  <1>8. Once'
    <2>1. ASSUME NEW d \in Consumer
          PROVE  /\ Distinct(queue'[d])
                 /\ \A e \in Block : Owed(d, e)' => ~InHand(d, e)'
                 /\ \A e \in Elems(queue'[d]) : ~Holds(d, e)'
      <3>1. CASE d = c
        BY <1>3, <1>4, <1>5, <1>6, <1>7, <3>1 DEF OwnInv, Once
      <3>2. CASE d # c
        BY <1>3, <1>4, <1>5, <1>6, <1>7, <3>2 DEF OwnInv, Once
      <3>3. QED
        BY <3>1, <3>2
    <2>2. QED
      BY <2>1 DEF Once, InHand, Distinct, Elems
  <1>9. UNCHANGED Holders
    BY <1>5, <1>7 DEF Holders, HasReference
  <1>10. UNCHANGED Pool!vars
    <2>1. UNCHANGED <<PoolPc, PoolBlk, PoolWant>>
      BY <1>1 DEF PoolPc, PoolBlk, PoolWant
    <2>2. UNCHANGED Sleeping("pool")
      BY SignalElsewhere, CondNames, Names DEF Get, Dequeue, OwnInv
    <2>3. QED
      BY <1>1, <1>9, <2>1, <2>2 DEF Pool!vars
  <1>11. EmptyHands' /\ Blank'
    BY <1>1, <1>9, Names DEF EmptyHands, Blank, OwnInv, Idle
  <1>12. QED
    BY <1>4, <1>5, <1>7, <1>8, <1>10, <1>11 DEF Kept

\* A reference is given back; the last one clears the frame.
LEMMA SubKept ==
  ASSUME OwnInv, NEW c \in Consumer, ReleaseSub(c)
  PROVE  /\ Kept /\ fb[c] \in Block
         /\ \A d \in Consumer, e \in Block : Owed(d, e)' <=> Owed(d, e)
         /\ \A d \in Consumer, e \in Block : InHand(d, e)' <=> InHand(d, e) /\ ~(d = c /\ e = fb[c])
         /\ frame' # frame => Holders[fb[c]] = {c} /\ \E f : frame' = [frame EXCEPT ![fb[c]] = f]
  <1> DEFINE b == fb[c]
  <1>1. /\ "capture" \in Worker \ {c} /\ c \in Worker
        /\ pc[c] = "release"
        /\ \A u \in Worker \ {c} : pc'[u] = pc[u] /\ fb'[u] = fb[u]
        /\ refcount' = [refcount EXCEPT ![b] = @ - 1]
        /\ UNCHANGED <<waiting, freeList, queue>>
        /\ IF refcount[b] = 1
           THEN /\ pc'[c] = "push" /\ fb'[c] = b /\ Goto(c, "push")
                /\ frame' = [frame EXCEPT ![b] = NoFrame]
           ELSE /\ pc'[c] = "dequeue" /\ fb'[c] = NoBlock /\ Goto(c, "dequeue")
                /\ UNCHANGED frame
    BY Names DEF ReleaseSub, At, Goto, OwnInv, IndInv, TypeOK
  <1>2. b \in Block /\ NoBlock \notin Block
    BY <1>1, Names, ContextAssumption DEF OwnInv, IndInv, Hands, UsesBlock, ContextAssumption
  <1>3. Holds(c, b) /\ ~Owed(c, b) /\ b \notin Elems(queue[c])
    BY <1>1, <1>2 DEF Holds, OwnInv, Once, InHand
  <1>4. \A d \in Consumer, e \in Block : Owed(d, e)' <=> Owed(d, e)
    BY <1>1 DEF Owed
  <1>5. \A d \in Consumer, e \in Block : Holds(d, e)' <=> Holds(d, e) /\ ~(d = c /\ e = b)
    BY <1>1, <1>2, <1>3, Names DEF Holds
  <1>6. \A d \in Consumer, e \in Block : InHand(d, e)' <=> InHand(d, e) /\ ~(d = c /\ e = b)
    BY <1>1, <1>3, <1>5 DEF InHand, Elems
  <1>7. Once'
    <2>1. \A d \in Consumer : Elems(queue[d]) \subseteq Block
      BY DEF OwnInv, IndInv, TypeOK, Elems
    <2>2. QED
      BY <1>1, <1>4, <1>5, <1>6, <2>1 DEF Once, OwnInv, Distinct, Elems
  <1>8. Holders' = [Holders EXCEPT ![b] = @ \ {c}] /\ c \in Holders[b]
    BY <1>2, <1>3, <1>4, <1>6 DEF Holders, HasReference, InHand
  <1>9. refcount[b] = 1 => Holders[b] = {c}
    <2>1. SUFFICES ASSUME Cardinality(Holders[b]) = 1 PROVE Holders[b] = {c}
      BY <1>2, PoolFacts
    <2>2. IsFiniteSet(Holders[b])
      BY <1>2, PoolFacts, WorkerFinite, FS_Subset, Names
    <2>3. IsFiniteSet(Holders[b] \ {c}) /\ Cardinality(Holders[b] \ {c}) = 1 - 1
      BY <1>8, <2>1, <2>2, FS_RemoveElement
    <2>4. Holders[b] \ {c} = {}
      BY <2>3, FS_EmptySet
    <2>5. QED
      BY <1>8, <2>4
  <1>10. refcount[b] # 1 => Holders[b] # {c}
    BY <1>2, PoolFacts, FS_Singleton
  <1>11. Pool!ReleaseSub(c, b)
    <2>1. PoolPc[c] = "idle" /\ PoolBlk[c] = NoBlock /\ PoolWant[c] = {}
      BY <1>1 DEF PoolPc, PoolBlk, PoolWant
    <2>2. UNCHANGED <<freeList, Sleeping("pool")>>
      BY <1>1 DEF Sleeping
    <2>3. CASE refcount[b] = 1
      <3>1. /\ PoolPc' = [PoolPc EXCEPT ![c] = "push"]
            /\ PoolBlk' = [PoolBlk EXCEPT ![c] = b]
            /\ PoolWant' = [PoolWant EXCEPT ![c] = {}]
        BY <1>1, <2>3, PoolImage DEF OwnInv
      <3>2. PoolWant' = PoolWant
        BY <1>1, <2>1, <3>1 DEF PoolWant
      <3>3. QED
        BY <1>1, <1>8, <2>1, <2>2, <2>3, <3>1, <3>2 DEF Pool!ReleaseSub, Pool!WasLast
    <2>4. CASE refcount[b] # 1
      <3>1. /\ PoolPc' = [PoolPc EXCEPT ![c] = "idle"]
            /\ PoolBlk' = [PoolBlk EXCEPT ![c] = NoBlock]
            /\ PoolWant' = [PoolWant EXCEPT ![c] = {}]
        BY <1>1, <2>4, PoolImage DEF OwnInv
      <3>2. UNCHANGED <<PoolPc, PoolBlk, PoolWant>>
        BY <1>1, <2>1, <3>1 DEF PoolPc, PoolBlk, PoolWant
      <3>3. QED
        BY <1>1, <1>8, <2>1, <2>2, <2>4, <3>2 DEF Pool!ReleaseSub, Pool!WasLast
    <2>5. QED
      BY <2>3, <2>4
  <1>12. Pool!Next
    BY <1>1, <1>2, <1>11 DEF Pool!Next
  <1>13. EmptyHands'
    BY <1>1, Names DEF EmptyHands, OwnInv, Idle
  <1>14. Blank'
    <2>1. \A e \in Block : Holders'[e] = {} => frame'[e] = NoFrame
      <3>1. CASE refcount[b] = 1
        BY <1>1, <1>2, <1>8, <3>1 DEF OwnInv, Blank, IndInv, TypeOK, Holders
      <3>2. CASE refcount[b] # 1
        BY <1>1, <1>2, <1>8, <1>10, <3>2 DEF OwnInv, Blank, Holders
      <3>3. QED
        BY <3>1, <3>2
    <2>2. \A e \in Block :
            pc'["capture"] \in {"read", "done"} /\ fb'["capture"] = e => frame'[e] = NoFrame
      BY <1>1, <1>2 DEF OwnInv, Blank, IndInv, TypeOK
    <2>3. QED
      BY <2>1, <2>2 DEF Blank
  <1>15. QED
    BY <1>1, <1>2, <1>4, <1>6, <1>7, <1>9, <1>12, <1>13, <1>14 DEF Kept

LEMMA PushKept ==
  ASSUME OwnInv, NEW c \in Consumer, ReleasePush(c)
  PROVE  Kept /\ Undisturbed
  <1> DEFINE b == fb[c]
  <1>1. /\ "capture" \in Worker \ {c} /\ c \in Worker
        /\ pc[c] = "push" /\ pc'[c] = "dequeue" /\ Goto(c, "dequeue")
        /\ \A u \in Worker \ {c} : pc'[u] = pc[u] /\ fb'[u] = fb[u]
        /\ fb'[c] = NoBlock
        /\ freeList' = <<b>> \o freeList
        /\ UNCHANGED <<refcount, queue, frame>>
    BY Names DEF ReleasePush, At, Goto, OwnInv, IndInv, TypeOK, streamVars
  <1>2. NoBlock \notin Block
    BY ContextAssumption DEF ContextAssumption
  <1>3. Undisturbed
    <2>1. \A d \in Consumer, e \in Block : Owed(d, e)' <=> Owed(d, e)
      BY <1>1 DEF Owed
    <2>2. \A d \in Consumer, e \in Block : Holds(d, e)' <=> Holds(d, e)
      BY <1>1, <1>2, Names DEF Holds
    <2>3. QED
      BY <1>1, <2>1, <2>2, OwnersUndisturbed
  <1>4. Pool!ReleasePush(c)
    <2>1. PoolPc[c] = "push" /\ PoolBlk[c] = b /\ PoolWant[c] = {}
      BY <1>1 DEF PoolPc, PoolBlk, PoolWant
    <2>2. /\ PoolPc' = [PoolPc EXCEPT ![c] = "idle"]
          /\ PoolBlk' = [PoolBlk EXCEPT ![c] = NoBlock]
          /\ PoolWant' = [PoolWant EXCEPT ![c] = {}]
      BY <1>1, PoolImage DEF OwnInv
    <2>3. PoolWant' = PoolWant
      BY <1>1, <2>1, <2>2 DEF PoolWant
    <2>4. Pool!Signal
      BY SignalPool DEF ReleasePush, OwnInv
    <2>5. QED
      BY <1>1, <1>3, <2>1, <2>2, <2>3, <2>4 DEF Pool!ReleasePush, Undisturbed
  <1>5. Pool!Next
    BY <1>1, <1>4 DEF Pool!Next
  <1>6. EmptyHands' /\ Blank'
    BY <1>1, <1>3, Names DEF EmptyHands, Blank, OwnInv, Idle, Undisturbed
  <1>7. QED
    BY <1>3, <1>5, <1>6, UndisturbedOnce DEF OwnInv, Kept

-----------------------------------------------------------------------------
(* The program keeps the contract of the pool *)

LEMMA QuietKept == OwnInv /\ Quiet => Kept
  BY QuietOwn DEF Kept, P!vars, Pool!vars

LEMMA StepKept ==
  ASSUME OwnInv, [Next]_vars
  PROVE  Kept
  <1>1. Quiet \/ Loud
    BY Kinds DEF OwnInv
  <1>2. QED
    BY <1>1, QuietKept, CallKept, WaitKept, WakeKept, TakeKept, StoreKept, ReadKept,
       PutKept, GetKept, SubKept, PushKept DEF Loud

LEMMA OwnNext == OwnInv /\ [Next]_vars => OwnInv'
  <1> SUFFICES ASSUME OwnInv, [Next]_vars PROVE OwnInv'
    OBVIOUS
  <1>1. IndInv'
    BY NextInv DEF OwnInv
  <1>2. Kept
    BY StepKept
  <1>3. [P!Next]_(P!vars)
    BY <1>2, SameNext DEF Kept, P!vars, Pool!vars
  <1>4. P!IndInv'
    BY <1>3, PoolNextInv DEF OwnInv
  <1>5. QED
    BY <1>1, <1>2, <1>4 DEF OwnInv, Kept

LEMMA PoolInit == Init => Pool!Init /\ P!Init
  <1> SUFFICES ASSUME Init PROVE Pool!Init /\ P!Init
    OBVIOUS
  <1>1. \A w \in Worker : pc[w] = "unborn" /\ fb[w] = NoBlock
    BY Names DEF Init
  <1>2. /\ PoolPc = [w \in Worker |-> "idle"]
        /\ PoolBlk = [w \in Worker |-> NoBlock]
        /\ PoolWant = [w \in Worker |-> {}]
    BY <1>1 DEF PoolPc, PoolBlk, PoolWant
  <1>3. Sleeping("pool") = {}
    BY DEF Init, Sleeping
  <1>4. Holders = [b \in Block |-> {}]
    <2>1. NoBlock \notin Block
      BY ContextAssumption DEF ContextAssumption
    <2>2. \A c \in Consumer, b \in Block : ~HasReference(c, b)
      BY <1>1, <2>1, Names DEF HasReference, Owed, InHand, Holds, Elems, Init
    <2>3. QED
      BY <2>2 DEF Holders
  <1>5. /\ freeList \in [1..Cardinality(Block) -> Block] /\ Elems(freeList) = Block
        /\ refcount = [b \in Block |-> 0]
    BY DEF Init
  <1>6. QED
    BY <1>2, <1>3, <1>4, <1>5, SameCardinality DEF Pool!Init, P!Init, Elems, Pool!Elems, P!Elems

LEMMA OwnInit == Init => OwnInv
  <1> SUFFICES ASSUME Init PROVE OwnInv
    OBVIOUS
  <1>1. IndInv
    BY InitInv
  <1>2. P!IndInv
    BY PoolConstants, PoolInit, P!InitInv
  <1>3. \A w \in Worker : pc[w] = "unborn" /\ fb[w] = NoBlock
    BY Names DEF Init
  <1>4. EmptyHands
    BY <1>3, Names DEF EmptyHands
  <1>5. Once
    <2>1. \A c \in Consumer : queue[c] = <<>>
      BY DEF Init
    <2>2. \A c \in Consumer, b \in Block : ~Owed(c, b)
      BY <1>3, Names DEF Owed
    <2>3. QED
      BY <2>1, <2>2 DEF Once, Distinct, Elems
  <1>6. Blank
    BY <1>3, Names DEF Blank, Init
  <1>7. QED
    BY <1>1, <1>2, <1>4, <1>5, <1>6 DEF OwnInv

LEMMA Owning == Spec => []OwnInv
  BY OwnInit, OwnNext, PTL DEF Spec

\* The threads use the pool as FramePool describes it, whatever fails and
\* whatever is pressed: capture allocates with a reference for each consumer and
\* a consumer gives back, once, what it was handed (capture.c:59-101,
\* display.c:44-89, record.c:45-83).
THEOREM KeepsPoolContract == Spec => PoolContract
  <1>1. Init => Pool!Init
    BY PoolInit
  <1>2. OwnInv /\ [Next]_vars => [Pool!Next]_(Pool!vars)
    BY StepKept DEF Kept
  <1>3. QED
    BY <1>1, <1>2, Owning, PTL DEF Spec, PoolContract, Pool!Spec

-----------------------------------------------------------------------------
(* What follows from the ownership of blocks *)

LEMMA StepStable ==
  ASSUME OwnInv, [Next]_vars, NEW c \in Consumer, NEW b \in Block, InHand(c, b), InHand(c, b)'
  PROVE  frame'[b] = frame[b]
  <1>1. Quiet \/ Loud
    BY Kinds DEF OwnInv
  <1>2. CASE Quiet \/ CaptureCall \/ AllocWait \/ AllocTake \/ AllocStore \/ SpuriousWakeup("capture")
    BY <1>2 DEF Quiet, CaptureCall, AllocWait, AllocTake, AllocStore, SpuriousWakeup, streamVars
  <1>3. CASE \E d \in Consumer : Put(d) \/ Get(d) \/ ReleasePush(d)
    BY <1>3 DEF Put, Enqueue, Get, Dequeue, ReleasePush, streamVars
  <1>4. ASSUME NEW wrapped \in BOOLEAN, ReadFrame(wrapped)
        PROVE  frame'[b] = frame[b]
    <2>1. b # fb["capture"]
      BY <1>4, ReadKept
    <2>2. QED
      BY <1>4, <2>1 DEF ReadFrame, OwnInv, IndInv, TypeOK
  <1>5. ASSUME NEW d \in Consumer, ReleaseSub(d), frame' # frame
        PROVE  frame'[b] = frame[b]
    <2>1. /\ Holders[fb[d]] = {d} /\ fb[d] \in Block
          /\ \E f : frame' = [frame EXCEPT ![fb[d]] = f]
          /\ InHand(c, b)' <=> InHand(c, b) /\ ~(c = d /\ b = fb[d])
      BY <1>5, SubKept
    <2>2. c \in Holders[b]
      BY PoolFacts DEF HasReference
    <2>3. b # fb[d]
      BY <2>1, <2>2
    <2>4. QED
      BY <2>1, <2>3 DEF OwnInv, IndInv, TypeOK
  <1>6. QED
    BY <1>1, <1>2, <1>3, <1>4, <1>5 DEF Loud

\* Nobody writes to a block while a consumer has it in its queue or in use:
\* capture, display and record share the frames without a lock (capture.c:66-90,
\* display.c:52-72, record.c:59-65).
THEOREM FramesAreStable == Spec => FrameStable
  <1>1. OwnInv /\ [Next]_vars =>
          [\A c \in Consumer, b \in Block :
             InHand(c, b) /\ InHand(c, b)' => frame'[b] = frame[b]]_vars
    BY StepStable
  <1>2. QED
    BY <1>1, Owning, PTL DEF Spec, FrameStable

\* A queue that lacks a block is shorter than the pool.
LEMMA QueueShort ==
  ASSUME OwnInv, NEW c \in Consumer, NEW b \in Block, b \notin Elems(queue[c])
  PROVE  Len(queue[c]) < Cardinality(Block)
  <1> DEFINE s == queue[c]  n == Len(s)
  <1>1. s \in Seq(Block) /\ n \in Nat /\ DOMAIN s = 1..n /\ Distinct(s)
    BY DEF OwnInv, IndInv, TypeOK, Once
  <1>2. IsFiniteSet(Block) /\ Cardinality(Block) \in Nat
    BY ContextAssumption, FS_CardinalityType DEF ContextAssumption
  <1>3. IsFiniteSet(Block \ {b}) /\ Cardinality(Block \ {b}) = Cardinality(Block) - 1
    BY <1>2, FS_RemoveElement
  <1>4. s \in [1..n -> Block \ {b}]
    BY <1>1 DEF Elems
  <1>5. s \in Injection(1..n, Block \ {b})
    BY <1>1, <1>4 DEF Injection, IsInjective, Distinct
  <1>6. Cardinality(1..n) = n
    BY <1>1, FS_Interval
  <1>7. n <= Cardinality(Block) - 1
    BY <1>3, <1>5, <1>6, FS_Injection
  <1>8. QED
    BY <1>1, <1>2, <1>7

\* The pool, never a queue, makes capture wait when POOL_SIZE <= QUEUE_SIZE
\* (thread_arg.h:17-18): a queue cannot be full of blocks while capture has one.
THEOREM QueuesNeverBlockCapture == Spec => []CaptureNeverWaitsOnQueue
  <1>1. ASSUME OwnInv, Cardinality(Block) <= QueueSize,
               NEW c \in Consumer, waiting["capture"] = NotFull[c]
        PROVE  FALSE
    <2>1. "capture" \in Thread /\ "capture" \in Worker
      BY Names
    <2>2. pc["capture"] = EnqueueAt[c] /\ is_full(c)
      BY <1>1, <2>1 DEF OwnInv, IndInv, Beds, SleepersJustified, Sleeping
    <2>3. fb["capture"] \in Block
      <3>1. EnqueueAt[c] \in UsesBlock["capture"]
        BY Names DEF UsesBlock, EnqueueAt
      <3>2. QED
        BY <1>1, <2>1, <2>2, <3>1 DEF OwnInv, IndInv, Hands
    <2>4. Owed(c, fb["capture"])
      BY <2>2, Names DEF Owed, EnqueueAt
    <2>5. Len(queue[c]) < Cardinality(Block)
      BY <1>1, <2>3, <2>4, QueueShort DEF OwnInv, Once, InHand
    <2>6. QED
      BY <1>1, <2>2, <2>5, ContextAssumption, FS_CardinalityType
         DEF is_full, ContextAssumption, OwnInv, IndInv, TypeOK
  <1>2. OwnInv => CaptureNeverWaitsOnQueue
    BY <1>1 DEF CaptureNeverWaitsOnQueue
  <1>3. QED
    BY <1>2, Owning, PTL

-----------------------------------------------------------------------------
(* Sequence numbers *)

\* How many numbers after x the number y comes.
Ahead(x, y) == IF y >= x THEN y - x ELSE (y - x) + SeqMod

LEMMA NextNumber ==
  ASSUME NEW n \in Seqno
  PROVE  Next1(n) \in Seqno /\ Next1(n) = (IF n = SeqMod - 1 THEN 0 ELSE n + 1)
  <1>1. SeqMod \in Nat \ {0} /\ n \in 0 .. SeqMod - 1
    BY Modulus DEF Seqno
  <1>2. SeqMod % SeqMod = 0
    BY <1>1
  <1>3. n # SeqMod - 1 => n + 1 \in 0 .. SeqMod - 1 /\ (n + 1) % SeqMod = n + 1
    BY <1>1
  <1>4. QED
    BY <1>1, <1>2, <1>3 DEF Next1, Seqno

LEMMA AheadType ==
  ASSUME NEW x \in Seqno, NEW y \in Seqno
  PROVE  /\ Ahead(x, y) \in Seqno
         /\ Ahead(x, y) = (y - x) % SeqMod
         /\ Ahead(x, y) = 0 => x = y
  <1>1. SeqMod \in Nat \ {0} /\ x \in 0 .. SeqMod - 1 /\ y \in 0 .. SeqMod - 1
    BY Modulus DEF Seqno
  <1>2. CASE y >= x
    <2>1. y - x \in 0 .. SeqMod - 1 /\ (y - x) % SeqMod = y - x
      BY <1>1, <1>2
    <2>2. QED
      BY <1>1, <1>2, <2>1 DEF Ahead, Seqno
  <1>3. CASE ~(y >= x)
    <2>1. y - x \in Int /\ y - x < 0 /\ y - x >= -SeqMod
      BY <1>1, <1>3
    <2>2. (y - x) % SeqMod = (y - x) + SeqMod
      BY <1>1, <2>1
    <2>3. QED
      BY <1>1, <1>3, <2>2 DEF Ahead, Seqno
  <1>4. QED
    BY <1>2, <1>3

LEMMA AheadStep ==
  ASSUME NEW x \in Seqno, NEW y \in Seqno
  PROVE  /\ Ahead(x, y) + 1 < SeqMod => Ahead(x, Next1(y)) = Ahead(x, y) + 1
         /\ Ahead(x, y) > 0 => Ahead(Next1(x), y) = Ahead(x, y) - 1
  BY Modulus, NextNumber DEF Ahead, Seqno

-----------------------------------------------------------------------------
(* The order of the frames *)

\* capture has read a frame that c is still to be given.
Pending(c) ==
  \/ pc["capture"] = "enqueue_display"
  \/ pc["capture"] = "enqueue_record" /\ c = "record"

Behind(c) == Len(queue[c]) + (IF Pending(c) THEN 1 ELSE 0)

\* From the frame that c is to see next to the one capture reads next there is
\* no gap: the queue, then the frame in the hands of capture.
InOrder(c) ==
  /\ \A i \in DOMAIN queue[c] :
       /\ frame[queue[c][i]].seq \in Seqno
       /\ Ahead(taken[c], frame[queue[c][i]].seq) = i - 1
  /\ Pending(c) => /\ frame[fb["capture"]].seq \in Seqno
                   /\ Ahead(taken[c], frame[fb["capture"]].seq) = Len(queue[c])
  /\ Ahead(taken[c], seq) = Behind(c)

Order == \A c \in Consumer : InOrder(c)

StreamTypes ==
  /\ seq \in Seqno /\ taken \in [Consumer -> Seqno]
  /\ queue \in [Consumer -> Seq(Block)]
  /\ frame \in [Block -> Frame \cup {NoFrame}]
  /\ fb \in [Worker -> Block \cup {NoBlock}]

LEMMA OwnTypes == OwnInv => StreamTypes
  BY DEF OwnInv, IndInv, TypeOK, StreamTypes

\* A consumer whose queue, and the numbers of whose frames, a step leaves alone.
LEMMA InOrderKept ==
  ASSUME NEW c \in Consumer, InOrder(c), UNCHANGED seq,
         queue'[c] = queue[c], taken'[c] = taken[c], Pending(c)' <=> Pending(c),
         Pending(c) => fb'["capture"] = fb["capture"],
         Pending(c) => frame'[fb["capture"]] = frame[fb["capture"]],
         \A i \in DOMAIN queue[c] : frame'[queue[c][i]] = frame[queue[c][i]]
  PROVE  InOrder(c)'
  <1>1. Behind(c)' = Behind(c)
    BY DEF Behind
  <1>2. Ahead(taken'[c], seq') = Behind(c)'
    BY <1>1 DEF InOrder
  <1>3. ASSUME Pending(c)'
        PROVE  /\ frame'[fb'["capture"]].seq \in Seqno
               /\ Ahead(taken'[c], frame'[fb'["capture"]].seq) = Len(queue'[c])
    BY <1>3 DEF InOrder
  <1>4. ASSUME NEW i \in DOMAIN queue'[c]
        PROVE  /\ frame'[queue'[c][i]].seq \in Seqno
               /\ Ahead(taken'[c], frame'[queue'[c][i]].seq) = i - 1
    BY <1>4 DEF InOrder
  <1>5. QED
    BY <1>2, <1>3, <1>4 DEF InOrder

\* A step that only frees frames nobody waits for.
LEMMA OrderUndisturbed ==
  ASSUME OwnInv, Order, UNCHANGED <<queue, seq, taken>>,
         \A c \in Consumer : Pending(c)' <=> Pending(c),
         \A c \in Consumer : Pending(c) => fb'["capture"] = fb["capture"],
         \A c \in Consumer : \A b \in Elems(queue[c]) : frame'[b] = frame[b],
         \A c \in Consumer : Pending(c) => frame'[fb["capture"]] = frame[fb["capture"]]
  PROVE  Order'
  <1>1. SUFFICES ASSUME NEW c \in Consumer PROVE InOrder(c)'
    BY DEF Order
  <1>2. \A i \in DOMAIN queue[c] : frame'[queue[c][i]] = frame[queue[c][i]]
    BY DEF Elems
  <1>3. QED
    BY <1>2, InOrderKept DEF Order

LEMMA PendingOwed ==
  ASSUME OwnInv, NEW c \in Consumer, Pending(c)
  PROVE  fb["capture"] \in Block /\ Owed(c, fb["capture"])
  <1>1. "capture" \in Worker /\ pc["capture"] \in UsesBlock["capture"]
    BY Names DEF Pending, UsesBlock
  <1>2. QED
    BY <1>1 DEF Pending, Owed, OwnInv, IndInv, Hands

LEMMA QuietOrder ==
  ASSUME OwnInv, Order, Quiet
  PROVE  Order'
  <1>1. "capture" \in Worker
    BY Names
  <1>2. Idle["capture"] = {"unborn", "open", "publish", "gate"} /\ Using["capture"] = {"read"}
    BY DEF Idle, Using
  <1>3. \A c \in Consumer : Pending(c)' <=> Pending(c)
    BY <1>1, <1>2 DEF Quiet, Pending
  <1>4. QED
    BY <1>3, OrderUndisturbed DEF Quiet

\* capture on its way to a block, and a consumer on its way back to the pool.
LEMMA PoolOrder ==
  ASSUME OwnInv, Order,
         \/ CaptureCall \/ AllocWait \/ AllocTake \/ AllocStore \/ SpuriousWakeup("capture")
         \/ \E d \in Consumer : ReleaseSub(d) \/ ReleasePush(d)
  PROVE  Order'
  <1>1. UNCHANGED <<queue, seq, taken>>
    BY DEF CaptureCall, AllocWait, AllocTake, AllocStore, SpuriousWakeup, ReleaseSub, ReleasePush,
           streamVars
  <1>2. "capture" \in Worker /\ "capture" \in Thread /\ DOMAIN pc = Thread /\ "capture" \notin Consumer
    BY Names DEF OwnInv, IndInv, TypeOK
  <1>3. \A c \in Consumer : /\ Pending(c)' <=> Pending(c)
                            /\ Pending(c) => fb'["capture"] = fb["capture"]
    <2>1. CASE CaptureCall \/ AllocWait \/ AllocTake \/ AllocStore
      BY <1>2, <2>1 DEF CaptureCall, AllocWait, AllocTake, AllocStore, Pending, At, Goto
    <2>2. CASE SpuriousWakeup("capture")
      BY <2>2 DEF SpuriousWakeup, Pending
    <2>3. CASE \E d \in Consumer : ReleaseSub(d) \/ ReleasePush(d)
      <3>1. pc'["capture"] = pc["capture"] /\ fb'["capture"] = fb["capture"]
        BY <1>2, <2>3, OwnTypes DEF ReleaseSub, ReleasePush, Goto, StreamTypes
      <3>2. QED
        BY <3>1 DEF Pending
    <2>4. QED
      BY <2>1, <2>2, <2>3
  <1>4. ASSUME NEW c \in Consumer, NEW b \in Block, b \in Elems(queue[c]) \/ Owed(c, b)
        PROVE  frame'[b] = frame[b]
    <2>1. CASE frame' = frame
      BY <2>1
    <2>2. CASE frame' # frame
      <3>1. PICK d \in Consumer : ReleaseSub(d)
        BY <2>2 DEF CaptureCall, AllocWait, AllocTake, AllocStore, SpuriousWakeup, ReleasePush,
                    streamVars
      <3>2. /\ Holders[fb[d]] = {d} /\ fb[d] \in Block
            /\ \E f : frame' = [frame EXCEPT ![fb[d]] = f]
        BY <2>2, <3>1, SubKept
      <3>3. c \in Holders[b]
        BY <1>4, PoolFacts DEF HasReference, InHand
      <3>4. Holds(d, fb[d])
        BY <3>1 DEF ReleaseSub, At, Holds
      <3>5. b # fb[d]
        BY <1>4, <3>2, <3>3, <3>4 DEF OwnInv, Once, InHand
      <3>6. QED
        BY <3>2, <3>5, OwnTypes DEF StreamTypes
    <2>3. QED
      BY <2>1, <2>2
  <1>5. \A c \in Consumer : Elems(queue[c]) \subseteq Block
    BY OwnTypes DEF StreamTypes, Elems
  <1>6. QED
    BY <1>1, <1>3, <1>4, <1>5, PendingOwed, OrderUndisturbed

\* The frame read comes after those in the queues, and they are not too many.
LEMMA ReadOrder ==
  ASSUME OwnInv, Order, NEW wrapped \in BOOLEAN, ReadFrame(wrapped)
  PROVE  /\ Order'
         /\ \A c \in Consumer : Ahead(taken[c], seq) < Cardinality(Block)
  <1> DEFINE b == fb["capture"]
  <1>1. /\ pc["capture"] = "read" /\ pc'["capture"] = "enqueue_display" /\ b \in Block
        /\ frame' = [frame EXCEPT ![b] = [seq |-> seq, wrapped |-> wrapped]]
        /\ seq' = Next1(seq)
        /\ UNCHANGED <<fb, queue, taken>>
    BY ReadKept, Names DEF ReadFrame, At, Goto, OwnInv, IndInv, TypeOK
  <1>2. StreamTypes
    BY OwnTypes
  <1>3. \A c \in Consumer : ~Pending(c) /\ Pending(c)'
    BY <1>1, Names DEF Pending
  <1>4. \A c \in Consumer : b \notin Elems(queue[c])
    BY ReadKept DEF InHand
  <1>5. \A c \in Consumer : Len(queue[c]) \in Nat /\ Len(queue[c]) < Cardinality(Block)
    BY <1>1, <1>2, <1>4, QueueShort DEF StreamTypes
  <1>6. \A c \in Consumer : Ahead(taken[c], seq) = Len(queue[c])
    BY <1>1, <1>5 DEF Order, InOrder, Behind, Pending
  <1>7. ASSUME NEW c \in Consumer
        PROVE  InOrder(c)'
    <2>1. /\ taken[c] \in Seqno /\ seq \in Seqno /\ queue[c] \in Seq(Block)
          /\ frame \in [Block -> Frame \cup {NoFrame}]
      BY <1>2 DEF StreamTypes
    <2>2. Ahead(taken[c], Next1(seq)) = Len(queue[c]) + 1
      <3>1. Len(queue[c]) \in Nat /\ Len(queue[c]) + 1 < SeqMod
        BY <1>5, Modulus, ContextAssumption, FS_CardinalityType DEF ContextAssumption
      <3>2. QED
        BY <1>6, <2>1, <3>1, AheadStep
    <2>3. frame'[b].seq = seq
      BY <1>1, <2>1
    <2>4. ASSUME NEW i \in DOMAIN queue[c]
          PROVE  /\ frame'[queue[c][i]].seq \in Seqno
                 /\ Ahead(taken[c], frame'[queue[c][i]].seq) = i - 1
      <3>1. queue[c][i] # b /\ queue[c][i] \in Block
        BY <1>4, <2>1, <2>4 DEF Elems
      <3>2. frame'[queue[c][i]] = frame[queue[c][i]]
        BY <1>1, <2>1, <3>1
      <3>3. QED
        BY <2>4, <3>2 DEF Order, InOrder
    <2>5. QED
      BY <1>1, <1>3, <1>6, <2>1, <2>2, <2>3, <2>4 DEF InOrder, Behind
  <1>8. QED
    BY <1>5, <1>6, <1>7 DEF Order

\* What was pending is the last of the queue.
LEMMA PutOrder ==
  ASSUME OwnInv, Order, NEW c \in Consumer, Put(c)
  PROVE  Order'
  <1> DEFINE b == fb["capture"]
  <1>1. /\ pc["capture"] = EnqueueAt[c]
        /\ pc'["capture"] = (IF c = "display" THEN "enqueue_record" ELSE "gate")
        /\ c = "display" => fb'["capture"] = b
        /\ queue' = [queue EXCEPT ![c] = Append(@, b)]
        /\ UNCHANGED <<frame, seq, taken>>
    BY Names DEF Put, Enqueue, At, Goto, OwnInv, IndInv, TypeOK, EnqueueAt
  <1>2. StreamTypes /\ b \in Block
    BY OwnTypes, PutKept
  <1>3. Pending(c) /\ ~Pending(c)'
    BY <1>1, Names DEF Pending, EnqueueAt
  <1>4. \A d \in Consumer \ {c} : /\ Pending(d)' <=> Pending(d)
                                 /\ Pending(d) => fb'["capture"] = b
                                 /\ queue'[d] = queue[d]
    BY <1>1, <1>2, Names DEF Pending, EnqueueAt, StreamTypes
  <1>5. \A d \in Consumer \ {c} : InOrder(d)'
    <2>1. ASSUME NEW d \in Consumer \ {c}
          PROVE  InOrder(d)'
      <3>1. /\ Pending(d)' = Pending(d) /\ queue'[d] = queue[d]
            /\ Pending(d) => fb'["capture"] = b
        BY <1>1, <1>4, <2>1, Names DEF Pending, EnqueueAt
      <3>2. Behind(d)' = Behind(d)
        BY <1>1, <3>1 DEF Behind, Pending
      <3>3. QED
        BY <1>1, <2>1, <3>1, <3>2 DEF Order, InOrder, Pending
    <2>2. QED
      BY <2>1
  <1>6. InOrder(c)'
    <2> DEFINE s == queue[c]
    <2>1. s \in Seq(Block) /\ queue'[c] = Append(s, b)
      BY <1>1, <1>2 DEF StreamTypes
    <2>2. /\ Len(s) \in Nat /\ DOMAIN s = 1..Len(s)
          /\ Len(queue'[c]) = Len(s) + 1 /\ DOMAIN queue'[c] = 1..(Len(s) + 1)
          /\ queue'[c][Len(s) + 1] = b
          /\ \A i \in 1..Len(s) : queue'[c][i] = s[i]
      BY <1>2, <2>1, AppendProperties
    <2>3. InOrder(c)
      BY DEF Order
    <2>4. ASSUME NEW i \in DOMAIN queue'[c]
          PROVE  /\ frame'[queue'[c][i]].seq \in Seqno
                 /\ Ahead(taken'[c], frame'[queue'[c][i]].seq) = i - 1
      <3>1. CASE i = Len(s) + 1
        BY <1>1, <1>3, <2>2, <2>3, <3>1 DEF InOrder
      <3>2. CASE i \in 1..Len(s)
        BY <1>1, <2>2, <2>3, <3>2 DEF InOrder
      <3>3. QED
        BY <2>2, <2>4, <3>1, <3>2
    <2>5. Behind(c)' = Behind(c)
      BY <1>3, <2>2 DEF Behind
    <2>6. QED
      BY <1>1, <1>3, <2>3, <2>4, <2>5 DEF InOrder
  <1>7. QED
    BY <1>5, <1>6 DEF Order

\* The first of the queue is the frame its consumer is to see next.
LEMMA GetOrder ==
  ASSUME OwnInv, Order, NEW c \in Consumer, Get(c)
  PROVE  /\ Order'
         /\ Ahead(taken[c], seq) > 0
         /\ taken' = [taken EXCEPT ![c] = Next1(@)] /\ UNCHANGED seq
  <1> DEFINE s == queue[c]  b == Head(queue[c])
  <1>1. /\ s # <<>> /\ UNCHANGED <<frame, seq>>
        /\ pc'["capture"] = pc["capture"] /\ fb'["capture"] = fb["capture"]
        /\ queue' = [queue EXCEPT ![c] = Tail(@)]
        /\ taken' = [taken EXCEPT ![c] = Next1(frame[b].seq)]
    BY Names DEF Get, Dequeue, At, Goto, OwnInv, IndInv, TypeOK, is_empty
  <1>2. StreamTypes /\ InOrder(c)
    BY OwnTypes DEF Order
  <1>3. \A d \in Consumer : Pending(d)' <=> Pending(d)
    BY <1>1 DEF Pending
  <1>4. \A d \in Consumer \ {c} : InOrder(d)'
    <2>1. \A d \in Consumer \ {c} : queue'[d] = queue[d] /\ taken'[d] = taken[d]
      BY <1>1, <1>2 DEF StreamTypes
    <2>2. QED
      BY <1>1, <1>3, <2>1, InOrderKept DEF Order
  <1>5. /\ s \in Seq(Block) /\ Len(s) \in Nat \ {0} /\ DOMAIN s = 1..Len(s)
        /\ b = s[1] /\ queue'[c] = Tail(s)
        /\ Len(Tail(s)) = Len(s) - 1 /\ DOMAIN Tail(s) = 1..(Len(s) - 1)
        /\ \A i \in 1..(Len(s) - 1) : Tail(s)[i] = s[i + 1]
    <2>1. s \in Seq(Block) /\ queue'[c] = Tail(s)
      BY <1>1, <1>2 DEF StreamTypes
    <2>2. QED
      BY <1>1, <2>1, HeadTailProperties, EmptySeq
  <1>6. taken[c] \in Seqno /\ seq \in Seqno
    BY <1>2 DEF StreamTypes
  <1>7. frame[b].seq = taken[c] /\ taken'[c] = Next1(taken[c])
    <2>1. 1 \in DOMAIN s
      BY <1>5
    <2>2. frame[b].seq \in Seqno /\ Ahead(taken[c], frame[b].seq) = 0
      BY <1>2, <1>5, <2>1 DEF InOrder
    <2>3. frame[b].seq = taken[c]
      BY <1>6, <2>2, AheadType
    <2>4. QED
      BY <1>1, <1>2, <2>3 DEF StreamTypes
  <1>8. Ahead(taken[c], seq) = Behind(c) /\ Behind(c) > 0 /\ Behind(c)' = Behind(c) - 1
    <2> DEFINE k == IF Pending(c) THEN 1 ELSE 0
    <2>1. k \in {0, 1}
      OBVIOUS
    <2>2. Ahead(taken[c], seq) = Behind(c) /\ Behind(c) = Len(s) + k
      BY <1>2 DEF InOrder, Behind
    <2>3. Behind(c)' = Len(Tail(s)) + k
      BY <1>1, <1>5 DEF Behind, Pending
    <2> HIDE DEF k
    <2>4. QED
      BY <1>5, <2>1, <2>2, <2>3
  <1>9. \A n \in Seqno : Ahead(taken[c], n) > 0 => Ahead(taken'[c], n) = Ahead(taken[c], n) - 1
    BY <1>6, <1>7, AheadStep
  <1>10. InOrder(c)'
    <2>1. ASSUME NEW i \in DOMAIN queue'[c]
          PROVE  /\ frame'[queue'[c][i]].seq \in Seqno
                 /\ Ahead(taken'[c], frame'[queue'[c][i]].seq) = i - 1
      <3>1. i \in 1..(Len(s) - 1) /\ i + 1 \in DOMAIN s /\ queue'[c][i] = s[i + 1]
        BY <1>5, <2>1
      <3>2. frame[s[i + 1]].seq \in Seqno /\ Ahead(taken[c], frame[s[i + 1]].seq) = i
        BY <1>2, <3>1 DEF InOrder
      <3>3. QED
        BY <1>1, <1>9, <3>1, <3>2
    <2>2. ASSUME Pending(c)'
          PROVE  /\ frame'[fb'["capture"]].seq \in Seqno
                 /\ Ahead(taken'[c], frame'[fb'["capture"]].seq) = Len(queue'[c])
      <3>1. /\ frame[fb["capture"]].seq \in Seqno
            /\ Ahead(taken[c], frame[fb["capture"]].seq) = Len(s)
        BY <1>1, <1>2, <2>2 DEF InOrder, Pending
      <3>2. Len(s) > 0 /\ Len(queue'[c]) = Len(s) - 1
        BY <1>5
      <3>3. QED
        BY <1>1, <1>9, <3>1, <3>2
    <2>3. Ahead(taken'[c], seq') = Behind(c)'
      BY <1>1, <1>6, <1>8, <1>9
    <2>4. QED
      BY <2>1, <2>2, <2>3 DEF InOrder
  <1>11. QED
    BY <1>1, <1>2, <1>4, <1>7, <1>8, <1>10 DEF Order, StreamTypes

LEMMA StepOrder ==
  ASSUME OwnInv, Order, [Next]_vars
  PROVE  Order'
  <1>1. Quiet \/ Loud
    BY Kinds DEF OwnInv
  <1>2. QED
    BY <1>1, QuietOrder, PoolOrder, ReadOrder, PutOrder, GetOrder DEF Loud

LEMMA OrderInit == Init => Order
  <1> SUFFICES ASSUME Init, NEW c \in Consumer PROVE InOrder(c)
    BY DEF Order
  <1>1. queue[c] = <<>> /\ taken[c] = 0 /\ seq = 0 /\ pc["capture"] = "unborn"
    BY Names DEF Init
  <1>2. Ahead(0, 0) = 0
    BY DEF Ahead
  <1>3. QED
    BY <1>1, <1>2 DEF InOrder, Behind, Pending

LEMMA Ordered == Spec => [](OwnInv /\ Order)
  BY OwnInit, OwnNext, OrderInit, StepOrder, PTL DEF Spec

-----------------------------------------------------------------------------
(* The program is a FrameStream *)

LEMMA LagIsAhead ==
  ASSUME OwnInv, NEW c \in Consumer
  PROVE  Stream!Lag(c) = Ahead(taken[c], seq)
  BY OwnTypes, AheadType DEF StreamTypes, Stream!Lag

LEMMA QuietStream ==
  ASSUME UNCHANGED <<seq, taken>>
  PROVE  [Stream!Next]_(Stream!vars)
  BY DEF Stream!vars

LEMMA StepStream ==
  ASSUME OwnInv, Order, [Next]_vars
  PROVE  [Stream!Next]_(Stream!vars)
  <1>1. Quiet \/ Loud
    BY Kinds DEF OwnInv
  <1>2. CASE Quiet \/ CaptureCall \/ AllocWait \/ AllocTake \/ AllocStore \/ SpuriousWakeup("capture")
    BY <1>2, QuietStream
       DEF Quiet, CaptureCall, AllocWait, AllocTake, AllocStore, SpuriousWakeup, streamVars
  <1>3. CASE \E c \in Consumer : Put(c) \/ ReleaseSub(c) \/ ReleasePush(c)
    BY <1>3, QuietStream DEF Put, Enqueue, ReleaseSub, ReleasePush, streamVars
  <1>4. ASSUME NEW wrapped \in BOOLEAN, ReadFrame(wrapped)
        PROVE  Stream!Next
    <2>1. \A c \in Consumer : Stream!Lag(c) < Cardinality(Block)
      BY <1>4, ReadOrder, LagIsAhead
    <2>2. seq' = (seq + 1) % SeqMod /\ UNCHANGED taken
      BY <1>4 DEF ReadFrame, Next1
    <2>3. QED
      BY <2>1, <2>2 DEF Stream!Next, Stream!Produce
  <1>5. ASSUME NEW c \in Consumer, Get(c)
        PROVE  Stream!Next
    <2>1. Stream!Lag(c) > 0
      BY <1>5, GetOrder, LagIsAhead
    <2>2. taken' = [taken EXCEPT ![c] = (@ + 1) % SeqMod] /\ UNCHANGED seq
      BY <1>5, GetOrder DEF Next1
    <2>3. QED
      BY <2>1, <2>2 DEF Stream!Next, Stream!Take
  <1>6. QED
    BY <1>1, <1>2, <1>3, <1>4, <1>5 DEF Loud

\* Each consumer is handed every frame capture has read once and in the order
\* of capture, and none falls behind by more than the blocks of the pool: a
\* block goes to both queues, one after the other, and comes back to the pool
\* before it carries another frame (capture.c:81-101, display.c:40-52,
\* record.c:41-45).
THEOREM DeliversInOrder == Spec => StreamContract
  <1>1. Init => Stream!Init
    BY DEF Init, Stream!Init
  <1>2. OwnInv /\ Order /\ [Next]_vars => [Stream!Next]_(Stream!vars)
    BY StepStream
  <1>3. QED
    BY <1>1, <1>2, Ordered, PTL DEF Spec, StreamContract, Stream!Spec

-----------------------------------------------------------------------------
(* Rewinding the output *)

LEMMA BlockCount ==
  ASSUME NEW S \in SUBSET Block, NEW T \in SUBSET Block
  PROVE  /\ Cardinality(S) \in Nat /\ Cardinality(T) \in Nat
         /\ S \subseteq T => Cardinality(S) <= Cardinality(T)
         /\ \A b \in Block :
              /\ S \ {b} \subseteq T => Cardinality(S) - 1 <= Cardinality(T)
              /\ b \notin S /\ S \cup {b} \subseteq T => Cardinality(S) + 1 <= Cardinality(T)
  <1>1. IsFiniteSet(S) /\ IsFiniteSet(T)
    BY FS_Subset, ContextAssumption DEF ContextAssumption
  <1>2. Cardinality(S) \in Nat /\ Cardinality(T) \in Nat
    BY <1>1, FS_CardinalityType
  <1>3. S \subseteq T => Cardinality(S) <= Cardinality(T)
    BY <1>1, FS_Subset
  <1>4. ASSUME NEW b \in Block, S \ {b} \subseteq T
        PROVE  Cardinality(S) - 1 <= Cardinality(T)
    <2>1. Cardinality(S \ {b}) <= Cardinality(T)
      BY <1>1, <1>4, FS_Subset
    <2>2. Cardinality(S \ {b}) = IF b \in S THEN Cardinality(S) - 1 ELSE Cardinality(S)
      BY <1>1, FS_RemoveElement
    <2>3. QED
      BY <1>2, <2>1, <2>2
  <1>5. ASSUME NEW b \in Block, b \notin S, S \cup {b} \subseteq T
        PROVE  Cardinality(S) + 1 <= Cardinality(T)
    <2>1. Cardinality(S \cup {b}) <= Cardinality(T)
      BY <1>1, <1>5, FS_Subset
    <2>2. Cardinality(S \cup {b}) = Cardinality(S) + 1
      BY <1>1, <1>5, FS_AddElement
    <2>3. QED
      BY <2>1, <2>2
  <1>6. QED
    BY <1>2, <1>3, <1>4, <1>5

\* record has yet to come to the end of its rewinding for the frame in b.
BeforeWrite(b) ==
  \/ Owed("record", b)
  \/ b \in Elems(queue["record"])
  \/ fb["record"] = b /\ pc["record"] = "drain"

LEMMA Undrained ==
  /\ UndrainedWraps = {b \in Block : frame[b].wrapped /\ BeforeWrite(b)}
  /\ UndrainedWraps' = {b \in Block : frame'[b].wrapped /\ BeforeWrite(b)'}
  BY DEF UndrainedWraps, BeforeWrite

\* Only reading adds a token, and record leaves its loop only there.
CaptureTokens == \E wrapped \in BOOLEAN : ReadFrame(wrapped)
SameTokens == UNCHANGED wrapSem /\ (pc["record"] = "drain" => pc'["record"] = "drain")

LEMMA DrainSteps ==
  ASSUME IndInv, [Next]_vars
  PROVE  DrainWrap \/ DrainEnd \/ CaptureTokens \/ SameTokens
  <1>1. DOMAIN pc = Thread /\ {"main", "ui", "capture", "display", "record"} = Thread
    BY Names DEF IndInv, TypeOK
  <1>2. CASE MainStep
    <2>1. UNCHANGED wrapSem
      BY <1>2 DEF MainStep, Start, Join, DestroyQueue, streamVars
    <2>2. CASE Start("start_record", "record", "open", "start_display")
      BY <1>1, <2>1, <2>2, Names DEF Start, Goto, At, IndInv, Births, SameTokens
    <2>3. CASE ~Start("start_record", "record", "open", "start_display")
      <3>1. pc'["record"] = pc["record"]
        BY <1>1, <1>2, <2>3 DEF MainStep, Start, Join, DestroyQueue, Goto
      <3>2. QED
        BY <2>1, <3>1 DEF SameTokens
    <2>4. QED
      BY <2>2, <2>3
  <1>3. CASE CaptureStep \/ CaptureFreed
    <2>1. CASE CaptureTokens
      BY <2>1
    <2>2. CASE ~CaptureTokens
      <3>1. UNCHANGED wrapSem
        BY <1>3, <2>2 DEF CaptureStep, CaptureFreed, CaptureTokens, CaptureOpen, PublishCaptureFd,
           PublishFd, CaptureGate, GateSleep, GatePass, GateExit, AllocWait, AllocTake, AllocStore,
           ReadFail, EnqueueDisplay, EnqueueRecord, EnqueueWait, Enqueue, PublishFreed, GateFreed,
           streamVars
      <3>2. pc'["record"] = pc["record"]
        BY <1>1, <1>3, <2>2 DEF CaptureStep, CaptureFreed, CaptureTokens, CaptureOpen, PublishCaptureFd,
           PublishFd, CaptureGate, GateSleep, GatePass, GateExit, AllocWait, AllocTake, AllocStore,
           ReadFail, EnqueueDisplay, EnqueueRecord, EnqueueWait, Enqueue, PublishFreed, GateFreed,
           Goto
      <3>3. QED
        BY <3>1, <3>2 DEF SameTokens
    <2>3. QED
      BY <2>1, <2>2
  <1>4. CASE DisplayStep \/ DisplayFreed
    <2>1. UNCHANGED wrapSem
      BY <1>4 DEF DisplayStep, DisplayFreed, DisplayInit, TakeToDraw, DrawFrame, DrawFail, ExitCheck,
         DisplayGate, DisplayGatePass, DisplayRelease, GateSleep, DequeueWait, Dequeue, ReleaseSub,
         ReleasePush, streamVars
    <2>2. pc'["record"] = pc["record"]
      BY <1>1, <1>4 DEF DisplayStep, DisplayFreed, DisplayInit, TakeToDraw, DrawFrame, DrawFail,
         ExitCheck, DisplayGate, DisplayGatePass, DisplayRelease, GateSleep, DequeueWait, Dequeue,
         ReleaseSub, ReleasePush, Goto
    <2>3. QED
      BY <2>1, <2>2 DEF SameTokens
  <1>5. CASE RecordStep \/ RecordFreed
    <2>1. CASE DrainWrap \/ DrainEnd
      BY <2>1
    <2>2. CASE ~(DrainWrap \/ DrainEnd)
      <3>1. UNCHANGED wrapSem
        BY <1>5, <2>2 DEF RecordStep, RecordFreed, RecordOpen, PublishRecordFd, PublishFd, TakeToWrite,
           WriteFrame, WriteFail, RecordGate, GatePass, GateExit, GateSleep, RecordRelease, DequeueWait,
           Dequeue, ReleaseSub, ReleasePush, PublishFreed, GateFreed, streamVars
      <3>2. pc["record"] # "drain" \/ UNCHANGED pc
        BY <1>5, <2>2 DEF RecordStep, RecordFreed, RecordOpen, PublishRecordFd, PublishFd, TakeToWrite,
           WriteFrame, WriteFail, RecordGate, GatePass, GateExit, GateSleep, RecordRelease, DequeueWait,
           Dequeue, ReleaseSub, ReleasePush, PublishFreed, GateFreed, At
      <3>3. QED
        BY <3>1, <3>2 DEF SameTokens
    <2>3. QED
      BY <2>1, <2>2
  <1>6. CASE UiStep \/ UserStep
    BY <1>1, <1>6 DEF UiStep, UserStep, FinishRestart, Cleanup, PressStart, PressStop,
       PressRestart, PressQuit, Resume, threadVars, streamVars, Goto, SameTokens
  <1>7. CASE (\E t \in Thread : SpuriousWakeup(t)) \/ UNCHANGED vars
    BY <1>7 DEF SpuriousWakeup, vars, threadVars, streamVars, SameTokens
  <1>8. QED
    BY <1>2, <1>3, <1>4, <1>5, <1>6, <1>7 DEF Next, ThreadStep, FreedStep

\* record has a reference to every frame before it writes it.
LEMMA BeforeWriteOwns ==
  ASSUME OwnInv, NEW b \in Block, BeforeWrite(b)
  PROVE  "record" \in Holders[b]
  <1>1. "record" \in Consumer
    BY Names
  <1>2. HasReference("record", b)
    BY DEF BeforeWrite, HasReference, InHand, Holds
  <1>3. QED
    BY <1>1, <1>2, PoolFacts

LEMMA WrapsStayStill ==
  ASSUME OwnInv, Undisturbed, UNCHANGED frame,
         pc["record"] = "drain" => pc'["record"] = "drain" /\ fb'["record"] = fb["record"]
  PROVE  UndrainedWraps \subseteq UndrainedWraps'
  <1>1. \A b \in Block : Owed("record", b)' <=> Owed("record", b)
    BY Names DEF Undisturbed
  <1>2. \A b \in Block : BeforeWrite(b) => BeforeWrite(b)'
    BY <1>1 DEF BeforeWrite, Undisturbed, Elems
  <1>3. QED
    BY <1>2, Undrained

LEMMA WrapsStay ==
  ASSUME OwnInv, Quiet \/ Loud, ~CaptureTokens, SameTokens
  PROVE  UndrainedWraps \subseteq UndrainedWraps'
  <1>1. "record" \in Consumer /\ "record" \in Worker /\ "record" # "capture"
    BY Names
  <1>2. /\ queue \in [Consumer -> Seq(Block)] /\ frame \in [Block -> Frame \cup {NoFrame}]
        /\ fb \in [Worker -> Block \cup {NoBlock}]
    BY OwnTypes DEF StreamTypes
  <1>3. CASE Quiet
    BY <1>3, QuietOwn, WrapsStayStill DEF Quiet, SameTokens
  <1>4. CASE CaptureCall \/ AllocWait \/ AllocTake
             \/ (waiting["capture"] = "pool" /\ SpuriousWakeup("capture"))
    <2>1. UNCHANGED frame /\ fb'["record"] = fb["record"]
      BY <1>1, <1>2, <1>4 DEF CaptureCall, AllocWait, AllocTake, SpuriousWakeup, streamVars
    <2>2. Undisturbed
      BY <1>4, CallKept, WaitKept, TakeKept, WakeKept
    <2>3. QED
      BY <2>1, <2>2, WrapsStayStill DEF SameTokens
  <1>5. CASE AllocStore
    <2>1. UNCHANGED <<fb, frame, queue>> /\ pc["capture"] = "store"
      BY <1>5 DEF AllocStore, At, streamVars
    <2>2. \A b \in Block : BeforeWrite(b) => BeforeWrite(b)'
      BY <2>1 DEF BeforeWrite, Owed, SameTokens, Elems
    <2>3. QED
      BY <2>1, <2>2, Undrained
  <1>6. ASSUME NEW c \in Consumer, Put(c)
        PROVE  UndrainedWraps \subseteq UndrainedWraps'
    <2> DEFINE b == fb["capture"]
    <2>1. /\ pc["capture"] = EnqueueAt[c] /\ queue' = [queue EXCEPT ![c] = Append(@, b)]
          /\ c = "display" => pc'["capture"] = "enqueue_record" /\ UNCHANGED fb
          /\ c = "record" => fb' = [fb EXCEPT !["capture"] = NoBlock]
          /\ UNCHANGED frame
      BY <1>6, Names DEF Put, Enqueue, At, Goto, OwnInv, IndInv, TypeOK
    <2>2. b \in Block
      BY <1>6, PutKept
    <2>3. fb'["record"] = fb["record"]
      BY <1>1, <1>2, <1>6, <2>1, Names
    <2>4. /\ Elems(queue["record"]) \subseteq Elems(queue'["record"])
          /\ c = "record" => b \in Elems(queue'["record"])
      BY <1>1, <1>2, <2>1, <2>2, QueuePut
    <2>5. ASSUME NEW e \in Block, BeforeWrite(e)
          PROVE  BeforeWrite(e)'
      <3>1. CASE Owed("record", e)
        <4>1. CASE c = "display"
          BY <2>1, <3>1, <4>1 DEF Owed, BeforeWrite
        <4>2. CASE c = "record"
          BY <2>4, <3>1, <4>2 DEF Owed, BeforeWrite, Elems
        <4>3. QED
          BY <4>1, <4>2, Names
      <3>2. CASE e \in Elems(queue["record"])
        BY <2>4, <3>2 DEF BeforeWrite, Elems
      <3>3. CASE fb["record"] = e /\ pc["record"] = "drain"
        BY <2>3, <3>3 DEF BeforeWrite, SameTokens
      <3>4. QED
        BY <2>5, <3>1, <3>2, <3>3 DEF BeforeWrite
    <2>6. QED
      BY <2>1, <2>5, Undrained
  <1>7. ASSUME NEW c \in Consumer, Get(c)
        PROVE  UndrainedWraps \subseteq UndrainedWraps'
    <2> DEFINE b == Head(queue[c])
    <2>1. /\ pc[c] = "dequeue" /\ queue[c] # <<>> /\ UNCHANGED frame
          /\ queue' = [queue EXCEPT ![c] = Tail(@)]
          /\ fb' = [fb EXCEPT ![c] = b]
          /\ c = "record" => pc'["record"] = "drain"
      BY <1>7, Names DEF Get, Dequeue, At, Goto, OwnInv, IndInv, TypeOK, is_empty
    <2>2. \A e \in Elems(queue["record"]) :
            e \in Elems(queue'["record"]) \/ (c = "record" /\ e = b)
      BY <1>1, <1>2, <2>1, QueueGet DEF OwnInv, Once
    <2>3. ASSUME NEW e \in Block, BeforeWrite(e)
          PROVE  BeforeWrite(e)'
      <3>1. CASE Owed("record", e)
        BY <1>1, <1>7, <3>1, GetKept DEF BeforeWrite
      <3>2. CASE e \in Elems(queue["record"])
        BY <1>1, <1>2, <2>1, <2>2, <3>2 DEF BeforeWrite, Elems
      <3>3. CASE fb["record"] = e /\ pc["record"] = "drain"
        BY <1>1, <1>2, <2>1, <3>3 DEF BeforeWrite, SameTokens
      <3>4. QED
        BY <2>3, <3>1, <3>2, <3>3 DEF BeforeWrite
    <2>4. QED
      BY <2>1, <2>3, Undrained
  <1>8. ASSUME NEW c \in Consumer, ReleaseSub(c)
        PROVE  UndrainedWraps \subseteq UndrainedWraps'
    <2>1. /\ pc[c] = "release" /\ UNCHANGED queue
          /\ \A u \in Worker \ {c} : fb'[u] = fb[u]
      BY <1>2, <1>8 DEF ReleaseSub, At
    <2>2. ASSUME NEW e \in Block, BeforeWrite(e)
          PROVE  BeforeWrite(e)'
      <3>1. CASE Owed("record", e)
        BY <1>1, <1>8, <3>1, SubKept DEF BeforeWrite
      <3>2. CASE e \in Elems(queue["record"])
        BY <2>1, <3>2 DEF BeforeWrite, Elems
      <3>3. CASE fb["record"] = e /\ pc["record"] = "drain"
        BY <1>1, <2>1, <3>3 DEF BeforeWrite, SameTokens
      <3>4. QED
        BY <2>2, <3>1, <3>2, <3>3 DEF BeforeWrite
    <2>3. ASSUME NEW e \in Block, BeforeWrite(e), frame' # frame
          PROVE  frame'[e] = frame[e]
      <3>1. /\ Holders[fb[c]] = {c} /\ fb[c] \in Block
            /\ \E f : frame' = [frame EXCEPT ![fb[c]] = f]
        BY <1>8, <2>3, SubKept
      <3>2. CASE e = fb[c]
        <4>1. c = "record"
          BY <2>3, <3>1, <3>2, BeforeWriteOwns
        <4>2. Holds("record", e)
          BY <2>1, <3>2, <4>1 DEF Holds
        <4>3. ~Owed("record", e) /\ e \notin Elems(queue["record"])
          BY <1>1, <4>2 DEF OwnInv, Once, InHand
        <4>4. QED
          BY <2>1, <2>3, <4>1, <4>3 DEF BeforeWrite
      <3>3. CASE e # fb[c]
        BY <1>2, <3>1, <3>3
      <3>4. QED
        BY <3>2, <3>3
    <2>4. QED
      BY <2>2, <2>3, Undrained
  <1>9. ASSUME NEW c \in Consumer, ReleasePush(c)
        PROVE  UndrainedWraps \subseteq UndrainedWraps'
    <2>1. UNCHANGED frame /\ (pc["record"] = "drain" => fb'["record"] = fb["record"])
      BY <1>1, <1>2, <1>9 DEF ReleasePush, At, streamVars
    <2>2. QED
      BY <1>9, <2>1, PushKept, WrapsStayStill DEF SameTokens
  <1>10. QED
    BY <1>3, <1>4, <1>5, <1>6, <1>7, <1>8, <1>9 DEF Loud, CaptureTokens

LEMMA WrapsAreBlocks == UndrainedWraps \in SUBSET Block /\ UndrainedWraps' \in SUBSET Block
  BY Undrained

LEMMA StepRewind ==
  ASSUME OwnInv, RewindNotLate, [Next]_vars
  PROVE  RewindNotLate'
  <1> DEFINE U == UndrainedWraps  V == UndrainedWraps'
  <1>1. wrapSem \in Nat /\ wrapSem <= Cardinality(U)
    BY DEF RewindNotLate, OwnInv, IndInv, TypeOK
  <1>2. SUFFICES wrapSem' <= Cardinality(V)
    BY DEF RewindNotLate
  <1>3. Quiet \/ Loud
    BY Kinds DEF OwnInv
  <1>4. StreamTypes
    BY OwnTypes
  <1>5. CASE DrainEnd
    <2>1. wrapSem' = 0
      BY <1>5 DEF DrainEnd, streamVars
    <2>2. QED
      BY <2>1, WrapsAreBlocks, BlockCount
  <1>6. CASE DrainWrap
    <2>1. /\ wrapSem' = wrapSem - 1 /\ UNCHANGED <<frame, queue, fb>>
          /\ pc["record"] = "drain" /\ pc'["capture"] = pc["capture"]
      BY <1>6, Names DEF DrainWrap, At, Goto, OwnInv, IndInv, TypeOK
    <2>2. fb["record"] \in Block
      BY <2>1, Names DEF OwnInv, IndInv, Hands, UsesBlock
    <2>3. \A b \in Block : BeforeWrite(b) => BeforeWrite(b)' \/ b = fb["record"]
      BY <2>1 DEF BeforeWrite, Owed, Elems
    <2>4. U \ {fb["record"]} \subseteq V
      BY <2>1, <2>3, Undrained
    <2>5. Cardinality(U) - 1 <= Cardinality(V) /\ Cardinality(U) \in Nat /\ Cardinality(V) \in Nat
      BY <2>2, <2>4, WrapsAreBlocks, BlockCount
    <2>6. QED
      BY <1>1, <2>1, <2>5
  <1>7. ASSUME NEW wrapped \in BOOLEAN, ReadFrame(wrapped)
        PROVE  wrapSem' <= Cardinality(V)
    <2> DEFINE b == fb["capture"]
    <2>1. /\ wrapSem' = (IF wrapped THEN wrapSem + 1 ELSE wrapSem)
          /\ frame' = [frame EXCEPT ![b] = [seq |-> seq, wrapped |-> wrapped]]
          /\ UNCHANGED <<fb, queue>> /\ pc["capture"] = "read"
          /\ pc'["record"] = pc["record"]
      BY <1>7, Names DEF ReadFrame, At, Goto
    <2>2. b \in Block /\ Undisturbed /\ Owed("record", b)
      BY <1>7, ReadKept, Names
    <2>3. frame[b] = NoFrame
      BY <2>1, <2>2 DEF OwnInv, Blank
    <2>4. b \notin U
      BY <2>3, Undrained DEF NoFrame
    <2>5. \A e \in Block : BeforeWrite(e) => BeforeWrite(e)'
      BY <2>1, <2>2, Names DEF BeforeWrite, Undisturbed, Elems
    <2>6. U \subseteq V
      BY <1>4, <2>1, <2>4, <2>5, Undrained DEF StreamTypes
    <2>7. wrapped => b \in V
      <3>1. SUFFICES ASSUME wrapped = TRUE PROVE b \in V
        BY <1>7
      <3>2. frame'[b] = [seq |-> seq, wrapped |-> TRUE]
        BY <1>4, <2>1, <2>2, <3>1 DEF StreamTypes
      <3>3. BeforeWrite(b)
        BY <2>2 DEF BeforeWrite
      <3>4. QED
        BY <2>2, <2>5, <3>2, <3>3, Undrained
    <2>8. /\ Cardinality(U) <= Cardinality(V)
          /\ wrapped => Cardinality(U) + 1 <= Cardinality(V)
          /\ Cardinality(U) \in Nat /\ Cardinality(V) \in Nat
      BY <2>2, <2>4, <2>6, <2>7, WrapsAreBlocks, BlockCount
    <2>9. QED
      BY <1>1, <2>1, <2>8
  <1>8. CASE SameTokens /\ ~CaptureTokens
    <2>1. U \subseteq V
      BY <1>3, <1>8, WrapsStay
    <2>2. Cardinality(U) <= Cardinality(V) /\ Cardinality(U) \in Nat /\ Cardinality(V) \in Nat
      BY <2>1, WrapsAreBlocks, BlockCount
    <2>3. QED
      BY <1>1, <1>8, <2>2 DEF SameTokens
  <1>9. QED
    BY <1>5, <1>6, <1>7, <1>8, DrainSteps DEF CaptureTokens, OwnInv

\* There are never more tokens on wrap_sem than wrapped frames that record has
\* still to write, so that record has rewound its output for a frame before it
\* writes it (capture.c:73-78, record.c:50-57).
THEOREM RewindsInTime == Spec => []RewindNotLate
  <1>1. Init => RewindNotLate
    BY WrapsAreBlocks, BlockCount DEF Init, RewindNotLate
  <1>2. OwnInv /\ RewindNotLate /\ [Next]_vars => RewindNotLate'
    BY StepRewind
  <1>3. QED
    BY <1>1, <1>2, Owning, PTL DEF Spec

=============================================================================
