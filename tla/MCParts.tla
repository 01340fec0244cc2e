------------------------------- MODULE MCParts -------------------------------
(***************************************************************************)
(* The parts of the repository that share no state with each other or with *)
(* the pipeline, on small instances in one run: subject is the part that   *)
(* moves, the others keep their initial states.                            *)
(***************************************************************************)
EXTENDS Integers, Sequences, FiniteSets

CONSTANTS
  Task, NoTask, Pusher, Popper, Capacity,       \* TaskQueue
  PoolSize, Owner,                              \* MemoryPool
  SizeMax, Extents, FileMax,                    \* FrameIO
  Resolution, Padding, Coordinate, Width, Radius,   \* FbDraw
  Column, Letter, Screen                        \* PrintStr

\* The task queue has room for a task, a null task is no task, the threads are
\* finitely many, the ends of lines have integers for coordinates, and sizes and
\* positions on the screen are natural numbers.
ASSUME PartsAssumption ==
  /\ Capacity \in Nat \ {0} /\ NoTask \notin Task
  /\ IsFiniteSet(Pusher) /\ IsFiniteSet(Popper)
  /\ PoolSize \in Nat /\ IsFiniteSet(Owner)
  /\ SizeMax \in Nat /\ FileMax \in Nat /\ Extents \subseteq Nat
  /\ Resolution \in Nat /\ Padding \in Nat /\ Coordinate \subseteq Int
  /\ Column \subseteq Nat /\ Letter \subseteq Nat /\ Screen \subseteq Nat

VARIABLES
  subject,
  queue, front, rear, count, keep_running, tq_pc, task, tq_asleep, undefined,
  free_list, refcount, mp_pc, blk, want, holder,
  data, dims, file, pos, io_pc, left, done, io_call,
  state, restarting, ui_pc, i, ui_asleep, menu,
  fb_call,
  lnStart, w, xres, x, j, ps_pc

taskQueueVars == <<queue, front, rear, count, keep_running, tq_pc, task, tq_asleep, undefined>>
memoryPoolVars == <<free_list, refcount, mp_pc, blk, want, holder>>
frameVars == <<data, dims, file, pos, io_pc, left, done, io_call>>
menuVars == <<state, restarting, ui_pc, i, ui_asleep, menu>>
textVars == <<lnStart, w, xres, x, j, ps_pc>>
vars == <<subject, taskQueueVars, memoryPoolVars, frameVars, menuVars, fb_call, textVars>>

T == INSTANCE TaskQueue WITH pc <- tq_pc, asleep <- tq_asleep
M == INSTANCE MemoryPool WITH Thread <- Owner, pc <- mp_pc
F == INSTANCE FrameIO WITH pc <- io_pc, count <- left, call <- io_call
U == INSTANCE UiOverlay WITH pc <- ui_pc, asleep <- ui_asleep
D == INSTANCE FbDraw WITH call <- fb_call
P == INSTANCE PrintStr WITH pc <- ps_pc

Subject == {"task queue", "memory pool", "frame", "menu", "drawing", "text"}

Init ==
  /\ subject \in Subject
  /\ T!Init /\ M!Init /\ F!Init /\ U!Init /\ D!Init /\ P!Init

\* The other parts stay as they are, when part s moves.
OthersStay(s) ==
  /\ IF s = "task queue" THEN TRUE ELSE UNCHANGED taskQueueVars
  /\ IF s = "memory pool" THEN TRUE ELSE UNCHANGED memoryPoolVars
  /\ IF s = "frame" THEN TRUE ELSE UNCHANGED frameVars
  /\ IF s = "menu" THEN TRUE ELSE UNCHANGED menuVars
  /\ IF s = "drawing" THEN TRUE ELSE UNCHANGED fb_call
  /\ IF s = "text" THEN TRUE ELSE UNCHANGED textVars
  /\ UNCHANGED subject

Next ==
  \/ subject = "task queue" /\ T!Next /\ OthersStay(subject)
  \/ subject = "memory pool" /\ M!Next /\ OthersStay(subject)
  \/ subject = "frame" /\ F!Next /\ OthersStay(subject)
  \/ subject = "menu" /\ U!Next /\ OthersStay(subject)
  \/ subject = "drawing" /\ D!Next /\ OthersStay(subject)
  \/ subject = "text" /\ P!Next /\ OthersStay(subject)

\* The fairness of the parts that have one, for the part that moves.
Fairness ==
  /\ WF_vars(subject = "frame" /\ F!Step /\ OthersStay(subject))
  /\ WF_vars(subject = "menu" /\ U!DisplayStep /\ OthersStay(subject))
  /\ WF_vars(subject = "menu" /\ U!FinishRestart /\ OthersStay(subject))
  /\ WF_vars(subject = "text" /\ (P!Blank \/ P!TabEnd) /\ OthersStay(subject))

Spec == Init /\ [][Next]_vars /\ Fairness

-----------------------------------------------------------------------------
(* The properties, under one name each *)

\* Every part keeps its types.
TypeOK == T!TypeOK /\ M!TypeOK /\ F!TypeOK /\ U!TypeOK /\ P!TypeOK

\* The task queue (task.c:16-54).
IsFifoWhileRunning == T!IsFifoWhileRunning
NoneStranded == T!NoneStranded

\* The memory pool (memory_pool.c:85-129).
BlocksExclusive == M!BlocksExclusive
NullJustified == M!NullJustified

\* The frame and its file (frame.c:29-65, 133-231).
FrameWhole == F!FrameWhole
TransferRight == F!TransferRight
LoopReturns == F!LoopReturns

\* The menu over the frames (display.c:38-91).
MenuSettles == U!MenuSettles

\* The framebuffer (fbDraw.c:54-325, 686-718).
PixelsInside == D!PixelsInside
ScaleExact == D!ScaleExact
LineExact == D!LineExact
FiguresExact == D!FiguresExact

\* The cursor of a text (fbDraw.c:642-684).
TabEnds == P!TabEnds

=============================================================================
