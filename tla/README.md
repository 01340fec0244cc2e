# A verification of tinyBlackBox

tinyBlackBox plays a raw video in a loop: a capture thread reads frames from a
file, a display thread draws them on a framebuffer, a record thread writes them
to a file, and a ui thread starts, stops, restarts and ends the others from the
keyboard. Frames are never copied: the threads pass pointers to
reference-counted blocks of a shared pool through two bounded queues. This
directory holds TLA+ models of those threads and of the structures they share,
the TLC runs that check them, and TLAPS proofs of what the structures
guarantee.

## 1. Inventory

| part | code | state | operations | who uses it |
| --- | --- | --- | --- | --- |
| frame pool | `frame_pool.c` | free list, a refcount per block, mutex, cond | `fp_alloc`, `fp_retain`, `fp_release` | capture allocates, display and record release |
| frame queue | `queue.c` | ring: buffer, head, tail, count; done flag; mutex, two conds | `enqueue`, `dequeue`, `is_full`, `is_empty`, `queue_set_done`, `queue_destroy` | capture puts, one consumer per queue takes |
| shared context | `thread_arg.h`, `ui.h` | queues, pool, `wrap_sem`, `ui_arg` (state, fds, mutex, cond) | – | all threads |
| capture | `capture.c` | fd, seq, its block | wait for RUNNING, allocate, read, enqueue twice | |
| display | `display.c` | device, its block | dequeue, draw, overlay, wait while STOPPED, release | |
| record | `record.c` | fd, its block | dequeue, drain `wrap_sem`, write, wait while STOPPED, release | |
| ui | `ui.c` | `ui_arg` | keys 1 (stop), 2 (start), 3 (restart), q (exit); cleanup | |
| main | `main.c` | – | create, join, clean up | |
| playback | `raw_video_read_frame`, `raw_video_write_frame`, `reset_fd_offset_f` | file offsets | read with wrap, write, reset | capture, record, ui |
| task queue | `task.c` | ring, one cond, `keep_running` | push, pop | nobody |
| memory pool | `memory_pool.c` | as the frame pool | alloc (NULL when empty), retain, release | nobody |
| frame | `frame.c` | width, height, depth, data | create, copy, write, read, read in a loop | tests |
| menu | `display.c`, `ui.c` | `ui_arg->state` | three entries over every frame, the current one selected | display draws, ui changes |
| drawing | `fbDraw.c` | mapped device | pixels, scaling, lines, boxes, circles, text | display |
| log, util | `log.c`, `util.c` | – | formatting, `safe_free` | |

The threads interact in four ways: pointers to blocks through the two queues,
ownership counts and the free list of the pool, wrap tokens from capture to
record through the semaphore, and the state that the ui thread writes and the
workers wait for. What is hard about it:

* **ownership**: two consumers drop their shares of one block at the same time,
  outside any lock; capture still uses the pointer after display may have
  released it; a consumer that dies keeps its share;
* **wakeups**: every put, take and release signals one thread, wakeups can be
  spurious, a newcomer can overtake the thread that was woken, and a restart
  goes through STOPPED and back;
* **order**: a wrap token is posted before its frame is queued and drained
  before some frame is written;
* **stopping**: each worker tests the state at a different point of its loop,
  two of them leave with the mutex locked, the ui memory is freed after a
  fixed delay, and nothing wakes a consumer asleep on an empty queue;
* **limits**: an exhausted pool, a full queue, wrapping indices, products that
  overflow, transfers that end anywhere;
* **unlocked reads**: display reads the state once for each menu entry, so a
  frame can show two entries selected, or none;
* **arithmetic**: padded and panned framebuffers, error terms carried from pixel
  to pixel, a text line too narrow for a tab.

`PROJECT.json` lists these one by one, with the line where each bites and the
property that covers it.

## 2. The modules

| module | models | state ↔ code |
| --- | --- | --- |
| `Ownership` | the promise of a pool: a block is granted only while nobody owns it | |
| `FramePool` | `frame_pool.c`, any number of threads | `freeList` = `fp->free_list`, `refcount`, `waiting` = threads in `fp->cond`; `holder` is a history of who owns a reference |
| `Fifo` | the promise of a queue | |
| `BoundedQueue` | `queue.c` with the locking of its callers, any number of threads | `buffer`, `head`, `tail`, `count`, `done`; `asleep` = threads in one of the two conds |
| `QueueShutdown` | `queue_set_done` and the threads that wait when it is called | `woken` is a history of them |
| `SharedCtx` | the fields of `SharedCtx` and `UiArgs`; locks, conditions, queue and pool operations as the threads perform them | `state`, `uiMutex`, `freeList`, `refcount`, `queue`, `wrapSem`; `pc`, `waiting`, `fb` per thread |
| `CaptureThread`, `DisplayThread`, `RecordThread`, `UiThread` | one thread function each, one action per step | `pc[t]` is the place in the loop |
| `FrameStream` | the promise of the pipeline | |
| `Playback` | the two files: reading in a loop, writing, wrap tokens, restarts | `inPos`, `outPos` = the offsets of the descriptors, `buffer`, `wrapped`, `remaining` = the locals of the read and write loops |
| `TinyBlackBox` | `main` and all threads together, the properties | |
| `UiOverlay` | the menu that display draws and the keys that change it | `menu` = the entries on the screen, `i` = the loop over them, `restarting` = ui between its two assignments of a restart |
| `TaskQueue` | `task.c`, any number of threads | `queue`, `front`, `rear`, `count`, `keep_running`; `asleep` = threads in the one cond |
| `MemoryPool` | `memory_pool.c`, any number of threads | as `FramePool`, without waiting |
| `FrameIO` | `frame.c`: creation and the three transfers | `data`, `dims` = the frame; `file`, `pos` = the descriptor; `count`, `done` = the locals of the loops |
| `FbDraw` | `fbDraw.c`: pixels, scaling, shapes, as operators | `call` = the last call and what it drew |
| `PrintStr` | the cursor of `fb_printStr` | `x` = `cursor->x`, `j` = the loop of a tab |
| `MCParts` | the six above side by side, `subject` being the part that moves | |
| other `MC…` | symmetry for TLC | |
| `FramePoolProofs`, `BoundedQueueProofs`, `TinyBlackBoxProofs`, `PlaybackProofs` | theorems about the module they are named after | |
| `PipelineProofs` | ownership, order and rewinds of TinyBlackBox; extends TinyBlackBoxProofs and instantiates FramePoolProofs | |
| `PartsProofs`, `FrameProofs`, `DrawProofs` | theorems about MCParts: task queue and memory pool; frame, menu and text; drawing. Each extends the one before | |

**Granularity.** A critical section on a queue's or the pool's mutex takes no
other lock and always ends with the unlock, so it is one step; so is each
atomic operation on a refcount, and each system call. The ui mutex is a
variable (`uiMutex`), because capture and record end with it locked and a
restart holds it over two system calls. A thread in `pthread_cond_wait` is in
`waiting` under the name of the condition; it leaves by a signal (one of the
waiting threads, any), a broadcast, or `SpuriousWakeup`.

**Data.** A frame is its sequence number and whether the input wrapped to fill
it. `NoFrame` stands for the content of a block nobody owns, and overwrites it
when the last owner lets go; a consumer that still had the block in hand would
see the change (`FrameStable`). Sequence numbers are counted modulo `SeqMod`,
larger than the number of blocks, which bounds how far a consumer is behind.

In `Playback` a frame is the list of the input offsets its bytes came from, in
units a system call transfers; a read or a write may transfer any part of what
is left. The display side and the pool's locking are left out there: they can
only delay capture, and a slow capture is among the behaviours.

A byte of a frame in `FrameIO` is the place it came from, a pixel in `FbDraw` is
the set of bytes it writes, and a shape is the set of its pixels. Integers are
unbounded but for the products of `frame_init`, which are taken modulo
`SizeMax + 1`: no other operand can come near the limits of its type with a frame
that was allocated and a screen that was mapped.

**Failures.** The constant `Faults` names the system calls that may fail:
opening a file or the framebuffer, creating a thread, reading, drawing,
rewinding and writing. Every error path ends the thread as the code does, with
the block it holds. One error path is never taken: `fb_init` reports a failure
with a positive code (`fbDraw.h`) and display tests for a negative one
(`display.c:26`), so a display without a framebuffer goes on, fails to draw its
first frame and ends with that block (`screen` in `SharedCtx`).

**Freed memory.** After `q` the ui thread frees `ui_arg`. What a worker does
with it afterwards is undefined: `PublishFreed`, `GateFreed` and
`DisplayFreed` let it go on, leave, or block for good (these steps have no
fairness in `FairSpec`), and unlocked reads see any state (`SeenStates`). From
then on nothing bounds how many frames display and record handle, and
`StopBound` says nothing: without its hypothesis `~uiFreed` TLC finds it violated
in `pipeline_faults`.

**History variables**, read by no action of the code: `holder` (FramePool),
`taken` (the next number each consumer is to see), `overrun` (frames a worker
handled since the last stop or exit, up to `OverrunCap`, which stands for all
larger numbers), `woken` (QueueShutdown), and in Playback `jump`, `cut`,
`restarted` and the field `first` of a frame, which remember restarts.

**Abstract specifications.** `IsFifo` says BoundedQueue implements Fifo with
the mapping of the ring to the sequence of its items. In TinyBlackBox,
`PoolContract` says that the program uses the pool as FramePool describes it:
capture allocates with one reference for each of the two consumers, and each
gives its own back once. `StreamContract` says that the pipeline implements
FrameStream: both consumers are handed each frame once and in capture order, at
most `Cardinality(Block)` frames behind. `GrantsExclusive` and
`BlocksExclusive` say that both pools implement Ownership, in which a counter
does not occur; `IsFifoWhileRunning` says that the task queue implements Fifo
until `keep_running` is cleared.

**The task queue at shutdown.** A pop that finds `keep_running` cleared unlocks,
goes on without the mutex, and unlocks again. That is undefined behaviour; the
model sets `undefined` and stops there. Until then the shared condition variable
is enough if neither pushers nor poppers outnumber `TASK_QUEUE_CAPACITY`
(`NoneStranded`): while one sleeps that could go on, another is awake in a call.
The proof shows why: pushers and poppers then never sleep at the same time. With
more threads of one kind than slots they can, a signal can reach the wrong kind,
and TLC finds all threads in a call asleep (two pushers and four poppers on three
slots, or the reverse). An earlier version of this comment bounded the sum of
both kinds by twice the capacity; the attempt to prove that found it false.

## 3. The runs

| run | instance | shows |
| --- | --- | --- |
| `framepool_safety` | 3 threads, 2 blocks | exact counts, no block lost or owned and free, no lost wakeup, with `fp_retain` and allocations for any set of owners |
| `pool_exhaustion` | 1 thread, 1 block | **violated**: the test of the repository expects NULL from an exhausted pool, `fp_alloc` sleeps |
| `queue_fifo` | 4 threads, 2 items, capacity 2 | the ring is a Fifo, no lost wakeup |
| `queue_done` | 1 thread, capacity 1 | **violated**: a thread asleep when `queue_set_done` is called wakes and waits again |
| `pipeline_safety` | 3 blocks, queues of 3, keys 1 2 3 | ownership, order, stopping, wakeups, rewinds; no deadlock |
| `pipeline_faults` | 2 blocks, queues of 1, all failures, all keys | the same guarantees when threads fail, leave or use freed memory; stopping until that memory is freed |
| `pipeline_live` | 2 blocks, queues of 1, failing reads, draws and writes, keys 1 2 3 | frames are drawn and written again and again; after a failure, the surviving consumers get what was captured for them |
| `playback` | frames of 2 units, files of 1, 3 and 4, 2 blocks | the video is played without a gap, the recording stays as long as the input and the frames in flight, a read returns |
| `parts` | task queue: 4 threads, 2 slots; memory pool: 3 threads, 2 blocks; frame: up to 2×2×2 bytes of which 3 are the limit, files up to 3 bytes; menu: the program's; drawing: screens up to 2×2 with 2 to spare, lines in a 9×9 square, circles up to radius 24 (`RADIUS` is 20), scaling up to 12; text: lines of 1 to 10 letters | each part keeps its promise, see below |
| `restart_resumes` | frames of 1 unit, a file of 4, 2 blocks | **violated**: after a restart the frames in flight come before the first frame of the video |
| `exit_hang` | 1 block, queues of 1, keys 2 q | **violated**: after `q` main waits for threads that never end |
| `queue_destroy` | 1 block, all failures of an opening or a frame | **violated**: when they do end, `queue_destroy` crashes |

**Bounds.** Two blocks already give one in use and one in the pool, three give
a frame in each queue and one being filled, and with three blocks and queues of
three the proportion is the program's (`POOL_SIZE` 10 ≤ `QUEUE_SIZE` 30); the
runs with queues of one reach the opposite case, full queues, which the
program's constants rule out (`CaptureNeverWaitsOnQueue`). Four threads on a
queue of two slots give two waiters of a kind and two that overtake them. The
number of frames, key presses, wraps and restarts is not bounded: sequence
numbers are modular, and the wrap tokens are bounded by the pool. Blocks are
interchangeable in every safety run of TinyBlackBox and FramePool, so are
threads and items where all do the same (symmetry); the liveness runs use none.

**Fairness.** `Fairness` is weak fairness of each thread's own steps: a thread
that stays able to run does run. Nobody has to press a key, nothing fails of
necessity, and a thread on freed memory has no fairness. Weak fairness of a
whole thread is enough for its lock: the ui mutex is held over one step of ui
only, and a worker blocked on it at the next step is able to run for as long as
ui is not pressed again; `PipelineProgress` and `SurvivorServed` assume the state
stays RUNNING from some time on, the former also that no worker has ended.
`LuckySpec`, of `exit_hang`, is kinder still: no spurious
wakeups, and freed memory behaves as if the mutex were unlocked. The violation
is not an artefact of a missing assumption.

**Deadlock** is checked in `pipeline_safety` and `pipeline_live`. It is
switched off where the system really may stop: after failures and exits, and
where all threads of an instance make the same call.

`SurvivorServed` is about a worker that ends on a failed call, with its block.
`CaptureNeverWaitsOnQueue` rules out that capture waits for room in the queue of
a dead display while record has not been given the frame; so does, in
`pipeline_live`, the block the dead display keeps: two blocks and a queue of one
leave none for capture to wait with. It holds for the program's sizes, and TLC
finds it violated with three blocks and queues of one.

In `playback` the files are shorter than a frame, not a multiple of one, and a
multiple of one, so that the end falls inside and between frames; the bound of
`RecordingBounded` is reached. `PlayedInOrder` says nothing once a restart has
rewound the input between two reads of the same frame (`cut`): that frame joins
two places of the video, and all later ones start off the frame boundaries
until a restart between two frames. A `read` of a whole frame in one call makes
that rare, an input whose size is not a multiple of the frame size makes it
possible at every wrap.

**parts.** One run for all parts that share nothing with the pipeline: `subject`
is chosen at the start and only that part moves, so the instance is the sum of
the six and not their product. `NullJustified` says that a NULL from `mp_alloc`
means every block is in use. `FrameWhole` and `TransferRight` say that the size
the transfers compute again, without the overflow checks, is that of the buffer,
and that a transfer which returns its count moved every byte once, in order,
through every short read and every end of file; `LoopReturns` that
`frame_read_loop` returns from a file that is not empty (from an empty one it
does not). `MenuSettles` says that of a program left running each frame, from
some frame on, shows Running selected alone. Nothing like it holds of a program
left stopped: display sleeps with the frame it drew while the key was pressed,
which may show Running, two entries selected, or none. `PixelsInside`,
`ScaleExact`, `LineExact` and `FiguresExact` compare the integer loops with what
they approximate, for every argument in the bounds. `TabEnds` says that a tab
ends exactly if a line has room for four letters.

The fairness of `parts` is that a transfer, a tab, display and a restart, once
begun, go on; no call has to fail or to be made.

**The five violations** are disagreements of the code with what its tests and
comments say, described in `PROJECT.json` under findings.

## 4. The proofs

`FramePoolProofs` proves the four properties of `framepool_safety`, and
`GrantsExclusive`, for every finite set of blocks and threads. The assumption is `PoolAssumption` alone
(`frame_pool_init` rejects an empty pool). None of the properties is inductive:
that the test `prev == 1` is right needs the count to be exact, that the count
stays exact needs a block in flight to have no owner, and that needs the free
list to link no block twice. The inductive invariant is the conjunction of
these with what each place in a call implies (`want` is not empty in an
allocation, sleepers are in `fp_alloc`). `NoLostWakeup` is the part that is
easy to get wrong: each free block has an awake allocator while anybody sleeps,
so a release that signals one thread keeps it. `PoolGrantsExclusive` is the
refinement of Ownership: the store of `fp_alloc` is a grant, because a block in
flight has no owner. No run checks it: it follows from `BlockAccounting`.

`BoundedQueueProofs` proves the three properties of `queue_fifo` for every
capacity and every finite set of threads. The inductive invariant adds that
`tail` is `head + count` modulo the capacity and that queued slots hold items.
The lemmas `ModSum`, `ModDistinct` and `ModNext` are the index arithmetic: two
slots less than the capacity apart are different, so an enqueue overwrites no
queued item. `EnqueueAppends` and `DequeueTakesHead` show that the steps of the
ring are those of a sequence, and `RingIsFifo` is the refinement.

`TinyBlackBoxProofs` proves the type invariant, `SleepersJustified` and
`StopBound` of the whole program, for every pool, queue size, choice of keys
and of failures. The assumption is `ContextAssumption` alone. The inductive
invariant `IndInv` adds to the two invariants:

* `Hands`: a worker at a place of its loop where it uses a block has one;
* `Births`: threads main has not started yet are unborn;
* `Beds`: a sleeper sleeps on the condition its place in the code waits for.
  Each condition but ui's is thus waited for by one thread at most, and waking
  one waiter wakes them all (`SignalIsBroadcast`): this is why one signal per
  put, take and release is enough in this program;
* `Counted`: `overrun` is 0 while the state is RUNNING and, until `ui_arg` is
  freed, never above 1, and 1 only where the worker has handled its frame and
  cannot handle another before its gate. This is the strengthening `StopBound`
  needs: it says at which places the one late frame may have been spent.

There is one lemma for each step shape (`MoveInv`, `SleepInv`, `GateInv`, ...)
and one for each thread; `NextInv` puts them together.

`PipelineProofs` proves the rest of the safety properties of TinyBlackBox, from
the same assumption. Its first theorem is that the program implements FramePool
(`PoolContract`), and through the mapping the whole inductive invariant of
`FramePoolProofs` is used again: `OwnInv` is `IndInv`, the invariant of
FramePool under the mapping, and three parts that tie blocks to places:

* `EmptyHands`: a worker has no block at the places where it has none;
* `Once`: a consumer is owed a block, has it queued or holds it, never two of
  these, and never twice in its queue, so that it can give its share back once;
* `Blank`: a block nobody owns, and one capture has not filled yet, has no frame.

`FrameStable` and `CaptureNeverWaitsOnQueue` follow from it. `StreamContract` needs
`Order`: from the number a consumer is to see next to the one capture reads next
there is no gap, through its queue and the frame in capture's hands. Numbers
are modular, and order means something only while the difference is below
`SeqMod`; that a consumer is at most a pool behind comes from `Once`.
`RewindNotLate` is proved by comparing the tokens with the set of wrapped frames
that record has not drained for (`BeforeWrite`): a frame leaves the set only when
no token is left (`DrainEnd`), and a token is added only with a frame.

`PlaybackProofs` proves the three safety properties of `playback` for every
frame size, file size and pool (`PlaybackAssumption`). `Base` holds the types,
the sizes of the pieces at each place, and `Counts`: frames and tokens fit in
the pool. `Bounded` strengthens `RecordingBounded` by what is still owed: the
output is behind the input by less than the pool unless a rewind is to come,
and `ResetHalf` covers the moment between the two callbacks of a restart.
`Gapless` strengthens `PlayedInOrder` from two frames to the whole chain, from
the frame record writes to the byte capture reads next.

The three modules about `parts` assume `PartsAssumption`: a slot and finitely
many threads, numbers for the sizes, integers for coordinates.

* Task queue: `TasksInOrder` is the refinement of Fifo, as for the frame queue.
  `NoSleeperStranded` has the hypothesis `FewThreads` and the invariant
  `SleepersServed`: sleeping pushers are at most as many as the tasks, sleeping
  poppers at most as many as the free slots, and only one kind sleeps.
* Memory pool: the argument of FramePool, with the empty list as an outcome.
* Frame: `TransfersRight` rests on `Moved`: the first `done` bytes are
  transferred and the descriptor is at the next, for the loop up to whole rounds
  of the file. The lemmas `DivUnique` and `ModAdd` are the arithmetic.
* Text: `NarrowTabNeverEnds` is the half of `TabEnds` that is safety. The loop
  is left at 4 and goes back to 0 at every break, of which the invariant makes one
  in each round of fewer.
* Pixels and scaling: positions of different pixels differ by a pixel at least
  and of different lines by a line; `First` is the first column that shows a
  source column, in closed form, so that the number of repetitions is a
  difference of two roundings.
* Lines: `Bends` and `Error` are what the error loop has come to after any
  number of rounds, in closed form (`BendsNext`, `RoundsAre`); a steep or a
  leftward line is a flat one turned (`LineIsTurned`), and the rest is about that.
* Circles have no closed form. `RoundOK` is the invariant of their loop: the
  distance is that of the pixel from the circle but for a term in its height,
  it is at least `2 - 2 * Y` and, in the rounds that are drawn, at most
  `3 * (r - Y)`. The upper bound keeps the disc within half a pixel
  (`DiscOutside`). The lower one is enough to leave no hole only where the height
  is above two thirds of the radius (`DiscInside`); the rounds end at the
  diagonal, at about 0.7 of it (`LastHeight`).

The loops of lines and circles are recursive functions, and what they compute is
proved by induction although the library's induction theorems cannot be used
(they have an operator for a parameter): `Induction` in `DrawProofs` is stated
for a set of numbers and follows from the library's `WFMin`.

## 5. What is only model-checked, and what is not modelled

Every invariant of the passing runs, and every action property and refinement, is
proved. Liveness (`PipelineProgress`, `SurvivorServed`, `ReadReturns`,
`LoopReturns`, `MenuSettles`, `TabEnds`) is checked and not proved: fairness and
ENABLED are out of the prover's reach.

The proofs are about unbounded integers, as the models are, and `Playback`
assumes an input file that is not empty (`PlaybackAssumption`):
`raw_video_read_frame` never returns from an empty one. `NoneStranded` is proved
under `FewThreads` only, because it is false without (section 2).

Not modelled:

* wording of messages, terminal modes, colours and the strokes of the letters:
  nothing depends on them;
* the timing of the sleeps: every delay is possible;
* allocation failures before the first thread starts, which end the program;
* functions nobody calls or that nothing reaches: `raw_video_open`,
  `raw_video_writer_open`, `frame_pool_destroy`, `mp_destroy`,
  `task_queue_destroy`, `fb_fillScr` (which stores four bytes per pixel also at
  16 bits), the alpha variants, `fb_displayGrayFrame` (an older
  `fb_drawGray`, with the same locations and scaling);
* accessors, copy and dump of a frame; `log.c` and `util.c`, which format
  messages and free memory;
* the JavaScript under `docs/html`, which Doxygen generates: the program itself
  is the C code under `src` and `include`.

## 6. Plan

1. Done: `FramePool`, `BoundedQueue`/`Fifo`, `TinyBlackBox` with
   `FrameStream`, `Playback`.
2. Done: `Ownership`, `TaskQueue`, `MemoryPool`, `FrameIO`, `UiOverlay`,
   `FbDraw`, `PrintStr`, checked by `parts`.
3. Done: the proofs of section 4, of every safety property the runs check.
4. Left: what is safety in the other liveness properties, stated as
   `NarrowTabNeverEnds` is for `TabEnds`: a read in a loop that returns to an
   offset has transferred a round of the file, and a frame that begins while
   the program runs undisturbed ends with Running selected alone.
