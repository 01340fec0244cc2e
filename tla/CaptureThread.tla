---------------------------- MODULE CaptureThread ----------------------------
(***************************************************************************)
(* capture_thread (src/capture.c): waits for the running state, takes a    *)
(* block from the pool with one reference for each consumer, reads a frame *)
(* into it and puts it in both queues.  The bytes and the offsets of the   *)
(* files are left out: a read fills the block, wraps to do so, or fails.   *)
(***************************************************************************)
EXTENDS SharedCtx

CaptureOpen ==
  /\ At("capture", "open")
  /\ \/ Goto("capture", "publish")
     \/ "open_capture" \in Faults /\ Goto("capture", "done")
  /\ UNCHANGED <<waiting, fb, uiVars, poolVars, streamVars, overrun>>

PublishCaptureFd == PublishFd("capture", "gate")

\* The test of the state before each frame.
CaptureGate ==
  GateSleep("capture") \/ GatePass("capture", "alloc") \/ GateExit("capture")

\* fp_alloc: asleep while the free list is empty.
AllocWait ==
  /\ At("capture", "alloc") /\ freeList = <<>>
  /\ Sleep("capture", "pool")
  /\ UNCHANGED <<pc, fb, uiVars, poolVars, streamVars, overrun>>

AllocTake ==
  /\ At("capture", "alloc") /\ freeList # <<>>
  /\ fb' = [fb EXCEPT !["capture"] = Head(freeList)]
  /\ freeList' = Tail(freeList)
  /\ Goto("capture", "store")
  /\ UNCHANGED <<waiting, uiVars, refcount, streamVars, overrun>>

\* The init_count capture passes to fp_alloc.  MutShares: one for both.
MutShares == 1
Shares == 2

AllocStore ==
  /\ At("capture", "store")
  /\ refcount' = [refcount EXCEPT ![fb["capture"]] = Shares]
  /\ Goto("capture", "read")
  /\ UNCHANGED <<waiting, fb, uiVars, freeList, streamVars, overrun>>

\* raw_video_read_frame and sem_post if it wrapped; then the sequence number.
ReadFrame(wrapped) ==
  /\ At("capture", "read")
  /\ wrapSem' = IF wrapped THEN wrapSem + 1 ELSE wrapSem
  /\ frame' = [frame EXCEPT ![fb["capture"]] = [seq |-> seq, wrapped |-> wrapped]]
  /\ seq' = Next1(seq)
  /\ CountOverrun("capture")
  /\ Goto("capture", "enqueue_display")
  /\ UNCHANGED <<waiting, fb, uiVars, poolVars, queue, taken>>

\* A failed read: the thread ends and keeps its block.
ReadFail ==
  /\ At("capture", "read") /\ "read" \in Faults
  /\ Goto("capture", "done")
  /\ UNCHANGED <<waiting, fb, uiVars, poolVars, streamVars, overrun>>

EnqueueWait(c) ==
  /\ is_full(c)
  /\ Sleep("capture", NotFull[c])
  /\ UNCHANGED <<pc, fb, uiVars, poolVars, streamVars, overrun>>

\* MutEnqueue: at the wrong end.
MutEnqueue(c) ==
  /\ ~is_full(c)
  /\ queue' = [queue EXCEPT ![c] = <<fb["capture"]>> \o @]
  /\ Signal(NotEmpty[c])
  /\ UNCHANGED <<uiVars, poolVars, frame, wrapSem, seq, taken, overrun>>
Enqueue(c) ==
  /\ ~is_full(c)
  /\ queue' = [queue EXCEPT ![c] = Append(@, fb["capture"])]
  /\ Signal(NotEmpty[c])
  /\ UNCHANGED <<uiVars, poolVars, frame, wrapSem, seq, taken, overrun>>

EnqueueDisplay ==
  /\ At("capture", "enqueue_display")
  /\ \/ EnqueueWait("display")
     \/ /\ Enqueue("display")
        /\ Goto("capture", "enqueue_record")
        /\ UNCHANGED fb

\* The pointer is dead once both queues have it.
EnqueueRecord ==
  /\ At("capture", "enqueue_record")
  /\ \/ EnqueueWait("record")
     \/ /\ Enqueue("record")
        /\ Goto("capture", "gate")
        /\ fb' = [fb EXCEPT !["capture"] = NoBlock]

CaptureStep ==
  \/ CaptureOpen
  \/ PublishCaptureFd
  \/ CaptureGate
  \/ AllocWait
  \/ AllocTake
  \/ AllocStore
  \/ \E wrapped \in BOOLEAN : ReadFrame(wrapped)
  \/ ReadFail
  \/ EnqueueDisplay
  \/ EnqueueRecord

CaptureFreed == PublishFreed("capture", "gate") \/ GateFreed("capture", "alloc")

=============================================================================
