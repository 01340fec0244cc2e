---------------------------- MODULE RecordThread -----------------------------
(***************************************************************************)
(* record_thread (src/record.c): takes a frame, rewinds the output once    *)
(* for every token of wrap_sem, writes the frame, waits while the program  *)
(* is stopped and releases the block.                                      *)
(***************************************************************************)
EXTENDS SharedCtx

RecordOpen ==
  /\ At("record", "open")
  /\ \/ Goto("record", "publish")
     \/ "open_record" \in Faults /\ Goto("record", "done")
  /\ UNCHANGED <<waiting, fb, uiVars, poolVars, streamVars, overrun>>

PublishRecordFd == PublishFd("record", "dequeue")

TakeToWrite == DequeueWait("record") \/ Dequeue("record", "drain")

\* while (sem_trywait(&wrap_sem) == 0) lseek: a failed lseek leaves the loop.
\* MutDrainWrap: the result of sem_trywait is not tested.
MutDrainWrap ==
  /\ At("record", "drain")
  /\ wrapSem' = wrapSem - 1
  /\ Goto("record", "write")
  /\ UNCHANGED <<waiting, fb, uiVars, poolVars, frame, queue, seq, taken, overrun>>
DrainWrap ==
  /\ At("record", "drain") /\ wrapSem > 0
  /\ wrapSem' = wrapSem - 1
  /\ \/ UNCHANGED pc
     \/ "lseek" \in Faults /\ Goto("record", "write")
  /\ UNCHANGED <<waiting, fb, uiVars, poolVars, frame, queue, seq, taken, overrun>>

\* MutDrainEnd: the test is made once, like an if.
MutDrainEnd ==
  /\ At("record", "drain")
  /\ Goto("record", "write")
  /\ UNCHANGED <<waiting, fb, uiVars, poolVars, streamVars, overrun>>
DrainEnd ==
  /\ At("record", "drain") /\ wrapSem = 0
  /\ Goto("record", "write")
  /\ UNCHANGED <<waiting, fb, uiVars, poolVars, streamVars, overrun>>

WriteFrame ==
  /\ At("record", "write")
  /\ CountOverrun("record")
  /\ Goto("record", "gate")
  /\ UNCHANGED <<waiting, fb, uiVars, poolVars, streamVars>>

\* A failed write: the thread ends and keeps its block.
WriteFail ==
  /\ At("record", "write") /\ "write" \in Faults
  /\ Goto("record", "done")
  /\ UNCHANGED <<waiting, fb, uiVars, poolVars, streamVars, overrun>>

RecordGate ==
  GateSleep("record") \/ GatePass("record", "release") \/ GateExit("record")

RecordRelease == ReleaseSub("record") \/ ReleasePush("record")

RecordStep ==
  \/ RecordOpen
  \/ PublishRecordFd
  \/ TakeToWrite
  \/ DrainWrap
  \/ DrainEnd
  \/ WriteFrame
  \/ WriteFail
  \/ RecordGate
  \/ RecordRelease

RecordFreed == PublishFreed("record", "dequeue") \/ GateFreed("record", "release")

=============================================================================
