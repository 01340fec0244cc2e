------------------------------ MODULE Playback -------------------------------
(***************************************************************************)
(* The two files of tinyBlackBox: raw_video_read_frame plays the input in  *)
(* a loop, raw_video_write_frame writes the output, wrap tokens and the    *)
(* restart key rewind them.  capture, record and ui share file offsets     *)
(* that no mutex protects; each system call is one step.                   *)
(*                                                                         *)
(* Of the rest of the program only the order of events is kept: the record *)
(* queue, and the pool as a bound on the frames capture is ahead.  Display *)
(* can but delay the release of a block, which looks like a slow capture   *)
(* here.  Exit and failures only end threads: see TinyBlackBox.            *)
(***************************************************************************)
EXTENDS Integers, Sequences

CONSTANTS
  FrameSize,  \* total_bytes_per_frame, in units a read or a write transfers
  FileSizes,  \* the sizes the input file may have, in the same units
  PoolSize    \* the blocks of the pool: at most QUEUE_SIZE, so no queue is full

\* An empty input file is excluded: raw_video_read_frame never returns from it.
ASSUME PlaybackAssumption ==
  /\ FrameSize \in Nat \ {0} /\ PoolSize \in Nat \ {0}
  /\ FileSizes \subseteq Nat \ {0}

VARIABLES
  pc,         \* where each thread is
  state,      \* ui_arg->state
  fds,        \* the threads whose descriptor is in ui_arg->fds
  fileSize,   \* the size of the input file
  inPos,      \* the offset of capture's descriptor
  buffer,     \* what capture has read of a frame
  wrapped,    \* local to raw_video_read_frame
  wrapSem,    \* the value of wrap_sem
  queue,      \* record_q
  frame,      \* the frame record has taken
  outPos,     \* the offset of record's descriptor
  remaining,  \* local to raw_video_write_frame
  jump,       \* history: capture has read nothing since the last restart
  cut,        \* history: a restart moved the input inside a frame
  restarted   \* history: record has begun no frame since the last restart

inVars == <<inPos, buffer, wrapped>>
outVars == <<frame, outPos, remaining>>
history == <<jump, cut, restarted>>
vars == <<pc, state, fds, fileSize, inVars, wrapSem, queue, outVars, history>>

\* A frame is the offsets its bytes came from and (history) whether it is the
\* first one after a restart.
NewFrame == [bytes |-> <<>>, first |-> FALSE]

Goto(t, l) == pc' = [pc EXCEPT ![t] = l]

\* The restart holds ui_arg->mutex over both callbacks.
Locked == pc["ui"] # "read_key"

\* The blocks in use: being filled, queued, or not yet released by record.
InFlight ==
  Len(queue) + (IF pc["capture"] \in {"open", "gate", "alloc"} THEN 0 ELSE 1)
             + (IF pc["record"] \in {"open", "dequeue"} THEN 0 ELSE 1)

Init ==
  /\ pc = [capture |-> "open", record |-> "open", ui |-> "read_key"]
  /\ state = "STOPPED" /\ fds = {}
  /\ fileSize \in FileSizes
  /\ inPos = 0 /\ buffer = NewFrame /\ wrapped = FALSE
  /\ wrapSem = 0 /\ queue = <<>>
  /\ frame = NewFrame /\ outPos = 0 /\ remaining = 0
  /\ jump = FALSE /\ cut = FALSE /\ restarted = FALSE

-----------------------------------------------------------------------------
(* capture_thread and record_thread open their files and publish them *)

Publish(t, next) ==
  /\ pc[t] = "open" /\ ~Locked
  /\ fds' = fds \cup {t}
  /\ Goto(t, next)
  /\ UNCHANGED <<state, fileSize, inVars, wrapSem, queue, outVars, history>>

\* Both pass their gate in STATE_RUNNING only.
Gate(t, next) ==
  /\ pc[t] = "gate" /\ ~Locked /\ state = "RUNNING"
  /\ Goto(t, next)
  /\ UNCHANGED <<state, fds, fileSize, inVars, wrapSem, queue, outVars, history>>

-----------------------------------------------------------------------------
(* capture: raw_video_read_frame *)

Alloc ==
  /\ pc["capture"] = "alloc" /\ InFlight < PoolSize
  /\ buffer' = NewFrame /\ wrapped' = FALSE
  /\ Goto("capture", "read")
  /\ UNCHANGED <<state, fds, fileSize, inPos, wrapSem, queue, outVars, history>>

\* read() returns 1 .. limit bytes, up to the end of the file.
ReadUpTo(limit) ==
  /\ pc["capture"] = "read" /\ inPos < fileSize
  /\ \E n \in 1 .. limit :
       /\ inPos + n <= fileSize
       /\ buffer' = [bytes |-> buffer.bytes \o [i \in 1 .. n |-> inPos + i - 1],
                     first |-> IF buffer.bytes = <<>> THEN jump ELSE buffer.first]
       /\ inPos' = inPos + n
       /\ Goto("capture", IF n + Len(buffer.bytes) >= FrameSize THEN "post" ELSE "read")
  /\ jump' = FALSE
  /\ UNCHANGED <<state, fds, fileSize, wrapped, wrapSem, queue, outVars, cut, restarted>>

\* MutRead: a short read is followed by one of a whole frame.
MutRead == ReadUpTo(FrameSize)
Read == ReadUpTo(FrameSize - Len(buffer.bytes))

\* read() returns 0.
ReadEof ==
  /\ pc["capture"] = "read" /\ inPos = fileSize
  /\ Goto("capture", "rewind")
  /\ UNCHANGED <<state, fds, fileSize, inVars, wrapSem, queue, outVars, history>>

\* lseek(fd, 0, SEEK_SET), which a restart may have done in the meantime.
\* MutRewind: the wrap is not reported.
MutRewind ==
  /\ pc["capture"] = "rewind"
  /\ inPos' = 0
  /\ Goto("capture", "read")
  /\ UNCHANGED <<state, fds, fileSize, buffer, wrapped, wrapSem, queue, outVars, history>>
\* MutRewindForgotten: the offset stays at the end.
MutRewindForgotten ==
  /\ pc["capture"] = "rewind"
  /\ wrapped' = TRUE
  /\ Goto("capture", "read")
  /\ UNCHANGED <<state, fds, fileSize, inPos, buffer, wrapSem, queue, outVars, history>>
\* MutRewindRetry: the frame is begun again, from the start of the file.
MutRewindRetry ==
  /\ pc["capture"] = "rewind"
  /\ inPos' = 0 /\ wrapped' = TRUE /\ buffer' = NewFrame
  /\ Goto("capture", "read")
  /\ UNCHANGED <<state, fds, fileSize, wrapSem, queue, outVars, history>>
Rewind ==
  /\ pc["capture"] = "rewind"
  /\ inPos' = 0 /\ wrapped' = TRUE
  /\ Goto("capture", "read")
  /\ UNCHANGED <<state, fds, fileSize, buffer, wrapSem, queue, outVars, history>>

\* sem_post if the read wrapped.
Post ==
  /\ pc["capture"] = "post"
  /\ wrapSem' = IF wrapped THEN wrapSem + 1 ELSE wrapSem
  /\ Goto("capture", "enqueue")
  /\ UNCHANGED <<state, fds, fileSize, inVars, queue, outVars, history>>

Enqueue ==
  /\ pc["capture"] = "enqueue"
  /\ queue' = Append(queue, buffer)
  /\ Goto("capture", "gate")
  /\ UNCHANGED <<state, fds, fileSize, inVars, wrapSem, outVars, history>>

CaptureStep ==
  \/ Publish("capture", "gate")
  \/ Gate("capture", "alloc")
  \/ Alloc \/ Read \/ ReadEof \/ Rewind \/ Post \/ Enqueue

-----------------------------------------------------------------------------
(* record: the wrap tokens and raw_video_write_frame *)

Dequeue ==
  /\ pc["record"] = "dequeue" /\ queue # <<>>
  /\ frame' = Head(queue) /\ queue' = Tail(queue)
  /\ Goto("record", "drain")
  /\ UNCHANGED <<state, fds, fileSize, inVars, wrapSem, outPos, remaining, history>>

\* sem_trywait succeeds.
TakeToken ==
  /\ pc["record"] = "drain" /\ wrapSem > 0
  /\ wrapSem' = wrapSem - 1
  /\ Goto("record", "seek")
  /\ UNCHANGED <<state, fds, fileSize, inVars, queue, outVars, history>>

\* lseek(fd, 0, SEEK_SET) and back to sem_trywait.
SeekOutput ==
  /\ pc["record"] = "seek"
  /\ outPos' = 0
  /\ Goto("record", "drain")
  /\ UNCHANGED <<state, fds, fileSize, inVars, wrapSem, queue, frame, remaining, history>>

\* sem_trywait fails: raw_video_write_frame begins.
BeginWrite ==
  /\ pc["record"] = "drain" /\ wrapSem = 0
  /\ remaining' = FrameSize
  /\ restarted' = FALSE
  /\ Goto("record", "write")
  /\ UNCHANGED <<state, fds, fileSize, inVars, wrapSem, queue, frame, outPos, jump, cut>>

\* write() transfers 1 .. remaining bytes.
Write ==
  /\ pc["record"] = "write"
  /\ \E n \in 1 .. remaining :
       /\ outPos' = outPos + n
       /\ remaining' = remaining - n
       /\ Goto("record", IF n = remaining THEN "gate" ELSE "write")
  /\ UNCHANGED <<state, fds, fileSize, inVars, wrapSem, queue, frame, history>>

RecordStep ==
  \/ Publish("record", "dequeue")
  \/ Dequeue \/ TakeToken \/ SeekOutput \/ BeginWrite \/ Write
  \/ Gate("record", "dequeue")

-----------------------------------------------------------------------------
(* ui_thread_func: start, stop, restart *)

PressStart ==
  /\ ~Locked /\ state = "STOPPED"
  /\ state' = "RUNNING"
  /\ UNCHANGED <<pc, fds, fileSize, inVars, wrapSem, queue, outVars, history>>

PressStop ==
  /\ ~Locked /\ state = "RUNNING"
  /\ state' = "STOPPED"
  /\ UNCHANGED <<pc, fds, fileSize, inVars, wrapSem, queue, outVars, history>>

PressRestart ==
  /\ ~Locked
  /\ state' = "STOPPED"
  /\ Goto("ui", "reset_output")
  /\ UNCHANGED <<fds, fileSize, inVars, wrapSem, queue, outVars, history>>

\* reset_callback(fds[0]).  lseek fails on a descriptor not yet published.
\* MutResetOutput: the output is not rewound.
MutResetOutput ==
  /\ pc["ui"] = "reset_output"
  /\ Goto("ui", "reset_input")
  /\ UNCHANGED <<state, fds, fileSize, inVars, wrapSem, queue, outVars, history>>
ResetOutput ==
  /\ pc["ui"] = "reset_output"
  /\ outPos' = IF "record" \in fds THEN 0 ELSE outPos
  /\ Goto("ui", "reset_input")
  /\ UNCHANGED <<state, fds, fileSize, inVars, wrapSem, queue, frame, remaining, history>>

\* reset_callback(fds[1]).
ResetInput ==
  /\ pc["ui"] = "reset_input"
  /\ inPos' = IF "capture" \in fds THEN 0 ELSE inPos
  /\ jump' = TRUE
  /\ cut' = (cut \/ (pc["capture"] \in {"read", "rewind"} /\ buffer.bytes # <<>>))
  /\ Goto("ui", "resume")
  /\ UNCHANGED <<state, fds, fileSize, buffer, wrapped, wrapSem, queue, outVars, restarted>>

FinishRestart ==
  /\ pc["ui"] = "resume"
  /\ state' = "RUNNING"
  /\ restarted' = TRUE
  /\ Goto("ui", "read_key")
  /\ UNCHANGED <<fds, fileSize, inVars, wrapSem, queue, outVars, jump, cut>>

UiStep == ResetOutput \/ ResetInput \/ FinishRestart
UserStep == PressStart \/ PressStop \/ PressRestart

Next == CaptureStep \/ RecordStep \/ UiStep \/ UserStep

Spec == Init /\ [][Next]_vars

\* Every thread that can run does; nobody has to press a key.
FairSpec == Spec /\ WF_vars(CaptureStep) /\ WF_vars(RecordStep) /\ WF_vars(UiStep)

-----------------------------------------------------------------------------
(* Properties *)

TypeOK ==
  /\ pc \in [{"capture", "record", "ui"} ->
       {"open", "gate", "alloc", "read", "rewind", "post", "enqueue", "dequeue",
        "drain", "seek", "write", "read_key", "reset_output", "reset_input", "resume"}]
  /\ state \in {"STOPPED", "RUNNING"} /\ fds \subseteq {"capture", "record"}
  /\ fileSize \in FileSizes /\ inPos \in 0 .. fileSize
  /\ \A f \in {buffer, frame} :
       f.bytes \in Seq(0 .. fileSize - 1) /\ Len(f.bytes) <= FrameSize /\ f.first \in BOOLEAN
  /\ wrapped \in BOOLEAN /\ wrapSem \in 0 .. PoolSize
  /\ Len(queue) <= PoolSize /\ \A i \in DOMAIN queue : Len(queue[i].bytes) = FrameSize
  /\ outPos \in Nat /\ remaining \in 0 .. FrameSize
  /\ {jump, cut, restarted} \subseteq BOOLEAN

\* The frames on their way from capture to the output, oldest first.
Stream ==
  (IF pc["record"] \in {"drain", "seek", "write"} THEN <<frame>> ELSE <<>>)
    \o queue
    \o (IF pc["capture"] \in {"post", "enqueue"} THEN <<buffer>> ELSE <<>>)

Follows(m, n) == n = (m + 1) % fileSize

\* The video is played without a gap through every end of file, short read and
\* restart: a frame is FrameSize successive bytes of the looped input and begins
\* where the one before it ended, the first after a restart at 0
\* (capture.c:174-204).  It holds until a restart rewinds the input between two
\* reads of one frame (ui.c:62).
PlayedInOrder ==
  ~cut =>
    /\ \A i \in DOMAIN Stream : \A k \in 1 .. FrameSize - 1 :
         Follows(Stream[i].bytes[k], Stream[i].bytes[k + 1])
    /\ \A i \in DOMAIN Stream : i > 1 =>
         IF Stream[i].first THEN Stream[i].bytes[1] = 0
         ELSE Follows(Stream[i - 1].bytes[FrameSize], Stream[i].bytes[1])

\* The output file stays as long as the input, up to the frames in flight at a
\* wrap or a restart: no wrap token is lost (capture.c:77, record.c:50-57,
\* ui.c:61).
RecordingBounded == outPos <= fileSize + PoolSize * FrameSize

\* raw_video_read_frame returns, however often the user restarts and however
\* little each read transfers (capture.c:174).
ReadReturns == pc["capture"] = "read" ~> pc["capture"] = "post"

\* A restart "Resumes from the beginning" (README.md:273): the first frame
\* recorded after it is the first of the input.
ResumesFromBeginning == [][restarted /\ BeginWrite => frame.bytes[1] = 0]_vars

=============================================================================
