------------------------------- MODULE FrameIO -------------------------------
(***************************************************************************)
(* A frame and its file (src/frame.c): frame_init with its overflow        *)
(* checks, and the three functions that move the pixels between the buffer *)
(* and a descriptor, which may transfer any part of what is left, end in   *)
(* the middle or fail.  One system call is one step; an interrupted call   *)
(* (EINTR) is repeated and changes nothing.  The program keeps frames in   *)
(* its pool and has its own loops over them (Playback); these functions    *)
(* are for other clients.                                                  *)
(*                                                                         *)
(* A byte is where it came from: its number in the original file, or       *)
(* Drawn + i if it is byte i of what the client drew into the frame.       *)
(***************************************************************************)
EXTENDS Integers, Sequences

CONSTANTS
  SizeMax,    \* SIZE_MAX
  Extents,    \* the widths, heights and depths asked for
  FileMax     \* bound: the longest file

VARIABLES
  data,       \* frame->data: its bytes, or NoData
  dims,       \* width, height and depth of the frame
  file,       \* the bytes of the file
  pos,        \* the offset of the descriptor
  pc,         \* the function that runs
  count,      \* local: the bytes to transfer
  done,       \* local: written or readn
  call        \* history: the last call, where it began, and what it returned

vars == <<data, dims, file, pos, pc, count, done, call>>

NoData == <<-1>>
Drawn == FileMax
Drawing == [i \in DOMAIN data |-> Drawn + i]
NoCall == [op |-> "none", from |-> 0, ret |-> 0]

Init ==
  /\ data = NoData /\ dims = <<0, 0, 0>>
  /\ file = <<>> /\ pos = 0
  /\ pc = "idle" /\ count = 0 /\ done = 0 /\ call = NoCall

\* __builtin_mul_overflow, twice.  MutOverflows: the second product is not checked.
MutOverflows(w, h, d) == w * h > SizeMax
Overflows(w, h, d) == w * h > SizeMax \/ w * h * d > SizeMax

\* frame_create; with a size it rejects, nothing changes.
FrameCreate(w, h, d) ==
  /\ pc = "idle" /\ data = NoData
  /\ 0 \notin {w, h, d} /\ ~Overflows(w, h, d)
  /\ dims' = <<w, h, d>>
  /\ data' = [i \in 1 .. (w * h * d) % (SizeMax + 1) |-> 0]
  /\ UNCHANGED <<file, pos, pc, count, done, call>>

FrameDestroy ==
  /\ pc = "idle" /\ data # NoData
  /\ data' = NoData /\ dims' = <<0, 0, 0>> /\ call' = NoCall
  /\ UNCHANGED <<file, pos, pc, count, done>>

-----------------------------------------------------------------------------
(* The client draws into the frame, which it may then write, opens a file  *)
(* of n bytes, or seeks in it.                                             *)

Draw ==
  /\ pc = "idle" /\ data # NoData
  /\ data' = Drawing /\ call' = NoCall
  /\ UNCHANGED <<dims, file, pos, pc, count, done>>

Open(n) ==
  /\ pc = "idle" /\ file = <<>>
  /\ file' = [i \in 1 .. n |-> i] /\ pos' = 0 /\ call' = NoCall
  /\ UNCHANGED <<data, dims, pc, count, done>>

Seek(n) ==
  /\ pc = "idle" /\ n <= Len(file)
  /\ pos' = n /\ call' = NoCall
  /\ UNCHANGED <<data, dims, file, pc, count, done>>

-----------------------------------------------------------------------------
(* frame_write_data, frame_read_data, frame_read_loop *)

Call(op) ==
  /\ pc = "idle" /\ data # NoData
  /\ op = "frame_write_data" => data = Drawing /\ pos + Len(data) <= FileMax
  /\ pc' = op
  /\ count' = (dims[1] * dims[2] * dims[3]) % (SizeMax + 1) /\ done' = 0
  /\ call' = [op |-> op, from |-> pos, ret |-> 0]
  /\ UNCHANGED <<data, dims, file, pos>>

Return(ret) ==
  /\ pc' = "idle" /\ call' = [call EXCEPT !.ret = ret]
  /\ count' = 0 /\ done' = 0

\* The end of a function whose loop has transferred everything.
Finish ==
  /\ pc # "idle" /\ done = count
  /\ Return(count)
  /\ UNCHANGED <<data, dims, file, pos>>

\* write, read or lseek returns -1: so does the function, with what it has
\* transferred so far.
Fail ==
  /\ pc # "idle" /\ done < count
  /\ Return(-1)
  /\ UNCHANGED <<data, dims, file, pos>>

Write ==
  /\ pc = "frame_write_data" /\ done < count
  /\ \E n \in 1 .. count - done :
       /\ file' = [i \in DOMAIN file \cup 1 .. pos + n |->
                     IF i - pos \in 1 .. n THEN data[done + i - pos] ELSE file[i]]
       /\ pos' = pos + n /\ done' = done + n
  /\ UNCHANGED <<data, dims, pc, count, call>>

\* Where in the buffer a read goes on.  MutNextByte: at its start.
MutNextByte == 0
NextByte == done

Read ==
  /\ pc \in {"frame_read_data", "frame_read_loop"} /\ done < count
  /\ \E n \in 1 .. count - done :
       /\ pos + n <= Len(file)
       /\ data' = [i \in DOMAIN data |->
                     IF i - NextByte \in 1 .. n THEN file[pos + i - NextByte] ELSE data[i]]
       /\ pos' = pos + n /\ done' = done + n
  /\ UNCHANGED <<dims, file, pc, count, call>>

\* read returns 0: full_read gives up, frame_read_loop goes back to the start.
\* MutRewind: the loop reads on where it is.
MutRewind == UNCHANGED pos
Rewind == pos' = 0
ReadEof ==
  /\ pc # "frame_write_data" /\ pos = Len(file) /\ done < count
  /\ \/ /\ pc = "frame_read_data"
        /\ Return(-1)
        /\ UNCHANGED pos
     \/ /\ pc = "frame_read_loop"
        /\ Rewind
        /\ UNCHANGED <<pc, count, done, call>>
  /\ UNCHANGED <<data, dims, file>>

Step == Finish \/ Write \/ Read \/ ReadEof

Next ==
  \/ \E w, h, d \in Extents : FrameCreate(w, h, d)
  \/ FrameDestroy
  \/ Draw
  \/ \E n \in 0 .. FileMax : Open(n) \/ Seek(n)
  \/ \E op \in {"frame_write_data", "frame_read_data", "frame_read_loop"} : Call(op)
  \/ Step
  \/ Fail

Spec == Init /\ [][Next]_vars

\* A function that was called goes on; nothing has to fail.
Fairness == WF_vars(Step)

-----------------------------------------------------------------------------
(* Properties *)

\* Every variable keeps its type.
TypeOK ==
  /\ dims \in Extents \X Extents \X Extents \/ dims = <<0, 0, 0>>
  /\ data = NoData \/ \A i \in DOMAIN data : data[i] \in 0 .. Drawn + SizeMax
  /\ Len(file) <= FileMax /\ pos \in 0 .. Len(file)
  /\ pc \in {"idle", "frame_write_data", "frame_read_data", "frame_read_loop"}
  /\ done \in 0 .. count /\ count <= SizeMax
  /\ call.ret \in -1 .. SizeMax

\* A frame that frame_init has accepted has a byte for every pixel, and the
\* transfers move exactly these, whatever overflows (frame.c:37, 179).
FrameWhole ==
  /\ data # NoData => Len(data) = dims[1] * dims[2] * dims[3]
  /\ pc # "idle" => count = Len(data)

\* Byte i of a frame read from offset from of the file played in a loop.
Looped(from, i) == ((from + i - 1) % Len(file)) + 1

\* A transfer that returns its count has moved the whole frame, in order and
\* once, through every short transfer and, for the loop, every end of file
\* (frame.c:133-169, 209-228); the descriptor is where the next frame is.
TransferRight ==
  pc = "idle" /\ call.ret > 0 =>
    CASE call.op = "frame_write_data" ->
           /\ pos = call.from + Len(data)
           /\ SubSeq(file, call.from + 1, pos) = data
      [] call.op = "frame_read_data" ->
           /\ pos = call.from + Len(data)
           /\ SubSeq(file, call.from + 1, pos) = data
      [] call.op = "frame_read_loop" ->
           /\ \A i \in DOMAIN data : data[i] = file[Looped(call.from, i)]
           /\ pos = Looped(call.from, Len(data))

\* frame_read_loop returns from a file that is not empty (frame.c:218-225); from
\* an empty one it never does.
LoopReturns == (pc = "frame_read_loop" /\ file # <<>>) ~> pc = "idle"

=============================================================================
