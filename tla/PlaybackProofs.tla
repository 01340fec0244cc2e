---------------------------- MODULE PlaybackProofs ----------------------------
(***************************************************************************)
(* Proofs about the two files of Playback, for every frame size, file size *)
(* and pool: the types, that no wrap token is lost so that the output      *)
(* stays as long as the input, and that the frames are successive pieces   *)
(* of the looped input.                                                    *)
(***************************************************************************)
EXTENDS Playback, SequenceTheorems, TLAPS

USE PlaybackAssumption DEF PlaybackAssumption

-----------------------------------------------------------------------------
(* The inductive invariant: types and places *)

Chunk == [bytes : Seq(0 .. fileSize - 1), first : BOOLEAN]

CapturePlaces == {"open", "gate", "alloc", "read", "rewind", "post", "enqueue"}
RecordPlaces == {"open", "gate", "dequeue", "drain", "seek", "write"}
UiPlaces == {"read_key", "reset_output", "reset_input", "resume"}

Places ==
  /\ pc \in [{"capture", "record", "ui"} -> CapturePlaces \cup RecordPlaces \cup UiPlaces]
  /\ pc["capture"] \in CapturePlaces
  /\ pc["record"] \in RecordPlaces
  /\ pc["ui"] \in UiPlaces

Types ==
  /\ state \in {"STOPPED", "RUNNING"} /\ fds \subseteq {"capture", "record"}
  /\ fileSize \in FileSizes /\ inPos \in 0 .. fileSize
  /\ buffer \in Chunk /\ frame \in Chunk /\ queue \in Seq(Chunk)
  /\ wrapped \in BOOLEAN /\ wrapSem \in Nat
  /\ outPos \in Nat /\ remaining \in 0 .. FrameSize
  /\ jump \in BOOLEAN /\ cut \in BOOLEAN /\ restarted \in BOOLEAN

\* How far a thread is with the frame it works on.
Sizes ==
  /\ Len(buffer.bytes) <= FrameSize /\ Len(frame.bytes) <= FrameSize
  /\ \A i \in DOMAIN queue : Len(queue[i].bytes) = FrameSize
  /\ pc["capture"] \in {"read", "rewind"} => Len(buffer.bytes) < FrameSize
  /\ pc["capture"] \in {"post", "enqueue"} => Len(buffer.bytes) = FrameSize
  /\ pc["record"] \in {"drain", "seek", "write"} => Len(frame.bytes) = FrameSize
  /\ pc["record"] # "write" => remaining = 0

\* Where the descriptors can be.
Offsets ==
  /\ pc["record"] = "open" => outPos = 0
  /\ pc["record"] # "open" => "record" \in fds
  /\ pc["capture"] = "open" => inPos = 0
  /\ pc["capture"] # "open" => "capture" \in fds
  /\ pc["capture"] = "rewind" => inPos \in {0, fileSize}
  /\ jump => inPos = 0

\* The blocks of capture and of record, the frame record has yet to begin, and
\* the one whose token, if it has one, is posted and which is not queued yet.
Filling == IF pc["capture"] \in {"open", "gate", "alloc"} THEN 0 ELSE 1
Holding == IF pc["record"] \in {"open", "dequeue"} THEN 0 ELSE 1
Ready == IF pc["record"] \in {"drain", "seek"} THEN 1 ELSE 0
Posted == IF pc["capture"] = "enqueue" THEN 1 ELSE 0

\* Each block is in one place, and each token belongs to a frame that is not yet
\* written.
Counts ==
  /\ Len(queue) + Filling + Holding <= PoolSize
  /\ wrapSem <= Len(queue) + Ready + Posted

Base == Places /\ Types /\ Sizes /\ Offsets /\ Counts

LEMMA Chunks ==
  ASSUME Types, NEW f \in Chunk
  PROVE  /\ f.bytes \in Seq(0 .. fileSize - 1) /\ Len(f.bytes) \in Nat
         /\ DOMAIN f.bytes = 1 .. Len(f.bytes) /\ f.first \in BOOLEAN
  BY DEF Types, Chunk

LEMMA NoChunk == Types => NewFrame \in Chunk /\ NewFrame.bytes = <<>> /\ Len(NewFrame.bytes) = 0
  BY DEF NewFrame, Chunk, Types

LEMMA Flags ==
  /\ Filling \in {0, 1} /\ Holding \in {0, 1} /\ Ready \in {0, 1} /\ Posted \in {0, 1}
  /\ Ready <= Holding /\ Posted <= Filling
  /\ InFlight = Len(queue) + Filling + Holding
  BY DEF Filling, Holding, Ready, Posted, InFlight

LEMMA BaseInit == Init => Base
  <1> SUFFICES ASSUME Init PROVE Base
    OBVIOUS
  <1>1. fileSize \in Nat \ {0}
    BY DEF Init
  <1>2. NewFrame \in Chunk /\ Len(NewFrame.bytes) = 0
    BY DEF NewFrame, Chunk
  <1>3. Places /\ Types
    <2>1. Places
      BY DEF Init, Places, CapturePlaces, RecordPlaces, UiPlaces
    <2>2. Types
      <3>1. queue \in Seq(Chunk)
        BY EmptySeq DEF Init
      <3>2. buffer \in Chunk /\ frame \in Chunk
        BY <1>2 DEF Init
      <3>3. wrapped \in BOOLEAN /\ jump \in BOOLEAN /\ cut \in BOOLEAN /\ restarted \in BOOLEAN
        BY DEF Init
      <3>4. QED
        BY <1>1, <3>1, <3>2, <3>3 DEF Init, Types
    <2>3. QED
      BY <2>1, <2>2
  <1>4. Sizes /\ Offsets /\ Counts
    BY <1>1, <1>2 DEF Init, Sizes, Offsets, Counts, Filling, Holding, Ready, Posted
  <1>5. QED
    BY <1>3, <1>4 DEF Base

LEMMA BaseTypeOK == Base => TypeOK
  <1> SUFFICES ASSUME Base PROVE TypeOK
    OBVIOUS
  <1>1. pc \in [{"capture", "record", "ui"} ->
       {"open", "gate", "alloc", "read", "rewind", "post", "enqueue", "dequeue",
        "drain", "seek", "write", "read_key", "reset_output", "reset_input", "resume"}]
    BY DEF Base, Places, CapturePlaces, RecordPlaces, UiPlaces
  <1>2. \A f \in {buffer, frame} :
       f.bytes \in Seq(0 .. fileSize - 1) /\ Len(f.bytes) <= FrameSize /\ f.first \in BOOLEAN
    BY Chunks DEF Base, Types, Sizes
  <1>3. Len(queue) \in Nat
    BY DEF Base, Types
  <1>4. Len(queue) <= PoolSize /\ wrapSem <= PoolSize
    BY <1>3, Flags DEF Base, Counts, Types
  <1>5. QED
    BY <1>1, <1>2, <1>4 DEF Base, Types, Sizes, TypeOK

-----------------------------------------------------------------------------
(* A read *)

\* The bytes of a read of n from offset p.
Piece(p, n) == [i \in 1 .. n |-> p + i - 1]

LEMMA PieceBytes ==
  ASSUME NEW p \in Nat, NEW n \in Nat \ {0}, NEW m \in Nat, p + n <= m
  PROVE  /\ Piece(p, n) \in Seq(0 .. m - 1)
         /\ Len(Piece(p, n)) = n
         /\ \A i \in 1 .. n : Piece(p, n)[i] = p + i - 1
  <1>1. \A i \in 1 .. n : p + i - 1 \in 0 .. m - 1
    OBVIOUS
  <1>2. QED
    BY <1>1 DEF Piece

\* The positions of a joined sequence, counted within its two parts.
LEMMA JoinedPositions ==
  ASSUME NEW a \in Nat, NEW b \in Nat
  PROVE  /\ \A i \in 1 .. a : i \in 1 .. a + b
         /\ \A i \in 1 .. b : a + i \in 1 .. a + b /\ ~(a + i <= a) /\ (a + i) - a = i
         /\ \A i \in 1 .. a + b : i \in 1 .. a \/ (~(i <= a) /\ i - a \in 1 .. b)
  OBVIOUS

\* Two positions after the first a of a sequence, one behind the other.
LEMMA NextPosition ==
  ASSUME NEW a \in Nat, NEW n \in Nat \ {0}, NEW k \in 1 .. n - 1
  PROVE  k \in 1 .. n /\ k + 1 \in 1 .. n /\ a + (k + 1) = a + k + 1
  OBVIOUS

LEMMA ReadChunk ==
  ASSUME Base, Read
  PROVE  \E n \in 1 .. FrameSize - Len(buffer.bytes) :
           /\ pc["capture"] = "read" /\ inPos < fileSize /\ inPos + n <= fileSize
           /\ buffer'.bytes = buffer.bytes \o Piece(inPos, n)
           /\ buffer'.first = (IF buffer.bytes = <<>> THEN jump ELSE buffer.first)
           /\ buffer' \in Chunk /\ Len(buffer'.bytes) = Len(buffer.bytes) + n
           /\ inPos' = inPos + n
           /\ Goto("capture", IF n + Len(buffer.bytes) >= FrameSize THEN "post" ELSE "read")
           /\ UNCHANGED fileSize
  <1>1. PICK n \in 1 .. FrameSize - Len(buffer.bytes) :
          /\ inPos + n <= fileSize
          /\ buffer' = [bytes |-> buffer.bytes \o Piece(inPos, n),
                        first |-> IF buffer.bytes = <<>> THEN jump ELSE buffer.first]
          /\ inPos' = inPos + n
          /\ Goto("capture", IF n + Len(buffer.bytes) >= FrameSize THEN "post" ELSE "read")
    BY DEF Read, ReadUpTo, Piece
  <1>2. /\ buffer.bytes \in Seq(0 .. fileSize - 1) /\ Len(buffer.bytes) \in Nat
        /\ buffer.first \in BOOLEAN /\ jump \in BOOLEAN
        /\ fileSize \in Nat /\ inPos \in Nat /\ n \in Nat \ {0}
    BY Chunks, <1>1 DEF Base, Types
  <1>3. Piece(inPos, n) \in Seq(0 .. fileSize - 1) /\ Len(Piece(inPos, n)) = n
    BY <1>1, <1>2, PieceBytes
  <1>4. /\ buffer.bytes \o Piece(inPos, n) \in Seq(0 .. fileSize - 1)
        /\ Len(buffer.bytes \o Piece(inPos, n)) = Len(buffer.bytes) + n
    <2> DEFINE b == buffer.bytes  s == Piece(inPos, n)
    <2>1. b \in Seq(0 .. fileSize - 1) /\ s \in Seq(0 .. fileSize - 1) /\ Len(s) = n
      BY <1>2, <1>3
    <2> HIDE DEF b, s
    <2>2. b \o s \in Seq(0 .. fileSize - 1) /\ Len(b \o s) = Len(b) + Len(s)
      BY <2>1, ConcatProperties
    <2>3. QED
      BY <2>1, <2>2 DEF b, s
  <1>5. buffer' \in Chunk
    BY <1>1, <1>2, <1>4 DEF Chunk
  <1>6. /\ buffer'.bytes = buffer.bytes \o Piece(inPos, n)
        /\ buffer'.first = (IF buffer.bytes = <<>> THEN jump ELSE buffer.first)
    <2> DEFINE q == buffer.bytes \o Piece(inPos, n)
               f == IF buffer.bytes = <<>> THEN jump ELSE buffer.first
    <2>1. buffer' = [bytes |-> q, first |-> f]
      BY <1>1
    <2> HIDE DEF q, f
    <2>2. buffer'.bytes = q /\ buffer'.first = f
      BY <2>1
    <2>3. QED
      BY <2>2 DEF q, f
  <1>7. Len(buffer'.bytes) = Len(buffer.bytes) + n
    BY <1>4, <1>6
  <1>8. pc["capture"] = "read" /\ inPos < fileSize /\ UNCHANGED fileSize
    BY DEF Read, ReadUpTo
  <1>9. QED
    BY <1>1, <1>5, <1>6, <1>7, <1>8

-----------------------------------------------------------------------------
(* The steps keep the types, the sizes and the counts *)

LEMMA StepFile == [Next]_vars => UNCHANGED <<fileSize, Chunk>>
  <1>1. [Next]_vars => UNCHANGED fileSize
    BY DEF Next, vars, CaptureStep, RecordStep, UiStep, UserStep, Publish, Gate, Alloc, Read, ReadUpTo,
       ReadEof, Rewind, Post, Enqueue, Dequeue, TakeToken, SeekOutput, BeginWrite, Write,
       PressStart, PressStop, PressRestart, ResetOutput, ResetInput, FinishRestart
  <1>2. QED
    BY <1>1 DEF Chunk

\* A thread that goes to one of its places leaves the others where they are.
LEMMA Move ==
  ASSUME Places, NEW t \in {"capture", "record", "ui"}, NEW l, Goto(t, l),
         t = "capture" => l \in CapturePlaces,
         t = "record" => l \in RecordPlaces,
         t = "ui" => l \in UiPlaces
  PROVE  /\ Places' /\ pc'[t] = l
         /\ \A u \in {"capture", "record", "ui"} \ {t} : pc'[u] = pc[u]
  BY DEF Places, Goto

\* The steps that change no data.
Calm ==
  /\ UNCHANGED <<fileSize, inPos, buffer, wrapped, wrapSem, queue, frame, outPos, remaining, jump, cut>>
  /\ Places' /\ state' \in {"STOPPED", "RUNNING"} /\ restarted' \in BOOLEAN
  /\ fds \subseteq fds' /\ fds' \subseteq {"capture", "record"}
  /\ \/ pc'["capture"] = pc["capture"]
     \/ pc["capture"] = "open" /\ pc'["capture"] = "gate" /\ "capture" \in fds'
     \/ pc["capture"] = "gate" /\ pc'["capture"] = "alloc"
     \/ pc["capture"] = "read" /\ pc'["capture"] = "rewind" /\ inPos = fileSize
  /\ \/ pc'["record"] = pc["record"]
     \/ pc["record"] = "open" /\ pc'["record"] = "dequeue" /\ "record" \in fds'
     \/ pc["record"] = "gate" /\ pc'["record"] = "dequeue" /\ pc["ui"] = "read_key"
  /\ \/ pc'["ui"] = pc["ui"]
     \/ pc["ui"] = "read_key" /\ pc'["ui"] = "reset_output"
     \/ pc["ui"] = "resume" /\ pc'["ui"] = "read_key"

LEMMA CalmSteps ==
  ASSUME Base,
         \/ Publish("capture", "gate") \/ Gate("capture", "alloc") \/ ReadEof
         \/ Publish("record", "dequeue") \/ Gate("record", "dequeue")
         \/ UserStep \/ FinishRestart \/ UNCHANGED vars
  PROVE  Calm
  <1> USE DEF Base, Types, inVars, outVars, history, CapturePlaces, RecordPlaces, UiPlaces, Locked
  <1>1. CASE Publish("capture", "gate")
    BY <1>1, Move DEF Publish, Calm
  <1>2. CASE Gate("capture", "alloc")
    BY <1>2, Move DEF Gate, Calm
  <1>3. CASE ReadEof
    BY <1>3, Move DEF ReadEof, Calm
  <1>4. CASE Publish("record", "dequeue")
    BY <1>4, Move DEF Publish, Calm
  <1>5. CASE Gate("record", "dequeue")
    BY <1>5, Move DEF Gate, Calm
  <1>6. CASE PressStart \/ PressStop
    BY <1>6 DEF PressStart, PressStop, Calm, Places
  <1>7. CASE PressRestart
    BY <1>7, Move DEF PressRestart, Calm
  <1>8. CASE FinishRestart
    BY <1>8, Move DEF FinishRestart, Calm
  <1>9. CASE UNCHANGED vars
    BY <1>9 DEF vars, Calm, Places
  <1>10. QED
    BY <1>1, <1>2, <1>3, <1>4, <1>5, <1>6, <1>7, <1>8, <1>9 DEF UserStep

LEMMA CalmBase ==
  ASSUME Base, Calm
  PROVE  Base'
  <1>1. Types'
    BY DEF Base, Types, Calm, Chunk
  <1>2. Sizes'
    BY DEF Base, Sizes, Calm
  <1>3. Offsets'
    BY DEF Base, Offsets, Calm
  <1>4. Counts'
    <2>1. Filling' = Filling /\ Ready' = Ready /\ Posted' = Posted
      BY DEF Calm, Filling, Ready, Posted
    <2>2. Holding' <= Holding /\ Holding' \in {0, 1} /\ Holding \in {0, 1}
      BY DEF Calm, Holding
    <2>3. UNCHANGED <<queue, wrapSem>> /\ Len(queue) \in Nat
      BY DEF Calm, Base, Types
    <2>4. QED
      BY <2>1, <2>2, <2>3, Flags DEF Base, Counts
  <1>5. QED
    BY <1>1, <1>2, <1>3, <1>4 DEF Base, Calm

\* A step of thread t from here to there.
Moves(t, here, there) ==
  /\ pc[t] = here /\ pc'[t] = there
  /\ \A u \in {"capture", "record", "ui"} \ {t} : pc'[u] = pc[u]
  /\ Places'

\* Where the steps that change data lead.
LEMMA Moved ==
  ASSUME Base
  PROVE  /\ Alloc => Moves("capture", "alloc", "read")
         /\ Rewind => Moves("capture", "rewind", "read")
         /\ Post => Moves("capture", "post", "enqueue")
         /\ Enqueue => Moves("capture", "enqueue", "gate")
         /\ Dequeue => Moves("record", "dequeue", "drain")
         /\ TakeToken => Moves("record", "drain", "seek")
         /\ SeekOutput => Moves("record", "seek", "drain")
         /\ BeginWrite => Moves("record", "drain", "write")
         /\ ResetOutput => Moves("ui", "reset_output", "reset_input")
         /\ ResetInput => Moves("ui", "reset_input", "resume")
         /\ Read => Moves("capture", "read", "read") \/ Moves("capture", "read", "post")
         /\ Write => Moves("record", "write", "write") \/ Moves("record", "write", "gate")
  <1> USE DEF Base, Moves, CapturePlaces, RecordPlaces, UiPlaces
  <1>1. Alloc => Moves("capture", "alloc", "read")
    BY Move DEF Alloc
  <1>2. Rewind => Moves("capture", "rewind", "read")
    BY Move DEF Rewind
  <1>3. Post => Moves("capture", "post", "enqueue")
    BY Move DEF Post
  <1>4. Enqueue => Moves("capture", "enqueue", "gate")
    BY Move DEF Enqueue
  <1>5. Dequeue => Moves("record", "dequeue", "drain")
    BY Move DEF Dequeue
  <1>6. TakeToken => Moves("record", "drain", "seek")
    BY Move DEF TakeToken
  <1>7. SeekOutput => Moves("record", "seek", "drain")
    BY Move DEF SeekOutput
  <1>8. BeginWrite => Moves("record", "drain", "write")
    BY Move DEF BeginWrite
  <1>9. ResetOutput => Moves("ui", "reset_output", "reset_input")
    BY Move DEF ResetOutput
  <1>10. ResetInput => Moves("ui", "reset_input", "resume")
    BY Move DEF ResetInput
  <1>11. Read => Moves("capture", "read", "read") \/ Moves("capture", "read", "post")
    <2>1. Read => pc["capture"] = "read" /\ (Goto("capture", "read") \/ Goto("capture", "post"))
      BY DEF Read, ReadUpTo
    <2>2. QED
      BY <2>1, Move
  <1>12. Write => Moves("record", "write", "write") \/ Moves("record", "write", "gate")
    <2>1. Write => pc["record"] = "write" /\ (Goto("record", "write") \/ Goto("record", "gate"))
      BY DEF Write
    <2>2. QED
      BY <2>1, Move
  <1>13. QED
    BY <1>1, <1>2, <1>3, <1>4, <1>5, <1>6, <1>7, <1>8, <1>9, <1>10, <1>11, <1>12

\* The flags after a move.
LEMMA MovedFlags ==
  ASSUME NEW t, NEW here, NEW there, Moves(t, here, there)
  PROVE  /\ t = "capture" => Holding' = Holding /\ Ready' = Ready
         /\ t = "record" => Filling' = Filling /\ Posted' = Posted
         /\ t = "ui" => UNCHANGED <<Filling, Holding, Ready, Posted>>
  BY DEF Moves, Filling, Holding, Ready, Posted

LEMMA CaptureBase ==
  ASSUME Base, Alloc \/ Read \/ Rewind \/ Post \/ Enqueue
  PROVE  Base'
  <1> USE DEF inVars, outVars, history
  <1>1. /\ UNCHANGED <<fileSize, Chunk, frame, outPos, remaining, state, fds>>
        /\ pc'["record"] = pc["record"] /\ Places'
        /\ UNCHANGED <<Holding, Ready>>
    BY Moved, MovedFlags, StepFile
       DEF Alloc, Read, ReadUpTo, Rewind, Post, Enqueue, Moves, Next, CaptureStep
  <1>2. /\ fileSize \in Nat \ {0} /\ buffer \in Chunk /\ queue \in Seq(Chunk) /\ Len(queue) \in Nat
        /\ wrapSem \in Nat /\ inPos \in 0 .. fileSize /\ Len(buffer.bytes) \in Nat
    BY Chunks DEF Base, Types
  <1>3. CASE Alloc
    <2>1. Moves("capture", "alloc", "read")
      BY <1>3, Moved
    <2>2. /\ UNCHANGED <<inPos, wrapSem, queue, jump, cut, restarted>>
          /\ buffer' = NewFrame /\ wrapped' = FALSE /\ InFlight < PoolSize
      BY <1>3 DEF Alloc
    <2>3. buffer' \in Chunk /\ buffer'.bytes = <<>> /\ Len(buffer'.bytes) = 0
      BY <2>2, NoChunk DEF Base
    <2>4. Types'
      BY <1>1, <2>2, <2>3 DEF Base, Types
    <2>5. Sizes' /\ Offsets'
      BY <1>1, <2>1, <2>2, <2>3 DEF Base, Sizes, Offsets, Moves
    <2>6. Filling' = 1 /\ Filling = 0 /\ Posted' = Posted
      BY <2>1 DEF Moves, Filling, Posted
    <2>7. Counts'
      BY <1>1, <1>2, <2>2, <2>6, Flags DEF Base, Counts
    <2>8. QED
      BY <1>1, <2>4, <2>5, <2>7 DEF Base
  <1>4. CASE Read
    <2>1. PICK n \in 1 .. FrameSize - Len(buffer.bytes) :
            /\ inPos + n <= fileSize /\ inPos' = inPos + n
            /\ buffer' \in Chunk /\ Len(buffer'.bytes) = Len(buffer.bytes) + n
            /\ Goto("capture", IF n + Len(buffer.bytes) >= FrameSize THEN "post" ELSE "read")
      BY <1>4, ReadChunk
    <2>2. /\ UNCHANGED <<wrapped, wrapSem, queue, cut, restarted>> /\ jump' = FALSE
      BY <1>4 DEF Read, ReadUpTo
    <2>3. Moves("capture", "read", "read") \/ Moves("capture", "read", "post")
      BY <1>4, Moved
    <2>4. Types'
      <3>1. inPos' \in 0 .. fileSize
        BY <1>2, <2>1
      <3>2. QED
        BY <1>1, <2>1, <2>2, <3>1 DEF Base, Types
    <2>5. n \in Nat \ {0} /\ n + Len(buffer.bytes) <= FrameSize
      BY <1>2, <2>1
    <2>6. pc'["capture"] = (IF n + Len(buffer.bytes) >= FrameSize THEN "post" ELSE "read")
      BY <2>1 DEF Goto, Base, Places
    <2>7. Sizes' /\ Offsets'
      BY <1>1, <1>2, <2>1, <2>2, <2>3, <2>5, <2>6 DEF Base, Sizes, Offsets, Moves
    <2>8. Filling' = Filling /\ Posted' = Posted
      BY <2>3 DEF Moves, Filling, Posted
    <2>9. Counts'
      BY <1>1, <2>2, <2>8 DEF Base, Counts
    <2>10. QED
      BY <1>1, <2>4, <2>7, <2>9 DEF Base
  <1>5. CASE Rewind
    <2>1. Moves("capture", "rewind", "read")
      BY <1>5, Moved
    <2>2. /\ UNCHANGED <<buffer, wrapSem, queue, jump, cut, restarted>>
          /\ inPos' = 0 /\ wrapped' = TRUE
      BY <1>5 DEF Rewind
    <2>3. Types'
      BY <1>1, <1>2, <2>2 DEF Base, Types
    <2>4. Sizes' /\ Offsets'
      BY <1>1, <2>1, <2>2 DEF Base, Sizes, Offsets, Moves
    <2>5. Filling' = Filling /\ Posted' = Posted
      BY <2>1 DEF Moves, Filling, Posted
    <2>6. Counts'
      BY <1>1, <2>2, <2>5 DEF Base, Counts
    <2>7. QED
      BY <1>1, <2>3, <2>4, <2>6 DEF Base
  <1>6. CASE Post
    <2>1. Moves("capture", "post", "enqueue")
      BY <1>6, Moved
    <2>2. /\ UNCHANGED <<inPos, buffer, wrapped, queue, jump, cut, restarted>>
          /\ wrapSem' = IF wrapped THEN wrapSem + 1 ELSE wrapSem
      BY <1>6 DEF Post
    <2>3. wrapSem' \in Nat /\ wrapSem' <= wrapSem + 1
      BY <1>2, <2>2
    <2>4. Types'
      BY <1>1, <2>2, <2>3 DEF Base, Types
    <2>5. Sizes' /\ Offsets'
      BY <1>1, <2>1, <2>2 DEF Base, Sizes, Offsets, Moves
    <2>6. Filling' = Filling /\ Posted = 0 /\ Posted' = 1
      BY <2>1 DEF Moves, Filling, Posted
    <2>7. Counts'
      BY <1>1, <1>2, <2>2, <2>3, <2>6, Flags DEF Base, Counts
    <2>8. QED
      BY <1>1, <2>4, <2>5, <2>7 DEF Base
  <1>7. CASE Enqueue
    <2>1. Moves("capture", "enqueue", "gate")
      BY <1>7, Moved
    <2>2. /\ UNCHANGED <<inPos, buffer, wrapped, wrapSem, jump, cut, restarted>>
          /\ queue' = Append(queue, buffer)
      BY <1>7 DEF Enqueue
    <2>3. /\ queue' \in Seq(Chunk) /\ Len(queue') = Len(queue) + 1
          /\ \A i \in DOMAIN queue' :
               (i \in DOMAIN queue /\ queue'[i] = queue[i]) \/ queue'[i] = buffer
      BY <1>2, <2>2, AppendProperties
    <2>4. Types'
      BY <1>1, <2>2, <2>3 DEF Base, Types
    <2>5. Sizes' /\ Offsets'
      BY <1>1, <2>1, <2>2, <2>3 DEF Base, Sizes, Offsets, Moves
    <2>6. Filling = 1 /\ Filling' = 0 /\ Posted = 1 /\ Posted' = 0
      BY <2>1 DEF Moves, Filling, Posted
    <2>7. Counts'
      BY <1>1, <1>2, <2>2, <2>3, <2>6, Flags DEF Base, Counts
    <2>8. QED
      BY <1>1, <2>4, <2>5, <2>7 DEF Base
  <1>8. QED
    BY <1>3, <1>4, <1>5, <1>6, <1>7

LEMMA RecordBase ==
  ASSUME Base, Dequeue \/ TakeToken \/ SeekOutput \/ BeginWrite \/ Write
  PROVE  Base'
  <1> USE DEF inVars, outVars, history
  <1>1. /\ UNCHANGED <<fileSize, Chunk, inPos, buffer, wrapped, state, fds, jump, cut>>
        /\ pc'["capture"] = pc["capture"] /\ Places'
        /\ UNCHANGED <<Filling, Posted>>
    BY Moved, MovedFlags, StepFile
       DEF Dequeue, TakeToken, SeekOutput, BeginWrite, Write, Moves, Next, RecordStep
  <1>2. /\ queue \in Seq(Chunk) /\ Len(queue) \in Nat /\ wrapSem \in Nat
        /\ outPos \in Nat /\ remaining \in 0 .. FrameSize
    BY DEF Base, Types
  <1>3. CASE Dequeue
    <2>1. Moves("record", "dequeue", "drain")
      BY <1>3, Moved
    <2>2. /\ UNCHANGED <<wrapSem, outPos, remaining, restarted>>
          /\ queue # <<>> /\ frame' = Head(queue) /\ queue' = Tail(queue)
      BY <1>3 DEF Dequeue
    <2>3. /\ queue' \in Seq(Chunk) /\ Len(queue') = Len(queue) - 1 /\ Len(queue) > 0
          /\ \A i \in DOMAIN queue' : i + 1 \in DOMAIN queue /\ queue'[i] = queue[i + 1]
          /\ 1 \in DOMAIN queue /\ frame' = queue[1] /\ frame' \in Chunk
      BY <1>2, <2>2, HeadTailProperties, EmptySeq
    <2>4. Types'
      BY <1>1, <2>2, <2>3 DEF Base, Types
    <2>5. Sizes' /\ Offsets'
      BY <1>1, <2>1, <2>2, <2>3 DEF Base, Sizes, Offsets, Moves
    <2>6. Holding = 0 /\ Holding' = 1 /\ Ready = 0 /\ Ready' = 1
      BY <2>1 DEF Moves, Holding, Ready
    <2>7. Counts'
      BY <1>1, <1>2, <2>2, <2>3, <2>6, Flags DEF Base, Counts
    <2>8. QED
      BY <1>1, <2>4, <2>5, <2>7 DEF Base
  <1>4. CASE TakeToken
    <2>1. Moves("record", "drain", "seek")
      BY <1>4, Moved
    <2>2. /\ UNCHANGED <<queue, frame, outPos, remaining, restarted>>
          /\ wrapSem > 0 /\ wrapSem' = wrapSem - 1
      BY <1>4 DEF TakeToken
    <2>3. Types' /\ Sizes' /\ Offsets'
      BY <1>1, <1>2, <2>1, <2>2 DEF Base, Types, Sizes, Offsets, Moves
    <2>4. Holding' = Holding /\ Ready' = Ready
      BY <2>1 DEF Moves, Holding, Ready
    <2>5. Counts'
      BY <1>1, <1>2, <2>2, <2>4, Flags DEF Base, Counts
    <2>6. QED
      BY <1>1, <2>3, <2>5 DEF Base
  <1>5. CASE SeekOutput
    <2>1. Moves("record", "seek", "drain")
      BY <1>5, Moved
    <2>2. UNCHANGED <<queue, frame, wrapSem, remaining, restarted>> /\ outPos' = 0
      BY <1>5 DEF SeekOutput
    <2>3. Types' /\ Sizes' /\ Offsets'
      BY <1>1, <1>2, <2>1, <2>2 DEF Base, Types, Sizes, Offsets, Moves
    <2>4. Holding' = Holding /\ Ready' = Ready
      BY <2>1 DEF Moves, Holding, Ready
    <2>5. Counts'
      BY <1>1, <2>2, <2>4 DEF Base, Counts
    <2>6. QED
      BY <1>1, <2>3, <2>5 DEF Base
  <1>6. CASE BeginWrite
    <2>1. Moves("record", "drain", "write")
      BY <1>6, Moved
    <2>2. /\ UNCHANGED <<queue, frame, wrapSem, outPos>>
          /\ wrapSem = 0 /\ remaining' = FrameSize /\ restarted' = FALSE
      BY <1>6 DEF BeginWrite
    <2>3. Types'
      <3>1. remaining' \in 0 .. FrameSize
        BY <2>2
      <3>2. QED
        BY <1>1, <2>2, <3>1 DEF Base, Types
    <2>4. Sizes' /\ Offsets'
      BY <1>1, <2>1, <2>2 DEF Base, Sizes, Offsets, Moves
    <2>5. Holding' = Holding /\ Ready' = 0
      BY <2>1 DEF Moves, Holding, Ready
    <2>6. Counts'
      BY <1>1, <1>2, <2>2, <2>5, Flags DEF Base, Counts
    <2>7. QED
      BY <1>1, <2>3, <2>4, <2>6 DEF Base
  <1>7. CASE Write
    <2>1. Moves("record", "write", "write") \/ Moves("record", "write", "gate")
      BY <1>7, Moved
    <2>2. PICK n \in 1 .. remaining :
            /\ outPos' = outPos + n /\ remaining' = remaining - n
            /\ Goto("record", IF n = remaining THEN "gate" ELSE "write")
            /\ UNCHANGED <<queue, frame, wrapSem, restarted>>
      BY <1>7 DEF Write
    <2>3. pc'["record"] = (IF n = remaining THEN "gate" ELSE "write")
      BY <2>2 DEF Goto, Base, Places
    <2>4. outPos' \in Nat /\ remaining' \in 0 .. FrameSize /\ (n = remaining => remaining' = 0)
      BY <1>2, <2>2
    <2>5. Types' /\ Sizes' /\ Offsets'
      BY <1>1, <2>1, <2>2, <2>3, <2>4 DEF Base, Types, Sizes, Offsets, Moves
    <2>6. Holding' = Holding /\ Ready' = Ready
      BY <2>1 DEF Moves, Holding, Ready
    <2>7. Counts'
      BY <1>1, <2>2, <2>6 DEF Base, Counts
    <2>8. QED
      BY <1>1, <2>5, <2>7 DEF Base
  <1>8. QED
    BY <1>3, <1>4, <1>5, <1>6, <1>7

LEMMA ResetBase ==
  ASSUME Base, ResetOutput \/ ResetInput
  PROVE  Base'
  <1> USE DEF inVars, outVars, history
  <1>1. /\ UNCHANGED <<fileSize, Chunk, buffer, wrapped, frame, wrapSem, queue, state, fds, remaining, restarted>>
        /\ pc'["capture"] = pc["capture"] /\ pc'["record"] = pc["record"] /\ Places'
        /\ UNCHANGED <<Filling, Holding, Ready, Posted>>
    BY Moved, MovedFlags, StepFile DEF ResetOutput, ResetInput, Moves, Next, UiStep
  <1>2. Counts'
    BY <1>1 DEF Base, Counts
  <1>3. CASE ResetOutput
    BY <1>1, <1>2, <1>3 DEF ResetOutput, Base, Types, Sizes, Offsets
  <1>4. CASE ResetInput
    <2>1. inPos' = (IF "capture" \in fds THEN 0 ELSE inPos) /\ jump' = TRUE /\ outPos' = outPos
      BY <1>4 DEF ResetInput
    <2>2. cut' \in BOOLEAN
      BY <1>4 DEF ResetInput, Base, Types
    <2>3. inPos' \in 0 .. fileSize /\ inPos' \in {0, inPos}
      BY <2>1 DEF Base, Types
    <2>4. inPos' = 0
      BY <2>1 DEF Base, Offsets
    <2>5. Types'
      BY <1>1, <2>1, <2>2, <2>3 DEF Base, Types
    <2>6. Sizes' /\ Offsets'
      BY <1>1, <2>1, <2>3, <2>4 DEF Base, Sizes, Offsets
    <2>7. QED
      BY <1>1, <1>2, <2>5, <2>6 DEF Base
  <1>5. QED
    BY <1>3, <1>4

LEMMA BaseNext == Base /\ [Next]_vars => Base'
  BY CalmSteps, CalmBase, CaptureBase, RecordBase, ResetBase
     DEF Next, CaptureStep, RecordStep, UiStep

LEMMA Based == Spec => []Base
  BY BaseInit, BaseNext, PTL DEF Spec

\* Every variable keeps its type: no read goes beyond the frame or the file and no
\* write beyond the frame, whatever part of it each call transfers, and the
\* tokens and the queued frames never outnumber the blocks of the pool
\* (capture.c:174-196, record.c:93-109).
THEOREM TypeCorrect == Spec => []TypeOK
  BY Based, BaseTypeOK, PTL

-----------------------------------------------------------------------------
(* The output stays as long as the input *)

\* What record has still to write of the frames it holds and of those queued, what
\* capture has read of its frame, and the bytes of the whole pool.
Owed == remaining + (Len(queue) + Ready) * FrameSize
InHand == IF pc["capture"] \in {"open", "gate", "alloc"} THEN 0 ELSE Len(buffer.bytes)
PoolBytes == PoolSize * FrameSize

\* A rewind of the output that is still to come: its token is posted or taken, or
\* the read that has wrapped has yet to post it.
RewindAhead == wrapSem > 0 \/ pc["record"] = "seek"
WrapAhead == wrapped /\ pc["capture"] \in {"read", "rewind", "post"}

\* With no rewind to come the output is behind the input by less than the pool;
\* the read that reaches the end adds the file once; and while a rewind is to come
\* record begins no frame.
Bounded ==
  /\ outPos + remaining <= fileSize + PoolBytes
  /\ ~RewindAhead => outPos + Owed <= fileSize + PoolBytes
  /\ ~RewindAhead /\ ~WrapAhead => outPos + Owed + InHand <= inPos + PoolBytes

\* Between the two callbacks of a restart record writes at most one frame: its
\* gate waits for the mutex.
Rewound ==
  IF pc["record"] \in {"write", "gate"} THEN outPos + remaining <= FrameSize ELSE outPos = 0
ResetHalf == pc["ui"] = "reset_input" => Rewound

\* The products that occur.
LEMMA Scale ==
  ASSUME NEW a \in Nat, NEW b \in Nat
  PROVE  /\ a * FrameSize \in Nat
         /\ (a + 1) * FrameSize = a * FrameSize + FrameSize
         /\ a <= b => a * FrameSize <= b * FrameSize
  <1>1. FrameSize \in Nat
    OBVIOUS
  <1>2. a * FrameSize \in Nat /\ (a + 1) * FrameSize = a * FrameSize + FrameSize
    BY <1>1
  <1>3. a <= b => a * FrameSize <= b * FrameSize
    <2>1. ASSUME a <= b PROVE b * FrameSize = a * FrameSize + (b - a) * FrameSize /\ (b - a) * FrameSize \in Nat
      BY <1>1, <2>1
    <2>2. QED
      BY <1>1, <1>2, <2>1
  <1>4. QED
    BY <1>2, <1>3

\* All that is owed and in hand fits in the blocks it is in.
Fits ==
  /\ Owed \in Nat /\ InHand \in Nat
  /\ outPos \in Nat /\ remaining \in Nat /\ inPos \in Nat /\ fileSize \in Nat
  /\ inPos <= fileSize /\ remaining <= FrameSize
  /\ pc["record"] \notin {"write", "gate"} => Owed + InHand <= PoolBytes
  /\ pc["record"] \in {"write", "gate"} => Owed - remaining + FrameSize + InHand <= PoolBytes

LEMMA OwedFits == Base => Fits
  <1> SUFFICES ASSUME Base PROVE Fits
    OBVIOUS
  <1> DEFINE n == Len(queue) + Ready
  <1>1. /\ n \in Nat /\ FrameSize \in Nat /\ PoolSize \in Nat
        /\ Len(buffer.bytes) \in Nat /\ Len(buffer.bytes) <= FrameSize
        /\ outPos \in Nat /\ remaining \in Nat /\ inPos \in Nat /\ fileSize \in Nat
        /\ inPos <= fileSize /\ remaining <= FrameSize
    BY Chunks, Flags DEF Base, Types, Sizes
  <1>2. n * FrameSize \in Nat /\ PoolBytes \in Nat /\ Owed = remaining + n * FrameSize /\ Owed \in Nat
    BY <1>1, Scale DEF PoolBytes, Owed
  <1>3. InHand \in Nat /\ InHand <= Filling * FrameSize /\ Filling \in {0, 1}
    BY <1>1 DEF InHand, Filling
  <1>4. CASE pc["record"] \notin {"write", "gate"}
    <2>1. n + Filling <= PoolSize
      BY <1>4, Flags DEF Base, Counts, Types, Holding, Ready
    <2>2. (n + Filling) * FrameSize <= PoolBytes
      BY <1>1, <1>3, <2>1, Scale DEF PoolBytes
    <2>3. (n + Filling) * FrameSize = n * FrameSize + Filling * FrameSize
      BY <1>1, <1>3
    <2>4. remaining = 0
      BY <1>4 DEF Base, Sizes
    <2>5. Owed + InHand <= PoolBytes
      <3>1. CASE Filling = 0
        BY <1>1, <1>2, <1>3, <2>2, <2>3, <2>4, <3>1
      <3>2. CASE Filling = 1
        BY <1>1, <1>2, <1>3, <2>2, <2>3, <2>4, <3>2
      <3>3. QED
        BY <1>3, <3>1, <3>2
    <2>6. QED
      BY <1>1, <1>2, <1>3, <1>4, <2>5 DEF Fits
  <1>5. CASE pc["record"] \in {"write", "gate"}
    <2>1. (n + 1) + Filling <= PoolSize
      BY <1>5, Flags DEF Base, Counts, Types, Holding, Ready
    <2>2. ((n + 1) + Filling) * FrameSize <= PoolBytes
      BY <1>1, <1>3, <2>1, Scale DEF PoolBytes
    <2>3. n * FrameSize + FrameSize + InHand <= PoolBytes
      <3>1. CASE Filling = 0
        <4>1. (n + 1) * FrameSize <= PoolBytes /\ InHand = 0
          BY <1>1, <1>3, <2>2, <3>1
        <4>2. QED
          BY <1>1, <4>1, Scale
      <3>2. CASE Filling = 1
        <4>1. ((n + 1) + 1) * FrameSize <= PoolBytes /\ InHand <= FrameSize
          BY <1>1, <1>3, <2>2, <3>2
        <4>2. ((n + 1) + 1) * FrameSize = n * FrameSize + FrameSize + FrameSize
          BY <1>1, Scale
        <4>3. QED
          BY <1>1, <1>2, <1>3, <4>1, <4>2
      <3>3. QED
        BY <1>3, <3>1, <3>2
    <2>4. Owed - remaining + FrameSize + InHand <= PoolBytes
      BY <1>1, <1>2, <1>3, <2>3
    <2>5. QED
      BY <1>1, <1>2, <1>3, <1>5, <2>4 DEF Fits
  <1>6. QED
    BY <1>4, <1>5

LEMMA BoundedInit == Init => Bounded /\ ResetHalf
  <1> SUFFICES ASSUME Init PROVE Bounded /\ ResetHalf
    OBVIOUS
  <1>1. Owed = 0 /\ InHand = 0 /\ outPos = 0 /\ remaining = 0 /\ inPos = 0 /\ fileSize \in Nat
    BY DEF Init, Owed, InHand, Ready
  <1>2. PoolBytes \in Nat
    BY Scale DEF PoolBytes
  <1>3. QED
    BY <1>1, <1>2 DEF Bounded, ResetHalf, Rewound, Init

\* Bounded only gets easier: nothing is written or read that was not counted.
LEMMA Easier ==
  ASSUME Base, Base', Bounded,
         fileSize' = fileSize,
         outPos' + remaining' <= outPos + remaining,
         outPos' + Owed' <= outPos + Owed,
         \/ RewindAhead' \/ WrapAhead'
         \/ outPos' + Owed' + InHand' + inPos <= outPos + Owed + InHand + inPos',
         RewindAhead => RewindAhead', WrapAhead => WrapAhead' \/ RewindAhead'
  PROVE  Bounded'
  <1>1. Fits /\ Fits' /\ PoolBytes \in Nat
    <2>1. PoolBytes \in Nat
      BY Scale DEF PoolBytes
    <2>2. Fits
      BY OwedFits
    <2>3. Fits'
      BY OwedFits, PTL
    <2>4. QED
      BY <2>1, <2>2, <2>3
  <1>2. {Owed, InHand, outPos, remaining, inPos, fileSize, PoolBytes,
          Owed', InHand', outPos', remaining', inPos'} \subseteq Nat
    BY <1>1 DEF Fits
  <1>3. outPos' + remaining' <= fileSize' + PoolBytes
    BY <1>2 DEF Bounded
  <1>4. ~RewindAhead' => outPos' + Owed' <= fileSize' + PoolBytes
    BY <1>2 DEF Bounded
  <1>5. ~RewindAhead' /\ ~WrapAhead' => outPos' + Owed' + InHand' <= inPos' + PoolBytes
    BY <1>2 DEF Bounded
  <1>6. QED
    BY <1>3, <1>4, <1>5 DEF Bounded, PoolBytes

\* With the output rewound all that is owed fits in the pool.
LEMMA RewoundBounded == Base /\ Rewound => Bounded
  <1> SUFFICES ASSUME Base, Rewound PROVE Bounded
    OBVIOUS
  <1>1. Fits /\ PoolBytes \in Nat /\ FrameSize \in Nat /\ FrameSize <= PoolBytes
    <2>1. 1 * FrameSize <= PoolSize * FrameSize /\ PoolBytes \in Nat
      BY Scale DEF PoolBytes
    <2>2. QED
      BY <2>1, OwedFits DEF PoolBytes
  <1>2. outPos + Owed + InHand <= PoolBytes /\ outPos + remaining <= PoolBytes
    BY <1>1 DEF Fits, Rewound, Base, Sizes
  <1>3. QED
    BY <1>1, <1>2 DEF Fits, Bounded

\* A step that leaves the output and what is owed as they are.
LEMMA SameOutput ==
  ASSUME Base, Base', Bounded, UNCHANGED <<fileSize, outPos, remaining, Owed>>,
         \/ RewindAhead' \/ WrapAhead'
         \/ InHand' + inPos <= InHand + inPos',
         RewindAhead => RewindAhead', WrapAhead => WrapAhead' \/ RewindAhead'
  PROVE  Bounded'
  <1>1. Fits /\ Fits'
    BY OwedFits, PTL
  <1>2. {Owed, InHand, outPos, remaining, inPos, InHand', inPos'} \subseteq Nat
    BY <1>1 DEF Fits
  <1>3. /\ outPos' + remaining' <= outPos + remaining
        /\ outPos' + Owed' <= outPos + Owed
    BY <1>2
  <1>4. \/ RewindAhead' \/ WrapAhead'
        \/ outPos' + Owed' + InHand' + inPos <= outPos + Owed + InHand + inPos'
    BY <1>2
  <1>5. QED
    BY <1>3, <1>4, Easier

LEMMA CalmBounded ==
  ASSUME Base, Base', Bounded, Calm
  PROVE  Bounded'
  <1>1. Ready' = Ready /\ UNCHANGED <<fileSize, outPos, remaining, queue, inPos, buffer>>
    BY DEF Calm, Ready
  <1>2. Owed' = Owed
    BY <1>1 DEF Owed
  <1>3. InHand' = InHand
    BY <1>1 DEF InHand, Calm
  <1>4. (RewindAhead' <=> RewindAhead) /\ (WrapAhead => WrapAhead')
    BY DEF Calm, RewindAhead, WrapAhead
  <1>5. InHand' + inPos <= InHand + inPos'
    BY <1>1, <1>3, OwedFits DEF Fits
  <1>6. QED
    BY <1>1, <1>2, <1>4, <1>5, SameOutput

LEMMA CaptureBounded ==
  ASSUME Base, Base', Bounded, Alloc \/ Read \/ Rewind \/ Post \/ Enqueue
  PROVE  Bounded'
  <1> USE DEF inVars, outVars, history
  <1>1. UNCHANGED <<fileSize, outPos, remaining, Ready>> /\ pc'["record"] = pc["record"]
    BY Moved, MovedFlags, StepFile
       DEF Alloc, Read, ReadUpTo, Rewind, Post, Enqueue, Moves, Next, CaptureStep
  <1>2. Fits /\ Fits'
    BY OwedFits, PTL
  <1>3. CASE Alloc
    <2>1. UNCHANGED <<queue, inPos, wrapSem>> /\ Moves("capture", "alloc", "read")
      BY <1>3, Moved DEF Alloc
    <2>2. InHand' = 0 /\ InHand = 0
      BY <1>3, <2>1, NoChunk DEF Base, Alloc, Moves, InHand
    <2>3. InHand' + inPos <= InHand + inPos'
      BY <1>2, <2>1, <2>2 DEF Fits
    <2>4. Owed' = Owed /\ (RewindAhead => RewindAhead') /\ ~WrapAhead
      BY <1>1, <2>1 DEF Owed, RewindAhead, WrapAhead, Moves
    <2>5. QED
      BY <1>1, <2>3, <2>4, SameOutput
  <1>4. CASE Read
    <2>1. /\ UNCHANGED <<queue, wrapped, wrapSem>>
          /\ Moves("capture", "read", "read") \/ Moves("capture", "read", "post")
      BY <1>4, Moved DEF Read, ReadUpTo
    <2>2. PICK n \in 1 .. FrameSize - Len(buffer.bytes) :
            inPos' = inPos + n /\ Len(buffer'.bytes) = Len(buffer.bytes) + n
      BY <1>4, ReadChunk
    <2>3. InHand' = Len(buffer'.bytes) /\ InHand = Len(buffer.bytes)
      BY <2>1 DEF Moves, InHand
    <2>4. {n, Len(buffer.bytes), inPos} \subseteq Nat
      BY <1>2, <2>2, Chunks DEF Base, Types, Fits
    <2>5. InHand' + inPos <= InHand + inPos'
      BY <2>2, <2>3, <2>4
    <2>6. Owed' = Owed /\ (RewindAhead => RewindAhead') /\ (WrapAhead => WrapAhead')
      BY <1>1, <2>1 DEF Owed, RewindAhead, WrapAhead, Moves
    <2>7. QED
      BY <1>1, <2>5, <2>6, SameOutput
  <1>5. CASE Rewind
    <2>1. UNCHANGED <<queue, wrapSem>> /\ wrapped' = TRUE /\ Moves("capture", "rewind", "read")
      BY <1>5, Moved DEF Rewind
    <2>2. Owed' = Owed /\ (RewindAhead => RewindAhead') /\ WrapAhead'
      BY <1>1, <2>1 DEF Owed, RewindAhead, WrapAhead, Moves
    <2>3. QED
      BY <1>1, <2>2, SameOutput
  <1>6. CASE Post
    <2>1. /\ UNCHANGED <<queue, buffer, inPos, wrapped>> /\ Moves("capture", "post", "enqueue")
          /\ wrapSem' = IF wrapped THEN wrapSem + 1 ELSE wrapSem
      BY <1>6, Moved DEF Post
    <2>2. wrapSem \in Nat /\ wrapped \in BOOLEAN
      BY DEF Base, Types
    <2>3. Owed' = Owed /\ (RewindAhead => RewindAhead') /\ (WrapAhead => RewindAhead')
      BY <1>1, <2>1, <2>2 DEF Owed, RewindAhead, WrapAhead, Moves
    <2>4. InHand' = InHand
      BY <2>1 DEF InHand, Moves
    <2>5. InHand' + inPos <= InHand + inPos'
      BY <1>2, <2>1, <2>4 DEF Fits
    <2>6. QED
      BY <1>1, <2>3, <2>5, SameOutput
  <1>7. CASE Enqueue
    <2>1. /\ UNCHANGED <<inPos, wrapped, wrapSem>> /\ Moves("capture", "enqueue", "gate")
          /\ queue' = Append(queue, buffer)
      BY <1>7, Moved DEF Enqueue
    <2>2. InHand' = 0 /\ InHand = FrameSize
      BY <2>1 DEF InHand, Moves, Base, Sizes
    <2>3. Owed' = Owed + FrameSize
      <3>1. Len(queue') = Len(queue) + 1 /\ Len(queue) \in Nat /\ Ready \in Nat
        BY <2>1, Flags DEF Base, Types
      <3>2. Len(queue') + Ready' = (Len(queue) + Ready) + 1
        BY <1>1, <3>1
      <3>3. (Len(queue') + Ready') * FrameSize = (Len(queue) + Ready) * FrameSize + FrameSize
        BY <3>1, <3>2, Scale
      <3>4. (Len(queue) + Ready) * FrameSize \in Nat /\ remaining \in Nat
        BY <3>1, <1>2, Scale DEF Fits
      <3>5. QED
        BY <1>1, <3>3, <3>4 DEF Owed
    <2>4. ~WrapAhead /\ (RewindAhead' <=> RewindAhead)
      BY <1>1, <2>1 DEF RewindAhead, WrapAhead, Moves
    <2>5. {Owed, InHand, outPos, remaining, inPos, fileSize, PoolBytes, Owed', FrameSize} \subseteq Nat
      BY <1>2, Scale DEF Fits, PoolBytes
    <2>6. ~RewindAhead => /\ outPos + Owed + FrameSize <= inPos + PoolBytes
                          /\ outPos + Owed + FrameSize <= fileSize + PoolBytes
      BY <1>2, <2>2, <2>4, <2>5 DEF Bounded, Fits
    <2>7. ~RewindAhead' => outPos' + Owed' <= fileSize' + PoolBytes
      BY <1>1, <2>3, <2>4, <2>5, <2>6
    <2>8. ~RewindAhead' => outPos' + Owed' + InHand' <= inPos' + PoolBytes
      BY <1>1, <2>1, <2>2, <2>3, <2>4, <2>5, <2>6
    <2>9. outPos' + remaining' <= fileSize' + PoolBytes
      BY <1>1 DEF Bounded
    <2>10. QED
      BY <2>7, <2>8, <2>9 DEF Bounded, PoolBytes
  <1>8. QED
    BY <1>3, <1>4, <1>5, <1>6, <1>7

LEMMA RecordBounded ==
  ASSUME Base, Base', Bounded, Dequeue \/ TakeToken \/ SeekOutput \/ BeginWrite \/ Write
  PROVE  Bounded'
  <1> USE DEF inVars, outVars, history
  <1>1. UNCHANGED <<fileSize, inPos, InHand>> /\ (WrapAhead' <=> WrapAhead)
    <2>1. UNCHANGED <<fileSize, inPos, buffer, wrapped>> /\ pc'["capture"] = pc["capture"]
      BY Moved, StepFile
         DEF Dequeue, TakeToken, SeekOutput, BeginWrite, Write, Moves, Next, RecordStep
    <2>2. QED
      BY <2>1 DEF InHand, WrapAhead
  <1>2. Fits /\ Fits'
    BY OwedFits, PTL
  <1>3. InHand' + inPos <= InHand + inPos'
    BY <1>1, <1>2 DEF Fits
  <1>4. Len(queue) \in Nat /\ queue \in Seq(Chunk)
    BY DEF Base, Types
  <1>5. CASE Dequeue
    <2>1. /\ UNCHANGED <<wrapSem, outPos, remaining>> /\ Moves("record", "dequeue", "drain")
          /\ queue # <<>> /\ queue' = Tail(queue)
      BY <1>5, Moved DEF Dequeue
    <2>2. Len(queue') + Ready' = Len(queue) + Ready
      <3>1. Len(queue') = Len(queue) - 1
        BY <1>4, <2>1, HeadTailProperties
      <3>2. Ready = 0 /\ Ready' = 1
        BY <2>1 DEF Moves, Ready
      <3>3. QED
        BY <1>4, <3>1, <3>2
    <2>3. Owed' = Owed
      BY <2>1, <2>2 DEF Owed
    <2>4. RewindAhead => RewindAhead'
      BY <2>1 DEF RewindAhead, Moves
    <2>5. QED
      BY <1>1, <1>3, <2>1, <2>3, <2>4, SameOutput
  <1>6. CASE TakeToken
    <2>1. UNCHANGED <<queue, outPos, remaining>> /\ Moves("record", "drain", "seek")
      BY <1>6, Moved DEF TakeToken
    <2>2. Owed' = Owed /\ RewindAhead'
      BY <2>1 DEF Moves, Ready, Owed, RewindAhead
    <2>3. QED
      BY <1>1, <1>3, <2>1, <2>2, SameOutput
  <1>7. CASE SeekOutput
    <2>1. Rewound'
      BY <1>7, Moved DEF SeekOutput, Moves, Rewound
    <2>2. QED
      BY <2>1, RewoundBounded, PTL
  <1>8. CASE BeginWrite
    <2>1. /\ UNCHANGED <<queue, wrapSem, outPos>> /\ Moves("record", "drain", "write")
          /\ wrapSem = 0 /\ remaining' = FrameSize
      BY <1>8, Moved DEF BeginWrite
    <2>2. Ready = 1 /\ Ready' = 0 /\ remaining = 0
      BY <2>1 DEF Moves, Ready, Base, Sizes
    <2>3. Owed' = Owed /\ Owed = FrameSize + Len(queue) * FrameSize /\ Len(queue) * FrameSize \in Nat
      BY <1>4, <2>1, <2>2, Scale DEF Owed
    <2>4. ~RewindAhead /\ ~RewindAhead'
      BY <2>1 DEF RewindAhead, Moves
    <2>5. {Owed, InHand, outPos, inPos, fileSize, PoolBytes, Len(queue) * FrameSize, FrameSize} \subseteq Nat
      BY <1>2, <2>3, Scale DEF Fits, PoolBytes
    <2>6. outPos + Owed <= fileSize + PoolBytes
      BY <2>4 DEF Bounded
    <2>7. outPos + FrameSize <= fileSize + PoolBytes
      BY <2>3, <2>5, <2>6
    <2>8. outPos' + remaining' <= fileSize' + PoolBytes
      BY <1>1, <2>1, <2>7
    <2>9. outPos' + Owed' <= fileSize' + PoolBytes
      BY <1>1, <2>1, <2>3, <2>6
    <2>10. ~WrapAhead' => outPos' + Owed' + InHand' <= inPos' + PoolBytes
      BY <1>1, <2>1, <2>3, <2>4 DEF Bounded
    <2>11. QED
      BY <2>8, <2>9, <2>10 DEF Bounded, PoolBytes
  <1>9. CASE Write
    <2>1. PICK n \in 1 .. remaining : outPos' = outPos + n /\ remaining' = remaining - n
      BY <1>9 DEF Write
    <2>2. /\ UNCHANGED <<queue, wrapSem>>
          /\ Moves("record", "write", "write") \/ Moves("record", "write", "gate")
      BY <1>9, Moved DEF Write
    <2>3. Ready' = Ready /\ (RewindAhead => RewindAhead')
      BY <2>2 DEF Moves, Ready, RewindAhead
    <2>4. (Len(queue) + Ready) * FrameSize \in Nat /\ n \in Nat
      BY <1>2, <1>4, <2>1, Flags, Scale DEF Fits
    <2>5. Owed' = Owed - n
      BY <1>2, <2>1, <2>2, <2>3, <2>4 DEF Owed, Fits
    <2>6. {Owed, InHand, outPos, remaining, inPos, n} \subseteq Nat
      BY <1>2, <2>4 DEF Fits
    <2>7. outPos' + remaining' <= outPos + remaining
      BY <2>1, <2>6
    <2>8. outPos' + Owed' <= outPos + Owed
      BY <2>1, <2>5, <2>6
    <2>9. outPos' + Owed' + InHand' + inPos <= outPos + Owed + InHand + inPos'
      BY <1>1, <2>1, <2>5, <2>6
    <2>10. QED
      BY <1>1, <2>3, <2>7, <2>8, <2>9, Easier
  <1>10. QED
    BY <1>5, <1>6, <1>7, <1>8, <1>9

LEMMA ResetBounded ==
  ASSUME Base, Base', Bounded, ResetHalf, ResetOutput \/ ResetInput
  PROVE  Bounded'
  <1> USE DEF inVars, outVars, history
  <1>1. CASE ResetOutput
    <2>1. Rewound'
      <3>1. outPos' = 0 /\ remaining' = remaining /\ pc'["record"] = pc["record"]
        BY <1>1, Moved DEF ResetOutput, Moves, Base, Offsets
      <3>2. outPos' + remaining' <= FrameSize
        BY <3>1, OwedFits DEF Fits
      <3>3. QED
        BY <3>1, <3>2 DEF Rewound
    <2>2. QED
      BY <2>1, RewoundBounded, PTL
  <1>2. CASE ResetInput
    <2>1. Rewound'
      BY <1>2, Moved DEF ResetInput, Moves, ResetHalf, Rewound
    <2>2. QED
      BY <2>1, RewoundBounded, PTL
  <1>3. QED
    BY <1>1, <1>2

\* Between the two callbacks the output keeps its place but for one frame.
LEMMA ResetHalfNext ==
  ASSUME Base, Base', ResetHalf, [Next]_vars
  PROVE  ResetHalf'
  <1> SUFFICES ASSUME pc'["ui"] = "reset_input" PROVE Rewound'
    BY DEF ResetHalf
  <1> USE DEF inVars, outVars, history
  <1>1. {outPos, remaining, FrameSize} \subseteq Nat /\ remaining <= FrameSize
    BY OwedFits DEF Fits
  <1>2. CASE Calm
    BY <1>2 DEF Calm, ResetHalf, Rewound, Base, Sizes, Offsets
  <1>3. CASE Alloc \/ Read \/ Rewind \/ Post \/ Enqueue
    BY <1>3, Moved DEF Moves, ResetHalf, Rewound, Alloc, Read, ReadUpTo, Rewind, Post, Enqueue
  <1>4. CASE Dequeue \/ TakeToken \/ SeekOutput
    BY <1>4, Moved DEF Moves, ResetHalf, Rewound, Dequeue, TakeToken, SeekOutput
  <1>5. CASE BeginWrite
    <2>1. outPos' = 0 /\ remaining' = FrameSize /\ pc'["record"] = "write"
      BY <1>5, Moved DEF Moves, ResetHalf, Rewound, BeginWrite
    <2>2. QED
      BY <1>1, <2>1 DEF Rewound
  <1>6. CASE Write
    <2>1. PICK n \in 1 .. remaining : outPos' = outPos + n /\ remaining' = remaining - n
      BY <1>6 DEF Write
    <2>2. outPos + remaining <= FrameSize /\ pc'["record"] \in {"write", "gate"}
      BY <1>6, Moved DEF Moves, ResetHalf, Rewound
    <2>3. n \in Nat
      BY <1>1, <2>1
    <2>4. outPos' + remaining' <= FrameSize
      BY <1>1, <2>1, <2>2, <2>3
    <2>5. QED
      BY <2>2, <2>4 DEF Rewound
  <1>7. CASE ResetOutput
    <2>1. outPos' = 0 /\ remaining' = remaining /\ pc'["record"] = pc["record"]
      BY <1>7, Moved DEF ResetOutput, Moves, Base, Offsets
    <2>2. QED
      BY <1>1, <2>1 DEF Rewound
  <1>8. CASE ResetInput
    BY <1>8, Moved DEF Moves
  <1>9. QED
    BY <1>2, <1>3, <1>4, <1>5, <1>6, <1>7, <1>8, CalmSteps
       DEF Next, CaptureStep, RecordStep, UiStep

LEMMA BoundedNext ==
  ASSUME Base, Base', Bounded, ResetHalf, [Next]_vars
  PROVE  Bounded'
  BY CalmSteps, CalmBounded, CaptureBounded, RecordBounded, ResetBounded
     DEF Next, CaptureStep, RecordStep, UiStep

LEMMA BoundedRecording == Base /\ Bounded => RecordingBounded
  <1> SUFFICES ASSUME Base, Bounded PROVE RecordingBounded
    OBVIOUS
  <1>1. {outPos, remaining, fileSize, PoolBytes} \subseteq Nat
    BY OwedFits, Scale DEF Fits, PoolBytes
  <1>2. outPos <= fileSize + PoolBytes
    BY <1>1 DEF Bounded
  <1>3. QED
    BY <1>2 DEF RecordingBounded, PoolBytes

\* No wrap token is lost and none comes too late, nor does a restart between a
\* token and its rewind: the output never grows beyond the input by more than
\* the frames the pool holds (capture.c:77, record.c:50-57, ui.c:61).
THEOREM StaysAsLongAsInput == Spec => []RecordingBounded
  <1>1. Init => Base /\ Bounded /\ ResetHalf
    BY BaseInit, BoundedInit
  <1>2. Base /\ Bounded /\ ResetHalf /\ [Next]_vars => (Base /\ Bounded /\ ResetHalf)'
    BY BaseNext, BoundedNext, ResetHalfNext
  <1>3. Base /\ Bounded => RecordingBounded
    BY BoundedRecording
  <1>4. QED
    BY <1>1, <1>2, <1>3, PTL DEF Spec

-----------------------------------------------------------------------------
(* The frames are successive pieces of the looped input *)

\* In an input of m bytes: a frame of successive bytes, one that begins where the
\* frame before it ended (or at the start, after a restart), and a sequence of
\* such frames.
Whole(f, m) ==
  f.bytes # <<>> /\ \A k \in 1 .. Len(f.bytes) - 1 : f.bytes[k + 1] = (f.bytes[k] + 1) % m
LastByte(f) == f.bytes[Len(f.bytes)]
Joined(e, f, m) == f.bytes[1] = IF f.first THEN 0 ELSE (LastByte(e) + 1) % m
Chain(s, m) ==
  /\ \A i \in 1 .. Len(s) : Whole(s[i], m)
  /\ \A i \in 2 .. Len(s) : Joined(s[i - 1], s[i], m)

LEMMA ChainAppend ==
  ASSUME NEW S, NEW s \in Seq(S), NEW f \in S, NEW m
  PROVE  Chain(Append(s, f), m) <=>
           /\ Chain(s, m) /\ Whole(f, m)
           /\ s # <<>> => Joined(s[Len(s)], f, m)
  <1> DEFINE t == Append(s, f)
  <1>1. /\ Len(s) \in Nat /\ Len(t) = Len(s) + 1 /\ t[Len(t)] = f
        /\ \A i \in 1 .. Len(s) : t[i] = s[i]
        /\ s # <<>> => Len(s) \in Nat \ {0}
        /\ s = <<>> => Len(s) = 0
    BY AppendProperties, LenProperties, EmptySeq
  <1> HIDE DEF t
  <1>2. (\A i \in 1 .. Len(t) : Whole(t[i], m)) <=> (\A i \in 1 .. Len(s) : Whole(s[i], m)) /\ Whole(f, m)
    <2>1. \A i \in 1 .. Len(t) : i \in 1 .. Len(s) \/ i = Len(t)
      BY <1>1
    <2>2. \A i \in 1 .. Len(s) : i \in 1 .. Len(t)
      BY <1>1
    <2>3. Len(t) \in 1 .. Len(t)
      BY <1>1
    <2>4. QED
      BY <1>1, <2>1, <2>2, <2>3
  <1>3. (\A i \in 2 .. Len(t) : Joined(t[i - 1], t[i], m)) <=>
          /\ \A i \in 2 .. Len(s) : Joined(s[i - 1], s[i], m)
          /\ s # <<>> => Joined(s[Len(s)], f, m)
    <2>1. \A i \in 2 .. Len(t) : i \in 2 .. Len(s) \/ (i = Len(t) /\ s # <<>>)
      BY <1>1
    <2>2. \A i \in 2 .. Len(s) : i \in 2 .. Len(t) /\ t[i - 1] = s[i - 1] /\ t[i] = s[i]
      BY <1>1
    <2>3. s # <<>> => Len(t) \in 2 .. Len(t) /\ t[Len(t) - 1] = s[Len(s)] /\ t[Len(t)] = f
      BY <1>1
    <2>4. QED
      BY <2>1, <2>2, <2>3
  <1>4. QED
    BY <1>2, <1>3 DEF Chain, t

LEMMA ChainTail ==
  ASSUME NEW S, NEW s \in Seq(S), s # <<>>, NEW m, Chain(s, m)
  PROVE  Chain(Tail(s), m) /\ (Tail(s) # <<>> => Tail(s)[Len(Tail(s))] = s[Len(s)])
  <1>1. /\ Len(s) \in Nat \ {0} /\ Len(Tail(s)) = Len(s) - 1 /\ Tail(s) \in Seq(S)
        /\ \A i \in 1 .. Len(s) - 1 : Tail(s)[i] = s[i + 1]
        /\ Tail(s) # <<>> => Len(Tail(s)) \in Nat \ {0}
    BY HeadTailProperties, EmptySeq
  <1>2. \A i \in 1 .. Len(s) - 1 : Whole(Tail(s)[i], m)
    BY <1>1 DEF Chain
  <1>3. \A i \in 2 .. Len(s) - 1 : Joined(Tail(s)[i - 1], Tail(s)[i], m)
    <2>1. TAKE i \in 2 .. Len(s) - 1
    <2>2. i + 1 \in 2 .. Len(s) /\ Tail(s)[i - 1] = s[(i + 1) - 1] /\ Tail(s)[i] = s[i + 1]
      BY <1>1
    <2>3. QED
      BY <2>2 DEF Chain
  <1>4. QED
    BY <1>1, <1>2, <1>3 DEF Chain

\* The place of a byte in the looped input.
LEMMA Modulus ==
  ASSUME NEW m \in Nat \ {0}, NEW x \in 0 .. m - 1
  PROVE  x % m = x /\ m % m = 0 /\ 0 % m = 0
  OBVIOUS

\* The frames capture has handed over and record has not yet written; and whether
\* capture is in a frame.
Ahead == (IF pc["record"] \in {"drain", "seek", "write"} THEN <<frame>> ELSE <<>>) \o queue
Begun ==
  \/ pc["capture"] \in {"post", "enqueue"}
  \/ pc["capture"] \in {"read", "rewind"} /\ buffer.bytes # <<>>

\* The frames are pieces of the looped input, each joined to the one before it,
\* and the next read takes up where the last one ended.
Gapless ==
  ~cut =>
    /\ Chain(Ahead, fileSize)
    /\ Begun => /\ Whole(buffer, fileSize)
                /\ Ahead # <<>> => Joined(Ahead[Len(Ahead)], buffer, fileSize)
    /\ ~jump => LET next == inPos % fileSize IN
                /\ Begun => next = (LastByte(buffer) + 1) % fileSize
                /\ ~Begun /\ Ahead # <<>> => next = (LastByte(Ahead[Len(Ahead)]) + 1) % fileSize
    /\ jump /\ pc["capture"] \in {"read", "rewind"} => buffer.bytes = <<>>

LEMMA AheadSeq == Base => Ahead \in Seq(Chunk)
  <1> SUFFICES ASSUME Base PROVE Ahead \in Seq(Chunk)
    OBVIOUS
  <1>1. queue \in Seq(Chunk) /\ <<frame>> \in Seq(Chunk) /\ <<>> \in Seq(Chunk)
    BY EmptySeq DEF Base, Types
  <1>2. QED
    BY <1>1, ConcatProperties DEF Ahead

LEMMA GaplessInit == Init => Gapless
  <1> SUFFICES ASSUME Init PROVE Gapless
    OBVIOUS
  <1>1. Ahead = <<>> /\ ~Begun
    <2>1. <<>> \o <<>> = <<>>
      BY ConcatEmptySeq, EmptySeq
    <2>2. QED
      BY <2>1 DEF Init, Ahead, Begun
  <1>2. Chain(<<>>, fileSize)
    BY EmptySeq DEF Chain
  <1>3. QED
    BY <1>1, <1>2 DEF Gapless, Init

\* The steps that leave the frames and the place in the input as they are.
LEMMA SameFrames ==
  ASSUME Gapless, UNCHANGED <<fileSize, Ahead, buffer, jump, cut>>, Begun' <=> Begun,
         inPos' % fileSize = inPos % fileSize,
         pc'["capture"] \in {"read", "rewind"} => pc["capture"] \in {"read", "rewind"}
  PROVE  Gapless'
  BY DEF Gapless

LEMMA CalmGapless ==
  ASSUME Base, Gapless, Calm
  PROVE  Gapless'
  <1>1. Ahead' = Ahead /\ (Begun' <=> Begun)
    BY DEF Calm, Ahead, Begun
  <1>2. \/ pc'["capture"] \notin {"read", "rewind"}
        \/ pc["capture"] \in {"read", "rewind"}
    BY DEF Calm
  <1>3. QED
    BY <1>1, <1>2, SameFrames DEF Calm

\* What a read makes of the frame.
LEMMA ReadBytes ==
  ASSUME Base, Read
  PROVE  \E n \in Nat \ {0} : LET b == buffer.bytes
                                  c == buffer'.bytes
                                  l == Len(b)
                              IN
           /\ l \in Nat /\ Len(c) = l + n /\ c # <<>>
           /\ \A i \in 1 .. l : c[i] = b[i]
           /\ \A i \in 1 .. n : c[l + i] = inPos + i - 1
           /\ inPos + n <= fileSize /\ inPos' = inPos + n
           /\ buffer'.first = (IF b = <<>> THEN jump ELSE buffer.first)
  <1>1. PICK n \in 1 .. FrameSize - Len(buffer.bytes) :
          /\ inPos + n <= fileSize
          /\ buffer'.bytes = buffer.bytes \o Piece(inPos, n)
          /\ buffer'.first = (IF buffer.bytes = <<>> THEN jump ELSE buffer.first)
          /\ inPos' = inPos + n
    BY ReadChunk
  <1>2. /\ buffer.bytes \in Seq(0 .. fileSize - 1) /\ Len(buffer.bytes) \in Nat
        /\ fileSize \in Nat /\ inPos \in Nat /\ n \in Nat \ {0}
    BY Chunks, <1>1 DEF Base, Types
  <1> DEFINE s == Piece(inPos, n)
             c == buffer.bytes \o s
             l == Len(buffer.bytes)
  <1>3. s \in Seq(0 .. fileSize - 1) /\ Len(s) = n /\ \A i \in 1 .. n : s[i] = inPos + i - 1
    BY <1>1, <1>2, PieceBytes
  <1> HIDE DEF s
  <1>4. /\ c \in Seq(0 .. fileSize - 1) /\ Len(c) = l + n
        /\ \A i \in 1 .. l + n : c[i] = IF i <= l THEN buffer.bytes[i] ELSE s[i - l]
    BY <1>2, <1>3, ConcatProperties
  <1> HIDE DEF c
  <1>0. l \in Nat /\ n \in Nat
    BY <1>2
  <1> HIDE DEF l
  <1>5. \A i \in 1 .. l : c[i] = buffer.bytes[i]
    <2> TAKE i \in 1 .. l
    <2>1. i \in 1 .. l + n /\ i <= l
      BY <1>0, JoinedPositions
    <2>2. QED
      BY <1>4, <2>1
  <1>6. \A i \in 1 .. n : c[l + i] = inPos + i - 1
    <2> TAKE i \in 1 .. n
    <2>2. l + i \in 1 .. l + n /\ ~(l + i <= l) /\ (l + i) - l = i
      BY <1>0, JoinedPositions
    <2>3. c[l + i] = s[i]
      BY <1>4, <2>2
    <2>4. QED
      BY <1>3, <2>3
  <1>7. c # <<>>
    <2>1. Len(c) # 0
      BY <1>0, <1>2, <1>4
    <2>2. QED
      BY <1>4, <2>1, EmptySeq
  <1>8. buffer'.bytes = c
    BY <1>1 DEF c, s
  <1>9. QED
    BY <1>0, <1>1, <1>2, <1>4, <1>5, <1>6, <1>7, <1>8 DEF l

LEMMA ReadGapless ==
  ASSUME Base, Gapless, Read
  PROVE  Gapless'
  <1> SUFFICES ASSUME ~cut PROVE Gapless'
    BY DEF Gapless, Read, ReadUpTo
  <1> DEFINE b == buffer.bytes
             c == buffer'.bytes
             l == Len(b)
             m == fileSize
  <1>1. /\ UNCHANGED <<fileSize, queue, frame, cut>> /\ jump' = FALSE
        /\ pc["capture"] = "read"
        /\ Moves("capture", "read", "read") \/ Moves("capture", "read", "post")
    BY Moved DEF Read, ReadUpTo, outVars
  <1>2. Ahead' = Ahead
    BY <1>1 DEF Ahead, Moves
  <1>3. PICK n \in Nat \ {0} :
           /\ l \in Nat /\ Len(c) = l + n /\ c # <<>>
           /\ \A i \in 1 .. l : c[i] = b[i]
           /\ \A i \in 1 .. n : c[l + i] = inPos + i - 1
           /\ inPos + n <= fileSize /\ inPos' = inPos + n
           /\ buffer'.first = (IF b = <<>> THEN jump ELSE buffer.first)
    BY ReadBytes
  <1>4. /\ m \in Nat \ {0} /\ inPos \in 0 .. m /\ inPos \in 0 .. m - 1
        /\ b # <<>> => l \in Nat \ {0}
        /\ jump => inPos = 0
    BY <1>3, Chunks, EmptySeq DEF Base, Types, Offsets
  <1>5. Begun'
    BY <1>1, <1>3 DEF Begun, Moves
  <1>6. \A k \in 1 .. n - 1 : c[l + k + 1] = (c[l + k] + 1) % m
    <2>0. l \in Nat /\ inPos + n <= m
      BY <1>3
    <2> TAKE k \in 1 .. n - 1
    <2>1. k \in 1 .. n /\ k + 1 \in 1 .. n /\ l + (k + 1) = l + k + 1
      BY <2>0, NextPosition
    <2>2. c[l + k] = inPos + k - 1 /\ c[l + (k + 1)] = inPos + (k + 1) - 1
      BY <1>3, <2>1
    <2>3. inPos + k \in 0 .. m - 1
      BY <1>4, <2>0
    <2>4. (inPos + k) % m = inPos + k
      BY <1>4, <2>3, Modulus
    <2>5. (inPos + k - 1) + 1 = inPos + k /\ inPos + (k + 1) - 1 = inPos + k
      BY <1>4
    <2>6. QED
      BY <2>1, <2>2, <2>4, <2>5
  <1>7. inPos % m = inPos
    BY <1>4, Modulus
  <1>8. c[l + 1] = inPos
    BY <1>3, <1>4
  <1>9. Whole(buffer', m) /\ (Ahead # <<>> => Joined(Ahead[Len(Ahead)], buffer', m))
    <2>1. CASE b = <<>>
      <3>1. l = 0 /\ buffer'.first = jump /\ ~Begun
        BY <1>1, <1>3, <2>1, EmptySeq DEF Begun
      <3>2. \A k \in 1 .. Len(c) - 1 : c[k + 1] = (c[k] + 1) % m
        <4>1. TAKE k \in 1 .. Len(c) - 1
        <4>2. k \in 1 .. n - 1 /\ l + k = k /\ l + k + 1 = k + 1
          BY <1>3, <3>1
        <4>3. QED
          BY <1>6, <4>2
      <3>3. c[1] = inPos
        BY <1>8, <3>1
      <3>4. ~jump /\ Ahead # <<>> => c[1] = (LastByte(Ahead[Len(Ahead)]) + 1) % m
        BY <1>7, <3>1, <3>3 DEF Gapless
      <3>5. jump => c[1] = 0
        BY <1>4, <3>3
      <3>6. QED
        BY <1>3, <3>1, <3>2, <3>4, <3>5 DEF Whole, Joined
    <2>2. CASE b # <<>>
      <3>1. Begun /\ ~jump /\ buffer'.first = buffer.first /\ l \in Nat \ {0}
        BY <1>1, <1>3, <1>4, <2>2 DEF Begun, Gapless
      <3>2. c[l + 1] = (b[l] + 1) % m
        BY <1>7, <1>8, <3>1 DEF Gapless, LastByte
      <3>3. ASSUME NEW k \in 1 .. Len(c) - 1
            PROVE  c[k + 1] = (c[k] + 1) % m
        <4>1. CASE k < l
          <5>1. k \in 1 .. l - 1 /\ k \in 1 .. l /\ k + 1 \in 1 .. l
            BY <3>1, <4>1
          <5>2. b[k + 1] = (b[k] + 1) % m
            BY <3>1, <5>1 DEF Gapless, Whole
          <5>3. QED
            BY <1>3, <5>1, <5>2
        <4>2. CASE k = l
          BY <1>3, <3>1, <3>2, <4>2
        <4>3. CASE k > l
          <5>1. k - l \in 1 .. n - 1 /\ l + (k - l) = k /\ l + (k - l) + 1 = k + 1
            BY <1>3, <4>3
          <5>2. QED
            BY <1>6, <5>1
        <4>4. QED
          BY <1>3, <4>1, <4>2, <4>3
      <3>4. c[1] = b[1]
        BY <1>3, <3>1
      <3>5. QED
        BY <1>3, <3>1, <3>3, <3>4 DEF Gapless, Whole, Joined
    <2>3. QED
      BY <2>1, <2>2
  <1>10. inPos' % m = (LastByte(buffer') + 1) % m
    <2>1. c[l + n] = inPos + n - 1 /\ Len(c) = l + n
      BY <1>3
    <2>2. LastByte(buffer') = inPos + n - 1 /\ inPos' = inPos + n
      <3>1. c[Len(c)] = inPos + n - 1
        BY <2>1
      <3>2. QED
        BY <1>3, <3>1 DEF LastByte
    <2>3. (inPos + n - 1) + 1 = inPos + n
      BY <1>4
    <2>4. QED
      BY <2>2, <2>3
  <1>11. Chain(Ahead, m)
    BY DEF Gapless
  <1>12. QED
    BY <1>1, <1>2, <1>5, <1>9, <1>10, <1>11 DEF Gapless

LEMMA CaptureGapless ==
  ASSUME Base, Gapless, Alloc \/ Rewind \/ Post \/ Enqueue
  PROVE  Gapless'
  <1> USE DEF inVars, outVars, history
  <1>1. UNCHANGED <<fileSize, frame, jump, cut>> /\ pc'["record"] = pc["record"]
    BY Moved, StepFile DEF Alloc, Rewind, Post, Enqueue, Moves, Next, CaptureStep
  <1>2. CASE Alloc
    <2>1. Moves("capture", "alloc", "read") /\ UNCHANGED <<queue, inPos>> /\ buffer'.bytes = <<>>
      BY <1>2, Moved, NoChunk DEF Alloc, Base
    <2>2. Ahead' = Ahead /\ ~Begun /\ ~Begun'
      BY <1>1, <2>1 DEF Ahead, Begun, Moves
    <2>3. QED
      BY <1>1, <2>1, <2>2 DEF Gapless
  <1>3. CASE Rewind
    <2>1. Moves("capture", "rewind", "read") /\ UNCHANGED <<queue, buffer>> /\ inPos' = 0
      BY <1>3, Moved DEF Rewind
    <2>2. Ahead' = Ahead /\ (Begun' <=> Begun)
      BY <1>1, <2>1 DEF Ahead, Begun, Moves
    <2>3. inPos \in {0, fileSize} /\ fileSize \in Nat \ {0}
      BY <2>1 DEF Moves, Base, Offsets, Types
    <2>4. inPos' % fileSize = 0 /\ inPos % fileSize = 0
      BY <2>1, <2>3, Modulus
    <2>5. inPos' % fileSize' = inPos % fileSize
      BY <1>1, <2>4
    <2>6. pc["capture"] \in {"read", "rewind"}
      BY <2>1 DEF Moves
    <2>7. QED
      BY <1>1, <2>1, <2>2, <2>4, <2>6, SameFrames
  <1>4. CASE Post
    <2>1. Moves("capture", "post", "enqueue") /\ UNCHANGED <<queue, buffer, inPos>>
      BY <1>4, Moved DEF Post
    <2>2. /\ Ahead' = Ahead /\ (Begun' <=> Begun)
          /\ pc'["capture"] \notin {"read", "rewind"}
      BY <1>1, <2>1 DEF Ahead, Begun, Moves
    <2>3. QED
      BY <1>1, <2>1, <2>2, SameFrames
  <1>5. CASE Enqueue
    <2>1. Moves("capture", "enqueue", "gate") /\ UNCHANGED inPos /\ queue' = Append(queue, buffer)
      BY <1>5, Moved DEF Enqueue
    <2>2. Begun /\ ~Begun' /\ pc'["capture"] \notin {"read", "rewind"}
      BY <2>1 DEF Begun, Moves
    <2>3. queue \in Seq(Chunk) /\ buffer \in Chunk /\ frame \in Chunk /\ Ahead \in Seq(Chunk)
      BY AheadSeq DEF Base, Types
    <2>4. Ahead' = Append(Ahead, buffer)
      <3> DEFINE h == IF pc["record"] \in {"drain", "seek", "write"} THEN <<frame>> ELSE <<>>
      <3>1. h \in Seq(Chunk) /\ <<buffer>> \in Seq(Chunk)
        BY <2>3, EmptySeq
      <3>2. Ahead = h \o queue /\ Ahead' = h \o queue'
        BY <1>1 DEF Ahead
      <3> HIDE DEF h
      <3>3. queue' = queue \o <<buffer>>
        <4>1. queue \in Seq(Chunk) /\ buffer \in Chunk /\ queue' = Append(queue, buffer)
          BY <2>1, <2>3
        <4>2. QED
          BY ONLY <4>1, AppendIsConcat
      <3>4. Append(Ahead, buffer) = Ahead \o <<buffer>>
        <4>1. Ahead \in Seq(Chunk) /\ buffer \in Chunk
          BY <2>3
        <4>2. QED
          BY ONLY <4>1, AppendIsConcat
      <3>5. (h \o queue) \o <<buffer>> = h \o (queue \o <<buffer>>)
        <4>1. h \in Seq(Chunk) /\ queue \in Seq(Chunk) /\ <<buffer>> \in Seq(Chunk)
          BY <2>3, <3>1
        <4>2. QED
          BY ONLY <4>1, ConcatAssociative
      <3>6. QED
        BY <3>2, <3>3, <3>4, <3>5
    <2>5. /\ Ahead' # <<>> /\ Ahead'[Len(Ahead')] = buffer
      BY <2>3, <2>4, AppendProperties
    <2>6. ~cut => Chain(Ahead', fileSize)
      BY <2>2, <2>3, <2>4, ChainAppend DEF Gapless
    <2>7. ~cut /\ ~jump => inPos % fileSize = (LastByte(buffer) + 1) % fileSize
      BY <2>2 DEF Gapless
    <2>8. QED
      BY <1>1, <2>1, <2>2, <2>5, <2>6, <2>7 DEF Gapless
  <1>6. QED
    BY <1>2, <1>3, <1>4, <1>5

LEMMA RecordGapless ==
  ASSUME Base, Gapless, Dequeue \/ TakeToken \/ SeekOutput \/ BeginWrite \/ Write
  PROVE  Gapless'
  <1> USE DEF inVars, outVars, history
  <1>1. UNCHANGED <<fileSize, inPos, buffer, jump, cut>> /\ pc'["capture"] = pc["capture"]
    BY Moved, StepFile DEF Dequeue, TakeToken, SeekOutput, BeginWrite, Write, Moves, Next, RecordStep
  <1>2. Begun' <=> Begun
    BY <1>1 DEF Begun
  <1>3. queue \in Seq(Chunk) /\ frame \in Chunk /\ Ahead \in Seq(Chunk)
    BY AheadSeq DEF Base, Types
  <1>4. CASE Ahead' = Ahead
    BY <1>1, <1>2, <1>4, SameFrames
  <1>5. CASE Dequeue
    <2>1. /\ Moves("record", "dequeue", "drain")
          /\ queue # <<>> /\ frame' = Head(queue) /\ queue' = Tail(queue)
      BY <1>5, Moved DEF Dequeue
    <2>2. Ahead = queue /\ Ahead' = <<Head(queue)>> \o Tail(queue)
      <3>1. Ahead = <<>> \o queue
        BY <2>1 DEF Ahead, Moves
      <3>2. Ahead' = <<Head(queue)>> \o Tail(queue)
        BY <2>1 DEF Ahead, Moves
      <3>3. QED
        BY <1>3, <3>1, <3>2, ConcatEmptySeq
    <2>3. <<Head(queue)>> \o Tail(queue) = queue
      <3> DEFINE t == <<Head(queue)>> \o Tail(queue)
      <3>1. /\ Head(queue) = queue[1] /\ Head(queue) \in Chunk /\ Tail(queue) \in Seq(Chunk)
            /\ Len(queue) \in Nat \ {0} /\ Len(Tail(queue)) = Len(queue) - 1
            /\ \A i \in 1 .. Len(queue) - 1 : Tail(queue)[i] = queue[i + 1]
        BY <1>3, <2>1, HeadTailProperties, EmptySeq
      <3>2. /\ <<Head(queue)>> \in Seq(Chunk) /\ Len(<<Head(queue)>>) = 1
            /\ <<Head(queue)>>[1] = queue[1]
        BY <3>1
      <3>3. t \in Seq(Chunk) /\ Len(t) = Len(queue)
        BY <3>1, <3>2, ConcatProperties
      <3>4. \A i \in 1 .. Len(queue) : t[i] = queue[i]
        <4>1. TAKE i \in 1 .. Len(queue)
        <4>2. t[i] = IF i <= 1 THEN <<Head(queue)>>[i] ELSE Tail(queue)[i - 1]
          BY <3>1, <3>2, ConcatProperties
        <4>3. QED
          BY <3>1, <3>2, <4>2
      <3> HIDE DEF t
      <3>5. t = queue
        BY <1>3, <3>3, <3>4, SeqEqual
      <3>6. QED
        BY <3>5 DEF t
    <2>4. QED
      BY <1>4, <2>2, <2>3
  <1>6. CASE TakeToken
    <2>1. Ahead' = Ahead
      BY <1>6, Moved DEF TakeToken, Moves, Ahead
    <2>2. QED
      BY <1>4, <2>1
  <1>7. CASE SeekOutput
    <2>1. Ahead' = Ahead
      BY <1>7, Moved DEF SeekOutput, Moves, Ahead
    <2>2. QED
      BY <1>4, <2>1
  <1>8. CASE BeginWrite
    <2>1. Ahead' = Ahead
      BY <1>8, Moved DEF BeginWrite, Moves, Ahead
    <2>2. QED
      BY <1>4, <2>1
  <1>9. CASE Write
    <2>1. CASE Moves("record", "write", "write")
      <3>1. Ahead' = Ahead
        BY <1>9, <2>1 DEF Write, Moves, Ahead
      <3>2. QED
        BY <1>4, <3>1
    <2>2. CASE Moves("record", "write", "gate")
      <3>1. Ahead = <<frame>> \o queue /\ Ahead' = <<>> \o queue
        BY <1>9, <2>2 DEF Write, Moves, Ahead
      <3>2. Ahead # <<>> /\ Tail(Ahead) = queue
        <4>1. <<frame>> \in Seq(Chunk) /\ Len(<<frame>>) = 1 /\ Len(queue) \in Nat
          BY <1>3
        <4>2. /\ Len(Ahead) = 1 + Len(queue)
              /\ \A i \in 1 .. 1 + Len(queue) :
                   Ahead[i] = IF i <= 1 THEN <<frame>>[i] ELSE queue[i - 1]
          BY <1>3, <3>1, <4>1, ConcatProperties
        <4>3. Ahead # <<>>
          BY <4>1, <4>2, EmptySeq
        <4>4. /\ Tail(Ahead) \in Seq(Chunk) /\ Len(Tail(Ahead)) = Len(queue)
              /\ \A i \in 1 .. Len(queue) : Tail(Ahead)[i] = Ahead[i + 1]
          BY <1>3, <4>1, <4>2, <4>3, HeadTailProperties
        <4>5. \A i \in 1 .. Len(queue) : Tail(Ahead)[i] = queue[i]
          BY <4>1, <4>2, <4>4
        <4>6. QED
          BY <1>3, <4>3, <4>4, <4>5, SeqEqual
      <3>3. Ahead' = Tail(Ahead)
        BY <1>3, <3>1, <3>2, ConcatEmptySeq
      <3>4. ~cut => Chain(Ahead', fileSize) /\ (Ahead' # <<>> => Ahead'[Len(Ahead')] = Ahead[Len(Ahead)])
        BY <1>3, <3>2, <3>3, ChainTail DEF Gapless
      <3>5. QED
        BY <1>1, <1>2, <3>2, <3>4 DEF Gapless
    <2>3. QED
      BY <1>9, <2>1, <2>2, Moved
  <1>10. QED
    BY <1>5, <1>6, <1>7, <1>8, <1>9

LEMMA ResetGapless ==
  ASSUME Base, Gapless, ResetOutput \/ ResetInput
  PROVE  Gapless'
  <1> USE DEF inVars, outVars, history
  <1>1. /\ UNCHANGED <<fileSize, buffer, queue, frame>>
        /\ pc'["capture"] = pc["capture"] /\ pc'["record"] = pc["record"]
    BY Moved, StepFile DEF ResetOutput, ResetInput, Moves, Next, UiStep
  <1>2. Ahead' = Ahead /\ (Begun' <=> Begun)
    BY <1>1 DEF Ahead, Begun
  <1>3. CASE ResetOutput
    BY <1>1, <1>2, <1>3, SameFrames DEF ResetOutput
  <1>4. CASE ResetInput
    <2>1. jump' = TRUE /\ (~cut' => ~cut /\ (pc["capture"] \in {"read", "rewind"} => buffer.bytes = <<>>))
      BY <1>4 DEF ResetInput, Base, Types
    <2>2. QED
      BY <1>1, <1>2, <2>1 DEF Gapless
  <1>5. QED
    BY <1>3, <1>4

LEMMA GaplessNext == Base /\ Gapless /\ [Next]_vars => Gapless'
  BY CalmSteps, CalmGapless, ReadGapless, CaptureGapless, RecordGapless, ResetGapless
     DEF Next, CaptureStep, RecordStep, UiStep

\* The frames on their way, when they are all whole.
LEMMA StreamChain ==
  ASSUME Base, Gapless, ~cut
  PROVE  Chain(Stream, fileSize) /\ Stream \in Seq(Chunk)
  <1>1. Ahead \in Seq(Chunk) /\ buffer \in Chunk
    BY AheadSeq DEF Base, Types
  <1>2. CASE pc["capture"] \in {"post", "enqueue"}
    <2>1. Stream = Ahead \o <<buffer>> /\ Begun
      BY <1>2 DEF Stream, Ahead, Begun
    <2>2. Stream = Append(Ahead, buffer)
      BY <1>1, <2>1, AppendIsConcat
    <2>3. /\ Chain(Ahead, fileSize) /\ Whole(buffer, fileSize)
          /\ Ahead # <<>> => Joined(Ahead[Len(Ahead)], buffer, fileSize)
      BY <2>1 DEF Gapless
    <2>4. Chain(Append(Ahead, buffer), fileSize)
      BY <1>1, <2>3, ChainAppend
    <2>5. QED
      BY <1>1, <2>2, <2>4, AppendProperties
  <1>3. CASE pc["capture"] \notin {"post", "enqueue"}
    <2>1. Stream = Ahead \o <<>>
      BY <1>3 DEF Stream, Ahead
    <2>2. Stream = Ahead
      BY <1>1, <2>1, ConcatEmptySeq
    <2>3. QED
      BY <1>1, <2>2 DEF Gapless
  <1>4. QED
    BY <1>2, <1>3

\* Two sequences of whole frames make one.
LEMMA WholeJoined ==
  ASSUME NEW s \in Seq(Chunk), NEW t \in Seq(Chunk),
         \A i \in 1 .. Len(s) : Len(s[i].bytes) = FrameSize,
         \A i \in 1 .. Len(t) : Len(t[i].bytes) = FrameSize
  PROVE  /\ s \o t \in Seq(Chunk)
         /\ \A i \in 1 .. Len(s \o t) : Len((s \o t)[i].bytes) = FrameSize
  <1> DEFINE a == Len(s)  b == Len(t)
  <1>1. a \in Nat /\ b \in Nat
    BY LenProperties
  <1>2. /\ s \o t \in Seq(Chunk) /\ Len(s \o t) = a + b
        /\ \A i \in 1 .. a + b : (s \o t)[i] = IF i <= a THEN s[i] ELSE t[i - a]
    BY ConcatProperties
  <1>3. /\ \A i \in 1 .. a : Len(s[i].bytes) = FrameSize
        /\ \A i \in 1 .. b : Len(t[i].bytes) = FrameSize
    OBVIOUS
  <1> HIDE DEF a, b
  <1>4. ASSUME NEW i \in 1 .. a + b
        PROVE  Len((s \o t)[i].bytes) = FrameSize
    <2>1. CASE i \in 1 .. a
      <3>1. (s \o t)[i] = s[i]
        BY <1>1, <1>2, <2>1
      <3>2. QED
        BY <1>3, <2>1, <3>1
    <2>2. CASE ~(i <= a) /\ i - a \in 1 .. b
      BY <1>2, <1>3, <2>2
    <2>3. QED
      BY <1>1, <2>1, <2>2, JoinedPositions
  <1>5. QED
    BY <1>2, <1>4

\* A frame on its way is a frame read to its end.
LEMMA StreamWhole ==
  ASSUME Base
  PROVE  \A i \in 1 .. Len(Stream) : Len(Stream[i].bytes) = FrameSize
  <1> DEFINE h == IF pc["record"] \in {"drain", "seek", "write"} THEN <<frame>> ELSE <<>>
             b == IF pc["capture"] \in {"post", "enqueue"} THEN <<buffer>> ELSE <<>>
  <1>1. /\ h \in Seq(Chunk) /\ b \in Seq(Chunk) /\ queue \in Seq(Chunk)
        /\ \A i \in 1 .. Len(h) : Len(h[i].bytes) = FrameSize
        /\ \A i \in 1 .. Len(queue) : Len(queue[i].bytes) = FrameSize
        /\ \A i \in 1 .. Len(b) : Len(b[i].bytes) = FrameSize
    <2>1. h \in Seq(Chunk) /\ b \in Seq(Chunk) /\ queue \in Seq(Chunk)
      BY EmptySeq DEF Base, Types
    <2>2. \A i \in 1 .. Len(h) : Len(h[i].bytes) = FrameSize
      BY EmptySeq DEF Base, Sizes
    <2>3. \A i \in 1 .. Len(b) : Len(b[i].bytes) = FrameSize
      BY EmptySeq DEF Base, Sizes
    <2>4. \A i \in 1 .. Len(queue) : Len(queue[i].bytes) = FrameSize
      BY <2>1, LenProperties DEF Base, Sizes
    <2>5. QED
      BY <2>1, <2>2, <2>3, <2>4
  <1>2. Stream = (h \o queue) \o b
    BY DEF Stream
  <1> HIDE DEF h, b
  <1>3. /\ h \o queue \in Seq(Chunk)
        /\ \A i \in 1 .. Len(h \o queue) : Len((h \o queue)[i].bytes) = FrameSize
    BY <1>1, WholeJoined
  <1>4. \A i \in 1 .. Len((h \o queue) \o b) : Len(((h \o queue) \o b)[i].bytes) = FrameSize
    BY <1>1, <1>3, WholeJoined
  <1>5. QED
    BY <1>2, <1>4

LEMMA GaplessPlayed == Base /\ Gapless => PlayedInOrder
  <1> SUFFICES ASSUME Base, Gapless, ~cut
               PROVE  /\ \A i \in DOMAIN Stream : \A k \in 1 .. FrameSize - 1 :
                           Follows(Stream[i].bytes[k], Stream[i].bytes[k + 1])
                      /\ \A i \in DOMAIN Stream : i > 1 =>
                           IF Stream[i].first THEN Stream[i].bytes[1] = 0
                           ELSE Follows(Stream[i - 1].bytes[FrameSize], Stream[i].bytes[1])
    BY DEF PlayedInOrder
  <1>1. DOMAIN Stream = 1 .. Len(Stream) /\ Len(Stream) \in Nat /\ Chain(Stream, fileSize)
    BY StreamChain, LenProperties
  <1>2. \A i \in 1 .. Len(Stream) : Len(Stream[i].bytes) = FrameSize
    BY StreamWhole
  <1>3. ASSUME NEW i \in DOMAIN Stream, NEW k \in 1 .. FrameSize - 1
        PROVE  Follows(Stream[i].bytes[k], Stream[i].bytes[k + 1])
    BY <1>1, <1>2, <1>3 DEF Chain, Whole, Follows
  <1>4. ASSUME NEW i \in DOMAIN Stream, i > 1
        PROVE  IF Stream[i].first THEN Stream[i].bytes[1] = 0
               ELSE Follows(Stream[i - 1].bytes[FrameSize], Stream[i].bytes[1])
    <2>1. i \in 2 .. Len(Stream) /\ i - 1 \in 1 .. Len(Stream)
      BY <1>1, <1>4
    <2>2. Joined(Stream[i - 1], Stream[i], fileSize) /\ Len(Stream[i - 1].bytes) = FrameSize
      BY <1>1, <1>2, <2>1 DEF Chain
    <2>3. QED
      BY <2>2 DEF Joined, LastByte, Follows
  <1>5. QED
    BY <1>3, <1>4

\* Through every short read, end of file, wrap and restart, and however far record
\* is behind, the frames are successive bytes of the looped input, each taking up
\* where the one before it ended (capture.c:174-204, ui.c:62).
THEOREM PlaysWithoutGap == Spec => []PlayedInOrder
  <1>1. Init => Base /\ Gapless
    BY BaseInit, GaplessInit
  <1>2. Base /\ Gapless /\ [Next]_vars => (Base /\ Gapless)'
    BY BaseNext, GaplessNext
  <1>3. Base /\ Gapless => PlayedInOrder
    BY GaplessPlayed
  <1>4. QED
    BY <1>1, <1>2, <1>3, PTL DEF Spec

=============================================================================
