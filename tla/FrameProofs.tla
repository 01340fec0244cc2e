----------------------------- MODULE FrameProofs ------------------------------
(***************************************************************************)
(* Proofs about the frame and its file, the menu and the cursor of a text  *)
(* of MCParts, for every size of the frame, the file and the screen.       *)
(***************************************************************************)
EXTENDS PartsProofs

-----------------------------------------------------------------------------
(* Division *)

LEMMA ProductGrows ==
  ASSUME NEW b \in Nat \ {0}, NEW p \in Int, NEW q \in Int, p < q
  PROVE  b * p + b <= b * q
  <1>1. q - p - 1 \in Nat
    OBVIOUS
  <1>2. b * (q - p - 1) \in Nat
    BY <1>1
  <1>3. b * (q - p - 1) = b * q - b * p - b
    BY <1>1
  <1>4. QED
    BY <1>2, <1>3

LEMMA DivMod ==
  ASSUME NEW a \in Nat, NEW b \in Nat \ {0}
  PROVE  /\ a \div b \in Nat
         /\ a % b \in 0 .. b - 1
         /\ a = b * (a \div b) + (a % b)
  <1>1. a % b \in 0 .. b - 1
    OBVIOUS
  <1>2. a \div b \in Int
    OBVIOUS
  <1>3. a = b * (a \div b) + (a % b)
    OBVIOUS
  <1>4. a \div b >= 0
    OBVIOUS
  <1>5. QED
    BY <1>1, <1>2, <1>3, <1>4

\* Quotient and remainder are unique.
LEMMA DivUnique ==
  ASSUME NEW b \in Nat \ {0}, NEW p \in Nat, NEW r \in 0 .. b - 1
  PROVE  /\ b * p + r \in Nat
         /\ (b * p + r) \div b = p
         /\ (b * p + r) % b = r
  <1> DEFINE a == b * p + r
  <1>1. b * p \in Nat /\ a \in Nat
    OBVIOUS
  <1> HIDE DEF a
  <1>2. /\ a \div b \in Nat
        /\ a % b \in 0 .. b - 1
        /\ a = b * (a \div b) + (a % b)
    BY <1>1, DivMod
  <1> DEFINE q == a \div b
             s == a % b
  <1>3. /\ q \in Int /\ p \in Int /\ s \in 0 .. b - 1
        /\ b * p \in Int /\ b * q \in Int
        /\ b * q + s = b * p + r
    BY <1>1, <1>2 DEF a
  <1> HIDE DEF q, s
  <1>4. ASSUME p < q PROVE FALSE
    <2>1. b * p + b <= b * q
      BY <1>3, <1>4, ProductGrows
    <2>2. QED
      BY <1>3, <2>1
  <1>5. ASSUME q < p PROVE FALSE
    <2>1. b * q + b <= b * p
      BY <1>3, <1>5, ProductGrows
    <2>2. QED
      BY <1>3, <2>1
  <1>6. q = p /\ s = r
    <2>1. q = p
      BY <1>3, <1>4, <1>5
    <2>2. QED
      BY <1>3, <2>1
  <1>7. QED
    BY <1>1, <1>6 DEF a, q, s

\* Counting on from a remainder, up to the divisor and no further.
LEMMA ModAdd ==
  ASSUME NEW a \in Nat, NEW b \in Nat \ {0}, NEW k \in Nat, (a % b) + k <= b
  PROVE  (a + k) % b = IF (a % b) + k = b THEN 0 ELSE (a % b) + k
  <1> DEFINE p == a \div b
             r == a % b
  <1>1. p \in Nat /\ r \in 0 .. b - 1 /\ a = b * p + r
    BY DivMod
  <1>2. b * p \in Nat /\ b * (p + 1) = b * p + b
    BY <1>1
  <1>3. CASE r + k < b
    <2>1. r + k \in 0 .. b - 1
      BY <1>1, <1>3
    <2>2. (b * p + (r + k)) % b = r + k
      BY <1>1, <2>1, DivUnique
    <2>3. a + k = b * p + (r + k)
      BY <1>1, <1>2
    <2>4. QED
      BY <1>1, <1>3, <2>2, <2>3
  <1>4. CASE r + k = b
    <2>1. 0 \in 0 .. b - 1 /\ p + 1 \in Nat
      BY <1>1
    <2>2. (b * (p + 1) + 0) % b = 0
      BY <2>1, DivUnique
    <2>3. a + k = b * (p + 1) + 0
      BY <1>1, <1>2, <1>4
    <2>4. QED
      BY <1>4, <2>2, <2>3
  <1>5. QED
    BY <1>1, <1>3, <1>4

\* The remainder as an operator of its own, which the proofs need not expand.
Rest(a, b) == a % b

LEMMA RestAdd ==
  ASSUME NEW a \in Nat, NEW b \in Nat \ {0}, NEW k \in Nat, Rest(a, b) + k <= b
  PROVE  Rest(a + k, b) = IF Rest(a, b) + k = b THEN 0 ELSE Rest(a, b) + k
  <1>1. (a % b) + k <= b
    BY DEF Rest
  <1>2. (a + k) % b = IF (a % b) + k = b THEN 0 ELSE (a % b) + k
    BY <1>1, ModAdd
  <1> DEFINE r == a % b  q == (a + k) % b
  <1>3. Rest(a, b) = r /\ Rest(a + k, b) = q
    BY DEF Rest
  <1>4. q = IF r + k = b THEN 0 ELSE r + k
    BY <1>2
  <1> HIDE DEF r, q
  <1>5. QED
    BY <1>3, <1>4

LEMMA RestSmall ==
  ASSUME NEW b \in Nat \ {0}, NEW r \in 0 .. b
  PROVE  Rest(r, b) = IF r = b THEN 0 ELSE r
  BY DEF Rest

-----------------------------------------------------------------------------
(* The frame and its file: types, and the length of the frame              *)

\* A step of the parts is a step of the frame, or leaves it alone.
LEMMA FrameStep == [Next]_vars => [F!Next]_(F!vars)
  BY DEF Next, vars, OthersStay, frameVars, F!vars

Byte == 0 .. FileMax + SizeMax

Operation == {"frame_write_data", "frame_read_data", "frame_read_loop"}

\* The frame has a byte for every pixel.
Loaded ==
  /\ data \in Seq(Byte) /\ Len(data) \in 1 .. SizeMax
  /\ Len(data) = dims[1] * dims[2] * dims[3]

FrameTypes ==
  /\ dims \in Extents \X Extents \X Extents \/ dims = <<0, 0, 0>>
  /\ data = F!NoData \/ Loaded
  /\ file \in Seq(Byte) /\ Len(file) <= FileMax
  /\ pos \in 0 .. Len(file)
  /\ io_pc \in {"idle"} \cup Operation
  /\ io_call \in [op : {"none"} \cup Operation, from : 0 .. FileMax, ret : -1 .. SizeMax]

\* What a function that runs knows of the frame, and a frame that is gone of the
\* last call.
CallOK ==
  /\ io_pc = "idle" => done = 0 /\ left = 0
  /\ io_pc # "idle" => /\ Loaded /\ left = Len(data) /\ done \in 0 .. left
                       /\ io_call.op = io_pc
  /\ io_pc = "frame_write_data" => pos + (left - done) <= FileMax
  /\ data = F!NoData => io_pc = "idle" /\ io_call = F!NoCall

FrameInv == FrameTypes /\ CallOK

\* The mark of a frame that was never created, or destroyed, is none of its bytes.
LEMMA NoDataUnloaded == ~(Loaded /\ data = F!NoData)
  <1> SUFFICES ASSUME Loaded, data = F!NoData PROVE FALSE
    OBVIOUS
  <1>1. data[1] \in Byte
    BY DEF Loaded
  <1>2. data[1] = -1
    BY DEF F!NoData
  <1>3. QED
    BY <1>1, <1>2, PartsAssumption DEF PartsAssumption, Byte

LEMMA FrameInit == F!Init => FrameInv
  <1> SUFFICES ASSUME F!Init PROVE FrameInv
    OBVIOUS
  <1>1. SizeMax \in Nat /\ FileMax \in Nat
    BY PartsAssumption DEF PartsAssumption
  <1>2. file \in Seq(Byte) /\ Len(file) = 0 /\ pos \in 0 .. Len(file)
    BY EmptySeq DEF F!Init
  <1>3. io_call \in [op : {"none"} \cup Operation, from : 0 .. FileMax, ret : -1 .. SizeMax]
    BY <1>1 DEF F!Init, F!NoCall
  <1>4. FrameTypes
    BY <1>1, <1>2, <1>3 DEF F!Init, FrameTypes
  <1>5. CallOK
    BY DEF F!Init, CallOK
  <1>6. QED
    BY <1>4, <1>5 DEF FrameInv

\* frame_init accepts a size only if it does not overflow, so that the length of the
\* buffer, which is computed with wrap-around, is the number of pixels.
LEMMA CreateInv ==
  ASSUME FrameInv, NEW a \in Extents, NEW b \in Extents, NEW c \in Extents,
         F!FrameCreate(a, b, c)
  PROVE  FrameInv'
  <1> USE DEF FrameInv
  <1> DEFINE n == a * b * c
  <1>1. /\ SizeMax \in Nat /\ FileMax \in Nat
        /\ a \in Nat \ {0} /\ b \in Nat \ {0} /\ c \in Nat \ {0}
    BY PartsAssumption DEF PartsAssumption, F!FrameCreate
  <1>2. a * b \in Nat \ {0}
    BY <1>1
  <1>3. n \in Nat \ {0}
    BY <1>1, <1>2
  <1>4. n <= SizeMax
    BY <1>3, <1>1 DEF F!FrameCreate, F!Overflows
  <1>5. n % (SizeMax + 1) = n
    BY <1>1, <1>3, <1>4
  <1>6. /\ dims' = <<a, b, c>>
        /\ data' = [m \in 1 .. n |-> 0]
        /\ UNCHANGED <<file, pos, io_pc, left, done, io_call>>
        /\ io_pc = "idle"
    BY <1>5 DEF F!FrameCreate
  <1> HIDE DEF n
  <1>7. data' \in Seq(Byte) /\ Len(data') = n
    BY <1>1, <1>3, <1>6 DEF Byte
  <1>8. Loaded'
    <2>1. dims'[1] * dims'[2] * dims'[3] = n
      BY <1>6 DEF n
    <2>2. QED
      BY <1>1, <1>3, <1>4, <1>7, <2>1 DEF Loaded
  <1>9. dims' \in Extents \X Extents \X Extents
    BY <1>6
  <1>10. FrameTypes'
    BY <1>6, <1>8, <1>9 DEF FrameTypes
  <1>11. data' # F!NoData'
    <2>1. (~(Loaded /\ data = F!NoData))'
      BY NoDataUnloaded, PTL
    <2>2. QED
      BY <1>8, <2>1
  <1>12. CallOK'
    BY <1>6, <1>11 DEF CallOK
  <1>13. QED
    BY <1>10, <1>12

\* The frame is gone, or the client draws, opens a file or seeks in it: the last
\* call is forgotten.
LEMMA ClientInv ==
  ASSUME FrameInv,
         \/ F!FrameDestroy
         \/ F!Draw
         \/ \E n \in 0 .. FileMax : F!Open(n) \/ F!Seek(n)
  PROVE  FrameInv'
  <1> USE DEF FrameInv
  <1>1. SizeMax \in Nat /\ FileMax \in Nat
    BY PartsAssumption DEF PartsAssumption
  <1>2. /\ io_pc = "idle" /\ done = 0 /\ left = 0
        /\ UNCHANGED <<io_pc, left, done>> /\ io_call' = F!NoCall
    BY DEF F!FrameDestroy, F!Draw, F!Open, F!Seek, CallOK
  <1>3. io_call' \in [op : {"none"} \cup Operation, from : 0 .. FileMax, ret : -1 .. SizeMax]
    BY <1>1, <1>2 DEF F!NoCall
  <1>4. /\ dims' \in Extents \X Extents \X Extents \/ dims' = <<0, 0, 0>>
        /\ data' = F!NoData \/ Loaded'
    <2>1. CASE F!FrameDestroy
      BY <2>1 DEF F!FrameDestroy
    <2>2. CASE F!Draw
      <3>1. Loaded /\ data' = [m \in 1 .. Len(data) |-> FileMax + m] /\ dims' = dims
        BY <2>2 DEF F!Draw, F!Drawing, F!Drawn, FrameTypes, Loaded
      <3>2. \A m \in 1 .. Len(data) : FileMax + m \in Byte
        BY <1>1, <3>1 DEF Loaded, Byte
      <3>3. Len(data) \in Nat
        BY <3>1 DEF Loaded
      <3>4. data' \in Seq(Byte) /\ Len(data') = Len(data)
        BY <3>1, <3>2, <3>3
      <3>5. QED
        BY <3>1, <3>4 DEF Loaded, FrameTypes
    <2>3. CASE \E n \in 0 .. FileMax : F!Open(n) \/ F!Seek(n)
      BY <2>3 DEF F!Open, F!Seek, FrameTypes, Loaded
    <2>4. QED
      BY <2>1, <2>2, <2>3
  <1>5. file' \in Seq(Byte) /\ Len(file') <= FileMax /\ pos' \in 0 .. Len(file')
    <2>1. CASE F!FrameDestroy \/ F!Draw
      BY <2>1 DEF F!FrameDestroy, F!Draw, FrameTypes
    <2>2. ASSUME NEW n \in 0 .. FileMax, F!Open(n)
          PROVE  <1>5
      <3>1. file' = [m \in 1 .. n |-> m] /\ pos' = 0 /\ n \in Nat
        BY <1>1, <2>2 DEF F!Open
      <3>2. \A m \in 1 .. n : m \in Byte
        BY <1>1 DEF Byte
      <3>3. file' \in Seq(Byte) /\ Len(file') = n
        BY <3>1, <3>2
      <3>4. QED
        BY <1>1, <3>1, <3>3
    <2>3. ASSUME NEW n \in 0 .. FileMax, F!Seek(n)
          PROVE  <1>5
      BY <1>1, <2>3 DEF F!Seek, FrameTypes
    <2>4. QED
      BY <2>1, <2>2, <2>3
  <1>6. FrameTypes'
    BY <1>2, <1>3, <1>4, <1>5 DEF FrameTypes
  <1>7. CallOK'
    BY <1>2 DEF CallOK
  <1>8. QED
    BY <1>6, <1>7

\* The functions compute the count from the dimensions, as the frame was made.
LEMMA CallInv ==
  ASSUME FrameInv, NEW op \in Operation, F!Call(op)
  PROVE  FrameInv'
  <1> USE DEF FrameInv
  <1>1. SizeMax \in Nat /\ FileMax \in Nat
    BY PartsAssumption DEF PartsAssumption
  <1>2. Loaded /\ UNCHANGED <<data, dims, file, pos>> /\ io_pc' = op /\ done' = 0
    BY DEF F!Call, FrameTypes
  <1>3. Loaded' /\ data' # F!NoData
    BY <1>2 DEF Loaded, F!Call
  <1>4. left' = Len(data')
    <2>1. Len(data) % (SizeMax + 1) = Len(data)
      BY <1>1, <1>2 DEF Loaded
    <2>2. QED
      BY <1>2, <2>1 DEF F!Call, Loaded
  <1>5. Len(data') \in Nat /\ Len(file) \in Nat /\ pos \in 0 .. FileMax
    BY <1>1, <1>3 DEF Loaded, FrameTypes
  <1>6. io_call' = [op |-> op, from |-> pos, ret |-> 0]
    BY DEF F!Call
  <1>7. io_call' \in [op : {"none"} \cup Operation, from : 0 .. FileMax, ret : -1 .. SizeMax]
    BY <1>1, <1>5, <1>6
  <1>8. FrameTypes'
    BY <1>2, <1>3, <1>7 DEF FrameTypes
  <1>9. op = "frame_write_data" => pos' + (left' - done') <= FileMax
    BY <1>2, <1>4, <1>5 DEF F!Call
  <1>10. CallOK'
    BY <1>2, <1>3, <1>4, <1>5, <1>6, <1>9 DEF CallOK, Operation
  <1>11. QED
    BY <1>8, <1>10

\* A function returns.
LEMMA ReturnInv ==
  ASSUME FrameInv, io_pc # "idle", UNCHANGED <<data, dims, file, pos>>,
         NEW ret \in -1 .. SizeMax, F!Return(ret)
  PROVE  FrameInv'
  <1> USE DEF FrameInv
  <1>1. Loaded /\ Loaded' /\ data' # F!NoData
    <2>1. Loaded /\ data' = data /\ dims' = dims
      BY DEF CallOK
    <2>2. data # F!NoData
      BY <2>1, NoDataUnloaded
    <2>3. QED
      BY <2>1, <2>2 DEF Loaded
  <1>2. io_call' \in [op : {"none"} \cup Operation, from : 0 .. FileMax, ret : -1 .. SizeMax]
    BY DEF F!Return, FrameTypes
  <1>3. FrameTypes'
    BY <1>1, <1>2 DEF FrameTypes, F!Return
  <1>4. CallOK'
    BY <1>1 DEF CallOK, F!Return
  <1>5. QED
    BY <1>3, <1>4

LEMMA EndInv ==
  ASSUME FrameInv, F!Finish \/ F!Fail \/ F!ReadEof
  PROVE  FrameInv'
  <1>1. SizeMax \in Nat /\ FileMax \in Nat
    BY PartsAssumption DEF PartsAssumption
  <1>2. CASE F!Finish
    <2>1. left \in -1 .. SizeMax
      BY <1>1, <1>2 DEF F!Finish, FrameInv, CallOK, Loaded
    <2>2. QED
      BY <1>2, <2>1, ReturnInv DEF F!Finish
  <1>3. CASE F!Fail
    BY <1>1, <1>3, ReturnInv, -1 \in -1 .. SizeMax DEF F!Fail
  <1>4. CASE F!ReadEof
    <2>1. io_pc # "idle" /\ UNCHANGED <<data, dims, file>>
      BY <1>4 DEF F!ReadEof, FrameInv, CallOK
    <2>2. CASE F!Return(-1) /\ UNCHANGED pos
      BY <1>1, <2>1, <2>2, ReturnInv, -1 \in -1 .. SizeMax
    <2>3. CASE io_pc = "frame_read_loop" /\ F!Rewind /\ UNCHANGED <<io_pc, left, done, io_call>>
      <3>1. pos' \in 0 .. Len(file)
        BY <2>3 DEF F!Rewind, FrameInv, FrameTypes
      <3>2. Loaded' <=> Loaded
        BY <2>1 DEF Loaded
      <3>3. QED
        BY <2>1, <2>3, <3>1, <3>2 DEF FrameInv, FrameTypes, CallOK
    <2>4. QED
      BY <1>4, <2>2, <2>3 DEF F!ReadEof
  <1>5. QED
    BY <1>2, <1>3, <1>4

LEMMA FunctionIsSeq ==
  ASSUME NEW S, NEW n \in Nat, NEW f \in [1 .. n -> S]
  PROVE  f \in Seq(S) /\ Len(f) = n
  OBVIOUS

\* What write does to the file: n bytes from the buffer at pos, and no hole.
LEMMA WriteEffect ==
  ASSUME FrameInv, NEW n \in 1 .. left - done, io_pc = "frame_write_data",
         file' = [m \in DOMAIN file \cup 1 .. pos + n |->
                    IF m - pos \in 1 .. n THEN data[done + m - pos] ELSE file[m]]
  PROVE  /\ file' \in Seq(Byte) /\ Len(file') <= FileMax
         /\ Len(file) <= Len(file') /\ pos + n <= Len(file')
         /\ \A m \in 1 .. pos : file'[m] = file[m]
         /\ \A m \in 1 .. n : file'[pos + m] = data[done + m]
  <1> USE DEF FrameInv
  <1>1. SizeMax \in Nat /\ FileMax \in Nat
    BY PartsAssumption DEF PartsAssumption
  <1>2. /\ Loaded /\ left = Len(data) /\ done \in 0 .. left
        /\ pos + (left - done) <= FileMax
    BY DEF CallOK
  <1>3. left \in Nat /\ pos \in Nat /\ n \in Nat /\ done + n <= left /\ pos + n <= FileMax
    BY <1>1, <1>2 DEF Loaded, FrameTypes
  <1>4. Len(file) \in Nat /\ Len(file) <= FileMax /\ pos <= Len(file) /\ DOMAIN file = 1 .. Len(file)
    BY DEF FrameTypes
  <1> DEFINE len == IF pos + n > Len(file) THEN pos + n ELSE Len(file)
  <1>5. len \in Nat /\ len <= FileMax /\ DOMAIN file \cup 1 .. pos + n = 1 .. len
    <2>1. pos + n \in Nat
      BY <1>3
    <2>2. CASE pos + n > Len(file)
      BY <1>1, <1>3, <1>4, <2>1, <2>2
    <2>3. CASE ~(pos + n > Len(file))
      BY <1>1, <1>3, <1>4, <2>1, <2>3
    <2>4. QED
      BY <2>2, <2>3
  <1> HIDE DEF len
  <1>6. ASSUME NEW m \in 1 .. len
        PROVE  (IF m - pos \in 1 .. n THEN data[done + m - pos] ELSE file[m]) \in Byte
    <2>1. CASE m - pos \in 1 .. n
      <3>1. done + m - pos \in 1 .. Len(data)
        BY <1>2, <1>3, <2>1
      <3>2. QED
        BY <1>2, <2>1, <3>1 DEF Loaded
    <2>2. CASE m - pos \notin 1 .. n
      <3>1. m \in 1 .. Len(file)
        BY <1>3, <1>4, <2>2 DEF len
      <3>2. QED
        BY <2>2, <3>1 DEF FrameTypes
    <2>3. QED
      BY <2>1, <2>2
  <1>7. file' \in [1 .. len -> Byte]
    <2> DEFINE New(m) == IF m - pos \in 1 .. n THEN data[done + m - pos] ELSE file[m]
    <2>1. file' = [m \in 1 .. len |-> New(m)]
      BY <1>5
    <2>2. \A m \in 1 .. len : New(m) \in Byte
      BY <1>6
    <2> HIDE DEF New
    <2>3. QED
      BY <2>1, <2>2
  <1>8. file' \in Seq(Byte) /\ Len(file') = len
    BY <1>5, <1>7, FunctionIsSeq
  <1>9. ASSUME NEW m \in 1 .. pos
        PROVE  file'[m] = file[m]
    <2>1. m \in 1 .. pos + n /\ ~(m - pos \in 1 .. n)
      BY <1>3
    <2>2. QED
      BY <2>1
  <1>10. ASSUME NEW m \in 1 .. n
         PROVE  file'[pos + m] = data[done + m]
    <2>1. pos + m \in 1 .. pos + n /\ (pos + m) - pos = m /\ done + (pos + m) - pos = done + m
      BY <1>2, <1>3
    <2>2. QED
      BY <2>1
  <1>11. Len(file) <= len /\ pos + n <= len
    BY <1>3, <1>4 DEF len
  <1>12. QED
    BY <1>5, <1>8, <1>9, <1>10, <1>11

\* What read does to the buffer: n bytes of the file from pos.
LEMMA ReadEffect ==
  ASSUME FrameInv, io_pc # "idle", NEW n \in 1 .. left - done, pos + n <= Len(file),
         data' = [m \in DOMAIN data |->
                    IF m - F!NextByte \in 1 .. n THEN file[pos + m - F!NextByte] ELSE data[m]]
  PROVE  /\ data' \in Seq(Byte) /\ Len(data') = Len(data)
         /\ \A m \in 1 .. done : data'[m] = data[m]
         /\ \A m \in 1 .. n : data'[done + m] = file[pos + m]
  <1> USE DEF FrameInv, F!NextByte
  <1>1. Loaded /\ left = Len(data) /\ done \in 0 .. left
    BY DEF CallOK
  <1>2. left \in Nat /\ pos \in Nat /\ done + n <= left /\ DOMAIN data = 1 .. left
    BY <1>1 DEF Loaded, FrameTypes
  <1>3. ASSUME NEW m \in 1 .. left
        PROVE  (IF m - done \in 1 .. n THEN file[pos + m - done] ELSE data[m]) \in Byte
    <2>1. CASE m - done \in 1 .. n
      <3>1. pos + m - done \in 1 .. Len(file)
        BY <1>1, <1>2, <2>1 DEF FrameTypes
      <3>2. QED
        BY <2>1, <3>1 DEF FrameTypes
    <2>2. CASE m - done \notin 1 .. n
      BY <1>1, <2>2 DEF Loaded
    <2>3. QED
      BY <2>1, <2>2
  <1>4. data' \in [1 .. left -> Byte]
    BY <1>2, <1>3
  <1>5. data' \in Seq(Byte) /\ Len(data') = Len(data)
    BY <1>1, <1>2, <1>4
  <1>6. ASSUME NEW m \in 1 .. done
        PROVE  data'[m] = data[m]
    <2>1. m \in 1 .. left /\ ~(m - done \in 1 .. n)
      BY <1>1, <1>2
    <2>2. QED
      BY <1>2, <2>1
  <1>7. ASSUME NEW m \in 1 .. n
        PROVE  data'[done + m] = file[pos + m]
    <2>1. /\ done + m \in 1 .. left /\ (done + m) - done = m
          /\ pos + (done + m) - done = pos + m
      BY <1>1, <1>2
    <2>2. QED
      BY <1>2, <2>1
  <1>8. QED
    BY <1>5, <1>6, <1>7

LEMMA TransferInv ==
  ASSUME FrameInv, F!Write \/ F!Read
  PROVE  FrameInv'
  <1> USE DEF FrameInv
  <1>1. SizeMax \in Nat /\ FileMax \in Nat
    BY PartsAssumption DEF PartsAssumption
  <1>2. io_pc # "idle"
    BY DEF F!Write, F!Read
  <1>3. Loaded /\ left = Len(data) /\ done \in 0 .. left /\ left \in Nat /\ pos \in Nat
    BY <1>2 DEF CallOK, Loaded, FrameTypes
  <1>4. ASSUME NEW n \in 1 .. left - done, io_pc = "frame_write_data",
               file' = [m \in DOMAIN file \cup 1 .. pos + n |->
                          IF m - pos \in 1 .. n THEN data[done + m - pos] ELSE file[m]],
               pos' = pos + n, done' = done + n, UNCHANGED <<data, dims, io_pc, left, io_call>>
        PROVE  FrameInv'
    <2>1. file' \in Seq(Byte) /\ Len(file') <= FileMax /\ pos + n <= Len(file')
      BY <1>4, WriteEffect
    <2>2. Loaded'
      BY <1>3, <1>4 DEF Loaded
    <2>3. pos' \in 0 .. Len(file')
      BY <1>3, <1>4, <2>1
    <2>4. FrameTypes'
      BY <1>4, <2>1, <2>2, <2>3 DEF FrameTypes
    <2>5. done' \in 0 .. left' /\ pos' + (left' - done') <= FileMax
      <3>1. pos + (left - done) <= FileMax
        BY <1>4 DEF CallOK
      <3>2. QED
        BY <1>1, <1>3, <1>4, <3>1
    <2>6. CallOK'
      BY <1>3, <1>4, <2>2, <2>5 DEF CallOK
    <2>7. QED
      BY <2>4, <2>6
  <1>5. ASSUME NEW n \in 1 .. left - done, io_pc \in {"frame_read_data", "frame_read_loop"},
               pos + n <= Len(file),
               data' = [m \in DOMAIN data |->
                          IF m - F!NextByte \in 1 .. n THEN file[pos + m - F!NextByte] ELSE data[m]],
               pos' = pos + n, done' = done + n, UNCHANGED <<dims, file, io_pc, left, io_call>>
        PROVE  FrameInv'
    <2>1. data' \in Seq(Byte) /\ Len(data') = Len(data)
      BY <1>2, <1>5, ReadEffect
    <2>2. Loaded'
      BY <1>3, <1>5, <2>1 DEF Loaded
    <2>3. pos' \in 0 .. Len(file')
      BY <1>3, <1>5 DEF FrameTypes
    <2>4. FrameTypes'
      BY <1>5, <2>2, <2>3 DEF FrameTypes
    <2>5. done' \in 0 .. left'
      BY <1>3, <1>5
    <2>6. data' # F!NoData
      <3>1. (~(Loaded /\ data = F!NoData))'
        BY NoDataUnloaded, PTL
      <3>2. QED
        BY <2>2, <3>1
    <2>7. CallOK'
      BY <1>3, <1>5, <2>1, <2>2, <2>5, <2>6 DEF CallOK
    <2>8. QED
      BY <2>4, <2>7
  <1>6. CASE F!Write
    BY <1>4, <1>6 DEF F!Write
  <1>7. CASE F!Read
    BY <1>5, <1>7 DEF F!Read
  <1>8. QED
    BY <1>6, <1>7

LEMMA FrameNext == FrameInv /\ [F!Next]_(F!vars) => FrameInv'
  <1> SUFFICES ASSUME FrameInv, [F!Next]_(F!vars) PROVE FrameInv'
    OBVIOUS
  <1>1. CASE UNCHANGED F!vars
    <2>1. Loaded' <=> Loaded
      BY <1>1 DEF F!vars, Loaded
    <2>2. QED
      BY <1>1, <2>1 DEF F!vars, FrameInv, FrameTypes, CallOK
  <1>2. CASE F!Next
    BY <1>2, CreateInv, ClientInv, CallInv, EndInv, TransferInv DEF F!Next, F!Step, Operation
  <1>3. QED
    BY <1>1, <1>2

LEMMA FrameInductive == Spec => []FrameInv
  BY FrameInit, FrameStep, FrameNext, PTL DEF Spec, Init

\* A frame has a byte for every pixel, and its transfers move exactly these, for
\* every SIZE_MAX and every width, height and depth (frame.c:37, 179).
THEOREM FramesWhole == Spec => []FrameWhole
  <1>1. FrameInv => FrameWhole
    BY DEF FrameInv, FrameTypes, CallOK, Loaded, FrameWhole, F!FrameWhole
  <1>2. QED
    BY <1>1, FrameInductive, PTL

-----------------------------------------------------------------------------
(* The frame and its file: what was transferred                            *)

\* Looped in the words of these lemmas.
LoopedAt(from, m) == Rest(from + m - 1, Len(file)) + 1

LEMMA LoopedIsRest == \A from, m : F!Looped(from, m) = LoopedAt(from, m)
  BY DEF F!Looped, LoopedAt, Rest

\* The first n bytes of the frame are transferred, and the descriptor is at the next
\* one: for the loop up to whole rounds of the file, whose end and start are the
\* same place until the next read.
Moved(n) ==
  IF io_call.op = "frame_read_loop"
  THEN /\ n > 0 => Len(file) > 0
       /\ Len(file) > 0 => Rest(io_call.from + n, Len(file)) = Rest(pos, Len(file))
       /\ n = Len(data) => pos > 0
       /\ \A m \in 1 .. n : data[m] = file[LoopedAt(io_call.from, m)]
  ELSE /\ pos = io_call.from + n
       /\ \A m \in 1 .. n : file[io_call.from + m] = data[m]

Transfers ==
  /\ io_pc # "idle" => Moved(done)
  /\ io_pc = "idle" /\ io_call.ret > 0 =>
       io_call.op \in Operation /\ Loaded /\ Moved(Len(data))

\* No call, or one that failed, says nothing.
LEMMA TransfersForgotten ==
  ASSUME io_pc' = "idle", io_call'.ret \in {-1, 0}
  PROVE  Transfers'
  BY DEF Transfers

LEMMA TransfersClient ==
  ASSUME FrameInv,
         \/ \E a, b, c \in Extents : F!FrameCreate(a, b, c)
         \/ F!FrameDestroy
         \/ F!Draw
         \/ \E n \in 0 .. FileMax : F!Open(n) \/ F!Seek(n)
         \/ F!Fail
  PROVE  Transfers'
  <1>1. CASE F!Fail
    BY <1>1, TransfersForgotten DEF F!Fail, F!Return, FrameInv, FrameTypes
  <1>2. CASE ~F!Fail
    <2>1. io_pc' = "idle" /\ io_call' = F!NoCall
      BY <1>2 DEF F!FrameCreate, F!FrameDestroy, F!Draw, F!Open, F!Seek, FrameInv, CallOK
    <2>2. QED
      BY <2>1, TransfersForgotten DEF F!NoCall
  <1>3. QED
    BY <1>1, <1>2

LEMMA TransfersCall ==
  ASSUME FrameInv, FrameInv', NEW op \in Operation, F!Call(op)
  PROVE  Transfers'
  <1>1. /\ io_pc' # "idle" /\ done' = 0 /\ pos' = pos /\ file' = file /\ data' = data
        /\ io_call' = [op |-> op, from |-> pos, ret |-> 0]
    BY DEF F!Call, Operation
  <1>2. pos \in Nat /\ Len(file) \in Nat /\ pos + 0 = pos
    BY DEF FrameInv, FrameTypes
  <1>3. Len(data) # 0
    BY <1>1, PartsAssumption DEF PartsAssumption, FrameInv, CallOK, Loaded
  <1>4. Moved(0)'
    BY <1>1, <1>2, <1>3 DEF Moved
  <1>5. QED
    BY <1>1, <1>4 DEF Transfers

\* A function whose loop is over returns its count: the whole frame is moved.
LEMMA TransfersFinish ==
  ASSUME FrameInv, Transfers, F!Finish
  PROVE  Transfers'
  <1>1. /\ io_pc # "idle" /\ done = left /\ Loaded /\ left = Len(data)
        /\ io_call.op \in Operation
    BY DEF F!Finish, FrameInv, FrameTypes, CallOK
  <1>2. /\ io_pc' = "idle" /\ UNCHANGED <<data, dims, file, pos>>
        /\ io_call'.op = io_call.op /\ io_call'.from = io_call.from
    BY DEF F!Finish, F!Return, FrameInv, FrameTypes
  <1>3. Moved(Len(data))
    BY <1>1 DEF Transfers
  <1>4. Moved(Len(data))'
    BY <1>2, <1>3 DEF Moved, LoopedAt
  <1>5. Loaded'
    BY <1>1, <1>2 DEF Loaded
  <1>6. QED
    BY <1>1, <1>2, <1>4, <1>5 DEF Transfers

\* At the end of the file the loop goes back to the start, which is the same place.
LEMMA TransfersEof ==
  ASSUME FrameInv, Transfers, F!ReadEof
  PROVE  Transfers'
  <1>1. CASE F!Return(-1)
    BY <1>1, TransfersForgotten DEF F!Return, FrameInv, FrameTypes
  <1>2. CASE ~F!Return(-1)
    <2>1. /\ io_pc = "frame_read_loop" /\ pos' = 0 /\ pos = Len(file) /\ done < left
          /\ UNCHANGED <<io_pc, left, done, io_call, data, dims, file>>
      BY <1>2 DEF F!ReadEof, F!Rewind
    <2>2. /\ io_call.op = "frame_read_loop" /\ left = Len(data) /\ done \in Nat /\ left \in Nat
          /\ Len(file) \in Nat
      BY <2>1 DEF FrameInv, FrameTypes, CallOK, Loaded
    <2>3. Moved(done)
      BY <2>1 DEF Transfers
    <2>4. Len(file) > 0 => Rest(pos, Len(file)) = Rest(0, Len(file))
      BY <2>1, <2>2, RestSmall
    <2>5. Moved(done)'
      BY <2>1, <2>2, <2>3, <2>4 DEF Moved, LoopedAt
    <2>6. QED
      BY <2>1, <2>5 DEF Transfers
  <1>3. QED
    BY <1>1, <1>2

LEMMA TransfersWrite ==
  ASSUME FrameInv, Transfers, F!Write
  PROVE  Transfers'
  <1>1. PICK n \in 1 .. left - done :
          /\ file' = [m \in DOMAIN file \cup 1 .. pos + n |->
                        IF m - pos \in 1 .. n THEN data[done + m - pos] ELSE file[m]]
          /\ pos' = pos + n /\ done' = done + n
    BY DEF F!Write
  <1>2. io_pc = "frame_write_data" /\ UNCHANGED <<data, dims, io_pc, left, io_call>>
    BY DEF F!Write
  <1>3. /\ io_call.op = "frame_write_data" /\ done \in Nat /\ left \in Nat /\ pos \in Nat
        /\ io_call.from \in Nat
    BY <1>2, PartsAssumption DEF PartsAssumption, FrameInv, FrameTypes, CallOK, Loaded
  <1>4. /\ \A m \in 1 .. pos : file'[m] = file[m]
        /\ \A m \in 1 .. n : file'[pos + m] = data[done + m]
    BY <1>1, <1>2, WriteEffect
  <1>5. pos = io_call.from + done /\ \A m \in 1 .. done : file[io_call.from + m] = data[m]
    BY <1>2, <1>3 DEF Transfers, Moved
  <1>6. pos' = io_call.from + done'
    BY <1>1, <1>3, <1>5
  <1>7. ASSUME NEW m \in 1 .. done'
        PROVE  file'[io_call.from + m] = data[m]
    <2>1. CASE m <= done
      <3>1. m \in 1 .. done /\ io_call.from + m \in 1 .. pos
        BY <1>1, <1>3, <1>5, <2>1
      <3>2. QED
        BY <1>4, <1>5, <3>1
    <2>2. CASE ~(m <= done)
      <3>1. /\ m - done \in 1 .. n /\ pos + (m - done) = io_call.from + m
            /\ done + (m - done) = m
        BY <1>1, <1>3, <1>5, <2>2
      <3>2. QED
        BY <1>4, <3>1
    <2>3. QED
      BY <2>1, <2>2
  <1>8. Moved(done)'
    BY <1>2, <1>3, <1>6, <1>7 DEF Moved
  <1>9. QED
    BY <1>2, <1>8 DEF Transfers

\* From a place that is p up to whole rounds, k steps lead to p + k.
LEMMA RestSteps ==
  ASSUME NEW a \in Nat, NEW len \in Nat \ {0}, NEW p \in Nat, NEW k \in Nat,
         p < len, p + k <= len, Rest(a, len) = Rest(p, len)
  PROVE  /\ Rest(a + k, len) = Rest(p + k, len)
         /\ p + k < len => Rest(a + k, len) = p + k
  <1>1. Rest(a, len) = p
    BY p \in 0 .. len, RestSmall
  <1>2. Rest(a + k, len) = IF p + k = len THEN 0 ELSE p + k
    <2>1. Rest(a, len) + k <= len
      BY <1>1
    <2>2. Rest(a + k, len) = IF Rest(a, len) + k = len THEN 0 ELSE Rest(a, len) + k
      BY <2>1, RestAdd
    <2>3. QED
      BY <1>1, <2>2
  <1>3. Rest(p + k, len) = IF p + k = len THEN 0 ELSE p + k
    BY p + k \in 0 .. len, RestSmall
  <1>4. QED
    BY <1>2, <1>3

LEMMA TransfersRead ==
  ASSUME FrameInv, Transfers, F!Read
  PROVE  Transfers'
  <1>1. PICK n \in 1 .. left - done :
          /\ pos + n <= Len(file)
          /\ data' = [m \in DOMAIN data |->
                        IF m - F!NextByte \in 1 .. n THEN file[pos + m - F!NextByte] ELSE data[m]]
          /\ pos' = pos + n /\ done' = done + n
    BY DEF F!Read
  <1>2. /\ io_pc \in {"frame_read_data", "frame_read_loop"}
        /\ UNCHANGED <<dims, file, io_pc, left, io_call>>
    BY DEF F!Read
  <1>3. /\ io_call.op = io_pc /\ done \in Nat /\ left \in Nat /\ pos \in Nat
        /\ io_call.from \in Nat /\ n \in Nat \ {0} /\ Len(file) \in Nat \ {0}
    <2>1. /\ io_call.op = io_pc /\ done \in Nat /\ left \in Nat /\ pos \in Nat
          /\ io_call.from \in Nat /\ Len(file) \in Nat
      BY <1>2, PartsAssumption DEF PartsAssumption, FrameInv, FrameTypes, CallOK, Loaded
    <2>2. QED
      BY <1>1, <2>1
  <1>4. /\ Len(data') = Len(data)
        /\ \A m \in 1 .. done : data'[m] = data[m]
        /\ \A m \in 1 .. n : data'[done + m] = file[pos + m]
    BY <1>1, <1>2, ReadEffect
  <1>5. Moved(done)
    BY <1>2 DEF Transfers
  <1>6. ASSUME NEW m \in 1 .. done'
        PROVE  \/ m \in 1 .. done
               \/ m - done \in 1 .. n /\ done + (m - done) = m
    BY <1>1, <1>3
  <1>7. CASE io_pc = "frame_read_data"
    <2>1. pos = io_call.from + done /\ \A m \in 1 .. done : file[io_call.from + m] = data[m]
      BY <1>3, <1>5, <1>7 DEF Moved
    <2>2. pos' = io_call.from + done'
      BY <1>1, <1>3, <2>1
    <2>3. ASSUME NEW m \in 1 .. done'
          PROVE  file[io_call.from + m] = data'[m]
      <3>1. CASE m \in 1 .. done
        BY <1>4, <2>1, <3>1
      <3>2. CASE m - done \in 1 .. n /\ done + (m - done) = m
        <4>1. pos + (m - done) = io_call.from + m
          BY <1>1, <1>3, <2>1
        <4>2. QED
          BY <1>4, <3>2, <4>1
      <3>3. QED
        BY <1>6, <3>1, <3>2
    <2>4. Moved(done)'
      BY <1>2, <1>3, <1>7, <2>2, <2>3 DEF Moved
    <2>5. QED
      BY <1>2, <2>4 DEF Transfers
  <1>8. CASE io_pc = "frame_read_loop"
    <2>1. /\ Rest(io_call.from + done, Len(file)) = Rest(pos, Len(file))
          /\ \A m \in 1 .. done : data[m] = file[LoopedAt(io_call.from, m)]
      BY <1>3, <1>5, <1>8 DEF Moved
    <2>2. /\ \A m \in 1 .. n : Rest(io_call.from + (done + m) - 1, Len(file)) = pos + m - 1
          /\ Rest(io_call.from + (done + n), Len(file)) = Rest(pos + n, Len(file))
      <3> DEFINE a == io_call.from + done
                 len == Len(file)
      <3>1. /\ a \in Nat /\ len \in Nat \ {0} /\ pos \in Nat /\ pos < len /\ pos + n <= len
            /\ n \in Nat /\ Rest(a, len) = Rest(pos, len)
        BY <1>1, <1>3, <2>1
      <3>2. ASSUME NEW m \in 1 .. n
            PROVE  io_call.from + (done + m) - 1 = a + (m - 1)
        BY <1>3
      <3>3. io_call.from + (done + n) = a + n
        BY <1>3
      <3> HIDE DEF a, len
      <3>4. ASSUME NEW m \in 1 .. n
            PROVE  Rest(io_call.from + (done + m) - 1, len) = pos + m - 1
        <4> DEFINE k == m - 1
        <4>1. k \in Nat /\ pos + k < len /\ pos + k <= len /\ pos + k = pos + m - 1
          BY <3>1
        <4>2. io_call.from + (done + m) - 1 = a + k
          BY <3>2
        <4> HIDE DEF k
        <4>3. Rest(a + k, len) = pos + k
          BY <3>1, <4>1, RestSteps
        <4>4. QED
          BY <4>1, <4>2, <4>3
      <3>5. Rest(a + n, len) = Rest(pos + n, len)
        BY <3>1, RestSteps
      <3>6. QED
        BY <3>3, <3>4, <3>5 DEF len
    <2>3. ASSUME NEW m \in 1 .. done'
          PROVE  data'[m] = file[LoopedAt(io_call.from, m)]
      <3>1. CASE m \in 1 .. done
        BY <1>4, <2>1, <3>1
      <3>2. CASE m - done \in 1 .. n /\ done + (m - done) = m
        <4>1. Rest(io_call.from + m - 1, Len(file)) = pos + (m - done) - 1
          BY <2>2, <3>2
        <4>2. pos + (m - done) - 1 + 1 = pos + (m - done)
          BY <1>3, <3>2
        <4>3. LoopedAt(io_call.from, m) = pos + (m - done)
          BY <4>1, <4>2 DEF LoopedAt
        <4>4. QED
          BY <1>4, <3>2, <4>3
      <3>3. QED
        BY <1>6, <3>1, <3>2
    <2>4. Rest(io_call.from + done', Len(file)) = Rest(pos', Len(file)) /\ pos' > 0
      BY <1>1, <1>3, <2>2
    <2>5. /\ file' = file /\ io_call' = io_call /\ io_call.op = "frame_read_loop"
          /\ \A m \in 1 .. done' : LoopedAt(io_call.from, m)' = LoopedAt(io_call.from, m)
      BY <1>2, <1>3, <1>8 DEF LoopedAt
    <2>6. Moved(done)'
      BY <1>3, <2>3, <2>4, <2>5 DEF Moved, LoopedAt
    <2>7. QED
      BY <1>2, <2>6 DEF Transfers
  <1>9. QED
    BY <1>2, <1>7, <1>8

LEMMA TransfersInit == F!Init => Transfers
  BY DEF F!Init, F!NoCall, Transfers

LEMMA TransfersNext == FrameInv /\ FrameInv' /\ Transfers /\ [F!Next]_(F!vars) => Transfers'
  <1> SUFFICES ASSUME FrameInv, FrameInv', Transfers, [F!Next]_(F!vars) PROVE Transfers'
    OBVIOUS
  <1>1. CASE UNCHANGED F!vars
    BY <1>1 DEF F!vars, Transfers, Moved, LoopedAt, Loaded
  <1>2. CASE F!Next
    <2>1. \/ \/ \E a, b, c \in Extents : F!FrameCreate(a, b, c)
             \/ F!FrameDestroy
             \/ F!Draw
             \/ \E n \in 0 .. FileMax : F!Open(n) \/ F!Seek(n)
             \/ F!Fail
          \/ \E op \in Operation : F!Call(op)
          \/ F!Finish \/ F!Write \/ F!Read \/ F!ReadEof
      BY <1>2 DEF F!Next, F!Step, Operation
    <2>2. QED
      BY <2>1, TransfersClient, TransfersCall, TransfersFinish, TransfersWrite, TransfersRead,
         TransfersEof
  <1>3. QED
    BY <1>1, <1>2

LEMMA TransfersInductive == Spec => []Transfers
  <1>1. Init => Transfers
    BY TransfersInit DEF Init
  <1>2. FrameInv /\ FrameInv' /\ Transfers /\ [Next]_vars => Transfers'
    BY FrameStep, TransfersNext
  <1>3. QED
    BY <1>1, <1>2, FrameInductive, PTL DEF Spec

\* A sequence that has its values where another has them from place k is that part of it.
LEMMA PartOfSeq ==
  ASSUME NEW S, NEW s \in Seq(S), NEW t \in Seq(S), NEW k \in Nat,
         k + Len(t) <= Len(s), \A m \in 1 .. Len(t) : s[k + m] = t[m]
  PROVE  SubSeq(s, k + 1, k + Len(t)) = t
  <1> DEFINE n == k + Len(t)
             u == SubSeq(s, k + 1, n)
  <1>1. Len(t) \in Nat /\ n \in Nat /\ Len(s) \in Nat /\ n <= Len(s) /\ k + 1 \in Nat
    OBVIOUS
  <1>2. u \in Seq(S) /\ Len(u) = Len(t) /\ \A m \in 1 .. Len(t) : u[m] = s[k + m]
    OBVIOUS
  <1> HIDE DEF u
  <1>3. \A m \in 1 .. Len(t) : u[m] = t[m]
    BY <1>2
  <1>4. u = t
    BY <1>2, <1>3, SeqEqual
  <1>5. QED
    BY <1>4 DEF u

\* Places that the rounds do not tell apart are the same, if none is a start.
LEMMA SamePlace ==
  ASSUME NEW b \in Nat, NEW len \in Nat \ {0}, NEW p \in 1 .. len,
         Rest(b + 1, len) = Rest(p, len)
  PROVE  p = Rest(b, len) + 1
  <1>1. Rest(b, len) \in 0 .. len - 1
    BY DivMod DEF Rest
  <1>2. Rest(b + 1, len) = IF Rest(b, len) + 1 = len THEN 0 ELSE Rest(b, len) + 1
    BY <1>1, RestAdd
  <1>3. Rest(p, len) = IF p = len THEN 0 ELSE p
    BY p \in 0 .. len, RestSmall
  <1>4. QED
    BY <1>1, <1>2, <1>3

\* A transfer that returns its count has moved the whole frame, in order and once,
\* through every short transfer and every end of file (frame.c:133-169, 209-228), for
\* every size of the frame, every file and every place it begins at.
THEOREM TransfersRight == Spec => []TransferRight
  <1>1. ASSUME FrameInv, Transfers
        PROVE  TransferRight
    <2> SUFFICES ASSUME io_pc = "idle", io_call.ret > 0
                 PROVE  F!TransferRight
      BY DEF TransferRight, F!TransferRight
    <2>1. io_call.op \in Operation /\ Loaded /\ Moved(Len(data))
      BY <1>1 DEF Transfers
    <2> DEFINE n == Len(data)
               from == io_call.from
               len == Len(file)
    <2>2. /\ n \in Nat \ {0} /\ len \in Nat /\ pos \in 0 .. len /\ from \in Nat
          /\ file \in Seq(Byte) /\ data \in Seq(Byte) /\ DOMAIN data = 1 .. n
      BY <1>1, <2>1, PartsAssumption DEF PartsAssumption, Loaded, FrameInv, FrameTypes
    <2>3. CASE io_call.op \in {"frame_write_data", "frame_read_data"}
      <3>1. pos = from + n /\ \A m \in 1 .. n : file[from + m] = data[m]
        BY <2>1, <2>3 DEF Moved
      <3>2. SubSeq(file, from + 1, pos) = data
        BY <2>2, <3>1, PartOfSeq
      <3>3. QED
        BY <2>3, <3>1, <3>2 DEF F!TransferRight
    <2>4. CASE io_call.op = "frame_read_loop"
      <3>1. /\ len > 0 /\ Rest(from + n, len) = Rest(pos, len) /\ pos > 0
            /\ \A m \in 1 .. n : data[m] = file[LoopedAt(from, m)]
        BY <2>1, <2>2, <2>4 DEF Moved
      <3>2. pos = LoopedAt(from, n)
        <4> DEFINE b == from + n - 1
        <4>1. b \in Nat /\ b + 1 = from + n /\ len \in Nat \ {0} /\ pos \in 1 .. len
          BY <2>2, <3>1
        <4> HIDE DEF b, len
        <4>2. pos = Rest(b, len) + 1
          BY <3>1, <4>1, SamePlace
        <4>3. QED
          BY <4>2 DEF LoopedAt, b, len
      <3>3. /\ \A m \in DOMAIN data : data[m] = file[F!Looped(from, m)]
            /\ pos = F!Looped(from, n)
        BY <2>2, <3>1, <3>2, LoopedIsRest
      <3>4. QED
        BY <2>4, <3>3 DEF F!TransferRight
    <2>5. QED
      BY <2>1, <2>3, <2>4 DEF Operation
  <1>2. QED
    BY <1>1, FrameInductive, TransfersInductive, PTL

-----------------------------------------------------------------------------
(* The menu and the cursor: types, and the tab that never ends             *)

LEMMA MenuStep == [Next]_vars => [U!Next]_(U!vars)
  BY DEF Next, vars, OthersStay, menuVars, U!vars

LEMMA TextStep == [Next]_vars => [P!Next]_(P!vars)
  BY DEF Next, vars, OthersStay, textVars, P!vars

LEMMA MenuTypes == Spec => []U!TypeOK
  <1> DEFINE Marks == {"none", "plain", "selected"}
  <1>1. ASSUME U!Init
        PROVE  U!TypeOK
    <2>1. menu = [e \in U!Entry |-> "none"]
      BY <1>1 DEF U!Init
    <2>2. menu \in [U!Entry -> Marks]
      BY <2>1
    <2>3. "STATE_STOPPED" \in DOMAIN U!State /\ 0 \in 0 .. U!MENU_COUNT
      BY DEF U!State, U!MENU_COUNT
    <2>4. QED
      BY <1>1, <2>2, <2>3 DEF U!Init, U!TypeOK
  <1>2. ASSUME U!TypeOK, [U!Next]_(U!vars)
        PROVE  U!TypeOK'
    <2> USE DEF U!TypeOK, U!State, U!MENU_COUNT, U!Entry
    <2>1. CASE UNCHANGED U!vars
      BY <1>2, <2>1 DEF U!vars
    <2>2. CASE U!DrawFrame
      BY <1>2, <2>2 DEF U!DrawFrame
    <2>3. CASE U!DrawEntry
      <3>1. menu \in [U!Entry -> Marks]
        BY <1>2
      <3>2. menu' = [menu EXCEPT ![i] = IF i = U!State[state] THEN "selected" ELSE "plain"]
        BY <2>3 DEF U!DrawEntry
      <3>3. menu' \in [U!Entry -> Marks]
        BY <3>1, <3>2
      <3>4. i \in 0 .. 2 /\ i' = i + 1 /\ UNCHANGED <<state, restarting, ui_pc, ui_asleep>>
        BY <1>2, <2>3 DEF U!DrawEntry
      <3>5. i' \in 0 .. 3
        BY <3>4
      <3>6. QED
        BY <1>2, <3>3, <3>4, <3>5
    <2>4. CASE U!ExitCheck \/ U!GateSleep \/ U!GatePass \/ U!SpuriousWakeup
      BY <1>2, <2>4 DEF U!ExitCheck, U!GateSleep, U!GatePass, U!SpuriousWakeup
    <2>5. CASE U!UiStep
      BY <1>2, <2>5 DEF U!UiStep, U!PressStart, U!PressStop, U!PressRestart, U!FinishRestart,
                        U!PressQuit
    <2>6. QED
      BY <1>2, <2>1, <2>2, <2>3, <2>4, <2>5 DEF U!Next, U!DisplayStep
  <1>3. QED
    BY <1>1, <1>2, MenuStep, PTL DEF Spec, Init

\* A blank of a tab leaves its loop with the cursor as far on as the blanks drawn
\* since the last break; the line has had room for every blank but the first.
TextInv ==
  /\ P!TypeOK
  /\ lnStart \in Nat /\ w \in Nat /\ xres \in Nat /\ x \in Nat
  /\ ps_pc = "tab" => x >= lnStart + 2 * w * (j - 1) /\ (j > 1 => x + w <= xres)

LEMMA TextInductive == Spec => []TextInv
  <1>1. Init => TextInv
    BY DEF Init, P!Init, TextInv, P!TypeOK
  <1>2. ASSUME TextInv, [P!Next]_(P!vars)
        PROVE  TextInv'
    <2> USE DEF TextInv, P!TypeOK
    <2>1. CASE UNCHANGED P!vars
      BY <1>2, <2>1 DEF P!vars
    <2>2. CASE P!Call
      <3>1. /\ lnStart' \in Column /\ w' \in Letter /\ xres' \in Screen
            /\ x' = lnStart' /\ j' = 0 /\ ps_pc' = "next"
        BY <2>2 DEF P!Call
      <3>2. lnStart' \in Nat /\ w' \in Nat /\ xres' \in Nat
        BY <3>1, PartsAssumption DEF PartsAssumption
      <3>3. QED
        BY <3>1, <3>2
    <2>3. ASSUME P!Advance, UNCHANGED <<lnStart, w, xres>>
          PROVE  /\ x' \in Nat /\ (x' = lnStart \/ (x' > lnStart /\ x' + w <= xres))
                 /\ IF P!Full THEN x' = lnStart ELSE x' = x + 2 * w /\ x' + w <= xres
      BY <1>2, <2>3 DEF P!Advance, P!Full
    <2>4. CASE P!Char
      BY <1>2, <2>3, <2>4 DEF P!Char
    <2>5. CASE P!Blank
      <3>1. /\ ps_pc = "tab" /\ ps_pc' = "tab" /\ j \in 0 .. 3 /\ UNCHANGED <<lnStart, w, xres>>
            /\ P!Advance /\ j' = IF P!Full THEN 1 ELSE j + 1
        BY <1>2, <2>5 DEF P!Blank
      <3>2. CASE P!Full
        BY <1>2, <2>3, <3>1, <3>2
      <3>3. CASE ~P!Full
        <4>1. x' = x + 2 * w /\ x' + w <= xres /\ x >= lnStart + 2 * w * (j - 1) /\ j' = j + 1
          BY <1>2, <2>3, <3>1, <3>3
        <4>2. 2 * w * (j' - 1) = 2 * w * (j - 1) + 2 * w
          BY <1>2, <3>1, <4>1
        <4>3. x' >= lnStart + 2 * w * (j' - 1)
          BY <1>2, <3>1, <4>1, <4>2
        <4>4. QED
          BY <1>2, <2>3, <3>1, <4>1, <4>3
      <3>4. QED
        BY <3>2, <3>3
    <2>6. CASE P!LineBreak \/ P!TabEnd \/ P!Return
      BY <1>2, <2>6 DEF P!LineBreak, P!TabEnd, P!Return
    <2>7. CASE P!Tab
      <3>1. ps_pc' = "tab" /\ j' = 0 /\ UNCHANGED <<lnStart, w, xres, x>> /\ x >= lnStart
        BY <1>2, <2>7 DEF P!Tab
      <3>2. 2 * w * (0 - 1) <= 0
        BY <1>2
      <3>3. QED
        BY <1>2, <3>1, <3>2
    <2>8. QED
      BY <1>2, <2>1, <2>2, <2>4, <2>5, <2>6, <2>7 DEF P!Next
  <1>3. QED
    BY <1>1, <1>2, TextStep, PTL DEF Spec

\* A tab in lines without room for its four blanks never ends, since its loop starts
\* again at every break (fbDraw.c:661-671), whatever the text, the letters and the screen.
THEOREM NarrowTabNeverEnds ==
  Spec => [](ps_pc = "tab" /\ ~P!RoomForTab => [](ps_pc = "tab"))
  <1> DEFINE Stuck == ps_pc = "tab" /\ ~P!RoomForTab
  <1>1. ASSUME TextInv, Stuck, [P!Next]_(P!vars)
        PROVE  Stuck'
    <2> USE DEF P!RoomForTab
    <2>1. j # 4
      <3>1. ASSUME j = 4 PROVE FALSE
        <4>1. 2 * w * (j - 1) = 6 * w
          BY <1>1, <3>1 DEF TextInv
        <4>2. QED
          BY <1>1, <3>1, <4>1 DEF TextInv
      <3>2. QED
        BY <3>1
    <2>2. CASE UNCHANGED P!vars
      BY <1>1, <2>2 DEF P!vars
    <2>3. CASE P!Next
      BY <1>1, <2>1, <2>3 DEF P!Next, P!Call, P!Char, P!LineBreak, P!Tab, P!Blank, P!TabEnd, P!Return
    <2>4. QED
      BY <1>1, <2>2, <2>3
  <1>2. Stuck => ps_pc = "tab"
    OBVIOUS
  <1> HIDE DEF Stuck
  <1>3. Spec => [](Stuck => [](ps_pc = "tab"))
    BY <1>1, <1>2, TextInductive, TextStep, PTL DEF Spec
  <1>4. QED
    BY <1>3 DEF Stuck

LEMMA FrameTypeOK == FrameInv => F!TypeOK
  <1> SUFFICES ASSUME FrameInv PROVE F!TypeOK
    OBVIOUS
  <1> USE DEF FrameInv
  <1>1. SizeMax \in Nat /\ FileMax \in Nat
    BY PartsAssumption DEF PartsAssumption
  <1>2. data = F!NoData \/ \A m \in DOMAIN data : data[m] \in 0 .. F!Drawn + SizeMax
    <2>1. CASE Loaded
      <3>1. \A m \in DOMAIN data : data[m] \in Byte
        BY <2>1 DEF Loaded
      <3>2. QED
        BY <3>1 DEF Byte, F!Drawn
    <2>2. QED
      BY <2>1 DEF FrameTypes
  <1>3. done \in 0 .. left /\ left <= SizeMax
    BY <1>1 DEF CallOK, Loaded
  <1>4. QED
    BY <1>1, <1>2, <1>3 DEF F!TypeOK, FrameTypes, Operation

\* Every variable of the parts keeps its type, whatever sizes they are built with.
THEOREM TypesCorrect == Spec => []TypeOK
  <1>1. TaskInv => T!TypeOK
    BY DEF TaskInv
  <1>2. PoolInv => M!TypeOK
    BY DEF PoolInv
  <1>3. TextInv => P!TypeOK
    BY DEF TextInv
  <1>4. Spec => [](T!TypeOK /\ M!TypeOK /\ F!TypeOK /\ U!TypeOK /\ P!TypeOK)
    BY <1>1, <1>2, <1>3, TaskInductive, PoolInductive, FrameInductive, FrameTypeOK, MenuTypes,
       TextInductive, PTL
  <1>5. QED
    BY <1>4 DEF TypeOK

=============================================================================
