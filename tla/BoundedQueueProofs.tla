------------------------- MODULE BoundedQueueProofs --------------------------
(***************************************************************************)
(* Proofs about BoundedQueue for every capacity, every set of items and    *)
(* every finite set of threads: the ring implements Fifo and no wakeup is  *)
(* lost.                                                                   *)
(***************************************************************************)
EXTENDS BoundedQueue, FiniteSetTheorems, SequenceTheorems, TLAPS

Slot == 0 .. Capacity - 1

\* The write index is determined by the read index and the count, every queued
\* slot holds an item, and so does the hand of a thread that enqueues.
RingOK ==
  /\ tail = (head + count) % Capacity
  /\ \A n \in 1 .. count : buffer[(head + n - 1) % Capacity] \in Item
  /\ \A t \in Thread : pc[t] = "enqueue" => slot[t] \in Item
  /\ \A t \in asleep : pc[t] # "idle"

IndInv == TypeOK /\ RingOK /\ NoLostWakeup

-----------------------------------------------------------------------------
(* Facts about indices, sequences and sets of threads *)

LEMMA ModSmall ==
  ASSUME NEW x \in Slot
  PROVE  x % Capacity = x
  BY QueueAssumption DEF QueueAssumption, Slot

LEMMA ModLarge ==
  ASSUME NEW x \in Capacity .. 2 * Capacity - 1
  PROVE  x % Capacity = x - Capacity
  BY QueueAssumption DEF QueueAssumption

\* x mod Capacity for an x below 2 * Capacity.
Wrap(x) == IF x < Capacity THEN x ELSE x - Capacity

\* The position of a slot some distance from another.
LEMMA ModSum ==
  ASSUME NEW h \in Slot, NEW n \in 0 .. Capacity
  PROVE  /\ (h + n) % Capacity = Wrap(h + n)
         /\ (h + n) % Capacity \in Slot
  <1>1. Capacity \in Nat \ {0}
    BY QueueAssumption DEF QueueAssumption
  <1>2. CASE h + n < Capacity
    BY <1>1, <1>2, ModSmall DEF Slot, Wrap
  <1>3. CASE h + n >= Capacity
    BY <1>1, <1>3, ModLarge DEF Slot, Wrap
  <1>4. QED
    BY <1>1, <1>2, <1>3 DEF Slot

\* Two slots less than Capacity away from h are different.
LEMMA ModDistinct ==
  ASSUME NEW h \in Slot, NEW m \in 0 .. Capacity - 1, NEW n \in 0 .. Capacity - 1, m # n
  PROVE  (h + m) % Capacity # (h + n) % Capacity
  <1>1. m \in 0 .. Capacity /\ n \in 0 .. Capacity /\ Capacity \in Nat \ {0}
    BY QueueAssumption DEF QueueAssumption
  <1>2. (h + m) % Capacity = Wrap(h + m) /\ (h + n) % Capacity = Wrap(h + n)
    BY <1>1, ModSum
  <1>3. Wrap(h + m) # Wrap(h + n)
    BY <1>1 DEF Slot, Wrap
  <1>4. QED
    BY <1>2, <1>3

\* The slot after the n-th one from h.
LEMMA ModNext ==
  ASSUME NEW h \in Slot, NEW n \in 0 .. Capacity - 1
  PROVE  /\ (((h + n) % Capacity) + 1) % Capacity = (h + n + 1) % Capacity
         /\ (((h + 1) % Capacity) + n) % Capacity = (h + n + 1) % Capacity
  <1>1. Capacity \in Nat \ {0}
    BY QueueAssumption DEF QueueAssumption
  <1>2. /\ n \in 0 .. Capacity /\ n + 1 \in 0 .. Capacity /\ 1 \in 0 .. Capacity
        /\ h + n + 1 = h + (n + 1)
    BY <1>1 DEF Slot
  <1>3. /\ Wrap(h + n) \in Slot /\ Wrap(h + 1) \in Slot
        /\ (h + n) % Capacity = Wrap(h + n) /\ (h + 1) % Capacity = Wrap(h + 1)
        /\ (h + (n + 1)) % Capacity = Wrap(h + (n + 1))
    BY <1>2, ModSum
  <1>4. /\ (Wrap(h + n) + 1) % Capacity = Wrap(Wrap(h + n) + 1)
        /\ (Wrap(h + 1) + n) % Capacity = Wrap(Wrap(h + 1) + n)
    BY <1>2, <1>3, ModSum
  <1>5. /\ Wrap(Wrap(h + n) + 1) = Wrap(h + (n + 1))
        /\ Wrap(Wrap(h + 1) + n) = Wrap(h + (n + 1))
    BY <1>1 DEF Slot, Wrap
  <1>6. QED
    BY <1>2, <1>3, <1>4, <1>5

\* Cardinalities of sets of threads are numbers, counted one by one.
LEMMA CardThreads ==
  ASSUME NEW S \in SUBSET Thread
  PROVE  /\ Cardinality(S) \in Nat
         /\ \A t \in Thread \ S : Cardinality(S \cup {t}) = Cardinality(S) + 1
         /\ \A t \in S : Cardinality(S \ {t}) = Cardinality(S) - 1
  <1>1. IsFiniteSet(S)
    BY QueueAssumption, FS_Subset DEF QueueAssumption
  <1>2. QED
    BY <1>1, FS_CardinalityType, FS_AddElement, FS_RemoveElement

-----------------------------------------------------------------------------
(* The steps of Fifo *)

\* Items is a sequence as long as the ring is full.
LEMMA ItemsType ==
  ASSUME TypeOK
  PROVE  /\ Items \in Seq(Item \cup {NoItem})
         /\ Len(Items) = count
         /\ \A n \in 1 .. count : Items[n] = buffer[(head + n - 1) % Capacity]
  <1>1. count \in Nat /\ head \in Slot /\ Capacity \in Nat \ {0}
    BY QueueAssumption DEF QueueAssumption, TypeOK, Slot
  <1>2. ASSUME NEW n \in 1 .. count
        PROVE  buffer[(head + n - 1) % Capacity] \in Item \cup {NoItem}
    <2>1. n - 1 \in 0 .. Capacity /\ head + n - 1 = head + (n - 1)
      BY <1>1 DEF TypeOK, Slot
    <2>2. (head + n - 1) % Capacity \in Slot
      BY <1>1, <2>1, ModSum
    <2>3. QED
      BY <2>2 DEF TypeOK, Slot
  <1>3. Items \in [1 .. count -> Item \cup {NoItem}]
    BY <1>2 DEF Items
  <1>4. QED
    BY <1>1, <1>3 DEF Items

\* Enqueue appends what the thread holds, without touching a queued slot.
LEMMA EnqueueAppends ==
  ASSUME IndInv, NEW t \in Thread, Enqueue(t), TypeOK'
  PROVE  /\ Len(Items) < Capacity
         /\ Items' = Append(Items, slot[t])
  <1> DEFINE S == Item \cup {NoItem}
  <1>1. /\ count \in Nat /\ head \in Slot /\ Capacity \in Nat \ {0} /\ count < Capacity
        /\ count' = count + 1 /\ head' = head /\ tail \in Slot
        /\ slot[t] \in S
    BY QueueAssumption DEF QueueAssumption, IndInv, TypeOK, Slot, Enqueue, is_full
  <1>2. /\ Items \in Seq(S) /\ Len(Items) = count
        /\ \A n \in 1 .. count : Items[n] = buffer[(head + n - 1) % Capacity]
    BY ItemsType DEF IndInv
  <1>3. /\ Items' \in Seq(S) /\ Len(Items') = count'
        /\ \A n \in 1 .. count' : Items'[n] = buffer'[(head' + n - 1) % Capacity]
  \* the same lemma, of the next state
    <2>1. Items' = [n \in 1 .. count' |-> buffer'[(head' + n - 1) % Capacity]]
      BY DEF Items
    <2>2. ASSUME NEW n \in 1 .. count'
          PROVE  buffer'[(head' + n - 1) % Capacity] \in S
      <3>1. n - 1 \in 0 .. Capacity /\ head' + n - 1 = head + (n - 1)
        BY <1>1 DEF Slot
      <3>2. (head' + n - 1) % Capacity \in Slot
        BY <1>1, <3>1, ModSum
      <3>3. QED
        BY <3>2 DEF TypeOK, Slot
    <2>3. Items' \in [1 .. count' -> S] /\ count' \in Nat
      BY <1>1, <2>1, <2>2
    <2>4. QED
      BY <2>1, <2>3
  <1>4. /\ Append(Items, slot[t]) \in Seq(S)
        /\ Len(Append(Items, slot[t])) = count + 1
        /\ \A n \in 1 .. count : Append(Items, slot[t])[n] = Items[n]
        /\ Append(Items, slot[t])[count + 1] = slot[t]
    BY <1>1, <1>2
  <1>5. ASSUME NEW n \in 1 .. count'
        PROVE  Items'[n] = Append(Items, slot[t])[n]
    <2>1. tail = (head + count) % Capacity /\ buffer' = [buffer EXCEPT ![tail] = slot[t]]
      BY DEF IndInv, RingOK, Enqueue
    <2>2. n - 1 \in 0 .. Capacity - 1 /\ head + n - 1 = head + (n - 1)
      BY <1>1 DEF Slot
    <2>3. (head + n - 1) % Capacity \in Slot
      BY <1>1, <2>2, ModSum
    <2>4. CASE n = count + 1
      <3>1. (head + n - 1) % Capacity = tail
        BY <1>1, <2>1, <2>4 DEF Slot
      <3>2. buffer'[tail] = slot[t]
        BY <1>1, <2>1 DEF IndInv, TypeOK, Slot
      <3>3. QED
        BY <1>1, <1>3, <1>4, <2>4, <3>1, <3>2
    <2>5. CASE n # count + 1
      <3>1. n \in 1 .. count /\ n - 1 # count /\ count \in 0 .. Capacity - 1
        BY <1>1, <2>5
      <3>2. (head + (n - 1)) % Capacity # (head + count) % Capacity
        BY <1>1, <2>2, <3>1, ModDistinct
      <3>3. buffer'[(head + n - 1) % Capacity] = buffer[(head + n - 1) % Capacity]
        BY <2>1, <2>2, <2>3, <3>2 DEF IndInv, TypeOK, Slot
      <3>4. QED
        BY <1>1, <1>2, <1>3, <1>4, <3>1, <3>3
    <2>6. QED
      BY <2>4, <2>5
  <1>6. QED
    BY <1>1, <1>2, <1>3, <1>4, <1>5, SeqEqual

\* Dequeue returns the oldest item and keeps the others in order.
LEMMA DequeueTakesHead ==
  ASSUME IndInv, NEW t \in Thread, Dequeue(t), TypeOK'
  PROVE  /\ Items # <<>>
         /\ buffer[head] = Head(Items)
         /\ Items' = Tail(Items)
  <1> DEFINE S == Item \cup {NoItem}
  <1>1. /\ count \in Nat /\ head \in Slot /\ Capacity \in Nat \ {0}
        /\ 0 < count /\ count <= Capacity
        /\ count' = count - 1 /\ head' = (head + 1) % Capacity /\ buffer' = buffer
    BY QueueAssumption DEF QueueAssumption, IndInv, TypeOK, Slot, Dequeue, is_empty, Advance
  <1>2. /\ Items \in Seq(S) /\ Len(Items) = count
        /\ \A n \in 1 .. count : Items[n] = buffer[(head + n - 1) % Capacity]
    BY ItemsType DEF IndInv
  <1>3. /\ Items # <<>> /\ Head(Items) = Items[1]
        /\ Tail(Items) \in Seq(S) /\ Len(Tail(Items)) = count'
        /\ \A n \in 1 .. count' : Tail(Items)[n] = Items[n + 1]
    BY <1>1, <1>2
  <1>4. Items[1] = buffer[head]
    <2>1. head + 1 - 1 = head /\ 1 \in 1 .. count
      BY <1>1 DEF Slot
    <2>2. QED
      BY <1>1, <1>2, <2>1, ModSmall
  <1>5. ASSUME NEW n \in 1 .. count'
        PROVE  buffer'[(head' + n - 1) % Capacity] = Tail(Items)[n]
    <2>1. /\ n - 1 \in 0 .. Capacity - 1 /\ n + 1 \in 1 .. count
          /\ ((head + 1) % Capacity) + n - 1 = ((head + 1) % Capacity) + (n - 1)
          /\ head + (n - 1) + 1 = head + (n + 1) - 1
      <3>1. (head + 1) % Capacity \in Slot
        BY <1>1, ModSum
      <3>2. QED
        BY <1>1, <3>1 DEF Slot
    <2>2. (((head + 1) % Capacity) + (n - 1)) % Capacity = (head + (n - 1) + 1) % Capacity
      BY <1>1, <2>1, ModNext
    <2>3. QED
      BY <1>1, <1>2, <1>3, <2>1, <2>2
  <1>6. /\ Items' \in Seq(S) /\ Len(Items') = count'
        /\ \A n \in 1 .. count' : Items'[n] = buffer'[(head' + n - 1) % Capacity]
    <2>1. Items' = [n \in 1 .. count' |-> buffer'[(head' + n - 1) % Capacity]]
      BY DEF Items
    <2>2. \A n \in 1 .. count' : Tail(Items)[n] \in S
      BY <1>3
    <2>3. \A n \in 1 .. count' : buffer'[(head' + n - 1) % Capacity] \in S
      BY <1>5, <2>2
    <2>4. Items' \in [1 .. count' -> S] /\ count' \in Nat
      BY <1>1, <2>1, <2>3
    <2>5. QED
      BY <2>1, <2>4
  <1>7. QED
    BY <1>3, <1>4, <1>5, <1>6, SeqEqual

-----------------------------------------------------------------------------
(* The inductive invariant, one lemma per action *)

LEMMA InitInv == Init => IndInv
  <1> SUFFICES ASSUME Init PROVE IndInv
    OBVIOUS
  <1>1. Capacity \in Nat \ {0} /\ 0 \in Slot
    BY QueueAssumption DEF QueueAssumption, Slot
  <1>2. TypeOK
    <2>1. buffer \in [0 .. Capacity - 1 -> Item \cup {NoItem}]
      BY DEF Init
    <2>2. /\ head \in 0 .. Capacity - 1 /\ tail \in 0 .. Capacity - 1
          /\ count \in 0 .. Capacity
      BY <1>1 DEF Init, Slot
    <2>3. QED
      BY <2>1, <2>2 DEF Init, TypeOK
  <1>3. RingOK
    BY <1>1, ModSmall DEF Init, RingOK
  <1>4. NoLostWakeup
    BY DEF Init, NoLostWakeup, Blocked
  <1>5. QED
    BY <1>2, <1>3, <1>4 DEF IndInv

\* The sets of threads are sets of threads, and their sizes are numbers.
LEMMA AwakeType ==
  ASSUME NEW call
  PROVE  Awake(call) \in SUBSET Thread /\ Cardinality(Awake(call)) \in Nat
  <1>1. Awake(call) \in SUBSET Thread
    BY DEF Awake
  <1>2. QED
    BY <1>1, CardThreads

LEMMA CallInv ==
  ASSUME IndInv, NEW t \in Thread,
         (\E i \in Item : CallEnqueue(t, i)) \/ CallDequeue(t)
  PROVE  IndInv'
  <1> USE DEF IndInv
  <1>1. PICK call \in {"enqueue", "dequeue"} :
          /\ pc[t] = "idle" /\ t \notin asleep
          /\ pc' = [pc EXCEPT ![t] = call]
          /\ UNCHANGED <<ring, done, asleep>>
          /\ slot' \in [Thread -> Item \cup {NoItem}]
          /\ call = "enqueue" => slot'[t] \in Item
          /\ \A u \in Thread \ {t} : slot'[u] = slot[u]
    BY DEF CallEnqueue, CallDequeue, TypeOK, RingOK
  <1>2. TypeOK'
    BY <1>1 DEF TypeOK, ring
  <1>3. RingOK'
    BY <1>1 DEF TypeOK, RingOK, ring
  <1>4. NoLostWakeup'
    <2>1. /\ Blocked("dequeue")' = Blocked("dequeue")
          /\ Blocked("enqueue")' = Blocked("enqueue")
      BY <1>1 DEF TypeOK, Blocked
    <2>2. ASSUME NEW c \in {"enqueue", "dequeue"}
          PROVE  Cardinality(Awake(c))' >= Cardinality(Awake(c))
      <3>1. CASE c = call
        <4>1. Awake(c)' = Awake(c) \cup {t} /\ t \in Thread \ Awake(c)
          BY <1>1, <3>1 DEF TypeOK, Awake
        <4>2. QED
          BY <4>1, AwakeType, CardThreads
      <3>2. CASE c # call
        <4>1. Awake(c)' = Awake(c)
          BY <1>1, <3>2 DEF TypeOK, Awake
        <4>2. QED
          BY <4>1, AwakeType
      <3>3. QED
        BY <3>1, <3>2
    <2>3. count' = count /\ count \in Nat /\ Capacity \in Nat
      BY <1>1, QueueAssumption DEF QueueAssumption, TypeOK, ring
    <2>4. ASSUME NEW c \in {"enqueue", "dequeue"}
          PROVE  Cardinality(Awake(c)) \in Nat /\ Cardinality(Awake(c))' \in Nat
      <3>1. Awake(c)' \in SUBSET Thread
        BY DEF Awake
      <3>2. QED
        BY <3>1, AwakeType, CardThreads
    <2>5. QED
      BY <2>1, <2>2, <2>3, <2>4 DEF NoLostWakeup
  <1>5. QED
    BY <1>2, <1>3, <1>4

LEMMA WaitInv ==
  ASSUME IndInv, NEW t \in Thread, EnqueueWait(t) \/ DequeueWait(t)
  PROVE  IndInv'
  <1> USE DEF IndInv
  <1>1. TypeOK'
    BY DEF TypeOK, EnqueueWait, DequeueWait, ring
  <1>2. RingOK'
    BY DEF RingOK, EnqueueWait, DequeueWait, ring
  <1>3. /\ Cardinality(Awake("enqueue"))' \in Nat
        /\ Cardinality(Awake("dequeue"))' \in Nat
        /\ Capacity \in Nat /\ count \in Nat
    <2>1. Awake("enqueue")' \in SUBSET Thread /\ Awake("dequeue")' \in SUBSET Thread
      BY DEF Awake
    <2>2. QED
      BY <2>1, CardThreads, QueueAssumption DEF QueueAssumption, TypeOK
  <1>4. CASE EnqueueWait(t)
    <2>1. count' = Capacity /\ count' = count
      BY <1>4 DEF EnqueueWait, is_full, ring
    <2>2. /\ Blocked("dequeue")' = Blocked("dequeue")
          /\ Awake("dequeue")' = Awake("dequeue")
      BY <1>4 DEF Blocked, Awake, EnqueueWait, TypeOK
    <2>3. NoLostWakeup'
      BY <1>3, <2>1, <2>2 DEF NoLostWakeup
    <2>4. QED
      BY <1>1, <1>2, <2>3
  <1>5. CASE DequeueWait(t)
    <2>1. count' = 0 /\ count' = count
      BY <1>5 DEF DequeueWait, is_empty, ring
    <2>2. /\ Blocked("enqueue")' = Blocked("enqueue")
          /\ Awake("enqueue")' = Awake("enqueue")
      BY <1>5 DEF Blocked, Awake, DequeueWait, TypeOK
    <2>3. NoLostWakeup'
      BY <1>3, <2>1, <2>2 DEF NoLostWakeup
    <2>4. QED
      BY <1>1, <1>2, <2>3
  <1>6. QED
    BY <1>4, <1>5

\* A thread leaves one call and signals one thread blocked in the other.
LEMMA SignalCounts ==
  ASSUME TypeOK, RingOK, NEW t \in Thread,
         NEW mine \in {"enqueue", "dequeue"}, NEW other \in {"enqueue", "dequeue"},
         mine # other,
         pc[t] = mine, t \notin asleep, pc' = [pc EXCEPT ![t] = "idle"], Signal(other)
  PROVE  /\ Cardinality(Awake(mine))' = Cardinality(Awake(mine)) - 1
         /\ Blocked(mine)' = Blocked(mine)
         /\ \/ Blocked(other)' = {}
            \/ Cardinality(Awake(other))' = Cardinality(Awake(other)) + 1 /\ Blocked(other) # {}
         /\ asleep' \subseteq asleep
         /\ \A u \in asleep' : pc'[u] # "idle"
  <1>1. asleep' \subseteq asleep /\ \A u \in asleep \ asleep' : pc[u] = other
    BY DEF Signal, Blocked
  <1>2. Awake(mine)' = Awake(mine) \ {t} /\ t \in Awake(mine)
    BY <1>1 DEF TypeOK, Awake
  <1>3. Cardinality(Awake(mine))' = Cardinality(Awake(mine)) - 1
    BY <1>2, AwakeType, CardThreads
  <1>4. Blocked(mine)' = Blocked(mine)
    BY <1>1 DEF TypeOK, Blocked
  <1>5. CASE Blocked(other) = {}
    <2>1. Blocked(other)' = {}
      BY <1>1, <1>5 DEF TypeOK, Blocked
    <2>2. QED
      BY <1>1, <1>3, <1>4, <2>1 DEF RingOK, TypeOK
  <1>6. ASSUME NEW u \in Blocked(other), asleep' = asleep \ {u}
        PROVE  Cardinality(Awake(other))' = Cardinality(Awake(other)) + 1
    <2>1. Awake(other)' = Awake(other) \cup {u} /\ u \in Thread \ Awake(other)
      BY <1>6 DEF TypeOK, Awake, Blocked
    <2>2. QED
      BY <2>1, AwakeType, CardThreads
  <1>7. QED
    BY <1>1, <1>3, <1>4, <1>5, <1>6 DEF Signal, RingOK, TypeOK

LEMMA EnqueueInv ==
  ASSUME IndInv, NEW t \in Thread, Enqueue(t)
  PROVE  IndInv'
  <1> USE DEF IndInv
  <1>1. /\ Capacity \in Nat \ {0} /\ count \in Nat /\ count < Capacity /\ count' = count + 1
        /\ head \in Slot /\ head' = head /\ tail \in Slot
        /\ tail = (head + count) % Capacity /\ slot[t] \in Item
    BY QueueAssumption DEF QueueAssumption, TypeOK, RingOK, Slot, Enqueue, is_full
  <1>2. /\ Cardinality(Awake("enqueue"))' = Cardinality(Awake("enqueue")) - 1
        /\ Blocked("enqueue")' = Blocked("enqueue")
        /\ \/ Blocked("dequeue")' = {}
           \/ /\ Cardinality(Awake("dequeue"))' = Cardinality(Awake("dequeue")) + 1
              /\ Blocked("dequeue") # {}
        /\ asleep' \subseteq asleep
        /\ \A u \in asleep' : pc'[u] # "idle"
    BY SignalCounts DEF Enqueue
  <1>3. tail' = (head + count + 1) % Capacity /\ tail' \in Slot
    <2>1. count \in 0 .. Capacity - 1 /\ 1 \in 0 .. Capacity
      BY <1>1
    <2>2. tail' = (tail + 1) % Capacity
      BY DEF Enqueue, Advance
    <2>3. QED
      BY <1>1, <2>1, <2>2, ModNext, ModSum
  <1>4. TypeOK'
    BY <1>1, <1>2, <1>3 DEF TypeOK, Enqueue, Slot
  <1>5. RingOK'
    <2>1. tail' = (head' + count') % Capacity
      <3>1. head' + count' = head + count + 1
        BY <1>1 DEF Slot
      <3>2. QED
        BY <1>3, <3>1
    <2>2. ASSUME NEW n \in 1 .. count'
          PROVE  buffer'[(head' + n - 1) % Capacity] \in Item
      <3>1. /\ n - 1 \in 0 .. Capacity /\ head + n - 1 = head + (n - 1)
            /\ n \in 1 .. count \/ head + n - 1 = head + count
        BY <1>1 DEF Slot
      <3>2. (head + n - 1) % Capacity \in Slot
        BY <1>1, <3>1, ModSum
      <3>3. buffer' = [buffer EXCEPT ![tail] = slot[t]]
        BY DEF Enqueue
      <3>4. \/ (head + n - 1) % Capacity = tail
            \/ buffer[(head + n - 1) % Capacity] \in Item
        BY <1>1, <3>1 DEF RingOK
      <3>5. QED
        BY <1>1, <3>2, <3>3, <3>4 DEF TypeOK, Slot
    <2>3. \A u \in Thread : pc'[u] = "enqueue" => slot'[u] \in Item
      BY DEF TypeOK, RingOK, Enqueue
    <2>4. QED
      BY <1>2, <2>1, <2>2, <2>3 DEF RingOK
  <1>6. NoLostWakeup'
    <2>1. Cardinality(Awake("enqueue")) \in Nat /\ Cardinality(Awake("dequeue")) \in Nat
      BY AwakeType
    <2>2. QED
      BY <1>1, <1>2, <2>1 DEF NoLostWakeup
  <1>7. QED
    BY <1>4, <1>5, <1>6

LEMMA DequeueInv ==
  ASSUME IndInv, NEW t \in Thread, Dequeue(t)
  PROVE  IndInv'
  <1> USE DEF IndInv
  <1>1. /\ Capacity \in Nat \ {0} /\ count \in Nat /\ 0 < count /\ count <= Capacity
        /\ count' = count - 1 /\ tail' = tail /\ buffer' = buffer
        /\ head \in Slot /\ head' = (head + 1) % Capacity
        /\ tail = (head + count) % Capacity
    BY QueueAssumption
    DEF QueueAssumption, TypeOK, RingOK, Slot, Dequeue, is_empty, Advance
  <1>2. /\ Cardinality(Awake("dequeue"))' = Cardinality(Awake("dequeue")) - 1
        /\ Blocked("dequeue")' = Blocked("dequeue")
        /\ \/ Blocked("enqueue")' = {}
           \/ /\ Cardinality(Awake("enqueue"))' = Cardinality(Awake("enqueue")) + 1
              /\ Blocked("enqueue") # {}
        /\ asleep' \subseteq asleep
        /\ \A u \in asleep' : pc'[u] # "idle"
    BY SignalCounts DEF Dequeue
  <1>3. head' \in Slot
    BY <1>1, ModSum, 1 \in 0 .. Capacity
  <1>4. TypeOK'
    <2>1. slot' \in [Thread -> Item \cup {NoItem}]
      BY <1>1 DEF TypeOK, Dequeue, Slot
    <2>2. QED
      BY <1>1, <1>2, <1>3, <2>1 DEF TypeOK, Dequeue, Slot
  <1>5. RingOK'
    <2>1. tail' = (head' + count') % Capacity
      <3>1. /\ count' \in 0 .. Capacity - 1
            /\ head + count' + 1 = head + count
        BY <1>1 DEF Slot
      <3>2. QED
        BY <1>1, <3>1, ModNext
    <2>2. ASSUME NEW n \in 1 .. count'
          PROVE  buffer'[(head' + n - 1) % Capacity] \in Item
      <3>1. /\ n - 1 \in 0 .. Capacity - 1 /\ n + 1 \in 1 .. count
            /\ head' + n - 1 = head' + (n - 1)
            /\ head + (n - 1) + 1 = head + (n + 1) - 1
        BY <1>1, <1>3 DEF Slot
      <3>2. (head' + (n - 1)) % Capacity = (head + (n - 1) + 1) % Capacity
        BY <1>1, <3>1, ModNext
      <3>3. QED
        BY <1>1, <3>1, <3>2 DEF RingOK
    <2>3. \A u \in Thread : pc'[u] = "enqueue" => slot'[u] \in Item
      BY DEF TypeOK, RingOK, Dequeue
    <2>4. QED
      BY <1>2, <2>1, <2>2, <2>3 DEF RingOK
  <1>6. NoLostWakeup'
    <2>1. Cardinality(Awake("enqueue")) \in Nat /\ Cardinality(Awake("dequeue")) \in Nat
      BY AwakeType
    <2>2. QED
      BY <1>1, <1>2, <2>1 DEF NoLostWakeup
  <1>7. QED
    BY <1>4, <1>5, <1>6

LEMMA WakeupInv ==
  ASSUME IndInv, SetDone \/ \E t \in Thread : SpuriousWakeup(t)
  PROVE  IndInv'
  <1> USE DEF IndInv
  <1>1. asleep' \subseteq asleep /\ UNCHANGED <<ring, pc, slot>> /\ done' \in BOOLEAN
    BY DEF SetDone, SpuriousWakeup, TypeOK
  <1>2. TypeOK' /\ RingOK'
    BY <1>1 DEF TypeOK, RingOK, ring
  <1>3. ASSUME NEW call
        PROVE  /\ Blocked(call)' \subseteq Blocked(call)
               /\ Cardinality(Awake(call))' >= Cardinality(Awake(call))
               /\ Cardinality(Awake(call))' \in Nat
    <2>1. Blocked(call)' \subseteq Blocked(call) /\ Awake(call) \subseteq Awake(call)'
      BY <1>1 DEF Blocked, Awake
    <2>2. Awake(call)' \in SUBSET Thread /\ IsFiniteSet(Awake(call)')
      BY QueueAssumption, FS_Subset DEF QueueAssumption, Awake
    <2>3. QED
      BY <2>1, <2>2, FS_Subset, AwakeType, CardThreads
  <1>4. NoLostWakeup'
    <2>1. count' = count /\ count \in Nat /\ Capacity \in Nat
      BY <1>1, QueueAssumption DEF QueueAssumption, TypeOK, ring
    <2>2. Cardinality(Awake("enqueue")) \in Nat /\ Cardinality(Awake("dequeue")) \in Nat
      BY AwakeType
    <2>3. QED
      BY <1>3, <2>1, <2>2 DEF NoLostWakeup
  <1>5. QED
    BY <1>2, <1>4

LEMMA StutterInv == IndInv /\ UNCHANGED vars => IndInv'
  BY DEF IndInv, TypeOK, RingOK, NoLostWakeup, Blocked, Awake, vars, ring

LEMMA Inductive == Spec => []IndInv
  <1>1. Init => IndInv
    BY InitInv
  <1>2. IndInv /\ [Next]_vars => IndInv'
    BY CallInv, WaitInv, EnqueueInv, DequeueInv, WakeupInv, StutterInv DEF Next
  <1>3. QED
    BY <1>1, <1>2, PTL DEF Spec

\* Every variable keeps its type: head and tail stay inside the buffer and the
\* count inside the capacity, for every capacity (queue.c:55-68).
THEOREM TypeCorrect == Spec => []TypeOK
  BY Inductive, PTL DEF IndInv

\* One signal per step loses no wakeup, with any number of producers and
\* consumers (capture.c:84-101, display.c:39-46).
THEOREM WakeupsNotLost == Spec => []NoLostWakeup
  BY Inductive, PTL DEF IndInv

\* Every step of the ring is a step of Fifo, or leaves its variables alone.
LEMMA StepSimulation == IndInv /\ IndInv' /\ [Next]_vars => [F!Next]_(F!vars)
  <1> SUFFICES ASSUME IndInv, IndInv', [Next]_vars PROVE [F!Next]_(F!vars)
    OBVIOUS
  <1> USE DEF F!Next, F!vars
  <1>1. ASSUME UNCHANGED ring
        PROVE  Items' = Items
    BY <1>1 DEF ring, Items
  <1>2. ASSUME NEW t \in Thread, NEW i \in Item, CallEnqueue(t, i)
        PROVE  F!Next
    BY <1>1, <1>2 DEF CallEnqueue, F!Offer
  <1>3. ASSUME NEW t \in Thread, Enqueue(t)
        PROVE  F!Next
    <2>1. Len(Items) < Capacity /\ Items' = Append(Items, slot[t])
      BY <1>3, EnqueueAppends DEF IndInv
    <2>2. slot[t] # NoItem /\ slot' = [slot EXCEPT ![t] = NoItem]
      BY <1>3, QueueAssumption DEF QueueAssumption, IndInv, RingOK, Enqueue
    <2>3. QED
      BY <2>1, <2>2 DEF F!Put
  <1>4. ASSUME NEW t \in Thread, Dequeue(t)
        PROVE  F!Next
    <2>1. Items # <<>> /\ buffer[head] = Head(Items) /\ Items' = Tail(Items)
      BY <1>4, DequeueTakesHead DEF IndInv
    <2>2. QED
      BY <1>4, <2>1 DEF Dequeue, F!Get
  <1>5. ASSUME \/ \E t \in Thread : EnqueueWait(t) \/ CallDequeue(t) \/ DequeueWait(t)
                                      \/ SpuriousWakeup(t)
               \/ SetDone
               \/ UNCHANGED vars
        PROVE  UNCHANGED <<Items, slot>>
    BY <1>1, <1>5
    DEF EnqueueWait, CallDequeue, DequeueWait, SpuriousWakeup, SetDone, vars
  <1>6. QED
    BY <1>2, <1>3, <1>4, <1>5 DEF Next

\* The ring buffer implements the bounded first-in first-out buffer, for every
\* capacity and every number of threads (queue.c:55-68).
THEOREM RingIsFifo == Spec => IsFifo
  <1>1. Init => F!Init
    <2> SUFFICES ASSUME Init PROVE F!Init
      OBVIOUS
    <2>1. Items = <<>>
      BY DEF Init, Items
    <2>2. QED
      BY <2>1 DEF Init, F!Init
  <1>2. QED
    BY <1>1, Inductive, StepSimulation, PTL DEF Spec, IsFifo, F!Spec

=============================================================================
