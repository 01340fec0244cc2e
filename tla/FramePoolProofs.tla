--------------------------- MODULE FramePoolProofs ---------------------------
(***************************************************************************)
(* Proofs about FramePool for every finite set of blocks and of threads.   *)
(* The properties are not inductive one by one: that the counter of a      *)
(* block is right after fp_alloc needs that the block it unlinked had no   *)
(* owner, and a lost wakeup needs that only allocators sleep.  IndInv is   *)
(* their conjunction with what a thread inside a call knows.               *)
(***************************************************************************)
EXTENDS FramePool, FiniteSetTheorems, FunctionTheorems, TLAPS

\* A thread works on a block exactly inside the second half of a call, it
\* allocates for somebody, and only a thread inside fp_alloc sleeps.
CallsOK ==
  /\ \A t \in Thread : pc[t] \in {"store", "push"} => blk[t] \in Block
  /\ \A t \in Thread : pc[t] \in {"alloc", "store"} => want[t] # {}
  /\ \A t \in waiting : pc[t] = "alloc"

IndInv ==
  /\ TypeOK
  /\ CallsOK
  /\ RefcountExact
  /\ BlockAccounting
  /\ NoLostWakeup

-----------------------------------------------------------------------------
(* Facts about the free list and about sets of threads *)

\* A list that links no block twice.
Distinct(s) == \A i, j \in DOMAIN s : s[i] = s[j] => i = j

\* Unlinking the head removes exactly that block from the list.
LEMMA TailElems ==
  ASSUME NEW S, NEW s \in Seq(S), s # <<>>, Distinct(s)
  PROVE  /\ Tail(s) \in Seq(S)
         /\ Head(s) \in S
         /\ Head(s) \in Elems(s)
         /\ Elems(Tail(s)) = Elems(s) \ {Head(s)}
         /\ Distinct(Tail(s))
         /\ Len(Tail(s)) = Len(s) - 1
  <1> DEFINE r == Tail(s)
  <1>1. /\ Len(s) \in Nat /\ Len(s) > 0 /\ DOMAIN s = 1..Len(s)
        /\ r \in Seq(S) /\ Len(r) = Len(s) - 1 /\ DOMAIN r = 1..(Len(s) - 1)
        /\ \A i \in DOMAIN r : r[i] = s[i + 1]
        /\ Head(s) = s[1] /\ s[1] \in S
    OBVIOUS
  <1>2. Elems(r) \subseteq Elems(s) \ {Head(s)}
    BY <1>1 DEF Elems, Distinct
  <1>3. ASSUME NEW x \in Elems(s) \ {Head(s)}
        PROVE  x \in Elems(r)
    <2>1. PICK i \in DOMAIN s : x = s[i]
      BY DEF Elems
    <2>2. i # 1
      BY <1>1, <2>1
    <2>3. i - 1 \in DOMAIN r /\ r[i - 1] = s[i]
      BY <1>1, <2>2
    <2>4. QED
      BY <2>1, <2>3 DEF Elems
  <1>4. Distinct(r)
    BY <1>1 DEF Distinct
  <1>5. Head(s) \in Elems(s)
    BY <1>1 DEF Elems
  <1>6. QED
    BY <1>1, <1>2, <1>3, <1>4, <1>5

\* Linking a block at the head adds exactly that block to the list.
LEMMA PushElems ==
  ASSUME NEW S, NEW s \in Seq(S), NEW b \in S
  PROVE  /\ <<b>> \o s \in Seq(S)
         /\ Elems(<<b>> \o s) = Elems(s) \cup {b}
         /\ Len(<<b>> \o s) = Len(s) + 1
         /\ Distinct(s) /\ b \notin Elems(s) => Distinct(<<b>> \o s)
  <1> DEFINE r == <<b>> \o s
  <1>1. /\ Len(s) \in Nat /\ DOMAIN s = 1..Len(s)
        /\ r \in Seq(S) /\ Len(r) = Len(s) + 1 /\ DOMAIN r = 1..(Len(s) + 1)
        /\ r[1] = b /\ \A i \in DOMAIN s : r[i + 1] = s[i]
    OBVIOUS
  <1>2. \A i \in DOMAIN r : i = 1 \/ (i - 1 \in DOMAIN s /\ r[i] = s[i - 1])
    BY <1>1
  <1>3. Elems(r) \subseteq Elems(s) \cup {b}
    BY <1>1, <1>2 DEF Elems
  <1>4. ASSUME NEW x \in Elems(s)
        PROVE  x \in Elems(r)
    <2>1. PICK i \in DOMAIN s : x = s[i]
      BY DEF Elems
    <2>2. i + 1 \in DOMAIN r /\ r[i + 1] = x
      BY <1>1, <2>1
    <2>3. QED
      BY <2>2 DEF Elems
  <1>5. b \in Elems(r)
    <2>1. 1 \in DOMAIN r /\ r[1] = b
      BY <1>1
    <2>2. QED
      BY <2>1 DEF Elems
  <1>6. ASSUME Distinct(s), b \notin Elems(s)
        PROVE  Distinct(r)
    <2>1. \A i \in DOMAIN s : s[i] # b
      BY <1>6 DEF Elems
    <2>2. QED
      BY <1>1, <1>2, <1>6, <2>1 DEF Distinct
  <1>7. QED
    BY <1>1, <1>3, <1>4, <1>5, <1>6

\* Cardinalities of sets of threads are numbers, counted one by one.
LEMMA CardThreads ==
  ASSUME NEW S \in SUBSET Thread
  PROVE  /\ Cardinality(S) \in Nat
         /\ Cardinality(S) = 0 <=> S = {}
         /\ \A t \in Thread \ S : Cardinality(S \cup {t}) = Cardinality(S) + 1
         /\ \A t \in S : Cardinality(S \ {t}) = Cardinality(S) - 1
  <1>1. IsFiniteSet(S)
    BY PoolAssumption, FS_Subset DEF PoolAssumption
  <1>2. QED
    BY <1>1, FS_CardinalityType, FS_EmptySet, FS_AddElement, FS_RemoveElement

-----------------------------------------------------------------------------

LEMMA InitInv == Init => IndInv
  <1> SUFFICES ASSUME Init PROVE IndInv
    OBVIOUS
  <1> DEFINE n == Cardinality(Block)
  <1>1. n \in Nat /\ IsFiniteSet(1..n) /\ Cardinality(1..n) = n
    BY PoolAssumption, FS_CardinalityType, FS_Interval DEF PoolAssumption
  <1>2. freeList \in [1..n -> Block] /\ DOMAIN freeList = 1..n /\ freeList \in Seq(Block)
    BY <1>1 DEF Init
  <1>3. freeList \in Surjection(1..n, Block)
    BY <1>2, Fun_IsSurj DEF Init, Elems
  <1>4. freeList \in Injection(1..n, Block)
    BY <1>1, <1>3, PoolAssumption, FS_SurjSameCardinalityImpliesInj
  <1>5. NoDoubleFree
    BY <1>2, <1>4 DEF NoDoubleFree, Injection, IsInjective
  <1>6. TypeOK
    BY <1>2 DEF Init, TypeOK
  <1>7. CallsOK
    BY DEF Init, CallsOK
  <1>8. RefcountExact
    BY FS_EmptySet DEF Init, RefcountExact
  <1>9. BlockAccounting
    BY <1>5 DEF Init, BlockAccounting, IsFree, InFlight
  <1>10. NoLostWakeup
    BY DEF Init, NoLostWakeup
  <1>11. QED
    BY <1>6, <1>7, <1>8, <1>9, <1>10 DEF IndInv

-----------------------------------------------------------------------------
(* One lemma per action: the inductive invariant is preserved.             *)

LEMMA CallAllocInv ==
  ASSUME IndInv, NEW t \in Thread, NEW owners \in SUBSET Thread, CallAlloc(t, owners)
  PROVE  IndInv'
  <1> USE DEF IndInv
  <1>1. TypeOK'
    BY DEF TypeOK, CallAlloc
  <1>2. CallsOK'
    BY DEF TypeOK, CallsOK, CallAlloc
  <1>3. RefcountExact'
    BY DEF RefcountExact, CallAlloc
  <1>4. \A u \in Thread, b \in Block : InFlight(u, b)' <=> InFlight(u, b)
    BY DEF TypeOK, InFlight, CallAlloc
  <1>5. BlockAccounting'
    BY <1>4 DEF BlockAccounting, NoDoubleFree, IsFree, CallAlloc
  <1>6. NoLostWakeup'
    <2>1. Awake' = Awake \cup {t} /\ t \in Thread \ Awake
      BY DEF TypeOK, CallsOK, Awake, CallAlloc
    <2>2. Len(freeList) \in Nat
      BY DEF TypeOK
    <2>3. Awake \in SUBSET Thread
      BY DEF Awake
    <2>4. Cardinality(Awake') = Cardinality(Awake) + 1 /\ Cardinality(Awake) \in Nat
      BY <2>1, <2>3, CardThreads
    <2>5. QED
      BY <2>2, <2>4 DEF NoLostWakeup, CallAlloc
  <1>7. QED
    BY <1>1, <1>2, <1>3, <1>5, <1>6

LEMMA AllocWaitInv ==
  ASSUME IndInv, NEW t \in Thread, AllocWait(t)
  PROVE  IndInv'
  <1> USE DEF IndInv
  <1>1. TypeOK' /\ CallsOK' /\ RefcountExact'
    BY DEF TypeOK, CallsOK, RefcountExact, AllocWait
  <1>2. BlockAccounting'
    <2>1. \A u \in Thread, b \in Block :
            (IsFree(b)' <=> IsFree(b)) /\ (InFlight(u, b)' <=> InFlight(u, b))
      BY DEF IsFree, InFlight, AllocWait
    <2>2. holder' = holder /\ freeList' = freeList
      BY DEF AllocWait
    <2>3. QED
      BY <2>1, <2>2 DEF BlockAccounting, NoDoubleFree
  <1>3. NoLostWakeup'
    <2>1. Awake' \in SUBSET Thread
      BY DEF Awake
    <2>2. Len(freeList') = 0
      BY DEF AllocWait
    <2>3. Cardinality(Awake') >= 0
      BY <2>1, CardThreads
    <2>4. QED
      BY <2>2, <2>3 DEF NoLostWakeup
  <1>4. QED
    BY <1>1, <1>2, <1>3

LEMMA AllocTakeInv ==
  ASSUME IndInv, NEW t \in Thread, AllocTake(t)
  PROVE  IndInv'
  <1> USE DEF IndInv
  <1> DEFINE h == Head(freeList)
  <1>1. /\ freeList' \in Seq(Block) /\ h \in Block /\ IsFree(h)
        /\ Elems(freeList') = Elems(freeList) \ {h}
        /\ NoDoubleFree'
        /\ Len(freeList') = Len(freeList) - 1 /\ Len(freeList) \in Nat
    <2>1. Distinct(freeList) /\ freeList # <<>> /\ freeList \in Seq(Block)
      BY DEF BlockAccounting, NoDoubleFree, Distinct, AllocTake, TypeOK
    <2>2. freeList' = Tail(freeList)
      BY DEF AllocTake
    <2>3. QED
      BY <2>1, <2>2, TailElems DEF IsFree, NoDoubleFree, Distinct
  <1>2. TypeOK'
    BY <1>1 DEF TypeOK, AllocTake
  <1>3. CallsOK'
    BY <1>1 DEF TypeOK, CallsOK, AllocTake
  <1>4. RefcountExact'
    BY DEF RefcountExact, AllocTake
  <1>5. \A u \in Thread, b \in Block :
          InFlight(u, b)' <=> InFlight(u, b) \/ (u = t /\ b = h)
    BY DEF TypeOK, InFlight, AllocTake
  <1>6. BlockAccounting'
    <2>1. \A b \in Block : IsFree(b)' <=> IsFree(b) /\ b # h
      BY <1>1 DEF IsFree
    <2>2. holder' = holder
      BY DEF AllocTake
    <2>3. holder[h] = {} /\ \A u \in Thread : ~InFlight(u, h)
      BY <1>1 DEF BlockAccounting
    <2>4. ASSUME NEW b \in Block, IsFree(b)'
          PROVE  holder'[b] = {} /\ \A u \in Thread : ~InFlight(u, b)'
      BY <2>1, <2>2, <2>4, <1>5 DEF BlockAccounting
    <2>5. ASSUME NEW u \in Thread, NEW b \in Block, InFlight(u, b)'
          PROVE  holder'[b] = {} /\ \A v \in Thread : InFlight(v, b)' => v = u
      BY <2>2, <2>3, <2>5, <1>5 DEF BlockAccounting
    <2>6. ASSUME NEW b \in Block
          PROVE  IsFree(b)' \/ holder'[b] # {} \/ \E u \in Thread : InFlight(u, b)'
      BY <2>1, <2>2, <1>5 DEF BlockAccounting
    <2>7. QED
      BY <1>1, <2>4, <2>5, <2>6 DEF BlockAccounting
  <1>7. NoLostWakeup'
    <2>1. Awake' = Awake \ {t} /\ t \in Awake /\ Awake \in SUBSET Thread
      BY DEF TypeOK, Awake, AllocTake
    <2>2. Cardinality(Awake') = Cardinality(Awake) - 1 /\ Cardinality(Awake) \in Nat
      BY <2>1, CardThreads
    <2>3. QED
      BY <1>1, <2>2 DEF NoLostWakeup, AllocTake
  <1>8. QED
    BY <1>1, <1>2, <1>3, <1>4, <1>6, <1>7

LEMMA AllocStoreInv ==
  ASSUME IndInv, NEW t \in Thread, AllocStore(t)
  PROVE  IndInv'
  <1> USE DEF IndInv
  <1> DEFINE b0 == blk[t]
  <1>1. b0 \in Block /\ InFlight(t, b0) /\ want[t] \in SUBSET Thread /\ want[t] # {}
    BY DEF TypeOK, CallsOK, InFlight, AllocStore
  <1>2. InitCount(want[t]) = Cardinality(want[t]) /\ Cardinality(want[t]) \in Nat
    BY <1>1, CardThreads DEF InitCount
  <1>3. TypeOK'
    BY <1>1, <1>2 DEF TypeOK, AllocStore
  <1>4. CallsOK'
    BY DEF TypeOK, CallsOK, AllocStore
  <1>5. RefcountExact'
    BY <1>1, <1>2 DEF TypeOK, RefcountExact, AllocStore
  <1>6. \A u \in Thread, b \in Block : InFlight(u, b)' <=> InFlight(u, b) /\ u # t
    BY PoolAssumption DEF PoolAssumption, TypeOK, InFlight, AllocStore
  <1>7. \A b \in Block : holder'[b] = IF b = b0 THEN want[t] ELSE holder[b]
    BY <1>1 DEF TypeOK, AllocStore
  <1>8. ~IsFree(b0) /\ \A u \in Thread : InFlight(u, b0) => u = t
    BY <1>1 DEF BlockAccounting
  <1>9. \A b \in Block : IsFree(b)' <=> IsFree(b)
    BY DEF IsFree, AllocStore
  <1>10. BlockAccounting'
    <2>1. NoDoubleFree'
      BY DEF BlockAccounting, NoDoubleFree, AllocStore
    <2>2. ASSUME NEW b \in Block, IsFree(b)'
          PROVE  holder'[b] = {} /\ \A u \in Thread : ~InFlight(u, b)'
      BY <2>2, <1>6, <1>7, <1>8, <1>9 DEF BlockAccounting
    <2>3. ASSUME NEW u \in Thread, NEW b \in Block, InFlight(u, b)'
          PROVE  holder'[b] = {} /\ \A v \in Thread : InFlight(v, b)' => v = u
      BY <2>3, <1>1, <1>6, <1>7 DEF BlockAccounting
    <2>4. ASSUME NEW b \in Block
          PROVE  IsFree(b)' \/ holder'[b] # {} \/ \E u \in Thread : InFlight(u, b)'
      BY <1>1, <1>6, <1>7, <1>9 DEF BlockAccounting, InFlight
    <2>5. QED
      BY <2>1, <2>2, <2>3, <2>4 DEF BlockAccounting
  <1>11. NoLostWakeup'
    <2>1. Awake' = Awake
      BY DEF TypeOK, CallsOK, Awake, AllocStore
    <2>2. QED
      BY <2>1 DEF NoLostWakeup, AllocStore
  <1>12. QED
    BY <1>3, <1>4, <1>5, <1>10, <1>11

LEMMA RetainInv ==
  ASSUME IndInv, NEW t \in Thread, NEW u \in Thread, NEW b0 \in Block, Retain(t, u, b0)
  PROVE  IndInv'
  <1> USE DEF IndInv
  <1>1. holder[b0] \in SUBSET Thread /\ u \in Thread \ holder[b0] /\ holder[b0] # {}
    BY DEF TypeOK, Retain
  <1>2. Cardinality(holder[b0] \cup {u}) = refcount[b0] + 1
    BY <1>1, CardThreads DEF RefcountExact
  <1>3. TypeOK'
    BY DEF TypeOK, Retain, AddReference
  <1>4. CallsOK'
    BY DEF CallsOK, Retain
  <1>5. RefcountExact'
    BY <1>2 DEF TypeOK, RefcountExact, Retain, AddReference
  <1>6. \A b \in Block : holder'[b] = {} <=> holder[b] = {}
    BY <1>1 DEF TypeOK, Retain
  <1>7. BlockAccounting'
    BY <1>6 DEF BlockAccounting, NoDoubleFree, IsFree, InFlight, Retain
  <1>8. NoLostWakeup'
    BY DEF NoLostWakeup, Awake, Retain
  <1>9. QED
    BY <1>3, <1>4, <1>5, <1>7, <1>8

LEMMA ReleaseSubInv ==
  ASSUME IndInv, NEW t \in Thread, NEW b0 \in Block, ReleaseSub(t, b0)
  PROVE  IndInv'
  <1> USE DEF IndInv
  <1>1. holder[b0] \in SUBSET Thread /\ t \in holder[b0]
    BY DEF TypeOK, ReleaseSub
  <1>2. /\ refcount[b0] = Cardinality(holder[b0]) /\ refcount[b0] \in Nat
        /\ Cardinality(holder[b0] \ {t}) = refcount[b0] - 1
        /\ Cardinality(holder[b0] \ {t}) \in Nat
        /\ refcount[b0] = 1 <=> holder[b0] \ {t} = {}
    <2>1. holder[b0] \ {t} \in SUBSET Thread
      BY <1>1
    <2>2. refcount[b0] = Cardinality(holder[b0])
      BY DEF RefcountExact
    <2>3. Cardinality(holder[b0]) \in Nat
      BY <1>1, CardThreads
    <2>4. Cardinality(holder[b0] \ {t}) = Cardinality(holder[b0]) - 1
      BY <1>1, CardThreads
    <2>5. /\ Cardinality(holder[b0] \ {t}) \in Nat
          /\ Cardinality(holder[b0] \ {t}) = 0 <=> holder[b0] \ {t} = {}
      BY <2>1, CardThreads
    <2>6. QED
      BY <2>2, <2>3, <2>4, <2>5
  <1>3. TypeOK'
    BY <1>2 DEF TypeOK, ReleaseSub
  <1>4. CallsOK'
    BY DEF TypeOK, CallsOK, ReleaseSub
  <1>5. RefcountExact'
    BY <1>2 DEF TypeOK, RefcountExact, ReleaseSub
  <1>6. \A b \in Block : holder'[b] = IF b = b0 THEN holder[b0] \ {t} ELSE holder[b]
    BY DEF TypeOK, ReleaseSub
  <1>7. /\ \A b \in Block : IsFree(b)' <=> IsFree(b)
        /\ NoDoubleFree'
    BY DEF IsFree, BlockAccounting, NoDoubleFree, ReleaseSub
  <1>8. \A u \in Thread, b \in Block :
          InFlight(u, b)' <=>
            InFlight(u, b) \/ (u = t /\ b = b0 /\ holder[b0] \ {t} = {})
    BY <1>2 DEF TypeOK, InFlight, ReleaseSub, WasLast
  <1>9. ~IsFree(b0) /\ \A u \in Thread : ~InFlight(u, b0)
    BY <1>1 DEF BlockAccounting
  <1>10. BlockAccounting'
    <2>1. ASSUME NEW b \in Block, IsFree(b)'
          PROVE  holder'[b] = {} /\ \A u \in Thread : ~InFlight(u, b)'
      BY <2>1, <1>6, <1>7, <1>8, <1>9 DEF BlockAccounting
    <2>2. ASSUME NEW u \in Thread, NEW b \in Block, InFlight(u, b)'
          PROVE  holder'[b] = {} /\ \A v \in Thread : InFlight(v, b)' => v = u
      BY <2>2, <1>6, <1>8, <1>9 DEF BlockAccounting
    <2>3. ASSUME NEW b \in Block
          PROVE  IsFree(b)' \/ holder'[b] # {} \/ \E u \in Thread : InFlight(u, b)'
      BY <1>6, <1>7, <1>8 DEF BlockAccounting
    <2>4. QED
      BY <1>7, <2>1, <2>2, <2>3 DEF BlockAccounting
  <1>11. NoLostWakeup'
    <2>1. Awake' = Awake
      BY DEF TypeOK, Awake, ReleaseSub
    <2>2. QED
      BY <2>1 DEF NoLostWakeup, ReleaseSub
  <1>12. QED
    BY <1>3, <1>4, <1>5, <1>10, <1>11

LEMMA ReleasePushInv ==
  ASSUME IndInv, NEW t \in Thread, ReleasePush(t)
  PROVE  IndInv'
  <1> USE DEF IndInv
  <1> DEFINE b0 == blk[t]
  <1>1. b0 \in Block /\ InFlight(t, b0)
    BY DEF TypeOK, CallsOK, InFlight, ReleasePush
  <1>2. ~IsFree(b0) /\ holder[b0] = {} /\ \A u \in Thread : InFlight(u, b0) => u = t
    BY <1>1 DEF BlockAccounting
  <1>3. /\ freeList' \in Seq(Block)
        /\ Elems(freeList') = Elems(freeList) \cup {b0}
        /\ Len(freeList') = Len(freeList) + 1 /\ Len(freeList) \in Nat
        /\ NoDoubleFree'
    <2>1. Distinct(freeList) /\ freeList \in Seq(Block) /\ b0 \notin Elems(freeList)
      BY <1>2 DEF BlockAccounting, NoDoubleFree, Distinct, TypeOK, IsFree
    <2>2. freeList' = <<b0>> \o freeList
      BY DEF ReleasePush
    <2>3. QED
      BY <1>1, <2>1, <2>2, PushElems DEF NoDoubleFree, Distinct
  <1>4. waiting' \subseteq waiting
    BY DEF ReleasePush, Signal
  <1>5. TypeOK'
    BY <1>3, <1>4 DEF TypeOK, ReleasePush
  <1>6. CallsOK'
    BY <1>4 DEF TypeOK, CallsOK, ReleasePush
  <1>7. RefcountExact'
    BY DEF RefcountExact, ReleasePush
  <1>8. \A u \in Thread, b \in Block : InFlight(u, b)' <=> InFlight(u, b) /\ u # t
    BY PoolAssumption DEF PoolAssumption, TypeOK, InFlight, ReleasePush
  <1>9. /\ holder' = holder
        /\ \A b \in Block : IsFree(b)' <=> IsFree(b) \/ b = b0
    BY <1>1, <1>3 DEF IsFree, ReleasePush
  <1>10. BlockAccounting'
    <2>1. ASSUME NEW b \in Block, IsFree(b)'
          PROVE  holder'[b] = {} /\ \A u \in Thread : ~InFlight(u, b)'
      BY <2>1, <1>2, <1>8, <1>9 DEF BlockAccounting
    <2>2. ASSUME NEW u \in Thread, NEW b \in Block, InFlight(u, b)'
          PROVE  holder'[b] = {} /\ \A v \in Thread : InFlight(v, b)' => v = u
      BY <2>2, <1>8, <1>9 DEF BlockAccounting
    <2>3. ASSUME NEW b \in Block
          PROVE  IsFree(b)' \/ holder'[b] # {} \/ \E u \in Thread : InFlight(u, b)'
      BY <1>2, <1>8, <1>9 DEF BlockAccounting, InFlight
    <2>4. QED
      BY <1>3, <2>1, <2>2, <2>3 DEF BlockAccounting
  <1>11. NoLostWakeup'
    <2>1. CASE waiting = {}
      BY <2>1, <1>4 DEF NoLostWakeup
    <2>2. ASSUME NEW u \in waiting, waiting' = waiting \ {u}
          PROVE  NoLostWakeup'
      <3>1. Awake' = Awake \cup {u} /\ u \in Thread \ Awake /\ Awake \in SUBSET Thread
        BY <2>2 DEF TypeOK, CallsOK, Awake, ReleasePush
      <3>2. Cardinality(Awake') = Cardinality(Awake) + 1 /\ Cardinality(Awake) \in Nat
        BY <3>1, CardThreads
      <3>3. QED
        BY <2>2, <3>2, <1>3 DEF NoLostWakeup
    <2>3. QED
      BY <2>1, <2>2 DEF ReleasePush, Signal
  <1>12. QED
    BY <1>5, <1>6, <1>7, <1>10, <1>11

LEMMA SpuriousWakeupInv ==
  ASSUME IndInv, NEW t \in Thread, SpuriousWakeup(t)
  PROVE  IndInv'
  <1> USE DEF IndInv
  <1>1. TypeOK' /\ CallsOK' /\ RefcountExact'
    BY DEF TypeOK, CallsOK, RefcountExact, SpuriousWakeup
  <1>2. BlockAccounting'
    BY DEF BlockAccounting, NoDoubleFree, IsFree, InFlight, SpuriousWakeup
  <1>3. NoLostWakeup'
    <2>1. Awake' = Awake \cup {t} /\ t \in Thread \ Awake /\ Awake \in SUBSET Thread
      BY DEF TypeOK, CallsOK, Awake, SpuriousWakeup
    <2>2. Cardinality(Awake') = Cardinality(Awake) + 1 /\ Cardinality(Awake) \in Nat
      BY <2>1, CardThreads
    <2>3. Len(freeList) \in Nat
      BY DEF TypeOK
    <2>4. QED
      BY <2>2, <2>3 DEF NoLostWakeup, SpuriousWakeup
  <1>4. QED
    BY <1>1, <1>2, <1>3

-----------------------------------------------------------------------------

LEMMA StutterInv == IndInv /\ UNCHANGED vars => IndInv'
  BY DEF IndInv, TypeOK, CallsOK, RefcountExact, BlockAccounting, NoDoubleFree,
         IsFree, InFlight, NoLostWakeup, Awake, vars

\* IndInv is inductive.
LEMMA NextInv == IndInv /\ [Next]_vars => IndInv'
  <1> SUFFICES ASSUME IndInv, [Next]_vars PROVE IndInv'
    OBVIOUS
  <1>1. CASE UNCHANGED vars
    BY <1>1, StutterInv
  <1>2. CASE Next
    BY <1>2, CallAllocInv, AllocWaitInv, AllocTakeInv, AllocStoreInv, RetainInv,
       ReleaseSubInv, ReleasePushInv, SpuriousWakeupInv DEF Next
  <1>3. QED
    BY <1>1, <1>2

LEMMA Inductive == Spec => []IndInv
  BY InitInv, NextInv, PTL DEF Spec

\* Every variable keeps its type, in particular the atomic counter of a block
\* never goes below zero (frame_pool.c:107-157).
THEOREM TypeCorrect == Spec => []TypeOK
  BY Inductive, PTL DEF IndInv

\* The counter of every block is the number of its owners at every moment,
\* whatever the interleaving of fp_alloc, fp_retain and fp_release.
THEOREM RefcountCorrect == Spec => []RefcountExact
  BY Inductive, PTL DEF IndInv

\* A block is free, owned, or in the hands of exactly one call: fp_alloc hands
\* out no block that is in use, fp_release frees none twice and leaks none.
THEOREM BlocksAccounted == Spec => []BlockAccounting
  BY Inductive, PTL DEF IndInv

\* One pthread_cond_signal per release is enough for any number of threads.
THEOREM WakeupsNotLost == Spec => []NoLostWakeup
  BY Inductive, PTL DEF IndInv

-----------------------------------------------------------------------------
(* The pool implements Ownership *)

\* Only the store of fp_alloc, fp_retain and the decrement of fp_release touch an
\* owner, and each of them is a step of Ownership.
LEMMA StepGrantsExclusive ==
  ASSUME IndInv, [Next]_vars
  PROVE  [O!Next]_holder
  <1>1. CASE UNCHANGED vars
    BY <1>1 DEF vars
  <1>2. ASSUME NEW t \in Thread, AllocStore(t)
        PROVE  O!Next
    <2>1. blk[t] \in Block /\ want[t] # {} /\ want[t] \in SUBSET Thread
      BY <1>2 DEF IndInv, CallsOK, TypeOK, AllocStore
    <2>2. InFlight(t, blk[t])
      BY <1>2 DEF InFlight, AllocStore
    <2>3. holder[blk[t]] = {}
      BY <2>1, <2>2 DEF IndInv, BlockAccounting
    <2>4. O!Grant(blk[t], want[t])
      BY <1>2, <2>1, <2>3 DEF AllocStore, O!Grant
    <2>5. QED
      BY <2>1, <2>4 DEF O!Next
  <1>3. ASSUME NEW t \in Thread, NEW u \in Thread, NEW b \in Block, Retain(t, u, b)
        PROVE  O!Next
    BY <1>3 DEF Retain, O!Share, O!Next
  <1>4. ASSUME NEW t \in Thread, NEW b \in Block, ReleaseSub(t, b)
        PROVE  O!Next
    BY <1>4 DEF ReleaseSub, O!GiveBack, O!Next
  <1>5. ASSUME NEW t \in Thread,
               \/ \E owners \in SUBSET Thread : CallAlloc(t, owners)
               \/ AllocWait(t) \/ AllocTake(t) \/ ReleasePush(t) \/ SpuriousWakeup(t)
        PROVE  UNCHANGED holder
    BY <1>5 DEF CallAlloc, AllocWait, AllocTake, ReleasePush, SpuriousWakeup
  <1>6. QED
    BY <1>1, <1>2, <1>3, <1>4, <1>5 DEF Next

\* fp_alloc gives a block to new owners only while nobody owns it: the pool
\* implements Ownership for every number of blocks and threads.
THEOREM PoolGrantsExclusive == Spec => GrantsExclusive
  <1>1. Init => O!Init
    BY DEF Init, O!Init
  <1>2. IndInv /\ [Next]_vars => [O!Next]_holder
    BY StepGrantsExclusive
  <1>3. QED
    BY <1>1, <1>2, Inductive, PTL DEF Spec, GrantsExclusive, O!Spec

=============================================================================
