-------------------------- MODULE MemoryPoolProofs --------------------------
(***************************************************************************)
(* What is proved of MemoryPool, for every size of a block and any number  *)
(* of them.  The inductive invariant says of the free list that its first  *)
(* entries are the slots never taken, from the last one down to the peak,  *)
(* and the entries above them slots that were taken and returned.          *)
(***************************************************************************)
EXTENDS MemoryPool, FiniteSetTheorems, SequenceTheorems, TLAPS

\* The list, of a pool of n slots of which some are taken and pk were taken at
\* one time: it holds each free slot once, ...
Lists(list, n, taken) ==
    /\ list \in Seq(0 .. n - 1)
    /\ taken \subseteq 0 .. n - 1
    /\ Cardinality(taken) = n - Len(list)
    /\ \A i, j \in 1 .. Len(list) : i # j => list[i] # list[j]
    /\ \A i \in 1 .. Len(list) : list[i] \notin taken
    /\ \A slot \in 0 .. n - 1 : slot \in taken \/ \E i \in 1 .. Len(list) : list[i] = slot

\* ... the slots never taken first.
FreshFirst(list, n, pk) ==
    /\ pk \in 0 .. n
    /\ n - pk <= Len(list)
    /\ \A i \in 1 .. Len(list) : IF i <= n - pk THEN list[i] = n - i ELSE list[i] < pk

IInv ==
    /\ TypeOK
    /\ held \cap leaked = {}
    /\ Lists(freeList, size, Taken)
    /\ FreshFirst(freeList, size, peak)
    /\ size > BlockSize => peak > BlockSize
    /\ stale # {} \/ aborted => size > BlockSize
    /\ stats.pc = "available" /\ ~stats.grown => stats.capacity = size
    /\ StatsExact

----------------------------------------------------------------------------
(* The list *)

\* A set of slots is finite.
LEMMA SlotsFinite ==
    ASSUME NEW n \in Nat, NEW S \in SUBSET (0 .. n - 1)
    PROVE  IsFiniteSet(S)
<1>1. IsFiniteSet(0 .. n - 1)
  BY FS_Interval
<1>2. QED
  BY <1>1, FS_Subset

\* A pool that has grown has the slots it had.
LEMMA SlotsGrow ==
    ASSUME NEW m \in Nat, NEW n \in Nat, m <= n
    PROVE  0 .. m - 1 \subseteq 0 .. n - 1
  OBVIOUS

\* What has not been taken lies behind what has been: no slot that is taken lies
\* at the peak or beyond it.
LEMMA TakenBelowPeak ==
    ASSUME NEW n \in Nat, NEW list, NEW taken, NEW pk,
           Lists(list, n, taken), FreshFirst(list, n, pk)
    PROVE  taken \subseteq 0 .. pk - 1
<1> SUFFICES ASSUME NEW slot \in taken, ~(slot < pk) PROVE FALSE
  BY DEF Lists, FreshFirst
<1>1. slot \in 0 .. n - 1 /\ pk \in 0 .. n /\ Len(list) \in Nat
  BY DEF Lists, FreshFirst
<1>2. n - slot \in 1 .. Len(list) /\ n - slot <= n - pk
  BY <1>1 DEF FreshFirst
<1>3. list[n - slot] = slot
  BY <1>1, <1>2 DEF FreshFirst
<1>4. QED
  BY <1>2, <1>3 DEF Lists

\* Dropping the last entry of a sequence.
LEMMA FrontOf ==
    ASSUME NEW S, NEW list \in Seq(S), list # << >>
    PROVE  /\ Len(list) \in Nat \ {0}
           /\ SubSeq(list, 1, Len(list) - 1) \in Seq(S)
           /\ Len(SubSeq(list, 1, Len(list) - 1)) = Len(list) - 1
           /\ \A i \in 1 .. Len(list) - 1 : SubSeq(list, 1, Len(list) - 1)[i] = list[i]
<1>1. Len(list) \in Nat \ {0} /\ \A i \in 1 .. Len(list) : list[i] \in S
  OBVIOUS
<1> DEFINE n == Len(list) - 1
<1>2. n \in Nat /\ \A i \in 1 .. n : list[i] \in S
  BY <1>1
<1> HIDE DEF n
<1>3. /\ SubSeq(list, 1, n) \in Seq(S)
      /\ Len(SubSeq(list, 1, n)) = IF 1 <= n THEN n - 1 + 1 ELSE 0
      /\ \A i \in 1 .. n - 1 + 1 : SubSeq(list, 1, n)[i] = list[1 + i - 1]
  BY <1>2, SubSeqProperties
<1>4. /\ Len(SubSeq(list, 1, n)) = n
      /\ \A i \in 1 .. n : SubSeq(list, 1, n)[i] = list[i]
  <2>1. ASSUME NEW i \in 1 .. n PROVE i \in 1 .. n - 1 + 1 /\ 1 + i - 1 = i
    BY <1>2
  <2>2. QED
    BY <1>2, <1>3, <2>1
<1>5. QED
  BY <1>1, <1>3, <1>4 DEF n

\* Taking the last slot of the list keeps it right.
LEMMA PopLists ==
    ASSUME NEW n \in Nat, NEW list, NEW taken, Lists(list, n, taken),
           NEW rest \in Seq(0 .. n - 1), Len(list) \in Nat \ {0},
           Len(rest) = Len(list) - 1,
           \A i \in 1 .. Len(list) - 1 : rest[i] = list[i]
    PROVE  /\ list[Len(list)] \in (0 .. n - 1) \ taken
           /\ Lists(rest, n, taken \cup {list[Len(list)]})
<1> DEFINE m == Len(list)
           slot == list[m]
<1>1. list \in Seq(0 .. n - 1) /\ taken \in SUBSET (0 .. n - 1) /\ Cardinality(taken) = n - m
  BY DEF Lists
<1>2. slot \in 0 .. n - 1 /\ slot \notin taken
  BY <1>1 DEF Lists
<1>3. Cardinality(taken \cup {slot}) = n - Len(rest)
  <2>1. IsFiniteSet(taken)
    BY <1>1, SlotsFinite
  <2>2. Cardinality(taken \cup {slot}) = Cardinality(taken) + 1
    BY <1>2, <2>1, FS_AddElement
  <2>3. QED
    BY <1>1, <2>2
<1>4. \A i, j \in 1 .. m : i # j => list[i] # list[j]
  BY DEF Lists
<1>5. \A i \in 1 .. m : list[i] \notin taken
  BY DEF Lists
<1>6. \A s \in 0 .. n - 1 : s \in taken \/ \E i \in 1 .. m : list[i] = s
  BY DEF Lists
<1>7. m \in Nat /\ Len(rest) = m - 1 /\ \A i \in 1 .. m - 1 : rest[i] = list[i]
  OBVIOUS
<1> HIDE DEF m
<1>8. \A i, j \in 1 .. m - 1 : i # j => rest[i] # rest[j]
  BY ONLY <1>4, <1>7
<1>9. \A i \in 1 .. m - 1 : rest[i] \notin taken \cup {slot}
  <2> SUFFICES ASSUME NEW i \in 1 .. m - 1 PROVE rest[i] \notin taken /\ rest[i] # list[m]
    OBVIOUS
  <2>1. i \in 1 .. m /\ m \in 1 .. m /\ i # m
    BY ONLY <1>7, i \in 1 .. m - 1
  <2>2. QED
    BY ONLY <1>4, <1>5, <1>7, <2>1, i \in 1 .. m - 1
<1>10. ASSUME NEW s \in 0 .. n - 1, s \notin taken \cup {slot}
       PROVE  \E i \in 1 .. m - 1 : rest[i] = s
  <2>1. PICK i \in 1 .. m : list[i] = s
    BY <1>6, <1>10
  <2>2. i # m
    BY <1>10, <2>1
  <2>3. i \in 1 .. m - 1
    BY ONLY <1>7, <2>1, <2>2
  <2>4. QED
    BY ONLY <1>7, <2>1, <2>3
<1>11. QED
  BY <1>1, <1>2, <1>3, <1>7, <1>8, <1>9, <1>10 DEF Lists, m

\* It keeps the slots never taken in front; the peak moves on when none but
\* those are free.
LEMMA PopFresh ==
    ASSUME NEW n \in Nat, NEW list, NEW rest, NEW pk \in Nat, NEW m \in Nat \ {0},
           Len(list) = m, Len(rest) = m - 1,
           \A i \in 1 .. m - 1 : rest[i] = list[i],
           FreshFirst(list, n, pk),
           NEW top, top = IF n - m + 1 > pk THEN n - m + 1 ELSE pk
    PROVE  FreshFirst(rest, n, top)
<1>1. pk <= n /\ n - pk <= m
      /\ \A i \in 1 .. m : IF i <= n - pk THEN list[i] = n - i ELSE list[i] < pk
  BY DEF FreshFirst
<1>2. top \in 0 .. n /\ n - top <= m - 1 /\ top >= pk
  BY <1>1
<1>3. ASSUME NEW i \in 1 .. m - 1
      PROVE  IF i <= n - top THEN rest[i] = n - i ELSE rest[i] < top
  <2>1. rest[i] = list[i] /\ i \in 1 .. m
    OBVIOUS
  <2>2. CASE i <= n - pk
    <3>1. list[i] = n - i
      BY <1>1, <2>1, <2>2
    <3>2. QED
      BY ONLY <1>1, <1>2, <2>1, <2>2, <3>1, n \in Nat, pk \in Nat, m \in Nat,
              i \in 1 .. m - 1, top = IF n - m + 1 > pk THEN n - m + 1 ELSE pk
  <2>3. CASE ~(i <= n - pk)
    <3>1. list[i] < pk
      BY <1>1, <2>1, <2>3
    <3>2. ~(i <= n - top)
      BY ONLY <1>2, <2>3, n \in Nat, pk \in Nat, i \in 1 .. m - 1
    <3>3. QED
      BY <1>2, <2>1, <3>1, <3>2
  <2>4. QED
    BY <2>2, <2>3
<1>4. QED
  BY <1>2, <1>3 DEF FreshFirst

\* The two together, for the list that allocate takes a slot from.
LEMMA PopKeeps ==
    ASSUME size' \in Nat, Listed \in Seq(0 .. size' - 1), Listed # << >>,
           Lists(Listed, size', Taken), FreshFirst(Listed, size', peak), peak \in Nat,
           TakeSlot, Taken' = Taken \cup {NextSlot}
    PROVE  /\ NextSlot \in (0 .. size' - 1) \ Taken
           /\ Len(freeList') = Len(Listed) - 1
           /\ Lists(freeList', size', Taken') /\ FreshFirst(freeList', size', peak')
           /\ peak' >= peak
<1> DEFINE n == size'
           m == Len(Listed)
           rest == SubSeq(Listed, 1, m - 1)
<1>1. /\ m \in Nat \ {0} /\ rest \in Seq(0 .. n - 1) /\ Len(rest) = m - 1
      /\ \A i \in 1 .. m - 1 : rest[i] = Listed[i]
  BY FrontOf
<1>2. freeList' = rest /\ NextSlot = Listed[m]
  BY DEF TakeSlot, NextSlot
<1> HIDE DEF rest
<1>3. Listed[m] \in (0 .. n - 1) \ Taken /\ Lists(rest, n, Taken \cup {Listed[m]})
  BY <1>1, PopLists
<1>4. Cardinality(Taken') = n - m + 1
  BY <1>1, <1>2, <1>3 DEF Lists
<1>5. peak' = IF n - m + 1 > peak THEN n - m + 1 ELSE peak
  BY <1>4 DEF TakeSlot
<1>6. FreshFirst(rest, n, peak')
  BY <1>1, <1>5, PopFresh
<1>7. peak' >= peak
  BY <1>1, <1>5
<1>8. QED
  BY <1>1, <1>2, <1>3, <1>6, <1>7

\* Returning a slot keeps the list right ...
LEMMA PushLists ==
    ASSUME NEW n \in Nat, NEW list, NEW taken, Lists(list, n, taken), NEW slot \in taken
    PROVE  Lists(Append(list, slot), n, taken \ {slot})
<1> DEFINE m == Len(list)
           more == Append(list, slot)
<1>1. list \in Seq(0 .. n - 1) /\ taken \in SUBSET (0 .. n - 1) /\ Cardinality(taken) = n - m
  BY DEF Lists
<1>2. /\ m \in Nat /\ more \in Seq(0 .. n - 1) /\ Len(more) = m + 1
      /\ \A i \in 1 .. m : more[i] = list[i]
      /\ more[m + 1] = slot
  BY <1>1
<1>3. Cardinality(taken \ {slot}) = n - Len(more)
  <2>1. IsFiniteSet(taken)
    BY <1>1, SlotsFinite
  <2>2. Cardinality(taken \ {slot}) = Cardinality(taken) - 1
    BY <2>1, FS_RemoveElement
  <2>3. QED
    BY <1>1, <1>2, <2>2
<1>4. /\ \A i, j \in 1 .. m : i # j => list[i] # list[j]
      /\ \A i \in 1 .. m : list[i] \notin taken
      /\ \A s \in 0 .. n - 1 : s \in taken \/ \E i \in 1 .. m : list[i] = s
  BY DEF Lists
<1> HIDE DEF m, more
<1>5. \A i \in 1 .. m + 1 : i \in 1 .. m \/ i = m + 1
  BY <1>2
<1>6. \A i, j \in 1 .. m + 1 : i # j => more[i] # more[j]
  BY ONLY <1>2, <1>4, <1>5, slot \in taken, Zenon
<1>7. \A i \in 1 .. m + 1 : more[i] \notin taken \ {slot}
  BY ONLY <1>2, <1>4, <1>5
<1>8. \A s \in 0 .. n - 1 : s \in taken \ {slot} \/ \E i \in 1 .. m + 1 : more[i] = s
  <2> SUFFICES ASSUME NEW s \in 0 .. n - 1, s \notin taken \ {slot}
               PROVE  \E i \in 1 .. m + 1 : more[i] = s
    OBVIOUS
  <2>1. CASE s = slot
    BY <1>2, <2>1
  <2>2. CASE s # slot
    <3>1. PICK i \in 1 .. m : list[i] = s
      BY <1>4, <2>2
    <3>2. i \in 1 .. m + 1
      BY <1>2
    <3>3. QED
      BY <1>2, <3>1, <3>2
  <2>3. QED
    BY <2>1, <2>2
<1>9. QED
  BY <1>1, <1>2, <1>3, <1>6, <1>7, <1>8 DEF Lists, more

\* ... with the slots never taken in front.
LEMMA PushFresh ==
    ASSUME NEW n \in Nat, NEW list \in Seq(0 .. n - 1), NEW pk, FreshFirst(list, n, pk),
           NEW slot \in 0 .. pk - 1
    PROVE  FreshFirst(Append(list, slot), n, pk)
<1> DEFINE m == Len(list)
           more == Append(list, slot)
<1>1. pk \in 0 .. n
  BY DEF FreshFirst
<1>2. slot \in 0 .. n - 1
  BY <1>1
<1>3. /\ m \in Nat /\ Len(more) = m + 1
      /\ \A i \in 1 .. m : more[i] = list[i]
      /\ more[m + 1] = slot
  BY <1>2
<1>4. n - pk <= m /\ \A i \in 1 .. m : IF i <= n - pk THEN list[i] = n - i ELSE list[i] < pk
  BY DEF FreshFirst
<1> HIDE DEF m, more
<1>5. ASSUME NEW i \in 1 .. m + 1
      PROVE  IF i <= n - pk THEN more[i] = n - i ELSE more[i] < pk
  <2>1. CASE i = m + 1
    <3>1. ~(i <= n - pk) /\ slot < pk
      BY <1>1, <1>3, <1>4, <2>1
    <3>2. QED
      BY <1>3, <2>1, <3>1
  <2>2. CASE i # m + 1
    <3>1. i \in 1 .. m
      BY <1>3, <2>2
    <3>2. QED
      BY <1>3, <1>4, <3>1
  <2>3. QED
    BY <2>1, <2>2
<1>6. n - pk <= m + 1
  BY <1>1, <1>3, <1>4
<1>7. QED
  BY <1>1, <1>3, <1>5, <1>6 DEF FreshFirst, more

\* The list of a block that has just been added, when none was free before.
LEMMA NewSlotsProperties ==
    ASSUME NEW n \in Nat
    PROVE  /\ NewSlots(n) \in Seq(0 .. n + BlockSize - 1) /\ Len(NewSlots(n)) = BlockSize
           /\ \A i \in 1 .. BlockSize : NewSlots(n)[i] = n + BlockSize - i
<1>1. BlockSize \in Nat
  BY PoolAssumption
<1>2. \A i \in 1 .. BlockSize : n + BlockSize - i \in 0 .. n + BlockSize - 1
  BY <1>1
<1>3. QED
  BY <1>1, <1>2 DEF NewSlots

LEMMA GrowKeeps ==
    ASSUME NEW n \in Nat, NEW taken \in SUBSET (0 .. n - 1), Cardinality(taken) = n,
           \A s \in 0 .. n - 1 : s \in taken
    PROVE  /\ Lists(NewSlots(n), n + BlockSize, taken)
           /\ FreshFirst(NewSlots(n), n + BlockSize, n)
<1> DEFINE list == NewSlots(n)
<1>1. BlockSize \in Nat
  BY PoolAssumption
<1>2. /\ list \in Seq(0 .. n + BlockSize - 1) /\ Len(list) = BlockSize
      /\ \A i \in 1 .. BlockSize : list[i] = n + BlockSize - i
  BY NewSlotsProperties
<1> HIDE DEF list
<1>3. \A i, j \in 1 .. BlockSize : i # j => list[i] # list[j]
  BY <1>1, <1>2
<1>4. \A i \in 1 .. BlockSize : list[i] \notin taken
  BY <1>1, <1>2
<1>5. ASSUME NEW s \in 0 .. n + BlockSize - 1, s \notin taken
      PROVE  \E i \in 1 .. BlockSize : list[i] = s
  <2>1. s >= n
    BY <1>5
  <2>2. n + BlockSize - s \in 1 .. BlockSize
    BY <1>1, <2>1
  <2>3. list[n + BlockSize - s] = s
    BY <1>1, <1>2, <2>2
  <2>4. QED
    BY <2>2, <2>3
<1>6. Cardinality(taken) = n + BlockSize - BlockSize /\ taken \subseteq 0 .. n + BlockSize - 1
  BY <1>1
<1>7. Lists(list, n + BlockSize, taken)
  BY <1>2, <1>3, <1>4, <1>5, <1>6 DEF Lists
<1>8. FreshFirst(list, n + BlockSize, n)
  BY <1>1, <1>2 DEF FreshFirst
<1>9. QED
  BY <1>7, <1>8 DEF list

----------------------------------------------------------------------------
(* The invariant *)

\* Facts about the constants.
LEMMA PoolBounds ==
    /\ BlockSize \in Nat \ {0} /\ MaxBlocks * BlockSize \in Nat /\ SizeT \in Nat
    /\ BlockSize <= MaxBlocks * BlockSize /\ MaxBlocks * BlockSize < SizeT
  BY PoolAssumption

\* Whatever becomes of the slot, allocate leaves the list right.
LEMMA TakeSlotKeeps ==
    ASSUME IInv, TakeSlot, Taken' = Taken \cup {NextSlot}
    PROVE  /\ size' \in BlockSize .. MaxBlocks * BlockSize /\ size <= size'
           /\ NextSlot \in (0 .. size' - 1) \ Taken
           /\ Lists(freeList', size', Taken') /\ FreshFirst(freeList', size', peak')
           /\ size' > BlockSize => peak' > BlockSize
<1>1. /\ size \in BlockSize .. MaxBlocks * BlockSize /\ size \in Nat /\ peak \in 0 .. size
      /\ Lists(freeList, size, Taken) /\ FreshFirst(freeList, size, peak)
      /\ size > BlockSize => peak > BlockSize
  BY PoolBounds DEF IInv, TypeOK
<1>2. CASE EnoughSlots
  <2>1. Listed = freeList /\ size' = size /\ freeList # << >>
    BY <1>2 DEF EnoughSlots, Listed, MustGrow
  <2>2. freeList \in Seq(0 .. size - 1)
    BY <1>1 DEF Lists
  <2>3. /\ Lists(Listed, size', Taken) /\ FreshFirst(Listed, size', peak)
        /\ Listed \in Seq(0 .. size' - 1) /\ Listed # << >>
    BY <1>1, <2>1, <2>2
  <2>4. size' \in BlockSize .. MaxBlocks * BlockSize /\ size <= size' /\ size' \in Nat
    BY <1>1, <2>1
  <2>5. peak \in Nat
    BY <1>1
  <2>6. /\ NextSlot \in (0 .. size' - 1) \ Taken
        /\ Lists(freeList', size', Taken') /\ FreshFirst(freeList', size', peak')
        /\ peak' >= peak
    BY <2>3, <2>4, <2>5, PopKeeps
  <2>7. peak' \in Nat
    BY <2>4, <2>6 DEF FreshFirst
  <2>8. size' > BlockSize => peak' > BlockSize
    BY ONLY <1>1, <2>1, <2>5, <2>6, <2>7, PoolBounds
  <2>9. QED
    BY <2>4, <2>6, <2>8
<1>3. CASE AddBlock
  <2>1. freeList = << >> /\ size' = size + BlockSize /\ size' <= MaxBlocks * BlockSize
    BY <1>3 DEF AddBlock, MustGrow
  <2>2. Len(freeList) = 0
    BY <2>1
  <2>3. /\ Cardinality(Taken) = size /\ peak = size /\ Taken \in SUBSET (0 .. size - 1)
        /\ \A s \in 0 .. size - 1 : s \in Taken
    BY <1>1, <2>2 DEF Lists, FreshFirst
  <2>4. /\ NewSlots(size) \in Seq(0 .. size + BlockSize - 1)
        /\ Len(NewSlots(size)) = BlockSize
    BY <1>1, NewSlotsProperties
  <2>5. Listed = NewSlots(size)
    BY <2>1, <2>4 DEF Listed, MustGrow
  <2>6. Lists(Listed, size', Taken) /\ FreshFirst(Listed, size', peak)
    BY <1>1, <2>1, <2>3, <2>5, GrowKeeps
  <2>7. Listed \in Seq(0 .. size' - 1) /\ Listed # << >>
    <3>1. Len(Listed) # 0
      BY <2>4, <2>5, PoolBounds
    <3>2. size' - 1 = size + BlockSize - 1
      BY <1>1, <2>1, PoolBounds
    <3>3. Listed \in Seq(0 .. size' - 1)
      BY ONLY <2>4, <2>5, <3>2, Zenon
    <3>4. QED
      BY <3>1, <3>3
  <2>8. size' \in BlockSize .. MaxBlocks * BlockSize /\ size <= size' /\ size' \in Nat
    BY <1>1, <2>1, PoolBounds
  <2>9. peak \in Nat
    BY <1>1
  <2>10. /\ NextSlot \in (0 .. size' - 1) \ Taken
         /\ Len(freeList') = Len(Listed) - 1
         /\ Lists(freeList', size', Taken') /\ FreshFirst(freeList', size', peak')
    BY <2>6, <2>7, <2>8, <2>9, PopKeeps
  <2>11. Cardinality(Taken') = size + 1
    <3>1. Cardinality(Taken') = size' - Len(freeList')
      BY <2>10 DEF Lists
    <3>2. Len(freeList') = BlockSize - 1
      BY ONLY <2>4, <2>5, <2>10
    <3>3. QED
      BY ONLY <1>1, <2>1, <3>1, <3>2, PoolBounds
  <2>12. peak' = size + 1
    BY <1>1, <2>3, <2>11 DEF TakeSlot
  <2>13. peak' > BlockSize
    BY ONLY <1>1, <2>12, PoolBounds
  <2>14. QED
    BY <2>8, <2>10, <2>13
<1>4. QED
  BY <1>2, <1>3 DEF TakeSlot

\* The free list of a pool that has just been made.
LEMMA InitInv == Init => IInv
<1> SUFFICES ASSUME Init PROVE IInv
  OBVIOUS
<1> USE DEF Init
<1>1. /\ size = BlockSize /\ size \in Nat /\ freeList = NewSlots(0) /\ Taken = {} /\ peak = 0
      /\ stats = Idle
  BY PoolBounds DEF Taken
<1>2. Cardinality(Taken) = 0
  BY <1>1, FS_EmptySet
<1>3. Lists(freeList, size, Taken) /\ FreshFirst(freeList, size, peak)
  <2>1. Lists(NewSlots(0), 0 + BlockSize, Taken) /\ FreshFirst(NewSlots(0), 0 + BlockSize, 0)
    BY <1>1, <1>2, GrowKeeps
  <2>2. QED
    BY <1>1, <2>1
<1>4. TypeOK
  <2>1. freeList \in Seq(Slots)
    BY <1>1, <1>3 DEF Lists, Slots
  <2>2. stats \in Stats
    BY <1>1 DEF Stats
  <2>3. size \in BlockSize .. MaxBlocks * BlockSize /\ peak \in 0 .. size
    BY ONLY <1>1, PoolBounds
  <2>4. QED
    BY <2>1, <2>2, <2>3 DEF TypeOK
<1>5. QED
  BY <1>1, <1>3, <1>4 DEF IInv, StatsExact, Idle

\* What allocate does to the rest of the state.
LEMMA AllocateKeeps ==
    ASSUME IInv, Allocate \/ AllocateThrows
    PROVE  IInv'
<1>1. TakeSlot /\ Taken' = Taken \cup {NextSlot}
  BY DEF Allocate, AllocateThrows, Taken
<1>2. /\ size' \in BlockSize .. MaxBlocks * BlockSize /\ size <= size'
      /\ NextSlot \in (0 .. size' - 1) \ Taken
      /\ Lists(freeList', size', Taken') /\ FreshFirst(freeList', size', peak')
      /\ size' > BlockSize => peak' > BlockSize
  BY <1>1, TakeSlotKeeps
<1>3. /\ TypeOK /\ held \cap leaked = {} /\ size \in Nat /\ size' \in Nat
      /\ size >= BlockSize
      /\ stale # {} \/ aborted => size > BlockSize
      /\ stats.pc = "available" /\ ~stats.grown => stats.capacity = size
      /\ StatsExact
  BY <1>2, PoolBounds DEF IInv, TypeOK
<1>4. /\ held' \cap leaked' = {} /\ held \subseteq held'
      /\ held' \subseteq 0 .. size' - 1 /\ leaked' \subseteq 0 .. size' - 1
  <2>1. /\ held \subseteq 0 .. size - 1 /\ leaked \subseteq 0 .. size - 1
        /\ 0 .. size - 1 \subseteq 0 .. size' - 1
    <3>1. held \subseteq 0 .. size - 1 /\ leaked \subseteq 0 .. size - 1
      BY <1>3 DEF TypeOK, Slots
    <3>2. 0 .. size - 1 \subseteq 0 .. size' - 1
      <4>1. size \in Nat /\ size' \in Nat /\ size <= size'
        BY <1>2, <1>3
      <4>2. QED
        BY ONLY <4>1, SlotsGrow
    <3>3. QED
      BY ONLY <3>1, <3>2
  <2>2. NextSlot \notin held /\ NextSlot \notin leaked /\ NextSlot \in 0 .. size' - 1
    BY <1>2 DEF Taken
  <2>3. \/ held' = held \cup {NextSlot} /\ leaked' = leaked
        \/ leaked' = leaked \cup {NextSlot} /\ held' = held
    BY DEF Allocate, AllocateThrows
  <2>4. /\ held \subseteq 0 .. size' - 1 /\ leaked \subseteq 0 .. size' - 1
        /\ held \cap leaked = {}
    BY <1>3, <2>1, Zenon
  <2>5. CASE held' = held \cup {NextSlot} /\ leaked' = leaked
    BY ONLY <2>2, <2>4, <2>5, Zenon
  <2>6. CASE leaked' = leaked \cup {NextSlot} /\ held' = held
    BY ONLY <2>2, <2>4, <2>6, Zenon
  <2>7. QED
    BY ONLY <2>3, <2>5, <2>6
<1>5. /\ aborted' = aborted /\ (stale' = stale \/ stale' = held)
      /\ \/ size' = size /\ stale' = stale /\ stats' = stats
         \/ size' = size + BlockSize /\ stats' = Disturbed
  BY <1>1 DEF TakeSlot, AddBlock, EnoughSlots
<1>6. /\ stats' \in Stats
      /\ \/ size' = size /\ stats' = stats
         \/ stats'.pc = "idle"
         \/ stats'.grown
  <2>1. CASE size' = size /\ stats' = stats
    BY <1>3, <2>1 DEF TypeOK
  <2>2. CASE stats' = Disturbed
    <3>1. stats \in Stats
      BY <1>3 DEF TypeOK
    <3>2. CASE stats = Idle
      BY <2>2, <3>1, <3>2 DEF Disturbed, Idle
    <3>3. CASE stats \in [pc : {"capacity"}, grown : BOOLEAN]
      BY <2>2, <3>3 DEF Disturbed, Stats
    <3>4. CASE stats \in [pc : {"available"}, grown : BOOLEAN, capacity : 0 .. SizeT - 1]
      <4>1. stats.pc = "available"
        BY ONLY <3>4
      <4>2. stats' = [stats EXCEPT !.grown = TRUE]
        BY ONLY <2>2, <4>1 DEF Disturbed
      <4>3. /\ stats' \in [pc : {"available"}, grown : BOOLEAN, capacity : 0 .. SizeT - 1]
            /\ stats'.pc = "available" /\ stats'.grown
        BY ONLY <3>4, <4>1, <4>2
      <4>4. QED
        BY ONLY <4>3 DEF Stats
    <3>5. CASE stats \in [pc : {"done"}, grown : BOOLEAN, used : 0 .. SizeT - 1, taken : Nat]
      <4>1. stats.pc = "done"
        BY ONLY <3>5
      <4>2. stats' = [stats EXCEPT !.grown = TRUE]
        BY ONLY <2>2, <4>1 DEF Disturbed
      <4>3. /\ stats' \in [pc : {"done"}, grown : BOOLEAN, used : 0 .. SizeT - 1, taken : Nat]
            /\ stats'.pc = "done" /\ stats'.grown
        BY ONLY <3>5, <4>1, <4>2
      <4>4. QED
        BY ONLY <4>3 DEF Stats
    <3>6. QED
      BY <3>1, <3>2, <3>3, <3>4, <3>5 DEF Stats
  <2>3. QED
    BY <1>5, <2>1, <2>2
<1>7. TypeOK'
  <2>1. freeList' \in Seq(0 .. size' - 1) /\ peak' \in 0 .. size'
    BY <1>2 DEF Lists, FreshFirst
  <2>2. stale' \subseteq held' /\ aborted' \in BOOLEAN
    BY <1>3, <1>4, <1>5 DEF TypeOK
  <2>3. QED
    BY <1>2, <1>4, <1>6, <2>1, <2>2 DEF TypeOK, Slots
<1>8. stale' # {} \/ aborted' => size' > BlockSize
  BY <1>3, <1>5, PoolBounds
<1>9. stats'.pc = "available" /\ ~stats'.grown => stats'.capacity = size'
  BY <1>3, <1>6
<1>10. StatsExact'
  BY <1>3, <1>6 DEF StatsExact
<1>11. QED
  BY <1>2, <1>4, <1>7, <1>8, <1>9, <1>10 DEF IInv

\* The deleter.
LEMMA DeallocateKeeps ==
    ASSUME IInv, NEW slot \in Slots, Deallocate(slot)
    PROVE  IInv'
<1>1. /\ TypeOK /\ held \cap leaked = {} /\ size \in Nat
      /\ Lists(freeList, size, Taken) /\ FreshFirst(freeList, size, peak)
  BY PoolBounds DEF IInv, TypeOK
<1>2. /\ slot \in held /\ held' = held \ {slot} /\ stale' = stale \ {slot}
      /\ freeList' = Append(freeList, slot)
      /\ aborted' => slot \in stale
      /\ aborted' \in BOOLEAN
      /\ UNCHANGED <<size, leaked, peak, stats>>
  BY DEF Deallocate, Returned
<1>3. slot \in Taken /\ Taken' = Taken \ {slot}
  BY <1>1, <1>2 DEF Taken
<1>4. Lists(freeList', size', Taken')
  BY <1>1, <1>2, <1>3, PushLists
<1>5. FreshFirst(freeList', size', peak')
  <2>1. slot \in 0 .. peak - 1
    BY <1>1, <1>3, TakenBelowPeak
  <2>2. freeList \in Seq(0 .. size - 1)
    BY <1>1 DEF Lists
  <2>3. QED
    BY <1>1, <1>2, <2>1, <2>2, PushFresh
<1>6. TypeOK'
  <2>1. freeList' \in Seq(0 .. size' - 1)
    BY <1>4 DEF Lists
  <2>2. QED
    BY <1>1, <1>2, <2>1 DEF TypeOK, Slots
<1>7. stale' # {} \/ aborted' => size' > BlockSize
  BY <1>2 DEF IInv
<1>8. StatsExact' /\ (stats'.pc = "available" /\ ~stats'.grown => stats'.capacity = size')
  BY <1>2 DEF IInv, StatsExact
<1>9. QED
  BY <1>1, <1>2, <1>4, <1>5, <1>6, <1>7, <1>8 DEF IInv

\* The steps of getStats.
LEMMA GetStatsKeeps ==
    ASSUME IInv, GetStats
    PROVE  IInv'
<1>1. /\ TypeOK /\ UNCHANGED poolVars
      /\ stats.pc = "available" /\ ~stats.grown => stats.capacity = size
  BY DEF IInv, GetStats, StartStats, ReadCapacity, ReadAvailable, EndStats
<1>2. size \in 0 .. SizeT - 1
  BY <1>1, PoolBounds DEF TypeOK
<1>3. /\ stats' \in Stats
      /\ stats'.pc = "available" /\ ~stats'.grown => stats'.capacity = size'
      /\ StatsExact'
  <2>1. CASE StartStats
    BY <1>1, <2>1 DEF StartStats, Stats, StatsExact
  <2>2. CASE ReadCapacity
    BY <1>1, <1>2, <2>2 DEF ReadCapacity, Stats, StatsExact, TypeOK, Idle, poolVars
  <2>3. CASE ReadAvailable
    <3>1. /\ Cardinality(Taken) = size - Len(freeList) /\ Len(freeList) \in Nat
          /\ Taken \in SUBSET (0 .. size - 1)
      BY DEF IInv, Lists
    <3>2. Cardinality(Taken) \in Nat /\ Cardinality(Taken) <= size
      <4>1. IsFiniteSet(Taken)
        <5>1. size \in Nat
          BY ONLY <1>2, PoolBounds
        <5>2. QED
          BY ONLY <3>1, <5>1, SlotsFinite
      <4>2. QED
        BY <1>2, <3>1, <4>1, FS_CardinalityType
    <3>3. stats.grown \in BOOLEAN /\ stats.capacity \in 0 .. SizeT - 1
      BY <1>1, <2>3 DEF ReadAvailable, Stats, TypeOK, Idle
    <3>4. Used(stats.capacity, Len(freeList)) \in 0 .. SizeT - 1
      BY <3>1, <3>3, PoolBounds DEF Used
    <3>5. ~stats.grown => Used(stats.capacity, Len(freeList)) = Cardinality(Taken)
      <4> SUFFICES ASSUME ~stats.grown
                   PROVE  (stats.capacity - Len(freeList)) % SizeT = Cardinality(Taken)
        BY DEF Used
      <4>1. stats.capacity - Len(freeList) = Cardinality(Taken)
        BY <1>1, <2>3, <3>1 DEF ReadAvailable
      <4>2. Cardinality(Taken) < SizeT
        BY <1>2, <3>2, PoolBounds
      <4>3. QED
        BY <3>2, <4>1, <4>2, PoolBounds
    <3>6. stats' = [pc |-> "done", grown |-> stats.grown,
                    used |-> Used(stats.capacity, Len(freeList)),
                    taken |-> Cardinality(Taken)]
      BY <2>3 DEF ReadAvailable
    <3>7. QED
      BY <3>2, <3>3, <3>4, <3>5, <3>6 DEF Stats, StatsExact
  <2>4. CASE EndStats
    BY <1>1, <2>4 DEF EndStats, Stats, StatsExact, Idle
  <2>5. QED
    BY <2>1, <2>2, <2>3, <2>4 DEF GetStats
<1>4. TypeOK'
  BY <1>1, <1>3 DEF TypeOK, poolVars, Slots
<1>5. QED
  BY <1>1, <1>3, <1>4 DEF IInv, poolVars, Taken

\* A step that changes nothing.
LEMMA StutterKeeps == IInv /\ UNCHANGED vars => IInv'
  BY DEF IInv, TypeOK, StatsExact, Taken, Slots, vars, poolVars

LEMMA PoolInvariant == Spec => []IInv
<1>1. IInv /\ [Next]_vars => IInv'
  BY AllocateKeeps, DeallocateKeeps, GetStatsKeeps, StutterKeeps DEF Next
<1>2. QED
  BY InitInv, <1>1, PTL DEF Spec

----------------------------------------------------------------------------
(* What follows *)

\* The list, the slots taken and the calls of getStats keep their types, for
\* every size of a block.
THEOREM TypeCorrect == Spec => []TypeOK
<1>1. IInv => TypeOK
  BY DEF IInv
<1>2. QED
  BY PoolInvariant, <1>1, PTL

\* No slot is free twice, or free and taken, and none gets lost.
THEOREM SlotsAccounted == Spec => []EachSlotOnce
<1>1. IInv => EachSlotOnce
  <2> SUFFICES ASSUME IInv PROVE EachSlotOnce
    OBVIOUS
  <2>1. Lists(freeList, size, Taken) /\ held \cap leaked = {} /\ DOMAIN freeList = 1 .. Len(freeList)
    BY DEF IInv, TypeOK
  <2>2. QED
    BY <2>1 DEF Lists, EachSlotOnce, Slots
<1>2. QED
  BY PoolInvariant, <1>1, PTL

\* The pool touches no more memory than was needed at one time.
THEOREM MemoryLinear == Spec => []LinearUse
<1>1. IInv => LinearUse
  <2> SUFFICES ASSUME IInv PROVE LinearUse
    OBVIOUS
  <2>1. size \in Nat /\ Lists(freeList, size, Taken) /\ FreshFirst(freeList, size, peak)
    BY PoolBounds DEF IInv, TypeOK
  <2>2. QED
    BY <2>1, TakenBelowPeak DEF LinearUse
<1>2. QED
  BY PoolInvariant, <1>1, PTL

\* Objects stay where they are in programs that hold no more than a block.
THEOREM ObjectsStay == Spec => []OneBlockIsSafe
<1>1. IInv => OneBlockIsSafe
  BY DEF IInv, OneBlockIsSafe
<1>2. QED
  BY PoolInvariant, <1>1, PTL

\* The usage reported is right whenever the pool did not grow meanwhile.
THEOREM UsageExact == Spec => []StatsExact
<1>1. IInv => StatsExact
  BY DEF IInv
<1>2. QED
  BY PoolInvariant, <1>1, PTL

=============================================================================
