-------------------------- MODULE RingBufferProofs --------------------------
(***************************************************************************)
(* Proofs about RingBuffer, for every Size, every set of items and every   *)
(* number of pushes: the buffer implements BoundedQueue, the threads never *)
(* meet in a slot, and size() errs to the safe side.                       *)
(*                                                                         *)
(* The argument: the producer only writes when the buffer is not full with *)
(* respect to the tail it saw last, which is no newer than the real one,   *)
(* so the distance from tail to head stays below Size, and indexes at such *)
(* a distance differ modulo Size.                                          *)
(***************************************************************************)
EXTENDS RingBuffer, SequenceTheorems, TLAPS

----------------------------------------------------------------------------
(* Arithmetic modulo N *)

\* A number is its quotient and its remainder.
LEMMA DivMod ==
    ASSUME NEW N \in Nat \ {0}, NEW a \in Nat
    PROVE  a = (a \div N) * N + (a % N) /\ a % N \in 0 .. N - 1 /\ a \div N \in Nat
  <1>1. a % N \in 0 .. N - 1
    BY SMTT(30)
  <1>2. a \div N \in Nat
    BY SMTT(30)
  <1>3. a = (a \div N) * N + (a % N)
    BY SMTT(30)
  <1> QED BY <1>1, <1>2, <1>3

\* The remainder of a multiple and something smaller than N.
LEMMA ModUnique ==
    ASSUME NEW N \in Nat \ {0}, NEW q \in Nat, NEW r \in 0 .. N - 1
    PROVE  (q * N + r) % N = r
  BY SMTT(30)

\* An index wraps around at most once on less than Size steps.
LEMMA ModStep ==
    ASSUME NEW N \in Nat \ {0}, NEW a \in Nat, NEW d \in 0 .. N - 1
    PROVE  (a + d) % N = IF (a % N) + d < N THEN (a % N) + d ELSE (a % N) + d - N
  <1> DEFINE q == a \div N
             r == a % N
  <1>1. a = q * N + r /\ r \in 0 .. N - 1 /\ q \in Nat
    BY DivMod
  <1> HIDE DEF q, r
  <1>2. CASE r + d < N
    <2>1. a + d = q * N + (r + d) /\ r + d \in 0 .. N - 1
      BY <1>1, <1>2
    <2>2. (q * N + (r + d)) % N = r + d
      BY <1>1, <2>1, ModUnique
    <2> QED BY <2>1, <2>2, <1>2 DEF r
  <1>3. CASE ~(r + d < N)
    <2>1. a + d = (q + 1) * N + (r + d - N) /\ r + d - N \in 0 .. N - 1 /\ q + 1 \in Nat
      BY <1>1, <1>3
    <2>2. ((q + 1) * N + (r + d - N)) % N = r + d - N
      BY <2>1, ModUnique
    <2> QED BY <2>1, <2>2, <1>3 DEF r
  <1> QED BY <1>2, <1>3

\* Going round once comes back to the same slot.
LEMMA ModRound ==
    ASSUME NEW N \in Nat \ {0}, NEW a \in Nat
    PROVE  (a + N) % N = a % N
  <1> DEFINE q == a \div N
             r == a % N
  <1>1. a = q * N + r /\ r \in 0 .. N - 1 /\ q \in Nat
    BY DivMod
  <1> HIDE DEF q, r
  <1>2. a + N = (q + 1) * N + r /\ q + 1 \in Nat
    BY <1>1
  <1>3. ((q + 1) * N + r) % N = r
    BY <1>1, <1>2, ModUnique
  <1> QED BY <1>2, <1>3 DEF r

\* Less than a round does not.
LEMMA ModDistinct ==
    ASSUME NEW N \in Nat \ {0}, NEW a \in Nat, NEW b \in Nat, a < b, b < a + N
    PROVE  a % N # b % N
  <1>1. PICK d \in 1 .. N - 1 : b = a + d
    <2>1. b - a \in 1 .. N - 1 /\ b = a + (b - a)
      OBVIOUS
    <2> QED BY <2>1
  <1>2. b % N = IF (a % N) + d < N THEN (a % N) + d ELSE (a % N) + d - N
    BY <1>1, ModStep, d \in 0 .. N - 1
  <1>3. a % N \in 0 .. N - 1
    BY DivMod
  <1> QED BY <1>1, <1>2, <1>3

\* What Full and Empty mean for indexes that are within a buffer of each
\* other, and that Distance is the difference.
LEMMA FullMeans ==
    ASSUME head \in Nat, NEW t \in Nat, t <= head, head - t < Size
    PROVE  Full(t) <=> head - t = Size - 1
  <1> USE RingAssumption
  <1>1. CASE head - t = Size - 1
    <2>1. head + 1 = t + Size
      BY <1>1
    <2> QED BY <1>1, <2>1, ModRound DEF Full
  <1>2. CASE head - t # Size - 1
    <2>1. t < head + 1 /\ head + 1 < t + Size /\ head + 1 \in Nat
      BY <1>2
    <2> QED BY <1>2, <2>1, ModDistinct DEF Full
  <1> QED BY <1>1, <1>2

LEMMA EmptyMeans ==
    ASSUME tail \in Nat, NEW h \in Nat, tail <= h, h - tail < Size
    PROVE  Empty(h) <=> h = tail
  <1> USE RingAssumption
  <1>1. CASE h # tail
    <2>1. tail < h /\ h < tail + Size
      BY <1>1
    <2> QED BY <1>1, <2>1, ModDistinct DEF Empty
  <1> QED BY <1>1 DEF Empty

LEMMA DistanceMeans ==
    ASSUME NEW h \in Nat, NEW t \in Nat, t <= h, h - t < Size
    PROVE  Distance(h, t) = h - t
  <1> DEFINE N == Size
             d == h - t
             r == t % N
  <1>0. N \in Nat \ {0} /\ d \in 0 .. N - 1 /\ h = t + d
    BY RingAssumption
  <1>1. r \in 0 .. N - 1
    BY <1>0, DivMod
  <1>2. h % N = IF r + d < N THEN r + d ELSE r + d - N
    BY <1>0, ModStep, Zenon
  <1>3. Distance(h, t) = (N + (h % N) - r) % N
    BY DEF Distance
  <1> HIDE DEF N, d, r
  <1>4. (1 * N + d) % N = d /\ (0 * N + d) % N = d
    BY <1>0, ModUnique, 0 \in Nat, 1 \in Nat
  <1>5. 1 * N + d = N + d /\ 0 * N + d = d
    BY <1>0
  <1>6. N + (h % N) - r \in {N + d, d}
    BY <1>0, <1>1, <1>2
  <1>7. Distance(h, t) = d
    BY <1>3, <1>4, <1>5, <1>6
  <1> QED BY <1>7 DEF d
----------------------------------------------------------------------------
(* The inductive invariant *)

\* Each side's view of the other's index is old, never wrong, and the
\* producer's view keeps the buffer from overflowing.
Indexes ==
    /\ head \in Nat /\ tail \in Nat /\ producerTail \in Nat /\ consumerHead \in Nat
    /\ producerTail <= tail /\ tail <= consumerHead /\ consumerHead <= head
    /\ head <= MaxItems
    /\ head - producerTail < Size

ProducerOK ==
    \/ producer = Idle
    \/ /\ producer \in [at : {"writing", "written"}, item : Items]
       /\ head - producerTail < Size - 1
       /\ head < MaxItems

ConsumerOK ==
    \/ consumer = Idle
    \/ /\ consumer \in [at : {"reading", "read"}, item : Items \cup {NoItem}]
       /\ tail < consumerHead

\* The slots between tail and head hold what was pushed, and the items in
\* the hands of the two threads are the next ones.
Contents ==
    /\ slots \in [0 .. Size - 1 -> Items \cup {NoItem}]
    /\ \A i \in Nat : tail <= i /\ i < head => slots[i % Size] = pushed[i + 1]
    /\ producer.at = "written" => slots[head % Size] = producer.item
    /\ consumer.at = "read" => consumer.item = pushed[tail + 1]

History ==
    /\ pushed \in Seq(Items) /\ Len(pushed) = head
    /\ popped \in Seq(Items) /\ Len(popped) = tail

Inv == Indexes /\ ProducerOK /\ ConsumerOK /\ Contents /\ History

SizesOK == {sizes.producer, sizes.consumer} \subseteq 0 .. Size - 1

LEMMA InitInv == Init => Inv /\ SizesOK
  <1> SUFFICES ASSUME Init PROVE Inv /\ SizesOK
    OBVIOUS
  <1> USE RingAssumption DEF Init
  <1>1. Indexes
    BY DEF Indexes
  <1>2. ProducerOK /\ ConsumerOK
    BY DEF ProducerOK, ConsumerOK
  <1>3. Contents
    BY DEF Contents, Idle
  <1>4. History
    BY EmptySeq DEF History
  <1>5. SizesOK
    BY DEF SizesOK
  <1> QED BY <1>1, <1>2, <1>3, <1>4, <1>5 DEF Inv

\* The slot at head is none of those between tail and head.
LEMMA HeadSlotIsFree ==
    ASSUME Indexes,
           NEW i \in Nat, tail <= i, i < head
    PROVE  i % Size # head % Size
  <1>1. i < head /\ head < i + Size /\ Size \in Nat \ {0} /\ head \in Nat
    BY RingAssumption DEF Indexes
  <1> QED BY ONLY <1>1, ModDistinct, i \in Nat

LEMMA SlotIndex ==
    ASSUME NEW i \in Nat
    PROVE  i % Size \in 0 .. Size - 1
  BY RingAssumption, DivMod

----------------------------------------------------------------------------
(* Every step keeps it *)

LEMMA PushBeginKeeps ==
    ASSUME Inv, NEW x \in Items, NEW t \in producerTail .. tail, PushBegin(x, t)
    PROVE  Inv'
  <1> USE RingAssumption DEF Inv, PushBegin
  <1>0. t \in Nat /\ t <= tail /\ producerTail <= t
    BY DEF Indexes
  <1>1. head - t # Size - 1 /\ head - t < Size /\ head - t < Size - 1
    <2>1. head - t < Size
      BY <1>0 DEF Indexes
    <2>2. head - t # Size - 1
      BY <1>0, <2>1, FullMeans DEF Indexes
    <2> QED BY <1>0, <2>1, <2>2 DEF Indexes
  <1>2. Indexes'
    BY <1>0, <1>1 DEF Indexes
  <1>3. ProducerOK' /\ ConsumerOK'
    BY <1>0, <1>1 DEF ProducerOK, ConsumerOK, Indexes
  <1>4. Contents'
    <2>1. slots' \in [0 .. Size - 1 -> Items \cup {NoItem}]
      BY DEF Contents
    <2>2. ASSUME NEW i \in Nat, tail <= i, i < head
          PROVE  slots'[i % Size] = pushed[i + 1]
      <3>1. i % Size # head % Size
        BY <2>2, HeadSlotIsFree DEF Indexes
      <3>2. i % Size \in 0 .. Size - 1
        BY SlotIndex
      <3> QED BY <2>2, <3>1, <3>2 DEF Contents
    <2> QED BY <2>1, <2>2 DEF Contents
  <1>5. History'
    BY DEF History
  <1> QED BY <1>2, <1>3, <1>4, <1>5

LEMMA PushWriteKeeps == Inv /\ PushWrite => Inv'
  <1> SUFFICES ASSUME Inv, PushWrite PROVE Inv'
    OBVIOUS
  <1> USE RingAssumption DEF Inv, PushWrite
  <1>0. producer # Idle /\ producer.item \in Items
    BY DEF ProducerOK, Idle
  <1>1. Indexes'
    BY DEF Indexes
  <1>2. ProducerOK' /\ ConsumerOK'
    BY <1>0 DEF ProducerOK, ConsumerOK
  <1>3. Contents'
    <2>1. slots' \in [0 .. Size - 1 -> Items \cup {NoItem}]
      BY <1>0 DEF Contents
    <2>2. ASSUME NEW i \in Nat, tail <= i, i < head
          PROVE  slots'[i % Size] = pushed[i + 1]
      <3>1. i % Size # head % Size
        BY <2>2, HeadSlotIsFree DEF Indexes
      <3>2. i % Size \in 0 .. Size - 1
        BY SlotIndex
      <3> QED BY <2>2, <3>1, <3>2 DEF Contents
    <2>3. slots'[head % Size] = producer.item /\ producer'.item = producer.item
      <3>1. head % Size \in 0 .. Size - 1
        BY SlotIndex DEF Indexes
      <3>2. producer \in [at : {"writing", "written"}, item : Items]
        BY <1>0 DEF ProducerOK
      <3> QED BY <3>1, <3>2 DEF Contents
    <2> QED BY <2>1, <2>2, <2>3 DEF Contents
  <1>4. History'
    BY DEF History
  <1> QED BY <1>1, <1>2, <1>3, <1>4

LEMMA PushEndKeeps == Inv /\ PushEnd => Inv'
  <1> SUFFICES ASSUME Inv, PushEnd PROVE Inv'
    OBVIOUS
  <1> USE RingAssumption DEF Inv, PushEnd
  <1>0. producer # Idle /\ producer.item \in Items
    BY DEF ProducerOK, Idle
  <1>1. Indexes'
    BY <1>0 DEF Indexes, ProducerOK
  <1>2. ProducerOK' /\ ConsumerOK'
    BY DEF ProducerOK, ConsumerOK
  <1>3. /\ pushed' \in Seq(Items) /\ Len(pushed') = head'
        /\ \A i \in 1 .. head : pushed'[i] = pushed[i]
        /\ pushed'[head + 1] = producer.item
    BY <1>0, AppendProperties DEF History
  <1>4. Contents'
    <2>0. slots[head % Size] = producer.item
      BY DEF Contents
    <2>1. ASSUME NEW i \in Nat, tail <= i, i < head + 1
          PROVE  slots[i % Size] = pushed'[i + 1]
      <3>1. CASE i = head
        <4>1. slots[i % Size] = producer.item
          BY <2>0, <3>1
        <4>2. pushed'[i + 1] = producer.item
          BY <1>3, <3>1
        <4> QED BY ONLY <4>1, <4>2
      <3>2. CASE i < head
        <4>1. i + 1 \in 1 .. head
          BY <3>2 DEF Indexes
        <4> QED BY <1>3, <2>1, <3>2, <4>1 DEF Contents
      <3>3. i = head \/ i < head
        BY <2>1 DEF Indexes
      <3> QED BY ONLY <3>1, <3>2, <3>3
    <2>2. consumer.at = "read" => consumer.item = pushed'[tail + 1]
      <3> SUFFICES ASSUME consumer.at = "read" PROVE consumer.item = pushed'[tail + 1]
        OBVIOUS
      <3>1. tail + 1 \in 1 .. head
        BY DEF ConsumerOK, Idle, Indexes
      <3> QED BY <1>3, <3>1 DEF Contents
    <2>3. producer'.at = "idle"
      BY DEF Idle
    <2> QED BY <2>1, <2>2, <2>3 DEF Contents
  <1>5. History'
    BY <1>3 DEF History
  <1> QED BY <1>1, <1>2, <1>4, <1>5

LEMMA PopBeginKeeps ==
    ASSUME Inv, NEW h \in consumerHead .. head, PopBegin(h)
    PROVE  Inv'
  <1> USE RingAssumption DEF Inv, PopBegin
  <1>0. h \in Nat /\ h <= head /\ consumerHead <= h /\ tail <= h /\ h - tail < Size
    BY DEF Indexes
  <1>1. tail < h
    BY <1>0, EmptyMeans DEF Indexes
  <1>2. Indexes'
    BY <1>0 DEF Indexes
  <1>3. ProducerOK' /\ ConsumerOK'
    BY <1>1 DEF ProducerOK, ConsumerOK
  <1>4. Contents' /\ History'
    BY DEF Contents, History
  <1> QED BY <1>2, <1>3, <1>4

LEMMA PopReadKeeps == Inv /\ PopRead => Inv'
  <1> SUFFICES ASSUME Inv, PopRead PROVE Inv'
    OBVIOUS
  <1> USE RingAssumption DEF Inv, PopRead
  <1>1. consumer # Idle /\ tail < head /\ tail \in Nat
    BY DEF ConsumerOK, Idle, Indexes
  <1>2. slots[tail % Size] = pushed[tail + 1] /\ slots[tail % Size] \in Items \cup {NoItem}
    <2>1. tail % Size \in 0 .. Size - 1
      BY <1>1, SlotIndex
    <2> QED BY <1>1, <2>1 DEF Contents
  <1>3. Indexes' /\ History'
    BY DEF Indexes, History
  <1>4. ProducerOK' /\ ConsumerOK'
    BY <1>1, <1>2 DEF ProducerOK, ConsumerOK
  <1>5. Contents'
    BY <1>2 DEF Contents
  <1> QED BY <1>3, <1>4, <1>5

\* What pop returns is the next item pushed.
LEMMA PopEndTakesNext ==
    ASSUME Inv, PopEnd
    PROVE  /\ tail < head /\ tail < consumerHead
           /\ consumer.item = pushed[tail + 1] /\ consumer.item \in Items
  <1> USE DEF Inv, PopEnd
  <1>1. consumer # Idle /\ tail < consumerHead /\ tail < head /\ tail \in Nat /\ head \in Nat
    BY DEF ConsumerOK, Idle, Indexes
  <1>2. consumer.item = pushed[tail + 1]
    BY DEF Contents
  <1>3. tail + 1 \in 1 .. Len(pushed)
    BY <1>1 DEF History
  <1>4. pushed[tail + 1] \in Items
    BY <1>3, ElementOfSeq DEF History
  <1> QED BY <1>1, <1>2, <1>4

LEMMA PopEndKeeps == Inv /\ PopEnd => Inv'
  <1> SUFFICES ASSUME Inv, PopEnd PROVE Inv'
    OBVIOUS
  <1> USE RingAssumption DEF Inv, PopEnd
  <1>0. tail < head /\ tail < consumerHead /\ consumer.item \in Items
    BY PopEndTakesNext
  <1>1. Indexes'
    BY <1>0 DEF Indexes
  <1>2. ProducerOK' /\ ConsumerOK'
    BY DEF ProducerOK, ConsumerOK
  <1>3. Contents'
    <2>1. consumer'.at = "idle"
      BY DEF Idle
    <2>2. ASSUME NEW i \in Nat, tail + 1 <= i, i < head
          PROVE  slots[i % Size] = pushed[i + 1]
      BY <2>2 DEF Contents, Indexes
    <2> QED BY <2>1, <2>2 DEF Contents
  <1>4. History'
    BY <1>0, AppendProperties DEF History, Indexes
  <1> QED BY <1>1, <1>2, <1>3, <1>4

\* The calls that only look at the other side's index.
Looks(t, h) == PushFails(t) \/ ProducerSize(t) \/ PopFails(h) \/ ConsumerSize(h)

LEMMA LooksKeep ==
    ASSUME Inv, NEW t \in producerTail .. tail, NEW h \in consumerHead .. head,
           Looks(t, h)
    PROVE  Inv'
  <1> USE RingAssumption DEF Inv
  <1>0. t \in Nat /\ t <= tail /\ producerTail <= t /\ h \in Nat /\ h <= head /\ consumerHead <= h
    BY DEF Indexes
  <1>1. /\ slots' = slots /\ head' = head /\ tail' = tail /\ producer' = producer
        /\ consumer' = consumer /\ pushed' = pushed /\ popped' = popped
    BY DEF Looks, PushFails, ProducerSize, PopFails, ConsumerSize
  <1>2. CASE producerTail' = t /\ consumerHead' = consumerHead
    BY <1>0, <1>1, <1>2 DEF Indexes, ProducerOK, ConsumerOK, Contents, History
  <1>3. CASE producerTail' = producerTail /\ consumerHead' = h
    BY <1>0, <1>1, <1>3 DEF Indexes, ProducerOK, ConsumerOK, Contents, History
  <1> QED
    BY <1>2, <1>3 DEF Looks, PushFails, ProducerSize, PopFails, ConsumerSize

\* The steps of the system, with the values the threads see in reach.
LEMMA NextCases ==
    ASSUME Inv, Next
    PROVE  \/ \E x \in Items, t \in producerTail .. tail : PushBegin(x, t)
           \/ PushWrite \/ PushEnd
           \/ \E h \in consumerHead .. head : PopBegin(h)
           \/ PopRead \/ PopEnd
           \/ \E t \in producerTail .. tail, h \in consumerHead .. head : Looks(t, h)
  <1>1. tail \in producerTail .. tail /\ head \in consumerHead .. head
    BY DEF Inv, Indexes
  <1> QED BY <1>1 DEF Next, Producer, Consumer, Looks

LEMMA NextInv == Inv /\ [Next]_vars => Inv'
  <1> SUFFICES ASSUME Inv, [Next]_vars PROVE Inv'
    OBVIOUS
  <1>1. CASE UNCHANGED vars
    BY <1>1 DEF vars, Inv, Indexes, ProducerOK, ConsumerOK, Contents, History
  <1>2. CASE Next
    BY <1>2, NextCases, PushBeginKeeps, PushWriteKeeps, PushEndKeeps,
       PopBeginKeeps, PopReadKeeps, PopEndKeeps, LooksKeep
  <1> QED BY <1>1, <1>2

LEMMA Invariance == Spec => []Inv
  BY InitInv, NextInv, PTL DEF Spec

----------------------------------------------------------------------------
(* The theorems *)

LEMMA SizesKept ==
    ASSUME Inv, SizesOK, [Next]_vars
    PROVE  SizesOK'
  <1>1. ASSUME NEW h \in Nat, NEW t \in Nat
        PROVE  Distance(h, t) \in 0 .. Size - 1
    <2>1. h % Size \in 0 .. Size - 1 /\ t % Size \in 0 .. Size - 1
      BY SlotIndex
    <2>2. Size + (h % Size) - (t % Size) \in Nat
      BY <2>1, RingAssumption
    <2> QED BY <2>2, SlotIndex DEF Distance
  <1>2. head \in Nat /\ tail \in Nat /\ consumerHead \in Nat /\ producerTail \in Nat
    BY DEF Inv, Indexes
  <1>3. CASE UNCHANGED sizes
    BY <1>3 DEF SizesOK
  <1>4. ASSUME NEW t \in producerTail .. tail, ProducerSize(t)
        PROVE  SizesOK'
    BY <1>1, <1>2, <1>4 DEF SizesOK, ProducerSize
  <1>5. ASSUME NEW h \in consumerHead .. head, ConsumerSize(h)
        PROVE  SizesOK'
    BY <1>1, <1>2, <1>5 DEF SizesOK, ConsumerSize
  <1> QED
    BY <1>3, <1>4, <1>5
    DEF Next, Producer, Consumer, vars, PushBegin, PushFails, PushWrite, PushEnd,
        PopBegin, PopFails, PopRead, PopEnd

\* Whatever the two threads see, the indexes stay ordered and in range, the
\* slots and the hands of the threads hold items, and size() is below Size.
THEOREM TypeCorrect == Spec => []TypeOK
  <1>1. Init => Inv /\ SizesOK
    BY InitInv
  <1>2. (Inv /\ SizesOK) /\ [Next]_vars => (Inv /\ SizesOK)'
    BY NextInv, SizesKept
  <1>3. Inv /\ SizesOK => TypeOK
    <2> SUFFICES ASSUME Inv, SizesOK PROVE TypeOK
      OBVIOUS
    <2> USE RingAssumption DEF Inv, SizesOK
    <2>1. /\ head \in 0 .. MaxItems /\ tail \in 0 .. head
          /\ producerTail \in 0 .. tail /\ consumerHead \in 0 .. head
      BY DEF Indexes
    <2>2. /\ producer.at \in {"idle", "writing", "written"}
          /\ producer.item \in Items \cup {NoItem}
      BY DEF ProducerOK, Idle
    <2>3. /\ consumer.at \in {"idle", "reading", "read"}
          /\ consumer.item \in Items \cup {NoItem}
      BY DEF ConsumerOK, Idle
    <2>4. slots \in [0 .. Size - 1 -> Items \cup {NoItem}]
      BY DEF Contents
    <2>5. {pushed, popped} \subseteq Seq(Items)
      BY DEF History
    <2> QED BY <2>1, <2>2, <2>3, <2>4, <2>5 DEF TypeOK
  <1> QED BY <1>1, <1>2, <1>3, PTL DEF Spec

\* push and pop never touch one slot at a time: while both are at work their
\* indexes differ by less than Size, and by more than 0.
THEOREM NoTear == Spec => []NoTornItem
  <1>1. Inv => NoTornItem
    <2> SUFFICES ASSUME Inv, producer.at # "idle", consumer.at # "idle"
                 PROVE  head % Size # tail % Size
      BY DEF NoTornItem
    <2>1. tail < head /\ head < tail + Size /\ tail \in Nat /\ head \in Nat
          /\ Size \in Nat \ {0}
      BY RingAssumption DEF Inv, Indexes, ConsumerOK, Idle
    <2> QED BY ONLY <2>1, ModDistinct
  <1> QED BY <1>1, Invariance, PTL

\* size() never tells the producer of too few items nor the consumer of too
\* many.
THEOREM SizeErrsSafely == Spec => SizeIsSafe
  <1>1. ASSUME Inv, NEW t \in producerTail .. tail, ProducerSize(t)
        PROVE  sizes'.producer >= head - tail
    <2>1. /\ t \in Nat /\ head \in Nat /\ tail \in Nat /\ t <= tail /\ t <= head
          /\ head - t < Size
      BY <1>1, RingAssumption DEF Inv, Indexes
    <2>2. Distance(head, t) = head - t
      BY <2>1, DistanceMeans
    <2>3. sizes'.producer = head - t
      BY <1>1, <2>2 DEF ProducerSize
    <2> QED BY <2>1, <2>3
  <1>2. ASSUME Inv, NEW h \in consumerHead .. head, ConsumerSize(h)
        PROVE  sizes'.consumer <= head - tail
    <2>1. /\ h \in Nat /\ head \in Nat /\ tail \in Nat /\ tail <= h /\ h <= head
          /\ h - tail < Size
      BY <1>2, RingAssumption DEF Inv, Indexes
    <2>2. Distance(h, tail) = h - tail
      BY <2>1, DistanceMeans
    <2>3. sizes'.consumer = h - tail
      BY <1>2, <2>2 DEF ConsumerSize
    <2> QED BY <2>1, <2>3
  <1>3. Inv /\ [Next]_vars =>
          [/\ (\E t \in producerTail .. tail : ProducerSize(t))
                => sizes'.producer >= head - tail
           /\ (\E h \in consumerHead .. head : ConsumerSize(h))
                => sizes'.consumer <= head - tail]_vars
    BY <1>1, <1>2
  <1> QED BY <1>3, Invariance, PTL DEF Spec, SizeIsSafe

----------------------------------------------------------------------------
(* The refinement *)

\* What has been pushed and not popped, the queue of BoundedQueue.
Waiting == SubSeq(pushed, tail + 1, head)

\* A suffix grows with the sequence.
LEMMA SuffixAppend ==
    ASSUME NEW S, NEW s \in Seq(S), NEW e \in S, NEW m \in 1 .. Len(s) + 1
    PROVE  SubSeq(Append(s, e), m, Len(s) + 1) = Append(SubSeq(s, m, Len(s)), e)
  <1> DEFINE n == Len(s)
             l == SubSeq(Append(s, e), m, n + 1)
             q == SubSeq(s, m, n)
             r == Append(q, e)
  <1>0. n \in Nat /\ m \in Nat /\ 1 <= m /\ m <= n + 1
    OBVIOUS
  <1>1. /\ Append(s, e) \in Seq(S) /\ Len(Append(s, e)) = n + 1
        /\ \A i \in 1 .. n : Append(s, e)[i] = s[i]
        /\ Append(s, e)[n + 1] = e
    BY AppendProperties
  <1>2. \A i \in m .. n + 1 : Append(s, e)[i] \in S
    BY <1>0, <1>1, ElementOfSeq
  <1>3. /\ l \in Seq(S) /\ Len(l) = n + 2 - m
        /\ \A i \in 1 .. n + 2 - m : l[i] = Append(s, e)[m + i - 1]
    <2>1. /\ l \in Seq(S)
          /\ Len(l) = IF m <= n + 1 THEN (n + 1) - m + 1 ELSE 0
          /\ \A i \in 1 .. (n + 1) - m + 1 : l[i] = Append(s, e)[m + i - 1]
      BY <1>0, <1>2, SubSeqProperties
    <2> HIDE DEF l
    <2>2. (n + 1) - m + 1 = n + 2 - m
      BY <1>0
    <2> QED BY <1>0, <2>1, <2>2
  <1>4. /\ q \in Seq(S) /\ Len(q) = n + 1 - m
        /\ \A i \in 1 .. n + 1 - m : q[i] = s[m + i - 1]
    <2>1. \A i \in m .. n : s[i] \in S
      BY <1>0, ElementOfSeq
    <2>2. /\ q \in Seq(S)
          /\ Len(q) = IF m <= n THEN n - m + 1 ELSE 0
          /\ \A i \in 1 .. n - m + 1 : q[i] = s[m + i - 1]
      BY <1>0, <2>1, SubSeqProperties
    <2> HIDE DEF q
    <2>3. n - m + 1 = n + 1 - m
      BY <1>0
    <2> QED BY <1>0, <2>2, <2>3
  <1> HIDE DEF q
  <1>5. /\ r \in Seq(S) /\ Len(r) = n + 2 - m
        /\ \A i \in 1 .. n + 1 - m : r[i] = q[i]
        /\ r[n + 2 - m] = e
    <2>1. /\ r \in Seq(S) /\ Len(r) = Len(q) + 1
          /\ \A i \in 1 .. Len(q) : r[i] = q[i]
          /\ r[Len(q) + 1] = e
      BY <1>4, AppendProperties
    <2>2. Len(q) + 1 = n + 2 - m
      BY <1>0, <1>4
    <2> HIDE DEF r
    <2> QED BY <1>4, <2>1, <2>2
  <1> HIDE DEF l, r, n
  <1>6. ASSUME NEW i \in 1 .. n + 2 - m
        PROVE  l[i] = r[i]
    <2>1. CASE i = n + 2 - m
      <3>1. m + i - 1 = n + 1
        BY <1>0, <2>1
      <3> QED BY <1>1, <1>3, <1>5, <2>1, <3>1
    <2>2. CASE i # n + 2 - m
      <3>1. i \in 1 .. n + 1 - m /\ m + i - 1 \in 1 .. n
        BY <1>0, <2>2
      <3> QED BY <1>1, <1>3, <1>4, <1>5, <3>1, Zenon
    <2> QED BY <2>1, <2>2
  <1>7. l = r
    BY <1>3, <1>5, <1>6, SeqEqual
  <1> QED BY <1>7 DEF l, r, q, n

LEMMA WaitingType ==
    ASSUME Inv
    PROVE  Waiting \in Seq(Items) /\ Len(Waiting) = head - tail
  <1>1. /\ tail + 1 \in Int /\ head \in Int /\ tail \in Nat /\ head \in Nat /\ tail <= head
        /\ pushed \in Seq(Items) /\ Len(pushed) = head
    BY DEF Inv, Indexes, History
  <1>2. \A i \in tail + 1 .. head : pushed[i] \in Items
    BY <1>1, ElementOfSeq
  <1>3. /\ SubSeq(pushed, tail + 1, head) \in Seq(Items)
        /\ Len(SubSeq(pushed, tail + 1, head))
             = IF tail + 1 <= head THEN head - (tail + 1) + 1 ELSE 0
    BY ONLY <1>1, <1>2, SubSeqProperties
  <1>4. (IF tail + 1 <= head THEN head - (tail + 1) + 1 ELSE 0) = head - tail
    BY <1>1
  <1> QED BY ONLY <1>3, <1>4 DEF Waiting

\* The release store of head is the push of the queue.
LEMMA PushEndPushes ==
    ASSUME Inv, PushEnd
    PROVE  \E x \in Items : Queue!Push(x)
  <1>1. producer # Idle /\ producer.item \in Items /\ head - producerTail < Size - 1
    BY DEF Inv, PushEnd, ProducerOK, Idle
  <1>2. Len(Waiting) < Size - 1
    <2>1. head - tail < Size - 1
      BY <1>1, RingAssumption DEF Inv, Indexes
    <2> QED BY <2>1, WaitingType
  <1>3. Waiting' = Append(Waiting, producer.item)
    <2>1. /\ pushed \in Seq(Items) /\ Len(pushed) = head /\ tail + 1 \in 1 .. Len(pushed) + 1
      BY DEF Inv, Indexes, History
    <2>2. SubSeq(Append(pushed, producer.item), tail + 1, Len(pushed) + 1)
            = Append(SubSeq(pushed, tail + 1, Len(pushed)), producer.item)
      BY ONLY <1>1, <2>1, SuffixAppend
    <2>3. pushed' = Append(pushed, producer.item) /\ head' = head + 1 /\ tail' = tail
      BY DEF PushEnd
    <2> QED BY ONLY <2>1, <2>2, <2>3 DEF Waiting
  <1>4. popped' = popped
    BY DEF PushEnd
  <1>5. Queue!Push(producer.item)
    BY <1>2, <1>3, <1>4 DEF Queue!Push, Waiting
  <1> QED BY <1>1, <1>5

\* The release store of tail is its pop.
LEMMA PopEndPops ==
    ASSUME Inv, PopEnd
    PROVE  Queue!Pop
  <1>1. tail < head /\ consumer.item = pushed[tail + 1]
    BY PopEndTakesNext
  <1>2. Waiting # << >>
    BY <1>1, WaitingType DEF Inv, Indexes
  <1>3. Head(Waiting) = pushed[tail + 1] /\ Tail(Waiting) = SubSeq(pushed, tail + 2, head)
    <2>1. /\ pushed \in Seq(Items) /\ tail + 1 \in 1 .. Len(pushed)
          /\ head \in tail + 1 .. Len(pushed) /\ tail + 1 + 1 = tail + 2
      BY <1>1 DEF Inv, Indexes, History
    <2> QED BY ONLY <2>1, HeadTailOfSubSeq, Zenon DEF Waiting
  <1>4. Waiting' = SubSeq(pushed, tail + 2, head)
    <2>1. pushed' = pushed /\ tail' = tail + 1 /\ head' = head /\ tail + 1 + 1 = tail + 2
      BY DEF PopEnd, Inv, Indexes
    <2> QED BY ONLY <2>1 DEF Waiting
  <1>5. popped' = Append(popped, pushed[tail + 1])
    BY <1>1 DEF PopEnd
  <1> QED BY <1>2, <1>3, <1>4, <1>5 DEF Queue!Pop, Waiting

\* The buffer is a bounded first-in first-out queue for its two threads: what
\* push and pop do between their release stores is not seen by the other side.
THEOREM BufferIsQueue == Spec => ImplementsQueue
  <1>1. Init => Queue!Init
    <2> SUFFICES ASSUME Init PROVE Queue!Init
      OBVIOUS
    <2>1. pushed = << >> /\ popped = << >> /\ head = 0 /\ tail = 0
      BY DEF Init
    <2>2. SubSeq(pushed, tail + 1, head) = << >>
      BY ONLY <2>1, SubSeqEmpty
    <2> QED BY <2>1, <2>2 DEF Queue!Init
  <1>2. Inv /\ [Next]_vars
          => [Queue!Pop \/ \E x \in Items : Queue!Push(x)]_<<Waiting, popped>>
    <2> SUFFICES ASSUME Inv, [Next]_vars
                 PROVE  \/ Queue!Pop \/ \E x \in Items : Queue!Push(x)
                        \/ UNCHANGED <<Waiting, popped>>
      OBVIOUS
    <2>1. CASE UNCHANGED <<pushed, popped, head, tail>>
      BY <2>1 DEF Waiting
    <2>2. CASE PushEnd
      BY <2>2, PushEndPushes
    <2>3. CASE PopEnd
      BY <2>3, PopEndPops
    <2> QED
      BY <2>1, <2>2, <2>3
      DEF Next, Producer, Consumer, vars, PushBegin, PushFails, PushWrite,
          PopBegin, PopFails, PopRead, ProducerSize, ConsumerSize
  <1> QED
    BY <1>1, <1>2, Invariance, PTL DEF Spec, ImplementsQueue, Queue!Spec, Waiting

=============================================================================
