----------------------------- MODULE RingBuffer -----------------------------
(***************************************************************************)
(* The lock-free queue of src/include/utils/ring_buffer.h, one producer    *)
(* thread and one consumer thread, at the grain of its atomic accesses.    *)
(* The engine declares two maps of these buffers                           *)
(* (src/include/engine/matching_engine.h:113) and only the tests use them. *)
(*                                                                         *)
(* head and tail count all the items ever pushed and popped; the program   *)
(* keeps them modulo Size, and modulo Size is all the actions test.  An    *)
(* acquire load may return an old value, though never one older than what  *)
(* the thread has already seen: producerTail and consumerHead are what     *)
(* each side saw last of the other's index.  Copying an item takes two     *)
(* steps.                                                                  *)
(***************************************************************************)
EXTENDS Naturals, Sequences

CONSTANTS
    Size,           \* slots, a power of two in the code
    Items,
    NoItem,         \* what a slot holds at first and during a write
    MaxItems        \* bound: items pushed in a behaviour

ASSUME RingAssumption ==
    /\ Size \in Nat \ {0, 1}
    /\ MaxItems \in Nat
    /\ NoItem \notin Items

VARIABLES
    slots, head, tail,
    producer,           \* what push is doing, and with which item
    producerTail,
    consumer,           \* what pop is doing, and the item it has copied
    consumerHead,
    pushed, popped,     \* history: the items of completed calls
    sizes               \* the last answers of size(), to either thread

vars == <<slots, head, tail, producer, producerTail, consumer, consumerHead,
          pushed, popped, sizes>>

Idle == [at |-> "idle", item |-> NoItem]

Init == /\ slots = [i \in 0 .. Size - 1 |-> NoItem]
        /\ head = 0 /\ tail = 0
        /\ producer = Idle /\ producerTail = 0
        /\ consumer = Idle /\ consumerHead = 0
        /\ pushed = << >> /\ popped = << >>
        /\ sizes = [producer |-> 0, consumer |-> 0]

----------------------------------------------------------------------------
(* push *)

\* Mutant of Full: the next index is not wrapped around.
FullUnwrapped(t) == (head % Size) + 1 = t % Size

Full(t) == (head + 1) % Size = t % Size

\* The full test passes and the copy into the slot begins.
PushBegin(x, t) ==
    /\ producer = Idle
    /\ head < MaxItems
    /\ producerTail' = t
    /\ ~Full(t)
    /\ slots' = [slots EXCEPT ![head % Size] = NoItem]
    /\ producer' = [at |-> "writing", item |-> x]
    /\ UNCHANGED <<head, tail, consumer, consumerHead, pushed, popped, sizes>>

\* It does not: push returns false.
PushFails(t) ==
    /\ producer = Idle
    /\ producerTail' = t
    /\ Full(t)
    /\ UNCHANGED <<slots, head, tail, producer, consumer, consumerHead,
                   pushed, popped, sizes>>

PushWrite ==
    /\ producer.at = "writing"
    /\ slots' = [slots EXCEPT ![head % Size] = producer.item]
    /\ producer' = [producer EXCEPT !.at = "written"]
    /\ UNCHANGED <<head, tail, producerTail, consumer, consumerHead, pushed,
                   popped, sizes>>

\* The release store of head publishes the item.
PushEnd ==
    /\ producer.at = "written"
    /\ head' = head + 1
    /\ pushed' = Append(pushed, producer.item)
    /\ producer' = Idle
    /\ UNCHANGED <<slots, tail, producerTail, consumer, consumerHead, popped,
                   sizes>>

----------------------------------------------------------------------------
(* pop *)

\* Mutant of Empty: the last item is taken for none.
EmptyEarly(h) == tail % Size = h % Size \/ (tail + 1) % Size = h % Size

Empty(h) == tail % Size = h % Size

PopBegin(h) ==
    /\ consumer = Idle
    /\ consumerHead' = h
    /\ ~Empty(h)
    /\ consumer' = [at |-> "reading", item |-> NoItem]
    /\ UNCHANGED <<slots, head, tail, producer, producerTail, pushed, popped,
                   sizes>>

\* nullopt.
PopFails(h) ==
    /\ consumer = Idle
    /\ consumerHead' = h
    /\ Empty(h)
    /\ UNCHANGED <<slots, head, tail, producer, producerTail, consumer, pushed,
                   popped, sizes>>

PopRead ==
    /\ consumer.at = "reading"
    /\ consumer' = [at |-> "read", item |-> slots[tail % Size]]
    /\ UNCHANGED <<slots, head, tail, producer, producerTail, consumerHead,
                   pushed, popped, sizes>>

\* The release store of tail gives the slot back.
PopEnd ==
    /\ consumer.at = "read"
    /\ tail' = tail + 1
    /\ popped' = Append(popped, consumer.item)
    /\ consumer' = Idle
    /\ UNCHANGED <<slots, head, producer, producerTail, consumerHead, pushed,
                   sizes>>

----------------------------------------------------------------------------
(* size *)

\* Mutant of Distance: no wrap-around.
DistanceUnwrapped(h, t) ==
    LET i == h % Size  j == t % Size IN IF i >= j THEN i - j ELSE j - i

\* (head - tail) & (Size - 1); the subtraction wraps around, as size_t does.
Distance(h, t) == (Size + (h % Size) - (t % Size)) % Size

\* Called by the producer, whose head is exact, or by the consumer.
ProducerSize(t) ==
    /\ producer = Idle
    /\ producerTail' = t
    /\ sizes' = [sizes EXCEPT !.producer = Distance(head, t)]
    /\ UNCHANGED <<slots, head, tail, producer, consumer, consumerHead, pushed,
                   popped>>

ConsumerSize(h) ==
    /\ consumer = Idle
    /\ consumerHead' = h
    /\ sizes' = [sizes EXCEPT !.consumer = Distance(h, tail)]
    /\ UNCHANGED <<slots, head, tail, producer, producerTail, consumer, pushed,
                   popped>>

----------------------------------------------------------------------------

Producer == \/ \E t \in producerTail .. tail :
                  \/ \E x \in Items : PushBegin(x, t)
                  \/ PushFails(t)
                  \/ ProducerSize(t)
            \/ PushWrite \/ PushEnd

Consumer == \/ \E h \in consumerHead .. head :
                  PopBegin(h) \/ PopFails(h) \/ ConsumerSize(h)
            \/ PopRead \/ PopEnd

Next == Producer \/ Consumer

Spec == Init /\ [][Next]_vars

\* The consumer keeps polling, and sees a store in the end (C++ promises that
\* stores become visible in finite time).
FairSpec == Spec /\ WF_vars(PopRead \/ PopEnd \/ PopBegin(head))

----------------------------------------------------------------------------
(* Properties *)

TypeOK == /\ slots \in [0 .. Size - 1 -> Items \cup {NoItem}]
          /\ head \in 0 .. MaxItems /\ tail \in 0 .. head
          /\ producerTail \in 0 .. tail /\ consumerHead \in 0 .. head
          /\ producer.at \in {"idle", "writing", "written"}
          /\ consumer.at \in {"idle", "reading", "read"}
          /\ {producer.item, consumer.item} \subseteq Items \cup {NoItem}
          /\ {pushed, popped} \subseteq Seq(Items)
          /\ {sizes.producer, sizes.consumer} \subseteq 0 .. Size - 1

\* The two threads never touch one slot at a time, whatever values of the
\* other's index they work from: no read of a half-written item.
NoTornItem ==
    ~ /\ producer.at # "idle" /\ consumer.at # "idle"
      /\ head % Size = tail % Size

Queue == INSTANCE BoundedQueue WITH
             queue <- SubSeq(pushed, tail + 1, head),
             Capacity <- Size - 1

\* Items come out in the order they went in, each once and unchanged, and no
\* more than Size - 1 are ever in the buffer.
ImplementsQueue == Queue!Spec

\* size() errs to the safe side of the thread that asks at the moment of its
\* answer: the producer never hears of fewer items than there are, the
\* consumer never of more.
SizeIsSafe ==
    [][/\ (\E t \in producerTail .. tail : ProducerSize(t))
            => sizes'.producer >= head - tail
       /\ (\E h \in consumerHead .. head : ConsumerSize(h))
            => sizes'.consumer <= head - tail]_vars

\* What is pushed is popped in the end, if the consumer keeps polling: a push
\* that completes while pop finds the buffer empty is not overlooked.
Delivered == \A n \in 1 .. MaxItems : Len(pushed) >= n ~> Len(popped) >= n

=============================================================================
