---------------------------- MODULE EngineProofs ----------------------------
(***************************************************************************)
(* Proofs about MatchingEngine, for any number of threads unless a theorem *)
(* says otherwise.                                                         *)
(*                                                                         *)
(* The book and the triggers (OrdersInv).  Every order object and every    *)
(* armed trigger has an id of its own, and the book is sound (SoundBook):  *)
(* not crossed, and every resting order found by its id; the totals add up *)
(* too, of CarefulClients.  A locked region changes the book by one        *)
(* operation of module OrderBook, or by checkTriggers, a loop over the     *)
(* list: AllChecked carries the invariant through it, trigger by trigger.  *)
(* The types follow (TypesHold).                                           *)
(*                                                                         *)
(* The market data feed (FeedInv, one thread).  The levels sent last are   *)
(* those of the book, except while the one thread is on its way to publish *)
(* them, and every client that has its first snapshot holds them.          *)
(*                                                                         *)
(* The trade feed.  TradesDelivered keeps an account per client: of the    *)
(* numbers given since it subscribed, each has been delivered to it once,  *)
(* or is owed to it by one thread.  FeedInOrder keeps the trades that are  *)
(* still to publish above those that have been published (one thread).     *)
(***************************************************************************)
EXTENDS MatchingEngine, OrderBookProofs

----------------------------------------------------------------------------
(* The loop of checkTriggers, trigger by trigger *)

\* g is the function the definition of Checked describes.
IsCheck(g, b, list, price, n) ==
    g = [i \in 0 .. n |->
            IF i = 0 THEN [book |-> b, armed |-> << >>, made |-> 0, log |-> << >>]
            ELSE CheckTrigger(g[i - 1], list[i], price)]

\* The loop can always go on by one trigger.
LEMMA CheckLonger ==
  ASSUME NEW b, NEW list, NEW price, NEW n \in Nat, NEW g, IsCheck(g, b, list, price, n)
  PROVE  \E h : IsCheck(h, b, list, price, n + 1)
<1> DEFINE s == [book |-> b, armed |-> << >>, made |-> 0, log |-> << >>]
           last == CheckTrigger(g[n], list[n + 1], price)
           h == [i \in 0 .. n + 1 |-> IF i = n + 1 THEN last ELSE g[i]]
<1>1. \A i \in 0 .. n : g[i] = IF i = 0 THEN s ELSE CheckTrigger(g[i - 1], list[i], price)
  BY Zenon DEF IsCheck
<1> HIDE DEF s
<1>2. h[n + 1] = last /\ \A i \in 0 .. n : h[i] = g[i]
  OBVIOUS
<1>3. ASSUME NEW i \in 0 .. n + 1
      PROVE  h[i] = IF i = 0 THEN s ELSE CheckTrigger(h[i - 1], list[i], price)
  <2>1. CASE i = n + 1
    BY <1>2, <2>1
  <2>2. CASE i = 0
    BY <1>1, <1>2, <2>2
  <2>3. CASE i \in 1 .. n
    BY <1>1, <1>2, <2>3
  <2> QED  BY <2>1, <2>2, <2>3
<1>4. h = [i \in 0 .. n + 1 |-> IF i = 0 THEN s ELSE CheckTrigger(h[i - 1], list[i], price)]
  BY <1>3
<1> HIDE DEF h
<1> QED  BY <1>4 DEF IsCheck, s

\* There is a run of the loop of every length.
LEMMA CheckedRun ==
  ASSUME NEW b, NEW list, NEW price, NEW n \in Nat
  PROVE  \E g : IsCheck(g, b, list, price, n) /\ Checked(b, list, price, n) = g[n]
<1> DEFINE T == {k \in Nat : \E g : IsCheck(g, b, list, price, k)}
           s == [book |-> b, armed |-> << >>, made |-> 0, log |-> << >>]
<1>1. 0 \in T
  <2>1. IsCheck([k \in 0 .. 0 |-> s], b, list, price, 0)  BY DEF IsCheck
  <2> QED  BY <2>1
<1>2. ASSUME NEW k \in Nat, k \in T PROVE k + 1 \in T
  BY <1>2, CheckLonger
<1>3. PICK g : IsCheck(g, b, list, price, n)
  <2> HIDE DEF T
  <2>1. n \in T  BY <1>1, <1>2, SetOfAllNat
  <2> QED  BY <2>1 DEF T
<1> DEFINE f == CHOOSE f : IsCheck(f, b, list, price, n)
<1>4. IsCheck(f, b, list, price, n)
  BY <1>3
<1>5. Checked(b, list, price, n) = f[n]
  BY DEF Checked, IsCheck
<1> QED  BY <1>4, <1>5

\* The loop before the first trigger, and after one more.
LEMMA CheckedByTrigger ==
  ASSUME NEW b, NEW list, NEW price
  PROVE  /\ Checked(b, list, price, 0)
              = [book |-> b, armed |-> << >>, made |-> 0, log |-> << >>]
         /\ \A n \in Nat : Checked(b, list, price, n + 1)
              = CheckTrigger(Checked(b, list, price, n), list[n + 1], price)
<1> DEFINE s == [book |-> b, armed |-> << >>, made |-> 0, log |-> << >>]
<1>1. Checked(b, list, price, 0) = s
  <2>1. PICK g : IsCheck(g, b, list, price, 0) /\ Checked(b, list, price, 0) = g[0]
    BY CheckedRun
  <2> QED  BY <2>1 DEF IsCheck
<1>2. ASSUME NEW n \in Nat
      PROVE  Checked(b, list, price, n + 1)
               = CheckTrigger(Checked(b, list, price, n), list[n + 1], price)
  <2>1. PICK g : IsCheck(g, b, list, price, n) /\ Checked(b, list, price, n) = g[n]
    BY CheckedRun
  <2>2. PICK h : IsCheck(h, b, list, price, n + 1) /\ Checked(b, list, price, n + 1) = h[n + 1]
    BY CheckedRun
  <2>3. /\ \A i \in 0 .. n : g[i] = IF i = 0 THEN s ELSE CheckTrigger(g[i - 1], list[i], price)
        /\ \A i \in 0 .. n + 1 : h[i] = IF i = 0 THEN s ELSE CheckTrigger(h[i - 1], list[i], price)
    BY <2>1, <2>2, Zenon DEF IsCheck
  <2> DEFINE T == {k \in Nat : k <= n => g[k] = h[k]}
  <2> HIDE DEF s
  <2>4. 0 \in T
    BY <2>3
  <2>5. \A k \in Nat : k \in T => k + 1 \in T
    BY <2>3
  <2>6. n \in T
    <3> HIDE DEF T
    <3> QED  BY <2>4, <2>5, SetOfAllNat
  <2> QED  BY <2>1, <2>2, <2>3, <2>6
<1> QED  BY <1>1, <1>2

----------------------------------------------------------------------------
(* Orders and triggers *)

\* No two triggers share an id.
DistinctTriggers(list) ==
    \A i, j \in DOMAIN list : list[i].id = list[j].id => i = j

\* No trigger has the id of an order.
ApartFrom(list, b) ==
    \A i \in DOMAIN list : \A r \in DOMAIN b.orders : list[i].id # b.orders[r].id

\* A sound book: of any clients, not crossed and with every resting order found
\* by its id; of careful ones, with its three records in agreement.
SoundBook(b) == Findable(b) /\ NotCrossed(b) /\ (CarefulClients => Ledger(b))

\* The invariant behind BookSound and ArmedOrActive, whatever the threads do: a
\* sound book, and triggers with ids of their own.
OrdersInv ==
    /\ SoundBook(book)
    /\ triggers \in Seq(Trigger)
    /\ DistinctTriggers(triggers)
    /\ ApartFrom(triggers, book)
    /\ tradeIds \in Nat

\* What checkTriggers has made of the first k triggers: those that fire have
\* become orders, the others are still armed.
ActivatedEntry == [type : {"activated"}, id : Ids]

SomeChecked(b, list, price, k, s) ==
    /\ s \in [book : Book, armed : Seq(Trigger), made : Nat, log : Seq(ActivatedEntry)]
    /\ SoundBook(s.book)
    /\ DistinctTriggers(s.armed)
    /\ \A i \in DOMAIN s.armed : \E j \in 1 .. k : s.armed[i] = list[j] /\ ~Fires(list[j], price)
    /\ \A j \in 1 .. k :
          IF Fires(list[j], price)
          THEN \E r \in DOMAIN s.book.orders : s.book.orders[r].id = list[j].id
          ELSE \E i \in DOMAIN s.armed : s.armed[i] = list[j]
    /\ \A r \in DOMAIN s.book.orders :
          \/ \E q \in DOMAIN b.orders : s.book.orders[r].id = b.orders[q].id
          \/ \E j \in 1 .. k : Fires(list[j], price) /\ s.book.orders[r].id = list[j].id

\* An activated trigger is an order that may be processed.
LEMMA ActivatedOK ==
  ASSUME NEW o \in Trigger
  PROVE  /\ Activated(o) \in Order /\ Activated(o).id = o.id /\ o.id \in Ids
         /\ Activated(o).type = "LIMIT" => Activated(o).price \in Prices
BY EngineAssumption DEF Activated, Trigger, Order, Types

\* In a sound book every id leads to an order with that id.
LEMMA SoundOwnIds ==
  ASSUME NEW b, SoundBook(b)
  PROVE  BookOK(b) /\ OwnIds(b)
BY DEF SoundBook, Findable

\* What processOrder does to a sound book when the order's id is new.
LEMMA ProcessSound ==
  ASSUME NEW b, SoundBook(b), NEW o \in Order, o.type = "LIMIT" => o.price \in Prices,
         \A r \in DOMAIN b.orders : b.orders[r].id # o.id
  PROVE  SoundBook(ProcessOrder(b, o).book)
<1> DEFINE c == ProcessOrder(b, o).book
<1>1. Findable(b) /\ NotCrossed(b) /\ (CarefulClients => Ledger(b))
  BY DEF SoundBook
<1>2. Findable(c) /\ NotCrossed(c) /\ (Ledger(b) => Ledger(c))
  BY <1>1, ProcessOrderFindable
<1> HIDE DEF c
<1>3. SoundBook(c)
  BY <1>1, <1>2 DEF SoundBook
<1> QED  BY <1>3 DEF c

\* A trigger that does not fire is carried over; the rest is as it was.
LEMMA CheckKeepsArmed ==
  ASSUME NEW b, NEW list \in Seq(Trigger), DistinctTriggers(list),
         NEW price, NEW k \in Nat, k + 1 \in DOMAIN list, ~Fires(list[k + 1], price),
         NEW s, SomeChecked(b, list, price, k, s)
  PROVE  SomeChecked(b, list, price, k + 1, CheckTrigger(s, list[k + 1], price))
<1> DEFINE o == list[k + 1]
           d == CheckTrigger(s, o, price)
           n == Len(s.armed)
<1>1. o \in Trigger /\ 1 .. k + 1 \subseteq DOMAIN list
  BY ElementOfSeq, LenProperties
<1>2. s \in [book : Book, armed : Seq(Trigger), made : Nat, log : Seq(ActivatedEntry)]
  BY DEF SomeChecked
<1>3. /\ d \in [book : Book, armed : Seq(Trigger), made : Nat, log : Seq(ActivatedEntry)]
      /\ d.book = s.book /\ d.armed = Append(s.armed, o)
  BY <1>1, <1>2, AppendProperties DEF CheckTrigger
<1>4. /\ n \in Nat /\ DOMAIN s.armed = 1 .. n /\ DOMAIN d.armed = 1 .. n + 1
      /\ d.armed[n + 1] = o /\ \A i \in 1 .. n : d.armed[i] = s.armed[i]
  BY <1>1, <1>2, <1>3, AppendProperties, LenProperties
<1> HIDE DEF d, n, o
<1>5. \A i \in DOMAIN d.armed :
         \E j \in 1 .. k + 1 : d.armed[i] = list[j] /\ ~Fires(list[j], price)
  <2> SUFFICES ASSUME NEW i \in DOMAIN d.armed
               PROVE  \E j \in 1 .. k + 1 : d.armed[i] = list[j] /\ ~Fires(list[j], price)
    OBVIOUS
  <2>1. CASE i = n + 1
    BY <1>4, <2>1 DEF o
  <2>2. CASE i \in 1 .. n
    <3>1. \E j \in 1 .. k : s.armed[i] = list[j] /\ ~Fires(list[j], price)
      BY <1>4, <2>2 DEF SomeChecked
    <3> QED  BY <1>4, <2>2, <3>1
  <2> QED  BY <1>4, <2>1, <2>2
<1>6. DistinctTriggers(d.armed)
  <2>1. \A i \in 1 .. n : s.armed[i].id # o.id
    <3> SUFFICES ASSUME NEW i \in 1 .. n PROVE s.armed[i].id # o.id
      OBVIOUS
    <3>1. PICK j \in 1 .. k : s.armed[i] = list[j]
      BY <1>4 DEF SomeChecked
    <3>2. j # k + 1 /\ j \in DOMAIN list
      BY <1>1
    <3> QED  BY <3>1, <3>2 DEF DistinctTriggers, o
  <2>2. \A i, j \in 1 .. n : s.armed[i].id = s.armed[j].id => i = j
    BY <1>4 DEF SomeChecked, DistinctTriggers
  <2> QED  BY <1>4, <2>1, <2>2, SMTT(30) DEF DistinctTriggers
<1>7. ASSUME NEW j \in 1 .. k + 1
      PROVE  IF Fires(list[j], price)
             THEN \E r \in DOMAIN d.book.orders : d.book.orders[r].id = list[j].id
             ELSE \E i \in DOMAIN d.armed : d.armed[i] = list[j]
  <2>1. CASE j = k + 1
    <3>1. ~Fires(list[j], price) /\ o = list[j]
      BY <2>1, Zenon DEF o
    <3>2. n + 1 \in DOMAIN d.armed /\ d.armed[n + 1] = list[j]
      BY <1>4, <3>1
    <3> QED  BY <3>1, <3>2, Zenon
  <2>2. CASE j \in 1 .. k
    <3>1. IF Fires(list[j], price)
          THEN \E r \in DOMAIN s.book.orders : s.book.orders[r].id = list[j].id
          ELSE \E i \in DOMAIN s.armed : s.armed[i] = list[j]
      BY <2>2 DEF SomeChecked
    <3>2. CASE Fires(list[j], price)
      BY <1>3, <3>1, <3>2, Zenon
    <3>3. CASE ~Fires(list[j], price)
      <4>1. PICK i \in 1 .. n : s.armed[i] = list[j]
        BY <1>4, <3>1, <3>3
      <4> QED  BY <1>4, <3>3, <4>1
    <3> QED  BY <3>2, <3>3
  <2> QED  BY <2>1, <2>2
<1>8. ASSUME NEW r \in DOMAIN d.book.orders
      PROVE  \/ \E q \in DOMAIN b.orders : d.book.orders[r].id = b.orders[q].id
             \/ \E j \in 1 .. k + 1 : Fires(list[j], price) /\ d.book.orders[r].id = list[j].id
  <2>1. \/ \E q \in DOMAIN b.orders : d.book.orders[r].id = b.orders[q].id
        \/ \E j \in 1 .. k : Fires(list[j], price) /\ d.book.orders[r].id = list[j].id
    <3>1. r \in DOMAIN s.book.orders /\ d.book.orders[r].id = s.book.orders[r].id
      BY <1>3
    <3>2. \/ \E q \in DOMAIN b.orders : s.book.orders[r].id = b.orders[q].id
          \/ \E j \in 1 .. k : Fires(list[j], price) /\ s.book.orders[r].id = list[j].id
      BY <3>1, Zenon DEF SomeChecked
    <3> QED  BY ONLY <3>1, <3>2, Zenon
  <2>2. 1 .. k \subseteq 1 .. k + 1
    OBVIOUS
  <2> QED  BY <2>1, <2>2, Zenon
<1>9. SoundBook(d.book)
  BY <1>3 DEF SomeChecked
<1>10. SomeChecked(b, list, price, k + 1, d)
  BY <1>3, <1>5, <1>6, <1>7, <1>8, <1>9 DEF SomeChecked
<1> QED  BY <1>10 DEF d, o

\* A trigger that fires becomes an order of the book, which stays sound.
LEMMA CheckActivates ==
  ASSUME NEW b, NEW list \in Seq(Trigger), DistinctTriggers(list), ApartFrom(list, b),
         NEW price, NEW k \in Nat, k + 1 \in DOMAIN list, Fires(list[k + 1], price),
         NEW s, SomeChecked(b, list, price, k, s)
  PROVE  SomeChecked(b, list, price, k + 1, CheckTrigger(s, list[k + 1], price))
<1> DEFINE o == list[k + 1]
           d == CheckTrigger(s, o, price)
           done == ProcessOrder(s.book, Activated(o))
<1>1. o \in Trigger /\ 1 .. k + 1 \subseteq DOMAIN list
  BY ElementOfSeq, LenProperties
<1>2. /\ s \in [book : Book, armed : Seq(Trigger), made : Nat, log : Seq(ActivatedEntry)]
      /\ SoundBook(s.book) /\ BookOK(s.book) /\ OwnIds(s.book)
  BY SoundOwnIds DEF SomeChecked
<1>3. \A r \in DOMAIN s.book.orders : s.book.orders[r].id # o.id
  <2> SUFFICES ASSUME NEW r \in DOMAIN s.book.orders, s.book.orders[r].id = o.id PROVE FALSE
    OBVIOUS
  <2>1. \/ \E q \in DOMAIN b.orders : s.book.orders[r].id = b.orders[q].id
        \/ \E j \in 1 .. k : s.book.orders[r].id = list[j].id
    BY Zenon DEF SomeChecked
  <2>2. \A q \in DOMAIN b.orders : o.id # b.orders[q].id
    BY DEF ApartFrom
  <2>3. \A j \in 1 .. k : o.id # list[j].id
    BY <1>1 DEF DistinctTriggers
  <2> HIDE DEF o
  <2> QED  BY <2>1, <2>2, <2>3
<1>4. /\ Activated(o) \in Order /\ Activated(o).id = o.id /\ o.id \in Ids
      /\ Activated(o).type = "LIMIT" => Activated(o).price \in Prices
  BY <1>1, ActivatedOK
<1> HIDE DEF o
<1>5. /\ BookOK(done.book) /\ OneMore(s.book, Activated(o), done.book)
      /\ done.trades \in Seq(PricedTrade)
  BY <1>2, <1>4, ProcessOrderOK
<1>6. SoundBook(done.book)
  BY <1>2, <1>3, <1>4, ProcessSound
<1>7. d = [book |-> done.book, armed |-> s.armed, made |-> s.made + Len(done.trades),
           log |-> Append(s.log, [type |-> "activated", id |-> o.id])]
  BY DEF CheckTrigger, o
<1> HIDE DEF done
<1>8. /\ d \in [book : Book, armed : Seq(Trigger), made : Nat, log : Seq(ActivatedEntry)]
      /\ d.book = done.book /\ d.armed = s.armed
  <2>1. [type |-> "activated", id |-> o.id] \in ActivatedEntry
    BY <1>4 DEF ActivatedEntry
  <2>2. Append(s.log, [type |-> "activated", id |-> o.id]) \in Seq(ActivatedEntry)
    BY <1>2, <2>1, AppendProperties
  <2>3. Len(done.trades) \in Nat
    BY <1>5, LenProperties, Zenon
  <2> QED  BY <1>2, <1>5, <1>7, <2>2, <2>3 DEF BookOK
<1> HIDE DEF d
<1>9. /\ DOMAIN s.book.orders = 1 .. Len(s.book.orders) /\ Len(s.book.orders) \in Nat
      /\ DOMAIN d.book.orders = 1 .. Len(s.book.orders) + 1
      /\ d.book.orders[Len(s.book.orders) + 1].id = o.id
      /\ \A r \in DOMAIN s.book.orders : d.book.orders[r].id = s.book.orders[r].id
  BY <1>2, <1>4, <1>5, <1>8, OrdersDomain DEF OneMore, BookOK
<1>10. \A i \in DOMAIN d.armed :
         \E j \in 1 .. k + 1 : d.armed[i] = list[j] /\ ~Fires(list[j], price)
  BY <1>8 DEF SomeChecked
<1>11. ASSUME NEW j \in 1 .. k + 1
       PROVE  IF Fires(list[j], price)
              THEN \E r \in DOMAIN d.book.orders : d.book.orders[r].id = list[j].id
              ELSE \E i \in DOMAIN d.armed : d.armed[i] = list[j]
  <2>1. CASE j = k + 1
    <3>1. Fires(list[j], price) /\ list[j].id = o.id
      BY <2>1 DEF o
    <3>2. \E r \in DOMAIN d.book.orders : d.book.orders[r].id = o.id
      BY ONLY <1>9
    <3> QED  BY ONLY <3>1, <3>2
  <2>2. CASE j \in 1 .. k
    <3>1. IF Fires(list[j], price)
          THEN \E r \in DOMAIN s.book.orders : s.book.orders[r].id = list[j].id
          ELSE \E i \in DOMAIN s.armed : s.armed[i] = list[j]
      BY <2>2, Zenon DEF SomeChecked
    <3>2. CASE Fires(list[j], price)
      <4>1. PICK r \in DOMAIN s.book.orders : s.book.orders[r].id = list[j].id
        BY <3>1, <3>2
      <4>2. r \in DOMAIN d.book.orders /\ d.book.orders[r].id = list[j].id
        BY ONLY <1>9, <4>1
      <4> QED  BY ONLY <3>2, <4>2
    <3>3. CASE ~Fires(list[j], price)
      <4>1. \E i \in DOMAIN d.armed : d.armed[i] = list[j]
        BY ONLY <1>8, <3>1, <3>3
      <4> QED  BY ONLY <3>3, <4>1
    <3> QED  BY ONLY <3>2, <3>3
  <2> QED  BY <2>1, <2>2
<1>12. ASSUME NEW r \in DOMAIN d.book.orders
       PROVE  \/ \E q \in DOMAIN b.orders : d.book.orders[r].id = b.orders[q].id
              \/ \E j \in 1 .. k + 1 : Fires(list[j], price) /\ d.book.orders[r].id = list[j].id
  <2>1. CASE r = Len(s.book.orders) + 1
    BY <1>9, <2>1 DEF o
  <2>2. CASE r \in DOMAIN s.book.orders
    <3>1. \/ \E q \in DOMAIN b.orders : s.book.orders[r].id = b.orders[q].id
          \/ \E j \in 1 .. k : Fires(list[j], price) /\ s.book.orders[r].id = list[j].id
      BY <2>2 DEF SomeChecked
    <3>2. d.book.orders[r].id = s.book.orders[r].id
      BY <1>9, <2>2
    <3> QED  BY <3>1, <3>2
  <2> QED  BY <1>9, <2>1, <2>2
<1>13. DistinctTriggers(d.armed)
  BY <1>8 DEF SomeChecked
<1>14. SoundBook(d.book)
  BY <1>6, <1>8
<1>15. SomeChecked(b, list, price, k + 1, d)
  BY <1>8, <1>10, <1>11, <1>12, <1>13, <1>14 DEF SomeChecked
<1> QED  BY <1>15 DEF d, o

\* The whole of checkTriggers.
LEMMA AllChecked ==
  ASSUME NEW b, SoundBook(b),
         NEW list \in Seq(Trigger), DistinctTriggers(list), ApartFrom(list, b), NEW price
  PROVE  SomeChecked(b, list, price, Len(list), Checked(b, list, price, Len(list)))
<1> DEFINE T == {k \in Nat : k <= Len(list) =>
                    SomeChecked(b, list, price, k, Checked(b, list, price, k))}
<1>1. Len(list) \in Nat /\ DOMAIN list = 1 .. Len(list)
  BY LenProperties
<1>2. 0 \in T
  <2> DEFINE s == [book |-> b, armed |-> << >>, made |-> 0, log |-> << >>]
  <2>1. b \in Book
    BY SoundOwnIds DEF BookOK
  <2>2. SomeChecked(b, list, price, 0, s)
    BY <2>1 DEF SomeChecked, DistinctTriggers
  <2>3. Checked(b, list, price, 0) = s
    BY CheckedByTrigger
  <2> HIDE DEF s
  <2> QED  BY <2>2, <2>3
<1>3. ASSUME NEW k \in Nat, k \in T PROVE k + 1 \in T
  <2> SUFFICES ASSUME k + 1 <= Len(list)
               PROVE  SomeChecked(b, list, price, k + 1, Checked(b, list, price, k + 1))
    OBVIOUS
  <2>1. k + 1 \in DOMAIN list /\ SomeChecked(b, list, price, k, Checked(b, list, price, k))
    BY <1>1, <1>3
  <2>2. Checked(b, list, price, k + 1)
          = CheckTrigger(Checked(b, list, price, k), list[k + 1], price)
    BY CheckedByTrigger, Zenon
  <2> QED  BY <2>1, <2>2, CheckKeepsArmed, CheckActivates
<1>4. Len(list) \in T
  <2> HIDE DEF T
  <2> QED  BY <1>1, <1>2, <1>3, SetOfAllNat
<1> QED  BY <1>4

\* The id of an order or a trigger that is sent has not been used.
LEMMA FreshId ==
  ASSUME NEW id \in FreshIds
  PROVE  /\ id \in Ids
         /\ \A r \in DOMAIN book.orders : book.orders[r].id # id
         /\ \A i \in DOMAIN triggers : triggers[i].id # id
<1> DEFINE unused == Ids \ ({o.id : o \in ToSet(book.orders)} \cup {o.id : o \in ToSet(triggers)})
<1>1. id \in unused
  BY Zenon DEF FreshIds
<1> QED  BY <1>1 DEF ToSet

\* An order a client sends fits a sound book in which its id is not known.
LEMMA SubmittableOK ==
  ASSUME NEW o \in Submittable
  PROVE  /\ o \in Order /\ o.id \in Ids
         /\ o.type = "LIMIT" => o.price \in Prices
         /\ \A r \in DOMAIN book.orders : book.orders[r].id # o.id
         /\ \A i \in DOMAIN triggers : triggers[i].id # o.id
<1>1. /\ o \in [id : FreshIds, side : Sides, type : SubmitTypes,
                price : Prices \cup {0}, quantity : Quantities]
      /\ o.type = "LIMIT" => o.price # 0
  BY Zenon DEF Submittable
<1>2. SubmitTypes \subseteq Types /\ Quantities \subseteq Nat
  BY EngineAssumption
<1>3. /\ o.id \in Ids
      /\ \A r \in DOMAIN book.orders : book.orders[r].id # o.id
      /\ \A i \in DOMAIN triggers : triggers[i].id # o.id
  BY <1>1, FreshId
<1> QED  BY <1>1, <1>2, <1>3 DEF Order

\* The orders of the book keep their ids.
SameIds(b, c) ==
    /\ DOMAIN c.orders = DOMAIN b.orders
    /\ \A r \in DOMAIN b.orders : c.orders[r].id = b.orders[r].id

\* Cancelling keeps the book sound and adds no order object.
LEMMA CancelSound ==
  ASSUME NEW b, SoundBook(b), NEW id \in Ids, b.orderMap[id] # NoOrder
  PROVE  LET c == CancelOrder(b, id)
         IN  SoundBook(c) /\ SameIds(b, c)
<1> DEFINE c == CancelOrder(b, id)
<1>1. Findable(b) /\ NotCrossed(b) /\ BookOK(b)
  BY DEF SoundBook, Findable
<1>2. Findable(c) /\ SameOrders(b, c) /\ c.linked \subseteq b.linked
  BY <1>1, FindableCancelOrder
<1>3. CarefulClients => Ledger(c)
  BY LedgerCancelOrder DEF SoundBook
<1> HIDE DEF c
<1>4. NotCrossed(c)
  BY <1>1, <1>2, FewerNotCrossed DEF SameOrders, BookOK
<1> QED  BY <1>2, <1>3, <1>4 DEF c, SameIds, SameOrders, SoundBook

\* So does modifying; to a positive quantity only when the totals are to add up.
LEMMA ModifySound ==
  ASSUME NEW b, SoundBook(b), NEW id \in Ids, b.orderMap[id] # NoOrder,
         NEW q \in Nat, CarefulClients => q # 0
  PROVE  LET c == ModifyOrder(b, id, q)
         IN  SoundBook(c) /\ SameIds(b, c)
<1> DEFINE c == ModifyOrder(b, id, q)
<1>1. Findable(b) /\ NotCrossed(b) /\ BookOK(b)
  BY DEF SoundBook, Findable
<1>2. Findable(c) /\ SameOrders(b, c) /\ c.linked \subseteq b.linked
  BY <1>1, FindableModifyOrder
<1>3. CarefulClients => Ledger(c)
  BY LedgerModifyOrder DEF SoundBook
<1> HIDE DEF c
<1>4. NotCrossed(c)
  BY <1>1, <1>2, FewerNotCrossed DEF SameOrders, BookOK
<1> QED  BY <1>2, <1>3, <1>4 DEF c, SameIds, SameOrders, SoundBook

\* The invariant of the orders holds at the start, ...
LEMMA OrdersInit == Init => OrdersInv
<1> SUFFICES ASSUME Init PROVE OrdersInv
  OBVIOUS
<1>1. /\ book = EmptyBook /\ triggers = << >> /\ tradeIds = 0
  BY DEF Init
<1>2. BookOK(EmptyBook)
  BY DEF EmptyBook, BookOK, Book, NoOrder
<1>3. \A S : S \subseteq {} => Units(EmptyBook, S) = {}
  BY DEF Units
<1>4. Ledger(EmptyBook)
  <2>1. Indexed(EmptyBook) /\ UniqueIds(EmptyBook)
    BY DEF EmptyBook, Indexed, UniqueIds
  <2>2. EmptyBook.linked = {} /\ Cardinality({}) = 0 /\ IsFiniteSet({})
    BY FS_EmptySet DEF EmptyBook
  <2>3. TotalsAddUp(EmptyBook)
    BY <1>3, <2>2, Zenon DEF TotalsAddUp, Level, EmptyBook
  <2> QED  BY <1>2, <1>3, <2>1, <2>2, <2>3 DEF Ledger
<1>5. NotCrossed(EmptyBook)
  BY DEF EmptyBook, NotCrossed
<1>6. SoundBook(EmptyBook)
  BY <1>4, <1>5, LedgerFindable DEF SoundBook
<1> QED  BY <1>1, <1>6 DEF OrdersInv, DistinctTriggers, ApartFrom

\* Orders that keep their ids stay apart from the triggers.
LEMMA SameIdsApart ==
  ASSUME NEW list, NEW b, NEW c, SameIds(b, c), ApartFrom(list, b)
  PROVE  ApartFrom(list, c)
BY DEF SameIds, ApartFrom

\* ... and every step keeps it.
LEMMA OrdersStep ==
  ASSUME OrdersInv, [Next]_vars
  PROVE  OrdersInv'
<1>1. ASSUME NEW t \in Threads, NEW o \in Submittable, SubmitOrder(t, o)
      PROVE  OrdersInv'
  <2> DEFINE d == ProcessOrder(book, o)
  <2>1. /\ book' = d.book /\ tradeIds' = tradeIds + Len(d.trades) /\ triggers' = triggers
    BY <1>1, Zenon DEF SubmitOrder
  <2>2. /\ SoundBook(book) /\ triggers \in Seq(Trigger)
        /\ DistinctTriggers(triggers) /\ ApartFrom(triggers, book) /\ tradeIds \in Nat
    BY DEF OrdersInv
  <2>3. /\ o \in Order /\ o.id \in Ids
        /\ o.type = "LIMIT" => o.price \in Prices
        /\ \A r \in DOMAIN book.orders : book.orders[r].id # o.id
        /\ \A i \in DOMAIN triggers : triggers[i].id # o.id
    BY SubmittableOK
  <2>4. BookOK(book) /\ OwnIds(book)
    BY <2>2, SoundOwnIds
  <2>5. OneMore(book, o, d.book) /\ d.trades \in Seq(PricedTrade)
    BY <2>3, <2>4, ProcessOrderOK
  <2>6. SoundBook(d.book)
    BY <2>2, <2>3, ProcessSound
  <2> HIDE DEF d
  <2>7. Len(d.trades) \in Nat
    BY <2>5, LenProperties
  <2>8. ApartFrom(triggers, d.book)
    <3> SUFFICES ASSUME NEW i \in DOMAIN triggers, NEW r \in DOMAIN d.book.orders
                 PROVE  triggers[i].id # d.book.orders[r].id
      BY DEF ApartFrom
    <3>1. DOMAIN book.orders = 1 .. Len(book.orders) /\ Len(book.orders) \in Nat
      BY <2>4, OrdersDomain DEF BookOK
    <3>2. CASE r \in DOMAIN book.orders
      BY <2>2, <2>5, <3>2 DEF OneMore, ApartFrom
    <3>3. CASE r = Len(book.orders) + 1
      BY <2>3, <2>5, <3>3 DEF OneMore
    <3> QED  BY <2>5, <3>1, <3>2, <3>3 DEF OneMore
  <2> QED  BY <2>1, <2>2, <2>6, <2>7, <2>8 DEF OrdersInv
<1>2. ASSUME NEW t \in Threads, NEW o \in SubmittableTriggers, SubmitTrigger(t, o)
      PROVE  OrdersInv'
  <2>1. triggers' = Append(triggers, o) /\ UNCHANGED <<book, tradeIds>>
    BY <1>2, Zenon DEF SubmitTrigger
  <2>2. /\ o \in Trigger
        /\ \A r \in DOMAIN book.orders : book.orders[r].id # o.id
        /\ \A i \in DOMAIN triggers : triggers[i].id # o.id
    BY FreshId DEF SubmittableTriggers, Trigger
  <2>3. /\ triggers' \in Seq(Trigger) /\ DOMAIN triggers = 1 .. Len(triggers)
        /\ Len(triggers) \in Nat /\ DOMAIN triggers' = 1 .. Len(triggers) + 1
        /\ triggers'[Len(triggers) + 1] = o
        /\ \A i \in DOMAIN triggers : triggers'[i] = triggers[i]
    BY <2>1, <2>2, AppendProperties, LenProperties DEF OrdersInv
  <2>4. DistinctTriggers(triggers')
    <3>1. \A i, j \in DOMAIN triggers : triggers[i].id = triggers[j].id => i = j
      BY DEF OrdersInv, DistinctTriggers
    <3>2. \A i \in DOMAIN triggers' : i \in DOMAIN triggers \/ i = Len(triggers) + 1
      BY <2>3
    <3> SUFFICES ASSUME NEW i \in DOMAIN triggers', NEW j \in DOMAIN triggers',
                        triggers'[i].id = triggers'[j].id
                 PROVE  i = j
      BY DEF DistinctTriggers
    <3> QED  BY <2>2, <2>3, <3>1, <3>2
  <2>5. ApartFrom(triggers', book')
    <3> SUFFICES ASSUME NEW i \in DOMAIN triggers', NEW r \in DOMAIN book.orders
                 PROVE  triggers'[i].id # book.orders[r].id
      BY <2>1 DEF ApartFrom
    <3>1. CASE i \in DOMAIN triggers
      BY <2>3, <3>1 DEF OrdersInv, ApartFrom
    <3>2. CASE i = Len(triggers) + 1
      BY <2>2, <2>3, <3>2
    <3> QED  BY <2>3, <3>1, <3>2
  <2>6. SoundBook(book)' /\ tradeIds' \in Nat
    BY <2>1 DEF OrdersInv
  <2> QED  BY <2>3, <2>4, <2>5, <2>6 DEF OrdersInv
<1>3. ASSUME NEW t \in Threads, NEW id \in Ids, CancelTheOrder(t, id)
      PROVE  OrdersInv'
  <2>1. /\ book' = CancelOrder(book, id) /\ book.orderMap[id] # NoOrder
        /\ UNCHANGED <<triggers, tradeIds>>
    BY <1>3, Zenon DEF CancelTheOrder
  <2>2. SoundBook(book') /\ SameIds(book, book')
    BY <2>1, CancelSound DEF OrdersInv
  <2> QED  BY <2>1, <2>2, SameIdsApart DEF OrdersInv
<1>4. ASSUME NEW t \in Threads, NEW id \in Ids, NEW q \in ModifyQtys, ModifyTheOrder(t, id, q)
      PROVE  OrdersInv'
  <2>1. /\ book' = ModifyOrder(book, id, q) /\ book.orderMap[id] # NoOrder
        /\ UNCHANGED <<triggers, tradeIds>>
    BY <1>4, Zenon DEF ModifyTheOrder
  <2>2. q \in Nat /\ (CarefulClients => q # 0)
    BY EngineAssumption DEF CarefulClients
  <2>3. SoundBook(book') /\ SameIds(book, book')
    BY <2>1, <2>2, ModifySound DEF OrdersInv
  <2> QED  BY <2>1, <2>3, SameIdsApart DEF OrdersInv
<1>5. ASSUME NEW t \in Threads, CheckTriggers(t)
      PROVE  OrdersInv'
  <2> DEFINE price == Head(thr[t].trades).price
             d == Checked(book, triggers, price, Len(triggers))
  <2>1. book' = d.book /\ triggers' = d.armed /\ tradeIds' = tradeIds + d.made
    BY <1>5, Zenon DEF CheckTriggers
  <2>2. SomeChecked(book, triggers, price, Len(triggers), d)
    BY AllChecked DEF OrdersInv
  <2> HIDE DEF d, price
  <2>3. /\ d \in [book : Book, armed : Seq(Trigger), made : Nat, log : Seq(ActivatedEntry)]
        /\ SoundBook(d.book) /\ DistinctTriggers(d.armed)
    BY <2>2 DEF SomeChecked
  <2>4. ASSUME NEW i \in DOMAIN d.armed, NEW r \in DOMAIN d.book.orders
        PROVE  d.armed[i].id # d.book.orders[r].id
    <3>1. PICK j \in 1 .. Len(triggers) : d.armed[i] = triggers[j] /\ ~Fires(triggers[j], price)
      BY <2>2 DEF SomeChecked
    <3>2. DOMAIN triggers = 1 .. Len(triggers)
      BY LenProperties DEF OrdersInv
    <3>3. \/ \E q \in DOMAIN book.orders : d.book.orders[r].id = book.orders[q].id
          \/ \E k \in 1 .. Len(triggers) :
                Fires(triggers[k], price) /\ d.book.orders[r].id = triggers[k].id
      BY <2>2, Zenon DEF SomeChecked
    <3>4. CASE \E q \in DOMAIN book.orders : d.book.orders[r].id = book.orders[q].id
      BY <3>1, <3>2, <3>4 DEF OrdersInv, ApartFrom
    <3>5. ASSUME NEW k \in 1 .. Len(triggers), Fires(triggers[k], price),
                 d.book.orders[r].id = triggers[k].id
          PROVE  d.armed[i].id # d.book.orders[r].id
      <4>1. j # k
        BY <3>1, <3>5
      <4>2. triggers[j].id # triggers[k].id
        BY <3>2, <4>1 DEF OrdersInv, DistinctTriggers
      <4> QED  BY <3>1, <3>5, <4>2
    <3> QED  BY <3>3, <3>4, <3>5
  <2>5. ApartFrom(d.armed, d.book)
    BY <2>4 DEF ApartFrom
  <2>6. tradeIds + d.made \in Nat /\ d.armed \in Seq(Trigger)
    BY <2>3 DEF OrdersInv
  <2> QED  BY <2>1, <2>3, <2>5, <2>6 DEF OrdersInv
<1>6. ASSUME UNCHANGED orderVars
      PROVE  OrdersInv'
  BY <1>6 DEF OrdersInv, orderVars
<1>7. ASSUME NEW t \in Threads, InCall(t), ~CheckTriggers(t)
      PROVE  UNCHANGED orderVars
  BY <1>7, ZenonT(30) DEF InCall, PublishTrade, NotifyTrade, GetMarketData, PublishMarketData, ReadSnapshot,
              SendFirstSnapshot
<1>8. ASSUME NEW t \in Threads, NEW c \in Clients,
             SubscribeToTrades(t, c) \/ SubscribeToMarketData(t, c)
      PROVE  UNCHANGED orderVars
  BY <1>8 DEF SubscribeToTrades, SubscribeToMarketData
<1>9. CASE UNCHANGED vars
  BY <1>6, <1>9 DEF vars
<1> QED
  BY <1>1, <1>2, <1>3, <1>4, <1>5, <1>6, <1>7, <1>8, <1>9 DEF Next, Call

\* Whatever the threads and the clients do, as long as they do not use an id twice:
\* every order object of the book and every armed trigger has an id of its own, the
\* book is not crossed, and every resting order is found by its id; of careful
\* clients, levels, index and totals agree as well.
THEOREM OrdersSound == Spec => []OrdersInv
<1>1. OrdersInv /\ [Next]_vars => OrdersInv'
  BY OrdersStep
<1> QED  BY OrdersInit, <1>1, PTL DEF Spec

\* As long as no client modifies an order to zero or uses an id twice: whatever the
\* threads and the triggers do, the index finds what the levels hold, the totals add
\* up, and the book is not crossed.
THEOREM BooksSound == CarefulClients => (Spec => []BookSound)
<1> SUFFICES ASSUME CarefulClients PROVE Spec => []BookSound
  OBVIOUS
<1>1. OrdersInv => BookSound
  BY DEF OrdersInv, SoundBook, Ledger, BookSound
<1> QED  BY <1>1, OrdersSound, PTL

\* Whatever the threads and the triggers do, and also when clients modify orders to
\* zero, as long as they do not use an id twice: every resting order is found by its
\* id, and every bid of the book is below every ask.
THEOREM BooksUsable == Spec => []BookUsable
<1>1. OrdersInv => BookUsable
  BY DEF OrdersInv, SoundBook, Findable, BookUsable
<1> QED  BY <1>1, OrdersSound, PTL

\* A trigger order that is armed is no order of the book: checkTriggers takes it
\* off the list as it processes it, and no client can name its id again.
THEOREM ArmedNotActive == Spec => []ArmedOrActive
<1>1. OrdersInv => ArmedOrActive
  BY DEF OrdersInv, ApartFrom, ArmedOrActive
<1> QED  BY <1>1, OrdersSound, PTL

\* Every step takes triggers off the list by firing them only.
LEMMA LeavingStep ==
  ASSUME OrdersInv, [Next]_vars
  PROVE  LeavesByFiring
<1> DEFINE Fired(i, t) == /\ thr[t].pc = "notify" /\ thr[t].callbacks = << >>
                          /\ Fires(triggers[i], Head(thr[t].trades).price)
           Active(i) == Activated(triggers[i]).id \in {o.id : o \in ToSet(book'.orders)}
<1>1. ASSUME NEW i \in DOMAIN triggers, triggers[i] \notin ToSet(triggers')
      PROVE  (\E t \in Threads : Fired(i, t)) /\ Active(i)
  <2>0. triggers \in Seq(Trigger) /\ DOMAIN triggers = 1 .. Len(triggers)
    BY <1>1, LenProperties DEF OrdersInv
  <2>1. triggers' # triggers
    BY <1>1 DEF ToSet
  <2>2. PICK t \in Threads : Call(t) \/ InCall(t)
    BY <1>1, <2>1 DEF Next, vars, orderVars
  <2>3. ASSUME NEW o \in SubmittableTriggers, SubmitTrigger(t, o)
        PROVE  FALSE
    <3>1. triggers' = Append(triggers, o) /\ o \in Trigger
      BY <2>3, FreshId DEF SubmitTrigger, SubmittableTriggers, Trigger
    <3>2. i \in DOMAIN triggers' /\ triggers'[i] = triggers[i]
      BY <2>0, <3>1, AppendProperties
    <3> QED  BY <1>1, <3>2 DEF ToSet
  <2>4. CheckTriggers(t)
    BY <2>1, <2>2, <2>3, ZenonT(30) DEF Call, InCall, SubmitOrder, CancelTheOrder, ModifyTheOrder,
          SubscribeToTrades, SubscribeToMarketData, PublishTrade, NotifyTrade, GetMarketData,
          PublishMarketData, ReadSnapshot, SendFirstSnapshot, orderVars
  <2> DEFINE price == Head(thr[t].trades).price
             d == Checked(book, triggers, price, Len(triggers))
  <2>5. book' = d.book /\ triggers' = d.armed
    BY <2>4, Zenon DEF CheckTriggers
  <2>6. thr[t].pc = "notify" /\ thr[t].callbacks = << >>
    BY <2>4 DEF CheckTriggers
  <2>7. SomeChecked(book, triggers, price, Len(triggers), d)
    BY <1>1, AllChecked DEF OrdersInv
  <2> HIDE DEF d, price
  <2>8. IF Fires(triggers[i], price)
        THEN \E r \in DOMAIN d.book.orders : d.book.orders[r].id = triggers[i].id
        ELSE \E j \in DOMAIN d.armed : d.armed[j] = triggers[i]
    BY <2>0, <2>7 DEF SomeChecked
  <2>9. Fires(triggers[i], price)
    BY <1>1, <2>5, <2>8 DEF ToSet
  <2>10. PICK r \in DOMAIN d.book.orders : d.book.orders[r].id = triggers[i].id
    BY <2>8, <2>9
  <2>11. Activated(triggers[i]).id = triggers[i].id
    BY DEF Activated
  <2>12. book'.orders[r] \in ToSet(book'.orders) /\ book'.orders[r].id = triggers[i].id
    BY <2>5, <2>10 DEF ToSet
  <2>13. Active(i)
    BY <2>11, <2>12
  <2> QED  BY <2>6, <2>9, <2>13 DEF price
<1> QED  BY <1>1 DEF LeavesByFiring

\* The only step that takes a trigger order off the list is a checkTriggers at a
\* price that fires it, and it leaves it as an order of the book.
THEOREM TriggersLeave == Spec => TriggersLeaveByFiring
<1>1. OrdersInv /\ [Next]_vars => [LeavesByFiring]_vars
  BY LeavingStep
<1> QED  BY <1>1, OrdersSound, PTL DEF Spec, TriggersLeaveByFiring

----------------------------------------------------------------------------
(* Types *)
\* A thread that publishes has a trade to publish.
Publishing ==
    \A t \in Threads : thr[t].pc \in {"publish", "notify"} => thr[t].trades # << >>

\* The rest of a sequence.
LEMMA TailOfMore ==
  ASSUME NEW S, NEW s \in Seq(S), s # << >>
  PROVE  /\ Tail(s) \in Seq(S) /\ Len(Tail(s)) = Len(s) - 1
         /\ Len(s) # 1 => Tail(s) # << >>
<1>1. Tail(s) \in Seq(S) /\ Len(Tail(s)) = Len(s) - 1
  OBVIOUS
<1>0. Len(s) \in Nat
  OBVIOUS
<1>2. ASSUME Tail(s) = << >> PROVE Len(s) = 1
  <2>1. Len(<< >>) = 0
    OBVIOUS
  <2>2. Len(s) - 1 = 0
    BY ONLY <1>1, <1>2, <2>1
  <2> QED  BY ONLY <1>0, <2>2
<1> QED  BY <1>1, <1>2

\* Every step keeps Publishing.
LEMMA PublishingStep ==
  ASSUME TypeOK, Publishing, [Next]_vars
  PROVE  Publishing'
<1>1. ASSUME NEW t \in Threads, NEW o \in Submittable, SubmitOrder(t, o)
      PROVE  Publishing'
  <2>1. PICK trades : /\ thr' = [thr EXCEPT
                            ![t].pc     = IF trades = << >> THEN "read" ELSE "publish",
                            ![t].trades = Numbered(trades)]
    BY <1>1, Zenon DEF SubmitOrder
  <2>2. Numbered(trades) = << >> => trades = << >>
    BY DEF Numbered
  <2> QED  BY <2>1, <2>2 DEF TypeOK, Thread, Publishing
<1>2. ASSUME NEW t \in Threads, PublishTrade(t)
      PROVE  Publishing'
  <2>1. PICK trade : thr' = [thr EXCEPT ![t].trades[1] = trade, ![t].pc = "notify",
                                        ![t].callbacks = subscribers.trades]
    BY <1>2 DEF PublishTrade
  <2>2. thr[t].trades # << >> /\ thr[t].trades \in Seq(Published)
    BY <1>2 DEF TypeOK, Thread, Publishing, PublishTrade
  <2>3. [thr[t].trades EXCEPT ![1] = trade] # << >>
    BY <2>2
  <2> QED  BY <2>1, <2>3, Zenon DEF TypeOK, Thread, Publishing
<1>3. ASSUME NEW t \in Threads, CheckTriggers(t)
      PROVE  Publishing'
  <2>1. /\ thr' = [thr EXCEPT ![t].trades = Tail(@),
                   ![t].pc = IF Len(thr[t].trades) = 1 THEN "read" ELSE "publish"]
        /\ thr[t].pc = "notify"
    BY <1>3 DEF CheckTriggers
  <2>2. thr[t].trades # << >> /\ thr[t].trades \in Seq(Published)
    BY <2>1, Zenon DEF TypeOK, Thread, Publishing
  <2>3. Len(thr[t].trades) # 1 => Tail(thr[t].trades) # << >>
    BY <2>2, TailOfMore
  <2> QED  BY <2>1, <2>3, Zenon DEF TypeOK, Thread, Publishing
<1>4. ASSUME NEW t \in Threads, NotifyTrade(t)
      PROVE  Publishing'
  BY <1>4 DEF NotifyTrade, TypeOK, Thread, Publishing
<1>5. ASSUME NEW t \in Threads,
             \/ \E o \in SubmittableTriggers : SubmitTrigger(t, o)
             \/ \E id \in Ids : CancelTheOrder(t, id)
             \/ \E id \in Ids, q \in ModifyQtys : ModifyTheOrder(t, id, q)
             \/ \E c \in Clients : SubscribeToTrades(t, c) \/ SubscribeToMarketData(t, c)
      PROVE  Publishing'
  <2>1. \/ thr' = thr
        \/ thr' = [thr EXCEPT ![t].pc = "read"]
        \/ \E c : thr' = [thr EXCEPT ![t].pc = "snapshot", ![t].callbacks = <<c>>]
    BY <1>5, Zenon DEF SubmitTrigger, CancelTheOrder, ModifyTheOrder, SubscribeToTrades,
                SubscribeToMarketData, Goto
  <2>2. ASSUME NEW c, thr' = [thr EXCEPT ![t].pc = "snapshot", ![t].callbacks = <<c>>]
        PROVE  Publishing'
    BY <2>2, ZenonT(30) DEF TypeOK, Thread, Publishing
  <2>3. CASE thr' = thr
    BY <2>3 DEF Publishing
  <2>4. CASE thr' = [thr EXCEPT ![t].pc = "read"]
    BY <2>4 DEF TypeOK, Thread, Publishing
  <2> QED  BY <2>1, <2>2, <2>3, <2>4
<1>6. ASSUME NEW t \in Threads, \/ GetMarketData(t) \/ PublishMarketData(t)
                                \/ ReadSnapshot(t) \/ SendFirstSnapshot(t)
      PROVE  Publishing'
  <2>1. \/ \E d : thr' = [thr EXCEPT ![t].pc = "diff", ![t].update = d]
        \/ \E d : thr' = [thr EXCEPT ![t].pc = "send", ![t].update = d]
        \/ thr' = [thr EXCEPT ![t] = Idle]
    BY <1>6 DEF GetMarketData, PublishMarketData, ReadSnapshot, SendFirstSnapshot
  <2>2. ASSUME NEW d, thr' = [thr EXCEPT ![t].pc = "diff", ![t].update = d]
        PROVE  Publishing'
    BY <2>2 DEF TypeOK, Thread, Publishing
  <2>3. ASSUME NEW d, thr' = [thr EXCEPT ![t].pc = "send", ![t].update = d]
        PROVE  Publishing'
    BY <2>3, ZenonT(30) DEF TypeOK, Thread, Publishing
  <2>4. CASE thr' = [thr EXCEPT ![t] = Idle]
    BY <2>4 DEF Idle, TypeOK, Thread, Publishing
  <2> QED  BY <2>1, <2>2, <2>3, <2>4
<1>7. CASE UNCHANGED vars
  BY <1>7 DEF vars, Publishing
<1> QED  BY <1>1, <1>2, <1>3, <1>4, <1>5, <1>6, <1>7 DEF Next, Call, InCall

\* What the feed says of a level is its total, or nothing.
LEMMA DepthType ==
  ASSUME NEW b, BookOK(b)
  PROVE  Depth(b) \in Levels
<1>1. ASSUME NEW side \in Sides, NEW q \in Prices
      PROVE  b.total[side][q] \in Int
  BY DEF BookOK, Book
<1>2. ASSUME NEW side \in Sides, NEW p \in Prices
      PROVE  Depth(b)[side][p] \in SUBSET Int
  <2> DEFINE prices == {b.orders[r].price : r \in {x \in b.linked : b.orders[x].side = side}}
             better(q) == {x \in prices : IF side = "BUY" THEN x > q ELSE x < q}
             top == {q \in prices : Cardinality(better(q)) < MaxDepth}
  <2>1. Depth(b)[side][p] = {b.total[side][q] : q \in top \cap {p}}
    BY DEF Depth
  <2> HIDE DEF top
  <2> QED  BY <1>1, <2>1
<1>3. Depth(b) = [side \in Sides |-> [p \in Prices |-> Depth(b)[side][p]]]
  BY DEF Depth
<1> QED  BY <1>2, <1>3 DEF Levels

\* Applying changes to levels gives levels.
LEMMA ApplyType ==
  ASSUME NEW levels \in Levels, NEW old, NEW new \in Levels
  PROVE  Apply(levels, Changes(old, new)) \in Levels
<1>1. ASSUME NEW side \in Sides, NEW p \in Prices
      PROVE  Apply(levels, Changes(old, new))[side][p] \in SUBSET Int
  BY DEF Levels, Apply, Changes
<1> QED  BY <1>1 DEF Apply, Levels

\* The trades of a call are trades of the feed once they have their ids.
LEMMA NumberedType ==
  ASSUME NEW trades \in Seq(PricedTrade), tradeIds \in Nat
  PROVE  Numbered(trades) \in Seq(Published)
<1>1. Len(trades) \in Nat /\ DOMAIN trades = 1 .. Len(trades)
  BY LenProperties
<1>2. ASSUME NEW i \in 1 .. Len(trades)
      PROVE  [tradeId |-> tradeIds + i, seqNum |-> 0, price |-> trades[i].price] \in Published
  <2>1. trades[i] \in PricedTrade
    BY <1>1, ElementOfSeq
  <2> QED  BY <2>1 DEF PricedTrade, Published
<1>3. Numbered(trades) \in [1 .. Len(trades) -> Published]
  BY <1>1, <1>2 DEF Numbered
<1> QED  BY <1>1, <1>3, SeqDef

\* The types of everything, with what they need.
TypeInv == OrdersInv /\ Publishing /\ TypeOK

\* The types hold at the start, ...
LEMMA TypeInit == Init => TypeInv
<1> SUFFICES ASSUME Init PROVE TypeInv
  OBVIOUS
<1>1. Publishing
  BY DEF Init, Publishing, Idle
<1>2. NoLevels \in Levels
  BY DEF NoLevels, Levels
<1>3. NoSnapshot \in Snapshot /\ Idle \in Thread /\ NewClient \in Client
  BY <1>2 DEF NoSnapshot, Snapshot, Idle, Thread, NewClient, Client
<1>4. book \in Book /\ triggers \in Seq(Trigger) /\ tradeIds \in Nat
  BY OrdersInit DEF OrdersInv, SoundBook, Findable, BookOK
<1>5. TypeOK
  BY <1>3, <1>4 DEF Init, TypeOK
<1> QED  BY <1>1, <1>5, OrdersInit DEF TypeInv

\* A trade with its number.
LEMMA StampType ==
  ASSUME NEW S, NEW s \in Seq(S), s # << >>, NEW x \in S
  PROVE  [s EXCEPT ![1] = x] \in Seq(S)
<1>1. 1 \in 1 .. Len(s)
  OBVIOUS
<1> QED  BY <1>1, ExceptSeq

\* While a thread makes its callbacks, it has a trade in hand.
LEMMA NotifyingType ==
  ASSUME NEW r \in Thread, NEW list \in Seq(Published), NEW callbacks \in Seq(Clients)
  PROVE  [r EXCEPT !.trades = list, !.pc = "notify", !.callbacks = callbacks] \in Thread
<1>1. ASSUME NEW x \in Thread
      PROVE  /\ [x EXCEPT !.trades = list] \in Thread
             /\ [x EXCEPT !.pc = "notify"] \in Thread
             /\ [x EXCEPT !.callbacks = callbacks] \in Thread
  BY DEF Thread
<1>2. [r EXCEPT !.trades = list, !.pc = "notify", !.callbacks = callbacks]
        = [[[r EXCEPT !.trades = list] EXCEPT !.pc = "notify"] EXCEPT !.callbacks = callbacks]
  OBVIOUS
<1> QED  BY <1>1, <1>2

\* The metric counters.
Counters == [received : Nat, cancelled : Nat, matched : Nat, executed : Nat]

\* One more of something.
LEMMA CountersType ==
  ASSUME NEW m \in Counters, NEW n \in Nat
  PROVE  /\ [m EXCEPT !.executed = n] \in Counters
         /\ [m EXCEPT !.cancelled = n] \in Counters
BY DEF Counters

\* ... and every step keeps them.
LEMMA TypeStep ==
  ASSUME TypeInv, [Next]_vars
  PROVE  TypeOK'
<1>0. OrdersInv' /\ TypeOK /\ Publishing /\ OrdersInv
  BY OrdersStep DEF TypeInv
<1>1. book' \in Book /\ triggers' \in Seq(Trigger) /\ tradeIds' \in Nat
  BY <1>0 DEF OrdersInv, SoundBook, Findable, BookOK
<1> DEFINE Rest1 == /\ tradeSeq \in Nat /\ history \in Seq(Published)
                    /\ marketDataSeq \in Nat /\ lastSnapshot \in Snapshot
           Rest2 == /\ subscribers \in [market : Seq(Clients), trades : Seq(Clients)]
                    /\ client \in [Clients -> Client]
           Rest3 == metrics \in [received : Nat, cancelled : Nat, matched : Nat, executed : Nat]
           Rest4 == thr \in [Threads -> Thread]
<1>2. Rest1 /\ Rest2 /\ Rest3 /\ Rest4
  BY <1>0 DEF TypeOK
<1>3. Depth(book) \in Levels
  BY <1>0, DepthType DEF OrdersInv, SoundBook, Findable
<1>4. SUFFICES Rest1' /\ Rest2' /\ Rest3' /\ Rest4'
  BY <1>1 DEF TypeOK
<1> DEFINE Pcs == {"idle", "publish", "notify", "read", "diff", "snapshot", "send"}
<1>5. ASSUME NEW t \in Threads, NEW pc \in Pcs, NEW trades \in Seq(Published)
      PROVE  [thr EXCEPT ![t].pc = pc, ![t].trades = trades] \in [Threads -> Thread]
  BY <1>2, ZenonT(30) DEF Thread
<1>6. ASSUME NEW t \in Threads, NEW pc \in Pcs, NEW trades \in Seq(Published)
      PROVE  [thr EXCEPT ![t].trades = trades, ![t].pc = pc] \in [Threads -> Thread]
  BY <1>2, ZenonT(30) DEF Thread
<1>7. ASSUME NEW t \in Threads, thr[t].trades # << >>,
             NEW trade \in Published, NEW callbacks \in Seq(Clients)
      PROVE  [thr EXCEPT ![t].trades[1] = trade, ![t].pc = "notify", ![t].callbacks = callbacks]
                \in [Threads -> Thread]
  <2>1. [thr[t].trades EXCEPT ![1] = trade] \in Seq(Published)
    BY <1>2, <1>7, StampType DEF Thread
  <2> DEFINE list == [thr[t].trades EXCEPT ![1] = trade]
             next == [thr[t] EXCEPT !.trades = list, !.pc = "notify", !.callbacks = callbacks]
  <2>2. next \in Thread
    <3>1. thr[t] \in Thread
      BY <1>2
    <3> QED  BY <1>7, <2>1, <3>1, NotifyingType
  <2>3. [thr EXCEPT ![t].trades[1] = trade, ![t].pc = "notify", ![t].callbacks = callbacks]
          = [thr EXCEPT ![t] = next]
    BY <1>2 DEF Thread
  <2> HIDE DEF next
  <2> QED  BY <1>2, <2>2, <2>3
<1>11. ASSUME NEW t \in Threads, NEW o \in Submittable, SubmitOrder(t, o)
       PROVE  Rest1' /\ Rest2' /\ Rest3' /\ Rest4'
  <2> DEFINE d == ProcessOrder(book, o)
  <2>1. /\ metrics' = [metrics EXCEPT
                !.received = @ + 1,
                !.matched  = IF d.trades = << >> THEN @ ELSE @ + 1,
                !.executed = @ + Len(d.trades)]
        /\ thr' = [thr EXCEPT
                ![t].pc     = IF d.trades = << >> THEN "read" ELSE "publish",
                ![t].trades = Numbered(d.trades)]
        /\ UNCHANGED <<feedVars, subscribers, client>>
    BY <1>11, Zenon DEF SubmitOrder
  <2>2. o \in Order /\ (o.type = "LIMIT" => o.price \in Prices)
    BY SubmittableOK
  <2>3. BookOK(book) /\ OwnIds(book) /\ tradeIds \in Nat
    BY <1>0, SoundOwnIds DEF OrdersInv
  <2>4. d.trades \in Seq(PricedTrade)
    BY <2>2, <2>3, ProcessOrderOK
  <2> HIDE DEF d
  <2>5. Numbered(d.trades) \in Seq(Published) /\ Len(d.trades) \in Nat
    BY <2>3, <2>4, NumberedType, LenProperties
  <2>6. Rest4'
    <3>1. (IF d.trades = << >> THEN "read" ELSE "publish") \in Pcs
      OBVIOUS
    <3> HIDE DEF Pcs
    <3> QED  BY <1>5, <2>1, <2>5, <3>1
  <2>7. Rest3'
    <3>1. /\ metrics.received + 1 \in Nat /\ metrics.executed + Len(d.trades) \in Nat
          /\ (IF d.trades = << >> THEN metrics.matched ELSE metrics.matched + 1) \in Nat
      BY <1>2, <2>5, SMTT(30)
    <3>2. metrics' = [metrics EXCEPT !.received = @ + 1,
                          !.matched  = IF d.trades = << >> THEN @ ELSE @ + 1,
                          !.executed = @ + Len(d.trades)]
      BY <2>1
    <3> QED  BY ONLY <1>2, <3>1, <3>2
  <2>8. Rest1' /\ Rest2'
    <3>1. UNCHANGED <<tradeSeq, history, marketDataSeq, lastSnapshot, subscribers, client>>
      BY <2>1 DEF feedVars
    <3> QED  BY ONLY <1>2, <3>1
  <2> HIDE DEF Rest1, Rest2, Rest3, Rest4
  <2> QED  BY ONLY <2>6, <2>7, <2>8
<1>12. ASSUME NEW t \in Threads, NEW o \in SubmittableTriggers, SubmitTrigger(t, o)
       PROVE  Rest1' /\ Rest2' /\ Rest3' /\ Rest4'
  BY <1>2, <1>12, SMTT(30) DEF SubmitTrigger, feedVars
<1>13. ASSUME NEW t \in Threads, NEW id \in Ids, CancelTheOrder(t, id)
       PROVE  Rest1' /\ Rest2' /\ Rest3' /\ Rest4'
  <2>1. /\ metrics' = [metrics EXCEPT !.cancelled = @ + 1]
        /\ UNCHANGED <<tradeSeq, history, marketDataSeq, lastSnapshot, subscribers, client>>
        /\ thr' = [thr EXCEPT ![t].pc = "read"]
    BY <1>13, Zenon DEF CancelTheOrder, Goto, feedVars
  <2>2. Rest4'
    BY <1>2, <2>1, Zenon DEF Thread
  <2>3. Rest3'
    <3>1. metrics.cancelled + 1 \in Nat
      BY <1>2
    <3> QED  BY <1>2, <2>1, <3>1, CountersType DEF Counters
  <2> QED  BY <1>2, <2>1, <2>2, <2>3
<1>14. ASSUME NEW t \in Threads, NEW id \in Ids, NEW q \in ModifyQtys, ModifyTheOrder(t, id, q)
       PROVE  Rest1' /\ Rest2' /\ Rest3' /\ Rest4'
  BY <1>2, <1>14, Zenon DEF ModifyTheOrder, Goto, feedVars, Thread
<1>15. ASSUME NEW t \in Threads, NEW c \in Clients, SubscribeToTrades(t, c)
       PROVE  Rest1' /\ Rest2' /\ Rest3' /\ Rest4'
  <2>1. /\ subscribers' = [subscribers EXCEPT !.trades = Append(@, c)]
        /\ client' = [client EXCEPT ![c].since = tradeSeq]
        /\ UNCHANGED <<feedVars, metrics, thr>>
    BY <1>15 DEF SubscribeToTrades
  <2>2. Append(subscribers.trades, c) \in Seq(Clients)
    BY <1>2, AppendProperties
  <2>3. client' \in [Clients -> Client]
    BY <1>2, <2>1 DEF Client
  <2> QED  BY <1>2, <2>1, <2>2, <2>3 DEF feedVars
<1>16. ASSUME NEW t \in Threads, NEW c \in Clients, SubscribeToMarketData(t, c)
       PROVE  Rest1' /\ Rest2' /\ Rest3' /\ Rest4'
  <2>1. /\ subscribers' = [subscribers EXCEPT !.market = Append(@, c)]
        /\ thr' = [thr EXCEPT ![t].pc = "snapshot", ![t].callbacks = <<c>>]
        /\ UNCHANGED <<feedVars, metrics, client>>
    BY <1>16 DEF SubscribeToMarketData
  <2>2. Append(subscribers.market, c) \in Seq(Clients) /\ <<c>> \in Seq(Clients)
    BY <1>2, AppendProperties
  <2>3. Rest4'
    BY <1>2, <2>1, <2>2, ZenonT(30) DEF Thread
  <2> QED  BY <1>2, <2>1, <2>2, <2>3 DEF feedVars
<1>17. ASSUME NEW t \in Threads, PublishTrade(t)
       PROVE  Rest1' /\ Rest2' /\ Rest3' /\ Rest4'
  <2> DEFINE trade == [Head(thr[t].trades) EXCEPT !.seqNum = tradeSeq + 1]
  <2>1. /\ tradeSeq' = tradeSeq + 1
        /\ history' = IF Len(history) = HistoryCap THEN Append(Tail(history), trade)
                      ELSE Append(history, trade)
        /\ thr' = [thr EXCEPT ![t].trades[1] = trade, ![t].pc = "notify",
                              ![t].callbacks = subscribers.trades]
        /\ metrics' = [metrics EXCEPT !.executed = @ + 1]
        /\ UNCHANGED <<marketDataSeq, lastSnapshot, subscribers, client>>
        /\ thr[t].pc = "publish"
    BY <1>17, Zenon DEF PublishTrade
  <2>2. thr[t].trades \in Seq(Published) /\ thr[t].trades # << >>
    BY <1>0, <1>2, <2>1, Zenon DEF Thread, Publishing
  <2>3. trade \in Published
    <3>1. Head(thr[t].trades) \in Published
      BY ONLY <2>2
    <3>2. tradeSeq + 1 \in Nat
      BY <1>2
    <3> QED  BY ONLY <3>1, <3>2 DEF Published
  <2> HIDE DEF trade
  <2>4. Append(history, trade) \in Seq(Published)
    BY <1>2, <2>3, AppendProperties
  <2>7. Rest4'
    BY <1>2, <1>7, <2>1, <2>2, <2>3, ZenonT(30)
  <2>8. /\ tradeSeq' \in Nat /\ marketDataSeq' \in Nat /\ lastSnapshot' \in Snapshot
        /\ Rest2' /\ Rest3'
    <3>1. /\ metrics' = [metrics EXCEPT !.executed = @ + 1] /\ tradeSeq' = tradeSeq + 1
          /\ UNCHANGED <<marketDataSeq, lastSnapshot, subscribers, client>>
      BY <2>1
    <3>2. tradeSeq' \in Nat /\ marketDataSeq' \in Nat /\ lastSnapshot' \in Snapshot
      BY ONLY <1>2, <3>1
    <3>3. Rest2'
      BY ONLY <1>2, <3>1
    <3>4. Rest3'
      <4>1. metrics' = [metrics EXCEPT !.executed = @ + 1]
        BY <3>1
      <4>2. metrics.executed + 1 \in Nat
        BY <1>2
      <4> QED  BY <1>2, <4>1, <4>2, CountersType DEF Counters
    <3> QED  BY <3>2, <3>3, <3>4
  <2>5. CASE Len(history) = HistoryCap
    <3>1. history # << >>
      BY <1>2, <2>5, EngineAssumption
    <3>2. Tail(history) \in Seq(Published)
      BY <1>2, <3>1, TailOfMore
    <3>3. history' \in Seq(Published)
      BY <2>1, <2>3, <2>5, <3>2, AppendProperties
    <3> QED  BY <2>7, <2>8, <3>3
  <2>6. CASE Len(history) # HistoryCap
    <3>1. history' \in Seq(Published)
      BY <2>1, <2>4, <2>6
    <3> QED  BY <2>7, <2>8, <3>1
  <2> QED  BY <2>5, <2>6, Zenon
<1>18. ASSUME NEW t \in Threads, NotifyTrade(t)
       PROVE  Rest1' /\ Rest2' /\ Rest3' /\ Rest4'
  <2> DEFINE c == Head(thr[t].callbacks)
  <2>1. /\ client' = [client EXCEPT ![c].trades = Append(@, Head(thr[t].trades).seqNum)]
        /\ thr' = [thr EXCEPT ![t].callbacks = Tail(@)]
        /\ UNCHANGED <<feedVars, subscribers, metrics>>
        /\ thr[t].pc = "notify" /\ thr[t].callbacks # << >>
    BY <1>18, Zenon DEF NotifyTrade
  <2>2. /\ thr[t].trades \in Seq(Published) /\ thr[t].trades # << >>
        /\ thr[t].callbacks \in Seq(Clients)
    BY <1>0, <1>2, <2>1 DEF Thread, Publishing
  <2>3. Head(thr[t].trades).seqNum \in Nat
    <3>1. Head(thr[t].trades) \in Published
      BY ONLY <2>2
    <3> QED  BY <3>1 DEF Published
  <2>4. c \in Clients /\ Tail(thr[t].callbacks) \in Seq(Clients)
    BY <2>1, <2>2, TailOfMore
  <2> HIDE DEF c
  <2>5. Append(client[c].trades, Head(thr[t].trades).seqNum) \in Seq(Nat)
    BY <1>2, <2>3, <2>4, AppendProperties DEF Client
  <2>6. client' \in [Clients -> Client]
    BY <1>2, <2>1, <2>4, <2>5, ZenonT(30) DEF Client
  <2>7. Rest4'
    BY <1>2, <2>1, <2>4, Zenon DEF Thread
  <2> QED  BY <1>2, <2>1, <2>6, <2>7 DEF feedVars
<1>19. ASSUME NEW t \in Threads, CheckTriggers(t)
       PROVE  Rest1' /\ Rest2' /\ Rest3' /\ Rest4'
  <2>1. /\ thr' = [thr EXCEPT ![t].trades = Tail(@),
                   ![t].pc = IF Len(thr[t].trades) = 1 THEN "read" ELSE "publish"]
        /\ UNCHANGED <<feedVars, subscribers, metrics, client>>
        /\ thr[t].pc = "notify"
    BY <1>19 DEF CheckTriggers
  <2>2. Tail(thr[t].trades) \in Seq(Published)
    BY <1>0, <1>2, <2>1, TailOfMore DEF Thread, Publishing
  <2>3. Rest4'
    <3>1. (IF Len(thr[t].trades) = 1 THEN "read" ELSE "publish") \in Pcs
      OBVIOUS
    <3> HIDE DEF Pcs
    <3> QED  BY <1>6, <2>1, <2>2, <3>1
  <2> QED  BY <1>2, <2>1, <2>3, Zenon DEF feedVars
<1>20. ASSUME NEW t \in Threads, GetMarketData(t)
       PROVE  Rest1' /\ Rest2' /\ Rest3' /\ Rest4'
  <2>1. /\ thr' = [thr EXCEPT ![t].pc = "diff", ![t].update = Depth(book)]
        /\ UNCHANGED <<feedVars, subscribers, metrics, client>>
    BY <1>20 DEF GetMarketData
  <2>2. Rest4'
    BY <1>2, <1>3, <2>1, Zenon DEF Thread
  <2> QED  BY <1>2, <2>1, <2>2 DEF feedVars
<1>21. ASSUME NEW t \in Threads, PublishMarketData(t)
       PROVE  Rest1' /\ Rest2' /\ Rest3' /\ Rest4'
  <2>1. /\ marketDataSeq' = marketDataSeq + 1
        /\ SendSnapshot(t) \/ SendIncrement(t) \/ SendNothing(t)
        /\ thr' = [thr EXCEPT ![t] = Idle]
        /\ UNCHANGED <<tradeSeq, history, subscribers, metrics>>
    BY <1>21 DEF PublishMarketData
  <2>2. Idle \in Thread
    BY DEF Idle, Thread, NoLevels, Levels
  <2>3. Rest4' /\ marketDataSeq' \in Nat
    BY <1>2, <2>1, <2>2
  <2>4. thr[t].update \in Levels
    BY <1>2 DEF Thread
  <2>5. [seqNum |-> marketDataSeq + 1, depth |-> thr[t].update] \in Snapshot
    BY <1>2, <2>4 DEF Snapshot
  <2>6. CASE SendSnapshot(t)
    <3>1. client' = [c \in Clients |->
            IF c \in ToSet(subscribers.market)
            THEN [client[c] EXCEPT !.live = TRUE, !.levels = thr[t].update]
            ELSE client[c]]
      BY <2>6 DEF SendSnapshot
    <3>2. \A c \in Clients : client[c] \in Client
      BY <1>2
    <3>3. client' \in [Clients -> Client]
      BY <2>4, <3>1, <3>2 DEF Client
    <3> QED  BY <1>2, <2>1, <2>3, <2>5, <2>6, <3>3, Zenon DEF SendSnapshot
  <2>7. CASE SendIncrement(t)
    <3> DEFINE changes == Changes(lastSnapshot.depth, thr[t].update)
    <3>1. client' = [c \in Clients |->
            IF c \in ToSet(subscribers.market)
            THEN [client[c] EXCEPT !.levels = Apply(@, changes),
                                   !.gap = lastSnapshot.seqNum # marketDataSeq]
            ELSE client[c]]
      BY <2>7, Zenon DEF SendIncrement
    <3>2. \A c \in Clients : client[c] \in Client
      BY <1>2
    <3>3. \A c \in Clients : Apply(client[c].levels, changes) \in Levels
      BY <2>4, <3>2, ApplyType DEF Client
    <3> HIDE DEF changes
    <3>4. client' \in [Clients -> Client]
      BY <3>1, <3>2, <3>3 DEF Client
    <3> QED  BY <1>2, <2>1, <2>3, <2>5, <2>7, <3>4, Zenon DEF SendIncrement
  <2>8. CASE SendNothing(t)
    BY <1>2, <2>1, <2>3, <2>8 DEF SendNothing
  <2> QED  BY <2>1, <2>6, <2>7, <2>8
<1>22. ASSUME NEW t \in Threads, ReadSnapshot(t)
       PROVE  Rest1' /\ Rest2' /\ Rest3' /\ Rest4'
  <2>1. /\ thr' = [thr EXCEPT ![t].pc = "send", ![t].update = Depth(book)]
        /\ UNCHANGED <<feedVars, subscribers, metrics, client>>
    BY <1>22 DEF ReadSnapshot
  <2>2. Rest4'
    BY <1>2, <1>3, <2>1, ZenonT(30) DEF Thread
  <2> QED  BY <1>2, <2>1, <2>2, Zenon DEF feedVars
<1>23. ASSUME NEW t \in Threads, SendFirstSnapshot(t)
       PROVE  Rest1' /\ Rest2' /\ Rest3' /\ Rest4'
  <2>1. /\ client' = [client EXCEPT ![Head(thr[t].callbacks)] =
                         [@ EXCEPT !.live = TRUE, !.levels = thr[t].update]]
        /\ thr' = [thr EXCEPT ![t] = Idle]
        /\ UNCHANGED <<feedVars, subscribers, metrics>>
    BY <1>23 DEF SendFirstSnapshot
  <2>2. Idle \in Thread
    BY DEF Idle, Thread, NoLevels, Levels
  <2>3. thr[t].update \in Levels
    BY <1>2 DEF Thread
  <2>4. client' \in [Clients -> Client]
    BY <1>2, <2>1, <2>3, Zenon DEF Client
  <2> QED  BY <1>2, <2>1, <2>2, <2>4, Zenon DEF feedVars
<1>24. CASE UNCHANGED vars
  BY <1>2, <1>24 DEF vars, feedVars
<1> QED
  BY <1>11, <1>12, <1>13, <1>14, <1>15, <1>16, <1>17, <1>18, <1>19, <1>20, <1>21, <1>22, <1>23,
     <1>24 DEF Next, Call, InCall

\* The inductive invariant: the types, a sound book, and trades to publish.
THEOREM TypesHold == Spec => []TypeInv
<1>1. TypeInv /\ [Next]_vars => TypeInv'
  <2> SUFFICES ASSUME TypeInv, [Next]_vars PROVE TypeInv'
    OBVIOUS
  <2>1. OrdersInv'
    BY OrdersStep DEF TypeInv
  <2>2. Publishing'
    BY PublishingStep DEF TypeInv
  <2>3. TypeOK'
    BY TypeStep
  <2> QED  BY <2>1, <2>2, <2>3 DEF TypeInv
<1> QED  BY TypeInit, <1>1, PTL DEF Spec

\* The variables are of their types, whatever the threads do.
THEOREM TypeCorrect == Spec => []TypeOK
<1>1. TypeInv => TypeOK
  BY DEF TypeInv
<1> QED  BY <1>1, TypesHold, PTL

----------------------------------------------------------------------------
(* Differences of levels *)

\* f covers both sides and all prices.
IsLevels(f) == f = [side \in Sides |-> [p \in Prices |-> f[side][p]]]

\* What getMarketData returns covers both sides and all prices.
LEMMA DepthShape ==
  ASSUME NEW b
  PROVE  IsLevels(Depth(b))
BY DEF IsLevels, Depth

\* The levels of an empty book.
LEMMA DepthOfEmpty == Depth(EmptyBook) = NoLevels
<1> DEFINE prices(side) == {EmptyBook.orders[r].price :
                               r \in {x \in EmptyBook.linked : EmptyBook.orders[x].side = side}}
<1>1. \A side : prices(side) = {}
  BY DEF EmptyBook
<1> QED  BY <1>1, Zenon DEF Depth, NoLevels

\* A client that holds the old levels and applies the changes holds the new.
LEMMA ApplyChanges ==
  ASSUME NEW old, NEW new, IsLevels(old), IsLevels(new)
  PROVE  Apply(old, Changes(old, new)) = new
<1>1. ASSUME NEW side \in Sides
      PROVE  Apply(old, Changes(old, new))[side] = new[side]
  BY DEF IsLevels, Apply, Changes
<1>2. new = [side \in Sides |-> new[side]]
  BY DEF IsLevels
<1> QED  BY <1>1, <1>2 DEF Apply

----------------------------------------------------------------------------
(* The market data feed, with one thread *)

\* As the listener calls it: one worker runs the io_context (listener.cpp:19-30).
OneThread == \E t : Threads = {t}

\* The fields that the feed needs are there.
Fields ==
    /\ DOMAIN thr = Threads
    /\ \A t \in Threads : DOMAIN thr[t] = {"pc", "trades", "callbacks", "update"}
    /\ DOMAIN client = Clients
    /\ \A c \in Clients : DOMAIN client[c] = {"live", "levels", "gap", "trades", "since"}
    /\ DOMAIN subscribers = {"market", "trades"} /\ subscribers.market \in Seq(Clients)
    /\ marketDataSeq \in Nat
    /\ IsLevels(lastSnapshot.depth)

\* Live clients hold what was sent last.
InStep == \A c \in Clients : client[c].live => /\ client[c].levels = lastSnapshot.depth
                                                /\ c \in ToSet(subscribers.market)

\* What was sent last is the book, except while a call is on its way to publish.
SentOrComing ==
    \A t \in Threads :
        /\ thr[t].pc \in {"idle", "publish", "notify", "read", "diff", "snapshot", "send"}
        /\ thr[t].pc \in {"idle", "snapshot", "send"} => lastSnapshot.depth = Depth(book)
        /\ thr[t].pc \in {"diff", "send"} => thr[t].update = Depth(book)
        /\ thr[t].pc \in {"snapshot", "send"}
             => Head(thr[t].callbacks) \in ToSet(subscribers.market)

\* The inductive invariant behind FeedFollowsBook.
FeedInv == Fields /\ InStep /\ SentOrComing

\* It holds of the new engine.
LEMMA FeedInit == Init => FeedInv
<1> SUFFICES ASSUME Init PROVE FeedInv
  OBVIOUS
<1>1. Depth(book) = NoLevels
  BY DepthOfEmpty DEF Init
<1>2. Fields
  BY DEF Init, Fields, Idle, NewClient, NoSnapshot, NoLevels, IsLevels
<1>3. InStep
  BY DEF Init, InStep, NewClient
<1>4. SentOrComing
  BY <1>1 DEF Init, SentOrComing, Idle, NoSnapshot
<1> QED  BY <1>2, <1>3, <1>4 DEF FeedInv

\* A subscription keeps those there are.
LEMMA SubscribersKept ==
  ASSUME NEW s \in Seq(Clients), NEW c \in Clients
  PROVE  /\ Append(s, c) \in Seq(Clients)
         /\ ToSet(Append(s, c)) = ToSet(s) \cup {c}
<1>1. /\ Append(s, c) \in Seq(Clients) /\ DOMAIN Append(s, c) = DOMAIN s \cup {Len(s) + 1}
      /\ Append(s, c)[Len(s) + 1] = c
      /\ \A i \in DOMAIN s : Append(s, c)[i] = s[i]
  OBVIOUS
<1> QED  BY <1>1 DEF ToSet

\* The steps that neither read nor send market data.
LEMMA FeedApart ==
  ASSUME FeedInv, OneThread, NEW t \in Threads,
         UNCHANGED <<marketDataSeq, lastSnapshot, subscribers>>,
         DOMAIN client' = Clients,
         \A c \in Clients : /\ DOMAIN client'[c] = DOMAIN client[c]
                            /\ client'[c].live = client[c].live
                            /\ client'[c].levels = client[c].levels,
         DOMAIN thr' = Threads, DOMAIN thr'[t] = DOMAIN thr[t],
         \/ thr'[t].pc \in {"publish", "notify", "read"}
         \/ thr'[t].pc = "idle" /\ thr[t].pc = "idle" /\ book' = book
  PROVE  FeedInv'
<1>1. Fields'
  BY DEF FeedInv, Fields, OneThread
<1>2. InStep'
  BY DEF FeedInv, InStep
<1>3. SentOrComing'
  BY DEF FeedInv, SentOrComing, OneThread, Fields
<1> QED  BY <1>1, <1>2, <1>3 DEF FeedInv

\* Every step of the one thread keeps the invariant.
LEMMA FeedStep ==
  ASSUME FeedInv, OneThread, [Next]_vars
  PROVE  FeedInv'
<1>1. ASSUME NEW t \in Threads, NEW o \in Submittable, SubmitOrder(t, o)
      PROVE  FeedInv'
  <2>1. /\ UNCHANGED <<feedVars, subscribers, client>>
        /\ DOMAIN thr' = DOMAIN thr /\ DOMAIN thr'[t] = DOMAIN thr[t]
        /\ thr'[t].pc \in {"publish", "read"}
    BY <1>1 DEF SubmitOrder, FeedInv, Fields
  <2> QED  BY <2>1, FeedApart DEF feedVars, FeedInv, Fields
<1>2. ASSUME NEW t \in Threads, NEW o \in SubmittableTriggers, SubmitTrigger(t, o)
      PROVE  FeedInv'
  <2>1. UNCHANGED <<book, feedVars, subscribers, client, thr>> /\ thr[t].pc = "idle"
    BY <1>2 DEF SubmitTrigger
  <2> QED  BY <2>1, FeedApart DEF feedVars, FeedInv, Fields
<1>3. ASSUME NEW t \in Threads, NEW id \in Ids, CancelTheOrder(t, id)
      PROVE  FeedInv'
  <2>1. /\ UNCHANGED <<feedVars, subscribers, client>>
        /\ thr' = [thr EXCEPT ![t].pc = "read"]
    BY <1>3 DEF CancelTheOrder, Goto
  <2>2. DOMAIN thr' = DOMAIN thr /\ DOMAIN thr'[t] = DOMAIN thr[t] /\ thr'[t].pc = "read"
    BY <2>1 DEF FeedInv, Fields
  <2> QED  BY <2>1, <2>2, FeedApart DEF feedVars, FeedInv, Fields
<1>4. ASSUME NEW t \in Threads, NEW id \in Ids, NEW q \in ModifyQtys, ModifyTheOrder(t, id, q)
      PROVE  FeedInv'
  <2>1. /\ UNCHANGED <<feedVars, subscribers, client>>
        /\ thr' = [thr EXCEPT ![t].pc = "read"]
    BY <1>4 DEF ModifyTheOrder, Goto
  <2>2. DOMAIN thr' = DOMAIN thr /\ DOMAIN thr'[t] = DOMAIN thr[t] /\ thr'[t].pc = "read"
    BY <2>1 DEF FeedInv, Fields
  <2> QED  BY <2>1, <2>2, FeedApart DEF feedVars, FeedInv, Fields
<1>5. ASSUME NEW t \in Threads, NEW c \in Clients, SubscribeToTrades(t, c)
      PROVE  FeedInv'
  <2>1. /\ UNCHANGED <<book, feedVars, thr>>
        /\ subscribers' = [subscribers EXCEPT !.trades = Append(@, c)]
        /\ client' = [client EXCEPT ![c].since = tradeSeq]
    BY <1>5 DEF SubscribeToTrades, orderVars
  <2>2. DOMAIN subscribers' = DOMAIN subscribers /\ subscribers'.market = subscribers.market
    BY <2>1 DEF FeedInv, Fields
  <2>6. /\ DOMAIN client' = Clients
        /\ \A d \in Clients : /\ DOMAIN client'[d] = DOMAIN client[d]
                              /\ client'[d].live = client[d].live
                              /\ client'[d].levels = client[d].levels
    BY <2>1 DEF FeedInv, Fields
  <2>3. Fields'
    BY <2>1, <2>2, <2>6 DEF FeedInv, Fields, feedVars
  <2>4. InStep'
    BY <2>1, <2>2, <2>6 DEF FeedInv, InStep, feedVars
  <2>5. SentOrComing'
    BY <2>1, <2>2 DEF FeedInv, SentOrComing, feedVars
  <2> QED  BY <2>3, <2>4, <2>5 DEF FeedInv
<1>6. ASSUME NEW t \in Threads, NEW c \in Clients, SubscribeToMarketData(t, c)
      PROVE  FeedInv'
  <2>1. /\ UNCHANGED <<book, feedVars, client>>
        /\ subscribers' = [subscribers EXCEPT !.market = Append(@, c)]
        /\ thr' = [thr EXCEPT ![t].pc = "snapshot", ![t].callbacks = <<c>>]
        /\ thr[t].pc = "idle"
    BY <1>6 DEF SubscribeToMarketData, orderVars
  <2>2. /\ DOMAIN subscribers' = DOMAIN subscribers
        /\ subscribers'.market \in Seq(Clients)
        /\ ToSet(subscribers'.market) = ToSet(subscribers.market) \cup {c}
    BY <2>1, SubscribersKept DEF FeedInv, Fields
  <2>3. /\ DOMAIN thr' = DOMAIN thr /\ DOMAIN thr'[t] = DOMAIN thr[t]
        /\ thr'[t].pc = "snapshot" /\ thr'[t].callbacks = <<c>>
        /\ \A u \in Threads : u = t
    BY <2>1 DEF FeedInv, Fields, OneThread
  <2>4. Fields'
    BY <2>1, <2>2, <2>3 DEF FeedInv, Fields, feedVars
  <2>5. InStep'
    BY <2>1, <2>2 DEF FeedInv, InStep, feedVars
  <2>6. SentOrComing'
    <3>1. Head(<<c>>) = c
      OBVIOUS
    <3> QED  BY <2>1, <2>2, <2>3, <3>1 DEF FeedInv, SentOrComing, feedVars
  <2> QED  BY <2>4, <2>5, <2>6 DEF FeedInv
<1>7. ASSUME NEW t \in Threads, PublishTrade(t)
      PROVE  FeedInv'
  <2>1. UNCHANGED <<marketDataSeq, lastSnapshot, subscribers, client>>
    BY <1>7 DEF PublishTrade
  <2>2. DOMAIN thr' = DOMAIN thr /\ DOMAIN thr'[t] = DOMAIN thr[t] /\ thr'[t].pc = "notify"
    BY <1>7 DEF FeedInv, Fields, PublishTrade
  <2> QED  BY <2>1, <2>2, FeedApart DEF FeedInv, Fields
<1>8. ASSUME NEW t \in Threads, NotifyTrade(t)
      PROVE  FeedInv'
  <2>1. UNCHANGED <<feedVars, subscribers>> /\ thr[t].pc = "notify"
    BY <1>8 DEF NotifyTrade
  <2>2. DOMAIN thr' = DOMAIN thr /\ DOMAIN thr'[t] = DOMAIN thr[t] /\ thr'[t].pc = "notify"
    BY <1>8 DEF FeedInv, Fields, NotifyTrade
  <2>3. /\ DOMAIN client' = Clients
        /\ \A c \in Clients : /\ DOMAIN client'[c] = DOMAIN client[c]
                              /\ client'[c].live = client[c].live
                              /\ client'[c].levels = client[c].levels
    BY <1>8 DEF FeedInv, Fields, NotifyTrade
  <2> QED  BY <2>1, <2>2, <2>3, FeedApart DEF FeedInv, Fields, feedVars
<1>9. ASSUME NEW t \in Threads, CheckTriggers(t)
      PROVE  FeedInv'
  <2>1. UNCHANGED <<feedVars, subscribers, client>>
    BY <1>9 DEF CheckTriggers
  <2>2. thr' = [thr EXCEPT ![t].trades = Tail(@),
                   ![t].pc = IF Len(thr[t].trades) = 1 THEN "read" ELSE "publish"]
    BY <1>9 DEF CheckTriggers
  <2>3. /\ DOMAIN thr' = DOMAIN thr /\ DOMAIN thr'[t] = DOMAIN thr[t]
        /\ thr'[t].pc \in {"read", "publish"}
    BY <2>2 DEF FeedInv, Fields
  <2> QED  BY <2>1, <2>3, FeedApart DEF FeedInv, Fields, feedVars
<1>10. ASSUME NEW t \in Threads, GetMarketData(t)
       PROVE  FeedInv'
  <2>1. /\ UNCHANGED <<book, feedVars, subscribers, client>>
        /\ thr' = [thr EXCEPT ![t].pc = "diff", ![t].update = Depth(book)]
    BY <1>10 DEF GetMarketData, orderVars
  <2>2. /\ DOMAIN thr' = DOMAIN thr /\ DOMAIN thr'[t] = DOMAIN thr[t]
        /\ thr'[t].pc = "diff" /\ thr'[t].update = Depth(book)
        /\ \A u \in Threads : u = t
    BY <2>1 DEF FeedInv, Fields, OneThread
  <2>3. Fields'
    BY <2>1, <2>2 DEF FeedInv, Fields, feedVars
  <2>4. InStep'
    BY <2>1 DEF FeedInv, InStep, feedVars
  <2>5. SentOrComing'
    BY <2>1, <2>2 DEF FeedInv, SentOrComing, feedVars
  <2> QED  BY <2>3, <2>4, <2>5 DEF FeedInv
<1>11. ASSUME NEW t \in Threads, PublishMarketData(t)
       PROVE  FeedInv'
  <2> DEFINE depth == Depth(book)
  <2>1. /\ UNCHANGED <<book, subscribers>> /\ marketDataSeq' = marketDataSeq + 1
        /\ thr' = [thr EXCEPT ![t] = Idle] /\ thr[t].pc = "diff"
        /\ SendSnapshot(t) \/ SendIncrement(t) \/ SendNothing(t)
    BY <1>11 DEF PublishMarketData, orderVars
  <2>2. /\ DOMAIN thr' = Threads /\ thr'[t] = Idle /\ \A u \in Threads : u = t
        /\ DOMAIN client = Clients
    BY <2>1 DEF FeedInv, Fields, OneThread
  <2>3. thr[t].update = depth /\ IsLevels(depth)
    BY <2>1, DepthShape DEF FeedInv, SentOrComing
  <2>4. /\ lastSnapshot'.depth = depth
        /\ DOMAIN client' = Clients
        /\ \A c \in Clients :
              /\ DOMAIN client'[c] = DOMAIN client[c]
              /\ client'[c].live => /\ client'[c].levels = depth
                                     /\ c \in ToSet(subscribers.market)
    <3> HIDE DEF depth
    <3>1. CASE SendSnapshot(t)
      BY <2>2, <2>3, <3>1 DEF SendSnapshot, FeedInv, Fields, InStep
    <3>2. CASE SendIncrement(t)
      <4>1. Apply(lastSnapshot.depth, Changes(lastSnapshot.depth, depth)) = depth
        BY <2>3, ApplyChanges DEF FeedInv, Fields
      <4> QED  BY <2>2, <2>3, <3>2, <4>1 DEF SendIncrement, FeedInv, Fields, InStep
    <3>3. CASE SendNothing(t)
      BY <2>2, <2>3, <3>3 DEF SendNothing, FeedInv, Fields, InStep
    <3> QED  BY <2>1, <3>1, <3>2, <3>3
  <2>5. Fields'
    BY <2>1, <2>2, <2>3, <2>4 DEF FeedInv, Fields, Idle
  <2>6. InStep'
    BY <2>1, <2>4 DEF InStep
  <2>7. SentOrComing'
    BY <2>1, <2>2, <2>4 DEF SentOrComing, Idle
  <2> QED  BY <2>5, <2>6, <2>7 DEF FeedInv
<1>12. ASSUME NEW t \in Threads, ReadSnapshot(t)
       PROVE  FeedInv'
  <2>1. /\ UNCHANGED <<book, feedVars, subscribers, client>> /\ thr[t].pc = "snapshot"
        /\ thr' = [thr EXCEPT ![t].pc = "send", ![t].update = Depth(book)]
    BY <1>12 DEF ReadSnapshot, orderVars
  <2>2. /\ DOMAIN thr' = DOMAIN thr /\ DOMAIN thr'[t] = DOMAIN thr[t]
        /\ thr'[t].pc = "send" /\ thr'[t].update = Depth(book)
        /\ thr'[t].callbacks = thr[t].callbacks
        /\ \A u \in Threads : u = t
    BY <2>1 DEF FeedInv, Fields, OneThread
  <2>3. Fields'
    BY <2>1, <2>2 DEF FeedInv, Fields, feedVars
  <2>4. InStep'
    BY <2>1 DEF FeedInv, InStep, feedVars
  <2>5. SentOrComing'
    BY <2>1, <2>2 DEF FeedInv, SentOrComing, feedVars
  <2> QED  BY <2>3, <2>4, <2>5 DEF FeedInv
<1>13. ASSUME NEW t \in Threads, SendFirstSnapshot(t)
       PROVE  FeedInv'
  <2>1. /\ UNCHANGED <<book, feedVars, subscribers>> /\ thr[t].pc = "send"
        /\ thr' = [thr EXCEPT ![t] = Idle]
        /\ client' = [client EXCEPT ![Head(thr[t].callbacks)] =
                        [@ EXCEPT !.live = TRUE, !.levels = thr[t].update]]
    BY <1>13 DEF SendFirstSnapshot, orderVars
  <2>2. /\ DOMAIN thr' = Threads /\ thr'[t] = Idle /\ \A u \in Threads : u = t
    BY <2>1 DEF FeedInv, Fields, OneThread
  <2>3. /\ thr[t].update = Depth(book) /\ lastSnapshot.depth = Depth(book)
        /\ Head(thr[t].callbacks) \in ToSet(subscribers.market)
    BY <2>1 DEF FeedInv, SentOrComing
  <2>4. /\ DOMAIN client' = Clients
        /\ \A c \in Clients :
              /\ DOMAIN client'[c] = DOMAIN client[c]
              /\ client'[c].live => /\ client'[c].levels = lastSnapshot.depth
                                     /\ c \in ToSet(subscribers.market)
    BY <2>1, <2>3 DEF FeedInv, Fields, InStep
  <2>5. Fields'
    BY <2>1, <2>2, <2>4 DEF FeedInv, Fields, Idle, feedVars
  <2>6. InStep'
    BY <2>1, <2>4 DEF InStep, feedVars
  <2>7. SentOrComing'
    BY <2>1, <2>2, <2>3 DEF SentOrComing, Idle, feedVars
  <2> QED  BY <2>5, <2>6, <2>7 DEF FeedInv
<1>14. CASE UNCHANGED vars
  BY <1>14 DEF vars, orderVars, feedVars, FeedInv, Fields, InStep, SentOrComing
<1> QED
  BY <1>1, <1>2, <1>3, <1>4, <1>5, <1>6, <1>7, <1>8, <1>9, <1>10, <1>11, <1>12, <1>13, <1>14
     DEF Next, Call, InCall

\* With one thread, as the listener has, a client that applies every increment
\* holds the top of the book whenever no call is in progress.
THEOREM FeedFollows == OneThread => (Spec => []FeedFollowsBook)
<1> SUFFICES ASSUME OneThread PROVE Spec => []FeedFollowsBook
  OBVIOUS
<1>1. Init => FeedInv
  BY FeedInit
<1>2. FeedInv /\ [Next]_vars => FeedInv'
  BY FeedStep
<1>3. FeedInv => FeedFollowsBook
  <2> SUFFICES ASSUME FeedInv, Quiet, NEW c \in Clients, client[c].live
               PROVE  client[c].levels = Depth(book)
    BY DEF FeedFollowsBook
  <2>1. \E t \in Threads : thr[t].pc = "idle"
    BY DEF OneThread, Quiet
  <2>2. lastSnapshot.depth = Depth(book)
    BY <2>1 DEF FeedInv, SentOrComing
  <2> QED  BY <2>2 DEF FeedInv, InStep
<1> QED  BY <1>1, <1>2, <1>3, PTL DEF Spec

----------------------------------------------------------------------------
(* The trade feed *)

\* Only publishTrade numbers a trade.
LEMMA OnlyPublishTrade ==
  ASSUME [Next]_vars, \A t \in Threads : ~PublishTrade(t)
  PROVE  tradeSeq' = tradeSeq /\ history' = history
<1>1. ASSUME NEW t \in Threads, Call(t)
      PROVE  tradeSeq' = tradeSeq /\ history' = history
  BY <1>1, Zenon DEF Call, SubmitOrder, SubmitTrigger, CancelTheOrder, ModifyTheOrder,
              SubscribeToTrades, SubscribeToMarketData, feedVars
<1>2. ASSUME NEW t \in Threads, InCall(t)
      PROVE  tradeSeq' = tradeSeq /\ history' = history
  <2>1. CASE CheckTriggers(t)
    BY <2>1 DEF CheckTriggers, feedVars
  <2> QED  BY <1>2, <2>1 DEF InCall, NotifyTrade, GetMarketData, PublishMarketData, ReadSnapshot,
              SendFirstSnapshot, feedVars
<1>3. CASE UNCHANGED vars
  BY <1>3 DEF vars, feedVars
<1> QED  BY <1>1, <1>2, <1>3 DEF Next

\* The minimum that HistoryIsTail is about.
LEMMA MinOfTwo ==
  ASSUME NEW a \in Nat, NEW b \in Nat
  PROVE  Min({a, b}) = IF a <= b THEN a ELSE b
BY DEF Min

\* What publishTrade does to the history.
LEMMA PublishTradeOK ==
  ASSUME TypeOK, Publishing, NEW t \in Threads, PublishTrade(t)
  PROVE  \E trade : /\ trade.seqNum = tradeSeq + 1
                    /\ trade.tradeId = Head(thr[t].trades).tradeId
                    /\ trade \in Published
                    /\ tradeSeq' = tradeSeq + 1
                    /\ history' = IF Len(history) = HistoryCap
                                  THEN Append(Tail(history), trade) ELSE Append(history, trade)
                    /\ thr' = [thr EXCEPT ![t].trades[1] = trade, ![t].pc = "notify",
                                          ![t].callbacks = subscribers.trades]
<1> DEFINE trade == [Head(thr[t].trades) EXCEPT !.seqNum = tradeSeq + 1]
<1>1. Head(thr[t].trades) \in Published /\ tradeSeq \in Nat
  BY SMTT(30) DEF TypeOK, Thread, Publishing, PublishTrade
<1>2. trade \in Published /\ trade.seqNum = tradeSeq + 1
      /\ trade.tradeId = Head(thr[t].trades).tradeId
  BY <1>1 DEF Published
<1> QED  BY <1>2, Zenon DEF PublishTrade

\* A trade that enters the history is its last; when it is full, the first goes.
LEMMA HistoryStep ==
  ASSUME TypeOK, Publishing, HistoryIsTail, [Next]_vars
  PROVE  HistoryIsTail'
<1>1. CASE \A t \in Threads : ~PublishTrade(t)
  BY <1>1, OnlyPublishTrade DEF HistoryIsTail
<1>2. ASSUME NEW t \in Threads, PublishTrade(t)
      PROVE  HistoryIsTail'
  <2>1. PICK trade : /\ trade.seqNum = tradeSeq + 1 /\ trade \in Published
                     /\ tradeSeq' = tradeSeq + 1
                     /\ history' = IF Len(history) = HistoryCap
                                   THEN Append(Tail(history), trade) ELSE Append(history, trade)
    BY <1>2, PublishTradeOK, ZenonT(30)
  <2>2. history \in Seq(Published) /\ tradeSeq \in Nat /\ HistoryCap \in Nat \ {0}
    BY EngineAssumption DEF TypeOK
  <2>3. /\ Len(history) = IF HistoryCap <= tradeSeq THEN HistoryCap ELSE tradeSeq
        /\ \A i \in DOMAIN history : history[i].seqNum = tradeSeq - Len(history) + i
    BY <2>2, MinOfTwo DEF HistoryIsTail
  <2> DEFINE n == Len(history)
  <2>4. n \in Nat /\ DOMAIN history = 1 .. n
    BY <2>2
  <2>5. CASE n = HistoryCap
    <3>1. /\ history # << >> /\ Tail(history) \in Seq(Published)
          /\ Len(Tail(history)) = n - 1
          /\ \A i \in 1 .. n - 1 : Tail(history)[i] = history[i + 1]
      BY <2>2, <2>5
    <3>2. history' = Append(Tail(history), trade)
      BY <2>1, <2>5
    <3>3. /\ Len(history') = n /\ DOMAIN history' = 1 .. n
          /\ \A i \in 1 .. n - 1 : history'[i] = history[i + 1]
          /\ history'[n] = trade
      BY <2>1, <2>2, <2>4, <2>5, <3>1, <3>2
    <3> HIDE DEF n
    <3>4. ASSUME NEW i \in 1 .. n
          PROVE  history'[i].seqNum = tradeSeq + 1 - n + i
      <4>1. CASE i = n
        BY ONLY <2>1, <2>2, <2>4, <3>3, <4>1
      <4>2. CASE i # n
        <5>1. i \in 1 .. n - 1 /\ i + 1 \in 1 .. n
          BY ONLY <2>4, <3>4, <4>2
        <5>2. history[i + 1].seqNum = tradeSeq - n + (i + 1)
          BY ONLY <2>3, <2>4, <5>1 DEF n
        <5>3. history'[i] = history[i + 1]
          BY ONLY <3>3, <5>1
        <5> QED  BY ONLY <2>2, <2>4, <5>1, <5>2, <5>3
      <4> QED  BY <4>1, <4>2
    <3>5. n = IF HistoryCap <= tradeSeq + 1 THEN HistoryCap ELSE tradeSeq + 1
      BY ONLY <2>2, <2>3, <2>4, <2>5 DEF n
    <3>6. Len(history') = Min({HistoryCap, tradeSeq'})
      BY <2>1, <2>2, <3>3, <3>5, MinOfTwo
    <3>7. \A i \in DOMAIN history' : history'[i].seqNum = tradeSeq' - Len(history') + i
      <4>1. tradeSeq' = tradeSeq + 1
        BY <2>1
      <4>2. Len(history') = n /\ DOMAIN history' = 1 .. n
        BY <3>3
      <4> SUFFICES ASSUME NEW i \in DOMAIN history'
                   PROVE  history'[i].seqNum = tradeSeq' - Len(history') + i
        OBVIOUS
      <4>3. history'[i].seqNum = tradeSeq + 1 - n + i
        BY ONLY <3>4, <4>2
      <4>4. tradeSeq \in Nat /\ n \in Nat /\ i \in Nat
        BY ONLY <2>2, <2>4, <4>2 DEF n
      <4> QED  BY ONLY <4>1, <4>2, <4>3, <4>4
    <3> QED  BY ONLY <3>6, <3>7 DEF HistoryIsTail
  <2>6. CASE n # HistoryCap
    <3>1. history' = Append(history, trade)
      BY <2>1, <2>6
    <3>2. /\ Len(history') = n + 1 /\ DOMAIN history' = 1 .. n + 1
          /\ \A i \in 1 .. n : history'[i] = history[i]
          /\ history'[n + 1] = trade
      <4>1. Len(history') = n + 1 /\ history' \in Seq(Published)
        BY <2>1, <2>2, <3>1
      <4>2. /\ \A i \in 1 .. n : history'[i] = history[i]
            /\ history'[n + 1] = trade
        BY <2>2, <3>1, AppendProperties
      <4> QED  BY <4>1, <4>2
    <3> HIDE DEF n
    <3>3. ASSUME NEW i \in 1 .. n + 1
          PROVE  history'[i].seqNum = tradeSeq + 1 - (n + 1) + i
      <4>1. CASE i = n + 1
        BY ONLY <2>1, <2>2, <2>4, <3>2, <4>1
      <4>2. CASE i # n + 1
        <5>1. i \in 1 .. n
          BY ONLY <2>4, <3>3, <4>2
        <5>2. history[i].seqNum = tradeSeq - n + i
          BY ONLY <2>3, <2>4, <5>1 DEF n
        <5>3. history'[i] = history[i]
          BY ONLY <3>2, <5>1
        <5> QED  BY ONLY <2>2, <2>4, <5>1, <5>2, <5>3
      <4> QED  BY <4>1, <4>2
    <3>4. n + 1 = IF HistoryCap <= tradeSeq + 1 THEN HistoryCap ELSE tradeSeq + 1
      BY ONLY <2>2, <2>3, <2>4, <2>6 DEF n
    <3>5. Len(history') = Min({HistoryCap, tradeSeq'})
      BY <2>1, <2>2, <3>2, <3>4, MinOfTwo
    <3>6. \A i \in DOMAIN history' : history'[i].seqNum = tradeSeq' - Len(history') + i
      <4>1. tradeSeq' = tradeSeq + 1
        BY <2>1
      <4>2. Len(history') = n + 1 /\ DOMAIN history' = 1 .. n + 1
        BY <3>2
      <4> SUFFICES ASSUME NEW i \in DOMAIN history'
                   PROVE  history'[i].seqNum = tradeSeq' - Len(history') + i
        OBVIOUS
      <4>3. history'[i].seqNum = tradeSeq + 1 - (n + 1) + i
        BY ONLY <3>3, <4>2
      <4>4. tradeSeq \in Nat /\ n \in Nat /\ i \in Nat
        BY ONLY <2>2, <2>4, <4>2 DEF n
      <4> QED  BY ONLY <4>1, <4>2, <4>3, <4>4
    <3> QED  BY ONLY <3>5, <3>6 DEF HistoryIsTail
  <2> QED  BY <2>5, <2>6
<1> QED  BY <1>1, <1>2

\* The bounded history is the last trades published, without a hole, for any
\* number of threads and any length of it.
THEOREM HistoryComplete == Spec => []HistoryIsTail
<1>1. Init => Publishing /\ HistoryIsTail
  <2> SUFFICES ASSUME Init PROVE Publishing /\ HistoryIsTail
    OBVIOUS
  <2>1. HistoryCap \in Nat
    BY EngineAssumption
  <2> QED  BY <2>1, MinOfTwo DEF Init, Idle, Publishing, HistoryIsTail
<1>2. TypeOK /\ Publishing /\ HistoryIsTail /\ [Next]_vars
        => Publishing' /\ HistoryIsTail'
  BY PublishingStep, HistoryStep
<1> QED  BY <1>1, <1>2, TypeCorrect, PTL DEF Spec

----------------------------------------------------------------------------
(* The delivery of trades *)

\* How often a client has subscribed to the trades: ...
Never(c) == \A i \in DOMAIN subscribers.trades : subscribers.trades[i] # c

\* ... not at all, or once.
Once(c) == \E p \in DOMAIN subscribers.trades :
              \A i \in DOMAIN subscribers.trades : subscribers.trades[i] = c <=> i = p

\* t is going to call back c, with the trade of number Num(t).
Owes(t, c) == /\ thr[t].pc = "notify"
              /\ \E i \in DOMAIN thr[t].callbacks : thr[t].callbacks[i] = c

\* The number of the trade that t is publishing.
Num(t) == Head(thr[t].trades).seqNum

\* c is at most once in s.
AtMostOnce(s, c) == \A i, j \in DOMAIN s : s[i] = c /\ s[j] = c => i = j

\* The numbers from b + 1 on: each has been delivered to c, once, or some thread
\* owes it to c, one thread only.
Account(c, b) ==
    LET got == client[c].trades
    IN  /\ \A i \in DOMAIN got : got[i] \in b + 1 .. tradeSeq
        /\ \A i, j \in DOMAIN got : got[i] = got[j] => i = j
        /\ \A t \in Threads : Owes(t, c) => Num(t) \in b + 1 .. tradeSeq
        /\ \A t \in Threads : Owes(t, c) => \A i \in DOMAIN got : got[i] # Num(t)
        /\ \A t, u \in Threads : Owes(t, c) /\ Owes(u, c) /\ Num(t) = Num(u) => t = u
        /\ \A n \in b + 1 .. tradeSeq : \/ \E i \in DOMAIN got : got[i] = n
                                        \/ \E t \in Threads : Owes(t, c) /\ Num(t) = n

\* A copy of the list of callbacks names a client as often as the list does, or
\* less.
CallbacksOK ==
    \A c \in Clients, t \in Threads :
        /\ Never(c) => ~Owes(t, c)
        /\ Once(c) /\ thr[t].pc = "notify" => AtMostOnce(thr[t].callbacks, c)

\* The account of each client.
Accounts ==
    \A c \in Clients : /\ Never(c) => client[c].trades = << >>
                       /\ Once(c) => /\ client[c].since \in 0 .. tradeSeq
                                      /\ Account(c, client[c].since)

\* The inductive invariant behind NoTradeMissed.
DeliveryInv == Publishing /\ CallbacksOK /\ Accounts

\* It holds of the new engine, ...
LEMMA DeliveryInit == Init => DeliveryInv
BY DEF Init, Idle, NewClient, DeliveryInv, Publishing, CallbacksOK, Accounts, Never, Once, Owes

\* Steps that do not touch the trades that clients wait for.
Apart ==
    /\ tradeSeq' = tradeSeq /\ subscribers'.trades = subscribers.trades
    /\ \A c \in Clients : /\ client'[c].trades = client[c].trades
                          /\ client'[c].since = client[c].since
    /\ \A t \in Threads :
          \/ /\ thr'[t].pc = thr[t].pc /\ thr'[t].trades = thr[t].trades
             /\ thr'[t].callbacks = thr[t].callbacks
          \/ /\ thr'[t].pc # "notify"
             /\ thr[t].pc = "notify" => thr[t].callbacks = << >>

\* All steps but the subscription, publishTrade and its callbacks are such.
LEMMA OthersApart ==
  ASSUME TypeOK, [Next]_vars
  PROVE  \/ Apart
         \/ \E t \in Threads, c \in Clients : SubscribeToTrades(t, c)
         \/ \E t \in Threads : PublishTrade(t) \/ NotifyTrade(t)
<1>1. ASSUME NEW t \in Threads, NEW o \in Submittable, SubmitOrder(t, o)
      PROVE  Apart
  <2>1. PICK trades : thr' = [thr EXCEPT
                          ![t].pc     = IF trades = << >> THEN "read" ELSE "publish",
                          ![t].trades = Numbered(trades)]
    BY <1>1, Zenon DEF SubmitOrder
  <2>2. thr[t].pc = "idle" /\ UNCHANGED <<feedVars, subscribers, client>>
    BY <1>1 DEF SubmitOrder, MayStart
  <2> QED  BY <2>1, <2>2, Zenon DEF Apart, feedVars, TypeOK, Thread
<1>2. ASSUME NEW t \in Threads,
             \/ \E o \in SubmittableTriggers : SubmitTrigger(t, o)
             \/ \E id \in Ids : CancelTheOrder(t, id)
             \/ \E id \in Ids, q \in ModifyQtys : ModifyTheOrder(t, id, q)
      PROVE  Apart
  <2>1. /\ thr[t].pc = "idle" /\ UNCHANGED <<feedVars, subscribers, client>>
        /\ thr' = thr \/ thr' = [thr EXCEPT ![t].pc = "read"]
    BY <1>2, Zenon DEF SubmitTrigger, CancelTheOrder, ModifyTheOrder, MayStart, Goto
  <2> QED  BY <2>1, Zenon DEF Apart, feedVars, TypeOK, Thread
<1>3. ASSUME NEW t \in Threads, NEW c \in Clients, SubscribeToMarketData(t, c)
      PROVE  Apart
  <2>1. /\ thr[t].pc = "idle" /\ UNCHANGED <<feedVars, client>>
        /\ subscribers' = [subscribers EXCEPT !.market = Append(@, c)]
        /\ thr' = [thr EXCEPT ![t].pc = "snapshot", ![t].callbacks = <<c>>]
    BY <1>3 DEF SubscribeToMarketData
  <2>2. subscribers'.trades = subscribers.trades
    BY <2>1 DEF TypeOK
  <2> QED  BY <2>1, <2>2, Zenon DEF Apart, feedVars, TypeOK, Thread
<1>4. ASSUME NEW t \in Threads, CheckTriggers(t)
      PROVE  Apart
  <2>1. /\ thr' = [thr EXCEPT ![t].trades = Tail(@),
                   ![t].pc = IF Len(thr[t].trades) = 1 THEN "read" ELSE "publish"]
        /\ thr[t].callbacks = << >> /\ UNCHANGED <<feedVars, subscribers, client>>
    BY <1>4, Zenon DEF CheckTriggers
  <2> QED  BY <2>1, Zenon DEF Apart, feedVars, TypeOK, Thread
<1>5. ASSUME NEW t \in Threads, GetMarketData(t) \/ ReadSnapshot(t)
      PROVE  Apart
  <2>1. /\ UNCHANGED <<feedVars, subscribers, client>> /\ thr[t].pc # "notify"
        /\ \/ thr' = [thr EXCEPT ![t].pc = "diff", ![t].update = Depth(book)]
           \/ thr' = [thr EXCEPT ![t].pc = "send", ![t].update = Depth(book)]
    BY <1>5 DEF GetMarketData, ReadSnapshot
  <2>2. thr'[t].pc # "notify" /\ \A u \in Threads \ {t} : thr'[u] = thr[u]
    BY <2>1 DEF TypeOK, Thread
  <2> QED  BY <2>1, <2>2 DEF Apart, feedVars
<1>6. ASSUME NEW t \in Threads, PublishMarketData(t) \/ SendFirstSnapshot(t)
      PROVE  Apart
  <2>1. /\ thr[t].pc # "notify" /\ thr' = [thr EXCEPT ![t] = Idle]
        /\ UNCHANGED <<tradeSeq, subscribers>>
    BY <1>6 DEF PublishMarketData, SendFirstSnapshot, feedVars
  <2>2. \A c \in Clients : /\ client'[c].trades = client[c].trades
                           /\ client'[c].since = client[c].since
    <3>1. CASE SendFirstSnapshot(t)
      BY <3>1 DEF SendFirstSnapshot, TypeOK, Client
    <3>2. CASE SendSnapshot(t)
      BY <3>2 DEF SendSnapshot, TypeOK, Client
    <3>3. CASE SendIncrement(t)
      BY <3>3 DEF SendIncrement, TypeOK, Client
    <3>4. CASE SendNothing(t)
      BY <3>4 DEF SendNothing
    <3> QED  BY <1>6, <3>1, <3>2, <3>3, <3>4 DEF PublishMarketData
  <2>3. thr'[t].pc # "notify" /\ \A u \in Threads \ {t} : thr'[u] = thr[u]
    BY <2>1 DEF TypeOK, Idle
  <2> QED  BY <2>1, <2>2, <2>3 DEF Apart
<1>7. CASE UNCHANGED vars
  BY <1>7 DEF vars, feedVars, Apart
<1> QED
  BY <1>1, <1>2, <1>3, <1>4, <1>5, <1>6, <1>7 DEF Next, Call, InCall

\* They keep the accounts.
LEMMA ApartKeeps ==
  ASSUME DeliveryInv, Publishing', Apart
  PROVE  DeliveryInv'
<1>1. \A c \in Clients : (Never(c)' <=> Never(c)) /\ (Once(c)' <=> Once(c))
  BY DEF Apart, Never, Once
<1>2. \A c \in Clients, t \in Threads : Owes(t, c)' <=> Owes(t, c)
  BY DEF Apart, Owes
<1>3. \A c \in Clients, t \in Threads : Owes(t, c) => Num(t)' = Num(t)
  BY DEF Apart, Owes, Num
<1>4. CallbacksOK'
  <2> SUFFICES ASSUME NEW c \in Clients, NEW t \in Threads
               PROVE  /\ Never(c)' => ~Owes(t, c)'
                      /\ Once(c)' /\ thr'[t].pc = "notify" => AtMostOnce(thr'[t].callbacks, c)
    BY DEF CallbacksOK
  <2>1. thr'[t].pc = "notify" => thr[t].pc = "notify" /\ thr'[t].callbacks = thr[t].callbacks
    BY DEF Apart
  <2> QED  BY <1>1, <1>2, <2>1 DEF DeliveryInv, CallbacksOK
<1>5. ASSUME NEW c \in Clients, NEW b, Account(c, b)
      PROVE  Account(c, b)'
  <2>1. tradeSeq' = tradeSeq /\ client'[c].trades = client[c].trades
    BY DEF Apart
  <2> QED  BY <1>2, <1>3, <1>5, <2>1 DEF Account
<1>6. Accounts'
  <2>1. /\ tradeSeq' = tradeSeq
        /\ \A c \in Clients : /\ client'[c].trades = client[c].trades
                              /\ client'[c].since = client[c].since
    BY DEF Apart
  <2> QED  BY <1>1, <1>5, <2>1 DEF DeliveryInv, Accounts
<1> QED  BY <1>4, <1>6 DEF DeliveryInv

\* A new subscriber has an account from the next trade on.
LEMMA SubscribeKeeps ==
  ASSUME TypeOK, DeliveryInv, NEW t \in Threads, NEW c \in Clients, SubscribeToTrades(t, c)
  PROVE  CallbacksOK' /\ Accounts'
<1>1. /\ UNCHANGED <<tradeSeq, thr>>
      /\ \A d \in Clients : /\ client'[d].trades = client[d].trades
                            /\ d # c => client'[d].since = client[d].since
      /\ client'[c].since = tradeSeq
      /\ subscribers'.trades = Append(subscribers.trades, c)
      /\ subscribers.trades \in Seq(Clients) /\ tradeSeq \in Nat
  BY DEF SubscribeToTrades, TypeOK, Client, feedVars
<1> DEFINE s == subscribers.trades
           n == Len(s)
<1>2. /\ n \in Nat /\ DOMAIN s = 1 .. n /\ DOMAIN subscribers'.trades = 1 .. n + 1
      /\ \A i \in 1 .. n : subscribers'.trades[i] = s[i]
      /\ subscribers'.trades[n + 1] = c
  BY <1>1, LenProperties, AppendProperties
<1> HIDE DEF n
<1>3. \A d : d # c => (Never(d)' <=> Never(d)) /\ (Once(d)' <=> Once(d))
  <2> SUFFICES ASSUME NEW d, d # c
               PROVE  (Never(d)' <=> Never(d)) /\ (Once(d)' <=> Once(d))
    OBVIOUS
  <2>1. \A i \in 1 .. n + 1 : i \in 1 .. n \/ i = n + 1
    BY <1>2
  <2>2. \A i \in 1 .. n : i \in 1 .. n + 1 /\ i # n + 1
    BY <1>2
  <2>3. Never(d)' <=> Never(d)
    BY <1>2, <2>1, <2>2 DEF Never
  <2> DEFINE new == subscribers'.trades
             At(f, D) == \E p \in D : \A i \in D : f[i] = d <=> i = p
  <2>o. Once(d) <=> At(s, DOMAIN s)
    BY ONLY DEF Once, s
  <2>n. Once(d)' <=> At(new, DOMAIN new)
    BY ONLY DEF Once, new
  <2>b. DOMAIN s = 1 .. n /\ DOMAIN new = 1 .. n + 1
    BY <1>2
  <2> HIDE DEF s, new, At
  <2>f. (Once(d) <=> At(s, 1 .. n)) /\ (Once(d)' <=> At(new, 1 .. n + 1))
    BY ONLY <2>o, <2>n, <2>b
  <2>c. Once(d) <=> \E p \in 1 .. n : \A i \in 1 .. n : s[i] = d <=> i = p
    BY ONLY <2>f DEF At
  <2>e. Once(d)' <=> \E p \in 1 .. n + 1 : \A i \in 1 .. n + 1 : new[i] = d <=> i = p
    BY ONLY <2>f DEF At
  <2>d. (\A i \in 1 .. n : new[i] = s[i]) /\ new[n + 1] = c
    BY <1>2 DEF s, new
  <2>4. ASSUME Once(d) PROVE Once(d)'
    <3>1. PICK p \in 1 .. n : \A i \in 1 .. n : s[i] = d <=> i = p
      BY ONLY <2>c, <2>4
    <3>2. \A i \in 1 .. n + 1 : new[i] = d <=> i = p
      BY <2>d, <2>1, <2>2, <3>1
    <3>3. p \in 1 .. n + 1
      BY <2>2
    <3> QED  BY ONLY <2>e, <3>2, <3>3
  <2>5. ASSUME Once(d)' PROVE Once(d)
    <3>1. PICK p \in 1 .. n + 1 : \A i \in 1 .. n + 1 : new[i] = d <=> i = p
      BY ONLY <2>e, <2>5
    <3>2. p \in 1 .. n
      <4>1. new[p] = d
        BY <3>1
      <4> QED  BY <2>d, <2>1, <4>1
    <3>3. \A i \in 1 .. n : s[i] = d <=> i = p
      BY <2>d, <2>2, <3>1
    <3> QED  BY ONLY <2>c, <3>2, <3>3
  <2> QED  BY <2>3, <2>4, <2>5
<1>4. ~Never(c)' /\ (Once(c)' => Never(c))
  <2> DEFINE new == subscribers'.trades
  <2>1. n + 1 \in DOMAIN new /\ \A i \in 1 .. n : i \in DOMAIN new /\ i # n + 1
    BY <1>2
  <2>2. ~Never(c)'
    BY <1>2, <2>1 DEF Never
  <2>3. ASSUME Once(c)' PROVE Never(c)
    <3>1. PICK p \in DOMAIN new : \A i \in DOMAIN new : new[i] = c <=> i = p
      BY ONLY <2>3 DEF Once, new
    <3>2. \A i \in 1 .. n : s[i] # c
      <4>1. p = n + 1
        BY <1>2, <2>1, <3>1
      <4> QED  BY <1>2, <2>1, <3>1, <4>1
    <3> QED  BY <1>2, <3>2 DEF Never
  <2> QED  BY <2>2, <2>3
<1>5. \A d, u : (Owes(u, d)' <=> Owes(u, d)) /\ Num(u)' = Num(u)
  BY <1>1 DEF Owes, Num
<1>6. CallbacksOK'
  <2> SUFFICES ASSUME NEW d \in Clients, NEW u \in Threads
               PROVE  /\ Never(d)' => ~Owes(u, d)'
                      /\ Once(d)' /\ thr'[u].pc = "notify" => AtMostOnce(thr'[u].callbacks, d)
    BY DEF CallbacksOK
  <2>1. CASE d # c
    BY <1>1, <1>3, <1>5, <2>1 DEF DeliveryInv, CallbacksOK
  <2>2. CASE d = c
    <3>1. ASSUME Never(c) PROVE ~Owes(u, c)
      BY <3>1 DEF DeliveryInv, CallbacksOK
    <3> QED  BY <1>1, <1>4, <2>2, <3>1 DEF Owes, AtMostOnce
  <2> QED  BY <2>1, <2>2
<1>7. Accounts'
  <2> SUFFICES ASSUME NEW d \in Clients
               PROVE  /\ Never(d)' => client'[d].trades = << >>
                      /\ Once(d)' => /\ client'[d].since \in 0 .. tradeSeq'
                                      /\ Account(d, client[d].since)'
    BY DEF Accounts
  <2>1. CASE d # c
    <3>1. ASSUME NEW b, Account(d, b) PROVE Account(d, b)'
      BY <1>1, <1>5, <3>1 DEF Account
    <3>2. client'[d].since = client[d].since /\ client'[d].trades = client[d].trades
      BY <1>1, <2>1
    <3>3. /\ Never(d) => client[d].trades = << >>
          /\ Once(d) => client[d].since \in 0 .. tradeSeq /\ Account(d, client[d].since)
      BY DEF DeliveryInv, Accounts
    <3>4. ASSUME Account(d, client[d].since) PROVE Account(d, client[d].since)'
      BY <3>1, <3>2, <3>4 DEF Account
    <3> QED  BY <1>1, <1>3, <2>1, <3>2, <3>3, <3>4
  <2>2. CASE d = c
    <3>1. ASSUME Never(c) PROVE Account(c, tradeSeq)'
      <4>1. client'[c].trades = << >> /\ \A u \in Threads : ~Owes(u, c)'
        BY <1>1, <1>5, <3>1 DEF DeliveryInv, CallbacksOK, Accounts
      <4>2. tradeSeq + 1 .. tradeSeq = {}
        BY <1>1
      <4> QED  BY <1>1, <4>1, <4>2 DEF Account
    <3>2. Once(c)' => Account(c, client[c].since)'
      BY <1>1, <1>4, <3>1 DEF Account
    <3> QED  BY <1>1, <1>4, <2>2, <3>2
  <2> QED  BY <2>1, <2>2
<1> QED  BY <1>6, <1>7

\* The number of a trade that is being published is owed to every subscriber.
LEMMA PublishKeeps ==
  ASSUME TypeOK, DeliveryInv, NEW t \in Threads, PublishTrade(t)
  PROVE  CallbacksOK' /\ Accounts'
<1>1. PICK trade : /\ trade.seqNum = tradeSeq + 1 /\ tradeSeq' = tradeSeq + 1
                   /\ thr' = [thr EXCEPT ![t].trades[1] = trade, ![t].pc = "notify",
                                         ![t].callbacks = subscribers.trades]
  BY PublishTradeOK, ZenonT(30) DEF DeliveryInv
<1>2. /\ UNCHANGED <<subscribers, client>> /\ thr[t].pc = "publish" /\ tradeSeq \in Nat
      /\ thr[t].trades \in Seq(Published) /\ thr[t].trades # << >>
  BY DEF PublishTrade, TypeOK, Thread, DeliveryInv, Publishing
<1>3. /\ thr'[t].trades = [thr[t].trades EXCEPT ![1] = trade]
      /\ thr'[t].pc = "notify" /\ thr'[t].callbacks = subscribers.trades
      /\ \A u \in Threads : u # t => thr'[u] = thr[u]
  BY <1>1 DEF TypeOK, Thread
<1>4. Num(t)' = tradeSeq + 1
  <2>1. Len(thr[t].trades) \in Nat /\ DOMAIN thr[t].trades = 1 .. Len(thr[t].trades)
        /\ Len(thr[t].trades) # 0
    BY <1>2
  <2>2. thr'[t].trades[1] = trade
    BY <1>3, <2>1
  <2> QED  BY <1>1, <2>2 DEF Num
<1>5. \A c : /\ Never(c)' <=> Never(c)
             /\ Once(c)' <=> Once(c)
             /\ ~Owes(t, c)
             /\ Owes(t, c)' <=> ~Never(c)
             /\ \A u \in Threads : u # t => (Owes(u, c)' <=> Owes(u, c)) /\ Num(u)' = Num(u)
  BY <1>2, <1>3 DEF Never, Once, Owes, Num
<1>6. CallbacksOK'
  <2> SUFFICES ASSUME NEW c \in Clients, NEW u \in Threads
               PROVE  /\ Never(c)' => ~Owes(u, c)'
                      /\ Once(c)' /\ thr'[u].pc = "notify" => AtMostOnce(thr'[u].callbacks, c)
    BY DEF CallbacksOK
  <2>1. CASE u # t
    BY <1>3, <1>5, <2>1 DEF DeliveryInv, CallbacksOK
  <2>2. CASE u = t
    BY <1>3, <1>5, <2>2 DEF Once, AtMostOnce
  <2> QED  BY <2>1, <2>2
<1>7. ASSUME NEW c \in Clients, NEW b \in 0 .. tradeSeq, Once(c), Account(c, b)
      PROVE  Account(c, b)'
  <2>1. ~Never(c)
    BY <1>7 DEF Once, Never
  <2> DEFINE got == client[c].trades
             k == tradeSeq + 1
  <2>2. client'[c].trades = got /\ tradeSeq' = k /\ Num(t)' = k /\ Owes(t, c)'
    BY <1>1, <1>2, <1>4, <1>5, <2>1
  <2>3. b + 1 .. k = (b + 1 .. tradeSeq) \cup {k} /\ k \notin b + 1 .. tradeSeq
    BY <1>2, <1>7
  <2> HIDE DEF k
  <2>4. /\ \A i \in DOMAIN got : got[i] \in b + 1 .. tradeSeq
        /\ \A i, j \in DOMAIN got : got[i] = got[j] => i = j
        /\ \A u \in Threads : Owes(u, c) => Num(u) \in b + 1 .. tradeSeq
        /\ \A u \in Threads : Owes(u, c) => \A i \in DOMAIN got : got[i] # Num(u)
        /\ \A u, v \in Threads : Owes(u, c) /\ Owes(v, c) /\ Num(u) = Num(v) => u = v
        /\ \A n \in b + 1 .. tradeSeq : \/ \E i \in DOMAIN got : got[i] = n
                                        \/ \E u \in Threads : Owes(u, c) /\ Num(u) = n
    BY <1>7 DEF Account
  <2> HIDE DEF got
  <2>5. \A u \in Threads : Owes(u, c)' => /\ Num(u)' \in b + 1 .. k
                                         /\ \A i \in DOMAIN got : got[i] # Num(u)'
    BY <1>5, <2>2, <2>3, <2>4
  <2>6. \A u, v \in Threads : Owes(u, c)' /\ Owes(v, c)' /\ Num(u)' = Num(v)' => u = v
    BY <1>5, <2>2, <2>3, <2>4
  <2>7. \A n \in b + 1 .. k : \/ \E i \in DOMAIN got : got[i] = n
                              \/ \E u \in Threads : Owes(u, c)' /\ Num(u)' = n
    BY <1>5, <2>2, <2>3, <2>4
  <2> QED  BY <2>2, <2>3, <2>4, <2>5, <2>6, <2>7 DEF Account
<1>8. Accounts'
  <2> SUFFICES ASSUME NEW c \in Clients
               PROVE  /\ Never(c)' => client'[c].trades = << >>
                      /\ Once(c)' => /\ client'[c].since \in 0 .. tradeSeq'
                                      /\ Account(c, client[c].since)'
    BY DEF Accounts
  <2>1. 0 .. tradeSeq \subseteq 0 .. tradeSeq'
    BY <1>1, <1>2
  <2>2. /\ Never(c) => client[c].trades = << >>
        /\ Once(c) => client[c].since \in 0 .. tradeSeq /\ Account(c, client[c].since)
    BY DEF DeliveryInv, Accounts
  <2>3. client' = client
    BY <1>2
  <2>4. ASSUME Once(c) PROVE Account(c, client[c].since)'
    <3>1. PICK b : b = client[c].since
      OBVIOUS
    <3>2. b \in 0 .. tradeSeq /\ Account(c, b) /\ client'[c].since = b
      BY <2>2, <2>3, <2>4, <3>1
    <3>3. Account(c, b)'
      BY <1>7, <2>4, <3>2
    <3> QED  BY <3>2, <3>3 DEF Account
  <2> QED  BY <1>5, <2>1, <2>2, <2>3, <2>4
<1> QED  BY <1>6, <1>8

\* A callback turns what is owed to one client into what it got.
LEMMA NotifyKeeps ==
  ASSUME TypeOK, DeliveryInv, NEW t \in Threads, NotifyTrade(t)
  PROVE  CallbacksOK' /\ Accounts'
<1> DEFINE cb == thr[t].callbacks
<1>0. PICK h : h = Head(cb)
  OBVIOUS
<1>1. /\ UNCHANGED <<tradeSeq, subscribers>> /\ thr[t].pc = "notify"
      /\ cb \in Seq(Clients) /\ cb # << >> /\ tradeSeq \in Nat
      /\ client' = [client EXCEPT ![h].trades = Append(@, Num(t))]
      /\ thr' = [thr EXCEPT ![t].callbacks = Tail(@)]
  BY <1>0 DEF NotifyTrade, TypeOK, Thread, feedVars, Num
<1>2. /\ \A u \in Threads : thr'[u].pc = thr[u].pc /\ thr'[u].trades = thr[u].trades
      /\ thr'[t].callbacks = Tail(cb)
      /\ \A u \in Threads : u # t => thr'[u] = thr[u]
  BY <1>1, Zenon DEF TypeOK, Thread
<1>3. /\ h \in Clients /\ client[h].trades \in Seq(Nat)
      /\ client'[h].trades = Append(client[h].trades, Num(t))
      /\ \A c \in Clients : c # h => client'[c].trades = client[c].trades
      /\ \A c \in Clients : client'[c].since = client[c].since
  <2>1. h \in Clients
    BY <1>0, <1>1
  <2> QED  BY <1>1, <2>1 DEF TypeOK, Client
<1>4. /\ Len(cb) \in Nat \ {0} /\ DOMAIN cb = 1 .. Len(cb)
      /\ DOMAIN Tail(cb) = 1 .. Len(cb) - 1
      /\ \A i \in 1 .. Len(cb) - 1 : Tail(cb)[i] = cb[i + 1]
      /\ cb[1] = h
  <2>1. Len(cb) \in Nat \ {0} /\ DOMAIN cb = 1 .. Len(cb) /\ cb[1] = h
    BY <1>0, <1>1
  <2>2. /\ Tail(cb) \in Seq(Clients) /\ Len(Tail(cb)) = Len(cb) - 1
        /\ \A i \in 1 .. Len(Tail(cb)) : Tail(cb)[i] = cb[i + 1]
    BY <1>1, HeadTailProperties
  <2>3. DOMAIN Tail(cb) = 1 .. Len(cb) - 1
    BY <2>2
  <2> QED  BY <2>1, <2>2, <2>3
<1> HIDE DEF cb
<1>5. \A c : (Never(c)' <=> Never(c)) /\ (Once(c)' <=> Once(c))
  BY <1>1 DEF Never, Once
<1>6. \A u \in Threads : Num(u)' = Num(u)
  BY <1>2 DEF Num
<1>7. Owes(t, h)
  <2>1. 1 \in DOMAIN thr[t].callbacks /\ thr[t].callbacks[1] = h
    BY <1>4 DEF cb
  <2> QED  BY <1>1, <2>1 DEF Owes
<1>8. \A c, u : u \in Threads /\ Owes(u, c)' => Owes(u, c)
  <2> SUFFICES ASSUME NEW c, Owes(t, c)' PROVE Owes(t, c)
    BY <1>2, ZenonT(30) DEF Owes
  <2>1. PICK i \in DOMAIN Tail(cb) : Tail(cb)[i] = c
    BY <1>2 DEF Owes
  <2>2. i + 1 \in DOMAIN cb /\ cb[i + 1] = c
    BY <1>4, <2>1
  <2> QED  BY <1>1, <2>2 DEF Owes, cb
<1>9. \A c, u : u \in Threads /\ Owes(u, c) /\ ~(u = t /\ c = h) => Owes(u, c)'
  <2> SUFFICES ASSUME NEW c, Owes(t, c), c # h PROVE Owes(t, c)'
    BY <1>2, Zenon DEF Owes
  <2>1. PICK i \in DOMAIN cb : cb[i] = c
    BY DEF Owes, cb
  <2>2. i # 1
    BY <1>4, <2>1
  <2>3. i - 1 \in DOMAIN Tail(cb) /\ Tail(cb)[i - 1] = c
    BY <1>4, <2>1, <2>2
  <2> QED  BY <1>1, <1>2, <2>3, Zenon DEF Owes
<1>10. Once(h) => ~Owes(t, h)'
  <2> SUFFICES ASSUME Once(h), Owes(t, h)' PROVE FALSE
    OBVIOUS
  <2>1. PICK i \in DOMAIN Tail(cb) : Tail(cb)[i] = h
    BY <1>2 DEF Owes
  <2>2. i + 1 \in DOMAIN cb /\ cb[i + 1] = h /\ i + 1 # 1 /\ 1 \in DOMAIN cb
    BY <1>4, <2>1
  <2>3. AtMostOnce(cb, h)
    BY <1>1, <1>3 DEF DeliveryInv, CallbacksOK, cb
  <2> QED  BY <1>4, <2>2, <2>3 DEF AtMostOnce
<1>11. CallbacksOK'
  <2> SUFFICES ASSUME NEW c \in Clients, NEW u \in Threads
               PROVE  /\ Never(c)' => ~Owes(u, c)'
                      /\ Once(c)' /\ thr'[u].pc = "notify" => AtMostOnce(thr'[u].callbacks, c)
    BY DEF CallbacksOK
  <2>1. Never(c)' => ~Owes(u, c)'
    BY <1>5, <1>8 DEF DeliveryInv, CallbacksOK
  <2>2. ASSUME Once(c), thr[u].pc = "notify" PROVE AtMostOnce(thr[u].callbacks, c)
    BY <2>2 DEF DeliveryInv, CallbacksOK
  <2>3. CASE u # t
    BY <1>2, <1>5, <2>1, <2>2, <2>3
  <2>4. CASE u = t
    <3>1. ASSUME AtMostOnce(cb, c) PROVE AtMostOnce(Tail(cb), c)
      <4> SUFFICES ASSUME NEW i \in DOMAIN Tail(cb), NEW j \in DOMAIN Tail(cb),
                          Tail(cb)[i] = c, Tail(cb)[j] = c
                   PROVE  i = j
        BY DEF AtMostOnce
      <4>1. /\ i + 1 \in DOMAIN cb /\ j + 1 \in DOMAIN cb
            /\ cb[i + 1] = c /\ cb[j + 1] = c /\ i \in Nat /\ j \in Nat
        BY <1>4
      <4>2. i + 1 = j + 1
        BY <3>1, <4>1 DEF AtMostOnce
      <4> QED  BY <4>1, <4>2
    <3> QED  BY <1>1, <1>2, <1>5, <2>1, <2>2, <2>4, <3>1 DEF cb
  <2> QED  BY <2>3, <2>4
<1>12. ASSUME NEW c \in Clients, c # h, NEW b, Account(c, b)
       PROVE  Account(c, b)'
  <2>1. client'[c].trades = client[c].trades /\ tradeSeq' = tradeSeq
    BY <1>1, <1>3, <1>12
  <2>2. \A u \in Threads : (Owes(u, c)' <=> Owes(u, c)) /\ Num(u)' = Num(u)
    BY <1>6, <1>8, <1>9, <1>12
  <2> QED  BY <1>12, <2>1, <2>2 DEF Account
<1>13. ASSUME Once(h), NEW b, Account(h, b)
       PROVE  Account(h, b)'
  <2> DEFINE got == client[h].trades
             n == Len(got)
             k == Num(t)
  <2>1. /\ \A i \in DOMAIN got : got[i] \in b + 1 .. tradeSeq
        /\ \A i, j \in DOMAIN got : got[i] = got[j] => i = j
        /\ \A u \in Threads : Owes(u, h) => Num(u) \in b + 1 .. tradeSeq
        /\ \A u \in Threads : Owes(u, h) => \A i \in DOMAIN got : got[i] # Num(u)
        /\ \A u, v \in Threads : Owes(u, h) /\ Owes(v, h) /\ Num(u) = Num(v) => u = v
        /\ \A m \in b + 1 .. tradeSeq : \/ \E i \in DOMAIN got : got[i] = m
                                        \/ \E u \in Threads : Owes(u, h) /\ Num(u) = m
    BY <1>13 DEF Account
  <2>2. k \in b + 1 .. tradeSeq /\ k \in Nat
    <3>1. Num(t) \in Nat
      <4>1. Head(thr[t].trades) \in Published
        BY <1>1, SMTT(30) DEF TypeOK, Thread, DeliveryInv, Publishing
      <4> QED  BY <4>1 DEF Published, Num
    <3> QED  BY <1>7, <2>1, <3>1
  <2>3. /\ n \in Nat /\ DOMAIN got = 1 .. n /\ DOMAIN client'[h].trades = 1 .. n + 1
        /\ \A i \in 1 .. n : client'[h].trades[i] = got[i]
        /\ client'[h].trades[n + 1] = k
    <3> HIDE DEF k
    <3>1. client'[h].trades = Append(got, k) /\ got \in Seq(Nat)
      BY <1>3 DEF k
    <3> HIDE DEF got
    <3>2. Len(Append(got, k)) = n + 1 /\ Append(got, k) \in Seq(Nat)
      BY <2>2, <3>1
    <3> QED  BY <2>2, <3>1, <3>2, AppendProperties, LenProperties
  <2>4. \A i \in DOMAIN got : got[i] # k
    BY <1>7, <2>1
  <2>5. \A u \in Threads : Owes(u, h)' <=> Owes(u, h) /\ u # t
    BY <1>8, <1>9, <1>10, <1>13
  <2>6. \A u \in Threads : Num(u)' = Num(u) /\ (Owes(u, h) /\ u # t => Num(u) # k)
    BY <1>6, <1>7, <2>1
  <2> DEFINE new == client'[h].trades
  <2> HIDE DEF got, n, k
  <2>7. \A i \in DOMAIN new : new[i] \in b + 1 .. tradeSeq
    BY <2>1, <2>2, <2>3
  <2>8. \A i, j \in DOMAIN new : new[i] = new[j] => i = j
    BY <2>1, <2>3, <2>4
  <2>9. \A u \in Threads : Owes(u, h)' => /\ Num(u)' \in b + 1 .. tradeSeq
                                         /\ \A i \in DOMAIN new : new[i] # Num(u)'
    BY <2>1, <2>3, <2>5, <2>6
  <2>10. \A u, v \in Threads : Owes(u, h)' /\ Owes(v, h)' /\ Num(u)' = Num(v)' => u = v
    BY <2>1, <2>5, <2>6
  <2>11. ASSUME NEW m \in b + 1 .. tradeSeq
         PROVE  \/ \E i \in DOMAIN new : new[i] = m
                \/ \E u \in Threads : Owes(u, h)' /\ Num(u)' = m
    <3>1. CASE m = k
      BY <2>3, <3>1
    <3>2. CASE \E i \in DOMAIN got : got[i] = m
      BY <2>3, <3>2
    <3>3. CASE m # k /\ \E u \in Threads : Owes(u, h) /\ Num(u) = m
      BY <2>5, <2>6, <3>3 DEF k
    <3> QED  BY <2>1, <3>1, <3>2, <3>3
  <2> HIDE DEF new
  <2>12. tradeSeq' = tradeSeq
    BY <1>1
  <2> QED  BY <2>7, <2>8, <2>9, <2>10, <2>11, <2>12 DEF Account, new
<1>14. Accounts'
  <2> SUFFICES ASSUME NEW c \in Clients
               PROVE  /\ Never(c)' => client'[c].trades = << >>
                      /\ Once(c)' => /\ client'[c].since \in 0 .. tradeSeq'
                                      /\ Account(c, client[c].since)'
    BY DEF Accounts
  <2>6. PICK b : b = client[c].since
    OBVIOUS
  <2>3. /\ Never(c) => client[c].trades = << >>
        /\ Once(c) => b \in 0 .. tradeSeq /\ Account(c, b)
    BY <2>6 DEF DeliveryInv, Accounts
  <2>4. client'[c].since = b
    BY <1>3, <2>6
  <2>5. Account(c, b)' => Account(c, client[c].since)'
    BY <2>4 DEF Account
  <2>1. CASE c # h
    BY <1>1, <1>3, <1>5, <1>12, <2>1, <2>3, <2>4, <2>5
  <2>2. CASE c = h
    <3>1. ~Never(h)
      BY <1>3, <1>7 DEF DeliveryInv, CallbacksOK
    <3> QED  BY <1>1, <1>5, <1>13, <2>2, <2>3, <2>4, <2>5, <3>1
  <2> QED  BY <2>1, <2>2
<1> QED  BY <1>11, <1>14

\* ... and every step keeps it.
LEMMA DeliveryStep ==
  ASSUME TypeOK, DeliveryInv, [Next]_vars
  PROVE  DeliveryInv'
<1>1. Publishing'
  BY PublishingStep DEF DeliveryInv
<1> QED  BY <1>1, OthersApart, ApartKeeps, SubscribeKeeps, PublishKeeps, NotifyKeeps
            DEF DeliveryInv

\* A list without repetitions of the numbers from a + 1 to b has b - a entries.
LEMMA CountOfAll ==
  ASSUME NEW a \in Nat, NEW b \in Nat, a <= b, NEW s \in Seq(Nat),
         \A i \in DOMAIN s : s[i] \in a + 1 .. b,
         \A i, j \in DOMAIN s : s[i] = s[j] => i = j,
         \A n \in a + 1 .. b : \E i \in DOMAIN s : s[i] = n
  PROVE  Len(s) = b - a
<1>1. Len(s) \in Nat /\ DOMAIN s = 1 .. Len(s) /\ s \in [1 .. Len(s) -> Nat]
  BY LenProperties
<1>2. s \in Bijection(1 .. Len(s), a + 1 .. b)
  BY <1>1 DEF Bijection, Injection, Surjection, IsInjective
<1>3. IsFiniteSet(1 .. Len(s)) /\ Cardinality(1 .. Len(s)) = Len(s)
  <2>1. 1 \in Int /\ Len(s) \in Int
    BY <1>1
  <2>2. /\ IsFiniteSet(1 .. Len(s))
        /\ Cardinality(1 .. Len(s)) = IF 1 > Len(s) THEN 0 ELSE Len(s) - 1 + 1
    BY ONLY <2>1, FS_Interval
  <2> QED  BY ONLY <1>1, <2>2
<1>4. Cardinality(a + 1 .. b) = Len(s)
  BY <1>2, <1>3, FS_Bijection DEF ExistsBijection
<1>5. Cardinality(a + 1 .. b) = b - a
  <2>1. a + 1 \in Int /\ b \in Int
    OBVIOUS
  <2>2. Cardinality(a + 1 .. b) = IF a + 1 > b THEN 0 ELSE b - (a + 1) + 1
    BY ONLY <2>1, FS_Interval
  <2> HIDE DEF Cardinality
  <2> QED  BY <2>2
<1> QED  BY <1>4, <1>5

\* However many threads publish at once, a client that subscribed once has got
\* every trade published since it subscribed, each of them once, and none from
\* before, whenever no call is in progress.
THEOREM TradesDelivered == Spec => []NoTradeMissed
<1>1. Init => DeliveryInv
  BY DeliveryInit
<1>2. TypeOK /\ DeliveryInv /\ [Next]_vars => DeliveryInv'
  BY DeliveryStep
<1>3. TypeOK /\ DeliveryInv => NoTradeMissed
  <2> SUFFICES ASSUME TypeOK, DeliveryInv, Quiet, NEW c \in Clients,
                      Cardinality({i \in DOMAIN subscribers.trades :
                                      subscribers.trades[i] = c}) = 1
               PROVE  /\ ToSet(client[c].trades) = client[c].since + 1 .. tradeSeq
                      /\ Len(client[c].trades) = tradeSeq - client[c].since
    BY DEF NoTradeMissed
  <2>1. Once(c)
    <3> DEFINE S == {i \in DOMAIN subscribers.trades : subscribers.trades[i] = c}
    <3>1. S \subseteq 1 .. Len(subscribers.trades) /\ Len(subscribers.trades) \in Nat
      BY DEF TypeOK
    <3>2. IsFiniteSet(S)
      BY <3>1, FS_Interval, FS_Subset
    <3>3. PICK p : S = {p}
      BY <3>2, FS_Singleton
    <3> QED  BY <3>3 DEF Once
  <2> DEFINE b == client[c].since
  <2>2. b \in 0 .. tradeSeq /\ Account(c, b)
    BY <2>1 DEF DeliveryInv, Accounts
  <2>3. \A t \in Threads : ~Owes(t, c)
    BY DEF Quiet, Owes
  <2> DEFINE got == client[c].trades
  <2>4. got \in Seq(Nat) /\ tradeSeq \in Nat
    BY DEF TypeOK, Client
  <2>5. /\ \A i \in DOMAIN got : got[i] \in b + 1 .. tradeSeq
        /\ \A i, j \in DOMAIN got : got[i] = got[j] => i = j
        /\ \A n \in b + 1 .. tradeSeq : \E i \in DOMAIN got : got[i] = n
    BY <2>2, <2>3 DEF Account
  <2> HIDE DEF got
  <2>6. Len(got) = tradeSeq - b
    <3>1. b \in Nat /\ b <= tradeSeq
      BY <2>2, <2>4
    <3> QED  BY <2>4, <2>5, <3>1, CountOfAll
  <2>7. ToSet(got) = b + 1 .. tradeSeq
    BY <2>5 DEF ToSet
  <2> QED  BY <2>6, <2>7 DEF got
<1> QED  BY <1>1, <1>2, <1>3, TypeCorrect, PTL DEF Spec

----------------------------------------------------------------------------
(* The order of the trade feed, with one thread *)

\* The calls that do not publish trades, and what they leave alone.
LEMMA OtherThreads ==
  ASSUME thr \in [Threads -> Thread], NEW t \in Threads,
         \/ \E o \in SubmittableTriggers : SubmitTrigger(t, o)
         \/ \E id \in Ids : CancelTheOrder(t, id)
         \/ \E id \in Ids, q \in ModifyQtys : ModifyTheOrder(t, id, q)
         \/ \E c \in Clients : SubscribeToTrades(t, c) \/ SubscribeToMarketData(t, c)
         \/ GetMarketData(t) \/ PublishMarketData(t)
         \/ ReadSnapshot(t) \/ SendFirstSnapshot(t)
  PROVE  /\ tradeSeq' = tradeSeq
         /\ thr[t].pc \notin {"publish", "notify"} /\ thr'[t].pc \notin {"publish", "notify"}
         /\ \A u \in Threads : u # t => thr'[u] = thr[u]
<1>1. /\ thr[t].pc \notin {"publish", "notify"} /\ tradeSeq' = tradeSeq
      /\ \/ thr' = thr
         \/ thr' = [thr EXCEPT ![t].pc = "read"]
         \/ \E d : thr' = [thr EXCEPT ![t].pc = "diff", ![t].update = d]
         \/ \E d : thr' = [thr EXCEPT ![t].pc = "send", ![t].update = d]
         \/ \E c : thr' = [thr EXCEPT ![t].pc = "snapshot", ![t].callbacks = <<c>>]
         \/ thr' = [thr EXCEPT ![t] = Idle]
  BY DEF SubmitTrigger, CancelTheOrder, ModifyTheOrder, SubscribeToTrades,
              SubscribeToMarketData, Goto, GetMarketData, PublishMarketData, ReadSnapshot,
              SendFirstSnapshot, MayStart, feedVars
<1>2. thr'[t].pc \notin {"publish", "notify"} /\ \A u \in Threads : u # t => thr'[u] = thr[u]
  <2>1. ASSUME NEW c, thr' = [thr EXCEPT ![t].pc = "snapshot", ![t].callbacks = <<c>>]
        PROVE  thr'[t].pc \notin {"publish", "notify"} /\ \A u \in Threads : u # t => thr'[u] = thr[u]
    BY <2>1 DEF Thread
  <2>2. ASSUME NEW d, \/ thr' = [thr EXCEPT ![t].pc = "diff", ![t].update = d]
                      \/ thr' = [thr EXCEPT ![t].pc = "send", ![t].update = d]
        PROVE  thr'[t].pc \notin {"publish", "notify"} /\ \A u \in Threads : u # t => thr'[u] = thr[u]
    BY <2>2 DEF Thread
  <2>3. CASE thr' = [thr EXCEPT ![t] = Idle]
    BY <2>3 DEF Idle
  <2>4. CASE thr' = thr \/ thr' = [thr EXCEPT ![t].pc = "read"]
    BY <1>1, <2>4 DEF Thread
  <2> QED  BY <1>1, <2>1, <2>2, <2>3, <2>4
<1> QED  BY <1>1, <1>2, Zenon

\* The first of its trades that r has still to publish.
FirstLeft(r) == IF r.pc = "publish" THEN 1 ELSE 2

\* The trades that r has still to publish come after those of the history, in
\* the order in which they were made.
Following(r, list, n) ==
    r.pc \in {"publish", "notify"} =>
        \A k \in DOMAIN r.trades : k >= FirstLeft(r) =>
            /\ r.trades[k].tradeId <= n
            /\ \A i \in DOMAIN list : list[i].tradeId < r.trades[k].tradeId
            /\ \A l \in DOMAIN r.trades : k < l => r.trades[k].tradeId < r.trades[l].tradeId

\* The inductive invariant behind TradesInOrder.
OrderInv ==
    /\ TradesInOrder
    /\ \A i \in DOMAIN history : history[i].tradeId <= tradeIds
    /\ \A t \in Threads : Following(thr[t], history, tradeIds)

\* A list in order stays in order without its first entry and with a later one.
Ascending(list) ==
    \A i, j \in DOMAIN list : i < j => list[i].tradeId < list[j].tradeId

\* Steps that leave the history alone, and start no trades.
LEMMA OrderKept ==
  ASSUME OrderInv, TypeInv, TypeInv', history' = history, tradeIds' >= tradeIds,
         \A u \in Threads : \/ thr'[u].pc \notin {"publish", "notify"}
                            \/ thr'[u].pc = thr[u].pc /\ thr'[u].trades = thr[u].trades
  PROVE  OrderInv'
<1>1. /\ tradeIds \in Nat /\ tradeIds' \in Nat /\ history \in Seq(Published)
      /\ thr \in [Threads -> Thread]
  BY DEF TypeInv, TypeOK
<1>2. ASSUME NEW i \in DOMAIN history
      PROVE  history[i].tradeId <= tradeIds'
  <2>1. history[i] \in Published
    BY <1>1
  <2>2. history[i].tradeId \in Nat /\ history[i].tradeId <= tradeIds
    BY <2>1 DEF Published, OrderInv
  <2> QED  BY <1>1, <2>2
<1>3. ASSUME NEW u \in Threads
      PROVE  Following(thr'[u], history', tradeIds')
  <2> SUFFICES ASSUME thr'[u].pc \in {"publish", "notify"},
                      NEW k \in DOMAIN thr'[u].trades, k >= FirstLeft(thr'[u])
               PROVE  /\ thr'[u].trades[k].tradeId <= tradeIds'
                      /\ \A i \in DOMAIN history' :
                            history'[i].tradeId < thr'[u].trades[k].tradeId
                      /\ \A l \in DOMAIN thr'[u].trades :
                            k < l => thr'[u].trades[k].tradeId < thr'[u].trades[l].tradeId
    BY DEF Following
  <2>1. thr'[u].pc = thr[u].pc /\ thr'[u].trades = thr[u].trades
    OBVIOUS
  <2>2. thr[u].pc \in {"publish", "notify"} /\ k \in DOMAIN thr[u].trades /\ k >= FirstLeft(thr[u])
    BY <2>1 DEF FirstLeft
  <2>3. /\ thr[u].trades[k].tradeId <= tradeIds
        /\ \A i \in DOMAIN history : history[i].tradeId < thr[u].trades[k].tradeId
        /\ \A l \in DOMAIN thr[u].trades :
              k < l => thr[u].trades[k].tradeId < thr[u].trades[l].tradeId
    BY <2>2 DEF OrderInv, Following
  <2>4. thr[u].trades[k].tradeId \in Nat
    <3>1. thr[u].trades \in Seq(Published)
      BY <1>1 DEF Thread
    <3>2. thr[u].trades[k] \in Published
      BY <2>2, <3>1
    <3> QED  BY <3>2 DEF Published
  <2> QED  BY <1>1, <2>1, <2>3, <2>4
<1> QED  BY <1>2, <1>3 DEF OrderInv, TradesInOrder

\* The trade that is published becomes the last of the history.
LEMMA OrderPublished ==
  ASSUME NEW list \in Seq(Published), Ascending(list), NEW x \in Published,
         \A i \in DOMAIN list : list[i].tradeId < x.tradeId,
         NEW new, new = IF Len(list) = HistoryCap THEN Append(Tail(list), x) ELSE Append(list, x)
  PROVE  /\ Ascending(new)
         /\ \A i \in DOMAIN new : new[i] = x \/ \E j \in DOMAIN list : new[i] = list[j]
<1> DEFINE n == Len(list)
<1>0. n \in Nat /\ DOMAIN list = 1 .. n
  BY LenProperties
<1>1. CASE n = HistoryCap
  <2>0. list # << >> /\ n > 0
    BY <1>0, <1>1, EngineAssumption
  <2>1. /\ Tail(list) \in Seq(Published) /\ Len(Tail(list)) = n - 1
        /\ \A i \in 1 .. n - 1 : Tail(list)[i] = list[i + 1]
    BY <2>0
  <2>2. new = Append(Tail(list), x)
    BY <1>1
  <2>3. /\ DOMAIN new = 1 .. n /\ new[n] = x
        /\ \A i \in 1 .. n - 1 : new[i] = list[i + 1]
    <3> DEFINE rest == Tail(list)
    <3> HIDE DEF rest, n
    <3>1. /\ rest \in Seq(Published) /\ Len(rest) = n - 1 /\ n \in Nat
          /\ new = Append(rest, x)
      BY <1>0, <2>1, <2>2 DEF rest
    <3>2. /\ new \in Seq(Published) /\ Len(new) = n /\ new[n] = x
          /\ \A i \in 1 .. n - 1 : new[i] = rest[i]
      BY ONLY <3>1, AppendProperties, x \in Published
    <3>3. DOMAIN new = 1 .. n
      BY <3>2, LenProperties
    <3> QED  BY <2>1, <3>2, <3>3 DEF rest
  <2> HIDE DEF n
  <2>4. ASSUME NEW i \in 1 .. n, NEW j \in 1 .. n, i < j
        PROVE  new[i].tradeId < new[j].tradeId
    <3>1. i \in 1 .. n - 1 /\ i + 1 \in DOMAIN list /\ new[i] = list[i + 1]
      BY <1>0, <2>3, <2>4
    <3>2. CASE j = n
      BY <2>3, <3>1, <3>2, Zenon
    <3>3. CASE j # n
      <4>1. j + 1 \in DOMAIN list /\ new[j] = list[j + 1] /\ i + 1 < j + 1
        BY <1>0, <2>3, <2>4, <3>3
      <4> QED  BY <3>1, <4>1 DEF Ascending
    <3> QED  BY <3>2, <3>3
  <2>5. \A i \in DOMAIN new : new[i] = x \/ \E j \in DOMAIN list : new[i] = list[j]
    <3> SUFFICES ASSUME NEW i \in 1 .. n, i # n PROVE \E j \in DOMAIN list : new[i] = list[j]
      BY <2>3
    <3>1. i \in 1 .. n - 1 /\ i + 1 \in DOMAIN list
      BY <1>0
    <3> QED  BY <2>3, <3>1
  <2> QED  BY <2>3, <2>4, <2>5 DEF Ascending
<1>2. CASE n # HistoryCap
  <2>1. new = Append(list, x)
    BY <1>2
  <2>2. /\ DOMAIN new = 1 .. n + 1 /\ new[n + 1] = x /\ \A i \in 1 .. n : new[i] = list[i]
    <3>1. /\ new \in Seq(Published) /\ Len(new) = n + 1 /\ new[n + 1] = x
          /\ \A i \in 1 .. n : new[i] = list[i]
      <4> HIDE DEF n
      <4>1. n = Len(list) /\ x \in Published /\ list \in Seq(Published)
        BY DEF n
      <4> QED  BY ONLY <2>1, <4>1, AppendProperties
    <3> QED  BY <3>1, LenProperties
  <2> HIDE DEF n
  <2>3. ASSUME NEW i \in 1 .. n + 1, NEW j \in 1 .. n + 1, i < j
        PROVE  new[i].tradeId < new[j].tradeId
    <3>1. i \in 1 .. n /\ new[i] = list[i] /\ i \in DOMAIN list
      BY <1>0, <2>2, <2>3
    <3>2. CASE j = n + 1
      BY <2>2, <3>1, <3>2
    <3>3. CASE j # n + 1
      <4>1. j \in 1 .. n /\ new[j] = list[j] /\ j \in DOMAIN list
        BY <1>0, <2>2, <2>3, <3>3
      <4> QED  BY <2>3, <3>1, <4>1 DEF Ascending
    <3> QED  BY <3>2, <3>3
  <2>4. \A i \in DOMAIN new : new[i] = x \/ \E j \in DOMAIN list : new[i] = list[j]
    <3> SUFFICES ASSUME NEW i \in 1 .. n + 1, i # n + 1 PROVE \E j \in DOMAIN list : new[i] = list[j]
      BY <2>2
    <3>1. i \in 1 .. n
      BY <1>0
    <3> QED  BY <1>0, <2>2, <3>1
  <2> QED  BY <2>2, <2>3, <2>4 DEF Ascending
<1> QED  BY <1>1, <1>2

\* Every step keeps the order of the feed.
LEMMA OrderStep ==
  ASSUME OneThread, TypeInv, TypeInv', OrderInv, [Next]_vars
  PROVE  OrderInv'
<1>0. /\ TypeOK /\ Publishing
      /\ tradeIds \in Nat /\ tradeIds' \in Nat /\ history \in Seq(Published)
      /\ history' \in Seq(Published)
      /\ thr \in [Threads -> Thread] /\ thr' \in [Threads -> Thread]
  BY DEF TypeInv, TypeOK
<1>1. ASSUME NEW t \in Threads, NEW o \in Submittable, SubmitOrder(t, o)
      PROVE  OrderInv'
  <2>1. PICK made :
          /\ made = ProcessOrder(book, o).trades
          /\ tradeIds' = tradeIds + Len(made)
          /\ thr' = [thr EXCEPT ![t].pc     = IF made = << >> THEN "read" ELSE "publish",
                                ![t].trades = Numbered(made)]
          /\ history' = history
    BY <1>1, Zenon DEF SubmitOrder, feedVars
  <2>2. BookOK(book) /\ OwnIds(book)
    BY SoundOwnIds DEF TypeInv, OrdersInv
  <2>3. made \in Seq(PricedTrade)
    <3>1. o \in Order /\ (o.type = "LIMIT" => o.price \in Prices)
      BY SubmittableOK
    <3> QED  BY <2>1, <2>2, <3>1, ProcessOrderOK
  <2>4. Len(made) \in Nat /\ DOMAIN made = 1 .. Len(made)
    BY <2>3, LenProperties
  <2>5. CASE made = << >>
    <3>1. thr'[t].pc = "read" /\ \A u \in Threads : u = t
      BY <1>0, <2>1, <2>5 DEF Thread, OneThread
    <3>2. tradeIds' >= tradeIds
      BY <1>0, <2>1, <2>4
    <3> QED  BY <2>1, <3>1, <3>2, OrderKept
  <2>6. CASE made # << >>
    <3>1. thr'[t].pc = "publish" /\ thr'[t].trades = Numbered(made) /\ \A u \in Threads : u = t
      BY <1>0, <2>1, <2>6 DEF Thread, OneThread
    <3>2. /\ DOMAIN Numbered(made) = 1 .. Len(made)
          /\ \A k \in 1 .. Len(made) : Numbered(made)[k].tradeId = tradeIds + k
      BY <2>4 DEF Numbered
    <3>3. \A i \in DOMAIN history : history[i].tradeId \in Nat /\ history[i].tradeId <= tradeIds
      <4>1. \A i \in DOMAIN history : history[i] \in Published
        BY <1>0
      <4> QED  BY <4>1 DEF OrderInv, Published
    <3>4. Following(thr'[t], history', tradeIds')
      <4> SUFFICES ASSUME NEW k \in 1 .. Len(made)
                   PROVE  /\ Numbered(made)[k].tradeId <= tradeIds'
                          /\ \A i \in DOMAIN history : history[i].tradeId < Numbered(made)[k].tradeId
                          /\ \A l \in 1 .. Len(made) :
                                k < l => Numbered(made)[k].tradeId < Numbered(made)[l].tradeId
        BY <2>1, <3>1, <3>2, Zenon DEF Following
      <4> QED  BY <1>0, <2>1, <2>4, <3>2, <3>3
    <3>5. \A i \in DOMAIN history : history[i].tradeId <= tradeIds'
      BY <1>0, <2>1, <2>4, <3>3
    <3>6. \A u \in Threads : Following(thr'[u], history', tradeIds')
      BY <3>1, <3>4, Zenon
    <3> QED  BY <2>1, <3>5, <3>6 DEF OrderInv, TradesInOrder
  <2> QED  BY <2>5, <2>6
<1>2. ASSUME NEW t \in Threads, PublishTrade(t)
      PROVE  OrderInv'
  <2> DEFINE list == thr[t].trades
  <2>1. PICK trade : /\ trade.tradeId = Head(list).tradeId
                     /\ trade \in Published
                     /\ history' = IF Len(history) = HistoryCap
                                   THEN Append(Tail(history), trade) ELSE Append(history, trade)
                     /\ thr' = [thr EXCEPT ![t].trades[1] = trade, ![t].pc = "notify",
                                           ![t].callbacks = subscribers.trades]
    BY <1>0, <1>2, PublishTradeOK, ZenonT(30)
  <2>2. thr[t].pc = "publish" /\ tradeIds' = tradeIds
    BY <1>2 DEF PublishTrade, orderVars
  <2>3. list \in Seq(Published) /\ list # << >> /\ Len(list) \in Nat /\ DOMAIN list = 1 .. Len(list)
    BY <1>0, <2>2, LenProperties DEF Thread, Publishing
  <2>4. 1 \in DOMAIN list /\ Head(list) = list[1] /\ \A k \in DOMAIN list : list[k] \in Published
    BY <2>3
  <2>5. /\ thr'[t].pc = "notify" /\ thr'[t].trades = [list EXCEPT ![1] = trade]
        /\ \A u \in Threads : u = t
    BY <1>0, <2>1 DEF Thread, OneThread
  <2>6. /\ DOMAIN thr'[t].trades = DOMAIN list
        /\ \A k \in DOMAIN list : k > 1 => thr'[t].trades[k] = list[k]
    BY <2>3, <2>5
  <2>7. /\ \A k \in DOMAIN list :
              /\ list[k].tradeId <= tradeIds
              /\ \A i \in DOMAIN history : history[i].tradeId < list[k].tradeId
              /\ \A l \in DOMAIN list : k < l => list[k].tradeId < list[l].tradeId
    <3>1. Following(thr[t], history, tradeIds)
      BY DEF OrderInv
    <3>2. \A k \in DOMAIN list : k >= FirstLeft(thr[t])
      BY <2>2, <2>3 DEF FirstLeft
    <3> QED  BY <2>2, <3>1, <3>2 DEF Following
  <2>8. trade.tradeId = list[1].tradeId /\ trade.tradeId \in Nat
    BY <2>1, <2>4 DEF Published
  <2> HIDE DEF list
  <2>9. /\ Ascending(history')
        /\ \A i \in DOMAIN history' :
              history'[i] = trade \/ \E j \in DOMAIN history : history'[i] = history[j]
    <3>1. Ascending(history) /\ \A i \in DOMAIN history : history[i].tradeId < trade.tradeId
      BY <2>4, <2>7, <2>8 DEF OrderInv, TradesInOrder, Ascending
    <3>2. PICK old, new : old = history /\ new = history'
      OBVIOUS
    <3>3. /\ old \in Seq(Published) /\ Ascending(old) /\ trade \in Published
          /\ \A i \in DOMAIN old : old[i].tradeId < trade.tradeId
          /\ new = IF Len(old) = HistoryCap THEN Append(Tail(old), trade) ELSE Append(old, trade)
      BY <1>0, <2>1, <3>1, <3>2
    <3>4. Ascending(new)
      BY ONLY <3>3, OrderPublished
    <3>5. \A i \in DOMAIN new : new[i] = trade \/ \E j \in DOMAIN old : new[i] = old[j]
      BY ONLY <3>3, OrderPublished
    <3> QED  BY <3>2, <3>4, <3>5
  <2>10. \A i \in DOMAIN history' : history'[i].tradeId <= tradeIds'
    <3> SUFFICES ASSUME NEW i \in DOMAIN history' PROVE history'[i].tradeId <= tradeIds
      BY <2>2
    <3> QED  BY <2>4, <2>7, <2>8, <2>9 DEF OrderInv
  <2>11. Following(thr'[t], history', tradeIds')
    <3> SUFFICES ASSUME NEW k \in DOMAIN list, k > 1
                 PROVE  /\ list[k].tradeId <= tradeIds
                        /\ \A i \in DOMAIN history' : history'[i].tradeId < list[k].tradeId
                        /\ \A l \in DOMAIN list : k < l => list[k].tradeId < list[l].tradeId
      <4>1. \A k \in DOMAIN list : k >= FirstLeft(thr'[t]) => k > 1
        BY <2>3, <2>5 DEF FirstLeft
      <4>2. \A k, l \in DOMAIN list : k > 1 /\ k < l => l > 1
        BY <2>3
      <4> QED  BY <2>2, <2>6, <4>1, <4>2 DEF Following
    <3>1. ASSUME NEW i \in DOMAIN history'
          PROVE  history'[i].tradeId < list[k].tradeId
      <4>1. CASE history'[i] = trade
        BY <2>4, <2>7, <2>8, <4>1
      <4>2. CASE \E j \in DOMAIN history : history'[i] = history[j]
        BY <2>7, <4>2
      <4> QED  BY <2>9, <4>1, <4>2
    <3> QED  BY <2>7, <3>1
  <2>12. \A u \in Threads : Following(thr'[u], history', tradeIds')
    BY <2>5, <2>11, Zenon
  <2> QED  BY <2>9, <2>10, <2>12 DEF OrderInv, TradesInOrder, Ascending
<1>3. ASSUME NEW t \in Threads, CheckTriggers(t)
      PROVE  OrderInv'
  <2> DEFINE list == thr[t].trades
             made == Checked(book, triggers, Head(list).price, Len(triggers)).made
  <2>1. /\ thr' = [thr EXCEPT ![t].trades = Tail(@),
                   ![t].pc = IF Len(thr[t].trades) = 1 THEN "read" ELSE "publish"]
        /\ thr[t].pc = "notify" /\ history' = history /\ tradeIds' = tradeIds + made
    BY <1>3, Zenon DEF CheckTriggers, feedVars
  <2>2. made \in Nat
    <3>1. SomeChecked(book, triggers, Head(list).price, Len(triggers),
                      Checked(book, triggers, Head(list).price, Len(triggers)))
      BY AllChecked DEF TypeInv, OrdersInv
    <3> QED  BY <3>1, Zenon DEF SomeChecked
  <2>3. tradeIds' >= tradeIds
    <3> HIDE DEF made
    <3> QED  BY <1>0, <2>1, <2>2
  <2>4. /\ list \in Seq(Published) /\ list # << >> /\ Len(list) \in Nat
        /\ DOMAIN list = 1 .. Len(list)
        /\ Tail(list) \in Seq(Published) /\ Len(Tail(list)) = Len(list) - 1
        /\ \A k \in 1 .. Len(list) - 1 : Tail(list)[k] = list[k + 1]
    BY <1>0, <2>1, LenProperties DEF Thread, Publishing
  <2>5. CASE Len(list) = 1
    <3>1. thr'[t].pc = "read" /\ \A u \in Threads : u = t
      BY <1>0, <2>1, <2>5 DEF Thread, OneThread
    <3> QED  BY <2>1, <2>3, <3>1, OrderKept, Zenon
  <2>6. CASE Len(list) # 1
    <3>1. thr'[t].pc = "publish" /\ thr'[t].trades = Tail(list) /\ \A u \in Threads : u = t
      BY <1>0, <2>1, <2>6 DEF Thread, OneThread
    <3> HIDE DEF list, made
    <3>2. DOMAIN Tail(list) = 1 .. Len(list) - 1
      BY <2>4, LenProperties
    <3>3. ASSUME NEW k \in 1 .. Len(list) - 1
          PROVE  /\ Tail(list)[k].tradeId <= tradeIds
                 /\ \A i \in DOMAIN history : history[i].tradeId < Tail(list)[k].tradeId
                 /\ \A l \in 1 .. Len(list) - 1 :
                       k < l => Tail(list)[k].tradeId < Tail(list)[l].tradeId
      <4>1. Following(thr[t], history, tradeIds)
        BY DEF OrderInv
      <4>2. \A l \in 1 .. Len(list) - 1 : l + 1 \in DOMAIN list /\ l + 1 >= FirstLeft(thr[t])
        BY <2>1, <2>4 DEF FirstLeft
      <4>3. /\ list[k + 1].tradeId <= tradeIds
            /\ \A i \in DOMAIN history : history[i].tradeId < list[k + 1].tradeId
            /\ \A l \in DOMAIN list : k + 1 < l => list[k + 1].tradeId < list[l].tradeId
        BY <2>1, <4>1, <4>2 DEF Following, list
      <4>4. \A l \in 1 .. Len(list) - 1 : k < l => k + 1 < l + 1
        BY <2>4
      <4> QED  BY <2>4, <4>2, <4>3, <4>4
    <3>4. ASSUME NEW k \in 1 .. Len(list) - 1
          PROVE  Tail(list)[k].tradeId <= tradeIds'
      <4>1. Tail(list)[k] \in Published
        BY <2>4, <3>2, ElementOfSeq
      <4>2. Tail(list)[k].tradeId \in Nat
        BY <4>1 DEF Published
      <4> QED  BY <1>0, <2>3, <3>3, <4>2
    <3>5. Following(thr'[t], history', tradeIds')
      BY <2>1, <3>1, <3>2, <3>3, <3>4 DEF Following
    <3>6. \A u \in Threads : Following(thr'[u], history', tradeIds')
      BY <3>1, <3>5, Zenon
    <3>7. \A i \in DOMAIN history : history[i].tradeId <= tradeIds'
      <4> SUFFICES ASSUME NEW i \in DOMAIN history PROVE history[i].tradeId <= tradeIds'
        OBVIOUS
      <4>1. history[i] \in Published
        BY <1>0
      <4>2. history[i].tradeId \in Nat /\ history[i].tradeId <= tradeIds
        BY <4>1 DEF Published, OrderInv
      <4> QED  BY <1>0, <2>3, <4>2
    <3> QED  BY <2>1, <3>6, <3>7 DEF OrderInv, TradesInOrder
  <2> QED  BY <2>5, <2>6
<1>4. ASSUME NEW t \in Threads, NotifyTrade(t)
      PROVE  OrderInv'
  <2>1. thr' = [thr EXCEPT ![t].callbacks = Tail(@)] /\ history' = history /\ tradeIds' = tradeIds
    BY <1>4 DEF NotifyTrade, feedVars, orderVars
  <2>2. \A u \in Threads : thr'[u].pc = thr[u].pc /\ thr'[u].trades = thr[u].trades
    BY <1>0, <2>1 DEF Thread
  <2>3. tradeIds' >= tradeIds
    BY <1>0, <2>1
  <2> QED  BY <2>1, <2>2, <2>3, OrderKept
<1>5. ASSUME NEW t \in Threads,
             \/ \E o \in SubmittableTriggers : SubmitTrigger(t, o)
             \/ \E id \in Ids : CancelTheOrder(t, id)
             \/ \E id \in Ids, q \in ModifyQtys : ModifyTheOrder(t, id, q)
             \/ \E c \in Clients : SubscribeToTrades(t, c) \/ SubscribeToMarketData(t, c)
             \/ GetMarketData(t) \/ PublishMarketData(t)
             \/ ReadSnapshot(t) \/ SendFirstSnapshot(t)
      PROVE  OrderInv'
  <2>1. history' = history /\ tradeIds' = tradeIds
    BY <1>5, Zenon DEF SubmitTrigger, CancelTheOrder, ModifyTheOrder, SubscribeToTrades,
                SubscribeToMarketData, GetMarketData, PublishMarketData, ReadSnapshot,
                SendFirstSnapshot, feedVars, orderVars
  <2>2. \A u \in Threads : \/ thr'[u].pc \notin {"publish", "notify"}
                           \/ thr'[u].pc = thr[u].pc /\ thr'[u].trades = thr[u].trades
    BY <1>0, <1>5, OtherThreads
  <2>3. tradeIds' >= tradeIds
    BY <1>0, <2>1
  <2> QED  BY <2>1, <2>2, <2>3, OrderKept
<1>6. CASE UNCHANGED vars
  <2>1. tradeIds' >= tradeIds
    BY <1>0, <1>6 DEF vars, orderVars
  <2> QED  BY <1>6, <2>1, OrderKept DEF vars, feedVars
<1> QED  BY <1>1, <1>2, <1>3, <1>4, <1>5, <1>6 DEF Next, Call, InCall

\* With one thread, the trade feed shows the trades in the order in which they
\* were executed.
THEOREM FeedInOrder == OneThread => (Spec => []TradesInOrder)
<1> SUFFICES ASSUME OneThread PROVE Spec => []TradesInOrder
  OBVIOUS
<1>1. Init => OrderInv
  BY DEF Init, OrderInv, TradesInOrder, Following, Idle
<1>2. TypeInv /\ TypeInv' /\ OrderInv /\ [Next]_vars => OrderInv'
  BY OrderStep
<1>3. OrderInv => TradesInOrder
  BY DEF OrderInv
<1> QED  BY <1>1, <1>2, <1>3, TypesHold, PTL DEF Spec
=============================================================================
