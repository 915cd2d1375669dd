-------------------------- MODULE MatchingProofs ---------------------------
(***************************************************************************)
(* Theorems about Matching, for every set of ids, prices and quantities,   *)
(* every mix of order types and every number of orders.                    *)
(***************************************************************************)
EXTENDS OrderBookProofs, AtomicCalls

----------------------------------------------------------------------------
(* Types *)

\* The call's references are to order objects, and the incoming order of a
\* call in progress is not in the book.
CallOK ==
    /\ call \in Call
    /\ call.taker # NoOrder => call.taker \in DOMAIN book.orders
    /\ call.todo \subseteq DOMAIN book.orders
    /\ trades \in Seq(Trade)
    /\ call.phase # "idle" => /\ call.taker # NoOrder
                              /\ call.taker \notin book.linked
                              /\ \A i \in Ids : book.orderMap[i] # call.taker

TypeInv == BookOK(book) /\ CallOK

LEMMA TypeInvInit == Init => TypeInv
<1> SUFFICES ASSUME Init PROVE TypeInv
  OBVIOUS
<1>1. book \in Book
  <2>1. << >> \in Seq(Order)  BY EmptySeq
  <2>2. {} \in SUBSET (Nat \ {0})  OBVIOUS
  <2> QED  BY <2>1, <2>2 DEF Init, EmptyBook, Book, NoOrder
<1>2. BookOK(book)
  BY <1>1 DEF Init, EmptyBook, BookOK, NoOrder
<1>3. CallOK
  <2>1. << >> \in Seq(Trade)  BY EmptySeq
  <2> QED  BY <2>1 DEF Init, NoCall, Call, CallOK, NoOrder
<1> QED  BY <1>2, <1>3 DEF TypeInv

\* The orders a client may send are orders; those that may rest are priced.
LEMMA SubmittableOK ==
  ASSUME NEW o \in Submittable
  PROVE  o \in Order /\ (o.type = "LIMIT" => o.price \in Prices) /\ o.quantity \in Nat \ {0}
BY InputAssumption DEF Submittable, Order

LEMMA SubmitTypeInv ==
  ASSUME TypeInv, NEW o \in Submittable, Submit(o)
  PROVE  TypeInv'
<1> DEFINE n == Len(book.orders) + 1
<1>1. o \in Order /\ (o.type = "LIMIT" => o.price \in Prices) /\ o.quantity \in Nat
  BY SubmittableOK
<1>2. BookOK(book) /\ book' = NewOrder(book, o)
  BY DEF TypeInv, Submit
<1>3. /\ BookOK(book') /\ book'.linked = book.linked /\ book'.orderMap = book.orderMap
      /\ DOMAIN book'.orders = 1 .. n
  BY <1>1, <1>2, NewOrderOK
<1>4. DOMAIN book.orders = 1 .. Len(book.orders) /\ Len(book.orders) \in Nat
  BY <1>2, OrdersDomain DEF BookOK
<1>5. n \in DOMAIN book'.orders /\ n \notin DOMAIN book.orders /\ n # NoOrder /\ n \in Nat
  BY <1>3, <1>4 DEF NoOrder
<1>6. /\ call'.phase \in {"head", "collect"} /\ call'.taker = n /\ call'.todo = {}
      /\ call' \in Call
  BY <1>1, <1>5 DEF Submit, Call
<1>7. n \notin book.linked /\ \A i \in Ids : book.orderMap[i] # n
  BY <1>2, <1>5 DEF BookOK
<1>8. trades' \in Seq(Trade)
  BY EmptySeq DEF Submit
<1>9. CallOK'
  BY <1>3, <1>5, <1>6, <1>7, <1>8 DEF CallOK
<1> QED  BY <1>3, <1>9 DEF TypeInv

LEMMA CancelTypeInv ==
  ASSUME TypeInv, NEW id \in Ids, Cancel(id)
  PROVE  TypeInv'
<1>1. BookOK(book')  /\ book'.orders = book.orders
  BY CancelOrderOK DEF TypeInv, Cancel
<1>2. CallOK'
  BY <1>1 DEF TypeInv, CallOK, Cancel
<1> QED  BY <1>1, <1>2 DEF TypeInv

\* A modify request either does nothing or is the one of ModifyOrderOK.
LEMMA ModifyTypeInv ==
  ASSUME TypeInv, NEW id \in Ids, NEW q \in ModifyQtys, Modify(id, q)
  PROVE  TypeInv'
<1>1. BookOK(book') /\ DOMAIN book'.orders = DOMAIN book.orders
  <2>1. CASE LevelOf(book, book.orderMap[id]) = {}
    BY <2>1 DEF Modify, ModifyOrder, TypeInv
  <2>2. CASE LevelOf(book, book.orderMap[id]) # {}
    <3>1. q \in Nat  BY InputAssumption
    <3>2. BookOK(book') /\ SameOrders(book, book')
      BY <2>2, <3>1, ModifyOrderOK DEF TypeInv, Modify
    <3> QED  BY <3>2 DEF SameOrders
  <2> QED  BY <2>1, <2>2
<1>2. CallOK'
  BY <1>1 DEF TypeInv, CallOK, Modify
<1> QED  BY <1>1, <1>2 DEF TypeInv

\* The quantity of a trade.
LEMMA TradeQuantity ==
  ASSUME TypeInv, NEW r \in call.todo
  PROVE  LET qty == Smaller(call.remaining, book.orders[r].quantity) IN
         /\ book.orders[r] \in Order
         /\ qty \in Nat
         /\ call.remaining - qty \in Nat
         /\ qty = book.orders[r].quantity \/ call.remaining - qty = 0
<1>1. r \in DOMAIN book.orders  BY DEF TypeInv, CallOK
<1>2. book.orders[r] \in Order  BY <1>1, OrdersDomain DEF TypeInv, BookOK
<1>3. book.orders[r].quantity \in Nat /\ call.remaining \in Nat
  BY <1>2 DEF Order, TypeInv, CallOK, Call
<1> QED  BY <1>2, <1>3, SmallerOK

LEMMA ExecuteTradeTypeInv ==
  ASSUME TypeInv, NEW r \in call.todo, ExecuteTrade(r)
  PROVE  TypeInv'
<1> DEFINE qty == Smaller(call.remaining, book.orders[r].quantity)
           m == DecreaseOrderQuantity(book, book.orders[r].id, qty)
<1>1. /\ book.orders[r] \in Order /\ qty \in Nat /\ call.remaining - qty \in Nat
  BY TradeQuantity
<1>2. call.taker \in DOMAIN book.orders /\ call.phase = "fill"
  BY DEF TypeInv, CallOK, ExecuteTrade
<1>3. Taker \in Order
  BY <1>2, OrdersDomain DEF TypeInv, BookOK, Taker
<1>4. book.orders[r].id \in Ids /\ Taker.id \in Ids /\ book.orders[r].price \in Nat
  <2>1. book.orders[r].price \in Prices \cup {0}  BY <1>1 DEF Order
  <2>2. book.orders[r].price \in Nat  BY <2>1, PricesAssumption
  <2> QED  BY <1>1, <1>3, <2>2 DEF Order
<1>5. /\ BookOK(m) /\ SameOrders(book, m) /\ m.linked \subseteq book.linked
      /\ \A i \in Ids : m.orderMap[i] = NoOrder \/ m.orderMap[i] = book.orderMap[i]
  BY <1>1, <1>4, DecreaseType, Zenon DEF TypeInv
<1>6. book' = DecreaseOrderQuantity(m, Taker.id, qty)
  BY DEF ExecuteTrade
<1> HIDE DEF m
<1>7. /\ BookOK(book') /\ SameOrders(m, book') /\ book'.linked \subseteq m.linked
      /\ \A i \in Ids : book'.orderMap[i] = NoOrder \/ book'.orderMap[i] = m.orderMap[i]
  BY <1>1, <1>4, <1>5, <1>6, DecreaseType, ZenonT(40)
<1>8. call' \in Call /\ call'.taker = call.taker /\ call'.todo \subseteq call.todo
      /\ call'.phase = "fill"
  BY <1>1, <1>2, Zenon DEF ExecuteTrade, Call, TypeInv, CallOK
<1>9. trades' \in Seq(Trade)
  <2>1. [price |-> book.orders[r].price, quantity |-> qty,
         makerOrderId |-> book.orders[r].id, takerOrderId |-> Taker.id] \in Trade
    BY <1>1, <1>4 DEF Trade
  <2>2. trades \in Seq(Trade)  BY DEF TypeInv, CallOK
  <2> QED  BY <2>1, <2>2, AppendProperties DEF ExecuteTrade
<1>10. CallOK'
  BY <1>2, <1>5, <1>7, <1>8, <1>9 DEF TypeInv, CallOK, SameOrders
<1> QED  BY <1>7, <1>10 DEF TypeInv

\* The book after Finish: as it is, or with the remainder linked.
LEMMA FinishBook ==
  ASSUME TypeInv, Finish
  PROVE  \/ book' = book
         \/ LET c == [book EXCEPT !.orders[call.taker].quantity = call.remaining] IN
            /\ Taker.type = "LIMIT" /\ call.remaining > 0 /\ ~LoopCondition
            /\ call.taker \in DOMAIN book.orders
            /\ call.remaining \in Nat
            /\ BookOK(c) /\ SameOrders(book, c)
            /\ c.orders[call.taker].type = "LIMIT"
            /\ book' = AddOrder(c, call.taker)
<1>1. call.taker \in DOMAIN book.orders /\ call.remaining \in Nat
  BY DEF TypeInv, CallOK, Finish, Call
<1> DEFINE c == [book EXCEPT !.orders[call.taker].quantity = call.remaining]
<1>2. CASE Taker.type = "LIMIT" /\ call.remaining > 0
  <2>1. BookOK(c) /\ SameOrders(book, c)
    BY <1>1, SetQuantityOK DEF TypeInv
  <2>2. book' = AddOrder(c, call.taker) /\ ~LoopCondition
    BY <1>2 DEF Finish
  <2> HIDE DEF c
  <2>3. c.orders[call.taker].type = "LIMIT"
    BY <1>1, <1>2, <2>1 DEF SameOrders, Taker
  <2>4. /\ Taker.type = "LIMIT" /\ call.remaining > 0 /\ ~LoopCondition
        /\ call.taker \in DOMAIN book.orders
        /\ call.remaining \in Nat
        /\ BookOK(c) /\ SameOrders(book, c)
        /\ c.orders[call.taker].type = "LIMIT"
        /\ book' = AddOrder(c, call.taker)
    BY <1>1, <1>2, <2>1, <2>2, <2>3
  <2> QED  BY <2>4 DEF c
<1>3. CASE ~(Taker.type = "LIMIT" /\ call.remaining > 0)
  BY <1>3 DEF Finish
<1> QED  BY <1>2, <1>3

LEMMA FinishTypeInv ==
  ASSUME TypeInv, Finish
  PROVE  TypeInv'
<1>1. /\ call' \in Call /\ call'.phase = "idle" /\ call'.taker = call.taker
      /\ call'.todo = call.todo /\ trades' = trades
  BY DEF TypeInv, CallOK, Finish, Call
<1>2. BookOK(book') /\ DOMAIN book'.orders = DOMAIN book.orders
  <2>1. CASE book' = book
    BY <2>1 DEF TypeInv
  <2>2. CASE book' # book
    <3> DEFINE c == [book EXCEPT !.orders[call.taker].quantity = call.remaining]
    <3>1. /\ BookOK(c) /\ SameOrders(book, c) /\ call.taker \in DOMAIN book.orders
          /\ c.orders[call.taker].type = "LIMIT" /\ book' = AddOrder(c, call.taker)
      BY <2>2, FinishBook
    <3> HIDE DEF c
    <3>2. BookOK(book') /\ book'.orders = c.orders
      BY <3>1, AddOrderOK, Zenon DEF SameOrders
    <3> QED  BY <3>1, <3>2 DEF SameOrders
  <2> QED  BY <2>1, <2>2
<1>3. CallOK'
  BY <1>1, <1>2 DEF TypeInv, CallOK
<1> QED  BY <1>2, <1>3 DEF TypeInv

LEMMA TypeInvStep == TypeInv /\ [Next]_vars => TypeInv'
<1> SUFFICES ASSUME TypeInv, [Next]_vars PROVE TypeInv'
  OBVIOUS
<1>1. ASSUME NEW o \in Submittable, Submit(o) PROVE TypeInv'
  BY <1>1, SubmitTypeInv
<1>2. ASSUME NEW id \in Ids, Cancel(id) PROVE TypeInv'
  BY <1>2, CancelTypeInv
<1>3. ASSUME NEW id \in Ids, NEW q \in ModifyQtys, Modify(id, q) PROVE TypeInv'
  BY <1>3, ModifyTypeInv
<1>4. CASE NextPass
  <2>1. call.taker \in DOMAIN book.orders
    BY <1>4 DEF NextPass, TypeInv, CallOK
  <2>2. Taker.quantity \in Nat
    BY <2>1, OrdersDomain DEF Taker, TypeInv, BookOK, Order
  <2> DEFINE w == Taker.quantity
  <2>3. w \in Int /\ call \in Call
    BY <2>2 DEF TypeInv, CallOK
  <2>4. /\ call' = [call EXCEPT !.phase = "collect", !.want = w, !.todo = {}]
        /\ call.phase # "idle" /\ book' = book /\ trades' = trades
    BY <1>4 DEF NextPass
  <2> HIDE DEF w
  <2>5. call' \in Call /\ call'.taker = call.taker /\ call'.todo = {}
    BY <2>3, <2>4 DEF Call
  <2> QED  BY <2>4, <2>5 DEF TypeInv, CallOK
<1>5. ASSUME NEW r \in book.linked, Collect(r) PROVE TypeInv'
  <2>1. r \in DOMAIN book.orders /\ r \in Nat \ {0}
    BY DEF TypeInv, BookOK, Book
  <2>2. book.orders[r].quantity \in Nat
    BY <2>1, OrdersDomain DEF TypeInv, BookOK, Order
  <2>3. call.want - book.orders[r].quantity \in Int
    BY <2>2 DEF TypeInv, CallOK, Call
  <2> QED  BY <1>5, <2>1, <2>3 DEF Collect, TypeInv, CallOK, Call
<1>6. CASE BeginFill
  BY <1>6 DEF BeginFill, TypeInv, CallOK, Call
<1>7. CASE KillFOK
  BY <1>7 DEF KillFOK, TypeInv, CallOK, Call
<1>8. ASSUME NEW r \in call.todo, ExecuteTrade(r) PROVE TypeInv'
  BY <1>8, ExecuteTradeTypeInv
<1>9. CASE EndPass
  BY <1>9 DEF EndPass, TypeInv, CallOK, Call
<1>10. CASE Finish
  BY <1>10, FinishTypeInv
<1>11. CASE UNCHANGED vars
  BY <1>11 DEF vars, TypeInv, CallOK
<1> QED
  BY <1>1, <1>2, <1>3, <1>4, <1>5, <1>6, <1>7, <1>8, <1>9, <1>10, <1>11
     DEF Next, InCall

LEMMA TypeInvImpliesTypeOK == TypeInv => TypeOK
<1> SUFFICES ASSUME TypeInv PROVE TypeOK
  OBVIOUS
<1>1. \A i \in Ids : book.orderMap[i] \in {NoOrder} \cup DOMAIN book.orders
  BY DEF TypeInv, BookOK
<1>2. call.taker \in {NoOrder} \cup DOMAIN book.orders
  BY DEF TypeInv, CallOK
<1> QED  BY <1>1, <1>2 DEF TypeInv, BookOK, CallOK, TypeOK

\* Type correctness: the book, its links and its index, the call in progress
\* and its trades keep their types, whatever the clients send.
THEOREM TypeCorrect == Spec => []TypeOK
<1>1. Init => TypeInv  BY TypeInvInit
<1>2. TypeInv /\ [Next]_vars => TypeInv'  BY TypeInvStep
<1>3. TypeInv => TypeOK  BY TypeInvImpliesTypeOK
<1> QED  BY <1>1, <1>2, <1>3, PTL DEF Spec

----------------------------------------------------------------------------
(* The book is never crossed *)

\* Orders keep their side and price, and only Finish links one.
OnlyFewerLinked ==
    /\ book'.linked \subseteq book.linked
    /\ \A r \in DOMAIN book.orders : /\ book'.orders[r].side = book.orders[r].side
                                     /\ book'.orders[r].price = book.orders[r].price

LEMMA OnlyFinishLinks ==
  ASSUME TypeInv, [Next]_vars
  PROVE  OnlyFewerLinked \/ Finish
<1>1. ASSUME NEW o \in Submittable, Submit(o) PROVE OnlyFewerLinked
  <2>1. o \in Order /\ (o.type = "LIMIT" => o.price \in Prices)
    BY SubmittableOK
  <2>2. BookOK(book) /\ book' = NewOrder(book, o)
    BY <1>1 DEF TypeInv, Submit
  <2> QED  BY <2>1, <2>2, NewOrderOK DEF OnlyFewerLinked
<1>2. ASSUME NEW id \in Ids, Cancel(id) PROVE OnlyFewerLinked
  BY <1>2, CancelOrderOK DEF TypeInv, Cancel, OnlyFewerLinked
<1>3. ASSUME NEW id \in Ids, NEW q \in ModifyQtys, Modify(id, q) PROVE OnlyFewerLinked
  <2>1. CASE LevelOf(book, book.orderMap[id]) = {}
    BY <1>3, <2>1 DEF Modify, ModifyOrder, OnlyFewerLinked
  <2>2. CASE LevelOf(book, book.orderMap[id]) # {}
    <3>1. q \in Nat  BY InputAssumption
    <3>2. SameOrders(book, book') /\ book'.linked \subseteq book.linked
      BY <1>3, <2>2, <3>1, ModifyOrderOK DEF TypeInv, Modify
    <3> QED  BY <3>2 DEF SameOrders, OnlyFewerLinked
  <2> QED  BY <2>1, <2>2
<1>4. ASSUME NEW r \in call.todo, ExecuteTrade(r) PROVE OnlyFewerLinked
  <2> DEFINE qty == Smaller(call.remaining, book.orders[r].quantity)
             m == DecreaseOrderQuantity(book, book.orders[r].id, qty)
  <2>1. book.orders[r] \in Order /\ qty \in Nat
    BY TradeQuantity
  <2>2. call.taker \in DOMAIN book.orders
    BY <1>4 DEF TypeInv, CallOK, ExecuteTrade
  <2>3. Taker \in Order
    BY <2>2, OrdersDomain DEF TypeInv, BookOK, Taker
  <2>4. book.orders[r].id \in Ids /\ Taker.id \in Ids
    BY <2>1, <2>3 DEF Order
  <2>5. BookOK(m) /\ SameOrders(book, m) /\ m.linked \subseteq book.linked
    BY <2>1, <2>4, DecreaseType DEF TypeInv
  <2>6. book' = DecreaseOrderQuantity(m, Taker.id, qty)
    BY <1>4 DEF ExecuteTrade
  <2> HIDE DEF m, qty
  <2>7. SameOrders(m, book') /\ book'.linked \subseteq m.linked
    BY <2>1, <2>4, <2>5, <2>6, DecreaseType
  <2> QED  BY <2>5, <2>7 DEF SameOrders, OnlyFewerLinked
<1>5. CASE book' = book
  BY <1>5 DEF OnlyFewerLinked
<1> QED
  BY <1>1, <1>2, <1>3, <1>4, <1>5
     DEF Next, InCall, NextPass, Collect, BeginFill, KillFOK, EndPass, vars

LEMMA UncrossedStep == TypeInv /\ Uncrossed /\ [Next]_vars => Uncrossed'
<1> USE DEF Uncrossed
<1> SUFFICES ASSUME TypeInv, Uncrossed, [Next]_vars PROVE NotCrossed(book')
  OBVIOUS
<1>1. CASE OnlyFewerLinked
  <2>1. book.linked \subseteq DOMAIN book.orders  BY DEF TypeInv, BookOK
  <2> QED  BY <1>1, <2>1, FewerNotCrossed DEF OnlyFewerLinked, TypeInv
<1>2. CASE Finish /\ book' # book
  <2> DEFINE c == [book EXCEPT !.orders[call.taker].quantity = call.remaining]
             t == call.taker
  <2>1. /\ BookOK(c) /\ SameOrders(book, c) /\ t \in DOMAIN book.orders
        /\ c.orders[t].type = "LIMIT" /\ book' = AddOrder(c, t)
        /\ Taker.type = "LIMIT" /\ call.remaining > 0 /\ ~LoopCondition
        /\ c.linked = book.linked
    BY <1>2, FinishBook, SetQuantityOK DEF TypeInv
  \* nothing on the other side accepts the taker's price
  <2>2. Eligible(book, Taker) = {}
    BY <2>1 DEF LoopCondition, HasMatchingOrders
  <2> HIDE DEF c, t
  <2>3. book'.orders = c.orders /\ book'.linked = book.linked \cup {t}
    <3>1. t \in DOMAIN c.orders  BY <2>1 DEF SameOrders
    <3>2. /\ AddOrder(c, t).orders = c.orders
          /\ AddOrder(c, t).linked = c.linked \cup {t}
      BY ONLY <2>1, <3>1, AddOrderOK, ZenonT(40)
    <3> QED  BY <2>1, <3>2
  <2>4. \A r \in DOMAIN book.orders :
          /\ book'.orders[r].side = book.orders[r].side
          /\ book'.orders[r].price = book.orders[r].price
    BY <2>1, <2>3 DEF SameOrders
  <2>5. Taker = book.orders[t] /\ BookOK(book)
    BY DEF Taker, t, TypeInv
  <2> QED  BY <2>1, <2>2, <2>3, <2>4, <2>5, RestsNotCrossed
<1>3. CASE book' = book
  BY <1>3
<1> QED  BY <1>1, <1>2, <1>3, OnlyFinishLinks

\* The book is never crossed, whatever the clients send, also when they reuse
\* ids or modify quantities to zero: the only step that links an order,
\* Finish, takes it after the matching loop found nothing it could trade with.
THEOREM NeverCrossed == Spec => []Uncrossed
<1>1. Init => TypeInv /\ Uncrossed
  BY TypeInvInit DEF Init, EmptyBook, Uncrossed, NotCrossed
<1>2. TypeInv /\ Uncrossed /\ [Next]_vars => TypeInv' /\ Uncrossed'
  BY TypeInvStep, UncrossedStep
<1> QED  BY <1>1, <1>2, PTL DEF Spec

----------------------------------------------------------------------------
(* The index, the totals and the priority of trades, for careful clients *)

\* The collected orders still to be traded with are in the book, and each is
\* ahead of every eligible order that was not collected.
VectorCurrent ==
    LET eligible == Eligible(book, Taker) IN
    /\ call.todo \subseteq eligible
    /\ \A r \in call.todo, q \in eligible \ call.todo : Ahead(book, r, q)

\* Once remainingQty is zero the rest of the vector is never looked at.
VectorOK == call.phase = "collect" \/ (call.phase = "fill" /\ call.remaining > 0)
                => VectorCurrent

CarefulInv == TypeInv /\ Ledger(book) /\ VectorOK

LEMMA CarefulInit == Init => CarefulInv
<1> SUFFICES ASSUME Init PROVE CarefulInv
  OBVIOUS
<1>1. TypeInv  BY TypeInvInit
<1>2. /\ book.orders = << >> /\ book.linked = {}
      /\ \A i \in Ids : book.orderMap[i] = NoOrder
      /\ \A s \in Sides, p \in Prices : book.total[s][p] = 0
  BY DEF Init, EmptyBook
<1>3. Units(book, {}) = {}  BY DEF Units
<1>4. \A s \in Sides, p \in Prices : Level(book, s, p) = {}
  BY <1>2 DEF Level
<1>5. DOMAIN book.orders = {}
  BY <1>2
<1>6. UniqueIds(book)  BY <1>5 DEF UniqueIds
<1>7. Indexed(book)  BY <1>2 DEF Indexed
<1>8. IsFiniteSet(Units(book, book.linked))  BY <1>2, <1>3, FS_EmptySet
<1>9. TotalsAddUp(book)  BY <1>2, <1>3, <1>4, FS_EmptySet, Zenon DEF TotalsAddUp
<1>10. Ledger(book)
  BY <1>1, <1>2, <1>6, <1>7, <1>8, <1>9 DEF Ledger, TypeInv
<1>11. VectorOK  BY DEF Init, NoCall, VectorOK
<1> QED  BY <1>1, <1>10, <1>11 DEF CarefulInv

\* A trade with careful clients: the maker is decreased, the taker's id is not
\* indexed, and a maker that leaves the taker wanting more is gone.
LEMMA CarefulTrade ==
  ASSUME CarefulInv, NEW r \in call.todo, ExecuteTrade(r)
  PROVE  /\ Ledger(book')
         /\ SameOrders(book, book')
         /\ book'.linked = book.linked \/ book'.linked = book.linked \ {r}
         /\ call'.remaining > 0 => book'.linked = book.linked \ {r}
         /\ \A x \in DOMAIN book.orders :
               x # r => book'.orders[x].quantity = book.orders[x].quantity
<1> DEFINE s == [book |-> book, remaining |-> call.remaining, trades |-> trades]
           d == ExecuteTradeWith(s, r, Taker)
<1>1. VectorCurrent /\ call.phase = "fill" /\ call.remaining > 0
  BY DEF CarefulInv, VectorOK, ExecuteTrade
<1>2. r \in book.linked
  BY <1>1 DEF VectorCurrent, Eligible
<1>3. Ledger(book) /\ call.remaining \in Nat
  BY DEF CarefulInv, TypeInv, CallOK, Call
<1>4. call.taker \in DOMAIN book.orders /\ call.taker \notin book.linked
  BY <1>1 DEF CarefulInv, TypeInv, CallOK
<1>5. Taker.id \in Ids
  <2>1. Taker \in Order  BY <1>4, OrdersDomain DEF CarefulInv, TypeInv, BookOK, Taker
  <2> QED  BY <2>1 DEF Order
<1>6. Unindexed(book, Taker)
  <2> SUFFICES ASSUME book.orderMap[Taker.id] # NoOrder PROVE FALSE
    BY <1>5 DEF Unindexed
  <2> DEFINE x == book.orderMap[Taker.id]
  <2>1. x \in book.linked /\ book.orders[x].id = book.orders[call.taker].id
    BY <1>3, <1>5 DEF Ledger, Indexed, Taker
  <2>2. x \in DOMAIN book.orders
    BY <1>3, <2>1 DEF Ledger, BookOK
  <2>3. x = call.taker
    BY <1>3, <1>4, <2>1, <2>2, SMTT(30) DEF Ledger, UniqueIds
  <2> QED  BY <1>4, <2>1, <2>3
<1>7. book' = d.book
  BY DEF ExecuteTrade, ExecuteTradeWith
<1>8. call'.remaining = d.remaining
  BY DEF ExecuteTrade, ExecuteTradeWith, CarefulInv, TypeInv, CallOK, Call
<1>9. s.book = book /\ s.remaining = call.remaining
  OBVIOUS
<1> HIDE DEF s, d
<1>10. /\ Ledger(d.book)
       /\ SameOrders(book, d.book)
       /\ d.book.linked = book.linked \/ d.book.linked = book.linked \ {r}
       /\ d.remaining > 0 => d.book.linked = book.linked \ {r}
       /\ \A x \in DOMAIN book.orders :
             x # r => d.book.orders[x].quantity = book.orders[x].quantity
  BY <1>2, <1>3, <1>6, <1>9, LedgerFindable, TradeLedger DEF d
<1> QED  BY <1>7, <1>8, <1>10

LEMMA CarefulTradeVector ==
  ASSUME CarefulInv, NEW r \in call.todo, ExecuteTrade(r)
  PROVE  VectorOK'
<1> SUFFICES ASSUME call'.remaining > 0 PROVE VectorCurrent'
  BY DEF VectorOK, ExecuteTrade, CarefulInv, TypeInv, CallOK, Call
<1>1. /\ VectorCurrent /\ call.taker \in DOMAIN book.orders
      /\ call'.taker = call.taker /\ call'.todo = call.todo \ {r}
  BY DEF CarefulInv, VectorOK, ExecuteTrade, TypeInv, CallOK, Call
<1>2. SameOrders(book, book') /\ book'.linked = book.linked \ {r}
  BY CarefulTrade
<1>3. book.linked \subseteq DOMAIN book.orders
  BY DEF CarefulInv, TypeInv, BookOK
<1>4. Eligible(book, Taker)' = Eligible(book, Taker) \ {r}
  BY <1>1, <1>2, <1>3 DEF Eligible, Taker, PriceAccepts, SameOrders
<1>5. \A x, y \in book.linked : Ahead(book, x, y) => Ahead(book', x, y)
  BY <1>2, <1>3 DEF Ahead, SameOrders
<1>6. Eligible(book, Taker) \subseteq book.linked
  BY DEF Eligible
<1> QED  BY <1>1, <1>4, <1>5, <1>6 DEF VectorCurrent

LEMMA CarefulStep ==
  ASSUME CarefulClients, CarefulInv, [Next]_vars
  PROVE  CarefulInv'
<1>0. TypeInv'
  BY TypeInvStep DEF CarefulInv
<1>1. ASSUME NEW o \in Submittable, Submit(o) PROVE CarefulInv'
  <2>1. o \in Order /\ (o.type = "LIMIT" => o.price \in Prices)
    BY SubmittableOK
  <2>2. book' = NewOrder(book, o) /\ \A r \in DOMAIN book.orders : book.orders[r].id # o.id
    BY <1>1 DEF Submit, CarefulClients
  <2>3. Ledger(book')
    BY <2>1, <2>2, LedgerNewOrder DEF CarefulInv
  <2>4. call'.todo = {} /\ VectorOK'
    BY <1>1 DEF Submit, VectorOK, VectorCurrent
  <2> QED  BY <1>0, <2>3, <2>4 DEF CarefulInv
<1>2. ASSUME NEW id \in Ids, Cancel(id) PROVE CarefulInv'
  <2>1. Ledger(book')
    BY <1>2, LedgerCancelOrder DEF Cancel, CarefulInv
  <2>2. VectorOK'
    BY <1>2 DEF Cancel, VectorOK
  <2> QED  BY <1>0, <2>1, <2>2 DEF CarefulInv
<1>3. ASSUME NEW id \in Ids, NEW q \in ModifyQtys, Modify(id, q) PROVE CarefulInv'
  <2>1. q \in Nat \ {0}
    BY InputAssumption DEF CarefulClients
  <2>2. Ledger(book')
    BY <1>3, <2>1, LedgerModifyOrder DEF Modify, CarefulInv
  <2>3. VectorOK'
    BY <1>3 DEF Modify, VectorOK
  <2> QED  BY <1>0, <2>2, <2>3 DEF CarefulInv
<1>4. CASE NextPass
  <2>1. call'.todo = {} /\ book' = book
    BY <1>4 DEF NextPass, CarefulInv, TypeInv, CallOK, Call
  <2>2. VectorOK'
    BY <2>1 DEF VectorOK, VectorCurrent
  <2> QED  BY <1>0, <2>1, <2>2 DEF CarefulInv
<1>5. ASSUME NEW r \in book.linked, Collect(r) PROVE CarefulInv'
  <2>1. /\ book' = book /\ call'.todo = call.todo \cup {r} /\ call'.taker = call.taker
        /\ call.phase = "collect"
        /\ FirstOf(book, r, Eligible(book, Taker) \ call.todo)
    BY <1>5 DEF Collect, CarefulInv, TypeInv, CallOK, Call
  <2>2. VectorCurrent
    BY <2>1 DEF CarefulInv, VectorOK
  <2>3. Eligible(book, Taker)' = Eligible(book, Taker)
    BY <2>1 DEF Taker
  <2>4. VectorCurrent'
    BY <2>1, <2>2, <2>3 DEF VectorCurrent, FirstOf
  <2> QED  BY <1>0, <2>1, <2>4 DEF CarefulInv, VectorOK
<1>6. CASE BeginFill
  <2>1. /\ book' = book /\ call'.todo = call.todo /\ call'.taker = call.taker
        /\ call.phase = "collect"
    BY <1>6 DEF BeginFill, CarefulInv, TypeInv, CallOK, Call
  <2>2. VectorCurrent'
    BY <2>1 DEF CarefulInv, VectorOK, VectorCurrent, Taker
  <2> QED  BY <1>0, <2>1, <2>2 DEF CarefulInv, VectorOK
<1>7. CASE KillFOK
  BY <1>0, <1>7 DEF KillFOK, CarefulInv, VectorOK, TypeInv, CallOK, Call
<1>8. ASSUME NEW r \in call.todo, ExecuteTrade(r) PROVE CarefulInv'
  BY <1>0, <1>8, CarefulTrade, CarefulTradeVector DEF CarefulInv
<1>9. CASE EndPass
  BY <1>0, <1>9 DEF EndPass, CarefulInv, VectorOK, TypeInv, CallOK, Call
<1>10. CASE Finish
  <2>1. VectorOK'
    BY <1>10 DEF Finish, CarefulInv, VectorOK, TypeInv, CallOK, Call
  <2>2. CASE book' = book
    BY <1>0, <2>1, <2>2 DEF CarefulInv
  <2>3. CASE book' # book
    <3> DEFINE c == [book EXCEPT !.orders[call.taker].quantity = call.remaining]
    <3>1. /\ SameOrders(book, c) /\ call.taker \in DOMAIN book.orders
          /\ c.orders[call.taker].type = "LIMIT" /\ book' = AddOrder(c, call.taker)
          /\ call.remaining \in Nat /\ call.remaining > 0
      BY <1>10, <2>3, FinishBook DEF CarefulInv
    <3>2. call.taker \notin book.linked
      BY <1>10 DEF Finish, CarefulInv, TypeInv, CallOK
    <3>3. Ledger(c)
      BY <3>1, <3>2, LedgerSetQuantity DEF CarefulInv
    <3>4. c.linked = book.linked /\ c.orders[call.taker].quantity = call.remaining
      <4>1. BookOK(book)
        BY DEF CarefulInv, TypeInv
      <4>2. /\ c.linked = book.linked
            /\ \A x \in DOMAIN book.orders :
                  c.orders[x].quantity = IF x = call.taker THEN call.remaining
                                         ELSE book.orders[x].quantity
        BY <3>1, <4>1, SetQuantityOK
      <4> HIDE DEF c
      <4> QED  BY <3>1, <4>2
    <3> HIDE DEF c
    <3>5. call.taker \in DOMAIN c.orders
      BY <3>1 DEF SameOrders
    <3>6. Ledger(book')
      BY <3>1, <3>2, <3>3, <3>4, <3>5, LedgerAddOrder
    <3> QED  BY <1>0, <2>1, <3>6 DEF CarefulInv
  <2> QED  BY <2>2, <2>3
<1>11. CASE UNCHANGED vars
  BY <1>0, <1>11 DEF vars, CarefulInv, VectorOK, VectorCurrent, Taker
<1> QED
  BY <1>1, <1>2, <1>3, <1>4, <1>5, <1>6, <1>7, <1>8, <1>9, <1>10, <1>11
     DEF Next, InCall

\* Index and levels agree, with careful clients, for every number of orders.
THEOREM IndexAgrees == CarefulClients => (Spec => []BookIndexed)
<1> SUFFICES ASSUME CarefulClients PROVE Spec => []BookIndexed
  OBVIOUS
<1>1. Init => CarefulInv  BY CarefulInit
<1>2. CarefulInv /\ [Next]_vars => CarefulInv'  BY CarefulStep
<1>3. CarefulInv => BookIndexed  BY DEF CarefulInv, Ledger, BookIndexed
<1> QED  BY <1>1, <1>2, <1>3, PTL DEF Spec

\* The total of every level is the sum of its orders, with careful clients.
THEOREM TotalsAgree == CarefulClients => (Spec => []LevelTotals)
<1> SUFFICES ASSUME CarefulClients PROVE Spec => []LevelTotals
  OBVIOUS
<1>1. Init => CarefulInv  BY CarefulInit
<1>2. CarefulInv /\ [Next]_vars => CarefulInv'  BY CarefulStep
<1>3. CarefulInv => LevelTotals  BY DEF CarefulInv, Ledger, LevelTotals
<1> QED  BY <1>1, <1>2, <1>3, PTL DEF Spec

LEMMA TradeIsBestStep ==
  ASSUME CarefulInv, [Next]_vars
  PROVE  [TradeIsBest]_vars
<1> SUFFICES ASSUME Len(trades') > Len(trades) PROVE TradeIsBest
  BY DEF TradeIsBest
<1>1. trades \in Seq(Trade) /\ Len(trades) \in Nat
  BY LenProperties DEF CarefulInv, TypeInv, CallOK
<1>2. trades' # trades
  BY <1>1
<1>3. ~(trades' = << >>)
  BY <1>1
<1>4. PICK r \in call.todo : ExecuteTrade(r)
  BY <1>2, <1>3 DEF Next, InCall, Submit, Cancel, Modify, NextPass, Collect, BeginFill,
                    KillFOK, EndPass, Finish, vars
<1>5. VectorCurrent /\ FirstOf(book, r, call.todo)
  BY <1>4 DEF CarefulInv, VectorOK, ExecuteTrade
<1>6. r \in book.linked /\ r \in Eligible(book, Taker)
  BY <1>5 DEF VectorCurrent, Eligible
<1>7. trades'[Len(trades')].makerOrderId = book.orders[r].id
  <2> DEFINE t == [price |-> book.orders[r].price,
                   quantity |-> Smaller(call.remaining, book.orders[r].quantity),
                   makerOrderId |-> book.orders[r].id, takerOrderId |-> Taker.id]
  <2>1. trades' = Append(trades, t)  BY <1>4 DEF ExecuteTrade
  <2>2. t.makerOrderId = book.orders[r].id  OBVIOUS
  <2> HIDE DEF t
  <2>3. Len(trades') = Len(trades) + 1 /\ trades'[Len(trades) + 1] = t
    BY <1>1, <2>1
  <2> QED  BY <2>2, <2>3
<1>8. ASSUME NEW x \in Eligible(book, Taker)
      PROVE  /\ IF Taker.side = "BUY" THEN book.orders[r].price <= book.orders[x].price
                                      ELSE book.orders[x].price <= book.orders[r].price
             /\ book.orders[x].price = book.orders[r].price => r <= x
  <2>1. /\ x \in book.linked /\ x \in DOMAIN book.orders /\ r \in DOMAIN book.orders
        /\ book.orders[r].side = Opposite(Taker.side)
    BY <1>6 DEF Eligible, CarefulInv, TypeInv, BookOK
  <2>2. /\ book.orders[x].price \in Nat /\ book.orders[r].price \in Nat
        /\ x \in Nat /\ r \in Nat
    <3>1. book.orders[x].price \in Prices /\ book.orders[r].price \in Prices
      BY <1>6, <2>1 DEF CarefulInv, TypeInv, BookOK
    <3>2. x \in Nat /\ r \in Nat
      BY <1>6, <2>1 DEF CarefulInv, TypeInv, BookOK, Book
    <3> QED  BY <3>1, <3>2, PricesAssumption
  <2>3. x = r \/ Ahead(book, r, x)
    BY <1>5 DEF VectorCurrent, FirstOf
  <2> QED  BY <2>1, <2>2, <2>3 DEF Ahead, Opposite
<1> QED  BY <1>6, <1>7, <1>8 DEF TradeIsBest

\* No trade-through and time priority, with careful clients: each trade is with
\* the order that is first in price-time priority when the trade is made.
THEOREM NoTradeThrough == CarefulClients => (Spec => PriceTimePriority)
<1> SUFFICES ASSUME CarefulClients PROVE Spec => PriceTimePriority
  OBVIOUS
<1>1. Init => CarefulInv  BY CarefulInit
<1>2. CarefulInv /\ [Next]_vars => CarefulInv'  BY CarefulStep
<1>3. CarefulInv /\ [Next]_vars => [TradeIsBest]_vars  BY TradeIsBestStep
<1> QED  BY <1>1, <1>2, <1>3, PTL DEF Spec, PriceTimePriority

----------------------------------------------------------------------------
(* Fill or kill *)

IsFOK == call.taker # NoOrder /\ Taker.type = "FOK"

\* What the collected orders hold.
Collectable == Cardinality(Units(book, call.todo))

\* A FOK order is only traded with orders that cover what remains of it.
Covered ==
    /\ call.phase # "head"
    /\ call.phase = "collect" => /\ trades = << >>
                                 /\ call.remaining = Taker.quantity
                                 /\ call.remaining = call.want + Collectable
    /\ call.phase = "fill" => call.remaining = 0 \/ call.remaining <= Collectable
    /\ call.phase = "idle" => \/ call.remaining = 0
                              \/ call.remaining = Taker.quantity /\ trades = << >>

FokInv == CarefulInv /\ (IsFOK => Covered)

\* The collected orders are resting orders, so they are finitely many units.
LEMMA CollectableOK ==
  ASSUME CarefulInv, VectorCurrent
  PROVE  /\ call.todo \subseteq book.linked /\ book.linked \subseteq DOMAIN book.orders
         /\ \A x \in DOMAIN book.orders : book.orders[x].quantity \in Nat
         /\ IsFiniteSet(Units(book, call.todo)) /\ Collectable \in Nat
<1>1. call.todo \subseteq book.linked
  BY DEF VectorCurrent, Eligible
<1>2. book.linked \subseteq DOMAIN book.orders /\ IsFiniteSet(Units(book, book.linked))
  BY DEF CarefulInv, Ledger, TypeInv, BookOK
<1>3. \A x \in DOMAIN book.orders : book.orders[x].quantity \in Nat
  BY OrdersDomain DEF CarefulInv, TypeInv, BookOK, Order
<1>4. IsFiniteSet(Units(book, call.todo))
  BY <1>1, <1>2, UnitsSubset
<1>5. Collectable \in Nat
  BY <1>4, FS_CardinalityType DEF Collectable
<1> QED  BY <1>1, <1>2, <1>3, <1>4, <1>5

LEMMA NothingCollected ==
  ASSUME call.todo = {}
  PROVE  Collectable = 0
BY FS_EmptySet DEF Collectable, Units

LEMMA FokSubmit ==
  ASSUME CarefulInv, NEW o \in Submittable, Submit(o)
  PROVE  (IsFOK => Covered)'
<1> DEFINE n == Len(book.orders) + 1
<1>1. o \in Order /\ (o.type = "LIMIT" => o.price \in Prices) /\ o.quantity \in Nat
  BY SubmittableOK
<1>2. book' = NewOrder(book, o) /\ BookOK(book) /\ Len(book.orders) \in Nat
  BY OrdersDomain DEF Submit, CarefulInv, TypeInv, BookOK
<1>3. book'.orders[n] = o
  BY <1>1, <1>2, NewOrderOK
<1>4. /\ call'.phase = (IF o.type = "FOK" THEN "collect" ELSE "head")
      /\ call'.taker = n /\ call'.remaining = o.quantity /\ call'.want = o.quantity
      /\ call'.todo = {} /\ trades' = << >>
  BY DEF Submit
<1>5. Taker' = o
  BY <1>3, <1>4 DEF Taker
<1>6. Collectable' = 0
  BY <1>4, FS_EmptySet DEF Collectable, Units
<1> QED  BY <1>1, <1>4, <1>5, <1>6 DEF IsFOK, Covered

\* A modify request is for a resting order, which is not a FOK order.
LEMMA FokModify ==
  ASSUME FokInv, NEW id \in Ids, NEW q \in ModifyQtys, Modify(id, q)
  PROVE  (IsFOK => Covered)'
<1>1. call' = call /\ trades' = trades /\ call.phase = "idle"
  BY DEF Modify
<1>2. CASE book' = book
  BY <1>1, <1>2 DEF FokInv, IsFOK, Covered, Taker
<1>3. CASE book' # book
  <2>1. /\ LevelOf(book, book.orderMap[id]) # {} /\ book.orderMap[id] # NoOrder
        /\ book' = ModifyOrder(book, id, q) /\ BookOK(book) /\ q \in Nat
    BY <1>3, InputAssumption, ZenonT(30) DEF Modify, ModifyOrder, FokInv, CarefulInv, TypeInv
  <2>2. SameOrders(book, book') /\ Modifies(book, id, q, book')
    BY <2>1, ModifyOrderOK
  <2>3. book.orders[book.orderMap[id]].type = "LIMIT"
    BY <2>1 DEF BookOK
  <2> SUFFICES ASSUME IsFOK' PROVE Covered'
    OBVIOUS
  <2>4. call.taker \in DOMAIN book.orders
    BY <1>1 DEF IsFOK, FokInv, CarefulInv, TypeInv, CallOK
  <2>5. Taker.type = "FOK"
    BY <1>1, <2>2, <2>4 DEF IsFOK, Taker, SameOrders
  <2>6. call.taker # book.orderMap[id]
    BY <2>3, <2>5 DEF Taker
  <2>7. Taker'.quantity = Taker.quantity
    BY <1>1, <2>2, <2>4, <2>6, ZenonT(30) DEF Taker, Modifies
  <2> QED  BY <1>1, <2>5, <2>7 DEF FokInv, IsFOK, Covered
<1> QED  BY <1>2, <1>3

LEMMA FokCollect ==
  ASSUME FokInv, NEW r \in book.linked, Collect(r)
  PROVE  (IsFOK => Covered)'
<1>1. /\ book' = book /\ trades' = trades /\ call.phase = "collect"
      /\ call'.phase = "collect" /\ call'.taker = call.taker /\ call'.remaining = call.remaining
      /\ call'.todo = call.todo \cup {r} /\ call'.want = call.want - book.orders[r].quantity
      /\ r \notin call.todo
  BY DEF Collect, FirstOf, FokInv, CarefulInv, TypeInv, CallOK, Call
<1>2. VectorCurrent
  BY <1>1 DEF FokInv, CarefulInv, VectorOK
<1>3. IsFiniteSet(Units(book, call.todo)) /\ book.orders[r].quantity \in Nat /\ Collectable \in Nat
  BY <1>2, CollectableOK DEF FokInv
<1>4. Collectable' = Collectable + book.orders[r].quantity
  <2>1. Cardinality(Units(book, call.todo \cup {r}))
          = Cardinality(Units(book, call.todo)) + book.orders[r].quantity
    BY ONLY <1>1, <1>3, UnitsWith, ZenonT(30)
  <2>2. Collectable' = Cardinality(Units(book, call.todo \cup {r}))
    BY ONLY <1>1 DEF Collectable
  <2> QED  BY ONLY <2>1, <2>2 DEF Collectable
<1>5. call.want \in Int
  BY DEF FokInv, CarefulInv, TypeInv, CallOK, Call
<1>6. Taker' = Taker /\ IsFOK' = IsFOK
  BY <1>1 DEF Taker, IsFOK
<1> QED  BY <1>1, <1>3, <1>4, <1>5, <1>6 DEF FokInv, Covered

LEMMA FokBegin ==
  ASSUME FokInv, BeginFill
  PROVE  (IsFOK => Covered)'
<1>1. /\ book' = book /\ call.phase = "collect" /\ call'.phase = "fill"
      /\ call'.taker = call.taker /\ call'.remaining = call.remaining /\ call'.todo = call.todo
      /\ Taker.type = "FOK" => call.want <= 0
  BY DEF BeginFill, FokInv, CarefulInv, TypeInv, CallOK, Call
<1>2. VectorCurrent
  BY <1>1 DEF FokInv, CarefulInv, VectorOK
<1>3. Collectable \in Nat
  BY <1>2, CollectableOK DEF FokInv
<1>4. Taker' = Taker /\ IsFOK' = IsFOK /\ Collectable' = Collectable
  BY <1>1 DEF Taker, IsFOK, Collectable
<1>5. call.want \in Int
  BY DEF FokInv, CarefulInv, TypeInv, CallOK, Call
<1> QED  BY <1>1, <1>3, <1>4, <1>5 DEF FokInv, Covered, IsFOK

\* A trade takes a maker's whole quantity from what remains and from what the
\* rest of the vector holds, or ends the filling.
LEMMA FokTrade ==
  ASSUME FokInv, NEW r \in call.todo, ExecuteTrade(r)
  PROVE  (IsFOK => Covered)'
<1> DEFINE qty == Smaller(call.remaining, book.orders[r].quantity)
<1>1. /\ call.phase = "fill" /\ call.remaining > 0
      /\ call'.phase = "fill" /\ call'.taker = call.taker /\ call'.todo = call.todo \ {r}
      /\ call'.remaining = call.remaining - qty
  BY DEF ExecuteTrade, FokInv, CarefulInv, TypeInv, CallOK, Call
<1>2. VectorCurrent
  BY <1>1 DEF FokInv, CarefulInv, VectorOK
<1>3. /\ call.todo \subseteq DOMAIN book.orders
      /\ book.orders[r].quantity \in Nat
      /\ IsFiniteSet(Units(book, call.todo)) /\ Collectable \in Nat
  BY <1>2, CollectableOK DEF FokInv
<1>4. /\ SameOrders(book, book')
      /\ \A x \in DOMAIN book.orders :
            x # r => book'.orders[x].quantity = book.orders[x].quantity
  BY CarefulTrade DEF FokInv
<1>5. Units(book', call.todo \ {r}) = Units(book, call.todo \ {r})
  BY <1>3, <1>4, UnitsSame
<1>6. Collectable' = Collectable - book.orders[r].quantity
  <2>1. Cardinality(Units(book, call.todo \ {r}))
          = Cardinality(Units(book, call.todo)) - book.orders[r].quantity
    BY ONLY r \in call.todo, <1>3, UnitsWithout, Zenon
  <2>2. Collectable' = Cardinality(Units(book', call.todo \ {r}))
    BY ONLY <1>1 DEF Collectable
  <2> QED  BY ONLY <1>5, <2>1, <2>2 DEF Collectable
<1>7. /\ qty \in Nat /\ call.remaining - qty \in Nat
      /\ qty = book.orders[r].quantity \/ call.remaining - qty = 0
  BY TradeQuantity DEF FokInv, CarefulInv
<1>8. call.taker # NoOrder /\ call.taker \in DOMAIN book.orders
  BY <1>1 DEF FokInv, CarefulInv, TypeInv, CallOK
<1>9. Taker'.type = Taker.type
  BY <1>1, <1>4, <1>8 DEF Taker, SameOrders
<1>10. IsFOK' => IsFOK
  BY <1>8, <1>9 DEF IsFOK
<1> HIDE DEF qty
<1>11. IsFOK => call.remaining <= Collectable
  BY <1>1 DEF FokInv, Covered
<1>12. IsFOK => call'.remaining = 0 \/ call'.remaining <= Collectable'
  <2>1. call.remaining \in Nat
    BY DEF FokInv, CarefulInv, TypeInv, CallOK, Call
  <2>2. ASSUME IsFOK, qty = book.orders[r].quantity
        PROVE  call.remaining - qty <= Collectable - qty
    <3> HIDE DEF Collectable
    <3> QED  BY ONLY <1>3, <1>7, <1>11, <2>1, <2>2
  <2> HIDE DEF Collectable
  <2> QED  BY ONLY <1>1, <1>6, <1>7, <2>2
<1> QED  BY <1>1, <1>10, <1>12 DEF Covered

LEMMA FokEndPass ==
  ASSUME FokInv, EndPass
  PROVE  (IsFOK => Covered)'
<1>1. /\ book' = book /\ trades' = trades /\ call.phase = "fill" /\ call'.taker = call.taker
      /\ call'.remaining = call.remaining /\ (call.remaining = 0 \/ call.todo = {})
      /\ Taker.type = "FOK" => call'.phase = "idle"
  BY DEF EndPass, FokInv, CarefulInv, TypeInv, CallOK, Call
<1>2. Taker' = Taker /\ IsFOK' = IsFOK
  BY <1>1 DEF Taker, IsFOK
<1>3. call.todo = {} => Collectable = 0
  BY NothingCollected
<1>4. call.remaining \in Nat
  BY DEF FokInv, CarefulInv, TypeInv, CallOK, Call
<1> QED  BY <1>1, <1>2, <1>3, <1>4 DEF FokInv, Covered, IsFOK

LEMMA FokStep ==
  ASSUME CarefulClients, FokInv, [Next]_vars
  PROVE  FokInv'
<1>0. CarefulInv'
  BY CarefulStep DEF FokInv
<1> SUFFICES (IsFOK => Covered)'
  BY <1>0 DEF FokInv
<1>1. ASSUME NEW o \in Submittable, Submit(o) PROVE (IsFOK => Covered)'
  BY <1>1, FokSubmit DEF FokInv
<1>2. ASSUME NEW id \in Ids, Cancel(id) PROVE (IsFOK => Covered)'
  <2>1. call' = call /\ trades' = trades /\ call.phase = "idle" /\ book'.orders = book.orders
    BY <1>2, CancelOrderOK DEF Cancel, FokInv, CarefulInv, TypeInv
  <2> QED  BY <2>1 DEF FokInv, IsFOK, Covered, Taker
<1>3. ASSUME NEW id \in Ids, NEW q \in ModifyQtys, Modify(id, q) PROVE (IsFOK => Covered)'
  BY <1>3, FokModify
<1>4. CASE NextPass
  <2>1. ~IsFOK /\ book' = book /\ call'.taker = call.taker
    BY <1>4 DEF NextPass, FokInv, Covered, CarefulInv, TypeInv, CallOK, Call
  <2> QED  BY <2>1 DEF IsFOK, Taker
<1>5. ASSUME NEW r \in book.linked, Collect(r) PROVE (IsFOK => Covered)'
  BY <1>5, FokCollect
<1>6. CASE BeginFill
  BY <1>6, FokBegin
<1>7. CASE KillFOK
  <2>1. /\ book' = book /\ trades' = trades /\ call.phase = "collect" /\ call'.phase = "idle"
        /\ call'.taker = call.taker /\ call'.remaining = call.remaining
    BY <1>7 DEF KillFOK, FokInv, CarefulInv, TypeInv, CallOK, Call
  <2> QED  BY <2>1 DEF FokInv, IsFOK, Covered, Taker
<1>8. ASSUME NEW r \in call.todo, ExecuteTrade(r) PROVE (IsFOK => Covered)'
  BY <1>8, FokTrade
<1>9. CASE EndPass
  BY <1>9, FokEndPass
<1>10. CASE Finish
  <2>1. ~IsFOK /\ call'.taker = call.taker
    BY <1>10 DEF Finish, FokInv, Covered, CarefulInv, TypeInv, CallOK, Call
  <2>2. Taker.type # "FOK" /\ call.taker \in DOMAIN book.orders
    BY <1>10, <2>1 DEF Finish, IsFOK, FokInv, CarefulInv, TypeInv, CallOK
  <2>3. CASE book' = book
    BY <2>1, <2>2, <2>3 DEF IsFOK, Taker
  <2>4. CASE book' # book
    <3>1. Taker.type = "LIMIT" /\ SameOrders(book, book')
      <4> DEFINE c == [book EXCEPT !.orders[call.taker].quantity = call.remaining]
      <4>1. /\ BookOK(c) /\ SameOrders(book, c) /\ c.orders[call.taker].type = "LIMIT"
            /\ book' = AddOrder(c, call.taker) /\ Taker.type = "LIMIT"
        BY <1>10, <2>4, FinishBook DEF FokInv, CarefulInv
      <4> HIDE DEF c
      <4>2. book'.orders = c.orders
        BY <2>2, <4>1, AddOrderOK, Zenon DEF SameOrders
      <4> QED  BY <4>1, <4>2 DEF SameOrders
    <3> QED  BY <2>1, <2>2, <3>1 DEF IsFOK, Taker, SameOrders
  <2> QED  BY <2>3, <2>4
<1>11. CASE UNCHANGED vars
  BY <1>11 DEF vars, FokInv, IsFOK, Covered, Taker, Collectable
<1> QED
  BY <1>1, <1>2, <1>3, <1>4, <1>5, <1>6, <1>7, <1>8, <1>9, <1>10, <1>11
     DEF Next, InCall

\* A FOK order is filled completely or not at all, with careful clients: the
\* quantities that processFOKOrder adds up are still there when it trades.
THEOREM FillsOrKills == CarefulClients => (Spec => []FillOrKill)
<1> SUFFICES ASSUME CarefulClients PROVE Spec => []FillOrKill
  OBVIOUS
<1>1. Init => FokInv
  BY CarefulInit DEF FokInv, IsFOK, Init, NoCall
<1>2. FokInv /\ [Next]_vars => FokInv'  BY FokStep
<1>3. FokInv => FillOrKill
  BY DEF FokInv, IsFOK, Covered, FillOrKill
<1> QED  BY <1>1, <1>2, <1>3, PTL DEF Spec

----------------------------------------------------------------------------
(* What a trade costs the makers *)

\* A trade takes its quantity from the maker alone: an order that is used up
\* leaves the levels, another keeps the rest.
LEMMA MakerPays ==
  ASSUME CarefulInv, NEW r \in call.todo, ExecuteTrade(r)
  PROVE  LET qty == Smaller(call.remaining, book.orders[r].quantity) IN
         /\ r \in book.linked /\ qty \in Nat /\ qty > 0
         /\ \/ qty = book.orders[r].quantity /\ book'.linked = book.linked \ {r}
            \/ book'.linked = book.linked /\ book'.orders[r].quantity = book.orders[r].quantity - qty
<1> DEFINE qty == Smaller(call.remaining, book.orders[r].quantity)
           id  == book.orders[r].id
           c   == DecreaseOrderQuantity(book, id, qty)
<1>1. VectorCurrent /\ call.remaining > 0 /\ call.remaining \in Nat
  BY DEF CarefulInv, VectorOK, ExecuteTrade, TypeInv, CallOK, Call
<1>2. r \in book.linked /\ Ledger(book) /\ BookOK(book)
  BY <1>1 DEF VectorCurrent, Eligible, CarefulInv, TypeInv
<1>3. /\ r \in DOMAIN book.orders /\ book.orders[r] \in Order
      /\ book.orders[r].quantity \in Nat /\ book.orders[r].quantity > 0
      /\ id \in Ids /\ r \in Nat \ {0}
  BY <1>2, OrdersDomain DEF Ledger, BookOK, Book, Order
<1>4. book.orderMap[id] = r /\ book.orderMap[id] # NoOrder
  BY <1>2, <1>3 DEF Ledger, Indexed, NoOrder
<1>5. qty \in Nat /\ qty > 0 /\ qty <= book.orders[r].quantity
  BY <1>1, <1>3 DEF Smaller
<1>6. book' = c
  <2>1. book' = DecreaseOrderQuantity(c, Taker.id, qty)
    BY DEF ExecuteTrade
  <2>2. Taker.id \in Ids /\ call.taker \notin book.linked /\ call.taker \in DOMAIN book.orders
    <3>1. call.taker \notin book.linked /\ call.taker \in DOMAIN book.orders
      BY DEF ExecuteTrade, CarefulInv, TypeInv, CallOK
    <3>2. Taker \in Order  BY <1>2, <3>1, OrdersDomain DEF BookOK, Taker
    <3> QED  BY <3>1, <3>2 DEF Order
  <2>3. book.orderMap[Taker.id] = NoOrder
    <3> SUFFICES ASSUME book.orderMap[Taker.id] # NoOrder PROVE FALSE
      OBVIOUS
    <3> DEFINE x == book.orderMap[Taker.id]
    <3>1. x \in book.linked /\ book.orders[x].id = book.orders[call.taker].id
      BY <1>2, <2>2 DEF Ledger, Indexed, Taker
    <3>2. x \in DOMAIN book.orders
      BY <1>2, <3>1 DEF BookOK
    <3>3. x = call.taker
      BY <1>2, <2>2, <3>1, <3>2, SMTT(30) DEF Ledger, UniqueIds
    <3> QED  BY <2>2, <3>1, <3>3
  <2>4. \A i \in Ids : c.orderMap[i] = NoOrder \/ c.orderMap[i] = book.orderMap[i]
    <3> HIDE DEF qty, id
    <3> QED  BY <1>2, <1>3, <1>5, DecreaseType, Zenon DEF c
  <2>5. c.orderMap[Taker.id] = NoOrder
    BY <2>2, <2>3, <2>4
  <2> HIDE DEF c, qty
  <2> QED  BY <2>1, <2>5, DecreasesNothing, Zenon
<1>7. Decreases(book, id, qty, c)
  <2> HIDE DEF qty, id
  <2> QED  BY <1>2, <1>3, <1>4, <1>5, DecreaseOK DEF c
<1>8. /\ SameOrders(book, c)
      /\ c.linked = IF qty = book.orders[r].quantity THEN book.linked \ {r} ELSE book.linked
  <2> HIDE DEF qty, id
  <2> QED  BY <1>2, <1>3, <1>4, <1>5, LedgerDecrease DEF c
<1>9. ASSUME qty # book.orders[r].quantity
      PROVE  c.orders[r].quantity = book.orders[r].quantity - qty
  <2>1. c.orders[r].quantity = LET newQty == IF book.orders[r].quantity <= qty THEN 0
                                             ELSE book.orders[r].quantity - qty
                               IN  IF newQty > 0 THEN newQty ELSE book.orders[r].quantity
    <3> HIDE DEF qty, id, c
    <3> QED  BY <1>3, <1>4, <1>7 DEF Decreases
  <2> HIDE DEF c, qty
  <2> QED  BY <1>3, <1>5, <1>9, <2>1
<1> HIDE DEF c, qty, id
<1> QED  BY <1>2, <1>5, <1>6, <1>8, <1>9 DEF qty

LEMMA TradePaidStep ==
  ASSUME CarefulInv, [Next]_vars
  PROVE  [TradePaid]_vars
<1> SUFFICES ASSUME Len(trades') > Len(trades) PROVE TradePaid
  BY DEF TradePaid
<1>1. trades \in Seq(Trade) /\ Len(trades) \in Nat
  BY LenProperties DEF CarefulInv, TypeInv, CallOK
<1>2. trades' # trades /\ ~(trades' = << >>)
  BY <1>1
<1>3. PICK r \in call.todo : ExecuteTrade(r)
  BY <1>2 DEF Next, InCall, Submit, Cancel, Modify, NextPass, Collect, BeginFill,
              KillFOK, EndPass, Finish, vars
<1> DEFINE qty == Smaller(call.remaining, book.orders[r].quantity)
           S(side) == {x \in book.linked : book.orders[x].side = side}
<1>4. trades'[Len(trades')].quantity = qty
  <2> DEFINE t == [price |-> book.orders[r].price, quantity |-> qty,
                   makerOrderId |-> book.orders[r].id, takerOrderId |-> Taker.id]
  <2>1. trades' = Append(trades, t)  BY <1>3 DEF ExecuteTrade
  <2>2. t.quantity = qty  OBVIOUS
  <2> HIDE DEF t, qty
  <2>3. Len(trades') = Len(trades) + 1 /\ trades'[Len(trades) + 1] = t
    BY <1>1, <2>1
  <2> QED  BY <2>2, <2>3
<1>5. /\ r \in book.linked /\ qty \in Nat /\ qty > 0
      /\ \/ qty = book.orders[r].quantity /\ book'.linked = book.linked \ {r}
         \/ book'.linked = book.linked /\ book'.orders[r].quantity = book.orders[r].quantity - qty
  BY <1>3, MakerPays
<1>6. /\ SameOrders(book, book') /\ Ledger(book) /\ book.linked \subseteq DOMAIN book.orders
      /\ \A x \in DOMAIN book.orders :
            x # r => book'.orders[x].quantity = book.orders[x].quantity
      /\ Ledger(book') /\ book'.linked \subseteq DOMAIN book'.orders
  BY <1>3, CarefulTrade DEF CarefulInv, Ledger, BookOK
<1>7. Taker.side' = Taker.side /\ book.orders[r].side = Opposite(Taker.side)
      /\ Taker.side # Opposite(Taker.side)
  <2>1. call'.taker = call.taker /\ call.taker \in DOMAIN book.orders /\ VectorCurrent
    BY <1>3 DEF ExecuteTrade, CarefulInv, VectorOK, TypeInv, CallOK, Call
  <2>2. Taker.side \in Sides
    <3>1. Taker \in Order  BY <1>6, <2>1, OrdersDomain DEF Ledger, BookOK, Taker
    <3> QED  BY <3>1 DEF Order
  <2> QED  BY <1>6, <2>1, <2>2 DEF Taker, SameOrders, VectorCurrent, Eligible, Opposite, Sides
<1>8. \A side : S(side)' = {x \in book'.linked : book.orders[x].side = side}
  BY <1>5, <1>6 DEF SameOrders
<1>9. \A side : S(side) \subseteq book.linked
  OBVIOUS
<1>10. \A x \in DOMAIN book.orders :
          book.orders[x].quantity \in Nat /\ book'.orders[x].quantity \in Nat
  <2>1. \A x \in DOMAIN book.orders : book.orders[x] \in Order
    BY <1>6, OrdersDomain DEF Ledger, BookOK
  <2>2. \A x \in DOMAIN book'.orders : book'.orders[x] \in Order
    BY <1>6, OrdersDomain DEF Ledger, BookOK
  <2> QED  BY <1>6, <2>1, <2>2 DEF SameOrders, Order
<1>11. \A side : IsFiniteSet(Units(book, S(side)))
  BY <1>6, <1>9, UnitsSubset DEF Ledger
<1> DEFINE mine   == S(Taker.side)
           theirs == S(Opposite(Taker.side))
<1>12. r \in theirs /\ r \notin mine /\ theirs \subseteq DOMAIN book.orders
       /\ mine \subseteq DOMAIN book.orders
  BY <1>5, <1>6, <1>7
<1>13. Open(Taker.side) = Cardinality(Units(book, mine))
       /\ Open(Opposite(Taker.side)) = Cardinality(Units(book, theirs))
  BY DEF Open, OpenQuantity
<1>14. Open(Taker.side)' = Cardinality(Units(book', mine'))
       /\ Open(Opposite(Taker.side))' = Cardinality(Units(book', theirs'))
  BY DEF Open, OpenQuantity
<1>15. mine' = mine
  BY <1>5, <1>7, <1>8
<1>16. Units(book', mine) = Units(book, mine)
  <2> HIDE DEF mine, theirs, S, qty
  <2> QED  BY <1>6, <1>12, UnitsSame
<1>17. Cardinality(Units(book', theirs')) = Cardinality(Units(book, theirs)) - qty
  <2>1. ASSUME qty = book.orders[r].quantity, book'.linked = book.linked \ {r}
        PROVE  Cardinality(Units(book', theirs')) = Cardinality(Units(book, theirs)) - qty
    <3>1. theirs' = theirs \ {r}
      BY <1>7, <1>8, <2>1
    <3>2. Units(book', theirs \ {r}) = Units(book, theirs \ {r})
      <4> HIDE DEF mine, theirs, S, qty
      <4> QED  BY <1>6, <1>12, UnitsSame
    <3>3. IsFiniteSet(Units(book, theirs))
      BY <1>11
    <3>4. Cardinality(Units(book, theirs \ {r}))
            = Cardinality(Units(book, theirs)) - book.orders[r].quantity
      <4> HIDE DEF mine, theirs, S, qty
      <4> QED  BY <1>10, <1>12, <3>3, UnitsWithout
    <3> HIDE DEF mine, theirs, S, qty
    <3> QED  BY <2>1, <3>1, <3>2, <3>4
  <2>2. ASSUME book'.linked = book.linked, book'.orders[r].quantity = book.orders[r].quantity - qty
        PROVE  Cardinality(Units(book', theirs')) = Cardinality(Units(book, theirs)) - qty
    <3>1. theirs' = theirs
      BY <1>7, <1>8, <2>2
    <3>2. IsFiniteSet(Units(book, theirs))
      BY <1>11
    <3>3. /\ IsFiniteSet(Units(book', theirs))
          /\ Cardinality(Units(book', theirs)) = Cardinality(Units(book, theirs))
               - book.orders[r].quantity + book'.orders[r].quantity
      <4> HIDE DEF mine, theirs, S, qty
      <4>1. book.orders[r].quantity \in Nat /\ book'.orders[r].quantity \in Nat
        BY <1>10, <1>12
      <4>2. \A x \in theirs \ {r} : book'.orders[x].quantity = book.orders[x].quantity
        BY <1>6, <1>12
      <4>3. r \in theirs
        BY <1>12
      <4> QED  BY ONLY <3>2, <4>1, <4>2, <4>3, UnitsRequantified
    <3>4. Cardinality(Units(book, theirs)) \in Nat
      BY <3>2, FS_CardinalityType
    <3>5. book.orders[r].quantity \in Nat
      BY <1>10, <1>12
    <3> HIDE DEF mine, theirs, S, qty
    <3> QED  BY ONLY <1>5, <2>2, <3>1, <3>3, <3>4, <3>5
  <2> QED  BY <1>5, <2>1, <2>2
<1> HIDE DEF mine, theirs, S, qty
<1> QED  BY <1>4, <1>5, <1>13, <1>14, <1>15, <1>16, <1>17 DEF TradePaid

\* Every trade takes its quantity out of the makers' side of the book, once, and
\* leaves the other side alone, with careful clients, for every number of orders.
THEOREM MakersPay == CarefulClients => (Spec => TradesPaidByMakers)
<1> SUFFICES ASSUME CarefulClients PROVE Spec => TradesPaidByMakers
  OBVIOUS
<1>1. Init => CarefulInv  BY CarefulInit
<1>2. CarefulInv /\ [Next]_vars => CarefulInv'  BY CarefulStep
<1>3. CarefulInv /\ [Next]_vars => [TradePaid]_vars  BY TradePaidStep
<1> QED  BY <1>1, <1>2, <1>3, PTL DEF Spec, TradesPaidByMakers

----------------------------------------------------------------------------
(* Nothing is left that could have been traded *)

\* What a FOK order that is past its collecting has found.
LEMMA CollectedAll ==
  ASSUME FokInv, call.phase = "collect", Collected, Taker.type = "FOK"
  PROVE  /\ call.remaining = Taker.quantity /\ trades = << >>
         /\ OpenQuantity(book, Eligible(book, Taker)) \in Nat
         /\ call.want > 0 <=> OpenQuantity(book, Eligible(book, Taker)) < Taker.quantity
<1> DEFINE eligible == Eligible(book, Taker)
<1>1. VectorCurrent /\ call.todo \subseteq eligible /\ eligible \subseteq book.linked
  BY DEF FokInv, CarefulInv, VectorOK, VectorCurrent, Eligible
<1>2. /\ call.taker # NoOrder /\ call.want \in Int /\ call.remaining \in Nat
  BY DEF FokInv, CarefulInv, TypeInv, CallOK, Call
<1>3. /\ trades = << >> /\ call.remaining = Taker.quantity
      /\ call.remaining = call.want + Collectable
  BY <1>2 DEF FokInv, IsFOK, Covered
<1>4. Collectable \in Nat
  BY <1>1, CollectableOK DEF FokInv
<1>5. IsFiniteSet(Units(book, eligible))
  BY <1>1, UnitsSubset DEF FokInv, CarefulInv, Ledger
<1>6. Units(book, call.todo) \subseteq Units(book, eligible)
  BY <1>1 DEF Units
<1>7. OpenQuantity(book, eligible) \in Nat /\ Collectable <= OpenQuantity(book, eligible)
  BY <1>5, <1>6, FS_CardinalityType, FS_Subset DEF OpenQuantity, Collectable
<1>8. ASSUME call.want > 0 PROVE OpenQuantity(book, eligible) = Collectable
  <2>1. eligible \subseteq call.todo
    BY <1>2, <1>8 DEF Collected
  <2>2. eligible = call.todo
    <3> HIDE DEF eligible
    <3> QED  BY ONLY <1>1, <2>1
  <2> QED  BY <2>2 DEF OpenQuantity, Collectable
<1> HIDE DEF eligible
<1>9. call.want > 0 <=> OpenQuantity(book, eligible) < Taker.quantity
  <2> HIDE DEF Collectable, OpenQuantity, Taker
  <2> QED  BY ONLY <1>2, <1>3, <1>4, <1>7, <1>8
<1> QED  BY <1>3, <1>7, <1>9 DEF eligible

LEMMA KeepsMatchingStep ==
  ASSUME FokInv, [Next]_vars
  PROVE  [KeepsMatching]_vars
<1> SUFFICES ASSUME call.phase # "idle", call'.phase = "idle", call.remaining > 0
             PROVE  KeepsMatching
  BY DEF KeepsMatching
<1>1. call.taker # NoOrder /\ call \in Call
  BY DEF FokInv, CarefulInv, TypeInv, CallOK
<1>2. KillFOK \/ EndPass \/ Finish
  BY <1>1 DEF Next, InCall, Submit, Cancel, Modify, NextPass, Collect, BeginFill,
              ExecuteTrade, vars, Call
<1>3. CASE KillFOK
  <2>1. call.phase = "collect" /\ Collected /\ Taker.type = "FOK" /\ call.want > 0
    BY <1>3 DEF KillFOK
  <2> QED  BY <2>1, CollectedAll DEF KeepsMatching
<1>4. CASE EndPass
  <2>1. Taker.type = "FOK" /\ call.phase = "fill" /\ (call.remaining = 0 \/ call.todo = {})
    BY <1>1, <1>4 DEF EndPass, Call
  <2>2. call.todo = {} /\ call.remaining <= Collectable /\ call.remaining \in Nat
    BY <1>1, <2>1 DEF FokInv, IsFOK, Covered, Call
  <2>3. Collectable = 0
    BY <2>2, NothingCollected
  <2> QED  BY <2>2, <2>3
<1>5. CASE Finish
  <2>1. call.phase = "head" /\ Eligible(book, Taker) = {}
    BY <1>5 DEF Finish, LoopCondition, HasMatchingOrders
  <2>2. Taker.type # "FOK"
    BY <1>1, <2>1 DEF FokInv, IsFOK, Covered
  <2> QED  BY <2>1, <2>2 DEF KeepsMatching
<1> QED  BY <1>2, <1>3, <1>4, <1>5

\* What is left of an order could not have been traded, and a FOK order is killed
\* only for want of quantity, with careful clients, for every number of orders.
THEOREM LeavesNothing == CarefulClients => (Spec => ExhaustsLiquidity)
<1> SUFFICES ASSUME CarefulClients PROVE Spec => ExhaustsLiquidity
  OBVIOUS
<1>1. Init => FokInv
  BY CarefulInit DEF FokInv, IsFOK, Init, NoCall
<1>2. FokInv /\ [Next]_vars => FokInv'  BY FokStep
<1>3. FokInv /\ [Next]_vars => [KeepsMatching]_vars  BY KeepsMatchingStep
<1> QED  BY <1>1, <1>2, <1>3, PTL DEF Spec, ExhaustsLiquidity

----------------------------------------------------------------------------
(* Calls are atomic *)

\* A loop that is over stays over.
LEMMA FilledStays ==
  ASSUME NEW s, NEW taker, Filled(s, taker), NEW n \in Nat
  PROVE  Turns(s, taker, n) = s
<1> DEFINE T == {k \in Nat : Turns(s, taker, k) = s}
<1>1. 0 \in T
  BY TurnsByTurn
<1>2. ASSUME NEW k \in Nat, k \in T PROVE k + 1 \in T
  <2>1. Turns(s, taker, k + 1) = Turn(Turns(s, taker, k), taker)
    BY TurnsByTurn
  <2>2. Turn(s, taker) = s
    BY DEF Turn
  <2> QED  BY <1>2, <2>1, <2>2
<1> HIDE DEF T
<1>3. Nat \subseteq T
  BY <1>1, <1>2, SetOfAllNat
<1> QED  BY <1>3 DEF T

\* The first turn and the others.
LEMMA TurnsFromNext ==
  ASSUME NEW s, NEW taker, NEW n \in Nat
  PROVE  Turns(s, taker, n + 1) = Turns(Turn(s, taker), taker, n)
<1> DEFINE d == Turn(s, taker)
           T == {k \in Nat : Turns(s, taker, k + 1) = Turns(d, taker, k)}
<1>1. 0 \in T
  <2>1. Turns(s, taker, 0 + 1) = Turn(Turns(s, taker, 0), taker) /\ Turns(s, taker, 0) = s
    BY TurnsByTurn
  <2>2. Turns(d, taker, 0) = d
    BY TurnsByTurn
  <2> QED  BY <2>1, <2>2
<1>2. ASSUME NEW k \in Nat, k \in T PROVE k + 1 \in T
  <2>1. Turns(s, taker, (k + 1) + 1) = Turn(Turns(s, taker, k + 1), taker)
    <3>1. k + 1 \in Nat
      OBVIOUS
    <3> QED  BY <3>1, TurnsByTurn
  <2>2. Turns(d, taker, k + 1) = Turn(Turns(d, taker, k), taker)
    BY TurnsByTurn
  <2>3. Turns(s, taker, k + 1) = Turns(d, taker, k)
    BY <1>2
  <2>4. Turns(s, taker, (k + 1) + 1) = Turns(d, taker, k + 1)
    <3> HIDE DEF d
    <3> QED  BY ONLY <2>1, <2>2, <2>3
  <2> QED  BY <2>4
<1> HIDE DEF T, d
<1>3. Nat \subseteq T
  BY <1>1, <1>2, SetOfAllNat
<1> QED  BY <1>3 DEF T, d

\* There is only one first order.
LEMMA FirstUnique ==
  ASSUME NEW b, BookOK(b), NEW o, o.side \in Sides, NEW r, FirstOf(b, r, Eligible(b, o))
  PROVE  First(b, Eligible(b, o)) = r
<1> DEFINE E == Eligible(b, o)
           m == First(b, E)
<1>1. r \in E /\ E \subseteq b.linked
  BY DEF FirstOf, Eligible
<1>2. m \in E /\ FirstOf(b, m, E)
  BY <1>1, FirstEligible
<1>3. \A x \in E : b.orders[x].price \in Nat /\ x \in Nat /\ b.orders[x].side = Opposite(o.side)
  <2>1. \A x \in b.linked : x \in DOMAIN b.orders /\ b.orders[x].type # "MARKET"
    BY DEF BookOK
  <2>2. \A x \in b.linked : b.orders[x].price \in Prices /\ x \in Nat
    BY <2>1 DEF BookOK, Book
  <2> QED  BY <1>1, <2>2, PricesAssumption DEF Eligible
<1>4. Opposite(o.side) \in Sides
  BY DEF Opposite, Sides
<1> HIDE DEF m
<1>5. ASSUME m # r PROVE FALSE
  <2>1. Ahead(b, m, r) /\ Ahead(b, r, m)
    BY <1>1, <1>2, <1>5 DEF FirstOf
  <2> HIDE DEF E
  <2>2. /\ b.orders[m].price \in Nat /\ m \in Nat /\ b.orders[r].price \in Nat /\ r \in Nat
        /\ b.orders[m].side = b.orders[r].side
    BY <1>1, <1>2, <1>3
  <2> QED  BY <2>1, <2>2 DEF Ahead
<1> QED  BY <1>5 DEF m

\* What the loop has in hand while a call is in progress.
State == [book |-> book, remaining |-> call.remaining, trades |-> trades]

\* What the caller gets when the loop goes on to its end from here.
Ends == \E n \in Nat :
            LET d == Turns(State, Taker, n)
            IN  /\ Filled(d, Taker)
                /\ outcome = [book |-> Rest(d, call.taker), trades |-> d.trades]

\* A FOK order that is still collecting may be killed.
Coming ==
    IF call.phase = "collect" /\ Taker.type = "FOK"
         /\ OpenQuantity(book, Eligible(book, Taker)) < Taker.quantity
    THEN outcome = Found
    ELSE Ends

AtomicInv == FokInv /\ (IF call.phase = "idle" THEN outcome = Found ELSE Coming)

\* The order object of a call is what it was until the call ends.
TakerKept == call'.taker = call.taker /\ Taker' = Taker

\* A step that leaves the book, the trades and what remains alone.
LEMMA EndsKept ==
  ASSUME book' = book, trades' = trades, call'.taker = call.taker,
         call'.remaining = call.remaining, outcome' = outcome, Ends
  PROVE  Ends'
BY DEF Ends, State, Taker

\* A step that only moves the call to its next pass, or collects, leaves what is
\* to come as it was.
LEMMA AtomicCollecting ==
  ASSUME AtomicInv, call.phase # "idle", book' = book, trades' = trades,
         call'.taker = call.taker, call'.remaining = call.remaining, outcome' = outcome,
         call'.phase # "idle",
         call'.phase = "collect" /\ Taker.type = "FOK" => call.phase = "collect",
         call.phase = "collect" /\ Taker.type = "FOK" /\ call'.phase # "collect" =>
            ~(OpenQuantity(book, Eligible(book, Taker)) < Taker.quantity)
  PROVE  Coming'
<1>1. Taker' = Taker
  BY DEF Taker
<1>2. Ends => Ends'
  BY EndsKept
<1>3. Found' = Found
  BY DEF Found
<1>4. (OpenQuantity(book, Eligible(book, Taker)) < Taker.quantity)'
        <=> OpenQuantity(book, Eligible(book, Taker)) < Taker.quantity
  BY <1>1
<1> QED  BY ONLY AtomicInv, call.phase # "idle", outcome' = outcome, call'.phase # "idle",
            call'.phase = "collect" /\ Taker.type = "FOK" => call.phase = "collect",
            call.phase = "collect" /\ Taker.type = "FOK" /\ call'.phase # "collect" =>
               ~(OpenQuantity(book, Eligible(book, Taker)) < Taker.quantity),
            <1>1, <1>2, <1>3, <1>4 DEF AtomicInv, Coming

\* A trade is the next turn of the loop.
LEMMA AtomicTrade ==
  ASSUME AtomicInv, NEW r \in call.todo, ExecuteTrade(r), outcome' = outcome
  PROVE  Coming' /\ TakerKept
<1>1. /\ call.phase = "fill" /\ call'.phase = "fill" /\ call.remaining > 0
      /\ call'.taker = call.taker /\ call.taker \in DOMAIN book.orders
      /\ call.taker \notin book.linked /\ VectorCurrent
      /\ FirstOf(book, r, call.todo)
      /\ call.remaining \in Nat
  BY DEF ExecuteTrade, AtomicInv, FokInv, CarefulInv, VectorOK, TypeInv, CallOK, Call
<1>2. BookOK(book) /\ BookOK(book')
  BY CarefulTrade DEF AtomicInv, FokInv, CarefulInv, Ledger
<1>3. Taker \in Order
  BY <1>1, <1>2, OrdersDomain DEF BookOK, Taker
<1>4. Taker' = Taker
  <2>1. r \in book.linked
    BY <1>1 DEF VectorCurrent, Eligible
  <2>2. /\ SameOrders(book, book')
        /\ book'.orders[call.taker].quantity = book.orders[call.taker].quantity
    BY <1>1, <2>1, CarefulTrade DEF AtomicInv, FokInv
  <2>3. call.taker \in DOMAIN book'.orders
    BY <1>1, <2>2 DEF SameOrders
  <2>4. book'.orders[call.taker] \in Order
    BY <1>2, <2>3, OrdersDomain DEF BookOK
  <2>5. book'.orders[call.taker] = book.orders[call.taker]
    BY <1>1, <1>3, <2>2, <2>4 DEF SameOrders, Order, Taker
  <2> QED  BY <1>1, <2>5 DEF Taker
<1> DEFINE eligible == Eligible(book, Taker)
<1>5. FirstOf(book, r, eligible)
  BY <1>1 DEF VectorCurrent, FirstOf
<1>6. First(book, eligible) = r
  BY <1>2, <1>3, <1>5, FirstUnique DEF Order
<1>7. ~Filled(State, Taker)
  <2>1. eligible # {}
    BY <1>5 DEF FirstOf
  <2> QED  BY <1>1, <2>1 DEF Filled, State, HasMatchingOrders
<1>8. State' = ExecuteTradeWith(State, r, Taker)
  <2>1. State.book = book /\ State.remaining = call.remaining /\ State.trades = trades
    BY DEF State
  <2>2. call'.remaining = call.remaining - Smaller(call.remaining, book.orders[r].quantity)
    BY DEF ExecuteTrade, AtomicInv, FokInv, CarefulInv, TypeInv, CallOK, Call
  <2>3. /\ book' = DecreaseOrderQuantity(
                     DecreaseOrderQuantity(book, book.orders[r].id,
                        Smaller(call.remaining, book.orders[r].quantity)),
                     Taker.id, Smaller(call.remaining, book.orders[r].quantity))
        /\ trades' = Append(trades,
              [price |-> book.orders[r].price,
               quantity |-> Smaller(call.remaining, book.orders[r].quantity),
               makerOrderId |-> book.orders[r].id, takerOrderId |-> Taker.id])
    BY DEF ExecuteTrade
  <2>4. State' = [book |-> book', remaining |-> call'.remaining, trades |-> trades']
    BY DEF State
  <2> QED  BY ONLY <2>1, <2>2, <2>3, <2>4, Zenon DEF ExecuteTradeWith
<1>9. State' = Turn(State, Taker)
  <2>1. Turn(State, Taker) = ExecuteTradeWith(State, First(book, eligible), Taker)
    BY <1>7 DEF Turn, State
  <2> QED  BY ONLY <1>6, <1>8, <2>1
<1>10. Ends
  BY <1>1 DEF AtomicInv, Coming
<1>11. PICK n \in Nat : LET d == Turns(State, Taker, n)
                        IN  /\ Filled(d, Taker)
                            /\ outcome = [book |-> Rest(d, call.taker), trades |-> d.trades]
  BY <1>10 DEF Ends
<1>12. n # 0
  <2>1. Turns(State, Taker, 0) = State
    BY TurnsByTurn
  <2> QED  BY <1>7, <1>11, <2>1
<1>13. n - 1 \in Nat /\ (n - 1) + 1 = n
  BY <1>12
<1>14. Turns(State, Taker, n) = Turns(State', Taker, n - 1)
  <2>1. Turns(State, Taker, (n - 1) + 1) = Turns(Turn(State, Taker), Taker, n - 1)
    BY <1>13, TurnsFromNext
  <2> QED  BY ONLY <1>9, <1>13, <2>1
<1>15. Ends'
  <2>1. LET d == Turns(State', Taker', n - 1)
        IN  /\ Filled(d, Taker')
            /\ outcome' = [book |-> Rest(d, call'.taker), trades |-> d.trades]
    BY ONLY <1>1, <1>4, <1>11, <1>14, outcome' = outcome
  <2> QED  BY <1>13, <2>1 DEF Ends
<1> QED  BY <1>1, <1>4, <1>15 DEF Coming, TakerKept

\* When the loop is over, the caller gets what is there.
LEMMA EndsNow ==
  ASSUME Ends, Filled(State, Taker)
  PROVE  outcome = [book |-> Rest(State, call.taker), trades |-> trades]
<1>1. PICK n \in Nat : LET d == Turns(State, Taker, n)
                       IN  outcome = [book |-> Rest(d, call.taker), trades |-> d.trades]
  BY DEF Ends
<1>2. Turns(State, Taker, n) = State
  BY FilledStays
<1>3. State.trades = trades
  BY DEF State
<1> QED  BY ONLY <1>1, <1>2, <1>3

\* A call starts: the loop has its end before it.
LEMMA AtomicSubmit ==
  ASSUME CarefulClients, AtomicInv, NEW o \in Submittable, Submit(o),
         outcome' = ProcessOrder(book, Taker')
  PROVE  Coming' /\ Taker' = o
<1> DEFINE b == NewOrder(book, o)
           s == [book |-> b, remaining |-> o.quantity, trades |-> << >>]
           n == Cardinality(b.linked)
           d == Turns(s, o, n)
           t == Len(book.orders) + 1
<1>1. /\ o \in Order /\ (o.type = "LIMIT" => o.price \in Prices) /\ o.quantity \in Nat
      /\ o.side \in Sides /\ o.id \in Ids
  BY SubmittableOK DEF Order
<1>2. /\ book' = b /\ BookOK(book) /\ Len(book.orders) \in Nat /\ Ledger(book)
      /\ \A r \in DOMAIN book.orders : book.orders[r].id # o.id
  BY OrdersDomain DEF Submit, AtomicInv, FokInv, CarefulInv, TypeInv, BookOK, CarefulClients
<1>3. /\ b.orders[t] = o /\ b.linked = book.linked /\ b.orderMap = book.orderMap /\ BookOK(b)
      /\ \A r \in DOMAIN book.orders : b.orders[r] = book.orders[r]
  BY <1>1, <1>2, NewOrderOK
<1>4. /\ call'.phase = (IF o.type = "FOK" THEN "collect" ELSE "head")
      /\ call'.taker = t /\ call'.remaining = o.quantity /\ trades' = << >>
  BY DEF Submit
<1>5. Taker' = o
  BY <1>2, <1>3, <1>4 DEF Taker
<1>6. State' = s
  BY <1>2, <1>4 DEF State
<1>7. Ledger(b)
  BY <1>1, <1>2, LedgerNewOrder
<1>8. Unindexed(b, o)
  <2> SUFFICES ASSUME book.orderMap[o.id] # NoOrder PROVE FALSE
    BY <1>1, <1>3 DEF Unindexed
  <2>1. book.orderMap[o.id] \in book.linked /\ book.orders[book.orderMap[o.id]].id = o.id
    BY <1>1, <1>2 DEF Ledger, Indexed
  <2>2. book.linked \subseteq DOMAIN book.orders
    BY <1>2 DEF BookOK
  <2> QED  BY <1>2, <2>1, <2>2
<1>9. Filled(d, o)
  <2>1. s.book = b /\ s.remaining = o.quantity
    OBVIOUS
  <2> HIDE DEF b, s
  <2> QED  BY <1>1, <1>7, <1>8, <2>1, LedgerFindable, LoopEnds
<1>10. n \in Nat
  BY <1>3, LinkedFinite
<1>11. Eligible(b, o) = Eligible(book, o)
  <2>1. book.linked \subseteq DOMAIN book.orders
    BY <1>2 DEF BookOK
  <2> HIDE DEF b
  <2> QED  BY <1>3, <2>1 DEF Eligible
<1>12. OpenQuantity(b, Eligible(b, o)) = OpenQuantity(book, Eligible(book, o))
  <2>1. Eligible(book, o) \subseteq DOMAIN book.orders
    BY <1>2 DEF BookOK, Eligible
  <2>2. \A r \in Eligible(book, o) : b.orders[r].quantity = book.orders[r].quantity
    BY <1>3, <2>1
  <2> HIDE DEF b
  <2>3. Units(b, Eligible(book, o)) = Units(book, Eligible(book, o))
    BY ONLY <2>2, UnitsSame
  <2> QED  BY ONLY <1>11, <2>3 DEF OpenQuantity
<1>13. ProcessOrder(book, o) =
          IF o.type = "FOK" /\ OpenQuantity(book, Eligible(book, o)) < o.quantity
          THEN [book |-> b, trades |-> << >>]
          ELSE [book |-> Rest(d, t), trades |-> d.trades]
  BY DEF ProcessOrder, Fill
<1>14. outcome' = ProcessOrder(book, o)
  BY <1>5
<1> HIDE DEF b, s, n, d
<1>15. CASE o.type = "FOK" /\ OpenQuantity(book, Eligible(book, o)) < o.quantity
  <2>1. outcome' = Found'
    BY ONLY <1>2, <1>4, <1>13, <1>14, <1>15 DEF Found
  <2>2. (call.phase = "collect" /\ Taker.type = "FOK"
           /\ OpenQuantity(book, Eligible(book, Taker)) < Taker.quantity)'
    BY <1>2, <1>4, <1>5, <1>12, <1>15
  <2> QED  BY ONLY <1>5, <2>1, <2>2 DEF Coming
<1>16. CASE ~(o.type = "FOK" /\ OpenQuantity(book, Eligible(book, o)) < o.quantity)
  <2>1. outcome' = [book |-> Rest(d, t), trades |-> d.trades]
    BY ONLY <1>13, <1>14, <1>16
  <2>2. Turns(State', Taker', n) = d /\ call'.taker = t
    BY ONLY <1>4, <1>5, <1>6 DEF d
  <2>3. Ends'
    BY ONLY <1>5, <1>9, <1>10, <2>1, <2>2 DEF Ends
  <2>4. ~(call.phase = "collect" /\ Taker.type = "FOK"
            /\ OpenQuantity(book, Eligible(book, Taker)) < Taker.quantity)'
    BY ONLY <1>2, <1>4, <1>5, <1>12, <1>16
  <2> QED  BY ONLY <1>5, <2>3, <2>4 DEF Coming
<1> QED  BY ONLY <1>15, <1>16

\* A call returns: the caller gets what was to come.
LEMMA AtomicReturn ==
  ASSUME AtomicInv, KillFOK \/ (EndPass /\ call'.phase = "idle") \/ Finish
  PROVE  outcome = Found' /\ call'.taker = call.taker
<1>0. call'.taker = call.taker /\ call.taker # NoOrder /\ call \in Call
  BY DEF KillFOK, EndPass, Finish, AtomicInv, FokInv, CarefulInv, TypeInv, CallOK, Call
<1>1. CASE KillFOK
  <2>1. call.phase = "collect" /\ Collected /\ Taker.type = "FOK" /\ call.want > 0
        /\ book' = book /\ trades' = trades
    BY <1>1 DEF KillFOK
  <2>2. OpenQuantity(book, Eligible(book, Taker)) < Taker.quantity
    BY <2>1, CollectedAll DEF AtomicInv
  <2>3. outcome = Found
    BY <2>1, <2>2 DEF AtomicInv, Coming
  <2> QED  BY <1>0, <2>1, <2>3 DEF Found
<1>2. CASE EndPass /\ call'.phase = "idle"
  <2>1. Taker.type = "FOK" /\ call.phase = "fill" /\ (call.remaining = 0 \/ call.todo = {})
        /\ book' = book /\ trades' = trades
    BY <1>0, <1>2 DEF EndPass, Call
  <2>2. call.remaining = 0
    <3>1. call.remaining = 0 \/ call.remaining <= Collectable
      BY <1>0, <2>1 DEF AtomicInv, FokInv, IsFOK, Covered
    <3>2. call.todo = {} => Collectable = 0
      BY NothingCollected
    <3>3. call.remaining \in Nat
      BY <1>0 DEF Call
    <3> HIDE DEF Collectable
    <3> QED  BY ONLY <2>1, <3>1, <3>2, <3>3
  <2>3. Filled(State, Taker)
    BY <2>2 DEF Filled, State
  <2>4. Ends
    BY <2>1 DEF AtomicInv, Coming
  <2>5. outcome = [book |-> Rest(State, call.taker), trades |-> trades]
    BY <2>3, <2>4, EndsNow
  <2>6. Rest(State, call.taker) = book
    BY <2>2 DEF Rest, State
  <2> QED  BY <1>0, <2>1, <2>5, <2>6 DEF Found
<1>3. CASE Finish
  <2>1. call.phase = "head" /\ ~LoopCondition /\ trades' = trades
    BY <1>3 DEF Finish
  <2>2. Filled(State, Taker)
    <3>1. State.book = book /\ State.remaining = call.remaining /\ call.remaining \in Nat
      BY <1>0 DEF State, Call
    <3> QED  BY <2>1, <3>1 DEF Filled, LoopCondition
  <2>3. Ends
    BY <2>1 DEF AtomicInv, Coming
  <2>4. outcome = [book |-> Rest(State, call.taker), trades |-> trades]
    BY <2>2, <2>3, EndsNow
  <2>5. book' = Rest(State, call.taker)
    <3>1. State.book = book /\ State.remaining = call.remaining
      BY DEF State
    <3>2. book' = IF Taker.type = "LIMIT" /\ call.remaining > 0
                  THEN AddOrder([book EXCEPT !.orders[call.taker].quantity = call.remaining],
                                call.taker)
                  ELSE book
      BY <1>3 DEF Finish
    <3> QED  BY ONLY <3>1, <3>2 DEF Rest, Taker
  <2> QED  BY ONLY <1>0, <2>1, <2>4, <2>5 DEF Found
<1> QED  BY <1>0, <1>1, <1>2, <1>3

\* What a step does to a call and to what is to come.
AtomicStep ==
    \/ \E o \in Submittable : Submit(o) /\ outcome' = ProcessOrder(book, o) /\ Taker' = o
                              /\ call.phase = "idle" /\ call'.taker # NoOrder
    \/ \E id \in Ids : Cancel(id) /\ outcome' = Found'
    \/ \E id \in Ids, q \in ModifyQtys : Modify(id, q) /\ outcome' = Found'
    \/ outcome' = outcome /\ LastTaker' = LastTaker

\* The invariant is kept, and each step is one of the four kinds of AtomicStep.
LEMMA AtomicStepTaken ==
  ASSUME CarefulClients, AtomicInv, AtomicNext
  PROVE  AtomicInv' /\ AtomicStep
<1>0. FokInv' /\ call \in Call /\ call' \in Call
  BY FokStep DEF AtomicInv, AtomicNext, FokInv, CarefulInv, TypeInv, CallOK
<1>1. ASSUME NEW o \in Submittable, Submit(o) PROVE AtomicInv' /\ AtomicStep
  <2>1. call.phase = "idle" /\ call'.phase # "idle" /\ call'.taker # NoOrder
    <3>1. Len(book.orders) \in Nat
      BY OrdersDomain DEF AtomicInv, FokInv, CarefulInv, TypeInv, BookOK
    <3> QED  BY <1>1, <3>1 DEF Submit, NoOrder
  <2>2. outcome' = ProcessOrder(book, Taker')
    BY <2>1 DEF AtomicNext
  <2>3. Coming' /\ Taker' = o
    BY <1>1, <2>2, AtomicSubmit
  <2> QED  BY ONLY <1>0, <1>1, <2>1, <2>2, <2>3, o \in Submittable DEF AtomicInv, AtomicStep
<1>2. ASSUME NEW id \in Ids, Cancel(id) PROVE AtomicInv' /\ AtomicStep
  <2>1. call'.phase = "idle" /\ outcome' = Found'
    BY <1>2 DEF Cancel, AtomicNext
  <2> QED  BY ONLY <1>0, <1>2, <2>1, id \in Ids DEF AtomicInv, AtomicStep
<1>3. ASSUME NEW id \in Ids, NEW q \in ModifyQtys, Modify(id, q) PROVE AtomicInv' /\ AtomicStep
  <2>1. call'.phase = "idle" /\ outcome' = Found'
    BY <1>3 DEF Modify, AtomicNext
  <2> QED  BY ONLY <1>0, <1>3, <2>1, id \in Ids, q \in ModifyQtys DEF AtomicInv, AtomicStep
<1>4. CASE NextPass
  <2>1. /\ call.phase = "head" /\ call'.phase = "collect" /\ book' = book /\ trades' = trades
        /\ call'.taker = call.taker /\ call'.remaining = call.remaining
    BY <1>0, <1>4 DEF NextPass, Call
  <2>2. outcome' = outcome
    BY <2>1 DEF AtomicNext
  <2>3. Taker.type # "FOK"
    BY <2>1 DEF AtomicInv, FokInv, IsFOK, Covered, CarefulInv, TypeInv, CallOK
  <2>4. Coming'
    BY <2>1, <2>2, <2>3, AtomicCollecting
  <2>5. LastTaker' = LastTaker
    BY <2>1 DEF LastTaker, Taker
  <2> QED  BY ONLY <1>0, <2>1, <2>2, <2>4, <2>5 DEF AtomicInv, AtomicStep
<1>5. ASSUME NEW r \in book.linked, Collect(r) PROVE AtomicInv' /\ AtomicStep
  <2>1. /\ call.phase = "collect" /\ call'.phase = "collect" /\ book' = book /\ trades' = trades
        /\ call'.taker = call.taker /\ call'.remaining = call.remaining
    BY <1>0, <1>5 DEF Collect, Call
  <2>2. outcome' = outcome
    BY <2>1 DEF AtomicNext
  <2>3. Coming'
    BY <2>1, <2>2, AtomicCollecting
  <2>4. LastTaker' = LastTaker
    BY <2>1 DEF LastTaker, Taker
  <2> QED  BY ONLY <1>0, <2>1, <2>2, <2>3, <2>4 DEF AtomicInv, AtomicStep
<1>6. CASE BeginFill
  <2>1. /\ call.phase = "collect" /\ call'.phase = "fill" /\ book' = book /\ trades' = trades
        /\ call'.taker = call.taker /\ call'.remaining = call.remaining /\ Collected
        /\ Taker.type = "FOK" => call.want <= 0
    BY <1>0, <1>6 DEF BeginFill, Call
  <2>2. outcome' = outcome
    BY <2>1 DEF AtomicNext
  <2>3. Taker.type = "FOK" => ~(OpenQuantity(book, Eligible(book, Taker)) < Taker.quantity)
    <3>1. call.want \in Int
      BY <1>0 DEF Call
    <3> QED  BY <2>1, <3>1, CollectedAll DEF AtomicInv
  <2>4. Coming'
    BY <2>1, <2>2, <2>3, AtomicCollecting
  <2>5. LastTaker' = LastTaker
    BY <2>1 DEF LastTaker, Taker
  <2> QED  BY ONLY <1>0, <2>1, <2>2, <2>4, <2>5 DEF AtomicInv, AtomicStep
<1>7. ASSUME KillFOK \/ (EndPass /\ call'.phase = "idle") \/ Finish
      PROVE  AtomicInv' /\ AtomicStep
  <2>1. call'.phase = "idle" /\ outcome' = Found'
    BY <1>0, <1>7 DEF KillFOK, Finish, AtomicNext, Call
  <2>2. outcome' = outcome /\ call'.taker = call.taker
    BY <1>7, <2>1, AtomicReturn
  <2>3. call.taker # NoOrder => /\ Taker'.id = Taker.id /\ Taker'.side = Taker.side
                                /\ Taker'.type = Taker.type /\ Taker'.price = Taker.price
    <3> SUFFICES ASSUME call.taker # NoOrder
                 PROVE  /\ Taker'.id = Taker.id /\ Taker'.side = Taker.side
                        /\ Taker'.type = Taker.type /\ Taker'.price = Taker.price
      OBVIOUS
    <3>1. call.taker \in DOMAIN book.orders
      BY DEF AtomicInv, FokInv, CarefulInv, TypeInv, CallOK
    <3>2. CASE book' = book
      BY <2>2, <3>2 DEF Taker
    <3>3. CASE book' # book
      <4> DEFINE c == [book EXCEPT !.orders[call.taker].quantity = call.remaining]
      <4>1. Finish
        BY <1>7, <3>3 DEF KillFOK, EndPass
      <4>2. /\ BookOK(c) /\ SameOrders(book, c) /\ c.orders[call.taker].type = "LIMIT"
            /\ book' = AddOrder(c, call.taker)
        BY <3>3, <4>1, FinishBook DEF AtomicInv, FokInv, CarefulInv
      <4> HIDE DEF c
      <4>3. book'.orders = c.orders
        BY <3>1, <4>2, AddOrderOK, Zenon DEF SameOrders
      <4> QED  BY <2>2, <3>1, <4>2, <4>3 DEF Taker, SameOrders
    <3> QED  BY <3>2, <3>3
  <2>4. LastTaker' = LastTaker
    BY ONLY <2>2, <2>3 DEF LastTaker
  <2> QED  BY ONLY <1>0, <2>1, <2>2, <2>4 DEF AtomicInv, AtomicStep
<1>8. ASSUME NEW r \in call.todo, ExecuteTrade(r) PROVE AtomicInv' /\ AtomicStep
  <2>1. call.phase = "fill" /\ call'.phase = "fill"
    BY <1>0, <1>8 DEF ExecuteTrade, Call
  <2>2. outcome' = outcome
    BY <2>1 DEF AtomicNext
  <2>3. Coming' /\ TakerKept
    BY <1>8, <2>2, AtomicTrade
  <2>4. LastTaker' = LastTaker
    BY <2>3 DEF LastTaker, TakerKept
  <2> QED  BY ONLY <1>0, <2>1, <2>2, <2>3, <2>4 DEF AtomicInv, AtomicStep
<1>9. ASSUME EndPass, call'.phase # "idle" PROVE AtomicInv' /\ AtomicStep
  <2>1. /\ call.phase = "fill" /\ call'.phase = "head" /\ book' = book /\ trades' = trades
        /\ call'.taker = call.taker /\ call'.remaining = call.remaining
    BY <1>0, <1>9 DEF EndPass, Call
  <2>2. outcome' = outcome
    BY <2>1 DEF AtomicNext
  <2>3. Coming'
    BY <2>1, <2>2, AtomicCollecting
  <2>4. LastTaker' = LastTaker
    BY <2>1 DEF LastTaker, Taker
  <2> QED  BY ONLY <1>0, <2>1, <2>2, <2>3, <2>4 DEF AtomicInv, AtomicStep
<1>10. Next
  BY DEF AtomicNext
<1>11. KillFOK \/ EndPass \/ Finish => AtomicInv' /\ AtomicStep
  <2>1. call'.phase = "idle" \/ call'.phase # "idle"
    OBVIOUS
  <2> QED  BY ONLY <1>7, <1>9, <2>1, Zenon
<1> QED
  BY ONLY <1>1, <1>2, <1>3, <1>4, <1>5, <1>6, <1>8, <1>10, <1>11, Zenon DEF Next, InCall

\* Nothing happens.
LEMMA AtomicStutter ==
  ASSUME AtomicInv, UNCHANGED <<vars, outcome>>
  PROVE  AtomicInv'
<1>1. /\ book' = book /\ call' = call /\ trades' = trades /\ outcome' = outcome
  BY DEF vars
<1>2. FokInv'
  <2>1. CarefulInv'
    BY <1>1 DEF AtomicInv, FokInv, CarefulInv, TypeInv, CallOK, VectorOK, VectorCurrent, Taker
  <2> QED  BY <1>1, <2>1 DEF AtomicInv, FokInv, IsFOK, Covered, Taker, Collectable
<1>3. Found' = Found /\ (Ends => Ends') /\ Taker' = Taker
  BY <1>1, EndsKept DEF Found, Taker
<1>4. Coming => Coming'
  BY ONLY <1>1, <1>3 DEF Coming
<1> QED  BY ONLY AtomicInv, <1>1, <1>2, <1>3, <1>4 DEF AtomicInv

----------------------------------------------------------------------------
(* The operators of BookCalls are those of ProcessOrder and OrderBook *)

\* The empty book and the orders the clients may submit.
LEMMA SameBook ==
  /\ Calls!EmptyBook = EmptyBook
  /\ Calls!Submittable = Submittable
BY DEF Calls!EmptyBook, EmptyBook, Calls!Submittable, Submittable, Calls!NoOrder, NoOrder,
       Calls!Sides, Sides

\* The operations on a book, one by one.
LEMMA SameCancel ==
  ASSUME NEW b, NEW id
  PROVE  Calls!CancelOrder(b, id) = CancelOrder(b, id)
BY DEF Calls!CancelOrder, CancelOrder, Calls!LevelOf, LevelOf, Calls!Level, Level,
       Calls!NoOrder, NoOrder

LEMMA SameModify ==
  ASSUME NEW b, NEW id, NEW q
  PROVE  Calls!ModifyOrder(b, id, q) = ModifyOrder(b, id, q)
BY DEF Calls!ModifyOrder, ModifyOrder, Calls!LevelOf, LevelOf, Calls!Level, Level

LEMMA SameDecrease ==
  ASSUME NEW b, NEW id, NEW amount
  PROVE  Calls!DecreaseOrderQuantity(b, id, amount) = DecreaseOrderQuantity(b, id, amount)
<1> DEFINE r == b.orderMap[id]
<1>1. Calls!QuantityLeft(b, r, amount) = QuantityLeft(b, r, amount)
  BY DEF Calls!QuantityLeft, QuantityLeft
<1>2. Calls!LevelOf(b, r) = LevelOf(b, r)
  BY DEF Calls!LevelOf, LevelOf, Calls!Level, Level
<1>3. Calls!GoneBy(b, r, id, amount) = GoneBy(b, r, id, amount)
  BY <1>1, <1>2 DEF Calls!GoneBy, GoneBy
<1>4. Calls!TotalBy(b, r, id, amount) = TotalBy(b, r, id, amount)
  BY <1>1, <1>2, <1>3 DEF Calls!TotalBy, TotalBy
<1>5. Calls!DecreaseIndexed(b, id, amount) = DecreaseIndexed(b, id, amount)
  BY <1>1, <1>3, <1>4, Zenon DEF Calls!DecreaseIndexed, DecreaseIndexed, Calls!NoOrder, NoOrder
<1> QED  BY <1>5 DEF Calls!DecreaseOrderQuantity, DecreaseOrderQuantity, Calls!NoOrder, NoOrder

\* Each instance of FiniteSets has a Cardinality of its own.
LEMMA SameCardinality ==
  ASSUME NEW S
  PROVE  Calls!Cardinality(S) = Cardinality(S)
BY DEF Calls!Cardinality, Cardinality

\* The queries.
LEMMA SameQueries ==
  ASSUME NEW b, NEW o, NEW S
  PROVE  /\ Calls!Eligible(b, o) = Eligible(b, o)
         /\ Calls!OpenQuantity(b, S) = OpenQuantity(b, S)
         /\ Calls!First(b, S) = First(b, S)
         /\ Calls!NewOrder(b, o) = NewOrder(b, o)
<1>1. Calls!Eligible(b, o) = Eligible(b, o)
  BY DEF Calls!Eligible, Eligible, Calls!Opposite, Opposite, Calls!PriceAccepts, PriceAccepts
<1>2. Calls!OpenQuantity(b, S) = OpenQuantity(b, S)
  BY SameCardinality DEF Calls!OpenQuantity, OpenQuantity, Calls!Units, Units
<1>3. Calls!First(b, S) = First(b, S)
  BY DEF Calls!First, First, Calls!FirstOf, FirstOf, Calls!Ahead, Ahead
<1>4. Calls!NewOrder(b, o) = NewOrder(b, o)
  BY DEF Calls!NewOrder, NewOrder
<1> QED  BY <1>1, <1>2, <1>3, <1>4

\* One turn of the loop, and any number of them.
LEMMA SameTurn ==
  ASSUME NEW s, NEW taker
  PROVE  Calls!Turn(s, taker) = Turn(s, taker)
<1>1. Calls!Filled(s, taker) <=> Filled(s, taker)
  BY SameQueries DEF Calls!Filled, Filled, Calls!HasMatchingOrders, HasMatchingOrders
<1>2. \A x, y : Calls!Smaller(x, y) = Smaller(x, y)
  BY DEF Calls!Smaller, Smaller
<1>3. ASSUME NEW m
      PROVE  Calls!ExecuteTradeWith(s, m, taker) = ExecuteTradeWith(s, m, taker)
  BY ONLY <1>2, SameDecrease, Zenon DEF Calls!ExecuteTradeWith, ExecuteTradeWith
<1>4. Calls!First(s.book, Calls!Eligible(s.book, taker)) = First(s.book, Eligible(s.book, taker))
  BY SameQueries
<1> QED  BY ONLY <1>1, <1>3, <1>4, Zenon DEF Calls!Turn, Turn

LEMMA SameTurns ==
  ASSUME NEW s, NEW taker, NEW n \in Nat
  PROVE  Calls!Turns(s, taker, n) = Turns(s, taker, n)
<1> DEFINE f == CHOOSE f : f = [k \in 0 .. n |-> IF k = 0 THEN s ELSE Calls!Turn(f[k - 1], taker)]
<1>1. Calls!Turns(s, taker, n) = f[n]
  BY DEF Calls!Turns
<1>2. PICK g : IsRun(g, s, taker, n) /\ Turns(s, taker, n) = g[n]
  BY TurnsRun
<1>3. g = [k \in 0 .. n |-> IF k = 0 THEN s ELSE Calls!Turn(g[k - 1], taker)]
  BY ONLY <1>2, SameTurn DEF IsRun
<1>4. f = [k \in 0 .. n |-> IF k = 0 THEN s ELSE Calls!Turn(f[k - 1], taker)]
  BY ONLY <1>3
<1> HIDE DEF f
<1>5. IsRun(f, s, taker, n)
  BY ONLY <1>4, SameTurn DEF IsRun
<1>6. PICK h : IsRun(h, s, taker, n + 1)
  BY <1>5, RunLonger
<1>7. f[n] = h[n] /\ g[n] = h[n]
  BY <1>2, <1>5, <1>6, RunsAgree
<1> QED  BY ONLY <1>1, <1>2, <1>7

\* A whole call.
LEMMA SameProcess ==
  ASSUME NEW b, BookOK(b), NEW o \in Order, o.type = "LIMIT" => o.price \in Prices
  PROVE  Calls!ProcessOrder(b, o) = ProcessOrder(b, o)
<1> DEFINE c == NewOrder(b, o)
           t == Len(b.orders) + 1
           d == Fill(c, o, o.quantity)
<1>1. Cardinality(c.linked) \in Nat
  BY NewOrderOK, LinkedFinite
<1>2. Calls!NewOrder(b, o) = c
  BY SameQueries
<1>3. Calls!Fill(c, o, o.quantity) = d
  <2> HIDE DEF c
  <2> QED  BY ONLY <1>1, SameTurns, SameCardinality DEF Calls!Fill, Fill, d
<1>4. Calls!OpenQuantity(b, Calls!Eligible(b, o)) = OpenQuantity(b, Eligible(b, o))
  BY SameQueries
<1> HIDE DEF c, d
<1>5. Calls!Rest(d, t) = Rest(d, t)
  BY DEF Calls!Rest, Rest, Calls!AddOrder, AddOrder
<1>6. Calls!ProcessOrder(b, o) =
        IF o.type = "FOK" /\ OpenQuantity(b, Eligible(b, o)) < o.quantity
        THEN [book |-> c, trades |-> << >>]
        ELSE [book |-> Rest(d, t), trades |-> d.trades]
  BY ONLY <1>2, <1>3, <1>4, <1>5, Zenon DEF Calls!ProcessOrder
<1>7. ProcessOrder(b, o) =
        IF o.type = "FOK" /\ OpenQuantity(b, Eligible(b, o)) < o.quantity
        THEN [book |-> c, trades |-> << >>]
        ELSE [book |-> Rest(d, t), trades |-> d.trades]
  BY Zenon DEF ProcessOrder, c, d
<1> QED  BY ONLY <1>6, <1>7

\* Between calls, cancelling or modifying an order is a step of BookCalls; the
\* terms of the last taker stay what they were.
LEMMA AtomicBetween ==
  ASSUME AtomicInv, outcome' = Found', call.phase = "idle",
         UNCHANGED <<call, trades>>, SameOrders(book, book')
  PROVE  /\ outcome.book = book /\ outcome.trades = trades
         /\ outcome'.book = book' /\ outcome'.trades = trades
         /\ LastTaker' = LastTaker
<1>1. outcome = Found
  BY DEF AtomicInv
<1>2. call' = call /\ trades' = trades
  OBVIOUS
<1>3. call.taker # NoOrder => call.taker \in DOMAIN book.orders
  BY DEF AtomicInv, FokInv, CarefulInv, TypeInv, CallOK
<1>4. LastTaker' = LastTaker
  BY ONLY SameOrders(book, book'), <1>2, <1>3 DEF LastTaker, Taker, SameOrders
<1> QED  BY ONLY <1>1, <1>2, <1>4, outcome' = Found' DEF Found

\* Every step is a step of BookCalls or leaves its variables alone.
LEMMA StepsAreCalls ==
  ASSUME CarefulClients, AtomicInv, AtomicStep
  PROVE  [Calls!Next]_<<outcome.book, LastTaker, outcome.trades>>
<1>0. BookOK(book)
  BY DEF AtomicInv, FokInv, CarefulInv, TypeInv
<1>1. ASSUME NEW o \in Submittable, Submit(o), outcome' = ProcessOrder(book, o),
             Taker' = o, call.phase = "idle", call'.taker # NoOrder
      PROVE  Calls!Next
  <2>1. outcome = Found
    BY <1>1 DEF AtomicInv
  <2>2. outcome.book = book
    BY <2>1 DEF Found
  <2>3. o \in Order /\ (o.type = "LIMIT" => o.price \in Prices)
    BY SubmittableOK
  <2>4. outcome' = Calls!ProcessOrder(outcome.book, o)
    BY <1>0, <1>1, <2>2, <2>3, SameProcess
  <2>5. LastTaker' = Calls!Terms(o)
    BY <1>1 DEF LastTaker, Calls!Terms
  <2>6. Calls!Submit(o)
    BY ONLY <2>4, <2>5 DEF Calls!Submit
  <2>7. o \in Calls!Submittable
    BY SameBook
  <2> QED  BY ONLY <2>6, <2>7 DEF Calls!Next
<1>2. ASSUME NEW id \in Ids, Cancel(id), outcome' = Found'
      PROVE  Calls!Next
  <2>1. /\ call.phase = "idle" /\ book.orderMap[id] # NoOrder
        /\ book' = CancelOrder(book, id) /\ UNCHANGED <<call, trades>>
    BY <1>2 DEF Cancel
  <2>2. SameOrders(book, book')
    BY <1>0, <2>1, CancelOrderOK DEF SameOrders
  <2>3. /\ outcome.book = book /\ outcome.trades = trades
        /\ outcome'.book = book' /\ outcome'.trades = trades
        /\ LastTaker' = LastTaker
    BY <1>2, <2>1, <2>2, AtomicBetween
  <2>4. Calls!Cancel(id)
    BY ONLY <2>1, <2>3, SameCancel DEF Calls!Cancel, Calls!NoOrder, NoOrder
  <2> QED  BY ONLY <2>4, id \in Ids DEF Calls!Next
<1>3. ASSUME NEW id \in Ids, NEW q \in ModifyQtys, Modify(id, q), outcome' = Found'
      PROVE  Calls!Next
  <2>1. /\ call.phase = "idle" /\ book.orderMap[id] # NoOrder
        /\ book' = ModifyOrder(book, id, q) /\ UNCHANGED <<call, trades>>
    BY <1>3 DEF Modify
  <2>2. SameOrders(book, book')
    <3>1. CASE LevelOf(book, book.orderMap[id]) = {}
      BY <2>1, <3>1 DEF ModifyOrder, SameOrders
    <3>2. CASE LevelOf(book, book.orderMap[id]) # {}
      BY <1>0, <2>1, <3>2, ModifyOrderOK, InputAssumption
    <3> QED  BY <3>1, <3>2
  <2>3. /\ outcome.book = book /\ outcome.trades = trades
        /\ outcome'.book = book' /\ outcome'.trades = trades
        /\ LastTaker' = LastTaker
    BY <1>3, <2>1, <2>2, AtomicBetween
  <2>4. Calls!Modify(id, q)
    BY ONLY <2>1, <2>3, SameModify DEF Calls!Modify, Calls!NoOrder, NoOrder
  <2> QED  BY ONLY <2>4, id \in Ids, q \in ModifyQtys DEF Calls!Next
<1> QED  BY ONLY AtomicStep, <1>1, <1>2, <1>3, Zenon DEF AtomicStep

\* Nothing has happened yet.
LEMMA AtomicStarts ==
  ASSUME AtomicInit, CarefulClients
  PROVE  AtomicInv /\ Calls!Init
<1>1. CarefulInv
  BY CarefulInit DEF AtomicInit
<1>2. call = NoCall /\ book = EmptyBook /\ trades = << >> /\ outcome = Found
  BY DEF AtomicInit, Init
<1>3. call.phase = "idle" /\ call.taker = NoOrder
  BY <1>2 DEF NoCall
<1>4. FokInv
  BY <1>1, <1>3 DEF FokInv, IsFOK
<1>5. Calls!Init
  BY <1>2, <1>3, SameBook DEF Calls!Init, Calls!Nobody, LastTaker, Found, Calls!NoOrder, NoOrder
<1> QED  BY <1>2, <1>3, <1>4, <1>5 DEF AtomicInv

\* A call to processOrder takes effect at the instant it starts: what the steps
\* of Matching leave to the caller when it returns is what ProcessOrder says of
\* the book it found, for clients that never reuse an id nor modify to zero.
THEOREM CallsTakeEffectAtOnce == CarefulClients => (AtomicSpec => CallsAreAtomic)
<1> SUFFICES ASSUME CarefulClients PROVE AtomicSpec => CallsAreAtomic
  OBVIOUS
<1>1. AtomicInit => AtomicInv /\ Calls!Init
  BY AtomicStarts
<1>2. AtomicInv /\ [AtomicNext]_<<vars, outcome>>
        => AtomicInv' /\ [Calls!Next]_<<outcome.book, LastTaker, outcome.trades>>
  <2> SUFFICES ASSUME AtomicInv, [AtomicNext]_<<vars, outcome>>
               PROVE  AtomicInv' /\ [Calls!Next]_<<outcome.book, LastTaker, outcome.trades>>
    OBVIOUS
  <2>1. CASE AtomicNext
    BY <2>1, AtomicStepTaken, StepsAreCalls
  <2>2. CASE UNCHANGED <<vars, outcome>>
    <3>1. outcome' = outcome /\ book' = book /\ call' = call
      BY <2>2 DEF vars
    <3>2. LastTaker' = LastTaker
      BY <3>1 DEF LastTaker, Taker
    <3> QED  BY <2>2, <3>1, <3>2, AtomicStutter
  <2> QED  BY <2>1, <2>2
<1> QED  BY <1>1, <1>2, PTL DEF AtomicSpec, CallsAreAtomic, Calls!Spec

=============================================================================
