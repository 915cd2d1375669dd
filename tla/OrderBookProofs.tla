-------------------------- MODULE OrderBookProofs --------------------------
(***************************************************************************)
(* What the operations of OrderBook and ProcessOrder preserve, for every   *)
(* set of ids and of prices and every book.  First the shape of a book;    *)
(* then the agreement of its three records of the same orders (the lists   *)
(* of the levels, the index by id, the totals of the levels); then the     *)
(* matching loop, by induction on its turns.                               *)
(***************************************************************************)
EXTENDS ProcessOrder, TLAPS, SequenceTheorems, FiniteSetTheorems, WellFoundedInduction

\* The books the operations are meant for: links and index refer to order
\* objects, every LIMIT order has a price, and only LIMIT orders are linked or
\* indexed.
BookOK(b) ==
    /\ b \in Book
    /\ b.linked \subseteq DOMAIN b.orders
    /\ \A i \in Ids : b.orderMap[i] # NoOrder => b.orderMap[i] \in DOMAIN b.orders
    /\ \A r \in DOMAIN b.orders : b.orders[r].type = "LIMIT" => b.orders[r].price \in Prices
    /\ \A r \in b.linked : b.orders[r].type = "LIMIT"
    /\ \A i \in Ids : b.orderMap[i] # NoOrder => b.orders[b.orderMap[i]].type = "LIMIT"

\* Two books hold the same order objects, up to their quantities: no operation
\* changes the id, the side, the type or the price of an order.
SameOrders(b, c) ==
    /\ DOMAIN c.orders = DOMAIN b.orders
    /\ \A r \in DOMAIN b.orders : /\ c.orders[r].id = b.orders[r].id
                                  /\ c.orders[r].side = b.orders[r].side
                                  /\ c.orders[r].type = b.orders[r].type
                                  /\ c.orders[r].price = b.orders[r].price

\* The index of a sequence of orders, and the orders in it.
LEMMA OrdersDomain ==
  ASSUME NEW b, b \in Book
  PROVE  /\ DOMAIN b.orders = 1 .. Len(b.orders)
         /\ Len(b.orders) \in Nat
         /\ b.orders \in Seq(Order)
         /\ \A r \in DOMAIN b.orders : b.orders[r] \in Order
<1>1. b.orders \in Seq(Order)  BY DEF Book
<1> QED  BY <1>1, LenProperties, ElementOfSeq

\* Setting the quantity of one order.
LEMMA SetQuantity ==
  ASSUME NEW s, s \in Seq(Order), NEW r \in 1 .. Len(s), NEW q \in Nat
  PROVE  LET t == [s EXCEPT ![r].quantity = q] IN
         /\ t \in Seq(Order)
         /\ DOMAIN t = DOMAIN s
         /\ Len(t) = Len(s)
         /\ t[r] = [s[r] EXCEPT !.quantity = q]
         /\ \A x \in DOMAIN s : x # r => t[x] = s[x]
         /\ \A x \in DOMAIN s : /\ t[x].id = s[x].id /\ t[x].side = s[x].side
                                /\ t[x].type = s[x].type /\ t[x].price = s[x].price
         /\ \A x \in DOMAIN s : t[x].quantity = IF x = r THEN q ELSE s[x].quantity
<1> DEFINE e == [s[r] EXCEPT !.quantity = q]
           t == [s EXCEPT ![r] = e]
<1>1. s[r] \in Order  BY ElementOfSeq
<1>2. e \in Order  BY <1>1 DEF Order
<1>3. t \in Seq(Order) /\ Len(t) = Len(s)
  BY <1>2, ExceptSeq
<1>4. DOMAIN s = 1 .. Len(s) /\ DOMAIN t = DOMAIN s
  BY <1>3, LenProperties
<1>5. \A x \in DOMAIN s : t[x] = IF x = r THEN e ELSE s[x]
  BY <1>4
<1>6. e.id = s[r].id /\ e.side = s[r].side /\ e.type = s[r].type
      /\ e.price = s[r].price /\ e.quantity = q
  BY <1>1 DEF Order
<1> QED  BY <1>3, <1>4, <1>5, <1>6

\* A new order object is put on the heap and changes nothing else.
LEMMA NewOrderOK ==
  ASSUME NEW b, BookOK(b), NEW o \in Order, o.type = "LIMIT" => o.price \in Prices
  PROVE  /\ BookOK(NewOrder(b, o))
         /\ NewOrder(b, o).linked = b.linked
         /\ NewOrder(b, o).orderMap = b.orderMap
         /\ NewOrder(b, o).total = b.total
         /\ DOMAIN NewOrder(b, o).orders = 1 .. Len(b.orders) + 1
         /\ Len(NewOrder(b, o).orders) = Len(b.orders) + 1
         /\ NewOrder(b, o).orders[Len(b.orders) + 1] = o
         /\ \A r \in DOMAIN b.orders : NewOrder(b, o).orders[r] = b.orders[r]
<1> DEFINE c == NewOrder(b, o)
<1>1. /\ c.orders = Append(b.orders, o) /\ c.linked = b.linked
      /\ c.total = b.total /\ c.orderMap = b.orderMap
  BY DEF NewOrder, BookOK, Book
<1>2. /\ Len(b.orders) \in Nat /\ DOMAIN b.orders = 1 .. Len(b.orders)
      /\ b.orders \in Seq(Order)
  BY OrdersDomain DEF BookOK
<1>3. /\ c.orders \in Seq(Order) /\ Len(c.orders) = Len(b.orders) + 1
      /\ c.orders[Len(b.orders) + 1] = o
      /\ \A r \in 1 .. Len(b.orders) : c.orders[r] = b.orders[r]
  BY <1>1, <1>2, AppendProperties
<1>4. DOMAIN c.orders = 1 .. Len(b.orders) + 1
  BY <1>3, LenProperties
<1>5. BookOK(c)
  <2>1. c \in Book  BY <1>1, <1>3 DEF Book, BookOK, NewOrder
  <2>2. c.linked \subseteq DOMAIN c.orders  BY <1>1, <1>2, <1>4 DEF BookOK
  <2>3. \A i \in Ids : c.orderMap[i] # NoOrder => c.orderMap[i] \in DOMAIN c.orders
    BY <1>1, <1>2, <1>4 DEF BookOK
  <2>4. \A r \in DOMAIN c.orders : c.orders[r].type = "LIMIT" => c.orders[r].price \in Prices
    BY <1>2, <1>3, <1>4 DEF BookOK
  <2>5. \A r \in c.linked : c.orders[r].type = "LIMIT"
    BY <1>1, <1>2, <1>3 DEF BookOK
  <2>6. \A i \in Ids : c.orderMap[i] # NoOrder => c.orders[c.orderMap[i]].type = "LIMIT"
    BY <1>1, <1>2, <1>3 DEF BookOK
  <2> QED  BY <2>1, <2>2, <2>3, <2>4, <2>5, <2>6 DEF BookOK
<1> QED  BY <1>1, <1>2, <1>3, <1>4, <1>5

\* A book whose links and index are among those of a good book, over the same
\* orders, is good.
LEMMA FewerLinksOK ==
  ASSUME NEW b, BookOK(b), NEW c, c \in Book, SameOrders(b, c),
         c.linked \subseteq b.linked,
         \A i \in Ids : c.orderMap[i] = NoOrder \/ c.orderMap[i] = b.orderMap[i]
  PROVE  BookOK(c)
<1>1. c.linked \subseteq DOMAIN c.orders
  BY DEF BookOK, SameOrders
<1>2. \A i \in Ids : c.orderMap[i] # NoOrder => c.orderMap[i] \in DOMAIN c.orders
  BY DEF BookOK, SameOrders
<1>3. \A r \in DOMAIN c.orders : c.orders[r].type = "LIMIT" => c.orders[r].price \in Prices
  BY DEF BookOK, SameOrders
<1>4. \A r \in c.linked : c.orders[r].type = "LIMIT"
  BY DEF BookOK, SameOrders
<1>5. \A i \in Ids : c.orderMap[i] # NoOrder => c.orders[c.orderMap[i]].type = "LIMIT"
  BY SMTT(30) DEF BookOK, SameOrders
<1> QED  BY <1>1, <1>2, <1>3, <1>4, <1>5 DEF BookOK

\* The order an indexed id refers to.
LEMMA IndexedOrder ==
  ASSUME NEW b, BookOK(b), NEW id \in Ids, b.orderMap[id] # NoOrder
  PROVE  LET r == b.orderMap[id] IN
         /\ r \in DOMAIN b.orders
         /\ r \in 1 .. Len(b.orders)
         /\ b.orders[r] \in Order
         /\ b.orders[r].side \in Sides
         /\ b.orders[r].price \in Prices
         /\ b.orders[r].quantity \in Nat
         /\ b.total[b.orders[r].side][b.orders[r].price] \in Int
<1> DEFINE r == b.orderMap[id]
<1>1. r \in DOMAIN b.orders /\ b.orders[r].type = "LIMIT"
  BY DEF BookOK
<1>2. r \in 1 .. Len(b.orders) /\ b.orders[r] \in Order
  BY <1>1, OrdersDomain DEF BookOK
<1>3. b.orders[r].price \in Prices
  BY <1>1 DEF BookOK
<1>4. b.orders[r].side \in Sides /\ b.orders[r].quantity \in Nat
  BY <1>2 DEF Order
<1>5. b.total \in [Sides -> [Prices -> Int]]
  BY DEF BookOK, Book
<1> QED  BY <1>1, <1>2, <1>3, <1>4, <1>5

\* Setting the quantity of one order object.
LEMMA SetQuantityOK ==
  ASSUME NEW b, BookOK(b), NEW r \in DOMAIN b.orders, NEW q \in Nat
  PROVE  LET c == [b EXCEPT !.orders[r].quantity = q] IN
         /\ BookOK(c)
         /\ SameOrders(b, c)
         /\ c.linked = b.linked
         /\ c.orderMap = b.orderMap
         /\ c.total = b.total
         /\ Len(c.orders) = Len(b.orders)
         /\ \A x \in DOMAIN b.orders :
               c.orders[x].quantity = IF x = r THEN q ELSE b.orders[x].quantity
<1> DEFINE t == [b.orders EXCEPT ![r].quantity = q]
           c == [b EXCEPT !.orders[r].quantity = q]
<1>1. b.orders \in Seq(Order) /\ r \in 1 .. Len(b.orders)
  BY OrdersDomain DEF BookOK
<1>2. /\ t \in Seq(Order) /\ DOMAIN t = DOMAIN b.orders /\ Len(t) = Len(b.orders)
      /\ \A x \in DOMAIN b.orders :
            /\ t[x].id = b.orders[x].id /\ t[x].side = b.orders[x].side
            /\ t[x].type = b.orders[x].type /\ t[x].price = b.orders[x].price
      /\ \A x \in DOMAIN b.orders :
            t[x].quantity = IF x = r THEN q ELSE b.orders[x].quantity
  BY ONLY <1>1, q \in Nat, SetQuantity DEF t
<1>3. c = [b EXCEPT !.orders = t]
  OBVIOUS
<1> HIDE DEF t, c
<1>4. /\ c \in Book /\ c.orders = t /\ c.linked = b.linked
      /\ c.orderMap = b.orderMap /\ c.total = b.total
  BY <1>2, <1>3 DEF BookOK, Book
<1>5. SameOrders(b, c)
  BY <1>2, <1>4 DEF SameOrders
<1>6. BookOK(c)
  BY <1>4, <1>5, FewerLinksOK
<1>7. /\ BookOK(c) /\ SameOrders(b, c) /\ c.linked = b.linked
      /\ c.orderMap = b.orderMap /\ c.total = b.total
      /\ Len(c.orders) = Len(b.orders)
      /\ \A x \in DOMAIN b.orders :
            c.orders[x].quantity = IF x = r THEN q ELSE b.orders[x].quantity
  BY <1>2, <1>4, <1>5, <1>6
<1> QED  BY <1>7 DEF c

\* A book, by its parts: that of b but for the orders, the links, the total of
\* one level and the index.
With(b, orders, linked, side, price, n, index) ==
    [orders |-> orders, linked |-> linked,
     total |-> [b.total EXCEPT ![side][price] = n], orderMap |-> index]

WithTypes(b, orders, linked, side, price, n, index) ==
    /\ b \in Book /\ orders \in Seq(Order) /\ linked \in SUBSET (Nat \ {0})
    /\ side \in Sides /\ price \in Prices /\ n \in Int /\ index \in [Ids -> Nat]

LEMMA Parts ==
  ASSUME NEW b \in Book
  PROVE  b = [orders |-> b.orders, linked |-> b.linked, total |-> b.total,
              orderMap |-> b.orderMap]
BY DEF Book

LEMMA WithOK ==
  ASSUME NEW b, NEW orders, NEW linked, NEW side, NEW price, NEW n, NEW index,
         WithTypes(b, orders, linked, side, price, n, index)
  PROVE  LET c == With(b, orders, linked, side, price, n, index) IN
         /\ c \in Book
         /\ c.orders = orders /\ c.linked = linked /\ c.orderMap = index
         /\ \A s \in Sides, p \in Prices :
               c.total[s][p] = IF s = side /\ p = price THEN n ELSE b.total[s][p]
<1> DEFINE total == [b.total EXCEPT ![side][price] = n]
           c == With(b, orders, linked, side, price, n, index)
<1> USE DEF WithTypes
<1>1. b.total \in [Sides -> [Prices -> Int]]
  BY DEF Book
<1>2. total \in [Sides -> [Prices -> Int]]
  BY <1>1
<1>3. \A s \in Sides, p \in Prices :
         total[s][p] = IF s = side /\ p = price THEN n ELSE b.total[s][p]
  BY <1>1
<1>4. c = [orders |-> orders, linked |-> linked, total |-> total, orderMap |-> index]
  BY DEF With
<1> HIDE DEF total, c
<1>5. c \in Book
  BY <1>2, <1>4 DEF Book
<1>6. c.orders = orders /\ c.linked = linked /\ c.total = total /\ c.orderMap = index
  BY <1>4
<1> QED  BY <1>3, <1>5, <1>6 DEF c

\* An index with one entry changed.
LEMMA OtherEntry ==
  ASSUME NEW f \in [Ids -> Nat], NEW id \in Ids, NEW ref \in Nat
  PROVE  /\ [f EXCEPT ![id] = ref] \in [Ids -> Nat]
         /\ \A i \in Ids : [f EXCEPT ![id] = ref][i] = IF i = id THEN ref ELSE f[i]
OBVIOUS

\* addOrder links and indexes one more order, at its own level.
LEMMA AddOrderOK ==
  ASSUME NEW b, BookOK(b), NEW r \in DOMAIN b.orders, b.orders[r].type = "LIMIT"
  PROVE  LET c == AddOrder(b, r)
             o == b.orders[r]
         IN  /\ BookOK(c)
             /\ c.orders = b.orders
             /\ c.linked = b.linked \cup {r}
             /\ c.orderMap = [b.orderMap EXCEPT ![o.id] = r]
             /\ \A s \in Sides, p \in Prices :
                   c.total[s][p] = IF s = o.side /\ p = o.price
                                   THEN b.total[s][p] + o.quantity ELSE b.total[s][p]
<1> DEFINE c == AddOrder(b, r)
           o == b.orders[r]
           new   == b.total[o.side][o.price] + o.quantity
           left  == b.linked \cup {r}
           total == [b.total EXCEPT ![o.side][o.price] = new]
           index == [b.orderMap EXCEPT ![o.id] = r]
<1>1. /\ b \in Book /\ r \in Nat \ {0} /\ o \in Order /\ o.price \in Prices
      /\ b.orders \in Seq(Order)
  BY OrdersDomain DEF BookOK
<1>2. /\ o.side \in Sides /\ o.quantity \in Nat /\ o.id \in Ids
      /\ b.orderMap \in [Ids -> Nat] /\ b.linked \in SUBSET (Nat \ {0})
  BY <1>1 DEF Order, Book
<1>3. new \in Int
  BY <1>1, <1>2 DEF Book
<1>4. left \in SUBSET (Nat \ {0})
  BY <1>1, <1>2
<1>5. /\ index \in [Ids -> Nat]
      /\ \A i \in Ids : index[i] = IF i = o.id THEN r ELSE b.orderMap[i]
  <2> HIDE DEF o
  <2> QED  BY ONLY <1>1, <1>2 DEF index
<1>6. c = With(b, b.orders, left, o.side, o.price, new, index)
  <2>1. c = [b EXCEPT !.linked = left, !.total = total, !.orderMap = index]
    BY DEF AddOrder
  <2>2. b = [orders |-> b.orders, linked |-> b.linked, total |-> b.total,
             orderMap |-> b.orderMap]
    BY <1>1, Parts
  <2> HIDE DEF c, left, total, index
  <2>3. c = [orders |-> b.orders, linked |-> left, total |-> total, orderMap |-> index]
    BY ONLY <2>1, <2>2
  <2> QED  BY <2>3 DEF With, total
<1> HIDE DEF c, new, index, left
<1>7. /\ c \in Book
      /\ c.orders = b.orders /\ c.linked = left /\ c.orderMap = index
      /\ \A s \in Sides, p \in Prices :
           c.total[s][p] = IF s = o.side /\ p = o.price THEN new ELSE b.total[s][p]
  <2> HIDE DEF o
  <2>1. WithTypes(b, b.orders, left, o.side, o.price, new, index)
    BY ONLY <1>1, <1>2, <1>3, <1>4, <1>5 DEF WithTypes
  <2> QED  BY ONLY <2>1, <1>6, WithOK
<1>8. BookOK(c)
  <2> HIDE DEF o
  <2>1. b.orders[r].type = "LIMIT" /\ r \in DOMAIN b.orders
    OBVIOUS
  <2>2. \A i \in Ids : c.orderMap[i] = r \/ c.orderMap[i] = b.orderMap[i]
    BY <1>5, <1>7
  <2>3. c.linked = b.linked \cup {r}
    BY <1>7 DEF left
  <2> QED  BY ONLY BookOK(b), <1>7, <2>1, <2>2, <2>3 DEF BookOK
<1>9. \A s \in Sides, p \in Prices :
        c.total[s][p] = IF s = o.side /\ p = o.price
                        THEN b.total[s][p] + o.quantity ELSE b.total[s][p]
  BY ONLY <1>7, SMTT(30) DEF new
<1> QED  BY <1>7, <1>8, <1>9 DEF c, index, left

\* cancelOrder unlinks the orders of that id at its level, and forgets the id.
LEMMA CancelOrderOK ==
  ASSUME NEW b, BookOK(b), NEW id \in Ids, b.orderMap[id] # NoOrder
  PROVE  LET c    == CancelOrder(b, id)
             r    == b.orderMap[id]
             o    == b.orders[r]
             gone == {x \in LevelOf(b, r) : b.orders[x].id = id}
         IN  /\ BookOK(c)
             /\ c.orders = b.orders
             /\ c.linked = b.linked \ gone
             /\ \A i \in Ids : c.orderMap[i] = IF i = id THEN NoOrder ELSE b.orderMap[i]
             /\ \A s \in Sides, p \in Prices :
                   c.total[s][p] =
                     IF s = o.side /\ p = o.price
                     THEN IF LevelOf(b, r) \subseteq gone THEN 0
                          ELSE b.total[s][p] - o.quantity
                     ELSE b.total[s][p]
<1> DEFINE c == CancelOrder(b, id)
           r == b.orderMap[id]
           o == b.orders[r]
           gone  == {x \in LevelOf(b, r) : b.orders[x].id = id}
           new   == IF LevelOf(b, r) \subseteq gone THEN 0
                    ELSE b.total[o.side][o.price] - o.quantity
           left  == b.linked \ gone
           total == [b.total EXCEPT ![o.side][o.price] = new]
           index == [b.orderMap EXCEPT ![id] = NoOrder]
<1>1. /\ b \in Book /\ o.side \in Sides /\ o.price \in Prices
      /\ o.quantity \in Nat /\ b.total[o.side][o.price] \in Int
      /\ b.orders \in Seq(Order)
      /\ b.orderMap \in [Ids -> Nat] /\ b.linked \in SUBSET (Nat \ {0})
  BY IndexedOrder, OrdersDomain, ZenonT(30) DEF BookOK, Book
<1> HIDE DEF gone
<1>2. new \in Int
  <2> HIDE DEF o, r
  <2> QED  BY <1>1
<1>3. /\ index \in [Ids -> Nat]
      /\ \A i \in Ids : index[i] = IF i = id THEN NoOrder ELSE b.orderMap[i]
  BY ONLY <1>1, id \in Ids DEF NoOrder, index
<1>4. c = With(b, b.orders, left, o.side, o.price, new, index)
  <2>1. c = [b EXCEPT !.linked = left, !.total = total, !.orderMap = index]
    BY SMTT(30) DEF CancelOrder, gone
  <2>2. b = [orders |-> b.orders, linked |-> b.linked, total |-> b.total,
             orderMap |-> b.orderMap]
    BY <1>1, Parts
  <2> HIDE DEF c, left, total, index, o
  <2>3. c = [orders |-> b.orders, linked |-> left, total |-> total, orderMap |-> index]
    BY ONLY <2>1, <2>2, Zenon
  <2> QED  BY <2>3 DEF With, total
<1>5. left \in SUBSET (Nat \ {0})
  BY <1>1
<1> HIDE DEF c, new, index, left
<1>6. /\ c \in Book
      /\ c.orders = b.orders /\ c.linked = left /\ c.orderMap = index
      /\ \A s \in Sides, p \in Prices :
           c.total[s][p] = IF s = o.side /\ p = o.price THEN new ELSE b.total[s][p]
  <2> HIDE DEF r, o
  <2>1. WithTypes(b, b.orders, left, o.side, o.price, new, index)
    BY ONLY <1>1, <1>2, <1>3, <1>5 DEF WithTypes
  <2> QED  BY ONLY <2>1, <1>4, WithOK
<1>7. \A i \in Ids : c.orderMap[i] = IF i = id THEN NoOrder ELSE b.orderMap[i]
  BY ONLY <1>3, <1>6
<1>8. SameOrders(b, c)
  BY ONLY <1>6 DEF SameOrders
<1>9. BookOK(c)
  <2>1. c.linked \subseteq b.linked  BY <1>6 DEF left
  <2>2. \A i \in Ids : c.orderMap[i] = NoOrder \/ c.orderMap[i] = b.orderMap[i]
    BY ONLY <1>7
  <2> QED  BY ONLY BookOK(b), <1>6, <1>8, <2>1, <2>2, FewerLinksOK
<1> HIDE DEF r, o
<1>10. \A s \in Sides, p \in Prices :
         c.total[s][p] = IF s = o.side /\ p = o.price
                         THEN IF LevelOf(b, r) \subseteq gone THEN 0
                              ELSE b.total[s][p] - o.quantity
                         ELSE b.total[s][p]
  BY ONLY <1>6 DEF new
<1> QED  BY <1>6, <1>7, <1>9, <1>10, Zenon DEF c, gone, left, r, o

\* Subtraction clamped at zero.
LEMMA Clamped ==
  ASSUME NEW n \in Nat, NEW m \in Nat
  PROVE  LET d == IF n <= m THEN 0 ELSE n - m
         IN  d \in Nat /\ (d > 0 <=> d # 0) /\ d <= n
OBVIOUS

\* What decreaseOrderQuantity makes of an indexed order: it is left with what
\* the amount does not use up, or leaves the book.
Decreases(b, id, amount, c) ==
    LET r      == b.orderMap[id]
        o      == b.orders[r]
        newQty == IF o.quantity <= amount THEN 0 ELSE o.quantity - amount
        gone   == IF newQty > 0 THEN {}
                  ELSE {x \in LevelOf(b, r) : b.orders[x].id = id}
        total  == b.total[o.side][o.price] - (o.quantity - newQty)
    IN  /\ Len(c.orders) = Len(b.orders)
        /\ c.linked = b.linked \ gone
        /\ \A i \in Ids : c.orderMap[i] = IF i = id /\ newQty = 0 THEN NoOrder
                                          ELSE b.orderMap[i]
        /\ \A x \in DOMAIN b.orders :
              c.orders[x].quantity = IF x = r /\ newQty > 0 THEN newQty
                                     ELSE b.orders[x].quantity
        /\ \A s \in Sides, p \in Prices :
              c.total[s][p] =
                IF s = o.side /\ p = o.price
                THEN IF LevelOf(b, r) \subseteq gone \/ total < 0 THEN 0 ELSE total
                ELSE b.total[s][p]

LEMMA DecreaseOK ==
  ASSUME NEW b, BookOK(b), NEW id \in Ids, b.orderMap[id] # NoOrder, NEW amount \in Nat
  PROVE  LET c == DecreaseOrderQuantity(b, id, amount) IN
         BookOK(c) /\ SameOrders(b, c) /\ Decreases(b, id, amount, c)
<1> DEFINE c == DecreaseOrderQuantity(b, id, amount)
           r == b.orderMap[id]
           o == b.orders[r]
           newQty == IF o.quantity <= amount THEN 0 ELSE o.quantity - amount
           gone   == IF newQty > 0 THEN {}
                     ELSE {x \in LevelOf(b, r) : b.orders[x].id = id}
           sum    == b.total[o.side][o.price] - (o.quantity - newQty)
           new    == IF LevelOf(b, r) \subseteq gone \/ sum < 0 THEN 0 ELSE sum
           qty    == IF newQty > 0 THEN newQty ELSE o.quantity
           t      == [b.orders EXCEPT ![r].quantity = qty]
           ref    == IF newQty > 0 THEN r ELSE NoOrder
           left   == b.linked \ gone
           total  == [b.total EXCEPT ![o.side][o.price] = new]
           index  == [b.orderMap EXCEPT ![id] = ref]
<1>1. /\ b \in Book /\ o.side \in Sides /\ o.price \in Prices
      /\ o.quantity \in Nat /\ b.total[o.side][o.price] \in Int
      /\ r \in DOMAIN b.orders /\ r \in 1 .. Len(b.orders) /\ b.orders \in Seq(Order)
      /\ r \in Nat
      /\ b.orderMap \in [Ids -> Nat] /\ b.linked \in SUBSET (Nat \ {0})
  BY IndexedOrder, OrdersDomain, ZenonT(30) DEF BookOK, Book
<1>2. newQty \in Nat /\ (newQty > 0 <=> newQty # 0)
  <2> HIDE DEF o
  <2> QED  BY <1>1, Clamped
<1> HIDE DEF newQty, gone
<1>3. new \in Int /\ qty \in Nat /\ ref \in Nat
  <2> HIDE DEF o, r
  <2>1. sum \in Int
    <3>1. \A a \in Int : \A n, d \in Nat : a - (n - d) \in Int  OBVIOUS
    <3> QED  BY <1>1, <1>2, <3>1
  <2>2. new \in Int
    <3> HIDE DEF sum
    <3> QED  BY <2>1
  <2>3. qty \in Nat  BY <1>1, <1>2
  <2>4. ref \in Nat  BY <1>1 DEF NoOrder
  <2> QED  BY <2>2, <2>3, <2>4
<1>4. c = With(b, t, left, o.side, o.price, new, index)
  <2>1. c = [b EXCEPT !.linked = left, !.total = total, !.orders = t,
                      !.orderMap = index]
    <3>1. newQty = QuantityLeft(b, r, amount)
      BY DEF QuantityLeft, newQty
    <3>2. gone = GoneBy(b, r, id, amount)
      BY <3>1 DEF GoneBy, gone
    <3>3. new = TotalBy(b, r, id, amount)
      BY <3>1, <3>2 DEF TotalBy
    <3>4. c = DecreaseIndexed(b, id, amount)
      BY DEF DecreaseOrderQuantity
    <3> QED  BY <3>1, <3>2, <3>3, <3>4, ZenonT(30) DEF DecreaseIndexed
  <2>2. b = [orders |-> b.orders, linked |-> b.linked, total |-> b.total,
             orderMap |-> b.orderMap]
    BY <1>1, Parts, Zenon
  <2> HIDE DEF c, left, total, index, t, o
  <2>3. c = [orders |-> t, linked |-> left, total |-> total, orderMap |-> index]
    BY ONLY <2>1, <2>2
  <2> QED  BY <2>3 DEF With, total
<1>5. /\ t \in Seq(Order) /\ DOMAIN t = DOMAIN b.orders /\ Len(t) = Len(b.orders)
      /\ \A x \in DOMAIN b.orders :
            /\ t[x].id = b.orders[x].id /\ t[x].side = b.orders[x].side
            /\ t[x].type = b.orders[x].type /\ t[x].price = b.orders[x].price
      /\ \A x \in DOMAIN b.orders :
            t[x].quantity = IF x = r THEN qty ELSE b.orders[x].quantity
  <2> HIDE DEF qty, r
  <2>1. b.orders \in Seq(Order) /\ r \in 1 .. Len(b.orders) /\ qty \in Nat
    BY <1>1, <1>3
  <2> QED  BY ONLY <2>1, SetQuantity DEF t
<1>6. /\ index \in [Ids -> Nat]
      /\ \A i \in Ids : index[i] = IF i = id THEN ref ELSE b.orderMap[i]
  <2> HIDE DEF ref
  <2> QED  BY ONLY <1>1, <1>3, id \in Ids, ZenonT(40) DEF index
<1>7. left \in SUBSET (Nat \ {0})
  BY <1>1
<1> HIDE DEF c, new, t, ref, index, left, qty
<1>8. /\ c \in Book
      /\ c.orders = t /\ c.linked = left /\ c.orderMap = index
      /\ \A s \in Sides, p \in Prices :
           c.total[s][p] = IF s = o.side /\ p = o.price THEN new ELSE b.total[s][p]
  <2> HIDE DEF r, o
  <2>1. WithTypes(b, t, left, o.side, o.price, new, index)
    BY ONLY <1>1, <1>3, <1>5, <1>6, <1>7 DEF WithTypes
  <2> QED  BY ONLY <2>1, <1>4, WithOK
<1>9. \A i \in Ids : c.orderMap[i] = IF i = id /\ newQty = 0 THEN NoOrder ELSE b.orderMap[i]
  <2> QED  BY ONLY <1>2, <1>6, <1>8 DEF ref, r
<1>10. SameOrders(b, c)
  <2> HIDE DEF r
  <2> QED  BY ONLY <1>5, <1>8 DEF SameOrders
<1>11. BookOK(c)
  <2>1. c.linked \subseteq b.linked  BY <1>8 DEF left
  <2>2. \A i \in Ids : c.orderMap[i] = NoOrder \/ c.orderMap[i] = b.orderMap[i]
    BY ONLY <1>9
  <2> QED  BY ONLY BookOK(b), <1>8, <1>10, <2>1, <2>2, FewerLinksOK
<1> HIDE DEF r, o
<1>12. \A x \in DOMAIN b.orders :
         c.orders[x].quantity = IF x = r /\ newQty > 0 THEN newQty ELSE b.orders[x].quantity
  BY ONLY <1>5, <1>8 DEF qty, o
<1>13. Len(c.orders) = Len(b.orders)
  BY ONLY <1>5, <1>8
<1>14. \A s \in Sides, p \in Prices :
         c.total[s][p] =
           IF s = o.side /\ p = o.price
           THEN IF LevelOf(b, r) \subseteq gone \/ sum < 0 THEN 0 ELSE sum
           ELSE b.total[s][p]
  <2> HIDE DEF sum
  <2> QED  BY ONLY <1>8 DEF new
<1>15. c.linked = left
  BY ONLY <1>8
<1>16. Decreases(b, id, amount, c)
  <2> HIDE DEF c
  <2> QED  BY ONLY <1>9, <1>12, <1>13, <1>14, <1>15, Zenon
           DEF Decreases, gone, newQty, left, sum, r, o
<1> QED  BY ONLY <1>10, <1>11, <1>16, ZenonT(40) DEF c

\* What modifyOrder does when the order's level exists: it sets the quantity,
\* and drops the level when its total is used up.
Modifies(b, id, q, c) ==
    LET r     == b.orderMap[id]
        o     == b.orders[r]
        total == b.total[o.side][o.price] - o.quantity + q
    IN  /\ Len(c.orders) = Len(b.orders)
        /\ c.orderMap = b.orderMap
        /\ c.linked = IF total <= 0 THEN b.linked \ LevelOf(b, r) ELSE b.linked
        /\ \A x \in DOMAIN b.orders :
              c.orders[x].quantity = IF x = r THEN q ELSE b.orders[x].quantity
        /\ \A s \in Sides, p \in Prices :
              c.total[s][p] = IF s = o.side /\ p = o.price
                              THEN IF total <= 0 THEN 0 ELSE total
                              ELSE b.total[s][p]

LEMMA ModifyOrderOK ==
  ASSUME NEW b, BookOK(b), NEW id \in Ids, b.orderMap[id] # NoOrder, NEW q \in Nat,
         LevelOf(b, b.orderMap[id]) # {}
  PROVE  LET c == ModifyOrder(b, id, q) IN
         /\ BookOK(c) /\ SameOrders(b, c) /\ Modifies(b, id, q, c)
         /\ c.linked \subseteq b.linked
<1> DEFINE c == ModifyOrder(b, id, q)
           r == b.orderMap[id]
           o == b.orders[r]
           sum   == b.total[o.side][o.price] - o.quantity + q
           new   == IF sum <= 0 THEN 0 ELSE sum
           left  == IF sum <= 0 THEN b.linked \ LevelOf(b, r) ELSE b.linked
           t     == [b.orders EXCEPT ![r].quantity = q]
           total == [b.total EXCEPT ![o.side][o.price] = new]
<1>1. /\ b \in Book /\ o.side \in Sides /\ o.price \in Prices
      /\ o.quantity \in Nat /\ b.total[o.side][o.price] \in Int
      /\ r \in DOMAIN b.orders /\ r \in 1 .. Len(b.orders) /\ b.orders \in Seq(Order)
      /\ b.orderMap \in [Ids -> Nat] /\ b.linked \in SUBSET (Nat \ {0})
  BY IndexedOrder, OrdersDomain, ZenonT(30) DEF BookOK, Book
<1>2. new \in Int /\ left \subseteq b.linked
  <2> HIDE DEF o, r
  <2>1. sum \in Int  BY <1>1
  <2> HIDE DEF sum
  <2>2. new \in Int  BY <2>1
  <2>3. left \subseteq b.linked  OBVIOUS
  <2> QED  BY <2>2, <2>3
<1>3. c = With(b, t, left, o.side, o.price, new, b.orderMap)
  <2>1. c = [b EXCEPT !.orders = t, !.total = total, !.linked = left]
    BY ZenonT(40) DEF ModifyOrder
  <2>2. b = [orders |-> b.orders, linked |-> b.linked, total |-> b.total,
             orderMap |-> b.orderMap]
    BY <1>1, Parts
  <2> HIDE DEF c, left, total, t, o
  <2>3. c = [orders |-> t, linked |-> left, total |-> total, orderMap |-> b.orderMap]
    BY ONLY <2>1, <2>2
  <2> QED  BY <2>3 DEF With, total
<1>4. /\ t \in Seq(Order) /\ DOMAIN t = DOMAIN b.orders /\ Len(t) = Len(b.orders)
      /\ \A x \in DOMAIN b.orders :
            /\ t[x].id = b.orders[x].id /\ t[x].side = b.orders[x].side
            /\ t[x].type = b.orders[x].type /\ t[x].price = b.orders[x].price
      /\ \A x \in DOMAIN b.orders :
            t[x].quantity = IF x = r THEN q ELSE b.orders[x].quantity
  <2> HIDE DEF r
  <2>1. b.orders \in Seq(Order) /\ r \in 1 .. Len(b.orders)
    BY <1>1, SMTT(30)
  <2> QED  BY ONLY <2>1, q \in Nat, SetQuantity DEF t
<1> HIDE DEF c, new, t, left
<1>5. left \in SUBSET (Nat \ {0})
  BY <1>1, <1>2
<1>6. /\ c \in Book
      /\ c.orders = t /\ c.linked = left /\ c.orderMap = b.orderMap
      /\ \A s \in Sides, p \in Prices :
           c.total[s][p] = IF s = o.side /\ p = o.price THEN new ELSE b.total[s][p]
  <2> HIDE DEF r, o
  <2>1. WithTypes(b, t, left, o.side, o.price, new, b.orderMap)
    BY ONLY <1>1, <1>2, <1>4, <1>5 DEF WithTypes
  <2> QED  BY ONLY <2>1, <1>3, WithOK
<1>7. SameOrders(b, c)
  <2> HIDE DEF r
  <2> QED  BY ONLY <1>4, <1>6 DEF SameOrders
<1>8. c.linked \subseteq b.linked
  BY ONLY <1>2, <1>6
<1>9. BookOK(c)
  <2>1. \A i \in Ids : c.orderMap[i] = NoOrder \/ c.orderMap[i] = b.orderMap[i]
    BY ONLY <1>6
  <2> QED  BY ONLY BookOK(b), <1>6, <1>7, <1>8, <2>1, FewerLinksOK
<1> HIDE DEF r, o
<1>10. \A x \in DOMAIN b.orders :
         c.orders[x].quantity = IF x = r THEN q ELSE b.orders[x].quantity
  BY ONLY <1>4, <1>6
<1>11. Len(c.orders) = Len(b.orders) /\ c.linked = left /\ c.orderMap = b.orderMap
  BY ONLY <1>4, <1>6
<1>12. \A s \in Sides, p \in Prices :
         c.total[s][p] = IF s = o.side /\ p = o.price
                         THEN IF sum <= 0 THEN 0 ELSE sum ELSE b.total[s][p]
  <2> HIDE DEF sum
  <2> QED  BY ONLY <1>6 DEF new
<1>13. Modifies(b, id, q, c)
  BY ONLY <1>10, <1>11, <1>12, Zenon DEF Modifies, left, sum, r, o
<1> QED  BY ONLY <1>7, <1>8, <1>9, <1>13, ZenonT(40) DEF c

----------------------------------------------------------------------------
(* The three records of the same orders *)

\* The operations of OrderBook keep the lists of the levels, the index by id
\* and the totals of the levels in agreement, as long as no two order objects
\* share an id and no resting order has quantity zero.
UniqueIds(b) ==
    \A r, q \in DOMAIN b.orders : b.orders[r].id = b.orders[q].id => r = q

Ledger(b) ==
    /\ BookOK(b)
    /\ UniqueIds(b)
    /\ Indexed(b)
    /\ \A r \in b.linked : b.orders[r].quantity > 0
    /\ IsFiniteSet(Units(b, b.linked))
    /\ TotalsAddUp(b)

\* The index finds under an id an order of that id, linked or not.
OwnIds(b) == \A i \in Ids : b.orderMap[i] # NoOrder => b.orders[b.orderMap[i]].id = i

\* What is left of the agreement when orders are modified to zero: the index may
\* hold the ids of orders that are in no list any more, and the totals may be
\* off, but every order in a list can still be found by its id.
Findable(b) ==
    /\ BookOK(b)
    /\ UniqueIds(b)
    /\ OwnIds(b)
    /\ \A r \in b.linked : b.orderMap[b.orders[r].id] = r

----------------------------------------------------------------------------
(* Units *)

\* The units of one order.
LEMMA UnitsOfOne ==
  ASSUME NEW r, NEW q \in Nat
  PROVE  /\ IsFiniteSet({r} \X (1 .. q))
         /\ Cardinality({r} \X (1 .. q)) = q
<1>1. IsFiniteSet({r}) /\ Cardinality({r}) = 1
  BY FS_Singleton
<1>2. IsFiniteSet(1 .. q) /\ Cardinality(1 .. q) = q
  BY FS_Interval
<1>3. /\ IsFiniteSet({r} \X (1 .. q))
      /\ Cardinality({r} \X (1 .. q)) = Cardinality({r}) * Cardinality(1 .. q)
  BY <1>1, <1>2, FS_Product
<1>4. 1 * q = q
  OBVIOUS
<1> QED  BY <1>1, <1>2, <1>3, <1>4

\* Only the quantities of the orders in the set matter.
LEMMA UnitsSame ==
  ASSUME NEW b, NEW c, NEW S, \A r \in S : c.orders[r].quantity = b.orders[r].quantity
  PROVE  Units(c, S) = Units(b, S)
BY DEF Units

LEMMA UnitsSubset ==
  ASSUME NEW b, NEW S, NEW T, T \subseteq S, IsFiniteSet(Units(b, S))
  PROVE  IsFiniteSet(Units(b, T))
<1>1. Units(b, T) \subseteq Units(b, S)  BY DEF Units
<1> QED  BY <1>1, FS_Subset

\* Taking one order out of a set takes its quantity off the sum.
LEMMA UnitsWithout ==
  ASSUME NEW b, NEW S, NEW r \in S, b.orders[r].quantity \in Nat,
         IsFiniteSet(Units(b, S))
  PROVE  /\ IsFiniteSet(Units(b, S \ {r}))
         /\ Cardinality(Units(b, S \ {r})) = Cardinality(Units(b, S)) - b.orders[r].quantity
         /\ Cardinality(Units(b, S \ {r})) \in Nat
<1> DEFINE U == {r} \X (1 .. b.orders[r].quantity)
<1>1. Units(b, S \ {r}) = Units(b, S) \ U
  BY DEF Units
<1>2. Units(b, S) \cap U = U
  BY DEF Units
<1>3. Cardinality(U) = b.orders[r].quantity
  BY UnitsOfOne
<1> HIDE DEF U
<1>4. /\ IsFiniteSet(Units(b, S) \ U)
      /\ Cardinality(Units(b, S) \ U) = Cardinality(Units(b, S)) - Cardinality(Units(b, S) \cap U)
  BY FS_Difference
<1>5. Cardinality(Units(b, S) \ U) \in Nat
  BY <1>4, FS_CardinalityType
<1> QED  BY <1>1, <1>2, <1>3, <1>4, <1>5

\* Adding one order to a set adds its quantity to the sum.
LEMMA UnitsWith ==
  ASSUME NEW b, NEW S, NEW r, r \notin S, b.orders[r].quantity \in Nat,
         IsFiniteSet(Units(b, S))
  PROVE  /\ IsFiniteSet(Units(b, S \cup {r}))
         /\ Cardinality(Units(b, S \cup {r})) = Cardinality(Units(b, S)) + b.orders[r].quantity
<1> DEFINE U == {r} \X (1 .. b.orders[r].quantity)
<1>1. Units(b, S \cup {r}) = Units(b, S) \cup U
  BY DEF Units
<1>2. Units(b, S) \cap U = {}
  BY DEF Units
<1>3. IsFiniteSet(U) /\ Cardinality(U) = b.orders[r].quantity
  BY UnitsOfOne
<1> HIDE DEF U
<1>4. /\ IsFiniteSet(Units(b, S) \cup U)
      /\ Cardinality(Units(b, S) \cup U)
           = Cardinality(Units(b, S)) + Cardinality(U) - Cardinality(Units(b, S) \cap U)
  BY <1>3, FS_Union
<1>5. Cardinality({}) = 0 /\ Cardinality(Units(b, S)) \in Nat
  BY FS_EmptySet, FS_CardinalityType
<1>6. \A n, m \in Nat : n + m - 0 = n + m
  OBVIOUS
<1>7. Cardinality(Units(b, S) \cup U) = Cardinality(Units(b, S)) + b.orders[r].quantity
  BY <1>2, <1>3, <1>4, <1>5, <1>6, Zenon
<1> QED  BY <1>1, <1>4, <1>7

\* Giving one order of a set another quantity.
LEMMA UnitsRequantified ==
  ASSUME NEW b, NEW c, NEW S, NEW r \in S, IsFiniteSet(Units(b, S)),
         b.orders[r].quantity \in Nat, c.orders[r].quantity \in Nat,
         \A x \in S \ {r} : c.orders[x].quantity = b.orders[x].quantity
  PROVE  /\ IsFiniteSet(Units(c, S))
         /\ Cardinality(Units(c, S)) = Cardinality(Units(b, S)) - b.orders[r].quantity
                                         + c.orders[r].quantity
<1>1. /\ IsFiniteSet(Units(b, S \ {r}))
      /\ Cardinality(Units(b, S \ {r})) = Cardinality(Units(b, S)) - b.orders[r].quantity
  BY UnitsWithout
<1>2. PICK T : T = S \ {r}
  OBVIOUS
<1>3. Units(c, T) = Units(b, T)
  BY <1>2, UnitsSame
<1>4. IsFiniteSet(Units(c, T)) /\ r \notin T /\ T \cup {r} = S
  BY <1>1, <1>2, <1>3
<1>5. /\ IsFiniteSet(Units(c, T \cup {r}))
      /\ Cardinality(Units(c, T \cup {r})) = Cardinality(Units(c, T)) + c.orders[r].quantity
  BY <1>4, UnitsWith
<1> QED  BY <1>1, <1>2, <1>3, <1>4, <1>5

----------------------------------------------------------------------------
(* Levels *)

\* A resting order is in its level, and an indexed one is resting.
LEMMA IndexedInLevel ==
  ASSUME NEW b, Ledger(b), NEW id \in Ids, b.orderMap[id] # NoOrder
  PROVE  LET r == b.orderMap[id] IN
         /\ r \in b.linked
         /\ r \in LevelOf(b, r)
         /\ b.orders[r].id = id
         /\ b.orders[r].quantity \in Nat \ {0}
         /\ b.orders[r].side \in Sides
         /\ b.orders[r].price \in Prices
         /\ {x \in LevelOf(b, r) : b.orders[x].id = id} = {r}
         /\ IsFiniteSet(Units(b, LevelOf(b, r)))
<1> DEFINE r == b.orderMap[id]
<1>1. r \in b.linked /\ b.orders[r].id = id /\ b.orders[r].quantity > 0
  BY SMTT(30) DEF Ledger, Indexed
<1>2. b.orders[r].quantity \in Nat /\ b.orders[r].side \in Sides /\ b.orders[r].price \in Prices
  BY IndexedOrder DEF Ledger
<1>3. r \in LevelOf(b, r)
  BY <1>1 DEF LevelOf, Level
<1>4. LevelOf(b, r) \subseteq b.linked
  BY DEF LevelOf, Level
<1>5. b.linked \subseteq DOMAIN b.orders /\ UniqueIds(b)
  BY DEF Ledger, BookOK
<1>6. {x \in LevelOf(b, r) : b.orders[x].id = id} = {r}
  BY <1>1, <1>3, <1>4, <1>5 DEF UniqueIds
<1>7. IsFiniteSet(Units(b, LevelOf(b, r)))
  BY <1>4, UnitsSubset DEF Ledger
<1>8. b.orders[r].quantity \in Nat \ {0}
  BY <1>1, <1>2
<1> QED  BY <1>1, <1>2, <1>3, <1>6, <1>7, <1>8

LEMMA LevelSame ==
  ASSUME NEW b, BookOK(b), NEW c, SameOrders(b, c), c.linked = b.linked,
         NEW s, NEW p
  PROVE  Level(c, s, p) = Level(b, s, p)
BY DEF BookOK, SameOrders, Level

\* The units of some resting orders without one of them.
LEMMA RestingUnitsWithout ==
  ASSUME NEW b, Ledger(b), NEW id \in Ids, b.orderMap[id] # NoOrder,
         NEW S, S \subseteq b.linked, b.orderMap[id] \in S
  PROVE  /\ IsFiniteSet(Units(b, S \ {b.orderMap[id]}))
         /\ Cardinality(Units(b, S \ {b.orderMap[id]}))
              = Cardinality(Units(b, S)) - b.orders[b.orderMap[id]].quantity
<1> DEFINE r == b.orderMap[id]
<1>1. b.orders[r].quantity \in Nat /\ IsFiniteSet(Units(b, S))
  BY IndexedInLevel, UnitsSubset DEF Ledger
<1>2. r \in S
  OBVIOUS
<1> HIDE DEF r
<1>3. /\ IsFiniteSet(Units(b, S \ {r}))
      /\ Cardinality(Units(b, S \ {r})) = Cardinality(Units(b, S)) - b.orders[r].quantity
  BY <1>1, <1>2, UnitsWithout
<1> QED  BY <1>3 DEF r

\* The units of some resting orders when one of them changes its quantity.
LEMMA RestingUnitsRequantified ==
  ASSUME NEW b, Ledger(b), NEW id \in Ids, b.orderMap[id] # NoOrder,
         NEW S, S \subseteq b.linked, b.orderMap[id] \in S, NEW c, NEW q \in Nat,
         \A x \in S : c.orders[x].quantity = IF x = b.orderMap[id] THEN q
                                             ELSE b.orders[x].quantity
  PROVE  /\ IsFiniteSet(Units(c, S))
         /\ Cardinality(Units(c, S))
              = Cardinality(Units(b, S)) - b.orders[b.orderMap[id]].quantity + q
<1> DEFINE r == b.orderMap[id]
<1>1. b.orders[r].quantity \in Nat /\ IsFiniteSet(Units(b, S))
  BY IndexedInLevel, UnitsSubset DEF Ledger
<1>2. /\ r \in S /\ c.orders[r].quantity = q
      /\ \A x \in S \ {r} : c.orders[x].quantity = b.orders[x].quantity
  OBVIOUS
<1> HIDE DEF r
<1>3. /\ IsFiniteSet(Units(c, S))
      /\ Cardinality(Units(c, S)) = Cardinality(Units(b, S)) - b.orders[r].quantity
                                      + c.orders[r].quantity
  BY <1>1, <1>2, UnitsRequantified
<1> QED  BY <1>2, <1>3 DEF r

\* c is b without one resting order: unlinked, forgotten, and taken off its
\* level's total.
Loses(b, id, c) ==
    LET r == b.orderMap[id] IN
    /\ c.linked = b.linked \ {r}
    /\ \A i \in Ids : c.orderMap[i] = IF i = id THEN NoOrder ELSE b.orderMap[i]
    /\ \A x \in DOMAIN b.orders : c.orders[x].quantity = b.orders[x].quantity
    /\ \A s \in Sides, p \in Prices :
          c.total[s][p] =
            IF s = b.orders[r].side /\ p = b.orders[r].price
            THEN IF Level(b, s, p) \subseteq {r} THEN 0
                 ELSE b.total[s][p] - b.orders[r].quantity
            ELSE b.total[s][p]

LEMMA LedgerWithout ==
  ASSUME NEW b, Ledger(b), NEW id \in Ids, b.orderMap[id] # NoOrder,
         NEW c, BookOK(c), SameOrders(b, c), Loses(b, id, c)
  PROVE  Ledger(c)
<1> DEFINE r == b.orderMap[id]
<1> USE DEF Loses
<1>1. /\ r \in b.linked /\ b.orders[r].id = id /\ b.orders[r].quantity \in Nat
      /\ b.linked \subseteq DOMAIN b.orders
  BY IndexedInLevel, Zenon DEF Ledger, BookOK
<1>2. UniqueIds(c)
  BY DEF Ledger, UniqueIds, SameOrders
<1>3. Indexed(c)
  <2>1. ASSUME NEW x \in c.linked PROVE c.orderMap[c.orders[x].id] = x
    <3>1. x \in b.linked /\ x # r /\ x \in DOMAIN b.orders
      BY <1>1
    <3>2. b.orderMap[b.orders[x].id] = x /\ c.orders[x].id = b.orders[x].id
      BY <3>1 DEF Ledger, Indexed, SameOrders
    <3>3. b.orders[x].id \in Ids /\ b.orders[x].id # id
      <4>1. b.orders[x] \in Order  BY <3>1, OrdersDomain DEF Ledger, BookOK
      <4> QED  BY <3>1, <3>2, <4>1 DEF Order
    <3> QED  BY <3>2, <3>3
  <2>2. ASSUME NEW i \in Ids, c.orderMap[i] # NoOrder
        PROVE  c.orderMap[i] \in c.linked /\ c.orders[c.orderMap[i]].id = i
    <3>1. i # id /\ c.orderMap[i] = b.orderMap[i]
      BY <2>2
    <3>2. b.orderMap[i] \in b.linked /\ b.orders[b.orderMap[i]].id = i
      BY <2>2, <3>1 DEF Ledger, Indexed
    <3>3. b.orderMap[i] # r /\ c.orders[b.orderMap[i]].id = i
      BY <1>1, <3>1, <3>2 DEF SameOrders
    <3> QED  BY <3>1, <3>2, <3>3
  <2> QED  BY <2>1, <2>2 DEF Indexed
<1>4. \A x \in c.linked : c.orders[x].quantity > 0
  BY <1>1 DEF Ledger
<1>5. IsFiniteSet(Units(c, c.linked))
  <2>1. Units(c, c.linked) = Units(b, c.linked)
    BY <1>1, UnitsSame
  <2>2. c.linked \subseteq b.linked
    OBVIOUS
  <2> QED  BY <2>1, <2>2, UnitsSubset DEF Ledger
<1>6. ASSUME NEW s \in Sides, NEW p \in Prices
      PROVE  c.total[s][p] = Cardinality(Units(c, Level(c, s, p)))
  <2> DEFINE L == Level(b, s, p)
  <2>1. Level(c, s, p) = L \ {r}
    <3>1. b.linked \subseteq DOMAIN b.orders  BY <1>1
    <3> QED  BY <3>1 DEF Level, SameOrders
  <2>2. L \subseteq b.linked
    BY DEF Level
  <2>3. Units(c, L \ {r}) = Units(b, L \ {r})
    BY <1>1, <2>2, UnitsSame
  <2>4. IsFiniteSet(Units(b, L))
    BY <2>2, UnitsSubset DEF Ledger
  <2>5. b.total[s][p] = Cardinality(Units(b, L))
    BY DEF Ledger, TotalsAddUp
  <2>6. CASE r \notin L
    <3>1. ~(s = b.orders[r].side /\ p = b.orders[r].price)
      BY <1>1, <2>6 DEF Level
    <3>2. L \ {r} = L
      BY <2>6
    <3> QED  BY <2>1, <2>3, <2>5, <3>1, <3>2
  <2>7. CASE r \in L
    <3>1. s = b.orders[r].side /\ p = b.orders[r].price
      BY <2>7 DEF Level
    <3>2. CASE L \subseteq {r}
      <4>1. L \ {r} = {}  BY <3>2
      <4>2. Units(b, {}) = {}  BY DEF Units
      <4>3. c.total[s][p] = 0  BY <3>1, <3>2, Zenon
      <4> QED  BY <2>1, <2>3, <4>1, <4>2, <4>3, FS_EmptySet
    <3>3. CASE ~(L \subseteq {r})
      <4>1. Cardinality(Units(b, L \ {r})) = Cardinality(Units(b, L)) - b.orders[r].quantity
        BY <2>2, <2>7, RestingUnitsWithout, SMTT(30)
      <4>2. c.total[s][p] = b.total[s][p] - b.orders[r].quantity
        BY <3>1, <3>3
      <4> QED  BY <2>1, <2>3, <2>5, <4>1, <4>2
    <3> QED  BY <3>2, <3>3
  <2> QED  BY <2>6, <2>7
<1>7. TotalsAddUp(c)
  BY <1>6 DEF TotalsAddUp
<1> QED  BY <1>2, <1>3, <1>4, <1>5, <1>7 DEF Ledger

\* c is b but for the quantity of one resting order, now q.
Requantifies(b, id, c, q) ==
    LET r == b.orderMap[id] IN
    /\ c.linked = b.linked
    /\ c.orderMap = b.orderMap
    /\ \A x \in DOMAIN b.orders :
          c.orders[x].quantity = IF x = r THEN q ELSE b.orders[x].quantity
    /\ \A s \in Sides, p \in Prices :
          c.total[s][p] =
            IF s = b.orders[r].side /\ p = b.orders[r].price
            THEN b.total[s][p] - b.orders[r].quantity + q
            ELSE b.total[s][p]

LEMMA LedgerRequantified ==
  ASSUME NEW b, Ledger(b), NEW id \in Ids, b.orderMap[id] # NoOrder,
         NEW q \in Nat \ {0},
         NEW c, BookOK(c), SameOrders(b, c), Requantifies(b, id, c, q)
  PROVE  Ledger(c)
<1> DEFINE r == b.orderMap[id]
<1> USE DEF Requantifies
<1>1. /\ r \in b.linked /\ b.orders[r].quantity \in Nat
      /\ b.linked \subseteq DOMAIN b.orders /\ BookOK(b)
  BY IndexedInLevel DEF Ledger, BookOK
<1>2. UniqueIds(c)
  BY DEF Ledger, UniqueIds, SameOrders
<1>3. Indexed(c)
  BY <1>1 DEF Ledger, Indexed, SameOrders, BookOK
<1>4. \A x \in c.linked : c.orders[x].quantity > 0
  BY <1>1 DEF Ledger
<1>5. c.orders[r].quantity = q
  BY <1>1
\* the units of any set of resting orders that has r in it
<1>6. ASSUME NEW S, S \subseteq b.linked, r \in S
      PROVE  /\ IsFiniteSet(Units(c, S))
             /\ Cardinality(Units(c, S))
                  = Cardinality(Units(b, S)) - b.orders[r].quantity + q
  <2>1. \A x \in S : c.orders[x].quantity = IF x = b.orderMap[id] THEN q
                                            ELSE b.orders[x].quantity
    BY <1>1, <1>6
  <2> QED  BY <1>6, <2>1, RestingUnitsRequantified
<1>7. IsFiniteSet(Units(c, c.linked))
  BY <1>1, <1>6
<1>8. ASSUME NEW s \in Sides, NEW p \in Prices
      PROVE  c.total[s][p] = Cardinality(Units(c, Level(c, s, p)))
  <2> DEFINE L == Level(b, s, p)
  <2>1. Level(c, s, p) = L
    BY <1>1, LevelSame
  <2>2. L \subseteq b.linked
    BY DEF Level
  <2>3. b.total[s][p] = Cardinality(Units(b, L))
    BY DEF Ledger, TotalsAddUp
  <2>4. CASE r \in L
    <3>1. s = b.orders[r].side /\ p = b.orders[r].price
      BY <2>4 DEF Level
    <3>2. Cardinality(Units(c, L)) = Cardinality(Units(b, L)) - b.orders[r].quantity + q
      BY <1>6, <2>2, <2>4
    <3> QED  BY <2>1, <2>3, <3>1, <3>2, Zenon
  <2>5. CASE r \notin L
    <3>1. ~(s = b.orders[r].side /\ p = b.orders[r].price)
      BY <1>1, <2>5 DEF Level
    <3>2. \A x \in L : c.orders[x].quantity = b.orders[x].quantity
      BY <1>1, <2>2, <2>5
    <3>3. Units(c, L) = Units(b, L)
      BY <3>2, UnitsSame
    <3> QED  BY <2>1, <2>3, <3>1, <3>3
  <2> QED  BY <2>4, <2>5
<1>9. TotalsAddUp(c)
  BY <1>8 DEF TotalsAddUp
<1> QED  BY <1>2, <1>3, <1>4, <1>7, <1>9, Zenon DEF Ledger

\* The quantity of a resting order is part of its level's total.
LEMMA TotalCoversOrder ==
  ASSUME NEW b, Ledger(b), NEW id \in Ids, b.orderMap[id] # NoOrder
  PROVE  LET o == b.orders[b.orderMap[id]]
         IN  /\ b.total[o.side][o.price] \in Nat
             /\ b.total[o.side][o.price] - o.quantity \in Nat
<1> DEFINE r == b.orderMap[id]
           o == b.orders[r]
           L == LevelOf(b, r)
<1>1. /\ r \in L /\ o.quantity \in Nat /\ o.side \in Sides /\ o.price \in Prices
      /\ IsFiniteSet(Units(b, L))
  BY IndexedInLevel, SMTT(30)
<1>2. b.total[o.side][o.price] = Cardinality(Units(b, L))
  BY <1>1, ZenonT(30) DEF Ledger, TotalsAddUp, LevelOf
<1> HIDE DEF L
<1>3. /\ Cardinality(Units(b, L \ {r})) = Cardinality(Units(b, L)) - o.quantity
      /\ Cardinality(Units(b, L \ {r})) \in Nat
  <2> HIDE DEF r
  <2> QED  BY <1>1, UnitsWithout
<1>4. Cardinality(Units(b, L)) \in Nat
  BY <1>1, FS_CardinalityType
<1> QED  BY <1>2, <1>3, <1>4

----------------------------------------------------------------------------
(* The operations *)

\* A change that leaves the links, the index, the totals and the quantities of
\* the resting orders alone leaves the ledger alone.
LEMMA LedgerSameLinks ==
  ASSUME NEW b, Ledger(b), NEW c, BookOK(c), UniqueIds(c),
         c.linked = b.linked, c.orderMap = b.orderMap, c.total = b.total,
         \A x \in b.linked : /\ c.orders[x].id = b.orders[x].id
                             /\ c.orders[x].side = b.orders[x].side
                             /\ c.orders[x].price = b.orders[x].price
                             /\ c.orders[x].quantity = b.orders[x].quantity
  PROVE  Ledger(c)
<1>1. Indexed(c)
  BY DEF Ledger, Indexed
<1>2. \A x \in c.linked : c.orders[x].quantity > 0
  BY DEF Ledger
<1>3. \A S \in SUBSET b.linked : Units(c, S) = Units(b, S)
  BY DEF Units
<1>4. IsFiniteSet(Units(c, c.linked))
  BY <1>3 DEF Ledger
<1>5. \A s \in Sides, p \in Prices : /\ Level(c, s, p) = Level(b, s, p)
                                     /\ Level(b, s, p) \in SUBSET b.linked
  BY DEF Level
<1>6. TotalsAddUp(c)
  BY <1>3, <1>5 DEF Ledger, TotalsAddUp
<1> QED  BY <1>1, <1>2, <1>4, <1>6 DEF Ledger

LEMMA LedgerNewOrder ==
  ASSUME NEW b, Ledger(b), NEW o \in Order, o.type = "LIMIT" => o.price \in Prices,
         \A r \in DOMAIN b.orders : b.orders[r].id # o.id
  PROVE  Ledger(NewOrder(b, o))
<1> DEFINE c == NewOrder(b, o)
<1>1. /\ BookOK(c) /\ c.linked = b.linked /\ c.orderMap = b.orderMap /\ c.total = b.total
      /\ DOMAIN c.orders = 1 .. Len(b.orders) + 1
      /\ c.orders[Len(b.orders) + 1] = o
      /\ \A r \in DOMAIN b.orders : c.orders[r] = b.orders[r]
  BY NewOrderOK DEF Ledger
<1>2. DOMAIN b.orders = 1 .. Len(b.orders) /\ Len(b.orders) \in Nat
      /\ b.linked \subseteq DOMAIN b.orders
  BY OrdersDomain DEF Ledger, BookOK
<1> HIDE DEF c
<1>3. \A r \in DOMAIN c.orders : r \in DOMAIN b.orders \/ r = Len(b.orders) + 1
  BY <1>1, <1>2
<1>4. UniqueIds(c)
  BY <1>1, <1>3, SMTT(30) DEF Ledger, UniqueIds
<1>5. Ledger(c)
  BY <1>1, <1>2, <1>4, LedgerSameLinks
<1> QED  BY <1>5 DEF c

\* Setting the quantity of an order that does not rest.
LEMMA LedgerSetQuantity ==
  ASSUME NEW b, Ledger(b), NEW r \in DOMAIN b.orders, r \notin b.linked, NEW q \in Nat
  PROVE  Ledger([b EXCEPT !.orders[r].quantity = q])
<1> DEFINE c == [b EXCEPT !.orders[r].quantity = q]
<1>1. /\ BookOK(c) /\ SameOrders(b, c) /\ c.linked = b.linked
      /\ c.orderMap = b.orderMap /\ c.total = b.total
      /\ \A x \in DOMAIN b.orders :
            c.orders[x].quantity = IF x = r THEN q ELSE b.orders[x].quantity
  BY SetQuantityOK DEF Ledger
<1> HIDE DEF c
<1>2. UniqueIds(c)
  BY <1>1 DEF Ledger, UniqueIds, SameOrders
<1>3. \A x \in b.linked : x \in DOMAIN b.orders /\ x # r
  BY DEF Ledger, BookOK
<1>4. Ledger(c)
  BY <1>1, <1>2, <1>3, LedgerSameLinks DEF SameOrders
<1> QED  BY <1>4 DEF c

LEMMA LedgerAddOrder ==
  ASSUME NEW b, Ledger(b), NEW r \in DOMAIN b.orders, b.orders[r].type = "LIMIT",
         r \notin b.linked, b.orders[r].quantity > 0
  PROVE  Ledger(AddOrder(b, r))
<1> DEFINE c == AddOrder(b, r)
           o == b.orders[r]
<1>1. /\ BookOK(c) /\ c.orders = b.orders /\ c.linked = b.linked \cup {r}
      /\ c.orderMap = [b.orderMap EXCEPT ![o.id] = r]
      /\ \A s \in Sides, p \in Prices :
            c.total[s][p] = IF s = o.side /\ p = o.price
                            THEN b.total[s][p] + o.quantity ELSE b.total[s][p]
  BY AddOrderOK DEF Ledger
<1>2. /\ o \in Order /\ o.id \in Ids /\ o.quantity \in Nat
      /\ b.orderMap \in [Ids -> Nat] /\ b.linked \subseteq DOMAIN b.orders
      /\ r \in Nat /\ o.side \in Sides /\ o.price \in Prices
  <2>1. BookOK(b)  BY DEF Ledger
  <2>2. o \in Order /\ r \in Nat  BY <2>1, OrdersDomain DEF BookOK
  <2>3. o.id \in Ids /\ o.quantity \in Nat /\ o.side \in Sides  BY <2>2 DEF Order
  <2>4. /\ b.orderMap \in [Ids -> Nat] /\ b.linked \subseteq DOMAIN b.orders
        /\ o.price \in Prices
    BY <2>1 DEF BookOK, Book
  <2> QED  BY <2>2, <2>3, <2>4
<1> HIDE DEF c
<1>3. UniqueIds(c)
  BY <1>1 DEF Ledger, UniqueIds
<1>4. Indexed(c)
  <2>1. \A i \in Ids : c.orderMap[i] = IF i = o.id THEN r ELSE b.orderMap[i]
    BY <1>1, <1>2
  <2>2. ASSUME NEW x \in c.linked PROVE c.orderMap[c.orders[x].id] = x
    <3>1. CASE x = r  BY <1>1, <1>2, <2>1, <3>1
    <3>2. CASE x # r
      <4>1. x \in b.linked /\ x \in DOMAIN b.orders  BY <1>1, <1>2, <3>2
      <4>2. b.orders[x].id \in Ids  BY <4>1, OrdersDomain DEF Ledger, BookOK, Order
      <4>3. b.orders[x].id # o.id  BY <3>2, <4>1 DEF Ledger, UniqueIds
      <4> QED  BY <1>1, <2>1, <4>1, <4>2, <4>3 DEF Ledger, Indexed
    <3> QED  BY <3>1, <3>2
  <2>3. \A i \in Ids : c.orderMap[i] # NoOrder =>
           c.orderMap[i] \in c.linked /\ c.orders[c.orderMap[i]].id = i
    BY <1>1, <2>1 DEF Ledger, Indexed
  <2> QED  BY <2>2, <2>3 DEF Indexed
<1>5. \A x \in c.linked : c.orders[x].quantity > 0
  BY <1>1 DEF Ledger
<1>6. \A S : Units(c, S) = Units(b, S)
  BY <1>1 DEF Units
<1>7. ASSUME NEW S, r \notin S, IsFiniteSet(Units(b, S))
      PROVE  /\ IsFiniteSet(Units(c, S \cup {r}))
             /\ Cardinality(Units(c, S \cup {r})) = Cardinality(Units(b, S)) + o.quantity
  BY <1>2, <1>6, <1>7, UnitsWith
<1>8. IsFiniteSet(Units(c, c.linked))
  BY <1>1, <1>7 DEF Ledger
<1>9. ASSUME NEW s \in Sides, NEW p \in Prices
      PROVE  c.total[s][p] = Cardinality(Units(c, Level(c, s, p)))
  <2> DEFINE L == Level(b, s, p)
  <2>1. L \subseteq b.linked /\ r \notin L
    BY DEF Level
  <2>2. IsFiniteSet(Units(b, L)) /\ b.total[s][p] = Cardinality(Units(b, L))
    BY <2>1, UnitsSubset DEF Ledger, TotalsAddUp
  <2>3. CASE s = o.side /\ p = o.price
    <3>1. Level(c, s, p) = L \cup {r}
      BY <1>1, <2>3 DEF Level
    <3>2. c.total[s][p] = b.total[s][p] + o.quantity
      BY <1>1, <2>3
    <3> QED  BY <1>7, <2>1, <2>2, <3>1, <3>2
  <2>4. CASE ~(s = o.side /\ p = o.price)
    <3>1. Level(c, s, p) = L
      BY <1>1, <2>4 DEF Level
    <3>2. c.total[s][p] = b.total[s][p]
      BY <1>1, <2>4
    <3> QED  BY <1>6, <2>2, <3>1, <3>2
  <2> QED  BY <2>3, <2>4
<1>10. TotalsAddUp(c)
  BY <1>9 DEF TotalsAddUp
<1>11. Ledger(c)
  BY <1>1, <1>3, <1>4, <1>5, <1>8, <1>10 DEF Ledger
<1> QED  BY <1>11 DEF c

LEMMA LedgerCancelOrder ==
  ASSUME NEW b, Ledger(b), NEW id \in Ids, b.orderMap[id] # NoOrder
  PROVE  Ledger(CancelOrder(b, id))
<1> DEFINE c == CancelOrder(b, id)
           r == b.orderMap[id]
           o == b.orders[r]
           gone == {x \in LevelOf(b, r) : b.orders[x].id = id}
<1>1. /\ BookOK(c) /\ c.orders = b.orders /\ c.linked = b.linked \ gone
      /\ \A i \in Ids : c.orderMap[i] = IF i = id THEN NoOrder ELSE b.orderMap[i]
      /\ \A s \in Sides, p \in Prices :
            c.total[s][p] = IF s = o.side /\ p = o.price
                            THEN IF LevelOf(b, r) \subseteq gone THEN 0
                                 ELSE b.total[s][p] - o.quantity
                            ELSE b.total[s][p]
  BY CancelOrderOK DEF Ledger
<1>2. gone = {r}
  BY IndexedInLevel
<1> HIDE DEF c, gone
<1>3. \A s \in Sides, p \in Prices :
         c.total[s][p] = IF s = o.side /\ p = o.price
                         THEN IF Level(b, s, p) \subseteq {r} THEN 0
                              ELSE b.total[s][p] - o.quantity
                         ELSE b.total[s][p]
  BY <1>1, <1>2 DEF LevelOf
<1>4. SameOrders(b, c) /\ Loses(b, id, c)
  BY <1>1, <1>2, <1>3 DEF SameOrders, Loses
<1>5. Ledger(c)
  BY <1>1, <1>4, LedgerWithout
<1> QED  BY <1>5 DEF c

LEMMA LedgerModifyOrder ==
  ASSUME NEW b, Ledger(b), NEW id \in Ids, b.orderMap[id] # NoOrder, NEW q \in Nat \ {0}
  PROVE  Ledger(ModifyOrder(b, id, q))
<1> DEFINE c == ModifyOrder(b, id, q)
           r == b.orderMap[id]
           o == b.orders[r]
           total == b.total[o.side][o.price] - o.quantity + q
<1>1. LevelOf(b, r) # {}
  BY IndexedInLevel
<1>2. BookOK(c) /\ SameOrders(b, c) /\ Modifies(b, id, q, c)
  <2>1. BookOK(b)  BY DEF Ledger
  <2> QED  BY <1>1, <2>1, ModifyOrderOK
<1>3. ~(total <= 0)
  <2>1. b.total[o.side][o.price] - o.quantity \in Nat
    BY TotalCoversOrder, Zenon
  <2>2. \A n \in Nat : ~(n + q <= 0)
    OBVIOUS
  <2> QED  BY <2>1, <2>2, Zenon
<1> HIDE DEF c
<1>4. /\ c.linked = b.linked /\ c.orderMap = b.orderMap
      /\ \A x \in DOMAIN b.orders :
            c.orders[x].quantity = IF x = r THEN q ELSE b.orders[x].quantity
  BY <1>2, <1>3, Zenon DEF Modifies
<1>5. \A s \in Sides, p \in Prices :
         c.total[s][p] = IF s = o.side /\ p = o.price
                         THEN b.total[s][p] - o.quantity + q ELSE b.total[s][p]
  BY <1>2, <1>3, Zenon DEF Modifies
<1>6. Requantifies(b, id, c, q)
  BY <1>2, <1>4, <1>5 DEF Requantifies
<1>7. Ledger(c)
  BY <1>2, <1>6, LedgerRequantified
<1> QED  BY <1>7 DEF c

\* A trade never takes more than the order has.
LEMMA LedgerDecrease ==
  ASSUME NEW b, Ledger(b), NEW id \in Ids, b.orderMap[id] # NoOrder,
         NEW amount \in Nat, amount <= b.orders[b.orderMap[id]].quantity
  PROVE  LET c == DecreaseOrderQuantity(b, id, amount)
             r == b.orderMap[id]
         IN  /\ Ledger(c)
             /\ SameOrders(b, c)
             /\ c.linked = IF amount = b.orders[r].quantity THEN b.linked \ {r} ELSE b.linked
             /\ \A x \in DOMAIN b.orders :
                   x # r => c.orders[x].quantity = b.orders[x].quantity
<1> DEFINE c == DecreaseOrderQuantity(b, id, amount)
           r == b.orderMap[id]
           o == b.orders[r]
           newQty == IF o.quantity <= amount THEN 0 ELSE o.quantity - amount
           gone   == IF newQty > 0 THEN {}
                     ELSE {x \in LevelOf(b, r) : b.orders[x].id = id}
           total  == b.total[o.side][o.price] - (o.quantity - newQty)
<1>1. BookOK(c) /\ SameOrders(b, c) /\ Decreases(b, id, amount, c)
  <2>1. BookOK(b)  BY DEF Ledger
  <2> QED  BY <2>1, DecreaseOK
<1>2. /\ r \in LevelOf(b, r) /\ o.quantity \in Nat \ {0}
      /\ {x \in LevelOf(b, r) : b.orders[x].id = id} = {r}
  BY IndexedInLevel
<1>3. b.total[o.side][o.price] \in Nat /\ b.total[o.side][o.price] - o.quantity \in Nat
  BY TotalCoversOrder, Zenon
<1> HIDE DEF c
<1>4. CASE amount = o.quantity
  <2>1. newQty = 0 /\ ~(newQty > 0)
    BY <1>2, <1>4
  <2>2. gone = {r}
    BY <1>2, <2>1, SMTT(30)
  <2>3. total = b.total[o.side][o.price] - o.quantity
    <3>1. \A n \in Nat : n - 0 = n  OBVIOUS
    <3> QED  BY <1>2, <2>1, <3>1
  <2>4. ~(total < 0)
    <3>1. \A n \in Nat : ~(n < 0)  OBVIOUS
    <3> QED  BY <1>3, <2>3, <3>1, Zenon
  <2> HIDE DEF newQty, gone, total
  <2>5. \A s \in Sides, p \in Prices :
           c.total[s][p] = IF s = o.side /\ p = o.price
                           THEN IF Level(b, s, p) \subseteq {r} THEN 0
                                ELSE b.total[s][p] - o.quantity
                           ELSE b.total[s][p]
    BY <1>1, <2>2, <2>3, <2>4, ZenonT(40) DEF LevelOf, Decreases, newQty, gone, total
  <2>6. /\ \A i \in Ids : c.orderMap[i] = IF i = id THEN NoOrder ELSE b.orderMap[i]
        /\ \A x \in DOMAIN b.orders : c.orders[x].quantity = b.orders[x].quantity
        /\ c.linked = b.linked \ {r}
    BY <1>1, <2>1, <2>2, Zenon DEF Decreases, newQty, gone
  <2>7. Loses(b, id, c)
    BY <2>5, <2>6 DEF Loses
  <2>8. Ledger(c)
    BY <1>1, <2>7, LedgerWithout
  <2> QED  BY <1>1, <1>4, <2>6, <2>8, Zenon DEF c
<1>5. CASE amount # o.quantity
  <2>1. newQty = o.quantity - amount /\ newQty \in Nat \ {0} /\ newQty > 0
    BY <1>2, <1>5
  <2>2. gone = {}
    BY <2>1
  <2>3. total = b.total[o.side][o.price] - o.quantity + newQty /\ ~(total < 0)
    <3> HIDE DEF newQty
    <3>1. \A t, n \in Nat : \A m \in Int : t - m \in Nat =>
             t - (m - n) = t - m + n /\ ~(t - (m - n) < 0)
      OBVIOUS
    <3>2. o.quantity \in Int  BY <1>2
    <3>3. newQty \in Nat  BY <2>1
    <3> QED  BY <1>3, <3>1, <3>2, <3>3, Zenon
  <2> HIDE DEF newQty, gone, total
  <2>4. ~(LevelOf(b, r) \subseteq gone)
    BY <1>2, <2>2
  <2>5. \A s \in Sides, p \in Prices :
           c.total[s][p] = IF s = o.side /\ p = o.price
                           THEN b.total[s][p] - o.quantity + newQty
                           ELSE b.total[s][p]
    BY <1>1, <2>3, <2>4, ZenonT(40) DEF Decreases, newQty, gone, total
  <2>6. /\ \A x \in DOMAIN b.orders :
              c.orders[x].quantity = IF x = r THEN newQty ELSE b.orders[x].quantity
        /\ c.linked = b.linked
        /\ \A i \in Ids : c.orderMap[i] = b.orderMap[i]
    BY <1>1, <2>1, <2>2, Zenon DEF Decreases, newQty, gone
  <2>7. c.orderMap = b.orderMap
    BY <1>1, <2>6 DEF BookOK, Book, Ledger
  <2>8. Requantifies(b, id, c, newQty)
    BY <2>5, <2>6, <2>7 DEF Requantifies
  <2>9. Ledger(c)
    BY <1>1, <2>1, <2>8, LedgerRequantified
  <2> QED  BY <1>1, <1>5, <2>6, <2>9 DEF c
<1> QED  BY <1>4, <1>5

----------------------------------------------------------------------------
(* What the operations keep when orders may be modified to zero *)

LEMMA LedgerFindable ==
  ASSUME NEW b, Ledger(b)
  PROVE  Findable(b)
BY DEF Ledger, Findable, Indexed, OwnIds

LEMMA FewerFindable ==
  ASSUME NEW b, Findable(b), NEW c, BookOK(c), SameOrders(b, c),
         c.linked \subseteq b.linked,
         \A i \in Ids : c.orderMap[i] = NoOrder \/ c.orderMap[i] = b.orderMap[i],
         \A r \in c.linked : c.orderMap[b.orders[r].id] = r
  PROVE  Findable(c)
<1>1. UniqueIds(c)
  BY DEF Findable, UniqueIds, SameOrders
<1>2. OwnIds(c)
  BY DEF Findable, BookOK, OwnIds, SameOrders
<1>3. \A r \in c.linked : c.orders[r].id = b.orders[r].id
  BY DEF Findable, BookOK, SameOrders
<1> QED  BY <1>1, <1>2, <1>3 DEF Findable

LEMMA FindableSameLinks ==
  ASSUME NEW b, Findable(b), NEW c, BookOK(c), UniqueIds(c),
         c.linked = b.linked, c.orderMap = b.orderMap,
         \A x \in DOMAIN b.orders : c.orders[x].id = b.orders[x].id
  PROVE  Findable(c)
<1>1. OwnIds(c)
  BY DEF Findable, BookOK, OwnIds
<1>2. \A r \in c.linked : c.orderMap[c.orders[r].id] = r
  BY DEF Findable, BookOK
<1> QED  BY <1>1, <1>2 DEF Findable

LEMMA FindableNewOrder ==
  ASSUME NEW b, Findable(b), NEW o \in Order, o.type = "LIMIT" => o.price \in Prices,
         \A r \in DOMAIN b.orders : b.orders[r].id # o.id
  PROVE  Findable(NewOrder(b, o))
<1> DEFINE c == NewOrder(b, o)
<1>1. /\ BookOK(c) /\ c.linked = b.linked /\ c.orderMap = b.orderMap
      /\ DOMAIN c.orders = 1 .. Len(b.orders) + 1
      /\ c.orders[Len(b.orders) + 1] = o
      /\ \A r \in DOMAIN b.orders : c.orders[r] = b.orders[r]
  BY NewOrderOK DEF Findable
<1>2. DOMAIN b.orders = 1 .. Len(b.orders) /\ Len(b.orders) \in Nat
  BY OrdersDomain DEF Findable, BookOK
<1> HIDE DEF c
<1>3. \A r \in DOMAIN c.orders : r \in DOMAIN b.orders \/ r = Len(b.orders) + 1
  BY <1>1, <1>2
<1>4. UniqueIds(c)
  BY <1>1, <1>3, SMTT(30) DEF Findable, UniqueIds
<1>5. Findable(c)
  BY <1>1, <1>4, FindableSameLinks
<1> QED  BY <1>5 DEF c

LEMMA FindableAddOrder ==
  ASSUME NEW b, Findable(b), NEW r \in DOMAIN b.orders, b.orders[r].type = "LIMIT"
  PROVE  Findable(AddOrder(b, r))
<1> DEFINE c == AddOrder(b, r)
           o == b.orders[r]
<1>1. /\ BookOK(c) /\ c.orders = b.orders /\ c.linked = b.linked \cup {r}
      /\ c.orderMap = [b.orderMap EXCEPT ![o.id] = r]
  BY AddOrderOK DEF Findable
<1>2. /\ o.id \in Ids /\ b.orderMap \in [Ids -> Nat]
      /\ b.linked \subseteq DOMAIN b.orders
  <2>1. BookOK(b)  BY DEF Findable
  <2>2. o \in Order  BY <2>1, OrdersDomain DEF BookOK
  <2> QED  BY <2>1, <2>2 DEF BookOK, Book, Order
<1> HIDE DEF c
<1>3. UniqueIds(c)
  BY <1>1 DEF Findable, UniqueIds
<1>4. \A i \in Ids : c.orderMap[i] = IF i = o.id THEN r ELSE b.orderMap[i]
  BY <1>1, <1>2
<1>5. OwnIds(c)
  BY <1>1, <1>4 DEF Findable, OwnIds
<1>6. ASSUME NEW x \in c.linked PROVE c.orderMap[c.orders[x].id] = x
  <2>1. CASE x = r  BY <1>1, <1>2, <1>4, <2>1
  <2>2. CASE x # r
    <3>1. x \in b.linked /\ x \in DOMAIN b.orders  BY <1>1, <1>2, <2>2
    <3>2. b.orders[x].id \in Ids  BY <3>1, OrdersDomain DEF Findable, BookOK, Order
    <3>3. b.orders[x].id # o.id  BY <2>2, <3>1 DEF Findable, UniqueIds
    <3> QED  BY <1>1, <1>4, <3>1, <3>2, <3>3 DEF Findable
  <2> QED  BY <2>1, <2>2
<1>7. Findable(c)
  BY <1>1, <1>3, <1>5, <1>6 DEF Findable
<1> QED  BY <1>7 DEF c

\* Orders leave a list together with their ids: those of the level of r that
\* have its id are r, if it is linked.
LEMMA FoundInLevel ==
  ASSUME NEW b, Findable(b), NEW id \in Ids, b.orderMap[id] # NoOrder
  PROVE  LET r == b.orderMap[id] IN
         \A x \in b.linked :
            /\ b.orders[x].id \in Ids
            /\ b.orders[x].id = id <=> x = r
            /\ x = r => x \in LevelOf(b, r)
<1> DEFINE r == b.orderMap[id]
<1> SUFFICES ASSUME NEW x \in b.linked
             PROVE  /\ b.orders[x].id \in Ids
                    /\ b.orders[x].id = id <=> x = r
                    /\ x = r => x \in LevelOf(b, r)
  OBVIOUS
<1>1. b.orders[x].id \in Ids
  BY OrdersDomain DEF Findable, BookOK, Order
<1>2. b.orders[r].id = id
  BY DEF Findable, OwnIds
<1>3. b.orderMap[b.orders[x].id] = x
  BY DEF Findable
<1> QED  BY <1>1, <1>2, <1>3 DEF LevelOf, Level

LEMMA FindableCancelOrder ==
  ASSUME NEW b, Findable(b), NEW id \in Ids, b.orderMap[id] # NoOrder
  PROVE  LET c == CancelOrder(b, id) IN
         /\ Findable(c)
         /\ SameOrders(b, c)
         /\ c.linked \subseteq b.linked
<1> DEFINE c == CancelOrder(b, id)
           r == b.orderMap[id]
           gone == {x \in LevelOf(b, r) : b.orders[x].id = id}
<1>1. /\ BookOK(c) /\ c.orders = b.orders /\ c.linked = b.linked \ gone
      /\ \A i \in Ids : c.orderMap[i] = IF i = id THEN NoOrder ELSE b.orderMap[i]
  BY CancelOrderOK DEF Findable
<1> HIDE DEF c
<1>2. ASSUME NEW x \in c.linked PROVE c.orderMap[b.orders[x].id] = x
  <2>1. x \in b.linked /\ x \notin gone
    BY <1>1
  <2>2. b.orders[x].id \in Ids /\ b.orders[x].id # id
    BY <2>1, FoundInLevel
  <2> QED  BY <1>1, <2>1, <2>2 DEF Findable
<1>3. SameOrders(b, c) /\ c.linked \subseteq b.linked
  BY <1>1 DEF SameOrders
<1>4. Findable(c)
  BY <1>1, <1>2, <1>3, FewerFindable
<1> QED  BY <1>3, <1>4 DEF c

LEMMA FindableModifyOrder ==
  ASSUME NEW b, Findable(b), NEW id \in Ids, b.orderMap[id] # NoOrder, NEW q \in Nat
  PROVE  LET c == ModifyOrder(b, id, q) IN
         /\ Findable(c)
         /\ SameOrders(b, c)
         /\ c.linked \subseteq b.linked
<1> DEFINE c == ModifyOrder(b, id, q)
           r == b.orderMap[id]
<1>1. CASE LevelOf(b, r) = {}
  BY <1>1 DEF ModifyOrder, SameOrders
<1>2. CASE LevelOf(b, r) # {}
  <2>1. /\ BookOK(c) /\ SameOrders(b, c) /\ Modifies(b, id, q, c)
        /\ c.linked \subseteq b.linked
    <3>1. BookOK(b)  BY DEF Findable
    <3> QED  BY <1>2, <3>1, ModifyOrderOK
  <2> HIDE DEF c
  <2>2. c.orderMap = b.orderMap
    BY <2>1 DEF Modifies
  <2>3. Findable(c)
    BY <2>1, <2>2, FewerFindable DEF Findable
  <2> QED  BY <2>1, <2>3 DEF c
<1> QED  BY <1>1, <1>2

\* A trade with a linked order never takes more than it has; one that has
\* nothing leaves its list.
LEMMA FindableDecrease ==
  ASSUME NEW b, Findable(b), NEW id \in Ids, b.orderMap[id] \in b.linked,
         NEW amount \in Nat, amount <= b.orders[b.orderMap[id]].quantity
  PROVE  LET c == DecreaseOrderQuantity(b, id, amount)
             r == b.orderMap[id]
         IN  /\ Findable(c)
             /\ SameOrders(b, c)
             /\ c.linked = IF amount = b.orders[r].quantity THEN b.linked \ {r} ELSE b.linked
             /\ \A x \in DOMAIN b.orders :
                   x # r => c.orders[x].quantity = b.orders[x].quantity
<1> DEFINE c == DecreaseOrderQuantity(b, id, amount)
           r == b.orderMap[id]
           o == b.orders[r]
           newQty == IF o.quantity <= amount THEN 0 ELSE o.quantity - amount
           gone   == IF newQty > 0 THEN {}
                     ELSE {x \in LevelOf(b, r) : b.orders[x].id = id}
<1>1. BookOK(b) /\ r # NoOrder
  BY DEF Findable, BookOK, Book, NoOrder
<1>2. o.quantity \in Nat
  BY <1>1, IndexedOrder
<1>3. BookOK(c) /\ SameOrders(b, c) /\ Decreases(b, id, amount, c)
  BY <1>1, DecreaseOK
<1> HIDE DEF c
<1>4. newQty > 0 <=> amount # o.quantity
  BY <1>2
<1>5. newQty = 0 <=> amount = o.quantity
  BY <1>2
<1>6. gone = IF amount = o.quantity THEN {r} ELSE {}
  <2>1. \A x \in LevelOf(b, r) : x \in b.linked
    BY DEF LevelOf, Level
  <2>2. {x \in LevelOf(b, r) : b.orders[x].id = id} = {r}
    BY <1>1, <2>1, FoundInLevel
  <2> HIDE DEF newQty
  <2> QED  BY <1>4, <2>2
<1> HIDE DEF newQty, gone
<1>7. /\ c.linked = b.linked \ gone
      /\ \A i \in Ids : c.orderMap[i] = IF i = id /\ newQty = 0 THEN NoOrder
                                        ELSE b.orderMap[i]
      /\ \A x \in DOMAIN b.orders : x # r => c.orders[x].quantity = b.orders[x].quantity
  BY <1>3, Zenon DEF Decreases, newQty, gone
<1>8. c.linked = IF amount = o.quantity THEN b.linked \ {r} ELSE b.linked
  BY <1>6, <1>7
<1>9. ASSUME NEW x \in c.linked PROVE c.orderMap[b.orders[x].id] = x
  <2>1. x \in b.linked /\ b.orders[x].id \in Ids /\ (b.orders[x].id = id <=> x = r)
    BY <1>1, <1>8, FoundInLevel
  <2>2. ~(b.orders[x].id = id /\ newQty = 0)
    BY <1>5, <1>8, <2>1
  <2>3. c.orderMap[b.orders[x].id] = b.orderMap[b.orders[x].id]
    BY <1>7, <2>1, <2>2
  <2> QED  BY <2>1, <2>3 DEF Findable
<1>10. Findable(c)
  <2>1. c.linked \subseteq b.linked
    BY <1>7
  <2>2. \A i \in Ids : c.orderMap[i] = NoOrder \/ c.orderMap[i] = b.orderMap[i]
    BY <1>7
  <2> QED  BY <1>3, <1>9, <2>1, <2>2, FewerFindable
<1> QED  BY <1>3, <1>7, <1>8, <1>10 DEF c

----------------------------------------------------------------------------
(* Induction.  The induction theorems of the library take an operator as    *)
(* their parameter; this one takes the set of the numbers it holds for.     *)

LEMMA SetOfAllNat ==
  ASSUME NEW T, 0 \in T, \A n \in Nat : n \in T => n + 1 \in T
  PROVE  Nat \subseteq T
<1> DEFINE U == Nat \ T
           R == OpToRel(<, Nat)
<1> SUFFICES ASSUME U # {} PROVE FALSE
  OBVIOUS
<1>1. PICK x \in U : \A y \in U : ~(<<y, x>> \in R)
  <2>1. IsWellFoundedOn(R, Nat)  BY NatLessThanWellFounded
  <2>2. U \subseteq Nat  OBVIOUS
  <2> HIDE DEF R, U
  <2> QED  BY <2>1, <2>2, WFMin
<1>2. x \in Nat /\ x # 0
  OBVIOUS
<1>3. x - 1 \in Nat /\ (x - 1) + 1 = x
  BY <1>2
<1>4. x - 1 \notin T
  BY <1>2, <1>3
<1>5. x - 1 \in U
  BY <1>3, <1>4
<1>6. <<x - 1, x>> \in R
  BY <1>2, <1>3 DEF OpToRel
<1> QED  BY <1>1, <1>5, <1>6

----------------------------------------------------------------------------
(* The first of some orders *)

\* Of the orders of one side with prices, Ahead is a strict linear order.
LEMMA AheadOrder ==
  ASSUME NEW b, NEW S \in SUBSET Nat, NEW side \in Sides,
         \A r \in S : b.orders[r].side = side /\ b.orders[r].price \in Nat
  PROVE  /\ \A r, q \in S : r # q => Ahead(b, r, q) \/ Ahead(b, q, r)
         /\ \A r, q, x \in S : Ahead(b, r, q) /\ Ahead(b, q, x) => Ahead(b, r, x)
<1>1. ASSUME NEW r \in S, NEW q \in S, r # q PROVE Ahead(b, r, q) \/ Ahead(b, q, r)
  <2>1. /\ r \in Nat /\ q \in Nat /\ r # q
        /\ b.orders[r].side = side /\ b.orders[q].side = side
        /\ b.orders[r].price \in Nat /\ b.orders[q].price \in Nat
    BY <1>1
  <2>2. CASE side = "BUY"
    BY ONLY <2>1, <2>2 DEF Ahead
  <2>3. CASE side = "SELL"
    BY ONLY <2>1, <2>3 DEF Ahead
  <2> QED  BY <2>2, <2>3 DEF Sides
<1>2. ASSUME NEW r \in S, NEW q \in S, NEW x \in S, Ahead(b, r, q), Ahead(b, q, x)
      PROVE  Ahead(b, r, x)
  <2>1. /\ r \in Nat /\ q \in Nat /\ x \in Nat
        /\ b.orders[r].side = side /\ b.orders[q].side = side
        /\ b.orders[r].price \in Nat /\ b.orders[q].price \in Nat /\ b.orders[x].price \in Nat
    OBVIOUS
  <2>2. CASE side = "BUY"
    BY ONLY <1>2, <2>1, <2>2 DEF Ahead
  <2>3. CASE side = "SELL"
    BY ONLY <1>2, <2>1, <2>3 DEF Ahead
  <2> QED  BY <2>2, <2>3 DEF Sides
<1> QED  BY <1>1, <1>2

\* Hence any of them, as long as there is one, have a first.
LEMMA FirstExists ==
  ASSUME NEW b, BookOK(b), NEW side \in Sides, NEW S, S # {}, S \subseteq b.linked,
         \A r \in S : b.orders[r].side = side
  PROVE  First(b, S) \in S /\ FirstOf(b, First(b, S), S)
<1> DEFINE Sided == {r \in b.linked : b.orders[r].side = side}
           T == {n \in Nat : \A X \in SUBSET Sided :
                    X # {} /\ X \subseteq 1 .. n => \E r \in X : FirstOf(b, r, X)}
<1>1. /\ Sided \in SUBSET Nat /\ DOMAIN b.orders = 1 .. Len(b.orders) /\ Len(b.orders) \in Nat
      /\ \A r \in Sided : b.orders[r].side = side /\ b.orders[r].price \in Nat
      /\ S \in SUBSET Sided /\ Sided \subseteq DOMAIN b.orders
  BY OrdersDomain, PricesAssumption DEF BookOK, Book
<1>2. /\ \A r, q \in Sided : r # q => Ahead(b, r, q) \/ Ahead(b, q, r)
      /\ \A r, q, x \in Sided : Ahead(b, r, q) /\ Ahead(b, q, x) => Ahead(b, r, x)
  <2> HIDE DEF Sided
  <2> QED  BY <1>1, AheadOrder
<1>3. 0 \in T
  OBVIOUS
<1>4. ASSUME NEW n \in Nat, n \in T PROVE n + 1 \in T
  <2> HIDE DEF Sided
  <2> SUFFICES ASSUME NEW X \in SUBSET Sided, X # {}, X \subseteq 1 .. n + 1
               PROVE  \E r \in X : FirstOf(b, r, X)
    OBVIOUS
  <2>1. CASE n + 1 \notin X
    <3>1. X \subseteq 1 .. n  BY <2>1
    <3> QED  BY <1>4, <3>1
  <2>2. CASE X = {n + 1}
    BY <2>2 DEF FirstOf
  <2>3. CASE n + 1 \in X /\ X # {n + 1}
    <3> DEFINE Y == X \ {n + 1}
    <3>1. Y # {} /\ Y \subseteq 1 .. n /\ Y \in SUBSET Sided
      BY <2>3
    <3>2. PICK f \in Y : FirstOf(b, f, Y)
      BY <1>4, <3>1
    <3>3. CASE Ahead(b, f, n + 1)
      BY <3>2, <3>3 DEF FirstOf
    <3>4. CASE Ahead(b, n + 1, f)
      BY <1>2, <2>3, <3>2, <3>4 DEF FirstOf
    <3> QED  BY <1>2, <2>3, <3>2, <3>3, <3>4
  <2> QED  BY <2>1, <2>2, <2>3
<1>5. Nat \subseteq T
  <2> HIDE DEF T
  <2> QED  BY <1>3, <1>4, SetOfAllNat
<1>6. \E r \in S : FirstOf(b, r, S)
  <2>1. S \subseteq 1 .. Len(b.orders)  BY <1>1
  <2> HIDE DEF Sided
  <2> QED  BY <1>1, <1>5, <2>1
<1> QED  BY <1>6 DEF First

LEMMA FirstEligible ==
  ASSUME NEW b, BookOK(b), NEW o, o.side \in Sides, Eligible(b, o) # {}
  PROVE  LET m == First(b, Eligible(b, o)) IN
         m \in Eligible(b, o) /\ m \in b.linked /\ FirstOf(b, m, Eligible(b, o))
<1>1. Opposite(o.side) \in Sides  BY DEF Opposite, Sides
<1>2. /\ Eligible(b, o) \subseteq b.linked
      /\ \A r \in Eligible(b, o) : b.orders[r].side = Opposite(o.side)
  BY DEF Eligible
<1> QED  BY <1>1, <1>2, FirstExists
----------------------------------------------------------------------------
(* The matching loop, turn by turn *)

\* g is the function the definition of Turns describes.
IsRun(g, s, taker, n) ==
    g = [k \in 0 .. n |-> IF k = 0 THEN s ELSE Turn(g[k - 1], taker)]

LEMMA RunLonger ==
  ASSUME NEW s, NEW taker, NEW n \in Nat, NEW g, IsRun(g, s, taker, n)
  PROVE  IsRun([k \in 0 .. n + 1 |-> IF k = n + 1 THEN Turn(g[n], taker) ELSE g[k]],
               s, taker, n + 1)
<1> DEFINE h == [k \in 0 .. n + 1 |-> IF k = n + 1 THEN Turn(g[n], taker) ELSE g[k]]
<1>1. \A k \in 0 .. n : g[k] = IF k = 0 THEN s ELSE Turn(g[k - 1], taker)
  BY Zenon DEF IsRun
<1>2. h[n + 1] = Turn(g[n], taker) /\ \A k \in 0 .. n : h[k] = g[k]
  OBVIOUS
<1>3. ASSUME NEW k \in 0 .. n + 1
      PROVE  h[k] = IF k = 0 THEN s ELSE Turn(h[k - 1], taker)
  <2>1. CASE k = n + 1
    BY <1>2, <2>1
  <2>2. CASE k = 0
    BY <1>1, <1>2, <2>2
  <2>3. CASE k \in 1 .. n
    BY <1>1, <1>2, <2>3
  <2> QED  BY <2>1, <2>2, <2>3
<1> QED  BY <1>3 DEF IsRun

LEMMA TurnsRun ==
  ASSUME NEW s, NEW taker, NEW n \in Nat
  PROVE  \E g : IsRun(g, s, taker, n) /\ Turns(s, taker, n) = g[n]
<1> DEFINE T == {k \in Nat : \E g : IsRun(g, s, taker, k)}
<1>1. 0 \in T
  <2>1. IsRun([k \in 0 .. 0 |-> s], s, taker, 0)  BY DEF IsRun
  <2> QED  BY <2>1
<1>2. ASSUME NEW k \in Nat, k \in T PROVE k + 1 \in T
  <2>1. PICK g : IsRun(g, s, taker, k)
    BY <1>2
  <2>2. \E h : IsRun(h, s, taker, k + 1)
    BY <2>1, RunLonger
  <2> QED  BY <2>2
<1>3. PICK g : IsRun(g, s, taker, n)
  <2> HIDE DEF T
  <2>1. n \in T  BY <1>1, <1>2, SetOfAllNat
  <2> QED  BY <2>1 DEF T
<1> DEFINE f == CHOOSE f : IsRun(f, s, taker, n)
<1>4. IsRun(f, s, taker, n)
  BY <1>3
<1>5. Turns(s, taker, n) = f[n]
  BY DEF Turns, IsRun
<1> QED  BY <1>4, <1>5

LEMMA RunsAgree ==
  ASSUME NEW s, NEW taker, NEW n \in Nat, NEW g, NEW h,
         IsRun(g, s, taker, n), IsRun(h, s, taker, n + 1)
  PROVE  g[n] = h[n] /\ h[n + 1] = Turn(h[n], taker)
<1> DEFINE T == {k \in Nat : k <= n => g[k] = h[k]}
<1>1. /\ \A k \in 0 .. n : g[k] = IF k = 0 THEN s ELSE Turn(g[k - 1], taker)
      /\ \A k \in 0 .. n + 1 : h[k] = IF k = 0 THEN s ELSE Turn(h[k - 1], taker)
  BY Zenon DEF IsRun
<1>2. 0 \in T
  BY <1>1
<1>3. \A k \in Nat : k \in T => k + 1 \in T
  BY <1>1
<1>4. n \in T
  <2> HIDE DEF T
  <2> QED  BY <1>2, <1>3, SetOfAllNat
<1> QED  BY <1>1, <1>4

\* The loop after no turn, and after one more turn.
LEMMA TurnsByTurn ==
  ASSUME NEW s, NEW taker
  PROVE  /\ Turns(s, taker, 0) = s
         /\ \A n \in Nat : Turns(s, taker, n + 1) = Turn(Turns(s, taker, n), taker)
<1>1. Turns(s, taker, 0) = s
  <2>1. PICK g : IsRun(g, s, taker, 0) /\ Turns(s, taker, 0) = g[0]
    BY TurnsRun
  <2> QED  BY <2>1 DEF IsRun
<1>2. ASSUME NEW n \in Nat
      PROVE  Turns(s, taker, n + 1) = Turn(Turns(s, taker, n), taker)
  <2>1. PICK g : IsRun(g, s, taker, n) /\ Turns(s, taker, n) = g[n]
    BY TurnsRun
  <2>2. PICK h : IsRun(h, s, taker, n + 1) /\ Turns(s, taker, n + 1) = h[n + 1]
    BY TurnsRun
  <2> QED  BY <2>1, <2>2, RunsAgree
<1> QED  BY <1>1, <1>2

----------------------------------------------------------------------------
(* One trade *)

\* Decreasing an id that is not indexed changes nothing.
LEMMA DecreasesNothing ==
  ASSUME NEW b, NEW id, NEW amount, b.orderMap[id] = NoOrder
  PROVE  DecreaseOrderQuantity(b, id, amount) = b
BY DEF DecreaseOrderQuantity

\* What one decrease does, whether or not the id is indexed.
LEMMA DecreaseType ==
  ASSUME NEW b, BookOK(b), NEW id \in Ids, NEW amount \in Nat
  PROVE  LET c == DecreaseOrderQuantity(b, id, amount) IN
         /\ BookOK(c)
         /\ SameOrders(b, c)
         /\ c.linked \subseteq b.linked
         /\ \A i \in Ids : c.orderMap[i] = NoOrder \/ c.orderMap[i] = b.orderMap[i]
<1>1. CASE b.orderMap[id] = NoOrder
  BY <1>1, DecreasesNothing DEF SameOrders
<1>2. CASE b.orderMap[id] # NoOrder
  <2> DEFINE c == DecreaseOrderQuantity(b, id, amount)
  <2>1. BookOK(c) /\ SameOrders(b, c) /\ Decreases(b, id, amount, c)
    BY <1>2, DecreaseOK
  <2> HIDE DEF c
  <2>2. /\ c.linked \subseteq b.linked
        /\ \A i \in Ids : c.orderMap[i] = NoOrder \/ c.orderMap[i] = b.orderMap[i]
    BY <2>1, Zenon DEF Decreases
  <2> QED  BY <2>1, <2>2 DEF c
<1> QED  BY <1>1, <1>2, SMTT(30)

\* The quantity of a trade between remaining units and an order of some.
LEMMA SmallerOK ==
  ASSUME NEW a \in Nat, NEW b \in Nat
  PROVE  /\ Smaller(a, b) \in Nat /\ Smaller(a, b) <= b
         /\ a - Smaller(a, b) \in Nat
         /\ Smaller(a, b) = b \/ a - Smaller(a, b) = 0
BY DEF Smaller

\* Trades happen at the prices of resting orders.
PricedTrade == {t \in Trade : t.price \in Prices}

\* What the loop carries, over the orders of the book b.
Loop(b, s) ==
    /\ BookOK(s.book) /\ SameOrders(b, s.book)
    /\ s.book.linked \subseteq b.linked
    /\ \A i \in Ids : s.book.orderMap[i] = NoOrder \/ s.book.orderMap[i] = b.orderMap[i]
    /\ s.remaining \in Nat
    /\ s.trades \in Seq(PricedTrade)

LEMMA TradeLoop ==
  ASSUME NEW b, NEW s, Loop(b, s), NEW m \in s.book.linked, NEW taker, taker.id \in Ids
  PROVE  Loop(b, ExecuteTradeWith(s, m, taker))
<1> DEFINE maker == s.book.orders[m]
           qty == Smaller(s.remaining, maker.quantity)
           c == DecreaseOrderQuantity(s.book, maker.id, qty)
           d == DecreaseOrderQuantity(c, taker.id, qty)
           new == [price |-> maker.price, quantity |-> qty,
                   makerOrderId |-> maker.id, takerOrderId |-> taker.id]
<1>1. m \in DOMAIN s.book.orders /\ maker.type = "LIMIT"
  BY DEF Loop, BookOK
<1>2. maker \in Order /\ maker.price \in Prices
  BY <1>1, OrdersDomain DEF Loop, BookOK
<1>3. maker.id \in Ids /\ maker.quantity \in Nat /\ maker.price \in Nat
  BY <1>2, PricesAssumption DEF Order
<1>4. qty \in Nat /\ s.remaining - qty \in Nat
  BY <1>3, SmallerOK DEF Loop
<1>5. new \in PricedTrade
  BY <1>2, <1>3, <1>4 DEF PricedTrade, Trade
<1>6. ExecuteTradeWith(s, m, taker) =
        [book |-> d, remaining |-> s.remaining - qty, trades |-> Append(s.trades, new)]
  BY DEF ExecuteTradeWith
<1>7. Append(s.trades, new) \in Seq(PricedTrade)
  BY <1>5, AppendProperties DEF Loop
<1> HIDE DEF qty, new
<1>8. /\ BookOK(c) /\ SameOrders(s.book, c) /\ c.linked \subseteq s.book.linked
      /\ \A i \in Ids : c.orderMap[i] = NoOrder \/ c.orderMap[i] = s.book.orderMap[i]
  BY <1>3, <1>4, DecreaseType, Zenon DEF Loop
<1> HIDE DEF c
<1>9. /\ BookOK(d) /\ SameOrders(c, d) /\ d.linked \subseteq c.linked
      /\ \A i \in Ids : d.orderMap[i] = NoOrder \/ d.orderMap[i] = c.orderMap[i]
  BY <1>4, <1>8, DecreaseType, ZenonT(40)
<1> HIDE DEF d
<1>10. SameOrders(b, d)
  BY <1>8, <1>9 DEF Loop, SameOrders
<1>11. /\ d.linked \subseteq b.linked
       /\ \A i \in Ids : d.orderMap[i] = NoOrder \/ d.orderMap[i] = b.orderMap[i]
  BY <1>8, <1>9, Zenon DEF Loop
<1> QED  BY <1>4, <1>6, <1>7, <1>9, <1>10, <1>11 DEF Loop

\* The taker of a call: an order object that is neither linked nor indexed.
Unindexed(b, taker) == taker.id \in Ids /\ b.orderMap[taker.id] = NoOrder

\* A trade decreases the maker, and the taker has nothing in the book to
\* decrease; a maker that leaves the taker wanting more is gone.
LEMMA TradeLedger ==
  ASSUME NEW s, Findable(s.book), s.remaining \in Nat, NEW m \in s.book.linked,
         NEW taker, Unindexed(s.book, taker)
  PROVE  LET d == ExecuteTradeWith(s, m, taker) IN
         /\ Findable(d.book)
         /\ Ledger(s.book) => Ledger(d.book)
         /\ SameOrders(s.book, d.book)
         /\ Unindexed(d.book, taker)
         /\ d.book.linked = s.book.linked \/ d.book.linked = s.book.linked \ {m}
         /\ d.remaining > 0 => d.book.linked = s.book.linked \ {m}
         /\ \A x \in DOMAIN s.book.orders :
               x # m => d.book.orders[x].quantity = s.book.orders[x].quantity
<1> DEFINE maker == s.book.orders[m]
           id == maker.id
           qty == Smaller(s.remaining, maker.quantity)
           c == DecreaseOrderQuantity(s.book, id, qty)
           d == ExecuteTradeWith(s, m, taker)
<1>1. m \in DOMAIN s.book.orders /\ m # NoOrder
  BY DEF Findable, BookOK, Book, NoOrder
<1>2. maker \in Order
  BY <1>1, OrdersDomain DEF Findable, BookOK
<1>3. id \in Ids /\ maker.quantity \in Nat
  BY <1>2 DEF Order
<1>4. s.book.orderMap[id] = m
  BY DEF Findable
<1>5. /\ qty \in Nat /\ qty <= maker.quantity /\ s.remaining - qty \in Nat
      /\ qty = maker.quantity \/ s.remaining - qty = 0
  BY <1>3, SmallerOK
<1>6. /\ d.book = DecreaseOrderQuantity(c, taker.id, qty)
      /\ d.remaining = s.remaining - qty
  BY DEF ExecuteTradeWith
<1> HIDE DEF d, qty
<1>7. /\ Findable(c) /\ SameOrders(s.book, c)
      /\ c.linked = IF qty = maker.quantity THEN s.book.linked \ {m} ELSE s.book.linked
      /\ \A x \in DOMAIN s.book.orders : x # m => c.orders[x].quantity = s.book.orders[x].quantity
  <2> DEFINE b == s.book
             r == b.orderMap[id]
  <2>1. Findable(b) /\ id \in Ids /\ r \in b.linked /\ qty \in Nat /\ qty <= b.orders[r].quantity
    BY <1>3, <1>4, <1>5
  <2> HIDE DEF id, b
  <2>2. /\ Findable(DecreaseOrderQuantity(b, id, qty))
        /\ SameOrders(b, DecreaseOrderQuantity(b, id, qty))
        /\ DecreaseOrderQuantity(b, id, qty).linked =
                IF qty = b.orders[r].quantity THEN b.linked \ {r} ELSE b.linked
        /\ \A x \in DOMAIN b.orders :
              x # r => DecreaseOrderQuantity(b, id, qty).orders[x].quantity = b.orders[x].quantity
    BY ONLY <2>1, FindableDecrease
  <2>3. r = m
    BY <1>4 DEF b
  <2> HIDE DEF r
  <2> QED  BY <2>2, <2>3 DEF b
<1>12. ASSUME Ledger(s.book) PROVE Ledger(c)
  <2> HIDE DEF id
  <2>1. s.book.orderMap[id] # NoOrder /\ qty <= s.book.orders[s.book.orderMap[id]].quantity
    BY <1>1, <1>4, <1>5
  <2> QED  BY ONLY <1>3, <1>5, <1>12, <2>1, LedgerDecrease DEF c
<1>8. c.orderMap[taker.id] = NoOrder
  <2>1. BookOK(s.book)  BY DEF Findable
  <2>2. c.orderMap[taker.id] = NoOrder \/ c.orderMap[taker.id] = s.book.orderMap[taker.id]
    BY <1>3, <1>5, <2>1, DecreaseType, SMTT(30) DEF Unindexed
  <2> QED  BY <2>2 DEF Unindexed
<1> HIDE DEF c
<1>9. d.book = c
  BY <1>6, <1>8, DecreasesNothing
<1> HIDE DEF id, maker
<1>10. d.remaining > 0 => qty = maker.quantity
  BY <1>5, <1>6
<1>11. /\ Findable(d.book)
       /\ Ledger(s.book) => Ledger(d.book)
       /\ SameOrders(s.book, d.book)
       /\ Unindexed(d.book, taker)
       /\ d.book.linked = s.book.linked \/ d.book.linked = s.book.linked \ {m}
       /\ d.remaining > 0 => d.book.linked = s.book.linked \ {m}
       /\ \A x \in DOMAIN s.book.orders :
               x # m => d.book.orders[x].quantity = s.book.orders[x].quantity
  BY <1>7, <1>12, <1>8, <1>9, <1>10 DEF Unindexed
<1> QED  BY <1>11 DEF d

----------------------------------------------------------------------------
(* The loop *)

LEMMA TurnLoop ==
  ASSUME NEW b, NEW s, Loop(b, s), NEW taker, taker.id \in Ids, taker.side \in Sides
  PROVE  Loop(b, Turn(s, taker))
<1>1. CASE Filled(s, taker)
  BY <1>1 DEF Turn
<1>2. CASE ~Filled(s, taker)
  <2>1. First(s.book, Eligible(s.book, taker)) \in s.book.linked
    BY <1>2, FirstEligible DEF Filled, HasMatchingOrders, Loop
  <2> QED  BY <1>2, <2>1, TradeLoop DEF Turn
<1> QED  BY <1>1, <1>2

LEMMA TurnsLoop ==
  ASSUME NEW b, NEW s, Loop(b, s), NEW taker, taker.id \in Ids, taker.side \in Sides,
         NEW n \in Nat
  PROVE  Loop(b, Turns(s, taker, n))
<1> DEFINE T == {k \in Nat : Loop(b, Turns(s, taker, k))}
<1>1. 0 \in T
  BY TurnsByTurn
<1>2. ASSUME NEW k \in Nat, k \in T PROVE k + 1 \in T
  BY <1>2, TurnsByTurn, TurnLoop
<1>3. n \in T
  <2> HIDE DEF T
  <2> QED  BY <1>1, <1>2, SetOfAllNat
<1> QED  BY <1>3

\* Every turn but the last takes an order out of the book: after n turns either
\* the loop is over or n orders are gone.
Progress(b, s, taker, n) ==
    /\ Findable(s.book) /\ (Ledger(b) => Ledger(s.book)) /\ Unindexed(s.book, taker)
    /\ SameOrders(b, s.book) /\ s.book.linked \subseteq b.linked
    /\ s.remaining \in Nat
    /\ \/ Filled(s, taker)
       \/ Cardinality(s.book.linked) + n <= Cardinality(b.linked)
    /\ \A x \in DOMAIN b.orders \ b.linked :
          s.book.orders[x].quantity = b.orders[x].quantity

LEMMA LinkedFinite ==
  ASSUME NEW b, BookOK(b)
  PROVE  IsFiniteSet(b.linked) /\ Cardinality(b.linked) \in Nat
<1>1. b.linked \subseteq 1 .. Len(b.orders) /\ Len(b.orders) \in Nat
  BY OrdersDomain DEF BookOK
<1>2. IsFiniteSet(1 .. Len(b.orders))
  BY <1>1, FS_Interval
<1>3. IsFiniteSet(b.linked)
  BY <1>1, <1>2, FS_Subset
<1> QED  BY <1>3, FS_CardinalityType

LEMMA TurnProgress ==
  ASSUME NEW b, BookOK(b), NEW taker, taker.side \in Sides, NEW n \in Nat,
         NEW s, Progress(b, s, taker, n)
  PROVE  Progress(b, Turn(s, taker), taker, n + 1)
<1> DEFINE m == First(s.book, Eligible(s.book, taker))
           d == ExecuteTradeWith(s, m, taker)
<1>1. CASE Filled(s, taker)
  BY <1>1 DEF Turn, Progress
<1>2. CASE ~Filled(s, taker)
  <2>1. m \in s.book.linked
    BY <1>2, FirstEligible DEF Filled, HasMatchingOrders, Progress, Findable
  <2>2. Turn(s, taker) = d
    BY <1>2 DEF Turn
  <2> HIDE DEF m
  <2>3. /\ Findable(d.book) /\ (Ledger(s.book) => Ledger(d.book))
        /\ SameOrders(s.book, d.book) /\ Unindexed(d.book, taker)
        /\ d.book.linked = s.book.linked \/ d.book.linked = s.book.linked \ {m}
        /\ d.remaining > 0 => d.book.linked = s.book.linked \ {m}
        /\ \A x \in DOMAIN s.book.orders :
               x # m => d.book.orders[x].quantity = s.book.orders[x].quantity
    <3>1. Findable(s.book) /\ s.remaining \in Nat /\ Unindexed(s.book, taker)
      BY DEF Progress
    <3> QED  BY <2>1, <3>1, TradeLedger
  <2>4. d.remaining \in Nat
    <3>1. m \in DOMAIN s.book.orders
      BY <2>1 DEF Progress, Findable, BookOK
    <3>2. s.book.orders[m] \in Order
      BY <3>1, OrdersDomain DEF Progress, Findable, BookOK
    <3>3. s.book.orders[m].quantity \in Nat
      BY <3>2 DEF Order
    <3> QED  BY <3>3, SmallerOK DEF ExecuteTradeWith, Progress
  <2>5. Filled(d, taker) \/ Cardinality(d.book.linked) + (n + 1) <= Cardinality(b.linked)
    <3>1. CASE d.remaining = 0
      BY <3>1 DEF Filled
    <3>2. CASE d.remaining # 0
      <4>1. d.book.linked = s.book.linked \ {m}
        BY <2>3, <2>4, <3>2
      <4>2. IsFiniteSet(s.book.linked) /\ Cardinality(s.book.linked) \in Nat
        BY LinkedFinite DEF Progress, Findable
      <4>3. Cardinality(s.book.linked \ {m}) = Cardinality(s.book.linked) - 1
        BY <2>1, <4>2, FS_RemoveElement
      <4>4. Cardinality(b.linked) \in Nat
        BY LinkedFinite
      <4>5. Cardinality(s.book.linked) + n <= Cardinality(b.linked)
        BY <1>2 DEF Progress
      <4> QED  BY <4>1, <4>2, <4>3, <4>4, <4>5
    <3> QED  BY <3>1, <3>2
  <2>6. SameOrders(b, d.book)
    BY <2>3 DEF Progress, SameOrders
  <2>7. d.book.linked \subseteq b.linked
    BY <2>3 DEF Progress
  <2>8. ASSUME NEW x \in DOMAIN b.orders \ b.linked
        PROVE  d.book.orders[x].quantity = b.orders[x].quantity
    <3>1. x # m /\ x \in DOMAIN s.book.orders
      BY <2>1 DEF Progress, SameOrders
    <3>2. d.book.orders[x].quantity = s.book.orders[x].quantity
      BY <2>3, <3>1
    <3> QED  BY <3>2 DEF Progress
  <2> HIDE DEF d
  <2> QED  BY <2>2, <2>3, <2>4, <2>5, <2>6, <2>7, <2>8 DEF Progress
<1> QED  BY <1>1, <1>2

\* The loop runs until it has nothing more to do.
LEMMA LoopEnds ==
  ASSUME NEW s, Findable(s.book), s.remaining \in Nat,
         NEW taker, Unindexed(s.book, taker), taker.side \in Sides
  PROVE  LET d == Turns(s, taker, Cardinality(s.book.linked)) IN
         /\ Progress(s.book, d, taker, Cardinality(s.book.linked))
         /\ Filled(d, taker)
<1> DEFINE b == s.book
           size == Cardinality(b.linked)
           T == {k \in Nat : Progress(b, Turns(s, taker, k), taker, k)}
<1>1. BookOK(b) /\ size \in Nat
  BY LinkedFinite DEF Findable
<1>2. 0 \in T
  BY <1>1, TurnsByTurn DEF Progress, SameOrders
<1>3. ASSUME NEW k \in Nat, k \in T PROVE k + 1 \in T
  <2>1. Progress(b, Turn(Turns(s, taker, k), taker), taker, k + 1)
    BY <1>1, <1>3, TurnProgress
  <2> QED  BY <2>1, TurnsByTurn
<1>4. size \in T
  <2> HIDE DEF T, size
  <2> QED  BY <1>1, <1>2, <1>3, SetOfAllNat
<1> DEFINE d == Turns(s, taker, size)
<1>5. Progress(b, d, taker, size)
  BY <1>4
<1> HIDE DEF d
<1>6. Filled(d, taker)
  <2> SUFFICES ASSUME ~Filled(d, taker) PROVE FALSE
    OBVIOUS
  <2>1. IsFiniteSet(d.book.linked) /\ Cardinality(d.book.linked) \in Nat
    BY <1>5, LinkedFinite DEF Progress, Findable
  <2>2. Cardinality(d.book.linked) + size <= size
    BY <1>5 DEF Progress
  <2>3. Cardinality(d.book.linked) = 0
    <3> HIDE DEF size
    <3> QED  BY <1>1, <2>1, <2>2
  <2>4. d.book.linked = {}
    BY <2>1, <2>3, FS_EmptySet
  <2> QED  BY <2>4 DEF Filled, HasMatchingOrders, Eligible
<1> QED  BY <1>5, <1>6 DEF d

----------------------------------------------------------------------------
(* The whole call *)

\* c has the order objects of b, up to their quantities, and one of the id of o.
OneMore(b, o, c) ==
    /\ DOMAIN c.orders = 1 .. Len(b.orders) + 1
    /\ c.orders[Len(b.orders) + 1].id = o.id
    /\ \A r \in DOMAIN b.orders : c.orders[r].id = b.orders[r].id

LEMMA FewerOwnIds ==
  ASSUME NEW b, BookOK(b), OwnIds(b), NEW c, SameOrders(b, c),
         \A i \in Ids : c.orderMap[i] = NoOrder \/ c.orderMap[i] = b.orderMap[i]
  PROVE  OwnIds(c)
BY DEF BookOK, OwnIds, SameOrders

LEMMA RestOK ==
  ASSUME NEW b, BookOK(b), OwnIds(b), NEW s, Loop(b, s), NEW t \in DOMAIN b.orders
  PROVE  /\ BookOK(Rest(s, t)) /\ OwnIds(Rest(s, t))
         /\ DOMAIN Rest(s, t).orders = DOMAIN b.orders
         /\ \A r \in DOMAIN b.orders : Rest(s, t).orders[r].id = b.orders[r].id
<1>1. BookOK(s.book) /\ SameOrders(b, s.book) /\ OwnIds(s.book) /\ t \in DOMAIN s.book.orders
  BY FewerOwnIds DEF Loop, SameOrders
<1>2. CASE ~(s.book.orders[t].type = "LIMIT" /\ s.remaining > 0)
  BY <1>1, <1>2 DEF Rest, SameOrders
<1>3. CASE s.book.orders[t].type = "LIMIT" /\ s.remaining > 0
  <2> DEFINE x == [s.book EXCEPT !.orders[t].quantity = s.remaining]
             c == AddOrder(x, t)
  <2>1. BookOK(x) /\ SameOrders(s.book, x) /\ x.orderMap = s.book.orderMap
    <3>1. s.remaining \in Nat  BY DEF Loop
    <3> QED  BY <1>1, <3>1, SetQuantityOK
  <2>2. Rest(s, t) = c
    BY <1>3 DEF Rest
  <2> HIDE DEF x
  <2>3. x.orders[t].type = "LIMIT" /\ t \in DOMAIN x.orders
    BY <1>1, <1>3, <2>1 DEF SameOrders
  <2>4. /\ BookOK(c) /\ c.orders = x.orders
        /\ c.orderMap = [x.orderMap EXCEPT ![x.orders[t].id] = t]
    BY <2>1, <2>3, AddOrderOK
  <2> HIDE DEF c
  <2>5. OwnIds(x)
    BY <1>1, <2>1, FewerOwnIds
  <2>6. x.orderMap \in [Ids -> Nat]
    BY <2>1 DEF BookOK, Book
  <2>7. OwnIds(c)
    BY <2>4, <2>5, <2>6 DEF OwnIds
  <2> QED  BY <1>1, <2>1, <2>2, <2>4, <2>7 DEF SameOrders
<1> QED  BY <1>2, <1>3

\* What processOrder does to any book, whoever's ids are in it.
LEMMA ProcessOrderOK ==
  ASSUME NEW b, BookOK(b), OwnIds(b), NEW o \in Order, o.type = "LIMIT" => o.price \in Prices
  PROVE  LET d == ProcessOrder(b, o) IN
         /\ BookOK(d.book) /\ OwnIds(d.book)
         /\ OneMore(b, o, d.book)
         /\ d.trades \in Seq(PricedTrade)
<1> DEFINE c == NewOrder(b, o)
           t == Len(b.orders) + 1
           s == [book |-> c, remaining |-> o.quantity, trades |-> << >>]
           done == Fill(c, o, o.quantity)
<1>1. /\ BookOK(c) /\ c.linked = b.linked /\ c.orderMap = b.orderMap
      /\ DOMAIN c.orders = 1 .. t /\ c.orders[t] = o
      /\ \A r \in DOMAIN b.orders : c.orders[r] = b.orders[r]
  BY NewOrderOK
<1>2. DOMAIN b.orders = 1 .. Len(b.orders) /\ Len(b.orders) \in Nat
  BY OrdersDomain DEF BookOK
<1>3. o.id \in Ids /\ o.side \in Sides /\ o.quantity \in Nat
  BY DEF Order
<1>4. OwnIds(c)
  BY <1>1 DEF OwnIds, BookOK
<1>5. OneMore(b, o, c)
  BY <1>1 DEF OneMore
<1> HIDE DEF c
<1>6. Loop(c, s)
  BY <1>1, <1>3 DEF Loop, SameOrders
<1>7. Cardinality(c.linked) \in Nat
  BY <1>1, LinkedFinite
<1>8. Loop(c, done)
  BY <1>3, <1>6, <1>7, TurnsLoop DEF Fill
<1> HIDE DEF done
<1>9. t \in DOMAIN c.orders
  BY <1>1, <1>2
<1> HIDE DEF t
<1>10. /\ BookOK(Rest(done, t)) /\ OwnIds(Rest(done, t)) /\ OneMore(b, o, Rest(done, t))
  <2>1. /\ BookOK(Rest(done, t)) /\ OwnIds(Rest(done, t))
        /\ DOMAIN Rest(done, t).orders = DOMAIN c.orders
        /\ \A r \in DOMAIN c.orders : Rest(done, t).orders[r].id = c.orders[r].id
    BY <1>1, <1>4, <1>8, <1>9, RestOK
  <2> QED  BY <1>1, <1>2, <1>9, <2>1, SMTT(30) DEF OneMore, t
<1>11. \/ ProcessOrder(b, o) = [book |-> c, trades |-> << >>]
       \/ ProcessOrder(b, o) = [book |-> Rest(done, t), trades |-> done.trades]
  BY DEF ProcessOrder, c, t, done
<1>12. done.trades \in Seq(PricedTrade) /\ << >> \in Seq(PricedTrade)
  BY <1>8 DEF Loop
<1>13. CASE ProcessOrder(b, o) = [book |-> c, trades |-> << >>]
  BY <1>1, <1>4, <1>5, <1>12, <1>13
<1>14. CASE ProcessOrder(b, o) = [book |-> Rest(done, t), trades |-> done.trades]
  BY <1>10, <1>12, <1>14
<1> QED  BY <1>11, <1>13, <1>14

\* A book without some of its links is no more crossed than it was.
LEMMA FewerNotCrossed ==
  ASSUME NEW b, BookOK(b), NotCrossed(b), NEW c, c.linked \subseteq b.linked,
         \A r \in b.linked : /\ c.orders[r].side = b.orders[r].side
                             /\ c.orders[r].price = b.orders[r].price
  PROVE  NotCrossed(c)
BY DEF NotCrossed

\* An order that nothing in the book can trade with rests without crossing it.
LEMMA RestsNotCrossed ==
  ASSUME NEW b, BookOK(b), NotCrossed(b), NEW t \in DOMAIN b.orders,
         b.orders[t].type = "LIMIT",
         NEW o, o.side = b.orders[t].side, o.type = "LIMIT", o.price = b.orders[t].price,
         Eligible(b, o) = {},
         NEW c, c.linked = b.linked \cup {t},
         \A r \in DOMAIN b.orders : /\ c.orders[r].side = b.orders[r].side
                                   /\ c.orders[r].price = b.orders[r].price
  PROVE  NotCrossed(c)
<1>1. \A r \in b.linked :
         b.orders[r].side = Opposite(o.side) => ~PriceAccepts(o, b.orders[r].price)
  BY DEF Eligible
<1>2. /\ o.price \in Nat
      /\ \A r \in b.linked : r \in DOMAIN b.orders /\ b.orders[r].price \in Nat
  BY PricesAssumption DEF BookOK
<1>3. ASSUME NEW x \in c.linked, NEW y \in c.linked,
             c.orders[x].side = "BUY", c.orders[y].side = "SELL"
      PROVE  c.orders[x].price < c.orders[y].price
  <2>1. x \in DOMAIN b.orders /\ y \in DOMAIN b.orders
    BY <1>2
  <2>2. b.orders[x].side = "BUY" /\ b.orders[y].side = "SELL"
    BY <1>3, <2>1
  <2>3. CASE x \in b.linked /\ y \in b.linked
    BY <2>1, <2>2, <2>3 DEF NotCrossed
  <2>4. CASE x = t /\ y \in b.linked
    BY <1>1, <1>2, <2>1, <2>2, <2>4 DEF PriceAccepts, Opposite
  <2>5. CASE y = t /\ x \in b.linked
    BY <1>1, <1>2, <2>1, <2>2, <2>5 DEF PriceAccepts, Opposite
  <2>6. CASE x = t /\ y = t
    BY <2>2, <2>6
  <2> QED  BY <2>3, <2>4, <2>5, <2>6
<1> QED  BY <1>3 DEF NotCrossed

\* What processOrder does to a book when the order's id is new.
LEMMA ProcessOrderFindable ==
  ASSUME NEW b, Findable(b), NotCrossed(b),
         NEW o \in Order, o.type = "LIMIT" => o.price \in Prices,
         \A r \in DOMAIN b.orders : b.orders[r].id # o.id
  PROVE  /\ Findable(ProcessOrder(b, o).book) /\ NotCrossed(ProcessOrder(b, o).book)
         /\ Ledger(b) => Ledger(ProcessOrder(b, o).book)
<1> DEFINE c == NewOrder(b, o)
           t == Len(b.orders) + 1
           size == Cardinality(c.linked)
           s == [book |-> c, remaining |-> o.quantity, trades |-> << >>]
           done == Fill(c, o, o.quantity)
<1>1. /\ BookOK(c) /\ c.linked = b.linked /\ c.orderMap = b.orderMap
      /\ DOMAIN c.orders = 1 .. t /\ c.orders[t] = o
      /\ \A r \in DOMAIN b.orders : c.orders[r] = b.orders[r]
  BY NewOrderOK DEF Findable
<1>2. /\ DOMAIN b.orders = 1 .. Len(b.orders) /\ Len(b.orders) \in Nat
      /\ b.linked \subseteq DOMAIN b.orders
  BY OrdersDomain DEF Findable, BookOK
<1>3. o.id \in Ids /\ o.side \in Sides /\ o.quantity \in Nat
  BY DEF Order
<1>4. Findable(c) /\ (Ledger(b) => Ledger(c))
  BY FindableNewOrder, LedgerNewOrder
<1>5. Unindexed(c, o)
  BY <1>1, <1>2, <1>3 DEF Findable, BookOK, OwnIds, Unindexed
<1>6. t \in DOMAIN c.orders /\ t \notin c.linked
  BY <1>1, <1>2
<1> HIDE DEF c, t
<1>7. NotCrossed(c)
  BY <1>1, <1>2, FewerNotCrossed DEF Findable
<1>8. Progress(c, done, o, size) /\ Filled(done, o)
  BY <1>3, <1>4, <1>5, LoopEnds DEF Fill
<1> HIDE DEF done
<1>9. /\ Findable(done.book) /\ (Ledger(c) => Ledger(done.book))
      /\ BookOK(done.book) /\ SameOrders(c, done.book)
      /\ done.book.linked \subseteq c.linked /\ done.remaining \in Nat
  BY <1>8 DEF Progress, Findable
<1>10. NotCrossed(done.book)
  BY <1>1, <1>2, <1>6, <1>7, <1>9, FewerNotCrossed, ZenonT(30) DEF SameOrders, BookOK
<1>11. Findable(Rest(done, t)) /\ (Ledger(c) => Ledger(Rest(done, t))) /\ NotCrossed(Rest(done, t))
  <2>1. CASE ~(done.book.orders[t].type = "LIMIT" /\ done.remaining > 0)
    BY <1>9, <1>10, <2>1 DEF Rest
  <2>2. CASE done.book.orders[t].type = "LIMIT" /\ done.remaining > 0
    <3> DEFINE x == [done.book EXCEPT !.orders[t].quantity = done.remaining]
               new == AddOrder(x, t)
    <3>1. t \in DOMAIN done.book.orders /\ t \notin done.book.linked
      BY <1>6, <1>9 DEF SameOrders
    <3>2. /\ BookOK(x) /\ SameOrders(done.book, x) /\ x.linked = done.book.linked
          /\ \A r \in DOMAIN done.book.orders :
               x.orders[r].quantity = IF r = t THEN done.remaining
                                      ELSE done.book.orders[r].quantity
      BY <1>9, <3>1, SetQuantityOK
    <3>3. Ledger(c) => Ledger(x)
      BY <1>9, <3>1, LedgerSetQuantity
    <3>13. Findable(x)
      <4>1. UniqueIds(x)
        BY <1>9, <3>2 DEF Findable, UniqueIds, SameOrders
      <4>2. x.orderMap = done.book.orderMap
        OBVIOUS
      <4> QED  BY <1>9, <3>2, <4>1, <4>2, FindableSameLinks DEF SameOrders
    <3>4. Rest(done, t) = new
      BY <2>2 DEF Rest
    <3> HIDE DEF x
    <3>5. /\ t \in DOMAIN x.orders /\ t \notin x.linked /\ x.orders[t].type = "LIMIT"
          /\ x.orders[t].quantity > 0
      <4>1. t \in DOMAIN x.orders /\ x.orders[t].type = done.book.orders[t].type
        BY ONLY <3>1, <3>2 DEF SameOrders
      <4>2. x.orders[t].quantity = done.remaining
        BY ONLY <3>1, <3>2
      <4> QED  BY ONLY <2>2, <3>1, <3>2, <4>1, <4>2
    <3>6. Findable(new) /\ (Ledger(c) => Ledger(new))
      BY <3>3, <3>5, <3>13, FindableAddOrder, LedgerAddOrder
    <3>7. new.orders = x.orders /\ new.linked = x.linked \cup {t}
      <4>1. BookOK(x) /\ t \in DOMAIN x.orders /\ x.orders[t].type = "LIMIT"
        BY ONLY <3>2, <3>5
      <4> QED  BY ONLY <4>1, AddOrderOK
    <3> HIDE DEF new
    <3>8. o.side = done.book.orders[t].side /\ o.price = done.book.orders[t].price
          /\ o.type = "LIMIT"
      BY <1>1, <1>6, <1>9, <2>2 DEF SameOrders
    <3>9. Eligible(done.book, o) = {}
      BY <1>8, <2>2 DEF Filled, HasMatchingOrders
    <3>10. \A r \in DOMAIN done.book.orders :
              /\ new.orders[r].side = done.book.orders[r].side
              /\ new.orders[r].price = done.book.orders[r].price
      BY <3>2, <3>7 DEF SameOrders
    <3>11. new.linked = done.book.linked \cup {t}
      BY <3>2, <3>7
    <3>12. NotCrossed(new)
      BY <1>9, <1>10, <2>2, <3>1, <3>8, <3>9, <3>10, <3>11, RestsNotCrossed
    <3> QED  BY <3>4, <3>6, <3>12
  <2> QED  BY <2>1, <2>2
<1>12. \/ ProcessOrder(b, o).book = c
       \/ ProcessOrder(b, o).book = Rest(done, t)
  BY DEF ProcessOrder, c, t, done
<1> QED  BY <1>4, <1>7, <1>11, <1>12

=============================================================================
