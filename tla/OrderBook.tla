----------------------------- MODULE OrderBook -----------------------------
(***************************************************************************)
(* The limit order book of one symbol (src/include/engine/order_book.h,    *)
(* src/src/engine/order_book.cpp): the book as a value and its operations  *)
(* as operators from a book to the next one.                               *)
(*                                                                         *)
(* An order object is known by its reference, its position in `orders',    *)
(* which is also its time of arrival: a price level's std::list only grows *)
(* by push_back and only shrinks by removal, so the references linked in a *)
(* level, in increasing order, are that list.  A level exists exactly when *)
(* some order is linked in it (every erase in the code keeps it so), hence *)
(* the levels of both std::maps are one set, `linked'; `total' is the      *)
(* PriceLevel::totalQuantity the code maintains beside the list, 0 for a   *)
(* level that does not exist.                                              *)
(***************************************************************************)
EXTENDS Integers, Sequences, FiniteSets

CONSTANTS
    Ids,        \* order ids, chosen by the clients
    Prices      \* limit prices; doubles in the code, here positive integers

ASSUME PricesAssumption == Prices \subseteq Nat \ {0}

Sides == {"BUY", "SELL"}
Types == {"MARKET", "LIMIT", "IOC", "FOK"}

\* A MARKET order carries the price 0 (it is never linked in a level).
Order == [id : Ids, side : Sides, type : Types,
          price : Prices \cup {0}, quantity : Nat]

\* What executeTrade reports.
Trade == [price : Nat, quantity : Nat, makerOrderId : Ids, takerOrderId : Ids]

Smaller(a, b) == IF a < b THEN a ELSE b

Opposite(side) == IF side = "BUY" THEN "SELL" ELSE "BUY"

NoOrder == 0    \* an id that is not a key of orderMap

Book == [orders   : Seq(Order),
         linked   : SUBSET (Nat \ {0}),
         total    : [Sides -> [Prices -> Int]],
         orderMap : [Ids -> Nat]]

EmptyBook == [orders   |-> << >>,
              linked   |-> {},
              total    |-> [s \in Sides |-> [p \in Prices |-> 0]],
              orderMap |-> [i \in Ids |-> NoOrder]]

\* The order objects in the list of one price level.
Level(b, side, price) ==
    {r \in b.linked : b.orders[r].side = side /\ b.orders[r].price = price}

\* The price level the order r belongs to, whether or not r is linked in it.
LevelOf(b, r) == Level(b, b.orders[r].side, b.orders[r].price)

----------------------------------------------------------------------------
(* Operations that change the book *)

\* A new order object, not in the book yet (std::make_shared<Order>).
NewOrder(b, o) == [b EXCEPT !.orders = Append(@, o)]

\* addOrder: link the order object r at the back of its level, and index it;
\* an id that is already indexed is overwritten.
AddOrder(b, r) ==
    LET o == b.orders[r] IN
    [b EXCEPT !.linked = @ \cup {r},
              !.total[o.side][o.price] = @ + o.quantity,
              !.orderMap[o.id] = r]

\* Mutant of ModifyOrder: the old quantity stays in the level's total.
ModifyOrderKeepsOld(b, id, newQuantity) ==
    LET r == b.orderMap[id]
        o == b.orders[r]
    IN  IF LevelOf(b, r) = {} THEN b
        ELSE [b EXCEPT !.orders[r].quantity = newQuantity,
                       !.total[o.side][o.price] = @ + newQuantity]

\* modifyOrder, for an id that is indexed (it throws for any other): the level
\* disappears, with every order linked in it, once its total is not positive.
ModifyOrder(b, id, newQuantity) ==
    LET r     == b.orderMap[id]
        o     == b.orders[r]
        total == b.total[o.side][o.price] - o.quantity + newQuantity
    IN  IF LevelOf(b, r) = {} THEN b
        ELSE [b EXCEPT
                !.orders[r].quantity = newQuantity,
                !.total[o.side][o.price] = IF total <= 0 THEN 0 ELSE total,
                !.linked = IF total <= 0 THEN @ \ LevelOf(b, r) ELSE @]

\* Mutant of CancelOrder: the id stays in orderMap.
CancelOrderKeepsIndex(b, id) ==
    LET o    == b.orders[b.orderMap[id]]
        left == LevelOf(b, b.orderMap[id]) \ {b.orderMap[id]}
    IN  [b EXCEPT !.linked = @ \ {b.orderMap[id]},
                  !.total[o.side][o.price] = IF left = {} THEN 0 ELSE @ - o.quantity]

\* cancelOrder, for an id that is indexed (it returns false for any other).
CancelOrder(b, id) ==
    LET r    == b.orderMap[id]
        o    == b.orders[r]
        gone == {x \in LevelOf(b, r) : b.orders[x].id = id}
    IN  [b EXCEPT
            !.linked = @ \ gone,
            !.total[o.side][o.price] =
                IF LevelOf(b, r) \subseteq gone THEN 0 ELSE @ - o.quantity,
            !.orderMap[id] = NoOrder]

\* Mutant of DecreaseOrderQuantity: a used-up order stays in its level.
DecreaseOrderQuantityKeepsLink(b, id, amount) ==
    LET r == b.orderMap[id]
        o == b.orders[r]
    IN  IF r = NoOrder THEN b
        ELSE IF amount < o.quantity
        THEN [b EXCEPT !.orders[r].quantity = @ - amount,
                       !.total[o.side][o.price] = @ - amount]
        ELSE [b EXCEPT !.orderMap[id] = NoOrder]

\* What is left of the order r when amount is taken from it.
QuantityLeft(b, r, amount) ==
    IF b.orders[r].quantity <= amount THEN 0 ELSE b.orders[r].quantity - amount

\* The orders that leave their level then: those with the id of r, once r is
\* used up.
GoneBy(b, r, id, amount) ==
    IF QuantityLeft(b, r, amount) > 0 THEN {} ELSE {x \in LevelOf(b, r) : b.orders[x].id = id}

\* The total of their level then, 0 when the level is erased.
TotalBy(b, r, id, amount) ==
    LET o     == b.orders[r]
        total == b.total[o.side][o.price] - (o.quantity - QuantityLeft(b, r, amount))
    IN  IF LevelOf(b, r) \subseteq GoneBy(b, r, id, amount) \/ total < 0 THEN 0 ELSE total

\* What decreaseOrderQuantity does to an order that is indexed.  An order that
\* is used up leaves the book and the index, its own quantity field untouched.
DecreaseIndexed(b, id, amount) ==
    LET r    == b.orderMap[id]
        o    == b.orders[r]
        left == QuantityLeft(b, r, amount)
    IN  [b EXCEPT
            !.linked = @ \ GoneBy(b, r, id, amount),
            !.total[o.side][o.price] = TotalBy(b, r, id, amount),
            !.orders[r].quantity = IF left > 0 THEN left ELSE @,
            !.orderMap[id] = IF left > 0 THEN @ ELSE NoOrder]

\* decreaseOrderQuantity: an id that is not indexed is passed over.
DecreaseOrderQuantity(b, id, amount) ==
    IF b.orderMap[id] = NoOrder THEN b ELSE DecreaseIndexed(b, id, amount)

----------------------------------------------------------------------------
(* Queries *)

\* Mutant of PriceAccepts: equal prices do not match.
PriceAcceptsStrict(o, price) ==
    \/ o.type = "MARKET"
    \/ o.side = "BUY"  /\ price < o.price
    \/ o.side = "SELL" /\ price > o.price

\* Whether an order of this side, type and price may trade at a price of the
\* opposite side: the price test of getMatchingOrders and hasMatchingOrders.
PriceAccepts(o, price) ==
    \/ o.type = "MARKET"
    \/ o.side = "BUY"  /\ price <= o.price
    \/ o.side = "SELL" /\ price >= o.price

\* The linked orders the incoming order o may trade with.
Eligible(b, o) == {r \in b.linked : /\ b.orders[r].side = Opposite(o.side)
                                    /\ PriceAccepts(o, b.orders[r].price)}

\* hasMatchingOrders looks at the best opposite level only, which is eligible
\* whenever some level is.
HasMatchingOrders(b, o) == Eligible(b, o) # {}

\* Mutant of Ahead: the latest order of a level comes first.
AheadLatest(b, r, q) ==
    \/ b.orders[r].side = "BUY"  /\ b.orders[r].price > b.orders[q].price
    \/ b.orders[r].side = "SELL" /\ b.orders[r].price < b.orders[q].price
    \/ b.orders[r].price = b.orders[q].price /\ r > q

\* The order in which getMatchingOrders meets the orders of one side: best
\* price first (std::greater for bids), then the order of the level's list.
Ahead(b, r, q) ==
    \/ b.orders[r].side = "BUY"  /\ b.orders[r].price > b.orders[q].price
    \/ b.orders[r].side = "SELL" /\ b.orders[r].price < b.orders[q].price
    \/ b.orders[r].price = b.orders[q].price /\ r < q

\* r comes before every other order of the set.
FirstOf(b, r, S) == r \in S /\ \A q \in S \ {r} : Ahead(b, r, q)

----------------------------------------------------------------------------
(* What a consistent book is *)

\* orderMap and the price levels hold the same orders: whatever is linked in a
\* level can be found by its id, and whatever can be found by its id is linked
\* in a level.
Indexed(b) ==
    /\ \A r \in b.linked : b.orderMap[b.orders[r].id] = r
    /\ \A i \in Ids : b.orderMap[i] # NoOrder =>
           /\ b.orderMap[i] \in b.linked
           /\ b.orders[b.orderMap[i]].id = i

\* The units of quantity in a set of orders, one member each, so that the sum
\* of their quantities is the cardinality of this set.
Units(b, S) == UNION {{r} \X (1 .. b.orders[r].quantity) : r \in S}

OpenQuantity(b, S) == Cardinality(Units(b, S))

\* PriceLevel::totalQuantity is the sum of the quantities of the level's list.
TotalsAddUp(b) ==
    \A s \in Sides, p \in Prices :
        b.total[s][p] = Cardinality(Units(b, Level(b, s, p)))

\* Every bid is below every ask.
NotCrossed(b) ==
    \A x, y \in b.linked :
        b.orders[x].side = "BUY" /\ b.orders[y].side = "SELL"
            => b.orders[x].price < b.orders[y].price

============================================================================
