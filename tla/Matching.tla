----------------------------- MODULE Matching ------------------------------
(***************************************************************************)
(* One symbol's order book and the calls that change it: processOrder of   *)
(* MatchingAlgorithm (src/src/engine/matching_algorithm.cpp), step by step, *)
(* and OrderBook's cancelOrder and modifyOrder.                            *)
(*                                                                         *)
(* processOrder holds the book's recursive mutex from its first line to    *)
(* its return, so no other call starts before the one in progress is back  *)
(* in phase "idle".  Inside the call the matching loop alternates between   *)
(* collecting a vector of orders (getMatchingOrders) and trading with the  *)
(* orders of that vector one by one (executeTrade), each trade changing    *)
(* the book the vector was read from.                                      *)
(***************************************************************************)
EXTENDS OrderBook

CONSTANTS
    SubmitTypes,    \* the types of the orders the clients send
    Quantities,     \* the quantities of the orders the clients send
    ModifyQtys,     \* the quantities a modify request asks for
    FreshIds,       \* whether clients never use an order id twice
    MaxOrders       \* bound: orders submitted in a behaviour

\* Clients whose requests the code is meant for: it checks neither that an id
\* is new nor that a modify request leaves some quantity.
CarefulClients == FreshIds /\ 0 \notin ModifyQtys

ASSUME InputAssumption ==
    /\ SubmitTypes \subseteq Types
    /\ Quantities \subseteq Nat \ {0}
    /\ ModifyQtys \subseteq Nat
    /\ FreshIds \in BOOLEAN
    /\ MaxOrders \in Nat

VARIABLES
    book,       \* the OrderBook
    call,       \* the processOrder call in progress, or the last one
    trades      \* the vector of trades that call returns

vars == <<book, call, trades>>

\* phase     idle: no call; head: at the loop's condition; collect: in
\*           getMatchingOrders; fill: in the loop over the collected orders
\* taker     the incoming order object
\* remaining remainingQty of the matching loop
\* want      remainingQty of getMatchingOrders
\* todo      the collected orders not traded with yet
Call == [phase : {"idle", "head", "collect", "fill"}, taker : Nat,
         remaining : Nat, want : Int, todo : SUBSET (Nat \ {0})]

NoCall == [phase |-> "idle", taker |-> NoOrder, remaining |-> 0, want |-> 0,
           todo |-> {}]

TypeOK == /\ book \in Book
          /\ book.linked \subseteq DOMAIN book.orders
          /\ \A i \in Ids : book.orderMap[i] \in {NoOrder} \cup DOMAIN book.orders
          /\ call \in Call
          /\ call.taker \in {NoOrder} \cup DOMAIN book.orders
          /\ call.todo \subseteq DOMAIN book.orders
          /\ trades \in Seq(Trade)

Init == book = EmptyBook /\ call = NoCall /\ trades = << >>

Taker == book.orders[call.taker]

----------------------------------------------------------------------------
(* Calls *)

\* The orders a client may send: a positive quantity, and a price if the type is
\* LIMIT (listener.cpp asks for no more).  The price of a MARKET order is read by
\* nobody, so 0 stands for every one.
Submittable ==
    {o \in [id : Ids, side : Sides, type : SubmitTypes,
            price : Prices \cup {0}, quantity : Quantities] :
        /\ o.type = "LIMIT" => o.price # 0
        /\ o.type = "MARKET" => o.price = 0}

\* processOrder is called with a new order object.
Submit(o) ==
    /\ call.phase = "idle"
    /\ Len(book.orders) < MaxOrders
    /\ FreshIds => \A r \in DOMAIN book.orders : book.orders[r].id # o.id
    /\ book' = NewOrder(book, o)
    /\ call' = [phase |-> IF o.type = "FOK" THEN "collect" ELSE "head",
                taker |-> Len(book.orders) + 1, remaining |-> o.quantity,
                want |-> o.quantity, todo |-> {}]
    /\ trades' = << >>

Cancel(id) ==
    /\ call.phase = "idle"
    /\ book.orderMap[id] # NoOrder
    /\ book' = CancelOrder(book, id)
    /\ UNCHANGED <<call, trades>>

Modify(id, q) ==
    /\ call.phase = "idle"
    /\ book.orderMap[id] # NoOrder
    /\ book' = ModifyOrder(book, id, q)
    /\ UNCHANGED <<call, trades>>

----------------------------------------------------------------------------
(* The steps of processOrder *)

\* Mutant of LoopCondition: the loop does not stop at remainingQty = 0.
LoopConditionUnbounded == HasMatchingOrders(book, Taker)

LoopCondition == call.remaining > 0 /\ HasMatchingOrders(book, Taker)

\* Another round of the matching loop: getMatchingOrders starts from the
\* incoming order's own quantity, not from what is left of it.
NextPass ==
    /\ call.phase = "head"
    /\ LoopCondition
    /\ call' = [call EXCEPT !.phase = "collect", !.want = Taker.quantity,
                            !.todo = {}]
    /\ UNCHANGED <<book, trades>>

\* getMatchingOrders appends the next order, best price and earliest first,
\* while it wants more.
Collect(r) ==
    /\ call.phase = "collect"
    /\ call.want > 0
    /\ FirstOf(book, r, Eligible(book, Taker) \ call.todo)
    /\ call' = [call EXCEPT !.want = @ - book.orders[r].quantity,
                            !.todo = @ \cup {r}]
    /\ UNCHANGED <<book, trades>>

\* Mutant of Collected: off by one.
CollectedEarly == call.want <= 1 \/ Eligible(book, Taker) \subseteq call.todo

Collected == call.want <= 0 \/ Eligible(book, Taker) \subseteq call.todo

\* Mutant of BeginFill: processFOKOrder does not compare the quantities.
BeginFillUnchecked ==
    /\ call.phase = "collect"
    /\ Collected
    /\ call' = [call EXCEPT !.phase = "fill"]
    /\ UNCHANGED <<book, trades>>

\* The vector is complete: go and trade.
BeginFill ==
    /\ call.phase = "collect"
    /\ Collected
    /\ Taker.type = "FOK" => call.want <= 0
    /\ call' = [call EXCEPT !.phase = "fill"]
    /\ UNCHANGED <<book, trades>>

\* processFOKOrder: the collected orders do not cover the quantity.
KillFOK ==
    /\ call.phase = "collect"
    /\ Collected
    /\ Taker.type = "FOK" /\ call.want > 0
    /\ call' = [call EXCEPT !.phase = "idle"]
    /\ UNCHANGED <<book, trades>>

\* executeTrade with the next collected order: both orders are decreased by
\* id, first the maker, then the taker.
ExecuteTrade(r) ==
    LET qty   == Smaller(call.remaining, book.orders[r].quantity)
        maker == book.orders[r]
    IN  /\ call.phase = "fill"
        /\ call.remaining > 0
        /\ FirstOf(book, r, call.todo)
        /\ book' = DecreaseOrderQuantity(
                     DecreaseOrderQuantity(book, maker.id, qty), Taker.id, qty)
        /\ trades' = Append(trades,
                        [price |-> maker.price, quantity |-> qty,
                         makerOrderId |-> maker.id, takerOrderId |-> Taker.id])
        /\ call' = [call EXCEPT !.remaining = @ - qty, !.todo = @ \ {r}]

\* The loop over the vector ends: back to the loop's condition, or out of
\* processFOKOrder, which makes one pass only.
EndPass ==
    /\ call.phase = "fill"
    /\ call.remaining = 0 \/ call.todo = {}
    /\ call' = [call EXCEPT !.todo = {},
                            !.phase = IF Taker.type = "FOK" THEN "idle" ELSE "head"]
    /\ UNCHANGED <<book, trades>>

\* The matching loop ends; what is left of a LIMIT order rests in the book.
Finish ==
    /\ call.phase = "head"
    /\ ~LoopCondition
    /\ call' = [call EXCEPT !.phase = "idle"]
    /\ book' = IF Taker.type = "LIMIT" /\ call.remaining > 0
               THEN AddOrder([book EXCEPT !.orders[call.taker].quantity =
                                                  call.remaining], call.taker)
               ELSE book
    /\ UNCHANGED trades

InCall == \/ NextPass
          \/ \E r \in book.linked : Collect(r)
          \/ BeginFill
          \/ KillFOK
          \/ \E r \in call.todo : ExecuteTrade(r)
          \/ EndPass
          \/ Finish

Next == \/ \E o \in Submittable : Submit(o)
        \/ \E id \in Ids : Cancel(id)
        \/ \E id \in Ids, q \in ModifyQtys : Modify(id, q)
        \/ InCall

Spec == Init /\ [][Next]_vars

\* A call that has started is run to its end by the thread that made it; no
\* client is obliged to make one.
FairSpec == Spec /\ WF_vars(InCall)

----------------------------------------------------------------------------
(* Properties *)

\* The book is never crossed: every bid is below every ask, also while a call
\* is trading.  addOrder itself would link any order anywhere; what keeps the
\* book uncrossed is the matching loop's exit condition.
Uncrossed == NotCrossed(book)

\* orderMap and the price levels hold the same orders, so a resting order can
\* be cancelled and modified and a cancelled one cannot trade.  (Clients that
\* never reuse an id nor modify to zero.)
BookIndexed == Indexed(book)

\* PriceLevel::totalQuantity, which every best-bid/best-ask answer and every
\* depth update reports, is the sum of what the orders of the level hold: four
\* operations keep it up to date beside the list.  (The same clients.)
LevelTotals == TotalsAddUp(book)

\* No trade-through: at the moment of a trade, no order the taker may trade
\* with offers it a better price than the maker does, or the same price and
\* came earlier, although executeTrade follows a vector collected before.
TradeIsBest ==
    Len(trades') > Len(trades) =>
        \E m \in book.linked :
            /\ book.orders[m].id = trades'[Len(trades')].makerOrderId
            /\ \A r \in Eligible(book, Taker) :
                 LET p == book.orders[r].price
                     q == book.orders[m].price
                 IN  /\ IF Taker.side = "BUY" THEN q <= p ELSE p <= q
                     /\ p = q => m <= r
PriceTimePriority == [][TradeIsBest]_vars

\* A FOK order is filled completely or not at all once processOrder returns.
FillOrKill ==
    call.phase = "idle" /\ call.taker # NoOrder /\ Taker.type = "FOK"
        => \/ call.remaining = 0
           \/ call.remaining = Taker.quantity /\ trades = << >>

\* Linked quantity per side.
Open(side) == OpenQuantity(book, {r \in book.linked : book.orders[r].side = side})

\* A trade takes its quantity out of the makers' side of the book, exactly
\* once, leaves the taker's side alone, and is never for nothing.  (Clients
\* that never reuse an id nor modify to zero.)
TradePaid ==
    Len(trades') > Len(trades) =>
        LET q == trades'[Len(trades')].quantity IN
        /\ q > 0
        /\ Open(Opposite(Taker.side))' = Open(Opposite(Taker.side)) - q
        /\ Open(Taker.side)' = Open(Taker.side)
TradesPaidByMakers == [][TradePaid]_vars

\* When processOrder returns, an order keeps an unfilled quantity only if
\* nothing it could have traded with is left; a FOK order is killed only if
\* the eligible orders together do not cover it.  (The same clients.)
KeepsMatching ==
    call.phase # "idle" /\ call'.phase = "idle" /\ call.remaining > 0 =>
        IF Taker.type = "FOK"
        THEN OpenQuantity(book, Eligible(book, Taker)) < Taker.quantity
        ELSE Eligible(book, Taker) = {}
ExhaustsLiquidity == [][KeepsMatching]_vars

\* A processOrder call returns (its lock on the book is released).
CallReturns == (call.phase # "idle") ~> (call.phase = "idle")

============================================================================
