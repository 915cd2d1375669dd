---------------------------- MODULE ProcessOrder ----------------------------
(***************************************************************************)
(* MatchingAlgorithm::processOrder (src/src/engine/matching_algorithm.cpp) *)
(* as one step, the way its callers see it: from a book and a new order to *)
(* the next book and the trades.                                           *)
(*                                                                         *)
(* Module Matching models the same function step by step, with its repeated *)
(* passes over vectors of collected orders; that those steps add up to     *)
(* this operator is checked there (MCMatchingAtomic.cfg), for clients that *)
(* do not reuse order ids.                                                 *)
(***************************************************************************)
EXTENDS OrderBook

\* The order of a set that getMatchingOrders would put first.
First(b, S) == CHOOSE r \in S : FirstOf(b, r, S)

\* executeTrade with the maker m, for as much as remains: both orders are
\* decreased by id, first the maker, then the taker.  s holds the book,
\* remainingQty and the trades made so far.
ExecuteTradeWith(s, m, taker) ==
    LET maker == s.book.orders[m]
        qty   == Smaller(s.remaining, maker.quantity)
    IN  [book |-> DecreaseOrderQuantity(
                    DecreaseOrderQuantity(s.book, maker.id, qty), taker.id, qty),
         remaining |-> s.remaining - qty,
         trades |-> Append(s.trades,
                       [price |-> maker.price, quantity |-> qty,
                        makerOrderId |-> maker.id, takerOrderId |-> taker.id])]

\* The matching loop has nothing more to do.
Filled(s, taker) == s.remaining = 0 \/ ~HasMatchingOrders(s.book, taker)

\* The next trade of the matching loop, if there is one.
Turn(s, taker) ==
    IF Filled(s, taker) THEN s
    ELSE ExecuteTradeWith(s, First(s.book, Eligible(s.book, taker)), taker)

\* The matching loop after n trades.
Turns(s, taker, n) ==
    LET after[k \in 0 .. n] == IF k = 0 THEN s ELSE Turn(after[k - 1], taker)
    IN  after[n]

\* The whole loop: every trade but the last takes an order out of the book.
Fill(b, taker, remaining) ==
    Turns([book |-> b, remaining |-> remaining, trades |-> << >>], taker,
          Cardinality(b.linked))

\* processLimitOrder rests what the loop has left of a LIMIT order, the order
\* object t.
Rest(s, t) ==
    IF s.book.orders[t].type = "LIMIT" /\ s.remaining > 0
    THEN AddOrder([s.book EXCEPT !.orders[t].quantity = s.remaining], t)
    ELSE s.book

\* A FOK order trades only if the eligible orders cover it.
ProcessOrder(b, o) ==
    LET t    == Len(b.orders) + 1
        done == Fill(NewOrder(b, o), o, o.quantity)
    IN  IF o.type = "FOK" /\ OpenQuantity(b, Eligible(b, o)) < o.quantity
        THEN [book |-> NewOrder(b, o), trades |-> << >>]
        ELSE [book |-> Rest(done, t), trades |-> done.trades]

=============================================================================
