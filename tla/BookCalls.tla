------------------------------ MODULE BookCalls ------------------------------
(***************************************************************************)
(* What a symbol's book promises to its callers: each call takes effect at *)
(* one instant.  Module Matching, in which processOrder runs in steps,     *)
(* implements this specification.                                          *)
(***************************************************************************)
EXTENDS ProcessOrder

CONSTANTS SubmitTypes, Quantities, ModifyQtys

VARIABLES
    book,       \* the OrderBook
    taker,      \* the order processOrder was last called with
    trades      \* what that call returns

Terms(o) == [id |-> o.id, side |-> o.side, type |-> o.type, price |-> o.price]

Nobody == [id |-> NoOrder]

Init == book = EmptyBook /\ taker = Nobody /\ trades = << >>

\* As in module Matching.
Submittable ==
    {o \in [id : Ids, side : Sides, type : SubmitTypes,
            price : Prices \cup {0}, quantity : Quantities] :
        /\ o.type = "LIMIT" => o.price # 0
        /\ o.type = "MARKET" => o.price = 0}

Submit(o) == /\ taker' = Terms(o)
             /\ LET done == ProcessOrder(book, o)
                IN  book' = done.book /\ trades' = done.trades

Cancel(id) == /\ book.orderMap[id] # NoOrder
              /\ book' = CancelOrder(book, id)
              /\ UNCHANGED <<taker, trades>>

Modify(id, q) == /\ book.orderMap[id] # NoOrder
                 /\ book' = ModifyOrder(book, id, q)
                 /\ UNCHANGED <<taker, trades>>

Next == \/ \E o \in Submittable : Submit(o)
        \/ \E id \in Ids : Cancel(id)
        \/ \E id \in Ids, q \in ModifyQtys : Modify(id, q)

Spec == Init /\ [][Next]_<<book, taker, trades>>

==============================================================================
