----------------------------- MODULE AtomicCalls -----------------------------
(***************************************************************************)
(* Matching implements BookCalls: a processOrder call takes effect at the  *)
(* instant it starts.  The auxiliary variable `outcome' is the book and the *)
(* trades as the caller will find them: set when a call starts, to what    *)
(* ProcessOrder says, and compared with what the steps have done when it   *)
(* returns.                                                                *)
(***************************************************************************)
EXTENDS ProcessOrder, Matching

VARIABLE outcome

Found == [book |-> book, trades |-> trades]

AtomicInit == Init /\ outcome = Found

AtomicNext ==
    /\ Next
    /\ outcome' = IF call'.phase = "idle" THEN Found'
                  ELSE IF call.phase = "idle" THEN ProcessOrder(book, Taker')
                  ELSE outcome

AtomicSpec == AtomicInit /\ [][AtomicNext]_<<vars, outcome>>

\* The order processOrder was last called with, for its caller.
LastTaker == IF call.taker = NoOrder THEN [id |-> NoOrder]
             ELSE [id |-> Taker.id, side |-> Taker.side,
                   type |-> Taker.type, price |-> Taker.price]

Calls == INSTANCE BookCalls WITH
             book <- outcome.book, trades <- outcome.trades, taker <- LastTaker

\* A call is atomic for its caller, although processOrder re-reads the book
\* between its passes and trades with vectors collected earlier: where one
\* returns, the book and the trades are what ProcessOrder gave at its start.
CallsAreAtomic == Calls!Spec

==============================================================================
