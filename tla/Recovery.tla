------------------------------ MODULE Recovery ------------------------------
(***************************************************************************)
(* What survives the process: MatchingEngine::replayWAL rebuilds an engine *)
(* from the write-ahead log, OrderBook::toJson and fromJson carry a book   *)
(* over a restart (saveState, loadState).  The engine of module            *)
(* MatchingEngine may be killed between any two of its steps; nothing of   *)
(* it is left but two files, the log and the saved book.  Log and book     *)
(* change under one lock, so a crash between the two is a crash before or  *)
(* after both.  The log is flushed and never synced: when the machine goes *)
(* down with the process, the end of it is lost.                           *)
(***************************************************************************)
EXTENDS MatchingEngine

CONSTANT MaxLog     \* bound: the longest log that is replayed

ASSUME RecoveryAssumption == MaxLog \in Nat

VARIABLE past       \* history: past[n] is the engine when the log had n lines

recoveryVars == <<vars, past>>

----------------------------------------------------------------------------
(* The book as JSON *)

\* What loading and replaying rebuild: the book, the triggers, and the two counters replaying moves.
NewEngine == [book |-> EmptyBook, triggers |-> << >>, made |-> 0, cancelled |-> 0]

\* The members of a finite set as a sequence, in the strict order R, a set of pairs.
InOrder(S, R) ==
    [n \in 1 .. Cardinality(S) |->
        CHOOSE x \in S : Cardinality({y \in S : <<y, x>> \in R}) = n - 1]

\* The orders of one level, in the order of its list.
Listed(b, side, price) ==
    LET level == Level(b, side, price)
        queue == InOrder(level, {e \in level \X level : e[1] < e[2]})
    IN  [i \in DOMAIN queue |-> b.orders[queue[i]]]

\* toJson: per level its total quantity and its orders.
ToJson(b) == [side \in Sides |-> [price \in Prices |->
                [totalQuantity |-> b.total[side][price],
                 orders        |-> Listed(b, side, price)]]]

\* Where the orders are in the JSON: side, price, and position in the list.
Places(j) ==
    UNION {{<<side, price, i>> : i \in DOMAIN j[side][price].orders} :
              side \in Sides, price \in Prices}

Better(side, p, q) == IF side = "BUY" THEN p > q ELSE p < q

\* Mutant of Before: the lists of the levels are walked from the back.
BeforeFromBack(x, y) ==
    \/ x[1] = "BUY" /\ y[1] = "SELL"
    \/ x[1] = y[1] /\ Better(x[1], x[2], y[2])
    \/ x[1] = y[1] /\ x[2] = y[2] /\ x[3] > y[3]

\* The order in which they are met: bids, then asks, each from the best price
\* on, as the maps are walked.
Before(x, y) ==
    \/ x[1] = "BUY" /\ y[1] = "SELL"
    \/ x[1] = y[1] /\ Better(x[1], x[2], y[2])
    \/ x[1] = y[1] /\ x[2] = y[2] /\ x[3] < y[3]

\* The order objects fromJson makes.  (Appending << >> changes nothing; TLC holds
\* the list as a tuple then.)
Loaded(j) ==
    LET places == InOrder(Places(j), {e \in Places(j) \X Places(j) : Before(e[1], e[2])})
    IN  [n \in DOMAIN places |->
            j[places[n][1]][places[n][2]].orders[places[n][3]]] \o << >>

\* fromJson: the totals are taken over, not added up again; of two orders with
\* one id the index keeps the last.
FromJson(j) ==
    LET orders == Loaded(j)
        having(id) == {r \in DOMAIN orders : orders[r].id = id}
    IN  [orders   |-> orders,
         linked   |-> DOMAIN orders,
         total    |-> [side \in Sides |-> [price \in Prices |->
                          j[side][price].totalQuantity]],
         orderMap |-> [id \in Ids |-> IF having(id) = {} THEN NoOrder
                                      ELSE Max(having(id))]]

\* loadState of what saveState wrote, into a new engine: the triggers are in
\* no file.  A file that a crash has torn does not parse; nothing is loaded then.
LoadState(file) == [NewEngine EXCEPT !.book = FromJson(file)]

----------------------------------------------------------------------------
(* The write-ahead log *)

\* Mutant of ReplaySubmit: an order that is in the book is processed again.
ReplaySubmitAgain(s, o) ==
    LET done == ProcessOrder(s.book, o)
    IN  IF o.type \in TriggerTypes THEN [s EXCEPT !.triggers = Append(@, o)]
        ELSE [s EXCEPT !.book = done.book, !.made = @ + Len(done.trades)]

\* Mutant of ReplaySubmit: the ids of the trades are not spent.
ReplaySubmitUnnumbered(s, o) ==
    IF o.type \in TriggerTypes THEN [s EXCEPT !.triggers = Append(@, o)]
    ELSE IF s.book.orderMap[o.id] # NoOrder THEN s
    ELSE [s EXCEPT !.book = ProcessOrder(s.book, o).book]

\* A trigger order is stored, whether it is there already or not; any other is
\* processed unless the book has it.  Every trade made takes an id.
ReplaySubmit(s, o) ==
    LET done == ProcessOrder(s.book, o)
    IN  IF o.type \in TriggerTypes THEN [s EXCEPT !.triggers = Append(@, o)]
        ELSE IF s.book.orderMap[o.id] # NoOrder THEN s
        ELSE [s EXCEPT !.book = done.book, !.made = @ + Len(done.trades)]

ReplayCancel(s, id) ==
    IF s.book.orderMap[id] = NoOrder THEN s
    ELSE [s EXCEPT !.book = CancelOrder(@, id), !.cancelled = @ + 1]

ReplayModify(s, id, q) ==
    IF s.book.orderMap[id] = NoOrder THEN s
    ELSE [s EXCEPT !.book = ModifyOrder(@, id, q)]

\* The list without the orders of that id (std::remove_if).
Without(list, id) ==
    LET kept[i \in 0 .. Len(list)] ==
            IF i = 0 THEN << >>
            ELSE IF list[i].id = id THEN kept[i - 1] ELSE Append(kept[i - 1], list[i])
    IN  kept[Len(list)]

\* The activation of a trigger: it is no longer armed.  The order it turned
\* into is not processed.
ReplayActivated(s, id) == [s EXCEPT !.triggers = Without(@, id)]

\* Mutant of ReplayEntry: quantity changes are not replayed.
ReplayEntryNoModify(s, e) ==
    CASE e.type = "submit" -> ReplaySubmit(s, e.order)
      [] e.type = "cancel" -> ReplayCancel(s, e.id)
      [] OTHER             -> s

\* One line of the log.
ReplayEntry(s, e) ==
    CASE e.type = "submit"    -> ReplaySubmit(s, e.order)
      [] e.type = "cancel"    -> ReplayCancel(s, e.id)
      [] e.type = "modify"    -> ReplayModify(s, e.id, e.quantity)
      [] e.type = "activated" -> ReplayActivated(s, e.id)
      [] e.type = "trade"     -> s

\* Mutant of Readable: a line that cannot be parsed is skipped.
ReadableSkipping(log) ==
    LET lines == SelectSeq(log, LAMBDA e : e.type \notin {"cut", "garbled"})
    IN  [i \in DOMAIN lines |-> IF lines[i].type = "whole" THEN lines[i].entry ELSE lines[i]]

\* The entries replayWAL gets to: it stops at the first line that json::parse
\* refuses.  A last line that lacks nothing but its newline is read.
Readable(log) ==
    LET bad   == {i \in DOMAIN log : log[i].type \in {"cut", "garbled"}}
        lines == SubSeq(log, 1, IF bad = {} THEN Len(log) ELSE Min(bad) - 1)
    IN  [i \in DOMAIN lines |-> IF lines[i].type = "whole" THEN lines[i].entry ELSE lines[i]]

\* An engine in state s after n of the entries.
Replayed(s, entries, n) ==
    LET after[i \in 0 .. n] == IF i = 0 THEN s ELSE ReplayEntry(after[i - 1], entries[i])
    IN  after[n]

\* replayWAL into an engine that is in state s.
Replay(s, log) == Replayed(s, Readable(log), Len(Readable(log)))

----------------------------------------------------------------------------
(* Crashes *)

\* What a reader can tell of the engine: its levels, order by order in time
\* priority, and the armed triggers.
View(b, armed) == [levels |-> ToJson(b), triggers |-> armed]

\* What may be left of the log: all of it when the process is killed; when the
\* machine goes down the last line is lost, or only a part (cut) or all but the
\* newline (whole) of it is left.  More is lost by going down again.
LeftOver ==
    LET rest == Front(wal)
    IN  {wal, rest} \cup
        IF Last(wal).type \in {"cut", "garbled", "whole"} THEN {}
        ELSE {Append(rest, [type |-> "cut"]),
              Append(rest, [type |-> "whole", entry |-> Last(wal)])}

\* The process dies, wherever its threads are; a new one replays what is left
\* of the log and goes on appending to it.
RestartFrom(log) ==
    /\ \E s \in {Replay(NewEngine, log)} :
          /\ book' = s.book /\ triggers' = s.triggers /\ tradeIds' = s.made
          /\ metrics' = [received |-> 0, cancelled |-> s.cancelled, matched |-> 0,
                         executed |-> 0]
    /\ wal' = log
    /\ tradeSeq' = 0 /\ history' = << >>
    /\ marketDataSeq' = 0 /\ lastSnapshot' = NoSnapshot
    /\ subscribers' = [market |-> << >>, trades |-> << >>]
    /\ thr' = [t \in Threads |-> Idle]
    /\ client' = [c \in Clients |-> NewClient]

Restart == wal # << >> /\ \E log \in LeftOver : RestartFrom(log)

----------------------------------------------------------------------------

RecoveryInit ==
    /\ Init
    /\ past = [n \in {0} |-> View(book, triggers)]

RecoveryNext ==
    /\ Next \/ Restart
    /\ Len(wal') <= MaxLog
    /\ past' = [n \in 0 .. Len(wal') |->
                   IF n < Len(wal') /\ n \in DOMAIN past THEN past[n]
                   ELSE View(book', triggers')]

RecoverySpec == RecoveryInit /\ [][RecoveryNext]_recoveryVars

----------------------------------------------------------------------------
(* Properties *)

\* No trigger has fired: the replay does not process the order that a fired
\* trigger turns into (ReplayActivated), so logs of that kind rebuild another
\* book.
NoneFired(log) == \A i \in DOMAIN log : log[i].type # "activated"

\* Every line can be read.
Intact(log) == \A i \in DOMAIN log : log[i].type \notin {"cut", "garbled"}

\* As long as every line can be read and no trigger has fired, replaying the
\* log gives back every level of the book, order by order in time priority,
\* and the armed triggers, whenever the process dies and however often it has
\* been restarted.
ReplayReconstructs ==
    Intact(wal) /\ NoneFired(wal) =>
        LET s == Replay(NewEngine, wal) IN View(s.book, s.triggers) = View(book, triggers)

\* A saved book is loaded as it was: the same lists, and an index that finds
\* every order.
SaveLoadPreserves ==
    LET loaded == FromJson(ToJson(book))
    IN  ToJson(loaded) = ToJson(book) /\ Indexed(loaded) /\ TotalsAddUp(loaded)

\* Whatever is left of the log, and although a log with a broken line is
\* appended to as before, a restart takes the engine to the state it was in when
\* the last line that can be read was written, never to a mixture of entries
\* from before and after a loss.
RestartsInThePast ==
    ~Intact(wal) /\ NoneFired(Readable(wal)) =>
        LET s == Replay(NewEngine, wal)
        IN  View(s.book, s.triggers) = past[Len(Readable(wal))]

\* The counter of trade ids starts again with every process, and replaying the
\* log moves it past every id the log holds: no two of the trades in its readable
\* part share an id, also when they were made by different processes.
TradeIdsUnique ==
    LET lines  == Readable(wal)
        trades == {i \in DOMAIN lines : lines[i].type = "trade"}
    IN  NoneFired(lines) =>
            \A i, j \in trades : lines[i].tradeId = lines[j].tradeId => i = j

\* The orders logged before the save that can be skipped when they are replayed
\* over it: they rest in the saved book with the quantity they came with.
StillRests(json, o) == \E p \in Prices : o \in ToSet(json[o.side][p].orders)

\* Replaying the log over the book as it was saved when the log had n lines,
\* which skips the orders that are in the book, gives the same as the log alone,
\* provided that those n lines are trigger orders and orders that the saved book
\* still holds in full.
ReplayOverSaved ==
    Intact(wal) /\ NoneFired(wal) =>
        \A n \in DOMAIN past :
           (\A i \in 1 .. n : /\ wal[i].type = "submit"
                            /\ \/ wal[i].order.type \in TriggerTypes
                               \/ StillRests(past[n].levels, wal[i].order))
           => LET s == Replay(LoadState(past[n].levels), wal)
              IN  View(s.book, s.triggers) = View(book, triggers)

=============================================================================
