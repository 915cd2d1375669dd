--------------------------- MODULE MatchingEngine ---------------------------
(***************************************************************************)
(* The MatchingEngine (src/src/engine/matching_engine.cpp) for one symbol: *)
(* order entry, trigger orders, the trade feed, the market data feed and   *)
(* the write-ahead log, used by several threads, and the clients that      *)
(* subscribe through the listener (src/src/network/listener.cpp).          *)
(*                                                                         *)
(* One mutex guards all of the engine's state, but a call takes it several *)
(* times.  An action is one region in which the calling thread holds it    *)
(* (or one callback made outside it); what a call carries from one region  *)
(* to the next, while the other threads run, is in thr[t].                 *)
(***************************************************************************)
EXTENDS ProcessOrder, SequencesExt

CONSTANTS
    Threads,            \* the threads that call the engine
    Clients,            \* the sessions that subscribe
    SubmitTypes, Quantities, ModifyQtys,    \* what the clients send
    TriggerTypes, TriggerQtys,              \* the trigger orders they send
    Feeds,              \* the feeds they subscribe to
    MaxSubscriptions,   \* bound: callbacks in each list of subscribers
    MaxUpdates,         \* bound: calls that publish market data
    HistoryCap,         \* length of the trade history: 1000 in the code
    MaxDepth,           \* levels per side in a market data update: 10
    WalEnabled          \* whether startWAL was called

ASSUME EngineAssumption ==
    /\ SubmitTypes \subseteq Types
    /\ TriggerTypes \subseteq {"STOP_LOSS", "STOP_LIMIT", "TAKE_PROFIT"}
    /\ Quantities \cup TriggerQtys \subseteq Nat \ {0} /\ ModifyQtys \subseteq Nat
    /\ Feeds \subseteq {"market", "trades"}
    /\ {MaxSubscriptions, MaxUpdates} \subseteq Nat
    /\ {HistoryCap, MaxDepth} \subseteq Nat \ {0}
    /\ WalEnabled \in BOOLEAN

\* Clients that never modify an order to zero; the code takes such a request.
CarefulClients == 0 \notin ModifyQtys

VARIABLES
    book,               \* orderBooks[symbol]
    triggers,           \* triggerOrders[symbol]
    tradeIds,           \* the counter of Trade::generateTradeId
    tradeSeq,           \* tradeSeqs[symbol]
    history,            \* tradeHistory[symbol]
    marketDataSeq,      \* marketDataSeqs[symbol]
    lastSnapshot,       \* lastMarketSnapshot[symbol]
    subscribers,        \* marketDataSubscribers and tradeSubscribers
    metrics,            \* the metric_ counters
    wal,                \* the entries of the write-ahead log
    thr,                \* the call each thread is making
    client              \* what each client makes of what it has been sent

orderVars == <<book, triggers, tradeIds>>
feedVars == <<tradeSeq, history, marketDataSeq, lastSnapshot>>
vars == <<orderVars, feedVars, subscribers, metrics, wal, thr, client>>

Trigger == [id : Ids, side : Sides, type : TriggerTypes, price : Prices,
            quantity : TriggerQtys]

----------------------------------------------------------------------------
(* Market data *)

\* The total quantity of each price level, as a set that is {} where there is no
\* level.  (After requests to modify to zero, the total of a level may be anything.)
Levels == [Sides -> [Prices -> SUBSET Int]]

NoLevels == [side \in Sides |-> [p \in Prices |-> {}]]

\* The best MaxDepth levels of each side: getTopBids and getTopAsks.
Depth(b) ==
    [side \in Sides |->
        LET prices == {b.orders[r].price : r \in {x \in b.linked : b.orders[x].side = side}}
            better(p) == {q \in prices : IF side = "BUY" THEN q > p ELSE q < p}
            top == {p \in prices : Cardinality(better(p)) < MaxDepth}
        IN  [p \in Prices |-> {b.total[side][q] : q \in top \cap {p}}]]

\* Mutant of Changes: levels that have left the book are not reported.
ChangesKeepRemoved(old, new) ==
    [side \in Sides |->
        [p \in {q \in Prices : new[side][q] \notin {{}, old[side][q]}} |-> new[side][p]]]

\* computeChanges: the levels that appeared (ADD), have another quantity
\* (UPDATE), or left (REMOVE, here {}).
Changes(old, new) ==
    [side \in Sides |->
        [p \in {q \in Prices : new[side][q] # old[side][q]} |-> new[side][p]]]

\* A client's copy of the levels after an INCREMENT.
Apply(levels, changes) ==
    [side \in Sides |->
        [p \in Prices |-> IF p \in DOMAIN changes[side] THEN changes[side][p]
                          ELSE levels[side][p]]]

Snapshot == [seqNum : Nat, depth : Levels]

NoSnapshot == [seqNum |-> 0, depth |-> NoLevels]

----------------------------------------------------------------------------
(* State *)

\* A trade as the feed shows it: the number in its trade id, its seqNum (0
\* until publishTrade stamps it) and its price.
Published == [tradeId : Nat, seqNum : Nat, price : Prices]

\* pc         idle: no call; publish, notify: the locked part of
\*            publishTrade, then its callbacks and checkTriggers; read,
\*            diff: the two locked parts of publishMarketDataUpdate;
\*            snapshot, send: subscribed, reads and sends the first snapshot
\* trades     the trades still to publish, the one in progress first
\* callbacks  the clients still to call
\* update     the levels getMarketData returned
Thread == [pc : {"idle", "publish", "notify", "read", "diff", "snapshot", "send"},
           trades : Seq(Published), callbacks : Seq(Clients), update : Levels]

Idle == [pc |-> "idle", trades |-> << >>, callbacks |-> << >>, update |-> NoLevels]

\* levels   the client's copy of the book, once `live'
\* gap      the flag in the last INCREMENT it got
\* trades   the seqNums of the trades it got
\* since    history: tradeSeq when it subscribed to them
Client == [live : BOOLEAN, levels : Levels, gap : BOOLEAN, trades : Seq(Nat), since : Nat]

NewClient == [live |-> FALSE, levels |-> NoLevels, gap |-> FALSE, trades |-> << >>, since |-> 0]

TypeOK ==
    /\ book \in Book /\ triggers \in Seq(Trigger) /\ tradeIds \in Nat
    /\ tradeSeq \in Nat /\ history \in Seq(Published)
    /\ marketDataSeq \in Nat /\ lastSnapshot \in Snapshot
    /\ subscribers \in [market : Seq(Clients), trades : Seq(Clients)]
    /\ metrics \in [received : Nat, cancelled : Nat, matched : Nat, executed : Nat]
    /\ thr \in [Threads -> Thread]
    /\ client \in [Clients -> Client]

Init ==
    /\ book = EmptyBook /\ triggers = << >> /\ tradeIds = 0
    /\ tradeSeq = 0 /\ history = << >>
    /\ marketDataSeq = 0 /\ lastSnapshot = NoSnapshot
    /\ subscribers = [market |-> << >>, trades |-> << >>]
    /\ metrics = [received |-> 0, cancelled |-> 0, matched |-> 0, executed |-> 0]
    /\ wal = << >>
    /\ thr = [t \in Threads |-> Idle]
    /\ client = [c \in Clients |-> NewClient]

\* A line of the log that is no JSON.
Garbled == [type |-> "garbled"]

\* Only a crash leaves a last line without its newline (module Recovery):
\* what is appended then goes on that line.
Unterminated(log) == log # << >> /\ Last(log).type \in {"cut", "whole"}

\* Appends to the log, flushed while the mutex is held.
Log(entries) ==
    wal' = IF ~WalEnabled \/ entries = << >> THEN wal
           ELSE IF Unterminated(wal) THEN Front(wal) \o <<Garbled>> \o Tail(entries)
           ELSE wal \o entries

Goto(t, pc) == thr' = [thr EXCEPT ![t].pc = pc]

\* A call that is going to publish market data may start.
MayStart(t) ==
    /\ thr[t].pc = "idle"
    /\ marketDataSeq + Cardinality({u \in Threads : thr[u].pc # "idle"}) < MaxUpdates

----------------------------------------------------------------------------
(* Order entry *)

\* Clients never use an id twice.  Which of the unused ids an order gets is
\* immaterial, so one of them stands for all.
FreshIds ==
    LET unused == Ids \ ({o.id : o \in ToSet(book.orders)} \cup {o.id : o \in ToSet(triggers)})
    IN  IF unused = {} THEN {} ELSE {CHOOSE id \in unused : TRUE}

\* The orders a client may send (as in module Matching).
Submittable ==
    {o \in [id : FreshIds, side : Sides, type : SubmitTypes,
            price : Prices \cup {0}, quantity : Quantities] :
        /\ o.type = "LIMIT" => o.price # 0
        /\ o.type = "MARKET" => o.price = 0}

\* The engine takes trigger orders from its C++ callers only: the listener turns
\* their types down.
SubmittableTriggers ==
    [id : FreshIds, side : Sides, type : TriggerTypes, price : Prices,
     quantity : TriggerQtys]

\* Mutant of Numbered: the trades of a call are handed over last first.
NumberedBackwards(trades) ==
    [i \in DOMAIN trades |-> [tradeId |-> tradeIds + Len(trades) + 1 - i, seqNum |-> 0,
                              price |-> trades[Len(trades) + 1 - i].price]]

\* The trades of one processOrder call, with their ids.
Numbered(trades) ==
    [i \in DOMAIN trades |-> [tradeId |-> tradeIds + i, seqNum |-> 0,
                              price |-> trades[i].price]]

\* submitOrder, of an order that is processed at once.
SubmitOrder(t, o) ==
    /\ MayStart(t)
    /\ \E done \in {ProcessOrder(book, o)} :
          /\ book' = done.book
          /\ tradeIds' = tradeIds + Len(done.trades)
          /\ metrics' = [metrics EXCEPT
                !.received = @ + 1,
                !.matched  = IF done.trades = << >> THEN @ ELSE @ + 1,
                !.executed = @ + Len(done.trades)]
          /\ thr' = [thr EXCEPT
                ![t].pc     = IF done.trades = << >> THEN "read" ELSE "publish",
                ![t].trades = Numbered(done.trades)]
    /\ Log(<<[type |-> "submit", order |-> o]>>)
    /\ UNCHANGED <<triggers, feedVars, subscribers, client>>

\* submitOrder, of a trigger order: stored, and nothing is published.
SubmitTrigger(t, o) ==
    /\ thr[t].pc = "idle"
    /\ triggers' = Append(triggers, o)
    /\ metrics' = [metrics EXCEPT !.received = @ + 1]
    /\ Log(<<[type |-> "submit", order |-> o]>>)
    /\ UNCHANGED <<book, tradeIds, feedVars, subscribers, thr, client>>

\* cancelOrder finds orders in the books only, not among the triggers.
CancelTheOrder(t, id) ==
    /\ MayStart(t)
    /\ book.orderMap[id] # NoOrder
    /\ book' = CancelOrder(book, id)
    /\ metrics' = [metrics EXCEPT !.cancelled = @ + 1]
    /\ Log(<<[type |-> "cancel", id |-> id]>>)
    /\ Goto(t, "read")
    /\ UNCHANGED <<triggers, tradeIds, feedVars, subscribers, client>>

ModifyTheOrder(t, id, q) ==
    /\ MayStart(t)
    /\ book.orderMap[id] # NoOrder
    /\ book' = ModifyOrder(book, id, q)
    /\ Log(<<[type |-> "modify", id |-> id, quantity |-> q]>>)
    /\ Goto(t, "read")
    /\ UNCHANGED <<triggers, tradeIds, feedVars, subscribers, metrics, client>>

----------------------------------------------------------------------------
(* The trade feed *)

\* Mutant of PublishTrade: the history is one longer than its limit.
PublishTradeKeepsOne(t) ==
    /\ thr[t].pc = "publish"
    /\ tradeSeq' = tradeSeq + 1
    /\ \E trade \in {[Head(thr[t].trades) EXCEPT !.seqNum = tradeSeq + 1]} :
          /\ history' = IF Len(history) > HistoryCap THEN Append(Tail(history), trade)
                        ELSE Append(history, trade)
          /\ thr' = [thr EXCEPT ![t].trades[1] = trade, ![t].pc = "notify",
                                ![t].callbacks = subscribers.trades]
    /\ metrics' = [metrics EXCEPT !.executed = @ + 1]
    /\ Log(<<[type |-> "trade", tradeId |-> Head(thr[t].trades).tradeId]>>)
    /\ UNCHANGED <<orderVars, marketDataSeq, lastSnapshot, subscribers, client>>

\* publishTrade, locked part: the next trade gets its seqNum, goes into the
\* history, and the list of callbacks is copied.
PublishTrade(t) ==
    /\ thr[t].pc = "publish"
    /\ tradeSeq' = tradeSeq + 1
    /\ \E trade \in {[Head(thr[t].trades) EXCEPT !.seqNum = tradeSeq + 1]} :
          /\ history' = IF Len(history) = HistoryCap THEN Append(Tail(history), trade)
                        ELSE Append(history, trade)
          /\ thr' = [thr EXCEPT ![t].trades[1] = trade, ![t].pc = "notify",
                                ![t].callbacks = subscribers.trades]
    /\ metrics' = [metrics EXCEPT !.executed = @ + 1]
    /\ Log(<<[type |-> "trade", tradeId |-> Head(thr[t].trades).tradeId]>>)
    /\ UNCHANGED <<orderVars, marketDataSeq, lastSnapshot, subscribers, client>>

\* Mutant of NotifyTrade: a trade that is no longer the last is not delivered.
NotifyTradeIfLast(t) ==
    /\ thr[t].pc = "notify" /\ thr[t].callbacks # << >>
    /\ client' = IF Head(thr[t].trades).seqNum # tradeSeq THEN client
                 ELSE [client EXCEPT ![Head(thr[t].callbacks)].trades =
                                        Append(@, Head(thr[t].trades).seqNum)]
    /\ thr' = [thr EXCEPT ![t].callbacks = Tail(@)]
    /\ UNCHANGED <<orderVars, feedVars, subscribers, metrics, wal>>

\* One callback of publishTrade, outside the lock.
NotifyTrade(t) ==
    /\ thr[t].pc = "notify" /\ thr[t].callbacks # << >>
    /\ client' = [client EXCEPT ![Head(thr[t].callbacks)].trades =
                                    Append(@, Head(thr[t].trades).seqNum)]
    /\ thr' = [thr EXCEPT ![t].callbacks = Tail(@)]
    /\ UNCHANGED <<orderVars, feedVars, subscribers, metrics, wal>>

----------------------------------------------------------------------------
(* Trigger orders *)

\* Whether the trade price fires the trigger: stops fire downwards for a sale
\* and upwards for a purchase, take-profits the other way.
Fires(o, price) ==
    IF (o.side = "SELL") # (o.type = "TAKE_PROFIT") THEN price <= o.price
    ELSE price >= o.price

\* Mutant of Activated: the order keeps the type of the trigger.
ActivatedAsIs(o) == o

\* The order a trigger turns into.
Activated(o) ==
    [id |-> o.id, side |-> o.side, quantity |-> o.quantity,
     type  |-> IF o.type = "STOP_LIMIT" THEN "LIMIT" ELSE "MARKET",
     price |-> IF o.type = "STOP_LIMIT" THEN o.price ELSE 0]

\* Mutant of CheckTrigger: a trigger that has fired stays armed.
CheckTriggerRearms(s, o, price) ==
    IF Fires(o, price)
    THEN LET done == ProcessOrder(s.book, Activated(o))
         IN  [book |-> done.book, armed |-> Append(s.armed, o),
              made |-> s.made + Len(done.trades),
              log  |-> Append(s.log, [type |-> "activated", id |-> o.id])]
    ELSE [s EXCEPT !.armed = Append(@, o)]

\* Mutant of CheckTrigger: as in the replay, the order it turns into is dropped.
CheckTriggerUnprocessed(s, o, price) ==
    IF Fires(o, price) THEN [s EXCEPT !.log = Append(@, [type |-> "activated", id |-> o.id])]
    ELSE [s EXCEPT !.armed = Append(@, o)]

\* One turn of checkTriggers' loop.  What processOrder returns is dropped: the
\* trades of an activated order have ids and no other trace.
CheckTrigger(s, o, price) ==
    IF Fires(o, price)
    THEN LET done == ProcessOrder(s.book, Activated(o))
         IN  [book |-> done.book, armed |-> s.armed,
              made |-> s.made + Len(done.trades),
              log  |-> Append(s.log, [type |-> "activated", id |-> o.id])]
    ELSE [s EXCEPT !.armed = Append(@, o)]

\* checkTriggers' loop after n triggers of the list.
Checked(b, list, price, n) ==
    LET after[i \in 0 .. n] ==
            IF i = 0 THEN [book |-> b, armed |-> << >>, made |-> 0, log |-> << >>]
            ELSE CheckTrigger(after[i - 1], list[i], price)
    IN  after[n]

\* checkTriggers, after the callbacks, with the price of the trade; then on to
\* the next trade, or to the market data.
CheckTriggers(t) ==
    /\ thr[t].pc = "notify" /\ thr[t].callbacks = << >>
    /\ \E s \in {Checked(book, triggers, Head(thr[t].trades).price, Len(triggers))} :
          /\ book' = s.book /\ triggers' = s.armed /\ tradeIds' = tradeIds + s.made
          /\ Log(s.log)
    /\ thr' = [thr EXCEPT ![t].trades = Tail(@),
                          ![t].pc = IF Len(thr[t].trades) = 1 THEN "read" ELSE "publish"]
    /\ UNCHANGED <<feedVars, subscribers, metrics, client>>

----------------------------------------------------------------------------
(* The market data feed *)

\* publishMarketDataUpdate, first locked part: getMarketData.
GetMarketData(t) ==
    /\ thr[t].pc = "read"
    /\ thr' = [thr EXCEPT ![t].pc = "diff", ![t].update = Depth(book)]
    /\ UNCHANGED <<orderVars, feedVars, subscribers, metrics, wal, client>>

\* The first update of a symbol: a full SNAPSHOT, to every callback.
SendSnapshot(t) ==
    /\ lastSnapshot = NoSnapshot
    /\ client' = [c \in Clients |->
            IF c \in ToSet(subscribers.market)
            THEN [client[c] EXCEPT !.live = TRUE, !.levels = thr[t].update]
            ELSE client[c]]
    /\ lastSnapshot' = [seqNum |-> marketDataSeq + 1, depth |-> thr[t].update]

\* Every other: an INCREMENT with what changed since the last update sent.  A
\* client that subscribed twice gets it twice, to the same effect.
SendIncrement(t) ==
    /\ lastSnapshot # NoSnapshot
    /\ lastSnapshot.depth # thr[t].update
    /\ LET changes == Changes(lastSnapshot.depth, thr[t].update)
       IN  client' = [c \in Clients |->
            IF c \in ToSet(subscribers.market)
            THEN [client[c] EXCEPT !.levels = Apply(@, changes),
                                   !.gap = lastSnapshot.seqNum # marketDataSeq]
            ELSE client[c]]
    /\ lastSnapshot' = [seqNum |-> marketDataSeq + 1, depth |-> thr[t].update]

\* Nothing has changed, and nothing is sent; the seqNum is spent.
SendNothing(t) ==
    /\ lastSnapshot # NoSnapshot
    /\ lastSnapshot.depth = thr[t].update
    /\ UNCHANGED <<lastSnapshot, client>>

\* publishMarketDataUpdate, second locked part, callbacks included.
PublishMarketData(t) ==
    /\ thr[t].pc = "diff"
    /\ marketDataSeq' = marketDataSeq + 1
    /\ SendSnapshot(t) \/ SendIncrement(t) \/ SendNothing(t)
    /\ thr' = [thr EXCEPT ![t] = Idle]
    /\ UNCHANGED <<orderVars, tradeSeq, history, subscribers, metrics, wal>>

----------------------------------------------------------------------------
(* Subscriptions *)

SubscribeToTrades(t, c) ==
    /\ thr[t].pc = "idle"
    /\ "trades" \in Feeds /\ Len(subscribers.trades) < MaxSubscriptions
    /\ subscribers' = [subscribers EXCEPT !.trades = Append(@, c)]
    /\ client' = [client EXCEPT ![c].since = tradeSeq]
    /\ UNCHANGED <<orderVars, feedVars, metrics, wal, thr>>

SubscribeToMarketData(t, c) ==
    /\ thr[t].pc = "idle"
    /\ "market" \in Feeds /\ Len(subscribers.market) < MaxSubscriptions
    /\ subscribers' = [subscribers EXCEPT !.market = Append(@, c)]
    /\ thr' = [thr EXCEPT ![t].pc = "snapshot", ![t].callbacks = <<c>>]
    /\ UNCHANGED <<orderVars, feedVars, metrics, wal, client>>

\* The listener reads the first snapshot of a subscriber after it is one, ...
ReadSnapshot(t) ==
    /\ thr[t].pc = "snapshot"
    /\ thr' = [thr EXCEPT ![t].pc = "send", ![t].update = Depth(book)]
    /\ UNCHANGED <<orderVars, feedVars, subscribers, metrics, wal, client>>

\* ... and sends it.
SendFirstSnapshot(t) ==
    /\ thr[t].pc = "send"
    /\ client' = [client EXCEPT ![Head(thr[t].callbacks)] =
                    [@ EXCEPT !.live = TRUE, !.levels = thr[t].update]]
    /\ thr' = [thr EXCEPT ![t] = Idle]
    /\ UNCHANGED <<orderVars, feedVars, subscribers, metrics, wal>>

----------------------------------------------------------------------------

InCall(t) == \/ PublishTrade(t) \/ NotifyTrade(t) \/ CheckTriggers(t)
             \/ GetMarketData(t) \/ PublishMarketData(t)
             \/ ReadSnapshot(t) \/ SendFirstSnapshot(t)

Call(t) == \/ \E o \in Submittable : SubmitOrder(t, o)
           \/ \E o \in SubmittableTriggers : SubmitTrigger(t, o)
           \/ \E id \in Ids : CancelTheOrder(t, id)
           \/ \E id \in Ids, q \in ModifyQtys : ModifyTheOrder(t, id, q)
           \/ \E c \in Clients : SubscribeToTrades(t, c) \/ SubscribeToMarketData(t, c)

Next == \E t \in Threads : Call(t) \/ InCall(t)

Spec == Init /\ [][Next]_vars

\* Every thread goes on with the call it has started.
FairSpec == Spec /\ \A t \in Threads : WF_vars(InCall(t))

----------------------------------------------------------------------------
(* Properties *)

Quiet == \A t \in Threads : thr[t].pc = "idle"

\* A client that has its first snapshot and applies every increment holds the
\* top of the book whenever no call is in progress: the difference to the last
\* update sent is enough, although updates without change and fired triggers
\* come in between.  (One thread.)
FeedFollowsBook ==
    Quiet => \A c \in Clients : client[c].live => client[c].levels = Depth(book)

\* The trade feed shows trades in the order in which they were executed.
\* (One thread.)
TradesInOrder ==
    \A i, j \in DOMAIN history : i < j => history[i].tradeId < history[j].tradeId

\* Whenever no call is in progress, a client that subscribed once has got every
\* trade published since it subscribed, each of them once, in some order, and
\* none from before: although deliveries are made outside the lock, from a copy
\* of the list of callbacks, and overtake each other.
NoTradeMissed ==
    Quiet => \A c \in Clients :
        Cardinality({i \in DOMAIN subscribers.trades : subscribers.trades[i] = c}) = 1
            => LET got == client[c].trades
               IN  /\ ToSet(got) = client[c].since + 1 .. tradeSeq
                   /\ Len(got) = tradeSeq - client[c].since

\* The history is the last trades published, without a hole.
HistoryIsTail ==
    /\ Len(history) = Min({HistoryCap, tradeSeq})
    /\ \A i \in DOMAIN history : history[i].seqNum = tradeSeq - Len(history) + i

\* A trigger order is either armed or active: it never trades while it can
\* still fire, and never fires twice.
ArmedOrActive ==
    \A i \in DOMAIN triggers : \A r \in DOMAIN book.orders :
        triggers[i].id # book.orders[r].id

\* The book stays sound under orders, cancels, changes of quantity and triggers
\* that fire in between, from any thread.  (CarefulClients only: modifying to
\* zero is accepted, and breaks the first two parts.)
BookSound == Indexed(book) /\ TotalsAddUp(book) /\ NotCrossed(book)

\* What is left of that when clients modify to zero as well: every resting order,
\* of a client or of a trigger, is found by its id, so that it can be cancelled, and
\* the book is not crossed.  (Ids are not used twice.)
BookUsable ==
    /\ \A r \in book.linked : book.orderMap[book.orders[r].id] = r
    /\ NotCrossed(book)

\* A trigger leaves the list because a trade that fires it has been published,
\* and is an order of the book then.
LeavesByFiring ==
    \A i \in DOMAIN triggers :
        triggers[i] \notin ToSet(triggers')
            => /\ \E t \in Threads :
                    /\ thr[t].pc = "notify" /\ thr[t].callbacks = << >>
                    /\ Fires(triggers[i], Head(thr[t].trades).price)
               /\ Activated(triggers[i]).id \in {o.id : o \in ToSet(book'.orders)}

\* A trigger order is never lost: it stays armed, whatever cancels and modifies
\* name its id, until a trade at a price that fires it has been published, and
\* then it is an order of the book.
TriggersLeaveByFiring == [][LeavesByFiring]_vars

\* Every trade that was executed has been published once its call is over.
EveryTradePublished == Quiet => tradeSeq = tradeIds

\* The market data last sent is the book's once no call is in progress.
FeedCurrent ==
    Quiet /\ lastSnapshot # NoSnapshot => lastSnapshot.depth = Depth(book)

\* A trigger order that is armed when a trade at a price that fires it is
\* about to be published does not stay armed: checkTriggers gets to it,
\* whichever thread runs first.
Armed(id) == \E i \in DOMAIN triggers : triggers[i].id = id
Due(id) == \E i \in DOMAIN triggers, t \in Threads : \E k \in DOMAIN thr[t].trades :
              triggers[i].id = id /\ Fires(triggers[i], thr[t].trades[k].price)
TriggersFire == \A id \in Ids : Due(id) ~> ~Armed(id)

\* An increment flagged `gap' means that the client has missed something.
NoFalseGap ==
    Quiet => \A c \in Clients :
        client[c].gap => client[c].levels # Depth(book)

=============================================================================
