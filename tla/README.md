# Go-Quant: a verification project

TLA+ models of the matching engine in this repository, the TLC runs that check
them on small instances, and TLAPS proofs of the results that matter most for
every instance. The paths below are relative to the repository (`src/` here is
its root, so its own source directory is `src/src/`).

    tlasany M.tla                                  parse a module
    tlc -workers 2 -config X.cfg M                 check a configuration
    tlapm M.tla                                    check the proofs of a module

`PROJECT.json` lists the components, the runs, for every property a mutant of
the code that breaks it, the source lines behind every definition, the
hazards, and the theorems.

## 1. The system

A C++ matching engine behind a websocket. Requests arrive at the listener, pass
the rate limiter, are written to a log and matched in the order book of their
symbol; trades and changes of the book go out to subscribers.

    client -> Listener -> MatchingEngine -> RateLimiter
                 ^            |   |  \-> write-ahead log -> replayWAL
                 |            |   \-> trigger orders (stop, take-profit)
                 |            \-> MatchingAlgorithm -> OrderBook -> saveState
                 \-- callbacks: trades, market data (engine -> session)

    main: starts metrics, collector thread and listener thread,
          blocks until a signal, stops them in order

| Component | Source | State | Operations | Hard behaviour | What makes it correct |
|---|---|---|---|---|---|
| Order book | `src/src/engine/order_book.cpp` | price levels with a list and a running total, `orderMap` | add, modify, cancel, decrease, queries, JSON | four operations keep total, list and index in step, with early returns | index and levels agree; totals add up |
| Matching | `src/src/engine/matching_algorithm.cpp` | the taker, what remains of it, a vector of collected makers | `processOrder` for MARKET, LIMIT, IOC, FOK | the vector is read before the trades that change the book | never crossed, price-time priority, all or nothing, termination |
| Engine | `src/src/engine/matching_engine.cpp` | books, triggers, sequence numbers, history, last snapshot, callbacks, log | submit, cancel, modify, publish, subscribe, replay, save | one mutex, taken several times per call; callbacks outside it | feeds follow the book, no trade lost, triggers fire once |
| Log and recovery | the same, lines 473-620 | the log, the JSON files | `startWAL`, `replayWAL`, `saveState`, `loadState` | crash between any two steps, repeated restarts | the log rebuilds the state |
| Rate limiter | `src/include/utils/rate_limiter.h` | a token bucket per symbol | `addSymbol`, `tryAcceptOrder` | lazy refill, capping, fractions | a bound over every stretch of time, and no stricter than that |
| Ring buffer | `src/include/utils/ring_buffer.h` | slots, head, tail | push, pop, size | stale loads, wrap-around | a bounded FIFO queue, no torn reads |
| Listener | `src/src/network/listener.cpp` | the `io_context`, sessions kept alive by their pending handlers, callbacks in the engine's lists | accept, handshake, read, dispatch, close, stop | sessions that close while the engine keeps their callbacks; shutdown with sessions open | no session outlives the `io_context`, none outlives its connection |
| Memory pool | `src/include/utils/memory_pool.h` | slots, free list, objects handed out | allocate, deallocate, `addBlock`, `getStats` | storage that moves, constructors that throw, a reading in two steps | one owner per slot, memory used from the front |
| Metrics | `src/include/utils/metrics_manager.h`, `system_metrics.h` | the registry, raw pointers into it, a cache of them, the collector thread | start, stop, and every kind of use | pointers that are tested and followed later, without a lock | nothing is used after its end |
| Start, shutdown | `src/src/main.cpp` | a flag, a condition variable, three threads | start, block, signal, stop, destructors of the statics | a signal at any line, a notification that is lost | the process stops, in an order that lets nobody use what is gone |

The engine is called by several threads in
`src/tests/unit/test_performance.cpp:111-200` (four of them on one engine) and
`src/README.md:24` promises thread safety; the listener itself runs one
`io_context` thread. Hence the engine is modelled for any set of threads, and
each run says how many it has.

## 2. The modules

**`OrderBook`** is the book as a value: the record `Book` and one operator per
method of the class. An order object is its position in the sequence `orders`,
which is also its time of arrival, so a level's list needs no sequence of its
own: it is the set of references `linked` in the level, in increasing order.
`total` is `PriceLevel::totalQuantity`, kept separately as in the code.
`orderMap` may name an order that is no longer linked, and does, when a client
modifies to zero.

**`Matching`** (extends `OrderBook`) is `processOrder` in steps. `call.phase`
is the place in the code: `head` the loop condition, `collect` inside
`getMatchingOrders`, `fill` in the loop over the vector. `Submit`, `Cancel` and
`Modify` are the calls; `NextPass`, `Collect`, `BeginFill`, `KillFOK`,
`ExecuteTrade`, `EndPass` and `Finish` are the steps between them. A client may
reuse an id when `FreshIds` is false, and modify to 0 when `0 \in ModifyQtys`:
the code checks neither. `MCMatching` adds the symmetry of ids.

**`ProcessOrder`** is the same function as one operator from a book and an
order to the next book and the trades. **`BookCalls`** is the specification in
which every call is one step, and **`AtomicCalls`** states that `Matching`
implements it (`CallsAreAtomic`): its variable `outcome` is set, where a call
starts, to what `ProcessOrder` says, and to what the steps have left where it
returns, and stands for the book and the trades of `BookCalls`. It restricts no
step of `Matching`. `MCMatchingAtomic` is its instance for TLC. The engine's
modules use `ProcessOrder` on the strength of that.

**`MatchingEngine`** (extends `ProcessOrder`) is the engine for one symbol. An
action is one region in which the calling thread holds the mutex, or one
callback made outside it; `thr[t]` holds what the call carries from one region
to the next. `submitOrder` is `SubmitOrder` or `SubmitTrigger`; then, for each
trade, `PublishTrade`, `NotifyTrade` per callback, `CheckTriggers`; then
`GetMarketData` and `PublishMarketData`. `client` is what a client makes of the
messages: its copy of the levels, the gap flag, the trades received, and, as
history, the number the feed had reached when it subscribed to trades (`since`).
A copy of the levels (`Levels`) has for each price the set of the total shown
there, which is empty where there is no level: a level of total 0, which
modifying to zero can leave, is not the same as none.

What clients send is what the listener lets through, or what a C++ caller can
pass. The listener asks for a price of LIMIT orders only (`listener.cpp:93`); the
price of a MARKET order is read by nobody, and is 0 in the model. It turns the
trigger types down (`listener.cpp:106-109`), although
`src/docs/WEBSOCKET_API.md:174` allows them, so that `SubmitTrigger` is a call of
C++ callers only. It turns down a modify to a negative quantity and lets one to
zero pass (`listener.cpp:280`): `ModifyQtys` may contain 0. What breaks then is
stated for `CarefulClients` only, who never send it. Ids are never used twice in
the engine's modules.

**`Recovery`** (extends `MatchingEngine`) adds what outlives the process: the
log and the saved book. `Restart` may come between any two steps, replays what
is left of the log (`Replay`, line by line) and goes on appending to it. What
is left may be all of the log, or the log without its last line, or with only a
part of it: `cut` does not parse; `whole` lacks nothing but its newline and does.
The next line is then appended to the same line of the file and makes it
`garbled`, which is what the engine's restarted log really holds. `past[n]`
records what the engine was when the log had n lines, so that a property can
say that a restart goes back to a moment that was. `ToJson`, `FromJson` and
`LoadState` are the saved book; `ReplayOverSaved` replays a log over it.
**`MCRecovery`** is its instance for TLC, which keeps the long logs simple.

**`RateLimiter`** is the token buckets, with the history of what each accepted.
**`RingBuffer`** is the buffer at the grain of its atomic accesses; an acquire
load may return any value between the last one seen and the current one.
**`BoundedQueue`** is what it promises.

**`MemoryPool`** is the pool under its orders: `Allocate`, `AllocateThrows`,
`Deallocate`, each with the `AddBlock` it may need, and `OrderPool::getStats` in
its two steps. `stale` are the objects whose storage the vector has moved.

**`Metrics`** is the `MetricsManager` as its users meet it: a use is a test, a
read of a pointer, `getOrCreate` under the mutex, and the use of the metric,
with `StopMetrics` possible in between. **`Server`** (extends `Metrics`) is the
process. `Program` is `main` line by line, the destructors of the statics
included, and `Handler` the signal handler; `main` and `signal` are the two
places. The collector and the listener's worker are threads of their own, a
session is alive while a handler that captures it is pending or running, and
`Break` closes a connection at any moment.

The proofs are in **`OrderBookProofs`** (lemmas about the operations of the book
and about `ProcessOrder`), **`MatchingProofs`** and **`EngineProofs`** (which
extend it), **`RecoveryProofs`** (which extends `EngineProofs`),
**`RateLimiterProofs`**, **`RingBufferProofs`**, **`MemoryPoolProofs`** and
**`ServerProofs`**.

## 3. The abstractions

- Prices and quantities are doubles in the code and integers here. The code
  compares, adds, subtracts and takes minima of them, which agrees on numbers
  that doubles represent exactly. Rounding errors in totals are not covered.
- One symbol. Books, triggers and counters are per symbol in the code and no
  operation touches two, save for the files of `saveState`.
- The rate limiter counts whole ticks, and fractions of tokens as multiples of
  1/`TicksPerSecond`, so that refills are whole. Floating-point rounding of the
  fractions is not covered.
- Where ids are never used twice, which unused id an order gets is immaterial:
  the engine and `MCMatchingAtomic` always take one and the same.
- Time stamps, fees, user names and the text of messages are left out, except
  that `saveState`'s JSON is modelled as the lists it writes.
- Updates carry `MaxDepth` levels per side, as the code's carry 10.
- The values of metrics are left out, which nothing reads back; a use matters
  for the objects it touches. One cached metric stands for all, and one metric
  of each kind of use for its kind: looked up in a family whose pointer is not
  tested, the same but tested, and a pointer of its own; a `LatencyTracker` is
  the fourth kind.
- After the pool's vector has moved, a destructor that runs on an object at its
  old place is undefined behaviour: the process ends or goes on. Allocations of
  memory do not fail; constructors of objects may.
- `getStats` reads `capacity()` without the lock: when the pool grows meanwhile
  any number may come out.
- The listener's thread and the collector's may fail to start: `startListening`
  catches the one and main returns (`main.cpp:31-33`), the other ends the
  process, since `main.cpp:27` is in no `try`.
- Handlers of two signals do not overlap. A port that cannot be opened ends the
  process: `main.cpp` makes the listener outside the `try` of `startListening`,
  so that the message at `main.cpp:31-33` is never printed for it.
- What a message does in the engine and which requests the listener lets
  through are in `MatchingEngine`; `Server` only has the objects it uses. The
  writes to a session are left out.

## 4. The runs

Passing:

| Run | Question | What makes the instance enough |
|---|---|---|
| `matching` | Does the book stay sound and does `processOrder` trade correctly? | 4 orders give two makers at one level or at two, a taker over both, and a second taker; quantities 1, 2 give partial fills; LIMIT and FOK are the two paths of the loop |
| `matching_atomic` | Is a call atomic for its caller, and does it return? | all four types; 3 orders; modifies to zero included |
| `engine` | Do the feeds follow the book with all kinds of triggers, and does a trigger leave only by firing? | one thread, depth 1 so that levels enter and leave the window, 4 publications; a trade takes two of the three ids, so that one trigger fires in a behaviour, of each kind and side. Clients are careful: none modifies to zero |
| `engine_threads` | What survives two threads at once? | every interleaving of the locked regions; a history of length 1; a stop order that both threads can fire; clients that modify to zero, after which the index and the totals may be wrong, so that `BookUsable` takes the place of `BookSound` |
| `recovery` | What do a log and a saved book rebuild? | a crash between any two steps, the last line whole, cut or lost, restarts that go on appending to such a log. Logs of up to 3 lines about two orders are free: two orders that trade leave a third line to lose or to break. Logs of 4 and 5 lines, and those about three orders, are of whole lines of LIMIT orders at one price and of trades: the shortest log with two trades, which two processes may have made, has 5. Loading a book compares two orders at a time. Clients are careful |
| `rate_limiter` | Is the bucket a bound, and no stricter? | two symbols, limits that are slower and faster than a tick, the cap reached, fractions left over |
| `ring_buffer` | Is it a queue? | 4 slots hold 3 items; 6 pushes wrap around once and a half |
| `memory_pool` | Does every slot have one owner, and is memory used from the front? | blocks of 2, three of them: the pool grows with nothing free and again with objects that have moved; a `size_t` of 8 values wraps |
| `server` | Does the process end well, whenever a signal or an error comes? | two connections, one of which may be served, broken or closed while the other is; any number of signals, at any line of `main` |

Violations, each a disagreement of the code with its documentation:

| Run | What TLC shows |
|---|---|
| `engine_unpublished` | the trades of an activated trigger are dropped: no sequence number, no history, no callback |
| `engine_false_gap` | a publication without changes spends a `seqNum`, so the next increment is flagged as a gap for a client that has missed nothing |
| `engine_stale_feed` | reading the book and publishing are two locked regions: with two threads the older reading can be published last and stay |

More disagreements were met that have no run of their own:

- `modifyOrder(id, 0)` (`src/src/engine/order_book.cpp:49`), which the listener
  accepts, takes the level away and leaves the order in `orderMap`; a later
  modify of it adds to the total of another level a quantity that no order
  holds, against `src/GAP_ANALYSIS.md:13-14` ("BBO calculated on every order
  add/modify/cancel", "Accurate calculation"). Because of it `BookIndexed`,
  `LevelTotals`, `BookSound`, `SaveLoadPreserves` and `ReplayOverSaved` are checked
  and proved for careful clients only (new ids, no modify to zero).
  `CallsAreAtomic`, `CallReturns` and the properties of `engine_threads` are
  checked with modifies to zero as well, and `BookUsable` says what is left of
  `BookSound`; `TypeCorrect` and `NeverCrossed` of `MatchingProofs` are proved for
  all clients, those that reuse ids included. No run reuses ids.
- Replaying `activated` (`src/src/engine/matching_engine.cpp:532`) removes the
  trigger and does not process the order it became, so that a log in which a
  trigger has fired rebuilds another book. `src/REMAINING_WORK.md:40` says
  "Trigger order activation persisted and replayed correctly",
  `src/GAP_ANALYSIS.md:344` "reconstructs exact state". Hence the `NoneFired` in
  the properties of `recovery`.
- The replay is called idempotent (`src/GAP_ANALYSIS.md:344`,
  `src/PROJECT_STATUS.md:24`), and safe to run "multiple times"
  (`src/ASSIGNMENT_CHECKLIST.md:224`). Over a book that is not empty it skips the
  orders that are in the book (`matching_engine.cpp:518`); those that have traded
  away are processed again and trade again. `ReplayOverSaved` says how far the
  claim holds: when every order before the save still rests in full.
- `matching_engine_trades_executed_total` is the trade execution rate of
  `src/docs/OPERATIONS.md:210` and `:240`, and the engine's own key is
  `trades_executed` (`matching_engine.cpp:457`). `submitOrder` counts the trades
  of a call (`matching_engine.cpp:80`) and `publishTrade` counts each of them
  again (`matching_engine.cpp:441`), so the counter is twice the trades
  published. The model counts so (`metrics.executed`); no property pins it.
- An armed trigger cannot be cancelled (`matching_engine.cpp:118` looks into the
  books only), against "Cancel an existing order by ID"
  (`src/docs/WEBSOCKET_API.md:72`). `TriggersLeaveByFiring` states what the code
  does.

`FeedFollowsBook` and `TradesInOrder` are claims about one thread, which is how
the listener calls the engine; `engine_stale_feed` shows why the first does not
extend to two.

The bounds are `MaxOrders` (orders submitted), `MaxUpdates` (calls that publish
market data), `MaxSubscriptions` (callbacks in a list), `MaxLog` (longest log),
`MaxTime`, `MaxRequests`, `MaxItems` and `MaxBlocks`; each is a
guard of the action that would exceed it. `ShortLog` of `MCRecovery` is the length
up to which a log is free. `Server` needs none. `Init` is always
the empty engine, or the process before the first line of `main`.
Deadlock is not checked: nobody has to send a further request, every bound
ends the behaviours, and the process of `Server` ends.

### Fairness

- `Matching`: weak fairness of `InCall`. A thread inside `processOrder` waits for
  nothing; it holds the book's mutex until it returns. No client has to call.
- `MatchingEngine`: weak fairness of `InCall(t)` per thread. Between its locked
  regions a thread only waits for the mutex, which is held in none of the
  model's states and by nobody for ever. No client has to call.
- `RingBuffer`: weak fairness of the consumer, for `Delivered`: it keeps
  polling, and a release store becomes visible in finite time. Nothing is
  assumed of the producer.
- `Server`: weak fairness of main, of a signal handler that has started, of the
  collector and of the worker: all are scheduled threads, and what they wait for
  is in their guards. Strong fairness of `HandleError(s)`: the `io_context` serves
  what is ready in turn, and the handler of a broken connection is ready whenever
  the worker is between two handlers. Signals, messages and spurious wake-ups
  need not come. `SignalStops` is about a signal that finds main blocked: one
  that comes between the test of the flag and the wait is lost, because the
  handler takes no lock, and it takes another to stop the process.

## 5. The proofs

All of them are checked by TLAPS from the assumptions on the constants that the
modules state (prices are positive, quantities natural, order types known); the
sets of ids, prices and quantities are arbitrary and may be infinite.

| Theorem | Says |
|---|---|
| `MatchingProofs!TypeCorrect` | `Spec => []TypeOK`, for all clients |
| `MatchingProofs!NeverCrossed` | `Spec => []Uncrossed`, for all clients |
| `MatchingProofs!IndexAgrees`, `TotalsAgree` | the index and the levels agree, totals are sums; for careful clients |
| `MatchingProofs!NoTradeThrough` | every trade is with the best maker at that moment; for careful clients |
| `MatchingProofs!FillsOrKills` | a FOK order trades in full or not at all; for careful clients |
| `MatchingProofs!MakersPay` | a trade takes its quantity out of the makers' side, once, and nothing from the taker's; for careful clients |
| `MatchingProofs!LeavesNothing` | an order keeps an unfilled quantity, or is killed, only if the book cannot do better; for careful clients |
| `MatchingProofs!CallsTakeEffectAtOnce` | `AtomicSpec => CallsAreAtomic`: `Matching` implements `BookCalls`; for careful clients |
| `EngineProofs!FeedFollows` | with one thread, a client that applies every increment holds the top of the book |
| `EngineProofs!TypeCorrect` | `Spec => []TypeOK`, for any number of threads, as in all rows of this module that do not say otherwise |
| `EngineProofs!OrdersSound` | the inductive invariant `OrdersInv`; for clients that do not use an id twice, as in all rows of this module and the next |
| `EngineProofs!BooksSound` | index, levels and totals of the book agree, no bid meets an ask; for clients that do not modify to zero |
| `EngineProofs!BooksUsable` | every resting order is found by its id, no bid meets an ask; for those that do as well |
| `EngineProofs!ArmedNotActive` | a trigger order that can still fire is not in the book |
| `EngineProofs!TriggersLeave` | a trigger order leaves the list only by firing, and is in the book then |
| `EngineProofs!HistoryComplete` | the bounded history is the last trades, without a hole |
| `EngineProofs!TradesDelivered` | whenever no call is in progress, a client that subscribed once has got exactly the trades published since, each once |
| `EngineProofs!FeedInOrder` | with one thread, trades are published in the order in which they were made |
| `RecoveryProofs!ReplayGivesBackTheEngine` | a log whose lines can all be read gives the engine back; like the next two, while no trigger has fired |
| `RecoveryProofs!RestartsFromThePast` | over a broken log the engine restarts as what it was after the last line that can be read |
| `RecoveryProofs!TradeIdsStayUnique` | no two trades that can be read in the log have the same id, whichever processes made them |
| `RecoveryProofs!ReplaysOverSavedBooks` | the log replayed over a saved book that it still agrees with gives what the log alone gives; no trigger has fired, and no client modifies to zero |
| `RecoveryProofs!SavedBooksLoad` | saving and loading the book changes nothing that can be seen; like the next three, over any restarts, with triggers that fire; for clients that do not modify to zero |
| `RecoveryProofs!BooksSoundAfterRestarts` | index, levels and totals agree, no bid meets an ask; for the same clients |
| `RecoveryProofs!BooksUsableAfterRestarts` | every resting order is found by its id, no bid meets an ask; for those that modify to zero as well |
| `RecoveryProofs!ArmedNotActiveAfterRestarts` | a trigger order that can still fire is not in the book |
| `RateLimiterProofs!TypeCorrect` | the buckets never go below zero |
| `RateLimiterProofs!RateBound` | the bound on every stretch of time |
| `RateLimiterProofs!NothingLost` | an order is rejected only if accepting it would break that bound |
| `RingBufferProofs!TypeCorrect`, `NoTear` | types; nobody reads a slot that is being written |
| `RingBufferProofs!SizeErrsSafely` | `size()` errs to the safe side of the thread that asks |
| `RingBufferProofs!BufferIsQueue` | the buffer implements `BoundedQueue` |
| `MemoryPoolProofs!TypeCorrect`, `SlotsAccounted` | types; every slot has one owner or is in the list once |
| `MemoryPoolProofs!MemoryLinear` | only as many slots are ever touched as were taken at one time |
| `MemoryPoolProofs!ObjectsStay` | objects move only in programs that outgrow the first block |
| `MemoryPoolProofs!UsageExact` | `getStats` is exact unless the pool grows meanwhile |
| `ServerProofs!TypeCorrect` | `Spec => []TypeOK`, for any number of connections |
| `ServerProofs!NoUseAfterEnd`, `SessionsDie` | nothing is used after its end, no session outlives the `io_context`; any number of connections |

**Types.** `TypeOK` is not inductive: a step needs to know that a call in progress
has a taker, which is neither linked in a level nor indexed yet. `TypeInv` is
`BookOK` (of `OrderBookProofs`: every operation keeps it) and `CallOK`, which
says so.

**Uncrossed.** Every step but one links no order and changes no price
(`OnlyFewerLinked`, lemma `OnlyFinishLinks`), so cannot cross the book. `Finish`
links the taker, and only when something remains, so the loop has ended for
want of an eligible order, and an order that is not eligible does not cross it.

**Totals.** The sum of the quantities of a level is the number of its units,
`Cardinality(Units(..))`, so that sums need no recursion: `OrderBookProofs` shows
how units are added, removed and replaced, and that every operation keeps
`Ledger`, which is `Indexed` with the totals and positive quantities. The
inductive invariant `CarefulInv` adds `VectorOK`: as long as something remains to
be traded, the orders left in the vector are still eligible, and each is ahead
of every eligible order that is not in it. That is what makes a decrease by id
hit the maker meant, and it gives price-time priority as well.

**Rate limiter.** `WindowBound` is about past moments and does not mention the
bucket, so it is not inductive. `BucketInv` keeps an account from every accepted
order on: the orders accepted since and the tokens left in the bucket are
together at most the allowance up to the last refill. `RefillKeeps`,
`ConsumeKeeps` and `TimeKeeps` show that refill (with the cap), acceptance and
time keep it; `RateBound` follows since the bucket is never negative. `ExactInv` is
the other direction: the bucket is full, or since some accepted order the account
is exact, because only the cap makes tokens disappear, and it leaves a full
bucket; so what is rejected is an excess over a full bucket or over that account.

**Fill or kill.** `Covered` says that a FOK order past its test finds in the
vector, as long as something remains, orders whose units are at least what
remains; it is stated with the units of `OrderBookProofs`, so that no sum is taken.
For a FOK order that is killed the converse is needed: at the end of `collect` what
is still wanted is the order's quantity less all eligible units (`CollectedAll`).

**Makers pay.** A trade is of at most what its maker has, and by `CarefulInv` the
decrease by id finds that maker, so that the units of its side lose exactly those of
the trade (`MakerPays`). The taker is not indexed while its call runs: the second
decrease finds nothing (`DecreasesNothing`).

**Calls are atomic.** `AtomicInv` says of a call in progress what is to come of it:
before the first trade of a FOK order, what `ProcessOrder` decides on the same test;
for every other state `Ends`, that the loop of `ProcessOrder`, started on the book, the
trades and the remaining quantity of now, ends in `outcome`. A trade keeps
`Ends` because it is the loop's next turn: by `CarefulInv` its maker is first in
price-time priority among all eligible orders, not only among those left in the
vector, and there is only one such order (`FirstUnique`). Collecting and beginning another
pass change nothing the loop reads, and where the call returns the loop is over
(`FilledStays`), so that `outcome` is what the steps have left. The operators that
`BookCalls` brings along are then shown to be those of `OrderBook` and
`ProcessOrder` (`SameCancel` to `SameProcess`).

**Loops over data.** `ProcessOrder` runs over the eligible orders, `checkTriggers`
over the list of triggers, `replayWAL` over the lines of the log; in the model
each is a recursive function on the numbers up to the length. The prover cannot
instantiate the library's induction theorems, whose parameter is an operator, so
`OrderBookProofs` proves one of its own, `SetOfAllNat`, whose parameter is the
set of numbers the claim holds for. With it `TurnsByTurn` and its like show that
the function is what its definition says, and an invariant is carried through the
loop turn by turn: `Loop` for the matching, `SomeChecked` for the triggers.

**Orders and triggers of the engine.** `OrdersInv` is a sound book (`SoundBook`) and
the distinctness of all ids, those of the armed triggers included. Without the
ids it would not be inductive: what is found by an id is the order meant only
because there is one. A sound book is not crossed and is `Findable`: orders have
ids of their own, what the index finds under an id has that id, and it finds
every order that is in a list. That much survives a modify to zero, which takes
a level away and leaves its orders in the index, and it is enough for a cancel
or a trade to hit the order meant; of careful clients the book is also a `Ledger`,
as for `Matching`. `ArmedOrActive`, `BookSound`, `BookUsable` and
`TriggersLeaveByFiring` follow. `TypeInv` adds the types and `Publishing`: a thread
that publishes has a trade in hand, so that `Head` and `Tail` are of a list that
is not empty.

**The order of the trade feed.** `OrderInv` says that the trades in hand come after
those of the history, and in their own order, below the counter of ids. It needs
the single thread where a new call starts: the history then holds every trade
made that will be published.

**Recovery.** `RecoveryInv` relates the engine to the replay of every prefix of the
log. Its core is the lemma that each call does to the engine what `ReplayEntry` of
its line does to the replayed engine (`Replays`), as long as no trigger
fires; hence the replay of the whole log is the engine as it is (`Current`),
and that of its first n lines the engine as it was then (`Traces`, which also says
which ids of trades those lines have spent). A crash leaves a log that agrees with
the old one wherever both can be read (`Agree`), and the line that is appended to a
cut one is lost with it, so that what can be read stays what it was. `Pending` is
about the trades that the calls have in hand: their ids are spent and not in the
log yet, although another thread, or another call, may log its trades first. The
theorems assume `WalEnabled`: without a log there is nothing to rebuild from.

**The saved book.** `SoundInv` is `OrdersInv` and `SoundLog`: the replay of every
prefix of the log gives a sound book and ids in use that nobody else has.
`RecoveryInv` would not do, because it says nothing once a trigger has fired; here
the entries themselves are the reason. Every order in the log was submitted under
an id of its own, and replaying any part of the log submits no id twice
(`ReplayEntrySound`), whatever became of the triggers and whatever the clients
modified. So a restart finds a sound
book (`SoundRestart`). For a book that is a `Ledger`, which takes careful clients, the places in the JSON are in one-to-one
correspondence with the orders in the levels, in the order of the queues; the loaded
book is the old one with its order objects renamed (`Alike`), and books that are
alike look the same (`AlikeViews`).

Replaying the log over that book needs one step more. Up to the line of the save
every line is a trigger order, which is armed, or an order the loaded book still
has, which is skipped (`OverResting`). Then the loaded engine and the one
that saved the book are alike (`AlikeEngines`: alike books, the same triggers), and
every entry keeps them so (`AlikeEntry`). For an order this goes through the loop of
`processOrder` turn by turn: the first order of the one book is the twin of the
first of the other (`FirstTwins`), because priority is by side, price and place
in the queue, which is all that alike books share. At the end of the log the two
books look the same.

**Market data.** `FeedInv`: what was sent last (`lastSnapshot`) is the top of the
book whenever the one thread is idle or in the middle of a subscription, what it
has read is the top of the book until it has published it, and every live client
holds what was sent last and is in the list of subscribers. `ApplyChanges` is
the lemma that the difference is enough.

**Trades.** `DeliveryInv` keeps an account per client: of the numbers
given since its subscription, each has been delivered to it once, or is owed to it by
exactly one thread, in whose copy of the list of callbacks it is. When no call is
in progress nothing is owed, so what it has got is a list without repetitions of
all numbers after the one the feed had reached when it subscribed.
`HistoryComplete` needs the types only.

**Ring buffer.** The tail that the producer has seen is never newer than the real
one, and the head that the consumer has seen neither; hence the distance from
tail to head stays below `Size`, and indexes at such a distance differ modulo
`Size`. Every access then maps to a push, a pop or a stutter of `BoundedQueue`,
whose queue is the slots from tail to head.

**Memory pool.** The invariant describes the list: it holds each free slot once
(`Lists`), its first entries are the slots never taken, from the last one down to
the peak, and those above are slots that came back (`FreshFirst`). Since slots
are taken from the end, a new one is touched only when no returned one is left.
A pool that has grown had all its slots taken, so its peak is above `BlockSize`.

**Server.** The invariant ties what exists to the line of `Program` that main has
reached: the metrics are complete while a thread is active, and main passes a
line that takes something away only after it has waited for the threads that
use it. `FlagsOK` is what that leaves open of the types.

**Checked by TLC only.** Liveness (`CallReturns`, `TriggersFire`, `Delivered`,
`SignalStops`, `ClosedAreFreed`), which the prover does not do under fairness;
`CallsAreAtomic` for clients that modify to zero, which the run includes and the
theorem does not: its argument rests on `CarefulInv`. The other way round, `TypeOK`
of `Matching`, `RateLimiter`, `RingBuffer` and `MemoryPool` is proved and in no run.

## 6. What is not modelled

- The listener's writes: `send()` may start an `async_write` while another is in
  progress, with a buffer that is gone when it returns (`listener.cpp:312`). What
  that does is undefined in the websocket library, outside this code; a session
  gets its messages in order here. Nor is the reply that a `catch` block builds
  from the text of an exception (`listener.cpp:301`).
- Callbacks that call the engine: the listener's do not. Market data callbacks
  run under the engine's mutex (`matching_engine.cpp:330`), so that one that did
  would hang.
- Several symbols, and with them the directory of files of `saveState`, written in
  place one after the other; `stopWAL`.
- Memory that cannot be allocated.
- The values of the metrics; `utils/metrics.cpp`, which nothing calls.
- Fees (numbers stored and read by nobody), `persistence.h` (not called by the
  engine), `session.cpp` (not built), logging, time formatting and the
  Prometheus stubs.

## 7. Plan

1. A proof of `CallsAreAtomic` for clients that modify to zero.
2. Several symbols in `Recovery`, with the files of `saveState` one by one and a
   crash between two of them.
3. The sessions' outgoing messages, once `send()` queues its writes, composed
   with the feeds of `MatchingEngine`.
