--------------------------- MODULE RecoveryProofs ---------------------------
(***************************************************************************)
(* What a restart finds, for every number of threads, orders and restarts. *)
(*                                                                         *)
(* The argument: ReplayEntry repeats on the replayed engine what the call  *)
(* that logged the entry did on the engine that ran, as long as no trigger *)
(* fires (Replays).  So the engine After n lines is known for every n: it  *)
(* is the one the history shows for that number of lines (Traces), and     *)
(* after all of them it is the engine as it is now (Current).  A crash     *)
(* leaves a log that agrees with the old one wherever it can be read, and  *)
(* what is appended later comes after it, or after a line that nobody can  *)
(* read.  For the ids of trades the calls in progress count as well: the   *)
(* trades they have still to publish have ids of their own (Pending).      *)
(*                                                                         *)
(* That the book stays sound over restarts does not depend on triggers:    *)
(* every entry of the log was once submitted under an id of its own, so a  *)
(* replay of any part of it keeps the book's own invariant (SoundLog).     *)
(* Saving and loading is one renaming of the order objects, which keeps    *)
(* sides, prices, quantities and the order of every queue (Alike).         *)
(* Replaying over a saved book only arms triggers up to the line of the    *)
(* save; from there every entry of the log does to the loaded engine what  *)
(* it does to the one that saved the book (AlikeEngines).                  *)
(***************************************************************************)
EXTENDS Recovery, EngineProofs

----------------------------------------------------------------------------
(* The replay, entry by entry *)

\* g is the function the definition of Replayed describes.
IsReplay(g, s, entries, n) ==
    g = [i \in 0 .. n |-> IF i = 0 THEN s ELSE ReplayEntry(g[i - 1], entries[i])]

\* The replay can always go on by one entry.
LEMMA ReplayLonger ==
  ASSUME NEW s, NEW entries, NEW n \in Nat, NEW g, IsReplay(g, s, entries, n)
  PROVE  \E h : IsReplay(h, s, entries, n + 1)
<1> DEFINE last == ReplayEntry(g[n], entries[n + 1])
           h == [i \in 0 .. n + 1 |-> IF i = n + 1 THEN last ELSE g[i]]
<1>1. \A i \in 0 .. n : g[i] = IF i = 0 THEN s ELSE ReplayEntry(g[i - 1], entries[i])
  BY Zenon DEF IsReplay
<1>2. h[n + 1] = last /\ \A i \in 0 .. n : h[i] = g[i]
  OBVIOUS
<1>3. ASSUME NEW i \in 0 .. n + 1
      PROVE  h[i] = IF i = 0 THEN s ELSE ReplayEntry(h[i - 1], entries[i])
  <2>1. CASE i = n + 1
    BY <1>2, <2>1
  <2>2. CASE i = 0
    BY <1>1, <1>2, <2>2
  <2>3. CASE i \in 1 .. n
    BY <1>1, <1>2, <2>3
  <2> QED  BY <2>1, <2>2, <2>3
<1>4. h = [i \in 0 .. n + 1 |-> IF i = 0 THEN s ELSE ReplayEntry(h[i - 1], entries[i])]
  BY <1>3
<1> HIDE DEF h
<1> QED  BY <1>4 DEF IsReplay

\* There is a replay of every length.
LEMMA ReplayedRun ==
  ASSUME NEW s, NEW entries, NEW n \in Nat
  PROVE  \E g : IsReplay(g, s, entries, n) /\ Replayed(s, entries, n) = g[n]
<1> DEFINE T == {k \in Nat : \E g : IsReplay(g, s, entries, k)}
<1>1. 0 \in T
  <2>1. IsReplay([k \in 0 .. 0 |-> s], s, entries, 0)  BY DEF IsReplay
  <2> QED  BY <2>1
<1>2. ASSUME NEW k \in Nat, k \in T PROVE k + 1 \in T
  BY <1>2, ReplayLonger
<1>3. PICK g : IsReplay(g, s, entries, n)
  <2> HIDE DEF T
  <2>1. n \in T  BY <1>1, <1>2, SetOfAllNat
  <2> QED  BY <2>1 DEF T
<1> DEFINE f == CHOOSE f : IsReplay(f, s, entries, n)
<1>4. IsReplay(f, s, entries, n)
  BY <1>3
<1>5. Replayed(s, entries, n) = f[n]
  BY DEF Replayed, IsReplay
<1> QED  BY <1>4, <1>5

\* The replay before the first entry, and after one more.
LEMMA ReplayedByEntry ==
  ASSUME NEW s, NEW entries
  PROVE  /\ Replayed(s, entries, 0) = s
         /\ \A n \in Nat : Replayed(s, entries, n + 1)
                             = ReplayEntry(Replayed(s, entries, n), entries[n + 1])
<1>1. Replayed(s, entries, 0) = s
  <2>1. PICK g : IsReplay(g, s, entries, 0) /\ Replayed(s, entries, 0) = g[0]
    BY ReplayedRun
  <2> QED  BY <2>1 DEF IsReplay
<1>2. ASSUME NEW n \in Nat
      PROVE  Replayed(s, entries, n + 1) = ReplayEntry(Replayed(s, entries, n), entries[n + 1])
  <2>1. PICK g : IsReplay(g, s, entries, n) /\ Replayed(s, entries, n) = g[n]
    BY ReplayedRun
  <2>2. PICK h : IsReplay(h, s, entries, n + 1) /\ Replayed(s, entries, n + 1) = h[n + 1]
    BY ReplayedRun
  <2>3. /\ \A i \in 0 .. n : g[i] = IF i = 0 THEN s ELSE ReplayEntry(g[i - 1], entries[i])
        /\ \A i \in 0 .. n + 1 : h[i] = IF i = 0 THEN s ELSE ReplayEntry(h[i - 1], entries[i])
    BY <2>1, <2>2, Zenon DEF IsReplay
  <2> DEFINE T == {k \in Nat : k <= n => g[k] = h[k]}
  <2>4. 0 \in T
    BY <2>3
  <2>5. \A k \in Nat : k \in T => k + 1 \in T
    BY <2>3
  <2>6. n \in T
    <3> HIDE DEF T
    <3> QED  BY <2>4, <2>5, SetOfAllNat
  <2> QED  BY <2>1, <2>2, <2>3, <2>6
<1> QED  BY <1>1, <1>2

\* What comes after the first n entries does not matter to the first n.
LEMMA ReplayedSame ==
  ASSUME NEW s, NEW a, NEW b, NEW n \in Nat, \A i \in 1 .. n : a[i] = b[i]
  PROVE  Replayed(s, a, n) = Replayed(s, b, n)
<1> DEFINE T == {k \in Nat : k <= n => Replayed(s, a, k) = Replayed(s, b, k)}
<1>1. 0 \in T
  BY ReplayedByEntry
<1>2. ASSUME NEW k \in Nat, k \in T PROVE k + 1 \in T
  <2> SUFFICES ASSUME k + 1 <= n PROVE Replayed(s, a, k + 1) = Replayed(s, b, k + 1)
    OBVIOUS
  <2>1. Replayed(s, a, k) = Replayed(s, b, k) /\ a[k + 1] = b[k + 1]
    BY <1>2
  <2>2. /\ Replayed(s, a, k + 1) = ReplayEntry(Replayed(s, a, k), a[k + 1])
        /\ Replayed(s, b, k + 1) = ReplayEntry(Replayed(s, b, k), b[k + 1])
    BY ONLY k \in Nat, ReplayedByEntry, ZenonT(30)
  <2> QED  BY ONLY <2>1, <2>2
<1> HIDE DEF T
<1>3. n \in T
  BY <1>1, <1>2, SetOfAllNat
<1> QED  BY <1>3 DEF T

----------------------------------------------------------------------------
(* The list of triggers without some of them *)

\* g is the function the definition of Without describes, up to n.
IsKept(g, list, id, n) ==
    g = [i \in 0 .. n |->
            IF i = 0 THEN << >>
            ELSE IF list[i].id = id THEN g[i - 1] ELSE Append(g[i - 1], list[i])]

\* It goes on by one trigger, ...
LEMMA KeptLonger ==
  ASSUME NEW list, NEW id, NEW n \in Nat, NEW g, IsKept(g, list, id, n)
  PROVE  \E h : IsKept(h, list, id, n + 1)
<1> DEFINE last == IF list[n + 1].id = id THEN g[n] ELSE Append(g[n], list[n + 1])
           h == [i \in 0 .. n + 1 |-> IF i = n + 1 THEN last ELSE g[i]]
           one(f, i) == IF list[i].id = id THEN f[i - 1] ELSE Append(f[i - 1], list[i])
<1>1. \A i \in 0 .. n : g[i] = IF i = 0 THEN << >> ELSE one(g, i)
  BY Zenon DEF IsKept
<1>2. h[n + 1] = last /\ \A i \in 0 .. n : h[i] = g[i]
  OBVIOUS
<1>3. ASSUME NEW i \in 0 .. n + 1
      PROVE  h[i] = IF i = 0 THEN << >> ELSE one(h, i)
  <2>1. CASE i = n + 1
    BY <1>2, <2>1
  <2>2. CASE i = 0
    BY <1>1, <1>2, <2>2
  <2>3. CASE i \in 1 .. n
    BY <1>1, <1>2, <2>3
  <2> QED  BY <2>1, <2>2, <2>3
<1>4. h = [i \in 0 .. n + 1 |-> IF i = 0 THEN << >> ELSE one(h, i)]
  BY <1>3, Zenon
<1> HIDE DEF h
<1> QED  BY <1>4, Zenon DEF IsKept

\* kept is made of some of the first k triggers of the list, each once.
KeptOf(list, k, kept) ==
    /\ kept \in Seq(Trigger)
    /\ \A i \in DOMAIN kept : \E m \in 1 .. k : kept[i] = list[m]
    /\ DistinctTriggers(list) => DistinctTriggers(kept)

\* The next trigger may be kept.
LEMMA OneMoreKept ==
  ASSUME NEW list \in Seq(Trigger), NEW k \in Nat, k + 1 <= Len(list), NEW kept, KeptOf(list, k, kept)
  PROVE  KeptOf(list, k + 1, kept) /\ KeptOf(list, k + 1, Append(kept, list[k + 1]))
<1> DEFINE o == list[k + 1]
           more == Append(kept, o)
           n == Len(kept)
<1>1. o \in Trigger /\ kept \in Seq(Trigger) /\ DOMAIN list = 1 .. Len(list)
      /\ \A i \in DOMAIN kept : \E m \in 1 .. k : kept[i] = list[m]
  BY DEF KeptOf
<1>2. /\ more \in Seq(Trigger) /\ n \in Nat /\ DOMAIN kept = 1 .. n /\ DOMAIN more = 1 .. n + 1
      /\ more[n + 1] = o /\ \A i \in 1 .. n : more[i] = kept[i]
  BY <1>1, AppendProperties
<1>3. KeptOf(list, k + 1, kept)
  BY <1>1 DEF KeptOf
<1> HIDE DEF more, n
<1>4. \A i \in DOMAIN more : i = n + 1 \/ i \in DOMAIN kept
  BY <1>2
<1>5. \A i \in DOMAIN more : \E m \in 1 .. k + 1 : more[i] = list[m]
  <2>1. k + 1 \in 1 .. k + 1 /\ \A m \in 1 .. k : m \in 1 .. k + 1
    OBVIOUS
  <2>2. more[n + 1] = list[k + 1]
    BY <1>2
  <2> HIDE DEF o
  <2>3. \A i \in DOMAIN kept : \E m \in 1 .. k + 1 : more[i] = list[m]
    BY ONLY <1>1, <1>2, <2>1, Zenon
  <2> QED  BY ONLY <1>4, <2>1, <2>2, <2>3, Zenon
<1>6. ASSUME DistinctTriggers(list) PROVE DistinctTriggers(more)
  <2>1. DistinctTriggers(kept)
    BY <1>6 DEF KeptOf
  <2>2. \A i \in DOMAIN kept : kept[i].id # o.id
    <3> TAKE i \in DOMAIN kept
    <3>1. PICK m \in 1 .. k : kept[i] = list[m]
      BY <1>1
    <3>2. m \in DOMAIN list /\ k + 1 \in DOMAIN list /\ m # k + 1
      BY <1>1
    <3> QED  BY <1>6, <3>1, <3>2 DEF DistinctTriggers
  <2> QED  BY <1>2, <1>4, <2>1, <2>2, Zenon DEF DistinctTriggers
<1> QED  BY <1>2, <1>3, <1>5, <1>6 DEF KeptOf, more

\* ... and gives a list of some of the triggers.
LEMMA WithoutOK ==
  ASSUME NEW list \in Seq(Trigger), NEW id
  PROVE  KeptOf(list, Len(list), Without(list, id))
<1> DEFINE n == Len(list)
           T == {k \in Nat : \E g : IsKept(g, list, id, k)}
<1>1. n \in Nat /\ \A i \in 1 .. n : list[i] \in Trigger
  OBVIOUS
<1>2. PICK g : IsKept(g, list, id, n)
  <2>1. 0 \in T
    <3>1. IsKept([k \in 0 .. 0 |-> << >>], list, id, 0)  BY DEF IsKept
    <3> QED  BY <3>1
  <2>2. ASSUME NEW k \in Nat, k \in T PROVE k + 1 \in T
    BY <2>2, KeptLonger
  <2> HIDE DEF T
  <2>3. n \in T  BY <1>1, <2>1, <2>2, SetOfAllNat
  <2> QED  BY <2>3 DEF T
<1> DEFINE f == CHOOSE f : IsKept(f, list, id, n)
<1>3. IsKept(f, list, id, n)
  BY <1>2
<1>4. Without(list, id) = f[n]
  BY DEF Without, IsKept
<1> HIDE DEF f, n
<1> DEFINE U == {k \in Nat : k <= n => KeptOf(list, k, f[k])}
<1>5. \A i \in 0 .. n : f[i] = IF i = 0 THEN << >>
                               ELSE IF list[i].id = id THEN f[i - 1]
                               ELSE Append(f[i - 1], list[i])
  BY <1>3, Zenon DEF IsKept
<1>6. 0 \in U
  <2>1. f[0] = << >>
    BY ONLY <1>1, <1>5
  <2>2. KeptOf(list, 0, << >>)
    BY DEF KeptOf, DistinctTriggers
  <2> QED  BY ONLY <2>1, <2>2
<1>7. ASSUME NEW k \in Nat, k \in U PROVE k + 1 \in U
  <2> SUFFICES ASSUME k + 1 <= n PROVE KeptOf(list, k + 1, f[k + 1])
    OBVIOUS
  <2>1. KeptOf(list, k, f[k]) /\ k + 1 <= Len(list)
    BY <1>1, <1>7 DEF n
  <2>2. f[k + 1] = f[k] \/ f[k + 1] = Append(f[k], list[k + 1])
    <3>1. k + 1 \in 0 .. n /\ k + 1 # 0 /\ (k + 1) - 1 = k
      BY <1>1
    <3>2. f[k + 1] = IF list[k + 1].id = id THEN f[(k + 1) - 1]
                     ELSE Append(f[(k + 1) - 1], list[k + 1])
      BY ONLY <1>5, <3>1
    <3> QED  BY ONLY <3>1, <3>2
  <2> QED  BY <2>1, <2>2, OneMoreKept
<1> HIDE DEF U
<1>8. n \in U
  BY <1>1, <1>6, <1>7, SetOfAllNat
<1> QED  BY <1>1, <1>4, <1>8 DEF U, n

----------------------------------------------------------------------------
(* What one entry does *)

\* The engines that replaying goes through.
EngineOK(s) ==
    /\ s \in [book : Book, triggers : Seq(Trigger), made : Nat, cancelled : Nat]
    /\ BookOK(s.book) /\ OwnIds(s.book)

\* The orders that submitOrder processes at once.
Priced == {o \in Order : o.type = "LIMIT" => o.price \in Prices}

\* What the engine writes.
LogEntry == [type : {"submit"}, order : Priced \cup Trigger]
            \cup [type : {"cancel"}, id : Ids]
            \cup [type : {"modify"}, id : Ids, quantity : Nat]
            \cup ActivatedEntry
            \cup [type : {"trade"}, tradeId : Nat]

\* A step of the replay from s to d.
StepsTo(s, d) == EngineOK(d) /\ s.made <= d.made

\* A trigger is no order for the book.
LEMMA TriggerNotPriced ==
  ASSUME NEW o
  PROVE  /\ o \in Trigger => o.type \in TriggerTypes
         /\ o \in Priced => o.type \notin TriggerTypes
BY EngineAssumption DEF Trigger, Priced, Order, Types

\* Each kind of entry leaves an engine that can go on.
LEMMA ReplaySubmitOK ==
  ASSUME NEW s, EngineOK(s), NEW o \in Priced \cup Trigger
  PROVE  StepsTo(s, ReplaySubmit(s, o))
<1> DEFINE done == ProcessOrder(s.book, o)
           d == [s EXCEPT !.book = done.book, !.made = @ + Len(done.trades)]
<1>1. CASE o \in Trigger
  <2>1. ReplaySubmit(s, o) = [s EXCEPT !.triggers = Append(@, o)]
    BY <1>1, TriggerNotPriced DEF ReplaySubmit
  <2>2. Append(s.triggers, o) \in Seq(Trigger)
    BY <1>1, AppendProperties DEF EngineOK
  <2> QED  BY ONLY <2>1, <2>2, EngineOK(s) DEF StepsTo, EngineOK
<1>2. CASE o \in Priced
  <2>1. ReplaySubmit(s, o) = IF s.book.orderMap[o.id] # NoOrder THEN s ELSE d
    BY <1>2, TriggerNotPriced DEF ReplaySubmit
  <2>2. /\ BookOK(done.book) /\ OwnIds(done.book) /\ done.trades \in Seq(PricedTrade)
    BY <1>2, ProcessOrderOK DEF EngineOK, Priced
  <2> HIDE DEF done
  <2>3. done.book \in Book /\ Len(done.trades) \in Nat
    BY <2>2 DEF BookOK
  <2>4. StepsTo(s, d)
    <3>1. s.made \in Nat /\ s.made + Len(done.trades) \in Nat
          /\ s.made <= s.made + Len(done.trades)
      BY <2>3 DEF EngineOK
    <3>2. d.book = done.book /\ d.made = s.made + Len(done.trades)
          /\ d \in [book : Book, triggers : Seq(Trigger), made : Nat, cancelled : Nat]
      BY ONLY <2>3, <3>1, EngineOK(s) DEF EngineOK
    <3> HIDE DEF d
    <3> QED  BY ONLY <2>2, <3>1, <3>2 DEF StepsTo, EngineOK
  <2>5. StepsTo(s, s)
    BY DEF StepsTo, EngineOK
  <2> HIDE DEF d
  <2> QED  BY ONLY <2>1, <2>4, <2>5
<1> QED  BY <1>1, <1>2

\* So for a cancellation, ...
LEMMA ReplayCancelOK ==
  ASSUME NEW s, EngineOK(s), NEW id \in Ids
  PROVE  StepsTo(s, ReplayCancel(s, id)) /\ ReplayCancel(s, id).made = s.made
<1>1. CASE s.book.orderMap[id] = NoOrder
  BY <1>1 DEF ReplayCancel, StepsTo, EngineOK
<1>2. CASE s.book.orderMap[id] # NoOrder
  <2> DEFINE c == CancelOrder(s.book, id)
             d == [s EXCEPT !.book = c, !.cancelled = @ + 1]
  <2>1. ReplayCancel(s, id) = d
    BY <1>2 DEF ReplayCancel
  <2>2. /\ BookOK(c) /\ c.orders = s.book.orders
        /\ \A i \in Ids : c.orderMap[i] = IF i = id THEN NoOrder ELSE s.book.orderMap[i]
    BY <1>2, CancelOrderOK DEF EngineOK
  <2> HIDE DEF c
  <2>3. OwnIds(c)
    BY <2>2 DEF OwnIds, EngineOK
  <2>4. c \in Book
    BY <2>2 DEF BookOK
  <2>5. d \in [book : Book, triggers : Seq(Trigger), made : Nat, cancelled : Nat]
        /\ d.book = c /\ d.made = s.made /\ s.made <= d.made
    <3>1. s.cancelled + 1 \in Nat /\ s.made \in Nat
      BY DEF EngineOK
    <3>2. d.book = c /\ d.made = s.made
      BY ONLY EngineOK(s) DEF EngineOK
    <3>3. d \in [book : Book, triggers : Seq(Trigger), made : Nat, cancelled : Nat]
      BY ONLY <2>4, <3>1, EngineOK(s) DEF EngineOK
    <3> HIDE DEF d
    <3> QED  BY ONLY <3>1, <3>2, <3>3
  <2> HIDE DEF d
  <2> QED  BY ONLY <2>1, <2>2, <2>3, <2>5 DEF StepsTo, EngineOK
<1> QED  BY <1>1, <1>2

\* What a change of quantity keeps of the book.
LEMMA ModifyKeeps ==
  ASSUME NEW b, BookOK(b), OwnIds(b), NEW id \in Ids, b.orderMap[id] # NoOrder, NEW q \in Nat
  PROVE  BookOK(ModifyOrder(b, id, q)) /\ OwnIds(ModifyOrder(b, id, q))
<1> DEFINE c == ModifyOrder(b, id, q)
<1>1. CASE LevelOf(b, b.orderMap[id]) = {}
  BY <1>1 DEF ModifyOrder
<1>2. CASE LevelOf(b, b.orderMap[id]) # {}
  <2>1. BookOK(c) /\ SameOrders(b, c) /\ Modifies(b, id, q, c)
    BY <1>2, ModifyOrderOK
  <2> HIDE DEF c
  <2>2. c.orderMap = b.orderMap
    BY <2>1, ZenonT(30) DEF Modifies
  <2>3. OwnIds(c)
    BY <2>1, <2>2, FewerOwnIds
  <2> QED  BY <2>1, <2>3 DEF c
<1> QED  BY <1>1, <1>2

\* ... a change of quantity, ...
LEMMA ReplayModifyOK ==
  ASSUME NEW s, EngineOK(s), NEW id \in Ids, NEW q \in Nat
  PROVE  StepsTo(s, ReplayModify(s, id, q)) /\ ReplayModify(s, id, q).made = s.made
<1>1. CASE s.book.orderMap[id] = NoOrder
  BY <1>1 DEF ReplayModify, StepsTo, EngineOK
<1>2. CASE s.book.orderMap[id] # NoOrder
  <2> DEFINE c == ModifyOrder(s.book, id, q)
             d == [s EXCEPT !.book = c]
  <2>1. ReplayModify(s, id, q) = d
    BY <1>2 DEF ReplayModify
  <2>2. BookOK(c) /\ OwnIds(c)
    BY <1>2, ModifyKeeps DEF EngineOK
  <2> HIDE DEF c
  <2>4. c \in Book
    BY <2>2 DEF BookOK
  <2>5. d \in [book : Book, triggers : Seq(Trigger), made : Nat, cancelled : Nat]
        /\ d.book = c /\ d.made = s.made /\ s.made <= d.made
    BY ONLY <2>4, EngineOK(s) DEF EngineOK
  <2> HIDE DEF d
  <2> QED  BY ONLY <2>1, <2>2, <2>5 DEF StepsTo, EngineOK
<1> QED  BY <1>1, <1>2

\* ... the firing of a trigger, ...
LEMMA ReplayActivatedOK ==
  ASSUME NEW s, EngineOK(s), NEW id
  PROVE  StepsTo(s, ReplayActivated(s, id))
<1> DEFINE w == Without(s.triggers, id)
<1>1. w \in Seq(Trigger)
  BY WithoutOK DEF EngineOK, KeptOf
<1>2. ReplayActivated(s, id) = [s EXCEPT !.triggers = w]
  BY DEF ReplayActivated
<1> HIDE DEF w
<1> QED  BY ONLY <1>1, <1>2, EngineOK(s) DEF StepsTo, EngineOK

\* Which fields the kinds of entries have.
LEMMA EntryFields ==
  ASSUME NEW e \in LogEntry
  PROVE  \/ e.type = "submit" /\ e.order \in Priced \cup Trigger
         \/ e.type = "cancel" /\ e.id \in Ids
         \/ e.type = "modify" /\ e.id \in Ids /\ e.quantity \in Nat
         \/ e.type = "activated" /\ e.id \in Ids
         \/ e.type = "trade" /\ e.tradeId \in Nat
<1>1. CASE e \in [type : {"submit"}, order : Priced \cup Trigger]
  BY <1>1
<1>2. CASE e \in [type : {"cancel"}, id : Ids]
  BY <1>2
<1>3. CASE e \in [type : {"modify"}, id : Ids, quantity : Nat]
  BY <1>3
<1>4. CASE e \in ActivatedEntry
  BY <1>4 DEF ActivatedEntry
<1>5. CASE e \in [type : {"trade"}, tradeId : Nat]
  BY <1>5
<1> QED  BY <1>1, <1>2, <1>3, <1>4, <1>5 DEF LogEntry

\* ... and so for every entry.
LEMMA ReplayEntryOK ==
  ASSUME NEW s, EngineOK(s), NEW e \in LogEntry
  PROVE  StepsTo(s, ReplayEntry(s, e))
<1>1. CASE e.type = "submit" /\ e.order \in Priced \cup Trigger
  BY <1>1, ReplaySubmitOK DEF ReplayEntry
<1>2. CASE e.type = "cancel" /\ e.id \in Ids
  BY <1>2, ReplayCancelOK DEF ReplayEntry
<1>3. CASE e.type = "modify" /\ e.id \in Ids /\ e.quantity \in Nat
  BY <1>3, ReplayModifyOK DEF ReplayEntry
<1>4. CASE e.type = "activated"
  BY <1>4, ReplayActivatedOK DEF ReplayEntry
<1>5. CASE e.type = "trade"
  <2>1. ReplayEntry(s, e) = s  BY <1>5 DEF ReplayEntry
  <2> QED  BY <2>1 DEF StepsTo, EngineOK
<1> QED  BY <1>1, <1>2, <1>3, <1>4, <1>5, EntryFields

\* An engine that has just been made can go on.
LEMMA NewEngineOK == EngineOK(NewEngine)
<1>1. NewEngine.book = EmptyBook /\ NewEngine.triggers = << >> /\ NewEngine.made = 0
      /\ NewEngine.cancelled = 0 /\ DOMAIN NewEngine = {"book", "triggers", "made", "cancelled"}
  BY DEF NewEngine
<1>2. BookOK(EmptyBook) /\ OwnIds(EmptyBook)
  BY DEF BookOK, Book, EmptyBook, OwnIds, NoOrder, Sides
<1>3. EmptyBook \in Book
  BY <1>2 DEF BookOK
<1>4. NewEngine \in [book : Book, triggers : Seq(Trigger), made : Nat, cancelled : Nat]
  BY <1>3 DEF NewEngine
<1> QED  BY <1>1, <1>2, <1>4 DEF EngineOK

----------------------------------------------------------------------------
(* The log and what replaying a part of it gives *)

\* A line of the log; `cut' and `whole' are what a crash leaves of a last line.
WalLine == LogEntry \cup [type : {"garbled", "cut"}] \cup [type : {"whole"}, entry : LogEntry]

\* A log is a sequence of such lines.
LogOK(log) ==
    /\ log \in Seq(WalLine)
    /\ \A i \in DOMAIN log : log[i].type \in {"cut", "whole"} => i = Len(log)

\* The entry in a line that can be read.
Line(e) == IF e.type = "whole" THEN e.entry ELSE e

\* The first n lines can all be read.
Clear(log, n) == \A i \in 1 .. n : log[i].type \notin {"cut", "garbled"}

\* Among the first n lines there is no firing of a trigger.
Quietly(log, n) == \A i \in 1 .. n : Line(log[i]).type # "activated"

\* The engine after the first n lines.
After(log, n) == Replayed(NewEngine, [i \in DOMAIN log |-> Line(log[i])], n)

\* In a line that can be read there is an entry.
LEMMA LineOK ==
  ASSUME NEW e \in WalLine, e.type \notin {"cut", "garbled"}
  PROVE  Line(e) \in LogEntry
<1>1. CASE e \in LogEntry
  <2>1. e.type # "whole"
    BY <1>1, EntryFields
  <2> QED  BY <1>1, <2>1 DEF Line
<1>2. CASE e \in [type : {"garbled", "cut"}]
  BY <1>2
<1>3. CASE e \in [type : {"whole"}, entry : LogEntry]
  BY <1>3 DEF Line
<1> QED  BY <1>1, <1>2, <1>3 DEF WalLine

\* After, line by line.
LEMMA AfterOne ==
  ASSUME NEW log \in Seq(WalLine)
  PROVE  /\ After(log, 0) = NewEngine
         /\ \A n \in Nat : n + 1 \in DOMAIN log =>
               After(log, n + 1) = ReplayEntry(After(log, n), Line(log[n + 1]))
<1> DEFINE lines == [i \in DOMAIN log |-> Line(log[i])]
<1>1. \A i \in DOMAIN log : lines[i] = Line(log[i])
  OBVIOUS
<1> HIDE DEF lines
<1>2. After(log, 0) = NewEngine
  BY ReplayedByEntry DEF After, lines
<1>3. ASSUME NEW n \in Nat, n + 1 \in DOMAIN log
      PROVE  After(log, n + 1) = ReplayEntry(After(log, n), Line(log[n + 1]))
  <2>1. Replayed(NewEngine, lines, n + 1)
          = ReplayEntry(Replayed(NewEngine, lines, n), lines[n + 1])
    BY ONLY n \in Nat, ReplayedByEntry, Zenon
  <2>2. lines[n + 1] = Line(log[n + 1])
    BY <1>1, <1>3
  <2> QED  BY <2>1, <2>2 DEF After, lines
<1> QED  BY <1>2, <1>3

\* Logs that begin with the same entries.
LEMMA AfterSame ==
  ASSUME NEW a \in Seq(WalLine), NEW b \in Seq(WalLine), NEW n \in Nat,
         n <= Len(a), n <= Len(b), \A i \in 1 .. n : Line(a[i]) = Line(b[i])
  PROVE  After(a, n) = After(b, n)
<1> DEFINE x == [i \in DOMAIN a |-> Line(a[i])]
           y == [i \in DOMAIN b |-> Line(b[i])]
<1>1. \A i \in 1 .. n : x[i] = y[i]
  <2>1. \A i \in 1 .. n : i \in DOMAIN a /\ i \in DOMAIN b
    OBVIOUS
  <2> QED  BY <2>1
<1> HIDE DEF x, y
<1>2. Replayed(NewEngine, x, n) = Replayed(NewEngine, y, n)
  BY ONLY <1>1, n \in Nat, ReplayedSame
<1> QED  BY <1>2 DEF After, x, y

\* What can be read to a line can be read to an earlier one.
LEMMA ClearLess ==
  ASSUME NEW log, NEW n \in Nat, Clear(log, n), NEW k \in Nat, k <= n
  PROVE  Clear(log, k)
BY DEF Clear

\* Replaying what can be read leaves an engine that can go on.
LEMMA AfterOK ==
  ASSUME NEW log, LogOK(log), NEW n \in Nat, n <= Len(log), Clear(log, n)
  PROVE  EngineOK(After(log, n))
<1> DEFINE T == {k \in Nat : k <= n => EngineOK(After(log, k))}
<1>1. 0 \in T
  <2>1. After(log, 0) = NewEngine
    BY AfterOne DEF LogOK
  <2> QED  BY ONLY <2>1, NewEngineOK
<1>2. ASSUME NEW k \in Nat, k \in T PROVE k + 1 \in T
  <2> SUFFICES ASSUME k + 1 <= n PROVE EngineOK(After(log, k + 1))
    OBVIOUS
  <2>1. k + 1 \in DOMAIN log /\ k + 1 \in 1 .. n /\ log[k + 1] \in WalLine
    BY DEF LogOK
  <2>2. Line(log[k + 1]) \in LogEntry
    BY <2>1, LineOK DEF Clear
  <2>3. After(log, k + 1) = ReplayEntry(After(log, k), Line(log[k + 1]))
    BY ONLY k \in Nat, <2>1, LogOK(log), AfterOne DEF LogOK
  <2>4. EngineOK(After(log, k))
    BY <1>2
  <2> QED  BY ONLY <2>2, <2>3, <2>4, ReplayEntryOK DEF StepsTo
<1> HIDE DEF T
<1>3. n \in T
  BY <1>1, <1>2, SetOfAllNat
<1> QED  BY <1>3 DEF T

\* The counter of trade ids only grows.
LEMMA MadeGrows ==
  ASSUME NEW log, LogOK(log), NEW n \in Nat, n <= Len(log), Clear(log, n),
         NEW k \in Nat, k <= n
  PROVE  After(log, k).made <= After(log, n).made
<1> DEFINE T == {d \in Nat : k + d <= n => After(log, k).made <= After(log, k + d).made}
<1>0. \A j \in Nat : j <= n => After(log, j).made \in Nat
  <2> TAKE j \in Nat
  <2> HAVE j <= n
  <2>1. Clear(log, j) /\ j <= Len(log)
    BY ClearLess DEF LogOK
  <2>2. EngineOK(After(log, j))
    BY <2>1, AfterOK
  <2> QED  BY <2>2 DEF EngineOK
<1>1. 0 \in T
  <2>1. k + 0 = k  OBVIOUS
  <2> QED  BY <1>0, <2>1
<1>2. ASSUME NEW d \in Nat, d \in T PROVE d + 1 \in T
  <2> SUFFICES ASSUME k + (d + 1) <= n PROVE After(log, k).made <= After(log, k + (d + 1)).made
    OBVIOUS
  <2> DEFINE m == k + d
  <2>0. m \in Nat /\ m + 1 = k + (d + 1) /\ m + 1 <= n /\ m <= n /\ m <= Len(log)
    BY DEF LogOK
  <2>1. After(log, k).made <= After(log, m).made
    BY <1>2, <2>0
  <2> HIDE DEF m
  <2>2. m + 1 \in DOMAIN log /\ m + 1 \in 1 .. n /\ log[m + 1] \in WalLine
    BY <2>0 DEF LogOK
  <2>3. Line(log[m + 1]) \in LogEntry
    BY <2>2, LineOK DEF Clear
  <2>4. After(log, m + 1) = ReplayEntry(After(log, m), Line(log[m + 1]))
    BY ONLY <2>0, <2>2, LogOK(log), AfterOne DEF LogOK
  <2>5. EngineOK(After(log, m))
    BY <2>0, ClearLess, AfterOK
  <2>6. After(log, m).made <= After(log, m + 1).made
    BY ONLY <2>3, <2>4, <2>5, ReplayEntryOK DEF StepsTo
  <2>7. After(log, k).made \in Nat /\ After(log, m).made \in Nat /\ After(log, m + 1).made \in Nat
    BY <1>0, <2>0
  <2>8. After(log, k).made <= After(log, m + 1).made
    BY ONLY <2>1, <2>6, <2>7
  <2> QED  BY <2>0, <2>8
<1> HIDE DEF T
<1>3. n - k \in T
  <2>1. n - k \in Nat  OBVIOUS
  <2> QED  BY <1>1, <1>2, <2>1, SetOfAllNat
<1>4. k + (n - k) = n /\ k + (n - k) <= n
  OBVIOUS
<1> QED  BY <1>3, <1>4 DEF T

----------------------------------------------------------------------------
(* The part that can be read *)

\* Some log line that cannot be read is the first of them.
LEMMA FirstBad ==
  ASSUME NEW S \in SUBSET Nat, S # {}
  PROVE  Min(S) \in S /\ \A x \in S : Min(S) <= x
<1> DEFINE R == OpToRel(<, Nat)
<1>1. PICK x \in S : \A y \in S : ~(<<y, x>> \in R)
  <2>1. IsWellFoundedOn(R, Nat)  BY NatLessThanWellFounded
  <2> HIDE DEF R
  <2> QED  BY <2>1, WFMin
<1>2. \A y \in S : x <= y
  <2> TAKE y \in S
  <2>1. ~(y < x)  BY <1>1 DEF OpToRel
  <2> QED  BY <2>1
<1> QED  BY <1>1, <1>2 DEF Min

\* Readable gives the entries of the lines up to the first that cannot be read.
LEMMA ReadableOK ==
  ASSUME NEW log, LogOK(log)
  PROVE  LET n == Len(Readable(log)) IN
         /\ n \in Nat /\ n <= Len(log) /\ Clear(log, n)
         /\ \A k \in Nat : k <= Len(log) /\ Clear(log, k) => k <= n
         /\ Readable(log) = [i \in 1 .. n |-> Line(log[i])]
<1> DEFINE bad == {i \in DOMAIN log : log[i].type \in {"cut", "garbled"}}
           m == IF bad = {} THEN Len(log) ELSE Min(bad) - 1
           lines == SubSeq(log, 1, m)
           r == [i \in DOMAIN lines |-> IF lines[i].type = "whole" THEN lines[i].entry ELSE lines[i]]
<1>0. log \in Seq(WalLine) /\ Len(log) \in Nat /\ DOMAIN log = 1 .. Len(log)
  BY DEF LogOK
<1>1. /\ m \in Nat /\ m <= Len(log)
      /\ \A i \in 1 .. m : log[i].type \notin {"cut", "garbled"}
      /\ m < Len(log) => m + 1 \in bad
  <2>1. CASE bad = {}
    BY <1>0, <2>1
  <2>2. CASE bad # {}
    <3>1. bad \in SUBSET Nat
      BY <1>0
    <3>2. Min(bad) \in bad /\ \A x \in bad : Min(bad) <= x
      BY <2>2, <3>1, FirstBad
    <3>3. Min(bad) \in 1 .. Len(log) /\ m = Min(bad) - 1 /\ m + 1 = Min(bad)
      BY <1>0, <2>2, <3>2
    <3> HIDE DEF m
    <3>4. ASSUME NEW i \in 1 .. m PROVE i \in DOMAIN log /\ i \notin bad
      <4>1. i \in DOMAIN log /\ i < Min(bad) /\ Min(bad) \in Nat
        BY ONLY <1>0, <3>3, i \in 1 .. m
      <4>2. i \notin bad
        <5>1. SUFFICES ASSUME i \in bad PROVE FALSE
          OBVIOUS
        <5>2. Min(bad) <= i
          BY ONLY <3>2, <5>1
        <5> QED  BY ONLY <4>1, <5>2, i \in 1 .. m, <3>3, <1>0
      <4> QED  BY <4>1, <4>2
    <3>5. \A i \in 1 .. m : log[i].type \notin {"cut", "garbled"}
      BY <3>4
    <3> QED  BY <1>0, <3>2, <3>3, <3>5
  <2> QED  BY <2>1, <2>2
<1>2. Readable(log) = r
  BY DEF Readable
<1> HIDE DEF bad
<1>3. lines = [i \in 1 .. m |-> log[i]]
  <2> HIDE DEF m
  <2> QED  BY <1>0, <1>1
<1> HIDE DEF m
<1>4. r = [i \in 1 .. m |-> Line(log[i])]
  BY <1>3 DEF Line
<1> HIDE DEF r
<1>5. Len(r) = m
  BY <1>1, <1>4
<1>6. Clear(log, m)
  BY <1>1 DEF Clear
<1>7. ASSUME NEW k \in Nat, k <= Len(log), Clear(log, k)
      PROVE  k <= m
  <2>1. SUFFICES ASSUME m < k PROVE FALSE
    BY <1>1
  <2>2. m + 1 \in bad /\ m + 1 \in 1 .. k
    BY <1>0, <1>1, <1>7, <2>1
  <2> QED  BY <1>7, <2>2 DEF Clear, bad
<1> QED  BY <1>1, <1>2, <1>4, <1>5, <1>6, <1>7

\* Replaying a log into a new engine stops there.
LEMMA ReplayIsAfter ==
  ASSUME NEW log, LogOK(log)
  PROVE  Replay(NewEngine, log) = After(log, Len(Readable(log)))
<1> DEFINE n == Len(Readable(log))
           x == [i \in DOMAIN log |-> Line(log[i])]
<1>1. n \in Nat /\ n <= Len(log) /\ Readable(log) = [i \in 1 .. n |-> Line(log[i])]
  BY ReadableOK
<1> HIDE DEF n
<1>2. \A i \in 1 .. n : Readable(log)[i] = x[i]
  BY <1>1 DEF LogOK
<1> HIDE DEF x
<1>3. Replayed(NewEngine, Readable(log), n) = Replayed(NewEngine, x, n)
  BY ONLY <1>1, <1>2, ReplayedSame
<1> QED  BY <1>3 DEF Replay, After, n, x

----------------------------------------------------------------------------
(* The inductive invariant *)

\* The book, the triggers and the counters are sound enough to go on with.
LiveOK ==
    /\ BookOK(book) /\ OwnIds(book)
    /\ triggers \in Seq(Trigger) /\ tradeIds \in Nat /\ tradeSeq \in Nat

\* The calls in progress have trades to publish when they publish.
CallsOK ==
    /\ DOMAIN thr = Threads
    /\ \A t \in Threads :
          /\ DOMAIN thr[t] = {"pc", "trades", "callbacks", "update"}
          /\ thr[t].trades \in Seq(Published)
          /\ thr[t].pc \in {"publish", "notify"} => thr[t].trades # << >>

\* While all of the log can be replayed, that gives the engine as it is.
Current ==
    Intact(wal) /\ NoneFired(wal) =>
        LET s == After(wal, Len(wal))
        IN  s.book = book /\ s.triggers = triggers /\ s.made = tradeIds

\* The trades in the first n lines of the log have ids that the replay of those
\* lines has spent, each its own.
Traded(log, n) ==
    /\ \A i \in 1 .. n : Line(log[i]).type = "trade" =>
            Line(log[i]).tradeId \in 1 .. After(log, n).made
    /\ \A i, j \in 1 .. n :
            Line(log[i]).type = "trade" /\ Line(log[j]).type = "trade"
                /\ Line(log[i]).tradeId = Line(log[j]).tradeId => i = j

\* What is known of the first n lines, if they can be read and no trigger fired.
Traces(n) ==
    Clear(wal, n) /\ Quietly(wal, n) =>
        LET s == After(wal, n)
        IN  past[n] = View(s.book, s.triggers) /\ s.made <= tradeIds /\ Traded(wal, n)

\* The log, its replay and the history agree.
LogGood ==
    /\ LogOK(wal) /\ Current
    /\ DOMAIN past = 0 .. Len(wal) /\ past[Len(wal)] = View(book, triggers)
    /\ \A n \in 0 .. Len(wal) : Traces(n)

\* The trades that the call r has still to publish.
InHand(r) == {k \in DOMAIN r.trades : r.pc \in {"publish", "notify"} /\ k >= FirstLeft(r)}

\* Their ids are spent, each its own, and not in the log yet.
Pending ==
    /\ \A t \in Threads : \A k \in InHand(thr[t]) : thr[t].trades[k].tradeId \in 1 .. tradeIds
    /\ \A t, u \in Threads : \A k \in InHand(thr[t]), l \in InHand(thr[u]) :
          thr[t].trades[k].tradeId = thr[u].trades[l].tradeId => t = u /\ k = l
    /\ Intact(wal) /\ NoneFired(wal) =>
          \A t \in Threads : \A k \in InHand(thr[t]) : \A i \in DOMAIN wal :
              Line(wal[i]).type = "trade" => Line(wal[i]).tradeId # thr[t].trades[k].tradeId

\* The inductive invariant.
RecoveryInv == LiveOK /\ CallsOK /\ LogGood /\ Pending

----------------------------------------------------------------------------
(* How the log grows and what a crash leaves of it *)

\* new is old with the entries appended; on a line without its newline the
\* first of them is lost with the line.
Grown(old, new, entries) ==
    \/ /\ ~Unterminated(old)
       /\ Len(new) = Len(old) + Len(entries)
       /\ \A i \in 1 .. Len(old) : new[i] = old[i]
       /\ \A j \in 1 .. Len(entries) : new[Len(old) + j] = entries[j]
    \/ /\ old # << >>
       /\ Len(new) = Len(old) - 1 + Len(entries)
       /\ \A i \in 1 .. Len(old) - 1 : new[i] = old[i]
       /\ new[Len(old)] = Garbled

\* The log without its last line.
LEMMA FrontLines ==
  ASSUME NEW S, NEW log \in Seq(S), log # << >>
  PROVE  /\ Front(log) \in Seq(S) /\ Len(Front(log)) = Len(log) - 1
         /\ \A i \in 1 .. Len(log) - 1 : Front(log)[i] = log[i]
         /\ Len(log) \in Nat \ {0} /\ Last(log) = log[Len(log)] /\ Last(log) \in S
<1>1. Len(log) \in Nat \ {0} /\ \A i \in 1 .. Len(log) : log[i] \in S
  OBVIOUS
<1> DEFINE n == Len(log) - 1
<1>2. n \in Int /\ 1 \in Int /\ (\A i \in 1 .. n : log[i] \in S) /\ n - 1 + 1 = n
      /\ (~(1 <= n) => n = 0) /\ \A i \in 1 .. n : 1 + i - 1 = i
  <2>1. n \in Int /\ 1 \in Int /\ n - 1 + 1 = n /\ (~(1 <= n) => n = 0)
    <3>1. PICK m \in Nat \ {0} : Len(log) = m
      BY <1>1
    <3>2. n = m - 1
      BY <3>1
    <3> HIDE DEF n
    <3> QED  BY ONLY <3>2, m \in Nat \ {0}
  <2>2. ASSUME NEW i \in 1 .. n PROVE log[i] \in S /\ 1 + i - 1 = i
    <3>1. i \in 1 .. Len(log) /\ i \in Nat
      BY ONLY <1>1, i \in 1 .. n
    <3>2. 1 + i - 1 = i
      BY ONLY <3>1
    <3> QED  BY <1>1, <3>1, <3>2
  <2> QED  BY <2>1, <2>2
<1> HIDE DEF n
<1>3. /\ SubSeq(log, 1, n) \in Seq(S)
      /\ Len(SubSeq(log, 1, n)) = IF 1 <= n THEN n - 1 + 1 ELSE 0
      /\ \A i \in 1 .. n - 1 + 1 : SubSeq(log, 1, n)[i] = log[1 + i - 1]
  BY ONLY <1>2, SubSeqProperties
<1>4. Front(log) = SubSeq(log, 1, n)
  BY DEF Front, n
<1>5. Len(SubSeq(log, 1, n)) = n /\ \A i \in 1 .. n : SubSeq(log, 1, n)[i] = log[i]
  BY ONLY <1>2, <1>3
<1> QED  BY <1>1, <1>3, <1>4, <1>5 DEF n, Last

\* The lines a crash makes are no entries.
LEMMA LineTypes ==
  /\ LogEntry \subseteq WalLine
  /\ Garbled \in WalLine /\ [type |-> "cut"] \in WalLine
  /\ \A e \in LogEntry : e.type \notin {"cut", "whole", "garbled"}
                         /\ [type |-> "whole", entry |-> e] \in WalLine
<1>1. Garbled \in [type : {"garbled", "cut"}] /\ [type |-> "cut"] \in [type : {"garbled", "cut"}]
  BY DEF Garbled
<1>2. ASSUME NEW e \in LogEntry
      PROVE  e.type \notin {"cut", "whole", "garbled"}
             /\ [type |-> "whole", entry |-> e] \in WalLine
  <2>1. e.type \notin {"cut", "whole", "garbled"}
    BY EntryFields
  <2>2. [type |-> "whole", entry |-> e] \in [type : {"whole"}, entry : LogEntry]
    OBVIOUS
  <2> QED  BY <2>1, <2>2 DEF WalLine
<1> QED  BY <1>1, <1>2 DEF WalLine

\* Appending the entries to a log that ends with its newline, ...
LEMMA GrownWhole ==
  ASSUME NEW old, LogOK(old), ~Unterminated(old),
         NEW entries \in Seq(LogEntry), NEW new, new = old \o entries
  PROVE  LogOK(new) /\ Grown(old, new, entries)
<1>1. old \in Seq(WalLine) /\ entries \in Seq(WalLine)
      /\ Len(old) \in Nat /\ Len(entries) \in Nat
  BY LineTypes DEF LogOK
<1>2. /\ new \in Seq(WalLine) /\ Len(new) = Len(old) + Len(entries)
      /\ \A i \in 1 .. Len(old) + Len(entries) :
            new[i] = IF i <= Len(old) THEN old[i] ELSE entries[i - Len(old)]
  BY ONLY <1>1, new = old \o entries, ConcatProperties
<1>3. /\ \A i \in 1 .. Len(old) : new[i] = old[i]
      /\ \A j \in 1 .. Len(entries) : new[Len(old) + j] = entries[j]
  <2>1. ASSUME NEW i \in 1 .. Len(old) PROVE new[i] = old[i]
    BY ONLY <1>1, <1>2, i \in 1 .. Len(old)
  <2>2. ASSUME NEW j \in 1 .. Len(entries) PROVE new[Len(old) + j] = entries[j]
    <3> DEFINE i == Len(old) + j
    <3>1. i \in 1 .. Len(old) + Len(entries) /\ ~(i <= Len(old)) /\ i - Len(old) = j
      BY ONLY <1>1, j \in 1 .. Len(entries)
    <3> HIDE DEF i
    <3>2. new[i] = entries[j]
      BY ONLY <1>2, <3>1
    <3> QED  BY <3>2 DEF i
  <2> QED  BY <2>1, <2>2
<1>4. ASSUME NEW i \in DOMAIN new PROVE new[i].type \notin {"cut", "whole"}
  <2>0. i \in 1 .. Len(old) + Len(entries)
    BY <1>2
  <2>1. CASE i <= Len(old)
    <3>1. i \in 1 .. Len(old) /\ i \in DOMAIN old /\ new[i] = old[i]
      BY <1>1, <1>3, <2>0, <2>1
    <3>2. i = Len(old) => old[i] = Last(old) /\ old # << >>
      BY <1>1, <3>1 DEF Last
    <3> QED  BY <3>1, <3>2 DEF LogOK, Unterminated
  <2>2. CASE ~(i <= Len(old))
    <3>1. i - Len(old) \in 1 .. Len(entries) /\ new[i] = entries[i - Len(old)]
      BY ONLY <1>1, <1>2, <2>0, <2>2
    <3>2. entries[i - Len(old)] \in LogEntry
      BY <3>1
    <3> QED  BY <3>1, <3>2, LineTypes
  <2> QED  BY <2>1, <2>2
<1>5. LogOK(new)
  BY <1>2, <1>4 DEF LogOK
<1> QED  BY <1>2, <1>3, <1>5 DEF Grown

\* ... and to one that does not.
LEMMA GrownGarbled ==
  ASSUME NEW old, LogOK(old), Unterminated(old),
         NEW entries \in Seq(LogEntry), entries # << >>,
         NEW new, new = Front(old) \o <<Garbled>> \o Tail(entries)
  PROVE  LogOK(new) /\ Grown(old, new, entries)
<1> DEFINE f == Front(old)
           g == f \o <<Garbled>>
           r == Tail(entries)
<1>1. old \in Seq(WalLine) /\ old # << >>
  BY DEF LogOK, Unterminated
<1>2. /\ f \in Seq(WalLine) /\ Len(f) = Len(old) - 1
      /\ \A i \in 1 .. Len(old) - 1 : f[i] = old[i]
      /\ Len(old) \in Nat \ {0}
  BY <1>1, FrontLines
<1>3. /\ r \in Seq(WalLine) /\ Len(r) = Len(entries) - 1 /\ Len(r) \in Nat
      /\ \A j \in 1 .. Len(r) : r[j] \in LogEntry
  <2>1. r \in Seq(LogEntry) /\ Len(r) = Len(entries) - 1
    BY HeadTailProperties
  <2>2. Len(r) \in Nat /\ \A j \in 1 .. Len(r) : r[j] \in LogEntry
    BY ONLY <2>1, LenProperties, ElementOfSeq
  <2> QED  BY <2>1, <2>2, LineTypes
<1> HIDE DEF f, r
<1>4. <<Garbled>> \in Seq(WalLine) /\ Len(<<Garbled>>) = 1 /\ <<Garbled>>[1] = Garbled
  BY LineTypes
<1>5. /\ g \in Seq(WalLine) /\ Len(g) = Len(old)
      /\ \A i \in 1 .. Len(old) : g[i] = IF i < Len(old) THEN old[i] ELSE Garbled
  <2> DEFINE one == <<Garbled>>
  <2>0. one \in Seq(WalLine) /\ Len(one) = 1 /\ one[1] = Garbled
    BY <1>4
  <2> HIDE DEF one
  <2>1. /\ f \o one \in Seq(WalLine) /\ Len(f \o one) = Len(f) + Len(one)
        /\ \A i \in 1 .. Len(f) + Len(one) :
              (f \o one)[i] = IF i <= Len(f) THEN f[i] ELSE one[i - Len(f)]
    BY ONLY <1>2, <2>0, ConcatProperties, Zenon
  <2>2. Len(f) + Len(one) = Len(old)
    BY ONLY <1>2, <2>0
  <2>3. ASSUME NEW i \in 1 .. Len(old)
        PROVE  (f \o one)[i] = IF i < Len(old) THEN old[i] ELSE Garbled
    <3>1. CASE i < Len(old)
      <4>1. i <= Len(f) /\ i \in 1 .. Len(old) - 1
        BY ONLY <1>2, <3>1, i \in 1 .. Len(old)
      <4> QED  BY ONLY <1>2, <2>1, <2>2, <3>1, <4>1, i \in 1 .. Len(old)
    <3>2. CASE ~(i < Len(old))
      <4>1. ~(i <= Len(f)) /\ i - Len(f) = 1
        BY ONLY <1>2, <3>2, i \in 1 .. Len(old)
      <4> QED  BY ONLY <2>0, <2>1, <2>2, <3>2, <4>1, i \in 1 .. Len(old)
    <3> QED  BY <3>1, <3>2
  <2> QED  BY <2>1, <2>2, <2>3 DEF one
<1>6. new = g \o r
  BY DEF f, r
<1> HIDE DEF g
<1>7. /\ new \in Seq(WalLine) /\ Len(new) = Len(g) + Len(r)
      /\ \A i \in 1 .. Len(g) + Len(r) : new[i] = IF i <= Len(g) THEN g[i] ELSE r[i - Len(g)]
  BY ONLY <1>3, <1>5, <1>6, ConcatProperties
<1>8. Len(new) = Len(old) - 1 + Len(entries)
  BY ONLY <1>2, <1>3, <1>5, <1>7, Len(entries) \in Nat
<1>9. ASSUME NEW i \in 1 .. Len(old)
      PROVE  new[i] = IF i < Len(old) THEN old[i] ELSE Garbled
  <2>1. i \in 1 .. Len(g) + Len(r) /\ i <= Len(g)
    BY ONLY <1>2, <1>3, <1>5, i \in 1 .. Len(old)
  <2> QED  BY ONLY <1>5, <1>7, <2>1, i \in 1 .. Len(old)
<1>10. Grown(old, new, entries)
  <2>1. \A i \in 1 .. Len(old) - 1 : new[i] = old[i]
    <3> TAKE i \in 1 .. Len(old) - 1
    <3>1. i \in 1 .. Len(old) /\ i < Len(old)
      BY ONLY <1>2, i \in 1 .. Len(old) - 1
    <3> QED  BY <1>9, <3>1
  <2>2. Len(old) \in 1 .. Len(old) /\ ~(Len(old) < Len(old))
    BY ONLY <1>2
  <2>3. new[Len(old)] = Garbled
    BY <1>9, <2>2
  <2> QED  BY <1>1, <1>8, <2>1, <2>3 DEF Grown
<1>11. ASSUME NEW i \in DOMAIN new PROVE new[i].type \notin {"cut", "whole"}
  <2>0. i \in 1 .. Len(g) + Len(r)
    BY <1>7
  <2>1. CASE i < Len(old)
    <3>1. i \in 1 .. Len(old) /\ i \in DOMAIN old /\ i # Len(old)
      BY <1>1, <1>2, <2>0, <2>1
    <3> QED  BY <1>9, <2>1, <3>1 DEF LogOK
  <2>2. CASE i = Len(old)
    <3>1. i \in 1 .. Len(old)
      BY <1>2, <2>2
    <3> QED  BY <1>9, <2>2, <3>1, SMTT(30) DEF Garbled
  <2>3. CASE i > Len(old)
    <3>0. Len(g) \in Nat /\ i > Len(g) /\ Len(r) \in Nat
      BY ONLY <1>2, <1>3, <1>5, <2>3
    <3>2. i - Len(g) \in 1 .. Len(r) /\ ~(i <= Len(g))
      BY ONLY <2>0, <3>0
    <3>1. i - Len(g) \in 1 .. Len(r) /\ new[i] = r[i - Len(g)]
      BY ONLY <1>7, <2>0, <3>2
    <3> QED  BY <1>3, <3>1, LineTypes
  <2>4. i < Len(old) \/ i = Len(old) \/ i > Len(old)
    BY ONLY <1>2, <1>5, <2>0
  <2> QED  BY <2>1, <2>2, <2>3, <2>4
<1>12. LogOK(new)
  BY <1>7, <1>11 DEF LogOK
<1> QED  BY <1>10, <1>12

\* What logging does.
LEMMA LogGrows ==
  ASSUME LogOK(wal), WalEnabled, NEW entries \in Seq(LogEntry), entries # << >>, Log(entries)
  PROVE  LogOK(wal') /\ Grown(wal, wal', entries)
<1>1. CASE Unterminated(wal)
  <2>1. wal' = Front(wal) \o <<Garbled>> \o Tail(entries)
    BY <1>1 DEF Log
  <2> QED  BY ONLY <1>1, <2>1, LogOK(wal), entries \in Seq(LogEntry), entries # << >>, GrownGarbled
<1>2. CASE ~Unterminated(wal)
  <2>1. wal' = wal \o entries
    BY <1>2 DEF Log
  <2> QED  BY ONLY <1>2, <2>1, LogOK(wal), entries \in Seq(LogEntry), GrownWhole
<1> QED  BY <1>1, <1>2

\* What a crash leaves of the log says the same as the log, as far as it can be
\* read.
LEMMA LeftOverOK ==
  ASSUME LogOK(wal), wal # << >>, NEW log \in LeftOver
  PROVE  /\ LogOK(log) /\ Len(log) <= Len(wal)
         /\ \A i \in 1 .. Len(log) : log[i].type \in {"cut", "garbled"} \/ Line(log[i]) = Line(wal[i])
         /\ \A i \in 1 .. Len(log) : wal[i].type \in {"cut", "garbled"} =>
                                        log[i].type \in {"cut", "garbled"}
<1> DEFINE rest == Front(wal)
           last == Last(wal)
<1>1. wal \in Seq(WalLine)
  BY DEF LogOK
<1>2. /\ rest \in Seq(WalLine) /\ Len(rest) = Len(wal) - 1
      /\ \A i \in 1 .. Len(wal) - 1 : rest[i] = wal[i]
      /\ Len(wal) \in Nat \ {0} /\ last = wal[Len(wal)] /\ last \in WalLine
  BY <1>1, FrontLines
<1>3. \/ log = wal
      \/ log = rest
      \/ /\ last.type \notin {"cut", "garbled", "whole"}
         /\ \/ log = Append(rest, [type |-> "cut"])
            \/ log = Append(rest, [type |-> "whole", entry |-> last])
  BY DEF LeftOver
<1> HIDE DEF rest, last
<1>4. CASE log = wal
  BY <1>1, <1>2, <1>4
<1>5. \A i \in 1 .. Len(rest) : /\ i \in DOMAIN wal /\ i \in 1 .. Len(wal) - 1 /\ i # Len(wal)
                                /\ rest[i] = wal[i] /\ rest[i].type \notin {"cut", "whole"}
  BY <1>1, <1>2 DEF LogOK
<1>6. CASE log = rest
  <2>2. Len(log) <= Len(wal)
    BY ONLY <1>2, <1>6
  <2>1. \A i \in DOMAIN log : log[i].type \notin {"cut", "whole"}
    BY <1>2, <1>5, <1>6
  <2>3. LogOK(log)
    BY <1>2, <1>6, <2>1 DEF LogOK
  <2>4. \A i \in 1 .. Len(log) : log[i] = wal[i]
    BY ONLY <1>5, <1>6
  <2> QED  BY ONLY <2>2, <2>3, <2>4
<1>7. ASSUME NEW x \in WalLine, log = Append(rest, x), last.type \notin {"cut", "garbled", "whole"},
             x = [type |-> "cut"] \/ x = [type |-> "whole", entry |-> last]
      PROVE  /\ LogOK(log) /\ Len(log) <= Len(wal)
             /\ \A i \in 1 .. Len(log) : log[i].type \in {"cut", "garbled"} \/ Line(log[i]) = Line(wal[i])
             /\ \A i \in 1 .. Len(log) : wal[i].type \in {"cut", "garbled"} =>
                                            log[i].type \in {"cut", "garbled"}
  <2>1. /\ log \in Seq(WalLine) /\ Len(log) = Len(rest) + 1 /\ log[Len(rest) + 1] = x
        /\ \A i \in 1 .. Len(rest) : log[i] = rest[i]
    BY ONLY <1>2, <1>7, AppendProperties
  <2>2. Len(log) = Len(wal) /\ Len(log) = Len(rest) + 1 /\ log[Len(wal)] = x
    BY ONLY <1>2, <2>1
  <2>3. \A i \in 1 .. Len(log) : i \in 1 .. Len(rest) \/ i = Len(wal)
    BY ONLY <1>2, <2>2
  <2>4. LogOK(log)
    <3>1. ASSUME NEW i \in DOMAIN log, log[i].type \in {"cut", "whole"}
          PROVE  i = Len(log)
      <4>1. i \in 1 .. Len(log)
        BY <2>1
      <4> QED  BY <1>5, <2>1, <2>2, <2>3, <3>1, <4>1
    <3> QED  BY <2>1, <3>1 DEF LogOK
  <2>5. x.type = "cut" \/ Line(x) = Line(last)
    BY <1>7 DEF Line
  <2>6. ASSUME NEW i \in 1 .. Len(log)
        PROVE  /\ log[i].type \in {"cut", "garbled"} \/ Line(log[i]) = Line(wal[i])
               /\ wal[i].type \in {"cut", "garbled"} => log[i].type \in {"cut", "garbled"}
    <3>1. CASE i \in 1 .. Len(rest)
      BY <1>5, <2>1, <3>1
    <3>2. CASE i = Len(wal)
      BY <1>2, <1>7, <2>2, <2>5, <3>2
    <3> QED  BY <2>3, <3>1, <3>2
  <2>7. Len(log) <= Len(wal)
    BY ONLY <1>2, <2>2
  <2> QED  BY <2>4, <2>6, <2>7
<1>8. CASE log = Append(rest, [type |-> "cut"]) /\ last.type \notin {"cut", "garbled", "whole"}
  <2>1. [type |-> "cut"] \in WalLine
    BY LineTypes
  <2> QED  BY <1>7, <1>8, <2>1
<1>9. CASE /\ log = Append(rest, [type |-> "whole", entry |-> last])
           /\ last.type \notin {"cut", "garbled", "whole"}
  <2>1. Line(last) = last /\ last \in LogEntry
    BY <1>2, <1>9, LineOK DEF Line
  <2>2. [type |-> "whole", entry |-> last] \in WalLine
    BY <2>1, LineTypes
  <2> QED  BY <1>7, <1>9, <2>2
<1> QED  BY <1>3, <1>4, <1>6, <1>8, <1>9

----------------------------------------------------------------------------
(* The log and the history, by what a step writes *)

\* How RecoveryNext goes on with the history.
NewPast == past' = [n \in 0 .. Len(wal') |->
                       IF n < Len(wal') /\ n \in DOMAIN past THEN past[n]
                       ELSE View(book', triggers')]

\* The history, number by number.
LEMMA PastParts ==
  ASSUME LogGood, NewPast, Len(wal') \in Nat
  PROVE  /\ DOMAIN past' = 0 .. Len(wal') /\ past'[Len(wal')] = View(book', triggers')
         /\ \A n \in 0 .. Len(wal') : n < Len(wal') /\ n <= Len(wal) => past'[n] = past[n]
<1>1. DOMAIN past = 0 .. Len(wal) /\ Len(wal) \in Nat
  BY DEF LogGood, LogOK
<1>2. \A n \in 0 .. Len(wal') : past'[n] = IF n < Len(wal') /\ n \in DOMAIN past THEN past[n]
                                            ELSE View(book', triggers')
  BY DEF NewPast
<1>3. DOMAIN past' = 0 .. Len(wal')
  BY DEF NewPast
<1>4. Len(wal') \in 0 .. Len(wal') /\ ~(Len(wal') < Len(wal'))
  OBVIOUS
<1>5. past'[Len(wal')] = View(book', triggers')
  BY ONLY <1>2, <1>4
<1>6. ASSUME NEW n \in 0 .. Len(wal'), n < Len(wal'), n <= Len(wal)
      PROVE  past'[n] = past[n]
  <2>1. n \in DOMAIN past
    BY ONLY <1>1, <1>6, n \in 0 .. Len(wal')
  <2> QED  BY ONLY <1>2, <1>6, <2>1
<1> QED  BY <1>3, <1>5, <1>6

\* Two logs, of which b cannot be read where a cannot, agree where b can be read.
Agree(a, b, n) ==
    \A i \in 1 .. n : /\ b[i].type \in {"cut", "garbled"} \/ Line(b[i]) = Line(a[i])
                      /\ a[i].type \in {"cut", "garbled"} => b[i].type \in {"cut", "garbled"}

\* Their replays agree as well.
LEMMA AgreeAfter ==
  ASSUME NEW a, LogOK(a), NEW b, LogOK(b), NEW n \in Nat, n <= Len(a), n <= Len(b),
         Agree(a, b, n), Clear(b, n)
  PROVE  /\ Clear(a, n) /\ After(b, n) = After(a, n)
         /\ Quietly(b, n) <=> Quietly(a, n)
         /\ Traded(b, n) <=> Traded(a, n)
<1>1. \A i \in 1 .. n : Line(a[i]) = Line(b[i])
  BY DEF Agree, Clear
<1>2. Clear(a, n)
  BY DEF Agree, Clear
<1>3. After(b, n) = After(a, n)
  <2>1. a \in Seq(WalLine) /\ b \in Seq(WalLine)
    BY DEF LogOK
  <2> QED  BY ONLY <1>1, <2>1, n \in Nat, n <= Len(a), n <= Len(b), AfterSame
<1>4. Quietly(b, n) <=> Quietly(a, n)
  BY <1>1 DEF Quietly
<1>5. Traded(b, n) <=> Traded(a, n)
  BY ONLY <1>1, <1>3 DEF Traded
<1> QED  BY <1>2, <1>3, <1>4, <1>5

\* What was known of the beginning of the log is still known.
LEMMA TracesKept ==
  ASSUME LogGood, LogOK(wal'), NewPast, NEW n \in 0 .. Len(wal'), n < Len(wal'), n <= Len(wal),
         Agree(wal, wal', n),
         Clear(wal', n) /\ Quietly(wal', n) => After(wal', n).made <= tradeIds'
  PROVE  Traces(n)'
<1> SUFFICES ASSUME Clear(wal', n), Quietly(wal', n)
             PROVE  LET s == After(wal', n)
                    IN  /\ past'[n] = View(s.book, s.triggers) /\ s.made <= tradeIds'
                        /\ Traded(wal', n)
  BY DEF Traces
<1>1. Len(wal) \in Nat /\ LogOK(wal) /\ n \in 0 .. Len(wal) /\ n \in Nat /\ Len(wal') \in Nat
  BY DEF LogGood, LogOK
<1>2. /\ Clear(wal, n) /\ After(wal', n) = After(wal, n)
      /\ Quietly(wal', n) <=> Quietly(wal, n)
      /\ Traded(wal', n) <=> Traded(wal, n)
  BY <1>1, AgreeAfter
<1>3. LET s == After(wal, n)
      IN  past[n] = View(s.book, s.triggers) /\ s.made <= tradeIds /\ Traded(wal, n)
  <2>1. Traces(n)
    BY <1>1 DEF LogGood
  <2> QED  BY <1>2, <2>1 DEF Traces
<1>4. past'[n] = past[n]
  BY <1>1, PastParts
<1> QED  BY <1>2, <1>3, <1>4

\* So it is when the counter has not gone back.
LEMMA TracesGrow ==
  ASSUME LogGood, LiveOK, LogOK(wal'), NewPast, NEW n \in 0 .. Len(wal'), n < Len(wal'),
         n <= Len(wal), Agree(wal, wal', n), tradeIds' \in Nat, tradeIds <= tradeIds'
  PROVE  Traces(n)'
<1>1. /\ Len(wal) \in Nat /\ LogOK(wal) /\ n \in 0 .. Len(wal) /\ n \in Nat
      /\ Len(wal') \in Nat /\ n <= Len(wal')
  BY DEF LogGood, LogOK
<1>2. ASSUME Clear(wal', n), Quietly(wal', n) PROVE After(wal', n).made <= tradeIds'
  <2>1. Clear(wal, n) /\ After(wal', n) = After(wal, n) /\ Quietly(wal, n)
    BY <1>1, <1>2, AgreeAfter
  <2>2. After(wal, n).made <= tradeIds
    <3>1. Traces(n)
      BY <1>1 DEF LogGood
    <3> QED  BY <2>1, <3>1 DEF Traces
  <2>3. EngineOK(After(wal, n))
    BY <1>1, <2>1, AfterOK
  <2>4. After(wal, n).made \in Nat /\ tradeIds \in Nat
    BY <2>3 DEF EngineOK, LiveOK
  <2> QED  BY ONLY <2>1, <2>2, <2>4, tradeIds' \in Nat, tradeIds <= tradeIds'
<1> QED  BY <1>2, TracesKept

\* Steps that write nothing and leave the book and the triggers alone.
LEMMA NothingLogged ==
  ASSUME LogGood, NewPast, UNCHANGED <<orderVars, wal>>
  PROVE  LogGood'
<1>1. book' = book /\ triggers' = triggers /\ tradeIds' = tradeIds /\ wal' = wal
  BY DEF orderVars
<1>2. Len(wal) \in Nat
  BY DEF LogGood, LogOK
<1>3. /\ DOMAIN past' = 0 .. Len(wal') /\ past'[Len(wal')] = View(book', triggers')
      /\ \A n \in 0 .. Len(wal') : n < Len(wal') /\ n <= Len(wal) => past'[n] = past[n]
  BY <1>1, <1>2, PastParts
<1>4. \A n \in 0 .. Len(wal) : past'[n] = past[n]
  <2>1. \A n \in 0 .. Len(wal) : n < Len(wal) \/ n = Len(wal)
    BY <1>2
  <2> QED  BY <1>1, <1>3, <2>1 DEF LogGood
<1>5. ASSUME NEW n \in 0 .. Len(wal') PROVE Traces(n)'
  <2>1. Traces(n) /\ past'[n] = past[n]
    BY <1>1, <1>4 DEF LogGood
  <2> QED  BY ONLY <1>1, <2>1 DEF Traces
<1>6. Current'
  BY <1>1 DEF Current, LogGood
<1> QED  BY <1>1, <1>3, <1>5, <1>6 DEF LogGood

----------------------------------------------------------------------------
\* What replaying the entry e does, from an engine as the one that runs.
Replays(e) ==
    \A s : EngineOK(s) /\ s.book = book /\ s.triggers = triggers /\ s.made = tradeIds =>
        LET d == ReplayEntry(s, e)
        IN  d.book = book' /\ d.triggers = triggers' /\ d.made = tradeIds'

\* A trade that is logged has an id that was spent and is not in the log yet.
NewTrade(e) ==
    e.type = "trade" =>
        /\ e.tradeId \in 1 .. tradeIds
        /\ Intact(wal) /\ NoneFired(wal) => \A i \in DOMAIN wal :
              Line(wal[i]).type = "trade" => Line(wal[i]).tradeId # e.tradeId

\* A log that can be read to its end and in which nothing fired was so before
\* the entry was appended to it.
LEMMA IntactBefore ==
  ASSUME NEW old, LogOK(old), NEW e \in LogEntry, NEW new, LogOK(new), Grown(old, new, <<e>>),
         Clear(new, Len(new))
  PROVE  /\ Len(new) = Len(old) + 1 /\ Line(new[Len(new)]) = e
         /\ \A i \in 1 .. Len(old) : new[i] = old[i] /\ Line(old[i]) = old[i]
         /\ Intact(old)
         /\ Quietly(new, Len(new)) => NoneFired(old)
         /\ e.type # "activated" /\ NoneFired(new) => Quietly(new, Len(new))
<1>0. /\ Len(old) \in Nat /\ Len(new) \in Nat /\ Len(<<e>>) = 1 /\ <<e>>[1] = e
      /\ DOMAIN old = 1 .. Len(old)
  BY DEF LogOK
<1>1. ~Unterminated(old) /\ Len(new) = Len(old) + 1
      /\ (\A i \in 1 .. Len(old) : new[i] = old[i]) /\ new[Len(old) + 1] = e
  <2>1. CASE /\ old # << >> /\ Len(new) = Len(old) - 1 + Len(<<e>>) /\ new[Len(old)] = Garbled
    <3>1. Len(old) # 0
      BY <2>1 DEF LogOK
    <3>2. Len(old) \in 1 .. Len(new) /\ new[Len(old)].type = "garbled"
      BY <1>0, <2>1, <3>1 DEF Garbled
    <3> QED  BY <3>2 DEF Clear
  <2>2. CASE /\ ~Unterminated(old) /\ Len(new) = Len(old) + Len(<<e>>)
             /\ \A i \in 1 .. Len(old) : new[i] = old[i]
             /\ \A j \in 1 .. Len(<<e>>) : new[Len(old) + j] = <<e>>[j]
    <3>1. 1 \in 1 .. Len(<<e>>)
      BY ONLY <1>0
    <3> QED  BY ONLY <1>0, <2>2, <3>1
  <2> QED  BY <2>1, <2>2 DEF Grown
<1>2. Line(new[Len(new)]) = e
  BY <1>1, LineTypes DEF Line
<1>3. ASSUME NEW i \in 1 .. Len(old)
      PROVE  /\ new[i] = old[i] /\ Line(old[i]) = old[i] /\ old[i].type \notin {"cut", "garbled"}
             /\ i \in 1 .. Len(new)
  <2>0. old # << >>
    <3>1. Len(old) # 0
      BY ONLY <1>0, i \in 1 .. Len(old)
    <3> QED  BY <3>1
  <2>1. i \in 1 .. Len(new) /\ i \in DOMAIN old /\ (i = Len(old) => old # << >>)
    <3>1. i \in 1 .. Len(new)
      BY ONLY <1>0, <1>1, i \in 1 .. Len(old)
    <3> QED  BY ONLY <1>0, <2>0, <3>1, i \in 1 .. Len(old), ZenonT(30)
  <2>2. old[i].type \notin {"cut", "garbled"}
    BY <1>1, <2>1 DEF Clear
  <2>3. old[i].type # "whole"
    BY <1>1, <2>1 DEF LogOK, Unterminated, Last
  <2> QED  BY <1>1, <2>1, <2>2, <2>3 DEF Line
<1>4. Intact(old)
  BY <1>0, <1>3 DEF Intact
<1>5. ASSUME Quietly(new, Len(new)) PROVE NoneFired(old)
  BY <1>0, <1>3, <1>5 DEF Quietly, NoneFired
<1>6. ASSUME e.type # "activated", NoneFired(new) PROVE Quietly(new, Len(new))
  <2>1. ASSUME NEW i \in 1 .. Len(new) PROVE Line(new[i]).type # "activated"
    <3>1. i \in 1 .. Len(old) \/ i = Len(new)
      BY ONLY <1>0, <1>1, i \in 1 .. Len(new)
    <3>2. CASE i \in 1 .. Len(old)
      <4>1. i \in DOMAIN new
        BY LogOK(new) DEF LogOK
      <4> QED  BY <1>3, <1>6, <3>2, <4>1 DEF NoneFired
    <3> QED  BY <1>2, <1>6, <3>1, <3>2
  <2> QED  BY <2>1 DEF Quietly
<1> QED  BY <1>1, <1>2, <1>3, <1>4, <1>5, <1>6

\* The trades of the log with one more line.
LEMMA TradedMore ==
  ASSUME NEW log, NEW n \in Nat, Traded(log, n),
         After(log, n).made \in Nat, After(log, n + 1).made \in Nat,
         After(log, n).made <= After(log, n + 1).made,
         Line(log[n + 1]).type = "trade" =>
            /\ Line(log[n + 1]).tradeId \in 1 .. After(log, n + 1).made
            /\ \A i \in 1 .. n : Line(log[i]).type = "trade" =>
                    Line(log[i]).tradeId # Line(log[n + 1]).tradeId
  PROVE  Traded(log, n + 1)
<1>1. \A i \in 1 .. n + 1 : i \in 1 .. n \/ i = n + 1
  OBVIOUS
<1>2. ASSUME NEW i \in 1 .. n + 1, Line(log[i]).type = "trade"
      PROVE  Line(log[i]).tradeId \in 1 .. After(log, n + 1).made
  <2>1. CASE i \in 1 .. n
    <3>1. Line(log[i]).tradeId \in 1 .. After(log, n).made
      BY <1>2, <2>1 DEF Traded
    <3> QED  BY <3>1
  <2>2. CASE i = n + 1
    BY <1>2, <2>2
  <2> QED  BY <1>1, <2>1, <2>2
<1>3. ASSUME NEW i \in 1 .. n + 1, NEW j \in 1 .. n + 1, Line(log[i]).type = "trade",
             Line(log[j]).type = "trade", Line(log[i]).tradeId = Line(log[j]).tradeId
      PROVE  i = j
  <2>1. CASE i \in 1 .. n /\ j \in 1 .. n
    BY <1>3, <2>1 DEF Traded
  <2>2. CASE i = n + 1 /\ j \in 1 .. n
    BY <1>3, <2>2
  <2>3. CASE i \in 1 .. n /\ j = n + 1
    BY <1>3, <2>3
  <2> QED  BY <1>1, <2>1, <2>2, <2>3
<1> QED  BY <1>2, <1>3 DEF Traded

\* A log and what it has grown to agree on what was there.
LEMMA GrownAgrees ==
  ASSUME NEW old, LogOK(old), NEW new, NEW entries, Len(entries) \in Nat \ {0},
         Grown(old, new, entries), NEW n \in Nat, n <= Len(old)
  PROVE  Agree(old, new, n) /\ Len(new) >= Len(old)
<1>0. Len(old) \in Nat
  BY DEF LogOK
<1>1. Len(new) >= Len(old)
  BY <1>0 DEF Grown
<1>2. ASSUME NEW i \in 1 .. n
      PROVE  /\ new[i].type \in {"cut", "garbled"} \/ Line(new[i]) = Line(old[i])
             /\ old[i].type \in {"cut", "garbled"} => new[i].type \in {"cut", "garbled"}
  <2>1. new[i] = old[i] \/ new[i] = Garbled
    <3>1. i \in 1 .. Len(old) /\ (i \in 1 .. Len(old) - 1 \/ i = Len(old))
      BY ONLY <1>0, i \in 1 .. n, n \in Nat, n <= Len(old)
    <3> QED  BY <3>1 DEF Grown
  <2> QED  BY <2>1 DEF Garbled
<1> QED  BY <1>1, <1>2 DEF Agree

\* Steps that write one entry which the replay of it answers to.
LEMMA OneLogged ==
  ASSUME LogGood, LiveOK, NewPast, WalEnabled, NEW e \in LogEntry, e.type # "activated",
         Log(<<e>>), Replays(e), NewTrade(e), tradeIds' \in Nat, tradeIds <= tradeIds'
  PROVE  LogGood'
<1>1. LogOK(wal') /\ Grown(wal, wal', <<e>>) /\ LogOK(wal)
  <2>1. LogOK(wal) /\ <<e>> \in Seq(LogEntry) /\ <<e>> # << >>
    BY DEF LogGood
  <2> QED  BY <2>1, LogGrows
<1>2. Len(wal) \in Nat /\ Len(wal') \in Nat /\ DOMAIN wal = 1 .. Len(wal)
  BY <1>1 DEF LogOK
<1>3. /\ Len(wal') >= Len(wal) /\ Len(wal') <= Len(wal) + 1
      /\ \A n \in Nat : n <= Len(wal) => Agree(wal, wal', n)
  <2>1. Len(<<e>>) = 1 /\ Len(<<e>>) \in Nat \ {0}
    OBVIOUS
  <2>2. Len(wal') <= Len(wal) + 1
    BY <1>1, <1>2, <2>1 DEF Grown
  <2>3. \A n \in Nat : n <= Len(wal) => Agree(wal, wal', n) /\ Len(wal') >= Len(wal)
    BY <1>1, <2>1, GrownAgrees
  <2> QED  BY <1>2, <2>2, <2>3
<1> DEFINE m == Len(wal')
<1>4. ASSUME NEW n \in 0 .. m, n < m PROVE Traces(n)'
  <2>1. n \in Nat /\ n <= Len(wal)
    BY <1>2, <1>3, <1>4
  <2> QED  BY <1>1, <1>3, <1>4, <2>1, TracesGrow
<1>5. /\ DOMAIN past' = 0 .. Len(wal') /\ past'[Len(wal')] = View(book', triggers')
  BY <1>2, PastParts
<1>6. ASSUME Clear(wal', m), Quietly(wal', m)
      PROVE  LET s == After(wal', m)
             IN  /\ s.book = book' /\ s.triggers = triggers' /\ s.made = tradeIds'
                 /\ Traded(wal', m)
  <2> DEFINE n == Len(wal)
             s == After(wal, n)
  <2>1. /\ m = n + 1 /\ Line(wal'[m]) = e /\ Intact(wal) /\ NoneFired(wal)
        /\ \A i \in 1 .. n : wal'[i] = wal[i] /\ Line(wal[i]) = wal[i]
    BY <1>1, <1>6, IntactBefore
  <2>2. n \in Nat /\ n <= m /\ Agree(wal, wal', n) /\ Clear(wal', n)
    BY <1>2, <1>3, <1>6, <2>1 DEF Clear
  <2>3. /\ Clear(wal, n) /\ After(wal', n) = s /\ Quietly(wal, n)
        /\ Traded(wal', n) <=> Traded(wal, n)
    <3>1. /\ Clear(wal, n) /\ After(wal', n) = s /\ (Quietly(wal', n) <=> Quietly(wal, n))
          /\ Traded(wal', n) <=> Traded(wal, n)
      BY <1>1, <1>2, <2>2, AgreeAfter
    <3>2. Quietly(wal', n)
      BY <1>2, <1>6, <2>1 DEF Quietly
    <3> QED  BY <3>1, <3>2
  <2>4. EngineOK(s)
    BY <1>1, <1>2, <2>3, AfterOK
  <2>5. s.book = book /\ s.triggers = triggers /\ s.made = tradeIds
    BY <2>1 DEF LogGood, Current
  <2>6. Traded(wal, n)
    <3>1. Traces(n)
      BY <1>2 DEF LogGood
    <3> QED  BY <2>3, <3>1 DEF Traces
  <2>7. After(wal', m) = ReplayEntry(s, e)
    <3>1. n + 1 \in DOMAIN wal' /\ wal' \in Seq(WalLine)
      BY <1>1, <1>2, <2>1 DEF LogOK
    <3>2. After(wal', n + 1) = ReplayEntry(After(wal', n), Line(wal'[n + 1]))
      BY <1>2, <3>1, AfterOne
    <3> QED  BY <2>1, <2>3, <3>2
  <2> HIDE DEF s
  <2>8. LET d == After(wal', m) IN d.book = book' /\ d.triggers = triggers' /\ d.made = tradeIds'
    BY ONLY <2>4, <2>5, <2>7, Replays(e) DEF Replays
  <2>9. Traded(wal', n + 1)
    <3>1. /\ After(wal', n).made \in Nat /\ After(wal', n + 1).made \in Nat
          /\ After(wal', n).made <= After(wal', n + 1).made
          /\ After(wal', n).made = tradeIds
      <4>1. tradeIds \in Nat
        BY DEF LiveOK
      <4> QED  BY ONLY <4>1, <2>1, <2>3, <2>5, <2>8, tradeIds' \in Nat, tradeIds <= tradeIds'
    <3>2. ASSUME e.type = "trade"
          PROVE  /\ e.tradeId \in 1 .. After(wal', n + 1).made
                 /\ \A i \in 1 .. n : Line(wal'[i]).type = "trade" => Line(wal'[i]).tradeId # e.tradeId
      <4>1. e.tradeId \in 1 .. tradeIds
        BY <3>2 DEF NewTrade
      <4>2. e.tradeId \in 1 .. After(wal', n + 1).made
        <5>1. tradeIds \in Nat
          BY DEF LiveOK
        <5> QED  BY ONLY <3>1, <4>1, <5>1
      <4>3. \A i \in 1 .. n : Line(wal[i]).type = "trade" => Line(wal[i]).tradeId # e.tradeId
        BY <1>2, <2>1, <3>2 DEF NewTrade
      <4> QED  BY <2>1, <4>2, <4>3
    <3>3. Line(wal'[n + 1]) = e /\ Traded(wal', n)
      BY <2>1, <2>3, <2>6
    <3> QED  BY ONLY <1>2, <3>1, <3>2, <3>3, TradedMore
  <2> QED  BY <2>1, <2>8, <2>9
<1>7. ASSUME NEW n \in 0 .. m, n = m PROVE Traces(n)'
  <2>1. ASSUME Clear(wal', n), Quietly(wal', n)
        PROVE  LET s == After(wal', n)
               IN  /\ past'[n] = View(s.book, s.triggers) /\ s.made <= tradeIds'
                   /\ Traded(wal', n)
    <3>1. LET s == After(wal', n)
          IN  /\ s.book = book' /\ s.triggers = triggers' /\ s.made = tradeIds'
              /\ Traded(wal', n)
      BY <1>6, <1>7, <2>1
    <3>2. past'[n] = View(book', triggers')
      BY <1>5, <1>7
    <3> QED  BY ONLY <3>1, <3>2, tradeIds' \in Nat
  <2> QED  BY <2>1 DEF Traces
<1>8. Current'
  <2>1. ASSUME Intact(wal'), NoneFired(wal')
        PROVE  LET s == After(wal', m) IN s.book = book' /\ s.triggers = triggers' /\ s.made = tradeIds'
    <3>1. Clear(wal', m)
      <4>1. DOMAIN wal' = 1 .. m
        BY <1>1 DEF LogOK
      <4> QED  BY <2>1, <4>1 DEF Intact, Clear
    <3>2. Quietly(wal', m)
      BY <1>1, <2>1, <3>1, IntactBefore
    <3> QED  BY <1>6, <3>1, <3>2
  <2> QED  BY <2>1 DEF Current
<1>9. ASSUME NEW n \in 0 .. Len(wal') PROVE Traces(n)'
  <2>1. n < m \/ n = m
    BY <1>2
  <2>2. CASE n < m
    BY ONLY <1>4, <2>2, n \in 0 .. m
  <2>3. CASE n = m
    BY ONLY <1>7, <2>3, n \in 0 .. m
  <2> QED  BY <2>1, <2>2, <2>3
<1> QED  BY <1>1, <1>5, <1>8, <1>9 DEF LogGood

\* Steps that write activations: no line from there on is in question.
LEMMA FiringsLogged ==
  ASSUME LogGood, LiveOK, NewPast, WalEnabled, NEW entries \in Seq(ActivatedEntry),
         entries # << >>, Log(entries), tradeIds' \in Nat, tradeIds <= tradeIds'
  PROVE  LogGood' /\ ~(Intact(wal') /\ NoneFired(wal'))
<1>0. entries \in Seq(LogEntry)
  BY DEF LogEntry
<1>1. LogOK(wal') /\ Grown(wal, wal', entries) /\ LogOK(wal)
  <2>1. LogOK(wal)
    BY DEF LogGood
  <2> QED  BY <1>0, <2>1, LogGrows
<1>2. Len(wal) \in Nat /\ Len(wal') \in Nat /\ DOMAIN wal = 1 .. Len(wal) /\ DOMAIN wal' = 1 .. Len(wal')
  BY <1>1 DEF LogOK
<1>3. Len(entries) \in Nat \ {0} /\ entries[1] \in ActivatedEntry
  OBVIOUS
<1>4. Len(wal') >= Len(wal) /\ \A n \in Nat : n <= Len(wal) => Agree(wal, wal', n)
  BY <1>1, <1>2, <1>3, GrownAgrees
<1>5. \E i \in 1 .. Len(wal') :
         /\ wal'[i].type \in {"garbled", "activated"}
         /\ Line(wal'[i]).type = "activated" \/ wal'[i].type = "garbled"
         /\ \A n \in 0 .. Len(wal') : i <= n \/ (n < Len(wal') /\ n <= Len(wal))
  <2>1. CASE /\ Len(wal') = Len(wal) + Len(entries)
             /\ \A j \in 1 .. Len(entries) : wal'[Len(wal) + j] = entries[j]
    <3> DEFINE i == Len(wal) + 1
    <3>1. i \in 1 .. Len(wal') /\ wal'[i] = entries[1]
      BY <1>2, <1>3, <2>1
    <3>2. \A n \in 0 .. Len(wal') : i <= n \/ (n < Len(wal') /\ n <= Len(wal))
      BY ONLY <1>2, <1>3, <2>1
    <3> HIDE DEF i
    <3>3. wal'[i].type = "activated" /\ Line(wal'[i]) = wal'[i]
      BY <1>3, <3>1 DEF ActivatedEntry, Line
    <3> QED  BY <3>1, <3>2, <3>3
  <2>2. CASE /\ wal # << >> /\ Len(wal') = Len(wal) - 1 + Len(entries)
             /\ wal'[Len(wal)] = Garbled
    <3>1. Len(wal) # 0
      BY <1>1, <2>2 DEF LogOK
    <3>2. Len(wal) \in 1 .. Len(wal')
      BY ONLY <1>2, <1>3, <2>2, <3>1
    <3>3. \A n \in 0 .. Len(wal') : Len(wal) <= n \/ (n < Len(wal') /\ n <= Len(wal))
      BY ONLY <1>2, <1>4
    <3> QED  BY <2>2, <3>2, <3>3 DEF Garbled
  <2> QED  BY <1>1, <2>1, <2>2 DEF Grown
<1>6. ASSUME NEW n \in 0 .. Len(wal') PROVE Traces(n)'
  <2>1. CASE n < Len(wal') /\ n <= Len(wal)
    <3>1. Agree(wal, wal', n)
      BY <1>4, <2>1
    <3> QED  BY <1>1, <2>1, <3>1, TracesGrow
  <2>2. CASE ~(n < Len(wal') /\ n <= Len(wal))
    <3>1. ~(Clear(wal', n) /\ Quietly(wal', n))
      BY <1>2, <1>5, <2>2 DEF Clear, Quietly
    <3> QED  BY <3>1 DEF Traces
  <2> QED  BY <2>1, <2>2
<1>9. ~(Intact(wal') /\ NoneFired(wal'))
  BY <1>2, <1>5 DEF Intact, NoneFired
<1>7. Current'
  BY <1>9 DEF Current
<1>8. DOMAIN past' = 0 .. Len(wal') /\ past'[Len(wal')] = View(book', triggers')
  BY <1>2, PastParts
<1> QED  BY <1>1, <1>6, <1>7, <1>8, <1>9 DEF LogGood

\* The restart from what is left of the log.
LEMMA Restarted ==
  ASSUME LogGood, LiveOK, NewPast, wal # << >>, NEW log \in LeftOver, RestartFrom(log)
  PROVE  LogGood' /\ LiveOK' /\ CallsOK' /\ Pending'
<1> DEFINE s == Replay(NewEngine, log)
           m == Len(Readable(log))
<1>1. /\ book' = s.book /\ triggers' = s.triggers /\ tradeIds' = s.made
      /\ wal' = log /\ tradeSeq' = 0 /\ thr' = [t \in Threads |-> Idle]
  BY DEF RestartFrom
<1>2. /\ LogOK(log) /\ Len(log) <= Len(wal) /\ LogOK(wal)
      /\ Len(log) \in Nat /\ Len(wal) \in Nat /\ DOMAIN log = 1 .. Len(log)
      /\ \A n \in Nat : n <= Len(log) => Agree(wal, log, n)
  <2>1. LogOK(wal)
    BY DEF LogGood
  <2>2. /\ LogOK(log) /\ Len(log) <= Len(wal)
        /\ \A i \in 1 .. Len(log) : log[i].type \in {"cut", "garbled"} \/ Line(log[i]) = Line(wal[i])
        /\ \A i \in 1 .. Len(log) : wal[i].type \in {"cut", "garbled"} =>
                                       log[i].type \in {"cut", "garbled"}
    BY <2>1, LeftOverOK
  <2>3. Len(log) \in Nat /\ Len(wal) \in Nat /\ DOMAIN log = 1 .. Len(log)
    BY <2>1, <2>2 DEF LogOK
  <2>4. ASSUME NEW n \in Nat, n <= Len(log) PROVE Agree(wal, log, n)
    <3>1. \A i \in 1 .. n : i \in 1 .. Len(log)
      BY ONLY <2>3, <2>4
    <3> QED  BY ONLY <2>2, <3>1 DEF Agree
  <2> QED  BY <2>1, <2>2, <2>3, <2>4
<1>3. /\ m \in Nat /\ m <= Len(log) /\ Clear(log, m)
      /\ \A k \in Nat : k <= Len(log) /\ Clear(log, k) => k <= m
  BY <1>2, ReadableOK
<1>4. s = After(log, m) /\ EngineOK(s)
  BY <1>2, <1>3, ReplayIsAfter, AfterOK
<1> HIDE DEF s, m
<1>5. /\ s.book \in Book /\ s.triggers \in Seq(Trigger) /\ s.made \in Nat
      /\ BookOK(s.book) /\ OwnIds(s.book)
  BY <1>4 DEF EngineOK
<1>6. LiveOK'
  BY <1>1, <1>5 DEF LiveOK
<1>7. CallsOK'
  <2>1. DOMAIN thr' = Threads /\ \A t \in Threads : thr'[t] = Idle
    BY <1>1
  <2>2. /\ DOMAIN Idle = {"pc", "trades", "callbacks", "update"}
        /\ Idle.trades \in Seq(Published) /\ Idle.pc \notin {"publish", "notify"}
    BY DEF Idle
  <2> QED  BY ONLY <2>1, <2>2 DEF CallsOK
<1>8. Pending'
  <2>1. \A t \in Threads : InHand(thr'[t]) = {}
    BY <1>1 DEF InHand, Idle
  <2> QED  BY <2>1 DEF Pending
<1>9. DOMAIN past' = 0 .. Len(wal') /\ past'[Len(wal')] = View(book', triggers')
  BY <1>1, <1>2, PastParts
<1>10. ASSUME Clear(log, Len(log)) PROVE m = Len(log)
  <2>1. Len(log) <= m
    BY <1>2, <1>3, <1>10
  <2>2. m \in Nat /\ Len(log) \in Nat /\ m <= Len(log)
    BY ONLY <1>2, <1>3, Zenon
  <2> QED  BY ONLY <2>1, <2>2
<1>11. Current'
  <2>1. Intact(log) => Clear(log, Len(log))
    BY <1>2 DEF Intact, Clear
  <2> QED  BY <1>1, <1>4, <1>10, <2>1 DEF Current
<1>12. ASSUME NEW n \in 0 .. Len(wal') PROVE Traces(n)'
  <2>1. n \in Nat /\ n <= Len(log) /\ n <= Len(wal) /\ n \in 0 .. Len(wal)
    BY <1>1, <1>2
  <2>2. CASE n < Len(log)
    <3>1. ASSUME Clear(log, n) PROVE After(log, n).made <= tradeIds'
      <4>1. n <= m
        BY <1>3, <2>1, <3>1
      <4>2. After(log, n).made <= After(log, m).made
        BY <1>2, <1>3, <2>1, <4>1, MadeGrows
      <4> QED  BY <1>1, <1>4, <4>2
    <3>2. LogOK(wal') /\ n < Len(wal') /\ Agree(wal, wal', n)
      BY <1>1, <1>2, <2>1, <2>2
    <3> QED  BY <1>1, <2>1, <3>1, <3>2, TracesKept
  <2>3. CASE n = Len(log)
    <3>1. ASSUME Clear(log, n), Quietly(log, n)
          PROVE  Traded(log, n) /\ After(log, n) = s
      <4>1. m = n
        BY <1>10, <2>3, <3>1
      <4>2. /\ Clear(wal, n) /\ (Quietly(log, n) <=> Quietly(wal, n))
            /\ (Traded(log, n) <=> Traded(wal, n))
        BY <1>2, <2>1, <3>1, AgreeAfter
      <4>3. Traces(n)
        BY <2>1 DEF LogGood
      <4> QED  BY <1>4, <3>1, <4>1, <4>2, <4>3 DEF Traces
    <3>2. past'[n] = View(s.book, s.triggers)
      BY <1>1, <1>9, <2>3
    <3>3. s.made <= tradeIds'
      BY <1>1, <1>5
    <3>4. ASSUME Clear(wal', n), Quietly(wal', n)
          PROVE  LET d == After(wal', n)
                 IN  /\ past'[n] = View(d.book, d.triggers) /\ d.made <= tradeIds'
                     /\ Traded(wal', n)
      <4>1. Traded(log, n) /\ After(log, n) = s
        BY <1>1, <3>1, <3>4
      <4> QED  BY ONLY <1>1, <3>2, <3>3, <4>1
    <3> QED  BY ONLY <3>4 DEF Traces
  <2>4. n < Len(log) \/ n = Len(log)
    <3>1. Len(log) \in Nat
      BY <1>2
    <3> QED  BY ONLY <2>1, <3>1
  <2> QED  BY ONLY <2>2, <2>3, <2>4
<1>13. LogGood'
  BY <1>1, <1>2, <1>9, <1>11, <1>12 DEF LogGood
<1> QED  BY <1>6, <1>7, <1>8, <1>13

----------------------------------------------------------------------------
(* What the calls do to the orders and the log *)

\* checkTriggers' loop after k triggers of the list, in any book: nothing has
\* changed as long as nothing has fired.
SoFar(b, list, k, s) ==
    /\ s \in [book : Book, armed : Seq(Trigger), made : Nat, log : Seq(ActivatedEntry)]
    /\ BookOK(s.book) /\ OwnIds(s.book)
    /\ s.log = << >> => /\ s.book = b /\ s.made = 0
                        /\ Len(s.armed) = k /\ \A i \in 1 .. k : s.armed[i] = list[i]

\* The next trigger stays armed.
LEMMA SoFarArmed ==
  ASSUME NEW b, NEW list \in Seq(Trigger), NEW k \in Nat, k + 1 \in DOMAIN list,
         NEW s, SoFar(b, list, k, s)
  PROVE  SoFar(b, list, k + 1, [s EXCEPT !.armed = Append(@, list[k + 1])])
<1> DEFINE o == list[k + 1]
           a == Append(s.armed, o)
           d == [s EXCEPT !.armed = a]
<1>1. o \in Trigger /\ s.armed \in Seq(Trigger)
  BY DEF SoFar
<1> HIDE DEF o
<1>2. /\ a \in Seq(Trigger) /\ Len(a) = Len(s.armed) + 1 /\ a[Len(s.armed) + 1] = o
      /\ \A i \in 1 .. Len(s.armed) : a[i] = s.armed[i]
  BY <1>1, AppendProperties
<1> HIDE DEF a
<1>3. /\ d \in [book : Book, armed : Seq(Trigger), made : Nat, log : Seq(ActivatedEntry)]
      /\ d.book = s.book /\ d.made = s.made /\ d.log = s.log /\ d.armed = a
  BY ONLY <1>2, SoFar(b, list, k, s) DEF SoFar
<1>4. ASSUME s.log = << >>
      PROVE  Len(a) = k + 1 /\ \A i \in 1 .. k + 1 : a[i] = list[i]
  <2>1. Len(s.armed) = k /\ \A i \in 1 .. k : s.armed[i] = list[i]
    BY <1>4 DEF SoFar
  <2>2. \A i \in 1 .. k + 1 : i \in 1 .. k \/ i = k + 1
    OBVIOUS
  <2> QED  BY <1>2, <2>1, <2>2 DEF o
<1> HIDE DEF d
<1>5. SoFar(b, list, k + 1, d)
  BY ONLY <1>3, <1>4, SoFar(b, list, k, s) DEF SoFar
<1> QED  BY <1>5 DEF d, a, o

\* The next trigger fires.
LEMMA SoFarFired ==
  ASSUME NEW b, NEW list \in Seq(Trigger), NEW k \in Nat, k + 1 \in DOMAIN list,
         NEW s, SoFar(b, list, k, s)
  PROVE  LET o    == list[k + 1]
             done == ProcessOrder(s.book, Activated(o))
         IN  SoFar(b, list, k + 1,
                   [book |-> done.book, armed |-> s.armed, made |-> s.made + Len(done.trades),
                    log |-> Append(s.log, [type |-> "activated", id |-> o.id])])
<1> DEFINE o    == list[k + 1]
           done == ProcessOrder(s.book, Activated(o))
           n    == s.made + Len(done.trades)
           e    == [type |-> "activated", id |-> o.id]
           l    == Append(s.log, e)
           d    == [book |-> done.book, armed |-> s.armed, made |-> n, log |-> l]
<1>1. o \in Trigger
  OBVIOUS
<1> HIDE DEF o
<1>2. Activated(o) \in Order /\ (Activated(o).type = "LIMIT" => Activated(o).price \in Prices)
      /\ e \in ActivatedEntry
  BY <1>1, ActivatedOK DEF ActivatedEntry
<1>3. BookOK(done.book) /\ OwnIds(done.book) /\ done.trades \in Seq(PricedTrade)
  BY <1>2, ProcessOrderOK DEF SoFar
<1> HIDE DEF done, e
<1>4. done.book \in Book /\ n \in Nat
  <2>1. Len(done.trades) \in Nat /\ s.made \in Nat
    BY <1>3 DEF SoFar
  <2> QED  BY <1>3, <2>1 DEF BookOK
<1>5. l \in Seq(ActivatedEntry) /\ l # << >>
  <2>1. s.log \in Seq(ActivatedEntry)
    BY DEF SoFar
  <2> QED  BY <1>2, <2>1, AppendProperties
<1> HIDE DEF n, l
<1>6. d \in [book : Book, armed : Seq(Trigger), made : Nat, log : Seq(ActivatedEntry)]
  BY ONLY <1>4, <1>5, SoFar(b, list, k, s) DEF SoFar
<1>7. d.book = done.book /\ d.log = l
  OBVIOUS
<1> HIDE DEF d
<1>8. SoFar(b, list, k + 1, d)
  BY ONLY <1>3, <1>5, <1>6, <1>7 DEF SoFar
<1> QED  BY <1>8 DEF d, l, n, e, done, o

\* So it is after all of them.
LEMMA CheckedOK ==
  ASSUME NEW b, BookOK(b), OwnIds(b), NEW list \in Seq(Trigger), NEW price
  PROVE  SoFar(b, list, Len(list), Checked(b, list, price, Len(list)))
<1> DEFINE T == {k \in Nat : k <= Len(list) => SoFar(b, list, k, Checked(b, list, price, k))}
           none == [book |-> b, armed |-> << >>, made |-> 0, log |-> << >>]
<1>1. 0 \in T
  <2>1. Checked(b, list, price, 0) = none
    BY CheckedByTrigger
  <2>2. b \in Book
    BY DEF BookOK
  <2>3. SoFar(b, list, 0, none)
    BY ONLY <2>2, BookOK(b), OwnIds(b) DEF SoFar
  <2> QED  BY ONLY <2>1, <2>3
<1>2. ASSUME NEW k \in Nat, k \in T PROVE k + 1 \in T
  <2> SUFFICES ASSUME k + 1 <= Len(list) PROVE SoFar(b, list, k + 1, Checked(b, list, price, k + 1))
    OBVIOUS
  <2> DEFINE s == Checked(b, list, price, k)
  <2>1. k + 1 \in DOMAIN list
    OBVIOUS
  <2>2. SoFar(b, list, k, s)
    BY <1>2
  <2>3. Checked(b, list, price, k + 1) = CheckTrigger(s, list[k + 1], price)
    BY ONLY k \in Nat, CheckedByTrigger
  <2> HIDE DEF s
  <2>4. CASE Fires(list[k + 1], price)
    <3>1. LET o    == list[k + 1]
              done == ProcessOrder(s.book, Activated(o))
          IN  SoFar(b, list, k + 1,
                    [book |-> done.book, armed |-> s.armed, made |-> s.made + Len(done.trades),
                     log |-> Append(s.log, [type |-> "activated", id |-> o.id])])
      BY ONLY <2>1, <2>2, list \in Seq(Trigger), k \in Nat, SoFarFired
    <3> QED  BY ONLY <2>3, <2>4, <3>1 DEF CheckTrigger
  <2>5. CASE ~Fires(list[k + 1], price)
    <3>1. SoFar(b, list, k + 1, [s EXCEPT !.armed = Append(@, list[k + 1])])
      BY ONLY <2>1, <2>2, list \in Seq(Trigger), k \in Nat, SoFarArmed
    <3> QED  BY ONLY <2>3, <2>5, <3>1 DEF CheckTrigger
  <2> QED  BY <2>4, <2>5
<1> HIDE DEF T
<1>3. Len(list) \in T
  <2>1. Len(list) \in Nat
    OBVIOUS
  <2> QED  BY <1>1, <1>2, <2>1, SetOfAllNat
<1> QED  BY <1>3 DEF T

\* An entry that is logged, and that the replay answers with what the step did.
Answered(e) == e \in LogEntry /\ e.type # "activated" /\ Log(<<e>>) /\ Replays(e)

\* An id that no order object has is in no index.
LEMMA FreshNotIndexed ==
  ASSUME NEW b, BookOK(b), OwnIds(b), NEW id \in Ids,
         \A r \in DOMAIN b.orders : b.orders[r].id # id
  PROVE  b.orderMap[id] = NoOrder
BY DEF BookOK, OwnIds

\* What submitting an order does to the orders is what replaying its entry does.
LEMMA SubmitOrderLogs ==
  ASSUME LiveOK, NEW t \in Threads, NEW o \in Submittable, SubmitOrder(t, o)
  PROVE  /\ LiveOK' /\ \E e : e.type = "submit" /\ Answered(e)
         /\ \E trades \in Seq(PricedTrade) :
               /\ tradeIds' = tradeIds + Len(trades)
               /\ thr' = [thr EXCEPT ![t].pc     = IF trades = << >> THEN "read" ELSE "publish",
                                     ![t].trades = Numbered(trades)]
<1> DEFINE done == ProcessOrder(book, o)
           e    == [type |-> "submit", order |-> o]
<1>1. /\ book' = done.book /\ tradeIds' = tradeIds + Len(done.trades)
      /\ thr' = [thr EXCEPT ![t].pc     = IF done.trades = << >> THEN "read" ELSE "publish",
                            ![t].trades = Numbered(done.trades)]
      /\ Log(<<e>>) /\ triggers' = triggers /\ tradeSeq' = tradeSeq
  BY DEF SubmitOrder, feedVars
<1>2. /\ o \in Priced /\ o \in Order /\ o.id \in Ids
      /\ o.type = "LIMIT" => o.price \in Prices
      /\ \A r \in DOMAIN book.orders : book.orders[r].id # o.id
  BY SubmittableOK DEF Priced
<1>3. o \in Order /\ (o.type = "LIMIT" => o.price \in Prices)
  BY <1>2
<1>4. BookOK(done.book) /\ OwnIds(done.book) /\ done.trades \in Seq(PricedTrade)
  BY <1>3, ProcessOrderOK DEF LiveOK
<1>5. book.orderMap[o.id] = NoOrder
  BY <1>2, FreshNotIndexed DEF LiveOK
<1>6. Replays(e)
  <2> SUFFICES ASSUME NEW s, EngineOK(s), s.book = book, s.triggers = triggers, s.made = tradeIds
               PROVE  LET d == ReplayEntry(s, e)
                      IN  d.book = book' /\ d.triggers = triggers' /\ d.made = tradeIds'
    BY DEF Replays
  <2>1. ReplayEntry(s, e) = ReplaySubmit(s, o)
    BY DEF ReplayEntry
  <2>2. o.type \notin TriggerTypes
    BY <1>2, TriggerNotPriced
  <2>3. ReplaySubmit(s, o) = [s EXCEPT !.book = done.book, !.made = @ + Len(done.trades)]
    BY <1>5, <2>2 DEF ReplaySubmit
  <2>4. DOMAIN s = {"book", "triggers", "made", "cancelled"}
    BY DEF EngineOK
  <2> HIDE DEF done
  <2> QED  BY ONLY <1>1, <2>1, <2>3, <2>4, s.book = book, s.triggers = triggers, s.made = tradeIds
<1> HIDE DEF done
<1>7. LiveOK'
  <2>1. Len(done.trades) \in Nat
    BY <1>4
  <2> QED  BY <1>1, <1>4, <2>1 DEF LiveOK
<1>8. e.type = "submit" /\ Answered(e)
  <2>1. e \in LogEntry
    BY <1>2 DEF LogEntry
  <2>2. e.type = "submit"
    OBVIOUS
  <2> HIDE DEF e
  <2> QED  BY <1>1, <1>6, <2>1, <2>2 DEF Answered
<1> HIDE DEF e
<1> QED  BY <1>1, <1>4, <1>7, <1>8

\* So it is for a trigger, ...
LEMMA SubmitTriggerLogs ==
  ASSUME LiveOK, NEW t \in Threads, NEW o \in SubmittableTriggers, SubmitTrigger(t, o)
  PROVE  LiveOK' /\ tradeIds' = tradeIds /\ thr' = thr /\ \E e : e.type = "submit" /\ Answered(e)
<1> DEFINE e == [type |-> "submit", order |-> o]
<1>1. /\ book' = book /\ tradeIds' = tradeIds /\ thr' = thr /\ Log(<<e>>)
      /\ triggers' = Append(triggers, o) /\ tradeSeq' = tradeSeq
  BY DEF SubmitTrigger, feedVars
<1>2. o \in Trigger
  BY FreshId DEF SubmittableTriggers, Trigger
<1>3. Replays(e)
  <2> SUFFICES ASSUME NEW s, EngineOK(s), s.book = book, s.triggers = triggers, s.made = tradeIds
               PROVE  LET d == ReplayEntry(s, e)
                      IN  d.book = book' /\ d.triggers = triggers' /\ d.made = tradeIds'
    BY DEF Replays
  <2>1. ReplayEntry(s, e) = ReplaySubmit(s, o)
    BY DEF ReplayEntry
  <2>2. ReplaySubmit(s, o) = [s EXCEPT !.triggers = Append(@, o)]
    BY <1>2, TriggerNotPriced DEF ReplaySubmit
  <2>4. DOMAIN s = {"book", "triggers", "made", "cancelled"}
    BY DEF EngineOK
  <2> QED  BY ONLY <1>1, <2>1, <2>2, <2>4, s.book = book, s.triggers = triggers, s.made = tradeIds
<1>4. LiveOK'
  <2>1. Append(triggers, o) \in Seq(Trigger)
    BY <1>2, AppendProperties DEF LiveOK
  <2> QED  BY <1>1, <2>1 DEF LiveOK
<1>5. e.type = "submit" /\ Answered(e)
  <2>1. e \in LogEntry
    BY <1>2 DEF LogEntry
  <2>2. e.type = "submit"
    OBVIOUS
  <2> HIDE DEF e
  <2> QED  BY <1>1, <1>3, <2>1, <2>2 DEF Answered
<1> HIDE DEF e
<1> QED  BY <1>1, <1>4, <1>5

\* ... for a cancellation ...
LEMMA CancelLogs ==
  ASSUME LiveOK, NEW t \in Threads, NEW id \in Ids, CancelTheOrder(t, id)
  PROVE  /\ LiveOK' /\ tradeIds' = tradeIds /\ thr' = [thr EXCEPT ![t].pc = "read"]
         /\ \E e : e.type = "cancel" /\ Answered(e)
<1> DEFINE e == [type |-> "cancel", id |-> id]
           c == CancelOrder(book, id)
<1>1. /\ book' = c /\ tradeIds' = tradeIds /\ thr' = [thr EXCEPT ![t].pc = "read"]
      /\ Log(<<e>>) /\ triggers' = triggers /\ tradeSeq' = tradeSeq
      /\ book.orderMap[id] # NoOrder
  BY DEF CancelTheOrder, feedVars, Goto
<1>2. /\ BookOK(c) /\ c.orders = book.orders
      /\ \A i \in Ids : c.orderMap[i] = IF i = id THEN NoOrder ELSE book.orderMap[i]
  BY <1>1, CancelOrderOK DEF LiveOK
<1>3. Replays(e)
  <2> SUFFICES ASSUME NEW s, EngineOK(s), s.book = book, s.triggers = triggers, s.made = tradeIds
               PROVE  LET d == ReplayEntry(s, e)
                      IN  d.book = book' /\ d.triggers = triggers' /\ d.made = tradeIds'
    BY DEF Replays
  <2>1. ReplayEntry(s, e) = ReplayCancel(s, id)
    BY DEF ReplayEntry
  <2>2. ReplayCancel(s, id) = [s EXCEPT !.book = c, !.cancelled = @ + 1]
    BY <1>1 DEF ReplayCancel
  <2>4. DOMAIN s = {"book", "triggers", "made", "cancelled"}
    BY DEF EngineOK
  <2> HIDE DEF c
  <2> QED  BY ONLY <1>1, <2>1, <2>2, <2>4, s.book = book, s.triggers = triggers, s.made = tradeIds
<1> HIDE DEF c
<1>4. LiveOK'
  <2>1. OwnIds(c)
    BY <1>2 DEF OwnIds, LiveOK
  <2> QED  BY <1>1, <1>2, <2>1 DEF LiveOK
<1>5. e.type = "cancel" /\ Answered(e)
  <2>1. e \in LogEntry
    BY DEF LogEntry
  <2>2. e.type = "cancel"
    OBVIOUS
  <2> HIDE DEF e
  <2> QED  BY <1>1, <1>3, <2>1, <2>2 DEF Answered
<1> HIDE DEF e
<1> QED  BY <1>1, <1>4, <1>5

\* ... and for a change of quantity.
LEMMA ModifyLogs ==
  ASSUME LiveOK, NEW t \in Threads, NEW id \in Ids, NEW q \in ModifyQtys, ModifyTheOrder(t, id, q)
  PROVE  /\ LiveOK' /\ tradeIds' = tradeIds /\ thr' = [thr EXCEPT ![t].pc = "read"]
         /\ \E e : e.type = "modify" /\ Answered(e)
<1> DEFINE e == [type |-> "modify", id |-> id, quantity |-> q]
           c == ModifyOrder(book, id, q)
<1>1. /\ book' = c /\ tradeIds' = tradeIds /\ thr' = [thr EXCEPT ![t].pc = "read"]
      /\ Log(<<e>>) /\ triggers' = triggers /\ tradeSeq' = tradeSeq
      /\ book.orderMap[id] # NoOrder
  BY DEF ModifyTheOrder, feedVars, Goto
<1>0. q \in Nat
  BY EngineAssumption
<1>2. BookOK(c) /\ OwnIds(c)
  BY <1>0, <1>1, ModifyKeeps DEF LiveOK
<1>3. Replays(e)
  <2> SUFFICES ASSUME NEW s, EngineOK(s), s.book = book, s.triggers = triggers, s.made = tradeIds
               PROVE  LET d == ReplayEntry(s, e)
                      IN  d.book = book' /\ d.triggers = triggers' /\ d.made = tradeIds'
    BY DEF Replays
  <2>1. ReplayEntry(s, e) = ReplayModify(s, id, q)
    BY DEF ReplayEntry
  <2>2. ReplayModify(s, id, q) = [s EXCEPT !.book = c]
    BY <1>1 DEF ReplayModify
  <2>4. DOMAIN s = {"book", "triggers", "made", "cancelled"}
    BY DEF EngineOK
  <2> HIDE DEF c
  <2> QED  BY ONLY <1>1, <2>1, <2>2, <2>4, s.book = book, s.triggers = triggers, s.made = tradeIds
<1> HIDE DEF c
<1>4. LiveOK'
  BY <1>1, <1>2 DEF LiveOK
<1>5. e.type = "modify" /\ Answered(e)
  <2>1. e \in LogEntry
    BY <1>0 DEF LogEntry
  <2>2. e.type = "modify"
    OBVIOUS
  <2> HIDE DEF e
  <2> QED  BY <1>1, <1>3, <2>1, <2>2 DEF Answered
<1> HIDE DEF e
<1> QED  BY <1>1, <1>4, <1>5

\* publishTrade logs a trade that the call has in hand.
LEMMA PublishLogs ==
  ASSUME LiveOK, CallsOK, NEW t \in Threads, PublishTrade(t)
  PROVE  /\ LiveOK' /\ UNCHANGED orderVars
         /\ thr[t].pc = "publish"
         /\ \E trade \in Published :
               /\ trade.tradeId = thr[t].trades[1].tradeId
               /\ thr' = [thr EXCEPT ![t].trades[1] = trade, ![t].pc = "notify",
                                     ![t].callbacks = subscribers.trades]
         /\ \E e : e.type = "trade" /\ e.tradeId = thr[t].trades[1].tradeId /\ Answered(e)
<1> DEFINE first == Head(thr[t].trades)
           trade == [first EXCEPT !.seqNum = tradeSeq + 1]
           e == [type |-> "trade", tradeId |-> first.tradeId]
<1>1. /\ thr' = [thr EXCEPT ![t].trades[1] = trade, ![t].pc = "notify",
                            ![t].callbacks = subscribers.trades]
      /\ thr[t].pc = "publish" /\ tradeSeq' = tradeSeq + 1 /\ Log(<<e>>)
      /\ book' = book /\ triggers' = triggers /\ tradeIds' = tradeIds
  BY DEF PublishTrade, orderVars
<1>2. thr[t].trades \in Seq(Published) /\ thr[t].trades # << >>
  BY <1>1 DEF CallsOK
<1>3. first \in Published /\ first = thr[t].trades[1]
  BY <1>2
<1> HIDE DEF first
<1>4. trade \in Published /\ trade.tradeId = first.tradeId
  BY <1>3 DEF Published, LiveOK
<1>5. LiveOK'
  BY <1>1 DEF LiveOK
<1>6. Replays(e)
  <2> SUFFICES ASSUME NEW s, EngineOK(s), s.book = book, s.triggers = triggers, s.made = tradeIds
               PROVE  LET d == ReplayEntry(s, e)
                      IN  d.book = book' /\ d.triggers = triggers' /\ d.made = tradeIds'
    BY DEF Replays
  <2>1. ReplayEntry(s, e) = s
    BY DEF ReplayEntry
  <2> QED  BY ONLY <1>1, <2>1, s.book = book, s.triggers = triggers, s.made = tradeIds
<1>7. e.type = "trade" /\ e.tradeId = first.tradeId /\ Answered(e)
  <2>1. e \in LogEntry
    BY <1>3 DEF LogEntry, Published
  <2>2. e.type = "trade" /\ e.tradeId = first.tradeId
    OBVIOUS
  <2> HIDE DEF e
  <2> QED  BY <1>1, <1>6, <2>1, <2>2 DEF Answered
<1> HIDE DEF e, trade
<1> QED  BY <1>1, <1>3, <1>4, <1>5, <1>7, Zenon DEF orderVars

\* checkTriggers logs the triggers that fire and nothing else; if none does, it
\* changes no order.
LEMMA CheckLogs ==
  ASSUME LiveOK, NEW t \in Threads, CheckTriggers(t)
  PROVE  /\ LiveOK' /\ tradeIds <= tradeIds'
         /\ \/ UNCHANGED <<orderVars, wal>>
            \/ \E entries \in Seq(ActivatedEntry) : entries # << >> /\ Log(entries)
<1>1. PICK s : /\ s = Checked(book, triggers, Head(thr[t].trades).price, Len(triggers))
               /\ book' = s.book /\ triggers' = s.armed /\ tradeIds' = tradeIds + s.made
               /\ Log(s.log) /\ tradeSeq' = tradeSeq
  BY DEF CheckTriggers, feedVars
<1>2. SoFar(book, triggers, Len(triggers), s)
  BY <1>1, CheckedOK DEF LiveOK
<1>3. /\ BookOK(s.book) /\ OwnIds(s.book) /\ s.armed \in Seq(Trigger) /\ s.made \in Nat
      /\ s.log \in Seq(ActivatedEntry)
  BY ONLY <1>2 DEF SoFar
<1>4. LiveOK' /\ tradeIds <= tradeIds'
  <2>1. tradeIds \in Nat
    BY Zenon DEF LiveOK
  <2>2. tradeIds' \in Nat /\ tradeIds <= tradeIds'
    BY ONLY <1>1, <1>3, <2>1, SMTT(30)
  <2>3. tradeSeq \in Nat
    BY DEF LiveOK
  <2> QED  BY ONLY <1>1, <1>3, <2>2, <2>3 DEF LiveOK
<1>5. CASE s.log = << >>
  <2>1. /\ s.book = book /\ s.made = 0 /\ Len(s.armed) = Len(triggers)
        /\ \A i \in 1 .. Len(triggers) : s.armed[i] = triggers[i]
    BY <1>2, <1>5 DEF SoFar
  <2>2. s.armed = triggers
    <3>1. triggers \in Seq(Trigger)
      BY DEF LiveOK
    <3> QED  BY ONLY <1>3, <2>1, <3>1, SeqEqual
  <2>3. wal' = wal
    BY <1>1, <1>5 DEF Log
  <2>4. tradeIds' = tradeIds
    <3>1. tradeIds \in Nat
      BY DEF LiveOK
    <3> QED  BY ONLY <1>1, <2>1, <3>1
  <2> QED  BY <1>1, <1>4, <2>1, <2>2, <2>3, <2>4 DEF orderVars
<1>6. CASE s.log # << >>
  BY <1>1, <1>3, <1>4, <1>6
<1> QED  BY <1>5, <1>6

----------------------------------------------------------------------------
(* The calls in progress *)

\* Steps of t after which it does not publish, or goes on as it did.
LEMMA CallGoesOn ==
  ASSUME CallsOK, NEW t \in Threads, DOMAIN thr' = Threads,
         \A u \in Threads : u # t => thr'[u] = thr[u],
         DOMAIN thr'[t] = {"pc", "trades", "callbacks", "update"},
         thr'[t].trades \in Seq(Published),
         thr'[t].pc \in {"publish", "notify"} => thr'[t].trades # << >>
  PROVE  CallsOK'
<1>1. ASSUME NEW u \in Threads
      PROVE  /\ DOMAIN thr'[u] = {"pc", "trades", "callbacks", "update"}
             /\ thr'[u].trades \in Seq(Published)
             /\ thr'[u].pc \in {"publish", "notify"} => thr'[u].trades # << >>
  <2>1. CASE u = t
    BY <2>1
  <2>2. CASE u # t
    BY <2>2 DEF CallsOK
  <2> QED  BY <2>1, <2>2
<1> QED  BY <1>1 DEF CallsOK

\* What the trades in hand become, for the thread t: their places in the list of
\* the call move down by d.
Moves(t, d) ==
    \A k \in InHand(thr'[t]) : /\ k + d \in InHand(thr[t])
                               /\ thr'[t].trades[k].tradeId = thr[t].trades[k + d].tradeId

\* The steps that put no trade into a thread's hands.
LEMMA OtherCalls ==
  ASSUME CallsOK, NEW t \in Threads,
         \/ \E o \in SubmittableTriggers : SubmitTrigger(t, o)
         \/ \E id \in Ids : CancelTheOrder(t, id)
         \/ \E id \in Ids, q \in ModifyQtys : ModifyTheOrder(t, id, q)
         \/ \E c \in Clients : SubscribeToTrades(t, c) \/ SubscribeToMarketData(t, c)
         \/ GetMarketData(t) \/ PublishMarketData(t)
         \/ ReadSnapshot(t) \/ SendFirstSnapshot(t) \/ NotifyTrade(t)
  PROVE  CallsOK' /\ \A u \in Threads : Moves(u, 0)
<1>1. \/ thr' = thr
      \/ thr' = [thr EXCEPT ![t] = Idle]
      \/ \E pc \in {"read", "diff", "snapshot", "send"} :
            \/ thr' = [thr EXCEPT ![t].pc = pc]
            \/ \E x : thr' = [thr EXCEPT ![t].pc = pc, ![t].callbacks = x]
            \/ \E x : thr' = [thr EXCEPT ![t].pc = pc, ![t].update = x]
      \/ \E x : thr' = [thr EXCEPT ![t].callbacks = x]
  BY ZenonT(30) DEF SubmitTrigger, CancelTheOrder, ModifyTheOrder, SubscribeToTrades, SubscribeToMarketData,
         GetMarketData, PublishMarketData, ReadSnapshot, SendFirstSnapshot, NotifyTrade, Goto
<1>2. /\ DOMAIN thr = Threads /\ DOMAIN thr[t] = {"pc", "trades", "callbacks", "update"}
      /\ thr[t].trades \in Seq(Published)
      /\ thr[t].pc \in {"publish", "notify"} => thr[t].trades # << >>
  BY DEF CallsOK
<1>3. /\ DOMAIN thr' = Threads /\ DOMAIN thr'[t] = {"pc", "trades", "callbacks", "update"}
      /\ \A u \in Threads : u # t => thr'[u] = thr[u]
      /\ thr'[t].trades \in Seq(Published)
      /\ \/ thr'[t].pc \notin {"publish", "notify"}
         \/ thr'[t].pc = thr[t].pc /\ thr'[t].trades = thr[t].trades
  <2>1. CASE thr' = thr
    BY <1>2, <2>1
  <2>2. CASE thr' = [thr EXCEPT ![t] = Idle]
    BY <1>2, <2>2 DEF Idle
  <2>3. ASSUME NEW pc \in {"read", "diff", "snapshot", "send"}, thr' = [thr EXCEPT ![t].pc = pc]
        PROVE  <1>3!:
    BY <1>2, <2>3
  <2>4. ASSUME NEW pc \in {"read", "diff", "snapshot", "send"}, NEW x,
               thr' = [thr EXCEPT ![t].pc = pc, ![t].callbacks = x]
        PROVE  <1>3!:
    BY <1>2, <2>4
  <2>5. ASSUME NEW pc \in {"read", "diff", "snapshot", "send"}, NEW x,
               thr' = [thr EXCEPT ![t].pc = pc, ![t].update = x]
        PROVE  <1>3!:
    BY <1>2, <2>5
  <2>6. ASSUME NEW x, thr' = [thr EXCEPT ![t].callbacks = x]
        PROVE  <1>3!:
    BY <1>2, <2>6
  <2> QED  BY <1>1, <2>1, <2>2, <2>3, <2>4, <2>5, <2>6
<1>4. CallsOK'
  BY <1>2, <1>3, CallGoesOn
<1>5. ASSUME NEW u \in Threads PROVE Moves(u, 0)
  <2>1. CASE thr'[u].pc \notin {"publish", "notify"}
    BY <2>1 DEF Moves, InHand
  <2>2. CASE thr'[u].pc = thr[u].pc /\ thr'[u].trades = thr[u].trades
    <3>1. ASSUME NEW k \in InHand(thr'[u])
          PROVE  k + 0 \in InHand(thr[u]) /\ thr'[u].trades[k].tradeId = thr[u].trades[k + 0].tradeId
      <4>1. k \in InHand(thr[u])
        BY <2>2 DEF InHand, FirstLeft
      <4>2. thr[u].trades \in Seq(Published)
        BY DEF CallsOK
      <4>3. k \in DOMAIN thr[u].trades
        BY <4>1 DEF InHand
      <4>4. k + 0 = k
        BY ONLY <4>2, <4>3
      <4> QED  BY <2>2, <4>1, <4>4
    <3> QED  BY <3>1 DEF Moves
  <2> QED  BY <1>3, <2>1, <2>2
<1> QED  BY <1>4, <1>5

\* checkTriggers ends with the trade that is published, and the others are still
\* in hand.
LEMMA CheckCalls ==
  ASSUME CallsOK, NEW t \in Threads, CheckTriggers(t)
  PROVE  CallsOK' /\ Moves(t, 1) /\ \A u \in Threads : u # t => thr'[u] = thr[u]
<1>1. /\ thr' = [thr EXCEPT ![t].trades = Tail(@),
                            ![t].pc = IF Len(thr[t].trades) = 1 THEN "read" ELSE "publish"]
      /\ thr[t].pc = "notify"
  BY DEF CheckTriggers
<1>2. /\ DOMAIN thr = Threads /\ DOMAIN thr[t] = {"pc", "trades", "callbacks", "update"}
      /\ thr[t].trades \in Seq(Published) /\ thr[t].trades # << >>
  BY <1>1 DEF CallsOK
<1> DEFINE s == thr[t].trades
           r == Tail(s)
<1>3. /\ DOMAIN thr' = Threads /\ DOMAIN thr'[t] = {"pc", "trades", "callbacks", "update"}
      /\ \A u \in Threads : u # t => thr'[u] = thr[u]
      /\ thr'[t].trades = r /\ thr'[t].pc = IF Len(s) = 1 THEN "read" ELSE "publish"
  BY <1>1, <1>2
<1>4. /\ r \in Seq(Published) /\ Len(r) = Len(s) - 1 /\ (Len(s) # 1 => r # << >>)
      /\ \A i \in 1 .. Len(r) : r[i] = s[i + 1]
  BY <1>2, TailOfMore, HeadTailProperties
<1>5. CallsOK'
  BY <1>3, <1>4, CallGoesOn
<1>6. ASSUME NEW k \in InHand(thr'[t])
      PROVE  k + 1 \in InHand(thr[t]) /\ thr'[t].trades[k].tradeId = s[k + 1].tradeId
  <2>1. k \in DOMAIN r
    BY <1>3 DEF InHand
  <2>2. Len(s) \in Nat /\ DOMAIN s = 1 .. Len(s) /\ DOMAIN r = 1 .. Len(r)
    BY <1>2, <1>4
  <2> HIDE DEF s, r
  <2>3. k + 1 \in DOMAIN s /\ r[k] = s[k + 1] /\ k + 1 >= 2
    BY ONLY <1>4, <2>1, <2>2
  <2> QED  BY <1>1, <1>3, <2>3 DEF InHand, FirstLeft, s
<1> QED  BY <1>3, <1>5, <1>6 DEF Moves

----------------------------------------------------------------------------
(* The trades in hand *)

\* The intact part of the log holds no trade that is still in hand, and none is
\* added that is.
NoneInHandLogged ==
    Intact(wal') /\ NoneFired(wal') =>
        /\ Intact(wal) /\ NoneFired(wal)
        /\ \A i \in DOMAIN wal' : Line(wal'[i]).type = "trade" =>
              \/ \E j \in DOMAIN wal : Line(wal[j]) = Line(wal'[i])
              \/ \A u \in Threads : \A k \in InHand(thr'[u]) :
                    thr'[u].trades[k].tradeId # Line(wal'[i]).tradeId

\* Steps after which the threads have fewer trades in hand.
LEMMA PendingKept ==
  ASSUME Pending, CallsOK, CallsOK', tradeIds \in Nat, tradeIds' \in Nat, tradeIds <= tradeIds',
         \A u \in Threads : \E d \in Nat : Moves(u, d),
         NoneInHandLogged
  PROVE  Pending'
<1>1. \A u \in Threads : \A k \in InHand(thr'[u]) : k \in Nat
  <2> TAKE u \in Threads
  <2> TAKE k \in InHand(thr'[u])
  <2>1. k \in DOMAIN thr'[u].trades /\ thr'[u].trades \in Seq(Published)
    BY DEF InHand, CallsOK
  <2> QED  BY <2>1
<1>2. ASSUME NEW u \in Threads, NEW k \in InHand(thr'[u])
      PROVE  thr'[u].trades[k].tradeId \in 1 .. tradeIds'
  <2>1. PICK d \in Nat : Moves(u, d)
    OBVIOUS
  <2>2. thr'[u].trades[k].tradeId = thr[u].trades[k + d].tradeId /\ k + d \in InHand(thr[u])
    BY <2>1 DEF Moves
  <2>3. thr[u].trades[k + d].tradeId \in 1 .. tradeIds
    BY <2>2 DEF Pending
  <2> QED  BY <2>2, <2>3
<1>3. ASSUME NEW t \in Threads, NEW u \in Threads, NEW k \in InHand(thr'[t]), NEW l \in InHand(thr'[u]),
             thr'[t].trades[k].tradeId = thr'[u].trades[l].tradeId
      PROVE  t = u /\ k = l
  <2>1. PICK d \in Nat : Moves(t, d)
    OBVIOUS
  <2>2. PICK e \in Nat : Moves(u, e) /\ (t = u => e = d)
    BY <2>1
  <2>3. /\ thr'[t].trades[k].tradeId = thr[t].trades[k + d].tradeId /\ k + d \in InHand(thr[t])
        /\ thr'[u].trades[l].tradeId = thr[u].trades[l + e].tradeId /\ l + e \in InHand(thr[u])
    BY <2>1, <2>2 DEF Moves
  <2>4. t = u /\ k + d = l + e
    <3>1. thr[t].trades[k + d].tradeId = thr[u].trades[l + e].tradeId
      BY ONLY <1>3, <2>3
    <3>2. \A i \in InHand(thr[t]), j \in InHand(thr[u]) :
             thr[t].trades[i].tradeId = thr[u].trades[j].tradeId => t = u /\ i = j
      BY DEF Pending
    <3> QED  BY ONLY <2>3, <3>1, <3>2
  <2>5. k \in Nat /\ l \in Nat
    BY <1>1
  <2> QED  BY <2>2, <2>4, <2>5
<1>4. ASSUME Intact(wal'), NoneFired(wal'), NEW t \in Threads, NEW k \in InHand(thr'[t]),
             NEW i \in DOMAIN wal', Line(wal'[i]).type = "trade"
      PROVE  Line(wal'[i]).tradeId # thr'[t].trades[k].tradeId
  <2>1. PICK d \in Nat : Moves(t, d)
    OBVIOUS
  <2>2. thr'[t].trades[k].tradeId = thr[t].trades[k + d].tradeId /\ k + d \in InHand(thr[t])
    BY <2>1 DEF Moves
  <2>3. ASSUME NEW j \in DOMAIN wal, Line(wal[j]) = Line(wal'[i])
        PROVE  Line(wal'[i]).tradeId # thr[t].trades[k + d].tradeId
    <3>1. Intact(wal) /\ NoneFired(wal)
      BY <1>4 DEF NoneInHandLogged
    <3> QED  BY <1>4, <2>2, <2>3, <3>1 DEF Pending
  <2>4. \/ \E j \in DOMAIN wal : Line(wal[j]) = Line(wal'[i])
        \/ thr'[t].trades[k].tradeId # Line(wal'[i]).tradeId
    BY <1>4 DEF NoneInHandLogged
  <2> QED  BY <2>2, <2>3, <2>4
<1> QED  BY <1>2, <1>3, <1>4 DEF Pending

\* What the log holds after an entry was written to it.
LEMMA EntryLogged ==
  ASSUME LogGood, WalEnabled, NEW e, Answered(e), Intact(wal'), NoneFired(wal')
  PROVE  /\ Intact(wal) /\ NoneFired(wal)
         /\ Clear(wal, Len(wal)) /\ Quietly(wal, Len(wal))
         /\ \A i \in DOMAIN wal' :
               Line(wal'[i]) = e \/ \E j \in DOMAIN wal : Line(wal[j]) = Line(wal'[i])
<1>1. e \in LogEntry /\ e.type # "activated" /\ Log(<<e>>)
  BY DEF Answered
<1>2. LogOK(wal') /\ Grown(wal, wal', <<e>>) /\ LogOK(wal)
  <2>1. LogOK(wal) /\ <<e>> \in Seq(LogEntry) /\ <<e>> # << >>
    BY <1>1 DEF LogGood
  <2> QED  BY <1>1, <2>1, LogGrows
<1>3. /\ Len(wal) \in Nat /\ Len(wal') \in Nat /\ DOMAIN wal = 1 .. Len(wal)
      /\ DOMAIN wal' = 1 .. Len(wal')
  BY <1>2 DEF LogOK
<1>4. Clear(wal', Len(wal'))
  BY <1>3 DEF Intact, Clear
<1>5. /\ Len(wal') = Len(wal) + 1 /\ Line(wal'[Len(wal')]) = e
      /\ \A i \in 1 .. Len(wal) : wal'[i] = wal[i] /\ Line(wal[i]) = wal[i]
      /\ Intact(wal)
      /\ Quietly(wal', Len(wal')) => NoneFired(wal)
      /\ e.type # "activated" /\ NoneFired(wal') => Quietly(wal', Len(wal'))
  BY <1>1, <1>2, <1>4, IntactBefore
<1>6. ASSUME NEW i \in DOMAIN wal'
      PROVE  Line(wal'[i]) = e \/ \E j \in DOMAIN wal : Line(wal[j]) = Line(wal'[i])
  <2>1. i \in 1 .. Len(wal) \/ i = Len(wal')
    BY ONLY <1>3, <1>5, i \in DOMAIN wal'
  <2> QED  BY <1>3, <1>5, <2>1
<1>7. NoneFired(wal)
  BY <1>1, <1>5
<1>8. Clear(wal, Len(wal))
  BY <1>3, <1>5 DEF Intact, Clear
<1>9. Quietly(wal, Len(wal))
  BY <1>3, <1>5, <1>7 DEF NoneFired, Quietly
<1> QED  BY <1>5, <1>6, <1>7, <1>8, <1>9

\* The trades of a new order get ids that nobody has.
LEMMA SubmitOrderPending ==
  ASSUME RecoveryInv, WalEnabled, NEW t \in Threads, NEW o \in Submittable, SubmitOrder(t, o)
  PROVE  CallsOK' /\ Pending'
<1>0. LiveOK /\ CallsOK /\ LogGood /\ Pending /\ tradeIds \in Nat
  BY DEF RecoveryInv, LiveOK
<1>1. PICK trades \in Seq(PricedTrade) :
               /\ tradeIds' = tradeIds + Len(trades)
               /\ thr' = [thr EXCEPT ![t].pc     = IF trades = << >> THEN "read" ELSE "publish",
                                     ![t].trades = Numbered(trades)]
  BY <1>0, SubmitOrderLogs
<1>2. PICK e : e.type = "submit" /\ Answered(e)
  BY <1>0, SubmitOrderLogs
<1> DEFINE new == Numbered(trades)
<1>3. /\ new \in Seq(Published) /\ Len(new) = Len(trades) /\ Len(trades) \in Nat
      /\ \A k \in DOMAIN new : k \in 1 .. Len(trades) /\ new[k].tradeId = tradeIds + k
      /\ trades # << >> => new # << >>
  <2>1. new \in Seq(Published)
    BY <1>0, NumberedType
  <2>2. /\ DOMAIN new = DOMAIN trades /\ DOMAIN trades = 1 .. Len(trades) /\ Len(trades) \in Nat
        /\ \A k \in DOMAIN new : new[k].tradeId = tradeIds + k
    BY DEF Numbered
  <2> HIDE DEF new
  <2>3. Len(new) = Len(trades)
    BY <2>1, <2>2
  <2>4. trades # << >> => new # << >>
    BY <2>2, <2>3
  <2> QED  BY <2>1, <2>2, <2>3, <2>4
<1> HIDE DEF new
<1>4. /\ DOMAIN thr = Threads /\ DOMAIN thr[t] = {"pc", "trades", "callbacks", "update"}
  BY <1>0 DEF CallsOK
<1>5. /\ DOMAIN thr' = Threads /\ DOMAIN thr'[t] = {"pc", "trades", "callbacks", "update"}
      /\ \A u \in Threads : u # t => thr'[u] = thr[u]
      /\ thr'[t].trades = new /\ thr'[t].pc = IF trades = << >> THEN "read" ELSE "publish"
  BY <1>1, <1>4 DEF new
<1>6. CallsOK'
  BY <1>0, <1>3, <1>5, CallGoesOn
<1>7. /\ tradeIds' \in Nat /\ tradeIds <= tradeIds'
      /\ \A k \in 1 .. Len(trades) : tradeIds + k \in tradeIds + 1 .. tradeIds'
  BY ONLY <1>0, <1>1, <1>3
<1>8. \A k \in InHand(thr'[t]) : /\ k \in 1 .. Len(trades)
                                 /\ thr'[t].trades[k].tradeId = tradeIds + k
  BY <1>3, <1>5 DEF InHand
<1>9. \A u \in Threads : u # t => \A k \in InHand(thr'[u]) :
            /\ k \in InHand(thr[u]) /\ thr'[u].trades[k] = thr[u].trades[k]
            /\ thr'[u].trades[k].tradeId \in 1 .. tradeIds
  BY <1>0, <1>5 DEF Pending
<1>10. ASSUME NEW u \in Threads, NEW k \in InHand(thr'[u])
       PROVE  thr'[u].trades[k].tradeId \in 1 .. tradeIds'
  <2>1. CASE u = t
    BY <1>0, <1>7, <1>8, <2>1
  <2>2. CASE u # t
    <3>1. thr'[u].trades[k].tradeId \in 1 .. tradeIds
      BY <1>9, <2>2
    <3> QED  BY ONLY <1>0, <1>7, <3>1
  <2> QED  BY <2>1, <2>2
<1>11. ASSUME NEW u \in Threads, NEW v \in Threads, NEW k \in InHand(thr'[u]), NEW l \in InHand(thr'[v]),
              thr'[u].trades[k].tradeId = thr'[v].trades[l].tradeId
       PROVE  u = v /\ k = l
  <2>1. CASE u = t /\ v = t
    <3>1. k \in 1 .. Len(trades) /\ l \in 1 .. Len(trades) /\ tradeIds + k = tradeIds + l
      BY <1>8, <1>11, <2>1
    <3> QED  BY ONLY <1>0, <1>3, <2>1, <3>1
  <2>2. CASE u # t /\ v # t
    <3>1. /\ k \in InHand(thr[u]) /\ l \in InHand(thr[v])
          /\ thr[u].trades[k].tradeId = thr[v].trades[l].tradeId
      BY <1>9, <1>11, <2>2
    <3>2. \A i \in InHand(thr[u]), j \in InHand(thr[v]) :
             thr[u].trades[i].tradeId = thr[v].trades[j].tradeId => u = v /\ i = j
      BY <1>0 DEF Pending
    <3> QED  BY ONLY <3>1, <3>2
  <2>3. CASE u = t /\ v # t
    <3>1. k \in 1 .. Len(trades) /\ tradeIds + k \in 1 .. tradeIds
      BY <1>8, <1>9, <1>11, <2>3
    <3> QED  BY ONLY <1>0, <3>1
  <2>4. CASE u # t /\ v = t
    <3>1. l \in 1 .. Len(trades) /\ tradeIds + l \in 1 .. tradeIds
      BY <1>8, <1>9, <1>11, <2>4
    <3> QED  BY ONLY <1>0, <3>1
  <2> QED  BY <2>1, <2>2, <2>3, <2>4
<1>12. ASSUME Intact(wal'), NoneFired(wal'), NEW u \in Threads, NEW k \in InHand(thr'[u]),
              NEW i \in DOMAIN wal', Line(wal'[i]).type = "trade"
       PROVE  Line(wal'[i]).tradeId # thr'[u].trades[k].tradeId
  <2>1. /\ Intact(wal) /\ NoneFired(wal)
        /\ Clear(wal, Len(wal)) /\ Quietly(wal, Len(wal))
        /\ Line(wal'[i]) = e \/ \E j \in DOMAIN wal : Line(wal[j]) = Line(wal'[i])
    BY <1>0, <1>2, <1>12, EntryLogged
  <2>2. PICK j \in DOMAIN wal : Line(wal[j]) = Line(wal'[i])
    BY <1>2, <1>12, <2>1
  <2>3. CASE u # t
    BY <1>0, <1>9, <1>12, <2>1, <2>2, <2>3 DEF Pending
  <2>4. CASE u = t
    <3>1. Len(wal) \in 0 .. Len(wal) /\ DOMAIN wal = 1 .. Len(wal) /\ wal \in Seq(WalLine)
      BY <1>0 DEF LogGood, LogOK
    <3>4. Traded(wal, Len(wal)) /\ After(wal, Len(wal)).made = tradeIds
      BY <1>0, <2>1, <3>1 DEF LogGood, Traces, Current
    <3>5. Line(wal[j]).tradeId \in 1 .. tradeIds
      BY <1>12, <2>2, <3>1, <3>4 DEF Traded
    <3>6. k \in 1 .. Len(trades) /\ thr'[u].trades[k].tradeId = tradeIds + k
      BY <1>8, <2>4
    <3>7. tradeIds + k \notin 1 .. tradeIds
      BY ONLY <1>0, <1>3, <3>6
    <3> QED  BY <2>2, <3>5, <3>6, <3>7
  <2> QED  BY <2>3, <2>4
<1> QED  BY <1>6, <1>10, <1>11, <1>12 DEF Pending

\* The entry of a trade, its thread being the one that publishes it.
LEMMA PublishedIsNew ==
  ASSUME CallsOK, Pending, NEW t \in Threads, thr[t].pc = "publish",
         NEW e, e.tradeId = thr[t].trades[1].tradeId
  PROVE  NewTrade(e)
<1>1. thr[t].trades \in Seq(Published) /\ thr[t].trades # << >>
  BY DEF CallsOK
<1>2. 1 \in DOMAIN thr[t].trades
  BY ONLY <1>1
<1>3. 1 \in InHand(thr[t])
  BY <1>2 DEF InHand, FirstLeft
<1>4. e.tradeId \in 1 .. tradeIds
  BY <1>3 DEF Pending
<1>5. ASSUME Intact(wal), NoneFired(wal), NEW i \in DOMAIN wal, Line(wal[i]).type = "trade"
      PROVE  Line(wal[i]).tradeId # e.tradeId
  BY <1>3, <1>5 DEF Pending
<1> QED  BY <1>4, <1>5 DEF NewTrade

\* Publishing a trade moves it from the hands of its thread to the log.
LEMMA PublishCalls ==
  ASSUME LiveOK, CallsOK, LogGood, Pending, WalEnabled, NEW t \in Threads, PublishTrade(t)
  PROVE  CallsOK' /\ Pending'
<1> DEFINE s == thr[t].trades
<1>1. /\ LiveOK' /\ tradeIds' = tradeIds /\ thr[t].pc = "publish" /\ tradeIds \in Nat
  BY PublishLogs, ZenonT(30) DEF orderVars, LiveOK
<1>2. PICK trade \in Published :
               /\ trade.tradeId = s[1].tradeId
               /\ thr' = [thr EXCEPT ![t].trades[1] = trade, ![t].pc = "notify",
                                     ![t].callbacks = subscribers.trades]
  BY PublishLogs, ZenonT(30)
<1>3. PICK e : e.type = "trade" /\ e.tradeId = s[1].tradeId /\ Answered(e)
  BY PublishLogs, ZenonT(30)
<1>4. /\ DOMAIN thr = Threads /\ DOMAIN thr[t] = {"pc", "trades", "callbacks", "update"}
      /\ s \in Seq(Published) /\ s # << >>
  BY <1>1 DEF CallsOK
<1> DEFINE r == [s EXCEPT ![1] = trade]
<1>5. /\ DOMAIN thr' = Threads /\ DOMAIN thr'[t] = {"pc", "trades", "callbacks", "update"}
      /\ \A u \in Threads : u # t => thr'[u] = thr[u]
      /\ thr'[t].trades = r /\ thr'[t].pc = "notify"
  BY <1>2, <1>4
<1> HIDE DEF s
<1>6. /\ 1 \in 1 .. Len(s) /\ Len(s) \in Nat /\ DOMAIN s = 1 .. Len(s)
  BY ONLY <1>4
<1>7. /\ r \in Seq(Published) /\ Len(r) = Len(s) /\ DOMAIN r = DOMAIN s
      /\ \A k \in DOMAIN s : k # 1 => r[k] = s[k]
  BY ONLY <1>4, <1>6, ExceptSeq
<1> HIDE DEF r
<1>8. r # << >>
  BY ONLY <1>6, <1>7
<1>9. CallsOK'
  BY <1>4, <1>5, <1>7, <1>8, CallGoesOn
<1>10. \A k \in InHand(thr'[t]) : k \in DOMAIN s /\ k # 1 /\ k + 0 = k
  <2>1. \A k \in InHand(thr'[t]) : k \in DOMAIN r /\ k >= 2
    BY <1>5 DEF InHand, FirstLeft
  <2> QED  BY ONLY <2>1, <1>6, <1>7
<1>11. ASSUME NEW u \in Threads PROVE Moves(u, 0)
  <2>1. CASE u = t
    <3>1. ASSUME NEW k \in InHand(thr'[t])
          PROVE  k + 0 \in InHand(thr[t]) /\ thr'[t].trades[k].tradeId = s[k + 0].tradeId
      <4>1. k \in DOMAIN s /\ k # 1 /\ k + 0 = k /\ r[k] = s[k]
        BY <1>7, <1>10
      <4>2. k >= 1
        BY ONLY <1>6, <4>1
      <4>3. k \in InHand(thr[t])
        BY <1>1, <4>1, <4>2 DEF InHand, FirstLeft, s
      <4> QED  BY <1>5, <4>1, <4>3
    <3> QED  BY <2>1, <3>1 DEF Moves, s
  <2>2. CASE u # t
    <3>1. \A k \in InHand(thr[u]) : k + 0 = k
      <4>1. \A k \in InHand(thr[u]) : k \in DOMAIN thr[u].trades /\ thr[u].trades \in Seq(Published)
        BY DEF InHand, CallsOK
      <4> QED  BY ONLY <4>1
    <3> QED  BY <1>5, <2>2, <3>1 DEF Moves
  <2> QED  BY <2>1, <2>2
<1>12. NoneInHandLogged
  <2> SUFFICES ASSUME Intact(wal'), NoneFired(wal')
               PROVE  /\ Intact(wal) /\ NoneFired(wal)
                      /\ \A i \in DOMAIN wal' : Line(wal'[i]).type = "trade" =>
                            \/ \E j \in DOMAIN wal : Line(wal[j]) = Line(wal'[i])
                            \/ \A u \in Threads : \A k \in InHand(thr'[u]) :
                                  thr'[u].trades[k].tradeId # Line(wal'[i]).tradeId
    BY DEF NoneInHandLogged
  <2>1. /\ Intact(wal) /\ NoneFired(wal)
        /\ \A i \in DOMAIN wal' :
              Line(wal'[i]) = e \/ \E j \in DOMAIN wal : Line(wal[j]) = Line(wal'[i])
    BY <1>3, EntryLogged
  <2>2. ASSUME NEW u \in Threads, NEW k \in InHand(thr'[u])
        PROVE  thr'[u].trades[k].tradeId # e.tradeId
    <3>1. 1 \in InHand(thr[t])
      BY <1>1, <1>6 DEF InHand, FirstLeft, s
    <3>2. k \in InHand(thr[u]) /\ thr'[u].trades[k].tradeId = thr[u].trades[k].tradeId
      <4>1. k + 0 \in InHand(thr[u]) /\ thr'[u].trades[k].tradeId = thr[u].trades[k + 0].tradeId
        BY <1>11 DEF Moves
      <4>2. k + 0 = k
        <5>1. k \in DOMAIN thr'[u].trades /\ thr'[u].trades \in Seq(Published)
          BY <1>9 DEF InHand, CallsOK
        <5> QED  BY ONLY <5>1
      <4> QED  BY ONLY <4>1, <4>2
    <3>3. u = t => k # 1
      BY <1>10
    <3>4. \A i \in InHand(thr[u]), j \in InHand(thr[t]) :
             thr[u].trades[i].tradeId = thr[t].trades[j].tradeId => u = t /\ i = j
      BY DEF Pending
    <3>5. e.tradeId = thr[t].trades[1].tradeId
      BY <1>3 DEF s
    <3> QED  BY ONLY <3>1, <3>2, <3>3, <3>4, <3>5
  <2> QED  BY <2>1, <2>2
<1>13. \A u \in Threads : \E d \in Nat : Moves(u, d)
  BY <1>11
<1>14. tradeIds' \in Nat /\ tradeIds <= tradeIds'
  BY ONLY <1>1
<1> QED  BY ONLY Pending, CallsOK, <1>1, <1>9, <1>12, <1>13, <1>14, PendingKept

\* Entries that are no trades.
LEMMA EntryInHand ==
  ASSUME LogGood, WalEnabled, NEW e, Answered(e), e.type # "trade"
  PROVE  NoneInHandLogged
<1>1. Intact(wal') /\ NoneFired(wal') =>
          /\ Intact(wal) /\ NoneFired(wal)
          /\ \A i \in DOMAIN wal' :
                Line(wal'[i]) = e \/ \E j \in DOMAIN wal : Line(wal[j]) = Line(wal'[i])
  BY EntryLogged
<1>2. NoneInHandLogged
  BY <1>1 DEF NoneInHandLogged
<1> QED  BY ONLY <1>2

\* Steps that log nothing.
LEMMA NoEntry == wal' = wal => NoneInHandLogged
BY DEF NoneInHandLogged

----------------------------------------------------------------------------
(* Every step *)

\* The invariant holds at the start.
LEMMA RecoveryStarts == RecoveryInit => RecoveryInv
<1> SUFFICES ASSUME RecoveryInit PROVE RecoveryInv
  OBVIOUS
<1>1. /\ book = EmptyBook /\ triggers = << >> /\ tradeIds = 0 /\ tradeSeq = 0 /\ wal = << >>
      /\ thr = [t \in Threads |-> Idle] /\ past = [n \in {0} |-> View(book, triggers)]
  BY DEF RecoveryInit, Init
<1>2. /\ NewEngine.book = EmptyBook /\ NewEngine.triggers = << >> /\ NewEngine.made = 0
  BY DEF NewEngine
<1>3. LiveOK
  <2>1. BookOK(EmptyBook) /\ OwnIds(EmptyBook)
    BY <1>2, NewEngineOK DEF EngineOK
  <2>2. << >> \in Seq(Trigger)
    OBVIOUS
  <2> QED  BY ONLY <1>1, <2>1, <2>2 DEF LiveOK
<1>4. /\ DOMAIN thr = Threads
      /\ \A t \in Threads : thr[t] = Idle
  BY <1>1
<1>5. /\ DOMAIN Idle = {"pc", "trades", "callbacks", "update"} /\ Idle.trades \in Seq(Published)
      /\ Idle.pc = "idle"
  BY DEF Idle
<1>6. CallsOK
  BY <1>4, <1>5 DEF CallsOK
<1>7. Pending
  BY <1>4, <1>5 DEF Pending, InHand
<1>8. LogOK(wal) /\ Len(wal) = 0 /\ DOMAIN wal = 1 .. 0
  <2>1. << >> \in Seq(WalLine) /\ Len(<< >>) = 0 /\ DOMAIN << >> = 1 .. 0
    OBVIOUS
  <2> QED  BY <1>1, <2>1 DEF LogOK
<1>9. After(wal, 0) = NewEngine
  BY <1>8, AfterOne DEF LogOK
<1>10. Current
  BY <1>1, <1>2, <1>8, <1>9 DEF Current
<1>11. DOMAIN past = {0} /\ past[0] = View(book, triggers)
  BY <1>1
<1>12. 0 .. 0 = {0} /\ 1 .. 0 = {}
  OBVIOUS
<1>13. Traded(wal, 0)
  BY <1>12 DEF Traded
<1>14. Traces(0)
  BY <1>1, <1>2, <1>9, <1>11, <1>13 DEF Traces
<1>15. LogGood
  BY <1>8, <1>10, <1>11, <1>12, <1>14 DEF LogGood
<1> QED  BY <1>3, <1>6, <1>7, <1>15 DEF RecoveryInv

\* A step that writes one entry, other than that of a trade, and puts no trade
\* into a thread's hands.
LEMMA EntryStep ==
  ASSUME RecoveryInv, WalEnabled, NewPast, LiveOK', tradeIds' = tradeIds,
         NEW e, e.type # "trade", Answered(e),
         CallsOK', \A u \in Threads : Moves(u, 0)
  PROVE  RecoveryInv'
<1>1. LiveOK /\ CallsOK /\ LogGood /\ Pending /\ tradeIds \in Nat
  BY DEF RecoveryInv, LiveOK
<1>2. tradeIds' \in Nat /\ tradeIds <= tradeIds'
  BY ONLY <1>1, tradeIds' = tradeIds
<1>3. LogGood'
  <2>1. e \in LogEntry /\ e.type # "activated" /\ Log(<<e>>) /\ Replays(e) /\ NewTrade(e)
    BY DEF Answered, NewTrade
  <2> QED  BY <1>1, <1>2, <2>1, OneLogged
<1>4. NoneInHandLogged
  BY ONLY <1>1, WalEnabled, e.type # "trade", Answered(e), EntryInHand
<1>5. \A u \in Threads : \E d \in Nat : Moves(u, d)
  OBVIOUS
<1>6. Pending'
  BY ONLY <1>1, <1>2, <1>4, <1>5, CallsOK', PendingKept
<1> QED  BY <1>3, <1>6 DEF RecoveryInv

\* A step that writes nothing.
LEMMA SilentStep ==
  ASSUME RecoveryInv, NewPast, UNCHANGED <<orderVars, wal>>, tradeSeq' \in Nat,
         CallsOK', \A u \in Threads : Moves(u, 0)
  PROVE  RecoveryInv'
<1>1. LiveOK /\ CallsOK /\ LogGood /\ Pending /\ tradeIds \in Nat
  BY DEF RecoveryInv, LiveOK
<1>2. tradeIds' = tradeIds /\ wal' = wal /\ book' = book /\ triggers' = triggers
  BY DEF orderVars
<1>3. LogGood'
  BY <1>1, NothingLogged
<1>4. NoneInHandLogged
  BY <1>2, NoEntry
<1>5. LiveOK'
  BY <1>1, <1>2 DEF LiveOK
<1>6. tradeIds' \in Nat /\ tradeIds <= tradeIds'
  BY ONLY <1>1, <1>2
<1>7. \A u \in Threads : \E d \in Nat : Moves(u, d)
  OBVIOUS
<1>8. Pending'
  BY ONLY <1>1, <1>4, <1>6, <1>7, CallsOK', PendingKept
<1> QED  BY <1>3, <1>5, <1>8 DEF RecoveryInv

\* checkTriggers: nothing is logged, or that triggers fired.
LEMMA CheckStep ==
  ASSUME RecoveryInv, WalEnabled, NewPast, NEW t \in Threads, CheckTriggers(t)
  PROVE  RecoveryInv'
<1>1. LiveOK /\ CallsOK /\ LogGood /\ Pending /\ tradeIds \in Nat
  BY DEF RecoveryInv, LiveOK
<1>2. CallsOK' /\ Moves(t, 1) /\ \A u \in Threads : u # t => thr'[u] = thr[u]
  BY <1>1, CheckCalls
<1>3. /\ LiveOK' /\ tradeIds <= tradeIds'
      /\ \/ UNCHANGED <<orderVars, wal>>
         \/ \E entries \in Seq(ActivatedEntry) : entries # << >> /\ Log(entries)
  BY <1>1, CheckLogs
<1>4. tradeIds' \in Nat
  BY <1>3 DEF LiveOK
<1>5. LogGood' /\ NoneInHandLogged
  <2>1. CASE UNCHANGED <<orderVars, wal>>
    BY <1>1, <2>1, NothingLogged, NoEntry
  <2>2. ASSUME NEW entries \in Seq(ActivatedEntry), entries # << >>, Log(entries)
        PROVE  LogGood' /\ NoneInHandLogged
    <3>1. LogGood' /\ ~(Intact(wal') /\ NoneFired(wal'))
      BY <1>1, <1>3, <1>4, <2>2, FiringsLogged
    <3> QED  BY <3>1 DEF NoneInHandLogged
  <2> QED  BY <1>3, <2>1, <2>2
<1>6. ASSUME NEW u \in Threads PROVE \E d \in Nat : Moves(u, d)
  <2>1. CASE u = t
    BY <1>2, <2>1
  <2>2. CASE u # t
    <3>1. \A k \in InHand(thr[u]) : k + 0 = k
      <4>1. \A k \in InHand(thr[u]) : k \in DOMAIN thr[u].trades /\ thr[u].trades \in Seq(Published)
        BY <1>1 DEF InHand, CallsOK
      <4> QED  BY ONLY <4>1
    <3>2. Moves(u, 0)
      BY <1>2, <2>2, <3>1 DEF Moves
    <3> QED  BY <3>2
  <2> QED  BY <2>1, <2>2
<1>7. Pending'
  BY ONLY <1>1, <1>2, <1>3, <1>4, <1>5, <1>6, PendingKept
<1> QED  BY <1>2, <1>3, <1>5, <1>7 DEF RecoveryInv

\* An order for the book.
LEMMA SubmitOrderStep ==
  ASSUME RecoveryInv, WalEnabled, NewPast, NEW t \in Threads, NEW o \in Submittable, SubmitOrder(t, o)
  PROVE  RecoveryInv'
<1>1. LiveOK /\ LogGood /\ tradeIds \in Nat
  BY DEF RecoveryInv, LiveOK
<1>2. CallsOK' /\ Pending'
  BY SubmitOrderPending
<1>3. LiveOK'
  BY <1>1, SubmitOrderLogs
<1>4. PICK trades \in Seq(PricedTrade) : tradeIds' = tradeIds + Len(trades)
  BY <1>1, SubmitOrderLogs
<1>5. PICK e : e.type = "submit" /\ Answered(e)
  BY <1>1, SubmitOrderLogs
<1>6. tradeIds' \in Nat /\ tradeIds <= tradeIds'
  <2>1. Len(trades) \in Nat
    OBVIOUS
  <2> QED  BY ONLY <1>1, <1>4, <2>1
<1>7. e \in LogEntry /\ e.type # "activated" /\ Log(<<e>>) /\ Replays(e) /\ NewTrade(e)
  BY <1>5 DEF Answered, NewTrade
<1>8. LogGood'
  BY <1>1, <1>6, <1>7, OneLogged
<1> QED  BY <1>2, <1>3, <1>8 DEF RecoveryInv

\* The publication of a trade.
LEMMA PublishStep ==
  ASSUME RecoveryInv, WalEnabled, NewPast, NEW t \in Threads, PublishTrade(t)
  PROVE  RecoveryInv'
<1>1. LiveOK /\ CallsOK /\ LogGood /\ Pending /\ tradeIds \in Nat
  BY DEF RecoveryInv, LiveOK
<1>2. CallsOK' /\ Pending'
  BY <1>1, PublishCalls
<1>3. LiveOK' /\ UNCHANGED orderVars /\ thr[t].pc = "publish"
  BY <1>1, PublishLogs, ZenonT(30)
<1>4. PICK e : e.type = "trade" /\ e.tradeId = thr[t].trades[1].tradeId /\ Answered(e)
  BY <1>1, PublishLogs, ZenonT(30)
<1>5. tradeIds' = tradeIds
  BY <1>3 DEF orderVars
<1>6. tradeIds' \in Nat /\ tradeIds <= tradeIds'
  BY ONLY <1>1, <1>5
<1>7. NewTrade(e)
  BY <1>1, <1>3, <1>4, PublishedIsNew
<1>8. e \in LogEntry /\ e.type # "activated" /\ Log(<<e>>) /\ Replays(e)
  BY <1>4 DEF Answered
<1>9. LogGood'
  BY <1>1, <1>6, <1>7, <1>8, OneLogged
<1> QED  BY <1>2, <1>3, <1>9 DEF RecoveryInv

\* The calls that write one entry and make no trade.
LEMMA EntryStepOfCall ==
  ASSUME RecoveryInv, WalEnabled, NewPast, NEW t \in Threads,
         \/ \E o \in SubmittableTriggers : SubmitTrigger(t, o)
         \/ \E id \in Ids : CancelTheOrder(t, id)
         \/ \E id \in Ids, q \in ModifyQtys : ModifyTheOrder(t, id, q)
  PROVE  RecoveryInv'
<1>1. LiveOK /\ CallsOK
  BY DEF RecoveryInv
<1>2. CallsOK' /\ \A u \in Threads : Moves(u, 0)
  BY <1>1, OtherCalls
<1>3. CASE \E o \in SubmittableTriggers : SubmitTrigger(t, o)
  <2>1. PICK o \in SubmittableTriggers : SubmitTrigger(t, o)
    BY <1>3
  <2>2. LiveOK' /\ tradeIds' = tradeIds /\ \E e : e.type = "submit" /\ Answered(e)
    BY <1>1, <2>1, SubmitTriggerLogs
  <2>3. PICK e : e.type = "submit" /\ Answered(e)
    BY <2>2
  <2> QED  BY <1>2, <2>2, <2>3, EntryStep
<1>4. CASE \E id \in Ids : CancelTheOrder(t, id)
  <2>1. PICK id \in Ids : CancelTheOrder(t, id)
    BY <1>4
  <2>2. LiveOK' /\ tradeIds' = tradeIds /\ \E e : e.type = "cancel" /\ Answered(e)
    BY <1>1, <2>1, CancelLogs
  <2>3. PICK e : e.type = "cancel" /\ Answered(e)
    BY <2>2
  <2> QED  BY <1>2, <2>2, <2>3, EntryStep
<1>5. CASE \E id \in Ids, q \in ModifyQtys : ModifyTheOrder(t, id, q)
  <2>1. PICK id \in Ids, q \in ModifyQtys : ModifyTheOrder(t, id, q)
    BY <1>5
  <2>2. LiveOK' /\ tradeIds' = tradeIds /\ \E e : e.type = "modify" /\ Answered(e)
    BY <1>1, <2>1, ModifyLogs
  <2>3. PICK e : e.type = "modify" /\ Answered(e)
    BY <2>2
  <2> QED  BY <1>2, <2>2, <2>3, EntryStep
<1> QED  BY <1>3, <1>4, <1>5

\* The steps that write nothing.
LEMMA SilentStepOfCall ==
  ASSUME RecoveryInv, NewPast, NEW t \in Threads,
         \/ \E c \in Clients : SubscribeToTrades(t, c) \/ SubscribeToMarketData(t, c)
         \/ GetMarketData(t) \/ PublishMarketData(t)
         \/ ReadSnapshot(t) \/ SendFirstSnapshot(t) \/ NotifyTrade(t)
  PROVE  RecoveryInv'
<1>1. LiveOK /\ CallsOK /\ tradeSeq \in Nat
  BY DEF RecoveryInv, LiveOK
<1>2. CallsOK' /\ \A u \in Threads : Moves(u, 0)
  BY <1>1, OtherCalls
<1>3. UNCHANGED <<orderVars, wal>> /\ tradeSeq' = tradeSeq
  <2>1. ASSUME NEW c \in Clients, SubscribeToTrades(t, c) \/ SubscribeToMarketData(t, c)
        PROVE  UNCHANGED <<orderVars, wal>> /\ tradeSeq' = tradeSeq
    BY ONLY <2>1, Zenon DEF SubscribeToTrades, SubscribeToMarketData, orderVars, feedVars
  <2>2. GetMarketData(t) => UNCHANGED <<orderVars, wal>> /\ tradeSeq' = tradeSeq
    BY ONLY Zenon DEF GetMarketData, orderVars, feedVars
  <2>3. PublishMarketData(t) => UNCHANGED <<orderVars, wal>> /\ tradeSeq' = tradeSeq
    BY ONLY Zenon DEF PublishMarketData, orderVars
  <2>4. ReadSnapshot(t) => UNCHANGED <<orderVars, wal>> /\ tradeSeq' = tradeSeq
    BY ONLY Zenon DEF ReadSnapshot, orderVars, feedVars
  <2>5. SendFirstSnapshot(t) => UNCHANGED <<orderVars, wal>> /\ tradeSeq' = tradeSeq
    BY ONLY Zenon DEF SendFirstSnapshot, orderVars, feedVars
  <2>6. NotifyTrade(t) => UNCHANGED <<orderVars, wal>> /\ tradeSeq' = tradeSeq
    BY ONLY Zenon DEF NotifyTrade, orderVars, feedVars
  <2> QED  BY <2>1, <2>2, <2>3, <2>4, <2>5, <2>6, Zenon
<1> QED  BY <1>1, <1>2, <1>3, SilentStep, Zenon

\* The invariant is inductive.
LEMMA RecoveryGoesOn ==
  ASSUME RecoveryInv, WalEnabled, [RecoveryNext]_recoveryVars
  PROVE  RecoveryInv'
<1>1. CASE UNCHANGED recoveryVars
  BY <1>1 DEF recoveryVars, vars, orderVars, feedVars, RecoveryInv, LiveOK, CallsOK, LogGood, Current,
              Traces, Pending
<1>2. CASE RecoveryNext
  <2>1. NewPast
    BY <1>2 DEF RecoveryNext, NewPast
  <2>2. CASE Restart
    <3>1. PICK log \in LeftOver : RestartFrom(log)
      BY <2>2 DEF Restart
    <3>2. wal # << >> /\ LogGood /\ LiveOK
      BY <2>2 DEF Restart, RecoveryInv
    <3> QED  BY <2>1, <3>1, <3>2, Restarted DEF RecoveryInv
  <2>3. CASE Next
    <3>1. PICK t \in Threads : Call(t) \/ InCall(t)
      BY <2>3 DEF Next
    <3>2. CASE \E o \in Submittable : SubmitOrder(t, o)
      BY <2>1, <3>2, SubmitOrderStep
    <3>3. CASE \/ \E o \in SubmittableTriggers : SubmitTrigger(t, o)
               \/ \E id \in Ids : CancelTheOrder(t, id)
               \/ \E id \in Ids, q \in ModifyQtys : ModifyTheOrder(t, id, q)
      BY <2>1, <3>3, EntryStepOfCall
    <3>4. CASE PublishTrade(t)
      BY <2>1, <3>4, PublishStep
    <3>5. CASE CheckTriggers(t)
      BY <2>1, <3>5, CheckStep
    <3>6. CASE \/ \E c \in Clients : SubscribeToTrades(t, c) \/ SubscribeToMarketData(t, c)
               \/ GetMarketData(t) \/ PublishMarketData(t)
               \/ ReadSnapshot(t) \/ SendFirstSnapshot(t) \/ NotifyTrade(t)
      BY <2>1, <3>6, SilentStepOfCall
    <3> QED  BY <3>1, <3>2, <3>3, <3>4, <3>5, <3>6 DEF Call, InCall
  <2> QED  BY <1>2, <2>2, <2>3 DEF RecoveryNext
<1> QED  BY <1>1, <1>2

----------------------------------------------------------------------------
(* What the invariant says of a restart *)

\* The engine is replayed as it is.
LEMMA InvReplays ==
  ASSUME RecoveryInv
  PROVE  ReplayReconstructs
<1>1. LogGood /\ LogOK(wal) /\ Current
  BY DEF RecoveryInv, LogGood
<1>2. wal \in Seq(WalLine) /\ Len(wal) \in Nat /\ DOMAIN wal = 1 .. Len(wal)
  BY <1>1 DEF LogOK
<1> SUFFICES ASSUME Intact(wal), NoneFired(wal)
             PROVE  LET s == Replay(NewEngine, wal)
                    IN  View(s.book, s.triggers) = View(book, triggers)
  BY DEF ReplayReconstructs
<1>3. Clear(wal, Len(wal))
  BY <1>2 DEF Intact, Clear
<1>4. Len(Readable(wal)) = Len(wal)
  <2>1. /\ Len(Readable(wal)) \in Nat /\ Len(Readable(wal)) <= Len(wal)
        /\ \A k \in Nat : k <= Len(wal) /\ Clear(wal, k) => k <= Len(Readable(wal))
    BY <1>1, ReadableOK
  <2>2. Len(wal) <= Len(wal)
    BY <1>2
  <2>3. Len(wal) <= Len(Readable(wal))
    BY ONLY <1>2, <1>3, <2>1, <2>2
  <2> QED  BY ONLY <1>2, <2>1, <2>3
<1>5. Replay(NewEngine, wal) = After(wal, Len(wal))
  BY <1>1, <1>4, ReplayIsAfter
<1>6. LET s == After(wal, Len(wal)) IN s.book = book /\ s.triggers = triggers
  BY <1>1 DEF Current
<1> QED  BY ONLY <1>5, <1>6

\* The lines that can be read, when no trigger fired among them.
LEMMA InvTraces ==
  ASSUME RecoveryInv, NoneFired(Readable(wal))
  PROVE  LET n == Len(Readable(wal))
             s == Replay(NewEngine, wal)
         IN  /\ n \in 0 .. Len(wal) /\ Readable(wal) = [i \in 1 .. n |-> Line(wal[i])]
             /\ past[n] = View(s.book, s.triggers)
             /\ s.made \in Nat /\ s.made <= tradeIds /\ tradeIds \in Nat
             /\ \A i \in 1 .. n : Line(wal[i]).type = "trade" => Line(wal[i]).tradeId \in 1 .. s.made
             /\ \A i, j \in 1 .. n :
                   Line(wal[i]).type = "trade" /\ Line(wal[j]).type = "trade"
                       /\ Line(wal[i]).tradeId = Line(wal[j]).tradeId => i = j
<1> DEFINE n == Len(Readable(wal))
           s == Replay(NewEngine, wal)
<1>1. LogGood /\ LogOK(wal) /\ tradeIds \in Nat /\ Len(wal) \in Nat
  BY DEF RecoveryInv, LiveOK, LogGood, LogOK
<1>2. n \in Nat /\ n <= Len(wal) /\ Clear(wal, n) /\ Readable(wal) = [i \in 1 .. n |-> Line(wal[i])]
  BY <1>1, ReadableOK
<1>3. s = After(wal, n)
  BY <1>1, ReplayIsAfter
<1> HIDE DEF n, s
<1>4. Quietly(wal, n)
  BY <1>2 DEF NoneFired, Quietly
<1>5. n \in 0 .. Len(wal)
  BY ONLY <1>1, <1>2
<1>6. Traces(n)
  BY <1>1, <1>5 DEF LogGood
<1>7. /\ past[n] = View(s.book, s.triggers) /\ s.made <= tradeIds /\ Traded(wal, n)
  BY ONLY <1>2, <1>3, <1>4, <1>6 DEF Traces
<1>8. EngineOK(After(wal, n))
  BY <1>1, <1>2, AfterOK
<1>9. s.made \in Nat
  BY ONLY <1>3, <1>8 DEF EngineOK
<1>10. /\ \A i \in 1 .. n : Line(wal[i]).type = "trade" => Line(wal[i]).tradeId \in 1 .. s.made
       /\ \A i, j \in 1 .. n :
             Line(wal[i]).type = "trade" /\ Line(wal[j]).type = "trade"
                 /\ Line(wal[i]).tradeId = Line(wal[j]).tradeId => i = j
  BY ONLY <1>3, <1>7 DEF Traded
<1> QED  BY <1>1, <1>2, <1>5, <1>7, <1>9, <1>10 DEF n, s

\* A restart goes back to an earlier state.
LEMMA InvPast ==
  ASSUME RecoveryInv
  PROVE  RestartsInThePast
BY InvTraces DEF RestartsInThePast

\* No two trades of the log have one id.
LEMMA InvUnique ==
  ASSUME RecoveryInv
  PROVE  TradeIdsUnique
<1> DEFINE lines  == Readable(wal)
           n      == Len(lines)
           trades == {i \in DOMAIN lines : lines[i].type = "trade"}
<1> SUFFICES ASSUME NoneFired(lines)
             PROVE  \A i, j \in trades : lines[i].tradeId = lines[j].tradeId => i = j
  BY DEF TradeIdsUnique
<1> DEFINE made == Replay(NewEngine, wal).made
<1>1. /\ lines = [i \in 1 .. n |-> Line(wal[i])]
      /\ made \in Nat /\ made <= tradeIds /\ tradeIds \in Nat
      /\ \A i \in 1 .. n : Line(wal[i]).type = "trade" => Line(wal[i]).tradeId \in 1 .. made
      /\ \A i, j \in 1 .. n :
            Line(wal[i]).type = "trade" /\ Line(wal[j]).type = "trade"
                /\ Line(wal[i]).tradeId = Line(wal[j]).tradeId => i = j
  BY InvTraces
<1>2. DOMAIN lines = 1 .. n /\ \A i \in 1 .. n : lines[i] = Line(wal[i])
  BY ONLY <1>1
<1>4. \A i \in trades : i \in 1 .. n /\ Line(wal[i]).type = "trade" /\ lines[i] = Line(wal[i])
  BY ONLY <1>2
<1> QED  BY ONLY <1>1, <1>4

----------------------------------------------------------------------------
(* Lists in a strict order *)

\* R orders the members of S strictly, any two of them.
StrictOrder(S, R) ==
    /\ \A x \in S : <<x, x>> \notin R
    /\ \A x, y \in S : x # y => <<x, y>> \in R \/ <<y, x>> \in R
    /\ \A x, y, z \in S : <<x, y>> \in R /\ <<y, z>> \in R => <<x, z>> \in R

Below(S, R, x) == {y \in S : <<y, x>> \in R}

\* The members of S can be counted off in the order R.
LEMMA InOrderOK ==
  ASSUME NEW S, IsFiniteSet(S), NEW R, StrictOrder(S, R)
  PROVE  LET n == Cardinality(S)
             s == InOrder(S, R)
         IN  /\ n \in Nat /\ DOMAIN s = 1 .. n
             /\ \A i \in 1 .. n : s[i] \in S
             /\ \A x \in S : \E i \in 1 .. n : s[i] = x
             /\ \A i, k \in 1 .. n : i < k => <<s[i], s[k]>> \in R
<1> DEFINE n == Cardinality(S)
           s == InOrder(S, R)
           rank(x) == Cardinality(Below(S, R, x))
           f == [x \in S |-> rank(x) + 1]
<1>1. n \in Nat
  BY FS_CardinalityType
<1>2. ASSUME NEW x \in S
      PROVE  IsFiniteSet(Below(S, R, x)) /\ rank(x) \in Nat /\ rank(x) + 1 <= n
  <2>1. Below(S, R, x) \in SUBSET (S \ {x})
    BY DEF Below, StrictOrder
  <2>2. IsFiniteSet(S \ {x}) /\ Cardinality(S \ {x}) = n - 1
    BY FS_RemoveElement
  <2>3. IsFiniteSet(Below(S, R, x)) /\ rank(x) <= n - 1
    BY <2>1, <2>2, FS_Subset
  <2>4. rank(x) \in Nat
    BY <2>3, FS_CardinalityType
  <2> HIDE DEF rank, n
  <2> QED  BY <1>1, <2>3, <2>4
<1>3. ASSUME NEW x \in S, NEW y \in S, <<x, y>> \in R
      PROVE  rank(x) < rank(y)
  <2>1. Below(S, R, x) \cup {x} \in SUBSET Below(S, R, y) /\ x \notin Below(S, R, x)
    BY <1>3 DEF Below, StrictOrder
  <2>2. Cardinality(Below(S, R, x) \cup {x}) = rank(x) + 1
    BY <1>2, <2>1, FS_AddElement
  <2>3. rank(x) + 1 <= rank(y)
    BY <1>2, <2>1, <2>2, FS_Subset
  <2> HIDE DEF rank, n
  <2> QED  BY <1>2, <2>3
<1>4. \A x, y \in S : x # y => rank(x) # rank(y)
  <2> TAKE x, y \in S
  <2> HAVE x # y
  <2>1. <<x, y>> \in R \/ <<y, x>> \in R
    BY DEF StrictOrder
  <2>2. rank(x) < rank(y) \/ rank(y) < rank(x)
    BY <1>3, <2>1
  <2> HIDE DEF rank, n
  <2> QED  BY <1>2, <2>2
<1>5. \A k \in 1 .. n : \E x \in S : rank(x) + 1 = k
  <2>1. \A x \in S : f[x] = rank(x) + 1 /\ f[x] \in 1 .. n
    <3> HIDE DEF rank, n
    <3> QED  BY <1>1, <1>2
  <2>2. f \in [S -> 1 .. n]
    <3> HIDE DEF rank
    <3> QED  BY <2>1
  <2>3. \A x, y \in S : f[x] = f[y] => x = y
    <3> HIDE DEF rank, n, f
    <3> QED  BY <1>2, <1>4, <2>1
  <2>4. f \in Injection(S, 1 .. n)
    <3> HIDE DEF f, n
    <3> QED  BY <2>2, <2>3 DEF Injection, IsInjective
  <2>5. IsFiniteSet(1 .. n) /\ Cardinality(1 .. n) = n
    BY <1>1, FS_Interval
  <2>6. f \in Surjection(S, 1 .. n)
    BY <2>4, <2>5, FS_Injection
  <2> HIDE DEF f, n, rank
  <2> QED  BY <2>1, <2>6 DEF Surjection
<1>6. DOMAIN s = 1 .. n /\ \A k \in 1 .. n : s[k] = CHOOSE x \in S : rank(x) = k - 1
  BY DEF InOrder, Below
<1> HIDE DEF rank, n, s, f
<1>7. \A k \in 1 .. n : s[k] \in S /\ rank(s[k]) = k - 1
  <2> TAKE k \in 1 .. n
  <2>1. \E x \in S : rank(x) = k - 1
    BY <1>1, <1>2, <1>5
  <2> QED  BY <1>6, <2>1
<1>8. \A x \in S : \E i \in 1 .. n : s[i] = x
  <2> TAKE x \in S
  <2>1. rank(x) + 1 \in 1 .. n
    BY <1>1, <1>2
  <2>2. s[rank(x) + 1] \in S /\ rank(s[rank(x) + 1]) = rank(x)
    BY <1>1, <1>2, <1>7, <2>1
  <2> QED  BY <1>4, <2>1, <2>2
<1>9. \A i, k \in 1 .. n : i < k => <<s[i], s[k]>> \in R
  <2> TAKE i, k \in 1 .. n
  <2> HAVE i < k
  <2>1. s[i] \in S /\ s[k] \in S /\ rank(s[i]) < rank(s[k])
    BY <1>1, <1>7
  <2>2. s[i] # s[k] /\ ~(<<s[k], s[i]>> \in R)
    BY <1>2, <1>3, <2>1
  <2> QED  BY <2>1, <2>2 DEF StrictOrder
<1> QED  BY <1>1, <1>6, <1>7, <1>8, <1>9 DEF n, s

\* There is one way only to count them off.
LEMMA InOrderIs ==
  ASSUME NEW S, NEW R, StrictOrder(S, R), NEW m \in Nat, NEW g \in [1 .. m -> S],
         \A x \in S : \E i \in 1 .. m : g[i] = x,
         \A i, k \in 1 .. m : i < k => <<g[i], g[k]>> \in R
  PROVE  InOrder(S, R) = g
<1>1. ASSUME NEW i \in 1 .. m, NEW k \in 1 .. m, g[i] = g[k] PROVE i = k
  <2>1. ~(i < k) /\ ~(k < i)
    BY <1>1 DEF StrictOrder
  <2> QED  BY <2>1
<1>2. ASSUME NEW i \in 1 .. m, NEW k \in 1 .. m, <<g[i], g[k]>> \in R PROVE i < k
  <2>1. g[i] \in S /\ g[k] \in S
    OBVIOUS
  <2>2. i # k
    BY <1>2, <2>1 DEF StrictOrder
  <2>3. ~(k < i)
    BY <1>2, <2>1 DEF StrictOrder
  <2> QED  BY <2>2, <2>3
<1>3. g \in Bijection(1 .. m, S)
  BY <1>1 DEF Bijection, Injection, Surjection, IsInjective
<1>4. IsFiniteSet(1 .. m) /\ Cardinality(1 .. m) = m
  BY FS_Interval
<1>5. Cardinality(S) = m
  BY <1>3, <1>4, FS_Bijection DEF ExistsBijection
<1>6. ASSUME NEW k \in 1 .. m
      PROVE  Cardinality(Below(S, R, g[k])) = k - 1
  <2> DEFINE h == [i \in 1 .. k - 1 |-> g[i]]
             T == Below(S, R, g[k])
  <2>1. k - 1 \in Nat /\ \A i \in 1 .. k - 1 : i \in 1 .. m /\ i < k
    OBVIOUS
  <2>2. \A i \in 1 .. k - 1 : g[i] \in T
    BY <2>1 DEF Below
  <2>3. \A x \in T : \E i \in 1 .. k - 1 : g[i] = x
    <3> TAKE x \in T
    <3>1. x \in S /\ <<x, g[k]>> \in R
      BY DEF Below
    <3>2. PICK i \in 1 .. m : g[i] = x
      BY <3>1
    <3> QED  BY <1>2, <3>1, <3>2
  <2> HIDE DEF T
  <2>4. h \in Bijection(1 .. k - 1, T)
    BY <1>1, <2>1, <2>2, <2>3 DEF Bijection, Injection, Surjection, IsInjective
  <2>5. IsFiniteSet(1 .. k - 1) /\ Cardinality(1 .. k - 1) = k - 1
    BY FS_Interval
  <2> QED  BY <2>4, <2>5, FS_Bijection DEF ExistsBijection, T
<1>7. \A k \in 1 .. m : (CHOOSE x \in S : Cardinality(Below(S, R, x)) = k - 1) = g[k]
  <2> TAKE k \in 1 .. m
  <2>1. \A x \in S : Cardinality(Below(S, R, x)) = k - 1 => x = g[k]
    BY <1>6
  <2> QED  BY <1>6, <2>1
<1> QED  BY <1>5, <1>7 DEF InOrder, Below

----------------------------------------------------------------------------
(* The lists of a book, and the places in them *)

\* The order objects of a level by time of arrival.
Queue(b, side, price) ==
    LET level == Level(b, side, price) IN InOrder(level, {e \in level \X level : e[1] < e[2]})

\* Numbers are in strict order.
LEMMA ByNumber ==
  ASSUME NEW S \in SUBSET Nat
  PROVE  /\ StrictOrder(S, {e \in S \X S : e[1] < e[2]})
         /\ \A x, y \in S : <<x, y>> \in {e \in S \X S : e[1] < e[2]} <=> x < y
<1> DEFINE R == {e \in S \X S : e[1] < e[2]}
<1>1. \A x, y \in S : <<x, y>> \in R <=> x < y
  OBVIOUS
<1>2. \A x \in S : <<x, x>> \notin R
  BY <1>1
<1>3. \A x, y \in S : x # y => <<x, y>> \in R \/ <<y, x>> \in R
  BY <1>1
<1>4. \A x, y, z \in S : <<x, y>> \in R /\ <<y, z>> \in R => <<x, z>> \in R
  <2> TAKE x, y, z \in S
  <2>1. (<<x, y>> \in R <=> x < y) /\ (<<y, z>> \in R <=> y < z) /\ (<<x, z>> \in R <=> x < z)
    BY <1>1
  <2> HIDE DEF R
  <2> QED  BY <2>1
<1> HIDE DEF R
<1> QED  BY <1>1, <1>2, <1>3, <1>4 DEF StrictOrder, R

\* A level lists every order of it once, the earlier ones first.
LEMMA QueueOK ==
  ASSUME NEW b, BookOK(b), NEW side, NEW price
  PROVE  LET q == Queue(b, side, price)
             n == Cardinality(Level(b, side, price))
         IN  /\ n \in Nat /\ DOMAIN q = 1 .. n
             /\ \A i \in 1 .. n : q[i] \in Level(b, side, price) /\ q[i] \in Nat
             /\ \A r \in Level(b, side, price) : \E i \in 1 .. n : q[i] = r
             /\ \A i, k \in 1 .. n : i < k => q[i] < q[k]
             /\ \A i, k \in 1 .. n : q[i] = q[k] => i = k
             /\ Listed(b, side, price) = [i \in 1 .. n |-> b.orders[q[i]]]
             /\ Len(Listed(b, side, price)) = n
<1> DEFINE S == Level(b, side, price)
           R == {e \in S \X S : e[1] < e[2]}
           n == Cardinality(S)
           q == Queue(b, side, price)
<1>1. S \in SUBSET Nat /\ IsFiniteSet(S)
  <2>1. S \in SUBSET b.linked /\ IsFiniteSet(b.linked) /\ b.linked \in SUBSET Nat
    BY LinkedFinite DEF Level, BookOK, Book
  <2> QED  BY <2>1, FS_Subset
<1>2. q = InOrder(S, R)
  BY DEF Queue
<1>3. Listed(b, side, price) = [i \in DOMAIN q |-> b.orders[q[i]]]
  BY <1>2 DEF Listed
<1> HIDE DEF S
<1>4. StrictOrder(S, R) /\ \A x, y \in S : <<x, y>> \in R <=> x < y
  BY <1>1, ByNumber
<1> HIDE DEF R, q
<1>5. /\ n \in Nat /\ DOMAIN q = 1 .. n
      /\ \A i \in 1 .. n : q[i] \in S
      /\ \A x \in S : \E i \in 1 .. n : q[i] = x
      /\ \A i, k \in 1 .. n : i < k => <<q[i], q[k]>> \in R
  BY <1>1, <1>2, <1>4, InOrderOK
<1> HIDE DEF n
<1>6. \A i, k \in 1 .. n : i < k => q[i] < q[k]
  BY <1>4, <1>5
<1>7. \A i \in 1 .. n : q[i] \in Nat
  BY <1>1, <1>5
<1>8. \A i, k \in 1 .. n : q[i] = q[k] => i = k
  <2> TAKE i, k \in 1 .. n
  <2>1. i \in Nat /\ k \in Nat /\ q[i] \in Nat /\ q[k] \in Nat
    BY <1>7
  <2> QED  BY <1>6, <2>1
<1>9. Len([i \in 1 .. n |-> b.orders[q[i]]]) = n
  BY <1>5
<1> QED  BY <1>3, <1>5, <1>6, <1>7, <1>8, <1>9 DEF n, q, S

\* Any other way to list it so is the same.
LEMMA QueueIs ==
  ASSUME NEW b, BookOK(b), NEW side, NEW price, NEW m \in Nat,
         NEW g \in [1 .. m -> Level(b, side, price)],
         \A x \in Level(b, side, price) : \E i \in 1 .. m : g[i] = x,
         \A i, k \in 1 .. m : i < k => g[i] < g[k]
  PROVE  Queue(b, side, price) = g /\ Cardinality(Level(b, side, price)) = m
<1> DEFINE S == Level(b, side, price)
           R == {e \in S \X S : e[1] < e[2]}
<1>1. S \in SUBSET Nat
  BY DEF Level, BookOK, Book
<1> HIDE DEF S
<1>2. StrictOrder(S, R) /\ \A x, y \in S : <<x, y>> \in R <=> x < y
  BY <1>1, ByNumber
<1> HIDE DEF R
<1>3. \A i, k \in 1 .. m : i < k => <<g[i], g[k]>> \in R
  BY <1>2 DEF S
<1>4. InOrder(S, R) = g
  BY <1>2, <1>3, InOrderIs DEF S
<1>5. Queue(b, side, price) = g
  BY <1>4 DEF Queue, S, R
<1>6. DOMAIN g = 1 .. m /\ DOMAIN g = 1 .. Cardinality(Level(b, side, price))
      /\ Cardinality(Level(b, side, price)) \in Nat
  BY <1>5, QueueOK
<1>7. Cardinality(Level(b, side, price)) = m
  BY ONLY <1>6, m \in Nat
<1> QED  BY <1>5, <1>7

\* Where the orders are in what toJson makes of a book.
LEMMA PlacesOf ==
  ASSUME NEW b, BookOK(b), NEW x
  PROVE  x \in Places(ToJson(b)) <=>
             \E side \in Sides, price \in Prices :
                \E i \in 1 .. Cardinality(Level(b, side, price)) : x = <<side, price, i>>
<1> DEFINE j == ToJson(b)
<1>1. \A side \in Sides, price \in Prices :
         j[side][price].orders = Listed(b, side, price)
  BY DEF ToJson
<1>2. \A side \in Sides, price \in Prices :
         DOMAIN j[side][price].orders = 1 .. Cardinality(Level(b, side, price))
  BY <1>1, QueueOK
<1> HIDE DEF j
<1>3. x \in Places(j) <=>
         \E side \in Sides, price \in Prices :
             x \in {<<side, price, i>> : i \in DOMAIN j[side][price].orders}
  <2> DEFINE at(side, price) == {<<side, price, i>> : i \in DOMAIN j[side][price].orders}
  <2>1. Places(j) = UNION {at(side, price) : side \in Sides, price \in Prices}
    BY DEF Places
  <2> HIDE DEF at
  <2>2. ASSUME NEW side \in Sides, NEW price \in Prices, x \in at(side, price)
        PROVE  x \in Places(j)
    BY <2>1, <2>2
  <2>3. ASSUME x \in Places(j)
        PROVE  \E side \in Sides, price \in Prices : x \in at(side, price)
    BY <2>1, <2>3
  <2> QED  BY <2>2, <2>3 DEF at
<1> QED  BY <1>2, <1>3 DEF j

\* Which place comes first.
LEMMA PlacesInOrder ==
  ASSUME NEW S, \A x \in S : \E side \in Sides, price \in Prices, i \in Nat : x = <<side, price, i>>
  PROVE  LET R == {e \in S \X S : Before(e[1], e[2])} IN
         /\ StrictOrder(S, R)
         /\ \A x, y \in S : <<x, y>> \in R <=> Before(x, y)
<1> DEFINE R == {e \in S \X S : Before(e[1], e[2])}
<1>1. \A x, y \in S : <<x, y>> \in R <=> Before(x, y)
  <2> TAKE x, y \in S
  <2>1. <<x, y>> \in S \X S /\ <<x, y>>[1] = x /\ <<x, y>>[2] = y
    OBVIOUS
  <2> QED  BY <2>1
<1>2. \A x \in S : /\ x[1] \in {"BUY", "SELL"} /\ x[2] \in Nat /\ x[3] \in Nat
                   /\ x = <<x[1], x[2], x[3]>>
  BY PricesAssumption DEF Sides
<1> HIDE DEF R
<1>3. \A x \in S : <<x, x>> \notin R
  BY <1>1, <1>2 DEF Before, Better
<1>4. \A x, y \in S : x # y => <<x, y>> \in R \/ <<y, x>> \in R
  <2> TAKE x, y \in S
  <2> HAVE x # y
  <2>1. x[1] # y[1] \/ x[2] # y[2] \/ x[3] # y[3]
    BY <1>2
  <2>2. Before(x, y) \/ Before(y, x)
    BY <1>2, <2>1 DEF Before, Better
  <2> QED  BY <1>1, <2>2
<1>5. \A x, y, z \in S : <<x, y>> \in R /\ <<y, z>> \in R => <<x, z>> \in R
  <2> TAKE x, y, z \in S
  <2>1. Before(x, y) /\ Before(y, z) => Before(x, z)
    BY <1>2 DEF Before, Better
  <2> QED  BY <1>1, <2>1
<1> QED  BY <1>1, <1>3, <1>4, <1>5 DEF StrictOrder, R

----------------------------------------------------------------------------
(* Saving a book and loading it *)

\* The order objects that fromJson makes are those that are linked; those of
\* one level keep their order.
Reloads(b, n, ref) ==
    /\ \A k \in 1 .. n : ref[k] \in b.linked
    /\ \A r \in b.linked : \E k \in 1 .. n : ref[k] = r
    /\ \A k, l \in 1 .. n : ref[k] = ref[l] => k = l
    /\ Loaded(ToJson(b)) = [k \in 1 .. n |-> b.orders[ref[k]]]
    /\ \A k, l \in 1 .. n :
          b.orders[ref[k]].side = b.orders[ref[l]].side
              /\ b.orders[ref[k]].price = b.orders[ref[l]].price => (k < l <=> ref[k] < ref[l])

\* Every linked order is met once, in the order Before.
LEMMA LoadedOK ==
  ASSUME NEW b, BookOK(b)
  PROVE  \E n \in Nat : \E ref : Reloads(b, n, ref)
<1> DEFINE j == ToJson(b)
           P == Places(j)
           R == {e \in P \X P : Before(e[1], e[2])}
           n == Cardinality(P)
           first == InOrder(P, R)
           at(x) == Queue(b, x[1], x[2])[x[3]]
           ref == [k \in 1 .. n |-> at(first[k])]
<1>1. ASSUME NEW x \in P
      PROVE  /\ x[1] \in Sides /\ x[2] \in Prices /\ x[3] \in 1 .. Cardinality(Level(b, x[1], x[2]))
             /\ x = <<x[1], x[2], x[3]>>
  <2>1. \E side \in Sides, price \in Prices :
          \E i \in 1 .. Cardinality(Level(b, side, price)) : x = <<side, price, i>>
    BY PlacesOf
  <2> QED  BY <2>1
<1>2. \A side \in Sides, price \in Prices :
        \A i \in 1 .. Cardinality(Level(b, side, price)) : <<side, price, i>> \in P
  BY PlacesOf
<1>3. ASSUME NEW x \in P
      PROVE  /\ at(x) \in b.linked /\ b.orders[at(x)].side = x[1] /\ b.orders[at(x)].price = x[2]
             /\ j[x[1]][x[2]].orders[x[3]] = b.orders[at(x)]
  <2>1. /\ at(x) \in Level(b, x[1], x[2])
        /\ Listed(b, x[1], x[2])[x[3]] = b.orders[at(x)]
    BY <1>1, QueueOK
  <2>2. j[x[1]][x[2]].orders = Listed(b, x[1], x[2])
    BY <1>1 DEF ToJson
  <2> QED  BY <2>1, <2>2 DEF Level
<1>4. ASSUME NEW x \in P, NEW y \in P, x[1] = y[1], x[2] = y[2]
      PROVE  /\ x[3] < y[3] <=> at(x) < at(y)
             /\ at(x) = at(y) => x = y
  <2> DEFINE m == Cardinality(Level(b, x[1], x[2]))
             q == Queue(b, x[1], x[2])
  <2>1. /\ \A i \in 1 .. m : q[i] \in Nat
        /\ \A i, k \in 1 .. m : i < k => q[i] < q[k]
        /\ \A i, k \in 1 .. m : q[i] = q[k] => i = k
        /\ m \in Nat
    BY QueueOK
  <2>2. x[3] \in 1 .. m /\ y[3] \in 1 .. m /\ at(x) = q[x[3]] /\ at(y) = q[y[3]]
        /\ x = <<x[1], x[2], x[3]>> /\ y = <<x[1], x[2], y[3]>>
    BY <1>1, <1>4
  <2> HIDE DEF m, q, at, P
  <2> QED  BY <2>1, <2>2
<1>5. \A x, y \in P : at(x) = at(y) => x = y
  BY <1>3, <1>4
<1>6. \A r \in b.linked : \E x \in P : at(x) = r
  <2> TAKE r \in b.linked
  <2> DEFINE o == b.orders[r]
  <2>1. o.side \in Sides /\ o.price \in Prices /\ r \in Level(b, o.side, o.price)
    <3>1. r \in DOMAIN b.orders /\ b.orders[r].type = "LIMIT" /\ b.orders[r] \in Order
      BY OrdersDomain DEF BookOK
    <3> QED  BY <3>1 DEF BookOK, Order, Level
  <2>2. PICK i \in 1 .. Cardinality(Level(b, o.side, o.price)) : Queue(b, o.side, o.price)[i] = r
    BY <2>1, QueueOK
  <2> HIDE DEF o
  <2>3. <<o.side, o.price, i>> \in P
    BY <1>2, <2>1
  <2>4. at(<<o.side, o.price, i>>) = r
    BY <2>2
  <2> HIDE DEF at, P
  <2> QED  BY <2>3, <2>4
<1>7. IsFiniteSet(P)
  <2> DEFINE f == [x \in P |-> at(x)]
  <2> HIDE DEF P, at
  <2>1. f \in Injection(P, b.linked)
    BY <1>3, <1>5 DEF Injection, IsInjective
  <2> HIDE DEF f
  <2> QED  BY <2>1, LinkedFinite, FS_Injection
<1>8. StrictOrder(P, R) /\ \A x, y \in P : <<x, y>> \in R <=> Before(x, y)
  <2>1. \A x \in P : \E side \in Sides, price \in Prices, i \in Nat : x = <<side, price, i>>
    BY <1>1
  <2> HIDE DEF P
  <2> QED  BY <2>1, PlacesInOrder
<1>9. Loaded(j) = [k \in DOMAIN first |-> j[first[k][1]][first[k][2]].orders[first[k][3]]] \o << >>
  BY DEF Loaded
<1> HIDE DEF j, P, R, at
<1>10. /\ n \in Nat /\ DOMAIN first = 1 .. n
       /\ \A i \in 1 .. n : first[i] \in P
       /\ \A x \in P : \E i \in 1 .. n : first[i] = x
       /\ \A i, k \in 1 .. n : i < k => <<first[i], first[k]>> \in R
  BY <1>7, <1>8, InOrderOK
<1> HIDE DEF n, first
<1>11. \A k \in 1 .. n : ref[k] = at(first[k])
  OBVIOUS
<1> HIDE DEF ref
<1>12. \A i, k \in 1 .. n : first[i] = first[k] => i = k
  <2> TAKE i, k \in 1 .. n
  <2>1. first[i] \in P /\ i \in Nat /\ k \in Nat /\ <<first[i], first[i]>> \notin R
    BY <1>8, <1>10 DEF StrictOrder
  <2>2. first[i] = first[k] => ~(i < k) /\ ~(k < i)
    BY <1>10, <2>1
  <2> QED  BY <2>1, <2>2
<1>13. Loaded(j) = [k \in 1 .. n |-> b.orders[ref[k]]]
  <2> DEFINE list == [k \in 1 .. n |-> b.orders[ref[k]]]
  <2>1. Loaded(j) = list \o << >>
    BY <1>3, <1>9, <1>10, <1>11
  <2>2. \A k \in 1 .. n : b.orders[ref[k]] \in Order
    <3>1. \A r \in b.linked : b.orders[r] \in Order
      BY OrdersDomain DEF BookOK, Book
    <3> QED  BY <1>3, <1>10, <1>11, <3>1
  <2>3. list \in Seq(Order)
    BY <1>10, <2>2
  <2> HIDE DEF list
  <2>4. list \o << >> = list
    BY ONLY <2>3, ConcatEmptySeq
  <2> QED  BY <2>1, <2>4 DEF list
<1>14. ASSUME NEW k \in 1 .. n, NEW l \in 1 .. n,
              b.orders[ref[k]].side = b.orders[ref[l]].side,
              b.orders[ref[k]].price = b.orders[ref[l]].price
       PROVE  k < l <=> ref[k] < ref[l]
  <2> DEFINE x == first[k]
             y == first[l]
  <2>1. x \in P /\ y \in P /\ x[1] = y[1] /\ x[2] = y[2] /\ ref[k] = at(x) /\ ref[l] = at(y)
    BY <1>3, <1>10, <1>11, <1>14
  <2>2. x[1] \in Sides /\ x[2] \in Nat
    BY <1>1, <2>1, PricesAssumption
  <2> HIDE DEF x, y
  <2>3. Before(x, y) <=> x[3] < y[3]
    BY <2>1, <2>2 DEF Before, Better, Sides
  <2>4. Before(y, x) <=> y[3] < x[3]
    BY <2>1, <2>2 DEF Before, Better, Sides
  <2>5. k < l => Before(x, y)
    BY <1>8, <1>10, <2>1 DEF x, y
  <2>6. l < k => Before(y, x)
    BY <1>8, <1>10, <2>1 DEF x, y
  <2>7. x[3] \in Nat /\ y[3] \in Nat /\ (x[3] < y[3] <=> at(x) < at(y))
    BY <1>1, <1>4, <2>1
  <2>8. k \in Nat /\ l \in Nat
    BY <1>10
  <2>9. k = l => x = y
    BY DEF x, y
  <2> QED  BY <2>1, <2>3, <2>4, <2>5, <2>6, <2>7, <2>8, <2>9
<1>15. Reloads(b, n, ref)
  <2>1. \A k \in 1 .. n : ref[k] \in b.linked
    BY <1>3, <1>10, <1>11
  <2>2. \A r \in b.linked : \E k \in 1 .. n : ref[k] = r
    <3> TAKE r \in b.linked
    <3>1. PICK x \in P : at(x) = r  BY <1>6
    <3>2. PICK k \in 1 .. n : first[k] = x  BY <1>10
    <3> QED  BY <1>11, <3>1, <3>2
  <2>3. \A k, l \in 1 .. n : ref[k] = ref[l] => k = l
    BY <1>5, <1>10, <1>11, <1>12
  <2> QED  BY <1>13, <1>14, <2>1, <2>2, <2>3 DEF Reloads, j
<1> QED  BY <1>10, <1>15

\* Two books that no reader can tell apart: the same orders are in the index,
\* with the same time priority in each level.
Alike(b, c) ==
    /\ \A i \in Ids : b.orderMap[i] = NoOrder <=> c.orderMap[i] = NoOrder
    /\ \A i \in Ids : b.orderMap[i] # NoOrder =>
           c.orders[c.orderMap[i]] = b.orders[b.orderMap[i]]
    /\ \A i, k \in Ids :
           /\ b.orderMap[i] # NoOrder /\ b.orderMap[k] # NoOrder
           /\ b.orders[b.orderMap[i]].side = b.orders[b.orderMap[k]].side
           /\ b.orders[b.orderMap[i]].price = b.orders[b.orderMap[k]].price
           => (b.orderMap[i] < b.orderMap[k] <=> c.orderMap[i] < c.orderMap[k])

\* The order of c that is r in b.
Twin(b, c, r) == c.orderMap[b.orders[r].id]

\* A linked order and its place in the index.
LEMMA LinkedOrder ==
  ASSUME NEW b, Ledger(b), NEW r \in b.linked
  PROVE  /\ r \in Nat \ {0} /\ r \in DOMAIN b.orders /\ b.orders[r] \in Order
         /\ b.orders[r].id \in Ids /\ b.orderMap[b.orders[r].id] = r
         /\ b.orders[r].side \in Sides /\ b.orders[r].price \in Prices
         /\ b.orders[r].quantity \in Nat \ {0}
<1>1. r \in Nat \ {0} /\ r \in DOMAIN b.orders /\ b.orders[r] \in Order
      /\ b.orders[r].type = "LIMIT"
  BY OrdersDomain DEF Ledger, BookOK, Book
<1>2. b.orders[r].price \in Prices
  BY <1>1 DEF Ledger, BookOK
<1>3. b.orderMap[b.orders[r].id] = r /\ b.orders[r].quantity > 0
  BY DEF Ledger, Indexed
<1> QED  BY <1>1, <1>2, <1>3 DEF Order

\* The order of an id in b and the one in c.
LEMMA TwinOK ==
  ASSUME NEW b, Ledger(b), NEW c, Ledger(c), Alike(b, c), NEW r \in b.linked
  PROVE  /\ Twin(b, c, r) \in c.linked
         /\ c.orders[Twin(b, c, r)] = b.orders[r]
         /\ Twin(c, b, Twin(b, c, r)) = r
<1>1. b.orders[r].id \in Ids /\ b.orderMap[b.orders[r].id] = r /\ r # NoOrder
  BY LinkedOrder DEF NoOrder
<1>2. Twin(b, c, r) # NoOrder /\ c.orders[Twin(b, c, r)] = b.orders[r]
  BY <1>1 DEF Twin, Alike
<1>3. Twin(b, c, r) \in c.linked
  BY <1>1, <1>2 DEF Ledger, Indexed, Twin
<1> QED  BY <1>1, <1>2, <1>3 DEF Twin

\* The orders of one level have their twins in the same order.
LEMMA TwinsInOrder ==
  ASSUME NEW b, Ledger(b), NEW c, Ledger(c), Alike(b, c),
         NEW r \in b.linked, NEW q \in b.linked,
         b.orders[r].side = b.orders[q].side, b.orders[r].price = b.orders[q].price
  PROVE  r < q <=> Twin(b, c, r) < Twin(b, c, q)
<1>1. /\ b.orders[r].id \in Ids /\ b.orderMap[b.orders[r].id] = r /\ r # NoOrder
      /\ b.orders[q].id \in Ids /\ b.orderMap[b.orders[q].id] = q /\ q # NoOrder
  BY LinkedOrder DEF NoOrder
<1> QED  BY ONLY <1>1, Alike(b, c), b.orders[r].side = b.orders[q].side,
            b.orders[r].price = b.orders[q].price DEF Alike, Twin

\* It goes both ways.
LEMMA AlikeBack ==
  ASSUME NEW b, Ledger(b), NEW c, Ledger(c), Alike(b, c)
  PROVE  Alike(c, b)
<1>1. \A i \in Ids : b.orderMap[i] # NoOrder => c.orderMap[i] # NoOrder
  BY DEF Alike
<1> QED  BY <1>1, Zenon DEF Alike

\* f takes the orders S of b one by one to the orders T of c.
Corresponds(b, S, c, T, f) ==
    /\ f \in [S -> T]
    /\ \A x, y \in S : f[x] = f[y] => x = y
    /\ \A z \in T : \E x \in S : f[x] = z
    /\ \A x \in S : c.orders[f[x]].quantity = b.orders[x].quantity

\* Orders that correspond have as many units.
LEMMA UnitsMapped ==
  ASSUME NEW b, NEW S, NEW c, NEW T, NEW f, Corresponds(b, S, c, T, f),
         IsFiniteSet(Units(b, S))
  PROVE  /\ IsFiniteSet(Units(c, T))
         /\ Cardinality(Units(c, T)) = Cardinality(Units(b, S))
<1> DEFINE U == Units(b, S)
           V == Units(c, T)
           h == [u \in U |-> <<f[u[1]], u[2]>>]
<1>0. /\ f \in [S -> T]
      /\ \A x, y \in S : f[x] = f[y] => x = y
      /\ \A z \in T : \E x \in S : f[x] = z
      /\ \A x \in S : c.orders[f[x]].quantity = b.orders[x].quantity
  BY DEF Corresponds
<1>1. ASSUME NEW u
      PROVE  u \in U <=> \E x \in S : \E k \in 1 .. b.orders[x].quantity : u = <<x, k>>
  BY DEF Units
<1>2. ASSUME NEW u
      PROVE  u \in V <=> \E x \in T : \E k \in 1 .. c.orders[x].quantity : u = <<x, k>>
  BY DEF Units
<1> HIDE DEF U, V
<1>3. \A u \in U : u = <<u[1], u[2]>> /\ u[1] \in S /\ u[2] \in 1 .. b.orders[u[1]].quantity
  BY <1>1
<1>4. \A u \in U : h[u] = <<f[u[1]], u[2]>> /\ h[u] \in V
  BY <1>0, <1>2, <1>3
<1>5. h \in [U -> V]
  BY <1>4
<1> HIDE DEF h
<1>6. \A u, v \in U : h[u] = h[v] => u = v
  <2> TAKE u, v \in U
  <2> HAVE h[u] = h[v]
  <2>1. f[u[1]] = f[v[1]] /\ u[2] = v[2]
    BY <1>4
  <2>2. u[1] = v[1]
    BY <1>0, <1>3, <2>1
  <2> QED  BY <1>3, <2>1, <2>2
<1>7. \A v \in V : \E u \in U : h[u] = v
  <2> TAKE v \in V
  <2>1. PICK z \in T : \E k \in 1 .. c.orders[z].quantity : v = <<z, k>>
    BY <1>2
  <2>2. PICK k \in 1 .. c.orders[z].quantity : v = <<z, k>>
    BY <2>1
  <2>3. PICK x \in S : f[x] = z
    BY <1>0
  <2>4. <<x, k>> \in U
    BY <1>0, <1>1, <2>2, <2>3
  <2>5. h[<<x, k>>] = v
    BY <1>4, <2>2, <2>3, <2>4
  <2> QED  BY <2>4, <2>5
<1>8. h \in Bijection(U, V)
  BY <1>5, <1>6, <1>7 DEF Bijection, Injection, Surjection, IsInjective
<1> QED  BY <1>8, FS_Bijection DEF ExistsBijection, U, V

\* Corresponding sets of orders hold the same quantity.
LEMMA TwinUnits ==
  ASSUME NEW b, Ledger(b), NEW c, Ledger(c), Alike(b, c), NEW S \in SUBSET b.linked,
         NEW T \in SUBSET c.linked,
         \A r \in S : Twin(b, c, r) \in T, \A q \in T : Twin(c, b, q) \in S
  PROVE  OpenQuantity(c, T) = OpenQuantity(b, S)
<1> DEFINE f == [r \in S |-> Twin(b, c, r)]
<1>1. \A r \in S : f[r] \in T /\ c.orders[f[r]] = b.orders[r] /\ Twin(c, b, f[r]) = r
  BY TwinOK
<1>2. \A q \in T : Twin(c, b, q) \in S /\ f[Twin(c, b, q)] = q
  BY TwinOK, AlikeBack
<1>3. f \in [S -> T]
  BY <1>1
<1>4. IsFiniteSet(Units(b, S))
  BY UnitsSubset DEF Ledger
<1> HIDE DEF f
<1>5. Cardinality(Units(c, T)) = Cardinality(Units(b, S))
  <2>1. \A x, y \in S : f[x] = f[y] => x = y
    BY <1>1
  <2>2. \A z \in T : \E x \in S : f[x] = z
    BY <1>2
  <2>3. \A x \in S : c.orders[f[x]].quantity = b.orders[x].quantity
    BY <1>1
  <2>4. Corresponds(b, S, c, T, f)
    BY <1>3, <2>1, <2>2, <2>3 DEF Corresponds
  <2> QED  BY <1>4, <2>4, UnitsMapped
<1> QED  BY <1>5 DEF OpenQuantity

\* Alike books have the same lists.
LEMMA AlikeViews ==
  ASSUME NEW b, Ledger(b), NEW c, Ledger(c), Alike(b, c)
  PROVE  ToJson(c) = ToJson(b)
<1>1. ASSUME NEW side \in Sides, NEW price \in Prices
      PROVE  Listed(c, side, price) = Listed(b, side, price)
  <2> DEFINE S == Level(b, side, price)
             T == Level(c, side, price)
             m == Cardinality(S)
             q == Queue(b, side, price)
             g == [i \in 1 .. m |-> Twin(b, c, q[i])]
  <2>0. BookOK(b) /\ BookOK(c)
    BY DEF Ledger
  <2>1. /\ m \in Nat
        /\ \A i \in 1 .. m : q[i] \in S
        /\ \A r \in S : \E i \in 1 .. m : q[i] = r
        /\ \A i, k \in 1 .. m : i < k => q[i] < q[k]
        /\ Listed(b, side, price) = [i \in 1 .. m |-> b.orders[q[i]]]
    BY <2>0, QueueOK
  <2>2. \A r \in S : /\ r \in b.linked /\ Twin(b, c, r) \in T
                     /\ c.orders[Twin(b, c, r)] = b.orders[r]
    BY TwinOK DEF Level
  <2>3. \A r \in T : Twin(c, b, r) \in S /\ Twin(b, c, Twin(c, b, r)) = r
    BY TwinOK, AlikeBack DEF Level
  <2>4. \A r, x \in S : r < x <=> Twin(b, c, r) < Twin(b, c, x)
    BY TwinsInOrder DEF Level
  <2> HIDE DEF S, T, m, q
  <2>5. g \in [1 .. m -> T]
    BY <2>1, <2>2
  <2>6. \A x \in T : \E i \in 1 .. m : g[i] = x
    BY <2>1, <2>3
  <2>7. \A i, k \in 1 .. m : i < k => g[i] < g[k]
    BY <2>1, <2>4
  <2> HIDE DEF g
  <2>8. Queue(c, side, price) = g /\ Cardinality(T) = m
    <3>1. BookOK(c) /\ m \in Nat
      BY <2>0, <2>1
    <3> QED  BY ONLY <3>1, <2>5, <2>6, <2>7, QueueIs DEF T
  <2>9. Listed(c, side, price) = [i \in 1 .. m |-> c.orders[g[i]]]
    BY <2>0, <2>8, QueueOK DEF T
  <2>10. \A i \in 1 .. m : c.orders[g[i]] = b.orders[q[i]]
    BY <2>1, <2>2 DEF g
  <2> QED  BY <2>1, <2>9, <2>10
<1>2. ASSUME NEW side \in Sides, NEW price \in Prices
      PROVE  c.total[side][price] = b.total[side][price]
  <2> DEFINE S == Level(b, side, price)
             T == Level(c, side, price)
  <2>1. S \in SUBSET b.linked /\ T \in SUBSET c.linked
    BY DEF Level
  <2>2. \A r \in S : Twin(b, c, r) \in T
    BY TwinOK DEF Level
  <2>3. \A q \in T : Twin(c, b, q) \in S
    BY TwinOK, AlikeBack DEF Level
  <2>4. /\ c.total[side][price] = Cardinality(Units(c, T))
        /\ b.total[side][price] = Cardinality(Units(b, S))
    BY DEF Ledger, TotalsAddUp
  <2> HIDE DEF S, T
  <2>5. OpenQuantity(c, T) = OpenQuantity(b, S)
    BY <2>1, <2>2, <2>3, TwinUnits
  <2> QED  BY <2>4, <2>5 DEF OpenQuantity
<1> QED  BY <1>1, <1>2 DEF ToJson

\* A book c that has been loaded: its fields.
IsLoaded(b, n, ref, c) ==
    /\ c = [orders |-> c.orders, linked |-> c.linked, total |-> c.total,
            orderMap |-> c.orderMap]
    /\ c.orders = [k \in 1 .. n |-> b.orders[ref[k]]]
    /\ c.linked = 1 .. n
    /\ c.total = [side \in Sides |-> [price \in Prices |-> b.total[side][price]]]
    /\ c.orderMap = [id \in Ids |->
          IF {k \in 1 .. n : b.orders[ref[k]].id = id} = {} THEN NoOrder
          ELSE Max({k \in 1 .. n : b.orders[ref[k]].id = id})]

\* The parts of a loaded book.
LEMMA LoadedParts ==
  ASSUME NEW b, NEW n \in Nat, NEW ref, Reloads(b, n, ref)
  PROVE  IsLoaded(b, n, ref, FromJson(ToJson(b)))
<1> DEFINE j == ToJson(b)
           orders == [k \in 1 .. n |-> b.orders[ref[k]]]
           having(id) == {k \in 1 .. n : b.orders[ref[k]].id = id}
           total == [side \in Sides |-> [price \in Prices |-> b.total[side][price]]]
           index == [id \in Ids |-> IF having(id) = {} THEN NoOrder ELSE Max(having(id))]
<1>1. Loaded(j) = orders /\ DOMAIN orders = 1 .. n
  BY Zenon DEF Reloads
<1>2. \A id : {r \in 1 .. n : orders[r].id = id} = having(id)
  OBVIOUS
<1>3. [side \in Sides |-> [price \in Prices |-> j[side][price].totalQuantity]] = total
  BY DEF ToJson
<1> HIDE DEF orders, j, having, total
<1>4. FromJson(j) =
        [orders   |-> orders,
         linked   |-> DOMAIN orders,
         total    |-> [side \in Sides |-> [price \in Prices |-> j[side][price].totalQuantity]],
         orderMap |-> [id \in Ids |-> IF {r \in DOMAIN orders : orders[r].id = id} = {} THEN NoOrder
                                      ELSE Max({r \in DOMAIN orders : orders[r].id = id})]]
  BY <1>1, Zenon DEF FromJson
<1>5. [id \in Ids |-> IF {r \in DOMAIN orders : orders[r].id = id} = {} THEN NoOrder
                      ELSE Max({r \in DOMAIN orders : orders[r].id = id})] = index
  BY <1>1, <1>2
<1> HIDE DEF index
<1>6. FromJson(j) = [orders |-> orders, linked |-> 1 .. n, total |-> total, orderMap |-> index]
  BY <1>1, <1>3, <1>4, <1>5, Zenon
<1>7. /\ FromJson(j).orders = orders /\ FromJson(j).linked = 1 .. n
      /\ FromJson(j).total = total /\ FromJson(j).orderMap = index
  BY <1>6
<1> HIDE DEF j
<1>8. /\ orders = [k \in 1 .. n |-> b.orders[ref[k]]]
      /\ total = [side \in Sides |-> [price \in Prices |-> b.total[side][price]]]
      /\ index = [id \in Ids |-> IF {k \in 1 .. n : b.orders[ref[k]].id = id} = {} THEN NoOrder
                                 ELSE Max({k \in 1 .. n : b.orders[ref[k]].id = id})]
  BY DEF orders, total, index, having
<1>9. FromJson(j) = [orders |-> FromJson(j).orders, linked |-> FromJson(j).linked,
                     total |-> FromJson(j).total, orderMap |-> FromJson(j).orderMap]
  BY <1>6, <1>7
<1> QED  BY <1>7, <1>8, <1>9, Zenon DEF j, IsLoaded

\* What the loaded book is, order by order.
LEMMA LoadedFields ==
  ASSUME NEW b, Ledger(b), NEW n \in Nat, NEW ref, Reloads(b, n, ref)
  PROVE  LET c == FromJson(ToJson(b)) IN
         /\ c \in Book /\ DOMAIN c.orders = 1 .. n /\ c.linked = 1 .. n
         /\ \A k \in 1 .. n : c.orders[k] = b.orders[ref[k]]
         /\ \A side \in Sides, price \in Prices : c.total[side][price] = b.total[side][price]
         /\ \A k \in 1 .. n : c.orderMap[b.orders[ref[k]].id] = k
         /\ \A i \in Ids : c.orderMap[i] # NoOrder =>
                c.orderMap[i] \in 1 .. n /\ b.orders[ref[c.orderMap[i]]].id = i
<1> DEFINE c == FromJson(ToJson(b))
           having(id) == {k \in 1 .. n : b.orders[ref[k]].id = id}
<1>0. IsLoaded(b, n, ref, c)
  BY LoadedParts
<1> HIDE DEF c
<1>1. /\ c = [orders |-> c.orders, linked |-> c.linked, total |-> c.total,
                orderMap |-> c.orderMap]
      /\ c.orders = [k \in 1 .. n |-> b.orders[ref[k]]]
      /\ c.linked = 1 .. n
      /\ c.total = [side \in Sides |-> [price \in Prices |-> b.total[side][price]]]
      /\ c.orderMap = [id \in Ids |->
            IF {k \in 1 .. n : b.orders[ref[k]].id = id} = {} THEN NoOrder
            ELSE Max({k \in 1 .. n : b.orders[ref[k]].id = id})]
  BY <1>0, Zenon DEF IsLoaded
<1>2. /\ \A k \in 1 .. n : ref[k] \in b.linked
      /\ \A k, l \in 1 .. n : ref[k] = ref[l] => k = l
  BY DEF Reloads
<1>3. \A k \in 1 .. n : b.orders[ref[k]] \in Order /\ b.orders[ref[k]].id \in Ids
  BY <1>2, LinkedOrder
<1>4. \A k, l \in 1 .. n : b.orders[ref[k]].id = b.orders[ref[l]].id => k = l
  <2>1. \A k \in 1 .. n : b.orderMap[b.orders[ref[k]].id] = ref[k]
    BY <1>2, LinkedOrder
  <2> QED  BY <1>2, <2>1
<1>5. \A k \in 1 .. n : having(b.orders[ref[k]].id) = {k}
  BY <1>4
<1>6. \A k \in Nat : Max({k}) = k
  BY DEF Max
<1>7. \A k \in 1 .. n : c.orderMap[b.orders[ref[k]].id] = k
  <2> TAKE k \in 1 .. n
  <2> DEFINE id == b.orders[ref[k]].id
  <2>1. having(id) = {k} /\ having(id) # {} /\ Max(having(id)) = k /\ id \in Ids
    BY <1>3, <1>5, <1>6
  <2>3. c.orderMap = [i \in Ids |-> IF having(i) = {} THEN NoOrder ELSE Max(having(i))]
    BY <1>1, Zenon
  <2> HIDE DEF having, id
  <2>2. c.orderMap[id] = k
    BY ONLY <2>1, <2>3
  <2> QED  BY <2>2 DEF id
<1>8. ASSUME NEW i \in Ids, c.orderMap[i] # NoOrder
      PROVE  c.orderMap[i] \in 1 .. n /\ b.orders[ref[c.orderMap[i]]].id = i
  <2>1. having(i) # {}
    BY <1>1, <1>8
  <2>2. PICK k \in 1 .. n : b.orders[ref[k]].id = i
    BY <2>1
  <2> QED  BY <1>7, <2>2
<1>9. c \in Book
  <2>1. c.orders \in Seq(Order)
    BY <1>1, <1>3
  <2>2. c.linked \in SUBSET (Nat \ {0})
    BY <1>1
  <2>3. c.total \in [Sides -> [Prices -> Int]]
    BY <1>1 DEF Ledger, BookOK, Book
  <2>4. \A i \in Ids : c.orderMap[i] \in Nat
    BY <1>8 DEF NoOrder
  <2>5. c.orderMap \in [Ids -> Nat]
    BY <1>1, <2>4
  <2> QED  BY <1>1, <2>1, <2>2, <2>3, <2>5 DEF Book
<1>10. /\ c \in Book /\ DOMAIN c.orders = 1 .. n /\ c.linked = 1 .. n
       /\ \A k \in 1 .. n : c.orders[k] = b.orders[ref[k]]
       /\ \A side \in Sides, price \in Prices : c.total[side][price] = b.total[side][price]
  BY <1>1, <1>9
<1> QED  BY <1>7, <1>8, <1>10, Zenon DEF c

\* A loaded book is sound, and no reader can tell it from the one that was saved.
LEMMA LoadedAlike ==
  ASSUME NEW b, Ledger(b)
  PROVE  LET c == FromJson(ToJson(b)) IN
         Ledger(c) /\ Alike(b, c) /\ c.linked = DOMAIN c.orders
<1> DEFINE c == FromJson(ToJson(b))
<1>1. PICK n \in Nat : \E ref : Reloads(b, n, ref)
  BY LoadedOK DEF Ledger
<1>2. PICK ref : Reloads(b, n, ref)
  BY <1>1
<1>3. /\ c \in Book /\ DOMAIN c.orders = 1 .. n /\ c.linked = 1 .. n
      /\ \A k \in 1 .. n : c.orders[k] = b.orders[ref[k]]
      /\ \A side \in Sides, price \in Prices : c.total[side][price] = b.total[side][price]
      /\ \A k \in 1 .. n : c.orderMap[b.orders[ref[k]].id] = k
      /\ \A i \in Ids : c.orderMap[i] # NoOrder =>
             c.orderMap[i] \in 1 .. n /\ b.orders[ref[c.orderMap[i]]].id = i
  BY <1>2, LoadedFields
<1> HIDE DEF c
<1>4. /\ \A k \in 1 .. n : ref[k] \in b.linked
      /\ \A r \in b.linked : \E k \in 1 .. n : ref[k] = r
      /\ \A k, l \in 1 .. n : ref[k] = ref[l] => k = l
      /\ \A k, l \in 1 .. n :
            b.orders[ref[k]].side = b.orders[ref[l]].side
                /\ b.orders[ref[k]].price = b.orders[ref[l]].price => (k < l <=> ref[k] < ref[l])
  BY <1>2 DEF Reloads
<1>5. /\ \A r \in b.linked : b.orders[r].type = "LIMIT" /\ b.orders[r].price \in Prices
                             /\ b.orders[r].quantity > 0
      /\ \A r \in b.linked : b.orders[r].id \in Ids /\ b.orderMap[b.orders[r].id] = r /\ r # NoOrder
  BY LinkedOrder DEF Ledger, BookOK, NoOrder
<1>6. \A i \in Ids : b.orderMap[i] # NoOrder =>
          b.orderMap[i] \in b.linked /\ b.orders[b.orderMap[i]].id = i
  BY DEF Ledger, Indexed
<1>7. BookOK(c)
  <2>1. c.linked \subseteq DOMAIN c.orders
        /\ \A i \in Ids : c.orderMap[i] # NoOrder => c.orderMap[i] \in DOMAIN c.orders
    BY <1>3
  <2>2. ASSUME NEW k \in 1 .. n
        PROVE  c.orders[k].type = "LIMIT" /\ c.orders[k].price \in Prices
    <3>1. c.orders[k] = b.orders[ref[k]] /\ ref[k] \in b.linked
      BY <1>3, <1>4
    <3> QED  BY <1>5, <3>1
  <2>3. \A i \in Ids : c.orderMap[i] # NoOrder => c.orders[c.orderMap[i]].type = "LIMIT"
    BY <1>3, <2>2
  <2> QED  BY <1>3, <2>1, <2>2, <2>3 DEF BookOK
<1>8. UniqueIds(c) /\ Indexed(c)
  <2>1. \A k \in 1 .. n : c.orderMap[c.orders[k].id] = k
    BY <1>3
  <2>2. \A k, l \in 1 .. n : c.orders[k].id = c.orders[l].id => k = l
    BY <2>1
  <2>3. \A i \in Ids : c.orderMap[i] # NoOrder =>
            c.orderMap[i] \in 1 .. n /\ c.orders[c.orderMap[i]].id = i
    BY <1>3
  <2> QED  BY <1>3, <2>1, <2>2, <2>3 DEF UniqueIds, Indexed
<1>9. /\ \A i \in Ids : b.orderMap[i] = NoOrder <=> c.orderMap[i] = NoOrder
      /\ \A i \in Ids : b.orderMap[i] # NoOrder => ref[c.orderMap[i]] = b.orderMap[i]
  <2> SUFFICES ASSUME NEW i \in Ids
               PROVE  /\ b.orderMap[i] = NoOrder <=> c.orderMap[i] = NoOrder
                      /\ b.orderMap[i] # NoOrder => ref[c.orderMap[i]] = b.orderMap[i]
    OBVIOUS
  <2>1. ASSUME b.orderMap[i] # NoOrder
        PROVE  c.orderMap[i] # NoOrder /\ ref[c.orderMap[i]] = b.orderMap[i]
    <3>1. PICK k \in 1 .. n : ref[k] = b.orderMap[i]
      BY <1>4, <1>6, <2>1
    <3>2. c.orderMap[i] = k
      BY <1>3, <1>6, <2>1, <3>1
    <3> QED  BY <3>1, <3>2 DEF NoOrder
  <2>2. ASSUME c.orderMap[i] # NoOrder
        PROVE  b.orderMap[i] # NoOrder
    BY <1>3, <1>4, <1>5, <2>2, SMTT(30)
  <2> QED  BY <2>1, <2>2
<1>10. Alike(b, c)
  <2>1. \A i \in Ids : b.orderMap[i] # NoOrder =>
            c.orderMap[i] \in 1 .. n /\ c.orders[c.orderMap[i]] = b.orders[b.orderMap[i]]
    BY <1>3, <1>9
  <2>2. \A i, k \in Ids :
           /\ b.orderMap[i] # NoOrder /\ b.orderMap[k] # NoOrder
           /\ b.orders[b.orderMap[i]].side = b.orders[b.orderMap[k]].side
           /\ b.orders[b.orderMap[i]].price = b.orders[b.orderMap[k]].price
           => (b.orderMap[i] < b.orderMap[k] <=> c.orderMap[i] < c.orderMap[k])
    BY <1>4, <1>9, <2>1
  <2> QED  BY <1>3, <1>9, <2>1, <2>2 DEF Alike
<1>11. \A k \in c.linked : c.orders[k].quantity > 0
  <2>1. \A k \in 1 .. n : c.orders[k] = b.orders[ref[k]] /\ ref[k] \in b.linked
    BY <1>3, <1>4
  <2> QED  BY <1>3, <1>5, <2>1
<1>12. ASSUME NEW S \in SUBSET (1 .. n)
       PROVE  /\ IsFiniteSet(Units(c, S))
              /\ Cardinality(Units(c, S)) = Cardinality(Units(b, {ref[k] : k \in S}))
  <2> DEFINE T == {ref[k] : k \in S}
             f == [r \in T |-> CHOOSE k \in S : ref[k] = r]
  <2>1. \A k \in S : f[ref[k]] = k
    BY <1>4
  <2>2. \A r \in T : f[r] \in S /\ ref[f[r]] = r
    BY <2>1
  <2>3. f \in [T -> S]
    BY <2>2
  <2>4. IsFiniteSet(Units(b, T))
    BY <1>4, UnitsSubset DEF Ledger
  <2> HIDE DEF f
  <2>5. \A x, y \in T : f[x] = f[y] => x = y
    BY <2>2
  <2>6. \A z \in S : \E x \in T : f[x] = z
    BY <2>1
  <2> HIDE DEF T
  <2>7. \A x \in T : c.orders[f[x]].quantity = b.orders[x].quantity
    <3>1. \A k \in S : c.orders[k] = b.orders[ref[k]]
      BY <1>3
    <3> QED  BY <2>2, <3>1
  <2>8. Corresponds(b, T, c, S, f)
    BY <2>3, <2>5, <2>6, <2>7 DEF Corresponds
  <2>9. IsFiniteSet(Units(c, S)) /\ Cardinality(Units(c, S)) = Cardinality(Units(b, T))
    BY <2>4, <2>8, UnitsMapped
  <2> QED  BY <2>9 DEF T
<1>13. TotalsAddUp(c)
  <2> SUFFICES ASSUME NEW side \in Sides, NEW price \in Prices
               PROVE  c.total[side][price] = Cardinality(Units(c, Level(c, side, price)))
    BY DEF TotalsAddUp
  <2>1. Level(c, side, price) \in SUBSET (1 .. n)
    BY <1>3 DEF Level
  <2>2. {ref[k] : k \in Level(c, side, price)} = Level(b, side, price)
    <3>1. \A k : k \in Level(c, side, price) <=>
            k \in 1 .. n /\ b.orders[ref[k]].side = side /\ b.orders[ref[k]].price = price
      BY <1>3 DEF Level
    <3>2. \A r \in Level(b, side, price) : \E k \in Level(c, side, price) : ref[k] = r
      BY <1>4, <3>1 DEF Level
    <3>3. \A k \in Level(c, side, price) : ref[k] \in Level(b, side, price)
      BY <1>4, <3>1 DEF Level
    <3> QED  BY <3>2, <3>3
  <2>3. b.total[side][price] = Cardinality(Units(b, Level(b, side, price)))
    BY DEF Ledger, TotalsAddUp
  <2> QED  BY <1>3, <1>12, <2>1, <2>2, <2>3
<1>14. IsFiniteSet(Units(c, c.linked))
  BY <1>3, <1>12
<1> QED  BY <1>3, <1>7, <1>8, <1>10, <1>11, <1>13, <1>14 DEF Ledger, c

\* Saving and loading a sound book.
LEMMA SaveLoad ==
  ASSUME Ledger(book)
  PROVE  SaveLoadPreserves
<1> DEFINE c == FromJson(ToJson(book))
<1>1. Ledger(c) /\ Alike(book, c)
  BY LoadedAlike
<1> HIDE DEF c
<1>2. ToJson(c) = ToJson(book)
  BY <1>1, AlikeViews
<1>3. Indexed(c) /\ TotalsAddUp(c)
  BY <1>1 DEF Ledger
<1> QED  BY <1>2, <1>3 DEF SaveLoadPreserves, c

----------------------------------------------------------------------------
(* Sound replays *)

\* The ids that an engine has met and not forgotten.
IdsOf(b, list) == {b.orders[r].id : r \in DOMAIN b.orders} \cup {list[i].id : i \in DOMAIN list}

\* An engine the replay goes through is as sound as the one that wrote the log.
SoundEngine(s) ==
    /\ SoundBook(s.book)
    /\ DistinctTriggers(s.triggers) /\ ApartFrom(s.triggers, s.book)

\* What the log says next may be done in s: an id is submitted once, and careful
\* clients change no quantity to nothing.
Fits(s, e) ==
    /\ e.type = "submit" => e.order.id \notin IdsOf(s.book, s.triggers)
    /\ e.type = "modify" => e.quantity \in Nat /\ (CarefulClients => e.quantity # 0)

\* What a step of the replay does to the ids.
IdsAfter(s, e, d) ==
    \A id \in IdsOf(d.book, d.triggers) :
        id \in IdsOf(s.book, s.triggers) \/ (e.type = "submit" /\ id = e.order.id)

\* An order that is processed adds its id and no other.
LEMMA OneMoreIds ==
  ASSUME NEW b, b \in Book, NEW o, NEW c, OneMore(b, o, c), NEW list
  PROVE  /\ IdsOf(c, list) = IdsOf(b, list) \cup {o.id}
         /\ \A r \in DOMAIN c.orders :
               c.orders[r].id = o.id \/ \E q \in DOMAIN b.orders : c.orders[r].id = b.orders[q].id
<1> DEFINE n == Len(b.orders)
<1>1. DOMAIN b.orders = 1 .. n /\ n \in Nat
  BY OrdersDomain
<1> HIDE DEF n
<1>2. /\ DOMAIN c.orders = 1 .. n + 1 /\ c.orders[n + 1].id = o.id
      /\ \A r \in 1 .. n : c.orders[r].id = b.orders[r].id
  BY <1>1 DEF OneMore, n
<1>3. \A r \in 1 .. n + 1 : r \in 1 .. n \/ r = n + 1
  BY <1>1
<1>4. \A r \in 1 .. n : r \in 1 .. n + 1
  BY <1>1
<1>5. n + 1 \in 1 .. n + 1
  BY <1>1
<1>6. \A r \in DOMAIN c.orders :
         c.orders[r].id = o.id \/ \E q \in DOMAIN b.orders : c.orders[r].id = b.orders[q].id
  BY ONLY <1>1, <1>2, <1>3, Zenon
<1>7. \A q \in DOMAIN b.orders : \E r \in DOMAIN c.orders : c.orders[r].id = b.orders[q].id
  BY ONLY <1>1, <1>2, <1>4, Zenon
<1>8. \E r \in DOMAIN c.orders : c.orders[r].id = o.id
  BY ONLY <1>2, <1>5, Zenon
<1> QED  BY <1>6, <1>7, <1>8 DEF IdsOf

\* A submission.
LEMMA SubmitSound ==
  ASSUME NEW s, EngineOK(s), SoundEngine(s), NEW e, e.type = "submit",
         e.order \in Priced \cup Trigger, Fits(s, e)
  PROVE  SoundEngine(ReplayEntry(s, e)) /\ IdsAfter(s, e, ReplayEntry(s, e))
<1> DEFINE o == e.order
           d == ReplaySubmit(s, o)
           done == ProcessOrder(s.book, o)
<1>1. ReplayEntry(s, e) = d
  BY DEF ReplayEntry
<1>2. /\ \A r \in DOMAIN s.book.orders : s.book.orders[r].id # o.id
      /\ \A i \in DOMAIN s.triggers : s.triggers[i].id # o.id
  BY DEF Fits, IdsOf
<1>3. CASE o \in Trigger
  <2> DEFINE list == Append(s.triggers, o)
  <2>1. d = [s EXCEPT !.triggers = list]
    BY <1>3, TriggerNotPriced DEF ReplaySubmit
  <2>2. d.book = s.book /\ d.triggers = list
    BY ONLY <2>1, EngineOK(s) DEF EngineOK
  <2>3. /\ DOMAIN list = 1 .. Len(s.triggers) + 1 /\ DOMAIN s.triggers = 1 .. Len(s.triggers)
        /\ list[Len(s.triggers) + 1] = o /\ Len(s.triggers) \in Nat
        /\ \A i \in DOMAIN s.triggers : list[i] = s.triggers[i]
    BY <1>3, AppendProperties DEF EngineOK
  <2> HIDE DEF list, d
  <2>4. \A i \in DOMAIN list : i \in DOMAIN s.triggers \/ i = Len(s.triggers) + 1
    BY <2>3
  <2>5. DistinctTriggers(list)
    BY <1>2, <2>3, <2>4 DEF SoundEngine, DistinctTriggers
  <2>6. ApartFrom(list, s.book)
    BY <1>2, <2>3, <2>4 DEF SoundEngine, ApartFrom
  <2>7. SoundEngine(d)
    BY <2>2, <2>5, <2>6 DEF SoundEngine
  <2>8. \A i \in DOMAIN list : list[i].id = o.id
                               \/ \E k \in DOMAIN s.triggers : list[i].id = s.triggers[k].id
    BY <2>3, <2>4
  <2>9. IdsAfter(s, e, d)
    BY <2>2, <2>8 DEF IdsAfter, IdsOf
  <2> QED  BY <1>1, <2>7, <2>9
<1>4. CASE o \in Priced
  <2>1. o \in Order /\ (o.type = "LIMIT" => o.price \in Prices)
    BY <1>4 DEF Priced
  <2>2. SoundBook(done.book)
    BY <1>2, <2>1, ProcessSound DEF SoundEngine
  <2>3. OneMore(s.book, o, done.book)
    BY <2>1, ProcessOrderOK DEF EngineOK
  <2>4. o.id \in Ids /\ s.book.orderMap[o.id] = NoOrder
    <3>1. o.id \in Ids
      BY <2>1 DEF Order
    <3> QED  BY <1>2, <3>1, FreshNotIndexed DEF EngineOK
  <2>5. d = [s EXCEPT !.book = done.book, !.made = @ + Len(done.trades)]
    BY <1>4, <2>4, TriggerNotPriced DEF ReplaySubmit
  <2>6. d.book = done.book /\ d.triggers = s.triggers
    BY ONLY <2>5, EngineOK(s) DEF EngineOK
  <2>7. s.book \in Book
    BY DEF EngineOK
  <2> HIDE DEF done, d
  <2>8. /\ IdsOf(done.book, s.triggers) = IdsOf(s.book, s.triggers) \cup {o.id}
        /\ \A r \in DOMAIN done.book.orders :
             \/ done.book.orders[r].id = o.id
             \/ \E q \in DOMAIN s.book.orders : done.book.orders[r].id = s.book.orders[q].id
    BY <2>3, <2>7, OneMoreIds
  <2>9. ApartFrom(s.triggers, done.book)
    BY <1>2, <2>8 DEF SoundEngine, ApartFrom
  <2>10. SoundEngine(d)
    BY <2>2, <2>6, <2>9 DEF SoundEngine
  <2>11. IdsAfter(s, e, d)
    BY <2>6, <2>8 DEF IdsAfter
  <2> QED  BY <1>1, <2>10, <2>11
<1> QED  BY <1>3, <1>4

\* What leaves the ids of a book as they are.
LEMMA SameIdsSound ==
  ASSUME NEW s, SoundEngine(s), NEW d, d.triggers = s.triggers,
         SoundBook(d.book), SameIds(s.book, d.book), NEW e
  PROVE  SoundEngine(d) /\ IdsAfter(s, e, d)
<1>1. ApartFrom(s.triggers, d.book)
  BY SameIdsApart DEF SoundEngine
<1>2. SoundEngine(d)
  BY <1>1 DEF SoundEngine
<1>3. IdsAfter(s, e, d)
  BY DEF IdsAfter, IdsOf, SameIds
<1> QED  BY <1>2, <1>3

\* A cancellation, ...
LEMMA CancelReplaySound ==
  ASSUME NEW s, EngineOK(s), SoundEngine(s), NEW e, e.type = "cancel", e.id \in Ids
  PROVE  SoundEngine(ReplayEntry(s, e)) /\ IdsAfter(s, e, ReplayEntry(s, e))
<1>1. ReplayEntry(s, e) = ReplayCancel(s, e.id)
  BY DEF ReplayEntry
<1>2. CASE s.book.orderMap[e.id] = NoOrder
  BY <1>1, <1>2 DEF ReplayCancel, IdsAfter
<1>3. CASE s.book.orderMap[e.id] # NoOrder
  <2> DEFINE c == CancelOrder(s.book, e.id)
             d == [s EXCEPT !.book = c, !.cancelled = @ + 1]
  <2>1. SoundBook(c) /\ SameIds(s.book, c)
    BY <1>3, CancelSound DEF SoundEngine
  <2>2. ReplayEntry(s, e) = d
    BY <1>1, <1>3 DEF ReplayCancel
  <2> HIDE DEF c
  <2>3. d.book = c /\ d.triggers = s.triggers
    BY ONLY EngineOK(s) DEF EngineOK
  <2> HIDE DEF d
  <2> QED  BY <2>1, <2>2, <2>3, SameIdsSound
<1> QED  BY <1>2, <1>3

\* ... a new quantity, ...
LEMMA ModifyReplaySound ==
  ASSUME NEW s, EngineOK(s), SoundEngine(s), NEW e, e.type = "modify", e.id \in Ids, Fits(s, e)
  PROVE  SoundEngine(ReplayEntry(s, e)) /\ IdsAfter(s, e, ReplayEntry(s, e))
<1>1. ReplayEntry(s, e) = ReplayModify(s, e.id, e.quantity)
  BY DEF ReplayEntry
<1>2. CASE s.book.orderMap[e.id] = NoOrder
  BY <1>1, <1>2 DEF ReplayModify, IdsAfter
<1>3. CASE s.book.orderMap[e.id] # NoOrder
  <2> DEFINE c == ModifyOrder(s.book, e.id, e.quantity)
             d == [s EXCEPT !.book = c]
  <2>0. e.quantity \in Nat /\ (CarefulClients => e.quantity # 0)
    BY DEF Fits
  <2>1. SoundBook(c) /\ SameIds(s.book, c)
    BY <1>3, <2>0, ModifySound DEF SoundEngine
  <2>2. ReplayEntry(s, e) = d
    BY <1>1, <1>3 DEF ReplayModify
  <2> HIDE DEF c
  <2>3. d.book = c /\ d.triggers = s.triggers
    BY ONLY EngineOK(s) DEF EngineOK
  <2> HIDE DEF d
  <2> QED  BY <2>1, <2>2, <2>3, SameIdsSound
<1> QED  BY <1>2, <1>3

\* ... and the firing of a trigger.
LEMMA ActivatedReplaySound ==
  ASSUME NEW s, EngineOK(s), SoundEngine(s), NEW e, e.type = "activated", e.id \in Ids
  PROVE  SoundEngine(ReplayEntry(s, e)) /\ IdsAfter(s, e, ReplayEntry(s, e))
<1> DEFINE list == Without(s.triggers, e.id)
           d    == [s EXCEPT !.triggers = list]
<1>1. ReplayEntry(s, e) = d
  BY DEF ReplayEntry, ReplayActivated
<1>2. KeptOf(s.triggers, Len(s.triggers), list)
  BY WithoutOK DEF EngineOK
<1> HIDE DEF list
<1>3. d.book = s.book /\ d.triggers = list
  BY ONLY EngineOK(s) DEF EngineOK
<1>4. DOMAIN s.triggers = 1 .. Len(s.triggers)
  BY DEF EngineOK
<1> HIDE DEF d
<1>5. /\ DistinctTriggers(list)
      /\ \A i \in DOMAIN list : \E m \in DOMAIN s.triggers : list[i] = s.triggers[m]
  BY <1>2, <1>4 DEF KeptOf, SoundEngine
<1>6. ApartFrom(list, s.book)
  BY <1>5 DEF ApartFrom, SoundEngine
<1>7. SoundEngine(d)
  BY <1>3, <1>5, <1>6 DEF SoundEngine
<1>8. IdsAfter(s, e, d)
  BY <1>3, <1>5 DEF IdsAfter, IdsOf
<1> QED  BY <1>1, <1>7, <1>8

\* Every entry that fits.
LEMMA ReplayEntrySound ==
  ASSUME NEW s, EngineOK(s), SoundEngine(s), NEW e \in LogEntry, Fits(s, e)
  PROVE  SoundEngine(ReplayEntry(s, e)) /\ IdsAfter(s, e, ReplayEntry(s, e))
<1>1. CASE e.type = "submit" /\ e.order \in Priced \cup Trigger
  BY <1>1, SubmitSound
<1>2. CASE e.type = "cancel" /\ e.id \in Ids
  BY <1>2, CancelReplaySound
<1>3. CASE e.type = "modify" /\ e.id \in Ids
  BY <1>3, ModifyReplaySound
<1>4. CASE e.type = "activated" /\ e.id \in Ids
  BY <1>4, ActivatedReplaySound
<1>5. CASE e.type = "trade"
  <2>1. ReplayEntry(s, e) = s
    BY <1>5 DEF ReplayEntry
  <2> QED  BY <2>1 DEF IdsAfter
<1> QED  BY <1>1, <1>2, <1>3, <1>4, <1>5, EntryFields

\* The replay of the first n lines is sound, and the last of them fitted.
SoundAt(log, n) ==
    Clear(log, n) => /\ SoundEngine(After(log, n))
                     /\ n > 0 => Fits(After(log, n - 1), Line(log[n]))

\* Every replay of the log is sound, and knows no id that the engine does not.
SoundLog ==
    /\ \A n \in 0 .. Len(wal) : SoundAt(wal, n)
    /\ Intact(wal) => \A id \in IdsOf(After(wal, Len(wal)).book, After(wal, Len(wal)).triggers) :
                          id \in IdsOf(book, triggers)

\* The inductive invariant behind SaveLoadPreserves.
SoundInv == OrdersInv /\ SoundLog

\* Logs that agree have sound replays, if one of them has.
LEMMA SoundKept ==
  ASSUME NEW a, LogOK(a), NEW b, LogOK(b), NEW n \in Nat, n <= Len(a), n <= Len(b),
         Agree(a, b, n), SoundAt(a, n)
  PROVE  SoundAt(b, n)
<1> SUFFICES ASSUME Clear(b, n)
             PROVE  /\ SoundEngine(After(b, n))
                    /\ n > 0 => Fits(After(b, n - 1), Line(b[n]))
  BY DEF SoundAt
<1>1. Clear(a, n) /\ After(b, n) = After(a, n)
  BY AgreeAfter
<1>2. ASSUME n > 0 PROVE Fits(After(b, n - 1), Line(b[n]))
  <2>1. /\ n - 1 \in Nat /\ n - 1 <= n /\ n \in 1 .. n /\ \A i \in 1 .. n - 1 : i \in 1 .. n
        /\ Len(a) \in Nat /\ Len(b) \in Nat
    BY <1>2 DEF LogOK
  <2>2. n - 1 <= Len(a) /\ n - 1 <= Len(b)
    BY <2>1
  <2>3. Agree(a, b, n - 1)
    BY <2>1 DEF Agree
  <2>4. Clear(b, n - 1)
    BY <2>1, ClearLess
  <2>5. After(b, n - 1) = After(a, n - 1)
    BY <2>1, <2>2, <2>3, <2>4, AgreeAfter
  <2>6. Line(b[n]) = Line(a[n])
    BY <2>1 DEF Agree, Clear
  <2> QED  BY <1>1, <1>2, <2>5, <2>6 DEF SoundAt
<1> QED  BY <1>1, <1>2 DEF SoundAt

\* What may be logged: one submission, of a new id that the engine then knows,
\* changes of quantities, by careful clients to something, and whatever else.
MayLog(entries) ==
    /\ \A j \in 1 .. Len(entries) : entries[j].type = "submit" =>
          /\ j = 1
          /\ entries[j].order.id \notin IdsOf(book, triggers)
          /\ entries[j].order.id \in IdsOf(book', triggers')
    /\ \A j \in 1 .. Len(entries) : entries[j].type = "modify" =>
          entries[j].quantity \in Nat /\ (CarefulClients => entries[j].quantity # 0)
    /\ \A id \in IdsOf(book, triggers) : id \in IdsOf(book', triggers')

\* The replay stays sound as the log grows.
LEMMA SoundGrows ==
  ASSUME SoundLog, LogOK(wal), WalEnabled, NEW entries \in Seq(LogEntry), entries # << >>,
         Log(entries), MayLog(entries)
  PROVE  SoundLog'
<1> DEFINE m == Len(wal)
           l == Len(entries)
           known(n) == \A id \in IdsOf(After(wal', n).book, After(wal', n).triggers) :
                           id \in IdsOf(book', triggers')
<1>1. LogOK(wal') /\ Grown(wal, wal', entries)
  BY LogGrows
<1>2. m \in Nat /\ Len(wal') \in Nat /\ l \in Nat \ {0} /\ wal' \in Seq(WalLine)
      /\ wal \in Seq(WalLine) /\ DOMAIN wal' = 1 .. Len(wal') /\ DOMAIN wal = 1 .. m
  BY <1>1 DEF LogOK
<1>3. \A n \in Nat : n <= m => Agree(wal, wal', n) /\ Len(wal') >= m
  BY <1>1, <1>2, GrownAgrees
<1>4. ASSUME NEW n \in Nat, n <= m PROVE SoundAt(wal', n)
  <2>1. n <= Len(wal') /\ n \in 0 .. m
    BY <1>2, <1>3, <1>4
  <2>2. SoundAt(wal, n)
    BY <2>1 DEF SoundLog
  <2>3. Agree(wal, wal', n)
    BY <1>3, <1>4
  <2> QED  BY ONLY LogOK(wal), <1>1, <1>4, <2>1, <2>2, <2>3, SoundKept
<1>5. CASE wal # << >> /\ Len(wal') = m - 1 + l /\ wal'[m] = Garbled
  <2>1. m \in 1 .. m
    BY <1>2, <1>5
  <2>2. wal'[m].type \in {"cut", "garbled"}
    BY <1>5 DEF Garbled
  <2>3. m \in 1 .. Len(wal')
    BY <1>2, <1>3, <2>1
  <2>4. ~Intact(wal')
    BY <1>2, <2>2, <2>3 DEF Intact
  <2>5. ASSUME NEW n \in 0 .. Len(wal'), ~(n <= m) PROVE SoundAt(wal', n)
    <3>1. m \in 1 .. n
      BY <1>2, <2>1, <2>5
    <3>2. ~Clear(wal', n)
      BY <2>2, <3>1 DEF Clear
    <3> QED  BY <3>2 DEF SoundAt
  <2>6. \A n \in 0 .. Len(wal') : n \in Nat
    OBVIOUS
  <2>7. \A n \in 0 .. Len(wal') : SoundAt(wal', n)
    BY <1>4, <2>5, <2>6
  <2> QED  BY <2>4, <2>7 DEF SoundLog
<1>6. CASE /\ Len(wal') = m + l
           /\ \A i \in 1 .. m : wal'[i] = wal[i]
           /\ \A j \in 1 .. l : wal'[m + j] = entries[j]
  <2> DEFINE T == {j \in Nat : j <= l /\ Clear(wal', m + j) =>
                       /\ SoundAt(wal', m + j) /\ known(m + j)
                       /\ j = 0 => \A id \in IdsOf(After(wal', m).book, After(wal', m).triggers) :
                                       id \in IdsOf(book, triggers)}
  <2>1. 0 \in T
    <3>1. m + 0 = m
      BY <1>2
    <3>2. SoundAt(wal', m)
      BY <1>2, <1>4
    <3>3. ASSUME Clear(wal', m)
          PROVE  \A id \in IdsOf(After(wal', m).book, After(wal', m).triggers) :
                     id \in IdsOf(book, triggers)
      <4>1. Intact(wal)
        BY <1>2, <1>6, <3>3 DEF Intact, Clear
      <4>2. m <= m /\ m <= Len(wal') /\ Agree(wal, wal', m)
        BY <1>2, <1>3
      <4>3. After(wal', m) = After(wal, m)
        BY ONLY LogOK(wal), <1>1, <1>2, <3>3, <4>2, AgreeAfter
      <4> QED  BY <4>1, <4>3 DEF SoundLog
    <3>4. Clear(wal', m) => known(m)
      BY <3>3 DEF MayLog
    <3> QED  BY <3>1, <3>2, <3>3, <3>4
  <2>2. ASSUME NEW j \in T PROVE j + 1 \in T
    <3> SUFFICES ASSUME j + 1 <= l, Clear(wal', m + (j + 1))
                 PROVE  SoundAt(wal', m + (j + 1)) /\ known(m + (j + 1))
      BY <2>2
    <3> DEFINE n == m + j
               e == entries[j + 1]
               s == After(wal', n)
    <3>1. /\ j \in Nat /\ j <= l /\ n \in Nat /\ m + (j + 1) = n + 1 /\ n + 1 \in 1 .. Len(wal')
          /\ n <= n + 1 /\ n <= Len(wal') /\ j + 1 \in 1 .. l /\ n + 1 - 1 = n /\ n + 1 > 0
          /\ n + 1 \in Nat
      BY <1>2, <1>6, <2>2
    <3>2. Clear(wal', n) /\ Clear(wal', n + 1)
      BY <3>1, ClearLess
    <3>3. /\ SoundAt(wal', n) /\ known(n)
          /\ j = 0 => \A id \in IdsOf(After(wal', m).book, After(wal', m).triggers) :
                          id \in IdsOf(book, triggers)
      BY <2>2, <3>1, <3>2
    <3>4. SoundEngine(s)
      BY <3>2, <3>3 DEF SoundAt
    <3>5. EngineOK(s)
      BY <1>1, <3>1, <3>2, AfterOK
    <3>6. e \in LogEntry /\ wal'[n + 1] = e
      <4>1. wal'[m + (j + 1)] = entries[j + 1]
        BY <1>6, <3>1
      <4>2. e \in LogEntry
        BY <3>1
      <4> QED  BY <3>1, <4>1, <4>2
    <3>7. Line(wal'[n + 1]) = e
      BY <3>6, LineTypes DEF Line
    <3>8. After(wal', n + 1) = ReplayEntry(s, e)
      BY <1>2, <3>1, <3>7, AfterOne
    <3>9. Fits(s, e)
      <4>1. ASSUME e.type = "submit" PROVE e.order.id \notin IdsOf(s.book, s.triggers)
        <5>1. j + 1 = 1 /\ e.order.id \notin IdsOf(book, triggers)
          BY <3>1, <4>1 DEF MayLog
        <5>2. m \in Nat /\ j \in Nat /\ j + 1 = 1
          BY ONLY <1>2, <3>1, <5>1, Zenon
        <5>3. j = 0
          BY ONLY <5>2
        <5>4. n = m
          BY ONLY <5>2, <5>3
        <5> QED  BY <3>3, <5>1, <5>3, <5>4
      <4>2. e.type = "modify" => e.quantity \in Nat /\ (CarefulClients => e.quantity # 0)
        BY <3>1 DEF MayLog
      <4> QED  BY <4>1, <4>2 DEF Fits
    <3> HIDE DEF n, e, s, known
    <3>10. SoundEngine(ReplayEntry(s, e)) /\ IdsAfter(s, e, ReplayEntry(s, e))
      BY ONLY <3>4, <3>5, <3>6, <3>9, ReplayEntrySound
    <3>11. SoundAt(wal', n + 1)
      BY <3>1, <3>7, <3>8, <3>9, <3>10 DEF SoundAt, s
    <3>12. e.type = "submit" => e.order.id \in IdsOf(book', triggers')
      BY <3>1 DEF MayLog, e
    <3>13. known(n + 1)
      BY <3>3, <3>8, <3>10, <3>12 DEF IdsAfter, known, s
    <3> QED  BY <3>1, <3>11, <3>13
  <2> HIDE DEF T
  <2>3. Nat \subseteq T
    BY <2>1, <2>2, SetOfAllNat
  <2>4. ASSUME NEW n \in 0 .. Len(wal'), ~(n <= m) PROVE SoundAt(wal', n)
    <3>1. n - m \in Nat /\ n - m <= l /\ m + (n - m) = n
      BY <1>2, <1>6, <2>4
    <3>2. n - m \in T
      BY <2>3, <3>1
    <3> QED  BY <3>1, <3>2 DEF T, SoundAt
  <2>5. \A n \in 0 .. Len(wal') : n \in Nat
    OBVIOUS
  <2>6. \A n \in 0 .. Len(wal') : SoundAt(wal', n)
    BY <1>4, <2>4, <2>5
  <2>7. ASSUME Intact(wal') PROVE known(Len(wal'))
    <3>1. Clear(wal', m + l)
      BY <1>2, <1>6, <2>7 DEF Intact, Clear
    <3>2. l \in T /\ l <= l
      BY <1>2, <2>3
    <3> QED  BY <1>6, <3>1, <3>2 DEF T
  <2> QED  BY <2>6, <2>7 DEF SoundLog
<1> QED  BY <1>1, <1>5, <1>6 DEF Grown

\* Nothing is logged, and no id is forgotten.
LEMMA SoundUnlogged ==
  ASSUME SoundLog, wal' = wal, \A id \in IdsOf(book, triggers) : id \in IdsOf(book', triggers')
  PROVE  SoundLog'
BY DEF SoundLog

\* A restart takes the engine to a sound replay.
LEMMA SoundRestart ==
  ASSUME SoundLog, LogOK(wal), wal # << >>, NEW log \in LeftOver, RestartFrom(log)
  PROVE  SoundInv'
<1> DEFINE s == Replay(NewEngine, log)
           m == Len(Readable(log))
<1>1. /\ book' = s.book /\ triggers' = s.triggers /\ tradeIds' = s.made /\ wal' = log
  BY DEF RestartFrom
<1>2. /\ LogOK(log) /\ Len(log) <= Len(wal)
      /\ \A i \in 1 .. Len(log) : log[i].type \in {"cut", "garbled"} \/ Line(log[i]) = Line(wal[i])
      /\ \A i \in 1 .. Len(log) : wal[i].type \in {"cut", "garbled"} =>
                                      log[i].type \in {"cut", "garbled"}
  BY LeftOverOK
<1>3. Len(log) \in Nat /\ Len(wal) \in Nat /\ DOMAIN log = 1 .. Len(log)
  BY <1>2 DEF LogOK
<1>4. /\ m \in Nat /\ m <= Len(log) /\ Clear(log, m)
      /\ \A k \in Nat : k <= Len(log) /\ Clear(log, k) => k <= m
  BY <1>2, ReadableOK
<1>5. s = After(log, m) /\ EngineOK(s)
  BY <1>2, <1>4, ReplayIsAfter, AfterOK
<1> HIDE DEF s, m
<1>6. ASSUME NEW n \in 0 .. Len(log) PROVE SoundAt(log, n)
  <2>1. n \in Nat /\ n <= Len(log) /\ n <= Len(wal) /\ n \in 0 .. Len(wal)
        /\ \A i \in 1 .. n : i \in 1 .. Len(log)
    BY <1>2, <1>3
  <2>2. Agree(wal, log, n)
    BY <1>2, <2>1 DEF Agree
  <2>3. SoundAt(wal, n)
    BY <2>1 DEF SoundLog
  <2> QED  BY ONLY LogOK(wal), <1>2, <2>1, <2>2, <2>3, SoundKept
<1>7. SoundEngine(s)
  <2>1. m \in 0 .. Len(log)
    BY <1>3, <1>4
  <2> QED  BY <1>4, <1>5, <1>6, <2>1 DEF SoundAt
<1>8. OrdersInv'
  BY <1>1, <1>5, <1>7 DEF OrdersInv, SoundEngine, EngineOK
<1>9. ASSUME Intact(log) PROVE m = Len(log)
  <2>1. Clear(log, Len(log)) /\ Len(log) <= Len(log)
    BY <1>3, <1>9 DEF Intact, Clear
  <2>2. Len(log) <= m
    BY <1>3, <1>4, <2>1
  <2>3. m \in Nat /\ Len(log) \in Nat /\ m <= Len(log)
    BY ONLY <1>3, <1>4, Zenon
  <2> QED  BY ONLY <2>2, <2>3
<1>10. SoundLog'
  BY <1>1, <1>5, <1>6, <1>9 DEF SoundLog
<1> QED  BY <1>8, <1>10 DEF SoundInv

\* A turn of checkTriggers' loop forgets no order object of b.
Remembers(b, s) ==
    /\ DOMAIN s = {"book", "armed", "made", "log"}
    /\ BookOK(s.book) /\ OwnIds(s.book)
    /\ \A q \in DOMAIN b.orders : \E r \in DOMAIN s.book.orders : s.book.orders[r].id = b.orders[q].id

\* Whether the trigger fires or not.
LEMMA CheckRemembers ==
  ASSUME NEW b, NEW s, Remembers(b, s), NEW o \in Trigger, NEW price
  PROVE  Remembers(b, CheckTrigger(s, o, price))
<1> DEFINE done == ProcessOrder(s.book, Activated(o))
           d == CheckTrigger(s, o, price)
<1>1. CASE ~Fires(o, price)
  <2>1. d = [s EXCEPT !.armed = Append(@, o)]
    BY <1>1 DEF CheckTrigger
  <2>2. DOMAIN d = {"book", "armed", "made", "log"} /\ d.book = s.book
    BY ONLY <2>1, Remembers(b, s) DEF Remembers
  <2> HIDE DEF d
  <2>3. Remembers(b, d)
    BY <2>2 DEF Remembers
  <2> QED  BY <2>3 DEF d
<1>2. CASE Fires(o, price)
  <2>1. BookOK(done.book) /\ OwnIds(done.book) /\ OneMore(s.book, Activated(o), done.book)
    BY ActivatedOK, ProcessOrderOK DEF Remembers
  <2>2. d = [book |-> done.book, armed |-> s.armed, made |-> s.made + Len(done.trades),
             log |-> Append(s.log, [type |-> "activated", id |-> o.id])]
    BY <1>2 DEF CheckTrigger
  <2> HIDE DEF done
  <2>3. DOMAIN d = {"book", "armed", "made", "log"} /\ d.book = done.book
    BY ONLY <2>2
  <2> HIDE DEF d
  <2>4. \A r \in DOMAIN s.book.orders : r \in DOMAIN done.book.orders
    <3>1. DOMAIN s.book.orders = 1 .. Len(s.book.orders) /\ Len(s.book.orders) \in Nat
      BY OrdersDomain DEF Remembers, BookOK
    <3> QED  BY ONLY <2>1, <3>1 DEF OneMore
  <2>5. \A r \in DOMAIN s.book.orders : done.book.orders[r].id = s.book.orders[r].id
    BY <2>1 DEF OneMore
  <2>6. Remembers(b, d)
    BY <2>1, <2>3, <2>4, <2>5 DEF Remembers
  <2> QED  BY <2>6 DEF d
<1> QED  BY <1>1, <1>2

\* Nor do all the turns.
LEMMA CheckedRemembers ==
  ASSUME NEW b, BookOK(b), OwnIds(b), NEW list \in Seq(Trigger), NEW price
  PROVE  Remembers(b, Checked(b, list, price, Len(list)))
<1> DEFINE T == {k \in Nat : k <= Len(list) => Remembers(b, Checked(b, list, price, k))}
<1>1. 0 \in T
  <2>1. Checked(b, list, price, 0) = [book |-> b, armed |-> << >>, made |-> 0, log |-> << >>]
    BY CheckedByTrigger
  <2>2. Remembers(b, [book |-> b, armed |-> << >>, made |-> 0, log |-> << >>])
    BY DEF Remembers
  <2> QED  BY <2>1, <2>2
<1>2. ASSUME NEW k \in T PROVE k + 1 \in T
  <2> SUFFICES ASSUME k + 1 <= Len(list) PROVE Remembers(b, Checked(b, list, price, k + 1))
    BY <1>2
  <2>1. k \in Nat /\ k <= Len(list) /\ k + 1 \in DOMAIN list /\ list[k + 1] \in Trigger
    BY <1>2
  <2>2. Remembers(b, Checked(b, list, price, k))
    BY <1>2, <2>1
  <2>3. Checked(b, list, price, k + 1) = CheckTrigger(Checked(b, list, price, k), list[k + 1], price)
    BY <2>1, CheckedByTrigger
  <2> QED  BY <2>1, <2>2, <2>3, CheckRemembers
<1> HIDE DEF T
<1>3. Nat \subseteq T
  BY <1>1, <1>2, SetOfAllNat, Zenon
<1>4. Len(list) \in T /\ Len(list) <= Len(list)
  BY <1>3
<1> QED  BY <1>4 DEF T

\* The ids after checkTriggers.
LEMMA CheckIds ==
  ASSUME OrdersInv, NEW t \in Threads, CheckTriggers(t)
  PROVE  /\ \A id \in IdsOf(book, triggers) : id \in IdsOf(book', triggers')
         /\ \E entries \in Seq(ActivatedEntry) : Log(entries)
<1> DEFINE price == Head(thr[t].trades).price
           d == Checked(book, triggers, price, Len(triggers))
<1>1. book' = d.book /\ triggers' = d.armed /\ Log(d.log)
  BY Zenon DEF CheckTriggers
<1>2. SomeChecked(book, triggers, price, Len(triggers), d)
  BY AllChecked DEF OrdersInv
<1>3. Remembers(book, d)
  BY SoundOwnIds, CheckedRemembers DEF OrdersInv
<1> HIDE DEF d, price
<1>4. d.log \in Seq(ActivatedEntry)
  BY <1>2 DEF SomeChecked
<1>5. DOMAIN triggers = 1 .. Len(triggers)
  BY DEF OrdersInv
<1>6. ASSUME NEW i \in DOMAIN triggers
      PROVE  \/ \E r \in DOMAIN d.book.orders : d.book.orders[r].id = triggers[i].id
             \/ \E k \in DOMAIN d.armed : d.armed[k].id = triggers[i].id
  <2>1. i \in 1 .. Len(triggers)
    BY <1>5
  <2> QED  BY <1>2, <2>1 DEF SomeChecked
<1>7. \A id \in IdsOf(book, triggers) : id \in IdsOf(d.book, d.armed)
  BY <1>3, <1>6 DEF IdsOf, Remembers
<1> QED  BY <1>1, <1>4, <1>7

\* An entry is a sequence of one.
LEMMA OneEntry ==
  ASSUME NEW e \in LogEntry
  PROVE  /\ <<e>> \in Seq(LogEntry) /\ <<e>> # << >> /\ Len(<<e>>) = 1 /\ <<e>>[1] = e
         /\ \A j \in 1 .. Len(<<e>>) : <<e>>[j] = e /\ j = 1
OBVIOUS

\* One entry is logged.
LEMMA SoundOne ==
  ASSUME SoundLog, LogOK(wal), WalEnabled, NEW e \in LogEntry, Log(<<e>>),
         e.type = "submit" => /\ e.order.id \notin IdsOf(book, triggers)
                              /\ e.order.id \in IdsOf(book', triggers'),
         e.type = "modify" => e.quantity \in Nat /\ (CarefulClients => e.quantity # 0),
         \A id \in IdsOf(book, triggers) : id \in IdsOf(book', triggers')
  PROVE  SoundLog'
<1>1. MayLog(<<e>>)
  BY OneEntry DEF MayLog
<1> QED  BY <1>1, OneEntry, SoundGrows

\* The calls that write one entry.
LEMMA SoundSubmit ==
  ASSUME OrdersInv, SoundLog, LogOK(wal), WalEnabled, NEW t \in Threads,
         NEW o \in Submittable, SubmitOrder(t, o)
  PROVE  SoundLog'
<1> DEFINE e == [type |-> "submit", order |-> o]
           done == ProcessOrder(book, o)
<1>1. book' = done.book /\ triggers' = triggers /\ Log(<<e>>)
  BY Zenon DEF SubmitOrder
<1>2. /\ o \in Order /\ (o.type = "LIMIT" => o.price \in Prices)
      /\ o.id \notin IdsOf(book, triggers)
  BY SubmittableOK DEF IdsOf
<1>3. e \in LogEntry
  BY <1>2 DEF LogEntry, Priced
<1>4. book \in Book /\ BookOK(book) /\ OwnIds(book)
  BY SoundOwnIds DEF OrdersInv, BookOK
<1>5. OneMore(book, o, done.book)
  BY <1>2, <1>4, ProcessOrderOK
<1>6. IdsOf(book', triggers') = IdsOf(book, triggers) \cup {o.id}
  BY <1>1, <1>4, <1>5, OneMoreIds
<1>7. e.type = "submit" /\ e.order = o
  OBVIOUS
<1> HIDE DEF e
<1> QED  BY <1>1, <1>2, <1>3, <1>6, <1>7, SoundOne

\* A trigger order is stored.
LEMMA SoundTrigger ==
  ASSUME OrdersInv, SoundLog, LogOK(wal), WalEnabled, NEW t \in Threads,
         NEW o \in SubmittableTriggers, SubmitTrigger(t, o)
  PROVE  SoundLog'
<1> DEFINE e == [type |-> "submit", order |-> o]
<1>1. book' = book /\ triggers' = Append(triggers, o) /\ Log(<<e>>)
  BY Zenon DEF SubmitTrigger
<1>2. /\ o \in Trigger /\ o.id \notin IdsOf(book, triggers)
  BY FreshId, EngineAssumption DEF IdsOf, SubmittableTriggers, Trigger
<1>3. e \in LogEntry
  BY <1>2 DEF LogEntry
<1>4. /\ DOMAIN triggers' = 1 .. Len(triggers) + 1 /\ DOMAIN triggers = 1 .. Len(triggers)
      /\ triggers'[Len(triggers) + 1] = o /\ Len(triggers) \in Nat
      /\ \A i \in DOMAIN triggers : triggers'[i] = triggers[i]
  BY <1>1, <1>2, AppendProperties DEF OrdersInv
<1>5. Len(triggers) + 1 \in DOMAIN triggers' /\ \A i \in DOMAIN triggers : i \in DOMAIN triggers'
  BY <1>4
<1>6. o.id \in IdsOf(book', triggers') /\ \A id \in IdsOf(book, triggers) : id \in IdsOf(book', triggers')
  BY <1>1, <1>4, <1>5 DEF IdsOf
<1>7. e.type = "submit" /\ e.order = o
  OBVIOUS
<1> HIDE DEF e
<1> QED  BY <1>1, <1>2, <1>3, <1>6, <1>7, SoundOne

\* An order is cancelled, ...
LEMMA SoundCancel ==
  ASSUME OrdersInv, SoundLog, LogOK(wal), WalEnabled, NEW t \in Threads,
         NEW id \in Ids, CancelTheOrder(t, id)
  PROVE  SoundLog'
<1> DEFINE e == [type |-> "cancel", id |-> id]
<1>1. /\ book.orderMap[id] # NoOrder /\ book' = CancelOrder(book, id) /\ triggers' = triggers
      /\ Log(<<e>>)
  BY Zenon DEF CancelTheOrder
<1>2. SameIds(book, book')
  BY <1>1, CancelSound DEF OrdersInv
<1>3. IdsOf(book', triggers') = IdsOf(book, triggers)
  BY <1>1, <1>2 DEF SameIds, IdsOf
<1>4. e \in LogEntry /\ e.type = "cancel"
  BY DEF LogEntry
<1> HIDE DEF e
<1> QED  BY <1>1, <1>3, <1>4, SoundOne

\* ... or gets a new quantity.
LEMMA SoundModify ==
  ASSUME OrdersInv, SoundLog, LogOK(wal), WalEnabled, NEW t \in Threads,
         NEW id \in Ids, NEW q \in ModifyQtys, ModifyTheOrder(t, id, q)
  PROVE  SoundLog'
<1> DEFINE e == [type |-> "modify", id |-> id, quantity |-> q]
<1>1. /\ book.orderMap[id] # NoOrder /\ book' = ModifyOrder(book, id, q) /\ triggers' = triggers
      /\ Log(<<e>>)
  BY Zenon DEF ModifyTheOrder
<1>2. q \in Nat /\ (CarefulClients => q # 0)
  BY EngineAssumption DEF CarefulClients
<1>3. SameIds(book, book')
  BY <1>1, <1>2, ModifySound DEF OrdersInv
<1>4. IdsOf(book', triggers') = IdsOf(book, triggers)
  BY <1>1, <1>3 DEF SameIds, IdsOf
<1>5. e \in LogEntry /\ e.type = "modify" /\ e.quantity = q
  BY <1>2 DEF LogEntry
<1> HIDE DEF e
<1> QED  BY <1>1, <1>2, <1>4, <1>5, SoundOne

\* A trade is published.
LEMMA SoundPublish ==
  ASSUME RecoveryInv, SoundLog, WalEnabled, NEW t \in Threads, PublishTrade(t)
  PROVE  SoundLog'
<1>1. LiveOK /\ CallsOK /\ LogOK(wal)
  BY DEF RecoveryInv, LogGood
<1>2. UNCHANGED orderVars
  BY <1>1, PublishLogs, ZenonT(30)
<1>3. PICK e : e.type = "trade" /\ Answered(e)
  BY <1>1, PublishLogs, ZenonT(30)
<1>4. e \in LogEntry /\ Log(<<e>>)
  BY <1>3 DEF Answered
<1>5. IdsOf(book', triggers') = IdsOf(book, triggers)
  BY <1>2 DEF orderVars
<1> QED  BY <1>1, <1>3, <1>4, <1>5, SoundOne

\* checkTriggers.
LEMMA SoundCheck ==
  ASSUME OrdersInv, SoundLog, LogOK(wal), WalEnabled, NEW t \in Threads, CheckTriggers(t)
  PROVE  SoundLog'
<1>1. \A id \in IdsOf(book, triggers) : id \in IdsOf(book', triggers')
  BY CheckIds
<1>2. PICK entries \in Seq(ActivatedEntry) : Log(entries)
  BY CheckIds
<1>3. CASE entries = << >>
  BY <1>1, <1>2, <1>3, SoundUnlogged DEF Log
<1>4. CASE entries # << >>
  <2>1. entries \in Seq(LogEntry)
    BY DEF LogEntry
  <2>2. \A j \in 1 .. Len(entries) : entries[j].type = "activated"
    <3>1. \A j \in 1 .. Len(entries) : entries[j] \in ActivatedEntry
      OBVIOUS
    <3>2. \A x \in ActivatedEntry : x.type = "activated"
      BY DEF ActivatedEntry
    <3> QED  BY ONLY <3>1, <3>2, Zenon
  <2>3. MayLog(entries)
    BY <1>1, <2>2 DEF MayLog
  <2> QED  BY <1>2, <1>4, <2>1, <2>3, SoundGrows
<1> QED  BY <1>3, <1>4

\* The invariant holds of the new engine, ...
LEMMA SoundStarts == RecoveryInit => SoundInv
<1> SUFFICES ASSUME RecoveryInit PROVE SoundInv
  OBVIOUS
<1>1. OrdersInv
  BY OrdersInit DEF RecoveryInit
<1>2. book = EmptyBook /\ triggers = << >> /\ wal = << >>
  BY DEF RecoveryInit, Init
<1>3. LogOK(wal) /\ Len(wal) = 0
  BY RecoveryStarts, <1>2 DEF RecoveryInv, LogGood
<1>4. After(wal, 0) = NewEngine
  BY <1>3, AfterOne DEF LogOK
<1>5. After(wal, 0).book = book /\ After(wal, 0).triggers = triggers
  BY <1>2, <1>4 DEF NewEngine
<1>6. SoundEngine(After(wal, 0))
  BY <1>1, <1>5 DEF OrdersInv, SoundEngine
<1>7. 0 .. 0 = {0} /\ ~(0 > 0)
  OBVIOUS
<1> QED  BY <1>1, <1>3, <1>5, <1>6, <1>7 DEF SoundInv, SoundLog, SoundAt

\* ... and after every step.
LEMMA SoundGoesOn ==
  ASSUME RecoveryInv, SoundInv, WalEnabled, [RecoveryNext]_recoveryVars
  PROVE  SoundInv'
<1>1. OrdersInv /\ SoundLog /\ LogOK(wal)
  BY DEF SoundInv, RecoveryInv, LogGood
<1>2. CASE UNCHANGED recoveryVars
  BY <1>1, <1>2 DEF recoveryVars, vars, orderVars, SoundInv, OrdersInv, SoundLog
<1>3. CASE Restart
  <2>1. PICK log \in LeftOver : RestartFrom(log)
    BY <1>3 DEF Restart
  <2>2. wal # << >>
    BY <1>3 DEF Restart
  <2> QED  BY <1>1, <2>1, <2>2, SoundRestart
<1>4. CASE Next
  <2>1. OrdersInv'
    BY <1>1, <1>4, OrdersStep
  <2>2. SoundLog'
    <3>1. PICK t \in Threads : Call(t) \/ InCall(t)
      BY <1>4 DEF Next
    <3>2. CASE \E o \in Submittable : SubmitOrder(t, o)
      BY <1>1, <3>2, SoundSubmit
    <3>3. CASE \E o \in SubmittableTriggers : SubmitTrigger(t, o)
      BY <1>1, <3>3, SoundTrigger
    <3>4. CASE \E id \in Ids : CancelTheOrder(t, id)
      BY <1>1, <3>4, SoundCancel
    <3>5. CASE \E id \in Ids, q \in ModifyQtys : ModifyTheOrder(t, id, q)
      BY <1>1, <3>5, SoundModify
    <3>6. CASE PublishTrade(t)
      BY <1>1, <3>6, SoundPublish
    <3>7. CASE CheckTriggers(t)
      BY <1>1, <3>7, SoundCheck
    <3>8. ASSUME UNCHANGED <<orderVars, wal>>
          PROVE  SoundLog'
      BY <1>1, <3>8, SoundUnlogged DEF orderVars
    <3>9. ASSUME NEW c \in Clients, SubscribeToTrades(t, c) \/ SubscribeToMarketData(t, c)
          PROVE  UNCHANGED <<orderVars, wal>>
      BY ONLY <3>9, Zenon DEF SubscribeToTrades, SubscribeToMarketData, orderVars
    <3>10. ASSUME GetMarketData(t) \/ PublishMarketData(t) \/ ReadSnapshot(t) \/ SendFirstSnapshot(t)
                  \/ NotifyTrade(t)
           PROVE  UNCHANGED <<orderVars, wal>>
      BY ONLY <3>10, ZenonT(30) DEF GetMarketData, PublishMarketData, ReadSnapshot, SendFirstSnapshot,
                                    NotifyTrade, orderVars
    <3> QED  BY <3>1, <3>2, <3>3, <3>4, <3>5, <3>6, <3>7, <3>8, <3>9, <3>10 DEF Call, InCall
  <2> QED  BY <2>1, <2>2 DEF SoundInv
<1> QED  BY <1>2, <1>3, <1>4 DEF RecoveryNext

----------------------------------------------------------------------------
(* What is done to alike books leaves alike books *)

\* An order is its fields.
LEMMA SameFields ==
  ASSUME NEW x \in Order, NEW y \in Order, x.id = y.id, x.side = y.side,
         x.type = y.type, x.price = y.price, x.quantity = y.quantity
  PROVE  x = y
BY DEF Order

\* From b to d the ids S have left the index, and nothing else has.
Thinned(b, S, d) ==
    /\ BookOK(d) /\ SameOrders(b, d)
    /\ \A i \in Ids : d.orderMap[i] = IF i \in S THEN NoOrder ELSE b.orderMap[i]

\* Orders that leave, and new quantities.
LEMMA AlikeThinned ==
  ASSUME NEW b, Ledger(b), NEW c, Ledger(c), Alike(b, c), NEW S,
         NEW d, Thinned(b, S, d), NEW e, Thinned(c, S, e),
         \A i \in Ids : d.orderMap[i] # NoOrder =>
             e.orders[e.orderMap[i]].quantity = d.orders[d.orderMap[i]].quantity
  PROVE  Alike(d, e)
<1>1. \A i \in Ids : d.orderMap[i] # NoOrder =>
         /\ d.orderMap[i] = b.orderMap[i] /\ b.orderMap[i] # NoOrder
         /\ e.orderMap[i] = c.orderMap[i] /\ e.orderMap[i] # NoOrder /\ i \notin S
         /\ c.orders[c.orderMap[i]] = b.orders[b.orderMap[i]]
         /\ b.orderMap[i] \in DOMAIN b.orders /\ c.orderMap[i] \in DOMAIN c.orders
  BY DEF Thinned, Alike, Ledger, BookOK
<1>2. \A i \in Ids : d.orderMap[i] = NoOrder <=> e.orderMap[i] = NoOrder
  BY DEF Thinned, Alike
<1>3. \A i \in Ids : d.orderMap[i] # NoOrder =>
         /\ d.orders[d.orderMap[i]].side = b.orders[b.orderMap[i]].side
         /\ d.orders[d.orderMap[i]].price = b.orders[b.orderMap[i]].price
  BY <1>1 DEF Thinned, SameOrders
<1>4. ASSUME NEW i \in Ids, d.orderMap[i] # NoOrder
      PROVE  e.orders[e.orderMap[i]] = d.orders[d.orderMap[i]]
  <2> DEFINE x == d.orders[d.orderMap[i]]
             y == e.orders[e.orderMap[i]]
  <2>1. x.id = y.id /\ x.side = y.side /\ x.type = y.type /\ x.price = y.price
    <3> DEFINE r == b.orderMap[i]
               t == c.orderMap[i]
    <3>1. /\ x = d.orders[r] /\ y = e.orders[t] /\ c.orders[t] = b.orders[r]
          /\ r \in DOMAIN b.orders /\ t \in DOMAIN c.orders
      BY <1>1, <1>4
    <3>2. SameOrders(b, d) /\ SameOrders(c, e)
      BY DEF Thinned
    <3> HIDE DEF r, t, x, y
    <3>3. /\ x.id = b.orders[r].id /\ x.side = b.orders[r].side
          /\ x.type = b.orders[r].type /\ x.price = b.orders[r].price
      BY ONLY <3>1, <3>2 DEF SameOrders
    <3>4. /\ y.id = b.orders[r].id /\ y.side = b.orders[r].side
          /\ y.type = b.orders[r].type /\ y.price = b.orders[r].price
      BY ONLY <3>1, <3>2 DEF SameOrders
    <3> QED  BY ONLY <3>3, <3>4
  <2>2. x.quantity = y.quantity
    BY <1>4
  <2>3. d.orderMap[i] \in DOMAIN d.orders /\ e.orderMap[i] \in DOMAIN e.orders
    BY <1>1, <1>4 DEF Thinned, SameOrders
  <2>4. x \in Order /\ y \in Order
    BY <2>3, OrdersDomain DEF Thinned, BookOK
  <2> HIDE DEF x, y
  <2>5. x = y
    BY <2>1, <2>2, <2>4, SameFields
  <2> QED  BY <2>5 DEF x, y
<1>5. \A i, k \in Ids :
         /\ d.orderMap[i] # NoOrder /\ d.orderMap[k] # NoOrder
         /\ d.orders[d.orderMap[i]].side = d.orders[d.orderMap[k]].side
         /\ d.orders[d.orderMap[i]].price = d.orders[d.orderMap[k]].price
         => (d.orderMap[i] < d.orderMap[k] <=> e.orderMap[i] < e.orderMap[k])
  <2> TAKE i, k \in Ids
  <2> HAVE /\ d.orderMap[i] # NoOrder /\ d.orderMap[k] # NoOrder
           /\ d.orders[d.orderMap[i]].side = d.orders[d.orderMap[k]].side
           /\ d.orders[d.orderMap[i]].price = d.orders[d.orderMap[k]].price
  <2>1. /\ b.orderMap[i] # NoOrder /\ b.orderMap[k] # NoOrder
        /\ b.orders[b.orderMap[i]].side = b.orders[b.orderMap[k]].side
        /\ b.orders[b.orderMap[i]].price = b.orders[b.orderMap[k]].price
    BY <1>1, <1>3, Zenon
  <2>2. b.orderMap[i] < b.orderMap[k] <=> c.orderMap[i] < c.orderMap[k]
    BY <2>1 DEF Alike
  <2>3. /\ d.orderMap[i] = b.orderMap[i] /\ d.orderMap[k] = b.orderMap[k]
        /\ e.orderMap[i] = c.orderMap[i] /\ e.orderMap[k] = c.orderMap[k]
    BY <1>1
  <2> QED  BY <2>2, <2>3
<1> QED  BY ONLY <1>2, <1>4, <1>5 DEF Alike

\* The order of an id in both books.
LEMMA AlikeIndexed ==
  ASSUME NEW b, Ledger(b), NEW c, Ledger(c), Alike(b, c), NEW id \in Ids,
         b.orderMap[id] # NoOrder
  PROVE  /\ c.orderMap[id] # NoOrder
         /\ c.orders[c.orderMap[id]] = b.orders[b.orderMap[id]]
         /\ \A i \in Ids : b.orderMap[i] # NoOrder =>
               /\ c.orderMap[i] # NoOrder
               /\ b.orderMap[i] = b.orderMap[id] <=> i = id
               /\ c.orderMap[i] = c.orderMap[id] <=> i = id
               /\ b.orderMap[i] \in DOMAIN b.orders /\ c.orderMap[i] \in DOMAIN c.orders
               /\ c.orders[c.orderMap[i]].quantity = b.orders[b.orderMap[i]].quantity
<1>1. c.orderMap[id] # NoOrder /\ c.orders[c.orderMap[id]] = b.orders[b.orderMap[id]]
  BY DEF Alike
<1>2. ASSUME NEW i \in Ids, b.orderMap[i] # NoOrder
      PROVE  /\ c.orderMap[i] # NoOrder
             /\ b.orderMap[i] = b.orderMap[id] <=> i = id
             /\ c.orderMap[i] = c.orderMap[id] <=> i = id
             /\ b.orderMap[i] \in DOMAIN b.orders /\ c.orderMap[i] \in DOMAIN c.orders
             /\ c.orders[c.orderMap[i]].quantity = b.orders[b.orderMap[i]].quantity
  <2>1. c.orderMap[i] # NoOrder /\ c.orders[c.orderMap[i]] = b.orders[b.orderMap[i]]
    BY <1>2 DEF Alike
  <2>2. /\ b.orders[b.orderMap[i]].id = i /\ b.orders[b.orderMap[id]].id = id
        /\ c.orders[c.orderMap[i]].id = i /\ c.orders[c.orderMap[id]].id = id
    BY <1>1, <1>2, <2>1, IndexedInLevel
  <2>3. b.orderMap[i] \in DOMAIN b.orders /\ c.orderMap[i] \in DOMAIN c.orders
    BY <1>2, <2>1 DEF Ledger, BookOK
  <2> QED  BY ONLY <2>1, <2>2, <2>3
<1> QED  BY <1>1, <1>2

\* A cancellation, ...
LEMMA AlikeCancel ==
  ASSUME NEW b, Ledger(b), NEW c, Ledger(c), Alike(b, c), NEW id \in Ids,
         b.orderMap[id] # NoOrder
  PROVE  Alike(CancelOrder(b, id), CancelOrder(c, id))
<1> DEFINE d == CancelOrder(b, id)
           e == CancelOrder(c, id)
<1>1. c.orderMap[id] # NoOrder /\ BookOK(b) /\ BookOK(c)
  BY AlikeIndexed DEF Ledger
<1>2. /\ BookOK(d) /\ d.orders = b.orders
      /\ \A i \in Ids : d.orderMap[i] = IF i = id THEN NoOrder ELSE b.orderMap[i]
  BY <1>1, CancelOrderOK
<1>3. /\ BookOK(e) /\ e.orders = c.orders
      /\ \A i \in Ids : e.orderMap[i] = IF i = id THEN NoOrder ELSE c.orderMap[i]
  BY <1>1, CancelOrderOK
<1> HIDE DEF d, e
<1>4. Thinned(b, {id}, d) /\ Thinned(c, {id}, e)
  BY <1>2, <1>3 DEF Thinned, SameOrders
<1>5. \A i \in Ids : d.orderMap[i] # NoOrder =>
         e.orders[e.orderMap[i]].quantity = d.orders[d.orderMap[i]].quantity
  BY <1>2, <1>3 DEF Alike
<1>6. Alike(d, e)
  BY <1>4, <1>5, AlikeThinned
<1> QED  BY <1>6 DEF d, e

\* ... a new quantity, ...
LEMMA AlikeModify ==
  ASSUME NEW b, Ledger(b), NEW c, Ledger(c), Alike(b, c), NEW id \in Ids,
         b.orderMap[id] # NoOrder, NEW q \in Nat
  PROVE  Alike(ModifyOrder(b, id, q), ModifyOrder(c, id, q))
<1> DEFINE d == ModifyOrder(b, id, q)
           e == ModifyOrder(c, id, q)
<1>1. c.orderMap[id] # NoOrder /\ BookOK(b) /\ BookOK(c)
  BY AlikeIndexed DEF Ledger
<1>2. LevelOf(b, b.orderMap[id]) # {} /\ LevelOf(c, c.orderMap[id]) # {}
  BY <1>1, IndexedInLevel
<1>3. /\ BookOK(d) /\ SameOrders(b, d) /\ d.orderMap = b.orderMap
      /\ \A x \in DOMAIN b.orders :
            d.orders[x].quantity = IF x = b.orderMap[id] THEN q ELSE b.orders[x].quantity
  <2>1. BookOK(d) /\ SameOrders(b, d) /\ Modifies(b, id, q, d)
    BY <1>1, <1>2, ModifyOrderOK
  <2> HIDE DEF d
  <2> QED  BY <2>1, ZenonT(30) DEF Modifies
<1>4. /\ BookOK(e) /\ SameOrders(c, e) /\ e.orderMap = c.orderMap
      /\ \A x \in DOMAIN c.orders :
            e.orders[x].quantity = IF x = c.orderMap[id] THEN q ELSE c.orders[x].quantity
  <2>1. BookOK(e) /\ SameOrders(c, e) /\ Modifies(c, id, q, e)
    BY <1>1, <1>2, ModifyOrderOK
  <2> HIDE DEF e
  <2> QED  BY <2>1, ZenonT(30) DEF Modifies
<1> HIDE DEF d, e
<1>5. Thinned(b, {}, d) /\ Thinned(c, {}, e)
  BY <1>3, <1>4 DEF Thinned
<1>6. \A i \in Ids : d.orderMap[i] # NoOrder =>
         e.orders[e.orderMap[i]].quantity = d.orders[d.orderMap[i]].quantity
  <2> TAKE i \in Ids
  <2> HAVE d.orderMap[i] # NoOrder
  <2>1. d.orderMap[i] = b.orderMap[i] /\ e.orderMap[i] = c.orderMap[i] /\ b.orderMap[i] # NoOrder
    BY <1>3, <1>4
  <2>2. /\ b.orderMap[i] = b.orderMap[id] <=> i = id
        /\ c.orderMap[i] = c.orderMap[id] <=> i = id
        /\ b.orderMap[i] \in DOMAIN b.orders /\ c.orderMap[i] \in DOMAIN c.orders
        /\ c.orders[c.orderMap[i]].quantity = b.orders[b.orderMap[i]].quantity
    BY <2>1, AlikeIndexed
  <2>3. /\ d.orders[d.orderMap[i]].quantity
             = IF i = id THEN q ELSE b.orders[b.orderMap[i]].quantity
        /\ e.orders[e.orderMap[i]].quantity
             = IF i = id THEN q ELSE c.orders[c.orderMap[i]].quantity
    BY ONLY <1>3, <1>4, <2>1, <2>2
  <2> QED  BY ONLY <2>2, <2>3
<1>7. Alike(d, e)
  BY <1>5, <1>6, AlikeThinned
<1> QED  BY <1>7 DEF d, e

\* ... and a decrease.
LEMMA AlikeDecrease ==
  ASSUME NEW b, Ledger(b), NEW c, Ledger(c), Alike(b, c), NEW id \in Ids,
         b.orderMap[id] # NoOrder, NEW q \in Nat
  PROVE  Alike(DecreaseOrderQuantity(b, id, q), DecreaseOrderQuantity(c, id, q))
<1> DEFINE d == DecreaseOrderQuantity(b, id, q)
           e == DecreaseOrderQuantity(c, id, q)
           have == b.orders[b.orderMap[id]].quantity
           left == IF have <= q THEN 0 ELSE have - q
           S == IF left = 0 THEN {id} ELSE {}
<1>1. /\ c.orderMap[id] # NoOrder /\ BookOK(b) /\ BookOK(c)
      /\ c.orders[c.orderMap[id]].quantity = have
  BY AlikeIndexed DEF Ledger
<1>2. /\ BookOK(d) /\ SameOrders(b, d)
      /\ \A i \in Ids : d.orderMap[i] = IF i = id /\ left = 0 THEN NoOrder ELSE b.orderMap[i]
      /\ \A x \in DOMAIN b.orders :
            d.orders[x].quantity = IF x = b.orderMap[id] /\ left > 0 THEN left
                                   ELSE b.orders[x].quantity
  <2>1. BookOK(d) /\ SameOrders(b, d) /\ Decreases(b, id, q, d)
    BY <1>1, DecreaseOK
  <2> HIDE DEF d
  <2> QED  BY <2>1, ZenonT(30) DEF Decreases
<1>3. /\ BookOK(e) /\ SameOrders(c, e)
      /\ \A i \in Ids : e.orderMap[i] = IF i = id /\ left = 0 THEN NoOrder ELSE c.orderMap[i]
      /\ \A x \in DOMAIN c.orders :
            e.orders[x].quantity = IF x = c.orderMap[id] /\ left > 0 THEN left
                                   ELSE c.orders[x].quantity
  <2>1. BookOK(e) /\ SameOrders(c, e) /\ Decreases(c, id, q, e)
    BY <1>1, DecreaseOK
  <2> HIDE DEF e, have
  <2> QED  BY <1>1, <2>1, ZenonT(30) DEF Decreases
<1> HIDE DEF d, e, left
<1>4. Thinned(b, S, d) /\ Thinned(c, S, e)
  BY <1>2, <1>3, Zenon DEF Thinned
<1> HIDE DEF S, have
<1>5. \A i \in Ids : d.orderMap[i] # NoOrder =>
         e.orders[e.orderMap[i]].quantity = d.orders[d.orderMap[i]].quantity
  <2> TAKE i \in Ids
  <2> HAVE d.orderMap[i] # NoOrder
  <2>1. d.orderMap[i] = b.orderMap[i] /\ e.orderMap[i] = c.orderMap[i] /\ b.orderMap[i] # NoOrder
    BY <1>2, <1>3
  <2>2. /\ b.orderMap[i] = b.orderMap[id] <=> i = id
        /\ c.orderMap[i] = c.orderMap[id] <=> i = id
        /\ b.orderMap[i] \in DOMAIN b.orders /\ c.orderMap[i] \in DOMAIN c.orders
        /\ c.orders[c.orderMap[i]].quantity = b.orders[b.orderMap[i]].quantity
    BY <2>1, AlikeIndexed
  <2>3. /\ d.orders[d.orderMap[i]].quantity
             = IF i = id /\ left > 0 THEN left ELSE b.orders[b.orderMap[i]].quantity
        /\ e.orders[e.orderMap[i]].quantity
             = IF i = id /\ left > 0 THEN left ELSE c.orders[c.orderMap[i]].quantity
    BY ONLY <1>2, <1>3, <2>1, <2>2
  <2> QED  BY ONLY <2>2, <2>3
<1>6. Alike(d, e)
  BY <1>4, <1>5, AlikeThinned
<1> QED  BY <1>6 DEF d, e

\* A new order object is in no index yet.
LEMMA AlikeNew ==
  ASSUME NEW b, Ledger(b), NEW c, Ledger(c), Alike(b, c),
         NEW o \in Order, o.type = "LIMIT" => o.price \in Prices
  PROVE  Alike(NewOrder(b, o), NewOrder(c, o))
<1> DEFINE d == NewOrder(b, o)
           e == NewOrder(c, o)
<1>1. BookOK(b) /\ BookOK(c)
  BY DEF Ledger
<1>2. d.orderMap = b.orderMap /\ \A r \in DOMAIN b.orders : d.orders[r] = b.orders[r]
  BY <1>1, NewOrderOK
<1>3. e.orderMap = c.orderMap /\ \A r \in DOMAIN c.orders : e.orders[r] = c.orders[r]
  BY <1>1, NewOrderOK
<1> HIDE DEF d, e
<1>4. \A i \in Ids : b.orderMap[i] # NoOrder =>
         /\ b.orderMap[i] \in DOMAIN b.orders /\ c.orderMap[i] \in DOMAIN c.orders
         /\ d.orders[d.orderMap[i]] = b.orders[b.orderMap[i]]
         /\ e.orders[e.orderMap[i]] = c.orders[c.orderMap[i]]
  BY <1>1, <1>2, <1>3 DEF Alike, BookOK
<1>5. Alike(d, e)
  BY ONLY <1>2, <1>3, <1>4, Alike(b, c), ZenonT(30) DEF Alike
<1> QED  BY <1>5 DEF d, e

\* r can be added to b: an order that came after all that rest.
Addable(b, r) ==
    /\ r \in DOMAIN b.orders /\ b.orders[r].type = "LIMIT"
    /\ b.orderMap[b.orders[r].id] = NoOrder
    /\ \A q \in b.linked : q < r

\* The same order at the back of its level in both.
LEMMA AlikeAdd ==
  ASSUME NEW b, Ledger(b), NEW c, Ledger(c), Alike(b, c),
         NEW r, Addable(b, r), NEW t, Addable(c, t), c.orders[t] = b.orders[r]
  PROVE  Alike(AddOrder(b, r), AddOrder(c, t))
<1> DEFINE d == AddOrder(b, r)
           e == AddOrder(c, t)
           o == b.orders[r]
<1>1. /\ BookOK(b) /\ r \in DOMAIN b.orders /\ o.type = "LIMIT"
      /\ BookOK(c) /\ t \in DOMAIN c.orders /\ c.orders[t] = o
  BY DEF Ledger, Addable
<1>2. d.orders = b.orders /\ d.orderMap = [b.orderMap EXCEPT ![o.id] = r]
  BY <1>1, AddOrderOK
<1>3. e.orders = c.orders /\ e.orderMap = [c.orderMap EXCEPT ![o.id] = t]
  BY <1>1, AddOrderOK, SMTT(30)
<1> HIDE DEF d, e
<1>4. /\ o.id \in Ids /\ r \in Nat /\ t \in Nat /\ r # NoOrder /\ t # NoOrder
      /\ b.orderMap \in [Ids -> Nat] /\ c.orderMap \in [Ids -> Nat]
  <2>1. o \in Order /\ r \in 1 .. Len(b.orders) /\ t \in 1 .. Len(c.orders)
        /\ Len(b.orders) \in Nat /\ Len(c.orders) \in Nat
    BY <1>1, OrdersDomain DEF BookOK
  <2>2. b.orderMap \in [Ids -> Nat] /\ c.orderMap \in [Ids -> Nat]
    BY <1>1 DEF BookOK, Book
  <2> QED  BY <2>1, <2>2 DEF Order, NoOrder
<1>5. /\ \A i \in Ids : d.orderMap[i] = IF i = o.id THEN r ELSE b.orderMap[i]
      /\ \A i \in Ids : e.orderMap[i] = IF i = o.id THEN t ELSE c.orderMap[i]
  BY <1>2, <1>3, <1>4, OtherEntry
<1>6. \A i \in Ids : b.orderMap[i] # NoOrder =>
         /\ i # o.id /\ c.orderMap[i] # NoOrder
         /\ b.orderMap[i] < r /\ c.orderMap[i] < t
         /\ b.orderMap[i] \in Nat /\ c.orderMap[i] \in Nat
  <2> TAKE i \in Ids
  <2> HAVE b.orderMap[i] # NoOrder
  <2>1. c.orderMap[i] # NoOrder
    BY DEF Alike
  <2>2. b.orderMap[i] \in b.linked /\ c.orderMap[i] \in c.linked
    BY <2>1 DEF Ledger, Indexed
  <2> QED  BY <1>4, <2>1, <2>2 DEF Addable
<1>7. \A i \in Ids : d.orderMap[i] = NoOrder <=> e.orderMap[i] = NoOrder
  BY <1>4, <1>5 DEF Alike
<1>8. \A i \in Ids : d.orderMap[i] # NoOrder =>
         e.orders[e.orderMap[i]] = d.orders[d.orderMap[i]]
  BY <1>1, <1>2, <1>3, <1>5 DEF Alike
<1>9. ASSUME NEW i \in Ids, NEW k \in Ids, d.orderMap[i] # NoOrder, d.orderMap[k] # NoOrder,
             d.orders[d.orderMap[i]].side = d.orders[d.orderMap[k]].side,
             d.orders[d.orderMap[i]].price = d.orders[d.orderMap[k]].price
      PROVE  d.orderMap[i] < d.orderMap[k] <=> e.orderMap[i] < e.orderMap[k]
  <2>1. CASE i # o.id /\ k # o.id
    <3>1. /\ d.orderMap[i] = b.orderMap[i] /\ d.orderMap[k] = b.orderMap[k]
          /\ e.orderMap[i] = c.orderMap[i] /\ e.orderMap[k] = c.orderMap[k]
      BY <1>5, <2>1
    <3>2. b.orderMap[i] < b.orderMap[k] <=> c.orderMap[i] < c.orderMap[k]
      BY <1>2, <1>9, <3>1, Zenon DEF Alike
    <3> QED  BY <3>1, <3>2
  <2>2. CASE i = o.id /\ k # o.id
    <3>1. /\ d.orderMap[i] = r /\ d.orderMap[k] = b.orderMap[k]
          /\ e.orderMap[i] = t /\ e.orderMap[k] = c.orderMap[k]
          /\ b.orderMap[k] # NoOrder
      BY <1>5, <1>9, <2>2
    <3>2. b.orderMap[k] < r /\ c.orderMap[k] < t /\ b.orderMap[k] \in Nat /\ c.orderMap[k] \in Nat
      BY <1>6, <3>1
    <3> QED  BY ONLY <1>4, <3>1, <3>2
  <2>3. CASE i # o.id /\ k = o.id
    <3>1. /\ d.orderMap[k] = r /\ d.orderMap[i] = b.orderMap[i]
          /\ e.orderMap[k] = t /\ e.orderMap[i] = c.orderMap[i]
          /\ b.orderMap[i] # NoOrder
      BY <1>5, <1>9, <2>3
    <3>2. b.orderMap[i] < r /\ c.orderMap[i] < t /\ b.orderMap[i] \in Nat /\ c.orderMap[i] \in Nat
      BY <1>6, <3>1
    <3> QED  BY ONLY <1>4, <3>1, <3>2
  <2>4. CASE i = k
    <3>1. d.orderMap[i] \in Nat /\ e.orderMap[i] \in Nat
      BY <1>4, <1>5
    <3> QED  BY <2>4, <3>1
  <2> QED  BY <2>1, <2>2, <2>3, <2>4
<1>10. Alike(d, e)
  BY ONLY <1>7, <1>8, <1>9 DEF Alike
<1> QED  BY <1>10 DEF d, e

----------------------------------------------------------------------------
(* Matching alike books *)

\* The loop has come to the same point in both books.
AlikeRuns(s, e) == Alike(s.book, e.book) /\ s.remaining = e.remaining

\* A trade with a maker and with its twin.
LEMMA AlikeTrade ==
  ASSUME NEW s, Ledger(s.book), s.remaining \in Nat, NEW e, Ledger(e.book), AlikeRuns(s, e),
         NEW m \in s.book.linked, NEW taker, Unindexed(s.book, taker), Unindexed(e.book, taker)
  PROVE  AlikeRuns(ExecuteTradeWith(s, m, taker),
                   ExecuteTradeWith(e, Twin(s.book, e.book, m), taker))
<1> DEFINE b == s.book
           c == e.book
           n == Twin(b, c, m)
           maker == b.orders[m]
           qty == Smaller(s.remaining, maker.quantity)
           x == DecreaseOrderQuantity(b, maker.id, qty)
           y == DecreaseOrderQuantity(c, maker.id, qty)
           d == ExecuteTradeWith(s, m, taker)
           f == ExecuteTradeWith(e, n, taker)
<1>1. /\ maker.id \in Ids /\ b.orderMap[maker.id] = m /\ m # NoOrder
      /\ maker.quantity \in Nat
  BY LinkedOrder DEF NoOrder
<1>2. c.orders[n] = maker /\ Alike(b, c) /\ e.remaining = s.remaining
  BY TwinOK DEF AlikeRuns
<1>3. qty \in Nat
  BY <1>1, SmallerOK
<1>4. /\ d.book = DecreaseOrderQuantity(x, taker.id, qty)
      /\ d.remaining = s.remaining - qty
  BY DEF ExecuteTradeWith
<1>5. /\ f.book = DecreaseOrderQuantity(y, taker.id, qty)
      /\ f.remaining = s.remaining - qty
  BY <1>2 DEF ExecuteTradeWith
<1> HIDE DEF d, f, qty, n
<1>6. Alike(x, y)
  BY <1>1, <1>2, <1>3, AlikeDecrease
<1>7. /\ taker.id \in Ids /\ b.orderMap[taker.id] = NoOrder /\ c.orderMap[taker.id] = NoOrder
      /\ BookOK(b) /\ BookOK(c)
  BY DEF Unindexed, Ledger
<1>8. x.orderMap[taker.id] = NoOrder
  BY <1>1, <1>3, <1>7, DecreaseType, ZenonT(30)
<1>9. y.orderMap[taker.id] = NoOrder
  BY <1>1, <1>3, <1>7, DecreaseType, ZenonT(30)
<1> HIDE DEF x, y
<1>10. d.book = x /\ f.book = y
  BY <1>4, <1>5, <1>8, <1>9, DecreasesNothing
<1>11. AlikeRuns(d, f)
  BY <1>4, <1>5, <1>6, <1>10 DEF AlikeRuns
<1> QED  BY <1>11 DEF d, f, n

\* What an order may trade with has its twin among what it may trade with.
LEMMA EligibleTwins ==
  ASSUME NEW b, Ledger(b), NEW c, Ledger(c), Alike(b, c), NEW o,
         NEW r \in Eligible(b, o)
  PROVE  Twin(b, c, r) \in Eligible(c, o)
<1>1. r \in b.linked
  BY DEF Eligible
<1>2. Twin(b, c, r) \in c.linked /\ c.orders[Twin(b, c, r)] = b.orders[r]
  BY <1>1, TwinOK
<1> QED  BY <1>2 DEF Eligible

\* There is one first order.
LEMMA OneFirst ==
  ASSUME NEW b, Ledger(b), NEW o, NEW r, FirstOf(b, r, Eligible(b, o)),
         NEW q, FirstOf(b, q, Eligible(b, o))
  PROVE  r = q
<1> SUFFICES ASSUME r # q PROVE FALSE
  OBVIOUS
<1>1. /\ r \in b.linked /\ q \in b.linked /\ b.orders[r].side = b.orders[q].side
      /\ Ahead(b, r, q) /\ Ahead(b, q, r)
  BY DEF FirstOf, Eligible
<1>2. /\ r \in Nat /\ q \in Nat /\ b.orders[r].price \in Nat /\ b.orders[q].price \in Nat
      /\ b.orders[r].side \in Sides
  BY <1>1, LinkedOrder, PricesAssumption
<1> QED  BY ONLY <1>1, <1>2 DEF Ahead, Sides

\* The first of them has its twin first.
LEMMA FirstTwins ==
  ASSUME NEW b, Ledger(b), NEW c, Ledger(c), Alike(b, c), NEW o, o.side \in Sides,
         Eligible(b, o) # {}
  PROVE  /\ Eligible(c, o) # {}
         /\ First(c, Eligible(c, o)) = Twin(b, c, First(b, Eligible(b, o)))
<1> DEFINE S == Eligible(b, o)
           U == Eligible(c, o)
           m == First(b, S)
           n == Twin(b, c, m)
<1>1. m \in S /\ m \in b.linked /\ FirstOf(b, m, S)
  BY FirstEligible DEF Ledger
<1> HIDE DEF m
<1>2. n \in U /\ U # {} /\ n \in c.linked /\ c.orders[n] = b.orders[m]
  BY <1>1, EligibleTwins, TwinOK
<1>3. FirstOf(c, First(c, U), U)
  BY <1>2, FirstEligible DEF Ledger
<1>4. ASSUME NEW q \in U, q # n
      PROVE  Ahead(c, n, q)
  <2> DEFINE p == Twin(c, b, q)
  <2>1. q \in c.linked
    BY DEF Eligible
  <2>2. Alike(c, b)
    BY AlikeBack
  <2>3. p \in S
    BY <2>2, EligibleTwins
  <2>4. p \in b.linked /\ b.orders[p] = c.orders[q] /\ Twin(b, c, p) = q
    BY <2>1, <2>2, TwinOK
  <2>5. p # m
    BY <1>4, <2>4
  <2>6. Ahead(b, m, p)
    BY <1>1, <2>3, <2>5 DEF FirstOf
  <2>7. b.orders[m].side = b.orders[p].side
    BY <1>1, <2>3 DEF Eligible
  <2> HIDE DEF p
  <2>8. b.orders[m].price = b.orders[p].price => (m < p <=> n < q)
    BY <1>1, <2>4, <2>7, TwinsInOrder
  <2> HIDE DEF n, S, U
  <2> QED  BY ONLY <1>2, <2>4, <2>6, <2>8 DEF Ahead
<1>5. FirstOf(c, n, U)
  BY <1>2, <1>4 DEF FirstOf
<1>6. First(c, U) = n
  BY <1>3, <1>5, OneFirst
<1> QED  BY <1>2, <1>6 DEF m

\* One turn of the loop.
LEMMA AlikeTurn ==
  ASSUME NEW s, Ledger(s.book), s.remaining \in Nat, NEW e, Ledger(e.book), AlikeRuns(s, e),
         NEW taker, taker.side \in Sides, Unindexed(s.book, taker), Unindexed(e.book, taker)
  PROVE  AlikeRuns(Turn(s, taker), Turn(e, taker))
<1>1. Alike(s.book, e.book) /\ Alike(e.book, s.book) /\ e.remaining = s.remaining
  BY AlikeBack DEF AlikeRuns
<1>2. Eligible(s.book, taker) = {} <=> Eligible(e.book, taker) = {}
  BY <1>1, EligibleTwins
<1>3. Filled(s, taker) <=> Filled(e, taker)
  BY <1>1, <1>2 DEF Filled, HasMatchingOrders
<1>4. CASE Filled(s, taker)
  BY <1>3, <1>4 DEF Turn
<1>5. CASE ~Filled(s, taker)
  <2> DEFINE m == First(s.book, Eligible(s.book, taker))
  <2>1. Eligible(s.book, taker) # {}
    BY <1>5 DEF Filled, HasMatchingOrders
  <2>2. m \in s.book.linked
    BY <2>1, FirstEligible DEF Ledger
  <2>3. First(e.book, Eligible(e.book, taker)) = Twin(s.book, e.book, m)
    BY <1>1, <2>1, FirstTwins
  <2>4. /\ Turn(s, taker) = ExecuteTradeWith(s, m, taker)
        /\ Turn(e, taker) = ExecuteTradeWith(e, Twin(s.book, e.book, m), taker)
    BY <1>3, <1>5, <2>3 DEF Turn
  <2> HIDE DEF m
  <2> QED  BY <2>2, <2>4, AlikeTrade
<1> QED  BY <1>4, <1>5

\* Alike books hold as many orders.
LEMMA AsManyLinked ==
  ASSUME NEW b, Ledger(b), NEW c, Ledger(c), Alike(b, c)
  PROVE  Cardinality(c.linked) = Cardinality(b.linked)
<1> DEFINE f == [r \in b.linked |-> Twin(b, c, r)]
<1>1. IsFiniteSet(b.linked)
  BY LinkedFinite DEF Ledger
<1>2. \A r \in b.linked : f[r] \in c.linked /\ Twin(c, b, f[r]) = r
  BY TwinOK
<1>3. \A q \in c.linked : Twin(c, b, q) \in b.linked /\ f[Twin(c, b, q)] = q
  BY TwinOK, AlikeBack
<1>4. f \in [b.linked -> c.linked]
  BY <1>2
<1> HIDE DEF f
<1>5. \A x, y \in b.linked : f[x] = f[y] => x = y
  BY <1>2
<1>6. \A z \in c.linked : \E x \in b.linked : f[x] = z
  BY <1>3
<1>7. f \in Bijection(b.linked, c.linked)
  BY <1>4, <1>5, <1>6 DEF Bijection, Injection, Surjection, IsInjective
<1> QED  BY <1>1, <1>7, FS_Bijection DEF ExistsBijection

\* The whole loop, in both books.
LEMMA AlikeFill ==
  ASSUME NEW b, Ledger(b), NEW c, Ledger(c), Alike(b, c), NEW taker, taker.side \in Sides,
         taker.quantity \in Nat, Unindexed(b, taker), Unindexed(c, taker)
  PROVE  AlikeRuns(Fill(b, taker, taker.quantity), Fill(c, taker, taker.quantity))
<1> DEFINE s == [book |-> b, remaining |-> taker.quantity, trades |-> << >>]
           e == [book |-> c, remaining |-> taker.quantity, trades |-> << >>]
           size == Cardinality(b.linked)
           T == {k \in Nat : /\ Progress(b, Turns(s, taker, k), taker, k)
                             /\ Progress(c, Turns(e, taker, k), taker, k)
                             /\ AlikeRuns(Turns(s, taker, k), Turns(e, taker, k))}
<1>1. /\ BookOK(b) /\ BookOK(c) /\ size \in Nat /\ Cardinality(c.linked) = size
      /\ Findable(b) /\ Findable(c)
  BY LinkedFinite, AsManyLinked, LedgerFindable DEF Ledger
<1>2. /\ s.book = b /\ s.remaining = taker.quantity
      /\ e.book = c /\ e.remaining = taker.quantity
  OBVIOUS
<1>3. /\ Fill(b, taker, taker.quantity) = Turns(s, taker, size)
      /\ Fill(c, taker, taker.quantity) = Turns(e, taker, size)
  BY <1>1 DEF Fill
<1> HIDE DEF s, e
<1>4. 0 \in T
  <2>1. Turns(s, taker, 0) = s /\ Turns(e, taker, 0) = e
    BY TurnsByTurn
  <2>2. Progress(b, s, taker, 0) /\ Progress(c, e, taker, 0)
    BY <1>1, <1>2 DEF Progress, SameOrders
  <2>3. AlikeRuns(s, e)
    BY <1>2 DEF AlikeRuns
  <2> QED  BY <2>1, <2>2, <2>3
<1>5. ASSUME NEW k \in Nat, k \in T PROVE k + 1 \in T
  <2> DEFINE x == Turns(s, taker, k)
             y == Turns(e, taker, k)
  <2>1. Progress(b, x, taker, k) /\ Progress(c, y, taker, k) /\ AlikeRuns(x, y)
    BY <1>5
  <2>2. /\ Turns(s, taker, k + 1) = Turn(x, taker)
        /\ Turns(e, taker, k + 1) = Turn(y, taker)
    BY TurnsByTurn
  <2> HIDE DEF x, y
  <2>3. Progress(b, Turn(x, taker), taker, k + 1) /\ Progress(c, Turn(y, taker), taker, k + 1)
    BY <1>1, <2>1, TurnProgress
  <2>4. /\ Ledger(x.book) /\ x.remaining \in Nat /\ Unindexed(x.book, taker)
        /\ Ledger(y.book) /\ Unindexed(y.book, taker)
    BY <2>1 DEF Progress
  <2>5. AlikeRuns(Turn(x, taker), Turn(y, taker))
    BY <2>1, <2>4, AlikeTurn
  <2> QED  BY <2>2, <2>3, <2>5
<1>6. size \in T
  <2> HIDE DEF T, size
  <2> QED  BY <1>1, <1>4, <1>5, SetOfAllNat
<1> QED  BY <1>3, <1>6

\* What the loop leaves of the taker rests in both.
LEMMA AlikeRest ==
  ASSUME NEW s, Ledger(s.book), s.remaining \in Nat, NEW e, Ledger(e.book), AlikeRuns(s, e),
         NEW r \in DOMAIN s.book.orders, NEW t \in DOMAIN e.book.orders,
         e.book.orders[t] = s.book.orders[r],
         s.book.orderMap[s.book.orders[r].id] = NoOrder,
         e.book.orderMap[e.book.orders[t].id] = NoOrder,
         \A q \in s.book.linked : q < r, \A q \in e.book.linked : q < t
  PROVE  Alike(Rest(s, r), Rest(e, t))
<1> DEFINE b == s.book
           c == e.book
           n == s.remaining
           x == [b EXCEPT !.orders[r].quantity = n]
           y == [c EXCEPT !.orders[t].quantity = n]
<1>1. BookOK(b) /\ BookOK(c) /\ Alike(b, c) /\ e.remaining = n
  BY DEF Ledger, AlikeRuns
<1>2. CASE ~(b.orders[r].type = "LIMIT" /\ n > 0)
  BY <1>1, <1>2 DEF Rest
<1>3. CASE b.orders[r].type = "LIMIT" /\ n > 0
  <2>1. Rest(s, r) = AddOrder(x, r) /\ Rest(e, t) = AddOrder(y, t)
    BY <1>1, <1>3 DEF Rest
  <2>2. r \notin b.linked /\ t \notin c.linked /\ r \in Nat /\ t \in Nat
    <3>1. r \in Nat /\ t \in Nat
      <4>1. /\ DOMAIN b.orders = 1 .. Len(b.orders) /\ Len(b.orders) \in Nat
            /\ DOMAIN c.orders = 1 .. Len(c.orders) /\ Len(c.orders) \in Nat
        BY <1>1, OrdersDomain
      <4> QED  BY ONLY <4>1, r \in DOMAIN b.orders, t \in DOMAIN c.orders
    <3> QED  BY <3>1
  <2>3. /\ BookOK(x) /\ SameOrders(b, x) /\ x.linked = b.linked /\ x.orderMap = b.orderMap
        /\ \A q \in DOMAIN b.orders :
              x.orders[q].quantity = IF q = r THEN n ELSE b.orders[q].quantity
    BY <1>1, SetQuantityOK
  <2>4. /\ BookOK(y) /\ SameOrders(c, y) /\ y.linked = c.linked /\ y.orderMap = c.orderMap
        /\ \A q \in DOMAIN c.orders :
              y.orders[q].quantity = IF q = t THEN n ELSE c.orders[q].quantity
    BY <1>1, SetQuantityOK
  <2>5. Ledger(x) /\ Ledger(y)
    BY <2>2, LedgerSetQuantity
  <2> HIDE DEF x, y
  <2>6. Thinned(b, {}, x) /\ Thinned(c, {}, y)
    BY <2>3, <2>4 DEF Thinned
  <2>7. \A i \in Ids : x.orderMap[i] # NoOrder =>
           y.orders[y.orderMap[i]].quantity = x.orders[x.orderMap[i]].quantity
    <3> TAKE i \in Ids
    <3> HAVE x.orderMap[i] # NoOrder
    <3>1. /\ b.orderMap[i] # NoOrder /\ c.orderMap[i] # NoOrder
          /\ c.orders[c.orderMap[i]] = b.orders[b.orderMap[i]]
      BY <1>1, <2>3 DEF Alike
    <3>2. b.orderMap[i] \in b.linked /\ c.orderMap[i] \in c.linked
      BY <3>1 DEF Ledger, Indexed
    <3>3. /\ b.orderMap[i] \in DOMAIN b.orders /\ c.orderMap[i] \in DOMAIN c.orders
          /\ b.orderMap[i] # r /\ c.orderMap[i] # t
      BY <1>1, <2>2, <3>2 DEF BookOK
    <3> QED  BY <2>3, <2>4, <3>1, <3>3, ZenonT(30)
  <2>8. Alike(x, y)
    BY <1>1, <2>6, <2>7, AlikeThinned
  <2>9. x.orders[r] = y.orders[t] /\ x.orders[r].type = "LIMIT" /\ x.orders[r].id = b.orders[r].id
    <3>1. /\ x.orders[r].id = b.orders[r].id /\ x.orders[r].side = b.orders[r].side
          /\ x.orders[r].type = b.orders[r].type /\ x.orders[r].price = b.orders[r].price
          /\ x.orders[r].quantity = n
      BY <2>3 DEF SameOrders
    <3>2. /\ y.orders[t].id = b.orders[r].id /\ y.orders[t].side = b.orders[r].side
          /\ y.orders[t].type = b.orders[r].type /\ y.orders[t].price = b.orders[r].price
          /\ y.orders[t].quantity = n
      BY <2>4 DEF SameOrders
    <3>3. x.orders[r] \in Order /\ y.orders[t] \in Order
      BY <2>3, <2>4, OrdersDomain DEF BookOK, SameOrders
    <3>4. x.orders[r] = y.orders[t]
      BY <3>1, <3>2, <3>3, SameFields
    <3> QED  BY <1>3, <3>1, <3>4
  <2>10. Addable(x, r) /\ Addable(y, t)
    BY <2>3, <2>4, <2>9 DEF Addable, SameOrders
  <2>11. Alike(AddOrder(x, r), AddOrder(y, t))
    BY <2>5, <2>8, <2>9, <2>10, AlikeAdd
  <2> QED  BY <2>1, <2>11
<1> QED  BY <1>2, <1>3

\* processOrder does the same to alike books.
LEMMA AlikeProcess ==
  ASSUME NEW b, Ledger(b), NEW c, Ledger(c), Alike(b, c),
         NEW o \in Order, o.type = "LIMIT" => o.price \in Prices,
         \A r \in DOMAIN b.orders : b.orders[r].id # o.id,
         \A r \in DOMAIN c.orders : c.orders[r].id # o.id
  PROVE  Alike(ProcessOrder(b, o).book, ProcessOrder(c, o).book)
<1> DEFINE x == NewOrder(b, o)
           y == NewOrder(c, o)
           r == Len(b.orders) + 1
           t == Len(c.orders) + 1
           s == Fill(x, o, o.quantity)
           e == Fill(y, o, o.quantity)
           S == Eligible(b, o)
           U == Eligible(c, o)
<1>0. BookOK(b) /\ BookOK(c) /\ o.id \in Ids /\ o.side \in Sides /\ o.quantity \in Nat
  BY DEF Ledger, Order
<1>1. /\ Ledger(x) /\ Ledger(y) /\ Alike(x, y) /\ Findable(x) /\ Findable(y)
  BY LedgerNewOrder, AlikeNew, LedgerFindable
<1>2. /\ x.linked = b.linked /\ x.orderMap = b.orderMap
      /\ DOMAIN x.orders = 1 .. r /\ x.orders[r] = o
  BY <1>0, NewOrderOK
<1>3. /\ y.linked = c.linked /\ y.orderMap = c.orderMap
      /\ DOMAIN y.orders = 1 .. t /\ y.orders[t] = o
  BY <1>0, NewOrderOK
<1>4. OpenQuantity(c, U) = OpenQuantity(b, S)
  <2>1. S \in SUBSET b.linked /\ U \in SUBSET c.linked
    BY DEF Eligible
  <2>2. \A q \in S : Twin(b, c, q) \in U
    BY EligibleTwins
  <2>3. \A q \in U : Twin(c, b, q) \in S
    BY EligibleTwins, AlikeBack
  <2> HIDE DEF S, U
  <2> QED  BY <2>1, <2>2, <2>3, TwinUnits
<1>5. /\ ProcessOrder(b, o).book = IF o.type = "FOK" /\ OpenQuantity(b, S) < o.quantity
                                   THEN x ELSE Rest(s, r)
      /\ ProcessOrder(c, o).book = IF o.type = "FOK" /\ OpenQuantity(c, U) < o.quantity
                                   THEN y ELSE Rest(e, t)
  BY Zenon DEF ProcessOrder
<1>6. b.orderMap[o.id] = NoOrder /\ c.orderMap[o.id] = NoOrder
  BY <1>0 DEF Ledger, Indexed, BookOK
<1>7. Unindexed(x, o) /\ Unindexed(y, o)
  BY <1>0, <1>2, <1>3, <1>6 DEF Unindexed
<1>8. /\ DOMAIN b.orders = 1 .. Len(b.orders) /\ Len(b.orders) \in Nat
      /\ DOMAIN c.orders = 1 .. Len(c.orders) /\ Len(c.orders) \in Nat
  BY <1>0, OrdersDomain
<1>9. /\ \A q \in b.linked : q < r
      /\ \A q \in c.linked : q < t
      /\ r \in 1 .. r /\ t \in 1 .. t
  BY <1>0, <1>8 DEF BookOK
<1> HIDE DEF x, y, r, t, S, U
<1>10. /\ Progress(x, s, o, Cardinality(x.linked))
       /\ Progress(y, e, o, Cardinality(y.linked))
  BY <1>0, <1>1, <1>7, LoopEnds DEF Fill
<1>11. AlikeRuns(s, e)
  BY <1>0, <1>1, <1>7, AlikeFill
<1> HIDE DEF s, e
<1>12. /\ Ledger(s.book) /\ SameOrders(x, s.book) /\ s.book.linked \subseteq x.linked
       /\ s.remaining \in Nat /\ Unindexed(s.book, o)
       /\ s.book.orders[r].quantity = o.quantity
       /\ Ledger(e.book) /\ SameOrders(y, e.book) /\ e.book.linked \subseteq y.linked
       /\ Unindexed(e.book, o)
       /\ e.book.orders[t].quantity = o.quantity
  <2>1. r \in DOMAIN x.orders \ x.linked /\ t \in DOMAIN y.orders \ y.linked
    <3>1. r \notin b.linked /\ t \notin c.linked
      <4>1. r \in Nat /\ t \in Nat
        BY <1>8 DEF r, t
      <4> QED  BY <1>9, <4>1
    <3> QED  BY <1>2, <1>3, <1>9, <3>1
  <2> QED  BY <1>1, <1>2, <1>3, <1>10, <2>1, Zenon DEF Progress
<1>13. e.book.orders[t] = s.book.orders[r] /\ s.book.orders[r].id = o.id
       /\ r \in DOMAIN s.book.orders /\ t \in DOMAIN e.book.orders
  <2>1. /\ r \in DOMAIN s.book.orders /\ s.book.orders[r].id = o.id
        /\ s.book.orders[r].side = o.side /\ s.book.orders[r].type = o.type
        /\ s.book.orders[r].price = o.price
    BY <1>2, <1>9, <1>12 DEF SameOrders
  <2>2. /\ t \in DOMAIN e.book.orders /\ e.book.orders[t].id = o.id
        /\ e.book.orders[t].side = o.side /\ e.book.orders[t].type = o.type
        /\ e.book.orders[t].price = o.price
    BY <1>3, <1>9, <1>12 DEF SameOrders
  <2>3. s.book.orders[r] \in Order /\ e.book.orders[t] \in Order
    BY <1>12, <2>1, <2>2, OrdersDomain DEF Ledger, BookOK
  <2>4. e.book.orders[t] = s.book.orders[r]
    BY <1>12, <2>1, <2>2, <2>3, SameFields
  <2> QED  BY <2>1, <2>2, <2>4
<1>14. /\ s.book.orderMap[s.book.orders[r].id] = NoOrder
       /\ e.book.orderMap[e.book.orders[t].id] = NoOrder
  BY <1>12, <1>13 DEF Unindexed
<1>15. Alike(Rest(s, r), Rest(e, t))
  <2>1. (\A q \in s.book.linked : q < r) /\ (\A q \in e.book.linked : q < t)
    BY <1>2, <1>3, <1>9, <1>12
  <2> QED  BY <1>11, <1>12, <1>13, <1>14, <2>1, AlikeRest
<1> QED  BY <1>1, <1>4, <1>5, <1>15

----------------------------------------------------------------------------
(* Replaying into alike engines *)

\* The parts of an engine after a trigger order has been replayed.
LEMMA TriggerReplayed ==
  ASSUME NEW s, EngineOK(s), NEW o \in Trigger
  PROVE  /\ ReplaySubmit(s, o).book = s.book
         /\ ReplaySubmit(s, o).triggers = Append(s.triggers, o)
<1> DEFINE d == ReplaySubmit(s, o)
<1>1. d = [s EXCEPT !.triggers = Append(@, o)]
  BY TriggerNotPriced DEF ReplaySubmit
<1> HIDE DEF d
<1>2. d.book = s.book /\ d.triggers = Append(s.triggers, o)
  BY ONLY <1>1, EngineOK(s) DEF EngineOK
<1> QED  BY <1>2 DEF d

\* ... after an order that it does not have, ...
LEMMA OrderReplayed ==
  ASSUME NEW s, EngineOK(s), NEW o \in Priced, o.id \notin IdsOf(s.book, s.triggers)
  PROVE  /\ ReplaySubmit(s, o).book = ProcessOrder(s.book, o).book
         /\ ReplaySubmit(s, o).triggers = s.triggers
         /\ OneMore(s.book, o, ProcessOrder(s.book, o).book)
         /\ \A r \in DOMAIN s.book.orders : s.book.orders[r].id # o.id
<1> DEFINE d == ReplaySubmit(s, o)
           done == ProcessOrder(s.book, o)
<1>1. o \in Order /\ (o.type = "LIMIT" => o.price \in Prices) /\ o.id \in Ids
  BY DEF Priced, Order
<1>2. \A r \in DOMAIN s.book.orders : s.book.orders[r].id # o.id
  BY DEF IdsOf
<1>3. s.book.orderMap[o.id] = NoOrder
  BY <1>1, <1>2, FreshNotIndexed DEF EngineOK
<1>4. d = [s EXCEPT !.book = done.book, !.made = @ + Len(done.trades)]
  BY <1>3, TriggerNotPriced DEF ReplaySubmit
<1>5. OneMore(s.book, o, done.book)
  BY <1>1, ProcessOrderOK DEF EngineOK
<1> HIDE DEF d, done
<1>6. d.book = done.book /\ d.triggers = s.triggers
  BY ONLY <1>4, EngineOK(s) DEF EngineOK
<1> QED  BY <1>2, <1>5, <1>6 DEF d, done

\* ... after a cancellation, ...
LEMMA CancelReplayed ==
  ASSUME NEW s, EngineOK(s), NEW id
  PROVE  /\ ReplayCancel(s, id).book = IF s.book.orderMap[id] = NoOrder THEN s.book
                                       ELSE CancelOrder(s.book, id)
         /\ ReplayCancel(s, id).triggers = s.triggers
<1>1. CASE s.book.orderMap[id] = NoOrder
  BY <1>1 DEF ReplayCancel
<1>2. CASE s.book.orderMap[id] # NoOrder
  <2> DEFINE c == CancelOrder(s.book, id)
             d == [s EXCEPT !.book = c, !.cancelled = @ + 1]
  <2>1. ReplayCancel(s, id) = d
    BY <1>2 DEF ReplayCancel
  <2> HIDE DEF c
  <2>2. d.book = c /\ d.triggers = s.triggers
    BY ONLY EngineOK(s) DEF EngineOK
  <2> QED  BY <1>2, <2>1, <2>2 DEF c
<1> QED  BY <1>1, <1>2

\* ... and after a new quantity.
LEMMA ModifyReplayed ==
  ASSUME NEW s, EngineOK(s), NEW id, NEW q
  PROVE  /\ ReplayModify(s, id, q).book = IF s.book.orderMap[id] = NoOrder THEN s.book
                                          ELSE ModifyOrder(s.book, id, q)
         /\ ReplayModify(s, id, q).triggers = s.triggers
<1>1. CASE s.book.orderMap[id] = NoOrder
  BY <1>1 DEF ReplayModify
<1>2. CASE s.book.orderMap[id] # NoOrder
  <2> DEFINE c == ModifyOrder(s.book, id, q)
             d == [s EXCEPT !.book = c]
  <2>1. ReplayModify(s, id, q) = d
    BY <1>2 DEF ReplayModify
  <2> HIDE DEF c
  <2>2. d.book = c /\ d.triggers = s.triggers
    BY ONLY EngineOK(s) DEF EngineOK
  <2> QED  BY <1>2, <2>1, <2>2 DEF c
<1> QED  BY <1>1, <1>2

\* ... after the firing of a trigger, ...
LEMMA ActivatedReplayed ==
  ASSUME NEW s, EngineOK(s), NEW id
  PROVE  /\ ReplayActivated(s, id).book = s.book
         /\ ReplayActivated(s, id).triggers = Without(s.triggers, id)
<1> DEFINE list == Without(s.triggers, id)
           d == [s EXCEPT !.triggers = list]
<1>1. ReplayActivated(s, id) = d
  BY DEF ReplayActivated
<1> HIDE DEF list
<1>2. d.book = s.book /\ d.triggers = list
  BY ONLY EngineOK(s) DEF EngineOK
<1> QED  BY <1>1, <1>2 DEF list

\* Engines with alike books and the same triggers; e has met no order that s has not.
AlikeEngines(s, e) ==
    /\ Alike(s.book, e.book) /\ e.triggers = s.triggers
    /\ \A id \in IdsOf(e.book, << >>) : id \in IdsOf(s.book, << >>)

\* Nor has it met any other id.
LEMMA FewerIds ==
  ASSUME NEW s, NEW e, AlikeEngines(s, e)
  PROVE  \A id \in IdsOf(e.book, e.triggers) : id \in IdsOf(s.book, s.triggers)
<1>1. \A b, list : IdsOf(b, list) = IdsOf(b, << >>) \cup {list[i].id : i \in DOMAIN list}
  BY DEF IdsOf
<1> DEFINE T == {s.triggers[i].id : i \in DOMAIN s.triggers}
<1>2. /\ IdsOf(s.book, s.triggers) = IdsOf(s.book, << >>) \cup T
      /\ IdsOf(e.book, e.triggers) = IdsOf(e.book, << >>) \cup T
  BY <1>1 DEF AlikeEngines
<1> HIDE DEF T
<1> QED  BY <1>2 DEF AlikeEngines

\* A trigger order, in both.
LEMMA AlikeTrigger ==
  ASSUME NEW s, EngineOK(s), NEW e, EngineOK(e), AlikeEngines(s, e), NEW o \in Trigger
  PROVE  AlikeEngines(ReplaySubmit(s, o), ReplaySubmit(e, o))
<1>1. /\ ReplaySubmit(s, o).book = s.book /\ ReplaySubmit(e, o).book = e.book
      /\ ReplaySubmit(s, o).triggers = ReplaySubmit(e, o).triggers
  BY TriggerReplayed DEF AlikeEngines
<1> QED  BY <1>1 DEF AlikeEngines

\* An order, in both.
LEMMA AlikeOrder ==
  ASSUME CarefulClients,
         NEW s, EngineOK(s), SoundEngine(s), NEW e, EngineOK(e), SoundEngine(e),
         AlikeEngines(s, e), NEW o \in Priced, o.id \notin IdsOf(s.book, s.triggers)
  PROVE  AlikeEngines(ReplaySubmit(s, o), ReplaySubmit(e, o))
<1>1. o.id \notin IdsOf(e.book, e.triggers) /\ e.triggers = s.triggers /\ Alike(s.book, e.book)
  BY FewerIds DEF AlikeEngines
<1> DEFINE x == ProcessOrder(s.book, o).book
           y == ProcessOrder(e.book, o).book
<1>2. /\ ReplaySubmit(s, o).book = x /\ ReplaySubmit(s, o).triggers = s.triggers
      /\ OneMore(s.book, o, x)
      /\ \A r \in DOMAIN s.book.orders : s.book.orders[r].id # o.id
  BY OrderReplayed
<1>3. /\ ReplaySubmit(e, o).book = y /\ ReplaySubmit(e, o).triggers = s.triggers
      /\ OneMore(e.book, o, y)
      /\ \A r \in DOMAIN e.book.orders : e.book.orders[r].id # o.id
  BY <1>1, OrderReplayed
<1>4. o \in Order /\ (o.type = "LIMIT" => o.price \in Prices)
  BY DEF Priced
<1>5. Alike(x, y)
  BY <1>1, <1>2, <1>3, <1>4, AlikeProcess DEF SoundEngine, SoundBook
<1> HIDE DEF x, y
<1>6. /\ IdsOf(x, << >>) = IdsOf(s.book, << >>) \cup {o.id}
      /\ IdsOf(y, << >>) = IdsOf(e.book, << >>) \cup {o.id}
  <2>1. s.book \in Book /\ e.book \in Book
    BY DEF EngineOK
  <2> QED  BY <1>2, <1>3, <2>1, OneMoreIds
<1>7. \A id \in IdsOf(y, << >>) : id \in IdsOf(x, << >>)
  BY <1>1, <1>6 DEF AlikeEngines
<1> QED  BY <1>2, <1>3, <1>5, <1>7 DEF AlikeEngines

\* What leaves the ids of both books as they are.
LEMMA AlikeSameIds ==
  ASSUME NEW s, NEW e, AlikeEngines(s, e), NEW d, NEW f,
         d.triggers = s.triggers, f.triggers = e.triggers,
         SameIds(s.book, d.book), SameIds(e.book, f.book), Alike(d.book, f.book)
  PROVE  AlikeEngines(d, f)
<1>1. \A b, c, list : SameIds(b, c) => IdsOf(c, list) = IdsOf(b, list)
  BY DEF SameIds, IdsOf
<1>2. IdsOf(d.book, << >>) = IdsOf(s.book, << >>) /\ IdsOf(f.book, << >>) = IdsOf(e.book, << >>)
  BY <1>1
<1> QED  BY <1>2 DEF AlikeEngines

\* Every entry does the same to alike engines.
LEMMA AlikeEntry ==
  ASSUME CarefulClients,
         NEW s, EngineOK(s), SoundEngine(s), NEW e, EngineOK(e), SoundEngine(e),
         AlikeEngines(s, e), NEW entry \in LogEntry, Fits(s, entry)
  PROVE  /\ EngineOK(ReplayEntry(e, entry)) /\ SoundEngine(ReplayEntry(e, entry))
         /\ AlikeEngines(ReplayEntry(s, entry), ReplayEntry(e, entry))
<1>1. Fits(e, entry)
  BY FewerIds DEF Fits
<1>2. EngineOK(ReplayEntry(e, entry)) /\ SoundEngine(ReplayEntry(e, entry))
  BY <1>1, ReplayEntryOK, ReplayEntrySound DEF StepsTo
<1>3. CASE entry.type = "submit" /\ entry.order \in Priced \cup Trigger
  <2>1. /\ ReplayEntry(s, entry) = ReplaySubmit(s, entry.order)
        /\ ReplayEntry(e, entry) = ReplaySubmit(e, entry.order)
    BY <1>3 DEF ReplayEntry
  <2>2. entry.order.id \notin IdsOf(s.book, s.triggers)
    BY <1>3 DEF Fits
  <2>3. CASE entry.order \in Trigger
    BY <1>2, <2>1, <2>3, AlikeTrigger
  <2>4. CASE entry.order \in Priced
    BY <1>2, <2>1, <2>2, <2>4, AlikeOrder
  <2> QED  BY <1>3, <2>3, <2>4
<1>4. CASE entry.type = "cancel" /\ entry.id \in Ids
  <2> DEFINE id == entry.id
             d == ReplayCancel(s, id)
             f == ReplayCancel(e, id)
  <2>1. ReplayEntry(s, entry) = d /\ ReplayEntry(e, entry) = f
    BY <1>4 DEF ReplayEntry
  <2>2. s.book.orderMap[id] = NoOrder <=> e.book.orderMap[id] = NoOrder
    BY <1>4 DEF AlikeEngines, Alike
  <2>3. /\ d.triggers = s.triggers /\ f.triggers = e.triggers
        /\ d.book = IF s.book.orderMap[id] = NoOrder THEN s.book ELSE CancelOrder(s.book, id)
        /\ f.book = IF s.book.orderMap[id] = NoOrder THEN e.book ELSE CancelOrder(e.book, id)
    BY <2>2, CancelReplayed
  <2> HIDE DEF d, f
  <2>4. CASE s.book.orderMap[id] = NoOrder
    BY <1>2, <2>1, <2>3, <2>4 DEF AlikeEngines
  <2>5. CASE s.book.orderMap[id] # NoOrder
    <3>1. SameIds(s.book, d.book)
      BY <1>4, <2>3, <2>5, CancelSound DEF SoundEngine
    <3>2. SameIds(e.book, f.book)
      BY <1>4, <2>2, <2>3, <2>5, CancelSound DEF SoundEngine
    <3>3. Alike(d.book, f.book)
      BY <1>4, <2>3, <2>5, AlikeCancel DEF SoundEngine, SoundBook, AlikeEngines
    <3> QED  BY <1>2, <2>1, <2>3, <3>1, <3>2, <3>3, AlikeSameIds
  <2> QED  BY <2>4, <2>5
<1>5. CASE entry.type = "modify" /\ entry.id \in Ids
  <2> DEFINE id == entry.id
             q == entry.quantity
             d == ReplayModify(s, id, q)
             f == ReplayModify(e, id, q)
  <2>0. q \in Nat \ {0}
    BY <1>5, CarefulClients DEF Fits
  <2>1. ReplayEntry(s, entry) = d /\ ReplayEntry(e, entry) = f
    BY <1>5 DEF ReplayEntry
  <2>2. s.book.orderMap[id] = NoOrder <=> e.book.orderMap[id] = NoOrder
    BY <1>5 DEF AlikeEngines, Alike
  <2>3. /\ d.triggers = s.triggers /\ f.triggers = e.triggers
        /\ d.book = IF s.book.orderMap[id] = NoOrder THEN s.book ELSE ModifyOrder(s.book, id, q)
        /\ f.book = IF s.book.orderMap[id] = NoOrder THEN e.book ELSE ModifyOrder(e.book, id, q)
    BY <2>2, ModifyReplayed
  <2> HIDE DEF d, f
  <2>4. CASE s.book.orderMap[id] = NoOrder
    BY <1>2, <2>1, <2>3, <2>4 DEF AlikeEngines
  <2>5. CASE s.book.orderMap[id] # NoOrder
    <3>1. SameIds(s.book, d.book)
      BY <1>5, <2>0, <2>3, <2>5, ModifySound DEF SoundEngine
    <3>2. SameIds(e.book, f.book)
      BY <1>5, <2>0, <2>2, <2>3, <2>5, ModifySound DEF SoundEngine
    <3>3. Alike(d.book, f.book)
      BY <1>5, <2>0, <2>3, <2>5, AlikeModify DEF SoundEngine, SoundBook, AlikeEngines
    <3> QED  BY <1>2, <2>1, <2>3, <3>1, <3>2, <3>3, AlikeSameIds
  <2> QED  BY <2>4, <2>5
<1>6. CASE entry.type = "trade"
  <2>1. ReplayEntry(s, entry) = s /\ ReplayEntry(e, entry) = e
    BY <1>6 DEF ReplayEntry
  <2> QED  BY <1>2, <2>1
<1>7. CASE entry.type = "activated"
  <2>1. /\ ReplayEntry(s, entry) = ReplayActivated(s, entry.id)
        /\ ReplayEntry(e, entry) = ReplayActivated(e, entry.id)
    BY <1>7 DEF ReplayEntry
  <2>2. /\ ReplayActivated(s, entry.id).book = s.book /\ ReplayActivated(e, entry.id).book = e.book
        /\ ReplayActivated(s, entry.id).triggers = ReplayActivated(e, entry.id).triggers
    BY ActivatedReplayed DEF AlikeEngines
  <2> QED  BY <1>2, <2>1, <2>2 DEF AlikeEngines
<1> QED  BY <1>3, <1>4, <1>5, <1>6, <1>7, EntryFields

----------------------------------------------------------------------------
(* Replaying the log over a saved book *)

\* The engine into which a sound book has been loaded.
LEMMA LoadedEngine ==
  ASSUME NEW b, Ledger(b)
  PROVE  LET e == LoadState(ToJson(b)) IN
         EngineOK(e) /\ e.book = FromJson(ToJson(b)) /\ e.triggers = << >>
<1> DEFINE c == FromJson(ToJson(b))
           e == [NewEngine EXCEPT !.book = c]
<1>1. BookOK(c) /\ OwnIds(c) /\ c \in Book
  BY LoadedAlike DEF Ledger, Indexed, OwnIds, BookOK
<1>2. LoadState(ToJson(b)) = e
  BY DEF LoadState
<1> HIDE DEF c
<1>3. e = [book |-> c, triggers |-> << >>, made |-> 0, cancelled |-> 0]
  BY DEF NewEngine
<1> HIDE DEF e
<1>4. << >> \in Seq(Trigger)
  OBVIOUS
<1>5. EngineOK(e) /\ e.book = c /\ e.triggers = << >>
  BY ONLY <1>1, <1>3, <1>4 DEF EngineOK
<1> QED  BY <1>2, <1>5 DEF c

\* An order that rests in the saved book is skipped.
LEMMA RestingSkipped ==
  ASSUME NEW b, Ledger(b), NEW s, Alike(b, s.book), NEW o \in Priced, StillRests(ToJson(b), o)
  PROVE  ReplaySubmit(s, o) = s
<1>1. o.side \in Sides /\ o.id \in Ids
  BY DEF Priced, Order
<1>2. PICK p \in Prices : o \in ToSet(Listed(b, o.side, p))
  BY <1>1 DEF StillRests, ToJson
<1>3. PICK r \in Level(b, o.side, p) : b.orders[r] = o
  <2> DEFINE q == Queue(b, o.side, p)
             n == Cardinality(Level(b, o.side, p))
             list == Listed(b, o.side, p)
  <2>1. /\ \A i \in 1 .. n : q[i] \in Level(b, o.side, p)
        /\ list = [i \in 1 .. n |-> b.orders[q[i]]]
    BY QueueOK DEF Ledger
  <2>2. \E i \in DOMAIN list : list[i] = o
    BY <1>2 DEF ToSet
  <2> HIDE DEF q, n, list
  <2> QED  BY <2>1, <2>2
<1>4. r \in b.linked
  BY <1>3 DEF Level
<1>5. b.orderMap[o.id] # NoOrder
  BY <1>3, <1>4, LinkedOrder DEF NoOrder
<1>6. s.book.orderMap[o.id] # NoOrder
  BY <1>1, <1>5 DEF Alike
<1> QED  BY <1>6, TriggerNotPriced DEF ReplaySubmit

\* The engine after the first m lines, replayed over the saved book b.
Over(log, b, m) == Replayed(LoadState(ToJson(b)), [i \in DOMAIN log |-> Line(log[i])], m)

\* Line by line.
LEMMA OverOne ==
  ASSUME NEW log \in Seq(WalLine), NEW b
  PROVE  /\ Over(log, b, 0) = LoadState(ToJson(b))
         /\ \A n \in Nat : n + 1 \in DOMAIN log =>
               Over(log, b, n + 1) = ReplayEntry(Over(log, b, n), Line(log[n + 1]))
<1> DEFINE lines == [i \in DOMAIN log |-> Line(log[i])]
           s == LoadState(ToJson(b))
<1>1. \A i \in DOMAIN log : lines[i] = Line(log[i])
  OBVIOUS
<1> HIDE DEF lines, s
<1>2. Over(log, b, 0) = s
  BY ReplayedByEntry DEF Over, lines, s
<1>3. ASSUME NEW n \in Nat, n + 1 \in DOMAIN log
      PROVE  Over(log, b, n + 1) = ReplayEntry(Over(log, b, n), Line(log[n + 1]))
  <2>1. Replayed(s, lines, n + 1) = ReplayEntry(Replayed(s, lines, n), lines[n + 1])
    BY ONLY n \in Nat, ReplayedByEntry, Zenon
  <2>2. lines[n + 1] = Line(log[n + 1])
    BY <1>1, <1>3
  <2> QED  BY <2>1, <2>2 DEF Over, lines, s
<1> QED  BY <1>2, <1>3 DEF s

\* The first n lines are trigger orders and orders that b holds in full.
AllRest(log, n, b) ==
    \A i \in 1 .. n : /\ Line(log[i]).type = "submit"
                      /\ \/ Line(log[i]).order.type \in TriggerTypes
                         \/ StillRests(ToJson(b), Line(log[i]).order)

\* One of those lines arms its trigger, or does nothing.
LEMMA RestingEntry ==
  ASSUME NEW b, Ledger(b), NEW s, EngineOK(s), NEW e, EngineOK(e), Alike(b, e.book),
         e.triggers = s.triggers, NEW entry \in LogEntry, Fits(s, entry), entry.type = "submit",
         entry.order.type \in TriggerTypes \/ StillRests(ToJson(b), entry.order)
  PROVE  /\ ReplayEntry(e, entry).book = e.book
         /\ ReplayEntry(e, entry).triggers = ReplayEntry(s, entry).triggers
<1> DEFINE o == entry.order
<1>1. o \in Priced \cup Trigger
  BY EntryFields
<1>2. ReplayEntry(s, entry) = ReplaySubmit(s, o) /\ ReplayEntry(e, entry) = ReplaySubmit(e, o)
  BY DEF ReplayEntry
<1>3. o.id \notin IdsOf(s.book, s.triggers)
  BY DEF Fits
<1>4. o.type \in TriggerTypes \/ StillRests(ToJson(b), o)
  OBVIOUS
<1> HIDE DEF o
<1>5. CASE o \in Trigger
  BY <1>2, <1>5, TriggerReplayed
<1>6. CASE o \in Priced
  <2>1. StillRests(ToJson(b), o)
    BY <1>4, <1>6, TriggerNotPriced
  <2>2. ReplaySubmit(e, o) = e
    BY <1>6, <2>1, RestingSkipped
  <2>3. ReplaySubmit(s, o).triggers = s.triggers
    BY <1>3, <1>6, OrderReplayed
  <2> QED  BY <1>2, <2>2, <2>3
<1> QED  BY <1>1, <1>5, <1>6

\* A line of the log, and the engine before it.
LEMMA NextLine ==
  ASSUME NEW log, LogOK(log), Clear(log, Len(log)), \A k \in 0 .. Len(log) : SoundAt(log, k),
         NEW k \in Nat, k + 1 <= Len(log), NEW b
  PROVE  LET entry == Line(log[k + 1]) IN
         /\ entry \in LogEntry /\ k + 1 \in 1 .. Len(log) /\ Fits(After(log, k), entry)
         /\ After(log, k + 1) = ReplayEntry(After(log, k), entry)
         /\ Over(log, b, k + 1) = ReplayEntry(Over(log, b, k), entry)
         /\ EngineOK(After(log, k)) /\ SoundEngine(After(log, k))
<1>1. /\ log \in Seq(WalLine) /\ Len(log) \in Nat /\ DOMAIN log = 1 .. Len(log)
      /\ k \in 0 .. Len(log) /\ k + 1 \in 1 .. Len(log) /\ k + 1 \in 0 .. Len(log)
      /\ k <= Len(log) /\ k + 1 > 0 /\ k + 1 - 1 = k /\ k + 1 \in Nat
  BY DEF LogOK
<1>2. log[k + 1] \in WalLine /\ log[k + 1].type \notin {"cut", "garbled"}
  BY <1>1 DEF Clear
<1>3. Clear(log, k) /\ Clear(log, k + 1)
  BY <1>1, ClearLess
<1>4. Fits(After(log, k), Line(log[k + 1])) /\ SoundEngine(After(log, k))
  <2>1. SoundAt(log, k) /\ SoundAt(log, k + 1)
    BY <1>1
  <2>2. Fits(After(log, k + 1 - 1), Line(log[k + 1])) /\ SoundEngine(After(log, k))
    BY ONLY <1>1, <1>3, <2>1 DEF SoundAt
  <2> QED  BY ONLY <1>1, <2>2
<1>5. After(log, k + 1) = ReplayEntry(After(log, k), Line(log[k + 1]))
  BY ONLY <1>1, k \in Nat, AfterOne
<1>6. Over(log, b, k + 1) = ReplayEntry(Over(log, b, k), Line(log[k + 1]))
  BY ONLY <1>1, k \in Nat, OverOne
<1>7. EngineOK(After(log, k))
  BY ONLY LogOK(log), k \in Nat, <1>1, <1>3, AfterOK
<1>8. Line(log[k + 1]) \in LogEntry
  BY <1>2, LineOK
<1> QED  BY ONLY <1>1, <1>4, <1>5, <1>6, <1>7, <1>8

\* Up to the line at which b was saved, the replay only arms triggers.
LEMMA OverResting ==
  ASSUME NEW log, LogOK(log), Clear(log, Len(log)), \A k \in 0 .. Len(log) : SoundAt(log, k),
         NEW n \in Nat, n <= Len(log), NEW b, Ledger(b), AllRest(log, n, b)
  PROVE  /\ EngineOK(Over(log, b, n))
         /\ Over(log, b, n).book = FromJson(ToJson(b))
         /\ Over(log, b, n).triggers = After(log, n).triggers
<1> DEFINE c == FromJson(ToJson(b))
           P(k) == /\ EngineOK(Over(log, b, k)) /\ Over(log, b, k).book = c
                   /\ Over(log, b, k).triggers = After(log, k).triggers
           T == {k \in Nat : k <= n => P(k)}
<1>1. log \in Seq(WalLine) /\ Len(log) \in Nat
  BY DEF LogOK
<1>2. Alike(b, c)
  BY LoadedAlike
<1>3. P(0)
  <2>1. Over(log, b, 0) = LoadState(ToJson(b)) /\ After(log, 0) = NewEngine
    BY <1>1, OverOne, AfterOne
  <2>2. NewEngine.triggers = << >>
    BY DEF NewEngine
  <2> QED  BY <2>1, <2>2, LoadedEngine
<1> HIDE DEF c
<1>4. ASSUME NEW k \in Nat, k + 1 <= n, P(k) PROVE P(k + 1)
  <2> DEFINE entry == Line(log[k + 1])
             s == After(log, k)
             e == Over(log, b, k)
  <2>1. k + 1 <= Len(log) /\ k + 1 \in 1 .. n
    BY <1>1, <1>4
  <2>2. /\ entry \in LogEntry /\ Fits(s, entry) /\ EngineOK(s)
        /\ After(log, k + 1) = ReplayEntry(s, entry)
        /\ Over(log, b, k + 1) = ReplayEntry(e, entry)
    BY <2>1, NextLine
  <2>3. /\ entry.type = "submit"
        /\ entry.order.type \in TriggerTypes \/ StillRests(ToJson(b), entry.order)
    BY <2>1 DEF AllRest
  <2>4. EngineOK(e) /\ e.book = c /\ e.triggers = s.triggers
    BY <1>4
  <2> HIDE DEF entry, s, e, P
  <2>5. ReplayEntry(e, entry).book = c /\ ReplayEntry(e, entry).triggers = ReplayEntry(s, entry).triggers
    BY <1>2, <2>2, <2>3, <2>4, RestingEntry
  <2>6. EngineOK(ReplayEntry(e, entry))
    BY <2>2, <2>4, ReplayEntryOK DEF StepsTo
  <2> QED  BY <2>2, <2>5, <2>6 DEF P
<1> HIDE DEF P
<1>5. 0 \in T
  BY <1>3
<1>6. ASSUME NEW k \in Nat, k \in T PROVE k + 1 \in T
  BY <1>4, <1>6
<1> HIDE DEF T
<1>7. n \in T
  BY <1>5, <1>6, SetOfAllNat
<1>8. P(n)
  BY <1>7 DEF T
<1> QED  BY <1>8 DEF P, c

\* There it has come to an engine like the one that saved b ...
LEMMA OverSaved ==
  ASSUME NEW log, LogOK(log), Clear(log, Len(log)), \A k \in 0 .. Len(log) : SoundAt(log, k),
         NEW n \in Nat, n <= Len(log), AllRest(log, n, After(log, n).book), CarefulClients
  PROVE  LET e == Over(log, After(log, n).book, n) IN
         EngineOK(e) /\ SoundEngine(e) /\ AlikeEngines(After(log, n), e)
<1> DEFINE s == After(log, n)
           b == s.book
           c == FromJson(ToJson(b))
           e == Over(log, b, n)
<1>1. SoundEngine(s) /\ EngineOK(s)
  <2>1. n \in 0 .. Len(log) /\ Clear(log, n)
    BY ClearLess DEF LogOK
  <2> QED  BY <2>1, AfterOK DEF SoundAt
<1>2. Ledger(b) /\ NotCrossed(b)
  BY <1>1 DEF SoundEngine, SoundBook
<1>3. EngineOK(e) /\ e.book = c /\ e.triggers = s.triggers
  BY <1>2, OverResting
<1>4. Ledger(c) /\ Alike(b, c) /\ c.linked = DOMAIN c.orders
  BY <1>2, LoadedAlike
<1> HIDE DEF s, b, c, e
<1>5. ASSUME NEW r \in c.linked
      PROVE  \E q \in b.linked : q \in DOMAIN b.orders /\ b.orders[q] = c.orders[r]
  <2>1. Twin(c, b, r) \in b.linked /\ b.orders[Twin(c, b, r)] = c.orders[r]
    BY <1>2, <1>4, AlikeBack, TwinOK
  <2> QED  BY <1>2, <2>1, LinkedOrder
<1>6. NotCrossed(c)
  BY <1>2, <1>5 DEF NotCrossed
<1>7. ApartFrom(e.triggers, c) /\ DistinctTriggers(e.triggers)
  BY <1>1, <1>3, <1>4, <1>5 DEF SoundEngine, ApartFrom, b
<1>8. \A id \in IdsOf(c, << >>) : id \in IdsOf(b, << >>)
  BY <1>4, <1>5 DEF IdsOf
<1>9. SoundEngine(e)
  BY <1>3, <1>4, <1>6, <1>7, LedgerFindable DEF SoundEngine, SoundBook
<1>10. AlikeEngines(s, e)
  BY <1>3, <1>4, <1>8 DEF AlikeEngines, b
<1> QED  BY <1>3, <1>9, <1>10 DEF s, b, e

\* ... and stays with it to the end of the log.
LEMMA OverTheRest ==
  ASSUME NEW log, LogOK(log), Clear(log, Len(log)), \A k \in 0 .. Len(log) : SoundAt(log, k),
         NEW n \in Nat, n <= Len(log), AllRest(log, n, After(log, n).book), CarefulClients
  PROVE  LET e == Over(log, After(log, n).book, Len(log))
         IN  SoundEngine(e) /\ AlikeEngines(After(log, Len(log)), e)
<1> DEFINE b == After(log, n).book
           P(k) == /\ EngineOK(Over(log, b, k)) /\ SoundEngine(Over(log, b, k))
                   /\ AlikeEngines(After(log, k), Over(log, b, k))
           T == {k \in Nat : n <= k /\ k <= Len(log) => P(k)}
<1>1. P(n)
  BY OverSaved
<1>2. Len(log) \in Nat
  BY DEF LogOK
<1> HIDE DEF b
<1>3. ASSUME NEW k \in Nat, k + 1 <= Len(log), P(k) PROVE P(k + 1)
  <2> DEFINE entry == Line(log[k + 1])
             s == After(log, k)
             e == Over(log, b, k)
  <2>1. /\ entry \in LogEntry /\ Fits(s, entry) /\ EngineOK(s) /\ SoundEngine(s)
        /\ After(log, k + 1) = ReplayEntry(s, entry)
        /\ Over(log, b, k + 1) = ReplayEntry(e, entry)
    BY <1>3, NextLine
  <2>2. EngineOK(e) /\ SoundEngine(e) /\ AlikeEngines(s, e)
    BY <1>3
  <2> HIDE DEF entry, s, e, P
  <2>3. /\ EngineOK(ReplayEntry(e, entry)) /\ SoundEngine(ReplayEntry(e, entry))
        /\ AlikeEngines(ReplayEntry(s, entry), ReplayEntry(e, entry))
    BY <2>1, <2>2, AlikeEntry
  <2> QED  BY <2>1, <2>3 DEF P
<1> HIDE DEF P
<1>4. 0 \in T
  BY <1>1
<1>5. ASSUME NEW k \in Nat, k \in T PROVE k + 1 \in T
  <2> SUFFICES ASSUME n <= k + 1, k + 1 <= Len(log) PROVE P(k + 1)
    OBVIOUS
  <2>1. CASE n = k + 1
    BY <1>1, <2>1
  <2>2. CASE n <= k
    BY <1>2, <1>3, <1>5, <2>2
  <2> QED  BY <2>1, <2>2
<1> HIDE DEF T
<1>6. Len(log) \in T
  BY <1>2, <1>4, <1>5, SetOfAllNat
<1>7. P(Len(log))
  BY <1>2, <1>6 DEF T
<1> QED  BY <1>7 DEF P, b

\* So the log gives the same over the saved book as alone.
LEMMA InvReplayOverSaved ==
  ASSUME CarefulClients, RecoveryInv, SoundInv
  PROVE  ReplayOverSaved
<1>1. LogOK(wal) /\ Current /\ DOMAIN past = 0 .. Len(wal) /\ \A n \in 0 .. Len(wal) : Traces(n)
  BY DEF RecoveryInv, LogGood
<1>2. \A n \in 0 .. Len(wal) : SoundAt(wal, n)
  BY DEF SoundInv, SoundLog
<1>3. wal \in Seq(WalLine) /\ Len(wal) \in Nat /\ DOMAIN wal = 1 .. Len(wal)
  BY <1>1 DEF LogOK
<1> SUFFICES ASSUME Intact(wal), NoneFired(wal), NEW n \in DOMAIN past,
                    \A i \in 1 .. n : /\ wal[i].type = "submit"
                                      /\ \/ wal[i].order.type \in TriggerTypes
                                         \/ StillRests(past[n].levels, wal[i].order)
             PROVE  LET s == Replay(LoadState(past[n].levels), wal)
                    IN  View(s.book, s.triggers) = View(book, triggers)
  BY DEF ReplayOverSaved
<1> DEFINE b == After(wal, n).book
           e == Over(wal, b, Len(wal))
           s == After(wal, Len(wal))
<1>4. n \in Nat /\ n <= Len(wal) /\ n \in 0 .. Len(wal)
  BY <1>1, <1>3
<1>5. Clear(wal, Len(wal)) /\ Clear(wal, n)
  BY <1>3, <1>4 DEF Intact, Clear
<1>6. \A i \in 1 .. n : Line(wal[i]) = wal[i]
  BY DEF Line
<1>7. past[n].levels = ToJson(b)
  <2>1. Quietly(wal, n)
    BY <1>6 DEF Quietly
  <2>2. past[n] = View(b, After(wal, n).triggers)
    BY <1>1, <1>4, <1>5, <2>1 DEF Traces
  <2> QED  BY <2>2 DEF View
<1>8. AllRest(wal, n, b)
  BY <1>6, <1>7 DEF AllRest
<1>9. SoundEngine(e) /\ AlikeEngines(s, e)
  BY <1>1, <1>2, <1>4, <1>5, <1>8, OverTheRest
<1>10. SoundEngine(s) /\ s.book = book /\ s.triggers = triggers
  <2>1. Len(wal) \in 0 .. Len(wal)
    BY <1>3
  <2>2. SoundEngine(s)
    BY <1>2, <1>5, <2>1 DEF SoundAt
  <2> QED  BY <1>1, <2>2 DEF Current
<1>11. Replay(LoadState(past[n].levels), wal) = e
  <2>1. /\ Len(Readable(wal)) \in Nat /\ Len(Readable(wal)) <= Len(wal)
        /\ \A k \in Nat : k <= Len(wal) /\ Clear(wal, k) => k <= Len(Readable(wal))
        /\ Readable(wal) = [i \in 1 .. Len(Readable(wal)) |-> Line(wal[i])]
    BY <1>1, ReadableOK
  <2>2. Len(wal) <= Len(wal)
    BY <1>3
  <2>3. Len(wal) <= Len(Readable(wal))
    BY ONLY <1>3, <1>5, <2>1, <2>2
  <2>4. Len(Readable(wal)) = Len(wal)
    <3> DEFINE n1 == Len(Readable(wal))
               n2 == Len(wal)
    <3>1. n1 \in Nat /\ n2 \in Nat /\ n1 <= n2 /\ n2 <= n1
      BY ONLY <1>3, <2>1, <2>3
    <3> HIDE DEF n1, n2
    <3>2. n1 = n2
      BY ONLY <3>1
    <3> QED  BY ONLY <3>2 DEF n1, n2
  <2>5. Readable(wal) = [i \in DOMAIN wal |-> Line(wal[i])]
    BY ONLY <1>3, <2>1, <2>4
  <2> QED  BY <1>7, <2>4, <2>5 DEF Replay, Over
<1> HIDE DEF b, e, s
<1>12. ToJson(e.book) = ToJson(s.book) /\ e.triggers = s.triggers
  BY <1>9, <1>10, AlikeViews DEF SoundEngine, SoundBook, AlikeEngines
<1> QED  BY <1>10, <1>11, <1>12 DEF View

----------------------------------------------------------------------------
(* The theorems *)

\* With a log, the invariant holds in every reachable state.
LEMMA RecoveryInvHolds == WalEnabled => (RecoverySpec => []RecoveryInv)
<1> SUFFICES ASSUME WalEnabled PROVE RecoverySpec => []RecoveryInv
  OBVIOUS
<1>1. RecoveryInit => RecoveryInv
  BY RecoveryStarts
<1>2. RecoveryInv /\ [RecoveryNext]_recoveryVars => RecoveryInv'
  BY RecoveryGoesOn
<1> QED  BY <1>1, <1>2, PTL DEF RecoverySpec

\* MatchingEngine::replayWAL gives back every level of the book and the armed
\* triggers, wherever the process dies, as long as every line of the log can be
\* read and no trigger has fired.
THEOREM ReplayGivesBackTheEngine == WalEnabled => (RecoverySpec => []ReplayReconstructs)
<1>1. RecoveryInv => ReplayReconstructs
  BY InvReplays
<1> QED  BY <1>1, RecoveryInvHolds, PTL

\* When a crash has broken a line, MatchingEngine::replayWAL gives the engine as
\* it was when the last line before it was written, whatever was appended since.
THEOREM RestartsFromThePast == WalEnabled => (RecoverySpec => []RestartsInThePast)
<1>1. RecoveryInv => RestartsInThePast
  BY InvPast
<1> QED  BY <1>1, RecoveryInvHolds, PTL

\* The ids that generateTradeId gives after a restart are none of those in the
\* log, although its counter starts again: replaying spends them anew.
THEOREM TradeIdsStayUnique == WalEnabled => (RecoverySpec => []TradeIdsUnique)
<1>1. RecoveryInv => TradeIdsUnique
  BY InvUnique
<1> QED  BY <1>1, RecoveryInvHolds, PTL

\* It holds in every reachable state.
LEMMA SoundInvHolds == WalEnabled => (RecoverySpec => []SoundInv)
<1> SUFFICES ASSUME WalEnabled PROVE RecoverySpec => []SoundInv
  OBVIOUS
<1>1. RecoveryInit => SoundInv
  BY SoundStarts
<1>2. RecoveryInv /\ SoundInv /\ [RecoveryNext]_recoveryVars => SoundInv'
  BY SoundGoesOn
<1> QED  BY <1>1, <1>2, RecoveryInvHolds, PTL DEF RecoverySpec

\* OrderBook::toJson and fromJson: whatever has happened to the book, restarts
\* included, it is loaded as it was saved, as long as no client modifies an order
\* to zero.
THEOREM SavedBooksLoad ==
    CarefulClients /\ WalEnabled => (RecoverySpec => []SaveLoadPreserves)
<1> SUFFICES ASSUME CarefulClients, WalEnabled PROVE RecoverySpec => []SaveLoadPreserves
  OBVIOUS
<1>1. SoundInv => SaveLoadPreserves
  BY SaveLoad DEF SoundInv, OrdersInv, SoundBook
<1> QED  BY <1>1, SoundInvHolds, PTL

\* As long as no client modifies an order to zero: a restart, whatever is left of
\* the log, gives a sound book.  The index finds what the levels hold, the totals
\* add up, and the book is not crossed.
THEOREM BooksSoundAfterRestarts ==
    CarefulClients /\ WalEnabled => (RecoverySpec => []BookSound)
<1> SUFFICES ASSUME CarefulClients, WalEnabled PROVE RecoverySpec => []BookSound
  OBVIOUS
<1>1. SoundInv => BookSound
  BY DEF SoundInv, OrdersInv, SoundBook, Ledger, BookSound
<1> QED  BY <1>1, SoundInvHolds, PTL

\* Also when clients modify orders to zero, and whatever is left of the log: after a
\* restart every resting order is found by its id, and the book is not crossed.
THEOREM BooksUsableAfterRestarts == WalEnabled => (RecoverySpec => []BookUsable)
<1> SUFFICES ASSUME WalEnabled PROVE RecoverySpec => []BookUsable
  OBVIOUS
<1>1. SoundInv => BookUsable
  BY DEF SoundInv, OrdersInv, SoundBook, Findable, BookUsable
<1> QED  BY <1>1, SoundInvHolds, PTL

\* Nor does a restart arm a trigger under the id of an order.
THEOREM ArmedNotActiveAfterRestarts == WalEnabled => (RecoverySpec => []ArmedOrActive)
<1>1. SoundInv => ArmedOrActive
  BY DEF SoundInv, OrdersInv, ApartFrom, ArmedOrActive
<1> QED  BY <1>1, SoundInvHolds, PTL

\* Replaying the log over the book that saveState wrote gives what the log alone
\* gives, while what the saved book and the log share are trigger orders and
\* orders that it holds in full: those are skipped, and from there on the two
\* books do the same.  (As long as no client modifies an order to zero.)
THEOREM ReplaysOverSavedBooks ==
    CarefulClients /\ WalEnabled => (RecoverySpec => []ReplayOverSaved)
<1> SUFFICES ASSUME CarefulClients, WalEnabled PROVE RecoverySpec => []ReplayOverSaved
  OBVIOUS
<1>1. RecoveryInv /\ SoundInv => ReplayOverSaved
  BY InvReplayOverSaved
<1> QED  BY <1>1, RecoveryInvHolds, SoundInvHolds, PTL

=============================================================================
