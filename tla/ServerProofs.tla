---------------------------- MODULE ServerProofs ----------------------------
(***************************************************************************)
(* Proofs about Server, for any set of connections: whichever way the      *)
(* process ends, no metric, io_context or engine is used after its end,    *)
(* and no session outlives the io_context.  The types hold as well.        *)
(*                                                                         *)
(* The argument ties what exists to where main is in Program: the metrics  *)
(* are complete while a thread is active, and main passes the lines that   *)
(* take something away only when the threads that use it have ended.       *)
(***************************************************************************)
EXTENDS Server, SequenceTheorems, TLAPS

----------------------------------------------------------------------------
(* The places of Program *)

LEMMA Lines ==
    /\ Program[1] = "create registry" /\ Program[2] = "set pointers"
    /\ Program[3] = "start collector" /\ Program[4] = "construct listener"
    /\ Program[5] = "start worker" /\ Program[6] = "SIGINT" /\ Program[7] = "SIGTERM"
    /\ Program[8] = "check" /\ Program[9] = "block" /\ Program[10] = "blocked"
    /\ Program[11] = "stop io" /\ Program[12] = "join worker"
    /\ Program[13] = "stop collector" /\ Program[14] = "join collector"
    /\ Program[15] = "stop metrics" /\ Program[16] = "return" /\ Program[17] = "stop io"
    /\ Program[18] = "join worker" /\ Program[19] = "destroy listener"
    /\ Program[20] = "destroy engine" /\ Program[21] = "stop collector"
    /\ Program[22] = "join collector" /\ Program[23] = "stop metrics"
    /\ Len(Program) = 23
  BY DEF Program

\* Most lines of Program occur once.
LEMMA Place ==
    ASSUME NEW m \in 1 .. Len(Program)
    PROVE  /\ Program[m] = "create registry" => m = 1
           /\ Program[m] = "set pointers" => m = 2
           /\ Program[m] = "start collector" => m = 3
           /\ Program[m] = "construct listener" => m = 4
           /\ Program[m] = "start worker" => m = 5
           /\ Program[m] = "SIGINT" => m = 6
           /\ Program[m] = "SIGTERM" => m = 7
           /\ Program[m] = "check" => m = 8
           /\ Program[m] = "block" => m = 9
           /\ Program[m] = "blocked" => m = 10
           /\ Program[m] = "stop io" => m \in {11, 17}
           /\ Program[m] = "join worker" => m \in {12, 18}
           /\ Program[m] = "stop collector" => m \in {13, 21}
           /\ Program[m] = "join collector" => m \in {14, 22}
           /\ Program[m] = "stop metrics" => m \in {15, 23}
           /\ Program[m] = "return" => m = 16
           /\ Program[m] = "destroy listener" => m = 19
           /\ Program[m] = "destroy engine" => m = 20
  <1>0. m \in 1 .. 23
    BY Lines
  <1>1. \/ m = 1 \/ m = 2 \/ m = 3 \/ m = 4 \/ m = 5 \/ m = 6
        \/ m = 7 \/ m = 8 \/ m = 9 \/ m = 10 \/ m = 11 \/ m = 12
        \/ m = 13 \/ m = 14 \/ m = 15 \/ m = 16 \/ m = 17 \/ m = 18
        \/ m = 19 \/ m = 20 \/ m = 21 \/ m = 22 \/ m = 23
    BY ONLY <1>0
  <1> QED BY ONLY <1>1, Lines, ZenonT(30)

LEMMA Places ==
    /\ At("create registry") => main = 1
    /\ At("set pointers") => main = 2
    /\ At("start collector") => main = 3
    /\ At("construct listener") => main = 4
    /\ At("start worker") => main = 5
    /\ At("SIGINT") => main = 6
    /\ At("SIGTERM") => main = 7
    /\ At("check") => main = 8
    /\ At("block") => main = 9
    /\ At("blocked") => main = 10
    /\ At("stop io") => main \in {11, 17}
    /\ At("join worker") => main \in {12, 18}
    /\ At("stop collector") => main \in {13, 21}
    /\ At("join collector") => main \in {14, 22}
    /\ At("stop metrics") => main \in {15, 23}
    /\ At("return") => main = 16
    /\ At("destroy listener") => main = 19
    /\ At("destroy engine") => main = 20
  BY Place DEF At, Running

LEMMA Goals == /\ Goto("check") => main' = 8
               /\ Goto("return") => main' = 16
  BY Place DEF Goto

----------------------------------------------------------------------------
(* The inductive invariant *)

\* No use of a metric has gone wrong, and none is about to.
UsesOK ==
    /\ todo \in [Users -> Seq(Kinds)]
    /\ at \in [Users -> {"idle", "checked", "family", "null", "metric"}]
    /\ ~dangling
    /\ \A u \in Users : /\ at[u] # "null"
                        /\ at[u] # "idle" => todo[u] # << >>

\* What main has done so far, by the line it is at.
PlaceOK ==
    /\ main \in 0 .. 24
    /\ main \in 2 .. 15 => registry
    /\ main \in 3 .. 15 => pointers
    /\ main \in 1 .. 3 => collector = "none"
    /\ main \in {15, 23, 24} => collector \in {"none", "ended"}
    /\ main \in 1 .. 5 => worker = "none"
    /\ main \in 13 .. 24 => worker \in {"none", "ended"}
    /\ main \in 5 .. 19 => io
    /\ main \in 1 .. 20 => engine

\* What the threads use is there as long as they are.
ThreadsOK ==
    /\ collector \in {"none", "test", "collect", "ended"}
    /\ worker \in {"none", "start", "run", "handler", "ended"}
    /\ collector \in {"test", "collect"} => registry /\ pointers
    /\ worker \in {"start", "run", "handler"} => registry /\ pointers /\ io /\ engine

SignalsOK == registered \subseteq Signals /\ signal \in 0 .. 2

SessionsOK ==
    /\ handled \in Sessions \cup {NoSession}
    /\ worker = "handler" <=> handled # NoSession
    /\ pending \in [Sessions -> {"none", "handshake", "read"}]
    /\ \A s \in Sessions : pending[s] # "none" => io /\ s \in connected
    /\ handled \in Sessions => handled \in connected
    /\ subscribers \subseteq connected /\ broken \subseteq connected
    /\ connected \subseteq Sessions

Inv == UsesOK /\ PlaceOK /\ ThreadsOK /\ SignalsOK /\ SessionsOK

LEMMA InitInv == Init => Inv
  <1> SUFFICES ASSUME Init PROVE Inv
    OBVIOUS
  <1>1. UsesOK
    <2>1. \A u \in Users : << >> \in Seq(Kinds)
      BY EmptySeq
    <2> QED BY <2>1 DEF Init, MetricsInit, UsesOK
  <1>2. PlaceOK
    BY DEF Init, PlaceOK
  <1>3. ThreadsOK
    BY DEF Init, ThreadsOK
  <1>4. SignalsOK
    BY DEF Init, SignalsOK
  <1>5. SessionsOK
    BY ServerAssumption DEF Init, SessionsOK
  <1> QED BY <1>1, <1>2, <1>3, <1>4, <1>5 DEF Inv

\* Each part depends on a few variables only.
LEMMA Frames ==
    /\ UsesOK /\ UNCHANGED <<todo, at, dangling>> => UsesOK'
    /\ ThreadsOK /\ UNCHANGED <<collector, worker, registry, pointers, io, engine>>
         => ThreadsOK'
    /\ SignalsOK /\ UNCHANGED <<registered, signal>> => SignalsOK'
    /\ SessionsOK /\ UNCHANGED <<worker, handled, pending, io, connected, subscribers, broken>>
         => SessionsOK'
    /\ PlaceOK /\ UNCHANGED <<main, collector, worker, registry, pointers, io, engine>>
         => PlaceOK'
  <1>1. UsesOK /\ UNCHANGED <<todo, at, dangling>> => UsesOK'
    BY DEF UsesOK
  <1>2. ThreadsOK /\ UNCHANGED <<collector, worker, registry, pointers, io, engine>>
          => ThreadsOK'
    BY DEF ThreadsOK
  <1>3. SignalsOK /\ UNCHANGED <<registered, signal>> => SignalsOK'
    BY DEF SignalsOK
  <1>4. SessionsOK /\ UNCHANGED <<worker, handled, pending, io, connected, subscribers, broken>>
          => SessionsOK'
    BY DEF SessionsOK
  <1>5. PlaceOK /\ UNCHANGED <<main, collector, worker, registry, pointers, io, engine>>
          => PlaceOK'
    BY DEF PlaceOK
  <1> QED BY <1>1, <1>2, <1>3, <1>4, <1>5

----------------------------------------------------------------------------
(* A use of a metric by a thread that finds the metrics complete *)

LEMMA UseEndsKeeps ==
    ASSUME UsesOK, NEW u \in Users, todo[u] # << >>, UseEnds(u), ~dangling'
    PROVE  UsesOK'
  <1>1. Tail(todo[u]) \in Seq(Kinds)
    BY HeadTailProperties DEF UsesOK
  <1> QED BY <1>1 DEF UseEnds, UsesOK

LEMMA MetricStepKeeps ==
    ASSUME UsesOK, registry, pointers, NEW u \in Users, MetricStep(u)
    PROVE  UsesOK' /\ UNCHANGED <<registry, pointers>>
  <1>1. CASE CheckMetric(u)
    <2>1. CASE at' = [at EXCEPT ![u] = "checked"] /\ UNCHANGED todo
      BY <1>1, <2>1 DEF CheckMetric, UsesOK
    <2>2. CASE UseEnds(u)
      <3>1. todo[u] # << >> /\ ~dangling' /\ UNCHANGED <<registry, pointers>>
        BY <1>1 DEF CheckMetric, UsesOK
      <3> QED BY <2>2, <3>1, UseEndsKeeps
    <2> QED BY <1>1, <2>1, <2>2 DEF CheckMetric
  <1>2. CASE ReadPointer(u)
    <2>0. UNCHANGED <<registry, pointers>> /\ todo[u] # << >>
      BY <1>2 DEF ReadPointer, UsesOK
    <2>1. CASE Dereference(pointers) /\ UseEnds(u)
      <3>1. ~dangling'
        BY <2>1 DEF Dereference, UsesOK
      <3> QED BY <2>0, <2>1, <3>1, UseEndsKeeps
    <2>2. CASE at' = [at EXCEPT ![u] = "family"] /\ UNCHANGED <<todo, dangling>>
      BY <2>0, <2>2 DEF UsesOK
    <2> QED BY <1>2, <2>1, <2>2 DEF ReadPointer
  <1>3. CASE GetOrCreate(u)
    <2>1. at[u] # "null" /\ at[u] # "idle"
      BY <1>3 DEF GetOrCreate, UsesOK
    <2>2. FamilyOf(u)
      BY <1>3, <2>1 DEF GetOrCreate, FamilyOf
    <2>3. ~dangling'
      BY <1>3, <2>2 DEF GetOrCreate, Dereference, UsesOK
    <2> QED BY <1>3, <2>1, <2>3 DEF GetOrCreate, UsesOK
  <1>4. CASE UseMetric(u)
    <2>1. todo[u] # << >> /\ ~dangling' /\ UseEnds(u) /\ UNCHANGED <<registry, pointers>>
      BY <1>4 DEF UseMetric, Dereference, UsesOK
    <2> QED BY <2>1, UseEndsKeeps
  <1> QED BY <1>1, <1>2, <1>3, <1>4 DEF MetricStep

----------------------------------------------------------------------------
(* The steps of main *)

LEMMA StartMetricsKeeps == Inv /\ StartMetrics => Inv'
  <1> SUFFICES ASSUME Inv, StartMetrics PROVE Inv'
    OBVIOUS
  <1> USE DEF Inv
  <1>1. /\ \/ main = 1 /\ registry' /\ pointers' = pointers
           \/ main = 2 /\ registry' = registry /\ pointers'
        /\ main' = main + 1
        /\ UNCHANGED <<cached, todo, at, tracker, dangling>>
    BY Places DEF StartMetrics, StartRegistry, StartPointers, Proceed
  <1>2. UNCHANGED <<running, registered, signal, collector, collecting, worker, handled,
                    ioStopped, io, engine, pending, connected, broken, subscribers>>
    BY DEF StartMetrics, collectorVars, workerVars, sessionVars
  <1>3. UsesOK' /\ SignalsOK' /\ SessionsOK'
    BY <1>1, <1>2, Frames
  <1>4. ThreadsOK'
    BY <1>1, <1>2 DEF ThreadsOK, PlaceOK
  <1>5. main = 2 => registry
    BY DEF PlaceOK
  <1>6. PlaceOK'
    BY <1>1, <1>2, <1>5 DEF PlaceOK
  <1> QED BY <1>3, <1>4, <1>6

LEMMA StartCollectorKeeps == Inv /\ StartCollector => Inv'
  <1> SUFFICES ASSUME Inv, StartCollector PROVE Inv'
    OBVIOUS
  <1> USE DEF Inv
  <1>1. main = 3 /\ ((main' = 4 /\ collector' = "test") \/ (main' = 0 /\ collector' = collector))
    <2>1. main = 3
      BY Places DEF StartCollector
    <2>2. (main' = main + 1 /\ collector' = "test") \/ (main' = 0 /\ collector' = collector)
      BY DEF StartCollector, Proceed
    <2> QED BY ONLY <2>1, <2>2
  <1>2. UNCHANGED <<registered, signal, worker, handled, io, engine, pending, connected,
                    broken, subscribers, registry, pointers, todo, at, dangling>>
    BY DEF StartCollector, workerVars, sessionVars, metricVars
  <1>3. UsesOK' /\ SignalsOK' /\ SessionsOK'
    BY <1>2, Frames
  <1>4. PlaceOK' /\ ThreadsOK'
    BY <1>1, <1>2 DEF PlaceOK, ThreadsOK
  <1> QED BY <1>3, <1>4

LEMMA ConstructListenerKeeps == Inv /\ ConstructListener => Inv'
  <1> SUFFICES ASSUME Inv, ConstructListener PROVE Inv'
    OBVIOUS
  <1> USE DEF Inv
  <1>1. main = 4 /\ ((main' = 5 /\ io') \/ (main' = 0 /\ io' = io))
    <2>1. main = 4
      BY Places DEF ConstructListener
    <2>2. (main' = main + 1 /\ io') \/ (main' = 0 /\ io' = io)
      BY DEF ConstructListener, Proceed
    <2> QED BY ONLY <2>1, <2>2
  <1>2. UNCHANGED <<registered, signal, collector, worker, handled, engine, pending, connected,
                    broken, subscribers, registry, pointers, todo, at, dangling>>
    BY DEF ConstructListener, collectorVars, workerVars, metricVars
  <1>3. UsesOK' /\ SignalsOK'
    BY <1>2, Frames
  <1>4. PlaceOK' /\ ThreadsOK' /\ SessionsOK'
    BY <1>1, <1>2 DEF PlaceOK, ThreadsOK, SessionsOK
  <1> QED BY <1>3, <1>4

LEMMA StartWorkerKeeps == Inv /\ StartWorker => Inv'
  <1> SUFFICES ASSUME Inv, StartWorker PROVE Inv'
    OBVIOUS
  <1> USE DEF Inv
  <1>1. main = 5 /\ ((main' = 6 /\ worker' = "start") \/ (main' = 16 /\ worker' = worker))
    <2>1. main = 5
      BY Places DEF StartWorker
    <2>2. \/ main' = main + 1 /\ worker' = "start"
          \/ Goto("return") /\ worker' = worker
      BY DEF StartWorker, Proceed
    <2>3. Goto("return") => main' = 16
      BY ONLY Goals
    <2> QED BY ONLY <2>1, <2>2, <2>3
  <1>2. UNCHANGED <<registered, signal, collector, handled, io, engine, pending, connected,
                    broken, subscribers, registry, pointers, todo, at, dangling>>
    BY DEF StartWorker, collectorVars, sessionVars, metricVars
  <1>3. UsesOK' /\ SignalsOK'
    BY <1>2, Frames
  <1>4. worker = "none"
    BY <1>1 DEF PlaceOK
  <1>5. PlaceOK' /\ ThreadsOK' /\ SessionsOK'
    BY <1>1, <1>2, <1>4 DEF PlaceOK, ThreadsOK, SessionsOK
  <1> QED BY <1>3, <1>5

\* From the registration of the handlers to the end of the wait nothing else
\* changes.
LEMMA WaitKeeps == Inv /\ (Register \/ Wait \/ WakeUp) => Inv'
  <1> SUFFICES ASSUME Inv, Register \/ Wait \/ WakeUp PROVE Inv'
    OBVIOUS
  <1> USE DEF Inv
  <1>1. main \in 6 .. 10 /\ main' \in 6 .. 11
    <2>1. CASE Register
      <3>1. (At("SIGINT") \/ At("SIGTERM")) /\ main' = main + 1
        BY <2>1 DEF Register, Proceed
      <3>2. main = 6 \/ main = 7
        BY ONLY <3>1, Places
      <3> QED BY <3>1, <3>2
    <2>2. CASE Wait
      <3>1. \/ At("check") /\ main' = main + 1
            \/ At("check") /\ main' = main + 3
            \/ At("block") /\ main' = main + 1
        BY <2>2 DEF Wait, Proceed
      <3>2. (At("check") => main = 8) /\ (At("block") => main = 9)
        BY ONLY Places
      <3> QED BY <3>1, <3>2
    <2>3. CASE WakeUp
      <3>1. At("blocked") /\ Goto("check")
        BY <2>3 DEF WakeUp
      <3>2. main = 10
        BY ONLY <3>1, Places
      <3> QED BY <3>1, <3>2, Goals
    <2> QED BY <2>1, <2>2, <2>3
  <1>2. UNCHANGED <<signal, collector, worker, handled, io, engine, pending, connected,
                    broken, subscribers, registry, pointers, todo, at, dangling>>
    BY DEF Register, Wait, WakeUp, collectorVars, workerVars, sessionVars, metricVars
  <1>3. SignalsOK'
    <2>1. Register => Program[main] \in Signals
      BY DEF Register, At, Signals
    <2> QED BY <1>2, <2>1 DEF Register, Wait, WakeUp, SignalsOK
  <1>4. UsesOK' /\ ThreadsOK' /\ SessionsOK'
    BY <1>2, Frames
  <1>5. PlaceOK'
    BY <1>1, <1>2 DEF PlaceOK
  <1> QED BY <1>3, <1>4, <1>5

LEMMA StopThreadsKeeps == Inv /\ (StopListener \/ StopCollector) => Inv'
  <1> SUFFICES ASSUME Inv, StopListener \/ StopCollector PROVE Inv'
    OBVIOUS
  <1> USE DEF Inv
  <1>1. /\ main' = main + 1
        /\ \/ main \in {11, 13, 17, 21}
           \/ main \in {12, 18} /\ worker \in {"none", "ended"}
           \/ main \in {14, 22} /\ collector \in {"none", "ended"}
    BY Places DEF StopListener, StopCollector, Proceed
  <1>2. UNCHANGED <<registered, signal, collector, worker, handled, io, engine, pending,
                    connected, broken, subscribers, registry, pointers, todo, at, dangling>>
    BY DEF StopListener, StopCollector, collectorVars, workerVars, sessionVars, metricVars
  <1>3. UsesOK' /\ ThreadsOK' /\ SignalsOK' /\ SessionsOK'
    BY <1>2, Frames
  <1>4. PlaceOK'
    BY <1>1, <1>2 DEF PlaceOK
  <1> QED BY <1>3, <1>4

LEMMA StopManagerKeeps == Inv /\ StopManager => Inv'
  <1> SUFFICES ASSUME Inv, StopManager PROVE Inv'
    OBVIOUS
  <1> USE DEF Inv
  <1>1. main \in {15, 23} /\ main' = main + 1
    BY Places DEF StopManager, Proceed
  <1>2. UNCHANGED <<registered, signal, collector, worker, handled, io, engine, pending,
                    connected, broken, subscribers, todo, at, dangling>>
    BY DEF StopManager, StopMetrics, collectorVars, workerVars, sessionVars
  <1>3. UsesOK' /\ SignalsOK' /\ SessionsOK'
    BY <1>2, Frames
  <1>4. collector \in {"none", "ended"} /\ worker \in {"none", "ended"}
    BY <1>1 DEF PlaceOK
  <1>5. PlaceOK' /\ ThreadsOK'
    BY <1>1, <1>2, <1>4 DEF PlaceOK, ThreadsOK
  <1> QED BY <1>3, <1>5

LEMMA DestroyKeeps == Inv /\ Destroy => Inv'
  <1> SUFFICES ASSUME Inv, Destroy PROVE Inv'
    OBVIOUS
  <1> USE DEF Inv
  <1>1. /\ \/ main = 16 /\ UNCHANGED <<io, engine, pending, subscribers>>
           \/ main = 19 /\ pending' = [s \in Sessions |-> "none"]
              /\ UNCHANGED <<engine, subscribers>>
           \/ main = 20 /\ subscribers' = {} /\ UNCHANGED <<io, pending>>
        /\ main' = main + 1
    BY Places DEF Destroy, Proceed
  <1>2. UNCHANGED <<registered, signal, collector, worker, handled, connected, broken,
                    registry, pointers, todo, at, dangling>>
    BY DEF Destroy, collectorVars, workerVars, metricVars
  <1>3. UsesOK' /\ SignalsOK'
    BY <1>2, Frames
  <1>4. worker \in {"none", "ended"}
    BY <1>1 DEF PlaceOK
  <1>5. PlaceOK' /\ ThreadsOK'
    BY <1>1, <1>2, <1>4 DEF PlaceOK, ThreadsOK
  <1>6. SessionsOK'
    BY <1>1, <1>2, <1>4 DEF SessionsOK
  <1> QED BY <1>3, <1>5, <1>6

LEMMA SignalKeeps ==
    ASSUME Inv, HandlerStep \/ \E name \in Signals : Signalled(name)
    PROVE  Inv'
  <1> USE DEF Inv
  <1>1. main' = main \/ main' = 0 \/ (main = 10 /\ main' = 8)
    BY Places, Goals DEF HandlerStep, Signalled
  <1>2. UNCHANGED <<registered, collector, worker, handled, io, engine, pending, connected,
                    broken, subscribers, registry, pointers, todo, at, dangling>>
    BY DEF HandlerStep, Signalled, collectorVars, workerVars, sessionVars, metricVars
  <1>3. signal' \in 0 .. 2
    BY DEF HandlerStep, HandlerProceeds, Signalled, SignalsOK
  <1>4. UsesOK' /\ ThreadsOK' /\ SessionsOK'
    BY <1>2, Frames
  <1>5. SignalsOK' /\ PlaceOK'
    BY <1>1, <1>2, <1>3 DEF SignalsOK, PlaceOK
  <1> QED BY <1>4, <1>5

----------------------------------------------------------------------------
(* The threads *)

LEMMA CollectorKeeps == Inv /\ CollectorStep => Inv'
  <1> SUFFICES ASSUME Inv, CollectorStep PROVE Inv'
    OBVIOUS
  <1> USE DEF Inv
  <1>1. /\ UNCHANGED <<main, registered, signal, worker, handled, io, engine, pending,
                       connected, broken, subscribers>>
        /\ collector \in {"test", "collect"} /\ collector' \in {"test", "collect", "ended"}
    BY DEF CollectorStep, mainVars, workerVars, sessionVars
  <1>2. registry /\ pointers
    BY <1>1 DEF ThreadsOK
  <1>3. UsesOK' /\ UNCHANGED <<registry, pointers>>
    <2>1. CASE UNCHANGED metricVars
      BY <2>1, Frames DEF metricVars
    <2>2. CASE /\ todo' = [todo EXCEPT !["collector"] = <<"system">>]
               /\ UNCHANGED <<registry, pointers, cached, at, tracker, dangling>>
      <3>1. <<"system">> \in Seq(Kinds) /\ <<"system">> # << >>
        BY DEF Kinds
      <3> QED BY <2>2, <3>1 DEF UsesOK
    <2>3. CASE MetricStep("collector")
      BY <1>2, <2>3, MetricStepKeeps, ServerAssumption
    <2> QED BY <2>1, <2>2, <2>3 DEF CollectorStep
  <1>4. main \notin {15, 23, 24} /\ main \notin 1 .. 3
    BY <1>1 DEF PlaceOK
  <1>5. SignalsOK' /\ SessionsOK'
    BY <1>1, Frames
  <1>6. PlaceOK'
    BY <1>1, <1>3, <1>4 DEF PlaceOK
  <1>7. ThreadsOK'
    BY <1>1, <1>2, <1>3 DEF ThreadsOK
  <1> QED BY <1>3, <1>5, <1>6, <1>7

LEMMA WorkerKeeps == Inv /\ WorkerStep => Inv'
  <1> SUFFICES ASSUME Inv, WorkerStep PROVE Inv'
    OBVIOUS
  <1> USE DEF Inv
  <1>1. /\ UNCHANGED <<main, registered, signal, collector, io, engine, connected, broken,
                       subscribers>>
        /\ worker \in {"start", "run", "handler"} /\ worker' \in {"run", "handler", "ended"}
    BY DEF WorkerStep, WorkerRuns, WorkerUsesMetrics, EndMessage, mainVars, collectorVars,
           workerVars, sessionVars
  <1>2. registry /\ pointers /\ io /\ engine
    BY <1>1 DEF ThreadsOK
  <1>3. UsesOK' /\ UNCHANGED <<registry, pointers>>
    <2>1. CASE WorkerRuns
      BY <2>1, Frames DEF WorkerRuns, metricVars
    <2>2. CASE WorkerUsesMetrics
      BY <1>2, <2>2, MetricStepKeeps, ServerAssumption DEF WorkerUsesMetrics
    <2>3. CASE EndMessage
      <3>1. ~dangling' /\ UNCHANGED <<registry, pointers, todo, at>>
        BY <1>2, <2>3 DEF EndMessage, EndTrack, Dereference, UsesOK
      <3> QED BY <3>1 DEF UsesOK
    <2> QED BY <2>1, <2>2, <2>3 DEF WorkerStep
  <1>4. main \notin 1 .. 5 /\ main \notin 13 .. 24
    BY <1>1 DEF PlaceOK
  <1>5. PlaceOK' /\ ThreadsOK'
    BY <1>1, <1>2, <1>3, <1>4 DEF PlaceOK, ThreadsOK
  <1>6. SignalsOK'
    BY <1>1, Frames
  <1>7. SessionsOK'
    <2>1. CASE WorkerRuns \/ WorkerUsesMetrics
      <3>1. UNCHANGED <<handled, pending>> /\ (worker = "handler" <=> worker' = "handler")
        BY <2>1 DEF WorkerRuns, WorkerUsesMetrics, workerVars, sessionVars
      <3> QED BY <1>1, <3>1 DEF SessionsOK
    <2>2. CASE EndMessage
      <3>1. /\ worker = "handler" /\ worker' = "run" /\ handled' = NoSession
            /\ pending' = [pending EXCEPT ![handled] = "read"]
        BY <2>2 DEF EndMessage
      <3>2. handled \in Sessions /\ handled \in connected
        BY <3>1 DEF SessionsOK
      <3> QED BY <1>1, <1>2, <3>1, <3>2, ServerAssumption DEF SessionsOK
    <2> QED BY <2>1, <2>2 DEF WorkerStep
  <1> QED BY <1>3, <1>5, <1>6, <1>7

\* The listener's handlers run on its thread while it serves.
LEMMA HandlersKeep ==
    ASSUME Inv, NEW s \in Sessions,
           HandleAccept(s) \/ HandleHandshake(s) \/ Break(s) \/ HandleError(s)
    PROVE  Inv'
  <1> USE DEF Inv
  <1>1. /\ UNCHANGED <<main, registered, signal, collector, worker, handled, io, engine,
                       subscribers, registry, pointers, todo, at, dangling>>
        /\ connected' = connected \/ connected' = connected \cup {s}
        /\ broken' = broken \/ (broken' = broken \cup {s} /\ s \in connected)
    BY DEF HandleAccept, HandleHandshake, Break, HandleError, mainVars, collectorVars,
           workerVars, metricVars
  <1>2. worker = "run" => io
    BY DEF ThreadsOK
  <1>3. \/ pending' = pending
        \/ \E p \in {"none", "handshake", "read"} :
              /\ pending' = [pending EXCEPT ![s] = p]
              /\ p # "none" => worker = "run" /\ s \in connected'
    <2>1. CASE HandleAccept(s)
      BY <2>1 DEF HandleAccept, Serving
    <2>2. CASE HandleHandshake(s)
      BY <2>2 DEF HandleHandshake, Serving, SessionsOK
    <2>3. CASE Break(s) \/ HandleError(s)
      BY <2>3 DEF Break, HandleError
    <2> QED BY <2>1, <2>2, <2>3
  <1>4. SessionsOK'
    BY <1>1, <1>2, <1>3 DEF SessionsOK
  <1> QED BY <1>1, <1>4, Frames

LEMMA MessageKeeps ==
    ASSUME Inv, NEW s \in Sessions, HandleMessage(s)
    PROVE  Inv'
  <1> USE DEF Inv
  <1>1. worker = "run" /\ pending[s] = "read"
    BY DEF HandleMessage, Serving
  <1>2. /\ worker' = "handler" /\ handled' = s
        /\ pending' = [pending EXCEPT ![s] = "none"]
        /\ subscribers' = subscribers \/ subscribers' = subscribers \cup {s}
        /\ UNCHANGED <<main, registered, signal, collector, io, engine, connected, broken>>
    BY DEF HandleMessage, mainVars, collectorVars
  <1>3. UsesOK' /\ UNCHANGED <<registry, pointers>>
    <2>1. CASE UNCHANGED metricVars
      BY <2>1, Frames DEF metricVars
    <2>2. CASE Track("worker", <<"counter", "single">>)
      <3>1. <<"counter", "single">> \in Seq(Kinds) /\ <<"counter", "single">> # << >>
        BY DEF Kinds
      <3> QED BY <2>2, <3>1 DEF Track, UsesOK
    <2> QED BY <2>1, <2>2 DEF HandleMessage
  <1>4. s \in connected /\ s # NoSession
    BY <1>1, ServerAssumption DEF SessionsOK
  <1>5. SessionsOK'
    BY <1>2, <1>4 DEF SessionsOK
  <1>6. PlaceOK' /\ ThreadsOK'
    BY <1>1, <1>2, <1>3 DEF PlaceOK, ThreadsOK
  <1>7. SignalsOK'
    BY <1>2, Frames
  <1> QED BY <1>3, <1>5, <1>6, <1>7

LEMMA NextInv == Inv /\ [Next]_vars => Inv'
  <1> SUFFICES ASSUME Inv, [Next]_vars PROVE Inv'
    OBVIOUS
  <1>1. CASE UNCHANGED vars
    <2>1. UNCHANGED <<main, registered, signal, collector, worker, handled, io, engine, pending,
                      connected, broken, subscribers, registry, pointers, todo, at, dangling>>
      BY <1>1 DEF vars, mainVars, collectorVars, workerVars, sessionVars, metricVars
    <2> QED BY <2>1, Frames DEF Inv
  <1>2. CASE MainStep \/ WakeUp
    BY <1>2, StartMetricsKeeps, StartCollectorKeeps, ConstructListenerKeeps, StartWorkerKeeps,
       WaitKeeps, StopThreadsKeeps, StopManagerKeeps, DestroyKeeps DEF MainStep
  <1>3. CASE HandlerStep \/ \E name \in Signals : Signalled(name)
    BY <1>3, SignalKeeps
  <1>4. CASE CollectorStep
    BY <1>4, CollectorKeeps
  <1>5. CASE WorkerStep
    BY <1>5, WorkerKeeps
  <1>6. ASSUME NEW s \in Sessions,
               \/ HandleAccept(s) \/ HandleHandshake(s) \/ Break(s) \/ HandleError(s)
               \/ HandleMessage(s)
        PROVE  Inv'
    BY <1>6, HandlersKeep, MessageKeeps
  <1> QED BY <1>1, <1>2, <1>3, <1>4, <1>5, <1>6 DEF Next

LEMMA Invariance == Spec => []Inv
  BY InitInv, NextInv, PTL DEF Spec

----------------------------------------------------------------------------
(* The flags *)

\* What Inv leaves open of TypeOK.
FlagsOK ==
    /\ registry \in BOOLEAN /\ pointers \in BOOLEAN /\ cached \in BOOLEAN
    /\ dangling \in BOOLEAN /\ tracker \in [Users -> BOOLEAN]
    /\ running \in BOOLEAN /\ collecting \in BOOLEAN /\ ioStopped \in BOOLEAN
    /\ io \in BOOLEAN /\ engine \in BOOLEAN

\* The steps that use a metric.
LEMMA MetricFlags ==
    ASSUME FlagsOK, NEW u \in Users, MetricStep(u)
    PROVE  /\ dangling' \in BOOLEAN /\ cached' \in BOOLEAN
           /\ UNCHANGED <<registry, pointers, tracker>>
  <1>1. CASE CheckMetric(u)
    BY <1>1 DEF CheckMetric, FlagsOK
  <1>2. CASE ReadPointer(u)
    BY <1>2 DEF ReadPointer, Dereference, FlagsOK
  <1>3. CASE GetOrCreate(u)
    BY <1>3 DEF GetOrCreate, Dereference, FlagsOK
  <1>4. CASE UseMetric(u)
    BY <1>4 DEF UseMetric, Dereference, FlagsOK
  <1> QED BY <1>1, <1>2, <1>3, <1>4 DEF MetricStep

\* main.
LEMMA MainFlags == FlagsOK /\ (MainStep \/ WakeUp) => FlagsOK'
  <1> SUFFICES ASSUME FlagsOK, MainStep \/ WakeUp PROVE FlagsOK'
    OBVIOUS
  <1>1. CASE StartMetrics
    BY <1>1 DEF StartMetrics, StartRegistry, StartPointers, FlagsOK, collectorVars, workerVars,
                sessionVars
  <1>2. CASE StartCollector
    BY <1>2 DEF StartCollector, FlagsOK, workerVars, sessionVars, metricVars
  <1>3. CASE ConstructListener
    BY <1>3 DEF ConstructListener, FlagsOK, collectorVars, workerVars, metricVars
  <1>4. CASE StartWorker \/ Register \/ Wait \/ WakeUp
    BY <1>4, ZenonT(30) DEF StartWorker, Register, Wait, WakeUp, FlagsOK, collectorVars, workerVars,
                sessionVars, metricVars
  <1>5. CASE StopListener \/ StopCollector
    BY <1>5, ZenonT(30) DEF StopListener, StopCollector, FlagsOK, collectorVars, workerVars, sessionVars,
                metricVars
  <1>6. CASE StopManager
    BY <1>6 DEF StopManager, StopMetrics, FlagsOK, collectorVars, workerVars, sessionVars
  <1>7. CASE Destroy
    BY <1>7 DEF Destroy, FlagsOK, collectorVars, workerVars, metricVars
  <1> QED BY <1>1, <1>2, <1>3, <1>4, <1>5, <1>6, <1>7 DEF MainStep

\* The other threads, the signals and the connections.
LEMMA OtherFlags ==
    ASSUME FlagsOK,
           \/ HandlerStep \/ CollectorStep \/ WorkerStep
           \/ \E name \in Signals : Signalled(name)
           \/ \E s \in Sessions :
                 HandleAccept(s) \/ HandleHandshake(s) \/ Break(s) \/ HandleError(s) \/ HandleMessage(s)
    PROVE  FlagsOK'
  <1>1. CASE HandlerStep \/ \E name \in Signals : Signalled(name)
    BY <1>1, ZenonT(30) DEF HandlerStep, Signalled, FlagsOK, collectorVars, workerVars,
                sessionVars, metricVars
  <1>2. CASE CollectorStep
    <2>1. UNCHANGED <<running, collecting, ioStopped, io, engine>>
      BY <1>2 DEF CollectorStep, mainVars, workerVars, sessionVars
    <2>2. CASE MetricStep("collector")
      BY <2>1, <2>2, MetricFlags, ServerAssumption DEF FlagsOK
    <2>3. CASE UNCHANGED <<registry, pointers, cached, tracker, dangling>>
      BY <2>1, <2>3 DEF FlagsOK
    <2> QED BY <1>2, <2>2, <2>3 DEF CollectorStep, metricVars
  <1>3. CASE WorkerStep
    <2>1. UNCHANGED <<running, collecting, ioStopped, io, engine>>
      BY <1>3 DEF WorkerStep, WorkerRuns, WorkerUsesMetrics, EndMessage, mainVars, collectorVars,
                  workerVars, sessionVars
    <2>2. CASE WorkerRuns
      BY <2>1, <2>2 DEF WorkerRuns, metricVars, FlagsOK
    <2>3. CASE WorkerUsesMetrics
      BY <2>1, <2>3, MetricFlags, ServerAssumption DEF WorkerUsesMetrics, FlagsOK
    <2>4. CASE EndMessage
      <3>1. dangling' \in BOOLEAN /\ UNCHANGED <<registry, pointers, cached>>
        BY <2>4 DEF EndMessage, EndTrack, Dereference, FlagsOK
      <3>2. tracker' = [tracker EXCEPT !["worker"] = FALSE]
        BY <2>4 DEF EndMessage, EndTrack
      <3>3. tracker' \in [Users -> BOOLEAN]
        BY <3>2 DEF FlagsOK
      <3> QED BY <2>1, <3>1, <3>3 DEF FlagsOK
    <2> QED BY <1>3, <2>2, <2>3, <2>4 DEF WorkerStep
  <1>4. ASSUME NEW s \in Sessions,
               HandleAccept(s) \/ HandleHandshake(s) \/ Break(s) \/ HandleError(s)
        PROVE  FlagsOK'
    BY <1>4 DEF HandleAccept, HandleHandshake, Break, HandleError, FlagsOK, mainVars,
                collectorVars, workerVars, metricVars
  <1>5. ASSUME NEW s \in Sessions, HandleMessage(s) PROVE FlagsOK'
    <2>1. UNCHANGED <<running, collecting, ioStopped, io, engine>>
      BY <1>5 DEF HandleMessage, mainVars, collectorVars
    <2>2. CASE UNCHANGED metricVars
      BY <2>1, <2>2 DEF FlagsOK, metricVars
    <2>3. CASE Track("worker", <<"counter", "single">>)
      <3>1. UNCHANGED <<registry, pointers, cached, dangling>>
        BY <2>3 DEF Track
      <3>2. tracker' = [tracker EXCEPT !["worker"] = registry /\ pointers]
        BY <2>3 DEF Track
      <3>3. tracker' \in [Users -> BOOLEAN]
        BY <3>2 DEF FlagsOK
      <3> QED BY <2>1, <3>1, <3>3 DEF FlagsOK
    <2> QED BY <1>5, <2>2, <2>3 DEF HandleMessage
  <1> QED BY <1>1, <1>2, <1>3, <1>4, <1>5

----------------------------------------------------------------------------
(* The theorems *)

\* The process keeps the types of its variables, with any number of connections.
THEOREM TypeCorrect == Spec => []TypeOK
  <1>1. Init => FlagsOK
    BY DEF Init, MetricsInit, FlagsOK
  <1>2. FlagsOK /\ [Next]_vars => FlagsOK'
    <2> SUFFICES ASSUME FlagsOK, [Next]_vars PROVE FlagsOK'
      OBVIOUS
    <2>1. CASE UNCHANGED vars
      BY <2>1 DEF vars, mainVars, collectorVars, workerVars, sessionVars, metricVars, FlagsOK
    <2> QED BY <2>1, MainFlags, OtherFlags DEF Next
  <1>3. Inv /\ FlagsOK => TypeOK
    <2> SUFFICES ASSUME Inv, FlagsOK PROVE TypeOK
      OBVIOUS
    <2>1. main \in 0 .. Len(Program) + 1
      <3>1. main \in 0 .. 24 /\ Len(Program) = 23
        BY Lines DEF Inv, PlaceOK
      <3> QED BY ONLY <3>1
    <2> QED BY <2>1 DEF Inv, FlagsOK, UsesOK, ThreadsOK, SignalsOK, SessionsOK, TypeOK, MetricsTypeOK
  <1> QED BY <1>1, <1>2, <1>3, Invariance, PTL DEF Spec

\* On every way out of main, with any number of connections and signals, no
\* thread uses a metric, the io_context or the engine after its end.
THEOREM NoUseAfterEnd == Spec => []NothingUsedAfterItsEnd
  <1>1. Inv => NothingUsedAfterItsEnd
    BY DEF Inv, UsesOK, ThreadsOK, NothingUsedAfterItsEnd
  <1> QED BY <1>1, Invariance, PTL

\* All sessions are gone when the io_context is, though the engine still holds
\* the callbacks of those that subscribed.
THEOREM SessionsDie == Spec => []SessionsDieFirst
  <1>1. Inv => SessionsDieFirst
    <2> SUFFICES ASSUME Inv, ~io PROVE Alive = {}
      BY DEF SessionsDieFirst
    <2>1. worker # "handler" /\ handled = NoSession
      BY DEF Inv, ThreadsOK, SessionsOK
    <2>2. \A s \in Sessions : pending[s] = "none" /\ handled # s
      BY <2>1, ServerAssumption DEF Inv, SessionsOK
    <2> QED BY <2>2 DEF Alive, EngineRefs
  <1> QED BY <1>1, Invariance, PTL

=============================================================================
