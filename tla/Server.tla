------------------------------- MODULE Server -------------------------------
(***************************************************************************)
(* The process: main (src/src/main.cpp), its signal handler, the collector *)
(* thread of SystemMetrics, and the worker thread of the Listener with the *)
(* sessions it serves (src/src/network/listener.cpp).  What a request does *)
(* in the engine is MatchingEngine; here it matters which objects are      *)
(* alive, who refers to them, and who waits for whom.                      *)
(***************************************************************************)
EXTENDS Metrics, Integers

CONSTANTS
    Sessions,       \* the connections that clients make
    NoSession

ASSUME ServerAssumption ==
    /\ Users = {"worker", "collector"}
    /\ NoSession \notin Sessions

VARIABLES
    main,           \* where main is in Program; 0 when the process was killed
    running,        \* g_running
    registered,     \* the signals that handle_signal is registered for
    signal,         \* where the handler is in Handler; 0 when it does not run
    collector,      \* the collector thread
    collecting,     \* SystemMetrics::running_
    worker,         \* the listener's thread
    handled,        \* the session whose handler it is in
    ioStopped,      \* ioc.stop() was called
    io, engine,     \* whether the io_context and the engine exist
    pending,        \* per session, the handler that waits in the io_context
    connected,      \* the sessions that were accepted
    broken,         \* those whose connection is closed
    subscribers     \* those with a callback in the engine's lists

mainVars == <<main, running, registered, signal>>
collectorVars == <<collector, collecting>>
workerVars == <<worker, handled, ioStopped>>
sessionVars == <<io, engine, pending, connected, broken, subscribers>>
vars == <<mainVars, collectorVars, workerVars, sessionVars, metricVars>>

Signals == {"SIGINT", "SIGTERM"}

----------------------------------------------------------------------------
(* What main does, from its first line to the destructors of the statics *)

\* Mutant of Program: the metrics are stopped before those who use them.
ProgramMetricsFirst ==
    <<"create registry", "set pointers", "start collector", "construct listener",
      "start worker", "SIGINT", "SIGTERM", "check", "block", "blocked",
      "stop metrics", "stop io", "join worker", "stop collector", "join collector",
      "return", "stop io", "join worker", "destroy listener", "destroy engine",
      "stop collector", "join collector", "stop metrics">>

\* main, then its return: the destructor of the listener, which stops it once
\* more, the engine's, and those of SystemMetrics and MetricsManager.
Program ==
    <<"create registry", "set pointers", "start collector", "construct listener",
      "start worker", "SIGINT", "SIGTERM", "check", "block", "blocked",
      "stop io", "join worker", "stop collector", "join collector", "stop metrics",
      "return", "stop io", "join worker", "destroy listener", "destroy engine",
      "stop collector", "join collector", "stop metrics">>

Running == main \in 1 .. Len(Program)
Done == main > Len(Program)
At(step) == Running /\ Program[main] = step
Proceed == main' = main + 1

\* Main goes on at a step, which occurs once.
Goto(step) == main' \in 1 .. Len(Program) /\ Program[main'] = step

\* Mutant of Handler: it notifies first.
HandlerNotifiesFirst == <<"notify", "set">>

\* handle_signal.
Handler == <<"set", "notify">>

InHandler(step) == Running /\ signal # 0 /\ Handler[signal] = step

\* Mutant of HandlerProceeds: it does not return.
HandlerNeverReturns == signal' = signal + 1

HandlerProceeds == signal' = (signal + 1) % 3

Init ==
    /\ MetricsInit
    /\ main = 1 /\ running = TRUE /\ registered = {} /\ signal = 0
    /\ collector = "none" /\ collecting = FALSE
    /\ worker = "none" /\ handled = NoSession /\ ioStopped = FALSE
    /\ io = FALSE /\ engine = TRUE
    /\ pending = [s \in Sessions |-> "none"]
    /\ connected = {} /\ broken = {} /\ subscribers = {}

StartMetrics ==
    /\ \/ At("create registry") /\ StartRegistry
       \/ At("set pointers") /\ StartPointers
    /\ Proceed
    /\ UNCHANGED <<running, registered, signal, collectorVars, workerVars, sessionVars>>

\* SystemMetrics::start sets its flag and then makes the thread; when there is no
\* thread to be had nothing catches the exception and the process is aborted.
StartCollector ==
    /\ At("start collector")
    /\ collecting' = TRUE
    /\ \/ Proceed /\ collector' = "test"
       \/ main' = 0 /\ UNCHANGED collector
    /\ UNCHANGED <<running, registered, signal, workerVars, sessionVars, metricVars>>

\* The constructor opens the port, outside the try block of startListening: when
\* it cannot, nothing catches the exception and the process is aborted.
ConstructListener ==
    /\ At("construct listener")
    /\ \/ Proceed /\ io' = TRUE
       \/ main' = 0 /\ UNCHANGED io
    /\ UNCHANGED <<running, registered, signal, engine, pending, connected, broken,
                   subscribers, collectorVars, workerVars, metricVars>>

\* startListening; when there is no thread to be had main returns.
StartWorker ==
    /\ At("start worker")
    /\ \/ Proceed /\ worker' = "start"
       \/ Goto("return") /\ UNCHANGED worker
    /\ UNCHANGED <<running, registered, signal, handled, ioStopped, collectorVars,
                   sessionVars, metricVars>>

Register ==
    /\ At("SIGINT") \/ At("SIGTERM")
    /\ registered' = registered \cup {Program[main]}
    /\ Proceed
    /\ UNCHANGED <<running, signal, collectorVars, workerVars, sessionVars, metricVars>>

\* g_cv.wait: the predicate is tested, and only then does main block.
Wait ==
    /\ \/ At("check") /\ running /\ Proceed
       \/ At("check") /\ ~running /\ main' = main + 3     \* past the wait
       \/ At("block") /\ Proceed
    /\ UNCHANGED <<running, registered, signal, collectorVars, workerVars, sessionVars,
                   metricVars>>

\* A condition variable may wake up without a notification.
WakeUp ==
    /\ At("blocked")
    /\ Goto("check")
    /\ UNCHANGED <<running, registered, signal, collectorVars, workerVars, sessionVars,
                   metricVars>>

StopListener ==
    /\ \/ At("stop io") /\ ioStopped' = TRUE
       \/ At("join worker") /\ worker \in {"none", "ended"} /\ UNCHANGED ioStopped
    /\ Proceed
    /\ UNCHANGED <<running, registered, signal, worker, handled, collectorVars,
                   sessionVars, metricVars>>

StopCollector ==
    /\ \/ At("stop collector") /\ collecting' = FALSE
       \/ At("join collector") /\ collector \in {"none", "ended"} /\ UNCHANGED collecting
    /\ Proceed
    /\ UNCHANGED <<running, registered, signal, collector, workerVars, sessionVars,
                   metricVars>>

\* MetricsManager::stop, or its destructor.
StopManager ==
    /\ At("stop metrics")
    /\ StopMetrics
    /\ Proceed
    /\ UNCHANGED <<running, registered, signal, collectorVars, workerVars, sessionVars>>

\* The end of main.  The io_context takes the handlers that still wait with it,
\* and they the last references to their sessions.
Destroy ==
    /\ \/ /\ At("return")
          /\ UNCHANGED <<io, engine, pending, subscribers>>
       \/ /\ At("destroy listener")
          /\ io' = FALSE /\ pending' = [s \in Sessions |-> "none"]
          /\ UNCHANGED <<engine, subscribers>>
       \/ /\ At("destroy engine")
          /\ engine' = FALSE /\ subscribers' = {}
          /\ UNCHANGED <<io, pending>>
    /\ Proceed
    /\ UNCHANGED <<running, registered, signal, connected, broken, collectorVars,
                   workerVars, metricVars>>

MainStep ==
    \/ StartMetrics \/ StartCollector \/ ConstructListener \/ StartWorker \/ Register \/ Wait
    \/ StopListener \/ StopCollector \/ StopManager \/ Destroy

----------------------------------------------------------------------------
(* Signals *)

\* A signal comes.  One without a handler ends the process.  Handlers of two
\* signals do not overlap here.
Signalled(name) ==
    /\ Running /\ signal = 0
    /\ IF name \in registered THEN signal' = 1 /\ UNCHANGED main
                              ELSE main' = 0 /\ UNCHANGED signal
    /\ UNCHANGED <<running, registered, collectorVars, workerVars, sessionVars, metricVars>>

\* handle_signal clears the flag and notifies, both without the mutex: it may
\* come between any two steps of main.
HandlerStep ==
    /\ \/ InHandler("set") /\ running' = FALSE /\ UNCHANGED main
       \/ InHandler("notify") /\ At("blocked") /\ Goto("check") /\ UNCHANGED running
       \/ InHandler("notify") /\ ~At("blocked") /\ UNCHANGED <<main, running>>
    /\ HandlerProceeds
    /\ UNCHANGED <<registered, collectorVars, workerVars, sessionVars, metricVars>>

----------------------------------------------------------------------------
(* The collector *)

\* collectMetrics, round by round; the gauges differ in their names only.
CollectorStep ==
    /\ Running
    /\ \/ /\ collector = "test" /\ collecting
          /\ collector' = "collect"
          /\ todo' = [todo EXCEPT !["collector"] = <<"system">>]
          /\ UNCHANGED <<registry, pointers, cached, at, tracker, dangling>>
       \/ /\ collector = "test" /\ ~collecting
          /\ collector' = "ended" /\ UNCHANGED metricVars
       \/ /\ collector = "collect" /\ ~IsIdle("collector")
          /\ MetricStep("collector") /\ UNCHANGED collector
       \/ /\ collector = "collect" /\ IsIdle("collector")
          /\ collector' = "test" /\ UNCHANGED metricVars
    /\ UNCHANGED <<mainVars, collecting, workerVars, sessionVars>>

----------------------------------------------------------------------------
(* The listener's thread and its sessions *)

\* Mutant of EngineRefs: the callbacks capture self, not a weak_ptr to it.
EngineRefsStrong == subscribers

\* The sessions that callbacks in the engine's lists keep alive: none, for they
\* capture a weak_ptr.
EngineRefs == {}

\* A session lives as long as a handler, waiting or running, captures self.
Alive == {s \in Sessions : pending[s] # "none" \/ handled = s \/ s \in EngineRefs}

\* run: accept connections, then serve handlers until stopped.
WorkerRuns ==
    /\ Running
    /\ \/ worker = "start" /\ worker' = "run"
       \/ worker = "run" /\ ioStopped /\ worker' = "ended"
    /\ UNCHANGED <<mainVars, collectorVars, handled, ioStopped, sessionVars, metricVars>>

Serving == Running /\ worker = "run" /\ ~ioStopped

\* doAccept's handler makes a session and starts it; the next accept is pending
\* again before it returns.
HandleAccept(s) ==
    /\ Serving /\ s \notin connected
    /\ connected' = connected \cup {s}
    /\ pending' = [pending EXCEPT ![s] = "handshake"]
    /\ UNCHANGED <<mainVars, collectorVars, workerVars, io, engine, broken, subscribers, metricVars>>

\* The websocket handshake; when it fails nothing waits any more.
HandleHandshake(s) ==
    /\ Serving /\ s \notin broken /\ pending[s] = "handshake"
    /\ \E next \in {"read", "none"} : pending' = [pending EXCEPT ![s] = next]
    /\ UNCHANGED <<mainVars, collectorVars, workerVars, io, engine, connected, broken,
                   subscribers, metricVars>>

\* The client or the network ends a connection.
Break(s) ==
    /\ Running /\ s \in connected \ broken
    /\ broken' = broken \cup {s}
    /\ UNCHANGED <<mainVars, collectorVars, workerVars, io, engine, pending, connected,
                   subscribers, metricVars>>

\* A handler that is called with an error returns: nothing waits any more.
HandleError(s) ==
    /\ Serving /\ s \in broken /\ pending[s] # "none"
    /\ pending' = [pending EXCEPT ![s] = "none"]
    /\ UNCHANGED <<mainVars, collectorVars, workerVars, io, engine, connected, broken,
                   subscribers, metricVars>>

\* A message has come: an order, which the engine will count and time, or a
\* subscription, or something else.
HandleMessage(s) ==
    /\ Serving /\ pending[s] = "read"
    /\ worker' = "handler" /\ handled' = s
    /\ pending' = [pending EXCEPT ![s] = "none"]
    /\ \/ Track("worker", <<"counter", "single">>) /\ UNCHANGED subscribers
       \/ subscribers' = subscribers \cup {s} /\ UNCHANGED metricVars
       \/ UNCHANGED <<subscribers, metricVars>>
    /\ UNCHANGED <<mainVars, collectorVars, ioStopped, io, engine, connected, broken>>

WorkerUsesMetrics ==
    /\ Running /\ worker = "handler"
    /\ MetricStep("worker")
    /\ UNCHANGED <<mainVars, collectorVars, workerVars, sessionVars>>

\* submitOrder is left, and the session reads on.
EndMessage ==
    /\ Running /\ worker = "handler" /\ IsIdle("worker")
    /\ EndTrack("worker")
    /\ pending' = [pending EXCEPT ![handled] = "read"]
    /\ worker' = "run" /\ handled' = NoSession
    /\ UNCHANGED <<mainVars, collectorVars, ioStopped, io, engine, connected, broken, subscribers>>

WorkerStep == WorkerRuns \/ WorkerUsesMetrics \/ EndMessage

Next ==
    \/ MainStep \/ WakeUp \/ HandlerStep \/ CollectorStep \/ WorkerStep
    \/ \E name \in Signals : Signalled(name)
    \/ \E s \in Sessions :
          HandleAccept(s) \/ HandleHandshake(s) \/ Break(s) \/ HandleError(s) \/ HandleMessage(s)

\* Threads and handlers that have started are scheduled; signals, messages and
\* wake-ups without cause need not come.  The io_context serves in turn what is
\* ready, so that no other session's messages keep out a handler for ever.
Fairness ==
    /\ WF_vars(MainStep) /\ WF_vars(HandlerStep)
    /\ WF_vars(CollectorStep) /\ WF_vars(WorkerStep)
    /\ \A s \in Sessions : SF_vars(HandleError(s))

Spec == Init /\ [][Next]_vars /\ Fairness

----------------------------------------------------------------------------
(* Properties *)

TypeOK ==
    /\ MetricsTypeOK
    /\ main \in 0 .. Len(Program) + 1
    /\ registered \subseteq Signals /\ signal \in 0 .. 2
    /\ {running, collecting, ioStopped, io, engine} \subseteq BOOLEAN
    /\ collector \in {"none", "test", "collect", "ended"}
    /\ worker \in {"none", "start", "run", "handler", "ended"}
    /\ handled \in Sessions \cup {NoSession} /\ (worker = "handler" <=> handled # NoSession)
    /\ pending \in [Sessions -> {"none", "handshake", "read"}]
    /\ subscribers \subseteq connected /\ broken \subseteq connected

\* Whichever way the process ends, no thread is still at work on a metric, the
\* io_context or the engine when it goes: a metric is never used after the
\* registry it lived in, and the listener's thread has ended before the rest.
NothingUsedAfterItsEnd ==
    /\ ~dangling
    /\ worker \in {"start", "run", "handler"} => io /\ engine

\* A session holds a socket of the io_context and must not outlive it, whatever
\* callbacks the engine, which does, still has in its lists.
SessionsDieFirst == ~io => Alive = {}

\* ``graceful shutdown'' (main.cpp:38): a signal whose handler notifies main while
\* it is blocked ends the process, after both threads have been waited for.  One
\* that comes between the test of the flag and the wait is lost (main.cpp:15), and
\* it takes the next to stop the process.
SignalStops == (At("blocked") /\ InHandler("notify")) ~> Done

\* A closed connection's session is freed, though the engine keeps its callbacks.
ClosedAreFreed == \A s \in Sessions : (s \in broken) ~> (s \notin Alive \/ ~Running)

=============================================================================
