------------------------------ MODULE Metrics ------------------------------
(***************************************************************************)
(* MetricsManager (src/include/utils/metrics_manager.h): the registry that *)
(* owns every metric, raw pointers into it, and the cache of pointers that *)
(* getOrCreateCounter and getOrCreateGauge fill.  Only those two and stop  *)
(* take the mutex: a thread that uses a metric reads registry_, then a     *)
(* pointer, then what it points to, and others may act in between.         *)
(*                                                                         *)
(* There are three kinds of uses.  "counter": the counters and gauges that *)
(* are looked up in a family, whose pointer is not tested; "system": the   *)
(* same, but tested (setSystemMetric); "single": a metric with a pointer   *)
(* of its own (updateBookDepth, updatePoolMetrics).  A LatencyTracker is a *)
(* fourth: it keeps a pointer for the whole of submitOrder.                *)
(***************************************************************************)
EXTENDS Sequences

CONSTANT Users          \* the threads that use metrics

VARIABLES
    registry,   \* whether registry_ holds one
    pointers,   \* whether the pointers to families and single metrics are set
    cached,     \* whether the cache holds a pointer to the metric looked up
    todo,       \* per thread, the kinds of the metrics it is going to use
    at,         \* per thread, how far the use of the first of them has come
    tracker,    \* per thread, whether it has a LatencyTracker with a pointer
    dangling    \* history: something was used that is no longer there

metricVars == <<registry, pointers, cached, todo, at, tracker, dangling>>

Kinds == {"counter", "system", "single"}

MetricsTypeOK ==
    /\ {registry, pointers, cached, dangling} \subseteq BOOLEAN
    /\ todo \in [Users -> Seq(Kinds)]
    /\ at \in [Users -> {"idle", "checked", "family", "null", "metric"}]
    /\ tracker \in [Users -> BOOLEAN]

MetricsInit ==
    /\ registry = FALSE /\ pointers = FALSE /\ cached = FALSE /\ dangling = FALSE
    /\ todo = [u \in Users |-> << >>]
    /\ at = [u \in Users |-> "idle"]
    /\ tracker = [u \in Users |-> FALSE]

----------------------------------------------------------------------------
(* A use, step by step *)

IsIdle(u) == todo[u] = << >>

UseEnds(u) ==
    /\ todo' = [todo EXCEPT ![u] = Tail(@)]
    /\ at' = [at EXCEPT ![u] = "idle"]

\* What u follows a pointer to is there if the pointer is, and the registry.
Dereference(pointer) == dangling' = (dangling \/ ~(pointer /\ registry))

\* The test of registry_, and of the pointer where the code has one, without a
\* lock.  When it fails nothing is counted.
CheckMetric(u) ==
    /\ todo[u] # << >> /\ at[u] = "idle"
    /\ IF registry /\ (Head(todo[u]) = "counter" \/ pointers)
       THEN at' = [at EXCEPT ![u] = "checked"] /\ UNCHANGED todo
       ELSE UseEnds(u)
    /\ UNCHANGED <<registry, pointers, cached, tracker, dangling>>

\* The pointer is read again, and followed at once or passed to getOrCreate.
ReadPointer(u) ==
    /\ at[u] = "checked"
    /\ \/ /\ Head(todo[u]) = "single"
          /\ Dereference(pointers)
          /\ UseEnds(u)
       \/ /\ Head(todo[u]) = "counter"
          /\ at' = [at EXCEPT ![u] = IF pointers THEN "family" ELSE "null"]
          /\ UNCHANGED <<todo, dangling>>
    /\ UNCHANGED <<registry, pointers, cached, tracker>>

\* The pointer to the family that getOrCreate is going to ask: the one it was
\* given, or, for a system gauge, the one it reads itself.
FamilyOf(u) == at[u] = "family" \/ (at[u] = "checked" /\ pointers)

\* getOrCreateCounter, getOrCreateGauge and getOrCreateSystemGauge, under the
\* mutex: only a metric that is not in the cache is asked for in the family.
GetOrCreate(u) ==
    /\ at[u] \in {"family", "null"} \/ (at[u] = "checked" /\ Head(todo[u]) = "system")
    /\ \/ cached /\ UNCHANGED dangling
       \/ ~cached /\ Dereference(FamilyOf(u))
    /\ cached' = TRUE
    /\ at' = [at EXCEPT ![u] = "metric"]
    /\ UNCHANGED <<registry, pointers, todo, tracker>>

\* Increment or Set, without the mutex.
UseMetric(u) ==
    /\ at[u] = "metric"
    /\ Dereference(TRUE)
    /\ UseEnds(u)
    /\ UNCHANGED <<registry, pointers, cached, tracker>>

MetricStep(u) == CheckMetric(u) \/ ReadPointer(u) \/ GetOrCreate(u) \/ UseMetric(u)

\* trackOrderLatency, and then the metrics of kinds.
Track(u, kinds) ==
    /\ tracker' = [tracker EXCEPT ![u] = registry /\ pointers]
    /\ todo' = [todo EXCEPT ![u] = kinds]
    /\ UNCHANGED <<registry, pointers, cached, at, dangling>>

\* The tracker's destructor.
EndTrack(u) ==
    /\ IF tracker[u] THEN Dereference(TRUE) ELSE UNCHANGED dangling
    /\ tracker' = [tracker EXCEPT ![u] = FALSE]
    /\ UNCHANGED <<registry, pointers, cached, todo, at>>

----------------------------------------------------------------------------
(* start and stop *)

\* start takes no lock: the registry is there before the pointers are.
StartRegistry ==
    /\ registry' = TRUE
    /\ UNCHANGED <<pointers, cached, todo, at, tracker, dangling>>

StartPointers ==
    /\ pointers' = TRUE
    /\ UNCHANGED <<registry, cached, todo, at, tracker, dangling>>

\* stop, under the mutex.  The metrics go with the registry.
StopMetrics ==
    /\ registry' = FALSE /\ pointers' = FALSE /\ cached' = FALSE
    /\ UNCHANGED <<todo, at, tracker, dangling>>

=============================================================================
