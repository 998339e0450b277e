----------------------------- MODULE StoreMetrics -----------------------------
(***************************************************************************)
(* A caller of the analytics queue: store_metrics (write_ext.rs) replaces  *)
(* the metrics of a feature cycle.  A call enqueues the                    *)
(* observation_metrics row, the delete of the cycle's phase rows and one   *)
(* observation_phase_metrics row for each of its phases.  It takes no      *)
(* lock, so the events of calls that overlap come in any order between     *)
(* them.  Events of other callers are left out: they are independent of    *)
(* these and take the same way through the queue.                          *)
(***************************************************************************)
EXTENDS AnalyticsQueue

CONSTANT MaxCalls   \* bound: calls of store_metrics for the cycle

ASSUME CallsAssumption == MaxCalls \in Nat

VARIABLE by         \* of each event enqueued: its kind and the call it belongs to

metricsVars == <<vars, by>>

Calls == 1..MaxCalls

\* Calls are numbered in the order in which they begin.
Origins == [call: Calls, kind: {"metric", "delete", "phase"}]

EventsOf(c, kind) == {n \in 1..Len(by) : by[n] = [call |-> c, kind |-> kind]}
Has(c, kind) == EventsOf(c, kind) # {}

Enqueue(c, kind) ==
    /\ EnqueueAnalytics
    /\ by' = Append(by, [call |-> c, kind |-> kind])
-----------------------------------------------------------------------------
EnqueueMetric(c) ==
    /\ ~Has(c, "metric")
    /\ \A b \in Calls : b < c => Has(b, "metric")
    /\ Enqueue(c, "metric")

EnqueueDelete(c) ==
    /\ Has(c, "metric") /\ ~Has(c, "delete")
    /\ Enqueue(c, "delete")

\* Mutant: the phases need not wait for the delete.
EnqueuePhaseEarly(c) ==
    /\ Has(c, "metric")
    /\ Enqueue(c, "phase")

\* The loop over mv.phases: none, or any number.
EnqueuePhase(c) ==
    /\ Has(c, "delete")
    /\ Enqueue(c, "phase")

\* close and drop take the last reference to the store: no call is half-way.
NoCallHalfway == \A c \in Calls : Has(c, "metric") => Has(c, "delete")

MetricsInit == Init /\ by = <<>>

MetricsStep ==
    \E c \in Calls : EnqueueMetric(c) \/ EnqueueDelete(c) \/ EnqueuePhase(c)

QueueStep ==
    /\ DrainStep \/ StoreStep
    /\ (store = "open" /\ store' # "open") => NoCallHalfway
    /\ UNCHANGED by

MetricsSpec == MetricsInit /\ [][MetricsStep \/ QueueStep]_metricsVars

\* As in FairSpec.
FairMetricsSpec ==
    /\ MetricsSpec
    /\ WF_metricsVars(DrainStep /\ UNCHANGED by)
    /\ WF_metricsVars((CloseJoin \/ CloseTimeout) /\ UNCHANGED by)
-----------------------------------------------------------------------------
\* The phase rows in the table after the writes of s, by their events.
PhaseRows(s) ==
    {s[i] : i \in {k \in 1..Len(s) :
        /\ by[s[k]].kind = "phase"
        /\ \A j \in 1..Len(s) : j > k => by[s[j]].kind # "delete"}}

\* Call v had enqueued all its events before w enqueued its first.
Precedes(v, w) ==
    \A i, j \in 1..Len(by) : by[i].call = v /\ by[j].call = w => i < j

(***************************************************************************)
(* "The delete executes before the inserts, ensuring stale phases (from a  *)
(* previous store_metrics call) are removed" (write_ext.rs, store_metrics):*)
(* a phase row of a call and one of an earlier call are in the table       *)
(* together only if the queue has given up the delete of the later one,    *)
(* since it sheds single events and discards whole batches.  Calls that    *)
(* overlap are left out: their deletes may both come before their phases,  *)
(* and then the rows of both stay.                                         *)
(***************************************************************************)
StalePhasesRemoved ==
    \A m, n \in PhaseRows(committed) : Precedes(by[m].call, by[n].call) =>
        EventsOf(by[n].call, "delete") \cap (shed \cup lost) # {}
=============================================================================
