---------------------------- MODULE AnalyticsQueue ----------------------------
(***************************************************************************)
(* The analytics write queue of unimatrix-store: enqueue_analytics puts an *)
(* event in a bounded channel and never waits (db.rs); one drain task      *)
(* collects events in batches and writes each batch in one transaction,    *)
(* without retrying (analytics.rs).  The store ends with close, which      *)
(* signals the task and waits for it, or is just dropped.                  *)
(* The n-th call of enqueue_analytics carries event n.                     *)
(***************************************************************************)
EXTENDS Integers, Sequences

CONSTANTS
    Capacity,     \* ANALYTICS_QUEUE_CAPACITY
    BatchSize,    \* DRAIN_BATCH_SIZE
    MaxEvents,    \* bound: calls of enqueue_analytics
    Panics        \* may the drain task panic?

ASSUME QueueAssumption ==
    /\ Capacity \in Nat \ {0}
    /\ BatchSize \in Nat \ {0}
    /\ MaxEvents \in Nat
    /\ Panics \in BOOLEAN

VARIABLES
    sent,       \* calls of enqueue_analytics so far
    queue,      \* the channel
    batch,      \* events the drain task has taken out of it
    drain,      \* where the drain task is
    signal,     \* the shutdown signal has been sent
    store,      \* "open", "closing", "closed" or "dropped"
    timedOut,   \* close gave up after DRAIN_SHUTDOWN_TIMEOUT
    committed,  \* the events written, in the order of their writing
    shed,       \* met a full channel; shed_counter is their number
    refused,    \* met a channel whose receiver is gone; nothing counts them
    lost,       \* discarded with their batch, or with a task that panicked
    cut         \* in memory when the process ended

taskVars == <<queue, batch, drain, committed, lost>>
storeVars == <<signal, store, timedOut>>
vars == <<sent, queue, batch, drain, signal, store, timedOut, committed, shed, refused, lost, cut>>

Elements(s) == {s[i] : i \in 1..Len(s)}
-----------------------------------------------------------------------------
\* Mutant: the channel takes one event too many.
EnqueueAnalyticsOverCapacity ==
    /\ store = "open" /\ sent < MaxEvents
    /\ sent' = sent + 1
    /\ \/ /\ drain # "exited" /\ Len(queue) <= Capacity
          /\ queue' = Append(queue, sent + 1)
          /\ UNCHANGED <<shed, refused>>
       \/ /\ drain # "exited" /\ Len(queue) > Capacity
          /\ shed' = shed \cup {sent + 1}
          /\ UNCHANGED <<queue, refused>>
       \/ /\ drain = "exited"
          /\ refused' = refused \cup {sent + 1}
          /\ UNCHANGED <<queue, shed>>
    /\ UNCHANGED <<batch, drain, signal, store, timedOut, committed, lost, cut>>

\* enqueue_analytics: try_send.  A full channel sheds the event and counts it, a
\* closed one discards it silently.  Callers hold a reference to the store, so
\* it is open.
EnqueueAnalytics ==
    /\ store = "open" /\ sent < MaxEvents
    /\ sent' = sent + 1
    /\ \/ /\ drain # "exited" /\ Len(queue) < Capacity
          /\ queue' = Append(queue, sent + 1)
          /\ UNCHANGED <<shed, refused>>
       \/ /\ drain # "exited" /\ Len(queue) >= Capacity
          /\ shed' = shed \cup {sent + 1}
          /\ UNCHANGED <<queue, refused>>
       \/ /\ drain = "exited"
          /\ refused' = refused \cup {sent + 1}
          /\ UNCHANGED <<queue, shed>>
    /\ UNCHANGED <<batch, drain, signal, store, timedOut, committed, lost, cut>>
-----------------------------------------------------------------------------
(* run_drain_task. *)

\* Mutant: the newest event first.
ReceiveNewest ==
    /\ queue # <<>>
    /\ batch' = Append(batch, queue[Len(queue)])
    /\ queue' = SubSeq(queue, 1, Len(queue) - 1)

\* Mutant: the batch is overwritten instead of extended.
ReceiveOverwrites ==
    /\ queue # <<>>
    /\ batch' = <<Head(queue)>>
    /\ queue' = Tail(queue)

\* The receiver hands over the oldest event.
Receive ==
    /\ queue # <<>>
    /\ batch' = Append(batch, Head(queue))
    /\ queue' = Tail(queue)

\* The select is biased: the signal first, then an event, which starts a batch.
SelectEvent ==
    /\ drain = "select" /\ ~signal
    /\ Receive
    /\ drain' = "collect"
    /\ UNCHANGED <<sent, storeVars, committed, shed, refused, lost, cut>>

\* try_recv, and the wait of DRAIN_FLUSH_INTERVAL for more.
CollectEvent ==
    /\ drain = "collect" /\ Len(batch) < BatchSize
    /\ Receive
    /\ UNCHANGED <<sent, drain, storeVars, committed, shed, refused, lost, cut>>

\* Mutant: no deadline; only a full batch is committed.
CollectEndFull ==
    /\ drain = "collect" /\ Len(batch) >= BatchSize
    /\ drain' = "commit"
    /\ UNCHANGED <<sent, queue, batch, storeVars, committed, shed, refused, lost, cut>>

\* The batch is full, or nothing more came until the deadline.
CollectEnd ==
    /\ drain = "collect" /\ (Len(batch) >= BatchSize \/ queue = <<>>)
    /\ drain' = "commit"
    /\ UNCHANGED <<sent, queue, batch, storeVars, committed, shed, refused, lost, cut>>

SelectShutdown ==
    /\ drain = "select" /\ signal
    /\ drain' = "flush"
    /\ UNCHANGED <<sent, queue, batch, storeVars, committed, shed, refused, lost, cut>>

\* drain_remaining_and_commit: everything left, in batches.
FlushEvent ==
    /\ drain = "flush" /\ Len(batch) < BatchSize
    /\ Receive
    /\ UNCHANGED <<sent, drain, storeVars, committed, shed, refused, lost, cut>>

FlushBatch ==
    /\ drain = "flush" /\ batch # <<>> /\ (Len(batch) >= BatchSize \/ queue = <<>>)
    /\ drain' = "flushCommit"
    /\ UNCHANGED <<sent, queue, batch, storeVars, committed, shed, refused, lost, cut>>

\* Mutant: the last, partial batch is not committed.
FlushEndEarly ==
    /\ drain = "flush" /\ queue = <<>>
    /\ drain' = "exited"
    /\ UNCHANGED <<sent, queue, batch, storeVars, committed, shed, refused, lost, cut>>

FlushEnd ==
    /\ drain = "flush" /\ queue = <<>> /\ batch = <<>>
    /\ drain' = "exited"
    /\ UNCHANGED <<sent, queue, batch, storeVars, committed, shed, refused, lost, cut>>

AfterCommit == IF drain = "commit" THEN "select" ELSE "flush"

\* Mutant: the batch is kept after its commit and written again.
CommitBatchKeeps ==
    /\ drain \in {"commit", "flushCommit"} /\ store # "closed"
    /\ committed' = committed \o batch
    /\ drain' = AfterCommit
    /\ UNCHANGED <<sent, queue, batch, storeVars, shed, refused, lost, cut>>

\* commit_batch: all events of the batch in one transaction.  close has
\* closed the pool by the time it returns.
CommitBatch ==
    /\ drain \in {"commit", "flushCommit"} /\ store # "closed"
    /\ committed' = committed \o batch
    /\ batch' = <<>>
    /\ drain' = AfterCommit
    /\ UNCHANGED <<sent, queue, storeVars, shed, refused, lost, cut>>

\* begin, a write or the commit fails: the batch is discarded, not retried.
DiscardBatch ==
    /\ drain \in {"commit", "flushCommit"}
    /\ lost' = lost \cup Elements(batch)
    /\ batch' = <<>>
    /\ drain' = AfterCommit
    /\ UNCHANGED <<sent, queue, storeVars, committed, shed, refused, cut>>

\* The task panics while it writes; the receiver goes with it.
DrainPanic ==
    /\ Panics /\ drain \in {"commit", "flushCommit"}
    /\ lost' = lost \cup Elements(batch) \cup Elements(queue)
    /\ batch' = <<>> /\ queue' = <<>>
    /\ drain' = "exited"
    /\ UNCHANGED <<sent, storeVars, committed, shed, refused, cut>>
-----------------------------------------------------------------------------
(* The end of the store. *)

CloseBegin ==
    /\ store = "open"
    /\ store' = "closing" /\ signal' = TRUE
    /\ UNCHANGED <<sent, taskVars, timedOut, shed, refused, cut>>

\* The task has ended within the grace period.
CloseJoin ==
    /\ store = "closing" /\ drain = "exited"
    /\ store' = "closed"
    /\ UNCHANGED <<sent, taskVars, signal, timedOut, shed, refused, cut>>

CloseTimeout ==
    /\ store = "closing" /\ drain # "exited"
    /\ store' = "closed" /\ timedOut' = TRUE
    /\ UNCHANGED <<sent, taskVars, signal, shed, refused, cut>>

\* Drop: the signal is sent, nobody waits for the task.
DropStore ==
    /\ store = "open"
    /\ store' = "dropped" /\ signal' = TRUE
    /\ UNCHANGED <<sent, taskVars, timedOut, shed, refused, cut>>

\* main returns: the runtime drops the task at its next await.
ProcessExit ==
    /\ store \in {"closed", "dropped"} /\ drain # "exited"
    /\ cut' = Elements(batch) \cup Elements(queue)
    /\ batch' = <<>> /\ queue' = <<>>
    /\ drain' = "exited"
    /\ UNCHANGED <<sent, storeVars, committed, shed, refused, lost>>
-----------------------------------------------------------------------------
Init ==
    /\ sent = 0
    /\ queue = <<>> /\ batch = <<>> /\ drain = "select"
    /\ signal = FALSE /\ store = "open" /\ timedOut = FALSE
    /\ committed = <<>> /\ shed = {} /\ refused = {} /\ lost = {} /\ cut = {}

DrainStep ==
    \/ SelectEvent \/ CollectEvent \/ CollectEnd
    \/ SelectShutdown \/ FlushEvent \/ FlushBatch \/ FlushEnd
    \/ CommitBatch \/ DiscardBatch \/ DrainPanic

StoreStep == CloseBegin \/ CloseJoin \/ CloseTimeout \/ DropStore \/ ProcessExit

Next == EnqueueAnalytics \/ DrainStep \/ StoreStep

Spec == Init /\ [][Next]_vars

\* The runtime polls the drain task, and the timeout of close fires.
FairSpec ==
    /\ Spec
    /\ WF_vars(DrainStep)
    /\ WF_vars(CloseJoin \/ CloseTimeout)
-----------------------------------------------------------------------------
\* The shape of the state, with the bounds on the channel and on a batch.
TypeOK ==
    /\ sent \in 0..MaxEvents
    /\ queue \in Seq(1..MaxEvents) /\ Len(queue) <= Capacity
    /\ batch \in Seq(1..MaxEvents) /\ Len(batch) <= BatchSize
    /\ drain \in {"select", "collect", "commit", "flush", "flushCommit", "exited"}
    /\ signal \in BOOLEAN /\ timedOut \in BOOLEAN
    /\ store \in {"open", "closing", "closed", "dropped"}
    /\ committed \in Seq(1..MaxEvents)
    /\ shed \subseteq 1..MaxEvents /\ refused \subseteq 1..MaxEvents
    /\ lost \subseteq 1..MaxEvents /\ cut \subseteq 1..MaxEvents

Increasing(s) == \A i, j \in 1..Len(s) : i < j => s[i] < s[j]

(***************************************************************************)
(* Events are written in the order in which they were enqueued, and none   *)
(* twice, whatever was shed or discarded between them: store_metrics       *)
(* relies on it when it enqueues the delete before the inserts             *)
(* (write_ext.rs), commit_batch when it does not retry (analytics.rs).     *)
(***************************************************************************)
WrittenInOrder == Increasing(committed)

(***************************************************************************)
(* No event vanishes on the way: each one enqueued is in the channel, in   *)
(* the batch or in the database, or one of the branches that give events   *)
(* up has met it (a full or closed channel, a failed transaction, a panic, *)
(* the end of the process).                                                *)
(***************************************************************************)
Accounted ==
    1..sent = Elements(queue) \cup Elements(batch) \cup Elements(committed)
              \cup shed \cup refused \cup lost \cup cut

(***************************************************************************)
(* When close returns in time, nothing is left behind: every event         *)
(* accepted before it is written, or was discarded by a failed transaction *)
(* (db.rs, close: "flush remaining events and exit").                      *)
(***************************************************************************)
CloseFlushes ==
    store = "closed" /\ ~timedOut =>
        /\ drain = "exited"
        /\ 1..sent = Elements(committed) \cup shed \cup refused \cup lost

\* The queue seen by its callers: what is in memory is one sequence.
Contract == INSTANCE AnalyticsContract WITH
                count <- sent,
                pending <- batch \o queue,
                written <- committed,
                dropped <- shed \cup refused \cup lost \cup cut

(***************************************************************************)
(* The channel, the drain task and the shutdown implement the contract:    *)
(* whatever they do, callers see batches of the oldest events written as a *)
(* whole or given up as a whole.                                           *)
(***************************************************************************)
ImplementsContract == Contract!ContractSpec

(***************************************************************************)
(* An event the channel took does not stay in memory for ever, also when   *)
(* the batch never fills and no other event comes (NF-04), and when close  *)
(* comes while a batch is being collected.                                 *)
(***************************************************************************)
EventuallyResolved ==
    \A n \in 1..MaxEvents :
        n \in Elements(queue) ~> n \in Elements(committed) \cup lost \cup cut
=============================================================================
