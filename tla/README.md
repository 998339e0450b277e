# Unimatrix: a TLA+ verification project

Unimatrix is a knowledge server for coding agents, written in Rust.  Agents talk to it
over MCP (stdio, a Unix socket, HTTP) and over a hook socket; it keeps *entries* (pieces
of knowledge with a lifecycle and a correction history) in SQLite, an HNSW vector index
beside them in memory and on disk, and a background tick that maintains both.

This directory models the parts of it that keep state others rely on: the entries and
their counters, the lifecycle of an entry under concurrent calls, the vector index
against the table it mirrors, the files of the index dump, the queue of analytics writes,
the transcript buffers of the sessions, the event queue of the hook client, the life of
the daemon process, and the handle of the NLI model.  The modules are checked with TLC on
small instances.  Every invariant that a passing run checks, and both refinements, are also
proved with TLAPS for every value of the constants (section 4 says under which conditions);
liveness is checked by TLC alone.

    tlc -workers 2 -config MCEntryStore.cfg MCEntryStore      one run
    tlapm EntryStoreProofs.tla                                the proofs of a module

`PROJECT.json` lists the components, the runs, the definitions with the source lines they
model, one mutant per checked property, the hazards of the code, the divergences found,
and the theorems.

## 1. Inventory

Paths are relative to `src/crates/`.

### 1.1 Entry store (`unimatrix-store`: write.rs, write_ext.rs, read.rs, counters.rs)

* State: the table ENTRIES (status, pre_quarantine_status, supersedes, superseded_by,
  correction_count, content_hash, previous_hash, version, and usage columns); COUNTERS with
  one row per status and `next_entry_id`; VECTOR_MAP (entry id to data id).
* Operations: `insert`, `update`, `update_status`, `delete`, `update_entry_status_extended`,
  `correct_entry`, `put_vector_mapping`, `rewrite_vector_map`.  Each is one transaction on the
  only write connection.
* Hard: the counters are maintained by hand, with a decrement that saturates; links between
  entries are ids without foreign keys and survive the deletion of their target.
* Correct when: counters equal what the table holds; an id is never handed out twice; links
  never name an unrelated entry; the integrity check (`chain_verify.rs`) stays clean.

### 1.2 Entry lifecycle (`unimatrix-server`: server.rs, mcp/tools.rs, background.rs)

* State: which calls are in flight and what each has read; the snapshot the tick works on;
  `consecutive_bad_cycles` of the effectiveness state.
* Operations: `context_store`, `context_correct`, `context_deprecate`, `context_quarantine`
  (quarantine and restore), auto-quarantine, the dead-knowledge migration.
* Hard: a status change reads the entry up to three times and then writes without looking
  again; the tick writes entries it selected from a snapshot.
* Correct when: counters stay exact; nobody leaves quarantine unasked; a restore returns an
  entry to the status it came from; a corrected entry is not live again.

### 1.3 Vector index and its persistence (`unimatrix-vector`: index.rs, persistence.rs)

* State: the HNSW graph (points are never removed), the IdMap in both directions,
  `next_data_id`; on disk the dump (graph, data, metadata).
* Operations: `allocate_data_id`, `insert_hnsw_only`, `remove_entry`, `compact`, `dump`, `load`.
* Hard: graph and IdMap have separate locks; compaction renumbers the data ids in the
  database, then in memory; the dump is written only at a graceful shutdown, so the database
  is usually ahead of it; three files are published one after the other.
* Correct when: `contains` is truthful, the two directions of the IdMap agree, an entry is mapped
  to its own vector, data ids are unique, and published files describe one state.

### 1.4 Index maintenance (`unimatrix-server`: services/store_ops.rs, store_correct.rs, status.rs)

* State: calls half-way through entry, mapping, point and IdMap; the steps of the tick.
* Operations: store, correct, restore; prune, heal (sub-cases A and B), compaction.
* Hard: any step may fail and leave what came before it; data read before an await is used
  after it, while the tick rewrites the same rows.
* Correct when: every Active entry becomes searchable under its own vector in the end.

### 1.5 Analytics write queue (`unimatrix-store`: analytics.rs, db.rs, metrics.rs)

* State: a bounded channel, the batch of the drain task, the shutdown signal.
* Operations: `enqueue_analytics` (never waits, sheds when full), the drain loop, `close` with
  its timeout, `Drop`, the end of the process; `store_metrics` as a client of it.
* Hard: batches are discarded as a whole and never retried, single events are shed; a partial
  batch must still be written; `close` races the task.
* Correct when: writes keep their order and happen at most once, every event is accounted
  for, `close` in time leaves nothing in memory.

### 1.6 Sessions and transcripts (`unimatrix-server`: infra/session.rs, session_transcript.rs, transcript_hold.rs)

* State: the registry of sessions with feature cycle and transcript buffer; the hold, which
  keeps the buffers of closed sessions; in a buffer a span of bytes with holes, a high-water
  mark and the count of bytes given up.
* Operations: register (with re-adoption of a held buffer), attribution to a cycle by force, by
  stamp or if absent, transcript deltas, close, the two sweeps of the tick, eviction at the cap.
* Hard: registry, hold and buffer have a lock each and a request takes them one after the other;
  deltas come late, twice, out of order and with gaps; the ring tail, hole surgery and collapse
  keep three counts consistent by hand.
* Correct when: a buffer has what it was given and has not given up, it has one owner, what was
  given up is counted once, and no transcript stays for ever.

### 1.7 Hook client and its queue (`unimatrix-server`: uds/hook.rs; `unimatrix-engine`: event_queue.rs)

* State: files of events in a directory shared by all hook processes, without a lock.
* Operations: a hook connects, replays the queue and sends its own request; without a server it
  enqueues (prune, file limit, target file, append).
* Hard: hooks run at once and are killed at any time, a write may stop short; the server comes and
  goes between two sends, and between a send, which nobody acknowledges, and its read.
* Correct when: queued events are sent in order, before the request that follows them, or were lost
  in a way the code accepts; the queue drains.

### 1.8 Daemon process (`unimatrix-server`: main.rs, infra/pidfile.rs, infra/shutdown.rs, uds/mcp_listener.rs)

* State: the processes, the PID file with its lock, two socket paths, the session tasks.
* Operations: a start that replaces the process named by the PID file, `unimatrix stop`, sessions,
  `graceful_shutdown`, crashes.
* Hard: files are unlinked by path; a start that gets no lock goes on; the signal handler comes
  last; the acceptor is aborted inside its own join loop.
* Correct when: one process serves, clients and the stop command reach it, and each process that
  starts or stops gets to the end of it.

### 1.9 Model handle (`unimatrix-server`: infra/nli_handle.rs, embed_handle.rs)

* State: Loading, Ready, Failed, Retrying; a load task; the retry monitor; callers that have seen
  a poisoned session.
* Correct when: a failure with attempts left is followed by an attempt.

### 1.10 Parts not modelled

| Part | State, operations | What is hard | Place in the plan |
|---|---|---|---|
| graph edges (mcp/edge_write.rs, graph_queries.rs) | edges between entries | orphan cleanup against writes | open |
| retention (retention.rs) | activity rows by cycle | open cycles | open |
| tick scheduling (background/tick_loop.rs, job.rs) | jobs by project, timeouts | fairness | open |
| model registry (unimatrix-learn) | shadow and production slots | rollback | open |
| search, briefing, confidence, graph ranking | none of its own | floating-point ranking | stays out |
| migrations, import and export, HTTP, ONNX, observe detectors | one-time or stateless | I/O, numerics | stays out |

### 1.11 How the parts interact

The MCP tools call the services; the services call the store (through the write connection)
and then the vector index (in memory).  The tick reads a snapshot of the store and calls both.
Usage, metrics and co-access go to the analytics queue and are written later by its task.
Only the shutdown dumps the index; the boot joins dump and VECTOR_MAP again.  The models
follow these seams: `EntryLifecycle` extends the store with its callers, `KnowledgeIndex`
extends the index with the services and the tick, `StoreMetrics` extends the queue with a
client, and `VectorDump` refines the dump, one action in `KnowledgeIndex`, into its file
operations.  Hooks reach the listener, which passes deltas and session events to the registry
(`SessionTranscripts`); without a server they fill the queue (`HookQueue`).  `ServerProcess` is the
process around all of it: its shutdown takes the dump that `KnowledgeIndex` and `VectorDump` start
from, and drops the store of `AnalyticsQueue`.

## 2. Modules

    EntryStore            ENTRIES and COUNTERS, one action per transaction
      EntryLifecycle      sessions and the tick around it
      EntryStoreProofs, EntryLifecycleProofs
    VectorIndex           graph, IdMap, allocator, VECTOR_MAP, dump and load (operators)
      KnowledgeIndex      service calls, maintenance tick, kill and restart
      KnowledgeIndexProofs
    VectorDump            the files of a dump, one action per rename
      VectorDumpProofs
    AnalyticsContract     what the queue promises
      AnalyticsQueue      channel, drain task, close, drop, exit
        StoreMetrics      store_metrics as a client
        AnalyticsQueueProofs
    TranscriptBuffer      one buffer: ring tail, holes, collapse (operators)
      SessionTranscripts  registry, hold, requests in flight, sweeps
      SessionTranscriptsProofs
    HookQueue             hook processes and their queue on disk
      HookQueueProofs
    ServerProcess         daemon processes, PID file, sockets, shutdown
      ServerProcessProofs
    ModelHandle           loading, retry monitor, poisoned sessions
    MC*                   instances for TLC

### EntryStore

`entries[i]` is the row of id *i* or `NoRow`; `counters` has the four status counters;
`nextId` is one above the counter `next_entry_id`.  `Insert`, `Update`, `UpdateStatus`,
`Delete`, `UpdateStatusExtended` and `CorrectEntry` are the functions of those names, each with
its counter updates.  `Update` writes every column but pre_quarantine_status, as the code does, to
the row as it stands (section 5 says what its caller in the server does).
SHA-256 is an injective function (`Hash`).  `ChainViolations` is `verify_entries`.  The module
has a specification of its own, `StoreSpec`, with any operation in any order.

### EntryLifecycle

A status change is `Context...` (the tool's read and early return), for a restore
`ReadRestoreTarget` (the read in `restore_with_audit`), `ReadCurrent` (the read in
`change_status_with_audit`, with the early return and the value of pre_quarantine_status), and
`WriteStatus`; `FailCall` ends it anywhere.  `context_correct` is one step, since the status
check that decides is inside the transaction of `correct_entry`.  The tick is `TickClassify`
(which entries are classified bad is an input) or `TickNoReport`, `AutoQuarantine` for each
candidate of the snapshot, then the migration.  `held` is a history variable: the status each
quarantined entry was taken from, or "raced" once a write of the entry has overtaken a call that
had already read it (`Overtakes`).

### VectorIndex and KnowledgeIndex

A point of the graph is the pair of its data id and the entry whose embedding it holds.
`HnswInsert` and `IdMapInsert` are the two halves of `insert_hnsw_only`; `CompactRewrite`,
`CompactSwap` and `CompactReset` are the steps of `compact`; `RetainedMappings` is the filter of
`load`.  In `KnowledgeIndex` each service call is a sequence of actions cut where the code awaits
or releases a lock.  The tick takes its snapshot, reads the stale ratio, prunes, heals at most
`HealBatch` entries and compacts, with a failing variant of every step that can fail.  `Stop` is
the part of `graceful_shutdown` that aborts the tick and dumps; `Restart` is any end of the
process followed by a boot.

### VectorDump

A file holds the number of the dump that wrote it.  `Stage*`, `Publish*` and `Remove*` are the
file operations of `dump` in their order; `ProcessEnds` may come between any two; `Boot` is the
load or the empty index that main.rs falls back to.  Whether hnsw_rs accepts files of two dumps
is left open.  `emptied` is a history variable: the dump of an empty index has removed files, and
no metadata was published since.

### AnalyticsQueue, AnalyticsContract, StoreMetrics

The *n*-th call of `enqueue_analytics` carries event *n*.  The actions follow `run_drain_task`:
the biased select, the collection of a batch, `commit_batch` or its failure,
`drain_remaining_and_commit`.  `CloseTimeout` leaves the task running with the pool closed;
`ProcessExit` takes what is still in memory.  `shed` are the events a full channel gave up, which
`shed_counter` counts, `refused` those that found the task gone, which nothing counts.
`AnalyticsContract` knows only one sequence of pending events; the refinement mapping is
`pending <- batch \o queue`.  `StoreMetrics` adds `by`, the kind of each event and the call of
`store_metrics` it belongs to: a call enqueues its metrics row, the delete of the phases and any
number of phases, one by one and without a lock, so that calls interleave.  `close` takes the store
by value, so no call is half-way then.

### TranscriptBuffer and SessionTranscripts

A buffer is a record of numbers: the bytes are left out, since a position of the stream identifies
them.  `ApplyDelta` is `apply_delta` with its helpers under their own names; `MaxOffset` stands for
the largest u64.  The Vec of holes is a set: a new hole begins at the end of the span, above all
others, the surgery visits them in order, the last one is the highest, and they never overlap, so
that the bytes of all holes can be counted instead of summed.  In `SessionTranscripts` an index into
`bufs` stands for an allocation behind an `Arc`; a buffer is freed with the last one.  `older`
orders the held buffers by `last_activity_at`, an `Instant` of which the code compares nothing but
the order.  A request is cut where it releases a lock: registration into `Readopt` (hold) and
`RegisterInsert` (registry), a delta into `DeltaLookup` and `DeltaApply`.  The sweeps may find a
session or a held buffer expired at any time, the longest inactive first.  `got` (positions a buffer
was given) and `owed` (bytes it had to give up, counted over positions, not holes) are history,
against which the code's bookkeeping is checked.

### HookQueue

A file is a text of events and line ends, because `writeln!` on an unbuffered file writes them
separately, and of what is left of a line whose write was cut short: between two characters (`Stub`),
or inside one (`Torn`), after which the file is no longer UTF-8 (`Damaged`) and `read_to_string`
refuses it.  Time passes where the code reads the clock; names are creation times and may collide.
`hook[h]` is the step of a hook process; `WithoutFiles` makes handles of an unlinked file write to
nothing; `Ascending` is the sort of the file names and of the line numbers.  `FireAndForget` puts a
frame into the socket (`written`, in this order); the server reads it at once or later
(`wire`, `received`), and what it has not read when it goes down is `dropped`.  The history variable
`lost` collects the events the code gives up: pruned, above the limit, failed sends, glued lines and
damaged files, lines appended between the read and the deletion of a replay.  `disturbed` records
what the order of the sends does not survive: two replays at once, a replay that is killed, fails or
finds a file gone or damaged, and a file created below one that a replay has listed.  `prune` and
`enforce_file_limit` are one step (`MakeRoom`), or stop at a file that cannot be removed
(`MakeRoomFails`); what another hook does between them is left out.

### ServerProcess

A path leads to a file or to nothing; a PID file is named after its creator and keeps its text and
lock when the path is unlinked.  The labels of `pc` follow `tokio_main_daemon` from
`handle_stale_pid_file` to the signal handler, and `graceful_shutdown` step by step.  SIGTERM
(`AfterTerm`) kills a process whose handler is not installed yet.  Time-outs may fire at any moment.
`overlapped` records that a start began while another was under way.

### ModelHandle

`state` with the attempts made, the load task, the monitor, and the two locks of `get_provider`
(`SeePoison`, `FailProvider`).

## 3. Runs

CHECK_DEADLOCK is FALSE where a behaviour ends at a bound (no ids, requests or ticks left) or
the system really stops (the store is closed and the task has exited).  In `MCVectorDump` it is
checked: a process can always end and boot again.

| Run | Distinct states | Checks |
|---|---|---|
| MCEntryStore | 43,923 | StoreTypeOK, CountersExact, NextIdFresh, SuccessorLinksBack |
| MCEntryLifecycle | 2,070,006 | TypeOK, ChainClean, CorrectionsTracked, PreQuarantineExact, SupersededRetired, QuarantineLeftOnRequest |
| MCIndexHeal | 344,176 | TypeOK, IdMapBijective, MappedToOwnVector, DataIdsUnique, EventuallySettled |
| MCIndexCrash | 4,201,376 | ReverseMapSound, LoadTruthful |
| MCAnalyticsClose | 171,885 | TypeOK, WrittenInOrder, Accounted, CloseFlushes, StalePhasesRemoved, ImplementsContract, EventuallyResolved |
| MCVectorDump | 4,665 | TypeOK, CompleteDumpExact, MetaNeverAhead |
| MCSessionTranscripts | 62,759 | TypeOK, ContentExact, ElidedExact, OneOwner, ResidencyEnds |
| MCHookQueue | 1,097,318 | TypeOK, OldestFirst, QueuedAccounted, QueueDrains |
| MCServerProcess | 155,365 | TypeOK, ServingAlone, ServingReachable, NoLimbo |

* **MCEntryStore** (two ids, two contents).  Every store operation in any order.  Two ids are
  enough for a correction, its deletion and the attempt to reuse the id; the general case is
  proved.
* **MCEntryLifecycle** (three ids, three contents, one status change in flight, one tick with a
  limit of one bad cycle, entry 1 tagged dead-knowledge).  No two entries have the same content
  (`OwnContents`), so a hash chained onto the wrong row does not match.  A correction or the tick's
  write can fall between the call's read and its write, and the tick holds a stale snapshot while
  the call writes.  Three ids allow a correction of a correction, and two corrections of one
  original: it is quarantined by a call that read it before its correction, restored to Active, and
  corrected again.  Limit 1 makes auto-quarantine possible in the first tick.  An instance with two
  calls in flight and two ids (1.33 million states) was checked once in the same way; more are
  covered by the proofs.
* **MCIndexHeal** (two entries, five data ids, three requests, batches of one).  No restart, no
  compaction; a batch of one makes entries compete for the heal pass, and a quarantine between the
  steps of an insert puts a mapping back behind the prune.
* **MCIndexCrash** (two entries, three data ids, one end of the process at any step, a stale
  trigger of 10 %, so that one stale point triggers a compaction).  `MappedToOwnVector` is not
  claimed here: see the divergences.
* **MCAnalyticsClose** (capacity 3, batches of 2, six events of two calls of `store_metrics`, which
  may overlap; panics).  Six events are twice a metrics row, a delete and a phase, or other numbers
  of phases; they overflow the channel, and a full and a partial batch follow each other.
* **MCVectorDump** (four dumps).  An interrupted dump, an empty one and two complete ones in any
  order.
* **MCSessionTranscripts** (two sessions, two cycles, two requests in flight, one held buffer, five
  bytes a buffer, one hole, three requests).  Three requests are a registration, a delta in flight
  and a registration or delta that overtakes it; the deltas start, leave a gap, split it, exceed
  the cap and exceed the offset.  One held buffer makes the second close evict.  A larger instance
  (340,000 states) was checked once.
* **MCHookQueue** (two hooks, three events, files of one line, room for two, one fault).  Files of
  one line rotate with each event; the file at the start may become too old, and two new ones may
  get the same name.  The fault is a hook killed, a write cut short, a call on a file that fails, or
  a frame that the server does not read at once.
* **MCServerProcess** (three processes, two alive at once, one stop command, one crash, one session
  a process).  The third process replaces a successor of the first, so that what the first left
  behind, or unlinks late, meets a process that did not start it.

### Fairness

`KnowledgeIndex` assumes weak fairness of the tick as a whole (the tick loop in background.rs runs
for as long as the process does; in the liveness run the process does not end) and strong fairness
of the steps of pruning and healing that depend on the database or the embedding model: they may
fail any number of times, but not for ever.  One condition covers all writes to the database
(`TickWrites`), one the insertion into the graph (`HealPoint`).  The strong fairness is per entry
for `HealEmbed`: an entry that can never be embedded would, with the `LIMIT` of the heal query, keep
others out; this is a hazard listed in `PROJECT.json` and not a case the liveness property covers.
Nothing is assumed of the calls: a session may stop anywhere, or fail.

`AnalyticsQueue` assumes weak fairness of the drain task (tokio polls it when it is ready) and of
the end of `close` (the task ends or the timeout fires).  Nobody is assumed to close the store.

`SessionTranscripts` assumes that the sweeps of the tick run again and again, and that a session or
a held buffer is then found expired in the end; it assumes nothing of requests.  `HookQueue` assumes
that some hook process under way always runs on, that the client goes on calling hooks, and that a
server that stays up reads what is in its sockets; the faults of hooks (`HookFault`) are not part of
what is assumed to happen.
`ServerProcess` assumes that a process is scheduled and that blocking work which the runtime waits
for at the exit ends; sessions may stay for ever, and nobody needs to start or stop a process.
`ModelHandle` assumes that loads end and that the monitor wakes from its sleeps.

### Divergences found

Three runs expect a violation.  Each states what a comment of the repository says; the quotations
are in `PROJECT.json` under `findings`.

| Run | Property | What the trace shows |
|---|---|---|
| MCIndexCompactCrash | MappedToOwnVector | A kill after compaction renumbered VECTOR_MAP: the old dump joined with the new numbers gives an entry the vector of another. (Constraints leave out compaction under an insert in flight and the reuse of data ids, below.) |
| MCServerSessions | SessionsJoined | The shutdown aborts the acceptor while it joins the sessions, so a session that is still in a request holds the store when it is unwrapped; the compaction is skipped. |
| MCModelHandle | RetryFollows | The monitor returns on Ready; a poisoned session is then turned into Failed with one attempt, and nothing retries. |

Other properties are stated only as far as they hold:

* `PreQuarantineExact` and `SupersededRetired` except entries on which one call has overtaken
  another: `change_status_with_audit` reads outside the transaction that writes, so a quarantine may
  record Active after a deprecate was written.  The comment in schema.rs ("The status this entry
  held before quarantine") is not true then.
* `LoadTruthful` speaks of the moment of a load.  While the process runs, compaction may swap graph
  and IdMap between the two halves of `insert_hnsw_only`: the point goes to the old graph, the
  mapping to the new IdMap, and `contains` claims an entry that no search finds.
* `DataIdsUnique` is claimed for a process that goes on: after a kill `next_data_id` starts from the
  last dump, or at 0, while VECTOR_MAP keeps the ids given out since, so two entries may share one;
  `MCIndexCrash` shows what is still true then.
* `ReverseMapSound` is about the two directions of the IdMap.  It does not say that a hit belongs to
  the entry it is attributed to: after a kill a data id may have been given out again or renumbered
  (the two items above and MCIndexCompactCrash), and the point behind it be another entry's.
* `MetaNeverAhead` excepts the interrupted dump of an empty index.  The comment of `dump`
  (persistence.rs:26-29) says "A crash at any point therefore never leaves a `.meta` overclaiming a
  missing/torn graph"; but an empty dump removes graph and data while the metadata of its
  predecessor still claims points, and a kill between the removal and the rename of the new metadata
  leaves just that.  The next `load` then fails and main.rs starts with an empty index, which is
  what the dump would have said, so no entry is lost by it.  It also allows the graph of one
  dump beside the metadata of an earlier one; that all three files are of one dump does not hold,
  although the comment goes on "either the prior dump or the new complete one".
* `StalePhasesRemoved` excepts the case that a delete was shed or its batch discarded, and calls that
  overlap: `store_metrics` takes `&self` and enqueues event by event, so two calls for one cycle may
  both have their deletes before their phases, and the rows of both stay.  The comment in
  write_ext.rs:731-734 ("ensuring stale phases ... are removed") overlooks both.
* `CloseFlushes` speaks of `close`; the server's `graceful_shutdown` drops the store without it, and
  what is then cut off at the exit is the variable `cut`.
* `ServingAlone` and `ServingReachable` except starts that overlap.  `handle_stale_socket` says it is
  "called after PidGuard acquisition, so any existing socket is stale", but main.rs goes on when the
  guard is not acquired; two starts at once can then take each other's sockets.
* `OldestFirst` excepts replays that overlap or are cut short, where events arrive twice, and a file
  that is created below one that a replay has listed.  The last exception came out of the proof: the
  invariant failed at `OpenTarget`, and TLC then found the trace on an instance with four events and
  room for four files.  `find_or_create_target` chooses the name of a new file from the clock, and
  the file appears when it is opened; in between, a newer file is created and a replay lists it.
  What is appended to the newer file before the replay reads it is sent, while the older file,
  which appeared after the listing, waits for the next replay.
* `QueuedAccounted` counts an event appended behind a replay's read as lost, and one that the server
  went down without reading as dropped: `fire_and_forget` (transport.rs:130-148) returns when the
  frame is in the socket, and the replay then deletes the file.
* `QueueDrains` stops at the first file that is not UTF-8.  The comment of `replay`
  (event_queue.rs:83-84) says "Malformed lines are skipped (not treated as errors)", but a write cut
  inside a character makes `read_to_string` fail for the whole file: every replay ends there, and
  when it is the newest file every enqueue fails too.  Only an enqueue, which needs the server to be
  away, removes it once it is too old or above the limit of files.
* Seen while modelling and without a property: a session that registers without its cycle and closes
  again replaces its held buffer without a purge record (transcript_hold.rs); a transcript snapshot
  behind a hole carries the base offset of the whole span (session_transcript.rs), although its
  comment says "Logical stream offset of `bytes[0]`"; a caller of `get_provider` that saw a poisoned
  session may, after a reload, fail the healthy new provider (nli_handle.rs).

## 4. Proofs

Eight modules prove theorems about the specifications the runs check, for every value of the
constants that the assumptions below admit.

| Module | Theorem | States |
|---|---|---|
| EntryStoreProofs | StoreTypeCorrect | `StoreSpec => []StoreTypeOK` |
| | StoreCountersExact | `StoreSpec => []CountersExact` |
| | StoreNextIdFresh | `StoreSpec => []NextIdFresh` |
| | StoreLinksBack | `StoreSpec => []SuccessorLinksBack` |
| EntryLifecycleProofs | LifecycleTypeCorrect | `Spec => []TypeOK` |
| | LifecycleImplementsStore | `Spec => StoreSpec` |
| | LifecycleCountersExact | `Spec => []CountersExact` |
| | LifecycleQuarantine | `Spec => QuarantineLeftOnRequest` |
| | LifecycleChainClean | `Spec => []ChainClean` |
| | LifecycleCorrectionsTracked | `Spec => []CorrectionsTracked` |
| | LifecyclePreQuarantineExact | `Spec => []PreQuarantineExact` |
| | LifecycleSupersededRetired | `Spec => []SupersededRetired` |
| KnowledgeIndexProofs | IndexTypeCorrect | `Spec => []TypeOK` |
| | IndexReverseMapSound | `Spec => []ReverseMapSound` |
| | IndexLoadTruthful | `Spec => LoadTruthful` |
| | IndexDataIdsUnique | `Spec /\ [][~TickRewrite]_vars => [](restarts = 0 => DataIdsUnique)` |
| | IndexMappedToOwnVector | the same for `MappedToOwnVector` |
| | IndexIdMapBijective | the same for `IdMapBijective` |
| VectorDumpProofs | DumpTypeCorrect | `Spec => []TypeOK` |
| | DumpExact | `Spec => []CompleteDumpExact` |
| | DumpMetaNeverAhead | `Spec => []MetaNeverAhead` |
| AnalyticsQueueProofs | QueueTypeCorrect | `Spec => []TypeOK` |
| | QueueWrittenInOrder | `Spec => []WrittenInOrder` |
| | QueueAccounted | `Spec => []Accounted` |
| | QueueCloseFlushes | `Spec => []CloseFlushes` |
| | MetricsStalePhases | `MetricsSpec => []StalePhasesRemoved` |
| | QueueImplementsContract | `Spec => ImplementsContract` |
| ServerProcessProofs | ProcessTypeCorrect | `Spec => []TypeOK` |
| | ProcessServesAlone | `Spec => []ServingAlone` |
| | ProcessReachable | `Spec => []ServingReachable` |
| SessionTranscriptsProofs | TranscriptTypeCorrect | `Spec => []TypeOK` |
| | TranscriptContentExact | `Spec => []ContentExact` |
| | TranscriptElidedExact | `Spec => []ElidedExact` |
| | TranscriptOneOwner | `Spec => []OneOwner` |
| HookQueueProofs | QueueDirTypeCorrect | `Spec => []TypeOK` |
| | QueuedEventsAccounted | `Spec => []QueuedAccounted` |
| | EventsOldestFirst | `Spec => []OldestFirst` |

Assumptions on the constants.  All bounds of the models (ids, ticks, restarts, processes, requests,
events, clock) are natural numbers.  Besides:

* `LifecycleAssumption`: DeadKnowledge is a set of ids.
* `IndexAssumption`: `MaxId <= MaxDataId + 1`.  There are as many data ids as entries at least, so
  that a compaction, which numbers the vectors of all entries afresh from 0, has room; the ids of
  the code are 64 bits wide.
* `KnowledgeIndexAssumption`: the heal batch is not 0, the compaction trigger is a percentage.
* `QueueAssumption`: the capacity of the channel and the batch size are not 0.
* `BufferAssumption` and `TranscriptAssumption`: the cap of a buffer and the cap of the hold are not
  0; deltas are pairs of an offset and a length.
* `HookQueueAssumption`: the limits of the event queue are not 0.

Contents, Calls, Sessions, Sids, Workers, Hooks and Features are arbitrary sets: the theorems cover
any number of calls, sessions, requests and hooks in flight.

**The store.**  The inductive invariant is `StoreTypeOK /\ StoreInv`, where `StoreInv` is
`NextIdFresh /\ SuccessorLinksBack /\ CountersExact`.  The parts need each other: an insert keeps
the counters exact only if the row it writes was absent, which is `NextIdFresh`; a new row keeps
`SuccessorLinksBack` only if no old link names its id, which is why `NextIdFresh` speaks of
superseded_by too.  The counting rests on `Recount`: changing one row moves one unit from the
count of its old status to that of its new one.  `MoveCounted`, `NewCounted` and `GoneCounted`
turn it into one lemma for each way an operation touches the counters, and `StoreInvInsert`,
`StoreInvRowWrite`, `StoreInvDelete` and `StoreInvCorrect` are one lemma per operation.  Because
the counters are exact, the branch of `Decrement` that saturates is never taken on a row that
exists.

**The lifecycle.**  `LifecycleInv` is `TypeOK` with `CallsNameRows` (a call in flight names a row
that exists), `QuarantineCallsQuarantine` (a call of kind quarantine writes nothing but
Quarantined) and `MigratesDeadKnowledge` (the tick migrates only tagged entries).  The first is
needed for the type of what a call writes (a restore reads its target from the row), the other
two for the action property.  `LifecycleImplementsStore` shows that every step of the sessions and
the tick is a step of the store or leaves it alone, so `LifecycleCountersExact` is the store's
theorem transferred.  The lifecycle deletes nothing and never calls `update`, hence `ChainClean`,
which the store alone does not guarantee: the invariant says of each row that it is sound
(`SoundRow`), writes that keep content, hash and links (`SameLinks`) keep it, and a correction
chains onto a predecessor that is sound.  `CorrectionsTracked` becomes inductive as `TrackedTable`:
besides, a supersedes link names a row of the table, so that a row that is new has no successors
yet.  `PreQuarantineExact` and `SupersededRetired` follow from `RaceInv`, which says what every
party knows as long as no two changes of the same entry have overlapped: the row agrees with the
status it was quarantined from (`RowExact`), what a call has read of its entry is still so when it
writes (`CallsExact`), and the entries the tick is about to quarantine are still Active
(`TickExact`).  The history variable `held` marks the entry as raced when changes do overlap;
section 3 says what happens then.

**The index.**  `IndexShape` strengthens the type invariant by what a call, a tick or the dump on
disk must have at each step (a call that is about to write knows its entry and its data id; a dump
that has points has its next id), without which the next step would not be typed.  With it
`ReverseMapSound` and `LoadTruthful` are inductive through re-embedding, pruning, compaction and
restarts; the first says that the two directions of the IdMap agree, not whose vector a point
is.  The other three are theorems about a process that has not restarted and does not
compact.  `OneLife` has four parts: `Owned` (a data id that is claimed, by a table, a call or the
tick, is claimed for one entry only and is allocated), `PendingFresh` (ids that calls have allocated
and not yet claimed are different), `PointsKnown` (a point is in the graph before the IdMap names
it) and `ForwardSound` (the two directions of the IdMap agree).  The conditions are not a
convenience: a compaction that races a call breaks uniqueness, and a restart after a crash starts
from a dump older than the table; section 3 tells which runs show this.  `NeverCompacts` discharges
the condition on compaction for `StaleTrigger = 100`, the setting of MCIndexHeal.

**The dump.**  `DumpInv` says, for each step of the dump, which temporary files are complete
(`Staged`), which final files it has already replaced or removed (`Replaced`), and which steps
belong to the dump of an empty index (`Branch`); a file is missing beside metadata that claims
points only while `emptied` says why.  A crash leaves any prefix of this, and a later
dump starts again from any state that satisfies it.

**The analytics queue.**  `QueueInv` is the type with `Accounted` (each event sent is queued, in the
batch, written, shed, refused, lost or cut off, exactly), `Ordered` (what is written, batched and
queued, in this order, increases) and `Phases` (what the drain task holds at each step, and that it
has ended where the store says it is closed).  `QueueImplementsContract` maps the contract's pending
events to `batch \o queue`, and shows step by step that collecting is a stutter and that a commit
takes a prefix of what is pending.  For `StalePhasesRemoved` the events of the calls of
`store_metrics` are followed in the order in which they were enqueued (`MetricsInv`), over the steps
of the queue, which `MetricsOverQueue` shows them to be: a call that begins after another has ended
has its delete between the phases of the two, and since writes keep this order, the delete is
written between them or was given up.

**Processes.**  `TypeOK`, with what it says of locks and open files, is inductive together with the
shape of the state (`LocksOK`), also when starts overlap.  `ProcessInv` is the shape and, as long as
no two starts have overlapped, `Orderly`: there is one process starting (`OneStarter`) and one that
has the PID file open (`OneHolder`); that file is the one at the path, locked and filled in as far
as the process has come (`HoldsPath`, `HasFile`, `LocksHeld`); a start that has waited finds nobody
else with the file (`WayFree`); sockets are bound by the process that thinks so (`SocketsOwn`).

**Transcripts.**  `SessionInv` consists of `RegistryShape`, `HoldOK` (the order of the held sessions
is total and transitive, and the cap holds, which is why an eviction takes the oldest), `BuffersOK`
and `Alone` (two owners of a buffer are the same).  Of each buffer `Fine` says that holes lie within
the span and apart, that above its floor the buffer serves the positions it was given and no others
(`Serves`), and that it has counted what it gave up.  The operations on holes (cutting, dropping the
front, the cap on their number) have a lemma each that `Serves` is kept.

**The event queue of the hooks.**  `HookInv` holds the types and two facts that survive any fault of
a hook: a queued event is written to the socket, given up or readable in a file (`QueueSafe`), and
what a replay has read of a file and not yet sent is still in its hands (`ReplayOK`), so that
removing the file afterwards loses nothing.  `WireInv` adds that what was written to the socket has
been read, will be, or was dropped by a server that went down.  The order needs `HookOrderInv`, in
which `OrderInv` has a part that always holds, `PlaceInv` (events in flight are not in the queue,
`Fresh`; none is written twice, `WrittenOnce`; what was queued before an event is settled or in
front of it, `FileOrder`), and a part, `Tidy`, that holds until the queue is disturbed by
overlapping replays, a replay cut short or a file created below one that is being replayed: what a
replay has listed is all there is in front (`ListOK`), nothing is about to be sent twice (`Unsent`),
and the texts being sent, the hook's own request and the written events are in order (`TextOrder`,
`OwnOrder`, `WrittenOrder`).

**Only model-checked.**  Liveness under fairness (EventuallySettled, EventuallyResolved,
ResidencyEnds, QueueDrains, NoLimbo, RetryFollows) is out of the prover's reach.  `ModelHandle`, the
runs that expect a violation, and whatever the index guarantees when compaction and restarts mix
with calls, beyond the first three theorems about it, stay with TLC on the instances of section 3.

## 5. What the models leave out

* Titles, topics, tags, usage, confidence and timestamps of entries; audit events, which are
  written fire-and-forget after the change; validation and capability checks before it.
* The nearest-neighbour search: a search result is modelled by what IdMap makes of a point.
* The lesson-learned job of mcp/tools.rs (4983-5000), the only caller of `update` in the server: it
  inserts a lesson, deprecates its predecessor and links the two, in five transactions that read and
  write whole records.  What another call changes in between is overwritten; `EntryStore` has
  neither this race nor links set by `update`, and `EntryLifecycle` not the job.
* Points that hnsw_rs holds twice: it does not recognise a point that is inserted again under its
  data id, so that `stale_count` may grow faster in the code than in the model, and compaction come
  earlier; MCIndexCrash compacts at one stale point.
* `VectorIndex::insert`, which repeats in one method what the services do step by step.
* Embedding dimension and content of a vector: whose embedding it is, is all that is kept.
* The marker of the dead-knowledge migration: since its write may fail, the migration may run at
  any tick.
* In `KnowledgeIndex`, the Proposed status and the failure of the reads that only end a call.
* In `StoreMetrics`, the events of other callers of the queue.
* In `SessionTranscripts`, everything of a session but its cycle and its buffer (injection history,
  signals, rework, phase and goal), the purge records and the activity counters; in `HookQueue`, the
  content of events and the framing of messages.
* In `ServerProcess`, what sessions do, the HTTP acceptor as a task of its own (it is stopped with
  the MCP acceptor), connections of the hook listener, I/O errors of the PID file, the reuse of a
  process id, and the stdio mode.

## 6. Plan

Done: EntryStore, EntryLifecycle, VectorIndex, KnowledgeIndex, VectorDump, AnalyticsQueue with
its contract, StoreMetrics, TranscriptBuffer with SessionTranscripts, HookQueue, ServerProcess,
ModelHandle; the proofs of all of them but ModelHandle.

1. Proofs: what the index still guarantees across compactions and restarts (which data ids may be
   shared, and between which entries); safety invariants of ModelHandle.
2. `GraphEdges` (edge writes, orphan cleanup, compaction by the tick), `Retention`, `TickLoop`,
   `ModelRegistry`.
3. The review that reads transcript snapshots, registered and held, while they move.
4. The lesson-learned job as a client of `EntryStore`, with records that are stale when written.
