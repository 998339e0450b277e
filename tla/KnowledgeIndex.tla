--------------------------- MODULE KnowledgeIndex ---------------------------
(***************************************************************************)
(* How the server keeps the vector index in step with the ENTRIES table:   *)
(* store, correct and restore calls that write the entry, VECTOR_MAP, the  *)
(* HNSW graph and the IdMap one after the other (store_ops.rs,             *)
(* store_correct.rs, server.rs), and the maintenance tick that prunes      *)
(* quarantined vectors, heals missing ones and compacts the graph          *)
(* (status.rs, run_maintenance).  The process may be killed at any moment, *)
(* or stop gracefully, and starts again from the database and the dump.    *)
(***************************************************************************)
EXTENDS VectorIndex

CONSTANTS
    Sessions,     \* service calls that may be in flight at once
    HealBatch,    \* heal_pass_batch_size
    StaleTrigger, \* DEFAULT_STALE_RATIO_TRIGGER in percent; 100 never compacts
    MaxRequests,  \* bound: calls made by clients
    MaxRestarts   \* bound: times the process ends and starts again

ASSUME KnowledgeIndexAssumption ==
    /\ HealBatch \in Nat \ {0}
    /\ StaleTrigger \in 0..100
    /\ MaxRequests \in Nat
    /\ MaxRestarts \in Nat

VARIABLES
    status,     \* status column, "Absent" for an id not used yet
    embedded,   \* embedding_dim > 0 in the row
    sess,       \* the calls in flight
    tick,       \* the maintenance tick
    stopping,   \* graceful_shutdown has dumped the index
    requests, restarts

serverVars == <<status, embedded, sess, tick, stopping, requests, restarts>>
vars == <<indexVars, serverVars>>

NoCall == [step |-> "idle", e |-> None, d |-> None]
NoTick == [step |-> "idle", snap |-> {}, emb |-> {}, compact |-> FALSE,
           ids |-> {}, e |-> None, d |-> None]

Stored == {e \in Ids : status[e] # "Absent"}
ActiveIds == {e \in Ids : status[e] = "Active"}
NewId == Cardinality(Stored) + 1

Idle(s) == sess[s].step = "idle"
At(s, step) == sess[s].step = step
Goto(s, step, e, d) == sess' = [sess EXCEPT ![s] = [step |-> step, e |-> e, d |-> d]]

\* A client call: counted, and none is accepted beyond the bound.
Request ==
    /\ requests < MaxRequests
    /\ requests' = requests + 1
-----------------------------------------------------------------------------
(* StoreService::insert.  Validation, the embedding and the near-duplicate  *)
(* check come first and change nothing.                                     *)

BeginStore(s) ==
    /\ Idle(s)
    /\ NewId \in Ids
    /\ Request
    /\ Allocate
    /\ Goto(s, "insert", None, next)
    /\ UNCHANGED <<vmap, points, fwd, rev, disk, status, embedded, tick, stopping, restarts>>

\* The row is written with embedding_dim = 0.
StoreInsert(s) ==
    /\ At(s, "insert")
    /\ NewId \in Ids
    /\ status' = [status EXCEPT ![NewId] = "Active"]
    /\ Goto(s, "map", NewId, sess[s].d)
    /\ UNCHANGED <<indexVars, embedded, tick, stopping, requests, restarts>>

(* StoreService::correct: correct_entry writes the new row, its             *)
(* embedding_dim and its VECTOR_MAP row in one transaction.                 *)

BeginCorrect(s, o) ==
    /\ Idle(s)
    /\ NewId \in Ids
    /\ Request
    /\ Allocate
    /\ Goto(s, "correct", o, next)
    /\ UNCHANGED <<vmap, points, fwd, rev, disk, status, embedded, tick, stopping, restarts>>

CorrectTxn(s) ==
    /\ At(s, "correct")
    /\ NewId \in Ids
    /\ status[sess[s].e] = "Active"
    /\ status' = [status EXCEPT ![sess[s].e] = "Deprecated", ![NewId] = "Active"]
    /\ embedded' = [embedded EXCEPT ![NewId] = TRUE]
    /\ PutMapping(NewId, sess[s].d)
    /\ Goto(s, "hnsw", NewId, sess[s].d)
    /\ UNCHANGED <<points, fwd, rev, next, disk, tick, stopping, requests, restarts>>

(* restore_with_audit: to Active, or to Deprecated if that is where the     *)
(* entry was quarantined from; then the vector is put back if it is gone.   *)

BeginRestore(s, e, to) ==
    /\ Idle(s)
    /\ status[e] = "Quarantined"
    /\ Request
    /\ status' = [status EXCEPT ![e] = to]
    /\ IF embedded[e] THEN Goto(s, "check", e, None) ELSE UNCHANGED sess
    /\ UNCHANGED <<indexVars, embedded, tick, stopping, restarts>>

RestoreCheck(s) ==
    /\ At(s, "check")
    /\ LET e == sess[s].e IN
       sess' = [sess EXCEPT ![s] = IF Contains(e) THEN NoCall
                                   ELSE [step |-> "lookup", e |-> e, d |-> None]]
    /\ UNCHANGED <<indexVars, status, embedded, tick, stopping, requests, restarts>>

\* get_vector_mapping
RestoreLookup(s) ==
    /\ At(s, "lookup")
    /\ Goto(s, "embed", sess[s].e, vmap[sess[s].e])
    /\ UNCHANGED <<indexVars, status, embedded, tick, stopping, requests, restarts>>

\* The mapping read before the embedding is used after it.
RestoreEmbed(s) ==
    /\ At(s, "embed")
    /\ IF sess[s].d # None
       THEN /\ Goto(s, "hnsw", sess[s].e, sess[s].d)
            /\ UNCHANGED next
       ELSE /\ Allocate
            /\ Goto(s, "map", sess[s].e, next)
    /\ UNCHANGED <<vmap, points, fwd, rev, disk, status, embedded, tick, stopping,
                   requests, restarts>>

\* Mutant: the vector never reaches the graph.
PutMapSkipsGraph(s) ==
    /\ At(s, "map")
    /\ PutMapping(sess[s].e, sess[s].d)
    /\ Goto(s, "idmap", sess[s].e, sess[s].d)
    /\ UNCHANGED <<points, fwd, rev, next, disk, status, embedded, tick, stopping,
                   requests, restarts>>

\* put_vector_mapping, in insert and in restore.
PutMap(s) ==
    /\ At(s, "map")
    /\ PutMapping(sess[s].e, sess[s].d)
    /\ Goto(s, "hnsw", sess[s].e, sess[s].d)
    /\ UNCHANGED <<points, fwd, rev, next, disk, status, embedded, tick, stopping,
                   requests, restarts>>

\* insert_hnsw_only takes the two locks one after the other.
InsertPoint(s) ==
    /\ At(s, "hnsw")
    /\ HnswInsert(sess[s].e, sess[s].d)
    /\ Goto(s, "idmap", sess[s].e, sess[s].d)
    /\ UNCHANGED <<vmap, fwd, rev, next, disk, status, embedded, tick, stopping,
                   requests, restarts>>

InsertIdMap(s) ==
    /\ At(s, "idmap")
    /\ IdMapInsert(sess[s].e, sess[s].d)
    /\ sess' = [sess EXCEPT ![s] = NoCall]
    /\ UNCHANGED <<vmap, points, next, disk, status, embedded, tick, stopping,
                   requests, restarts>>

\* An embedding, a query or a transaction fails (the outcome index and the
\* read-back between the mapping and the graph included), or correct_entry
\* rejects the original: the call ends and leaves what it has written.
FailCall(s) ==
    /\ sess[s].step \in {"insert", "correct", "map", "hnsw", "check", "lookup", "embed"}
    /\ sess' = [sess EXCEPT ![s] = NoCall]
    /\ UNCHANGED <<indexVars, status, embedded, tick, stopping, requests, restarts>>

\* context_quarantine and auto-quarantine; the vector stays until the prune.
Quarantine(e) ==
    /\ status[e] \in {"Active", "Deprecated"}
    /\ Request
    /\ status' = [status EXCEPT ![e] = "Quarantined"]
    /\ UNCHANGED <<indexVars, embedded, sess, tick, stopping, restarts>>

Deprecate(e) ==
    /\ status[e] = "Active"
    /\ Request
    /\ status' = [status EXCEPT ![e] = "Deprecated"]
    /\ UNCHANGED <<indexVars, embedded, sess, tick, stopping, restarts>>
-----------------------------------------------------------------------------
(* maintenance_tick and run_maintenance. *)

TickAt(step) == tick.step = step
TickUnchanged == UNCHANGED <<status, sess, stopping, requests, restarts>>

\* load_maintenance_snapshot reads the Active entries, which of them are
\* embedded, and then the stale ratio of the graph.  The tick keeps each part
\* as long as it needs it: emb for the heal pass, snap for a compaction.
TickSnapshot ==
    /\ TickAt("idle") /\ ~stopping
    /\ tick' = [NoTick EXCEPT !.step = "ratio", !.snap = ActiveIds,
                              !.emb = {e \in ActiveIds : embedded[e]}]
    /\ UNCHANGED <<indexVars, embedded>> /\ TickUnchanged

TooStale == StaleCount * 100 > StaleTrigger * Cardinality(points)

TickStaleRatio ==
    /\ TickAt("ratio")
    /\ tick' = [tick EXCEPT !.step = "pruneQuery", !.compact = TooStale,
                            !.snap = IF TooStale THEN @ ELSE {}]
    /\ UNCHANGED <<indexVars, embedded>> /\ TickUnchanged

PruneQuery ==
    /\ TickAt("pruneQuery")
    /\ tick' = [tick EXCEPT !.step = "prune",
                  !.ids = {e \in Ids : vmap[e] # None /\ status[e] = "Quarantined"}]
    /\ UNCHANGED <<indexVars, embedded>> /\ TickUnchanged

PruneQueryFails ==
    /\ TickAt("pruneQuery")
    /\ tick' = [tick EXCEPT !.step = "prune"]
    /\ UNCHANGED <<indexVars, embedded>> /\ TickUnchanged

PruneDelete(e) ==
    /\ TickAt("prune") /\ e \in tick.ids
    /\ vmap' = [vmap EXCEPT ![e] = None]
    /\ tick' = [tick EXCEPT !.step = "pruneRemove", !.ids = @ \ {e}, !.e = e]
    /\ UNCHANGED <<points, fwd, rev, next, disk, embedded>> /\ TickUnchanged

PruneFails(e) ==
    /\ TickAt("prune") /\ e \in tick.ids
    /\ tick' = [tick EXCEPT !.ids = @ \ {e}]
    /\ UNCHANGED <<indexVars, embedded>> /\ TickUnchanged

PruneRemove ==
    /\ TickAt("pruneRemove")
    /\ RemoveEntry(tick.e)
    /\ tick' = [tick EXCEPT !.step = "prune", !.e = None]
    /\ UNCHANGED <<vmap, points, next, disk, embedded>> /\ TickUnchanged

\* Mutant: only entries that were never embedded are healed (sub-case A).
MissingFromIndexNone == {}

\* Sub-case B: embedded according to the snapshot, absent from the index.
MissingFromIndex == {e \in tick.emb : ~Contains(e)}

\* Sub-case A: Active with embedding_dim = 0.
Unembedded == {e \in ActiveIds : ~embedded[e]}

\* At most HealBatch entries: those of sub-case A first.
HealSets(A) ==
    LET B == MissingFromIndex \ A
        Smaller(m, n) == IF m < n THEN m ELSE n IN
    {S \in SUBSET (A \cup B) :
        /\ Cardinality(S \cap A) = Smaller(Cardinality(A), HealBatch)
        /\ Cardinality(S) = Smaller(Cardinality(A \cup B), HealBatch)}

BeginHeal(S) == tick' = [tick EXCEPT !.step = "heal", !.ids = S, !.emb = {}]

HealQuery ==
    /\ TickAt("prune") /\ tick.ids = {}
    /\ \E S \in HealSets(Unembedded) : BeginHeal(S)
    /\ UNCHANGED <<indexVars, embedded>> /\ TickUnchanged

\* The query of sub-case A fails, which counts as no result.
HealQueryFails ==
    /\ TickAt("prune") /\ tick.ids = {}
    /\ \E S \in HealSets({}) : BeginHeal(S)
    /\ UNCHANGED <<indexVars, embedded>> /\ TickUnchanged

\* get_adapter fails: no entry is healed in this tick.
HealUnavailable ==
    /\ TickAt("prune") /\ tick.ids = {}
    /\ BeginHeal({})
    /\ UNCHANGED <<indexVars, embedded>> /\ TickUnchanged

\* Embed the entry, whatever its status is by now, and take its data id from
\* VECTOR_MAP or a new one.
HealEmbed(e) ==
    /\ TickAt("heal") /\ e \in tick.ids
    /\ IF vmap[e] # None
       THEN /\ tick' = [tick EXCEPT !.step = "healHnsw", !.ids = @ \ {e},
                                    !.e = e, !.d = vmap[e]]
            /\ UNCHANGED next
       ELSE /\ Allocate
            /\ tick' = [tick EXCEPT !.step = "healMap", !.ids = @ \ {e},
                                    !.e = e, !.d = next]
    /\ UNCHANGED <<vmap, points, fwd, rev, disk, embedded>> /\ TickUnchanged

\* Bound: a data id is wasted only while enough are left for every call to
\* come and for healing every entry.
SpareDataId == next + (MaxRequests - requests) + MaxId <= MaxDataId + 1

\* get_vector_mapping fails, which counts as no mapping.
HealLookupFails(e) ==
    /\ TickAt("heal") /\ e \in tick.ids
    /\ vmap[e] # None
    /\ SpareDataId
    /\ Allocate
    /\ tick' = [tick EXCEPT !.step = "healMap", !.ids = @ \ {e}, !.e = e, !.d = next]
    /\ UNCHANGED <<vmap, points, fwd, rev, disk, embedded>> /\ TickUnchanged

\* The entry cannot be read or embedded: on to the next one.
HealEmbedFails(e) ==
    /\ TickAt("heal") /\ e \in tick.ids
    /\ tick' = [tick EXCEPT !.ids = @ \ {e}]
    /\ UNCHANGED <<indexVars, embedded>> /\ TickUnchanged

HealMap ==
    /\ TickAt("healMap")
    /\ PutMapping(tick.e, tick.d)
    /\ tick' = [tick EXCEPT !.step = "healHnsw"]
    /\ UNCHANGED <<points, fwd, rev, next, disk, embedded>> /\ TickUnchanged

HealPoint ==
    /\ TickAt("healHnsw")
    /\ HnswInsert(tick.e, tick.d)
    /\ tick' = [tick EXCEPT !.step = "healIdMap"]
    /\ UNCHANGED <<vmap, fwd, rev, next, disk, embedded>> /\ TickUnchanged

HealIdMap ==
    /\ TickAt("healIdMap")
    /\ IdMapInsert(tick.e, tick.d)
    /\ tick' = [tick EXCEPT !.step = "healDim"]
    /\ UNCHANGED <<vmap, points, next, disk, embedded>> /\ TickUnchanged

\* update_embedding_dim comes last: it confirms the healing.
HealDim ==
    /\ TickAt("healDim")
    /\ embedded' = [embedded EXCEPT ![tick.e] = TRUE]
    /\ tick' = [tick EXCEPT !.step = "heal", !.e = None, !.d = None]
    /\ UNCHANGED indexVars /\ TickUnchanged

\* put_vector_mapping, insert_hnsw_only (its validation of the embedding comes
\* before both locks) or update_embedding_dim fails: on to the next entry.
HealWriteFails ==
    /\ tick.step \in {"healMap", "healHnsw", "healDim"}
    /\ tick.step = "healMap" => SpareDataId
    /\ tick' = [tick EXCEPT !.step = "heal", !.e = None, !.d = None]
    /\ UNCHANGED <<indexVars, embedded>> /\ TickUnchanged

\* Compaction of the snapshot: VECTOR_MAP first, then the graph and the
\* IdMap, then the allocator.
TickRewrite ==
    /\ TickAt("heal") /\ tick.ids = {} /\ tick.compact
    /\ CompactRewrite(tick.snap)
    /\ tick' = [tick EXCEPT !.step = "swap"]
    /\ UNCHANGED <<points, fwd, rev, next, disk, embedded>> /\ TickUnchanged

TickSwap ==
    /\ TickAt("swap")
    /\ CompactSwap(tick.snap)
    /\ tick' = [tick EXCEPT !.step = "reset"]
    /\ UNCHANGED <<vmap, next, disk, embedded>> /\ TickUnchanged

TickReset ==
    /\ TickAt("reset")
    /\ CompactReset(tick.snap)
    /\ tick' = NoTick
    /\ UNCHANGED <<vmap, points, fwd, rev, disk, embedded>> /\ TickUnchanged

\* No compaction this time: not stale enough, or the embeddings or the
\* rewrite of VECTOR_MAP failed.
TickEnd ==
    /\ TickAt("heal") /\ tick.ids = {}
    /\ tick' = NoTick
    /\ UNCHANGED <<indexVars, embedded>> /\ TickUnchanged
-----------------------------------------------------------------------------
(* The process. *)

\* graceful_shutdown: the tick is aborted, at an await (possibly one whose
\* transaction has committed), and the index dumped.  Calls in flight may go on
\* until the process ends.
Stop ==
    /\ ~stopping /\ restarts < MaxRestarts
    /\ tick.step \notin {"healIdMap", "reset"}
    /\ tick' = NoTick
    /\ stopping' = TRUE
    /\ Dump
    /\ UNCHANGED <<vmap, points, fwd, rev, next, status, embedded, sess, requests, restarts>>

\* The process ends, by exit or SIGKILL, and the next one opens the index.
Restart ==
    /\ restarts < MaxRestarts
    /\ restarts' = restarts + 1
    /\ Load
    /\ sess' = [s \in Sessions |-> NoCall]
    /\ tick' = NoTick
    /\ stopping' = FALSE
    /\ UNCHANGED <<vmap, disk, status, embedded, requests>>
-----------------------------------------------------------------------------
Init ==
    /\ vmap = NoEntries /\ points = {} /\ fwd = NoEntries /\ rev = NoData
    /\ next = 0 /\ disk = NoDump
    /\ status = [e \in Ids |-> "Absent"]
    /\ embedded = [e \in Ids |-> FALSE]
    /\ sess = [s \in Sessions |-> NoCall]
    /\ tick = NoTick
    /\ stopping = FALSE /\ requests = 0 /\ restarts = 0

SessionStep(s) ==
    \/ BeginStore(s) \/ StoreInsert(s)
    \/ \E o \in Stored : BeginCorrect(s, o)
    \/ CorrectTxn(s)
    \/ \E e \in Ids, to \in {"Active", "Deprecated"} : BeginRestore(s, e, to)
    \/ RestoreCheck(s) \/ RestoreLookup(s) \/ RestoreEmbed(s)
    \/ PutMap(s) \/ InsertPoint(s) \/ InsertIdMap(s) \/ FailCall(s)

\* What the tick does when the embedding model and the database answer.
TickWorks ==
    \/ TickSnapshot \/ TickStaleRatio \/ PruneQuery \/ PruneRemove \/ HealQuery
    \/ \E e \in Ids : PruneDelete(e) \/ HealEmbed(e)
    \/ HealMap \/ HealPoint \/ HealIdMap \/ HealDim
    \/ TickRewrite \/ TickSwap \/ TickReset \/ TickEnd

TickFails ==
    \/ PruneQueryFails \/ HealQueryFails \/ HealUnavailable \/ HealWriteFails
    \/ \E e \in Ids : PruneFails(e) \/ HealLookupFails(e) \/ HealEmbedFails(e)

Next ==
    \/ \E s \in Sessions : SessionStep(s)
    \/ \E e \in Ids : Quarantine(e) \/ Deprecate(e)
    \/ TickWorks \/ TickFails
    \/ Stop \/ Restart

Spec == Init /\ [][Next]_vars

\* What the tick writes to the database, apart from a compaction.
TickWrites == HealMap \/ HealDim \/ \E e \in Ids : PruneDelete(e)

(***************************************************************************)
(* The tick loop keeps running, and neither the embedding model nor the    *)
(* database fails it for ever: a query, an embedding, an insertion into    *)
(* the graph or a write that is tried again and again succeeds in the end. *)
(***************************************************************************)
Fairness ==
    /\ WF_vars(TickWorks \/ TickFails)
    /\ SF_vars(PruneQuery)
    /\ SF_vars(HealQuery)
    /\ SF_vars(\E e \in Ids : HealEmbed(e))
    /\ SF_vars(HealPoint)
    /\ SF_vars(TickWrites)

FairSpec == Spec /\ Fairness
-----------------------------------------------------------------------------
\* The shape of the state.
TypeOK ==
    /\ IndexTypeOK
    /\ status \in [Ids -> {"Absent", "Active", "Deprecated", "Quarantined"}]
    /\ embedded \in [Ids -> BOOLEAN]
    /\ sess \in [Sessions -> [step: {"idle", "insert", "correct", "map", "hnsw", "idmap",
                                     "check", "lookup", "embed"},
                              e: Ids \cup {None}, d: DataIds \cup {None}]]
    /\ tick \in [step: {"idle", "ratio", "pruneQuery", "prune", "pruneRemove", "heal", "healMap",
                        "healHnsw", "healIdMap", "healDim", "swap", "reset"},
                 snap: SUBSET Ids, emb: SUBSET Ids, compact: BOOLEAN, ids: SUBSET Ids,
                 e: Ids \cup {None}, d: DataIds \cup {None}]
    /\ stopping \in BOOLEAN
    /\ requests \in 0..MaxRequests /\ restarts \in 0..MaxRestarts

\* What the index should hold of e, by its status.
Settled(e) ==
    /\ status[e] = "Active" => Searchable(e)
    /\ status[e] = "Quarantined" => vmap[e] = None

(***************************************************************************)
(* The index follows the statuses: whichever call failed half-way, an      *)
(* Active entry does not stay out of search but is healed under its own    *)
(* vector (GH #444), and VECTOR_MAP does not keep a quarantined one, also  *)
(* when a call in flight puts the mapping back behind the prune; what was  *)
(* quarantined, pruned and restored in between is settled again.  Clients  *)
(* make finitely many calls, so in the end all entries are so at once.     *)
(***************************************************************************)
EventuallySettled == []<>(\A e \in Ids : Settled(e))

(***************************************************************************)
(* Filtering the mappings at load "makes `contains()` truthful"            *)
(* (persistence.rs): right after a restart no entry counts as contained    *)
(* whose point the loaded graph lacks, whatever was dumped, renumbered by  *)
(* a compaction or half-way through an insert when the process ended.      *)
(***************************************************************************)
LoadTruthful == [][restarts' # restarts => ContainsTruthful']_vars
=============================================================================
