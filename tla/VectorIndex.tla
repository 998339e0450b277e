----------------------------- MODULE VectorIndex -----------------------------
(***************************************************************************)
(* The vector index of unimatrix-vector: an HNSW graph whose points carry  *)
(* a data id, the IdMap between entry ids and data ids, and the allocator  *)
(* of data ids (index.rs); the VECTOR_MAP table that persists the mapping; *)
(* the dump of the graph on disk and the load that joins the two again     *)
(* (persistence.rs).  A point is the pair of its data id and the entry     *)
(* whose embedding it holds, since hnsw_rs never removes a point; a second *)
(* point for the same pair is the same point.                              *)
(***************************************************************************)
EXTENDS Integers, FiniteSets, FiniteSetsExt

CONSTANTS
    MaxId,      \* bound: entries 1..MaxId
    MaxDataId   \* bound: data ids 0..MaxDataId

\* Data ids are u64: there is one for every entry.
ASSUME IndexAssumption == MaxId \in Nat /\ MaxDataId \in Nat /\ MaxId <= MaxDataId + 1

VARIABLES
    vmap,       \* VECTOR_MAP: the data id of each entry, None without a row
    points,     \* the points of the HNSW graph, stale ones included
    fwd,        \* IdMap.entry_to_data
    rev,        \* IdMap.data_to_entry
    next,       \* next_data_id
    disk        \* the published dump: its points and next_data_id, or NoDump

indexVars == <<vmap, points, fwd, rev, next, disk>>

Ids == 1..MaxId
DataIds == 0..MaxDataId
None == -1

NoDump == [points |-> {}, next |-> None]
NoEntries == [e \in Ids |-> None]
NoData == [d \in DataIds |-> None]

IndexTypeOK ==
    /\ vmap \in [Ids -> DataIds \cup {None}]
    /\ points \subseteq DataIds \X Ids
    /\ fwd \in [Ids -> DataIds \cup {None}]
    /\ rev \in [DataIds -> Ids \cup {None}]
    /\ next \in 0..(MaxDataId + 1)
    /\ disk \in [points: SUBSET (DataIds \X Ids), next: 0..(MaxDataId + 1) \cup {None}]
-----------------------------------------------------------------------------
Contains(e) == fwd[e] # None

\* The data ids that some point of the graph has.
Present(pts) == {p[1] : p \in pts}

\* stale_count: the points beyond the mapped entries, saturating at 0.
StaleCount ==
    LET mapped == Cardinality({e \in Ids : Contains(e)}) IN
    IF Cardinality(points) > mapped THEN Cardinality(points) - mapped ELSE 0

\* Mutant: two ids are used up at once.
AllocateTwo ==
    /\ next <= MaxDataId
    /\ next' = next + 2

\* Mutant: the increment of the allocator is lost.
AllocateLost ==
    /\ next <= MaxDataId
    /\ UNCHANGED next

\* allocate_data_id: hands out next; the caller takes the old value.
Allocate ==
    /\ next <= MaxDataId
    /\ next' = next + 1

\* put_vector_mapping: INSERT OR REPLACE.
PutMapping(e, d) == vmap' = [vmap EXCEPT ![e] = d]

\* The first half of insert_hnsw_only, under the lock of the graph.
HnswInsert(e, d) == points' = points \cup {<<d, e>>}

\* Mutant: the reverse mapping of a re-embedded entry is not removed.
IdMapInsertKeepsOld(e, d) ==
    /\ fwd' = [fwd EXCEPT ![e] = d]
    /\ rev' = [rev EXCEPT ![d] = e]

\* The second half, under the lock of the IdMap: on re-embedding the reverse
\* mapping of the old data id goes, so that the stale point is invisible.
IdMapInsert(e, d) ==
    /\ fwd' = [fwd EXCEPT ![e] = d]
    /\ rev' = [i \in DataIds |-> IF i = d THEN e
                                 ELSE IF i = fwd[e] THEN None ELSE rev[i]]

\* remove_entry: no-op when the entry has no mapping.
RemoveEntry(e) ==
    /\ fwd' = [fwd EXCEPT ![e] = None]
    /\ rev' = IF Contains(e) THEN [rev EXCEPT ![fwd[e]] = None] ELSE rev

\* The data ids compact gives to the entries of its input, in their order.
Numbering(es) == [e \in Ids |-> IF e \in es THEN Cardinality({x \in es : x < e})
                                            ELSE None]

\* compact, step 2: rewrite_vector_map, one transaction.
CompactRewrite(es) == vmap' = Numbering(es)

\* compact, step 3: the new graph and IdMap replace the old ones.
CompactSwap(es) ==
    LET num == Numbering(es) IN
    /\ points' = {<<num[e], e>> : e \in es}
    /\ fwd' = num
    /\ rev' = [d \in DataIds |-> IF \E e \in es : num[e] = d
                                 THEN CHOOSE e \in es : num[e] = d ELSE None]

\* compact, step 4.
CompactReset(es) == next' = Cardinality(es)

\* dump: the graph as it is now, and the next data id read after it.
Dump == disk' = [points |-> points, next |-> next]

\* Mutant: the IdMap is rebuilt from VECTOR_MAP alone.
RetainedMappingsBlind(pts) == vmap

\* The mappings load keeps: those whose data id the loaded graph has.
RetainedMappings(pts) ==
    [e \in Ids |-> IF vmap[e] \in Present(pts) THEN vmap[e] ELSE None]

\* Opening the index at start-up: load, or a new empty index when there is no
\* dump or an empty one.  Rows are read in the order of their entry id, so
\* that the last claimant of a data id keeps it.
Load ==
    LET keep == RetainedMappings(disk.points)
        claim(d) == {e \in Ids : keep[e] = d} IN
    IF disk.points = {}
    THEN /\ points' = {}
         /\ fwd' = NoEntries
         /\ rev' = NoData
         /\ next' = 0
    ELSE /\ points' = disk.points
         /\ fwd' = keep
         /\ rev' = [d \in DataIds |-> IF claim(d) = {} THEN None ELSE Max(claim(d))]
         /\ next' = disk.next
-----------------------------------------------------------------------------
\* A search finds e: its point is in the graph under its own data id.
Searchable(e) ==
    /\ Contains(e)
    /\ rev[fwd[e]] = e
    /\ <<fwd[e], e>> \in points

(***************************************************************************)
(* The two directions of the IdMap agree wherever the reverse one resolves *)
(* (map_neighbours_to_results): a search never reports an entry that has   *)
(* no mapping any more, or has moved to another data id, through a data id *)
(* it once had, after re-embedding, pruning, compaction and a load.  Which *)
(* entry's vector the point under a data id holds is another question,     *)
(* MappedToOwnVector below: after a load with an older next_data_id or a   *)
(* renumbered VECTOR_MAP it can be another entry's.                        *)
(***************************************************************************)
ReverseMapSound == \A d \in DataIds : rev[d] # None => fwd[rev[d]] = d

(***************************************************************************)
(* The two directions of the IdMap are inverse: every entry the index says *)
(* it contains is what its data id resolves to.                            *)
(***************************************************************************)
IdMapBijective ==
    /\ ReverseMapSound
    /\ \A e \in Ids : Contains(e) => rev[fwd[e]] = e

(***************************************************************************)
(* contains() tells the truth (persistence.rs, GH#972): an entry with a    *)
(* mapping has a point in the graph under that data id, so that the heal   *)
(* pass, which goes by contains, does not overlook an absent vector.       *)
(***************************************************************************)
ContainsTruthful == \A e \in Ids : Contains(e) => fwd[e] \in Present(points)

(***************************************************************************)
(* "Retained mappings stay searchable" (persistence.rs, load): the point   *)
(* under an entry's data id is the embedding of that entry.                *)
(***************************************************************************)
MappedToOwnVector == \A e \in Ids : Contains(e) => <<fwd[e], e>> \in points

(***************************************************************************)
(* "The returned data_id is unique" (index.rs, allocate_data_id): no two   *)
(* entries are given the same data id in VECTOR_MAP, whatever was pruned,  *)
(* restored and healed in between.  It takes a process that goes on: the   *)
(* allocator of the next one starts from the last dump.                    *)
(***************************************************************************)
DataIdsUnique ==
    \A e, f \in Ids : e # f /\ vmap[e] # None => vmap[e] # vmap[f]
=============================================================================
