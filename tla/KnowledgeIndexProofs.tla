------------------------ MODULE KnowledgeIndexProofs ------------------------
(***************************************************************************)
(* Proofs about the vector index and the calls that keep it in step with   *)
(* ENTRIES.  In general, with compactions and restarts: the shape of the   *)
(* state, a sound reverse map and a truthful contains() after a load.      *)
(* Within one life of the process, without compaction: every data id has   *)
(* one owner, and with it the index maps each entry to its own vector.     *)
(***************************************************************************)
EXTENDS KnowledgeIndex, FiniteSetTheorems, WellFoundedInduction, TLAPS

CallSteps == {"idle", "insert", "correct", "map", "hnsw", "idmap", "check", "lookup", "embed"}
TickSteps == {"idle", "ratio", "pruneQuery", "prune", "pruneRemove", "heal", "healMap",
              "healHnsw", "healIdMap", "healDim", "swap", "reset"}

\* The steps of a call that are about an entry, and those that hold a data id.
EntrySteps == {"correct", "map", "hnsw", "idmap", "check", "lookup", "embed"}
DataSteps == {"insert", "correct", "map", "hnsw", "idmap"}
HealSteps == {"healMap", "healHnsw", "healIdMap", "healDim"}

CallStates == {k \in [step: CallSteps, e: Ids \cup {None}, d: DataIds \cup {None}] :
                 /\ k.step \in EntrySteps => k.e \in Ids
                 /\ k.step \in DataSteps => k.d \in DataIds}

TickStates == {t \in [step: TickSteps, snap: SUBSET Ids, emb: SUBSET Ids, compact: BOOLEAN,
                      ids: SUBSET Ids, e: Ids \cup {None}, d: DataIds \cup {None}] :
                 /\ t.step \in HealSteps => t.e \in Ids /\ t.d \in DataIds
                 /\ t.step = "pruneRemove" => t.e \in Ids}

(***************************************************************************)
(* TypeOK with what makes it inductive: a call or a tick that is about to  *)
(* write knows its entry and its data id, and a dump that has points has   *)
(* the next data id as well.                                               *)
(***************************************************************************)
ServerShape ==
    /\ status \in [Ids -> {"Absent", "Active", "Deprecated", "Quarantined"}]
    /\ embedded \in [Ids -> BOOLEAN]
    /\ sess \in [Sessions -> CallStates]
    /\ tick \in TickStates
    /\ stopping \in BOOLEAN
    /\ requests \in 0..MaxRequests /\ restarts \in 0..MaxRestarts

IndexShape ==
    /\ IndexTypeOK
    /\ disk.points # {} => disk.next # None
    /\ ServerShape

\* IndexShape is stronger than TypeOK.
LEMMA ShapeTypeOK == IndexShape => TypeOK
<1> SUFFICES ASSUME IndexShape PROVE TypeOK
  OBVIOUS
<1>1. sess \in [Sessions -> [step: CallSteps, e: Ids \cup {None}, d: DataIds \cup {None}]]
  BY DEF IndexShape, ServerShape, CallStates
<1>2. tick \in [step: TickSteps, snap: SUBSET Ids, emb: SUBSET Ids, compact: BOOLEAN,
                ids: SUBSET Ids, e: Ids \cup {None}, d: DataIds \cup {None}]
  BY DEF IndexShape, ServerShape, TickStates
<1> QED BY <1>1, <1>2 DEF IndexShape, ServerShape, TypeOK, CallSteps, TickSteps
-----------------------------------------------------------------------------
(* The operators of the index. *)

\* None is neither an entry nor a data id.
LEMMA NoneIsNoId == None \notin Ids /\ None \notin DataIds
BY IndexAssumption DEF None, Ids, DataIds

\* A non-empty set of naturals has a smallest element.
LEMMA SmallestIn ==
    ASSUME NEW T \in SUBSET Nat, T # {}
    PROVE  \E n \in T : \A m \in T : n <= m
<1>1. \A m, n \in Nat : m < n => <<m, n>> \in OpToRel(<, Nat)
  BY DEF OpToRel
<1>2. \E n \in T : \A m \in T : ~(<<m, n>> \in OpToRel(<, Nat))
  BY NatLessThanWellFounded, WFMin
<1>3. ASSUME NEW R, \A m, n \in Nat : m < n => <<m, n>> \in R,
             \E n \in T : \A m \in T : ~(<<m, n>> \in R)
      PROVE  \E n \in T : \A m \in T : n <= m
  <2>1. PICK n \in T : \A m \in T : ~(<<m, n>> \in R)
    BY <1>3
  <2>2. ASSUME NEW m \in T PROVE n <= m
    <3>1. m \in Nat /\ n \in Nat
      OBVIOUS
    <3>2. ~(m < n)
      BY <1>3, <2>1, <3>1, Zenon
    <3> QED BY <3>1, <3>2
  <2> QED BY <2>2
<1> QED BY <1>1, <1>2, <1>3

\* A non-empty set of entries has a largest one, which Max chooses.
LEMMA MaxIn ==
    ASSUME NEW S \in SUBSET Ids, S # {}
    PROVE  Max(S) \in S
<1> DEFINE T == {n \in Nat : \E x \in S : n = MaxId - x}
<1>1. \A x \in S : x \in Int /\ 1 <= x /\ x <= MaxId
  BY IndexAssumption DEF Ids
<1>2. T \subseteq Nat /\ T # {}
  BY <1>1, IndexAssumption
<1>3. PICK n \in T : \A m \in T : n <= m
  <2> HIDE DEF T
  <2> QED BY <1>2, SmallestIn
<1>5. PICK x \in S : n = MaxId - x
  BY <1>3
<1>6. \A y \in S : x >= y
  <2> TAKE y \in S
  <2>1. MaxId - y \in T
    BY <1>1, IndexAssumption
  <2> QED BY <1>1, <1>3, <1>5, <2>1, IndexAssumption
<1> QED BY <1>5, <1>6 DEF Max

\* Compaction numbers its input with data ids, below their number.
LEMMA NumberingType ==
    ASSUME NEW es \in SUBSET Ids
    PROVE  /\ Numbering(es) \in [Ids -> DataIds \cup {None}]
           /\ \A e \in es : Numbering(es)[e] \in DataIds
           /\ Cardinality(es) \in 0..(MaxDataId + 1)
<1>1. IsFiniteSet(Ids) /\ Cardinality(Ids) = MaxId
  BY IndexAssumption, FS_Interval DEF Ids
<1>2. IsFiniteSet(es) /\ Cardinality(es) \in Nat /\ Cardinality(es) <= MaxId
  BY <1>1, FS_Subset, FS_CardinalityType
<1>3. ASSUME NEW e \in es PROVE Cardinality({x \in es : x < e}) \in DataIds
  <2> DEFINE lower == {x \in es : x < e}
  <2>1. e \in Int /\ 1 <= e /\ e <= MaxId
    BY IndexAssumption DEF Ids
  <2>2. IsFiniteSet(1..(e - 1)) /\ Cardinality(1..(e - 1)) = e - 1
    BY <2>1, FS_Interval
  <2>3. lower \subseteq 1..(e - 1)
    <3> SUFFICES ASSUME NEW x \in es, x < e PROVE x \in 1..(e - 1)
      OBVIOUS
    <3>1. x \in Int /\ 1 <= x
      BY IndexAssumption DEF Ids
    <3> QED BY <2>1, <3>1
  <2> HIDE DEF lower
  <2>4. IsFiniteSet(lower) /\ Cardinality(lower) <= e - 1
    BY <2>2, <2>3, FS_Subset
  <2>5. Cardinality(lower) \in Nat
    BY <2>4, FS_CardinalityType
  <2> QED BY <2>1, <2>4, <2>5, IndexAssumption DEF DataIds, lower
<1> QED BY <1>2, <1>3, IndexAssumption DEF Numbering

\* IdMap's insert and remove keep its shape.
LEMMA IdMapInsertType ==
    ASSUME IndexTypeOK, NEW e \in Ids, NEW d \in DataIds, IdMapInsert(e, d)
    PROVE  fwd' \in [Ids -> DataIds \cup {None}] /\ rev' \in [DataIds -> Ids \cup {None}]
BY DEF IndexTypeOK, IdMapInsert

LEMMA RemoveEntryType ==
    ASSUME IndexTypeOK, NEW e \in Ids, RemoveEntry(e)
    PROVE  fwd' \in [Ids -> DataIds \cup {None}] /\ rev' \in [DataIds -> Ids \cup {None}]
BY DEF IndexTypeOK, RemoveEntry, Contains

\* What a load leaves: the mappings whose data id is in the graph, and a
\* reverse map into them.
LEMMA LoadEffect ==
    ASSUME IndexTypeOK, disk.points # {} => disk.next # None, Load
    PROVE  /\ points' \subseteq DataIds \X Ids /\ next' \in 0..(MaxDataId + 1)
           /\ fwd' \in [Ids -> DataIds \cup {None}] /\ rev' \in [DataIds -> Ids \cup {None}]
           /\ ReverseMapSound' /\ ContainsTruthful'
<1> DEFINE keep == RetainedMappings(disk.points)
           claim(d) == {e \in Ids : keep[e] = d}
<1>1. CASE disk.points = {}
  <2>1. points' = {} /\ fwd' = NoEntries /\ rev' = NoData /\ next' = 0
    BY <1>1 DEF Load
  <2> QED BY <2>1, IndexAssumption
          DEF NoEntries, NoData, ReverseMapSound, ContainsTruthful, Contains
<1>2. CASE disk.points # {}
  <2>1. /\ points' = disk.points /\ fwd' = keep /\ next' = disk.next
        /\ rev' = [d \in DataIds |-> IF claim(d) = {} THEN None ELSE Max(claim(d))]
    BY <1>2 DEF Load
  <2>2. keep \in [Ids -> DataIds \cup {None}]
    BY DEF RetainedMappings, IndexTypeOK
  <2>3. \A e \in Ids : keep[e] # None => keep[e] \in Present(disk.points)
    BY DEF RetainedMappings
  <2>4. ASSUME NEW d \in DataIds, claim(d) # {} PROVE Max(claim(d)) \in claim(d)
    <3>1. claim(d) \in SUBSET Ids
      OBVIOUS
    <3> QED BY <2>4, <3>1, MaxIn
  <2> HIDE DEF keep
  <2>5. \A d \in DataIds : rev'[d] = IF claim(d) = {} THEN None ELSE Max(claim(d))
    BY <2>1
  <2>6. \A d \in DataIds : rev'[d] # None => rev'[d] \in Ids /\ keep[rev'[d]] = d
    BY <2>4, <2>5
  <2>7. rev' \in [DataIds -> Ids \cup {None}]
    BY <2>1, <2>5, <2>6
  <2>8. points' \subseteq DataIds \X Ids /\ next' \in 0..(MaxDataId + 1)
    BY <1>2, <2>1 DEF IndexTypeOK
  <2>9. ReverseMapSound'
    BY <2>1, <2>6 DEF ReverseMapSound
  <2>10. ContainsTruthful'
    BY <2>1, <2>3 DEF ContainsTruthful, Contains
  <2> QED BY <2>1, <2>2, <2>7, <2>8, <2>9, <2>10
<1> QED BY <1>1, <1>2
-----------------------------------------------------------------------------
(* The shape of the state, step by step. *)

\* Goto leads to a call state when the entry and the data id are known.
LEMMA GotoType ==
    ASSUME sess \in [Sessions -> CallStates], NEW s \in Sessions,
           NEW step \in CallSteps, NEW e \in Ids \cup {None}, NEW d \in DataIds \cup {None},
           step \in EntrySteps => e \in Ids, step \in DataSteps => d \in DataIds,
           Goto(s, step, e, d)
    PROVE  sess' \in [Sessions -> CallStates]
<1>1. [step |-> step, e |-> e, d |-> d] \in CallStates
  BY DEF CallStates
<1> QED BY <1>1 DEF Goto

LEMMA NoCallType == NoCall \in CallStates
BY DEF NoCall, CallStates, CallSteps, EntrySteps, DataSteps

LEMMA NoTickType == NoTick \in TickStates
BY DEF NoTick, TickStates, TickSteps, HealSteps

\* The data id that Allocate hands out.
LEMMA AllocateType ==
    ASSUME IndexTypeOK, Allocate
    PROVE  next \in DataIds /\ next' \in 0..(MaxDataId + 1)
BY IndexAssumption DEF IndexTypeOK, Allocate, DataIds

\* The steps of a call keep the shape of the state.
LEMMA SessionShape ==
    ASSUME IndexShape, NEW s \in Sessions, SessionStep(s)
    PROVE  IndexShape'
<1>0. /\ IndexTypeOK /\ ServerShape /\ (disk.points # {} => disk.next # None)
      /\ sess \in [Sessions -> CallStates] /\ sess[s] \in CallStates
      /\ NoCall \in CallStates
  BY NoCallType DEF IndexShape, ServerShape
<1>1. /\ sess[s].step \in CallSteps
      /\ sess[s].e \in Ids \cup {None} /\ sess[s].d \in DataIds \cup {None}
      /\ sess[s].step \in EntrySteps => sess[s].e \in Ids
      /\ sess[s].step \in DataSteps => sess[s].d \in DataIds
  BY <1>0 DEF CallStates
<1> DEFINE ServerRest ==
      /\ status' \in [Ids -> {"Absent", "Active", "Deprecated", "Quarantined"}]
      /\ embedded' \in [Ids -> BOOLEAN]
      /\ requests' \in 0..MaxRequests
<1>2. ASSUME UNCHANGED <<tick, stopping, restarts, disk>>, ServerRest,
             sess' \in [Sessions -> CallStates], IndexTypeOK'
      PROVE  IndexShape'
  BY <1>0, <1>2 DEF IndexShape, ServerShape
<1>3. Request => requests' \in 0..MaxRequests
  BY <1>0, KnowledgeIndexAssumption DEF Request, ServerShape
<1>4. ASSUME UNCHANGED <<tick, stopping, restarts, disk, status, embedded>>,
             UNCHANGED requests \/ Request,
             sess' \in [Sessions -> CallStates], IndexTypeOK'
      PROVE  IndexShape'
  <2>1. ServerRest
    BY <1>0, <1>3, <1>4 DEF ServerShape
  <2> QED BY <1>2, <1>4, <2>1
<1>5. CASE BeginStore(s)
  <2>1. next \in DataIds /\ next' \in 0..(MaxDataId + 1)
    BY <1>0, <1>5, AllocateType DEF BeginStore
  <2>2. sess' \in [Sessions -> CallStates]
    BY <1>0, <1>5, <2>1, GotoType DEF BeginStore, CallSteps, EntrySteps, DataSteps
  <2>3. IndexTypeOK'
    BY <1>0, <1>5, <2>1 DEF BeginStore, IndexTypeOK
  <2> QED BY <1>4, <1>5, <2>2, <2>3 DEF BeginStore
<1>6. CASE StoreInsert(s)
  <2>1. sess[s].d \in DataIds
    BY <1>1, <1>6 DEF StoreInsert, At, DataSteps
  <2>2. sess' \in [Sessions -> CallStates]
    BY <1>0, <1>6, <2>1, GotoType DEF StoreInsert, CallSteps, EntrySteps, DataSteps
  <2>3. IndexTypeOK' /\ UNCHANGED disk
    BY <1>0, <1>6 DEF StoreInsert, IndexTypeOK, indexVars
  <2>4. ServerRest
    BY <1>0, <1>6 DEF StoreInsert, ServerShape
  <2> QED BY <1>2, <1>6, <2>2, <2>3, <2>4 DEF StoreInsert
<1>7. ASSUME NEW o \in Stored, BeginCorrect(s, o) PROVE IndexShape'
  <2>1. next \in DataIds /\ next' \in 0..(MaxDataId + 1)
    BY <1>0, <1>7, AllocateType DEF BeginCorrect
  <2>2. sess' \in [Sessions -> CallStates]
    BY <1>0, <1>7, <2>1, GotoType DEF BeginCorrect, Stored, CallSteps, EntrySteps, DataSteps
  <2>3. IndexTypeOK'
    BY <1>0, <1>7, <2>1 DEF BeginCorrect, IndexTypeOK
  <2> QED BY <1>4, <1>7, <2>2, <2>3 DEF BeginCorrect
<1>8. CASE CorrectTxn(s)
  <2>1. sess[s].d \in DataIds /\ sess[s].e \in Ids
    BY <1>1, <1>8 DEF CorrectTxn, At, DataSteps, EntrySteps
  <2>2. sess' \in [Sessions -> CallStates]
    BY <1>0, <1>8, <2>1, GotoType DEF CorrectTxn, CallSteps, EntrySteps, DataSteps
  <2>3. IndexTypeOK'
    BY <1>0, <1>8, <2>1 DEF CorrectTxn, IndexTypeOK, PutMapping
  <2>4. ServerRest
    BY <1>0, <1>8, <2>1 DEF CorrectTxn, ServerShape
  <2> QED BY <1>2, <1>8, <2>2, <2>3, <2>4 DEF CorrectTxn
<1>9. ASSUME NEW e \in Ids, NEW to \in {"Active", "Deprecated"}, BeginRestore(s, e, to)
      PROVE  IndexShape'
  <2>1. sess' \in [Sessions -> CallStates]
    BY <1>0, <1>9, GotoType DEF BeginRestore, CallSteps, EntrySteps, DataSteps
  <2>2. IndexTypeOK' /\ UNCHANGED disk
    BY <1>0, <1>9 DEF BeginRestore, IndexTypeOK, indexVars
  <2>3. ServerRest
    BY <1>0, <1>3, <1>9 DEF BeginRestore, ServerShape
  <2> QED BY <1>2, <1>9, <2>1, <2>2, <2>3 DEF BeginRestore
<1>10. CASE RestoreCheck(s)
  <2>1. [step |-> "lookup", e |-> sess[s].e, d |-> None] \in CallStates
    BY <1>1, <1>10 DEF RestoreCheck, At, CallStates, CallSteps, EntrySteps, DataSteps
  <2>2. sess' \in [Sessions -> CallStates]
    BY <1>0, <1>10, <2>1 DEF RestoreCheck
  <2>3. IndexTypeOK' /\ UNCHANGED disk
    BY <1>0, <1>10 DEF RestoreCheck, IndexTypeOK, indexVars
  <2> QED BY <1>4, <1>10, <2>2, <2>3 DEF RestoreCheck
<1>11. CASE RestoreLookup(s)
  <2>1. sess[s].e \in Ids /\ vmap[sess[s].e] \in DataIds \cup {None}
    BY <1>0, <1>1, <1>11 DEF RestoreLookup, At, EntrySteps, IndexTypeOK
  <2>2. sess' \in [Sessions -> CallStates]
    BY <1>0, <1>11, <2>1, GotoType DEF RestoreLookup, CallSteps, EntrySteps, DataSteps
  <2>3. IndexTypeOK' /\ UNCHANGED disk
    BY <1>0, <1>11 DEF RestoreLookup, IndexTypeOK, indexVars
  <2> QED BY <1>4, <1>11, <2>2, <2>3 DEF RestoreLookup
<1>12. CASE RestoreEmbed(s)
  <2>1. sess[s].e \in Ids
    BY <1>1, <1>12 DEF RestoreEmbed, At, EntrySteps
  <2>2. Allocate => next \in DataIds /\ next' \in 0..(MaxDataId + 1)
    BY <1>0, AllocateType
  <2>3. sess' \in [Sessions -> CallStates]
    BY <1>0, <1>1, <1>12, <2>1, <2>2, GotoType
       DEF RestoreEmbed, CallSteps, EntrySteps, DataSteps
  <2>4. IndexTypeOK'
    BY <1>0, <1>12, <2>2 DEF RestoreEmbed, IndexTypeOK
  <2> QED BY <1>4, <1>12, <2>3, <2>4 DEF RestoreEmbed
<1>13. CASE PutMap(s) \/ InsertPoint(s)
  <2>1. sess[s].e \in Ids /\ sess[s].d \in DataIds
    BY <1>1, <1>13 DEF PutMap, InsertPoint, At, EntrySteps, DataSteps
  <2>2. sess' \in [Sessions -> CallStates]
    BY <1>0, <1>13, <2>1, GotoType DEF PutMap, InsertPoint, CallSteps, EntrySteps, DataSteps
  <2>3. IndexTypeOK'
    BY <1>0, <1>13, <2>1 DEF PutMap, InsertPoint, IndexTypeOK, PutMapping, HnswInsert
  <2> QED BY <1>4, <1>13, <2>2, <2>3 DEF PutMap, InsertPoint
<1>14. CASE InsertIdMap(s)
  <2>1. sess[s].e \in Ids /\ sess[s].d \in DataIds
    BY <1>1, <1>14 DEF InsertIdMap, At, EntrySteps, DataSteps
  <2>2. sess' \in [Sessions -> CallStates]
    BY <1>0, <1>14 DEF InsertIdMap
  <2>3. fwd' \in [Ids -> DataIds \cup {None}] /\ rev' \in [DataIds -> Ids \cup {None}]
    BY <1>0, <1>14, <2>1, IdMapInsertType DEF InsertIdMap
  <2>4. IndexTypeOK'
    BY <1>0, <1>14, <2>3 DEF InsertIdMap, IndexTypeOK
  <2> QED BY <1>4, <1>14, <2>2, <2>4 DEF InsertIdMap
<1>15. CASE FailCall(s)
  <2>1. sess' \in [Sessions -> CallStates]
    BY <1>0, <1>15 DEF FailCall
  <2>2. IndexTypeOK' /\ UNCHANGED disk
    BY <1>0, <1>15 DEF FailCall, IndexTypeOK, indexVars
  <2> QED BY <1>4, <1>15, <2>1, <2>2 DEF FailCall
<1> QED BY <1>5, <1>6, <1>7, <1>8, <1>9, <1>10, <1>11, <1>12, <1>13, <1>14, <1>15
        DEF SessionStep

\* The sets the tick works through consist of entries.
LEMMA HealSetsType ==
    ASSUME tick \in TickStates, NEW A \in SUBSET Ids, NEW S \in HealSets(A)
    PROVE  S \subseteq Ids
BY DEF HealSets, MissingFromIndex, TickStates

\* The steps of the tick that change no index keep the shape of the state.
LEMMA TickReadShape ==
    ASSUME IndexShape,
           \/ TickSnapshot \/ TickStaleRatio \/ PruneQuery \/ PruneQueryFails
           \/ \E e \in Ids : PruneFails(e) \/ HealEmbedFails(e)
           \/ HealQuery \/ HealQueryFails \/ HealUnavailable \/ HealWriteFails \/ TickEnd
           \/ HealDim
    PROVE  IndexShape'
<1>0. /\ IndexTypeOK /\ ServerShape /\ (disk.points # {} => disk.next # None)
      /\ tick \in TickStates /\ NoTick \in TickStates
  BY NoTickType DEF IndexShape, ServerShape
<1>1. ASSUME UNCHANGED indexVars, TickUnchanged, tick' \in TickStates,
             embedded' \in [Ids -> BOOLEAN]
      PROVE  IndexShape'
  BY <1>0, <1>1 DEF IndexShape, IndexTypeOK, ServerShape, indexVars, TickUnchanged
<1>2. ASSUME UNCHANGED <<indexVars, embedded>>, TickUnchanged, tick' \in TickStates
      PROVE  IndexShape'
  BY <1>0, <1>1, <1>2 DEF ServerShape
<1>3. ActiveIds \subseteq Ids /\ Unembedded \subseteq Ids
  BY DEF ActiveIds, Unembedded
<1>4. CASE TickSnapshot
  <2>1. tick' \in TickStates
    BY <1>0, <1>3, <1>4 DEF TickSnapshot, TickStates, TickSteps, HealSteps, NoTick
  <2> QED BY <1>2, <1>4, <2>1 DEF TickSnapshot
<1>5. CASE TickStaleRatio
  <2>1. TooStale \in BOOLEAN
    BY DEF TooStale
  <2>2. tick' \in TickStates
    BY <1>0, <1>5, <2>1 DEF TickStaleRatio, TickStates, TickSteps, HealSteps
  <2> QED BY <1>2, <1>5, <2>2 DEF TickStaleRatio
<1>6. CASE PruneQuery \/ PruneQueryFails
  <2>1. PICK S \in SUBSET Ids : tick' = [tick EXCEPT !.step = "prune", !.ids = S]
    <3>1. CASE PruneQuery
      BY <3>1 DEF PruneQuery
    <3>2. CASE PruneQueryFails
      <4>1. tick' = [tick EXCEPT !.step = "prune", !.ids = tick.ids] /\ tick.ids \in SUBSET Ids
        BY <1>0, <3>2 DEF PruneQueryFails, TickStates
      <4> QED BY <4>1
    <3> QED BY <1>6, <3>1, <3>2
  <2>2. tick' \in TickStates
    BY <1>0, <2>1 DEF TickStates, TickSteps, HealSteps
  <2> QED BY <1>2, <1>6, <2>2 DEF PruneQuery, PruneQueryFails
<1>7. ASSUME NEW e \in Ids, PruneFails(e) \/ HealEmbedFails(e) PROVE IndexShape'
  <2>1. tick' \in TickStates
    BY <1>0, <1>7 DEF PruneFails, HealEmbedFails, TickStates, TickSteps, HealSteps
  <2> QED BY <1>2, <1>7, <2>1 DEF PruneFails, HealEmbedFails
<1>8. ASSUME NEW S \in SUBSET Ids, BeginHeal(S), UNCHANGED <<indexVars, embedded>>,
             TickUnchanged, TickAt("prune")
      PROVE  IndexShape'
  <2>1. tick' \in TickStates
    BY <1>0, <1>8 DEF BeginHeal, TickAt, TickStates, TickSteps, HealSteps
  <2> QED BY <1>2, <1>8, <2>1
<1>9. CASE HealQuery
  BY <1>0, <1>3, <1>8, <1>9, HealSetsType DEF HealQuery
<1>10. CASE HealQueryFails
  BY <1>0, <1>3, <1>8, <1>10, HealSetsType DEF HealQueryFails
<1>11. CASE HealUnavailable
  BY <1>8, <1>11 DEF HealUnavailable
<1>12. CASE HealWriteFails
  <2>1. tick' \in TickStates
    BY <1>0, <1>12 DEF HealWriteFails, TickStates, TickSteps, HealSteps
  <2> QED BY <1>2, <1>12, <2>1 DEF HealWriteFails
<1>13. CASE TickEnd
  BY <1>0, <1>2, <1>13 DEF TickEnd
<1>14. CASE HealDim
  <2>1. tick' \in TickStates
    BY <1>0, <1>14 DEF HealDim, TickStates, TickSteps, HealSteps
  <2>2. embedded' \in [Ids -> BOOLEAN]
    BY <1>0, <1>14 DEF HealDim, ServerShape
  <2> QED BY <1>1, <1>14, <2>1, <2>2 DEF HealDim
<1> QED BY <1>4, <1>5, <1>6, <1>7, <1>9, <1>10, <1>11, <1>12, <1>13, <1>14

\* The steps of the tick that write VECTOR_MAP, the graph or the IdMap do.
LEMMA TickWriteShape ==
    ASSUME IndexShape,
           \/ \E e \in Ids : PruneDelete(e) \/ HealEmbed(e) \/ HealLookupFails(e)
           \/ PruneRemove \/ HealMap \/ HealPoint \/ HealIdMap
           \/ TickRewrite \/ TickSwap \/ TickReset
    PROVE  IndexShape'
<1>0. /\ IndexTypeOK /\ ServerShape /\ (disk.points # {} => disk.next # None)
      /\ tick \in TickStates /\ NoTick \in TickStates
  BY NoTickType DEF IndexShape, ServerShape
<1>1. ASSUME IndexTypeOK', UNCHANGED <<disk, embedded>>, TickUnchanged, tick' \in TickStates
      PROVE  IndexShape'
  BY <1>0, <1>1 DEF IndexShape, ServerShape, TickUnchanged
<1>2. /\ tick.step \in HealSteps => tick.e \in Ids /\ tick.d \in DataIds
      /\ tick.step = "pruneRemove" => tick.e \in Ids
      /\ tick.snap \in SUBSET Ids
  BY <1>0 DEF TickStates
<1>3. ASSUME NEW e \in Ids, PruneDelete(e) PROVE IndexShape'
  <2>1. tick' \in TickStates
    BY <1>0, <1>3 DEF PruneDelete, TickStates, TickSteps, HealSteps
  <2>2. IndexTypeOK'
    BY <1>0, <1>3 DEF PruneDelete, IndexTypeOK
  <2> QED BY <1>1, <1>3, <2>1, <2>2 DEF PruneDelete
<1>4. ASSUME NEW e \in Ids, HealEmbed(e) \/ HealLookupFails(e) PROVE IndexShape'
  <2>1. Allocate => next \in DataIds /\ next' \in 0..(MaxDataId + 1)
    BY <1>0, AllocateType
  <2>2. vmap[e] \in DataIds \cup {None}
    BY <1>0 DEF IndexTypeOK
  <2>3. tick' \in TickStates
    <3>1. PICK st \in {"healHnsw", "healMap"}, d \in DataIds :
             tick' = [tick EXCEPT !.step = st, !.ids = @ \ {e}, !.e = e, !.d = d]
      BY <1>4, <2>1, <2>2 DEF HealEmbed, HealLookupFails
    <3> QED BY <1>0, <3>1 DEF TickStates, TickSteps, HealSteps
  <2>4. IndexTypeOK'
    BY <1>0, <1>4, <2>1 DEF HealEmbed, HealLookupFails, IndexTypeOK
  <2> QED BY <1>1, <1>4, <2>3, <2>4 DEF HealEmbed, HealLookupFails
<1>5. CASE PruneRemove
  <2>1. tick.e \in Ids
    BY <1>2, <1>5 DEF PruneRemove, TickAt
  <2>2. tick' \in TickStates
    BY <1>0, <1>5 DEF PruneRemove, TickStates, TickSteps, HealSteps
  <2>3. IndexTypeOK'
    BY <1>0, <1>5, <2>1, RemoveEntryType DEF PruneRemove, IndexTypeOK
  <2> QED BY <1>1, <1>5, <2>2, <2>3 DEF PruneRemove
<1>6. CASE HealMap \/ HealPoint
  <2>1. tick.e \in Ids /\ tick.d \in DataIds
    BY <1>2, <1>6 DEF HealMap, HealPoint, TickAt, HealSteps
  <2>2. tick' \in TickStates
    BY <1>0, <1>6, <2>1 DEF HealMap, HealPoint, TickStates, TickSteps, HealSteps
  <2>3. IndexTypeOK'
    BY <1>0, <1>6, <2>1 DEF HealMap, HealPoint, PutMapping, HnswInsert, IndexTypeOK
  <2> QED BY <1>1, <1>6, <2>2, <2>3 DEF HealMap, HealPoint
<1>7. CASE HealIdMap
  <2>1. tick.e \in Ids /\ tick.d \in DataIds
    BY <1>2, <1>7 DEF HealIdMap, TickAt, HealSteps
  <2>2. tick' \in TickStates
    BY <1>0, <1>7, <2>1 DEF HealIdMap, TickStates, TickSteps, HealSteps
  <2>3. IndexTypeOK'
    BY <1>0, <1>7, <2>1, IdMapInsertType DEF HealIdMap, IndexTypeOK
  <2> QED BY <1>1, <1>7, <2>2, <2>3 DEF HealIdMap
<1>8. CASE TickRewrite
  <2>1. tick' \in TickStates
    BY <1>0, <1>8 DEF TickRewrite, TickStates, TickSteps, HealSteps
  <2>2. IndexTypeOK'
    BY <1>0, <1>2, <1>8, NumberingType DEF TickRewrite, CompactRewrite, IndexTypeOK
  <2> QED BY <1>1, <1>8, <2>1, <2>2 DEF TickRewrite
<1>9. CASE TickSwap
  <2> DEFINE es == tick.snap
             num == Numbering(es)
  <2>1. tick' \in TickStates
    BY <1>0, <1>9 DEF TickSwap, TickStates, TickSteps, HealSteps
  <2>2. /\ points' = {<<num[e], e>> : e \in es} /\ fwd' = num
        /\ rev' = [d \in DataIds |-> IF \E e \in es : num[e] = d
                                     THEN CHOOSE e \in es : num[e] = d ELSE None]
        /\ UNCHANGED <<vmap, next, disk>>
    BY <1>9 DEF TickSwap, CompactSwap
  <2>3. /\ num \in [Ids -> DataIds \cup {None}] /\ es \subseteq Ids
        /\ \A e \in es : num[e] \in DataIds
    BY <1>2, NumberingType
  <2> HIDE DEF num, es
  <2>4. points' \subseteq DataIds \X Ids
    BY <2>2, <2>3
  <2>5. rev' \in [DataIds -> Ids \cup {None}]
    BY <2>2, <2>3
  <2>6. IndexTypeOK'
    BY <1>0, <2>2, <2>3, <2>4, <2>5 DEF IndexTypeOK
  <2> QED BY <1>1, <1>9, <2>1, <2>6 DEF TickSwap
<1>10. CASE TickReset
  <2>1. IndexTypeOK'
    BY <1>0, <1>2, <1>10, NumberingType DEF TickReset, CompactReset, IndexTypeOK
  <2> QED BY <1>0, <1>1, <1>10, <2>1 DEF TickReset
<1> QED BY <1>3, <1>4, <1>5, <1>6, <1>7, <1>8, <1>9, <1>10

\* Every step keeps the shape of the state.
LEMMA ShapeNext == IndexShape /\ [Next]_vars => IndexShape'
<1> SUFFICES ASSUME IndexShape, [Next]_vars PROVE IndexShape'
  OBVIOUS
<1>0. /\ IndexTypeOK /\ ServerShape /\ (disk.points # {} => disk.next # None)
      /\ tick \in TickStates /\ NoTick \in TickStates
  BY NoTickType DEF IndexShape, ServerShape
<1>1. ASSUME NEW e \in Ids, Quarantine(e) \/ Deprecate(e) PROVE IndexShape'
  <2>1. requests' \in 0..MaxRequests
    BY <1>0, <1>1, KnowledgeIndexAssumption DEF Quarantine, Deprecate, Request, ServerShape
  <2>2. status' \in [Ids -> {"Absent", "Active", "Deprecated", "Quarantined"}]
    BY <1>0, <1>1 DEF Quarantine, Deprecate, ServerShape
  <2> QED BY <1>0, <1>1, <2>1, <2>2
          DEF Quarantine, Deprecate, IndexShape, IndexTypeOK, ServerShape, indexVars
<1>2. CASE Stop
  <2>1. /\ disk' = [points |-> points, next |-> next]
        /\ points \subseteq DataIds \X Ids /\ next \in 0..(MaxDataId + 1)
    BY <1>0, <1>2 DEF Stop, Dump, IndexTypeOK
  <2>2. disk'.points # {} => disk'.next # None
    BY <2>1, IndexAssumption DEF None
  <2>3. IndexTypeOK'
    BY <1>0, <1>2, <2>1 DEF Stop, IndexTypeOK
  <2>4. ServerShape'
    BY <1>0, <1>2 DEF Stop, ServerShape
  <2> QED BY <2>2, <2>3, <2>4 DEF IndexShape
<1>3. CASE Restart
  <2>1. /\ points' \subseteq DataIds \X Ids /\ next' \in 0..(MaxDataId + 1)
        /\ fwd' \in [Ids -> DataIds \cup {None}] /\ rev' \in [DataIds -> Ids \cup {None}]
    BY <1>0, <1>3, LoadEffect DEF Restart
  <2>2. IndexTypeOK'
    BY <1>0, <1>3, <2>1 DEF Restart, IndexTypeOK
  <2>3. restarts' \in 0..MaxRestarts
    BY <1>0, <1>3, KnowledgeIndexAssumption DEF Restart, ServerShape
  <2>4. ServerShape'
    BY <1>0, <1>3, <2>3, NoCallType DEF Restart, ServerShape
  <2> QED BY <1>0, <1>3, <2>2, <2>4 DEF Restart, IndexShape
<1>4. CASE UNCHANGED vars
  BY <1>0, <1>4 DEF vars, indexVars, serverVars, IndexShape, IndexTypeOK, ServerShape
<1> QED BY <1>1, <1>2, <1>3, <1>4, SessionShape, TickReadShape, TickWriteShape
        DEF Next, TickWorks, TickFails

\* The index starts empty, no call in flight.
LEMMA ShapeInit == Init => IndexShape
<1> SUFFICES ASSUME Init PROVE IndexShape
  OBVIOUS
<1>1. IndexTypeOK
  BY IndexAssumption DEF Init, IndexTypeOK, NoEntries, NoData, NoDump, None
<1>2. embedded \in [Ids -> BOOLEAN] /\ stopping \in BOOLEAN
  BY Zenon DEF Init
<1>3. ServerShape
  BY <1>2, KnowledgeIndexAssumption, NoCallType, NoTickType DEF Init, ServerShape
<1> QED BY <1>1, <1>3 DEF Init, IndexShape, NoDump

LEMMA ShapeInvariant == Spec => []IndexShape
BY ShapeInit, ShapeNext, PTL DEF Spec

\* The shape of the state, whatever calls, ticks, crashes and restarts interleave.
THEOREM IndexTypeCorrect == Spec => []TypeOK
BY ShapeInvariant, ShapeTypeOK, PTL
-----------------------------------------------------------------------------
(* The reverse map, through re-embedding, pruning, compaction and restarts. *)

LEMMA ReverseSoundNext == IndexShape /\ ReverseMapSound /\ [Next]_vars => ReverseMapSound'
<1> SUFFICES ASSUME IndexShape, ReverseMapSound, [Next]_vars PROVE ReverseMapSound'
  OBVIOUS
<1>0. IndexTypeOK /\ tick \in TickStates /\ sess \in [Sessions -> CallStates]
  BY DEF IndexShape, ServerShape
<1>1. ASSUME NEW e \in Ids, NEW d \in DataIds, IdMapInsert(e, d) PROVE ReverseMapSound'
  BY <1>0, <1>1 DEF IdMapInsert, ReverseMapSound, IndexTypeOK
<1>2. ASSUME NEW e \in Ids, RemoveEntry(e) PROVE ReverseMapSound'
  BY <1>0, <1>2 DEF RemoveEntry, ReverseMapSound, IndexTypeOK, Contains
<1>3. CASE TickSwap
  <2> DEFINE es == tick.snap
             num == Numbering(es)
  <2>1. /\ fwd' = num
        /\ rev' = [d \in DataIds |-> IF \E e \in es : num[e] = d
                                     THEN CHOOSE e \in es : num[e] = d ELSE None]
    BY <1>3 DEF TickSwap, CompactSwap
  <2> HIDE DEF num, es
  <2> QED BY <2>1 DEF ReverseMapSound
<1>4. CASE Restart
  BY <1>4, LoadEffect DEF Restart, IndexShape
<1>5. CASE UNCHANGED <<fwd, rev>>
  BY <1>5 DEF ReverseMapSound
<1>6. ASSUME NEW s \in Sessions, SessionStep(s) PROVE ReverseMapSound'
  <2>1. CASE InsertIdMap(s)
    <3>1. sess[s].e \in Ids /\ sess[s].d \in DataIds /\ IdMapInsert(sess[s].e, sess[s].d)
      BY <1>0, <2>1 DEF InsertIdMap, At, CallStates, EntrySteps, DataSteps
    <3> QED BY <1>1, <3>1
  <2>2. CASE ~InsertIdMap(s)
    BY <1>5, <1>6, <2>2
       DEF SessionStep, BeginStore, StoreInsert, BeginCorrect, CorrectTxn, BeginRestore,
           RestoreCheck, RestoreLookup, RestoreEmbed, PutMap, InsertPoint, FailCall, indexVars
  <2> QED BY <2>1, <2>2
<1>7. CASE HealIdMap
  <2>1. tick.e \in Ids /\ tick.d \in DataIds /\ IdMapInsert(tick.e, tick.d)
    BY <1>0, <1>7 DEF HealIdMap, TickAt, TickStates, HealSteps
  <2> QED BY <1>1, <2>1
<1>8. CASE PruneRemove
  <2>1. tick.e \in Ids /\ RemoveEntry(tick.e)
    BY <1>0, <1>8 DEF PruneRemove, TickAt, TickStates
  <2> QED BY <1>2, <2>1
<1>9. CASE (TickWorks \/ TickFails) /\ ~HealIdMap /\ ~PruneRemove /\ ~TickSwap
  BY <1>5, <1>9
     DEF TickWorks, TickFails, TickSnapshot, TickStaleRatio, PruneQuery, HealQuery, PruneDelete,
         HealEmbed, HealMap, HealPoint, HealDim, TickRewrite, TickReset, TickEnd,
         PruneQueryFails, HealQueryFails, HealUnavailable, HealWriteFails, PruneFails,
         HealLookupFails, HealEmbedFails, indexVars
<1>10. CASE Stop \/ UNCHANGED vars \/ \E e \in Ids : Quarantine(e) \/ Deprecate(e)
  BY <1>5, <1>10 DEF Stop, vars, indexVars, Quarantine, Deprecate
<1> QED BY <1>3, <1>4, <1>6, <1>7, <1>8, <1>9, <1>10 DEF Next

\* No search reports an entry under a data id that is not its current one, also
\* after re-embedding, pruning, compaction and a restart from any dump; that the
\* point under the id holds the entry's own vector is not claimed.
THEOREM IndexReverseMapSound == Spec => []ReverseMapSound
<1>1. Init => ReverseMapSound
  BY DEF Init, ReverseMapSound, NoData
<1> QED BY <1>1, ReverseSoundNext, ShapeInvariant, PTL DEF Spec

\* Right after a restart contains() is truthful, whatever the dump and the table hold.
THEOREM IndexLoadTruthful == Spec => LoadTruthful
<1>1. IndexShape /\ [Next]_vars => [restarts' # restarts => ContainsTruthful']_vars
  <2> SUFFICES ASSUME IndexShape, Next, restarts' # restarts PROVE ContainsTruthful'
    OBVIOUS
  <2>1. Restart
    BY DEF Next, SessionStep, BeginStore, StoreInsert, BeginCorrect, CorrectTxn, BeginRestore,
           RestoreCheck, RestoreLookup, RestoreEmbed, PutMap, InsertPoint, InsertIdMap, FailCall,
           Quarantine, Deprecate, TickWorks, TickFails, TickSnapshot, TickStaleRatio, PruneQuery,
           PruneRemove, HealQuery, PruneDelete, HealEmbed, HealMap, HealPoint, HealIdMap, HealDim,
           TickRewrite, TickSwap, TickReset, TickEnd, PruneQueryFails, HealQueryFails,
           HealUnavailable, HealWriteFails, PruneFails, HealLookupFails, HealEmbedFails,
           TickUnchanged, Stop
  <2> QED BY <2>1, LoadEffect DEF Restart, IndexShape
<1> QED BY <1>1, ShapeInvariant, PTL DEF Spec, LoadTruthful
-----------------------------------------------------------------------------
(***************************************************************************)
(* One life of the process.  A data id is claimed for an entry by its row  *)
(* of VECTOR_MAP, by a point of the graph, by the IdMap, or by the call or *)
(* the tick that is about to write one of these; the calls that have       *)
(* allocated one but have no entry yet are pending.                        *)
(***************************************************************************)
OwnSteps == {"map", "hnsw", "idmap", "embed"}

TableClaim(d, e) == vmap[e] = d \/ fwd[e] = d \/ <<d, e>> \in points

Claimed(d, e) ==
    \/ TableClaim(d, e)
    \/ \E s \in Sessions : sess[s].step \in OwnSteps /\ sess[s].e = e /\ sess[s].d = d
    \/ tick.step \in HealSteps /\ tick.e = e /\ tick.d = d

Pending(s) == sess[s].step \in {"insert", "correct"}

\* The step claims nothing new, or claims d0 for e0 only.
ClaimsOnly(d0, e0) ==
    \A d \in DataIds, e \in Ids : Claimed(d, e)' => Claimed(d, e) \/ (d = d0 /\ e = e0)

TableClaimsOnly(d0, e0) ==
    \A d \in DataIds, e \in Ids : TableClaim(d, e)' => Claimed(d, e) \/ (d = d0 /\ e = e0)

\* A data id is claimed for one entry, by nobody who still has no entry for it,
\* and only once it is allocated.
Owned ==
    \A d \in DataIds, e \in Ids : Claimed(d, e) =>
        /\ d < next
        /\ \A f \in Ids : Claimed(d, f) => f = e
        /\ \A s \in Sessions : Pending(s) => sess[s].d # d

\* Pending data ids are allocated and different.
PendingFresh ==
    \A s \in Sessions : Pending(s) =>
        /\ sess[s].d < next
        /\ \A t \in Sessions \ {s} : Pending(t) => sess[t].d # sess[s].d

\* A step that adds at most the claim of e0 to d0, which nobody had claimed,
\* keeps the owners.
LEMMA OwnedStep ==
    ASSUME IndexShape, IndexShape', Owned, PendingFresh,
           NEW d0 \in DataIds \cup {None}, NEW e0 \in Ids \cup {None}, next <= next',
           ClaimsOnly(d0, e0),
           d0 # None => d0 < next' /\ \A e \in Ids : ~Claimed(d0, e),
           \A t \in Sessions : Pending(t)' =>
               Pending(t) /\ sess'[t].d = sess[t].d /\ sess[t].d # d0
    PROVE  Owned' /\ PendingFresh'
<1>0. /\ next \in Int /\ next' \in Int /\ DataIds \subseteq Int
      /\ \A t \in Sessions : Pending(t) => sess[t].d \in DataIds
  BY IndexAssumption
     DEF IndexShape, IndexTypeOK, DataIds, ServerShape, CallStates, Pending, DataSteps
<1>1. ASSUME NEW d \in DataIds, NEW e \in Ids, Claimed(d, e)'
      PROVE  /\ d < next'
             /\ \A f \in Ids : Claimed(d, f)' => f = e
             /\ \A s \in Sessions : Pending(s)' => sess'[s].d # d
  <2>1. d # None
    BY NoneIsNoId
  <2>2. CASE Claimed(d, e)
    <3>1. d < next /\ (\A f \in Ids : Claimed(d, f) => f = e)
          /\ (\A s \in Sessions : Pending(s) => sess[s].d # d) /\ d # d0
      BY <2>1, <2>2 DEF Owned
    <3> QED BY <1>0, <3>1 DEF ClaimsOnly
  <2>3. CASE d = d0 /\ e = e0
    BY <2>1, <2>3 DEF ClaimsOnly
  <2> QED BY <1>1, <2>2, <2>3 DEF ClaimsOnly
<1>2. Owned'
  BY <1>1 DEF Owned
<1>3. ASSUME NEW s \in Sessions, Pending(s)'
      PROVE  /\ sess'[s].d < next'
             /\ \A t \in Sessions \ {s} : Pending(t)' => sess'[t].d # sess'[s].d
  <2>1. Pending(s) /\ sess'[s].d = sess[s].d /\ sess[s].d < next /\ sess[s].d \in Int
    BY <1>0, <1>3 DEF PendingFresh
  <2> QED BY <1>0, <2>1 DEF PendingFresh
<1>4. PendingFresh'
  BY <1>3 DEF PendingFresh
<1> QED BY <1>2, <1>4

\* A call that begins allocates the next data id and is pending with it.
LEMMA OwnedBegin ==
    ASSUME IndexShape, IndexShape', Owned, PendingFresh, NEW s \in Sessions,
           next' = next + 1, sess'[s].d = next,
           ClaimsOnly(None, None),
           \A t \in Sessions \ {s} : Pending(t)' => Pending(t) /\ sess'[t].d = sess[t].d
    PROVE  Owned' /\ PendingFresh'
<1>0. /\ next \in Int /\ next' \in Int /\ DataIds \subseteq Int
      /\ \A t \in Sessions : Pending(t) => sess[t].d \in DataIds
  BY IndexAssumption
     DEF IndexShape, IndexTypeOK, DataIds, ServerShape, CallStates, Pending, DataSteps
<1>. \A d \in DataIds, e \in Ids : Claimed(d, e)' => Claimed(d, e)
  BY NoneIsNoId DEF ClaimsOnly
<1>1. ASSUME NEW t \in Sessions, Pending(t)'
      PROVE  IF t = s THEN sess'[t].d = next
             ELSE Pending(t) /\ sess'[t].d = sess[t].d /\ sess'[t].d < next
                  /\ sess'[t].d \in Int
  BY <1>0, <1>1 DEF PendingFresh
<1>2. Owned'
  <2> SUFFICES ASSUME NEW d \in DataIds, NEW e \in Ids, Claimed(d, e)'
               PROVE  /\ d < next'
                      /\ \A f \in Ids : Claimed(d, f)' => f = e
                      /\ \A t \in Sessions : Pending(t)' => sess'[t].d # d
    BY DEF Owned
  <2>1. d < next /\ (\A f \in Ids : Claimed(d, f) => f = e)
        /\ (\A t \in Sessions : Pending(t) => sess[t].d # d)
    BY DEF Owned
  <2> QED BY <1>0, <1>1, <2>1
<1>3. PendingFresh'
  <2> SUFFICES ASSUME NEW u \in Sessions, Pending(u)'
               PROVE  /\ sess'[u].d < next'
                      /\ \A t \in Sessions \ {u} : Pending(t)' => sess'[t].d # sess'[u].d
    BY DEF PendingFresh
  <2>1. sess'[u].d < next'
    BY <1>0, <1>1
  <2>2. ASSUME NEW t \in Sessions \ {u}, Pending(t)' PROVE sess'[t].d # sess'[u].d
    BY <1>0, <1>1, <2>2 DEF PendingFresh
  <2> QED BY <2>1, <2>2
<1> QED BY <1>2, <1>3

\* The claims after a step of one call.
LEMMA SessionClaims ==
    ASSUME IndexShape, NEW s \in Sessions, NEW k, sess' = [sess EXCEPT ![s] = k],
           UNCHANGED tick, NEW d0, NEW e0,
           TableClaimsOnly(d0, e0),
           k.step \in OwnSteps /\ k.d \in DataIds /\ k.e \in Ids =>
               Claimed(k.d, k.e) \/ (k.d = d0 /\ k.e = e0)
    PROVE  ClaimsOnly(d0, e0)
<1>1. sess \in [Sessions -> CallStates]
  BY DEF IndexShape, ServerShape
<1> SUFFICES ASSUME NEW d \in DataIds, NEW e \in Ids, Claimed(d, e)'
             PROVE  Claimed(d, e) \/ (d = d0 /\ e = e0)
  BY DEF ClaimsOnly
<1>2. ASSUME NEW t \in Sessions, sess'[t].step \in OwnSteps, sess'[t].e = e, sess'[t].d = d
      PROVE  Claimed(d, e) \/ (d = d0 /\ e = e0)
  <2>1. CASE t = s
    BY <1>1, <1>2, <2>1
  <2>2. CASE t # s
    <3>1. sess'[t] = sess[t]
      BY <1>1, <2>2
    <3> QED BY <1>2, <3>1 DEF Claimed
  <2> QED BY <2>1, <2>2
<1>3. tick.step \in HealSteps /\ tick.e = e /\ tick.d = d => Claimed(d, e)
  BY DEF Claimed
<1>4. CASE TableClaim(d, e)'
  BY <1>4 DEF TableClaimsOnly
<1>5. CASE \E t \in Sessions : sess'[t].step \in OwnSteps /\ sess'[t].e = e /\ sess'[t].d = d
  BY <1>2, <1>5
<1>6. CASE tick'.step \in HealSteps /\ tick'.e = e /\ tick'.d = d
  BY <1>3, <1>6
<1> QED BY <1>4, <1>5, <1>6 DEF Claimed

\* The claims after a step of the tick.
LEMMA TickClaims ==
    ASSUME UNCHANGED sess, NEW d0, NEW e0,
           TableClaimsOnly(d0, e0),
           tick'.step \in HealSteps =>
               Claimed(tick'.d, tick'.e) \/ (tick'.d = d0 /\ tick'.e = e0)
    PROVE  ClaimsOnly(d0, e0)
<1> SUFFICES ASSUME NEW d \in DataIds, NEW e \in Ids, Claimed(d, e)'
             PROVE  Claimed(d, e) \/ (d = d0 /\ e = e0)
  BY DEF ClaimsOnly
<1>1. (\E t \in Sessions : sess[t].step \in OwnSteps /\ sess[t].e = e /\ sess[t].d = d)
        => Claimed(d, e)
  BY DEF Claimed
<1>2. CASE TableClaim(d, e)'
  BY <1>2 DEF TableClaimsOnly
<1>3. CASE \E t \in Sessions : sess'[t].step \in OwnSteps /\ sess'[t].e = e /\ sess'[t].d = d
  BY <1>1, <1>3
<1>4. CASE tick'.step \in HealSteps /\ tick'.e = e /\ tick'.d = d
  BY <1>4
<1> QED BY <1>2, <1>3, <1>4 DEF Claimed

\* What is in the index is claimed.
LEMMA TableIsClaimed ==
    ASSUME NEW d, NEW e, TableClaim(d, e) PROVE Claimed(d, e)
BY DEF Claimed

\* Nobody has claimed the data id that Allocate hands out, nor is it pending.
LEMMA NextUnclaimed ==
    ASSUME IndexShape, Owned, PendingFresh, Allocate
    PROVE  /\ next \in DataIds /\ next < next' /\ next <= next'
           /\ \A e \in Ids : ~Claimed(next, e)
           /\ \A t \in Sessions : Pending(t) => sess[t].d # next
<1>1. next \in DataIds /\ next \in Int /\ next' = next + 1
  BY AllocateType, IndexAssumption DEF IndexShape, DataIds, Allocate
<1>2. ~(next < next)
  BY <1>1
<1>3. \A e \in Ids : ~Claimed(next, e)
  BY <1>1, <1>2 DEF Owned
<1>4. \A t \in Sessions : Pending(t) => sess[t].d # next
  BY <1>2 DEF PendingFresh
<1> QED BY <1>1, <1>3, <1>4

\* The steps of a call keep the owners.
LEMMA SessionOwned ==
    ASSUME IndexShape, IndexShape', Owned, PendingFresh, NEW s \in Sessions, SessionStep(s)
    PROVE  Owned' /\ PendingFresh'
<1> DEFINE old == sess[s]
<1>0. /\ IndexTypeOK /\ sess \in [Sessions -> CallStates] /\ next \in Int /\ None \notin DataIds
      /\ vmap \in [Ids -> DataIds \cup {None}] /\ fwd \in [Ids -> DataIds \cup {None}]
  BY IndexAssumption, NoneIsNoId DEF IndexShape, ServerShape, IndexTypeOK
<1>1. /\ old.e \in Ids \cup {None} /\ old.d \in DataIds \cup {None}
      /\ old.step \in EntrySteps => old.e \in Ids
      /\ old.step \in DataSteps => old.d \in DataIds
  BY <1>0 DEF CallStates
<1>2. ASSUME UNCHANGED <<vmap, fwd, points>>, NEW d0, NEW e0
      PROVE  TableClaimsOnly(d0, e0)
  BY <1>2, TableIsClaimed DEF TableClaim, TableClaimsOnly
<1>3. old.step \in OwnSteps => Claimed(old.d, old.e)
  BY DEF Claimed
<1>4. ASSUME NEW k, sess' = [sess EXCEPT ![s] = k]
      PROVE  /\ sess'[s] = k
             /\ \A t \in Sessions \ {s} : sess'[t] = sess[t]
             /\ \A t \in Sessions \ {s} : Pending(t)' => Pending(t) /\ sess'[t].d = sess[t].d
  <2>1. sess'[s] = k /\ \A t \in Sessions \ {s} : sess'[t] = sess[t]
    BY <1>0, <1>4
  <2> QED BY <2>1 DEF Pending
\* A step that claims nothing new and leaves the call with an entry or none.
<1>5. ASSUME NEW k, sess' = [sess EXCEPT ![s] = k], UNCHANGED <<tick, next>>,
             k.step \notin {"insert", "correct"},
             TableClaimsOnly(None, None),
             k.step \in OwnSteps /\ k.d \in DataIds /\ k.e \in Ids => Claimed(k.d, k.e)
      PROVE  Owned' /\ PendingFresh'
  <2>1. ClaimsOnly(None, None)
    BY <1>5, SessionClaims
  <2>2. \A t \in Sessions : Pending(t)' =>
           Pending(t) /\ sess'[t].d = sess[t].d /\ sess[t].d # None
    <3>1. ~Pending(s)'
      BY <1>4, <1>5 DEF Pending
    <3>2. \A t \in Sessions : Pending(t) => sess[t].d # None
      BY <1>0 DEF Pending, CallStates, DataSteps
    <3> QED BY <1>4, <1>5, <3>1, <3>2
  <2>3. next <= next'
    BY <1>0, <1>5
  <2> QED BY <2>1, <2>2, <2>3, OwnedStep
\* A step that claims d0 for e0 and leaves the call with an entry.
<1>6. ASSUME NEW k, sess' = [sess EXCEPT ![s] = k], UNCHANGED tick,
             k.step \notin {"insert", "correct"},
             NEW d0 \in DataIds, NEW e0 \in Ids, k.d = d0, k.e = e0,
             TableClaimsOnly(d0, e0),
             next <= next', d0 < next', \A e \in Ids : ~Claimed(d0, e),
             \A t \in Sessions \ {s} : Pending(t) => sess[t].d # d0
      PROVE  Owned' /\ PendingFresh'
  <2>1. ClaimsOnly(d0, e0)
    BY <1>6, SessionClaims
  <2>2. \A t \in Sessions : Pending(t)' =>
           Pending(t) /\ sess'[t].d = sess[t].d /\ sess[t].d # d0
    <3>1. ~Pending(s)'
      BY <1>4, <1>6 DEF Pending
    <3> QED BY <1>4, <1>6, <3>1
  <2> QED BY <1>6, <2>1, <2>2, OwnedStep
<1>7. ASSUME NEW st \in {"insert", "correct"}, NEW e0, Goto(s, st, e0, next), Allocate,
             UNCHANGED <<tick, vmap, fwd, points>>
      PROVE  Owned' /\ PendingFresh'
  <2> DEFINE k == [step |-> st, e |-> e0, d |-> next]
  <2>1. sess' = [sess EXCEPT ![s] = k] /\ k.step \notin OwnSteps /\ k.d = next
    BY <1>7 DEF Goto, OwnSteps
  <2> HIDE DEF k
  <2>2. ClaimsOnly(None, None)
    BY <1>2, <1>7, <2>1, SessionClaims
  <2>4. next' = next + 1 /\ sess'[s].d = next
    BY <1>4, <1>7, <2>1 DEF Allocate
  <2> QED BY <1>4, <2>1, <2>2, <2>4, OwnedBegin
<1>8. CASE BeginStore(s) \/ \E o \in Stored : BeginCorrect(s, o)
  BY <1>7, <1>8 DEF BeginStore, BeginCorrect
<1>9. ASSUME old.step \in {"insert", "correct"}
      PROVE  /\ old.d \in DataIds /\ old.d < next /\ \A e \in Ids : ~Claimed(old.d, e)
             /\ \A t \in Sessions \ {s} : Pending(t) => sess[t].d # old.d
  <2>1. Pending(s) /\ old.d \in DataIds
    BY <1>1, <1>9 DEF Pending, DataSteps
  <2> QED BY <2>1 DEF Owned, PendingFresh
<1>10. CASE StoreInsert(s)
  <2> DEFINE k == [step |-> "map", e |-> NewId, d |-> old.d]
  <2>1. /\ old.step = "insert" /\ NewId \in Ids /\ sess' = [sess EXCEPT ![s] = k]
        /\ UNCHANGED <<tick, vmap, fwd, points, next>>
    BY <1>10 DEF StoreInsert, At, Goto, indexVars
  <2>2. k.step = "map" /\ k.e = NewId /\ k.d = old.d /\ next <= next' /\ old.d < next'
    BY <1>0, <1>9, <2>1
  <2> HIDE DEF k
  <2> QED BY <1>2, <1>6, <1>9, <2>1, <2>2
<1>11. CASE CorrectTxn(s)
  <2> DEFINE k == [step |-> "hnsw", e |-> NewId, d |-> old.d]
  <2>1. /\ old.step = "correct" /\ NewId \in Ids /\ sess' = [sess EXCEPT ![s] = k]
        /\ UNCHANGED <<tick, fwd, points, next>> /\ vmap' = [vmap EXCEPT ![NewId] = old.d]
    BY <1>11 DEF CorrectTxn, At, Goto, PutMapping
  <2>2. k.step = "hnsw" /\ k.e = NewId /\ k.d = old.d /\ next <= next' /\ old.d < next'
    BY <1>0, <1>9, <2>1
  <2> HIDE DEF k
  <2>3. ASSUME NEW d \in DataIds, NEW e \in Ids, TableClaim(d, e)'
        PROVE  Claimed(d, e) \/ (d = old.d /\ e = NewId)
    BY <1>0, <2>1, <2>3, TableIsClaimed DEF TableClaim
  <2>4. TableClaimsOnly(old.d, NewId)
    BY <2>3 DEF TableClaimsOnly
  <2> QED BY <1>6, <1>9, <2>1, <2>2, <2>4
<1>12. ASSUME NEW e \in Ids, NEW to \in {"Active", "Deprecated"}, BeginRestore(s, e, to)
       PROVE  Owned' /\ PendingFresh'
  <2>1. PICK k : /\ sess' = [sess EXCEPT ![s] = k]
                 /\ k.step \in {"idle", "check"}
    <3>1. CASE embedded[e]
      <4>1. sess' = [sess EXCEPT ![s] = [step |-> "check", e |-> e, d |-> None]]
        BY <1>12, <3>1 DEF BeginRestore, Goto
      <4>2. [step |-> "check", e |-> e, d |-> None].step \in {"idle", "check"}
        OBVIOUS
      <4> QED BY <4>1, <4>2
    <3>2. CASE ~embedded[e]
      <4>1. sess' = [sess EXCEPT ![s] = sess[s]] /\ sess[s].step = "idle"
        BY <1>0, <1>12, <3>2 DEF BeginRestore, Idle
      <4> QED BY <4>1
    <3> QED BY <3>1, <3>2
  <2>2. UNCHANGED <<tick, vmap, fwd, points, next>>
    BY <1>12 DEF BeginRestore, indexVars
  <2>3. k.step \notin OwnSteps
    BY <2>1 DEF OwnSteps
  <2> QED BY <1>2, <1>5, <2>1, <2>2, <2>3
<1>13. CASE RestoreCheck(s) \/ FailCall(s)
  <2>1. PICK k : /\ sess' = [sess EXCEPT ![s] = k]
                 /\ k.step \in {"idle", "lookup"}
    <3> DEFINE k1 == [step |-> "lookup", e |-> old.e, d |-> None]
    <3>1. sess' = [sess EXCEPT ![s] = NoCall] \/ sess' = [sess EXCEPT ![s] = k1]
      BY <1>13 DEF RestoreCheck, FailCall
    <3>2. NoCall.step \in {"idle", "lookup"} /\ k1.step \in {"idle", "lookup"}
      BY DEF NoCall
    <3> HIDE DEF k1
    <3> QED BY <3>1, <3>2
  <2>2. UNCHANGED <<tick, vmap, fwd, points, next>>
    BY <1>13 DEF RestoreCheck, FailCall, indexVars
  <2>3. k.step \notin OwnSteps
    BY <2>1 DEF OwnSteps
  <2> QED BY <1>2, <1>5, <2>1, <2>2, <2>3
<1>14. CASE RestoreLookup(s)
  <2> DEFINE k == [step |-> "embed", e |-> old.e, d |-> vmap[old.e]]
  <2>1. sess' = [sess EXCEPT ![s] = k] /\ UNCHANGED <<tick, vmap, fwd, points, next>>
    BY <1>14 DEF RestoreLookup, Goto, indexVars
  <2>2. k.step = "embed" /\ Claimed(k.d, k.e)
    BY TableIsClaimed DEF TableClaim
  <2> HIDE DEF k
  <2> QED BY <1>2, <1>5, <2>1, <2>2
<1>15. CASE RestoreEmbed(s)
  <2>1. /\ old.step = "embed" /\ old.e \in Ids /\ Claimed(old.d, old.e)
        /\ UNCHANGED <<tick, vmap, fwd, points>>
    BY <1>1, <1>3, <1>15 DEF RestoreEmbed, At, EntrySteps, OwnSteps
  <2>2. CASE old.d # None
    <3> DEFINE k == [step |-> "hnsw", e |-> old.e, d |-> old.d]
    <3>1. sess' = [sess EXCEPT ![s] = k] /\ UNCHANGED next
      BY <1>15, <2>2 DEF RestoreEmbed, Goto
    <3>2. k.step = "hnsw" /\ Claimed(k.d, k.e)
      BY <2>1
    <3> HIDE DEF k
    <3> QED BY <1>2, <1>5, <2>1, <3>1, <3>2
  <2>3. CASE old.d = None
    <3> DEFINE k == [step |-> "map", e |-> old.e, d |-> next]
    <3>1. sess' = [sess EXCEPT ![s] = k] /\ Allocate
      BY <1>15, <2>3 DEF RestoreEmbed, Goto
    <3>2. k.step = "map" /\ k.e = old.e /\ k.d = next
      OBVIOUS
    <3> HIDE DEF k
    <3> QED BY <1>2, <1>6, <2>1, <3>1, <3>2, NextUnclaimed
  <2> QED BY <2>2, <2>3
<1>16. ASSUME NEW k, sess' = [sess EXCEPT ![s] = k], UNCHANGED <<tick, next>>,
              old.step \in {"map", "hnsw", "idmap"},
              k = NoCall \/ (k.step \in OwnSteps /\ k.e = old.e /\ k.d = old.d),
              \A d \in DataIds, e \in Ids : TableClaim(d, e)' =>
                  TableClaim(d, e) \/ (d = old.d /\ e = old.e)
       PROVE  Owned' /\ PendingFresh'
  <2>1. Claimed(old.d, old.e)
    BY <1>3, <1>16 DEF OwnSteps
  <2>2. TableClaimsOnly(None, None)
    BY <1>16, <2>1, TableIsClaimed DEF TableClaimsOnly
  <2>3. k.step \notin {"insert", "correct"}
    BY <1>16 DEF OwnSteps, NoCall
  <2>4. k.step \in OwnSteps => Claimed(k.d, k.e)
    BY <1>16, <2>1 DEF OwnSteps, NoCall
  <2> QED BY <1>5, <1>16, <2>2, <2>3, <2>4
<1>17. CASE PutMap(s)
  <2> DEFINE k == [step |-> "hnsw", e |-> old.e, d |-> old.d]
  <2>1. /\ sess' = [sess EXCEPT ![s] = k] /\ UNCHANGED <<tick, next, fwd, points>>
        /\ old.step = "map" /\ vmap' = [vmap EXCEPT ![old.e] = old.d]
    BY <1>17 DEF PutMap, At, Goto, PutMapping
  <2>2. k.step \in OwnSteps /\ k.e = old.e /\ k.d = old.d
    BY DEF OwnSteps
  <2> HIDE DEF k
  <2>3. \A d \in DataIds, e \in Ids : TableClaim(d, e)' =>
            TableClaim(d, e) \/ (d = old.d /\ e = old.e)
    BY <1>0, <2>1 DEF TableClaim
  <2> QED BY <1>16, <2>1, <2>2, <2>3
<1>18. CASE InsertPoint(s)
  <2> DEFINE k == [step |-> "idmap", e |-> old.e, d |-> old.d]
  <2>1. /\ sess' = [sess EXCEPT ![s] = k] /\ UNCHANGED <<tick, next, fwd, vmap>>
        /\ old.step = "hnsw" /\ points' = points \cup {<<old.d, old.e>>}
    BY <1>18 DEF InsertPoint, At, Goto, HnswInsert
  <2>2. k.step \in OwnSteps /\ k.e = old.e /\ k.d = old.d
    BY DEF OwnSteps
  <2> HIDE DEF k
  <2>3. \A d \in DataIds, e \in Ids : TableClaim(d, e)' =>
            TableClaim(d, e) \/ (d = old.d /\ e = old.e)
    BY <2>1 DEF TableClaim
  <2> QED BY <1>16, <2>1, <2>2, <2>3
<1>19. CASE InsertIdMap(s)
  <2>1. /\ sess' = [sess EXCEPT ![s] = NoCall] /\ UNCHANGED <<tick, next, points, vmap>>
        /\ old.step = "idmap" /\ fwd' = [fwd EXCEPT ![old.e] = old.d]
    BY <1>19 DEF InsertIdMap, At, IdMapInsert
  <2>2. \A d \in DataIds, e \in Ids : TableClaim(d, e)' =>
            TableClaim(d, e) \/ (d = old.d /\ e = old.e)
    BY <1>0, <2>1 DEF TableClaim
  <2> QED BY <1>16, <2>1, <2>2
<1> QED BY <1>8, <1>10, <1>11, <1>12, <1>13, <1>14, <1>15, <1>17, <1>18, <1>19 DEF SessionStep

\* The steps of the tick that read, or end it: the index stays as it is, and the
\* tick holds no data id afterwards.
LEMMA TickReadEffect ==
    ASSUME tick \in TickStates,
           \/ TickSnapshot \/ TickStaleRatio \/ PruneQuery \/ PruneQueryFails
           \/ HealQuery \/ HealQueryFails \/ HealUnavailable \/ HealWriteFails \/ TickEnd
           \/ HealDim \/ \E e \in Ids : PruneFails(e) \/ HealEmbedFails(e)
    PROVE  /\ UNCHANGED <<sess, vmap, fwd, rev, points, next>>
           /\ tick'.step \notin HealSteps
           /\ tick'.step \in {"idle", "ratio", "pruneQuery", "prune", "heal"}
<1>1. UNCHANGED <<sess, vmap, fwd, rev, points, next>>
  BY DEF TickSnapshot, TickStaleRatio, PruneQuery, PruneQueryFails, HealQuery,
         HealQueryFails, HealUnavailable, HealWriteFails, TickEnd, HealDim,
         PruneFails, HealEmbedFails, TickUnchanged, indexVars
<1>2. CASE TickSnapshot
  <2> DEFINE S == {e \in ActiveIds : embedded[e]}
  <2>1. tick' = [NoTick EXCEPT !.step = "ratio", !.snap = ActiveIds, !.emb = S]
    BY <1>2 DEF TickSnapshot
  <2> HIDE DEF S
  <2>2. tick'.step = "ratio"
    BY <2>1 DEF NoTick
  <2> QED BY <1>1, <2>2 DEF HealSteps
<1>2a. CASE TickEnd
  <2>1. tick'.step = "idle"
    BY <1>2a DEF TickEnd, NoTick
  <2> QED BY <1>1, <2>1 DEF HealSteps
<1>3. CASE TickStaleRatio
  <2>1. tick'.step = "pruneQuery"
    BY <1>3 DEF TickStaleRatio, TickStates
  <2> QED BY <1>1, <2>1 DEF HealSteps
<1>4. CASE PruneQuery
  <2>1. tick'.step = "prune"
    BY <1>4 DEF PruneQuery, TickStates
  <2> QED BY <1>1, <2>1 DEF HealSteps
<1>5. CASE PruneQueryFails
  <2>1. tick'.step = "prune"
    BY <1>5 DEF PruneQueryFails, TickStates
  <2> QED BY <1>1, <2>1 DEF HealSteps
<1>6. CASE HealQuery \/ HealQueryFails \/ HealUnavailable \/ HealWriteFails \/ HealDim
  <2>1. tick'.step = "heal"
    BY <1>6 DEF HealQuery, HealQueryFails, HealUnavailable, HealWriteFails, HealDim,
                BeginHeal, TickStates
  <2> QED BY <1>1, <2>1 DEF HealSteps
<1>7. ASSUME NEW e \in Ids, PruneFails(e) \/ HealEmbedFails(e)
      PROVE  tick'.step \notin HealSteps /\ tick'.step \in {"prune", "heal"}
  <2>1. tick'.step \in {"prune", "heal"}
    BY <1>7 DEF PruneFails, HealEmbedFails, TickAt, TickStates
  <2> QED BY <1>1, <2>1 DEF HealSteps
<1> QED BY <1>1, <1>2, <1>2a, <1>3, <1>4, <1>5, <1>6, <1>7

\* The steps of the tick keep the owners, compaction apart.
LEMMA TickOwned ==
    ASSUME IndexShape, IndexShape', Owned, PendingFresh, TickWorks \/ TickFails,
           ~TickRewrite, ~TickSwap, ~TickReset
    PROVE  Owned' /\ PendingFresh'
<1>0. /\ next \in Int /\ None \notin DataIds /\ tick \in TickStates
      /\ vmap \in [Ids -> DataIds \cup {None}] /\ fwd \in [Ids -> DataIds \cup {None}]
  BY IndexAssumption, NoneIsNoId DEF IndexShape, ServerShape, IndexTypeOK
<1>1. ASSUME UNCHANGED sess, NEW d0 \in DataIds \cup {None}, NEW e0 \in Ids \cup {None},
             TableClaimsOnly(d0, e0),
             tick'.step \in HealSteps =>
                 Claimed(tick'.d, tick'.e) \/ (tick'.d = d0 /\ tick'.e = e0),
             \/ d0 = None /\ UNCHANGED next
             \/ d0 = next /\ Allocate
      PROVE  Owned' /\ PendingFresh'
  <2>1. ClaimsOnly(d0, e0)
    BY <1>1, TickClaims
  <2>2. \A t \in Sessions : Pending(t) => sess[t].d \in DataIds
    BY DEF IndexShape, ServerShape, Pending, CallStates, DataSteps
  <2>3. CASE d0 = None /\ UNCHANGED next
    <3>1. next <= next'
      BY <1>0, <2>3
    <3>2. \A t \in Sessions : Pending(t)' =>
             Pending(t) /\ sess'[t].d = sess[t].d /\ sess[t].d # d0
      BY <1>0, <1>1, <2>2, <2>3 DEF Pending
    <3> QED BY <2>1, <2>3, <3>1, <3>2, OwnedStep
  <2>4. CASE d0 = next /\ Allocate
    <3>1. /\ next \in DataIds /\ next < next' /\ next <= next'
          /\ \A e \in Ids : ~Claimed(next, e)
          /\ \A t \in Sessions : Pending(t) => sess[t].d # next
      BY <2>4, NextUnclaimed
    <3>2. \A t \in Sessions : Pending(t)' =>
             Pending(t) /\ sess'[t].d = sess[t].d /\ sess[t].d # d0
      BY <1>1, <2>4, <3>1 DEF Pending
    <3> QED BY <2>1, <2>4, <3>1, <3>2, OwnedStep
  <2> QED BY <1>1, <2>3, <2>4
<1>2. ASSUME UNCHANGED <<vmap, fwd, points>>, NEW d0, NEW e0
      PROVE  TableClaimsOnly(d0, e0)
  BY <1>2, TableIsClaimed DEF TableClaim, TableClaimsOnly
<1>3. tick.step \in HealSteps => Claimed(tick.d, tick.e) /\ tick.e \in Ids /\ tick.d \in DataIds
  BY <1>0 DEF Claimed, TickStates
<1>4. ASSUME UNCHANGED <<sess, vmap, fwd, points, next>>, tick'.step \notin HealSteps
      PROVE  Owned' /\ PendingFresh'
  BY <1>1, <1>2, <1>4
<1>5. CASE \/ TickSnapshot \/ TickStaleRatio \/ PruneQuery \/ PruneQueryFails
           \/ HealQuery \/ HealQueryFails \/ HealUnavailable \/ HealWriteFails \/ TickEnd
           \/ HealDim \/ \E e \in Ids : PruneFails(e) \/ HealEmbedFails(e)
  BY <1>0, <1>4, <1>5, TickReadEffect
<1>6. ASSUME NEW e \in Ids, PruneDelete(e) PROVE Owned' /\ PendingFresh'
  <2>1. /\ vmap' = [vmap EXCEPT ![e] = None] /\ UNCHANGED <<sess, fwd, points, next>>
        /\ tick' = [tick EXCEPT !.step = "pruneRemove", !.ids = @ \ {e}, !.e = e]
    BY <1>6 DEF PruneDelete, TickUnchanged
  <2>2. tick'.step \notin HealSteps
    BY <1>0, <2>1 DEF HealSteps, TickStates
  <2>3. TableClaimsOnly(None, None)
    BY <1>0, <2>1, TableIsClaimed DEF TableClaim, TableClaimsOnly
  <2> QED BY <1>1, <2>1, <2>2, <2>3
<1>7. CASE PruneRemove
  <2>1. /\ fwd' = [fwd EXCEPT ![tick.e] = None] /\ UNCHANGED <<sess, vmap, points, next>>
        /\ tick' = [tick EXCEPT !.step = "prune", !.e = None]
    BY <1>7 DEF PruneRemove, RemoveEntry, TickUnchanged
  <2>2. tick'.step \notin HealSteps
    BY <1>0, <2>1 DEF HealSteps, TickStates
  <2>3. TableClaimsOnly(None, None)
    BY <1>0, <2>1, TableIsClaimed DEF TableClaim, TableClaimsOnly
  <2> QED BY <1>1, <2>1, <2>2, <2>3
<1>8. ASSUME NEW e \in Ids, HealEmbed(e) \/ HealLookupFails(e) PROVE Owned' /\ PendingFresh'
  <2>1. UNCHANGED <<sess, vmap, fwd, points>>
    BY <1>8 DEF HealEmbed, HealLookupFails, TickUnchanged
  <2>2. CASE UNCHANGED next /\ tick' = [tick EXCEPT !.step = "healHnsw", !.ids = @ \ {e},
                                                    !.e = e, !.d = vmap[e]]
    <3>1. tick'.e = e /\ tick'.d = vmap[e]
      BY <1>0, <2>2 DEF TickStates
    <3>2. Claimed(tick'.d, tick'.e)
      BY <3>1, TableIsClaimed DEF TableClaim
    <3> QED BY <1>1, <1>2, <2>1, <2>2, <3>2
  <2>3. CASE Allocate /\ tick' = [tick EXCEPT !.step = "healMap", !.ids = @ \ {e},
                                              !.e = e, !.d = next]
    <3>1. tick'.e = e /\ tick'.d = next
      BY <1>0, <2>3 DEF TickStates
    <3>2. next \in DataIds
      BY <2>3, NextUnclaimed
    <3> QED BY <1>1, <1>2, <2>1, <2>3, <3>1, <3>2
  <2> QED BY <1>8, <2>2, <2>3 DEF HealEmbed, HealLookupFails
<1>9. ASSUME UNCHANGED <<sess, next>>, tick.step \in HealSteps,
             tick'.e = tick.e, tick'.d = tick.d,
             \A d \in DataIds, e \in Ids : TableClaim(d, e)' =>
                 TableClaim(d, e) \/ (d = tick.d /\ e = tick.e)
      PROVE  Owned' /\ PendingFresh'
  <2>1. TableClaimsOnly(None, None)
    BY <1>3, <1>9, TableIsClaimed DEF TableClaimsOnly
  <2>2. Claimed(tick'.d, tick'.e)
    BY <1>3, <1>9
  <2> QED BY <1>1, <1>9, <2>1, <2>2
<1>10. CASE HealMap
  <2>1. /\ vmap' = [vmap EXCEPT ![tick.e] = tick.d] /\ UNCHANGED <<sess, fwd, points, next>>
        /\ tick' = [tick EXCEPT !.step = "healHnsw"] /\ tick.step = "healMap"
    BY <1>10 DEF HealMap, PutMapping, TickUnchanged, TickAt
  <2>2. tick'.e = tick.e /\ tick'.d = tick.d /\ tick.step \in HealSteps
    BY <1>0, <2>1 DEF HealSteps, TickStates
  <2>3. \A d \in DataIds, e \in Ids : TableClaim(d, e)' =>
            TableClaim(d, e) \/ (d = tick.d /\ e = tick.e)
    BY <1>0, <2>1 DEF TableClaim
  <2> QED BY <1>9, <2>1, <2>2, <2>3
<1>11. CASE HealPoint
  <2>1. /\ points' = points \cup {<<tick.d, tick.e>>} /\ UNCHANGED <<sess, fwd, vmap, next>>
        /\ tick' = [tick EXCEPT !.step = "healIdMap"] /\ tick.step = "healHnsw"
    BY <1>11 DEF HealPoint, HnswInsert, TickUnchanged, TickAt
  <2>2. tick'.e = tick.e /\ tick'.d = tick.d /\ tick.step \in HealSteps
    BY <1>0, <2>1 DEF HealSteps, TickStates
  <2>3. \A d \in DataIds, e \in Ids : TableClaim(d, e)' =>
            TableClaim(d, e) \/ (d = tick.d /\ e = tick.e)
    BY <2>1 DEF TableClaim
  <2> QED BY <1>9, <2>1, <2>2, <2>3
<1>12. CASE HealIdMap
  <2>1. /\ fwd' = [fwd EXCEPT ![tick.e] = tick.d] /\ UNCHANGED <<sess, points, vmap, next>>
        /\ tick' = [tick EXCEPT !.step = "healDim"] /\ tick.step = "healIdMap"
    BY <1>12 DEF HealIdMap, IdMapInsert, TickUnchanged, TickAt
  <2>2. tick'.e = tick.e /\ tick'.d = tick.d /\ tick.step \in HealSteps
    BY <1>0, <2>1 DEF HealSteps, TickStates
  <2>3. \A d \in DataIds, e \in Ids : TableClaim(d, e)' =>
            TableClaim(d, e) \/ (d = tick.d /\ e = tick.e)
    BY <1>0, <2>1 DEF TableClaim
  <2> QED BY <1>9, <2>1, <2>2, <2>3
<1> QED BY <1>5, <1>6, <1>7, <1>8, <1>10, <1>11, <1>12 DEF TickWorks, TickFails

\* A call or a tick that is about to update the IdMap has put its point into
\* the graph, and the two directions of the IdMap agree.
PointsKnown ==
    /\ MappedToOwnVector
    /\ \A s \in Sessions : sess[s].step = "idmap" => <<sess[s].d, sess[s].e>> \in points
    /\ tick.step = "healIdMap" => <<tick.d, tick.e>> \in points

ForwardSound == \A e \in Ids : Contains(e) => rev[fwd[e]] = e

\* The IdMap after a step.
IdMapStep ==
    \/ UNCHANGED <<fwd, rev>>
    \/ \E e \in Ids, d \in DataIds : Claimed(d, e) /\ <<d, e>> \in points /\ IdMapInsert(e, d)
    \/ \E e \in Ids : RemoveEntry(e)

\* An IdMap step keeps the forward map sound, since a data id has one owner.
LEMMA IdMapStepSound ==
    ASSUME IndexTypeOK, Owned, ForwardSound, MappedToOwnVector, IdMapStep, points \subseteq points'
    PROVE  ForwardSound' /\ MappedToOwnVector'
<1>0. /\ fwd \in [Ids -> DataIds \cup {None}] /\ rev \in [DataIds -> Ids \cup {None}]
      /\ None \notin DataIds
  BY NoneIsNoId DEF IndexTypeOK
<1>1. ASSUME NEW e \in Ids, NEW f \in Ids, NEW d \in DataIds, Claimed(d, e), fwd[f] = d
      PROVE  f = e
  BY <1>1, TableIsClaimed DEF Owned, TableClaim
<1>2. CASE UNCHANGED <<fwd, rev>>
  BY <1>2 DEF ForwardSound, MappedToOwnVector, Contains
<1>3. ASSUME NEW e \in Ids, NEW d \in DataIds, Claimed(d, e), <<d, e>> \in points,
             IdMapInsert(e, d)
      PROVE  ForwardSound' /\ MappedToOwnVector'
  <2>1. /\ fwd' = [fwd EXCEPT ![e] = d]
        /\ rev' = [i \in DataIds |-> IF i = d THEN e
                                     ELSE IF i = fwd[e] THEN None ELSE rev[i]]
    BY <1>3 DEF IdMapInsert
  <2>2. MappedToOwnVector'
    BY <1>0, <1>3, <2>1 DEF MappedToOwnVector, Contains
  <2>3. ASSUME NEW f \in Ids, fwd'[f] # None PROVE rev'[fwd'[f]] = f
    <3>1. CASE f = e
      BY <1>0, <2>1, <3>1
    <3>2. CASE f # e
      <4>1. fwd'[f] = fwd[f] /\ fwd[f] \in DataIds
        BY <1>0, <2>1, <2>3, <3>2
      <4>2. fwd[f] # d
        BY <1>1, <1>3, <3>2
      <4>3. fwd[f] # fwd[e]
        <5>1. TableClaim(fwd[f], f)
          BY DEF TableClaim
        <5> QED BY <1>1, <3>2, <4>1, <5>1, TableIsClaimed
      <4>4. rev[fwd[f]] = f
        BY <1>0, <4>1 DEF ForwardSound, Contains
      <4> QED BY <2>1, <4>1, <4>2, <4>3, <4>4
    <3> QED BY <3>1, <3>2
  <2> QED BY <2>2, <2>3 DEF ForwardSound, Contains
<1>4. ASSUME NEW e \in Ids, RemoveEntry(e) PROVE ForwardSound' /\ MappedToOwnVector'
  <2>1. /\ fwd' = [fwd EXCEPT ![e] = None]
        /\ rev' = IF fwd[e] # None THEN [rev EXCEPT ![fwd[e]] = None] ELSE rev
    BY <1>4 DEF RemoveEntry, Contains
  <2>2. MappedToOwnVector'
    BY <1>0, <2>1 DEF MappedToOwnVector, Contains
  <2>3. ASSUME NEW f \in Ids, fwd'[f] # None PROVE rev'[fwd'[f]] = f
    <3>1. f # e /\ fwd'[f] = fwd[f] /\ fwd[f] \in DataIds
      BY <1>0, <2>1, <2>3
    <3>2. fwd[f] # fwd[e]
      <4>1. TableClaim(fwd[f], f)
        BY DEF TableClaim
      <4> QED BY <1>1, <3>1, <4>1, TableIsClaimed
    <3>3. rev[fwd[f]] = f
      BY <1>0, <3>1 DEF ForwardSound, Contains
    <3> QED BY <1>0, <2>1, <3>1, <3>2, <3>3
  <2> QED BY <2>2, <2>3 DEF ForwardSound, Contains
<1> QED BY <1>2, <1>3, <1>4 DEF IdMapStep

\* Without compaction and within one life the points of the graph only grow,
\* the IdMap changes entry by entry, and what is about to enter it has its point.
LEMMA PointsStep ==
    ASSUME IndexShape, PointsKnown, Next, ~TickRewrite, ~TickSwap, ~TickReset, ~Restart
    PROVE  /\ points \subseteq points' /\ IdMapStep
           /\ \A s \in Sessions : sess'[s].step = "idmap" => <<sess'[s].d, sess'[s].e>> \in points'
           /\ tick'.step = "healIdMap" => <<tick'.d, tick'.e>> \in points'
<1> DEFINE Goal == /\ points \subseteq points' /\ IdMapStep
                   /\ \A s \in Sessions :
                         sess'[s].step = "idmap" => <<sess'[s].d, sess'[s].e>> \in points'
                   /\ tick'.step = "healIdMap" => <<tick'.d, tick'.e>> \in points'
<1>0. /\ IndexTypeOK /\ tick \in TickStates /\ sess \in [Sessions -> CallStates]
      /\ \A s \in Sessions : sess[s].step = "idmap" => <<sess[s].d, sess[s].e>> \in points
      /\ tick.step = "healIdMap" => <<tick.d, tick.e>> \in points
  BY DEF IndexShape, ServerShape, PointsKnown
<1>1. ASSUME NEW s \in Sessions, SessionStep(s) PROVE Goal
  <2> DEFINE old == sess[s]
  <2>1. ASSUME NEW k, sess' = [sess EXCEPT ![s] = k], UNCHANGED tick, points \subseteq points',
               k.step = "idmap" => <<k.d, k.e>> \in points', IdMapStep
        PROVE  Goal
    <3>1. \A t \in Sessions : sess'[t] = IF t = s THEN k ELSE sess[t]
      BY <1>0, <2>1
    <3> QED BY <1>0, <2>1, <3>1
  <2>2. UNCHANGED tick
    BY <1>1 DEF SessionStep, BeginStore, StoreInsert, BeginCorrect, CorrectTxn, BeginRestore,
                RestoreCheck, RestoreLookup, RestoreEmbed, PutMap, InsertPoint, InsertIdMap, FailCall
  <2>3. CASE InsertPoint(s)
    <3> DEFINE k == [step |-> "idmap", e |-> old.e, d |-> old.d]
    <3>1. /\ sess' = [sess EXCEPT ![s] = k] /\ points' = points \cup {<<old.d, old.e>>}
          /\ UNCHANGED <<fwd, rev>>
      BY <2>3 DEF InsertPoint, Goto, HnswInsert
    <3>2. k.d = old.d /\ k.e = old.e
      OBVIOUS
    <3> HIDE DEF k
    <3> QED BY <2>1, <2>2, <3>1, <3>2 DEF IdMapStep
  <2>4. CASE InsertIdMap(s)
    <3>1. /\ sess' = [sess EXCEPT ![s] = NoCall] /\ UNCHANGED points /\ old.step = "idmap"
          /\ IdMapInsert(old.e, old.d)
      BY <2>4 DEF InsertIdMap, At
    <3>2. old.e \in Ids /\ old.d \in DataIds /\ Claimed(old.d, old.e) /\ <<old.d, old.e>> \in points
      BY <1>0, <3>1 DEF CallStates, EntrySteps, DataSteps, Claimed, OwnSteps
    <3>3. IdMapStep
      BY <3>1, <3>2 DEF IdMapStep
    <3> QED BY <2>1, <2>2, <3>1, <3>3 DEF NoCall
  <2>5. CASE ~InsertPoint(s) /\ ~InsertIdMap(s)
    <3>1. UNCHANGED <<points, fwd, rev>>
      BY <1>1, <2>5 DEF SessionStep, BeginStore, StoreInsert, BeginCorrect, CorrectTxn,
             BeginRestore, RestoreCheck, RestoreLookup, RestoreEmbed, PutMap, FailCall, indexVars
    <3>2. ASSUME NEW st, NEW e, NEW d, Goto(s, st, e, d), st # "idmap" PROVE Goal
      <4> DEFINE k == [step |-> st, e |-> e, d |-> d]
      <4>1. sess' = [sess EXCEPT ![s] = k] /\ k.step # "idmap"
        BY <3>2 DEF Goto
      <4> HIDE DEF k
      <4> QED BY <2>1, <2>2, <3>1, <4>1 DEF IdMapStep
    <3>3. ASSUME sess' = [sess EXCEPT ![s] = NoCall] \/ UNCHANGED sess PROVE Goal
      <4>1. CASE UNCHANGED sess
        BY <1>0, <2>2, <3>1, <4>1 DEF IdMapStep
      <4>2. CASE sess' = [sess EXCEPT ![s] = NoCall]
        BY <2>1, <2>2, <3>1, <4>2 DEF IdMapStep, NoCall
      <4> QED BY <3>3, <4>1, <4>2
    <3>4. CASE RestoreCheck(s)
      <4>1. Goto(s, "lookup", sess[s].e, None) \/ sess' = [sess EXCEPT ![s] = NoCall]
        BY <3>4 DEF RestoreCheck, Goto
      <4> QED BY <3>2, <3>3, <4>1
    <3>5. CASE RestoreEmbed(s)
      BY <3>2, <3>5 DEF RestoreEmbed
    <3>6. CASE \E e \in Ids, to \in {"Active", "Deprecated"} : BeginRestore(s, e, to)
      BY <3>2, <3>3, <3>6 DEF BeginRestore
    <3>7. CASE FailCall(s)
      BY <3>3, <3>7 DEF FailCall
    <3>8. CASE \/ BeginStore(s) \/ StoreInsert(s) \/ CorrectTxn(s) \/ RestoreLookup(s) \/ PutMap(s)
               \/ \E o \in Stored : BeginCorrect(s, o)
      BY <3>2, <3>8 DEF BeginStore, StoreInsert, CorrectTxn, RestoreLookup, PutMap, BeginCorrect
    <3> QED BY <1>1, <2>5, <3>4, <3>5, <3>6, <3>7, <3>8 DEF SessionStep
  <2> QED BY <2>3, <2>4, <2>5
<1>2. ASSUME UNCHANGED <<sess, points, fwd, rev>>, tick'.step # "healIdMap" PROVE Goal
  BY <1>0, <1>2 DEF IdMapStep
<1>3. CASE HealPoint
  <2>1. /\ points' = points \cup {<<tick.d, tick.e>>} /\ UNCHANGED <<sess, fwd, rev>>
        /\ tick' = [tick EXCEPT !.step = "healIdMap"]
    BY <1>3 DEF HealPoint, HnswInsert, TickUnchanged
  <2>2. tick'.e = tick.e /\ tick'.d = tick.d
    BY <1>0, <2>1 DEF TickStates
  <2> QED BY <1>0, <2>1, <2>2 DEF IdMapStep
<1>4. CASE HealIdMap
  <2>1. /\ IdMapInsert(tick.e, tick.d) /\ UNCHANGED <<sess, points>>
        /\ tick' = [tick EXCEPT !.step = "healDim"] /\ tick.step = "healIdMap"
    BY <1>4 DEF HealIdMap, TickUnchanged, TickAt
  <2>2. tick.e \in Ids /\ tick.d \in DataIds /\ Claimed(tick.d, tick.e) /\ tick'.step = "healDim"
    BY <1>0, <2>1 DEF TickStates, HealSteps, Claimed
  <2>3. IdMapStep
    BY <1>0, <2>1, <2>2 DEF IdMapStep
  <2> QED BY <1>0, <2>1, <2>2, <2>3
<1>5. CASE PruneRemove
  <2>1. /\ RemoveEntry(tick.e) /\ UNCHANGED <<sess, points>> /\ tick.e \in Ids
        /\ tick'.step = "prune"
    BY <1>0, <1>5 DEF PruneRemove, TickUnchanged, TickAt, TickStates
  <2>2. IdMapStep
    BY <2>1 DEF IdMapStep
  <2> QED BY <1>0, <2>1, <2>2
<1>6. CASE \/ TickSnapshot \/ TickStaleRatio \/ PruneQuery \/ PruneQueryFails
           \/ HealQuery \/ HealQueryFails \/ HealUnavailable \/ HealWriteFails \/ TickEnd
           \/ HealDim \/ \E e \in Ids : PruneFails(e) \/ HealEmbedFails(e)
  BY <1>0, <1>2, <1>6, TickReadEffect DEF HealSteps
<1>7. ASSUME NEW e \in Ids, PruneDelete(e) PROVE Goal
  <2>1. UNCHANGED <<sess, points, fwd, rev>> /\ tick'.step = "pruneRemove"
    BY <1>0, <1>7 DEF PruneDelete, TickUnchanged, TickStates
  <2> QED BY <1>2, <2>1
<1>9. ASSUME NEW e \in Ids, HealEmbed(e) \/ HealLookupFails(e) PROVE Goal
  <2>1. UNCHANGED <<sess, points, fwd, rev>>
    BY <1>9 DEF HealEmbed, HealLookupFails, TickUnchanged
  <2>2. tick'.step \in {"healHnsw", "healMap"}
    BY <1>0, <1>9 DEF HealEmbed, HealLookupFails, TickStates
  <2> QED BY <1>2, <2>1, <2>2
<1>10. CASE HealMap
  <2>1. UNCHANGED <<sess, points, fwd, rev>> /\ tick'.step = "healHnsw"
    BY <1>0, <1>10 DEF HealMap, TickUnchanged, TickStates
  <2> QED BY <1>2, <2>1
<1>11. CASE Stop
  BY <1>2, <1>11 DEF Stop, NoTick
<1>12. ASSUME NEW e \in Ids, Quarantine(e) \/ Deprecate(e) PROVE Goal
  <2>1. UNCHANGED <<sess, tick, points, fwd, rev>>
    BY <1>12 DEF Quarantine, Deprecate, indexVars
  <2> QED BY <1>0, <2>1 DEF IdMapStep
<1>13. CASE TickWorks \/ TickFails
  BY <1>3, <1>4, <1>5, <1>6, <1>7, <1>9, <1>10, <1>13 DEF TickWorks, TickFails
<1> QED BY <1>1, <1>11, <1>12, <1>13 DEF Next

\* No compaction is under way.
NoCompaction == tick.step \notin {"swap", "reset"}

\* The steps of the tick other than those of a compaction do not begin one.
LEMMA NoCompactionNext ==
    ASSUME IndexShape, NoCompaction, [Next]_vars, [~TickRewrite]_vars
    PROVE  NoCompaction'
<1>0. tick \in TickStates
  BY DEF IndexShape, ServerShape
<1>1. CASE UNCHANGED tick
  BY <1>1 DEF NoCompaction
<1>2. CASE tick' = NoTick
  BY <1>2 DEF NoCompaction, NoTick
<1>3. CASE \/ TickSnapshot \/ TickStaleRatio \/ PruneQuery \/ PruneQueryFails
           \/ HealQuery \/ HealQueryFails \/ HealUnavailable \/ HealWriteFails \/ TickEnd
           \/ HealDim \/ \E e \in Ids : PruneFails(e) \/ HealEmbedFails(e)
  <2>1. tick'.step \in {"idle", "ratio", "pruneQuery", "prune", "heal"}
    BY <1>0, <1>3, TickReadEffect
  <2> QED BY <2>1 DEF NoCompaction
<1>4. CASE PruneRemove \/ HealMap \/ HealPoint \/ HealIdMap
  BY <1>0, <1>4 DEF PruneRemove, HealMap, HealPoint, HealIdMap, NoCompaction, TickStates
<1>5. ASSUME NEW e \in Ids, PruneDelete(e) \/ HealEmbed(e) \/ HealLookupFails(e)
      PROVE  NoCompaction'
  BY <1>0, <1>5 DEF PruneDelete, HealEmbed, HealLookupFails, NoCompaction, TickStates
<1>6. CASE UNCHANGED vars
  BY <1>1, <1>6 DEF vars, serverVars
<1>7. ~TickSwap /\ ~TickReset /\ (~TickRewrite \/ UNCHANGED vars)
  BY DEF NoCompaction, TickSwap, TickReset, TickAt
<1>8. Stop \/ Restart => tick' = NoTick
  BY DEF Stop, Restart
<1>9. ASSUME NEW s \in Sessions, SessionStep(s) PROVE UNCHANGED tick
  BY <1>9 DEF SessionStep, BeginStore, StoreInsert, BeginCorrect, CorrectTxn, BeginRestore,
              RestoreCheck, RestoreLookup, RestoreEmbed, PutMap, InsertPoint, InsertIdMap, FailCall
<1>10. (\E e \in Ids : Quarantine(e) \/ Deprecate(e)) => UNCHANGED tick
  BY DEF Quarantine, Deprecate
<1> QED BY <1>1, <1>2, <1>3, <1>4, <1>5, <1>6, <1>7, <1>8, <1>9, <1>10
        DEF Next, TickWorks, TickFails

\* The invariant of one life of the process.
OneLife == restarts = 0 => Owned /\ PendingFresh /\ PointsKnown /\ ForwardSound

\* Every step within the first life keeps the owners and the points.
LEMMA OneLifeNext ==
    ASSUME IndexShape, IndexShape', NoCompaction, OneLife, [Next]_vars, [~TickRewrite]_vars
    PROVE  OneLife'
<1> SUFFICES ASSUME restarts' = 0
             PROVE  (Owned /\ PendingFresh /\ PointsKnown /\ ForwardSound)'
  BY DEF OneLife
<1>0. IndexTypeOK /\ restarts \in Nat
  BY KnowledgeIndexAssumption DEF IndexShape, ServerShape
<1>1. ~Restart /\ ~TickSwap /\ ~TickReset
  BY <1>0 DEF Restart, NoCompaction, TickSwap, TickReset, TickAt
<1>2. restarts = 0
  BY <1>0, <1>1 DEF vars, serverVars, Next, SessionStep, BeginStore, StoreInsert, BeginCorrect,
         CorrectTxn, BeginRestore, RestoreCheck, RestoreLookup, RestoreEmbed, PutMap, InsertPoint,
         InsertIdMap, FailCall, Quarantine, Deprecate, TickWorks, TickFails, TickSnapshot,
         TickStaleRatio, PruneQuery, PruneRemove, HealQuery, PruneDelete, HealEmbed, HealMap,
         HealPoint, HealIdMap, HealDim, TickEnd, PruneQueryFails, HealQueryFails, HealUnavailable,
         HealWriteFails, TickRewrite, PruneFails, HealLookupFails, HealEmbedFails, TickUnchanged, Stop
<1>3. Owned /\ PendingFresh /\ PointsKnown /\ ForwardSound
  BY <1>2 DEF OneLife
<1>4. CASE UNCHANGED vars
  <2>1. UNCHANGED <<vmap, fwd, rev, points, next, sess, tick>>
    BY <1>4 DEF vars, indexVars, serverVars
  <2> QED BY <1>3, <2>1 DEF Owned, PendingFresh, PointsKnown, ForwardSound, MappedToOwnVector,
                            Contains, Claimed, TableClaim, Pending
<1>5. CASE Next /\ ~TickRewrite
  <2>1. /\ points \subseteq points' /\ IdMapStep
        /\ \A s \in Sessions : sess'[s].step = "idmap" => <<sess'[s].d, sess'[s].e>> \in points'
        /\ tick'.step = "healIdMap" => <<tick'.d, tick'.e>> \in points'
    BY <1>1, <1>3, <1>5, PointsStep
  <2>2. ForwardSound' /\ MappedToOwnVector'
    BY <1>0, <1>3, <2>1, IdMapStepSound DEF PointsKnown
  <2>3. Owned' /\ PendingFresh'
    <3>1. CASE \E s \in Sessions : SessionStep(s)
      BY <1>3, <3>1, SessionOwned
    <3>2. CASE TickWorks \/ TickFails
      BY <1>1, <1>3, <1>5, <3>2, TickOwned
    <3>3. CASE Stop \/ \E e \in Ids : Quarantine(e) \/ Deprecate(e)
      <4>1. UNCHANGED <<vmap, fwd, points, next, sess>>
            /\ (UNCHANGED tick \/ tick'.step \notin HealSteps)
        BY <3>3 DEF Stop, Quarantine, Deprecate, indexVars, NoTick, HealSteps
      <4>2. \A d \in DataIds, e \in Ids : Claimed(d, e)' => Claimed(d, e)
        BY <4>1 DEF Claimed, TableClaim
      <4>3. \A s \in Sessions : Pending(s)' => Pending(s)
        BY <4>1 DEF Pending
      <4> QED BY <1>3, <4>1, <4>2, <4>3 DEF Owned, PendingFresh
    <3> QED BY <1>1, <1>5, <3>1, <3>2, <3>3 DEF Next
  <2> QED BY <2>1, <2>2, <2>3 DEF PointsKnown
<1> QED BY <1>4, <1>5

LEMMA OneLifeInvariant == Spec /\ [][~TickRewrite]_vars => [](NoCompaction /\ OneLife)
<1>1. Init => NoCompaction /\ OneLife
  <2> SUFFICES ASSUME Init PROVE NoCompaction /\ OneLife
    OBVIOUS
  <2>1. NoCompaction
    BY DEF Init, NoCompaction, NoTick
  <2>2. \A d \in DataIds, e \in Ids : ~Claimed(d, e)
    BY NoneIsNoId DEF Init, Claimed, TableClaim, NoEntries, NoCall, NoTick, OwnSteps, HealSteps
  <2>3. \A s \in Sessions : ~Pending(s)
    BY DEF Init, Pending, NoCall
  <2>4. PointsKnown /\ ForwardSound
    BY DEF Init, PointsKnown, ForwardSound, MappedToOwnVector, Contains, NoEntries, NoCall, NoTick
  <2> QED BY <2>1, <2>2, <2>3, <2>4 DEF OneLife, Owned, PendingFresh
<1>2. IndexShape /\ IndexShape' /\ NoCompaction /\ OneLife /\ [Next]_vars
        /\ [~TickRewrite]_vars => (NoCompaction /\ OneLife)'
  BY NoCompactionNext, OneLifeNext
<1> QED BY <1>1, <1>2, ShapeInvariant, PTL DEF Spec

(***************************************************************************)
(* As long as the process has not restarted and no tick has compacted the  *)
(* index, the data ids of VECTOR_MAP are unique, whatever calls, prunes    *)
(* and heal passes interleave or fail half-way.                            *)
(***************************************************************************)
THEOREM IndexDataIdsUnique ==
    Spec /\ [][~TickRewrite]_vars => [](restarts = 0 => DataIdsUnique)
<1>1. IndexShape /\ OneLife => (restarts = 0 => DataIdsUnique)
  <2> SUFFICES ASSUME IndexShape, OneLife, restarts = 0, NEW e \in Ids, NEW f \in Ids,
                      e # f, vmap[e] # None, vmap[e] = vmap[f]
               PROVE  FALSE
    BY DEF DataIdsUnique
  <2>1. vmap[e] \in DataIds /\ Owned
    BY DEF IndexShape, IndexTypeOK, OneLife
  <2>2. Claimed(vmap[e], e) /\ Claimed(vmap[e], f)
    BY TableIsClaimed DEF TableClaim
  <2> QED BY <2>1, <2>2 DEF Owned
<1> QED BY <1>1, OneLifeInvariant, ShapeInvariant, PTL

\* Under the same conditions the point an entry is mapped to is its own vector.
THEOREM IndexMappedToOwnVector ==
    Spec /\ [][~TickRewrite]_vars => [](restarts = 0 => MappedToOwnVector)
<1>1. OneLife => (restarts = 0 => MappedToOwnVector)
  BY DEF OneLife, PointsKnown
<1> QED BY <1>1, OneLifeInvariant, PTL

\* And the two directions of the IdMap are inverse to each other.
THEOREM IndexIdMapBijective ==
    Spec /\ [][~TickRewrite]_vars => [](restarts = 0 => IdMapBijective)
<1>1. OneLife /\ ReverseMapSound => (restarts = 0 => IdMapBijective)
  BY DEF OneLife, ForwardSound, IdMapBijective
<1> QED BY <1>1, OneLifeInvariant, IndexReverseMapSound, PTL
-----------------------------------------------------------------------------
(***************************************************************************)
(* With a trigger of 100 percent no tick compacts, since there are never   *)
(* more stale points than points: such an instance of the specification    *)
(* satisfies the condition of the three theorems above.                    *)
(***************************************************************************)
LEMMA NeverTooStale ==
    ASSUME IndexTypeOK, StaleTrigger = 100 PROVE TooStale = FALSE
<1> DEFINE M == {e \in Ids : Contains(e)}
           c == Cardinality(points)
           m == Cardinality(M)
<1>1. IsFiniteSet(Ids) /\ IsFiniteSet(DataIds)
  BY IndexAssumption, FS_Interval DEF Ids, DataIds
<1>2. IsFiniteSet(DataIds \X Ids)
  BY <1>1, FS_Product
<1>3. IsFiniteSet(points) /\ IsFiniteSet(M)
  BY <1>1, <1>2, FS_Subset DEF IndexTypeOK
<1>4. c \in Nat /\ m \in Nat
  BY <1>3, FS_CardinalityType
<1>5. StaleCount = IF c > m THEN c - m ELSE 0
  BY DEF StaleCount
<1> HIDE DEF c, m
<1>6. ~(StaleCount * 100 > 100 * c)
  BY <1>4, <1>5
<1> QED BY <1>6 DEF TooStale, c

LEMMA CompactOffNext ==
    ASSUME StaleTrigger = 100, IndexShape, tick.compact = FALSE, [Next]_vars
    PROVE  tick'.compact = FALSE
<1>0. tick \in TickStates /\ IndexTypeOK
  BY DEF IndexShape, ServerShape
<1>1. CASE UNCHANGED tick
  BY <1>1
<1>2. CASE tick' = NoTick
  BY <1>2 DEF NoTick
<1>3. CASE TickStaleRatio
  <2>1. tick' = [tick EXCEPT !.step = "pruneQuery", !.compact = FALSE, !.snap = {}]
    BY <1>0, <1>3, NeverTooStale DEF TickStaleRatio
  <2> QED BY <1>0, <2>1 DEF TickStates
<1>4. CASE TickSnapshot
  BY <1>4 DEF TickSnapshot, NoTick
<1>5. CASE PruneQuery
  BY <1>0, <1>5 DEF PruneQuery, TickStates
<1>6. CASE PruneQueryFails \/ PruneRemove \/ HealQuery \/ HealQueryFails \/ HealUnavailable
  BY <1>0, <1>6 DEF PruneQueryFails, PruneRemove, HealQuery, HealQueryFails, HealUnavailable,
                    BeginHeal, TickStates
<1>7. CASE HealMap \/ HealPoint \/ HealIdMap \/ HealDim \/ HealWriteFails
  BY <1>0, <1>7 DEF HealMap, HealPoint, HealIdMap, HealDim, HealWriteFails,
                    TickStates
<1>8. ASSUME NEW e \in Ids, PruneDelete(e) \/ PruneFails(e) \/ HealEmbedFails(e)
      PROVE  tick'.compact = FALSE
  BY <1>0, <1>8 DEF PruneDelete, PruneFails, HealEmbedFails, TickStates
<1>9. ASSUME NEW e \in Ids, HealEmbed(e) \/ HealLookupFails(e) PROVE tick'.compact = FALSE
  BY <1>0, <1>9 DEF HealEmbed, HealLookupFails, TickStates
<1>10. CASE TickRewrite \/ TickSwap
  BY <1>0, <1>10 DEF TickRewrite, TickSwap, TickStates
<1>11. TickEnd \/ TickReset \/ Stop \/ Restart => tick' = NoTick
  BY DEF TickEnd, TickReset, Stop, Restart
<1>12. ASSUME NEW s \in Sessions, SessionStep(s) PROVE UNCHANGED tick
  BY <1>12 DEF SessionStep, BeginStore, StoreInsert, BeginCorrect, CorrectTxn, BeginRestore,
               RestoreCheck, RestoreLookup, RestoreEmbed, PutMap, InsertPoint, InsertIdMap, FailCall
<1>13. UNCHANGED vars \/ (\E e \in Ids : Quarantine(e) \/ Deprecate(e)) => UNCHANGED tick
  BY DEF vars, serverVars, Quarantine, Deprecate
<1> QED BY <1>1, <1>2, <1>3, <1>4, <1>5, <1>6, <1>7, <1>8, <1>9, <1>10, <1>11, <1>12, <1>13
        DEF Next, TickWorks, TickFails

\* Hence the specification with that trigger never compacts.
LEMMA NeverCompacts ==
    ASSUME StaleTrigger = 100 PROVE Spec => [][~TickRewrite]_vars
<1>1. Init => tick.compact = FALSE
  BY DEF Init, NoTick
<1>2. IndexShape /\ tick.compact = FALSE /\ [Next]_vars => (tick.compact = FALSE)'
  BY CompactOffNext
<1>3. tick.compact = FALSE => [~TickRewrite]_vars
  BY DEF TickRewrite
<1> QED BY <1>1, <1>2, <1>3, ShapeInvariant, PTL DEF Spec
=============================================================================
