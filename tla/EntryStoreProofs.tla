-------------------------- MODULE EntryStoreProofs --------------------------
(***************************************************************************)
(* Proofs about the store on its own (StoreSpec): its operations in any    *)
(* order and with any arguments, for every set of contents and any number  *)
(* of entries.                                                             *)
(***************************************************************************)
EXTENDS EntryStore, FiniteSetTheorems, TLAPS

\* The ids with status t in the table f.
InStatus(f, t) == {i \in Ids : f[i].status = t}

\* What one row contributes to the number of rows with status t.
One(f, e, t) == IF f[e].status = t THEN 1 ELSE 0

\* There are finitely many ids, so every number of rows is a natural number;
\* one row in status t makes it positive.
LEMMA RowCountNat ==
    ASSUME NEW f, NEW t
    PROVE  /\ IsFiniteSet(InStatus(f, t))
           /\ Cardinality(InStatus(f, t)) \in Nat
           /\ \A e \in Ids : f[e].status = t => Cardinality(InStatus(f, t)) >= 1
<1>1. IsFiniteSet(Ids)
  BY MaxIdAssumption, FS_Interval DEF Ids
<1>2. IsFiniteSet(InStatus(f, t))
  BY <1>1, FS_Subset DEF InStatus
<1>3. Cardinality(InStatus(f, t)) \in Nat
  BY <1>2, FS_CardinalityType
<1>4. ASSUME NEW e \in Ids, f[e].status = t
      PROVE  Cardinality(InStatus(f, t)) >= 1
  <2>1. e \in InStatus(f, t)
    BY <1>4 DEF InStatus
  <2>2. Cardinality(InStatus(f, t)) # 0
    BY <1>2, <2>1, FS_EmptySet
  <2> QED BY <1>3, <2>2
<1> QED BY <1>2, <1>3, <1>4

\* Rewriting one row changes the number of rows in a status by what that row
\* contributed before and contributes now.
LEMMA Recount ==
    ASSUME NEW f, NEW g, NEW e \in Ids, NEW t,
           \A i \in Ids \ {e} : g[i].status = f[i].status
    PROVE  Cardinality(InStatus(g, t)) =
             Cardinality(InStatus(f, t)) - One(f, e, t) + One(g, e, t)
<1> DEFINE Rest(h) == InStatus(h, t) \ {e}
<1>1. Rest(f) = Rest(g)
  BY DEF InStatus
<1>2. ASSUME NEW h
      PROVE  /\ Cardinality(Rest(h)) \in Nat
             /\ Cardinality(InStatus(h, t)) = Cardinality(Rest(h)) + One(h, e, t)
  <2>1. /\ IsFiniteSet(InStatus(h, t))
        /\ Cardinality(InStatus(h, t)) \in Nat
    BY RowCountNat
  <2>2. CASE h[e].status = t
    <3>1. e \in InStatus(h, t)
      BY <2>2 DEF InStatus
    <3>2. /\ IsFiniteSet(Rest(h))
          /\ Cardinality(Rest(h)) = Cardinality(InStatus(h, t)) - 1
      BY <2>1, <3>1, FS_RemoveElement
    <3>3. Cardinality(Rest(h)) \in Nat
      BY <3>2, FS_CardinalityType
    <3> QED BY <2>1, <2>2, <3>2, <3>3 DEF One
  <2>3. CASE h[e].status # t
    <3>1. Rest(h) = InStatus(h, t)
      BY <2>3 DEF InStatus
    <3> QED BY <2>1, <2>3, <3>1 DEF One
  <2> QED BY <2>2, <2>3
<1>3. One(f, e, t) \in {0, 1} /\ One(g, e, t) \in {0, 1}
  BY DEF One
<1>4. /\ Cardinality(InStatus(f, t)) = Cardinality(Rest(f)) + One(f, e, t)
      /\ Cardinality(InStatus(g, t)) = Cardinality(Rest(f)) + One(g, e, t)
      /\ Cardinality(Rest(f)) \in Nat
  BY <1>1, <1>2
<1> QED BY <1>3, <1>4
-----------------------------------------------------------------------------
\* The row insert writes is a proper row.
LEMMA FreshRowType ==
    ASSUME NEW c \in Contents, NEW s \in Status
    PROVE  FreshRow(c, s) \in EntryRow
BY MaxIdAssumption DEF FreshRow, EntryRow, Hashes, NULL, Status

\* An id in the table has a proper row.
LEMMA RowIsEntryRow ==
    ASSUME StoreTypeOK, NEW e \in Rows
    PROVE  e \in Ids /\ entries[e] \in EntryRow
BY DEF StoreTypeOK, Rows

\* correct_entry makes rows of the two rows it writes.
LEMMA CorrectedRowTypes ==
    ASSUME NEW old \in EntryRow, NEW fresh \in EntryRow, NEW e \in Ids, NEW n \in Ids
    PROVE  /\ [old EXCEPT !.status = "Deprecated", !.supersededBy = n,
                          !.corrections = @ + 1] \in EntryRow
           /\ [fresh EXCEPT !.supersedes = e, !.prevHash = old.hash,
                            !.version = old.version + 1] \in EntryRow
<1>1. /\ old.corrections + 1 \in Nat /\ old.version + 1 \in Nat
      /\ old.hash \in Hashes /\ "Deprecated" \in Status
  BY DEF EntryRow, Status
<1>2. ASSUME NEW v \in Nat
      PROVE  [old EXCEPT !.status = "Deprecated", !.supersededBy = n,
                         !.corrections = v] \in EntryRow
  BY <1>1 DEF EntryRow
<1>3. ASSUME NEW v \in Nat, NEW h \in Hashes
      PROVE  [fresh EXCEPT !.supersedes = e, !.prevHash = h, !.version = v] \in EntryRow
  BY DEF EntryRow
<1> QED BY <1>1, <1>2, <1>3

\* The counters stay natural numbers.
LEMMA CounterTypes ==
    ASSUME NEW ctr \in [Status -> Nat], NEW s \in Status
    PROVE  /\ Increment(ctr, s) \in [Status -> Nat]
           /\ Decrement(ctr, s) \in [Status -> Nat]
BY DEF Increment, Decrement

\* The initial table and counters have the right shape.
LEMMA StoreTypeInit == StoreInit => StoreTypeOK
BY MaxIdAssumption DEF StoreInit, StoreTypeOK, Status

\* Every operation keeps the shape of the table and of the counters.
LEMMA StoreTypeNext == StoreTypeOK /\ [StoreNext]_storeVars => StoreTypeOK'
<1> SUFFICES ASSUME StoreTypeOK, [StoreNext]_storeVars PROVE StoreTypeOK'
  OBVIOUS
<1> USE DEF StoreTypeOK
<1>1. ASSUME NEW c \in Contents, NEW s \in Status, Insert(c, s)
      PROVE  StoreTypeOK'
  BY <1>1, MaxIdAssumption, FreshRowType, CounterTypes DEF Insert, NextEntryId, Ids
<1>2. ASSUME NEW e \in Ids, NEW c \in Contents, NEW s \in Status, CorrectEntry(e, c, s)
      PROVE  StoreTypeOK'
  <2> DEFINE old == entries[e]
             new == [FreshRow(c, s) EXCEPT !.supersedes = e, !.prevHash = old.hash,
                                           !.version = old.version + 1]
             dep == [old EXCEPT !.status = "Deprecated", !.supersededBy = nextId,
                                !.corrections = @ + 1]
  <2>1. /\ e \in Rows /\ nextId \in Ids /\ nextId' = nextId + 1
        /\ entries' = [entries EXCEPT ![e] = dep, ![nextId] = new]
        /\ counters' = Increment(Increment(Decrement(counters, old.status),
                                           "Deprecated"), s)
    BY <1>2, MaxIdAssumption DEF CorrectEntry, Correctable, NextEntryId, Ids
  <2>2. old \in EntryRow
    BY <2>1, RowIsEntryRow
  <2>3. dep \in EntryRow
    BY <2>1, <2>2, FreshRowType, CorrectedRowTypes
  <2>4. new \in EntryRow
    BY <2>1, <2>2, FreshRowType, CorrectedRowTypes
  <2>5. entries' \in [Ids -> EntryRow \cup {NoRow}]
    BY <2>1, <2>3, <2>4
  <2>6. old.status \in Status /\ "Deprecated" \in Status
    BY <2>2 DEF EntryRow, Status
  <2>7. counters' \in [Status -> Nat]
    BY <2>1, <2>6, CounterTypes
  <2> QED BY <2>1, <2>5, <2>7, MaxIdAssumption DEF Ids
<1>3. ASSUME NEW e \in Rows, NEW c \in Contents, NEW s \in Status, NEW h \in Hashes,
             Update(e, [entries[e] EXCEPT !.content = c, !.status = s, !.hash = h])
      PROVE  StoreTypeOK'
  <2> DEFINE row == [entries[e] EXCEPT !.content = c, !.status = s, !.hash = h]
  <2>1. e \in Ids /\ entries[e] \in EntryRow
    BY RowIsEntryRow
  <2>2. row \in EntryRow /\ row.status = s
    BY <2>1 DEF EntryRow
  <2>3. [row EXCEPT !.preQ = entries[e].preQ] \in EntryRow
    BY <2>1, <2>2 DEF EntryRow
  <2>4. entries[e].status \in Status
    BY <2>1 DEF EntryRow
  <2>5. counters' \in [Status -> Nat]
    BY <1>3, <2>2, <2>4, CounterTypes DEF Update
  <2> QED BY <1>3, <2>1, <2>3, <2>5 DEF Update
<1>4. ASSUME NEW e \in Ids, NEW s \in Status, UpdateStatus(e, s)
      PROVE  StoreTypeOK'
  <2>1. entries[e] \in EntryRow
    BY <1>4, RowIsEntryRow DEF UpdateStatus
  <2>2. [entries[e] EXCEPT !.status = s] \in EntryRow /\ entries[e].status \in Status
    BY <2>1 DEF EntryRow
  <2>3. counters' \in [Status -> Nat]
    BY <1>4, <2>2, CounterTypes DEF UpdateStatus
  <2> QED BY <1>4, <2>2, <2>3 DEF UpdateStatus
<1>5. ASSUME NEW e \in Ids, NEW s \in Status, NEW q \in Status \cup {"none"},
             UpdateStatusExtended(e, s, q)
      PROVE  StoreTypeOK'
  <2>1. entries[e] \in EntryRow
    BY <1>5, RowIsEntryRow DEF UpdateStatusExtended
  <2>2. /\ [entries[e] EXCEPT !.status = s, !.preQ = q] \in EntryRow
        /\ entries[e].status \in Status
    BY <2>1 DEF EntryRow
  <2>3. counters' \in [Status -> Nat]
    BY <1>5, <2>2, CounterTypes DEF UpdateStatusExtended
  <2>4. entries' = [entries EXCEPT ![e] = [entries[e] EXCEPT !.status = s, !.preQ = q]]
    BY <1>5 DEF UpdateStatusExtended
  <2> QED BY <1>5, <2>2, <2>3, <2>4 DEF UpdateStatusExtended
<1>6. ASSUME NEW e \in Ids, Delete(e)
      PROVE  StoreTypeOK'
  <2>1. entries[e] \in EntryRow
    BY <1>6, RowIsEntryRow DEF Delete
  <2>2. counters' \in [Status -> Nat]
    BY <1>6, <2>1, CounterTypes DEF Delete, EntryRow
  <2> QED BY <1>6, <2>2 DEF Delete
<1>7. CASE UNCHANGED storeVars
  BY <1>7 DEF storeVars
<1> QED BY <1>1, <1>2, <1>3, <1>4, <1>5, <1>6, <1>7 DEF StoreNext

\* Init and every operation keep the shape of the table and of the counters.
THEOREM StoreTypeCorrect == StoreSpec => []StoreTypeOK
BY StoreTypeInit, StoreTypeNext, PTL DEF StoreSpec
-----------------------------------------------------------------------------
\* f and g differ in the row of e at most; the counters ctr are right for f.
SameBut(f, g, e) == \A i \in Ids \ {e} : g[i].status = f[i].status
Agrees(ctr, f) == \A t \in Status : ctr[t] = Cardinality(InStatus(f, t))

\* Where two operations change the status of one row, the counters follow.
LEMMA MoveCounted ==
    ASSUME NEW f, NEW g, NEW e \in Ids, NEW ctr \in [Status -> Nat],
           NEW a \in Status, NEW b \in Status, f[e].status = a, g[e].status = b,
           SameBut(f, g, e), Agrees(ctr, f)
    PROVE  Agrees(Increment(Decrement(ctr, a), b), g)
<1> SUFFICES ASSUME NEW t \in Status
             PROVE  Increment(Decrement(ctr, a), b)[t] = Cardinality(InStatus(g, t))
  BY DEF Agrees
<1>1. Cardinality(InStatus(g, t)) =
        Cardinality(InStatus(f, t)) - One(f, e, t) + One(g, e, t)
  BY Recount DEF SameBut
<1>2. /\ ctr[t] = Cardinality(InStatus(f, t)) /\ ctr[t] \in Nat
      /\ f[e].status = t => ctr[t] >= 1
  BY RowCountNat DEF Agrees
<1>3. Increment(Decrement(ctr, a), b)[t] = ctr[t] - One(f, e, t) + One(g, e, t)
  BY <1>2 DEF Increment, Decrement, One
<1> QED BY <1>1, <1>2, <1>3

\* A row that did not exist, and so had no status, is counted in its own.
LEMMA NewCounted ==
    ASSUME NEW f, NEW g, NEW e \in Ids, NEW ctr \in [Status -> Nat],
           NEW b \in Status, f[e].status \notin Status, g[e].status = b,
           SameBut(f, g, e), Agrees(ctr, f)
    PROVE  Agrees(Increment(ctr, b), g)
<1> SUFFICES ASSUME NEW t \in Status
             PROVE  Increment(ctr, b)[t] = Cardinality(InStatus(g, t))
  BY DEF Agrees
<1>1. Cardinality(InStatus(g, t)) =
        Cardinality(InStatus(f, t)) - One(f, e, t) + One(g, e, t)
  BY Recount DEF SameBut
<1>2. Increment(ctr, b)[t] = ctr[t] - One(f, e, t) + One(g, e, t)
  BY RowCountNat DEF Increment, One, Agrees
<1> QED BY <1>1, <1>2 DEF Agrees

\* A row that goes is no longer counted.
LEMMA GoneCounted ==
    ASSUME NEW f, NEW g, NEW e \in Ids, NEW ctr \in [Status -> Nat],
           NEW a \in Status, f[e].status = a, g[e].status \notin Status,
           SameBut(f, g, e), Agrees(ctr, f)
    PROVE  Agrees(Decrement(ctr, a), g)
<1> SUFFICES ASSUME NEW t \in Status
             PROVE  Decrement(ctr, a)[t] = Cardinality(InStatus(g, t))
  BY DEF Agrees
<1>1. Cardinality(InStatus(g, t)) =
        Cardinality(InStatus(f, t)) - One(f, e, t) + One(g, e, t)
  BY Recount DEF SameBut
<1>2. /\ ctr[t] = Cardinality(InStatus(f, t)) /\ ctr[t] \in Nat
      /\ f[e].status = t => ctr[t] >= 1
  BY RowCountNat DEF Agrees
<1>3. Decrement(ctr, a)[t] = ctr[t] - One(f, e, t) + One(g, e, t)
  BY <1>2 DEF Decrement, One
<1> QED BY <1>1, <1>2, <1>3

\* CountersExact in terms of InStatus, now and after a step.
LEMMA CountersByStatus ==
    /\ CountersExact <=> Agrees(counters, entries)
    /\ CountersExact' <=> Agrees(counters', entries')
BY DEF CountersExact, WithStatus, InStatus, Agrees

\* An absent row is counted in no status.
LEMMA NoRowUncounted == NoRow.status \notin Status
BY DEF NoRow, Status

\* A proper row is not the absent one and has one of the four statuses.
LEMMA RowIsNotNoRow ==
    ASSUME NEW row \in EntryRow
    PROVE  row # NoRow /\ row.status \in Status
BY NoRowUncounted DEF EntryRow

\* An operation that writes one existing row and keeps its links keeps the
\* freshness of the next id and the links.
LEMMA LinksKept ==
    ASSUME StoreTypeOK, NextIdFresh, SuccessorLinksBack,
           NEW e \in Rows, NEW row \in EntryRow,
           row.supersedes = entries[e].supersedes,
           row.supersededBy = entries[e].supersededBy,
           entries' = [entries EXCEPT ![e] = row], nextId' = nextId
    PROVE  NextIdFresh' /\ SuccessorLinksBack'
<1>1. Rows' = Rows
  BY RowIsNotNoRow DEF Rows, StoreTypeOK
<1>2. \A i \in Rows : /\ entries'[i].supersedes = entries[i].supersedes
                      /\ entries'[i].supersededBy = entries[i].supersededBy
  BY DEF Rows, StoreTypeOK
<1> QED BY <1>1, <1>2 DEF NextIdFresh, SuccessorLinksBack

\* The inductive invariant: the counters are only exact because the row of a
\* new id was absent, and the links only because no link named it before.
StoreInv == NextIdFresh /\ SuccessorLinksBack /\ CountersExact

\* insert keeps the invariant: the new id had no row and no link.
LEMMA StoreInvInsert ==
    ASSUME StoreTypeOK, StoreInv, NEW c \in Contents, NEW s \in Status, Insert(c, s)
    PROVE  StoreInv'
<1>1. /\ nextId \in Ids /\ nextId \notin Rows /\ entries[nextId] = NoRow
      /\ nextId' = nextId + 1 /\ nextId \in Nat
      /\ entries' = [entries EXCEPT ![nextId] = FreshRow(c, s)]
      /\ counters' = Increment(counters, s)
  BY MaxIdAssumption DEF Insert, NextEntryId, StoreTypeOK, StoreInv, NextIdFresh, Rows, Ids
<1>2. /\ FreshRow(c, s) \in EntryRow /\ FreshRow(c, s).status = s
      /\ FreshRow(c, s).supersededBy = 0
  BY FreshRowType DEF FreshRow, NULL
<1>3. Rows' = Rows \cup {nextId}
  BY <1>1, <1>2, RowIsNotNoRow DEF Rows, StoreTypeOK
<1>4. /\ entries'[nextId] = FreshRow(c, s)
      /\ \A i \in Rows : entries'[i] = entries[i]
      /\ SameBut(entries, entries', nextId)
  BY <1>1 DEF Rows, StoreTypeOK, SameBut
<1>5. \A i \in Rows : i \in Nat /\ entries[i].supersededBy \in Nat
  BY MaxIdAssumption, RowIsEntryRow DEF EntryRow, Ids, NULL
<1>6. NextIdFresh'
  BY <1>1, <1>2, <1>3, <1>4, <1>5 DEF StoreInv, NextIdFresh
<1>7. SuccessorLinksBack'
  <2> SUFFICES ASSUME NEW i \in Rows', entries'[i].supersededBy \in Rows'
               PROVE  /\ entries'[i].supersededBy > i
                      /\ entries'[entries'[i].supersededBy].supersedes = i
    BY DEF SuccessorLinksBack
  <2>1. 0 \notin Rows'
    BY MaxIdAssumption DEF Rows, Ids
  <2>2. i \in Rows /\ entries'[i] = entries[i]
    BY <1>2, <1>3, <1>4, <2>1
  <2>3. entries[i].supersededBy \in Rows
    BY <1>1, <1>3, <1>5, <2>2 DEF StoreInv, NextIdFresh
  <2> QED BY <1>4, <2>2, <2>3 DEF StoreInv, SuccessorLinksBack
<1>8. CountersExact'
  <2>1. /\ counters \in [Status -> Nat]
        /\ Agrees(counters, entries)
        /\ entries[nextId].status \notin Status /\ entries'[nextId].status = s
    BY <1>1, <1>2, <1>4, NoRowUncounted, CountersByStatus DEF StoreInv, StoreTypeOK
  <2>2. Agrees(Increment(counters, s), entries')
    BY <1>1, <1>4, <2>1, NewCounted
  <2> QED BY <1>1, <2>2, CountersByStatus
<1> QED BY <1>6, <1>7, <1>8 DEF StoreInv

\* So does any write of one row that keeps its links, if the counters follow.
LEMMA StoreInvRowWrite ==
    ASSUME StoreTypeOK, StoreInv, NEW e \in Rows, NEW row \in EntryRow,
           row.supersedes = entries[e].supersedes,
           row.supersededBy = entries[e].supersededBy,
           entries' = [entries EXCEPT ![e] = row], nextId' = nextId,
           \/ counters' = Increment(Decrement(counters, entries[e].status), row.status)
           \/ counters' = counters /\ row.status = entries[e].status
    PROVE  StoreInv'
<1>1. NextIdFresh' /\ SuccessorLinksBack'
  BY LinksKept DEF StoreInv
<1>2. /\ e \in Ids /\ entries[e].status \in Status /\ row.status \in Status
      /\ entries'[e] = row
      /\ SameBut(entries, entries', e)
  BY RowIsEntryRow, RowIsNotNoRow DEF StoreTypeOK, SameBut
<1>3. CASE counters' = Increment(Decrement(counters, entries[e].status), row.status)
  <2>1. /\ counters \in [Status -> Nat]
        /\ Agrees(counters, entries)
    BY CountersByStatus DEF StoreInv, StoreTypeOK
  <2>2. Agrees(Increment(Decrement(counters, entries[e].status), row.status), entries')
    BY <1>2, <2>1, MoveCounted
  <2> QED BY <1>1, <1>3, <2>2, CountersByStatus DEF StoreInv
<1>4. CASE counters' = counters /\ row.status = entries[e].status
  <2>1. \A t \in Status : InStatus(entries', t) = InStatus(entries, t)
    BY <1>2, <1>4 DEF InStatus, SameBut
  <2> QED BY <1>1, <1>4, <2>1, CountersByStatus DEF StoreInv, Agrees
<1> QED BY <1>3, <1>4

\* delete keeps it: links to the deleted row stay, but match no row.
LEMMA StoreInvDelete ==
    ASSUME StoreTypeOK, StoreInv, NEW e \in Ids, Delete(e)
    PROVE  StoreInv'
<1>1. /\ e \in Rows /\ nextId' = nextId
      /\ entries' = [entries EXCEPT ![e] = NoRow]
      /\ counters' = Decrement(counters, entries[e].status)
  BY DEF Delete
<1>2. Rows' = Rows \ {e} /\ \A i \in Rows' : entries'[i] = entries[i]
  BY <1>1 DEF Rows, StoreTypeOK
<1>3. NextIdFresh' /\ SuccessorLinksBack'
  BY <1>1, <1>2 DEF StoreInv, NextIdFresh, SuccessorLinksBack
<1>4. /\ entries[e].status \in Status /\ entries'[e] = NoRow
      /\ SameBut(entries, entries', e)
  BY <1>1, RowIsEntryRow, RowIsNotNoRow DEF StoreTypeOK, SameBut
<1>5. CountersExact'
  <2>1. /\ counters \in [Status -> Nat] /\ entries'[e].status \notin Status
        /\ Agrees(counters, entries)
    BY <1>4, NoRowUncounted, CountersByStatus DEF StoreInv, StoreTypeOK
  <2>2. Agrees(Decrement(counters, entries[e].status), entries')
    BY <1>4, <2>1, GoneCounted
  <2> QED BY <1>1, <2>2, CountersByStatus
<1> QED BY <1>3, <1>5 DEF StoreInv

\* correct_entry, as two writes: the original, then the correction.
LEMMA StoreInvCorrect ==
    ASSUME StoreTypeOK, StoreInv, NEW e \in Ids, NEW c \in Contents, NEW s \in Status,
           CorrectEntry(e, c, s)
    PROVE  StoreInv'
<1> DEFINE old == entries[e]
           new == [FreshRow(c, s) EXCEPT !.supersedes = e, !.prevHash = old.hash,
                                         !.version = old.version + 1]
           dep == [old EXCEPT !.status = "Deprecated", !.supersededBy = nextId,
                              !.corrections = @ + 1]
           mid == [entries EXCEPT ![e] = dep]
           ctr == Increment(Decrement(counters, old.status), "Deprecated")
<1>1. /\ e \in Rows /\ nextId \in Ids /\ nextId \in Nat /\ nextId' = nextId + 1
      /\ entries' = [mid EXCEPT ![nextId] = new]
      /\ counters' = Increment(ctr, s)
      /\ nextId \notin Rows /\ entries[nextId] = NoRow /\ e # nextId
  BY MaxIdAssumption
  DEF CorrectEntry, Correctable, NextEntryId, StoreTypeOK, StoreInv, NextIdFresh, Rows, Ids
<1>2. old \in EntryRow /\ old.status \in Status
  BY <1>1, RowIsEntryRow, RowIsNotNoRow
<1>3. dep \in EntryRow /\ new \in EntryRow
  BY <1>1, <1>2, FreshRowType, CorrectedRowTypes
<1>4. /\ dep.status = "Deprecated" /\ dep.supersededBy = nextId
      /\ dep.supersedes = old.supersedes
  BY <1>2 DEF EntryRow
<1>5. new.status = s /\ new.supersededBy = 0 /\ new.supersedes = e
  BY DEF FreshRow, NULL
<1> HIDE DEF new, dep
<1>6. /\ entries'[e] = dep /\ entries'[nextId] = new
      /\ \A i \in Rows \ {e} : entries'[i] = entries[i]
      /\ Rows' = Rows \cup {nextId}
  BY <1>1, <1>3, RowIsNotNoRow DEF Rows, StoreTypeOK
<1>7. \A i \in Rows : i \in Nat /\ entries[i].supersededBy \in Nat /\ i < nextId
  BY MaxIdAssumption, RowIsEntryRow DEF EntryRow, Ids, NULL, StoreInv, NextIdFresh
<1>8. NextIdFresh'
  <2> SUFFICES ASSUME NEW i \in Rows'
               PROVE  i < nextId' /\ entries'[i].supersededBy < nextId'
    BY DEF NextIdFresh
  <2>1. CASE i = e
    BY <1>1, <1>4, <1>6, <1>7, <2>1
  <2>2. CASE i = nextId
    BY <1>1, <1>5, <1>6, <2>2
  <2>3. CASE i \in Rows \ {e}
    <3>1. i \in Nat /\ entries[i].supersededBy \in Nat /\ entries[i].supersededBy < nextId
      BY <1>7, <2>3 DEF StoreInv, NextIdFresh
    <3>2. entries'[i] = entries[i] /\ i < nextId /\ nextId' = nextId + 1 /\ nextId \in Nat
      BY <1>1, <1>6, <1>7, <2>3
    <3> QED BY <3>1, <3>2
  <2> QED BY <1>6, <2>1, <2>2, <2>3
<1>9. SuccessorLinksBack'
  <2> SUFFICES ASSUME NEW i \in Rows', entries'[i].supersededBy \in Rows'
               PROVE  /\ entries'[i].supersededBy > i
                      /\ entries'[entries'[i].supersededBy].supersedes = i
    BY DEF SuccessorLinksBack
  <2>1. CASE i = e
    BY <1>1, <1>4, <1>5, <1>6, <1>7, <2>1
  <2>2. CASE i = nextId
    <3>1. 0 \notin Rows'
      BY MaxIdAssumption DEF Rows, Ids
    <3> QED BY <1>5, <1>6, <2>2, <3>1
  <2>3. CASE i \in Rows \ {e}
    <3>0. entries'[i] = entries[i] /\ entries[i].supersededBy < nextId
      BY <1>6, <2>3 DEF StoreInv, NextIdFresh
    <3>1. entries'[i] = entries[i] /\ entries[i].supersededBy \in Rows
      BY <1>1, <1>6, <3>0
    <3>2. /\ entries[i].supersededBy > i
          /\ entries[entries[i].supersededBy].supersedes = i
      BY <2>3, <3>1 DEF StoreInv, SuccessorLinksBack
    <3>3. entries'[entries[i].supersededBy].supersedes = i
      BY <1>4, <1>6, <3>1, <3>2
    <3> QED BY <3>1, <3>2, <3>3
  <2> QED BY <1>6, <2>1, <2>2, <2>3
<1>10. CountersExact'
  <2>1. /\ mid[e].status = "Deprecated" /\ "Deprecated" \in Status
        /\ SameBut(entries, mid, e)
    BY <1>4 DEF StoreTypeOK, Status, SameBut
  <2>2. Agrees(ctr, mid)
    <3>1. /\ counters \in [Status -> Nat]
          /\ Agrees(counters, entries)
      BY CountersByStatus DEF StoreInv, StoreTypeOK
    <3> HIDE DEF mid
    <3> QED BY <1>2, <2>1, <3>1, MoveCounted
  <2>3. ctr \in [Status -> Nat]
    BY <1>2, <2>1, CounterTypes DEF StoreTypeOK
  <2>4. /\ mid[nextId].status \notin Status /\ entries'[nextId].status = s
        /\ SameBut(mid, entries', nextId)
    BY <1>1, <1>5, NoRowUncounted DEF StoreTypeOK, SameBut
  <2>5. Agrees(Increment(ctr, s), entries')
    <3> HIDE DEF mid, ctr
    <3> QED BY <1>1, <2>2, <2>3, <2>4, NewCounted
  <2> QED BY <1>1, <2>5, CountersByStatus
<1> QED BY <1>8, <1>9, <1>10 DEF StoreInv

\* StoreInv holds of the empty store.
LEMMA StoreInvInit == StoreInit => StoreInv
<1> SUFFICES ASSUME StoreInit PROVE StoreInv
  OBVIOUS
<1>1. Rows = {}
  BY DEF StoreInit, Rows
<1>2. \A t \in Status : InStatus(entries, t) = {}
  BY NoRowUncounted DEF StoreInit, InStatus
<1>3. Agrees(counters, entries)
  BY <1>2, FS_EmptySet DEF StoreInit, Agrees
<1> QED BY <1>1, <1>3, CountersByStatus DEF StoreInv, NextIdFresh, SuccessorLinksBack

\* update_status is such a write of one row.
LEMMA StoreInvUpdateStatus ==
    ASSUME StoreTypeOK, StoreInv, NEW e \in Ids, NEW s \in Status, UpdateStatus(e, s)
    PROVE  StoreInv'
<1> DEFINE row == [entries[e] EXCEPT !.status = s]
<1>1. /\ e \in Rows /\ entries[e] \in EntryRow
      /\ entries' = [entries EXCEPT ![e] = row] /\ nextId' = nextId
      /\ counters' = Increment(Decrement(counters, entries[e].status), s)
  BY RowIsEntryRow DEF UpdateStatus
<1>2. /\ row \in EntryRow /\ row.status = s
      /\ row.supersedes = entries[e].supersedes
      /\ row.supersededBy = entries[e].supersededBy
  BY <1>1 DEF EntryRow
<1> HIDE DEF row
<1> QED BY <1>1, <1>2, StoreInvRowWrite

\* So is update_entry_status_extended.
LEMMA StoreInvUpdateStatusExtended ==
    ASSUME StoreTypeOK, StoreInv, NEW e \in Ids, NEW s \in Status,
           NEW q \in Status \cup {"none"}, UpdateStatusExtended(e, s, q)
    PROVE  StoreInv'
<1> DEFINE row == [entries[e] EXCEPT !.status = s, !.preQ = q]
<1>1. /\ e \in Rows /\ entries[e] \in EntryRow
      /\ entries' = [entries EXCEPT ![e] = row] /\ nextId' = nextId
      /\ counters' = Increment(Decrement(counters, entries[e].status), s)
  BY RowIsEntryRow DEF UpdateStatusExtended
<1>2. /\ row \in EntryRow /\ row.status = s
      /\ row.supersedes = entries[e].supersedes
      /\ row.supersededBy = entries[e].supersededBy
  BY <1>1 DEF EntryRow
<1> HIDE DEF row
<1> QED BY <1>1, <1>2, StoreInvRowWrite

\* The record a caller passes to update is the row it read, with another
\* content, status and hash.
LEMMA StoreInvUpdate ==
    ASSUME StoreTypeOK, StoreInv, NEW e \in Rows, NEW c \in Contents, NEW s \in Status,
           NEW h \in Hashes,
           Update(e, [entries[e] EXCEPT !.content = c, !.status = s, !.hash = h])
    PROVE  StoreInv'
<1> DEFINE given == [entries[e] EXCEPT !.content = c, !.status = s, !.hash = h]
           row == [given EXCEPT !.preQ = entries[e].preQ]
<1>1. entries[e] \in EntryRow
  BY RowIsEntryRow
<1>2. /\ given.status = s /\ row \in EntryRow /\ row.status = s
      /\ row.supersedes = entries[e].supersedes
      /\ row.supersededBy = entries[e].supersededBy
  BY <1>1 DEF EntryRow
<1>3. /\ entries' = [entries EXCEPT ![e] = row] /\ nextId' = nextId
      /\ counters' = IF s = entries[e].status THEN counters
                     ELSE Increment(Decrement(counters, entries[e].status), s)
  BY <1>2 DEF Update
<1> HIDE DEF row, given
<1> QED BY <1>2, <1>3, StoreInvRowWrite

\* Every operation of the store keeps StoreInv.
LEMMA StoreInvNext == StoreTypeOK /\ StoreInv /\ [StoreNext]_storeVars => StoreInv'
<1> SUFFICES ASSUME StoreTypeOK, StoreInv, [StoreNext]_storeVars PROVE StoreInv'
  OBVIOUS
<1>1. CASE UNCHANGED storeVars
  BY <1>1 DEF storeVars, StoreInv, NextIdFresh, SuccessorLinksBack, CountersExact,
              WithStatus, Rows
<1> QED
  BY <1>1, StoreInvInsert, StoreInvCorrect, StoreInvUpdate, StoreInvUpdateStatus,
     StoreInvUpdateStatusExtended, StoreInvDelete
  DEF StoreNext

\* The counters of the statuses are exact after any sequence of inserts,
\* corrections, updates, status changes and deletes.
THEOREM StoreCountersExact == StoreSpec => []CountersExact
<1>1. StoreInv => CountersExact
  BY DEF StoreInv
<1> QED BY <1>1, StoreInvInit, StoreInvNext, StoreTypeCorrect, PTL DEF StoreSpec

\* No superseded_by link ever names an entry that is not its correction.
THEOREM StoreLinksBack == StoreSpec => []SuccessorLinksBack
<1>1. StoreInv => SuccessorLinksBack
  BY DEF StoreInv
<1> QED BY <1>1, StoreInvInit, StoreInvNext, StoreTypeCorrect, PTL DEF StoreSpec

\* The store never hands out an id that a row or a link still carries.
THEOREM StoreNextIdFresh == StoreSpec => []NextIdFresh
<1>1. StoreInv => NextIdFresh
  BY DEF StoreInv
<1> QED BY <1>1, StoreInvInit, StoreInvNext, StoreTypeCorrect, PTL DEF StoreSpec
=============================================================================
