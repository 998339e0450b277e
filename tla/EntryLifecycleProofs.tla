------------------------ MODULE EntryLifecycleProofs ------------------------
(***************************************************************************)
(* The interleaved lifecycle is a use of the store: each of its steps is   *)
(* an operation of EntryStore or leaves the store alone, so that what is   *)
(* proved of the store under any sequence of operations holds of the       *)
(* concurrent sessions and the background tick as well.  What needs the    *)
(* lifecycle itself (the correction chain, leaving quarantine) is proved   *)
(* from an invariant of its own.                                           *)
(***************************************************************************)
EXTENDS EntryLifecycle, EntryStoreProofs

\* The fields of a call in flight.
LEMMA CallFields ==
    ASSUME TypeOK, NEW c \in Calls, ~Idle(c)
    PROVE  /\ call[c] \in [kind: CallKinds, e: Ids, step: {"target", "read", "write"},
                           target: Status, preQ: Status \cup {"none"}]
           /\ call[c].e \in Ids /\ call[c].target \in Status
           /\ call[c].preQ \in Status \cup {"none"}
<1>1. call[c] \in CallState /\ call[c] # NoCall
  BY DEF TypeOK, Idle
<1> QED BY <1>1 DEF CallState

\* Of the steps of a call only the write touches the store.
LEMMA CallStepEffect ==
    ASSUME NEW c \in Calls, CallStep(c)
    PROVE  WriteStatus(c) \/ UNCHANGED storeVars
BY DEF CallStep, ContextDeprecate, ContextQuarantine, ContextRestore, Begin,
       ReadRestoreTarget, ReadCurrent, FailCall, storeVars

\* Of the steps of the tick only auto-quarantine and the migration do.
LEMMA TickStepEffect ==
    ASSUME TickNext
    PROVE  \/ \E e \in tick.ids : AutoQuarantine(e) \/ MigrateOne(e)
           \/ UNCHANGED storeVars
BY DEF TickNext, TickClassify, TickNoReport, AutoQuarantineFails, TickMigrationQuery,
       TickMigrationSkipped, MigrateOneFails, MigrationDone, storeVars

\* A step of the lifecycle is a step of the store, or none of its business.
LEMMA LifecycleStepIsStoreStep ==
    ASSUME TypeOK, [Next]_vars
    PROVE  [StoreNext]_storeVars
<1> USE DEF StoreNext
<1>1. ASSUME NEW c \in Contents, ContextStore(c)
      PROVE  StoreNext
  BY <1>1 DEF ContextStore, Status
<1>2. ASSUME NEW e \in Rows, NEW c \in Contents, ContextCorrect(e, c)
      PROVE  StoreNext
  BY <1>2 DEF ContextCorrect, Status, Rows
<1>3. ASSUME NEW c \in Calls, WriteStatus(c)
      PROVE  StoreNext
  BY <1>3, CallFields DEF WriteStatus
<1>4. ASSUME NEW e \in tick.ids, AutoQuarantine(e)
      PROVE  StoreNext
  BY <1>4 DEF AutoQuarantine, UpdateStatus, Rows, Status
<1>5. ASSUME NEW e \in tick.ids, MigrateOne(e)
      PROVE  StoreNext
  BY <1>5 DEF MigrateOne, UpdateStatus, Rows, Status
<1>6. UNCHANGED vars => UNCHANGED storeVars
  BY DEF vars, storeVars
<1> HIDE DEF StoreNext
<1> QED
  BY <1>1, <1>2, <1>3, <1>4, <1>5, <1>6, CallStepEffect, TickStepEffect DEF Next

\* A call in flight is about an entry of the table: nothing in the lifecycle
\* deletes one.
CallsNameRows == \A c \in Calls : ~Idle(c) => call[c].e \in Rows

\* The lifecycle's own part of TypeOK.
LifecycleTypeOK ==
    /\ call \in [Calls -> CallState]
    /\ tick \in [step: {"idle", "quarantine", "migrate"}, ids: SUBSET Ids]
    /\ badCycles \in [Ids -> Nat]
    /\ ticks \in 0..MaxTicks
    /\ held \in [Ids -> Status \cup {"none", "raced"}]

\* TypeOK, split into the part of the store and the part of the lifecycle.
LEMMA TypeOKParts == TypeOK <=> StoreTypeOK /\ LifecycleTypeOK
BY DEF TypeOK, LifecycleTypeOK

\* No operation the lifecycle uses removes a row.
LEMMA RowsStay ==
    ASSUME StoreTypeOK,
           \/ \E c \in Contents : Insert(c, "Active")
           \/ \E e \in Ids, c \in Contents : CorrectEntry(e, c, "Active")
           \/ \E e \in Ids, s \in Status : UpdateStatus(e, s)
           \/ \E e \in Ids, s \in Status, q \in Status \cup {"none"} :
                 UpdateStatusExtended(e, s, q)
    PROVE  Rows \subseteq Rows'
<1> SUFFICES ASSUME NEW i \in Rows PROVE i \in Rows'
  OBVIOUS
<1>1. i \in Ids /\ entries[i] \in EntryRow /\ entries \in [Ids -> EntryRow \cup {NoRow}]
  BY RowIsEntryRow DEF StoreTypeOK
<1>2. ASSUME NEW row \in EntryRow, entries'[i] = row
      PROVE  i \in Rows'
  BY <1>1, <1>2, RowIsNotNoRow DEF Rows
<1>3. ASSUME NEW c \in Contents, Insert(c, "Active")
      PROVE  i \in Rows'
  <2>1. FreshRow(c, "Active") \in EntryRow
    BY FreshRowType DEF Status
  <2> QED BY <1>1, <1>2, <1>3, <2>1 DEF Insert
<1>4. ASSUME NEW e \in Ids, NEW c \in Contents, CorrectEntry(e, c, "Active")
      PROVE  i \in Rows'
  <2> DEFINE old == entries[e]
             new == [FreshRow(c, "Active") EXCEPT !.supersedes = e, !.prevHash = old.hash,
                                                  !.version = old.version + 1]
             dep == [old EXCEPT !.status = "Deprecated", !.supersededBy = nextId,
                                !.corrections = @ + 1]
  <2>0. /\ e \in Rows /\ NextEntryId
        /\ entries' = [entries EXCEPT ![e] = dep, ![nextId] = new]
    BY <1>4 DEF CorrectEntry, Correctable
  <2>1. nextId \in Ids
    BY <2>0, MaxIdAssumption DEF NextEntryId, Ids, StoreTypeOK
  <2>2. dep \in EntryRow /\ new \in EntryRow
    BY <2>0, <2>1, RowIsEntryRow, FreshRowType, CorrectedRowTypes DEF Status
  <2> HIDE DEF dep, new
  <2> QED BY <1>1, <1>2, <2>0, <2>2
<1>5. ASSUME NEW e \in Ids, NEW s \in Status, UpdateStatus(e, s)
      PROVE  i \in Rows'
  <2>1. e \in Rows /\ entries' = [entries EXCEPT ![e] = [entries[e] EXCEPT !.status = s]]
    BY <1>5 DEF UpdateStatus
  <2>2. [entries[e] EXCEPT !.status = s] \in EntryRow
    BY <2>1, RowIsEntryRow DEF EntryRow
  <2> QED BY <1>1, <1>2, <2>1, <2>2
<1>6. ASSUME NEW e \in Ids, NEW s \in Status, NEW q \in Status \cup {"none"},
             UpdateStatusExtended(e, s, q)
      PROVE  i \in Rows'
  <2>1. /\ e \in Rows
        /\ entries' = [entries EXCEPT ![e] = [entries[e] EXCEPT !.status = s, !.preQ = q]]
    BY <1>6 DEF UpdateStatusExtended
  <2>2. [entries[e] EXCEPT !.status = s, !.preQ = q] \in EntryRow
    BY <2>1, RowIsEntryRow DEF EntryRow
  <2> QED BY <1>1, <1>2, <2>1, <2>2
<1> QED BY <1>3, <1>4, <1>5, <1>6

\* Hence no step of the lifecycle removes a row.
LEMMA LifecycleRowsStay ==
    ASSUME TypeOK, [Next]_vars
    PROVE  Rows \subseteq Rows'
<1>0. StoreTypeOK
  BY DEF TypeOK
<1>1. ASSUME NEW c \in Contents, ContextStore(c)
      PROVE  Rows \subseteq Rows'
  BY <1>0, <1>1, RowsStay DEF ContextStore
<1>2. ASSUME NEW e \in Rows, NEW c \in Contents, ContextCorrect(e, c)
      PROVE  Rows \subseteq Rows'
  <2>1. e \in Ids
    BY DEF Rows
  <2> QED BY <1>0, <1>2, <2>1, RowsStay DEF ContextCorrect
<1>3. ASSUME NEW c \in Calls, WriteStatus(c)
      PROVE  Rows \subseteq Rows'
  BY <1>0, <1>3, CallFields, RowsStay DEF WriteStatus
<1>4. ASSUME NEW e \in tick.ids, AutoQuarantine(e)
      PROVE  Rows \subseteq Rows'
  <2>1. e \in Ids /\ "Quarantined" \in Status /\ UpdateStatus(e, "Quarantined")
    BY <1>4 DEF AutoQuarantine, UpdateStatus, Rows, Status
  <2> QED BY <1>0, <2>1, RowsStay
<1>5. ASSUME NEW e \in tick.ids, MigrateOne(e)
      PROVE  Rows \subseteq Rows'
  <2>1. e \in Ids /\ "Deprecated" \in Status /\ UpdateStatus(e, "Deprecated")
    BY <1>5 DEF MigrateOne, UpdateStatus, Rows, Status
  <2> QED BY <1>0, <2>1, RowsStay
<1>6. ASSUME UNCHANGED storeVars PROVE Rows \subseteq Rows'
  BY <1>6 DEF storeVars, Rows
<1>7. CASE \E c \in Calls : CallStep(c)
  BY <1>3, <1>6, <1>7, CallStepEffect
<1>8. CASE TickNext
  BY <1>4, <1>5, <1>6, <1>8, TickStepEffect
<1>9. UNCHANGED vars => UNCHANGED storeVars
  BY DEF vars, storeVars
<1> QED BY <1>1, <1>2, <1>6, <1>7, <1>8, <1>9 DEF Next

\* The history variable keeps its shape when a row changes its status.
LEMMA RememberType ==
    ASSUME TypeOK, NEW e \in Rows, NEW s \in Status, NEW o \in BOOLEAN, Remember(e, s, o)
    PROVE  held' \in [Ids -> Status \cup {"none", "raced"}]
<1>1. e \in Ids /\ StatusOf(e) \in Status
  BY TypeOKParts, RowIsEntryRow, RowIsNotNoRow DEF StatusOf
<1> QED BY <1>1 DEF Remember, TypeOK

\* The steps of a status-change call keep the shape of the state.
LEMMA CallStepType ==
    ASSUME TypeOK, CallsNameRows, NEW c \in Calls, CallStep(c)
    PROVE  LifecycleTypeOK'
<1>1. /\ call \in [Calls -> CallState] /\ NoCall \in CallState
      /\ tick \in [step: {"idle", "quarantine", "migrate"}, ids: SUBSET Ids]
      /\ badCycles \in [Ids -> Nat] /\ ticks \in 0..MaxTicks
      /\ held \in [Ids -> Status \cup {"none", "raced"}]
  BY DEF TypeOK, CallState
<1>2. ASSUME NEW kind \in CallKinds, NEW e \in Rows, NEW step \in {"target", "read"},
             NEW target \in Status, Begin(c, kind, e, step, target)
      PROVE  LifecycleTypeOK'
  <2>1. [kind |-> kind, e |-> e, step |-> step, target |-> target, preQ |-> "none"]
          \in CallState
    BY DEF CallState, Rows
  <2> QED BY <1>1, <1>2, <2>1 DEF Begin, LifecycleTypeOK
<1>3. CASE \E e \in Rows : ContextDeprecate(c, e)
  BY <1>2, <1>3 DEF ContextDeprecate, CallKinds, Status
<1>4. CASE \E e \in Rows : ContextQuarantine(c, e)
  BY <1>2, <1>4 DEF ContextQuarantine, CallKinds, Status
<1>5. CASE \E e \in Rows : ContextRestore(c, e)
  BY <1>2, <1>5 DEF ContextRestore, CallKinds, Status
<1>6. ASSUME ~Idle(c)
      PROVE  /\ call[c].e \in Rows /\ entries[call[c].e] \in EntryRow
             /\ StatusOf(call[c].e) \in Status
             /\ RestoreTarget(call[c].e) \in Status
  <2>1. call[c].e \in Rows
    BY <1>6 DEF CallsNameRows
  <2>2. entries[call[c].e] \in EntryRow
    BY <2>1, TypeOKParts, RowIsEntryRow
  <2> QED BY <2>1, <2>2 DEF EntryRow, RestoreTarget, StatusOf, Status
<1>7. CASE ReadRestoreTarget(c)
  <2> DEFINE t == RestoreTarget(call[c].e)
             next == [call[c] EXCEPT !.step = "read", !.target = t]
  <2>1. ~Idle(c) /\ t \in Status
    BY <1>6, <1>7 DEF ReadRestoreTarget
  <2>2. next \in CallState
    BY <2>1, CallFields DEF CallState
  <2>3. call' = [call EXCEPT ![c] = next]
    BY <1>7 DEF ReadRestoreTarget
  <2> HIDE DEF next
  <2> QED BY <1>1, <1>7, <2>2, <2>3 DEF ReadRestoreTarget, LifecycleTypeOK
<1>8. CASE ReadCurrent(c)
  <2> DEFINE q == PreQuarantine(call[c].target, StatusOf(call[c].e))
             next == [call[c] EXCEPT !.step = "write", !.preQ = q]
  <2>1. ~Idle(c) /\ q \in Status \cup {"none"}
    BY <1>6, <1>8 DEF ReadCurrent, PreQuarantine
  <2>2. next \in CallState
    BY <2>1, CallFields DEF CallState
  <2>3. call' = [call EXCEPT ![c] = NoCall] \/ call' = [call EXCEPT ![c] = next]
    BY <1>8 DEF ReadCurrent
  <2> HIDE DEF next
  <2> QED BY <1>1, <1>8, <2>2, <2>3 DEF ReadCurrent, LifecycleTypeOK
<1>9. CASE WriteStatus(c)
  <2>1. /\ ~Idle(c) /\ call[c].e \in Rows /\ call[c].target \in Status
        /\ Remember(call[c].e, call[c].target, Overtakes(call[c].e, {c}))
    BY <1>9, CallFields DEF WriteStatus, UpdateStatusExtended
  <2>2. held' \in [Ids -> Status \cup {"none", "raced"}]
    BY <2>1, RememberType DEF Overtakes
  <2> QED BY <1>1, <1>9, <2>2 DEF WriteStatus, LifecycleTypeOK
<1>10. CASE FailCall(c)
  BY <1>1, <1>10 DEF FailCall, LifecycleTypeOK
<1> QED BY <1>3, <1>4, <1>5, <1>7, <1>8, <1>9, <1>10 DEF CallStep

\* The steps of the tick keep the shape of the state.
LEMMA TickStepType ==
    ASSUME TypeOK, TickNext
    PROVE  LifecycleTypeOK'
<1>1. /\ call \in [Calls -> CallState]
      /\ tick \in [step: {"idle", "quarantine", "migrate"}, ids: SUBSET Ids]
      /\ badCycles \in [Ids -> Nat] /\ ticks \in 0..MaxTicks
      /\ held \in [Ids -> Status \cup {"none", "raced"}]
  BY DEF TypeOK
<1>2. ASSUME NEW step \in {"idle", "quarantine", "migrate"}, NEW ids \in SUBSET Ids,
             TickStep(step, ids)
      PROVE  tick' \in [step: {"idle", "quarantine", "migrate"}, ids: SUBSET Ids]
  BY <1>2 DEF TickStep
<1>3. tick.ids \subseteq Ids /\ ActiveIds \subseteq Ids
  BY <1>1 DEF ActiveIds, WithStatus
<1>4. ASSUME NEW bad \in SUBSET ActiveIds, TickClassify(bad)
      PROVE  LifecycleTypeOK'
  <2>1. badCycles' \in [Ids -> Nat]
    BY <1>1, <1>4 DEF TickClassify
  <2>2. ticks' \in 0..MaxTicks
    BY <1>1, <1>4, LifecycleAssumption DEF TickClassify
  <2>3. tick' \in [step: {"idle", "quarantine", "migrate"}, ids: SUBSET Ids]
    BY <1>3, <1>4 DEF TickClassify, TickStep
  <2> QED BY <1>1, <1>4, <2>1, <2>2, <2>3 DEF TickClassify, LifecycleTypeOK
<1>5. ASSUME NEW e \in tick.ids, AutoQuarantine(e)
      PROVE  LifecycleTypeOK'
  <2>1. e \in Rows /\ "Quarantined" \in Status /\ Remember(e, "Quarantined", InFlight(e) # {})
    BY <1>5 DEF AutoQuarantine, UpdateStatus, Status
  <2>2. held' \in [Ids -> Status \cup {"none", "raced"}]
    BY <2>1, RememberType
  <2>3. tick' \in [step: {"idle", "quarantine", "migrate"}, ids: SUBSET Ids]
    BY <1>2, <1>3, <1>5 DEF AutoQuarantine
  <2> QED BY <1>1, <1>5, <2>2, <2>3 DEF AutoQuarantine, LifecycleTypeOK
<1>6. ASSUME NEW e \in tick.ids, MigrateOne(e)
      PROVE  LifecycleTypeOK'
  <2>1. e \in Rows /\ "Deprecated" \in Status /\ Remember(e, "Deprecated", InFlight(e) # {})
    BY <1>6 DEF MigrateOne, UpdateStatus, Status
  <2>2. held' \in [Ids -> Status \cup {"none", "raced"}]
    BY <2>1, RememberType
  <2>3. tick' \in [step: {"idle", "quarantine", "migrate"}, ids: SUBSET Ids]
    BY <1>2, <1>3, <1>6 DEF MigrateOne
  <2> QED BY <1>1, <1>6, <2>2, <2>3 DEF MigrateOne, LifecycleTypeOK
<1>7. ASSUME NEW e \in tick.ids, AutoQuarantineFails(e) \/ MigrateOneFails(e)
      PROVE  LifecycleTypeOK'
  <2>1. tick' \in [step: {"idle", "quarantine", "migrate"}, ids: SUBSET Ids]
    BY <1>2, <1>3, <1>7 DEF AutoQuarantineFails, MigrateOneFails
  <2> QED BY <1>1, <1>7, <2>1 DEF AutoQuarantineFails, MigrateOneFails, LifecycleTypeOK
<1>8. ASSUME TickMigrationQuery \/ TickMigrationSkipped \/ MigrationDone
      PROVE  LifecycleTypeOK'
  <2>1. ActiveIds \cap DeadKnowledge \in SUBSET Ids /\ {} \in SUBSET Ids
    BY <1>3
  <2>2. tick' \in [step: {"idle", "quarantine", "migrate"}, ids: SUBSET Ids]
    BY <1>2, <1>8, <2>1 DEF TickMigrationQuery, TickMigrationSkipped, MigrationDone
  <2> QED BY <1>1, <1>8, <2>2
          DEF TickMigrationQuery, TickMigrationSkipped, MigrationDone, LifecycleTypeOK
<1>9. ASSUME TickNoReport
      PROVE  LifecycleTypeOK'
  <2>1. ticks' \in 0..MaxTicks
    BY <1>1, <1>9, LifecycleAssumption DEF TickNoReport
  <2>2. tick' \in [step: {"idle", "quarantine", "migrate"}, ids: SUBSET Ids]
    BY <1>9 DEF TickNoReport, TickStep
  <2> QED BY <1>1, <1>9, <2>1, <2>2 DEF TickNoReport, LifecycleTypeOK
<1> QED BY <1>4, <1>5, <1>6, <1>7, <1>8, <1>9 DEF TickNext

(***************************************************************************)
(* The inductive invariant of the lifecycle: TypeOK is not inductive alone *)
(* since a restore would read no status from an absent row.  The last two  *)
(* parts say what a quarantine call and a migration may write; they are    *)
(* what QuarantineLeftOnRequest needs.                                     *)
(***************************************************************************)
QuarantineCallsQuarantine ==
    \A c \in Calls : ~Idle(c) /\ call[c].kind = "quarantine" =>
                        call[c].step # "target" /\ call[c].target = "Quarantined"

MigratesDeadKnowledge == tick.step = "migrate" => tick.ids \subseteq DeadKnowledge

LifecycleInv ==
    /\ TypeOK
    /\ CallsNameRows
    /\ QuarantineCallsQuarantine
    /\ MigratesDeadKnowledge

\* Every step keeps the shape of the state.
LEMMA LifecycleTypeNext == LifecycleInv /\ [Next]_vars => TypeOK'
<1> SUFFICES ASSUME LifecycleInv, [Next]_vars PROVE TypeOK'
  OBVIOUS
<1>0. TypeOK /\ CallsNameRows /\ StoreTypeOK /\ LifecycleTypeOK
  BY TypeOKParts DEF LifecycleInv
<1>1. StoreTypeOK'
  BY <1>0, LifecycleStepIsStoreStep, StoreTypeNext
<1>2. ASSUME UNCHANGED lifecycleVars PROVE LifecycleTypeOK'
  BY <1>0, <1>2 DEF lifecycleVars, LifecycleTypeOK
<1>3. UNCHANGED vars => UNCHANGED lifecycleVars
  BY DEF vars, lifecycleVars
<1>4. ASSUME NEW e \in Rows, NEW c \in Contents, ContextCorrect(e, c)
      PROVE  LifecycleTypeOK'
  <2>1. Remember(e, "Deprecated", Overtakes(e, {})) /\ "Deprecated" \in Status
    BY <1>4 DEF ContextCorrect, Status
  <2>2. held' \in [Ids -> Status \cup {"none", "raced"}]
    BY <1>0, <2>1, RememberType DEF Overtakes
  <2> QED BY <1>0, <1>4, <2>2 DEF ContextCorrect, LifecycleTypeOK
<1>5. LifecycleTypeOK'
  BY <1>0, <1>2, <1>3, <1>4, CallStepType, TickStepType DEF Next, ContextStore
<1> QED BY <1>1, <1>5 DEF TypeOK, LifecycleTypeOK

\* What a call remembers after one of its steps: it has ended, or it is about
\* an entry of the table, and still a quarantine if it was one.
LEMMA CallStepKeeps ==
    ASSUME LifecycleInv, NEW c \in Calls, CallStep(c)
    PROVE  /\ \A d \in Calls \ {c} : call'[d] = call[d]
           /\ \/ call'[c] = NoCall
              \/ /\ call'[c].e \in Rows
                 /\ call'[c].kind = "quarantine" =>
                       call'[c].step # "target" /\ call'[c].target = "Quarantined"
<1>1. /\ call \in [Calls -> CallState] /\ TypeOK
      /\ ~Idle(c) => call[c].e \in Rows
      /\ ~Idle(c) /\ call[c].kind = "quarantine" =>
            call[c].step # "target" /\ call[c].target = "Quarantined"
  BY DEF LifecycleInv, TypeOK, CallsNameRows, QuarantineCallsQuarantine
<1>2. CASE \E e \in Rows : ContextDeprecate(c, e)
  BY <1>1, <1>2 DEF ContextDeprecate, Begin
<1>3. CASE \E e \in Rows : ContextQuarantine(c, e)
  BY <1>1, <1>3 DEF ContextQuarantine, Begin
<1>4. CASE \E e \in Rows : ContextRestore(c, e)
  BY <1>1, <1>4 DEF ContextRestore, Begin
<1>5. CASE ReadRestoreTarget(c)
  <2> DEFINE next == [call[c] EXCEPT !.step = "read", !.target = RestoreTarget(call[c].e)]
  <2>1. ~Idle(c) /\ call[c].step = "target" /\ call' = [call EXCEPT ![c] = next]
    BY <1>5 DEF ReadRestoreTarget
  <2>2. next.e = call[c].e /\ next.kind = call[c].kind
    BY <1>1, <2>1, CallFields
  <2> HIDE DEF next
  <2> QED BY <1>1, <2>1, <2>2
<1>6. CASE ReadCurrent(c)
  <2> DEFINE q == PreQuarantine(call[c].target, StatusOf(call[c].e))
             next == [call[c] EXCEPT !.step = "write", !.preQ = q]
  <2>1. /\ ~Idle(c)
        /\ call' = [call EXCEPT ![c] = NoCall] \/ call' = [call EXCEPT ![c] = next]
    BY <1>6 DEF ReadCurrent
  <2>2. /\ next.e = call[c].e /\ next.kind = call[c].kind
        /\ next.target = call[c].target /\ next.step = "write"
    BY <1>1, <2>1, CallFields
  <2> HIDE DEF next
  <2> QED BY <1>1, <2>1, <2>2
<1>7. CASE WriteStatus(c) \/ FailCall(c)
  BY <1>1, <1>7 DEF WriteStatus, FailCall
<1> QED BY <1>2, <1>3, <1>4, <1>5, <1>6, <1>7 DEF CallStep

\* The list of a running migration only shrinks.
LEMMA MigratesDeadKnowledgeNext ==
    ASSUME MigratesDeadKnowledge, TickNext
    PROVE  MigratesDeadKnowledge'
BY DEF MigratesDeadKnowledge, TickNext, TickStep, TickClassify, TickNoReport, AutoQuarantine,
       AutoQuarantineFails, TickMigrationQuery, TickMigrationSkipped, MigrateOne,
       MigrateOneFails, MigrationDone

\* The invariant holds of the fresh store, with no call in flight.
LEMMA LifecycleInvInit == Init => LifecycleInv
<1> SUFFICES ASSUME Init PROVE LifecycleInv
  OBVIOUS
<1>1. StoreTypeOK
  BY StoreTypeInit DEF Init
<1>2. LifecycleTypeOK
  BY LifecycleAssumption DEF Init, LifecycleTypeOK, CallState
<1>3. CallsNameRows /\ QuarantineCallsQuarantine /\ MigratesDeadKnowledge
  BY DEF Init, CallsNameRows, QuarantineCallsQuarantine, MigratesDeadKnowledge, Idle
<1> QED BY <1>1, <1>2, <1>3, TypeOKParts DEF LifecycleInv

\* Every step keeps the invariant: rows never disappear under a call, and what
\* a call or a migration is about to write is fixed when it begins.
LEMMA LifecycleInvNext == LifecycleInv /\ [Next]_vars => LifecycleInv'
<1> SUFFICES ASSUME LifecycleInv, [Next]_vars PROVE LifecycleInv'
  OBVIOUS
<1>1. TypeOK'
  BY LifecycleTypeNext
<1>2. Rows \subseteq Rows'
  BY LifecycleRowsStay DEF LifecycleInv
<1>3. CallsNameRows /\ QuarantineCallsQuarantine /\ MigratesDeadKnowledge
  BY DEF LifecycleInv
<1>4. CASE \E c \in Calls : CallStep(c)
  <2> PICK c \in Calls : CallStep(c)
    BY <1>4
  <2>1. CallsNameRows' /\ QuarantineCallsQuarantine'
    BY <1>2, <1>3, CallStepKeeps DEF CallsNameRows, QuarantineCallsQuarantine, Idle
  <2>2. tick' = tick
    BY DEF CallStep, ContextDeprecate, ContextQuarantine, ContextRestore, Begin,
           ReadRestoreTarget, ReadCurrent, WriteStatus, FailCall
  <2> QED BY <1>1, <1>3, <2>1, <2>2 DEF LifecycleInv, MigratesDeadKnowledge
<1>5. ASSUME call' = call
      PROVE  CallsNameRows' /\ QuarantineCallsQuarantine'
  BY <1>2, <1>3, <1>5 DEF CallsNameRows, QuarantineCallsQuarantine, Idle
<1>6. CASE TickNext
  <2>1. call' = call
    BY <1>6 DEF TickNext, TickClassify, TickNoReport, AutoQuarantine, AutoQuarantineFails,
                TickMigrationQuery, TickMigrationSkipped, MigrateOne, MigrateOneFails,
                MigrationDone
  <2> QED BY <1>1, <1>3, <1>5, <1>6, <2>1, MigratesDeadKnowledgeNext DEF LifecycleInv
<1>7. ASSUME UNCHANGED <<call, tick>> PROVE LifecycleInv'
  BY <1>1, <1>3, <1>5, <1>7 DEF LifecycleInv, MigratesDeadKnowledge
<1>8. UNCHANGED vars \/ UNCHANGED lifecycleVars => UNCHANGED <<call, tick>>
  BY DEF vars, lifecycleVars
<1> QED BY <1>4, <1>6, <1>7, <1>8 DEF Next, ContextStore, ContextCorrect

\* The invariant holds throughout.
LEMMA LifecycleInvariant == Spec => []LifecycleInv
BY LifecycleInvInit, LifecycleInvNext, PTL DEF Spec

\* Whatever interleaving of sessions and tick, the state keeps its shape.
THEOREM LifecycleTypeCorrect == Spec => []TypeOK
<1>1. LifecycleInv => TypeOK
  BY DEF LifecycleInv
<1> QED BY <1>1, LifecycleInvariant, PTL

\* The sessions and the tick use the store only through its operations: the
\* interleaved system implements the store on its own.
THEOREM LifecycleImplementsStore == Spec => StoreSpec
<1>1. Init => StoreInit
  BY DEF Init
<1>2. LifecycleInv /\ [Next]_vars => [StoreNext]_storeVars
  BY LifecycleStepIsStoreStep DEF LifecycleInv
<1> QED BY <1>1, <1>2, LifecycleInvariant, PTL DEF Spec, StoreSpec

\* Hence concurrent status changes, corrections and ticks leave the counters
\* exact.
THEOREM LifecycleCountersExact == Spec => []CountersExact
BY LifecycleImplementsStore, StoreCountersExact, PTL

\* Leaving quarantine, action by action: inserting writes a new row only, a
\* correction rejects a quarantined original, auto-quarantine writes
\* Quarantined, and a quarantine call does too.
LEMMA LeavesOnRequestNext ==
    ASSUME LifecycleInv, NextIdFresh, Next
    PROVE  LeavesOnRequest
<1> SUFFICES ASSUME NEW e \in Ids, StatusOf(e) = "Quarantined",
                    entries'[e].status # "Quarantined"
             PROVE  \/ \E c \in Calls : /\ call[c] # NoCall /\ call'[c] = NoCall
                                        /\ call[c].e = e
                                        /\ call[c].kind \in {"restore", "deprecate"}
                    \/ e \in tick.ids \cap DeadKnowledge /\ tick.step = "migrate"
  BY DEF LeavesOnRequest
<1>1. /\ entries \in [Ids -> EntryRow \cup {NoRow}] /\ e \in Rows
      /\ e < nextId /\ entries[e] \in EntryRow /\ TypeOK
  BY NoRowUncounted DEF LifecycleInv, TypeOK, StoreTypeOK, NextIdFresh, Rows, StatusOf, NoRow
<1>2. ASSUME NEW c \in Contents, ContextStore(c) PROVE FALSE
  <2>1. entries' = [entries EXCEPT ![nextId] = FreshRow(c, "Active")] /\ e # nextId
    BY <1>1, <1>2 DEF ContextStore, Insert, LifecycleInv, TypeOK, StoreTypeOK, Ids
  <2> QED BY <1>1, <2>1 DEF StatusOf
<1>3. ASSUME NEW o \in Rows, NEW c \in Contents, ContextCorrect(o, c) PROVE FALSE
  <2>1. e # o /\ e # nextId
    BY <1>1, <1>3 DEF ContextCorrect, CorrectEntry, Correctable, StatusOf, TypeOK, StoreTypeOK, Ids
  <2>2. PICK dep, new : entries' = [entries EXCEPT ![o] = dep, ![nextId] = new]
    BY <1>3 DEF ContextCorrect, CorrectEntry
  <2> QED BY <1>1, <2>1, <2>2 DEF StatusOf
<1>4. ASSUME NEW c \in Calls, CallStep(c)
      PROVE  /\ call[c] # NoCall /\ call'[c] = NoCall /\ call[c].e = e
             /\ call[c].kind \in {"restore", "deprecate"}
  <2>1. WriteStatus(c)
    BY <1>4, CallStepEffect DEF storeVars, StatusOf
  <2>2. ~Idle(c) /\ call' = [call EXCEPT ![c] = NoCall] /\ call \in [Calls -> CallState]
    BY <1>1, <2>1 DEF WriteStatus, TypeOK
  <2>3. entries' = [entries EXCEPT ![call[c].e] =
                      [entries[call[c].e] EXCEPT !.status = call[c].target,
                                                 !.preQ = call[c].preQ]]
    BY <2>1 DEF WriteStatus, UpdateStatusExtended
  <2>4. call[c].e = e
    BY <1>1, <2>3 DEF StatusOf
  <2>5. call[c].target # "Quarantined"
    <3>1. entries'[e] = [entries[e] EXCEPT !.status = call[c].target, !.preQ = call[c].preQ]
      BY <1>1, <2>3, <2>4
    <3> QED BY <1>1, <3>1 DEF EntryRow
  <2>6. call[c].kind \in CallKinds /\ call[c].kind # "quarantine"
    BY <1>1, <2>2, <2>5, CallFields DEF LifecycleInv, QuarantineCallsQuarantine
  <2> QED BY <2>2, <2>4, <2>6 DEF Idle, CallKinds
<1>5. ASSUME TickNext
      PROVE  e \in tick.ids \cap DeadKnowledge /\ tick.step = "migrate"
  <2>1. PICK d \in tick.ids : AutoQuarantine(d) \/ MigrateOne(d)
    BY <1>5, TickStepEffect DEF storeVars, StatusOf
  <2>2. PICK t : /\ entries' = [entries EXCEPT ![d] = [entries[d] EXCEPT !.status = t]]
                 /\ AutoQuarantine(d) => t = "Quarantined"
    BY <2>1 DEF AutoQuarantine, MigrateOne, UpdateStatus
  <2>3. d = e
    BY <1>1, <2>2 DEF StatusOf
  <2>4. t # "Quarantined"
    <3>1. entries'[e] = [entries[e] EXCEPT !.status = t]
      BY <1>1, <2>2, <2>3
    <3> QED BY <1>1, <3>1 DEF EntryRow
  <2>5. tick.step = "migrate"
    BY <2>1, <2>2, <2>4 DEF MigrateOne
  <2> QED BY <2>1, <2>3, <2>5 DEF LifecycleInv, MigratesDeadKnowledge
<1> QED BY <1>2, <1>3, <1>4, <1>5 DEF Next

\* An entry leaves quarantine only when a restore or deprecate call for it, or
\* the migration that listed it, writes its status.
THEOREM LifecycleQuarantine == Spec => QuarantineLeftOnRequest
<1>1. LifecycleInv /\ NextIdFresh /\ [Next]_vars => [LeavesOnRequest]_vars
  BY LeavesOnRequestNext
<1>2. Spec => []NextIdFresh
  BY LifecycleImplementsStore, StoreNextIdFresh, PTL
<1> QED BY <1>1, <1>2, LifecycleInvariant, PTL DEF Spec, QuarantineLeftOnRequest
-----------------------------------------------------------------------------
(* The correction chain. *)

\* Row i of table f passes the integrity check.
SoundRow(f, i) ==
    /\ f[i].hash = Hash(f[i].content)
    /\ f[i].prevHash # NoHash =>
         /\ f[i].supersedes # NULL /\ f[i].supersedes \in Ids
         /\ f[f[i].supersedes] # NoRow
         /\ f[f[i].supersedes].hash = f[i].prevHash

\* Two rows that the check cannot tell apart.
SameLinks(r, q) ==
    /\ r.hash = q.hash /\ r.content = q.content
    /\ r.prevHash = q.prevHash /\ r.supersedes = q.supersedes

\* ChainClean, row by row, before and after a step.
LEMMA ChainCleanRows ==
    /\ ChainClean <=> \A i \in Ids : entries[i] # NoRow => SoundRow(entries, i)
    /\ ChainClean' <=> \A i \in Ids : entries'[i] # NoRow => SoundRow(entries', i)
BY DEF ChainClean, ChainViolations, SoundRow, Rows

\* Rows that keep their links stay sound, whatever else is written or added.
LEMMA SoundRowsKept ==
    ASSUME NEW f, NEW g, \A i \in Ids : f[i] # NoRow => SoundRow(f, i),
           \A i \in Ids : f[i] # NoRow => g[i] # NoRow /\ SameLinks(f[i], g[i]),
           \A i \in Ids : f[i] = NoRow /\ g[i] # NoRow => SoundRow(g, i)
    PROVE  \A i \in Ids : g[i] # NoRow => SoundRow(g, i)
BY DEF SoundRow, SameLinks

\* A write to the status columns of a row leaves every row sound.
LEMMA ChainCleanStatusWrite ==
    ASSUME StoreTypeOK, ChainClean, NEW e \in Rows, NEW row \in EntryRow,
           SameLinks(entries[e], row), entries' = [entries EXCEPT ![e] = row]
    PROVE  ChainClean'
<1>1. e \in Ids /\ entries \in [Ids -> EntryRow \cup {NoRow}] /\ row # NoRow
  BY RowIsNotNoRow DEF StoreTypeOK, Rows
<1>2. \A i \in Ids : entries[i] # NoRow =>
         entries'[i] # NoRow /\ SameLinks(entries[i], entries'[i])
  BY <1>1 DEF SameLinks
<1>3. \A i \in Ids : entries[i] = NoRow => entries'[i] = NoRow
  BY <1>1 DEF Rows
<1> QED BY <1>2, <1>3, ChainCleanRows, SoundRowsKept

\* The next id has no row yet.
LEMMA NextIdHasNoRow ==
    ASSUME StoreTypeOK, NextIdFresh, NextEntryId
    PROVE  nextId \in Ids /\ entries[nextId] = NoRow
<1>1. nextId \in Ids
  BY MaxIdAssumption DEF StoreTypeOK, NextEntryId, Ids
<1>2. nextId \notin Rows
  BY <1>1 DEF NextIdFresh, Ids
<1> QED BY <1>1, <1>2 DEF Rows

\* A stored entry is sound, having no predecessor.
LEMMA ChainCleanInsert ==
    ASSUME StoreTypeOK, NextIdFresh, ChainClean, NEW c \in Contents, NEW s \in Status,
           Insert(c, s)
    PROVE  ChainClean'
<1> DEFINE new == FreshRow(c, s)
<1>1. /\ entries' = [entries EXCEPT ![nextId] = new]
      /\ entries \in [Ids -> EntryRow \cup {NoRow}]
      /\ nextId \in Ids /\ entries[nextId] = NoRow
  BY NextIdHasNoRow DEF Insert, StoreTypeOK
<1>2. new.hash = Hash(new.content) /\ new.prevHash = NoHash
  BY DEF FreshRow
<1> HIDE DEF new
<1>3. \A i \in Ids : entries[i] # NoRow =>
         entries'[i] # NoRow /\ SameLinks(entries[i], entries'[i])
  BY <1>1 DEF SameLinks
<1>4. \A i \in Ids : entries[i] = NoRow /\ entries'[i] # NoRow => SoundRow(entries', i)
  <2>1. SUFFICES ASSUME NEW i \in Ids, i = nextId PROVE SoundRow(entries', i)
    BY <1>1
  <2>2. entries'[i] = new
    BY <1>1, <2>1
  <2> QED BY <1>2, <2>2 DEF SoundRow
<1> QED BY <1>3, <1>4, ChainCleanRows, SoundRowsKept

\* A correction is sound: it carries the hash of the entry it supersedes, and
\* that entry keeps its hash.
LEMMA ChainCleanCorrect ==
    ASSUME StoreTypeOK, NextIdFresh, ChainClean, NEW e \in Ids, NEW c \in Contents,
           NEW s \in Status, CorrectEntry(e, c, s)
    PROVE  ChainClean'
<1> DEFINE old == entries[e]
           dep == [old EXCEPT !.status = "Deprecated", !.supersededBy = nextId,
                              !.corrections = @ + 1]
           new == [FreshRow(c, s) EXCEPT !.supersedes = e, !.prevHash = old.hash,
                                         !.version = old.version + 1]
<1>1. /\ e \in Rows /\ NextEntryId
      /\ entries' = [entries EXCEPT ![e] = dep, ![nextId] = new]
  BY DEF CorrectEntry, Correctable
<1>2. /\ entries \in [Ids -> EntryRow \cup {NoRow}] /\ old \in EntryRow
      /\ nextId \in Ids /\ entries[nextId] = NoRow /\ old # NoRow /\ e # nextId
  BY <1>1, NextIdHasNoRow, RowIsEntryRow, RowIsNotNoRow DEF StoreTypeOK
<1>3. dep # NoRow /\ SameLinks(old, dep)
  <2>1. dep \in EntryRow
    BY <1>2, FreshRowType, CorrectedRowTypes
  <2>2. SameLinks(old, dep)
    BY <1>2 DEF SameLinks, EntryRow
  <2> QED BY <2>1, <2>2, RowIsNotNoRow
<1>4. /\ new.hash = Hash(new.content) /\ new.supersedes = e /\ new.prevHash = old.hash
      /\ e # NULL
  BY DEF FreshRow, NULL, Ids
<1>5. dep.hash = old.hash
  BY <1>3 DEF SameLinks
<1> HIDE DEF dep, new
<1>6. entries'[e] = dep /\ entries'[nextId] = new
  BY <1>1, <1>2
<1>7. \A i \in Ids : entries[i] # NoRow =>
         entries'[i] # NoRow /\ SameLinks(entries[i], entries'[i])
  BY <1>1, <1>2, <1>3 DEF SameLinks
<1>8. \A i \in Ids : entries[i] = NoRow /\ entries'[i] # NoRow => SoundRow(entries', i)
  <2>1. SUFFICES ASSUME NEW i \in Ids, i = nextId PROVE SoundRow(entries', i)
    BY <1>1, <1>2
  <2> QED BY <1>3, <1>4, <1>5, <1>6, <2>1 DEF SoundRow
<1> QED BY <1>7, <1>8, ChainCleanRows, SoundRowsKept

\* Every step keeps the chain clean: storing and correcting by the lemmas
\* above, a call and the tick because they write status columns only.
LEMMA ChainCleanNext ==
    ASSUME LifecycleInv, NextIdFresh, ChainClean, [Next]_vars
    PROVE  ChainClean'
<1>0. TypeOK /\ StoreTypeOK /\ entries \in [Ids -> EntryRow \cup {NoRow}]
  BY DEF LifecycleInv, TypeOK, StoreTypeOK
<1>1. ASSUME UNCHANGED storeVars PROVE ChainClean'
  BY <1>1 DEF storeVars, ChainClean, ChainViolations, Rows
<1>2. ASSUME NEW c \in Contents, ContextStore(c) PROVE ChainClean'
  BY <1>0, <1>2, ChainCleanInsert DEF ContextStore, Status
<1>3. ASSUME NEW e \in Rows, NEW c \in Contents, ContextCorrect(e, c) PROVE ChainClean'
  BY <1>0, <1>3, ChainCleanCorrect DEF ContextCorrect, Status, Rows
<1>4. ASSUME NEW c \in Calls, CallStep(c) PROVE ChainClean'
  <2>1. CASE UNCHANGED storeVars
    BY <1>1, <2>1
  <2>2. CASE WriteStatus(c)
    <3> DEFINE e == call[c].e
               row == [entries[e] EXCEPT !.status = call[c].target, !.preQ = call[c].preQ]
    <3>1. ~Idle(c) /\ e \in Rows /\ entries' = [entries EXCEPT ![e] = row]
      BY <2>2 DEF WriteStatus, UpdateStatusExtended
    <3>2. entries[e] \in EntryRow /\ call[c].target \in Status
          /\ call[c].preQ \in Status \cup {"none"}
      BY <1>0, <3>1, CallFields, RowIsEntryRow
    <3>3. row \in EntryRow /\ SameLinks(entries[e], row)
      BY <3>2 DEF EntryRow, SameLinks
    <3> HIDE DEF e, row
    <3> QED BY <1>0, <3>1, <3>3, ChainCleanStatusWrite
  <2> QED BY <1>4, <2>1, <2>2, CallStepEffect
<1>5. ASSUME TickNext PROVE ChainClean'
  <2>1. CASE UNCHANGED storeVars
    BY <1>1, <2>1
  <2>2. CASE \E e \in tick.ids : AutoQuarantine(e) \/ MigrateOne(e)
    <3>1. PICK e \in Rows, s \in Status :
             entries' = [entries EXCEPT ![e] = [entries[e] EXCEPT !.status = s]]
      BY <2>2 DEF AutoQuarantine, MigrateOne, UpdateStatus, Status
    <3> DEFINE row == [entries[e] EXCEPT !.status = s]
    <3>2. entries[e] \in EntryRow
      BY <1>0, RowIsEntryRow
    <3>3. row \in EntryRow /\ SameLinks(entries[e], row)
      BY <3>2 DEF EntryRow, SameLinks
    <3> HIDE DEF row
    <3>4. entries' = [entries EXCEPT ![e] = row]
      BY <3>1 DEF row
    <3> QED BY <1>0, <3>3, <3>4, ChainCleanStatusWrite
  <2> QED BY <1>5, <2>1, <2>2, TickStepEffect
<1>6. UNCHANGED vars => UNCHANGED storeVars
  BY DEF vars, storeVars
<1> QED BY <1>1, <1>2, <1>3, <1>4, <1>5, <1>6 DEF Next

\* The integrity check finds nothing, however the corrections, the status
\* changes and the ticks interleave.
THEOREM LifecycleChainClean == Spec => []ChainClean
<1>1. Init => ChainClean
  BY DEF Init, StoreInit, ChainClean, ChainViolations, Rows
<1>2. LifecycleInv /\ NextIdFresh /\ ChainClean /\ [Next]_vars => ChainClean'
  BY ChainCleanNext
<1>3. Spec => []NextIdFresh
  BY LifecycleImplementsStore, StoreNextIdFresh, PTL
<1> QED BY <1>1, <1>2, <1>3, LifecycleInvariant, PTL DEF Spec
-----------------------------------------------------------------------------
(* Counting and following the corrections of an entry. *)

\* The rows of table f that supersede e.
Successors(f, e) == {n \in Ids : f[n] # NoRow /\ f[n].supersedes = e}

\* CorrectionsTracked for the row of e in table f.
TrackedRow(f, e) ==
    /\ f[e].corrections = Cardinality(Successors(f, e))
    /\ \A n \in Successors(f, e) : /\ f[n].version = f[e].version + 1
                                   /\ e < n /\ n <= f[e].supersededBy
    /\ f[e].supersededBy # NULL => f[e].supersededBy \in Successors(f, e)

(***************************************************************************)
(* The inductive form: besides, a supersedes link names a row of the       *)
(* table, so that a row that is new has no successors.                     *)
(***************************************************************************)
TrackedTable(f) ==
    \A i \in Ids : f[i] # NoRow =>
        /\ TrackedRow(f, i)
        /\ f[i].supersedes # NULL => f[i].supersedes \in Ids /\ f[f[i].supersedes] # NoRow

\* CorrectionsTracked, row by row.
LEMMA TrackedRows == TrackedTable(entries) => CorrectionsTracked
BY DEF TrackedTable, TrackedRow, Successors, CorrectionsTracked, SuccessorsOf, Rows

\* Two rows that have the same place in the chain.
SamePlace(r, q) ==
    /\ r.supersedes = q.supersedes /\ r.supersededBy = q.supersededBy
    /\ r.corrections = q.corrections /\ r.version = q.version

\* Writes to the other columns leave the corrections tracked.
LEMMA TrackedKept ==
    ASSUME NEW f, NEW g, TrackedTable(f),
           \A i \in Ids : f[i] = NoRow <=> g[i] = NoRow,
           \A i \in Ids : f[i] # NoRow => SamePlace(f[i], g[i])
    PROVE  TrackedTable(g)
<1>1. \A e \in Ids : Successors(g, e) = Successors(f, e)
  BY DEF Successors, SamePlace
<1> SUFFICES ASSUME NEW i \in Ids, g[i] # NoRow
             PROVE  /\ TrackedRow(g, i)
                    /\ g[i].supersedes # NULL => g[i].supersedes \in Ids /\ g[g[i].supersedes] # NoRow
  BY DEF TrackedTable
<1>2. f[i] # NoRow /\ TrackedRow(f, i) /\ SamePlace(f[i], g[i])
  BY DEF TrackedTable
<1>3. \A n \in Successors(f, i) : f[n] # NoRow /\ SamePlace(f[n], g[n])
  BY DEF Successors
<1>4. TrackedRow(g, i)
  BY <1>1, <1>2, <1>3 DEF TrackedRow, SamePlace
<1> QED BY <1>2, <1>4 DEF TrackedTable, SamePlace

\* A new row without links has no successors and is nobody's.
LEMMA TrackedNew ==
    ASSUME NEW f, NEW g, NEW k \in Ids, TrackedTable(f), f[k] = NoRow,
           g[k].supersedes = NULL, g[k].supersededBy = NULL, g[k].corrections = 0,
           \A i \in Ids \ {k} : g[i] = f[i]
    PROVE  TrackedTable(g)
<1>1. \A e \in Ids : e # NULL
  BY DEF Ids, NULL
<1>2. Successors(f, k) = {}
  BY <1>1 DEF Successors, TrackedTable
<1>3. \A e \in Ids : Successors(g, e) = Successors(f, e)
  BY <1>1 DEF Successors
<1>4. TrackedRow(g, k)
  BY <1>2, <1>3, FS_EmptySet DEF TrackedRow
<1>5. ASSUME NEW i \in Ids \ {k}, g[i] # NoRow PROVE TrackedRow(g, i)
  <2>1. TrackedRow(f, i) /\ g[i] = f[i]
    BY <1>5 DEF TrackedTable
  <2>2. \A n \in Successors(f, i) : g[n] = f[n]
    BY DEF Successors
  <2> QED BY <1>3, <2>1, <2>2 DEF TrackedRow
<1>6. ASSUME NEW i \in Ids, g[i] # NoRow, g[i].supersedes # NULL
      PROVE  g[i].supersedes \in Ids /\ g[g[i].supersedes] # NoRow
  BY <1>6 DEF TrackedTable
<1> QED BY <1>4, <1>5, <1>6 DEF TrackedTable

\* A correction adds itself to the successors of the original, as the largest.
LEMMA TrackedCorrection ==
    ASSUME NEW f, NEW g, NEW e \in Ids, NEW k \in Ids, TrackedTable(f),
           f[k] = NoRow, f[e] # NoRow, f[e].corrections \in Nat, f[e].version \in Nat,
           \A i \in Ids : f[i] # NoRow => i < k,
           g[k] # NoRow, g[k].supersedes = e, g[k].version = f[e].version + 1,
           g[k].supersededBy = NULL, g[k].corrections = 0,
           g[e] # NoRow, g[e].supersedes = f[e].supersedes, g[e].version = f[e].version,
           g[e].supersededBy = k, g[e].corrections = f[e].corrections + 1,
           \A i \in Ids \ {e, k} : g[i] = f[i]
    PROVE  TrackedTable(g)
<1>0. e # k /\ e < k /\ \A i \in Ids : i # NULL /\ i \in Nat
  BY MaxIdAssumption DEF Ids, NULL
<1>1. Successors(f, k) = {}
  BY <1>0 DEF Successors, TrackedTable
<1>2. Successors(g, e) = Successors(f, e) \cup {k} /\ k \notin Successors(f, e)
  BY <1>0 DEF Successors
<1>3. \A i \in Ids \ {e} : Successors(g, i) = Successors(f, i)
  BY <1>0 DEF Successors
<1>4. IsFiniteSet(Successors(f, e))
  <2>1. IsFiniteSet(Ids)
    BY MaxIdAssumption, FS_Interval DEF Ids
  <2> QED BY <2>1, FS_Subset DEF Successors
<1>5. Cardinality(Successors(g, e)) = Cardinality(Successors(f, e)) + 1
  <2> DEFINE S == Successors(f, e)
  <2>1. Successors(g, e) = S \cup {k} /\ k \notin S /\ IsFiniteSet(S)
    BY <1>2, <1>4
  <2> HIDE DEF S
  <2>2. Cardinality(S \cup {k}) = Cardinality(S) + 1
    BY <2>1, FS_AddElement
  <2> QED BY <2>1, <2>2 DEF S
<1>6. TrackedRow(g, k)
  BY <1>0, <1>1, <1>3, FS_EmptySet DEF TrackedRow
<1>7. TrackedRow(g, e)
  <2>1. TrackedRow(f, e)
    BY DEF TrackedTable
  <2>2. g[e].corrections = Cardinality(Successors(g, e))
    BY <1>5, <2>1 DEF TrackedRow
  <2>3. ASSUME NEW n \in Successors(f, e)
        PROVE  g[n].version = g[e].version + 1 /\ e < n /\ n <= g[e].supersededBy
    <3>1. n \in Ids /\ f[n] # NoRow /\ n < k /\ n # k
      BY <1>0 DEF Successors
    <3>2. f[n].version = f[e].version + 1 /\ e < n /\ n # e
      BY <1>0, <2>1, <3>1 DEF TrackedRow
    <3> QED BY <1>0, <3>1, <3>2
  <2>4. g[e].supersededBy \in Successors(g, e)
    BY <1>2
  <2> QED BY <1>0, <1>2, <2>2, <2>3, <2>4 DEF TrackedRow
<1>8. ASSUME NEW i \in Ids \ {e, k}, g[i] # NoRow PROVE TrackedRow(g, i)
  <2>1. TrackedRow(f, i) /\ g[i] = f[i] /\ Successors(g, i) = Successors(f, i)
    BY <1>3, <1>8 DEF TrackedTable
  <2>2. \A n \in Successors(f, i) : g[n].version = f[n].version
    BY DEF Successors
  <2> QED BY <2>1, <2>2 DEF TrackedRow
<1>9. ASSUME NEW i \in Ids, g[i] # NoRow, g[i].supersedes # NULL
      PROVE  g[i].supersedes \in Ids /\ g[g[i].supersedes] # NoRow
  <2>1. CASE i = k
    BY <2>1
  <2>2. CASE i # k
    <3>1. g[i].supersedes = f[i].supersedes /\ f[i] # NoRow
      BY <1>9, <2>2
    <3>2. f[i].supersedes \in Ids /\ f[f[i].supersedes] # NoRow
      BY <1>9, <3>1 DEF TrackedTable
    <3> QED BY <3>1, <3>2
  <2> QED BY <2>1, <2>2
<1> QED BY <1>6, <1>7, <1>8, <1>9 DEF TrackedTable

\* What a step of the lifecycle may do to the table.
LEMMA LifecycleTableStep ==
    ASSUME LifecycleInv, [Next]_vars
    PROVE  \/ entries' = entries
           \/ \E c \in Contents : Insert(c, "Active")
           \/ \E e \in Ids, c \in Contents : CorrectEntry(e, c, "Active")
           \/ \E e \in Rows, s \in Status, q \in Status \cup {"none"} :
                 entries' = [entries EXCEPT ![e] = [entries[e] EXCEPT !.status = s, !.preQ = q]]
<1>0. TypeOK /\ StoreTypeOK
  BY DEF LifecycleInv, TypeOK
<1>1. UNCHANGED storeVars \/ UNCHANGED vars => entries' = entries
  BY DEF storeVars, vars
<1>2. ASSUME NEW c \in Calls, WriteStatus(c)
      PROVE  \E e \in Rows, s \in Status, q \in Status \cup {"none"} :
                entries' = [entries EXCEPT ![e] = [entries[e] EXCEPT !.status = s, !.preQ = q]]
  <2> DEFINE e == call[c].e
             s == call[c].target
             q == call[c].preQ
  <2>1. ~Idle(c) /\ UpdateStatusExtended(e, s, q)
    BY <1>2 DEF WriteStatus
  <2>2. s \in Status /\ q \in Status \cup {"none"}
    BY <1>0, <2>1, CallFields
  <2> HIDE DEF e, s, q
  <2> QED BY <2>1, <2>2 DEF UpdateStatusExtended
<1>3. ASSUME NEW d \in tick.ids, AutoQuarantine(d) \/ MigrateOne(d)
      PROVE  \E e \in Rows, s \in Status, q \in Status \cup {"none"} :
                entries' = [entries EXCEPT ![e] = [entries[e] EXCEPT !.status = s, !.preQ = q]]
  <2>1. PICK e \in Rows, s \in Status :
           entries' = [entries EXCEPT ![e] = [entries[e] EXCEPT !.status = s]]
    BY <1>3 DEF AutoQuarantine, MigrateOne, UpdateStatus, Status
  <2>2. entries[e] \in EntryRow
    BY <1>0, RowIsEntryRow
  <2> DEFINE q == entries[e].preQ
  <2>3. /\ q \in Status \cup {"none"}
        /\ [entries[e] EXCEPT !.status = s] = [entries[e] EXCEPT !.status = s, !.preQ = q]
    BY <2>2 DEF EntryRow
  <2> HIDE DEF q
  <2> QED BY <2>1, <2>3
<1>4. ASSUME NEW e \in Rows, NEW c \in Contents, ContextCorrect(e, c)
      PROVE  \E i \in Ids, b \in Contents : CorrectEntry(i, b, "Active")
  BY <1>4 DEF ContextCorrect, Rows
<1> QED BY <1>1, <1>2, <1>3, <1>4, CallStepEffect, TickStepEffect DEF Next, ContextStore

\* Every step keeps the corrections tracked.
LEMMA TrackedNext ==
    ASSUME LifecycleInv, NextIdFresh, TrackedTable(entries), [Next]_vars
    PROVE  TrackedTable(entries')
<1>0. StoreTypeOK /\ entries \in [Ids -> EntryRow \cup {NoRow}]
  BY DEF LifecycleInv, TypeOK, StoreTypeOK
<1>1. CASE entries' = entries
  BY <1>1
<1>2. ASSUME NEW c \in Contents, Insert(c, "Active") PROVE TrackedTable(entries')
  <2>1. nextId \in Ids /\ entries[nextId] = NoRow
    BY <1>0, <1>2, NextIdHasNoRow DEF Insert
  <2>2. entries' = [entries EXCEPT ![nextId] = FreshRow(c, "Active")]
    BY <1>2 DEF Insert
  <2>3. entries'[nextId] = FreshRow(c, "Active") /\ \A i \in Ids \ {nextId} : entries'[i] = entries[i]
    BY <1>0, <2>1, <2>2
  <2>4. /\ entries'[nextId].supersedes = NULL /\ entries'[nextId].supersededBy = NULL
        /\ entries'[nextId].corrections = 0
    BY <2>3 DEF FreshRow
  <2> QED BY <2>1, <2>3, <2>4, TrackedNew
<1>3. ASSUME NEW e \in Ids, NEW c \in Contents, CorrectEntry(e, c, "Active")
      PROVE  TrackedTable(entries')
  <2> DEFINE old == entries[e]
             k == nextId
             dep == [old EXCEPT !.status = "Deprecated", !.supersededBy = nextId,
                                !.corrections = @ + 1]
             new == [FreshRow(c, "Active") EXCEPT !.supersedes = e, !.prevHash = old.hash,
                                                  !.version = old.version + 1]
  <2>1. /\ e \in Rows /\ NextEntryId /\ entries' = [entries EXCEPT ![e] = dep, ![nextId] = new]
    BY <1>3 DEF CorrectEntry, Correctable
  <2>2. /\ nextId \in Ids /\ entries[nextId] = NoRow /\ old \in EntryRow /\ old # NoRow
        /\ e # nextId
    BY <1>0, <2>1, NextIdHasNoRow, RowIsEntryRow, RowIsNotNoRow
  <2>3. dep # NoRow /\ new # NoRow
    BY <2>2, FreshRowType, CorrectedRowTypes, RowIsNotNoRow DEF Status
  <2>4. /\ dep.supersedes = old.supersedes /\ dep.version = old.version
        /\ dep.supersededBy = nextId /\ dep.corrections = old.corrections + 1
        /\ old.corrections \in Nat /\ old.version \in Nat
    BY <2>2 DEF EntryRow
  <2>5. /\ new.supersedes = e /\ new.version = old.version + 1
        /\ new.supersededBy = NULL /\ new.corrections = 0
    BY DEF FreshRow
  <2> HIDE DEF dep, new
  <2>6. /\ entries'[e] = dep /\ entries'[nextId] = new
        /\ \A i \in Ids \ {e, nextId} : entries'[i] = entries[i]
    BY <1>0, <2>1, <2>2
  <2>7. \A i \in Ids : entries[i] # NoRow => i < nextId
    BY DEF NextIdFresh, Rows
  <2> QED BY <2>2, <2>3, <2>4, <2>5, <2>6, <2>7, TrackedCorrection
<1>4. ASSUME NEW e \in Rows, NEW s \in Status, NEW q \in Status \cup {"none"},
             entries' = [entries EXCEPT ![e] = [entries[e] EXCEPT !.status = s, !.preQ = q]]
      PROVE  TrackedTable(entries')
  <2> DEFINE row == [entries[e] EXCEPT !.status = s, !.preQ = q]
  <2>1. e \in Ids /\ entries[e] \in EntryRow /\ entries[e] # NoRow
    BY <1>0, RowIsEntryRow, RowIsNotNoRow
  <2>2. row \in EntryRow /\ SamePlace(entries[e], row)
    BY <2>1 DEF EntryRow, SamePlace
  <2>3. row # NoRow
    BY <2>2, RowIsNotNoRow
  <2>4. entries' = [entries EXCEPT ![e] = row]
    BY <1>4
  <2> HIDE DEF row
  <2>5. \A i \in Ids : entries[i] = NoRow <=> entries'[i] = NoRow
    BY <1>0, <2>1, <2>3, <2>4
  <2>6. \A i \in Ids : SamePlace(entries[i], entries'[i])
    BY <1>0, <2>1, <2>2, <2>4 DEF SamePlace
  <2> QED BY <2>5, <2>6, TrackedKept
<1> QED BY <1>1, <1>2, <1>3, <1>4, LifecycleTableStep

\* The chain can be followed both ways and counted, also when a restored entry
\* is corrected again.
THEOREM LifecycleCorrectionsTracked == Spec => []CorrectionsTracked
<1>1. Init => TrackedTable(entries)
  BY DEF Init, StoreInit, TrackedTable
<1>2. LifecycleInv /\ NextIdFresh /\ TrackedTable(entries) /\ [Next]_vars => TrackedTable(entries)'
  BY TrackedNext
<1>3. Spec => []NextIdFresh
  BY LifecycleImplementsStore, StoreNextIdFresh, PTL
<1> QED BY <1>1, <1>2, <1>3, LifecycleInvariant, TrackedRows, PTL DEF Spec
-----------------------------------------------------------------------------
(***************************************************************************)
(* Quarantine remembers where an entry came from.  What a call or the tick *)
(* has read about an entry is still true when it writes, as long as no two *)
(* changes of the entry have overlapped: then a row, the status h it was   *)
(* taken from, the calls in flight and the ids of the tick agree.          *)
(***************************************************************************)
RowExact(r, h) ==
    h # "raced" =>
      /\ IF r.status = "Quarantined"
         THEN (IF r.preQ = "none" THEN "Active" ELSE r.preQ) = h
         ELSE r.preQ = "none"
      /\ r.supersededBy # NULL => /\ r.status # "Active"
                                  /\ r.status = "Quarantined" => h # "Active"

\* What a call k knows of the status s of its entry.
CallExact(k, s, h) ==
    /\ k.kind = "deprecate" => k.target = "Deprecated" /\ k.step # "target"
    /\ k.step = "write" /\ k.target # "Quarantined" => k.preQ = "none"
    /\ h # "raced" =>
         /\ k.kind = "quarantine" => s # "Quarantined"
         /\ k.kind = "restore" => /\ s = "Quarantined"
                                  /\ k.step # "target" => k.target = h
         /\ k.step = "write" /\ k.target = "Quarantined" => k.preQ = s

CallsExact == \A c \in Calls : call[c] # NoCall =>
                 CallExact(call[c], entries[call[c].e].status, held[call[c].e])

TickExact == \A x \in tick.ids : held[x] # "raced" => entries[x].status = "Active"

RaceInv ==
    /\ \A x \in Rows : RowExact(entries[x], held[x])
    /\ CallsExact
    /\ TickExact
    /\ \A x \in Ids : held[x] # "Quarantined"

\* What Remember does to the history of the entry and of the others.
LEMMA RememberEffect ==
    ASSUME TypeOK, NEW e \in Rows, NEW s \in Status, NEW o \in BOOLEAN, Remember(e, s, o)
    PROVE  /\ \A i \in Ids \ {e} : held'[i] = held[i]
           /\ held[e] = "raced" \/ o => held'[e] = "raced"
           /\ held'[e] # "raced" =>
                held'[e] = IF s # "Quarantined" THEN "none"
                           ELSE IF entries[e].status = "Quarantined" THEN held[e]
                           ELSE entries[e].status
<1>1. held \in [Ids -> Status \cup {"none", "raced"}] /\ e \in Ids
  BY DEF TypeOK, Rows
<1> QED BY <1>1 DEF Remember, StatusOf

(***************************************************************************)
(* A write to e keeps everything exact when it leaves e's own row exact    *)
(* and counts as overtaking (o) whenever a call or the tick still holds    *)
(* what it has read of e.                                                  *)
(***************************************************************************)
LEMMA RaceWrite ==
    ASSUME LifecycleInv, RaceInv, TypeOK', NEW e \in Rows, NEW s \in Status,
           NEW o \in BOOLEAN, Remember(e, s, o),
           \A i \in Rows \ {e} : entries'[i] = entries[i],
           \A i \in Rows' \ Rows, h \in Status \cup {"none", "raced"} : RowExact(entries'[i], h),
           \A c \in Calls : call'[c] = call[c] \/ call'[c] = NoCall,
           \A c \in Calls : call'[c] # NoCall /\ call[c].e = e => o,
           tick'.ids \subseteq tick.ids,
           e \in tick'.ids => o,
           RowExact(entries'[e], held'[e])
    PROVE  RaceInv'
<1>0. /\ TypeOK /\ CallsNameRows /\ e \in Ids
      /\ held \in [Ids -> Status \cup {"none", "raced"}]
      /\ held' \in [Ids -> Status \cup {"none", "raced"}]
      /\ tick.ids \subseteq Ids
  BY DEF LifecycleInv, TypeOK, Rows
<1>1. /\ \A i \in Ids \ {e} : held'[i] = held[i]
      /\ held[e] = "raced" \/ o => held'[e] = "raced"
      /\ held'[e] # "raced" =>
           held'[e] = IF s # "Quarantined" THEN "none"
                      ELSE IF entries[e].status = "Quarantined" THEN held[e]
                      ELSE entries[e].status
  BY <1>0, RememberEffect
<1>2. ASSUME NEW x \in Rows' PROVE RowExact(entries'[x], held'[x])
  <2>1. x \in Ids
    BY DEF Rows
  <2>2. CASE x = e
    BY <2>2
  <2>3. CASE x \in Rows \ {e}
    BY <1>1, <2>1, <2>3 DEF RaceInv
  <2>4. CASE x \in Rows' \ Rows
    BY <1>0, <2>1, <2>4
  <2> QED BY <2>2, <2>3, <2>4
<1>3. CallsExact'
  <2> SUFFICES ASSUME NEW c \in Calls, call'[c] # NoCall
               PROVE  CallExact(call'[c], entries'[call'[c].e].status, held'[call'[c].e])
    BY DEF CallsExact
  <2>1. call'[c] = call[c] /\ call[c] # NoCall /\ call[c].e \in Rows /\ call[c].e \in Ids
    BY <1>0 DEF CallsNameRows, Idle, Rows
  <2>2. CallExact(call[c], entries[call[c].e].status, held[call[c].e])
    BY <2>1 DEF RaceInv, CallsExact
  <2>3. CASE call[c].e = e
    BY <1>1, <2>1, <2>2, <2>3 DEF CallExact
  <2>4. CASE call[c].e # e
    BY <1>1, <2>1, <2>2, <2>4
  <2> QED BY <2>3, <2>4
<1>4. TickExact'
  <2> SUFFICES ASSUME NEW x \in tick'.ids, held'[x] # "raced"
               PROVE  entries'[x].status = "Active"
    BY DEF TickExact
  <2>1. x \in Ids /\ x # e /\ held[x] # "raced"
    BY <1>0, <1>1
  <2>2. entries[x].status = "Active"
    BY <2>1 DEF RaceInv, TickExact
  <2>3. x \in Rows
    BY <2>1, <2>2 DEF Rows, NoRow
  <2> QED BY <2>1, <2>2, <2>3
<1>5. ASSUME NEW x \in Ids PROVE held'[x] # "Quarantined"
  BY <1>1 DEF RaceInv
<1> QED BY <1>2, <1>3, <1>4, <1>5 DEF RaceInv

\* The steps of a call that do not write: what was just read is exact.
LEMMA RaceCallRead ==
    ASSUME LifecycleInv, RaceInv, NEW c \in Calls, CallStep(c), ~WriteStatus(c)
    PROVE  RaceInv'
<1>0. /\ TypeOK /\ CallsNameRows /\ QuarantineCallsQuarantine
      /\ call \in [Calls -> CallState]
  BY DEF LifecycleInv, TypeOK
<1>1. UNCHANGED <<entries, tick, held>>
  BY DEF CallStep, ContextDeprecate, ContextQuarantine, ContextRestore, Begin,
         ReadRestoreTarget, ReadCurrent, FailCall, storeVars
<1>2. ASSUME NEW k, call' = [call EXCEPT ![c] = k],
             k = NoCall \/ CallExact(k, entries[k.e].status, held[k.e])
      PROVE  RaceInv'
  <2>1. CallsExact'
    BY <1>0, <1>1, <1>2 DEF RaceInv, CallsExact
  <2> QED BY <1>1, <2>1 DEF RaceInv, TickExact, Rows
<1>3. ASSUME NEW e \in Rows, ContextDeprecate(c, e) PROVE RaceInv'
  <2> DEFINE k == [kind |-> "deprecate", e |-> e, step |-> "read", target |-> "Deprecated",
                   preQ |-> "none"]
  <2>1. call' = [call EXCEPT ![c] = k]
    BY <1>3 DEF ContextDeprecate, Begin
  <2>2. CallExact(k, entries[k.e].status, held[k.e])
    BY DEF CallExact
  <2> QED BY <1>2, <2>1, <2>2
<1>4. ASSUME NEW e \in Rows, ContextQuarantine(c, e) PROVE RaceInv'
  <2> DEFINE k == [kind |-> "quarantine", e |-> e, step |-> "read", target |-> "Quarantined",
                   preQ |-> "none"]
  <2>1. call' = [call EXCEPT ![c] = k] /\ entries[e].status # "Quarantined"
    BY <1>4 DEF ContextQuarantine, Begin, StatusOf
  <2>2. CallExact(k, entries[k.e].status, held[k.e])
    BY <2>1 DEF CallExact
  <2> QED BY <1>2, <2>1, <2>2
<1>5. ASSUME NEW e \in Rows, ContextRestore(c, e) PROVE RaceInv'
  <2> DEFINE k == [kind |-> "restore", e |-> e, step |-> "target", target |-> "Active",
                   preQ |-> "none"]
  <2>1. call' = [call EXCEPT ![c] = k] /\ entries[e].status = "Quarantined"
    BY <1>5 DEF ContextRestore, Begin, StatusOf
  <2>2. CallExact(k, entries[k.e].status, held[k.e])
    BY <2>1 DEF CallExact
  <2> QED BY <1>2, <2>1, <2>2
<1>6. ASSUME ~Idle(c)
      PROVE  /\ call[c] # NoCall /\ call[c].kind \in CallKinds /\ call[c].e \in Rows
             /\ call[c] \in [kind: CallKinds, e: Ids, step: {"target", "read", "write"},
                             target: Status, preQ: Status \cup {"none"}]
             /\ CallExact(call[c], entries[call[c].e].status, held[call[c].e])
             /\ RowExact(entries[call[c].e], held[call[c].e])
             /\ call[c].kind = "quarantine" =>
                  call[c].step # "target" /\ call[c].target = "Quarantined"
  <2>1. /\ call[c] # NoCall /\ call[c].kind \in CallKinds /\ call[c].e \in Rows
        /\ call[c] \in [kind: CallKinds, e: Ids, step: {"target", "read", "write"},
                             target: Status, preQ: Status \cup {"none"}]
    BY <1>0, <1>6, CallFields DEF Idle, CallsNameRows
  <2> QED BY <1>0, <1>6, <2>1 DEF RaceInv, CallsExact, QuarantineCallsQuarantine
<1>7. CASE ReadRestoreTarget(c)
  <2> DEFINE old == call[c]
             k == [old EXCEPT !.step = "read", !.target = RestoreTarget(old.e)]
  <2>1. ~Idle(c) /\ call' = [call EXCEPT ![c] = k] /\ old.step = "target"
    BY <1>7 DEF ReadRestoreTarget
  <2>2. /\ k.e = old.e /\ k.kind = old.kind /\ k.step = "read"
        /\ k.target = RestoreTarget(old.e) /\ old.kind = "restore"
    BY <1>6, <2>1 DEF CallExact, CallKinds
  <2>3. CallExact(k, entries[k.e].status, held[k.e])
    BY <1>6, <2>1, <2>2 DEF CallExact, RowExact, RestoreTarget
  <2> HIDE DEF k
  <2> QED BY <1>2, <2>1, <2>3
<1>8. CASE ReadCurrent(c)
  <2> DEFINE old == call[c]
             q == PreQuarantine(old.target, entries[old.e].status)
             k == [old EXCEPT !.step = "write", !.preQ = q]
  <2>1. /\ ~Idle(c) /\ old.step = "read"
        /\ call' = [call EXCEPT ![c] = NoCall] \/ call' = [call EXCEPT ![c] = k]
    BY <1>8 DEF ReadCurrent, StatusOf
  <2>2. /\ k.e = old.e /\ k.kind = old.kind /\ k.step = "write"
        /\ k.target = old.target /\ k.preQ = q
    BY <1>6, <2>1
  <2>3. CallExact(k, entries[k.e].status, held[k.e])
    BY <1>6, <2>1, <2>2 DEF CallExact, PreQuarantine
  <2> HIDE DEF k
  <2> QED BY <1>2, <2>1, <2>3
<1>9. CASE FailCall(c)
  BY <1>2, <1>9 DEF FailCall
<1> QED BY <1>3, <1>4, <1>5, <1>7, <1>8, <1>9 DEF CallStep

\* The write of a call: the status it read is the status it replaces.
LEMMA RaceCallWrite ==
    ASSUME LifecycleInv, RaceInv, TypeOK', NEW c \in Calls, WriteStatus(c)
    PROVE  RaceInv'
<1> DEFINE e == call[c].e
           s == call[c].target
           o == Overtakes(call[c].e, {c})
           row == [entries[e] EXCEPT !.status = s, !.preQ = call[c].preQ]
<1>0. TypeOK /\ CallsNameRows /\ QuarantineCallsQuarantine /\ StoreTypeOK
      /\ entries \in [Ids -> EntryRow \cup {NoRow}] /\ call \in [Calls -> CallState]
  BY DEF LifecycleInv, TypeOK, StoreTypeOK
<1>1. /\ ~Idle(c) /\ call[c] # NoCall /\ call[c].step = "write" /\ UpdateStatusExtended(e, s, call[c].preQ)
      /\ Remember(e, s, o) /\ call' = [call EXCEPT ![c] = NoCall] /\ UNCHANGED tick
  BY DEF WriteStatus, Idle
<1>2. /\ e \in Rows /\ e \in Ids /\ s \in Status /\ call[c].preQ \in Status \cup {"none"}
      /\ call[c].kind \in CallKinds
  BY <1>0, <1>1, CallFields DEF CallsNameRows
<1>3. entries' = [entries EXCEPT ![e] = row]
  BY <1>1 DEF UpdateStatusExtended
<1>4. o \in BOOLEAN
  BY DEF Overtakes
<1>5. entries[e] \in EntryRow
  BY <1>0, <1>2, RowIsEntryRow
<1>6. entries'[e] = row /\ row.status = s /\ row.preQ = call[c].preQ
      /\ row.supersededBy = entries[e].supersededBy /\ entries[e].status \in Status
  BY <1>0, <1>2, <1>3, <1>5 DEF EntryRow
<1>7. \A i \in Ids \ {e} : entries'[i] = entries[i]
  BY <1>0, <1>2, <1>3
<1>8. /\ CallExact(call[c], entries[e].status, held[e])
      /\ RowExact(entries[e], held[e])
      /\ call[c].kind = "quarantine" => s = "Quarantined"
  BY <1>0, <1>1, <1>2 DEF RaceInv, CallsExact, QuarantineCallsQuarantine
<1>9. /\ held[e] = "raced" \/ o => held'[e] = "raced"
      /\ held'[e] # "raced" =>
           held'[e] = IF s # "Quarantined" THEN "none"
                      ELSE IF entries[e].status = "Quarantined" THEN held[e]
                      ELSE entries[e].status
  BY <1>0, <1>1, <1>2, <1>4, RememberEffect
<1>10. held[e] # "Quarantined"
  BY <1>2 DEF RaceInv
<1>11. Rows' = Rows
  <2>1. row \in EntryRow
    BY <1>2, <1>5 DEF EntryRow
  <2>2. row # NoRow /\ entries[e] # NoRow /\ entries'[e] = row
    BY <1>5, <1>6, <2>1, RowIsNotNoRow
  <2> HIDE DEF row, e
  <2> QED BY <1>2, <1>7, <2>2 DEF Rows
<1>12. \A d \in Calls : call'[d] = IF d = c THEN NoCall ELSE call[d]
  BY <1>0, <1>1
<1>13. \A d \in Calls : call'[d] # NoCall /\ call[d].e = e => o
  BY <1>12 DEF Overtakes, InFlight, Idle
<1>14. tick'.ids = tick.ids /\ (e \in tick'.ids => o)
  BY <1>1 DEF Overtakes
<1> HIDE DEF e, s, o, row
<1>15. RowExact(entries'[e], held'[e])
  <2>1. CASE s # "Quarantined"
    BY <1>1, <1>2, <1>6, <1>8, <1>9, <2>1 DEF RowExact, CallExact, CallKinds, s
  <2>2. CASE s = "Quarantined"
    BY <1>1, <1>2, <1>6, <1>8, <1>9, <1>10, <2>2 DEF RowExact, CallExact, CallKinds, s, Status
  <2> QED BY <2>1, <2>2
<1>16. \A i \in Rows \ {e} : entries'[i] = entries[i]
  BY <1>7 DEF Rows
<1> QED BY <1>1, <1>2, <1>4, <1>11, <1>12, <1>13, <1>14, <1>15, <1>16, RaceWrite

\* The writes of the tick: what it collected is still Active.
LEMMA RaceTickWrite ==
    ASSUME LifecycleInv, RaceInv, TypeOK', NEW e \in tick.ids, NEW s \in Status,
           s = "Quarantined" \/ s = "Deprecated", UpdateStatus(e, s),
           Remember(e, s, InFlight(e) # {}), UNCHANGED call, tick'.ids = tick.ids \ {e}
    PROVE  RaceInv'
<1> DEFINE o == InFlight(e) # {}
           row == [entries[e] EXCEPT !.status = s]
<1>0. TypeOK /\ StoreTypeOK /\ entries \in [Ids -> EntryRow \cup {NoRow}]
  BY DEF LifecycleInv, TypeOK, StoreTypeOK
<1>1. e \in Rows /\ e \in Ids /\ entries' = [entries EXCEPT ![e] = row]
  BY DEF UpdateStatus, Rows
<1>2. entries[e] \in EntryRow /\ row \in EntryRow
  BY <1>0, <1>1, RowIsEntryRow DEF EntryRow
<1>3. /\ entries'[e] = row /\ row.status = s /\ row.preQ = entries[e].preQ
      /\ row.supersededBy = entries[e].supersededBy /\ entries[e].status \in Status
  BY <1>0, <1>1, <1>2 DEF EntryRow
<1>4. \A i \in Ids \ {e} : entries'[i] = entries[i]
  BY <1>0, <1>1
<1>5. Rows' = Rows
  <2> HIDE DEF row
  <2>1. entries'[e] # NoRow /\ entries[e] # NoRow
    BY <1>1, <1>2, <1>3, RowIsNotNoRow
  <2> QED BY <1>1, <1>4, <2>1 DEF Rows
<1>6. /\ RowExact(entries[e], held[e])
      /\ held[e] # "raced" => entries[e].status = "Active"
  BY <1>1 DEF RaceInv, TickExact
<1>7. o \in BOOLEAN
  OBVIOUS
<1>8. \A d \in Calls : call'[d] # NoCall /\ call[d].e = e => o
  BY DEF InFlight, Idle
<1>9. /\ held[e] = "raced" \/ o => held'[e] = "raced"
      /\ held'[e] # "raced" =>
           held'[e] = IF s # "Quarantined" THEN "none"
                      ELSE IF entries[e].status = "Quarantined" THEN held[e]
                      ELSE entries[e].status
  BY <1>0, <1>1, <1>7, RememberEffect
<1> HIDE DEF row
<1>10. RowExact(entries'[e], held'[e])
  BY <1>3, <1>6, <1>9 DEF RowExact
<1>11. \A i \in Rows \ {e} : entries'[i] = entries[i]
  BY <1>4 DEF Rows
<1> QED BY <1>1, <1>5, <1>7, <1>8, <1>10, <1>11, RaceWrite

\* The steps of the tick that do not write: its ids are Active when collected.
LEMMA RaceTickRead ==
    ASSUME LifecycleInv, RaceInv, UNCHANGED <<entries, call, held>>,
           tick'.ids \subseteq tick.ids \cup ActiveIds
    PROVE  RaceInv'
<1>1. TickExact'
  BY DEF RaceInv, TickExact, ActiveIds, WithStatus
<1> QED BY <1>1 DEF RaceInv, CallsExact, Rows

\* A new entry is exact, whatever the history says.
LEMMA RaceStore ==
    ASSUME LifecycleInv, RaceInv, NextIdFresh, NEW b \in Contents, ContextStore(b)
    PROVE  RaceInv'
<1>0. StoreTypeOK /\ entries \in [Ids -> EntryRow \cup {NoRow}] /\ CallsNameRows
  BY DEF LifecycleInv, TypeOK, StoreTypeOK
<1>1. Insert(b, "Active") /\ UNCHANGED <<call, tick, held>>
  BY DEF ContextStore, lifecycleVars
<1>2. /\ nextId \in Ids /\ entries[nextId] = NoRow /\ nextId \notin Rows
      /\ entries' = [entries EXCEPT ![nextId] = FreshRow(b, "Active")]
  BY <1>0, <1>1, NextIdHasNoRow DEF Insert, Rows
<1>3. entries'[nextId] = FreshRow(b, "Active") /\ \A i \in Ids \ {nextId} : entries'[i] = entries[i]
  BY <1>0, <1>2
<1>4. ASSUME NEW x \in Rows' PROVE RowExact(entries'[x], held'[x])
  <2>1. RowExact(FreshRow(b, "Active"), held[nextId])
    BY DEF RowExact, FreshRow
  <2>2. CASE x = nextId
    BY <1>1, <1>3, <2>1, <2>2
  <2>3. CASE x # nextId
    <3>1. x \in Rows /\ entries'[x] = entries[x]
      BY <1>3, <2>3 DEF Rows
    <3> QED BY <1>1, <3>1 DEF RaceInv
  <2> QED BY <2>2, <2>3
<1>5. \A x \in Rows : entries'[x] = entries[x]
  BY <1>2, <1>3 DEF Rows
<1>6. CallsExact'
  BY <1>0, <1>1, <1>5 DEF RaceInv, CallsExact, CallsNameRows, Idle
<1>7. TickExact'
  <2> SUFFICES ASSUME NEW x \in tick.ids, held[x] # "raced" PROVE entries'[x].status = "Active"
    BY <1>1 DEF TickExact
  <2>1. entries[x].status = "Active" /\ x \in Ids
    BY DEF RaceInv, TickExact, LifecycleInv, TypeOK
  <2>2. x \in Rows
    BY <2>1 DEF Rows, NoRow
  <2> QED BY <1>5, <2>1, <2>2
<1> QED BY <1>1, <1>4, <1>6, <1>7 DEF RaceInv

\* A correction leaves its original Deprecated and brings in a fresh entry.
LEMMA RaceCorrect ==
    ASSUME LifecycleInv, RaceInv, NextIdFresh, TypeOK', NEW e \in Rows, NEW b \in Contents,
           ContextCorrect(e, b)
    PROVE  RaceInv'
<1> DEFINE old == entries[e]
           dep == [old EXCEPT !.status = "Deprecated", !.supersededBy = nextId,
                              !.corrections = @ + 1]
           new == [FreshRow(b, "Active") EXCEPT !.supersedes = e, !.prevHash = old.hash,
                                                !.version = old.version + 1]
           o == Overtakes(e, {})
<1>0. TypeOK /\ StoreTypeOK /\ entries \in [Ids -> EntryRow \cup {NoRow}] /\ e \in Ids
  BY DEF LifecycleInv, TypeOK, StoreTypeOK, Rows
<1>1. /\ NextEntryId /\ entries' = [entries EXCEPT ![e] = dep, ![nextId] = new]
      /\ old.status \notin {"Deprecated", "Quarantined"}
      /\ Remember(e, "Deprecated", o) /\ UNCHANGED <<call, tick>>
  BY DEF ContextCorrect, CorrectEntry, Correctable
<1>2. nextId \in Ids /\ entries[nextId] = NoRow /\ old \in EntryRow /\ nextId # e
  BY <1>0, <1>1, NextIdHasNoRow, RowIsEntryRow, RowIsNotNoRow
<1>3. dep.status = "Deprecated" /\ dep.preQ = old.preQ /\ old.status \in Status
  BY <1>2 DEF EntryRow
<1>4. new.status = "Active" /\ new.preQ = "none" /\ new.supersededBy = NULL
  BY DEF FreshRow
<1>5. o \in BOOLEAN /\ "Deprecated" \in Status
  BY DEF Overtakes, Status
<1>6. \A d \in Calls : call'[d] # NoCall /\ call[d].e = e => o
  BY <1>1 DEF Overtakes, InFlight, Idle
<1>7. tick'.ids = tick.ids /\ (e \in tick'.ids => o)
  BY <1>1 DEF Overtakes
<1> HIDE DEF dep, new, o
<1>8. /\ entries'[e] = dep /\ entries'[nextId] = new
      /\ \A i \in Ids \ {e, nextId} : entries'[i] = entries[i]
  BY <1>0, <1>1, <1>2
<1>9. \A h : RowExact(new, h)
  BY <1>4 DEF RowExact
<1>10. \A i \in Rows' \ Rows, h \in Status \cup {"none", "raced"} : RowExact(entries'[i], h)
  <2>1. \A i \in Rows' \ Rows : i = nextId
    BY <1>8 DEF Rows
  <2> QED BY <1>8, <1>9, <2>1
<1>11. RowExact(entries'[e], held'[e])
  <2>1. RowExact(old, held[e]) /\ (held[e] = "raced" => held'[e] = "raced")
    BY <1>0, <1>1, <1>5, RememberEffect DEF RaceInv
  <2> QED BY <1>1, <1>3, <1>8, <2>1 DEF RowExact
<1>12. \A i \in Rows \ {e} : entries'[i] = entries[i]
  BY <1>2, <1>8 DEF Rows
<1> QED BY <1>1, <1>5, <1>6, <1>7, <1>10, <1>11, <1>12, RaceWrite

\* Every step of the lifecycle keeps what was read exact, or marks the entry raced.
LEMMA RaceNext ==
    ASSUME LifecycleInv, RaceInv, NextIdFresh, [Next]_vars
    PROVE  RaceInv'
<1>0. TypeOK /\ TypeOK' /\ tick \in [step: {"idle", "quarantine", "migrate"}, ids: SUBSET Ids]
  BY LifecycleInvNext DEF LifecycleInv, TypeOK
<1>1. ASSUME NEW e \in tick.ids, AutoQuarantine(e) PROVE RaceInv'
  BY <1>0, <1>1, RaceTickWrite DEF AutoQuarantine, TickStep, Status
<1>2. ASSUME NEW e \in tick.ids, MigrateOne(e) PROVE RaceInv'
  BY <1>0, <1>2, RaceTickWrite DEF MigrateOne, TickStep, Status
<1>3. ASSUME NEW bad \in SUBSET ActiveIds, TickClassify(bad) PROVE RaceInv'
  BY <1>3, RaceTickRead DEF TickClassify, TickStep, storeVars
<1>4. CASE TickNoReport \/ TickMigrationSkipped \/ MigrationDone
  BY <1>4, RaceTickRead
     DEF TickNoReport, TickMigrationSkipped, MigrationDone, TickStep, storeVars
<1>5. CASE TickMigrationQuery
  BY <1>5, RaceTickRead DEF TickMigrationQuery, TickStep, storeVars
<1>6. ASSUME NEW e \in tick.ids, AutoQuarantineFails(e) \/ MigrateOneFails(e) PROVE RaceInv'
  BY <1>6, RaceTickRead DEF AutoQuarantineFails, MigrateOneFails, TickStep, storeVars
<1>7. CASE TickNext
  BY <1>1, <1>2, <1>3, <1>4, <1>5, <1>6, <1>7 DEF TickNext
<1>8. CASE \E c \in Calls : CallStep(c)
  BY <1>0, <1>8, RaceCallRead, RaceCallWrite
<1>9. CASE UNCHANGED vars
  BY <1>9 DEF vars, storeVars, lifecycleVars, RaceInv, CallsExact, TickExact, Rows
<1>10. CASE \E e \in Rows, b \in Contents : ContextCorrect(e, b)
  BY <1>0, <1>10, RaceCorrect
<1> QED BY <1>7, <1>8, <1>9, <1>10, RaceStore DEF Next

\* What is read of an entry stays exact until two of its changes overlap.
LEMMA RaceInvariant == Spec => []RaceInv
<1>1. Init => RaceInv
  BY DEF Init, StoreInit, RaceInv, CallsExact, TickExact, Rows
<1>2. Spec => []NextIdFresh
  BY LifecycleImplementsStore, StoreNextIdFresh, PTL
<1>3. LifecycleInv /\ RaceInv /\ NextIdFresh /\ [Next]_vars => RaceInv'
  BY RaceNext
<1> QED BY <1>1, <1>2, <1>3, LifecycleInvariant, PTL DEF Spec

\* A restore returns an entry to the status it was quarantined from, whoever
\* quarantined it, unless two changes of that entry have overlapped.
THEOREM LifecyclePreQuarantineExact == Spec => []PreQuarantineExact
<1>1. RaceInv => PreQuarantineExact
  BY DEF RaceInv, RowExact, PreQuarantineExact, StatusOf, RestoreTarget
<1> QED BY <1>1, RaceInvariant, PTL

\* A corrected entry never becomes Active again, with the same exception.
THEOREM LifecycleSupersededRetired == Spec => []SupersededRetired
<1>1. RaceInv => SupersededRetired
  BY DEF RaceInv, RowExact, SupersededRetired, StatusOf
<1> QED BY <1>1, RaceInvariant, PTL
=============================================================================
