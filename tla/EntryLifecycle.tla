--------------------------- MODULE EntryLifecycle ---------------------------
(***************************************************************************)
(* The lifecycle of a knowledge entry as the server drives it: the MCP     *)
(* tools context_store, context_correct, context_deprecate and             *)
(* context_quarantine (quarantine and restore), called concurrently by     *)
(* several sessions, and the background tick, which quarantines entries    *)
(* that stay ineffective and runs the one-shot dead-knowledge migration.   *)
(*                                                                         *)
(* A status change is not one transaction: the tool reads the entry,       *)
(* change_status_with_audit reads it again, and only then does             *)
(* update_entry_status_extended write.  The tick likewise acts on a        *)
(* snapshot.  Those gaps are where the calls interleave here.              *)
(***************************************************************************)
EXTENDS EntryStore

CONSTANTS
    Calls,              \* the status-change calls that may be in flight at once
    BadCycleLimit,      \* auto_quarantine_cycles: 0 turns auto-quarantine off
    DeadKnowledge,      \* ids of the entries tagged dead-knowledge
    MaxTicks            \* bound: background ticks in a behaviour

ASSUME LifecycleAssumption ==
    /\ BadCycleLimit \in Nat
    /\ MaxTicks \in Nat
    /\ DeadKnowledge \subseteq Ids

VARIABLES
    call,       \* what each call in flight has read so far
    tick,       \* the background tick: its step and the ids it still has to treat
    badCycles,  \* EffectivenessState.consecutive_bad_cycles, 0 for no entry
    ticks,      \* number of ticks started
    held        \* history: the status each quarantined entry was taken from, or
                \* "raced" once a write to the entry has overtaken another one

lifecycleVars == <<call, tick, badCycles, ticks, held>>
vars == <<storeVars, lifecycleVars>>

NoCall == [kind |-> "idle"]
CallKinds == {"deprecate", "quarantine", "restore"}

Idle(c) == call[c] = NoCall
StatusOf(e) == entries[e].status

\* The calls in flight about e.
InFlight(e) == {c \in Calls : ~Idle(c) /\ call[c].e = e}

\* Will somebody else than the calls in C still write e from what is read by now?
Overtakes(e, C) == InFlight(e) \ C # {} \/ e \in tick.ids

\* The history variable: remembers the status e leaves when it is quarantined,
\* until it leaves quarantine.
Remember(e, s, overtakes) ==
    held' = [held EXCEPT ![e] = IF @ = "raced" \/ overtakes THEN "raced"
                                ELSE IF s # "Quarantined" THEN "none"
                                ELSE IF StatusOf(e) = "Quarantined" THEN @
                                ELSE StatusOf(e)]
-----------------------------------------------------------------------------
(* Storing and correcting: one transaction each. *)

ContextStore(c) ==
    /\ Insert(c, "Active")
    /\ UNCHANGED lifecycleVars

\* The tool reads the original first, for the fields the correction inherits;
\* the status check that counts is the one inside correct_entry.
ContextCorrect(e, c) ==
    /\ CorrectEntry(e, c, "Active")
    /\ Remember(e, "Deprecated", Overtakes(e, {}))
    /\ UNCHANGED <<call, tick, badCycles, ticks>>
-----------------------------------------------------------------------------
(* Status changes: check, read, write. *)

Begin(c, kind, e, step, target) ==
    /\ Idle(c)
    /\ e \in Rows
    /\ call' = [call EXCEPT ![c] = [kind |-> kind, e |-> e, step |-> step,
                                    target |-> target, preQ |-> "none"]]
    /\ UNCHANGED <<storeVars, tick, badCycles, ticks, held>>

\* context_deprecate returns at once for an entry it reads as Deprecated.
ContextDeprecate(c, e) ==
    /\ StatusOf(e) # "Deprecated"
    /\ Begin(c, "deprecate", e, "read", "Deprecated")

\* context_quarantine returns at once for an entry it reads as Quarantined.
ContextQuarantine(c, e) ==
    /\ StatusOf(e) # "Quarantined"
    /\ Begin(c, "quarantine", e, "read", "Quarantined")

\* The restore action is an error for an entry that is not Quarantined.
ContextRestore(c, e) ==
    /\ StatusOf(e) = "Quarantined"
    /\ Begin(c, "restore", e, "target", "Active")

\* Mutant: no fallback to Active for a NULL pre_quarantine_status.
RestoreTargetNoFallback(e) == entries[e].preQ

\* Where restore_with_audit sends an entry, from the row as it is now.
RestoreTarget(e) ==
    IF entries[e].preQ = "none" THEN "Active" ELSE entries[e].preQ

\* restore_with_audit: the second read, of pre_quarantine_status.
ReadRestoreTarget(c) ==
    /\ ~Idle(c)
    /\ call[c].step = "target"
    /\ call' = [call EXCEPT ![c].step = "read", ![c].target = RestoreTarget(call[c].e)]
    /\ UNCHANGED <<storeVars, tick, badCycles, ticks, held>>

\* Mutant: the status to restore is always Active.
PreQuarantineActive(target, current) ==
    IF target = "Quarantined" THEN "Active" ELSE "none"

\* pre_q_value: the current status when quarantining, NULL otherwise.
PreQuarantine(target, current) ==
    IF target = "Quarantined" THEN current ELSE "none"

\* change_status_with_audit: the read that decides whether there is anything
\* to do and which pre_quarantine_status will be written.
ReadCurrent(c) ==
    /\ ~Idle(c)
    /\ call[c].step = "read"
    /\ LET current == StatusOf(call[c].e)
           target == call[c].target IN
       call' = [call EXCEPT ![c] =
                  IF target = "Deprecated" /\ current = "Deprecated" THEN NoCall
                  ELSE [@ EXCEPT !.step = "write",
                                 !.preQ = PreQuarantine(target, current)]]
    /\ UNCHANGED <<storeVars, tick, badCycles, ticks, held>>

\* update_entry_status_extended.
WriteStatus(c) ==
    /\ ~Idle(c)
    /\ call[c].step = "write"
    /\ UpdateStatusExtended(call[c].e, call[c].target, call[c].preQ)
    /\ Remember(call[c].e, call[c].target, Overtakes(call[c].e, {c}))
    /\ call' = [call EXCEPT ![c] = NoCall]
    /\ UNCHANGED <<tick, badCycles, ticks>>

\* A read or the write fails (pool timeout, session cancelled): nothing is
\* written and the call ends.
FailCall(c) ==
    /\ ~Idle(c)
    /\ call' = [call EXCEPT ![c] = NoCall]
    /\ UNCHANGED <<storeVars, tick, badCycles, ticks, held>>
-----------------------------------------------------------------------------
(* The background tick (maintenance_tick). *)

TickStep(step, ids) == tick' = [step |-> step, ids |-> ids]

ActiveIds == WithStatus("Active")

\* Steps 1-8: load the snapshot, count the consecutive bad classifications of
\* the Active entries (bad: Ineffective or Noisy) and collect those that
\* reached the limit.  A tick whose load fails does nothing.
TickClassify(bad) ==
    /\ tick.step = "idle"
    /\ ticks < MaxTicks
    /\ ticks' = ticks + 1
    /\ badCycles' = [i \in Ids |-> IF i \in bad THEN badCycles[i] + 1 ELSE 0]
    /\ TickStep("quarantine",
                {i \in bad : BadCycleLimit > 0 /\ badCycles'[i] >= BadCycleLimit})
    /\ UNCHANGED <<storeVars, call, held>>

\* The snapshot has no effectiveness report: the counts are held as they are.
TickNoReport ==
    /\ tick.step = "idle"
    /\ ticks < MaxTicks
    /\ ticks' = ticks + 1
    /\ TickStep("quarantine", {})
    /\ UNCHANGED <<storeVars, call, badCycles, held>>

\* process_auto_quarantine, one candidate: update_status whatever the status
\* is by now, and reset the entry's counter.
AutoQuarantine(e) ==
    /\ tick.step = "quarantine"
    /\ e \in tick.ids
    /\ UpdateStatus(e, "Quarantined")
    /\ Remember(e, "Quarantined", InFlight(e) # {})
    /\ badCycles' = [badCycles EXCEPT ![e] = 0]
    /\ TickStep("quarantine", tick.ids \ {e})
    /\ UNCHANGED <<call, ticks>>

\* The write failed: the candidate is skipped and keeps its count.
AutoQuarantineFails(e) ==
    /\ tick.step = "quarantine"
    /\ e \in tick.ids
    /\ TickStep("quarantine", tick.ids \ {e})
    /\ UNCHANGED <<storeVars, call, badCycles, ticks, held>>

\* run_dead_knowledge_migration_v1: read the Active entries with the tag,
\* unless the marker is set.  A marker that could not be written, or cannot be
\* read, counts as not set: the migration may run at any tick, and again, so
\* the marker itself is left out.
TickMigrationQuery ==
    /\ tick.step = "quarantine"
    /\ tick.ids = {}
    /\ TickStep("migrate", ActiveIds \cap DeadKnowledge)
    /\ UNCHANGED <<storeVars, call, badCycles, ticks, held>>

\* The marker is set, or the query fails.
TickMigrationSkipped ==
    /\ tick.step = "quarantine"
    /\ tick.ids = {}
    /\ TickStep("idle", {})
    /\ UNCHANGED <<storeVars, call, badCycles, ticks, held>>

MigrateOne(e) ==
    /\ tick.step = "migrate"
    /\ e \in tick.ids
    /\ UpdateStatus(e, "Deprecated")
    /\ Remember(e, "Deprecated", InFlight(e) # {})
    /\ TickStep("migrate", tick.ids \ {e})
    /\ UNCHANGED <<call, badCycles, ticks>>

\* The write failed; the migration goes on and will not come back to it.
MigrateOneFails(e) ==
    /\ tick.step = "migrate"
    /\ e \in tick.ids
    /\ TickStep("migrate", tick.ids \ {e})
    /\ UNCHANGED <<storeVars, call, badCycles, ticks, held>>

\* The marker is written, or the write fails.
MigrationDone ==
    /\ tick.step = "migrate"
    /\ tick.ids = {}
    /\ TickStep("idle", {})
    /\ UNCHANGED <<storeVars, call, badCycles, ticks, held>>
-----------------------------------------------------------------------------
Init ==
    /\ StoreInit
    /\ call = [c \in Calls |-> NoCall]
    /\ tick = [step |-> "idle", ids |-> {}]
    /\ badCycles = [i \in Ids |-> 0]
    /\ ticks = 0
    /\ held = [i \in Ids |-> "none"]

CallStep(c) ==
    \/ \E e \in Rows : ContextDeprecate(c, e)
    \/ \E e \in Rows : ContextQuarantine(c, e)
    \/ \E e \in Rows : ContextRestore(c, e)
    \/ ReadRestoreTarget(c)
    \/ ReadCurrent(c)
    \/ WriteStatus(c)
    \/ FailCall(c)

TickNext ==
    \/ \E bad \in SUBSET ActiveIds : TickClassify(bad)
    \/ TickNoReport
    \/ \E e \in tick.ids : AutoQuarantine(e)
    \/ \E e \in tick.ids : AutoQuarantineFails(e)
    \/ TickMigrationQuery
    \/ TickMigrationSkipped
    \/ \E e \in tick.ids : MigrateOne(e)
    \/ \E e \in tick.ids : MigrateOneFails(e)
    \/ MigrationDone

Next ==
    \/ \E c \in Contents : ContextStore(c)
    \/ \E e \in Rows, c \in Contents : ContextCorrect(e, c)
    \/ \E c \in Calls : CallStep(c)
    \/ TickNext

Spec == Init /\ [][Next]_vars
-----------------------------------------------------------------------------
CallState ==
    [kind: CallKinds, e: Ids, step: {"target", "read", "write"},
     target: Status, preQ: Status \cup {"none"}] \cup {NoCall}

\* The shape of the state.
TypeOK ==
    /\ StoreTypeOK
    /\ call \in [Calls -> CallState]
    /\ tick \in [step: {"idle", "quarantine", "migrate"}, ids: SUBSET Ids]
    /\ badCycles \in [Ids -> Nat]
    /\ ticks \in 0..MaxTicks
    /\ held \in [Ids -> Status \cup {"none", "raced"}]

(***************************************************************************)
(* unimatrix verify finds nothing: however corrections, status changes and *)
(* ticks interleave, every correction still carries the hash of the entry  *)
(* it supersedes, and no hash has drifted from its content.                *)
(***************************************************************************)
ChainClean == ChainViolations = {}

(***************************************************************************)
(* The chain can be followed both ways and counted: a correction is one    *)
(* version above its predecessor, correction_count is the number of        *)
(* corrections that were made of an entry, and superseded_by names the     *)
(* latest of them, also when a restored entry is corrected a second time.  *)
(***************************************************************************)
SuccessorsOf(e) == {n \in Rows : entries[n].supersedes = e}

CorrectionsTracked ==
    \A e \in Rows :
        /\ entries[e].corrections = Cardinality(SuccessorsOf(e))
        /\ \A n \in SuccessorsOf(e) : /\ entries[n].version = entries[e].version + 1
                                      /\ e < n /\ n <= entries[e].supersededBy
        /\ entries[e].supersededBy # NULL =>
              entries[e].supersededBy \in SuccessorsOf(e)

(***************************************************************************)
(* pre_quarantine_status is "the status this entry held before quarantine. *)
(* None when not quarantined" (schema.rs): a restore would return a        *)
(* quarantined entry to the status it was taken from, unless two changes   *)
(* of that very entry have overlapped: change_status_with_audit reads the  *)
(* status outside the transaction that writes it.                          *)
(***************************************************************************)
PreQuarantineExact ==
    \A e \in Rows : held[e] # "raced" =>
        IF StatusOf(e) = "Quarantined" THEN RestoreTarget(e) = held[e]
                                       ELSE entries[e].preQ = "none"

(***************************************************************************)
(* Once corrected, an entry stays out of the Active set, so that a         *)
(* supersession chain has one live version (correct_entry, restore), with  *)
(* the same exception.                                                     *)
(***************************************************************************)
SupersededRetired ==
    \A e \in Rows : held[e] # "raced" /\ entries[e].supersededBy # NULL =>
                        StatusOf(e) # "Active"

\* The step takes no entry out of quarantine but one it was asked to.
LeavesOnRequest ==
    \A e \in Ids :
        (StatusOf(e) = "Quarantined" /\ entries'[e].status # "Quarantined") =>
            \/ \E c \in Calls : /\ call[c] # NoCall /\ call'[c] = NoCall
                                /\ call[c].e = e
                                /\ call[c].kind \in {"restore", "deprecate"}
            \/ e \in tick.ids \cap DeadKnowledge /\ tick.step = "migrate"

(***************************************************************************)
(* Only somebody asking for it takes an entry out of quarantine: a restore *)
(* or deprecate call for that very entry, or the migration that had listed *)
(* it.  No correction and no auto-quarantine does.                         *)
(***************************************************************************)
QuarantineLeftOnRequest == [][LeavesOnRequest]_vars
=============================================================================
