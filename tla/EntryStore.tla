----------------------------- MODULE EntryStore -----------------------------
(***************************************************************************)
(* The ENTRIES table and the per-status rows of the COUNTERS table of      *)
(* unimatrix-store (write.rs, write_ext.rs, counters.rs).  Every operation *)
(* of the store runs in one transaction on the single write connection,    *)
(* so each is one action.  Titles, topics and usage columns are left out;  *)
(* the columns kept are those of the correction chain and the lifecycle.   *)
(***************************************************************************)
EXTENDS Integers, FiniteSets

CONSTANTS
    Contents,   \* what an entry says: the (title, content) pairs
    MaxId       \* bound: the store hands out the entry ids 1..MaxId

ASSUME MaxIdAssumption == MaxId \in Nat

VARIABLES
    entries,    \* the row of each id, NoRow when the table has none
    counters,   \* total_active, total_deprecated, total_proposed, total_quarantined
    nextId      \* one above the value of the counter next_entry_id

storeVars == <<entries, counters, nextId>>

Ids == 1..MaxId
NULL == 0                      \* a NULL in supersedes or superseded_by
Status == {"Active", "Deprecated", "Proposed", "Quarantined"}

\* compute_content_hash: SHA-256, taken to be injective on Contents.
Hash(c) == <<"sha256", c>>
NoHash == <<>>                 \* the empty string of a hash column
Hashes == {Hash(c) : c \in Contents} \cup {NoHash}

EntryRow == [status: Status, preQ: Status \cup {"none"}, content: Contents,
             supersedes: Ids \cup {NULL}, supersededBy: Ids \cup {NULL},
             corrections: Nat, hash: Hashes, prevHash: Hashes, version: Nat]

NoRow == [status |-> "Absent"]

Rows == {i \in Ids : entries[i] # NoRow}

\* The row that insert writes for a new entry.
FreshRow(c, s) ==
    [status |-> s, preQ |-> "none", content |-> c,
     supersedes |-> NULL, supersededBy |-> NULL, corrections |-> 0,
     hash |-> Hash(c), prevHash |-> NoHash, version |-> 1]
-----------------------------------------------------------------------------
(* counters.rs *)

Increment(ctr, s) == [ctr EXCEPT ![s] = @ + 1]

\* Mutant: the decrement neither saturates nor stops at one.
DecrementTwice(ctr, s) == [ctr EXCEPT ![s] = @ - 2]

\* Decrement saturates at zero.
Decrement(ctr, s) == [ctr EXCEPT ![s] = IF @ = 0 THEN 0 ELSE @ - 1]

\* Allocates an id; never gives one out twice, deleted or not.
NextEntryId ==
    /\ nextId <= MaxId
    /\ nextId' = nextId + 1
-----------------------------------------------------------------------------
(* write.rs *)

Insert(c, s) ==
    /\ NextEntryId
    /\ entries' = [entries EXCEPT ![nextId] = FreshRow(c, s)]
    /\ counters' = Increment(counters, s)

\* The whole-record write: every column but pre_quarantine_status.  The
\* counters move only when the status does.
Update(e, row) ==
    /\ e \in Rows
    /\ entries' = [entries EXCEPT ![e] = [row EXCEPT !.preQ = entries[e].preQ]]
    /\ counters' = IF row.status = entries[e].status THEN counters
                   ELSE Increment(Decrement(counters, entries[e].status), row.status)
    /\ UNCHANGED nextId

\* Mutant: the counter of the old status is not decremented.
UpdateStatusNoDecrement(e, s) ==
    /\ e \in Rows
    /\ entries' = [entries EXCEPT ![e].status = s]
    /\ counters' = Increment(counters, s)
    /\ UNCHANGED nextId

\* Status only: pre_quarantine_status keeps whatever it held.
UpdateStatus(e, s) ==
    /\ e \in Rows
    /\ entries' = [entries EXCEPT ![e].status = s]
    /\ counters' = Increment(Decrement(counters, entries[e].status), s)
    /\ UNCHANGED nextId

\* Mutant: the id of a deleted entry becomes available again.
DeleteRecyclesId(e) ==
    /\ e \in Rows
    /\ entries' = [entries EXCEPT ![e] = NoRow]
    /\ counters' = Decrement(counters, entries[e].status)
    /\ nextId' = e

Delete(e) ==
    /\ e \in Rows
    /\ entries' = [entries EXCEPT ![e] = NoRow]
    /\ counters' = Decrement(counters, entries[e].status)
    /\ UNCHANGED nextId
-----------------------------------------------------------------------------
(* write_ext.rs *)

\* Status and pre_quarantine_status together (quarantine, restore, deprecate).
UpdateStatusExtended(e, s, preQ) ==
    /\ e \in Rows
    /\ entries' = [entries EXCEPT ![e].status = s, ![e].preQ = preQ]
    /\ counters' = Increment(Decrement(counters, entries[e].status), s)
    /\ UNCHANGED nextId

\* Mutant: quarantined entries may be corrected.
CorrectableQuarantined(e) ==
    /\ e \in Rows
    /\ entries[e].status # "Deprecated"
    /\ entries[e].hash # NoHash

\* What correct_entry rejects, inside its own transaction.
Correctable(e) ==
    /\ e \in Rows
    /\ entries[e].status \notin {"Deprecated", "Quarantined"}
    /\ entries[e].hash # NoHash

\* Mutant: the correction chains onto its own hash and keeps the version.
CorrectEntrySelfChained(e, c, s) ==
    LET old == entries[e]
        new == [FreshRow(c, s) EXCEPT !.supersedes = e, !.prevHash = Hash(c),
                                      !.version = old.version]
    IN  /\ Correctable(e)
        /\ NextEntryId
        /\ entries' = [entries EXCEPT
                         ![e] = [old EXCEPT !.status = "Deprecated",
                                            !.supersededBy = nextId,
                                            !.corrections = @ + 1],
                         ![nextId] = new]
        /\ counters' = Increment(Increment(Decrement(counters, old.status),
                                           "Deprecated"), s)

\* Mutant: the correction does not name the entry it supersedes.
CorrectEntryUnlinked(e, c, s) ==
    LET old == entries[e]
        new == [FreshRow(c, s) EXCEPT !.prevHash = old.hash, !.version = old.version + 1]
    IN  /\ Correctable(e)
        /\ NextEntryId
        /\ entries' = [entries EXCEPT
                         ![e] = [old EXCEPT !.status = "Deprecated",
                                            !.supersededBy = nextId,
                                            !.corrections = @ + 1],
                         ![nextId] = new]
        /\ counters' = Increment(Increment(Decrement(counters, old.status),
                                           "Deprecated"), s)

\* The original is deprecated and linked to the correction, which chains onto
\* its hash and version.
CorrectEntry(e, c, s) ==
    LET old == entries[e]
        new == [FreshRow(c, s) EXCEPT !.supersedes = e, !.prevHash = old.hash,
                                      !.version = old.version + 1]
    IN  /\ Correctable(e)
        /\ NextEntryId
        /\ entries' = [entries EXCEPT
                         ![e] = [old EXCEPT !.status = "Deprecated",
                                            !.supersededBy = nextId,
                                            !.corrections = @ + 1],
                         ![nextId] = new]
        /\ counters' = Increment(Increment(Decrement(counters, old.status),
                                           "Deprecated"), s)
-----------------------------------------------------------------------------
StoreInit ==
    /\ entries = [i \in Ids |-> NoRow]
    /\ counters = [s \in Status |-> 0]
    /\ nextId = 1

StoreTypeOK ==
    /\ entries \in [Ids -> EntryRow \cup {NoRow}]
    /\ counters \in [Status -> Nat]
    /\ nextId \in 1..(MaxId + 1)

\* The ids in the table whose row has status s.
WithStatus(s) == {i \in Ids : entries[i].status = s}

(***************************************************************************)
(* The counters that context_status reports agree with the table: however  *)
(* inserts, corrections, status changes and deletes follow each other, the *)
(* counter of a status is the number of rows in that status.  In           *)
(* particular no decrement ever saturates.                                 *)
(***************************************************************************)
CountersExact ==
    \A s \in Status : counters[s] = Cardinality(WithStatus(s))

(***************************************************************************)
(* verify_entries (chain_verify.rs): the integrity check of a corpus.  A   *)
(* row violates it when its hash is not that of its content, or when a     *)
(* non-empty previous_hash has no predecessor row with that hash.          *)
(***************************************************************************)
ChainViolations ==
    {e \in Rows :
        LET row == entries[e] IN
        \/ row.hash # Hash(row.content)
        \/ /\ row.prevHash # NoHash
           /\ \/ row.supersedes = NULL
              \/ row.supersedes \notin Rows
              \/ entries[row.supersedes].hash # row.prevHash}

(***************************************************************************)
(* The next id is new: no row has it, and no superseded_by link, which may *)
(* outlive the row it names, mentions it (next_entry_id).                  *)
(***************************************************************************)
NextIdFresh ==
    \A e \in Rows : e < nextId /\ entries[e].supersededBy < nextId

(***************************************************************************)
(* A superseded_by link never comes to name an unrelated entry: while the  *)
(* named row is in the table it is the correction that supersedes this     *)
(* one, whatever was deleted and inserted since (next_entry_id gives no id *)
(* out again).                                                             *)
(***************************************************************************)
SuccessorLinksBack ==
    \A e \in Rows : LET n == entries[e].supersededBy IN
        n \in Rows => n > e /\ entries[n].supersedes = e
-----------------------------------------------------------------------------
(* The store on its own: its operations in any order, with any arguments.  *)
(* The record passed to update is the row as it is, with content, status   *)
(* or hash changed; its hash need not be that of its content.  The only    *)
(* caller in the server, the lesson-learned job of mcp/tools.rs, reads the *)
(* row, sets its link and writes it back without a transaction; a row that *)
(* was changed in between, or a link set this way, is not in the model.    *)

StoreNext ==
    \/ \E c \in Contents, s \in Status : Insert(c, s)
    \/ \E e \in Ids, c \in Contents, s \in Status : CorrectEntry(e, c, s)
    \/ \E e \in Rows, c \in Contents, s \in Status, h \in Hashes :
          Update(e, [entries[e] EXCEPT !.content = c, !.status = s, !.hash = h])
    \/ \E e \in Ids, s \in Status : UpdateStatus(e, s)
    \/ \E e \in Ids, s \in Status, q \in Status \cup {"none"} : UpdateStatusExtended(e, s, q)
    \/ \E e \in Ids : Delete(e)

StoreSpec == StoreInit /\ [][StoreNext]_storeVars
=============================================================================
