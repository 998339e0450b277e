------------------------------ MODULE HookQueue ------------------------------
(***************************************************************************)
(* The hook client (uds/hook.rs) and its event queue on disk               *)
(* (event_queue.rs).  A hook is a short process: it connects to the        *)
(* server, replays what earlier hooks left in the queue and sends its own  *)
(* request; without a server it appends an event to a file of the queue.   *)
(* Hooks run concurrently and share the directory without any lock, they   *)
(* may be killed at any step, their calls on files may fail, and the       *)
(* server comes and goes.                                                  *)
(*                                                                         *)
(* A file is named by the millisecond of its creation and holds a text of  *)
(* events and line ends: writeln writes them one after the other.          *)
(***************************************************************************)
EXTENDS Integers, Sequences, SequencesExt, FiniteSets

CONSTANTS
    Hooks,        \* hook processes that may run at once
    MaxPerFile,   \* MAX_EVENTS_PER_FILE
    MaxFiles,     \* MAX_QUEUE_FILES
    PruneAge,     \* PRUNE_AGE, in steps of the clock
    MaxEvents,    \* bound: events, the one in the queue at the start included
    MaxClock,     \* bound: the last time
    MaxFaults     \* bound: hooks killed, failed calls on files, frames not read at once

ASSUME HookQueueAssumption ==
    /\ MaxPerFile \in Nat \ {0} /\ MaxFiles \in Nat \ {0}
    /\ PruneAge \in Nat /\ MaxFaults \in Nat
    /\ MaxEvents \in Nat \ {0} /\ MaxClock \in Nat \ {0}

VARIABLES
    files,      \* the queue directory: text and modification time by file name
    hook,       \* what each hook process is doing
    up,         \* the server answers
    clock,
    sent,       \* hooks with an event so far; the n-th carries event n
    faults,
    written,    \* the events hooks wrote to the socket, in this order
    wire,       \* events written that the server has still to read
    received,   \* history: events the server has read
    dropped,    \* history: events the server went down without reading
    queued,     \* history: events whose enqueue returned Ok
    before,     \* history: what was queued when the hook of an event began
    lost,       \* history: events the code has given up, or has overwritten
    disturbed   \* history: replays overlapped, one did not finish, or a file
                \* appeared behind its back

socket == <<wire, received, dropped>>
vars == <<files, hook, up, clock, sent, faults, written, socket, queued, before, lost,
          disturbed>>
history == <<written, socket, queued, before, lost>>

Events == 1..MaxEvents
Query == 0             \* a hook with a synchronous request: it never enqueues
NL == -1
Stub == -2             \* the first part of a line whose write was cut short
Torn == -3             \* the same, cut inside a character: no longer UTF-8
Token == Events \cup {NL, Stub, Torn}
Gone == -1             \* the file of a handle, once it has been unlinked
NoHook == [step |-> "idle"]

Names == DOMAIN files
EventsIn(text) == ToSet(text) \cap Events

\* read_to_string fails.
Damaged(text) == Torn \in ToSet(text)

\* Numbers in ascending order: the k-th one has k - 1 others below it.
Ascending(S) ==
    [k \in 1..Cardinality(S) |-> CHOOSE n \in S : Cardinality({m \in S : m < n}) = k - 1]

\* Mutant: the newest file first.
SortedNewestFirst(names) == Reverse(Ascending(names))

\* list_queue_files: sorted by name, which is by creation time.
Sorted(names) == Ascending(names)

\* The lines of a text: a line is closed by NL, or is the last one.
LineStarts(text) == {i \in 1..Len(text) : text[i] # NL /\ (i = 1 \/ text[i - 1] = NL)}

\* Only a line with one event can be parsed, and only in a file that can be read.
WellFormed(text, i) ==
    text[i] \in Events /\ ~Damaged(text) /\ (i = Len(text) \/ text[i + 1] = NL)
Readable(text) ==
    LET good == Ascending({i \in LineStarts(text) : WellFormed(text, i)})
    IN [k \in 1..Len(good) |-> text[good[k]]]

\* What may go wrong is bounded.
Fault == faults < MaxFaults /\ faults' = faults + 1

Do(h, new) == hook' = [hook EXCEPT ![h] = new]
At(h, step) == hook[h].step = step

\* remove_file: open handles of the file now write to nothing.
WithoutFiles(gone, f) ==
    [g \in Hooks |-> IF hook[g].step \in {"line", "end"} /\ hook[g].file \in gone
                     THEN [f[g] EXCEPT !.file = Gone] ELSE f[g]]
Unlink(gone) == files' = [n \in Names \ gone |-> files[n]]
-----------------------------------------------------------------------------
(* The hook process. *)

Replaying == {h \in Hooks : hook[h].step \in {"read", "send"}}

\* The files that replays under way have still to read or to remove.
Listed == UNION {ToSet(hook[h].list) : h \in Replaying}

\* The next file of a replay; the hook's own event when there is none left.  A
\* hook with a synchronous request changes nothing after its replay.
NextFile(e, list) ==
    IF list # <<>> THEN [step |-> "read", e |-> e, list |-> list]
    ELSE IF e = Query THEN NoHook ELSE [step |-> "own", e |-> e]

\* Connected: replay begins with a listing of the files.
StartReplay(h, e) ==
    /\ up
    /\ Do(h, NextFile(e, Sorted(Names)))
    /\ disturbed' = (disturbed \/ (Names # {} /\ Replaying # {}))

\* A connection that fails with another error than Unavailable ends the hook.
StartOffline(h, e) ==
    /\ ~up
    /\ Do(h, [step |-> "room", e |-> e]) \/ Do(h, NoHook)
    /\ UNCHANGED disturbed

BeginEvent(h) ==
    /\ hook[h] = NoHook /\ sent < MaxEvents
    /\ sent' = sent + 1
    /\ before' = [before EXCEPT ![sent + 1] = queued]
    /\ StartReplay(h, sent + 1) \/ StartOffline(h, sent + 1)
    /\ UNCHANGED <<files, up, clock, faults, written, socket, queued, lost>>

BeginQuery(h) ==
    /\ hook[h] = NoHook /\ Names # {}
    /\ StartReplay(h, Query)
    /\ UNCHANGED <<files, up, clock, sent, faults, history>>
-----------------------------------------------------------------------------
(* enqueue. *)

Expired(now) == {n \in Names : now - files[n].mtime > PruneAge}

\* Time passes, as far as anybody sees, when SystemTime::now is called.
SystemTimeNow(now) == now \in clock..MaxClock /\ clock' = now

\* How many files enforce_file_limit deletes when it finds n.
Surplus(n) == n - MaxFiles + 1

\* Files are deleted with the events in them; the hook goes on with new.
Discard(h, gone, new) ==
    /\ Unlink(gone)
    /\ lost' = lost \cup UNION {EventsIn(files[n].text) : n \in gone}
    /\ hook' = WithoutFiles(gone, [hook EXCEPT ![h] = new])

\* prune and enforce_file_limit: the files that are too old, and then the
\* oldest ones above the limit.
MakeRoom(h, now) ==
    /\ At(h, "room")
    /\ SystemTimeNow(now)
    /\ LET kept == Sorted(Names \ Expired(now))
       IN Discard(h, Expired(now) \cup {kept[i] : i \in 1..Surplus(Len(kept))},
                  [step |-> "target", e |-> hook[h].e])
    /\ UNCHANGED <<up, sent, faults, written, socket, queued, before, disturbed>>

\* A file cannot be removed.  An error of prune is ignored, and the limit then
\* applies to what is left; one of enforce_file_limit ends the hook.
MakeRoomFails(h, now) ==
    /\ At(h, "room")
    /\ SystemTimeNow(now)
    /\ Fault
    /\ \E pruned \in SUBSET Expired(now) :
       LET kept == Sorted(Names \ pruned)
           over == Surplus(Len(kept))
           oldest(k) == {kept[i] : i \in 1..k}
       IN \/ /\ pruned # Expired(now)
             /\ Discard(h, pruned \cup oldest(over), [step |-> "target", e |-> hook[h].e])
          \/ \E k \in 0..over - 1 : Discard(h, pruned \cup oldest(k), NoHook)
    /\ UNCHANGED <<up, sent, written, socket, queued, before, disturbed>>

\* Mutant: a file name from the future.
FindOrCreateTargetAhead(h, now) ==
    /\ At(h, "target")
    /\ SystemTimeNow(now)
    /\ Do(h, [step |-> "open", e |-> hook[h].e, file |-> now + 1])
    /\ UNCHANGED <<files, up, sent, faults, history, disturbed>>

\* find_or_create_target: the newest file if it has room, else a new one, named
\* after the time.  A newest file that cannot be read lets only EnqueueFails.
FindOrCreateTarget(h, now) ==
    /\ At(h, "target")
    /\ \A n \in Names : Damaged(files[n].text) => \E m \in Names : n < m
    /\ LET roomy == {n \in Names : /\ \A m \in Names : m <= n
                                   /\ Cardinality(LineStarts(files[n].text)) < MaxPerFile}
       IN \/ /\ roomy # {} /\ now = clock
             /\ \E n \in roomy : Do(h, [step |-> "open", e |-> hook[h].e, file |-> n])
          \/ /\ roomy = {}
             /\ Do(h, [step |-> "open", e |-> hook[h].e, file |-> now])
    /\ SystemTimeNow(now)
    /\ UNCHANGED <<files, up, sent, faults, history, disturbed>>

Text(n) == IF n \in Names THEN files[n].text ELSE <<>>
Put(n, text) ==
    files' = [m \in Names \cup {n} |-> IF m = n THEN [text |-> text, mtime |-> clock]
                                                ELSE files[m]]

\* open with create and append.  The name of a new file is from the time of its
\* choice, so that a replay may meanwhile have listed a newer one.
OpenTarget(h) ==
    /\ At(h, "open")
    /\ IF hook[h].file \in Names
       THEN UNCHANGED <<files, disturbed>>
       ELSE /\ Put(hook[h].file, <<>>)
            /\ disturbed' = (disturbed \/ \E n \in Listed : hook[h].file < n)
    /\ Do(h, [hook[h] EXCEPT !.step = "line"])
    /\ UNCHANGED <<up, clock, sent, faults, history>>

AppendTo(h, token) ==
    IF hook[h].file = Gone THEN UNCHANGED files
    ELSE Put(hook[h].file, Append(Text(hook[h].file), token))

\* The events of lines that replay will skip as malformed.
Glued(text) == EventsIn(text) \ ToSet(Readable(text))

\* writeln, first the event and then the end of its line.
WriteLine(h) ==
    /\ At(h, "line")
    /\ AppendTo(h, hook[h].e)
    /\ lost' = lost \cup (IF hook[h].file = Gone THEN {hook[h].e}
                         ELSE Glued(Append(Text(hook[h].file), hook[h].e)))
    /\ Do(h, [hook[h] EXCEPT !.step = "end"])
    /\ UNCHANGED <<up, clock, sent, faults, written, socket, queued, before, disturbed>>

\* The write of the event stops short, by a full disk or a kill, between two
\* characters or inside one.  The event is not queued, but what later hooks
\* append to its line is spoilt, or the whole file is.
CutLine(h) ==
    /\ At(h, "line")
    /\ Fault
    /\ \E part \in {Stub, Torn} :
         /\ AppendTo(h, part)
         /\ lost' = lost \cup (IF hook[h].file = Gone THEN {}
                              ELSE Glued(Append(Text(hook[h].file), part)))
    /\ Do(h, NoHook)
    /\ UNCHANGED <<up, clock, sent, written, socket, queued, before, disturbed>>

WriteEnd(h) ==
    /\ At(h, "end")
    /\ AppendTo(h, NL)
    /\ queued' = queued \cup {hook[h].e}
    /\ Do(h, NoHook)
    /\ UNCHANGED <<up, clock, sent, faults, written, socket, before, lost, disturbed>>

\* A listing, a read or a removal fails, or a file is gone meanwhile: the event
\* is not queued, and the hook says so.
EnqueueFails(h) ==
    /\ hook[h].step \in {"room", "target", "open"}
    /\ Do(h, NoHook)
    /\ UNCHANGED <<files, up, clock, sent, faults, history, disturbed>>
-----------------------------------------------------------------------------
(* replay, and the hook's own request after it. *)

\* An error ends the replay, and the hook ignores it.
EndReplay(h) == Do(h, NextFile(hook[h].e, <<>>)) /\ disturbed' = TRUE

\* read_to_string, and the lines that can be parsed; the others are skipped.  A
\* file that is gone or is not UTF-8 ends the replay and stays.
ReadFile(h) ==
    /\ At(h, "read")
    /\ LET n == Head(hook[h].list) IN
       IF n \in Names /\ ~Damaged(Text(n))
       THEN /\ Do(h, [step |-> "send", e |-> hook[h].e, list |-> hook[h].list,
                      text |-> Readable(files[n].text), read |-> EventsIn(files[n].text)])
            /\ UNCHANGED disturbed
       ELSE EndReplay(h)
    /\ UNCHANGED <<files, up, clock, sent, faults, history>>

\* fire_and_forget: the frame is in the socket, and nobody waits for an answer.
\* The server may read it at once, or later.
FireAndForget(e) ==
    /\ up
    /\ written' = Append(written, e)
    /\ \/ received' = received \cup {e} /\ UNCHANGED <<wire, faults>>
       \/ wire' = wire \cup {e} /\ Fault /\ UNCHANGED received
    /\ UNCHANGED dropped

SendLine(h) ==
    /\ At(h, "send") /\ hook[h].text # <<>>
    /\ FireAndForget(Head(hook[h].text))
    /\ Do(h, [hook[h] EXCEPT !.text = Tail(@)])
    /\ UNCHANGED <<files, up, clock, sent, queued, before, lost, disturbed>>

\* The server is gone again, or too slow: the line is skipped.
SendLineFails(h) ==
    /\ At(h, "send") /\ hook[h].text # <<>>
    /\ lost' = lost \cup {Head(hook[h].text)}
    /\ Do(h, [hook[h] EXCEPT !.text = Tail(@)])
    /\ UNCHANGED <<files, up, clock, sent, faults, written, socket, queued, before, disturbed>>

\* Mutant: the file is deleted before its lines are sent.
SentAllEager(h) == TRUE

SentAll(h) == hook[h].text = <<>>

\* Mutant: the file stays.
RemoveReplayedKeeps(h) ==
    /\ At(h, "send") /\ SentAll(h)
    /\ Do(h, NextFile(hook[h].e, Tail(hook[h].list)))
    /\ UNCHANGED <<files, up, clock, sent, faults, history, disturbed>>

\* remove_file: whatever was appended since the file was read goes with it.
RemoveReplayed(h) ==
    /\ At(h, "send") /\ SentAll(h)
    /\ LET n == Head(hook[h].list) IN
       IF n \in Names
       THEN /\ Unlink({n})
            /\ lost' = lost \cup (EventsIn(files[n].text) \ hook[h].read)
            /\ hook' = WithoutFiles({n}, [hook EXCEPT ![h] = NextFile(@.e, Tail(@.list))])
            /\ UNCHANGED disturbed
       ELSE /\ EndReplay(h)
            /\ UNCHANGED <<files, lost>>
    /\ UNCHANGED <<up, clock, sent, faults, written, socket, queued, before>>

\* A listing, a read or a removal fails although the file is there.
ReplayFails(h) ==
    /\ At(h, "read") \/ (At(h, "send") /\ SentAll(h))
    /\ Fault
    /\ EndReplay(h)
    /\ UNCHANGED <<files, up, clock, sent, history>>

\* The hook's own request; when it cannot be sent it is not queued either.
SendOwn(h) ==
    /\ At(h, "own")
    /\ FireAndForget(hook[h].e)
    /\ Do(h, NoHook)
    /\ UNCHANGED <<files, up, clock, sent, queued, before, lost, disturbed>>

SendOwnFails(h) ==
    /\ At(h, "own")
    /\ Do(h, NoHook)
    /\ UNCHANGED <<files, up, clock, sent, faults, history, disturbed>>
-----------------------------------------------------------------------------
(* The surroundings. *)

\* A hook is killed; a hook whose write fails ends in the same way.
Kill(h) ==
    /\ hook[h] # NoHook
    /\ Fault
    /\ Do(h, NoHook)
    /\ disturbed' = (disturbed \/ h \in Replaying)
    /\ UNCHANGED <<files, up, clock, sent, history>>

ServerReads ==
    /\ up
    /\ \E e \in wire : wire' = wire \ {e} /\ received' = received \cup {e}
    /\ UNCHANGED <<files, hook, up, clock, sent, faults, written, dropped, queued, before,
                   lost, disturbed>>

\* What a server that goes down has not read is gone with its sockets.
ServerChanges ==
    /\ up' = ~up
    /\ wire' = {} /\ dropped' = dropped \cup wire
    /\ UNCHANGED <<files, hook, clock, sent, faults, written, received, queued, before, lost,
                   disturbed>>
-----------------------------------------------------------------------------
\* A hook of an earlier time has left the first event in the queue.
Init ==
    /\ files = [n \in {0} |-> [text |-> <<1, NL>>, mtime |-> n]]
    /\ hook = [h \in Hooks |-> NoHook]
    /\ up = FALSE /\ clock = 1 /\ sent = 1 /\ faults = 0
    /\ written = <<>> /\ wire = {} /\ received = {} /\ dropped = {}
    /\ queued = {1} /\ before = [e \in Events |-> {}]
    /\ lost = {} /\ disturbed = FALSE

HookStep(h) ==
    \/ \E now \in clock..MaxClock : MakeRoom(h, now) \/ FindOrCreateTarget(h, now)
    \/ OpenTarget(h) \/ WriteLine(h) \/ WriteEnd(h) \/ EnqueueFails(h)
    \/ ReadFile(h) \/ SendLine(h) \/ SendLineFails(h)
    \/ RemoveReplayed(h) \/ SendOwn(h) \/ SendOwnFails(h)

HookFault(h) ==
    \/ \E now \in clock..MaxClock : MakeRoomFails(h, now)
    \/ CutLine(h) \/ ReplayFails(h) \/ Kill(h)

Next ==
    \/ \E h \in Hooks : BeginEvent(h) \/ BeginQuery(h) \/ HookStep(h) \/ HookFault(h)
    \/ ServerReads \/ ServerChanges

Spec == Init /\ [][Next]_vars

\* Hook processes run, the client keeps calling hooks, and the server reads.
FairSpec ==
    /\ Spec
    /\ WF_vars(ServerReads)
    /\ WF_vars(\E h \in Hooks : HookStep(h))
    /\ WF_vars(\E h \in Hooks : BeginQuery(h))
-----------------------------------------------------------------------------
\* The shape of the state.
TypeOK ==
    /\ Names \subseteq 0..MaxClock
    /\ \A n \in Names : files[n].text \in Seq(Token) /\ files[n].mtime \in n..clock
    /\ \A h \in Hooks : hook[h] # NoHook => hook[h].e \in 0..sent
    /\ written \in Seq(Events) /\ queued \subseteq Events /\ lost \subseteq Events
    /\ wire \subseteq Events /\ received \subseteq Events /\ dropped \subseteq Events
    /\ up \in BOOLEAN /\ disturbed \in BOOLEAN

Position(e) == CHOOSE i \in 1..Len(written) : written[i] = e

(***************************************************************************)
(* "Events are replayed (oldest first)" (event_queue.rs), and once, before *)
(* the request of the hook that replays them: an event that was in the     *)
(* queue when the hook of another began is written to the socket first.    *)
(* The server has a task for each connection, so this is the order of the  *)
(* sends.  Replays that overlap or end early (a kill, an error, a file     *)
(* that is gone or cannot be read) are excepted, events that are lost, and *)
(* a file that is created below one that a replay has listed: what is      *)
(* appended to the listed file overtakes it.                               *)
(***************************************************************************)
OldestFirst ==
    ~disturbed =>
        /\ \A i, j \in 1..Len(written) : i # j => written[i] # written[j]
        /\ \A d, e \in ToSet(written) \ lost : d \in before[e] => Position(d) < Position(e)

\* Events that a replay, now or later, can still send.
Pending ==
    UNION {ToSet(Readable(files[n].text)) : n \in Names}
    \cup UNION {ToSet(hook[h].text) : h \in {g \in Hooks : At(g, "send")}}

(***************************************************************************)
(* A queued event is not forgotten, also when hooks are killed or replay   *)
(* at the same time: the server has read it, or will unless it goes down,  *)
(* or it is still to be sent, or one of the known ways to lose it has      *)
(* happened: too old, too many files, the send failed, its line was glued  *)
(* to another or its file damaged by a write that was cut short, its file  *)
(* was deleted by a replay that had read it before the event was appended, *)
(* or the server went down between the write to the socket and its read    *)
(* (fire_and_forget waits for no answer, and replay then deletes the file).*)
(***************************************************************************)
QueuedAccounted == queued \subseteq received \cup wire \cup dropped \cup Pending \cup lost

\* Files that replays get to: no file up to them is damaged.
Accessible(n) == \A m \in Names : m <= n => ~Damaged(files[m].text)

(***************************************************************************)
(* Once the server stays, it reads all that was written to it, and the     *)
(* following hooks empty the queue, whatever raced over a file or glued    *)
(* its lines, as far as the first file that is not UTF-8.  That one stays, *)
(* and every file after it: read_to_string fails where the comment of      *)
(* replay says that malformed lines are skipped, and only an enqueue,      *)
(* without a server, ever removes it, for its age or for the limit.        *)
(***************************************************************************)
QueueDrains == <>[]up => <>[](wire = {} /\ \A n \in Names : ~Accessible(n))
=============================================================================
