-------------------------- MODULE SessionTranscripts --------------------------
(***************************************************************************)
(* The transcript buffers of the sessions: who owns which buffer while     *)
(* sessions register, close, are swept and register again.                 *)
(*                                                                         *)
(* The registry (session.rs) and the hold (transcript_hold.rs) have a lock *)
(* each, and so has every buffer.  A request takes them one after another: *)
(* register_session asks the hold before it locks the registry, and        *)
(* apply_transcript_delta clones the buffer's Arc under the registry lock  *)
(* and writes after releasing it.  Requests run concurrently (one task per *)
(* connection, listener.rs) with each other and with the maintenance tick. *)
(*                                                                         *)
(* Time is not modelled: a session may be found stale, and a held buffer   *)
(* expired, at any step, the longest inactive ones first.                  *)
(***************************************************************************)
EXTENDS TranscriptBuffer

CONSTANTS
    Sids,          \* session ids
    Features,      \* feature cycles
    Workers,       \* requests that may be in flight at once
    MaxHeld,       \* transcript_hold_max_sessions, clamped to at least 1
    Deltas,        \* <<offset, length>> of the deltas that may arrive
    MaxRequests,   \* bound: registrations, cycle starts and deltas that arrive
    MaxBufs        \* bound: buffers in memory at once

ASSUME TranscriptAssumption ==
    /\ MaxHeld \in Nat \ {0}
    /\ MaxRequests \in Nat
    /\ MaxBufs \in Nat
    /\ Deltas \subseteq Nat \X Nat

VARIABLES
    sessions,   \* SessionRegistry.sessions: feature and buffer of a session
    held,       \* TranscriptHold.held: feature_cycle and the buffer
    older,      \* <<s, t>>: the last_activity_at of held s is before that of held t
    bufs,       \* the buffers; an index stands for an allocation behind an Arc
    request,    \* what each request in flight is about to do
    arrived,    \* requests that arrived so far
    got,        \* history: the positions each buffer was ever given
    owed        \* history: how many bytes each buffer has had to give up

vars == <<sessions, held, older, bufs, request, arrived, got, owed>>
bufVars == <<bufs, got, owed>>

Absent == [state |-> "absent"]
Idle == [step |-> "idle"]
NoFeature == "none"
Bufs == 1..MaxBufs

Registered(s) == sessions[s] # Absent
Held(s) == held[s] # Absent
HeldSids == {s \in Sids : Held(s)}

\* The Arcs of a buffer: a registry entry, a held entry, requests in flight.
Owners(b) ==
    {<<"registry", s>> : s \in {t \in Sids : Registered(t) /\ sessions[t].buf = b}}
    \cup {<<"hold", s>> : s \in {t \in Sids : Held(t) /\ held[t].buf = b}}
    \cup {<<"request", w>> : w \in {v \in Workers : /\ request[v].step = "insert"
                                                  /\ request[v].buf = b}}
\* The buffers somebody holds an Arc of; a buffer is freed with its last Arc.
Live ==
    {sessions[s].buf : s \in {t \in Sids : Registered(t)}}
    \cup {held[s].buf : s \in {t \in Sids : Held(t)}}
    \cup {request[w].buf : w \in {v \in Workers : request[v].step \in {"insert", "apply"}}}
Free == Bufs \ Live
NextFree == CHOOSE b \in Free : \A c \in Free : b <= c

\* The contents after a step.
Memory(new, newGot, newOwed) ==
    LET live == Live' IN
    /\ bufs' = [b \in Bufs |-> IF b \in live THEN new[b] ELSE NewBuffer]
    /\ got' = [b \in Bufs |-> IF b \in live THEN newGot[b] ELSE {}]
    /\ owed' = [b \in Bufs |-> IF b \in live THEN newOwed[b] ELSE 0]

\* purge_record, purge_record_for: the buffers are cleared, each under its own
\* lock; the count of a buffer that was not empty is audited.
Purged(old, gone) == [b \in Bufs |-> IF b \in gone THEN Clear(old[b]) ELSE old[b]]

Without(order, gone) == {r \in order : r[1] \notin gone /\ r[2] \notin gone}
WithoutHeld(gone) ==
    /\ held' = [s \in Sids |-> IF s \in gone THEN Absent ELSE held[s]]
    /\ older' = Without(older, gone)
-----------------------------------------------------------------------------
(* SessionRegister and the cycle_start event. *)

Begin(w, r) ==
    /\ arrived < MaxRequests /\ arrived' = arrived + 1
    /\ request[w] = Idle
    /\ request' = [request EXCEPT ![w] = r]

SessionRegister(w, s, f) ==
    /\ Begin(w, [step |-> "readopt", s |-> s, f |-> f, force |-> FALSE])
    /\ UNCHANGED <<sessions, held, older, bufVars>>

\* handle_cycle_event registers a session that it does not find.
CycleStart(w, s, f) ==
    /\ Begin(w, [step |-> IF Registered(s) THEN "force" ELSE "readopt",
                 s |-> s, f |-> f, force |-> TRUE])
    /\ UNCHANGED <<sessions, held, older, bufVars>>

Insert(r, b) == [step |-> "insert", s |-> r.s, f |-> r.f, force |-> r.force, buf |-> b]

\* Mutant: the buffer is handed back and stays held.
ReadoptMatchKeeps(w, r) ==
    /\ Held(r.s) /\ held[r.s].feature = r.f
    /\ request' = [request EXCEPT ![w] = Insert(r, held[r.s].buf)]
    /\ UNCHANGED <<held, older>>

\* readopt: the held buffer goes back to the registry when the cycles match.
ReadoptMatch(w, r) ==
    /\ Held(r.s) /\ held[r.s].feature = r.f
    /\ request' = [request EXCEPT ![w] = Insert(r, held[r.s].buf)]
    /\ WithoutHeld({r.s})

\* readopt on a mismatch: purge the held buffer, start with a fresh one.
ReadoptMismatch(w, r) ==
    /\ r.f # NoFeature
    /\ Held(r.s) /\ held[r.s].feature # r.f
    /\ Free # {}
    /\ request' = [request EXCEPT ![w] = Insert(r, NextFree)]
    /\ WithoutHeld({r.s})

\* Nothing is held for the session, or it registers without a feature, in
\* which case register_session does not ask the hold.
ReadoptFresh(w, r) ==
    /\ r.f = NoFeature \/ ~Held(r.s)
    /\ Free # {}
    /\ request' = [request EXCEPT ![w] = Insert(r, NextFree)]
    /\ UNCHANGED <<held, older>>

\* The buffers that leave the hold in this step, unless a request takes them.
DroppedHeld ==
    {held[s].buf : s \in {t \in Sids : Held(t) /\ held'[t] = Absent}}
    \ {request'[w].buf : w \in {v \in Workers : request'[v].step = "insert"}}

Readopt(w) ==
    /\ request[w].step = "readopt"
    /\ \/ ReadoptMatch(w, request[w])
       \/ ReadoptMismatch(w, request[w])
       \/ ReadoptFresh(w, request[w])
    /\ UNCHANGED <<sessions, arrived>>
    /\ Memory(Purged(bufs, DroppedHeld), got, owed)

\* register_session, under the registry lock: whatever was there is replaced.
RegisterInsert(w) ==
    /\ request[w].step = "insert"
    /\ LET r == request[w] IN
       /\ sessions' = [sessions EXCEPT ![r.s] =
                          [feature |-> r.f, buf |-> r.buf]]
       /\ request' = [request EXCEPT ![w] =
                         IF r.force THEN [step |-> "force", s |-> r.s, f |-> r.f, force |-> TRUE]
                                    ELSE Idle]
    /\ UNCHANGED <<held, older, arrived>>
    /\ Memory(bufs, got, owed)

Declare(s, f) ==
    sessions' = IF Registered(s)
                THEN [sessions EXCEPT ![s].feature = f]
                ELSE sessions

\* set_feature_force.
SetFeatureForce(w) ==
    /\ request[w].step = "force"
    /\ Declare(request[w].s, request[w].f)
    /\ request' = [request EXCEPT ![w] = Idle]
    /\ UNCHANGED <<held, older, bufVars, arrived>>

\* apply_stamp: an event that carries a cycle stamp.
ApplyStamp(s, f) ==
    /\ Registered(s)
    /\ Declare(s, f)
    /\ UNCHANGED <<held, older, bufVars, request, arrived>>

\* set_feature_if_absent: a feature named by a payload, or by enough signals.
SetFeatureIfAbsent(s, f) ==
    /\ Registered(s) /\ sessions[s].feature = NoFeature
    /\ sessions' = [sessions EXCEPT ![s].feature = f]
    /\ UNCHANGED <<held, older, bufVars, request, arrived>>
-----------------------------------------------------------------------------
(* A transcript delta. *)

\* The order of the held sessions once s is held and has been active last.
Bump(s) == Without(older, {s}) \cup {<<t, s>> : t \in HeldSids \ {s}}

\* Phase 1: the buffer of the registered session, else the held one; a delta
\* for neither is dropped.
DeltaLookup(w, s, d) ==
    /\ Registered(s) \/ Held(s)
    /\ Begin(w, [step |-> "apply", d |-> d,
                 buf |-> IF Registered(s) THEN sessions[s].buf ELSE held[s].buf])
    /\ older' = IF Registered(s) THEN older ELSE Bump(s)
    /\ UNCHANGED <<sessions, held, bufVars>>

\* What a buffer gives up for a delta, by the positions alone: the part of the
\* delta that is below the ring tail's floor, what the tail takes out of the
\* buffer, and what a collapse then takes out of both.
GivenUp(old, received, delta, new) ==
    LET ringFloor == IF delta = {} THEN old.base
                     ELSE Larger(old.base, SaturatingSub(1 + CHOOSE p \in delta :
                                             \A q \in delta : q <= p, MaxBytes))
    IN Cardinality({p \in delta : p < ringFloor})
       + Cardinality({p \in received : old.base <= p /\ p < ringFloor})
       + Cardinality({p \in received \cup delta : ringFloor <= p /\ p < new.base})

\* Phase 2: the write, under the buffer's lock.
DeltaApply(w) ==
    /\ request[w].step = "apply"
    /\ request' = [request EXCEPT ![w] = Idle]
    /\ UNCHANGED <<sessions, held, older, arrived>>
    /\ LET b == request[w].buf
           d == request[w].d
           accepted == IF d[1] + d[2] > MaxOffset THEN {} ELSE Positions(d[1], d[1] + d[2])
           new == ApplyDelta(bufs[b], d[1], d[2])
       IN Memory([bufs EXCEPT ![b] = new],
                 [got EXCEPT ![b] = @ \cup accepted],
                 [owed EXCEPT ![b] = @ + GivenUp(bufs[b], got[b], accepted, new)])
-----------------------------------------------------------------------------
(* The end of a session. *)

\* Mutant: the cap is not enforced.
EvictedNone(all, order) == {}

\* enforce_cap: the oldest sessions above the cap, that is, those with as many
\* more recent ones as the hold has room for.
Evicted(all, order) ==
    {s \in all : Cardinality({t \in all : <<s, t>> \in order}) >= MaxHeld}

\* hold_on_drain: the buffer replaces what was held for the session.
HoldOnDrain(s) ==
    LET with == [held EXCEPT ![s] = [feature |-> sessions[s].feature, buf |-> sessions[s].buf]]
        evicted == Evicted(HeldSids \cup {s}, Bump(s))
    IN /\ held' = [t \in Sids |-> IF t \in evicted THEN Absent ELSE with[t]]
       /\ older' = Without(Bump(s), evicted)
       /\ Memory(Purged(bufs, {with[t].buf : t \in evicted}), got, owed)

\* drain_and_signal_session, under the registry lock (the hold's and the
\* buffer's lock are taken inside it).
SessionClose(s) ==
    /\ Registered(s)
    /\ sessions' = [sessions EXCEPT ![s] = Absent]
    /\ UNCHANGED <<request, arrived>>
    /\ IF sessions[s].feature # NoFeature
       THEN HoldOnDrain(s)
       ELSE /\ UNCHANGED <<held, older>>
            /\ Memory(Purged(bufs, {sessions[s].buf}), got, owed)

\* sweep_stale_sessions: every stale session is purged, held or not.
SweepStaleSessions(stale) ==
    /\ stale # {} /\ \A s \in stale : Registered(s)
    /\ sessions' = [s \in Sids |-> IF s \in stale THEN Absent ELSE sessions[s]]
    /\ UNCHANGED <<held, older, request, arrived>>
    /\ Memory(Purged(bufs, {sessions[s].buf : s \in stale}), got, owed)

\* The held sessions that a sweep may find expired: the oldest ones.
Expirable(expired) ==
    /\ expired # {} /\ expired \subseteq HeldSids
    /\ \A s \in expired, t \in HeldSids : <<t, s>> \in older => t \in expired

\* Mutant: the sweep clears the buffers and keeps the entries.
SweepHeldBuffersKeeps(expired) ==
    /\ Expirable(expired)
    /\ UNCHANGED <<sessions, held, older, request, arrived>>
    /\ Memory(Purged(bufs, {held[s].buf : s \in expired}), got, owed)

\* sweep_expired: the buffers without activity for the TTL.
SweepHeldBuffers(expired) ==
    /\ Expirable(expired)
    /\ WithoutHeld(expired)
    /\ UNCHANGED <<sessions, request, arrived>>
    /\ Memory(Purged(bufs, {held[s].buf : s \in expired}), got, owed)
-----------------------------------------------------------------------------
Init ==
    /\ sessions = [s \in Sids |-> Absent]
    /\ held = [s \in Sids |-> Absent]
    /\ older = {}
    /\ bufs = [b \in Bufs |-> NewBuffer]
    /\ got = [b \in Bufs |-> {}] /\ owed = [b \in Bufs |-> 0]
    /\ request = [w \in Workers |-> Idle]
    /\ arrived = 0

RequestStep(w) ==
    Readopt(w) \/ RegisterInsert(w) \/ SetFeatureForce(w) \/ DeltaApply(w)

Next ==
    \/ \E w \in Workers, s \in Sids, f \in Features \cup {NoFeature} : SessionRegister(w, s, f)
    \/ \E w \in Workers, s \in Sids, f \in Features : CycleStart(w, s, f)
    \/ \E w \in Workers, s \in Sids, d \in Deltas : DeltaLookup(w, s, d)
    \/ \E w \in Workers : RequestStep(w)
    \/ \E s \in Sids, f \in Features : ApplyStamp(s, f)
    \/ \E s \in Sids, f \in Features : SetFeatureIfAbsent(s, f)
    \/ \E s \in Sids : SessionClose(s)
    \/ \E stale \in SUBSET Sids : SweepStaleSessions(stale)
    \/ \E expired \in SUBSET Sids : SweepHeldBuffers(expired)

Spec == Init /\ [][Next]_vars

\* The tick runs again and again, and everything becomes old in the end.
FairSpec ==
    /\ Spec
    /\ \A s \in Sids : WF_vars(SweepStaleSessions({s}))
    /\ WF_vars(\E expired \in SUBSET Sids : SweepHeldBuffers(expired))
-----------------------------------------------------------------------------
Request ==
    {Idle}
    \cup [step: {"readopt", "force"}, s: Sids, f: Features \cup {NoFeature}, force: BOOLEAN]
    \cup [step: {"insert"}, s: Sids, f: Features \cup {NoFeature}, force: BOOLEAN, buf: Bufs]
    \cup [step: {"apply"}, d: Deltas, buf: Bufs]

\* The shape of the state, with the bounds on the hold and on a buffer (I1).
TypeOK ==
    /\ sessions \in [Sids -> [feature: Features \cup {NoFeature}, buf: Bufs] \cup {Absent}]
    /\ held \in [Sids -> [feature: Features, buf: Bufs] \cup {Absent}]
    /\ older \subseteq HeldSids \X HeldSids
    /\ \A s, t \in HeldSids : <<s, t>> \in older <=> s # t /\ <<t, s>> \notin older
    /\ Cardinality(HeldSids) <= MaxHeld
    /\ bufs \in [Bufs -> Buffer] /\ got \in [Bufs -> SUBSET Nat] /\ owed \in [Bufs -> Nat]
    /\ request \in [Workers -> Request]
    /\ arrived \in 0..MaxRequests

\* The holes lie inside the span, apart from each other, none empty, none
\* touching its end.
HolesInSpan(b) ==
    /\ Cardinality(b.holes) <= MaxHoles
    /\ \A h \in b.holes : b.base <= h[1] /\ h[1] < h[2] /\ h[2] < SpanEnd(b)
    /\ \A g, h \in b.holes : g # h => g[2] < h[1] \/ h[2] < g[1]

(***************************************************************************)
(* A buffer has exactly what it was given, above its floor: whatever the   *)
(* order, overlap and repetition of the deltas, ring tail, hole surgery,   *)
(* collapse, clearing and changes of owner neither lose a position nor     *)
(* serve one that never arrived (I2 and AC-02 of session_transcript.rs).   *)
(***************************************************************************)
ContentExact ==
    \A b \in Bufs :
        /\ HolesInSpan(bufs[b])
        /\ Written(bufs[b]) = {p \in got[b] : p >= bufs[b].base}

(***************************************************************************)
(* elided_bytes counts every received byte that was given up, once, and no *)
(* byte of a hole (R-03.4 in session_transcript.rs).                       *)
(***************************************************************************)
ElidedExact == \A b \in Bufs : bufs[b].elided = owed[b]

(***************************************************************************)
(* A buffer belongs to one session: to its registry entry, to its held     *)
(* entry or to the registration that is moving it between them.  Two       *)
(* owners would mix the transcripts of two sessions or cycles, or purge    *)
(* one session's transcript with another's.                                *)
(***************************************************************************)
OneOwner == \A b \in Bufs : Cardinality(Owners(b)) <= 1

(***************************************************************************)
(* Transcripts may hold secrets and must not stay: once a session falls    *)
(* silent, the sweeps take it out of the registry and out of the hold,     *)
(* whether or not a review ever comes (transcript_hold.rs, SR-01).         *)
(***************************************************************************)
Resident(s) == Registered(s) \/ Held(s)

ResidencyEnds == \A s \in Sids : Resident(s) ~> ~Resident(s)
=============================================================================
