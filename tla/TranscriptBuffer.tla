--------------------------- MODULE TranscriptBuffer ---------------------------
(***************************************************************************)
(* The per-session transcript accumulator (session_transcript.rs): a span  *)
(* of a byte stream, written by deltas that may arrive late, twice, out of *)
(* order or with gaps, and bounded by a ring tail and by the number of     *)
(* holes.  Which bytes a position holds does not matter here, only which   *)
(* positions of the stream the buffer claims to have.                      *)
(*                                                                         *)
(* The code keeps the holes in a Vec in ascending order.  Here they are a  *)
(* set: a hole is pushed at the end of the span, above all the others, the *)
(* surgery goes through the Vec in order, and the last hole is the highest *)
(* one.  They never overlap, so that summing their bytes is counting them. *)
(***************************************************************************)
EXTENDS Integers, FiniteSets, FiniteSetsExt

CONSTANTS
    MaxBytes,      \* max_bytes: the accumulated-transcript cap
    MaxHoles,      \* MAX_HOLE_RANGES
    MaxOffset      \* u64::MAX: a delta that would end above it is dropped

ASSUME BufferAssumption ==
    /\ MaxBytes \in Nat \ {0}
    /\ MaxHoles \in Nat
    /\ MaxOffset \in Nat

NewBuffer ==
    [base |-> 0,         \* base_offset
     len |-> 0,          \* data.len()
     holes |-> {},       \* unwritten ranges <<start, end>>, end exclusive
     high |-> 0,         \* high_water
     elided |-> 0]       \* elided_bytes

Buffer == [base: Nat, len: 0..MaxBytes, holes: SUBSET (Nat \X Nat), high: Nat, elided: Nat]

Larger(a, b) == IF a > b THEN a ELSE b
SaturatingSub(a, b) == Larger(a - b, 0)

SpanEnd(b) == b.base + b.len
Positions(start, end) == start..(end - 1)
HolePositions(b) == UNION {Positions(h[1], h[2]) : h \in b.holes}

\* The positions that the buffer can serve.
Written(b) == Positions(b.base, SpanEnd(b)) \ HolePositions(b)

\* Hole bytes below a position (total_hole_bytes, and hole_bytes_below in
\* advance_base).
HoleBytesBelow(b, pos) == Cardinality({p \in HolePositions(b) : p < pos})

\* Mutant: holes that fall below the floor count as received bytes.
AdvanceBaseCountsHoles(b, newBase) ==
    [b EXCEPT !.base = newBase,
              !.len = SaturatingSub(SpanEnd(b), newBase),
              !.elided = @ + (IF newBase >= SpanEnd(b) THEN b.len ELSE newBase - b.base),
              !.holes = {<<Larger(h[1], newBase), h[2]>> : h \in {g \in @ : g[2] > newBase}}]

\* advance_base: drop the head of the span.  Both branches of the code: the
\* whole span goes when newBase is at or above its end.
AdvanceBase(b, newBase) ==
    LET cut == IF newBase >= SpanEnd(b) THEN SpanEnd(b) ELSE newBase
    IN [b EXCEPT !.base = newBase,
                 !.len = SaturatingSub(SpanEnd(b), newBase),
                 !.elided = @ + SaturatingSub(cut - b.base, HoleBytesBelow(b, cut)),
                 !.holes = {<<Larger(h[1], newBase), h[2]>> : h \in {g \in @ : g[2] > newBase}}]

\* Mutant: a write inside a hole closes the hole instead of splitting it.
SubtractRangeNoSplit(holes, start, end) ==
    {h \in holes : h[2] <= start \/ h[1] >= end}

\* subtract_range_from_holes: what is left of each hole.
Remains(h, start, end) ==
    IF h[2] <= start \/ h[1] >= end
    THEN {h}
    ELSE {r \in {<<h[1], start>>, <<end, h[2]>>} : r[1] < r[2]}
SubtractRange(holes, start, end) == UNION {Remains(h, start, end) : h \in holes}

\* collapse_to_newest: keep only what follows the last hole.
CollapseToNewest(b) ==
    LET from == Max({h[2] : h \in b.holes})
    IN [b EXCEPT !.base = from,
                 !.len = SpanEnd(b) - from,
                 !.elided = @ + SaturatingSub(from - b.base, HoleBytesBelow(b, from)),
                 !.holes = {}]

\* Steps 2 to 6 of apply_delta, for a delta [offset, end) that is
\* not empty and a span that has room for it.
Merge(b, offset, end) ==
    LET start == Larger(offset, b.base)
        gap == IF start > SpanEnd(b) THEN {<<SpanEnd(b), start>>} ELSE {}
        m == [b EXCEPT !.elided = @ + (start - offset),
                       !.holes = SubtractRange(@ \cup gap, start, end),
                       !.len = Larger(@, end - b.base)]
    IN IF end <= b.base THEN [b EXCEPT !.elided = @ + (end - offset)]
       ELSE IF Cardinality(m.holes) > MaxHoles THEN CollapseToNewest(m) ELSE m

\* apply_delta: bytes [offset, offset + n) of the stream.
ApplyDelta(b, offset, n) ==
    LET end == offset + n
        seen == [b EXCEPT !.high = Larger(@, end)]
        floor == SaturatingSub(end, MaxBytes)
    IN CASE end > MaxOffset -> b
         [] end <= MaxOffset /\ n = 0 -> seen
         [] OTHER -> Merge(IF floor > b.base THEN AdvanceBase(seen, floor) ELSE seen,
                           offset, end)

\* clear: the floor moves to the high-water mark; the counters stay.
Clear(b) == [b EXCEPT !.len = 0, !.holes = {}, !.base = b.high]
=============================================================================
