----------------------- MODULE SessionTranscriptsProofs -----------------------
(***************************************************************************)
(* What holds of the transcript buffers for every set of sessions, of      *)
(* features and of deltas, every number of requests, and all values of the *)
(* three limits.                                                           *)
(*                                                                         *)
(* The first half is about one buffer: the ring tail, the hole surgery and *)
(* the collapse, each with what it keeps and how many received positions   *)
(* it gives up.  The second half is about the owners of the buffers.       *)
(***************************************************************************)
EXTENDS SessionTranscripts, FiniteSetTheorems, WellFoundedInduction, TLAPS

\* A buffer whose length is not bounded yet.
Span == [base: Nat, len: Nat, holes: SUBSET (Nat \X Nat), high: Nat, elided: Nat]

Within(H, lo, hi) == \A h \in H : lo <= h[1] /\ h[1] < h[2] /\ h[2] < hi
Apart(H) == \A g, h \in H : g # h => g[2] < h[1] \/ h[2] < g[1]
Covered(H) == UNION {Positions(h[1], h[2]) : h \in H}

\* Above its floor the buffer has the positions of g and no others.
Serves(b, g) ==
    \A p \in Nat : b.base <= p => (p \in g <=> p < SpanEnd(b) /\ p \notin Covered(b.holes))

SpanOK(b, g) ==
    /\ b \in Span /\ g \in SUBSET Nat
    /\ Within(b.holes, b.base, SpanEnd(b))
    /\ Apart(b.holes)
    /\ Serves(b, g)

LEMMA CoveredMember ==
    ASSUME NEW H \in SUBSET (Nat \X Nat), NEW p \in Int
    PROVE  p \in Covered(H) <=> \E h \in H : h[1] <= p /\ p < h[2]
<1>1. \A h \in H : h[1] \in Int /\ h[2] \in Int
  OBVIOUS
<1>2. p \in Covered(H) <=> \E h \in H : p \in Positions(h[1], h[2])
  BY DEF Covered
<1>3. \A h \in H : p \in Positions(h[1], h[2]) <=> h[1] <= p /\ p < h[2]
  BY <1>1 DEF Positions
<1> QED BY <1>2, <1>3

LEMMA CoveredInt ==
    ASSUME NEW H \in SUBSET (Nat \X Nat)
    PROVE  Covered(H) \subseteq Int
BY DEF Covered, Positions

LEMMA HolesFinite ==
    ASSUME NEW H \in SUBSET (Nat \X Nat), NEW lo \in Nat, NEW hi \in Nat, Within(H, lo, hi)
    PROVE  IsFiniteSet(H)
<1>1. IsFiniteSet(0..hi)
  BY FS_Interval
<1>2. IsFiniteSet((0..hi) \X (0..hi))
  BY <1>1, FS_Product
<1>3. H \in SUBSET ((0..hi) \X (0..hi))
  <2> SUFFICES ASSUME NEW h \in H PROVE h \in (0..hi) \X (0..hi)
    OBVIOUS
  <2>1. h \in Nat \X Nat /\ h[1] < h[2] /\ h[2] < hi
    BY DEF Within
  <2>2. h[1] \in 0..hi /\ h[2] \in 0..hi
    BY <2>1
  <2> QED BY <2>1, <2>2
<1> QED BY <1>2, <1>3, FS_Subset

\* The holes cover so many of the positions lo..c-1 that the rest is counted by
\* subtraction, and the subtraction does not saturate.
LEMMA CountServed ==
    ASSUME NEW lo \in Nat, NEW c \in Nat, lo <= c, NEW C \in SUBSET Int,
           \A p \in C : lo <= p
    PROVE  /\ Cardinality({p \in C : p < c}) \in Nat
           /\ SaturatingSub(c - lo, Cardinality({p \in C : p < c}))
                = Cardinality((lo..(c - 1)) \ C)
           /\ Cardinality((lo..(c - 1)) \ C) \in Nat
<1> DEFINE I == lo..(c - 1)
           B == {p \in C : p < c}
<1>1. IsFiniteSet(I) /\ Cardinality(I) = c - lo
  <2>1. lo \in Int /\ c - 1 \in Int
    OBVIOUS
  <2>2. IsFiniteSet(I) /\ Cardinality(I) = IF lo > c - 1 THEN 0 ELSE (c - 1) - lo + 1
    BY <2>1, FS_Interval
  <2> HIDE DEF I
  <2> QED BY <2>2
<1>2. B = I \cap C
  <2>1. \A p \in C : p \in Int /\ (p \in I <=> p < c)
    OBVIOUS
  <2> HIDE DEF I
  <2> QED BY <2>1
<1>3. IsFiniteSet(I \cap C) /\ Cardinality(I \cap C) <= Cardinality(I)
  BY <1>1, FS_Intersection
<1>4. Cardinality(I \cap C) \in Nat
  BY <1>3, FS_CardinalityType
<1>5. IsFiniteSet(I \ C) /\ Cardinality(I \ C) = Cardinality(I) - Cardinality(I \cap C)
  BY <1>1, FS_Difference
<1>6. Cardinality(I \ C) \in Nat
  BY <1>5, FS_CardinalityType
<1> HIDE DEF I, B
<1>7. SaturatingSub(c - lo, Cardinality(B)) = Cardinality(I \ C)
  BY <1>1, <1>2, <1>3, <1>4, <1>5 DEF SaturatingSub, Larger
<1> QED BY <1>2, <1>4, <1>6, <1>7 DEF I, B
-----------------------------------------------------------------------------
(* advance_base. *)

Raised(h, newBase) == <<Larger(h[1], newBase), h[2]>>
Kept(H, newBase) == {Raised(h, newBase) : h \in {g \in H : g[2] > newBase}}

LEMMA KeptHoles ==
    ASSUME NEW H \in SUBSET (Nat \X Nat), NEW lo \in Nat, NEW hi \in Nat, NEW newBase \in Nat,
           Within(H, lo, hi), Apart(H)
    PROVE  /\ Kept(H, newBase) \in SUBSET (Nat \X Nat)
           /\ Within(Kept(H, newBase), newBase, hi)
           /\ Apart(Kept(H, newBase))
           /\ \A p \in Nat : newBase <= p => (p \in Covered(Kept(H, newBase)) <=> p \in Covered(H))
           /\ Cardinality(Kept(H, newBase)) <= Cardinality(H)
<1> DEFINE above == {g \in H : g[2] > newBase}
           K == Kept(H, newBase)
<1>1. \A h \in H : h \in Nat \X Nat /\ h[1] \in Nat /\ h[2] \in Nat
  OBVIOUS
<1>2. \A k : k \in K <=> \E h \in above : k = Raised(h, newBase)
  BY DEF Kept
<1>3. \A h \in above : /\ Raised(h, newBase) \in Nat \X Nat
                       /\ Raised(h, newBase)[1] = Larger(h[1], newBase)
                       /\ Raised(h, newBase)[2] = h[2]
                       /\ Larger(h[1], newBase) \in Nat
  BY <1>1 DEF Raised, Larger
<1>4. K \in SUBSET (Nat \X Nat)
  BY <1>2, <1>3
<1>5. Within(K, newBase, hi)
  <2> SUFFICES ASSUME NEW k \in K PROVE newBase <= k[1] /\ k[1] < k[2] /\ k[2] < hi
    BY DEF Within
  <2>1. PICK h \in above : k = Raised(h, newBase)
    BY <1>2
  <2> QED BY <1>1, <1>3, <2>1 DEF Within, Larger
<1>6. Apart(K)
  <2> SUFFICES ASSUME NEW k \in K, NEW l \in K, k # l PROVE k[2] < l[1] \/ l[2] < k[1]
    BY DEF Apart
  <2>1. PICK h \in above : k = Raised(h, newBase)
    BY <1>2
  <2>2. PICK g \in above : l = Raised(g, newBase)
    BY <1>2
  <2>3. h[2] < g[1] \/ g[2] < h[1]
    BY <2>1, <2>2 DEF Apart
  <2> QED BY <1>1, <1>3, <2>1, <2>2, <2>3 DEF Larger
<1>7. ASSUME NEW p \in Nat, newBase <= p
      PROVE  p \in Covered(K) <=> p \in Covered(H)
  <2>1. p \in Covered(K) <=> \E k \in K : k[1] <= p /\ p < k[2]
    BY <1>4, CoveredMember
  <2>2. p \in Covered(H) <=> \E h \in H : h[1] <= p /\ p < h[2]
    BY CoveredMember
  <2>3. ASSUME NEW k \in K, k[1] <= p, p < k[2] PROVE \E h \in H : h[1] <= p /\ p < h[2]
    <3>1. PICK h \in above : k = Raised(h, newBase)
      BY <1>2
    <3>2. h \in H /\ h[1] <= p /\ p < h[2]
      BY <1>1, <1>3, <2>3, <3>1 DEF Larger
    <3> QED BY <3>2
  <2>4. ASSUME NEW h \in H, h[1] <= p, p < h[2] PROVE \E k \in K : k[1] <= p /\ p < k[2]
    <3>1. h \in above
      BY <1>1, <1>7, <2>4
    <3>2. Raised(h, newBase) \in K
      BY <1>2, <3>1
    <3>3. Raised(h, newBase)[1] <= p /\ p < Raised(h, newBase)[2]
      BY <1>1, <1>3, <1>7, <2>4, <3>1 DEF Larger
    <3> QED BY <3>2, <3>3
  <2> QED BY <2>1, <2>2, <2>3, <2>4
<1>8. Cardinality(K) <= Cardinality(H)
  <2>1. IsFiniteSet(H)
    BY HolesFinite
  <2>2. IsFiniteSet(above) /\ Cardinality(above) <= Cardinality(H)
    BY <2>1, FS_Subset
  <2> DEFINE f == [h \in above |-> Raised(h, newBase)]
  <2>3. f \in Surjection(above, K)
    BY <1>2 DEF Surjection
  <2>4. IsFiniteSet(K) /\ Cardinality(K) <= Cardinality(above)
    <3> HIDE DEF f, K, above
    <3> QED BY <2>2, <2>3, FS_Surjection
  <2>5. Cardinality(K) \in Nat /\ Cardinality(above) \in Nat /\ Cardinality(H) \in Nat
    BY <2>1, <2>2, <2>4, FS_CardinalityType
  <2> QED BY <2>2, <2>4, <2>5
<1> QED BY <1>4, <1>5, <1>6, <1>7, <1>8

\* The positions of g from one floor up to another.
Between(g, from, to) == {p \in g : from <= p /\ p < to}

\* What lies below a new floor: received positions and bytes of holes.
LEMMA HeadCount ==
    ASSUME NEW b, NEW g, SpanOK(b, g), NEW newBase \in Nat, newBase > b.base
    PROVE  LET cut == IF newBase >= SpanEnd(b) THEN SpanEnd(b) ELSE newBase IN
           /\ HoleBytesBelow(b, cut) \in Nat
           /\ SaturatingSub(cut - b.base, HoleBytesBelow(b, cut))
                = Cardinality(Between(g, b.base, newBase))
           /\ Cardinality(Between(g, b.base, newBase)) \in Nat
<1> DEFINE cut == IF newBase >= SpanEnd(b) THEN SpanEnd(b) ELSE newBase
<1>0. /\ b \in Span /\ g \in SUBSET Nat /\ b.base \in Nat /\ b.len \in Nat /\ b.elided \in Nat
      /\ b.high \in Nat /\ SpanEnd(b) \in Nat /\ SpanEnd(b) = b.base + b.len
      /\ b.holes \in SUBSET (Nat \X Nat)
      /\ Within(b.holes, b.base, SpanEnd(b)) /\ Apart(b.holes) /\ Serves(b, g)
  BY DEF SpanOK, Span, SpanEnd
<1> DEFINE C == Covered(b.holes)
<1>1. C \in SUBSET Int /\ \A p \in C : b.base <= p
  <2>1. C \in SUBSET Int
    BY <1>0, CoveredInt
  <2>2. ASSUME NEW p \in C PROVE b.base <= p
    <3>1. PICK h \in b.holes : h[1] <= p /\ p < h[2]
      BY <1>0, <2>1, CoveredMember
    <3>2. b.base <= h[1] /\ h[1] \in Nat /\ p \in Int
      BY <1>0, <2>1 DEF Within
    <3> QED BY <1>0, <3>1, <3>2
  <2> QED BY <2>1, <2>2
<1>2. cut \in Nat /\ b.base <= cut
  BY <1>0
<1>3. HolePositions(b) = C
  BY DEF HolePositions, Covered
<1>4. Between(g, b.base, newBase) = (b.base..(cut - 1)) \ C
  <2>1. ASSUME NEW p \in Nat
        PROVE  p \in Between(g, b.base, newBase) <=> p \in (b.base..(cut - 1)) \ C
    <3>1. b.base <= p => (p \in g <=> p < SpanEnd(b) /\ p \notin C)
      BY <1>0 DEF Serves
    <3>2. p \in b.base..(cut - 1) <=> b.base <= p /\ p < cut
      BY <1>0, <1>2
    <3>3. p < cut <=> p < newBase /\ p < SpanEnd(b)
      BY <1>0
    <3> QED BY <3>1, <3>2, <3>3 DEF Between
  <2>2. Between(g, b.base, newBase) \subseteq Nat /\ b.base..(cut - 1) \subseteq Nat
    <3>1. Between(g, b.base, newBase) \subseteq Nat
      BY <1>0 DEF Between
    <3>2. b.base..(cut - 1) \subseteq Nat
      <4> HIDE DEF cut
      <4> QED BY <1>0, <1>2
    <3> QED BY <3>1, <3>2
  <2> HIDE DEF cut, C
  <2> QED BY <2>1, <2>2
<1>5. HoleBytesBelow(b, cut) = Cardinality({p \in C : p < cut})
  BY <1>3 DEF HoleBytesBelow
<1> HIDE DEF cut, C
<1>6. /\ Cardinality({p \in C : p < cut}) \in Nat
      /\ SaturatingSub(cut - b.base, Cardinality({p \in C : p < cut}))
           = Cardinality((b.base..(cut - 1)) \ C)
      /\ Cardinality((b.base..(cut - 1)) \ C) \in Nat
  BY <1>0, <1>1, <1>2, CountServed
<1> QED BY <1>4, <1>5, <1>6 DEF cut

LEMMA AdvanceKeeps ==
    ASSUME NEW b, NEW g, SpanOK(b, g), NEW newBase \in Nat, newBase > b.base
    PROVE  LET a == AdvanceBase(b, newBase) IN
           /\ SpanOK(a, g)
           /\ a.base = newBase /\ a.high = b.high
           /\ a.len <= b.len
           /\ Cardinality(a.holes) <= Cardinality(b.holes)
           /\ a.elided = b.elided + Cardinality(Between(g, b.base, newBase))
<1> DEFINE a == AdvanceBase(b, newBase)
           cut == IF newBase >= SpanEnd(b) THEN SpanEnd(b) ELSE newBase
<1>1. /\ b \in Span /\ g \in SUBSET Nat /\ b.base \in Nat /\ b.len \in Nat /\ b.elided \in Nat
      /\ b.high \in Nat /\ SpanEnd(b) \in Nat /\ SpanEnd(b) = b.base + b.len
      /\ b.holes \in SUBSET (Nat \X Nat)
      /\ Within(b.holes, b.base, SpanEnd(b)) /\ Apart(b.holes) /\ Serves(b, g)
  BY DEF SpanOK, Span, SpanEnd
<1>2. /\ a.base = newBase /\ a.high = b.high
      /\ a.len = SaturatingSub(SpanEnd(b), newBase)
      /\ a.holes = Kept(b.holes, newBase)
      /\ a.elided = b.elided + SaturatingSub(cut - b.base, HoleBytesBelow(b, cut))
      /\ a = [b EXCEPT !.base = a.base, !.len = a.len, !.elided = a.elided, !.holes = a.holes]
  BY <1>1 DEF AdvanceBase, Kept, Raised, Span
<1> HIDE DEF a
<1>3. a.len \in Nat /\ a.len <= b.len /\ SpanEnd(a) = Larger(SpanEnd(b), newBase)
  BY <1>1, <1>2 DEF SaturatingSub, Larger, SpanEnd
<1>4. /\ a.holes \in SUBSET (Nat \X Nat)
      /\ Within(a.holes, newBase, SpanEnd(b))
      /\ Apart(a.holes)
      /\ \A p \in Nat : newBase <= p => (p \in Covered(a.holes) <=> p \in Covered(b.holes))
      /\ Cardinality(a.holes) <= Cardinality(b.holes)
  BY <1>1, <1>2, KeptHoles
<1>5. Within(a.holes, a.base, SpanEnd(a))
  <2> SUFFICES ASSUME NEW h \in a.holes PROVE a.base <= h[1] /\ h[1] < h[2] /\ h[2] < SpanEnd(a)
    BY DEF Within
  <2>1. newBase <= h[1] /\ h[1] < h[2] /\ h[2] < SpanEnd(b) /\ h[1] \in Nat /\ h[2] \in Nat
    BY <1>4 DEF Within
  <2> QED BY <1>1, <1>2, <1>3, <2>1 DEF Larger
<1>6. Serves(a, g)
  <2> SUFFICES ASSUME NEW p \in Nat, a.base <= p
               PROVE  p \in g <=> p < SpanEnd(a) /\ p \notin Covered(a.holes)
    BY DEF Serves
  <2>1. p \in g <=> p < SpanEnd(b) /\ p \notin Covered(b.holes)
    BY <1>1, <1>2 DEF Serves
  <2>2. p \in Covered(a.holes) <=> p \in Covered(b.holes)
    BY <1>2, <1>4
  <2>3. p < SpanEnd(a) <=> p < SpanEnd(b)
    BY <1>1, <1>2, <1>3 DEF Larger
  <2> QED BY <2>1, <2>2, <2>3
<1>7. /\ SaturatingSub(cut - b.base, HoleBytesBelow(b, cut)) = Cardinality(Between(g, b.base, newBase))
      /\ Cardinality(Between(g, b.base, newBase)) \in Nat
  BY HeadCount
<1>8. a \in Span
  BY <1>1, <1>2, <1>3, <1>4, <1>7 DEF Span
<1> QED BY <1>1, <1>2, <1>3, <1>4, <1>5, <1>6, <1>7, <1>8 DEF SpanOK, a
-----------------------------------------------------------------------------
(* subtract_range_from_holes, collapse_to_newest and the merge. *)

LEMMA RemainsOfOne ==
    ASSUME NEW h \in Nat \X Nat, h[1] < h[2], NEW start \in Nat, NEW end \in Nat, start < end
    PROVE  /\ \A r \in Remains(h, start, end) :
                  /\ r \in Nat \X Nat
                  /\ h[1] <= r[1] /\ r[1] < r[2] /\ r[2] <= h[2]
                  /\ r[2] <= start \/ end <= r[1]
           /\ \A r, q \in Remains(h, start, end) : r # q => r[2] < q[1] \/ q[2] < r[1]
           /\ \A p \in Nat : h[1] <= p /\ p < h[2] /\ ~(start <= p /\ p < end)
                  => \E r \in Remains(h, start, end) : r[1] <= p /\ p < r[2]
<1>1. h[1] \in Nat /\ h[2] \in Nat
  OBVIOUS
<1>2. CASE h[2] <= start \/ h[1] >= end
  BY <1>1, <1>2 DEF Remains
<1>3. CASE ~(h[2] <= start \/ h[1] >= end)
  <2> DEFINE L == <<h[1], start>>
             U == <<end, h[2]>>
  <2>1. \A r : r \in Remains(h, start, end) <=> (r = L \/ r = U) /\ r[1] < r[2]
    BY <1>3 DEF Remains
  <2>2. /\ L \in Nat \X Nat /\ L[1] = h[1] /\ L[2] = start
        /\ U \in Nat \X Nat /\ U[1] = end /\ U[2] = h[2]
    BY <1>1
  <2> HIDE DEF L, U
  <2>3. ASSUME NEW r \in Remains(h, start, end)
        PROVE  /\ r \in Nat \X Nat
               /\ h[1] <= r[1] /\ r[1] < r[2] /\ r[2] <= h[2]
               /\ r[2] <= start \/ end <= r[1]
    BY <1>1, <1>3, <2>1, <2>2
  <2>4. ASSUME NEW r \in Remains(h, start, end), NEW q \in Remains(h, start, end), r # q
        PROVE  r[2] < q[1] \/ q[2] < r[1]
    BY <1>1, <2>1, <2>2, <2>4
  <2>5. ASSUME NEW p \in Nat, h[1] <= p, p < h[2], ~(start <= p /\ p < end)
        PROVE  \E r \in Remains(h, start, end) : r[1] <= p /\ p < r[2]
    <3>1. CASE p < start
      <4>1. L \in Remains(h, start, end) /\ L[1] <= p /\ p < L[2]
        BY <1>1, <2>1, <2>2, <2>5, <3>1
      <4> QED BY <4>1
    <3>2. CASE end <= p
      <4>1. U \in Remains(h, start, end) /\ U[1] <= p /\ p < U[2]
        BY <1>1, <2>1, <2>2, <2>5, <3>2
      <4> QED BY <4>1
    <3> QED BY <2>5, <3>1, <3>2
  <2> QED BY <2>3, <2>4, <2>5
<1> QED BY <1>2, <1>3

LEMMA SubtractHoles ==
    ASSUME NEW H \in SUBSET (Nat \X Nat), NEW lo \in Nat, NEW hi \in Nat,
           Within(H, lo, hi), Apart(H),
           NEW start \in Nat, NEW end \in Nat, start < end
    PROVE  /\ SubtractRange(H, start, end) \in SUBSET (Nat \X Nat)
           /\ Within(SubtractRange(H, start, end), lo, hi)
           /\ Apart(SubtractRange(H, start, end))
           /\ \A p \in Nat : p \in Covered(SubtractRange(H, start, end))
                             <=> p \in Covered(H) /\ ~(start <= p /\ p < end)
<1> DEFINE R == SubtractRange(H, start, end)
<1>1. \A h \in H : /\ h \in Nat \X Nat /\ h[1] \in Nat /\ h[2] \in Nat
                   /\ lo <= h[1] /\ h[1] < h[2] /\ h[2] < hi
  BY DEF Within
<1>2. \A r : r \in R <=> \E h \in H : r \in Remains(h, start, end)
  BY DEF SubtractRange
<1>3. ASSUME NEW h \in H
      PROVE  /\ \A r \in Remains(h, start, end) :
                    /\ r \in Nat \X Nat /\ r[1] \in Nat /\ r[2] \in Nat
                    /\ h[1] <= r[1] /\ r[1] < r[2] /\ r[2] <= h[2]
                    /\ r[2] <= start \/ end <= r[1]
             /\ \A r, q \in Remains(h, start, end) : r # q => r[2] < q[1] \/ q[2] < r[1]
             /\ \A p \in Nat : h[1] <= p /\ p < h[2] /\ ~(start <= p /\ p < end)
                    => \E r \in Remains(h, start, end) : r[1] <= p /\ p < r[2]
  BY <1>1, RemainsOfOne
<1> HIDE DEF R
<1>4. R \in SUBSET (Nat \X Nat)
  BY <1>2, <1>3
<1>5. Within(R, lo, hi)
  <2> SUFFICES ASSUME NEW r \in R PROVE lo <= r[1] /\ r[1] < r[2] /\ r[2] < hi
    BY DEF Within
  <2>1. PICK h \in H : r \in Remains(h, start, end)
    BY <1>2
  <2> QED BY <1>1, <1>3, <2>1
<1>6. Apart(R)
  <2> SUFFICES ASSUME NEW r \in R, NEW q \in R, r # q PROVE r[2] < q[1] \/ q[2] < r[1]
    BY DEF Apart
  <2>1. PICK h \in H : r \in Remains(h, start, end)
    BY <1>2
  <2>2. PICK k \in H : q \in Remains(k, start, end)
    BY <1>2
  <2>3. CASE h = k
    BY <1>3, <2>1, <2>2, <2>3
  <2>4. CASE h # k
    <3>1. h[2] < k[1] \/ k[2] < h[1]
      BY <2>4 DEF Apart
    <3>2. h[1] <= r[1] /\ r[2] <= h[2] /\ r[1] \in Nat /\ r[2] \in Nat
      BY <1>3, <2>1
    <3>3. k[1] <= q[1] /\ q[2] <= k[2] /\ q[1] \in Nat /\ q[2] \in Nat
      BY <1>3, <2>2
    <3> QED BY <1>1, <3>1, <3>2, <3>3
  <2> QED BY <2>3, <2>4
<1>7. ASSUME NEW p \in Nat
      PROVE  p \in Covered(R) <=> p \in Covered(H) /\ ~(start <= p /\ p < end)
  <2>1. p \in Covered(R) <=> \E r \in R : r[1] <= p /\ p < r[2]
    BY <1>4, CoveredMember
  <2>2. p \in Covered(H) <=> \E h \in H : h[1] <= p /\ p < h[2]
    BY CoveredMember
  <2>3. ASSUME NEW r \in R, r[1] <= p, p < r[2]
        PROVE  (\E h \in H : h[1] <= p /\ p < h[2]) /\ ~(start <= p /\ p < end)
    <3>1. PICK h \in H : r \in Remains(h, start, end)
      BY <1>2
    <3>2. /\ h[1] <= r[1] /\ r[1] < r[2] /\ r[2] <= h[2] /\ r[1] \in Nat /\ r[2] \in Nat
          /\ r[2] <= start \/ end <= r[1]
      BY <1>3, <3>1
    <3>3. h[1] <= p /\ p < h[2] /\ ~(start <= p /\ p < end)
      BY <1>1, <2>3, <3>2
    <3> QED BY <3>3
  <2>4. ASSUME NEW h \in H, h[1] <= p, p < h[2], ~(start <= p /\ p < end)
        PROVE  \E r \in R : r[1] <= p /\ p < r[2]
    <3>1. PICK r \in Remains(h, start, end) : r[1] <= p /\ p < r[2]
      BY <1>3, <2>4
    <3>2. r \in R
      BY <1>2, <3>1
    <3> QED BY <3>1, <3>2
  <2> QED BY <2>1, <2>2, <2>3, <2>4
<1> QED BY <1>4, <1>5, <1>6, <1>7 DEF R

LEMMA SmallestIn ==
    ASSUME NEW T \in SUBSET Nat, T # {}
    PROVE  \E n \in T : \A m \in T : n <= m
<1>1. \A m, n \in Nat : m < n => <<m, n>> \in OpToRel(<, Nat)
  BY DEF OpToRel
<1>2. \E n \in T : \A m \in T : ~(<<m, n>> \in OpToRel(<, Nat))
  BY NatLessThanWellFounded, WFMin
<1>3. ASSUME NEW R, \A m, n \in Nat : m < n => <<m, n>> \in R,
             \E n \in T : \A m \in T : ~(<<m, n>> \in R)
      PROVE  \E n \in T : \A m \in T : n <= m
  <2>1. PICK n \in T : \A m \in T : ~(<<m, n>> \in R)
    BY <1>3
  <2>2. ASSUME NEW m \in T PROVE n <= m
    <3>1. m \in Nat /\ n \in Nat
      OBVIOUS
    <3>2. ~(m < n)
      BY <1>3, <2>1, <3>1, Zenon
    <3> QED BY <3>1, <3>2
  <2> QED BY <2>2
<1> QED BY <1>1, <1>2, <1>3

\* A set of numbers below a bound that is not empty has a largest one.
LEMMA LargestIn ==
    ASSUME NEW S \in SUBSET Nat, S # {}, NEW bound \in Nat, \A x \in S : x <= bound
    PROVE  \E x \in S : \A y \in S : y <= x
<1> DEFINE T == {n \in Nat : \E x \in S : n = bound - x}
<1>1. T \subseteq Nat /\ T # {}
  <2>1. PICK x \in S : TRUE
    OBVIOUS
  <2>2. bound - x \in T
    OBVIOUS
  <2> QED BY <2>2
<1>2. PICK n \in T : \A m \in T : n <= m
  <2> HIDE DEF T
  <2> QED BY <1>1, SmallestIn
<1>3. PICK x \in S : n = bound - x
  BY <1>2
<1>4. ASSUME NEW y \in S PROVE y <= x
  <2>1. bound - y \in T
    OBVIOUS
  <2>2. n <= bound - y
    BY <1>2, <2>1
  <2> QED BY <1>3, <2>2
<1> QED BY <1>4

LEMMA CollapseKeeps ==
    ASSUME NEW b, NEW g, SpanOK(b, g), b.holes # {}
    PROVE  LET c == CollapseToNewest(b) IN
           /\ SpanOK(c, g)
           /\ c.base > b.base /\ c.high = b.high
           /\ c.len <= b.len /\ c.holes = {}
           /\ c.elided = b.elided + Cardinality(Between(g, b.base, c.base))
<1> DEFINE c == CollapseToNewest(b)
           ends == {h[2] : h \in b.holes}
           from == Max(ends)
<1>1. /\ b \in Span /\ g \in SUBSET Nat /\ b.base \in Nat /\ b.len \in Nat /\ b.elided \in Nat
      /\ b.high \in Nat /\ SpanEnd(b) \in Nat /\ SpanEnd(b) = b.base + b.len
      /\ b.holes \in SUBSET (Nat \X Nat)
      /\ Within(b.holes, b.base, SpanEnd(b)) /\ Apart(b.holes) /\ Serves(b, g)
  BY DEF SpanOK, Span, SpanEnd
<1>2. \A h \in b.holes : /\ h[1] \in Nat /\ h[2] \in Nat
                         /\ b.base <= h[1] /\ h[1] < h[2] /\ h[2] < SpanEnd(b)
  BY <1>1 DEF Within
<1>3. from \in ends /\ \A h \in b.holes : h[2] <= from
  <2>1. ends \in SUBSET Nat /\ ends # {} /\ \A x \in ends : x <= SpanEnd(b)
    BY <1>1, <1>2
  <2>2. \E x \in ends : \A y \in ends : x >= y
    <3> HIDE DEF ends
    <3>1. \E x \in ends : \A y \in ends : y <= x
      BY <1>1, <2>1, LargestIn
    <3> QED BY <2>1, <3>1
  <2>3. from \in ends /\ \A y \in ends : from >= y
    <3> HIDE DEF ends
    <3> QED BY <2>2 DEF Max
  <2> QED BY <1>2, <2>1, <2>3
<1>4. from \in Nat /\ b.base < from /\ from < SpanEnd(b)
  BY <1>1, <1>2, <1>3
<1> HIDE DEF from
<1>5. /\ c.base = from /\ c.high = b.high /\ c.len = SpanEnd(b) - from /\ c.holes = {}
      /\ c.elided = b.elided + SaturatingSub(from - b.base, HoleBytesBelow(b, from))
      /\ c = [b EXCEPT !.base = c.base, !.len = c.len, !.elided = c.elided, !.holes = {}]
  BY <1>1 DEF CollapseToNewest, Span, from
<1> HIDE DEF c
<1>6. c.len \in Nat /\ c.len <= b.len /\ SpanEnd(c) = SpanEnd(b)
  BY <1>1, <1>4, <1>5 DEF SpanEnd
<1>7. Serves(c, g)
  <2> SUFFICES ASSUME NEW p \in Nat, from <= p
               PROVE  p \in g <=> p < SpanEnd(c) /\ p \notin Covered(c.holes)
    BY <1>5 DEF Serves
  <2>1. p \notin Covered(c.holes)
    BY <1>5 DEF Covered
  <2>2. p \notin Covered(b.holes)
    <3>1. p \in Covered(b.holes) <=> \E h \in b.holes : h[1] <= p /\ p < h[2]
      BY <1>1, CoveredMember
    <3> QED BY <1>2, <1>3, <1>4, <3>1
  <2>3. p \in g <=> p < SpanEnd(b) /\ p \notin Covered(b.holes)
    BY <1>1, <1>4 DEF Serves
  <2> QED BY <1>6, <2>1, <2>2, <2>3
<1>8. /\ SaturatingSub(from - b.base, HoleBytesBelow(b, from)) = Cardinality(Between(g, b.base, from))
      /\ Cardinality(Between(g, b.base, from)) \in Nat
  BY <1>1, <1>4, HeadCount
<1>9. c \in Span
  BY <1>1, <1>4, <1>5, <1>6, <1>8 DEF Span
<1>10. Within(c.holes, c.base, SpanEnd(c)) /\ Apart(c.holes)
  BY <1>5 DEF Within, Apart
<1> QED BY <1>1, <1>4, <1>5, <1>6, <1>7, <1>8, <1>9, <1>10 DEF SpanOK, c

\* The buffer after steps 2 to 5 of apply_delta, before the holes are bounded.
Gap(b, start) == IF start > SpanEnd(b) THEN {<<SpanEnd(b), start>>} ELSE {}
Merged(b, offset, end) ==
    LET start == Larger(offset, b.base)
    IN [b EXCEPT !.elided = @ + (start - offset),
                 !.holes = SubtractRange(@ \cup Gap(b, start), start, end),
                 !.len = Larger(@, end - b.base)]

\* The gap before a delta is one more hole of the longer span.
LEMMA GapHoles ==
    ASSUME NEW b, NEW g, SpanOK(b, g), NEW start \in Nat, NEW end \in Nat,
           b.base <= start, start < end
    PROVE  LET H == b.holes \cup Gap(b, start)
               hi == Larger(SpanEnd(b), end) IN
           /\ H \in SUBSET (Nat \X Nat)
           /\ Within(H, b.base, hi)
           /\ Apart(H)
           /\ \A p \in Nat : p \in Covered(H)
                             <=> p \in Covered(b.holes) \/ (SpanEnd(b) <= p /\ p < start)
<1> DEFINE H == b.holes \cup Gap(b, start)
           hi == Larger(SpanEnd(b), end)
           e == SpanEnd(b)
           new == <<e, start>>
<1>1. /\ b.base \in Nat /\ b.len \in Nat /\ e \in Nat /\ b.base <= e
      /\ b.holes \in SUBSET (Nat \X Nat) /\ Apart(b.holes)
      /\ \A h \in b.holes : /\ h \in Nat \X Nat /\ h[1] \in Nat /\ h[2] \in Nat
                            /\ b.base <= h[1] /\ h[1] < h[2] /\ h[2] < e
  BY DEF SpanOK, Span, SpanEnd, Within
<1>2. new \in Nat \X Nat /\ new[1] = e /\ new[2] = start
  BY <1>1
<1>3. \A h : h \in H <=> h \in b.holes \/ (h = new /\ start > e)
  BY DEF Gap
<1>4. hi \in Nat /\ e <= hi /\ end <= hi
  BY <1>1 DEF Larger
<1> HIDE DEF H, hi, e, new
<1>5. H \in SUBSET (Nat \X Nat)
  BY <1>1, <1>2, <1>3
<1>6. Within(H, b.base, hi)
  BY <1>1, <1>2, <1>3, <1>4 DEF Within
<1>7. Apart(H)
  BY <1>1, <1>2, <1>3 DEF Apart
<1>8. ASSUME NEW p \in Nat
      PROVE  p \in Covered(H) <=> p \in Covered(b.holes) \/ (e <= p /\ p < start)
  <2>1. p \in Covered(H) <=> \E h \in H : h[1] <= p /\ p < h[2]
    BY <1>5, CoveredMember
  <2>2. p \in Covered(b.holes) <=> \E h \in b.holes : h[1] <= p /\ p < h[2]
    BY <1>1, CoveredMember
  <2>3. e <= p /\ p < start => new \in H
    BY <1>1, <1>3
  <2> QED BY <1>2, <1>3, <2>1, <2>2, <2>3
<1> QED BY <1>5, <1>6, <1>7, <1>8 DEF H, hi, e

LEMMA MergedKeeps ==
    ASSUME NEW b, NEW g, SpanOK(b, g), NEW offset \in Nat, NEW end \in Nat,
           offset < end, b.base < end
    PROVE  LET m == Merged(b, offset, end) IN
           /\ SpanOK(m, g \cup Positions(offset, end))
           /\ m.base = b.base /\ m.high = b.high
           /\ m.len = Larger(b.len, end - b.base)
           /\ m.elided = b.elided + (Larger(offset, b.base) - offset)
<1> DEFINE m == Merged(b, offset, end)
           start == Larger(offset, b.base)
           H == b.holes \cup Gap(b, start)
           hi == Larger(SpanEnd(b), end)
           all == g \cup Positions(offset, end)
<1>1. /\ b \in Span /\ g \in SUBSET Nat /\ b.base \in Nat /\ b.len \in Nat /\ b.elided \in Nat
      /\ b.high \in Nat /\ SpanEnd(b) \in Nat /\ SpanEnd(b) = b.base + b.len
      /\ b.holes \in SUBSET (Nat \X Nat)
      /\ Within(b.holes, b.base, SpanEnd(b)) /\ Apart(b.holes) /\ Serves(b, g)
  BY DEF SpanOK, Span, SpanEnd
<1>2. start \in Nat /\ b.base <= start /\ offset <= start /\ start < end
      /\ (start = offset \/ start = b.base)
  BY <1>1 DEF Larger
<1>3. /\ H \in SUBSET (Nat \X Nat) /\ Within(H, b.base, hi) /\ Apart(H)
      /\ \A p \in Nat : p \in Covered(H)
                        <=> p \in Covered(b.holes) \/ (SpanEnd(b) <= p /\ p < start)
  <2> HIDE DEF start
  <2> QED BY <1>2, GapHoles
<1>4. hi \in Nat
  BY <1>1 DEF Larger
<1>5. /\ m.base = b.base /\ m.high = b.high
      /\ m.len = Larger(b.len, end - b.base)
      /\ m.elided = b.elided + (start - offset)
      /\ m.holes = SubtractRange(H, start, end)
      /\ m = [b EXCEPT !.elided = m.elided, !.holes = m.holes, !.len = m.len]
  BY <1>1 DEF Merged, Span
<1>6. m.len \in Nat /\ SpanEnd(m) = hi
  BY <1>1, <1>5 DEF Larger, SpanEnd
<1> HIDE DEF m, start, H, hi
<1>7. /\ m.holes \in SUBSET (Nat \X Nat)
      /\ Within(m.holes, b.base, hi)
      /\ Apart(m.holes)
      /\ \A p \in Nat : p \in Covered(m.holes) <=> p \in Covered(H) /\ ~(start <= p /\ p < end)
  BY <1>1, <1>2, <1>3, <1>4, <1>5, SubtractHoles
<1>8. all \in SUBSET Nat /\ \A p \in Nat : p \in all <=> p \in g \/ (offset <= p /\ p < end)
  BY <1>1 DEF Positions
<1> HIDE DEF all
<1>9. Serves(m, all)
  <2> SUFFICES ASSUME NEW p \in Nat, b.base <= p
               PROVE  p \in all <=> p < SpanEnd(m) /\ p \notin Covered(m.holes)
    BY <1>5 DEF Serves
  <2>1. p \in g <=> p < SpanEnd(b) /\ p \notin Covered(b.holes)
    BY <1>1 DEF Serves
  <2>2. p \in Covered(b.holes) => p < SpanEnd(b)
    <3>1. p \in Covered(b.holes) <=> \E h \in b.holes : h[1] <= p /\ p < h[2]
      BY <1>1, CoveredMember
    <3> QED BY <1>1, <3>1 DEF Within
  <2>3. p \in Covered(m.holes) <=> /\ p \in Covered(b.holes) \/ (SpanEnd(b) <= p /\ p < start)
                                   /\ ~(start <= p /\ p < end)
    BY <1>3, <1>7
  <2>4. offset <= p <=> start <= p
    BY <1>1, <1>2
  <2>5. p < SpanEnd(m) <=> p < SpanEnd(b) \/ p < end
    BY <1>1, <1>6 DEF hi, Larger
  <2> QED BY <1>1, <1>2, <1>8, <2>1, <2>2, <2>3, <2>4, <2>5
<1>10. m \in Span
  BY <1>1, <1>2, <1>5, <1>6, <1>7 DEF Span
<1>11. m.elided = b.elided + (Larger(offset, b.base) - offset)
  BY <1>5 DEF start
<1> QED BY <1>5, <1>6, <1>7, <1>8, <1>9, <1>10, <1>11 DEF SpanOK, m, all
-----------------------------------------------------------------------------
(* apply_delta and clear. *)

\* A buffer and the positions it was ever given.
BufferOK(b, g) ==
    /\ b \in Buffer /\ SpanOK(b, g)
    /\ Cardinality(b.holes) <= MaxHoles
    /\ \A p \in g : p < b.high

LEMMA BufferIsSpan == Buffer \subseteq Span
BY BufferAssumption DEF Buffer, Span

LEMMA NewBufferOK == BufferOK(NewBuffer, {})
<1>1. NewBuffer \in Buffer
  BY BufferAssumption DEF NewBuffer, Buffer
<1>2. Serves(NewBuffer, {})
  BY DEF Serves, NewBuffer, SpanEnd
<1>3. Within(NewBuffer.holes, NewBuffer.base, SpanEnd(NewBuffer)) /\ Apart(NewBuffer.holes)
  BY DEF NewBuffer, Within, Apart
<1>4. Cardinality(NewBuffer.holes) <= MaxHoles
  BY FS_EmptySet, BufferAssumption DEF NewBuffer
<1> QED BY <1>1, <1>2, <1>3, <1>4, BufferIsSpan DEF BufferOK, SpanOK

LEMMA ClearOK ==
    ASSUME NEW b, NEW g, BufferOK(b, g)
    PROVE  BufferOK(Clear(b), g) /\ Clear(b).elided = b.elided
<1> DEFINE c == Clear(b)
<1>1. b \in Buffer /\ g \in SUBSET Nat /\ b.high \in Nat /\ \A p \in g : p < b.high
  BY DEF BufferOK, SpanOK, Buffer
<1>2. /\ c \in Buffer /\ c.base = b.high /\ c.len = 0 /\ c.holes = {} /\ c.high = b.high
      /\ c.elided = b.elided
  <2>1. 0 \in 0..MaxBytes /\ {} \in SUBSET (Nat \X Nat)
    BY BufferAssumption
  <2>2. /\ c.base = b.high /\ c.len = 0 /\ c.holes = {} /\ c.high = b.high
        /\ c.elided = b.elided
    BY <1>1 DEF Clear, Buffer
  <2>3. c \in Buffer
    BY <1>1, <2>1 DEF Clear, Buffer
  <2> QED BY <2>2, <2>3
<1> HIDE DEF c
<1>3. SpanEnd(c) = b.high
  BY <1>1, <1>2 DEF SpanEnd
<1>4. Serves(c, g)
  BY <1>1, <1>2, <1>3 DEF Serves
<1>5. Within(c.holes, c.base, SpanEnd(c)) /\ Apart(c.holes)
  BY <1>2 DEF Within, Apart
<1>6. Cardinality(c.holes) <= MaxHoles
  BY <1>2, FS_EmptySet, BufferAssumption
<1>7. \A p \in g : p < c.high
  BY <1>1, <1>2
<1> QED BY <1>1, <1>2, <1>4, <1>5, <1>6, <1>7, BufferIsSpan DEF BufferOK, SpanOK, c

\* The positions of a delta below a floor.
Below(delta, floor) == {p \in delta : p < floor}

LEMMA CountBelow ==
    ASSUME NEW offset \in Nat, NEW end \in Nat, NEW floor \in Nat, offset < end
    PROVE  Cardinality(Below(Positions(offset, end), floor))
             = IF end <= floor THEN end - offset ELSE Larger(offset, floor) - offset
<1> DEFINE top == IF end <= floor THEN end ELSE Larger(offset, floor)
<1>1. top \in Nat /\ offset <= top
  BY DEF Larger
<1>2. Below(Positions(offset, end), floor) = offset..(top - 1)
  <2>1. \A p \in Int : (offset <= p /\ p <= end - 1 /\ p < floor) <=> (offset <= p /\ p <= top - 1)
    BY DEF Larger
  <2>2. top - 1 \in Int /\ end - 1 \in Int /\ offset \in Int
    BY <1>1
  <2> HIDE DEF top
  <2>3. \A p : p \in Positions(offset, end) <=> p \in Int /\ offset <= p /\ p <= end - 1
    BY DEF Positions
  <2>4. \A p : p \in offset..(top - 1) <=> p \in Int /\ offset <= p /\ p <= top - 1
    BY <2>2
  <2>5. \A p : p \in Below(Positions(offset, end), floor) <=> p \in offset..(top - 1)
    BY <2>1, <2>3, <2>4 DEF Below
  <2> QED BY <2>5
<1>3. Cardinality(offset..(top - 1)) = IF offset > top - 1 THEN 0 ELSE (top - 1) - offset + 1
  <2>1. offset \in Int /\ top - 1 \in Int
    BY <1>1
  <2> HIDE DEF top
  <2> QED BY <2>1, FS_Interval
<1>4. Cardinality(offset..(top - 1)) = top - offset
  <2> HIDE DEF top
  <2> QED BY <1>1, <1>3
<1> QED BY <1>2, <1>4

LEMMA NothingBetween ==
    ASSUME NEW g \in SUBSET Nat, NEW from \in Nat
    PROVE  Cardinality(Between(g, from, from)) = 0
<1>1. \A p \in g : ~(from <= p /\ p < from)
  OBVIOUS
<1>2. Between(g, from, from) = {}
  BY <1>1 DEF Between
<1> QED BY <1>2, FS_EmptySet

\* The largest position of a delta is the one before its end.
LEMMA LastOfDelta ==
    ASSUME NEW offset \in Nat, NEW end \in Nat, offset < end
    PROVE  /\ Positions(offset, end) # {}
           /\ 1 + (CHOOSE p \in Positions(offset, end) : \A q \in Positions(offset, end) : q <= p)
                = end
<1> DEFINE delta == Positions(offset, end)
           top == CHOOSE p \in delta : \A q \in delta : q <= p
<1>1. \A p : p \in delta <=> p \in Int /\ offset <= p /\ p <= end - 1
  BY DEF Positions
<1>2. end - 1 \in delta /\ \A q \in delta : q <= end - 1
  BY <1>1
<1> HIDE DEF delta
<1>3. top \in delta /\ \A q \in delta : q <= top
  BY <1>2
<1>4. top = end - 1
  <2> HIDE DEF top
  <2> QED BY <1>1, <1>2, <1>3
<1>5. delta # {} /\ 1 + top = end
  <2> HIDE DEF top
  <2> QED BY <1>2, <1>4
<1> QED BY <1>5 DEF delta

LEMMA GivenUpOfNothing ==
    ASSUME NEW b, NEW g \in SUBSET Nat, NEW new, b.base \in Nat, new.base = b.base
    PROVE  GivenUp(b, g, {}, new) = 0
<1>1. GivenUp(b, g, {}, new) = Cardinality({}) + Cardinality(Between(g, b.base, b.base))
                               + Cardinality(Between(g, b.base, b.base))
  <2>1. {p \in {} : p < b.base} = {} /\ g \cup {} = g
    OBVIOUS
  <2> QED BY <2>1 DEF GivenUp, Between
<1>2. Cardinality({}) = 0
  BY FS_EmptySet
<1> QED BY <1>1, <1>2, NothingBetween

\* apply_delta keeps a buffer in order, gives it the positions of the delta, and
\* counts in elided_bytes what is given up.
LEMMA ApplyOK ==
    ASSUME NEW b, NEW g, BufferOK(b, g), NEW offset \in Nat, NEW n \in Nat
    PROVE  LET accepted == IF offset + n > MaxOffset THEN {} ELSE Positions(offset, offset + n)
               new == ApplyDelta(b, offset, n) IN
           /\ BufferOK(new, g \cup accepted)
           /\ GivenUp(b, g, accepted, new) \in Nat
           /\ new.elided = b.elided + GivenUp(b, g, accepted, new)
<1> DEFINE end == offset + n
           accepted == IF end > MaxOffset THEN {} ELSE Positions(offset, end)
           new == ApplyDelta(b, offset, n)
           seen == [b EXCEPT !.high = Larger(@, end)]
           low == SaturatingSub(end, MaxBytes)
           ring == IF low > b.base THEN AdvanceBase(seen, low) ELSE seen
           floor == Larger(b.base, low)
<1>1. /\ b \in Buffer /\ b \in Span /\ g \in SUBSET Nat /\ end \in Nat
      /\ b.base \in Nat /\ b.len \in 0..MaxBytes /\ b.high \in Nat /\ b.elided \in Nat
      /\ SpanOK(b, g) /\ \A p \in g : p < b.high
      /\ Cardinality(b.holes) <= MaxHoles
  BY BufferIsSpan DEF BufferOK, SpanOK, Buffer
<1>2. /\ seen \in Buffer /\ seen.base = b.base /\ seen.len = b.len /\ seen.holes = b.holes
      /\ seen.elided = b.elided /\ seen.high = Larger(b.high, end)
  BY <1>1 DEF Buffer, Larger
<1>3. /\ Larger(b.high, end) \in Nat /\ b.high <= Larger(b.high, end)
      /\ end <= Larger(b.high, end)
  BY <1>1 DEF Larger
<1> HIDE DEF seen
<1>4. SpanOK(seen, g)
  <2>1. SpanEnd(seen) = SpanEnd(b)
    BY <1>2 DEF SpanEnd
  <2>2. seen \in Span
    BY <1>2, BufferIsSpan
  <2> QED BY <1>1, <1>2, <2>1, <2>2 DEF SpanOK, Serves
<1>5. BufferOK(seen, g)
  BY <1>1, <1>2, <1>3, <1>4 DEF BufferOK
<1>6. CASE end > MaxOffset
  <2>1. new = b /\ accepted = {}
    BY <1>6, <1>1, BufferAssumption DEF ApplyDelta
  <2>2. GivenUp(b, g, {}, b) = 0
    BY <1>1, GivenUpOfNothing
  <2>3. g \cup {} = g
    OBVIOUS
  <2> HIDE DEF new, accepted
  <2>4. /\ BufferOK(new, g \cup accepted)
        /\ GivenUp(b, g, accepted, new) \in Nat
        /\ new.elided = b.elided + GivenUp(b, g, accepted, new)
    BY <1>1, <2>1, <2>2, <2>3
  <2> QED BY <2>4 DEF new, accepted
<1>7. CASE end <= MaxOffset /\ n = 0
  <2>1. new = seen /\ accepted = {}
    <3>1. ~(end > MaxOffset)
      BY <1>1, <1>7, BufferAssumption
    <3>2. Positions(offset, end) = {}
      BY <1>7 DEF Positions
    <3> QED BY <1>7, <3>1, <3>2 DEF ApplyDelta, seen
  <2>2. GivenUp(b, g, {}, seen) = 0
    BY <1>1, <1>2, GivenUpOfNothing
  <2>3. g \cup {} = g
    OBVIOUS
  <2> HIDE DEF new, accepted
  <2>4. /\ BufferOK(new, g \cup accepted)
        /\ GivenUp(b, g, accepted, new) \in Nat
        /\ new.elided = b.elided + GivenUp(b, g, accepted, new)
    BY <1>1, <1>2, <1>5, <2>1, <2>2, <2>3
  <2> QED BY <2>4 DEF new, accepted
<1>8. CASE end <= MaxOffset /\ n > 0
  <2>1. new = Merge(ring, offset, end) /\ accepted = Positions(offset, end)
    <3>1. ~(end > MaxOffset) /\ n # 0
      BY <1>1, <1>8, BufferAssumption
    <3> QED BY <3>1 DEF ApplyDelta, seen
  <2>2. offset < end /\ low \in Nat /\ floor \in Nat /\ end - floor <= MaxBytes /\ b.base <= floor
        /\ (floor = b.base \/ (floor = low /\ low > b.base)) /\ low < end
    BY <1>1, <1>8, BufferAssumption DEF SaturatingSub, Larger
  <2>3. /\ SpanOK(ring, g) /\ ring.base = floor /\ ring.high = Larger(b.high, end)
        /\ ring.len \in 0..MaxBytes
        /\ Cardinality(ring.holes) <= MaxHoles
        /\ Cardinality(Between(g, b.base, floor)) \in Nat
        /\ ring.elided = b.elided + Cardinality(Between(g, b.base, floor))
    <3>1. CASE low > b.base
      <4>1. ring = AdvanceBase(seen, low) /\ floor = low
        BY <1>1, <2>2, <3>1 DEF Larger
      <4> HIDE DEF ring, low, floor
      <4>2. /\ SpanOK(ring, g) /\ ring.base = low /\ ring.high = seen.high
            /\ ring.len <= seen.len
            /\ Cardinality(ring.holes) <= Cardinality(seen.holes)
            /\ ring.elided = seen.elided + Cardinality(Between(g, seen.base, low))
        BY <1>2, <1>4, <2>2, <3>1, <4>1, AdvanceKeeps
      <4>3. Cardinality(Between(g, b.base, low)) \in Nat
        BY <1>1, <2>2, <3>1, HeadCount
      <4>4. ring.len \in Nat /\ ring.holes \in SUBSET (Nat \X Nat)
            /\ Within(ring.holes, ring.base, SpanEnd(ring)) /\ ring.base \in Nat
            /\ SpanEnd(ring) \in Nat
        BY <4>2 DEF SpanOK, Span, SpanEnd
      <4>5. IsFiniteSet(ring.holes)
        BY <4>4, HolesFinite
      <4>6. IsFiniteSet(b.holes)
        <5>1. b.holes \in SUBSET (Nat \X Nat) /\ SpanEnd(b) \in Nat
              /\ Within(b.holes, b.base, SpanEnd(b))
          BY <1>1 DEF SpanOK, Span, SpanEnd
        <5> QED BY <1>1, <5>1, HolesFinite
      <4>7. Cardinality(ring.holes) \in Nat /\ Cardinality(b.holes) \in Nat
        BY <4>5, <4>6, FS_CardinalityType
      <4>8. ring.len \in 0..MaxBytes
        BY <1>1, <1>2, <4>2, <4>4, BufferAssumption
      <4>9. Cardinality(ring.holes) <= MaxHoles
        BY <1>1, <1>2, <4>2, <4>7, BufferAssumption
      <4> QED BY <1>1, <1>2, <4>1, <4>2, <4>3, <4>8, <4>9
    <3>2. CASE ~(low > b.base)
      <4>1. ring = seen /\ floor = b.base
        BY <1>1, <2>2, <3>2 DEF Larger
      <4> HIDE DEF ring, low, floor
      <4>2. Cardinality(Between(g, b.base, b.base)) = 0
        BY <1>1, NothingBetween
      <4> QED BY <1>1, <1>2, <1>4, <4>1, <4>2
    <3> QED BY <3>1, <3>2
  <2>4. GivenUp(b, g, Positions(offset, end), new)
          = Cardinality(Below(Positions(offset, end), floor))
            + Cardinality(Between(g, b.base, floor))
            + Cardinality(Between(g \cup Positions(offset, end), floor, new.base))
    <3>1. floor = Larger(b.base, SaturatingSub(end, MaxBytes))
      OBVIOUS
    <3> HIDE DEF new, end, floor, low
    <3>2. b.base \in Nat /\ end \in Nat /\ offset < end
      BY <1>1, <2>2
    <3>3. /\ Positions(offset, end) # {}
          /\ 1 + (CHOOSE p \in Positions(offset, end) : \A q \in Positions(offset, end) : q <= p)
               = end
      BY <3>2, LastOfDelta
    <3> QED BY <3>1, <3>3 DEF GivenUp, Below, Between
  <2>5. Cardinality(Below(Positions(offset, end), floor))
          = IF end <= floor THEN end - offset ELSE Larger(offset, floor) - offset
    <3> HIDE DEF end, floor
    <3> QED BY <1>1, <2>2, CountBelow
  <2> DEFINE all == g \cup Positions(offset, end)
  <2>6. all \in SUBSET Nat /\ \A p \in Nat : p \in all <=> p \in g \/ (offset <= p /\ p < end)
    BY <1>1 DEF Positions
  <2>7. \A p \in all : p < ring.high
    <3>1. \A p \in g : p < Larger(b.high, end)
      BY <1>1, <1>3
    <3>2. \A p \in Positions(offset, end) : p < Larger(b.high, end)
      BY <1>1, <1>3 DEF Positions
    <3> QED BY <2>3, <3>1, <3>2
  <2> HIDE DEF end, accepted, new, low, ring, floor, all
  <2>8. ring \in Span /\ ring.elided \in Nat /\ ring.high \in Nat
    BY <2>3 DEF SpanOK, Span
  <2>9. CASE end <= floor
    <3>1. new = [ring EXCEPT !.elided = @ + (end - offset)]
      BY <2>1, <2>3, <2>9 DEF Merge
    <3>2. /\ new.base = floor /\ new.len = ring.len /\ new.holes = ring.holes
          /\ new.high = ring.high /\ new.elided = ring.elided + (end - offset) /\ new \in Span
      BY <1>1, <2>2, <2>3, <2>8, <3>1 DEF Span
    <3>3. SpanEnd(new) = SpanEnd(ring)
      BY <2>3, <3>2 DEF SpanEnd
    <3>4. Serves(new, all)
      <4> SUFFICES ASSUME NEW p \in Nat, floor <= p
                   PROVE  p \in all <=> p < SpanEnd(new) /\ p \notin Covered(new.holes)
        BY <3>2 DEF Serves
      <4>1. p \in g <=> p < SpanEnd(ring) /\ p \notin Covered(ring.holes)
        BY <2>3 DEF SpanOK, Serves
      <4>2. ~(p < end)
        BY <1>1, <2>2, <2>9
      <4> QED BY <2>6, <3>2, <3>3, <4>1, <4>2
    <3>5. SpanOK(new, all)
      BY <2>3, <2>6, <3>2, <3>3, <3>4 DEF SpanOK
    <3>6. new \in Buffer
      BY <2>3, <3>2 DEF Buffer, Span
    <3>7. BufferOK(new, all)
      BY <2>3, <2>7, <3>2, <3>5, <3>6 DEF BufferOK
    <3>8. Cardinality(Between(all, floor, new.base)) = 0
      BY <2>2, <2>6, <3>2, NothingBetween
    <3>9. /\ GivenUp(b, g, Positions(offset, end), new)
               = (end - offset) + Cardinality(Between(g, b.base, floor))
          /\ GivenUp(b, g, Positions(offset, end), new) \in Nat
      BY <1>1, <2>2, <2>3, <2>4, <2>5, <2>9, <3>8 DEF all
    <3>10. new.elided = b.elided + GivenUp(b, g, Positions(offset, end), new)
      BY <1>1, <2>2, <2>3, <3>2, <3>9
    <3> QED BY <2>1, <3>7, <3>9, <3>10 DEF all, end, accepted, new
  <2>10. CASE ~(end <= floor)
    <3> DEFINE m == Merged(ring, offset, end)
               start == Larger(offset, floor)
    <3>1. /\ SpanOK(m, all) /\ m.base = floor /\ m.high = ring.high
          /\ m.len = Larger(ring.len, end - floor)
          /\ m.elided = ring.elided + (start - offset)
      <4>1. ring.base < end
        BY <1>1, <2>2, <2>3, <2>10
      <4>2. LET r == Merged(ring, offset, end) IN
            /\ SpanOK(r, g \cup Positions(offset, end))
            /\ r.base = ring.base /\ r.high = ring.high
            /\ r.len = Larger(ring.len, end - ring.base)
            /\ r.elided = ring.elided + (Larger(offset, ring.base) - offset)
        <5> HIDE DEF m, start
        <5> QED BY <1>1, <2>2, <2>3, <4>1, MergedKeeps
      <4> QED BY <2>3, <4>2 DEF all
    <3>2. start \in Nat /\ offset <= start
      BY <2>2 DEF Larger
    <3>3. new = IF Cardinality(m.holes) > MaxHoles THEN CollapseToNewest(m) ELSE m
      BY <2>1, <2>3, <2>10 DEF Merge, Merged, Gap
    <3> HIDE DEF m, start
    <3>4. m.len \in 0..MaxBytes
      BY <1>1, <2>2, <2>3, <2>10, <3>1, BufferAssumption DEF Larger
    <3>5. m \in Span /\ m.elided \in Nat
      BY <3>1 DEF SpanOK, Span
    <3>6. IsFiniteSet(m.holes) /\ Cardinality(m.holes) \in Nat
      <4>1. m.holes \in SUBSET (Nat \X Nat) /\ m.base \in Nat /\ SpanEnd(m) \in Nat
            /\ Within(m.holes, m.base, SpanEnd(m))
        BY <3>1 DEF SpanOK, Span, SpanEnd
      <4>2. IsFiniteSet(m.holes)
        BY <4>1, HolesFinite
      <4> QED BY <4>2, FS_CardinalityType
    <3>7. /\ BufferOK(new, all)
          /\ Cardinality(Between(all, floor, new.base)) \in Nat
          /\ new.elided = m.elided + Cardinality(Between(all, floor, new.base))
      <4>1. CASE Cardinality(m.holes) > MaxHoles
        <5>1. new = CollapseToNewest(m)
          BY <3>3, <4>1
        <5>2. m.holes # {}
          BY <4>1, FS_EmptySet, BufferAssumption
        <5>3. /\ SpanOK(new, all) /\ new.base > m.base /\ new.high = m.high
              /\ new.len <= m.len /\ new.holes = {}
              /\ new.elided = m.elided + Cardinality(Between(all, m.base, new.base))
          BY <3>1, <5>1, <5>2, CollapseKeeps
        <5>4. new \in Span /\ new.base \in Nat /\ new.len \in Nat
          BY <5>3 DEF SpanOK, Span
        <5>5. Cardinality(Between(all, m.base, new.base)) \in Nat
          BY <3>1, <5>3, <5>4, HeadCount
        <5>6. new.len \in 0..MaxBytes
          BY <3>4, <5>3, <5>4, BufferAssumption
        <5>7. new \in Buffer
          BY <5>4, <5>6 DEF Buffer, Span
        <5>8. Cardinality(new.holes) <= MaxHoles
          BY <5>3, FS_EmptySet, BufferAssumption
        <5>9. \A p \in all : p < new.high
          BY <2>7, <3>1, <5>3
        <5> QED BY <3>1, <5>3, <5>5, <5>7, <5>8, <5>9 DEF BufferOK
      <4>2. CASE ~(Cardinality(m.holes) > MaxHoles)
        <5>1. new = m
          BY <3>3, <4>2
        <5>2. m \in Buffer
          BY <3>4, <3>5 DEF Buffer, Span
        <5>3. Cardinality(m.holes) <= MaxHoles
          BY <3>6, <4>2, BufferAssumption
        <5>4. BufferOK(m, all)
          BY <2>7, <3>1, <5>2, <5>3 DEF BufferOK
        <5>5. Cardinality(Between(all, floor, m.base)) = 0
          BY <2>2, <2>6, <3>1, NothingBetween
        <5> QED BY <3>5, <5>1, <5>4, <5>5
      <4> QED BY <4>1, <4>2
    <3>8. /\ GivenUp(b, g, Positions(offset, end), new)
               = (start - offset) + Cardinality(Between(g, b.base, floor))
                 + Cardinality(Between(all, floor, new.base))
          /\ GivenUp(b, g, Positions(offset, end), new) \in Nat
      BY <2>2, <2>3, <2>4, <2>5, <2>10, <3>2, <3>7 DEF all, start
    <3>9. new.elided = b.elided + GivenUp(b, g, Positions(offset, end), new)
      BY <1>1, <2>2, <2>3, <3>1, <3>2, <3>7, <3>8
    <3> QED BY <2>1, <3>7, <3>8, <3>9 DEF all, end, accepted, new
  <2> QED BY <2>9, <2>10
<1> QED BY <1>1, <1>6, <1>7, <1>8, BufferAssumption
-----------------------------------------------------------------------------
(* The hold: who is older than whom, and the cap. *)

Ordered(H, order) ==
    /\ order \subseteq H \X H
    /\ \A s, t \in H : <<s, t>> \in order <=> s # t /\ <<t, s>> \notin order
    /\ \A s, t, u \in H : <<s, t>> \in order /\ <<t, u>> \in order => <<s, u>> \in order

LEMMA WithoutMember ==
    ASSUME NEW order, NEW gone, NEW s, NEW t
    PROVE  <<s, t>> \in Without(order, gone)
             <=> <<s, t>> \in order /\ s \notin gone /\ t \notin gone
BY DEF Without

LEMMA WithoutOrdered ==
    ASSUME NEW H, NEW order, Ordered(H, order), NEW gone
    PROVE  Ordered(H \ gone, Without(order, gone))
<1>1. Without(order, gone) \subseteq (H \ gone) \X (H \ gone)
  BY DEF Without, Ordered
<1>2. \A s, t \in H \ gone : <<s, t>> \in Without(order, gone) <=> <<s, t>> \in order
  BY WithoutMember
<1> HIDE DEF Without
<1> QED BY <1>1, <1>2 DEF Ordered

LEMMA LastOrdered ==
    ASSUME NEW H, NEW order, Ordered(H, order), NEW s
    PROVE  Ordered(H \cup {s}, Without(order, {s}) \cup {<<t, s>> : t \in H \ {s}})
<1> DEFINE o == Without(order, {s}) \cup {<<t, s>> : t \in H \ {s}}
           A == H \cup {s}
<1>1. Ordered(H \ {s}, Without(order, {s}))
  BY WithoutOrdered
<1>2. \A t, u \in A :
         <<t, u>> \in o <=> <<t, u>> \in Without(order, {s}) \/ (t \in H \ {s} /\ u = s)
  OBVIOUS
<1>3. \A t, u : <<t, u>> \in Without(order, {s}) => t \in H \ {s} /\ u \in H \ {s}
  BY <1>1 DEF Ordered
<1>4. o \subseteq A \X A
  BY <1>1 DEF Ordered
<1> HIDE DEF o
<1>5. ASSUME NEW t \in A, NEW u \in A
      PROVE  <<t, u>> \in o <=> t # u /\ <<u, t>> \notin o
  <2>1. CASE t = s
    BY <1>2, <1>3, <2>1
  <2>2. CASE u = s
    BY <1>2, <1>3, <2>2
  <2>3. CASE t # s /\ u # s
    BY <1>1, <1>2, <2>3 DEF Ordered
  <2> QED BY <2>1, <2>2, <2>3
<1>6. ASSUME NEW t \in A, NEW u \in A, NEW v \in A, <<t, u>> \in o, <<u, v>> \in o
      PROVE  <<t, v>> \in o
  <2>1. t \in H \ {s} /\ u \in H \ {s}
    BY <1>2, <1>3, <1>6
  <2>2. CASE v = s
    BY <1>2, <2>1, <2>2
  <2>3. CASE v # s
    BY <1>1, <1>2, <1>6, <2>1, <2>3 DEF Ordered
  <2> QED BY <2>2, <2>3
<1> QED BY <1>4, <1>5, <1>6 DEF Ordered, o

\* enforce_cap leaves as many sessions as the hold has room for.
LEMMA EvictedBound ==
    ASSUME NEW H, NEW order, Ordered(H, order), IsFiniteSet(H)
    PROVE  /\ IsFiniteSet(H \ Evicted(H, order))
           /\ Cardinality(H \ Evicted(H, order)) <= MaxHeld
<1> DEFINE Newer(s) == {t \in H : <<s, t>> \in order}
           K == H \ Evicted(H, order)
           Counts == {Cardinality(Newer(s)) : s \in K}
<1>1. \A s \in H : IsFiniteSet(Newer(s)) /\ Cardinality(Newer(s)) \in Nat
  <2> SUFFICES ASSUME NEW s \in H PROVE IsFiniteSet(Newer(s)) /\ Cardinality(Newer(s)) \in Nat
    OBVIOUS
  <2>1. IsFiniteSet(Newer(s))
    BY FS_Subset
  <2> QED BY <2>1, FS_CardinalityType
<1>2. K \subseteq H /\ \A s \in K : ~(Cardinality(Newer(s)) >= MaxHeld)
  BY DEF Evicted
<1>3. IsFiniteSet(K) /\ Cardinality(K) \in Nat
  <2>1. IsFiniteSet(K)
    BY <1>2, FS_Subset
  <2> QED BY <2>1, FS_CardinalityType
<1>4. MaxHeld \in Nat /\ MaxHeld > 0
  BY TranscriptAssumption
<1> HIDE DEF K
<1>5. CASE K = {}
  <2>1. Cardinality(K) = 0
    BY <1>5, FS_EmptySet
  <2> QED BY <1>3, <1>4, <2>1 DEF K
<1>6. CASE K # {}
  <2>1. PICK m \in K : \A k \in K : Cardinality(Newer(k)) <= Cardinality(Newer(m))
    <3>1. Counts \in SUBSET Nat /\ Counts # {} /\ \A x \in Counts : x <= MaxHeld
      <4>1. \A s \in K : Cardinality(Newer(s)) \in Nat /\ Cardinality(Newer(s)) <= MaxHeld
        <5> HIDE DEF Newer
        <5> QED BY <1>1, <1>2, <1>4
      <4> HIDE DEF Newer
      <4> QED BY <1>6, <4>1
    <3>2. \E x \in Counts : \A y \in Counts : y <= x
      <4> HIDE DEF Counts
      <4> QED BY <1>4, <3>1, LargestIn
    <3> QED BY <3>2
  <2>2. m \in H /\ Cardinality(Newer(m)) < MaxHeld /\ Cardinality(Newer(m)) \in Nat
    <3> HIDE DEF Newer
    <3> QED BY <1>1, <1>2, <1>4
  <2>3. ASSUME NEW k \in K, k # m PROVE k \in Newer(m)
    <3> SUFFICES ASSUME <<m, k>> \notin order PROVE FALSE
      BY <1>2
    <3>1. k \in H /\ <<k, m>> \in order
      BY <1>2, <2>2, <2>3 DEF Ordered
    <3>2. m \notin Newer(m)
      BY <2>2 DEF Ordered
    <3>3. Newer(m) \cup {m} \subseteq Newer(k)
      BY <2>2, <3>1 DEF Ordered
    <3>4. Cardinality(Newer(m) \cup {m}) = Cardinality(Newer(m)) + 1
      <4>1. IsFiniteSet(Newer(m))
        BY <1>1, <2>2
      <4> HIDE DEF Newer
      <4> QED BY <3>2, <4>1, FS_AddElement
    <3>5. Cardinality(Newer(m) \cup {m}) <= Cardinality(Newer(k))
      <4>1. IsFiniteSet(Newer(k))
        BY <1>1, <3>1
      <4> HIDE DEF Newer
      <4> QED BY <3>3, <4>1, FS_Subset
    <3>6. Cardinality(Newer(k)) <= Cardinality(Newer(m)) /\ Cardinality(Newer(k)) \in Nat
      BY <1>1, <2>1, <3>1
    <3> HIDE DEF Newer
    <3> QED BY <2>2, <3>4, <3>5, <3>6
  <2>4. K \ {m} \subseteq Newer(m)
    <3> HIDE DEF Newer
    <3> QED BY <2>3
  <2>5. Cardinality(K \ {m}) = Cardinality(K) - 1
    BY <1>3, FS_RemoveElement
  <2>6. Cardinality(K \ {m}) <= Cardinality(Newer(m))
    <3>1. IsFiniteSet(Newer(m))
      BY <1>1, <2>2
    <3> HIDE DEF Newer
    <3> QED BY <2>4, <3>1, FS_Subset
  <2>7. Cardinality(K) <= MaxHeld
    <3> HIDE DEF Newer
    <3> QED BY <1>3, <1>4, <2>2, <2>5, <2>6
  <2> QED BY <1>3, <2>7 DEF K
<1> QED BY <1>5, <1>6
-----------------------------------------------------------------------------
(* The inductive invariant. *)

Fine(b, g, o) == BufferOK(b, g) /\ o \in Nat /\ b.elided = o

RegistryShape ==
    /\ sessions \in [Sids -> [feature: Features \cup {NoFeature}, buf: Bufs] \cup {Absent}]
    /\ held \in [Sids -> [feature: Features, buf: Bufs] \cup {Absent}]
    /\ request \in [Workers -> Request]
    /\ arrived \in 0..MaxRequests

\* Transitivity is what makes the oldest sessions the ones that the cap evicts.
HoldOK ==
    /\ Ordered(HeldSids, older)
    /\ IsFiniteSet(HeldSids)
    /\ Cardinality(HeldSids) <= MaxHeld

BuffersOK ==
    /\ bufs \in [Bufs -> Buffer] /\ got \in [Bufs -> SUBSET Nat] /\ owed \in [Bufs -> Nat]
    /\ \A b \in Bufs : Fine(bufs[b], got[b], owed[b])

Alone == \A b \in Bufs : \A o, p \in Owners(b) : o = p

SessionInv == RegistryShape /\ HoldOK /\ BuffersOK /\ Alone

LEMMA NotAbsent ==
    ASSUME NEW F, NEW r \in [feature: F, buf: Bufs]
    PROVE  r # Absent
<1>1. DOMAIN r = {"feature", "buf"} /\ DOMAIN Absent = {"state"}
  BY DEF Absent
<1>2. {"feature", "buf"} # {"state"}
  OBVIOUS
<1> QED BY <1>1, <1>2

LEMMA RegisteredShape ==
    ASSUME RegistryShape
    PROVE  /\ \A s \in Sids : Registered(s) =>
                /\ sessions[s] \in [feature: Features \cup {NoFeature}, buf: Bufs]
                /\ sessions[s].feature \in Features \cup {NoFeature}
                /\ sessions[s].buf \in Bufs
           /\ \A s \in Sids : Held(s) =>
                /\ held[s] \in [feature: Features, buf: Bufs]
                /\ held[s].feature \in Features
                /\ held[s].buf \in Bufs
BY DEF RegistryShape, Registered, Held

LEMMA RequestShape ==
    ASSUME RegistryShape, NEW w \in Workers
    PROVE  /\ request[w].step \in {"readopt", "force"} =>
                /\ request[w].s \in Sids /\ request[w].f \in Features \cup {NoFeature}
                /\ request[w].force \in BOOLEAN
           /\ request[w].step = "insert" =>
                /\ request[w].s \in Sids /\ request[w].f \in Features \cup {NoFeature}
                /\ request[w].force \in BOOLEAN /\ request[w].buf \in Bufs
           /\ request[w].step = "apply" => request[w].d \in Deltas /\ request[w].buf \in Bufs
<1> DEFINE r == request[w]
<1>1. r \in Request
  BY DEF RegistryShape
<1> HIDE DEF r
<1> QED BY <1>1 DEF Request, Idle, r

LEMMA NextFreeIsFree ==
    ASSUME Free # {}
    PROVE  NextFree \in Bufs /\ NextFree \notin Live
<1>1. Free \subseteq Bufs /\ Bufs \subseteq Nat
  BY DEF Free, Bufs
<1>2. \E b \in Free : \A c \in Free : b <= c
  BY <1>1, SmallestIn
<1>3. NextFree \in Free
  BY <1>2 DEF NextFree
<1> QED BY <1>3 DEF Free

LEMMA MemoryOK ==
    ASSUME NEW new, NEW newGot, NEW newOwed, Memory(new, newGot, newOwed),
           \A b \in Bufs : Fine(new[b], newGot[b], newOwed[b])
    PROVE  BuffersOK'
<1>1. Fine(NewBuffer, {}, 0)
  BY NewBufferOK DEF Fine, NewBuffer
<1>2. \A b \in Bufs : Fine(bufs'[b], got'[b], owed'[b])
  <2> SUFFICES ASSUME NEW b \in Bufs PROVE Fine(bufs'[b], got'[b], owed'[b])
    OBVIOUS
  <2>1. CASE b \in Live'
    BY <2>1 DEF Memory
  <2>2. CASE b \notin Live'
    BY <1>1, <2>2 DEF Memory
  <2> QED BY <2>1, <2>2
<1>3. \A b \in Bufs : bufs'[b] \in Buffer /\ got'[b] \in SUBSET Nat /\ owed'[b] \in Nat
  BY <1>2 DEF Fine, BufferOK, SpanOK
<1>4. /\ bufs' = [b \in Bufs |-> bufs'[b]] /\ got' = [b \in Bufs |-> got'[b]]
      /\ owed' = [b \in Bufs |-> owed'[b]]
  BY DEF Memory
<1>5. bufs' \in [Bufs -> Buffer] /\ got' \in [Bufs -> SUBSET Nat] /\ owed' \in [Bufs -> Nat]
  BY <1>3, <1>4
<1> QED BY <1>2, <1>5 DEF BuffersOK

LEMMA PurgedFine ==
    ASSUME BuffersOK, NEW gone
    PROVE  \A b \in Bufs : Fine(Purged(bufs, gone)[b], got[b], owed[b])
<1> SUFFICES ASSUME NEW b \in Bufs PROVE Fine(Purged(bufs, gone)[b], got[b], owed[b])
  OBVIOUS
<1>1. BufferOK(bufs[b], got[b]) /\ owed[b] \in Nat /\ bufs[b].elided = owed[b]
  BY DEF BuffersOK, Fine
<1>2. BufferOK(Clear(bufs[b]), got[b]) /\ Clear(bufs[b]).elided = bufs[b].elided
  BY <1>1, ClearOK
<1> QED BY <1>1, <1>2 DEF Purged, Fine
-----------------------------------------------------------------------------
(* The steps, for each part of the invariant. *)

LEMMA BuffersStep ==
    ASSUME SessionInv, [Next]_vars
    PROVE  BuffersOK'
<1> USE DEF SessionInv
<1>0. BuffersOK
  OBVIOUS
<1>1. ASSUME UNCHANGED bufVars PROVE BuffersOK'
  BY <1>0, <1>1 DEF bufVars, BuffersOK
<1>2. ASSUME NEW gone, Memory(Purged(bufs, gone), got, owed) PROVE BuffersOK'
  BY <1>0, <1>2, PurgedFine, MemoryOK
<1>3. ASSUME Memory(bufs, got, owed) PROVE BuffersOK'
  BY <1>0, <1>3, MemoryOK DEF BuffersOK
<1>4. ASSUME NEW w \in Workers, NEW s \in Sids, NEW f, SessionRegister(w, s, f) PROVE BuffersOK'
  BY <1>1, <1>4 DEF SessionRegister
<1>5. ASSUME NEW w \in Workers, NEW s \in Sids, NEW f, CycleStart(w, s, f) PROVE BuffersOK'
  BY <1>1, <1>5 DEF CycleStart
<1>6. ASSUME NEW w \in Workers, NEW s \in Sids, NEW d, DeltaLookup(w, s, d) PROVE BuffersOK'
  BY <1>1, <1>6 DEF DeltaLookup
<1>7. ASSUME NEW w \in Workers, Readopt(w) PROVE BuffersOK'
  BY <1>2, <1>7 DEF Readopt
<1>8. ASSUME NEW w \in Workers, RegisterInsert(w) PROVE BuffersOK'
  BY <1>3, <1>8 DEF RegisterInsert
<1>9. ASSUME NEW w \in Workers, SetFeatureForce(w) PROVE BuffersOK'
  BY <1>1, <1>9 DEF SetFeatureForce
<1>10. ASSUME NEW w \in Workers, DeltaApply(w) PROVE BuffersOK'
  <2> DEFINE b == request[w].buf
             d == request[w].d
             accepted == IF d[1] + d[2] > MaxOffset THEN {} ELSE Positions(d[1], d[1] + d[2])
             new == ApplyDelta(bufs[b], d[1], d[2])
             newBufs == [bufs EXCEPT ![b] = new]
             newGot == [got EXCEPT ![b] = @ \cup accepted]
             newOwed == [owed EXCEPT ![b] = @ + GivenUp(bufs[b], got[b], accepted, new)]
  <2>1. Memory(newBufs, newGot, newOwed)
    BY <1>10 DEF DeltaApply
  <2>2. b \in Bufs /\ d \in Deltas
    BY <1>10, RequestShape DEF DeltaApply
  <2>3. d[1] \in Nat /\ d[2] \in Nat
    <3> HIDE DEF d
    <3> QED BY <2>2, TranscriptAssumption
  <2>4. /\ bufs \in [Bufs -> Buffer] /\ got \in [Bufs -> SUBSET Nat] /\ owed \in [Bufs -> Nat]
        /\ \A c \in Bufs : Fine(bufs[c], got[c], owed[c])
    BY <1>0 DEF BuffersOK
  <2>5. BufferOK(bufs[b], got[b]) /\ owed[b] \in Nat /\ bufs[b].elided = owed[b]
    <3> HIDE DEF b
    <3> QED BY <2>2, <2>4 DEF Fine
  <2>6. /\ BufferOK(new, got[b] \cup accepted)
        /\ GivenUp(bufs[b], got[b], accepted, new) \in Nat
        /\ new.elided = bufs[b].elided + GivenUp(bufs[b], got[b], accepted, new)
    <3> DEFINE x == bufs[b]
               g == got[b]
               offset == d[1]
               n == d[2]
    <3>1. BufferOK(x, g) /\ offset \in Nat /\ n \in Nat
      BY <2>3, <2>5
    <3> HIDE DEF x, g, offset, n
    <3>2. LET acc == IF offset + n > MaxOffset THEN {} ELSE Positions(offset, offset + n)
              nx == ApplyDelta(x, offset, n) IN
          /\ BufferOK(nx, g \cup acc)
          /\ GivenUp(x, g, acc, nx) \in Nat
          /\ nx.elided = x.elided + GivenUp(x, g, acc, nx)
      BY <3>1, ApplyOK
    <3> QED BY <3>2 DEF x, g, offset, n
  <2>7. ASSUME NEW c \in Bufs PROVE Fine(newBufs[c], newGot[c], newOwed[c])
    <3> HIDE DEF b, d, accepted, new
    <3>1. CASE c = b
      <4>1. /\ newBufs[c] = new /\ newGot[c] = got[b] \cup accepted
            /\ newOwed[c] = owed[b] + GivenUp(bufs[b], got[b], accepted, new)
        BY <2>2, <2>4, <3>1
      <4>2. newOwed[c] \in Nat /\ new.elided = newOwed[c]
        BY <2>5, <2>6, <4>1
      <4> QED BY <2>6, <4>1, <4>2 DEF Fine
    <3>2. CASE c # b
      <4>1. newBufs[c] = bufs[c] /\ newGot[c] = got[c] /\ newOwed[c] = owed[c]
        BY <2>2, <2>4, <3>2
      <4> QED BY <2>4, <4>1
    <3> QED BY <3>1, <3>2
  <2> HIDE DEF newBufs, newGot, newOwed
  <2> QED BY <2>1, <2>7, MemoryOK
<1>11. ASSUME NEW s \in Sids, NEW f, ApplyStamp(s, f) PROVE BuffersOK'
  BY <1>1, <1>11 DEF ApplyStamp
<1>12. ASSUME NEW s \in Sids, NEW f, SetFeatureIfAbsent(s, f) PROVE BuffersOK'
  BY <1>1, <1>12 DEF SetFeatureIfAbsent
<1>13. ASSUME NEW s \in Sids, SessionClose(s) PROVE BuffersOK'
  <2>1. CASE sessions[s].feature # NoFeature
    <3>1. HoldOnDrain(s)
      BY <1>13, <2>1 DEF SessionClose
    <3> QED BY <1>2, <3>1 DEF HoldOnDrain
  <2>2. CASE ~(sessions[s].feature # NoFeature)
    BY <1>2, <1>13, <2>2 DEF SessionClose
  <2> QED BY <2>1, <2>2
<1>14. ASSUME NEW stale, SweepStaleSessions(stale) PROVE BuffersOK'
  BY <1>2, <1>14 DEF SweepStaleSessions
<1>15. ASSUME NEW expired, SweepHeldBuffers(expired) PROVE BuffersOK'
  BY <1>2, <1>15 DEF SweepHeldBuffers
<1>16. ASSUME UNCHANGED vars PROVE BuffersOK'
  BY <1>1, <1>16 DEF vars, bufVars
<1> QED BY <1>4, <1>5, <1>6, <1>7, <1>8, <1>9, <1>10, <1>11, <1>12, <1>13, <1>14, <1>15, <1>16
        DEF Next, RequestStep

LEMMA ShapeStep ==
    ASSUME SessionInv, [Next]_vars
    PROVE  RegistryShape'
<1> DEFINE Session == [feature: Features \cup {NoFeature}, buf: Bufs]
           HeldSession == [feature: Features, buf: Bufs]
<1>0. /\ sessions \in [Sids -> Session \cup {Absent}]
      /\ held \in [Sids -> HeldSession \cup {Absent}]
      /\ request \in [Workers -> Request]
      /\ arrived \in 0..MaxRequests /\ MaxRequests \in Nat /\ RegistryShape
  BY TranscriptAssumption DEF SessionInv, RegistryShape
<1>1. ASSUME NEW gone, WithoutHeld(gone) PROVE held' \in [Sids -> HeldSession \cup {Absent}]
  BY <1>0, <1>1 DEF WithoutHeld
<1>2. ASSUME NEW w \in Workers, NEW r \in Request, Begin(w, r)
      PROVE  arrived' \in 0..MaxRequests /\ request' \in [Workers -> Request]
  <2>1. arrived' \in 0..MaxRequests
    BY <1>0, <1>2 DEF Begin
  <2>2. request' \in [Workers -> Request]
    BY <1>0, <1>2 DEF Begin
  <2> QED BY <2>1, <2>2
<1>3. Idle \in Request
  BY DEF Request
<1>4. \A s \in Sids, f \in Features \cup {NoFeature}, x \in BOOLEAN, t \in {"readopt", "force"} :
         [step |-> t, s |-> s, f |-> f, force |-> x] \in Request
  BY DEF Request
<1>5. \A s \in Sids, f \in Features \cup {NoFeature}, x \in BOOLEAN, b \in Bufs :
         [step |-> "insert", s |-> s, f |-> f, force |-> x, buf |-> b] \in Request
  BY DEF Request
<1>6. \A d \in Deltas, b \in Bufs : [step |-> "apply", d |-> d, buf |-> b] \in Request
  BY DEF Request
<1>7. ASSUME NEW s \in Sids, NEW f \in Features \cup {NoFeature}, Declare(s, f)
      PROVE  sessions' \in [Sids -> Session \cup {Absent}]
  <2>1. CASE Registered(s)
    <3>1. sessions' = [sessions EXCEPT ![s].feature = f]
      BY <1>7, <2>1 DEF Declare
    <3>2. sessions[s] \in Session
      BY <1>0, <2>1, RegisteredShape
    <3>3. [sessions[s] EXCEPT !.feature = f] \in Session
      BY <1>7, <3>2
    <3> HIDE DEF Session
    <3> QED BY <1>0, <3>1, <3>3
  <2>2. CASE ~Registered(s)
    BY <1>0, <1>7, <2>2 DEF Declare
  <2> QED BY <2>1, <2>2
<1>8. ASSUME NEW w \in Workers, NEW s \in Sids, NEW f \in Features \cup {NoFeature},
             SessionRegister(w, s, f)
      PROVE  RegistryShape'
  <2>1. [step |-> "readopt", s |-> s, f |-> f, force |-> FALSE] \in Request
    BY <1>4
  <2>2. arrived' \in 0..MaxRequests /\ request' \in [Workers -> Request]
    BY <1>2, <1>8, <2>1 DEF SessionRegister
  <2> QED BY <1>0, <1>8, <2>2 DEF SessionRegister, RegistryShape
<1>9. ASSUME NEW w \in Workers, NEW s \in Sids, NEW f \in Features, CycleStart(w, s, f)
      PROVE  RegistryShape'
  <2> DEFINE t == IF Registered(s) THEN "force" ELSE "readopt"
  <2>1. t \in {"readopt", "force"}
    OBVIOUS
  <2>2. [step |-> t, s |-> s, f |-> f, force |-> TRUE] \in Request
    <3> HIDE DEF t
    <3> QED BY <1>4, <2>1
  <2>3. Begin(w, [step |-> t, s |-> s, f |-> f, force |-> TRUE])
    BY <1>9 DEF CycleStart
  <2>4. arrived' \in 0..MaxRequests /\ request' \in [Workers -> Request]
    <3> HIDE DEF t
    <3> QED BY <1>2, <2>2, <2>3
  <2> QED BY <1>0, <1>9, <2>4 DEF CycleStart, RegistryShape
<1>10. ASSUME NEW w \in Workers, NEW s \in Sids, NEW d \in Deltas, DeltaLookup(w, s, d)
       PROVE  RegistryShape'
  <2> DEFINE b == IF Registered(s) THEN sessions[s].buf ELSE held[s].buf
  <2>1. b \in Bufs
    BY <1>0, <1>10, RegisteredShape DEF DeltaLookup
  <2>2. Begin(w, [step |-> "apply", d |-> d, buf |-> b])
    BY <1>10 DEF DeltaLookup
  <2>3. arrived' \in 0..MaxRequests /\ request' \in [Workers -> Request]
    <3> HIDE DEF b
    <3> QED BY <1>2, <1>6, <2>1, <2>2
  <2> QED BY <1>0, <1>10, <2>3 DEF DeltaLookup, RegistryShape
<1>11. ASSUME NEW w \in Workers, Readopt(w) PROVE RegistryShape'
  <2> DEFINE r == request[w]
  <2>1. /\ r.s \in Sids /\ r.f \in Features \cup {NoFeature} /\ r.force \in BOOLEAN
        /\ UNCHANGED <<sessions, arrived>>
    BY <1>0, <1>11, RequestShape DEF Readopt
  <2>2. ASSUME NEW b \in Bufs, request' = [request EXCEPT ![w] = Insert(r, b)]
        PROVE  request' \in [Workers -> Request]
    <3>1. Insert(r, b) \in Request
      BY <1>5, <2>1 DEF Insert
    <3> HIDE DEF r
    <3> QED BY <1>0, <2>2, <3>1
  <2>3. held' \in [Sids -> HeldSession \cup {Absent}] /\ request' \in [Workers -> Request]
    <3>1. CASE ReadoptMatch(w, r)
      BY <1>0, <1>1, <2>1, <2>2, <3>1, RegisteredShape DEF ReadoptMatch
    <3>2. CASE ReadoptMismatch(w, r)
      BY <1>1, <2>2, <3>2, NextFreeIsFree DEF ReadoptMismatch
    <3>3. CASE ReadoptFresh(w, r)
      BY <1>0, <2>2, <3>3, NextFreeIsFree DEF ReadoptFresh
    <3> QED BY <1>11, <3>1, <3>2, <3>3 DEF Readopt
  <2> QED BY <1>0, <2>1, <2>3 DEF RegistryShape
<1>12. ASSUME NEW w \in Workers, RegisterInsert(w) PROVE RegistryShape'
  <2> DEFINE r == request[w]
             next == IF r.force THEN [step |-> "force", s |-> r.s, f |-> r.f, force |-> TRUE]
                                ELSE Idle
  <2>1. r.s \in Sids /\ r.f \in Features \cup {NoFeature} /\ r.buf \in Bufs
    BY <1>0, <1>12, RequestShape DEF RegisterInsert
  <2>2. next \in Request
    BY <1>3, <1>4, <2>1
  <2>3. /\ sessions' = [sessions EXCEPT ![r.s] = [feature |-> r.f, buf |-> r.buf]]
        /\ request' = [request EXCEPT ![w] = next]
        /\ UNCHANGED <<held, older, arrived>>
    BY <1>12 DEF RegisterInsert
  <2>4. [feature |-> r.f, buf |-> r.buf] \in Session
    BY <2>1
  <2> HIDE DEF r, next
  <2>5. sessions' \in [Sids -> Session \cup {Absent}]
    <3> HIDE DEF Session
    <3> QED BY <1>0, <2>1, <2>3, <2>4
  <2>6. request' \in [Workers -> Request]
    BY <1>0, <2>2, <2>3
  <2> QED BY <1>0, <2>3, <2>5, <2>6 DEF RegistryShape
<1>13. ASSUME NEW w \in Workers, SetFeatureForce(w) PROVE RegistryShape'
  <2>1. request[w].s \in Sids /\ request[w].f \in Features \cup {NoFeature}
    BY <1>0, <1>13, RequestShape DEF SetFeatureForce
  <2>2. sessions' \in [Sids -> Session \cup {Absent}]
    BY <1>7, <1>13, <2>1 DEF SetFeatureForce
  <2>3. request' \in [Workers -> Request]
    BY <1>0, <1>3, <1>13 DEF SetFeatureForce
  <2> QED BY <1>0, <1>13, <2>2, <2>3 DEF SetFeatureForce, RegistryShape
<1>14. ASSUME NEW w \in Workers, DeltaApply(w) PROVE RegistryShape'
  <2>1. request' \in [Workers -> Request]
    BY <1>0, <1>3, <1>14 DEF DeltaApply
  <2> QED BY <1>0, <1>14, <2>1 DEF DeltaApply, RegistryShape
<1>15. ASSUME NEW s \in Sids, NEW f \in Features, ApplyStamp(s, f) PROVE RegistryShape'
  <2>1. sessions' \in [Sids -> Session \cup {Absent}]
    BY <1>7, <1>15 DEF ApplyStamp
  <2> QED BY <1>0, <1>15, <2>1 DEF ApplyStamp, RegistryShape
<1>16. ASSUME NEW s \in Sids, NEW f \in Features, SetFeatureIfAbsent(s, f) PROVE RegistryShape'
  <2>1. sessions' \in [Sids -> Session \cup {Absent}]
    BY <1>7, <1>16 DEF SetFeatureIfAbsent, Declare
  <2> QED BY <1>0, <1>16, <2>1 DEF SetFeatureIfAbsent, RegistryShape
<1>17. ASSUME NEW s \in Sids, SessionClose(s) PROVE RegistryShape'
  <2>1. sessions' \in [Sids -> Session \cup {Absent}]
    BY <1>0, <1>17 DEF SessionClose
  <2>2. held' \in [Sids -> HeldSession \cup {Absent}]
    <3>1. CASE sessions[s].feature # NoFeature
      <4> DEFINE new == [feature |-> sessions[s].feature, buf |-> sessions[s].buf]
                 with == [held EXCEPT ![s] = new]
      <4>1. new \in HeldSession
        BY <1>0, <1>17, <3>1, RegisteredShape DEF SessionClose
      <4>2. with \in [Sids -> HeldSession \cup {Absent}]
        <5> HIDE DEF new, HeldSession
        <5> QED BY <1>0, <4>1
      <4>3. \E evicted : held' = [t \in Sids |-> IF t \in evicted THEN Absent ELSE with[t]]
        BY <1>17, <3>1 DEF SessionClose, HoldOnDrain
      <4> HIDE DEF with, HeldSession
      <4> QED BY <4>2, <4>3
    <3>2. CASE ~(sessions[s].feature # NoFeature)
      BY <1>0, <1>17, <3>2 DEF SessionClose
    <3> QED BY <3>1, <3>2
  <2> QED BY <1>0, <1>17, <2>1, <2>2 DEF SessionClose, RegistryShape
<1>18. ASSUME NEW stale, SweepStaleSessions(stale) PROVE RegistryShape'
  <2>1. sessions' \in [Sids -> Session \cup {Absent}]
    BY <1>0, <1>18 DEF SweepStaleSessions
  <2> QED BY <1>0, <1>18, <2>1 DEF SweepStaleSessions, RegistryShape
<1>19. ASSUME NEW expired, SweepHeldBuffers(expired) PROVE RegistryShape'
  <2>1. held' \in [Sids -> HeldSession \cup {Absent}]
    BY <1>1, <1>19 DEF SweepHeldBuffers
  <2> QED BY <1>0, <1>19, <2>1 DEF SweepHeldBuffers, RegistryShape
<1>20. ASSUME UNCHANGED vars PROVE RegistryShape'
  BY <1>0, <1>20 DEF vars, RegistryShape
<1> HIDE DEF Session, HeldSession
<1> QED BY <1>8, <1>9, <1>10, <1>11, <1>12, <1>13, <1>14, <1>15, <1>16, <1>17, <1>18, <1>19,
           <1>20
        DEF Next, RequestStep

LEMMA HoldStep ==
    ASSUME SessionInv, [Next]_vars
    PROVE  HoldOK'
<1>0. RegistryShape /\ HoldOK
  BY DEF SessionInv
<1>1. ASSUME UNCHANGED <<held, older>> PROVE HoldOK'
  <2>1. HeldSids' = HeldSids
    BY <1>1 DEF HeldSids, Held
  <2> QED BY <1>0, <1>1, <2>1 DEF HoldOK
<1>2. ASSUME NEW gone, WithoutHeld(gone) PROVE HoldOK'
  <2>1. HeldSids' = HeldSids \ gone
    BY <1>2 DEF WithoutHeld, HeldSids, Held
  <2>2. Ordered(HeldSids \ gone, Without(older, gone))
    BY <1>0, WithoutOrdered DEF HoldOK
  <2>3. /\ IsFiniteSet(HeldSids \ gone)
        /\ Cardinality(HeldSids \ gone) <= Cardinality(HeldSids)
    <3>1. HeldSids \ gone \in SUBSET HeldSids
      OBVIOUS
    <3> HIDE DEF HeldSids
    <3> QED BY <1>0, <3>1, FS_Subset DEF HoldOK
  <2>4. Cardinality(HeldSids \ gone) \in Nat /\ Cardinality(HeldSids) \in Nat
    BY <1>0, <2>3, FS_CardinalityType DEF HoldOK
  <2>5. Cardinality(HeldSids \ gone) <= MaxHeld
    BY <1>0, <2>3, <2>4, TranscriptAssumption DEF HoldOK
  <2> QED BY <1>2, <2>1, <2>2, <2>3, <2>5 DEF HoldOK, WithoutHeld
<1>3. \A s : Ordered(HeldSids \cup {s}, Bump(s))
  BY <1>0, LastOrdered DEF HoldOK, Bump
<1>4. ASSUME NEW w \in Workers, NEW s \in Sids, NEW d, DeltaLookup(w, s, d) PROVE HoldOK'
  <2>1. CASE Registered(s)
    BY <1>1, <1>4, <2>1 DEF DeltaLookup
  <2>2. CASE ~Registered(s)
    <3>1. s \in HeldSids /\ older' = Bump(s) /\ held' = held
      BY <1>4, <2>2 DEF DeltaLookup, HeldSids
    <3>2. HeldSids' = HeldSids /\ HeldSids \cup {s} = HeldSids
      BY <3>1 DEF HeldSids, Held
    <3> QED BY <1>0, <1>3, <3>1, <3>2 DEF HoldOK
  <2> QED BY <2>1, <2>2
<1>5. ASSUME NEW w \in Workers, Readopt(w) PROVE HoldOK'
  BY <1>1, <1>2, <1>5 DEF Readopt, ReadoptMatch, ReadoptMismatch, ReadoptFresh
<1>6. ASSUME NEW s \in Sids, SessionClose(s) PROVE HoldOK'
  <2>1. CASE sessions[s].feature # NoFeature
    <3> DEFINE new == [feature |-> sessions[s].feature, buf |-> sessions[s].buf]
               with == [held EXCEPT ![s] = new]
               all == HeldSids \cup {s}
               evicted == Evicted(all, Bump(s))
    <3>1. HoldOnDrain(s)
      BY <1>6, <2>1 DEF SessionClose
    <3>2. /\ held' = [t \in Sids |-> IF t \in evicted THEN Absent ELSE with[t]]
          /\ older' = Without(Bump(s), evicted)
      BY <3>1 DEF HoldOnDrain
    <3>3. \A t \in Sids : with[t] # Absent <=> t \in all
      <4>1. new # Absent
        <5>1. new \in [feature: Features \cup {NoFeature}, buf: Bufs]
          BY <1>0, <1>6, RegisteredShape DEF SessionClose
        <5> HIDE DEF new
        <5> QED BY <5>1, NotAbsent
      <4>2. held \in [Sids -> [feature: Features, buf: Bufs] \cup {Absent}]
        BY <1>0 DEF RegistryShape
      <4> HIDE DEF new
      <4> QED BY <4>1, <4>2 DEF HeldSids, Held
    <3>4. HeldSids' = all \ evicted
      <4>1. \A t \in Sids : held'[t] # Absent <=> t \in all /\ t \notin evicted
        <5> HIDE DEF with, all, evicted
        <5> QED BY <3>2, <3>3
      <4>2. all \subseteq Sids
        BY DEF HeldSids
      <4> HIDE DEF with, all, evicted
      <4> QED BY <4>1, <4>2 DEF HeldSids, Held
    <3>5. Ordered(all, Bump(s))
      BY <1>3
    <3>6. IsFiniteSet(all)
      BY <1>0, FS_AddElement DEF HoldOK
    <3>7. Ordered(all \ evicted, Without(Bump(s), evicted))
      <4> HIDE DEF all, evicted
      <4> QED BY <3>5, WithoutOrdered
    <3>8. IsFiniteSet(all \ evicted) /\ Cardinality(all \ evicted) <= MaxHeld
      <4> HIDE DEF all
      <4> QED BY <3>5, <3>6, EvictedBound
    <3> HIDE DEF all, evicted, with
    <3> QED BY <3>2, <3>4, <3>7, <3>8 DEF HoldOK
  <2>2. CASE ~(sessions[s].feature # NoFeature)
    BY <1>1, <1>6, <2>2 DEF SessionClose
  <2> QED BY <2>1, <2>2
<1>7. ASSUME NEW expired, SweepHeldBuffers(expired) PROVE HoldOK'
  BY <1>2, <1>7 DEF SweepHeldBuffers
<1>8. ASSUME NEW w, NEW s, NEW f, SessionRegister(w, s, f) \/ CycleStart(w, s, f) PROVE HoldOK'
  BY <1>1, <1>8 DEF SessionRegister, CycleStart
<1>9. ASSUME NEW w, RegisterInsert(w) \/ SetFeatureForce(w) \/ DeltaApply(w) PROVE HoldOK'
  BY <1>1, <1>9 DEF RegisterInsert, SetFeatureForce, DeltaApply
<1>10. ASSUME NEW s, NEW f, ApplyStamp(s, f) \/ SetFeatureIfAbsent(s, f) PROVE HoldOK'
  BY <1>1, <1>10 DEF ApplyStamp, SetFeatureIfAbsent
<1>11. ASSUME NEW stale, SweepStaleSessions(stale) PROVE HoldOK'
  BY <1>1, <1>11 DEF SweepStaleSessions
<1>12. ASSUME UNCHANGED vars PROVE HoldOK'
  BY <1>1, <1>12 DEF vars
<1> QED BY <1>4, <1>5, <1>6, <1>7, <1>8, <1>9, <1>10, <1>11, <1>12 DEF Next, RequestStep
-----------------------------------------------------------------------------
(* The owners. *)

\* The three kinds of owner, one predicate each.
InRegistry(s, b) == s \in Sids /\ Registered(s) /\ sessions[s].buf = b
InHold(s, b) == s \in Sids /\ Held(s) /\ held[s].buf = b
InRequest(w, b) == w \in Workers /\ request[w].step = "insert" /\ request[w].buf = b

LEMMA OwnersMember ==
    ASSUME NEW b, NEW o
    PROVE  o \in Owners(b) <=> \/ \E s \in Sids : o = <<"registry", s>> /\ InRegistry(s, b)
                               \/ \E s \in Sids : o = <<"hold", s>> /\ InHold(s, b)
                               \/ \E w \in Workers : o = <<"request", w>> /\ InRequest(w, b)
BY DEF Owners, InRegistry, InHold, InRequest

LEMMA OwnersMemberNext ==
    ASSUME NEW b, NEW o
    PROVE  o \in Owners(b)' <=> \/ \E s \in Sids : o = <<"registry", s>> /\ InRegistry(s, b)'
                                \/ \E s \in Sids : o = <<"hold", s>> /\ InHold(s, b)'
                                \/ \E w \in Workers : o = <<"request", w>> /\ InRequest(w, b)'
BY DEF Owners, InRegistry, InHold, InRequest

LEMMA NotLive ==
    ASSUME NEW b, b \notin Live
    PROVE  Owners(b) = {}
BY DEF Live, Owners

\* A step in which no buffer gains an owner.
LEMMA AloneShrinks ==
    ASSUME Alone, \A b \in Bufs : Owners(b)' \subseteq Owners(b)
    PROVE  Alone'
BY DEF Alone

LEMMA AloneKept ==
    ASSUME Alone,
           \A s, b : InRegistry(s, b)' => InRegistry(s, b),
           \A s, b : InHold(s, b)' => InHold(s, b),
           \A w, b : InRequest(w, b)' => InRequest(w, b)
    PROVE  Alone'
<1>1. ASSUME NEW b \in Bufs, NEW o \in Owners(b)' PROVE o \in Owners(b)
  BY OwnersMember, OwnersMemberNext
<1> QED BY <1>1, AloneShrinks

\* A step in which one buffer changes hands: whoever has it afterwards is the
\* new owner p.
LEMMA AloneMoves ==
    ASSUME Alone, NEW c, NEW p,
           \A b \in Bufs : b # c => Owners(b)' \subseteq Owners(b),
           Owners(c)' \subseteq {p}
    PROVE  Alone'
<1> SUFFICES ASSUME NEW b \in Bufs, NEW o \in Owners(b)', NEW q \in Owners(b)' PROVE o = q
  BY DEF Alone
<1>1. CASE b = c
  BY <1>1
<1>2. CASE b # c
  BY <1>2 DEF Alone
<1> QED BY <1>1, <1>2

\* Its owner x, if it had one, gives it away.
LEMMA AloneHandedOver ==
    ASSUME Alone, NEW c \in Bufs, NEW x, NEW p,
           x \in Owners(c) \/ Owners(c) = {},
           \A b \in Bufs : \A o \in Owners(b)' :
              (b = c /\ o = p) \/ (o \in Owners(b) /\ ~(b = c /\ o = x))
    PROVE  Alone'
<1>1. ASSUME NEW b \in Bufs, b # c PROVE Owners(b)' \subseteq Owners(b)
  BY <1>1
<1>2. ASSUME NEW o \in Owners(c)' PROVE o = p
  BY <1>2 DEF Alone
<1> QED BY <1>1, <1>2, AloneMoves

LEMMA AloneStep ==
    ASSUME SessionInv, [Next]_vars
    PROVE  Alone'
<1>0. Alone /\ RegistryShape
  BY DEF SessionInv
<1>1. /\ sessions \in [Sids -> [feature: Features \cup {NoFeature}, buf: Bufs] \cup {Absent}]
      /\ held \in [Sids -> [feature: Features, buf: Bufs] \cup {Absent}]
      /\ request \in [Workers -> Request]
  BY <1>0 DEF RegistryShape
<1>2. ASSUME UNCHANGED sessions
      PROVE  \A s, b : InRegistry(s, b)' <=> InRegistry(s, b)
  BY <1>2 DEF InRegistry, Registered
<1>3. ASSUME UNCHANGED held
      PROVE  \A s, b : InHold(s, b)' <=> InHold(s, b)
  BY <1>3 DEF InHold, Held
<1>4. ASSUME UNCHANGED request
      PROVE  \A w, b : InRequest(w, b)' <=> InRequest(w, b)
  BY <1>4 DEF InRequest
<1>5. ASSUME NEW w \in Workers, NEW r, r.step # "insert", request' = [request EXCEPT ![w] = r]
      PROVE  \A v, b : InRequest(v, b)' <=> InRequest(v, b) /\ v # w
  BY <1>1, <1>5 DEF InRequest
<1>6. ASSUME NEW w \in Workers, NEW r, NEW c,
             request' = [request EXCEPT ![w] = Insert(r, c)]
      PROVE  \A v, b : InRequest(v, b)' <=> (v = w /\ b = c) \/ (v # w /\ InRequest(v, b))
  BY <1>1, <1>6 DEF InRequest, Insert
<1>7. ASSUME NEW gone, WithoutHeld(gone)
      PROVE  \A s, b : InHold(s, b)' <=> InHold(s, b) /\ s \notin gone
  BY <1>7 DEF WithoutHeld, InHold, Held
<1>8. ASSUME NEW s \in Sids, NEW f, Declare(s, f)
      PROVE  \A t, b : InRegistry(t, b)' => InRegistry(t, b)
  <2>1. CASE Registered(s)
    <3>1. sessions' = [sessions EXCEPT ![s] = [sessions[s] EXCEPT !.feature = f]]
      BY <1>8, <2>1 DEF Declare
    <3>2. [sessions[s] EXCEPT !.feature = f].buf = sessions[s].buf
      BY <1>0, <2>1, RegisteredShape
    <3> QED BY <1>1, <2>1, <3>1, <3>2 DEF InRegistry, Registered
  <2>2. CASE ~Registered(s)
    BY <1>2, <1>8, <2>2 DEF Declare
  <2> QED BY <2>1, <2>2
<1>9. ASSUME NEW w \in Workers, NEW s, NEW f, SessionRegister(w, s, f) PROVE Alone'
  <2> DEFINE r == [step |-> "readopt", s |-> s, f |-> f, force |-> FALSE]
  <2>1. /\ r.step # "insert" /\ request' = [request EXCEPT ![w] = r]
        /\ UNCHANGED <<sessions, held>>
    BY <1>9 DEF SessionRegister, Begin
  <2> HIDE DEF r
  <2> QED BY <1>0, <1>2, <1>3, <1>5, <2>1, AloneKept
<1>10. ASSUME NEW w \in Workers, NEW s, NEW f, CycleStart(w, s, f) PROVE Alone'
  <2> DEFINE r == [step |-> IF Registered(s) THEN "force" ELSE "readopt",
                   s |-> s, f |-> f, force |-> TRUE]
  <2>1. /\ r.step # "insert" /\ request' = [request EXCEPT ![w] = r]
        /\ UNCHANGED <<sessions, held>>
    BY <1>10 DEF CycleStart, Begin
  <2> HIDE DEF r
  <2> QED BY <1>0, <1>2, <1>3, <1>5, <2>1, AloneKept
<1>11. ASSUME NEW w \in Workers, NEW s, NEW d, DeltaLookup(w, s, d) PROVE Alone'
  <2> DEFINE r == [step |-> "apply", d |-> d,
                   buf |-> IF Registered(s) THEN sessions[s].buf ELSE held[s].buf]
  <2>1. /\ r.step # "insert" /\ request' = [request EXCEPT ![w] = r]
        /\ UNCHANGED <<sessions, held>>
    BY <1>11 DEF DeltaLookup, Begin
  <2> HIDE DEF r
  <2> QED BY <1>0, <1>2, <1>3, <1>5, <2>1, AloneKept
<1>12. ASSUME NEW w \in Workers, Readopt(w) PROVE Alone'
  <2> DEFINE r == request[w]
  <2>1. r.s \in Sids /\ UNCHANGED sessions
    BY <1>0, <1>12, RequestShape DEF Readopt
  <2>2. \A s, b : InRegistry(s, b)' <=> InRegistry(s, b)
    BY <1>2, <2>1
  <2>3. CASE ReadoptMatch(w, r)
    <3> DEFINE c == held[r.s].buf
               x == <<"hold", r.s>>
               p == <<"request", w>>
    <3>1. /\ Held(r.s) /\ request' = [request EXCEPT ![w] = Insert(r, c)]
          /\ WithoutHeld({r.s})
      BY <2>3 DEF ReadoptMatch
    <3>2. c \in Bufs /\ InHold(r.s, c)
      BY <1>0, <2>1, <3>1, RegisteredShape DEF InHold
    <3>3. \A s, b : InHold(s, b)' <=> InHold(s, b) /\ s \notin {r.s}
      <4> HIDE DEF r
      <4> QED BY <1>7, <3>1
    <3>4. \A v, b : InRequest(v, b)' <=> (v = w /\ b = c) \/ (v # w /\ InRequest(v, b))
      <4> HIDE DEF r, c
      <4> QED BY <1>6, <3>1
    <3> HIDE DEF r, c
    <3>5. x \in Owners(c)
      BY <2>1, <3>2, OwnersMember
    <3>6. ASSUME NEW b \in Bufs, NEW o \in Owners(b)'
          PROVE  (b = c /\ o = p) \/ (o \in Owners(b) /\ ~(b = c /\ o = x))
      <4>1. CASE \E s \in Sids : o = <<"registry", s>> /\ InRegistry(s, b)'
        BY <2>2, <4>1, OwnersMember
      <4>2. CASE \E s \in Sids : o = <<"hold", s>> /\ InHold(s, b)'
        BY <3>3, <4>2, OwnersMember
      <4>3. CASE \E v \in Workers : o = <<"request", v>> /\ InRequest(v, b)'
        BY <3>4, <4>3, OwnersMember
      <4> QED BY <4>1, <4>2, <4>3, OwnersMemberNext
    <3> HIDE DEF x, p
    <3> QED BY <1>0, <3>2, <3>5, <3>6, AloneHandedOver
  <2>4. CASE ReadoptMismatch(w, r) \/ ReadoptFresh(w, r)
    <3> DEFINE c == NextFree
               p == <<"request", w>>
    <3>1. Free # {} /\ request' = [request EXCEPT ![w] = Insert(r, c)]
      BY <2>4 DEF ReadoptMismatch, ReadoptFresh
    <3>2. c \in Bufs /\ Owners(c) = {}
      BY <3>1, NextFreeIsFree, NotLive
    <3>3. \A s, b : InHold(s, b)' => InHold(s, b)
      <4> HIDE DEF r
      <4> QED BY <1>3, <1>7, <2>4 DEF ReadoptMismatch, ReadoptFresh
    <3>4. \A v, b : InRequest(v, b)' <=> (v = w /\ b = c) \/ (v # w /\ InRequest(v, b))
      <4> HIDE DEF r, c
      <4> QED BY <1>6, <3>1
    <3> HIDE DEF r, c
    <3>5. ASSUME NEW b \in Bufs, NEW o \in Owners(b)'
          PROVE  (b = c /\ o = p) \/ o \in Owners(b)
      <4>1. CASE \E s \in Sids : o = <<"registry", s>> /\ InRegistry(s, b)'
        BY <2>2, <4>1, OwnersMember
      <4>2. CASE \E s \in Sids : o = <<"hold", s>> /\ InHold(s, b)'
        BY <3>3, <4>2, OwnersMember
      <4>3. CASE \E v \in Workers : o = <<"request", v>> /\ InRequest(v, b)'
        BY <3>4, <4>3, OwnersMember
      <4> QED BY <4>1, <4>2, <4>3, OwnersMemberNext
    <3>6. \A b \in Bufs : \A o \in Owners(b)' :
             (b = c /\ o = p) \/ (o \in Owners(b) /\ ~(b = c /\ o = p))
      BY <3>5
    <3> HIDE DEF p
    <3> QED BY <1>0, <3>2, <3>6, AloneHandedOver
  <2> QED BY <1>12, <2>3, <2>4 DEF Readopt
<1>13. ASSUME NEW w \in Workers, RegisterInsert(w) PROVE Alone'
  <2> DEFINE r == request[w]
             c == r.buf
             x == <<"request", w>>
             p == <<"registry", r.s>>
             next == IF r.force THEN [step |-> "force", s |-> r.s, f |-> r.f, force |-> TRUE]
                                ELSE Idle
             new == [feature |-> r.f, buf |-> c]
  <2>1. /\ sessions' = [sessions EXCEPT ![r.s] = new]
        /\ request' = [request EXCEPT ![w] = next]
        /\ UNCHANGED held /\ r.step = "insert"
    BY <1>13 DEF RegisterInsert
  <2>2. r.s \in Sids /\ c \in Bufs /\ r.f \in Features \cup {NoFeature}
    BY <1>0, <1>13, RequestShape DEF RegisterInsert
  <2>3. next.step # "insert" /\ new.buf = c
    BY DEF Idle
  <2>4. InRequest(w, c)
    BY <2>1 DEF InRequest
  <2>5. \A s, b : InHold(s, b)' <=> InHold(s, b)
    BY <1>3, <2>1
  <2> HIDE DEF r, c, next, new
  <2>6. \A v, b : InRequest(v, b)' <=> InRequest(v, b) /\ v # w
    BY <1>5, <2>1, <2>3
  <2>7. \A s, b : InRegistry(s, b)' => (s = r.s /\ b = c) \/ (s # r.s /\ InRegistry(s, b))
    BY <1>1, <2>1, <2>2, <2>3 DEF InRegistry, Registered
  <2>8. x \in Owners(c)
    BY <2>4, OwnersMember
  <2>9. ASSUME NEW b \in Bufs, NEW o \in Owners(b)'
        PROVE  (b = c /\ o = p) \/ (o \in Owners(b) /\ ~(b = c /\ o = x))
    <3>1. CASE \E s \in Sids : o = <<"registry", s>> /\ InRegistry(s, b)'
      BY <2>7, <3>1, OwnersMember
    <3>2. CASE \E s \in Sids : o = <<"hold", s>> /\ InHold(s, b)'
      BY <2>5, <3>2, OwnersMember
    <3>3. CASE \E v \in Workers : o = <<"request", v>> /\ InRequest(v, b)'
      BY <2>6, <3>3, OwnersMember
    <3> QED BY <3>1, <3>2, <3>3, OwnersMemberNext
  <2> HIDE DEF x, p
  <2> QED BY <1>0, <2>2, <2>8, <2>9, AloneHandedOver
<1>14. ASSUME NEW w \in Workers, SetFeatureForce(w) PROVE Alone'
  <2>1. request[w].s \in Sids
    BY <1>0, <1>14, RequestShape DEF SetFeatureForce
  <2>2. \A t, b : InRegistry(t, b)' => InRegistry(t, b)
    BY <1>8, <1>14, <2>1 DEF SetFeatureForce
  <2>3. Idle.step # "insert"
    BY DEF Idle
  <2>4. \A v, b : InRequest(v, b)' => InRequest(v, b)
    BY <1>5, <1>14, <2>3 DEF SetFeatureForce
  <2>5. \A s, b : InHold(s, b)' => InHold(s, b)
    BY <1>3, <1>14 DEF SetFeatureForce
  <2> QED BY <1>0, <2>2, <2>4, <2>5, AloneKept
<1>15. ASSUME NEW w \in Workers, DeltaApply(w) PROVE Alone'
  <2>1. Idle.step # "insert"
    BY DEF Idle
  <2>2. \A v, b : InRequest(v, b)' => InRequest(v, b)
    BY <1>5, <1>15, <2>1 DEF DeltaApply
  <2> QED BY <1>0, <1>2, <1>3, <1>15, <2>2, AloneKept DEF DeltaApply
<1>16. ASSUME NEW s \in Sids, NEW f, ApplyStamp(s, f) PROVE Alone'
  BY <1>0, <1>3, <1>4, <1>8, <1>16, AloneKept DEF ApplyStamp
<1>17. ASSUME NEW s \in Sids, NEW f, SetFeatureIfAbsent(s, f) PROVE Alone'
  <2>1. Declare(s, f) /\ UNCHANGED <<held, request>>
    BY <1>17 DEF SetFeatureIfAbsent, Declare
  <2> QED BY <1>0, <1>3, <1>4, <1>8, <2>1, AloneKept
<1>18. ASSUME NEW s \in Sids, SessionClose(s) PROVE Alone'
  <2>1. /\ Registered(s) /\ UNCHANGED request
        /\ sessions' = [sessions EXCEPT ![s] = Absent]
    BY <1>18 DEF SessionClose
  <2>2. \A t, b : InRegistry(t, b)' <=> InRegistry(t, b) /\ t # s
    BY <1>1, <2>1 DEF InRegistry, Registered
  <2>3. \A v, b : InRequest(v, b)' <=> InRequest(v, b)
    BY <1>4, <2>1
  <2>4. CASE sessions[s].feature # NoFeature
    <3> DEFINE c == sessions[s].buf
               x == <<"registry", s>>
               p == <<"hold", s>>
               new == [feature |-> sessions[s].feature, buf |-> c]
               with == [held EXCEPT ![s] = new]
    <3>1. \E evicted : held' = [t \in Sids |-> IF t \in evicted THEN Absent ELSE with[t]]
      BY <1>18, <2>4 DEF SessionClose, HoldOnDrain
    <3>2. c \in Bufs /\ InRegistry(s, c)
      BY <1>0, <2>1, RegisteredShape DEF InRegistry
    <3>3. new.buf = c
      OBVIOUS
    <3> HIDE DEF c, new
    <3>4. \A t, b : InHold(t, b)' => (t = s /\ b = c) \/ InHold(t, b)
      BY <1>1, <3>1, <3>3 DEF InHold, Held
    <3>5. x \in Owners(c)
      BY <3>2, OwnersMember
    <3>6. ASSUME NEW b \in Bufs, NEW o \in Owners(b)'
          PROVE  (b = c /\ o = p) \/ (o \in Owners(b) /\ ~(b = c /\ o = x))
      <4>1. CASE \E t \in Sids : o = <<"registry", t>> /\ InRegistry(t, b)'
        BY <2>2, <4>1, OwnersMember
      <4>2. CASE \E t \in Sids : o = <<"hold", t>> /\ InHold(t, b)'
        BY <3>4, <4>2, OwnersMember
      <4>3. CASE \E v \in Workers : o = <<"request", v>> /\ InRequest(v, b)'
        BY <2>3, <4>3, OwnersMember
      <4> QED BY <4>1, <4>2, <4>3, OwnersMemberNext
    <3> HIDE DEF x, p
    <3> QED BY <1>0, <3>2, <3>5, <3>6, AloneHandedOver
  <2>5. CASE ~(sessions[s].feature # NoFeature)
    <3>1. UNCHANGED held
      BY <1>18, <2>5 DEF SessionClose
    <3> QED BY <1>0, <1>3, <2>2, <2>3, <3>1, AloneKept
  <2> QED BY <2>4, <2>5
<1>19. ASSUME NEW stale, SweepStaleSessions(stale) PROVE Alone'
  <2>1. \A s, b : InRegistry(s, b)' => InRegistry(s, b)
    BY <1>19 DEF SweepStaleSessions, InRegistry, Registered
  <2> QED BY <1>0, <1>3, <1>4, <1>19, <2>1, AloneKept DEF SweepStaleSessions
<1>20. ASSUME NEW expired, SweepHeldBuffers(expired) PROVE Alone'
  BY <1>0, <1>2, <1>4, <1>7, <1>20, AloneKept DEF SweepHeldBuffers
<1>21. ASSUME UNCHANGED vars PROVE Alone'
  BY <1>0, <1>2, <1>3, <1>4, <1>21, AloneKept DEF vars
<1> QED BY <1>9, <1>10, <1>11, <1>12, <1>13, <1>14, <1>15, <1>16, <1>17, <1>18, <1>19, <1>20,
           <1>21
        DEF Next, RequestStep
-----------------------------------------------------------------------------
(* The theorems. *)

LEMMA SessionInvInit == Init => SessionInv
<1> SUFFICES ASSUME Init PROVE SessionInv
  OBVIOUS
<1> USE DEF Init
<1>1. RegistryShape
  BY TranscriptAssumption DEF RegistryShape, Request
<1>2. HeldSids = {}
  BY DEF HeldSids, Held
<1>3. HoldOK
  BY <1>2, FS_EmptySet, TranscriptAssumption DEF HoldOK, Ordered
<1>4. BuffersOK
  <2>1. NewBuffer \in Buffer /\ Fine(NewBuffer, {}, 0)
    BY NewBufferOK DEF Fine, BufferOK, NewBuffer
  <2> QED BY <2>1 DEF BuffersOK
<1>5. Alone
  <2>1. \A b : Owners(b) = {}
    BY DEF Owners, Registered, Held, Idle
  <2> QED BY <2>1 DEF Alone
<1> QED BY <1>1, <1>3, <1>4, <1>5 DEF SessionInv

LEMMA SessionInvHolds == Spec => []SessionInv
<1>1. SessionInv /\ [Next]_vars => SessionInv'
  BY ShapeStep, HoldStep, BuffersStep, AloneStep DEF SessionInv
<1> QED BY <1>1, SessionInvInit, PTL DEF Spec

(***************************************************************************)
(* The registry, the hold and the requests in flight keep their shape, the *)
(* held sessions are totally ordered by their last activity, and           *)
(* enforce_cap keeps them within transcript_hold_max_sessions; no buffer   *)
(* outgrows max_bytes.                                                     *)
(***************************************************************************)
THEOREM TranscriptTypeCorrect == Spec => []TypeOK
<1>1. SessionInv => TypeOK
  BY DEF SessionInv, RegistryShape, HoldOK, BuffersOK, Ordered, TypeOK
<1> QED BY <1>1, SessionInvHolds, PTL

(***************************************************************************)
(* apply_delta and clear, however the deltas come and whoever owns the     *)
(* buffer meanwhile: above its floor a buffer serves the positions it was  *)
(* given and no others, and its holes stay apart, inside the span and      *)
(* within MAX_HOLE_RANGES.                                                 *)
(***************************************************************************)
THEOREM TranscriptContentExact == Spec => []ContentExact
<1>1. ASSUME SessionInv PROVE ContentExact
  <2> SUFFICES ASSUME NEW b \in Bufs
               PROVE  /\ HolesInSpan(bufs[b])
                      /\ Written(bufs[b]) = {p \in got[b] : p >= bufs[b].base}
    BY DEF ContentExact
  <2> DEFINE x == bufs[b]
             g == got[b]
  <2>1. BufferOK(x, g)
    BY <1>1 DEF SessionInv, BuffersOK, Fine
  <2> HIDE DEF x, g
  <2>2. /\ x.base \in Nat /\ x.len \in Nat /\ SpanEnd(x) \in Nat /\ g \in SUBSET Nat
        /\ x.holes \in SUBSET (Nat \X Nat)
        /\ Within(x.holes, x.base, SpanEnd(x)) /\ Apart(x.holes) /\ Serves(x, g)
        /\ Cardinality(x.holes) <= MaxHoles
    BY <2>1 DEF BufferOK, SpanOK, Span, SpanEnd
  <2>3. HolesInSpan(x)
    BY <2>2 DEF HolesInSpan, Within, Apart
  <2>4. HolePositions(x) = Covered(x.holes)
    BY DEF HolePositions, Covered
  <2>5. \A p \in Nat : p \in Positions(x.base, SpanEnd(x)) <=> x.base <= p /\ p < SpanEnd(x)
    BY <2>2 DEF Positions
  <2>6. Positions(x.base, SpanEnd(x)) \subseteq Nat
    BY <2>2 DEF Positions
  <2>7. \A p \in Nat : p >= x.base <=> x.base <= p
    BY <2>2
  <2>8. \A p \in Nat : p \in Written(x) <=> p \in g /\ p >= x.base
    BY <2>2, <2>4, <2>5, <2>7 DEF Serves, Written
  <2>9. Written(x) \subseteq Nat
    BY <2>6 DEF Written
  <2>10. Written(x) = {p \in g : p >= x.base}
    BY <2>2, <2>8, <2>9
  <2> QED BY <2>3, <2>10 DEF x, g
<1> QED BY <1>1, SessionInvHolds, PTL

(***************************************************************************)
(* elided_bytes is the number of received bytes that the ring tail, the    *)
(* floor and collapse_to_newest made the buffer give up, each counted      *)
(* once, and no byte of a hole; a clear leaves it alone.                   *)
(***************************************************************************)
THEOREM TranscriptElidedExact == Spec => []ElidedExact
<1>1. SessionInv => ElidedExact
  BY DEF SessionInv, BuffersOK, Fine, ElidedExact
<1> QED BY <1>1, SessionInvHolds, PTL

(***************************************************************************)
(* register_session, hold_on_drain, readopt and the sweeps hand a buffer   *)
(* on and never copy its Arc to a second session, although a registration  *)
(* takes the hold's lock and the registry's one after the other.           *)
(***************************************************************************)
THEOREM TranscriptOneOwner == Spec => []OneOwner
<1>1. ASSUME SessionInv PROVE OneOwner
  <2> SUFFICES ASSUME NEW b \in Bufs PROVE Cardinality(Owners(b)) <= 1
    BY DEF OneOwner
  <2>1. \A o, p \in Owners(b) : o = p
    BY <1>1 DEF SessionInv, Alone
  <2>2. CASE Owners(b) = {}
    BY <2>2, FS_EmptySet
  <2>3. CASE Owners(b) # {}
    <3>1. PICK o : o \in Owners(b)
      BY <2>3
    <3>2. Owners(b) = {o}
      BY <2>1, <3>1
    <3> QED BY <3>2, FS_Singleton
  <2> QED BY <2>2, <2>3
<1> QED BY <1>1, SessionInvHolds, PTL
=============================================================================
