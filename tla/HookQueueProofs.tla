--------------------------- MODULE HookQueueProofs ---------------------------
(***************************************************************************)
(* What holds of the event queue for every number of hooks, of events, of  *)
(* faults and of clock steps, and all values of the limits.                *)
(***************************************************************************)
EXTENDS HookQueue, FiniteSetTheorems, SequenceTheorems, TLAPS

HookState ==
    {NoHook}
    \cup [step: {"room", "target", "own"}, e: Events]
    \cup [step: {"open"}, e: Events, file: Nat]
    \cup [step: {"line", "end"}, e: Events, file: Nat \cup {Gone}]
    \cup [step: {"read"}, e: Events \cup {Query}, list: Seq(Nat)]
    \cup [step: {"send"}, e: Events \cup {Query}, list: Seq(Nat), text: Seq(Events),
          read: SUBSET Events]

\* The files, and what the hooks know of them.
FilesOK ==
    /\ files \in [Names -> [text: Seq(Token), mtime: Nat]]
    /\ Names \subseteq Nat
    /\ \A n \in Names : n <= files[n].mtime /\ files[n].mtime <= clock

HooksOK ==
    /\ hook \in [Hooks -> HookState]
    /\ \A h \in Hooks : hook[h] # NoHook => hook[h].e <= sent
    /\ \A h \in Hooks : hook[h].step \in {"open", "line", "end"} => hook[h].file <= clock
    /\ \A h \in Hooks : hook[h].step \in {"read", "send"} => hook[h].list # <<>>

CountsOK ==
    /\ clock \in 1..MaxClock /\ sent \in 1..MaxEvents
    /\ written \in Seq(Events) /\ queued \subseteq Events /\ lost \subseteq Events
    /\ up \in BOOLEAN /\ disturbed \in BOOLEAN

\* Events that are written, given up, or readable in a file.  Whatever is safe
\* stays safe, also when the hook that is sending it is killed.
InFiles == UNION {ToSet(Readable(files[n].text)) : n \in Names}
Safe == ToSet(written) \cup lost \cup InFiles

QueueSafe ==
    /\ queued \subseteq Safe
    /\ \A h \in Hooks : At(h, "end") => hook[h].e \in Safe
    /\ \A h \in Hooks : At(h, "send") => ToSet(hook[h].text) \subseteq Safe

\* What a replay has read of a file is written, given up or still to be sent,
\* so that the file can be removed once nothing is left to be sent.
ReplayOK ==
    /\ \A n \in Names : Glued(files[n].text) \subseteq lost
    /\ \A h \in Hooks : At(h, "send") =>
          hook[h].read \subseteq ToSet(written) \cup lost \cup ToSet(hook[h].text)

HookInv == FilesOK /\ HooksOK /\ CountsOK /\ QueueSafe /\ ReplayOK

-----------------------------------------------------------------------------
(* The order of files and of lines. *)

LEMMA AscendingIs ==
    ASSUME NEW S \in SUBSET Nat, IsFiniteSet(S)
    PROVE  /\ Cardinality(S) \in Nat
           /\ Ascending(S) \in Seq(S) /\ Len(Ascending(S)) = Cardinality(S)
           /\ \A n \in S : \E k \in 1..Cardinality(S) : Ascending(S)[k] = n
           /\ \A i, j \in 1..Cardinality(S) : i < j => Ascending(S)[i] < Ascending(S)[j]
<1> DEFINE N == Cardinality(S)
           Below(n) == {m \in S : m < n}
           rank(n) == Cardinality(Below(n))
           f == [n \in S |-> rank(n) + 1]
           q == Ascending(S)
<1>1. N \in Nat
  BY FS_CardinalityType
<1>2. ASSUME NEW n \in S
      PROVE  IsFiniteSet(Below(n)) /\ rank(n) \in Nat /\ rank(n) < N
  <2>1. IsFiniteSet(Below(n))
    BY FS_Subset
  <2>2. IsFiniteSet(S \ {n}) /\ Cardinality(S \ {n}) = N - 1
    BY FS_RemoveElement
  <2>3. Below(n) \in SUBSET (S \ {n})
    OBVIOUS
  <2> HIDE DEF Below
  <2>4. rank(n) <= Cardinality(S \ {n}) /\ rank(n) \in Nat
    BY <2>1, <2>2, <2>3, FS_Subset, FS_CardinalityType
  <2> QED BY <1>1, <2>1, <2>2, <2>4
<1>3. ASSUME NEW n \in S, NEW m \in S, n < m PROVE rank(n) < rank(m)
  <2>1. n \notin Below(n) /\ Below(n) \cup {n} \in SUBSET Below(m)
    <3>1. \A x \in S : x \in Nat
      OBVIOUS
    <3>2. ~(n < n) /\ \A x \in S : x < n => x < m
      BY <1>3, <3>1
    <3> QED BY <1>3, <3>2
  <2>2. IsFiniteSet(Below(n)) /\ IsFiniteSet(Below(m)) /\ rank(n) \in Nat /\ rank(m) \in Nat
    BY <1>2
  <2> HIDE DEF Below
  <2>3. Cardinality(Below(n) \cup {n}) = rank(n) + 1
    BY <2>1, <2>2, FS_AddElement
  <2>4. Cardinality(Below(n) \cup {n}) <= rank(m)
    BY <2>1, <2>2, FS_Subset
  <2> QED BY <2>2, <2>3, <2>4
<1> HIDE DEF Below, rank
<1>4. \A n, m \in S : rank(n) = rank(m) => n = m
  <2> SUFFICES ASSUME NEW n \in S, NEW m \in S, n # m PROVE rank(n) # rank(m)
    OBVIOUS
  <2>1. n < m \/ m < n
    OBVIOUS
  <2> QED BY <1>2, <1>3, <2>1
<1>5. f \in Injection(S, 1..N)
  <2>1. \A n \in S : rank(n) + 1 \in 1..N
    BY <1>1, <1>2
  <2>2. f \in [S -> 1..N]
    <3> HIDE DEF N
    <3> QED BY <2>1
  <2>3. \A n, m \in S : f[n] = f[m] => n = m
    BY <1>2, <1>4
  <2> HIDE DEF f
  <2> QED BY <2>2, <2>3 DEF Injection, IsInjective
<1>6. f \in Surjection(S, 1..N)
  <2>1. IsFiniteSet(1..N) /\ Cardinality(1..N) = N
    BY <1>1, FS_Interval
  <2> HIDE DEF f
  <2> QED BY <1>5, <2>1, FS_Injection
<1>7. ASSUME NEW k \in 1..N PROVE q[k] \in S /\ rank(q[k]) = k - 1
  <2>1. q[k] = CHOOSE n \in S : rank(n) = k - 1
    BY DEF Ascending, rank, Below
  <2>2. \E n \in S : f[n] = k
    BY <1>6 DEF Surjection
  <2>3. \E n \in S : rank(n) = k - 1
    BY <1>2, <2>2
  <2> HIDE DEF q, f
  <2> QED BY <2>1, <2>3
<1>8. DOMAIN q = 1..N /\ q = [k \in 1..N |-> q[k]]
  <2>1. q = [k \in 1..N |-> CHOOSE n \in S : rank(n) = k - 1]
    BY DEF Ascending, rank, Below
  <2> HIDE DEF q, N, rank
  <2> QED BY <2>1
<1> HIDE DEF f, q
<1>9. q \in Seq(S) /\ Len(q) = N
  <2>1. q \in [1..N -> S]
    <3> HIDE DEF N
    <3> QED BY <1>7, <1>8
  <2> HIDE DEF N
  <2> QED BY <1>1, <2>1
<1>10. ASSUME NEW n \in S PROVE \E k \in 1..N : q[k] = n
  <2>1. rank(n) + 1 \in 1..N /\ rank(n) \in Nat
    BY <1>1, <1>2
  <2>2. q[rank(n) + 1] \in S /\ rank(q[rank(n) + 1]) = rank(n)
    BY <1>7, <2>1
  <2> QED BY <1>4, <2>1, <2>2
<1>11. ASSUME NEW i \in 1..N, NEW j \in 1..N, i < j PROVE q[i] < q[j]
  <2>1. q[i] \in S /\ q[j] \in S /\ rank(q[i]) = i - 1 /\ rank(q[j]) = j - 1
    BY <1>7
  <2>2. q[i] \in Nat /\ q[j] \in Nat /\ i \in Nat /\ j \in Nat
    <3>1. q[i] \in Nat /\ q[j] \in Nat
      BY <2>1
    <3> QED BY <1>1, <3>1
  <2>3. q[i] # q[j]
    BY <1>11, <2>1, <2>2
  <2>4. ~(q[j] < q[i])
    BY <1>3, <1>11, <2>1, <2>2
  <2> QED BY <2>2, <2>3, <2>4
<1> QED BY <1>1, <1>9, <1>10, <1>11 DEF q

\* The lines that a replay can parse.
GoodLines(text) == {i \in LineStarts(text) : WellFormed(text, i)}

LEMMA TokenKinds ==
    /\ {NL, Stub, Torn} \cap Events = {} /\ NL # Torn /\ NL \notin Nat /\ Events \subseteq Nat
    /\ {NL, Stub, Torn} \subseteq Token
BY HookQueueAssumption DEF Token, NL, Stub, Torn, Events

LEMMA SetOfSeq ==
    ASSUME NEW S, NEW s \in Seq(S)
    PROVE  ToSet(s) \subseteq S /\ \A x : x \in ToSet(s) <=> \E i \in 1..Len(s) : s[i] = x
BY DEF ToSet

LEMMA SetOfAppend ==
    ASSUME NEW S, NEW s \in Seq(S), NEW e \in S
    PROVE  ToSet(Append(s, e)) = ToSet(s) \cup {e}
<1>1. /\ Append(s, e) \in Seq(S) /\ Len(Append(s, e)) = Len(s) + 1 /\ Len(s) \in Nat
      /\ \A i \in 1..Len(s) : Append(s, e)[i] = s[i]
      /\ Append(s, e)[Len(s) + 1] = e
  BY AppendProperties, LenProperties
<1>2. \A x : x \in ToSet(Append(s, e)) <=> \E i \in 1..(Len(s) + 1) : Append(s, e)[i] = x
  BY <1>1 DEF ToSet
<1>3. \A x : x \in ToSet(s) <=> \E i \in 1..Len(s) : s[i] = x
  BY SetOfSeq
<1>4. \A i \in 1..(Len(s) + 1) : i \in 1..Len(s) \/ i = Len(s) + 1
  BY <1>1
<1>5. \A i \in 1..Len(s) : i \in 1..(Len(s) + 1)
  BY <1>1
<1>6. Len(s) + 1 \in 1..(Len(s) + 1)
  BY <1>1
<1> QED BY <1>1, <1>2, <1>3, <1>4, <1>5, <1>6

LEMMA SetOfTail ==
    ASSUME NEW S, NEW s \in Seq(S), s # <<>>
    PROVE  Head(s) \in S /\ Tail(s) \in Seq(S) /\ ToSet(s) = {Head(s)} \cup ToSet(Tail(s))
<1>1. /\ Head(s) \in S /\ Tail(s) \in Seq(S) /\ Len(Tail(s)) = Len(s) - 1
      /\ \A i \in 1..Len(Tail(s)) : Tail(s)[i] = s[i + 1]
      /\ Head(s) = s[1] /\ Len(s) \in Nat \ {0}
  BY HeadTailProperties, EmptySeq
<1>2. \A x : x \in ToSet(Tail(s)) <=> \E i \in 1..Len(Tail(s)) : Tail(s)[i] = x
  <2> DEFINE t == Tail(s)
  <2>1. t \in Seq(S)
    BY <1>1
  <2> HIDE DEF t
  <2>2. \A x : x \in ToSet(t) <=> \E i \in 1..Len(t) : t[i] = x
    BY <2>1 DEF ToSet
  <2> QED BY <2>2 DEF t
<1>3. \A x : x \in ToSet(s) <=> \E i \in 1..Len(s) : s[i] = x
  BY SetOfSeq
<1>4. ASSUME NEW x \in ToSet(s) PROVE x = Head(s) \/ x \in ToSet(Tail(s))
  <2>1. PICK i \in 1..Len(s) : s[i] = x
    BY <1>3
  <2>2. CASE i = 1
    BY <1>1, <2>1, <2>2
  <2>3. CASE i # 1
    <3>1. i - 1 \in 1..Len(Tail(s)) /\ (i - 1) + 1 = i
      BY <1>1, <2>3
    <3>2. Tail(s)[i - 1] = x
      BY <1>1, <2>1, <3>1
    <3> QED BY <1>2, <3>1, <3>2
  <2> QED BY <2>2, <2>3
<1>5. ASSUME NEW x \in ToSet(Tail(s)) PROVE x \in ToSet(s)
  <2>1. PICK i \in 1..Len(Tail(s)) : Tail(s)[i] = x
    BY <1>2
  <2>2. i + 1 \in 1..Len(s) /\ s[i + 1] = x
    BY <1>1, <2>1
  <2> QED BY <1>3, <2>2
<1>6. Head(s) \in ToSet(s)
  BY <1>1, <1>3
<1> QED BY <1>1, <1>4, <1>5, <1>6

LEMMA GoodLinesShape ==
    ASSUME NEW text \in Seq(Token)
    PROVE  /\ GoodLines(text) \in SUBSET Nat /\ IsFiniteSet(GoodLines(text))
           /\ \A i \in GoodLines(text) : i \in 1..Len(text) /\ text[i] \in Events
<1>1. Len(text) \in Nat /\ \A i \in 1..Len(text) : text[i] \in Token /\ i \in Nat
  BY LenProperties
<1>2. GoodLines(text) \in SUBSET (1..Len(text))
  BY DEF GoodLines, LineStarts
<1>3. IsFiniteSet(1..Len(text))
  BY <1>1, FS_Interval
<1>4. IsFiniteSet(GoodLines(text))
  BY <1>2, <1>3, FS_Subset
<1>5. \A i \in GoodLines(text) : text[i] \in Events
  BY DEF GoodLines, WellFormed
<1> QED BY <1>1, <1>2, <1>4, <1>5

LEMMA ReadableIs ==
    ASSUME NEW text \in Seq(Token)
    PROVE  /\ Readable(text) \in Seq(Events)
           /\ \A x : x \in ToSet(Readable(text)) <=> \E i \in GoodLines(text) : text[i] = x
<1> DEFINE G == GoodLines(text)
           good == Ascending(G)
<1>1. G \in SUBSET Nat /\ IsFiniteSet(G) /\ \A i \in G : text[i] \in Events
  BY GoodLinesShape
<1> HIDE DEF G
<1>2. /\ Cardinality(G) \in Nat
      /\ good \in Seq(G) /\ Len(good) = Cardinality(G)
      /\ \A n \in G : \E k \in 1..Len(good) : good[k] = n
  <2>1. /\ Cardinality(G) \in Nat
        /\ Ascending(G) \in Seq(G) /\ Len(Ascending(G)) = Cardinality(G)
        /\ \A n \in G : \E k \in 1..Cardinality(G) : Ascending(G)[k] = n
    BY <1>1, AscendingIs
  <2> QED BY <2>1
<1>3. Readable(text) = [k \in 1..Len(good) |-> text[good[k]]]
  BY DEF Readable, G, GoodLines
<1> HIDE DEF good
<1>4. \A k \in 1..Len(good) : good[k] \in G
  BY <1>2
<1>5. Readable(text) \in [1..Len(good) -> Events]
  BY <1>1, <1>3, <1>4
<1>6. Readable(text) \in Seq(Events) /\ Len(Readable(text)) = Len(good)
  BY <1>2, <1>5
<1>7. \A x : x \in ToSet(Readable(text)) <=> \E k \in 1..Len(good) : text[good[k]] = x
  BY <1>3 DEF ToSet
<1> QED BY <1>2, <1>4, <1>6, <1>7 DEF G

-----------------------------------------------------------------------------
(* The text of a file. *)

LEMMA EventsOfText ==
    ASSUME NEW text \in Seq(Token)
    PROVE  /\ EventsIn(text) \subseteq Events
           /\ ToSet(Readable(text)) \subseteq EventsIn(text)
           /\ EventsIn(text) = ToSet(Readable(text)) \cup Glued(text)
           /\ Glued(text) \subseteq EventsIn(text)
<1>1. ToSet(text) \subseteq Token /\ \A x : x \in ToSet(text) <=> \E i \in 1..Len(text) : text[i] = x
  BY SetOfSeq
<1>2. EventsIn(text) \subseteq Events
  BY <1>1, TokenKinds DEF EventsIn
<1>3. ASSUME NEW x \in ToSet(Readable(text)) PROVE x \in EventsIn(text)
  <2>1. PICK i \in GoodLines(text) : text[i] = x
    BY ReadableIs
  <2>2. i \in 1..Len(text) /\ text[i] \in Events
    BY GoodLinesShape
  <2>3. x \in ToSet(text) /\ x \in Events
    BY <1>1, <2>1, <2>2
  <2> QED BY <2>3 DEF EventsIn
<1> QED BY <1>2, <1>3 DEF Glued

LEMMA EventsOfAppend ==
    ASSUME NEW text \in Seq(Token), NEW t \in Token
    PROVE  /\ Append(text, t) \in Seq(Token)
           /\ EventsIn(Append(text, t)) = EventsIn(text) \cup ({t} \cap Events)
           /\ (Damaged(Append(text, t)) <=> (Damaged(text) \/ t = Torn))
<1>1. ToSet(Append(text, t)) = ToSet(text) \cup {t}
  BY SetOfAppend
<1>2. Append(text, t) \in Seq(Token)
  BY AppendProperties
<1> QED BY <1>1, <1>2 DEF EventsIn, Damaged

\* The end of a line changes neither the lines nor what can be parsed.
LEMMA ReadableOfEnd ==
    ASSUME NEW text \in Seq(Token)
    PROVE  /\ ToSet(Readable(Append(text, NL))) = ToSet(Readable(text))
           /\ Glued(Append(text, NL)) = Glued(text)
<1> DEFINE new == Append(text, NL)
           N == Len(text)
<1>1. NL \in Token /\ NL \notin Events
  BY TokenKinds
<1>2. /\ new \in Seq(Token) /\ Len(new) = N + 1 /\ N \in Nat
      /\ \A i \in 1..N : new[i] = text[i]
      /\ new[N + 1] = NL
  BY <1>1, AppendProperties, LenProperties
<1>0. Damaged(new) <=> Damaged(text)
  BY <1>1, EventsOfAppend, TokenKinds
<1> HIDE DEF new, N
<1>3. LineStarts(new) = LineStarts(text)
  <2>1. ASSUME NEW i \in Nat PROVE i \in LineStarts(new) <=> i \in LineStarts(text)
    <3>1. CASE i \in 1..N
      <4>1. i \in 1..Len(new) /\ new[i] = text[i]
        BY <1>2, <3>1
      <4>2. i # 1 => new[i - 1] = text[i - 1]
        BY <1>2, <3>1
      <4> QED BY <3>1, <4>1, <4>2 DEF LineStarts, N
    <3>2. CASE i \notin 1..N
      <4>1. i \in 1..Len(new) => new[i] = NL
        BY <1>2, <3>2
      <4> QED BY <3>2, <4>1 DEF LineStarts, N
    <3> QED BY <3>1, <3>2
  <2>2. LineStarts(new) \subseteq Nat /\ LineStarts(text) \subseteq Nat
    BY <1>2 DEF LineStarts, N
  <2> QED BY <2>1, <2>2
<1>4. ASSUME NEW i \in LineStarts(text)
      PROVE  /\ WellFormed(new, i) <=> WellFormed(text, i)
             /\ new[i] = text[i]
  <2>1. i \in 1..N
    BY DEF LineStarts, N
  <2>2. CASE i = N
    BY <1>0, <1>2, <2>1, <2>2 DEF WellFormed, N
  <2>3. CASE i # N
    <3>1. i + 1 \in 1..N /\ i # Len(new)
      BY <1>2, <2>1, <2>3
    <3>2. new[i + 1] = text[i + 1] /\ new[i] = text[i]
      BY <1>2, <2>1, <3>1
    <3> QED BY <1>0, <2>3, <3>1, <3>2 DEF WellFormed, N
  <2> QED BY <2>2, <2>3
<1>5. GoodLines(new) = GoodLines(text) /\ \A i \in GoodLines(text) : new[i] = text[i]
  BY <1>3, <1>4 DEF GoodLines
<1>6. \A x : x \in ToSet(Readable(new)) <=> \E i \in GoodLines(new) : new[i] = x
  BY <1>2, ReadableIs
<1>7. \A x : x \in ToSet(Readable(text)) <=> \E i \in GoodLines(text) : text[i] = x
  BY ReadableIs
<1>8. ToSet(Readable(new)) = ToSet(Readable(text))
  BY <1>5, <1>6, <1>7
<1>9. EventsIn(new) = EventsIn(text)
  <2>1. EventsIn(Append(text, NL)) = EventsIn(text) \cup ({NL} \cap Events)
    BY <1>1, EventsOfAppend
  <2>2. {NL} \cap Events = {}
    BY <1>1
  <2> QED BY <2>1, <2>2 DEF new
<1>10. Glued(new) = Glued(text)
  BY <1>8, <1>9 DEF Glued
<1> QED BY <1>8, <1>10 DEF new

LEMMA EmptyText ==
    <<>> \in Seq(Token) /\ EventsIn(<<>>) = {} /\ Glued(<<>>) = {}
<1>1. <<>> \in Seq(Token)
  OBVIOUS
<1>2. EventsIn(<<>>) = {}
  BY DEF EventsIn, ToSet
<1> QED BY <1>1, <1>2 DEF Glued
-----------------------------------------------------------------------------
(* The files. *)

\* What is left of the directory.
FilesKept(gone) ==
    /\ Names' = Names \ gone
    /\ \A n \in Names \ gone : files'[n] = files[n]

\* One file is written.
FilePut(n, text) ==
    /\ Names' = Names \cup {n}
    /\ files'[n].text = text
    /\ \A m \in Names : m # n => files'[m] = files[m]

ClockRuns == clock \in Nat /\ clock' \in Nat /\ clock <= clock'

LEMMA FilesSame ==
    ASSUME FilesOK, UNCHANGED files, ClockRuns
    PROVE  FilesOK' /\ FilesKept({})
<1>1. Names' = Names /\ \A n \in Names : n \in Nat /\ files[n].mtime \in Nat
  BY DEF Names, FilesOK
<1>2. FilesOK'
  BY <1>1 DEF FilesOK, ClockRuns
<1> QED BY <1>1, <1>2 DEF FilesKept

LEMMA FilesUnlinked ==
    ASSUME FilesOK, NEW gone, Unlink(gone), ClockRuns
    PROVE  FilesOK' /\ FilesKept(gone)
<1>1. Names' = Names \ gone /\ \A n \in Names \ gone : files'[n] = files[n]
  BY DEF Unlink, Names
<1>2. \A n \in Names : /\ files[n] \in [text: Seq(Token), mtime: Nat] /\ n \in Nat
                       /\ files[n].mtime \in Nat
                       /\ n <= files[n].mtime /\ files[n].mtime <= clock
  BY DEF FilesOK
<1>3. files' \in [Names' -> [text: Seq(Token), mtime: Nat]]
  <2>1. files' = [n \in Names \ gone |-> files[n]]
    BY DEF Unlink
  <2> HIDE DEF Names
  <2> QED BY <1>1, <1>2, <2>1
<1>4. \A n \in Names' : n <= files'[n].mtime /\ files'[n].mtime <= clock'
  <2> HIDE DEF Names
  <2> QED BY <1>1, <1>2 DEF ClockRuns
<1>5. Names' \subseteq Nat
  BY <1>1 DEF FilesOK
<1> QED BY <1>1, <1>3, <1>4, <1>5 DEF FilesOK, FilesKept

LEMMA FilesPut ==
    ASSUME FilesOK, NEW n \in Nat, n <= clock, NEW text \in Seq(Token), Put(n, text),
           UNCHANGED clock, clock \in Nat
    PROVE  FilesOK' /\ FilePut(n, text)
<1> DEFINE new == [text |-> text, mtime |-> clock]
           File == [text: Seq(Token), mtime: Nat]
<1>0. new \in File /\ new.text = text /\ new.mtime = clock
  OBVIOUS
<1>1. files' = [m \in Names \cup {n} |-> IF m = n THEN new ELSE files[m]]
  BY DEF Put
<1> HIDE DEF new
<1>2. /\ Names' = Names \cup {n} /\ files'[n] = new
      /\ \A m \in Names : m # n => files'[m] = files[m]
  BY <1>1 DEF Names
<1>3. \A m \in Names : /\ files[m] \in File /\ m \in Nat
                       /\ m <= files[m].mtime /\ files[m].mtime <= clock
  BY DEF FilesOK
<1> HIDE DEF File
<1>4. files' \in [Names' -> File]
  BY <1>0, <1>1, <1>2, <1>3
<1>5. \A m \in Names' : m <= files'[m].mtime /\ files'[m].mtime <= clock'
  BY <1>0, <1>2, <1>3
<1>6. Names' \subseteq Nat
  BY <1>2, <1>3
<1> QED BY <1>0, <1>2, <1>4, <1>5, <1>6 DEF FilesOK, FilePut, File

LEMMA NamesFinite ==
    ASSUME FilesOK, clock \in Nat
    PROVE  IsFiniteSet(Names) /\ Names \in SUBSET Nat
<1>1. \A n \in Names : n \in Nat /\ files[n].mtime \in Nat /\ n <= files[n].mtime
                       /\ files[n].mtime <= clock
  BY DEF FilesOK
<1>2. Names \in SUBSET (0..clock)
  BY <1>1
<1>3. IsFiniteSet(0..clock)
  BY FS_Interval
<1> QED BY <1>1, <1>2, <1>3, FS_Subset

-----------------------------------------------------------------------------
(* The hooks. *)

LEMMA HookShape ==
    ASSUME HooksOK, NEW h \in Hooks
    PROVE  /\ hook[h] \in HookState
           /\ At(h, "idle") <=> hook[h] = NoHook
           /\ hook[h].step \in {"room", "target", "own", "open", "line", "end"} =>
                hook[h].e \in Events
           /\ At(h, "open") => hook[h].file \in Nat
           /\ hook[h].step \in {"line", "end"} => hook[h].file \in Nat \cup {Gone}
           /\ hook[h].step \in {"read", "send"} =>
                hook[h].e \in Events \cup {Query} /\ hook[h].list \in Seq(Nat)
           /\ At(h, "send") => hook[h].text \in Seq(Events) /\ hook[h].read \in SUBSET Events
           /\ hook[h] # NoHook => hook[h].e \in Events \cup {Query}
<1> DEFINE x == hook[h]
<1>1. x \in HookState
  BY DEF HooksOK
<1> HIDE DEF x
<1>2. /\ x.step = "idle" <=> x = NoHook
      /\ x.step \in {"room", "target", "own", "open", "line", "end"} => x.e \in Events
      /\ x.step = "open" => x.file \in Nat
      /\ x.step \in {"line", "end"} => x.file \in Nat \cup {Gone}
      /\ x.step \in {"read", "send"} => x.e \in Events \cup {Query} /\ x.list \in Seq(Nat)
      /\ x.step = "send" => x.text \in Seq(Events) /\ x.read \in SUBSET Events
      /\ x # NoHook => x.e \in Events \cup {Query}
  BY <1>1 DEF HookState, NoHook
<1> QED BY <1>1, <1>2 DEF At, x

LEMMA NewStates ==
    /\ NoHook \in HookState
    /\ \A t \in {"room", "target", "own"}, e \in Events : [step |-> t, e |-> e] \in HookState
    /\ \A e \in Events, n \in Nat : [step |-> "open", e |-> e, file |-> n] \in HookState
    /\ \A e \in Events \cup {Query}, l \in Seq(Nat) :
          [step |-> "read", e |-> e, list |-> l] \in HookState
    /\ \A e \in Events \cup {Query}, l \in Seq(Nat), t \in Seq(Events), r \in SUBSET Events :
          [step |-> "send", e |-> e, list |-> l, text |-> t, read |-> r] \in HookState
BY DEF HookState

LEMMA NextFileState ==
    ASSUME NEW e \in Events \cup {Query}, NEW list \in Seq(Nat)
    PROVE  LET new == NextFile(e, list) IN
           /\ new \in HookState
           /\ new.step \in {"read", "own", "idle"}
           /\ new.step = "read" => new.list # <<>>
           /\ new # NoHook => new.e = e
<1>1. CASE list # <<>>
  BY <1>1, NewStates DEF NextFile
<1>2. CASE list = <<>> /\ e = Query
  BY <1>2, NewStates DEF NextFile, NoHook
<1>3. CASE list = <<>> /\ e # Query
  <2>1. e \in Events
    BY <1>3
  <2> QED BY <1>3, <2>1, NewStates DEF NextFile
<1> QED BY <1>1, <1>2, <1>3

\* The other hooks stay where they are; at most their file is unlinked.
Others(h) ==
    \A g \in Hooks : g # h =>
        /\ hook'[g].step = hook[g].step
        /\ At(g, "end") => hook'[g].e = hook[g].e
        /\ At(g, "send") => hook'[g] = hook[g]

Counting == sent \in Nat /\ sent' \in Nat /\ sent <= sent'

\* The state that a step gives to its hook.
Placed(new) ==
    /\ new \in HookState
    /\ new # NoHook => new.e <= sent'
    /\ new.step \in {"open", "line", "end"} => new.file <= clock'
    /\ new.step \in {"read", "send"} => new.list # <<>>

LEMMA HookDone ==
    ASSUME HooksOK, NEW h \in Hooks, NEW new, Do(h, new), Placed(new), ClockRuns, Counting
    PROVE  HooksOK' /\ Others(h) /\ hook'[h] = new
<1>1. hook \in [Hooks -> HookState]
  BY DEF HooksOK
<1>2. hook'[h] = new /\ \A g \in Hooks : g # h => hook'[g] = hook[g]
  BY <1>1 DEF Do
<1>3. hook' \in [Hooks -> HookState]
  BY <1>1 DEF Do, Placed
<1>4. ASSUME NEW g \in Hooks
      PROVE  /\ hook'[g] # NoHook => hook'[g].e <= sent'
             /\ hook'[g].step \in {"open", "line", "end"} => hook'[g].file <= clock'
             /\ hook'[g].step \in {"read", "send"} => hook'[g].list # <<>>
  <2>1. CASE g = h
    BY <1>2, <2>1 DEF Placed
  <2>2. CASE g # h
    <3>1. hook'[g] = hook[g]
      BY <1>2, <2>2
    <3>2. hook[g] # NoHook => hook[g].e \in Int
      BY HookShape, HookQueueAssumption DEF Events, Query
    <3>3. hook[g] # NoHook => hook[g].e <= sent'
      BY <3>2 DEF HooksOK, Counting
    <3>4. hook[g].step \in {"open", "line", "end"} => hook[g].file \in Int
      BY HookShape DEF At, Gone
    <3>5. hook[g].step \in {"open", "line", "end"} => hook[g].file <= clock'
      BY <3>4 DEF HooksOK, ClockRuns
    <3> QED BY <3>1, <3>3, <3>5 DEF HooksOK
  <2> QED BY <2>1, <2>2
<1>5. HooksOK'
  BY <1>3, <1>4 DEF HooksOK
<1> QED BY <1>2, <1>5 DEF Others

LEMMA HookUnlinks ==
    ASSUME HooksOK, NEW h \in Hooks, NEW new, NEW gone, Placed(new), ClockRuns, Counting,
           hook[h].step \notin {"line", "end"},
           hook' = WithoutFiles(gone, [hook EXCEPT ![h] = new])
    PROVE  HooksOK' /\ Others(h) /\ hook'[h] = new
<1> DEFINE Cut(g) == hook[g].step \in {"line", "end"} /\ hook[g].file \in gone
<1>1. hook \in [Hooks -> HookState]
  BY DEF HooksOK
<1>2. /\ hook'[h] = new
      /\ \A g \in Hooks : g # h =>
            hook'[g] = IF Cut(g) THEN [hook[g] EXCEPT !.file = Gone] ELSE hook[g]
      /\ DOMAIN hook' = Hooks /\ hook' = [g \in Hooks |-> hook'[g]]
  <2> DEFINE f == [hook EXCEPT ![h] = new]
  <2>1. f[h] = new /\ \A g \in Hooks : g # h => f[g] = hook[g]
    BY <1>1
  <2>2. hook' = [g \in Hooks |-> IF Cut(g) THEN [f[g] EXCEPT !.file = Gone] ELSE f[g]]
    BY DEF WithoutFiles
  <2> HIDE DEF f
  <2> QED BY <2>1, <2>2
<1>3. ASSUME NEW g \in Hooks, g # h, Cut(g)
      PROVE  /\ hook'[g] \in HookState
             /\ hook'[g].step = hook[g].step /\ hook'[g].e = hook[g].e /\ hook'[g].file = Gone
             /\ hook'[g] # NoHook
  <2> DEFINE x == hook[g]
             y == [x EXCEPT !.file = Gone]
  <2>1. x \in HookState /\ x.step \in {"line", "end"}
    BY <1>1, <1>3
  <2>2. hook'[g] = y
    BY <1>2, <1>3
  <2> HIDE DEF x
  <2>3. x \in [step: {"line", "end"}, e: Events, file: Nat \cup {Gone}]
    BY <2>1 DEF HookState, NoHook
  <2>4. /\ y \in [step: {"line", "end"}, e: Events, file: Nat \cup {Gone}]
        /\ y.step = x.step /\ y.e = x.e /\ y.file = Gone
    BY <2>3
  <2> HIDE DEF y
  <2>5. y \in HookState /\ y # NoHook
    BY <2>1, <2>4 DEF HookState, NoHook
  <2> QED BY <2>2, <2>4, <2>5 DEF x
<1>4. ASSUME NEW g \in Hooks
      PROVE  /\ hook'[g] \in HookState
             /\ hook'[g] # NoHook => hook'[g].e <= sent'
             /\ hook'[g].step \in {"open", "line", "end"} => hook'[g].file <= clock'
             /\ hook'[g].step \in {"read", "send"} => hook'[g].list # <<>>
             /\ g # h => /\ hook'[g].step = hook[g].step
                         /\ At(g, "end") => hook'[g].e = hook[g].e
                         /\ At(g, "send") => hook'[g] = hook[g]
  <2>1. CASE g = h
    BY <1>2, <2>1 DEF Placed
  <2>2. hook[g] # NoHook => hook[g].e \in Int
    BY HookShape, HookQueueAssumption DEF Events, Query
  <2>3. hook[g] # NoHook => hook[g].e <= sent'
    BY <2>2 DEF HooksOK, Counting
  <2>4. hook[g].step \in {"open", "line", "end"} => hook[g].file \in Int
    BY HookShape DEF At, Gone
  <2>5. hook[g].step \in {"open", "line", "end"} => hook[g].file <= clock'
    BY <2>4 DEF HooksOK, ClockRuns
  <2>6. CASE g # h /\ Cut(g)
    <3>1. hook[g].step \in {"line", "end"} /\ hook[g] # NoHook
      BY <2>6 DEF NoHook
    <3>2. Gone <= clock'
      BY DEF Gone, ClockRuns
    <3>3. /\ hook'[g] \in HookState
          /\ hook'[g].step = hook[g].step /\ hook'[g].e = hook[g].e /\ hook'[g].file = Gone
      BY <1>3, <2>6
    <3> HIDE DEF Cut
    <3> QED BY <2>3, <2>6, <3>1, <3>2, <3>3 DEF At
  <2>7. CASE g # h /\ ~Cut(g)
    <3>1. hook'[g] = hook[g]
      BY <1>2, <2>7
    <3> QED BY <1>1, <2>3, <2>5, <2>7, <3>1 DEF HooksOK
  <2> QED BY <2>1, <2>6, <2>7
<1>5. hook' \in [Hooks -> HookState]
  <2> HIDE DEF Cut
  <2> QED BY <1>2, <1>4
<1>6. HooksOK'
  BY <1>4, <1>5 DEF HooksOK
<1>7. Others(h)
  BY <1>4 DEF Others
<1> QED BY <1>2, <1>6, <1>7
-----------------------------------------------------------------------------
(* What is safe stays safe. *)

Settled == ToSet(written) \cup lost

\* What is owed to the hook of a step and to the events it queues.
StepSafe(h) ==
    /\ Safe \subseteq Safe'
    /\ Settled \subseteq Settled'
    /\ queued' \subseteq queued \cup Safe'
    /\ hook'[h].step = "end" => hook'[h].e \in Safe'
    /\ hook'[h].step = "send" => /\ ToSet(hook'[h].text) \subseteq Safe'
                                 /\ hook'[h].read \subseteq Settled' \cup ToSet(hook'[h].text)

GluedLost == \A n \in Names : Glued(files[n].text) \subseteq lost

LEMMA SafeStep ==
    ASSUME QueueSafe, ReplayOK, NEW h \in Hooks, Others(h), StepSafe(h), GluedLost'
    PROVE  QueueSafe' /\ ReplayOK'
<1>1. queued' \subseteq Safe'
  BY DEF QueueSafe, StepSafe
<1>2. ASSUME NEW g \in Hooks, At(g, "end")' PROVE (hook[g].e)' \in Safe'
  <2>1. CASE g = h
    BY <1>2, <2>1 DEF StepSafe, At
  <2>2. CASE g # h
    BY <1>2, <2>2 DEF StepSafe, At, Others, QueueSafe
  <2> QED BY <2>1, <2>2
<1>3. ASSUME NEW g \in Hooks, At(g, "send")'
      PROVE  /\ ToSet(hook'[g].text) \subseteq Safe'
             /\ hook'[g].read \subseteq Settled' \cup ToSet(hook'[g].text)
  <2>1. CASE g = h
    BY <1>3, <2>1 DEF StepSafe, At
  <2>2. CASE g # h
    <3>1. At(g, "send") /\ hook'[g] = hook[g]
      BY <1>3, <2>2 DEF At, Others
    <3>2. /\ ToSet(hook[g].text) \subseteq Safe
          /\ hook[g].read \subseteq Settled \cup ToSet(hook[g].text)
      BY <3>1 DEF QueueSafe, ReplayOK, Settled
    <3> QED BY <3>1, <3>2 DEF StepSafe
  <2> QED BY <2>1, <2>2
<1>4. QueueSafe'
  BY <1>1, <1>2, <1>3 DEF QueueSafe
<1>5. ReplayOK'
  BY <1>3 DEF ReplayOK, GluedLost, Settled
<1> QED BY <1>4, <1>5

\* Files stay as they are, or go with what they hold.
LEMMA KeptSafe ==
    ASSUME NEW gone, FilesKept(gone), Settled \subseteq Settled',
           \A n \in Names \cap gone : ToSet(Readable(files[n].text)) \subseteq Settled'
    PROVE  Safe \subseteq Safe'
<1> SUFFICES ASSUME NEW x \in Safe PROVE x \in Safe'
  OBVIOUS
<1>1. CASE x \in Settled
  BY <1>1 DEF Safe, Settled
<1>2. CASE x \in InFiles
  <2>1. PICK n \in Names : x \in ToSet(Readable(files[n].text))
    BY <1>2 DEF InFiles
  <2>2. CASE n \in gone
    BY <2>1, <2>2 DEF Safe, Settled
  <2>3. CASE n \notin gone
    <3>1. n \in Names' /\ files'[n] = files[n]
      BY <2>3 DEF FilesKept
    <3>2. x \in InFiles'
      BY <2>1, <3>1 DEF InFiles
    <3> QED BY <3>2 DEF Safe
  <2> QED BY <2>2, <2>3
<1> QED BY <1>1, <1>2 DEF Safe, Settled

LEMMA KeptGlued ==
    ASSUME NEW gone, FilesKept(gone), GluedLost, lost \subseteq lost'
    PROVE  GluedLost'
BY DEF FilesKept, GluedLost

\* A file is created, or grows.
LEMMA PutSafe ==
    ASSUME NEW n, NEW text, FilePut(n, text), Settled \subseteq Settled',
           n \in Names => ToSet(Readable(files[n].text))
                            \subseteq ToSet(Readable(text)) \cup Settled'
    PROVE  Safe \subseteq Safe' /\ ToSet(Readable(text)) \subseteq Safe'
<1>1. ToSet(Readable(text)) \subseteq InFiles'
  BY DEF FilePut, InFiles
<1> SUFFICES ASSUME NEW x \in Safe PROVE x \in Safe'
  BY <1>1 DEF Safe
<1>2. CASE x \in Settled
  BY <1>2 DEF Safe, Settled
<1>3. CASE x \in InFiles
  <2>1. PICK m \in Names : x \in ToSet(Readable(files[m].text))
    BY <1>3 DEF InFiles
  <2>2. CASE m = n
    BY <1>1, <2>1, <2>2 DEF Safe, Settled
  <2>3. CASE m # n
    <3>1. m \in Names' /\ files'[m] = files[m]
      BY <2>3 DEF FilePut
    <3>2. x \in InFiles'
      BY <2>1, <3>1 DEF InFiles
    <3> QED BY <3>2 DEF Safe
  <2> QED BY <2>2, <2>3
<1> QED BY <1>2, <1>3 DEF Safe, Settled

LEMMA PutGlued ==
    ASSUME NEW n, NEW text, FilePut(n, text), GluedLost, lost \subseteq lost',
           Glued(text) \subseteq lost'
    PROVE  GluedLost'
BY DEF FilePut, GluedLost

-----------------------------------------------------------------------------
(* The steps. *)

LEMMA Numbers ==
    ASSUME HookInv
    PROVE  /\ clock \in Nat /\ sent \in Nat /\ sent \in 1..MaxEvents /\ clock \in 1..MaxClock
           /\ GluedLost
           /\ 1..sent \subseteq Events
           /\ \A h \in Hooks : hook[h] # NoHook => hook[h].e <= sent
<1>1. clock \in 1..MaxClock /\ sent \in 1..MaxEvents
  BY DEF HookInv, CountsOK
<1>2. clock \in Nat /\ sent \in Nat /\ 1..sent \subseteq Events
  BY <1>1, HookQueueAssumption DEF Events
<1>3. GluedLost
  BY DEF HookInv, ReplayOK, GluedLost
<1> QED BY <1>1, <1>2, <1>3 DEF HookInv, HooksOK

\* A step of a hook that leaves the files alone.
LEMMA QuietStep ==
    ASSUME HookInv, NEW h \in Hooks, NEW new, Do(h, new), UNCHANGED <<files, queued>>,
           Placed(new), ClockRuns, Counting, CountsOK',
           Settled \subseteq Settled', lost \subseteq lost',
           new.step # "end",
           new.step = "send" => /\ ToSet(new.text) \subseteq Safe
                                /\ new.read \subseteq Settled' \cup ToSet(new.text)
    PROVE  HookInv'
<1>1. FilesOK' /\ FilesKept({})
  BY FilesSame DEF HookInv
<1>2. HooksOK' /\ Others(h) /\ hook'[h] = new
  BY HookDone DEF HookInv
<1>3. Safe \subseteq Safe'
  BY <1>1, KeptSafe
<1>4. GluedLost'
  BY <1>1, Numbers, KeptGlued
<1>5. StepSafe(h)
  BY <1>2, <1>3 DEF StepSafe
<1>6. QueueSafe' /\ ReplayOK'
  BY <1>2, <1>4, <1>5, SafeStep DEF HookInv
<1> QED BY <1>1, <1>2, <1>6 DEF HookInv

LEMMA HistorySame ==
    ASSUME UNCHANGED <<written, lost>>
    PROVE  Settled \subseteq Settled' /\ lost \subseteq lost'
BY DEF Settled

LEMMA StartStep ==
    ASSUME HookInv, NEW h \in Hooks, NEW e \in Events \cup {Query}, e <= sent', Counting,
           StartReplay(h, e) \/ (e \in Events /\ StartOffline(h, e)),
           sent' \in 1..MaxEvents,
           UNCHANGED <<files, up, clock, written, queued, lost>>
    PROVE  HookInv'
<1>1. ClockRuns /\ clock \in Nat
  BY Numbers DEF ClockRuns
<1>2. Settled \subseteq Settled' /\ lost \subseteq lost'
  BY HistorySame
<1>3. CASE StartReplay(h, e)
  <2> DEFINE new == NextFile(e, Sorted(Names))
  <2>1. Do(h, new) /\ disturbed' = (disturbed \/ (Names # {} /\ Replaying # {}))
    BY <1>3 DEF StartReplay
  <2>2. Sorted(Names) \in Seq(Nat)
    <3>1. IsFiniteSet(Names) /\ Names \in SUBSET Nat
      BY <1>1, NamesFinite DEF HookInv
    <3>2. Ascending(Names) \in Seq(Names)
      <4> HIDE DEF Names
      <4> QED BY <3>1, AscendingIs
    <3> QED BY <3>1, <3>2, SeqMonotonic DEF Sorted
  <2>3. /\ new \in HookState /\ new.step \in {"read", "own", "idle"}
        /\ new.step = "read" => new.list # <<>>
        /\ new # NoHook => new.e = e
    BY <2>2, NextFileState
  <2>4. Placed(new)
    BY <2>3 DEF Placed
  <2>5. CountsOK'
    <3>1. disturbed' \in BOOLEAN
      BY <2>1
    <3> QED BY <3>1 DEF HookInv, CountsOK
  <2> HIDE DEF new
  <2> QED BY <1>1, <1>2, <2>1, <2>3, <2>4, <2>5, QuietStep
<1>4. CASE e \in Events /\ StartOffline(h, e)
  <2>1. PICK new : Do(h, new) /\ new \in {[step |-> "room", e |-> e], NoHook}
    BY <1>4 DEF StartOffline
  <2>2. Placed(new) /\ new.step \in {"room", "idle"}
    BY <1>4, <2>1, NewStates DEF Placed, NoHook
  <2>3. CountsOK'
    BY <1>4 DEF HookInv, CountsOK, StartOffline
  <2> QED BY <1>1, <1>2, <2>1, <2>2, <2>3, QuietStep
<1> QED BY <1>3, <1>4

LEMMA BeginStep ==
    ASSUME HookInv, NEW h \in Hooks, BeginEvent(h) \/ BeginQuery(h)
    PROVE  HookInv'
<1>1. sent \in Nat /\ sent \in 1..MaxEvents
  BY Numbers
<1>2. CASE BeginEvent(h)
  <2>1. /\ sent + 1 \in Events /\ Counting /\ sent' \in 1..MaxEvents /\ sent + 1 <= sent'
    BY <1>1, <1>2, HookQueueAssumption DEF BeginEvent, Events, Counting
  <2>2. /\ StartReplay(h, sent + 1) \/ StartOffline(h, sent + 1)
        /\ UNCHANGED <<files, up, clock, written, queued, lost>>
    BY <1>2 DEF BeginEvent
  <2> QED BY <2>1, <2>2, StartStep
<1>3. CASE BeginQuery(h)
  <2>1. Counting /\ sent' \in 1..MaxEvents /\ Query <= sent' /\ Query \in Events \cup {Query}
    BY <1>1, <1>3 DEF BeginQuery, Query, Counting
  <2>2. StartReplay(h, Query) /\ UNCHANGED <<files, up, clock, written, queued, lost>>
    BY <1>3 DEF BeginQuery, history
  <2> QED BY <2>1, <2>2, StartStep
<1> QED BY <1>2, <1>3

\* Prune and the file limit, also when a file cannot be removed: some files go,
\* and the hook goes on or ends.
LEMMA RoomMade ==
    ASSUME HookInv, NEW h \in Hooks, NEW now, MakeRoom(h, now) \/ MakeRoomFails(h, now)
    PROVE  /\ At(h, "room") /\ now \in clock..MaxClock /\ clock' = now
           /\ UNCHANGED <<up, sent, written, queued, before, disturbed>>
           /\ \E gone \in SUBSET Names, new \in {[step |-> "target", e |-> hook[h].e], NoHook} :
                 Discard(h, gone, new)
<1> DEFINE kept(S) == Sorted(Names \ S)
           over(S) == Surplus(Len(kept(S)))
           Gone2(S, k) == S \cup {kept(S)[i] : i \in 1..k}
<1>1. /\ At(h, "room") /\ now \in clock..MaxClock /\ clock' = now
      /\ UNCHANGED <<up, sent, written, queued, before, disturbed>>
  BY DEF MakeRoom, MakeRoomFails, SystemTimeNow
<1>2. Expired(now) \in SUBSET Names
  BY DEF Expired
<1>3. ASSUME NEW S \in SUBSET Names, NEW k, k = over(S) \/ k \in 0..over(S) - 1
      PROVE  Gone2(S, k) \in SUBSET Names
  <2> DEFINE T == Names \ S
             l == kept(S)
  <2>1. T \in SUBSET Nat /\ IsFiniteSet(T)
    <3>1. IsFiniteSet(Names) /\ Names \in SUBSET Nat
      BY Numbers, NamesFinite DEF HookInv
    <3>2. T \in SUBSET Names
      OBVIOUS
    <3> QED BY <3>1, <3>2, FS_Subset
  <2>2. Ascending(T) \in Seq(T) /\ Len(Ascending(T)) \in Nat
    <3> HIDE DEF T
    <3> QED BY <2>1, AscendingIs
  <2>3. l \in Seq(T) /\ Len(l) \in Nat
    BY <2>2 DEF Sorted
  <2>4. k = Surplus(Len(l)) \/ k \in 0..Surplus(Len(l)) - 1
    BY <1>3
  <2> HIDE DEF l
  <2>5. \A i \in 1..k : i \in 1..Len(l)
    BY <2>3, <2>4, HookQueueAssumption DEF Surplus
  <2>6. \A i \in 1..Len(l) : l[i] \in T
    <3> HIDE DEF T
    <3> QED BY <2>3, ElementOfSeq
  <2>7. \A i \in 1..k : l[i] \in Names
    BY <2>5, <2>6
  <2> QED BY <2>7 DEF l
<1>4. \/ Discard(h, Gone2(Expired(now), over(Expired(now))), [step |-> "target", e |-> hook[h].e])
      \/ \E S \in SUBSET Expired(now) :
            \/ Discard(h, Gone2(S, over(S)), [step |-> "target", e |-> hook[h].e])
            \/ \E k \in 0..over(S) - 1 : Discard(h, Gone2(S, k), NoHook)
  BY DEF MakeRoom, MakeRoomFails
<1> HIDE DEF Discard, over, Gone2
<1>5. \A S \in SUBSET Expired(now) : S \in SUBSET Names
  BY <1>2
<1> QED BY <1>1, <1>2, <1>3, <1>4, <1>5

LEMMA MakeRoomStep ==
    ASSUME HookInv, NEW h \in Hooks, NEW now, MakeRoom(h, now) \/ MakeRoomFails(h, now)
    PROVE  HookInv'
<1>1. /\ At(h, "room") /\ now \in clock..MaxClock /\ clock' = now
      /\ UNCHANGED <<up, sent, written, queued, before, disturbed>>
  BY RoomMade
<1>2. ClockRuns /\ Counting /\ clock' \in 1..MaxClock
  BY <1>1, Numbers, HookQueueAssumption DEF ClockRuns, Counting
<1>3. hook[h].e \in Events /\ hook[h] # NoHook /\ hook[h].e <= sent
  BY <1>1, HookShape, Numbers DEF HookInv, At, NoHook
<1>4. PICK gone \in SUBSET Names, new \in {[step |-> "target", e |-> hook[h].e], NoHook} :
         Discard(h, gone, new)
  BY RoomMade
<1>5. /\ Unlink(gone)
      /\ lost' = lost \cup UNION {EventsIn(files[n].text) : n \in gone}
      /\ hook' = WithoutFiles(gone, [hook EXCEPT ![h] = new])
      /\ new.step \in {"target", "idle"} /\ Placed(new)
  BY <1>1, <1>3, <1>4, NewStates DEF Discard, Placed, NoHook
<1>6. FilesOK' /\ FilesKept(gone)
  BY <1>2, <1>5, FilesUnlinked DEF HookInv
<1>7. HooksOK' /\ Others(h) /\ hook'[h] = new
  <2>1. hook[h].step \notin {"line", "end"}
    BY <1>1 DEF At
  <2> QED BY <1>2, <1>5, <2>1, HookUnlinks DEF HookInv
<1>8. Settled \subseteq Settled' /\ lost \subseteq lost'
  BY <1>1, <1>5 DEF Settled
<1>9. \A n \in Names : /\ ToSet(Readable(files[n].text)) \subseteq EventsIn(files[n].text)
                       /\ EventsIn(files[n].text) \subseteq Events
  <2> SUFFICES ASSUME NEW n \in Names
               PROVE  /\ ToSet(Readable(files[n].text)) \subseteq EventsIn(files[n].text)
                      /\ EventsIn(files[n].text) \subseteq Events
    OBVIOUS
  <2>1. files[n].text \in Seq(Token)
    BY DEF HookInv, FilesOK
  <2> QED BY <2>1, EventsOfText
<1>10. \A n \in Names \cap gone : ToSet(Readable(files[n].text)) \subseteq Settled'
  <2>1. \A n \in gone : EventsIn(files[n].text) \subseteq lost'
    BY <1>5
  <2> QED BY <1>9, <2>1 DEF Settled
<1>11. Safe \subseteq Safe'
  BY <1>6, <1>8, <1>10, KeptSafe
<1>12. StepSafe(h)
  BY <1>1, <1>5, <1>7, <1>8, <1>11 DEF StepSafe
<1>13. GluedLost'
  BY <1>6, <1>8, Numbers, KeptGlued
<1>14. QueueSafe' /\ ReplayOK'
  BY <1>7, <1>12, <1>13, SafeStep DEF HookInv
<1>15. CountsOK'
  <2>1. lost' \subseteq Events
    BY <1>5, <1>9 DEF HookInv, CountsOK
  <2> QED BY <1>1, <1>2, <2>1 DEF HookInv, CountsOK
<1> QED BY <1>6, <1>7, <1>14, <1>15 DEF HookInv

LEMMA FindStep ==
    ASSUME HookInv, NEW h \in Hooks, NEW now, FindOrCreateTarget(h, now)
    PROVE  HookInv'
<1>1. /\ At(h, "target") /\ now \in clock..MaxClock /\ clock' = now
      /\ UNCHANGED <<files, up, sent, faults, history, disturbed>>
  BY DEF FindOrCreateTarget, SystemTimeNow
<1>2. ClockRuns /\ Counting /\ clock' \in 1..MaxClock /\ now \in Nat
  BY <1>1, Numbers, HookQueueAssumption DEF ClockRuns, Counting
<1>3. hook[h].e \in Events /\ hook[h].e <= sent
  BY <1>1, HookShape, Numbers DEF HookInv, At, NoHook
<1>4. PICK n \in Nat : n <= clock' /\ Do(h, [step |-> "open", e |-> hook[h].e, file |-> n])
  <2>1. ASSUME NEW n \in Names PROVE n \in Nat /\ n <= clock'
    <3>1. n \in Nat /\ files[n].mtime \in Nat /\ n <= files[n].mtime /\ files[n].mtime <= clock
      BY DEF HookInv, FilesOK
    <3> QED BY <1>2, <3>1 DEF ClockRuns
  <2>2. \/ \E n \in Names : Do(h, [step |-> "open", e |-> hook[h].e, file |-> n])
        \/ Do(h, [step |-> "open", e |-> hook[h].e, file |-> now])
    BY DEF FindOrCreateTarget
  <2>3. now <= clock'
    BY <1>1, <1>2
  <2> HIDE DEF Do, Names
  <2> QED BY <1>2, <2>1, <2>2, <2>3
<1> DEFINE new == [step |-> "open", e |-> hook[h].e, file |-> n]
<1>5. Placed(new) /\ new.step = "open" /\ Do(h, new)
  BY <1>1, <1>3, <1>4, NewStates DEF Placed
<1>6. CountsOK'
  BY <1>1, <1>2 DEF HookInv, CountsOK, history
<1>7. Settled \subseteq Settled' /\ lost \subseteq lost' /\ UNCHANGED <<files, queued>>
  BY <1>1, HistorySame DEF history
<1> HIDE DEF new
<1> QED BY <1>2, <1>5, <1>6, <1>7, QuietStep

LEMMA OpenStep ==
    ASSUME HookInv, NEW h \in Hooks, OpenTarget(h)
    PROVE  HookInv'
<1> DEFINE n == hook[h].file
           new == [hook[h] EXCEPT !.step = "line"]
<1>1. /\ At(h, "open") /\ Do(h, new)
      /\ IF n \in Names THEN UNCHANGED files ELSE Put(n, <<>>)
      /\ UNCHANGED <<up, clock, sent, faults, history>>
  BY DEF OpenTarget
<1>2. ClockRuns /\ Counting /\ clock \in Nat
  BY <1>1, Numbers DEF ClockRuns, Counting
<1>3. hook[h].e \in Events /\ hook[h].e <= sent /\ n \in Nat /\ n <= clock
  BY <1>1, HookShape, Numbers DEF HookInv, HooksOK, At, NoHook
<1>4. Placed(new) /\ new.step = "line"
  <2> DEFINE x == hook[h]
  <2>1. x \in HookState /\ x.step = "open"
    BY <1>1, HookShape DEF HookInv, At
  <2> HIDE DEF x
  <2>2. x \in [step: {"open"}, e: Events, file: Nat]
    BY <2>1 DEF HookState, NoHook
  <2> DEFINE y == [x EXCEPT !.step = "line"]
  <2>3. /\ y \in [step: {"line", "end"}, e: Events, file: Nat \cup {Gone}]
        /\ y.step = "line" /\ y.e = x.e /\ y.file = x.file
    BY <2>2
  <2> HIDE DEF y
  <2>4. y \in HookState
    BY <2>3 DEF HookState
  <2>5. Placed(y)
    BY <1>1, <1>3, <2>3, <2>4 DEF Placed, x
  <2> QED BY <2>3, <2>5 DEF x, y
<1>5. CountsOK' /\ UNCHANGED <<written, lost, queued>>
  <2>1. disturbed' \in BOOLEAN
    <3>1. disturbed \in BOOLEAN
      BY DEF HookInv, CountsOK
    <3>2. disturbed' = disturbed \/ disturbed' = (disturbed \/ \E m \in Listed : n < m)
      BY DEF OpenTarget
    <3> QED BY <3>1, <3>2
  <2> QED BY <1>1, <2>1 DEF HookInv, CountsOK, history
<1>6. Settled \subseteq Settled' /\ lost \subseteq lost'
  BY <1>5, HistorySame
<1> HIDE DEF n, new
<1>7. CASE n \in Names
  BY <1>1, <1>2, <1>4, <1>5, <1>6, <1>7, QuietStep
<1>8. CASE n \notin Names
  <2>1. FilesOK' /\ FilePut(n, <<>>)
    BY <1>1, <1>2, <1>3, <1>8, EmptyText, FilesPut DEF HookInv
  <2>2. HooksOK' /\ Others(h) /\ hook'[h] = new
    BY <1>1, <1>2, <1>4, HookDone DEF HookInv
  <2>3. Safe \subseteq Safe'
    BY <1>6, <1>8, <2>1, PutSafe
  <2>4. GluedLost'
    BY <1>6, <2>1, EmptyText, Numbers, PutGlued
  <2>5. StepSafe(h)
    BY <1>4, <1>5, <1>6, <2>2, <2>3 DEF StepSafe
  <2>6. QueueSafe' /\ ReplayOK'
    BY <2>2, <2>4, <2>5, SafeStep DEF HookInv
  <2> QED BY <1>5, <2>1, <2>2, <2>6 DEF HookInv
<1> QED BY <1>7, <1>8

\* The text of a file, of a new one too.
LEMMA TextShape ==
    ASSUME HookInv, NEW n
    PROVE  Text(n) \in Seq(Token) /\ Glued(Text(n)) \subseteq lost
<1>1. CASE n \in Names
  <2>1. Text(n) = files[n].text
    BY <1>1 DEF Text
  <2> QED BY <1>1, <2>1, Numbers DEF HookInv, FilesOK, GluedLost
<1>2. CASE n \notin Names
  BY <1>2, EmptyText DEF Text
<1> QED BY <1>1, <1>2

LEMMA WriteLineStep ==
    ASSUME HookInv, NEW h \in Hooks, WriteLine(h)
    PROVE  HookInv'
<1> DEFINE n == hook[h].file
           e == hook[h].e
           new == [hook[h] EXCEPT !.step = "end"]
           text == Append(Text(n), e)
<1>1. /\ At(h, "line") /\ AppendTo(h, e) /\ Do(h, new)
      /\ lost' = lost \cup (IF n = Gone THEN {e} ELSE Glued(text))
      /\ UNCHANGED <<up, clock, sent, faults, written, queued, before, disturbed>>
  BY DEF WriteLine
<1>2. ClockRuns /\ Counting /\ clock \in Nat
  BY <1>1, Numbers DEF ClockRuns, Counting
<1>3. e \in Events /\ e <= sent /\ n \in Nat \cup {Gone} /\ n <= clock
  BY <1>1, HookShape, Numbers DEF HookInv, HooksOK, At, NoHook
<1>4. Placed(new) /\ new.step = "end" /\ new.e = e
  <2> DEFINE x == hook[h]
  <2>1. x \in HookState /\ x.step = "line"
    BY <1>1, HookShape DEF HookInv, At
  <2> HIDE DEF x
  <2>2. x \in [step: {"line", "end"}, e: Events, file: Nat \cup {Gone}]
    BY <2>1 DEF HookState, NoHook
  <2> DEFINE y == [x EXCEPT !.step = "end"]
  <2>3. /\ y \in [step: {"line", "end"}, e: Events, file: Nat \cup {Gone}]
        /\ y.step = "end" /\ y.e = x.e /\ y.file = x.file
    BY <2>2
  <2> HIDE DEF y
  <2>4. y \in HookState
    BY <2>3 DEF HookState
  <2>5. Placed(y)
    BY <1>1, <1>3, <2>3, <2>4 DEF Placed, x
  <2> QED BY <2>3, <2>5 DEF x, y
<1>5. Settled \subseteq Settled' /\ lost \subseteq lost'
  BY <1>1 DEF Settled
<1>6. Text(n) \in Seq(Token) /\ e \in Token
  BY <1>3, TextShape DEF Token
<1>7. text \in Seq(Token) /\ EventsIn(text) = EventsIn(Text(n)) \cup {e}
  <2> HIDE DEF n, e
  <2>1. text \in Seq(Token) /\ EventsIn(text) = EventsIn(Text(n)) \cup ({e} \cap Events)
    BY <1>6, EventsOfAppend
  <2> QED BY <1>3, <2>1 DEF e
<1>8. AppendTo(h, e) <=> IF n = Gone THEN UNCHANGED files ELSE Put(n, text)
  BY DEF AppendTo
<1> HIDE DEF n, e, new, text
<1>9. HooksOK' /\ Others(h) /\ hook'[h] = new
  BY <1>1, <1>2, <1>4, HookDone DEF HookInv
<1>10. EventsIn(text) = ToSet(Readable(text)) \cup Glued(text) /\ EventsIn(text) \subseteq Events
  BY <1>7, EventsOfText
<1>11. FilesOK' /\ Safe \subseteq Safe' /\ e \in Safe' /\ GluedLost'
  <2>1. CASE n = Gone
    <3>1. UNCHANGED files /\ e \in lost'
      BY <1>1, <1>8, <2>1
    <3>2. FilesOK' /\ FilesKept({})
      BY <1>2, <3>1, FilesSame DEF HookInv
    <3>3. Safe \subseteq Safe'
      BY <1>5, <3>2, KeptSafe
    <3>4. GluedLost'
      BY <1>5, <3>2, Numbers, KeptGlued
    <3> QED BY <3>1, <3>2, <3>3, <3>4 DEF Safe
  <2>2. CASE n # Gone
    <3>1. n \in Nat /\ Put(n, text) /\ Glued(text) \subseteq lost'
      BY <1>1, <1>3, <1>8, <2>2
    <3>2. FilesOK' /\ FilePut(n, text)
      BY <1>1, <1>2, <1>3, <1>7, <3>1, FilesPut DEF HookInv
    <3>3. n \in Names => ToSet(Readable(files[n].text)) \subseteq ToSet(Readable(text)) \cup Settled'
      <4> SUFFICES ASSUME n \in Names
                   PROVE  ToSet(Readable(files[n].text)) \subseteq ToSet(Readable(text)) \cup Settled'
        OBVIOUS
      <4>1. files[n].text = Text(n)
        BY DEF Text
      <4>2. ToSet(Readable(Text(n))) \subseteq EventsIn(Text(n))
        BY <1>6, EventsOfText
      <4> QED BY <1>7, <1>10, <3>1, <4>1, <4>2 DEF Settled
    <3>4. Safe \subseteq Safe' /\ ToSet(Readable(text)) \subseteq Safe'
      BY <1>5, <3>2, <3>3, PutSafe
    <3>5. GluedLost'
      BY <1>5, <3>1, <3>2, Numbers, PutGlued
    <3>6. e \in Safe'
      BY <1>7, <1>10, <3>1, <3>4 DEF Safe
    <3> QED BY <3>2, <3>4, <3>5, <3>6
  <2> QED BY <2>1, <2>2
<1>12. StepSafe(h)
  BY <1>1, <1>4, <1>5, <1>9, <1>11 DEF StepSafe
<1>13. QueueSafe' /\ ReplayOK'
  BY <1>9, <1>11, <1>12, SafeStep DEF HookInv
<1>14. CountsOK'
  <2>1. lost' \subseteq Events
    BY <1>1, <1>3, <1>10 DEF HookInv, CountsOK
  <2> QED BY <1>1, <2>1 DEF HookInv, CountsOK
<1> QED BY <1>9, <1>11, <1>13, <1>14 DEF HookInv

\* What is left of a line that was cut short: everything it spoils is given up.
LEMMA CutLineStep ==
    ASSUME HookInv, NEW h \in Hooks, CutLine(h)
    PROVE  HookInv'
<1> DEFINE n == hook[h].file
<1>1. PICK part \in {Stub, Torn} :
         /\ AppendTo(h, part)
         /\ lost' = lost \cup (IF n = Gone THEN {} ELSE Glued(Append(Text(n), part)))
  BY DEF CutLine
<1> DEFINE text == Append(Text(n), part)
<1>2. /\ At(h, "line") /\ Do(h, NoHook)
      /\ UNCHANGED <<up, clock, sent, written, queued, before, disturbed>>
  BY DEF CutLine
<1>3. ClockRuns /\ Counting /\ clock \in Nat
  BY <1>2, Numbers DEF ClockRuns, Counting
<1>4. n \in Nat \cup {Gone} /\ n <= clock
  BY <1>2, HookShape DEF HookInv, HooksOK, At
<1>5. Placed(NoHook) /\ NoHook.step = "idle"
  BY NewStates DEF Placed, NoHook
<1>6. Settled \subseteq Settled' /\ lost \subseteq lost'
  BY <1>1, <1>2 DEF Settled
<1>7. Text(n) \in Seq(Token) /\ part \in Token /\ part \notin Events
  BY TextShape, TokenKinds
<1>8. text \in Seq(Token) /\ EventsIn(text) = EventsIn(Text(n))
  <2> HIDE DEF n
  <2>1. text \in Seq(Token) /\ EventsIn(text) = EventsIn(Text(n)) \cup ({part} \cap Events)
    BY <1>7, EventsOfAppend
  <2>2. {part} \cap Events = {}
    BY <1>7
  <2> QED BY <2>1, <2>2
<1>9. AppendTo(h, part) <=> IF n = Gone THEN UNCHANGED files ELSE Put(n, text)
  BY DEF AppendTo
<1> HIDE DEF n, text
<1>10. HooksOK' /\ Others(h) /\ hook'[h] = NoHook
  BY <1>2, <1>3, <1>5, HookDone DEF HookInv
<1>11. EventsIn(text) = ToSet(Readable(text)) \cup Glued(text) /\ EventsIn(text) \subseteq Events
  BY <1>8, EventsOfText
<1>12. FilesOK' /\ Safe \subseteq Safe' /\ GluedLost'
  <2>1. CASE n = Gone
    <3>1. UNCHANGED files
      BY <1>1, <1>9, <2>1
    <3>2. FilesOK' /\ FilesKept({})
      BY <1>3, <3>1, FilesSame DEF HookInv
    <3> QED BY <1>6, <3>2, Numbers, KeptSafe, KeptGlued
  <2>2. CASE n # Gone
    <3>1. n \in Nat /\ Put(n, text) /\ Glued(text) \subseteq lost'
      BY <1>1, <1>4, <1>9, <2>2 DEF text
    <3>2. FilesOK' /\ FilePut(n, text)
      BY <1>2, <1>3, <1>4, <1>8, <3>1, FilesPut DEF HookInv
    <3>3. n \in Names => ToSet(Readable(files[n].text)) \subseteq ToSet(Readable(text)) \cup Settled'
      <4> SUFFICES ASSUME n \in Names
                   PROVE  ToSet(Readable(files[n].text)) \subseteq ToSet(Readable(text)) \cup Settled'
        OBVIOUS
      <4>1. files[n].text = Text(n)
        BY DEF Text
      <4>2. ToSet(Readable(Text(n))) \subseteq EventsIn(Text(n))
        BY <1>7, EventsOfText
      <4> QED BY <1>8, <1>11, <3>1, <4>1, <4>2 DEF Settled
    <3>4. Safe \subseteq Safe'
      BY <1>6, <3>2, <3>3, PutSafe
    <3>5. GluedLost'
      BY <1>6, <3>1, <3>2, Numbers, PutGlued
    <3> QED BY <3>2, <3>4, <3>5
  <2> QED BY <2>1, <2>2
<1>13. StepSafe(h)
  BY <1>2, <1>5, <1>6, <1>10, <1>12 DEF StepSafe
<1>14. QueueSafe' /\ ReplayOK'
  BY <1>10, <1>12, <1>13, SafeStep DEF HookInv
<1>15. CountsOK'
  <2>1. lost' \subseteq Events
    BY <1>1, <1>11 DEF HookInv, CountsOK, text
  <2> QED BY <1>2, <2>1 DEF HookInv, CountsOK
<1> QED BY <1>10, <1>12, <1>14, <1>15 DEF HookInv

LEMMA WriteEndStep ==
    ASSUME HookInv, NEW h \in Hooks, WriteEnd(h)
    PROVE  HookInv'
<1> DEFINE n == hook[h].file
           e == hook[h].e
           text == Append(Text(n), NL)
<1>1. /\ At(h, "end") /\ AppendTo(h, NL) /\ Do(h, NoHook)
      /\ queued' = queued \cup {e}
      /\ UNCHANGED <<up, clock, sent, faults, written, before, lost, disturbed>>
  BY DEF WriteEnd
<1>2. ClockRuns /\ Counting /\ clock \in Nat
  BY <1>1, Numbers DEF ClockRuns, Counting
<1>3. e \in Events /\ n \in Nat \cup {Gone} /\ n <= clock /\ e \in Safe
  BY <1>1, HookShape DEF HookInv, HooksOK, At, NoHook, QueueSafe
<1>4. Placed(NoHook) /\ NoHook.step = "idle"
  BY NewStates DEF Placed, NoHook
<1>5. Settled \subseteq Settled' /\ lost \subseteq lost'
  BY <1>1, HistorySame
<1>6. Text(n) \in Seq(Token) /\ Glued(Text(n)) \subseteq lost
  BY TextShape
<1>7. text \in Seq(Token) /\ ToSet(Readable(text)) = ToSet(Readable(Text(n)))
      /\ Glued(text) = Glued(Text(n))
  <2>1. NL \in Token
    BY TokenKinds
  <2> HIDE DEF n
  <2> QED BY <1>6, <2>1, EventsOfAppend, ReadableOfEnd
<1>8. AppendTo(h, NL) <=> IF n = Gone THEN UNCHANGED files ELSE Put(n, text)
  BY DEF AppendTo
<1> HIDE DEF n, e, text
<1>9. HooksOK' /\ Others(h) /\ hook'[h] = NoHook
  BY <1>1, <1>2, <1>4, HookDone DEF HookInv
<1>10. FilesOK' /\ Safe \subseteq Safe' /\ GluedLost'
  <2>1. CASE n = Gone
    <3>1. UNCHANGED files
      BY <1>1, <1>8, <2>1
    <3>2. FilesOK' /\ FilesKept({})
      BY <1>2, <3>1, FilesSame DEF HookInv
    <3> QED BY <1>5, <3>2, Numbers, KeptSafe, KeptGlued
  <2>2. CASE n # Gone
    <3>1. n \in Nat /\ Put(n, text)
      BY <1>1, <1>3, <1>8, <2>2
    <3>2. FilesOK' /\ FilePut(n, text)
      BY <1>1, <1>2, <1>3, <1>7, <3>1, FilesPut DEF HookInv
    <3>3. n \in Names => ToSet(Readable(files[n].text)) \subseteq ToSet(Readable(text)) \cup Settled'
      BY <1>7 DEF Text
    <3>4. Safe \subseteq Safe'
      BY <1>5, <3>2, <3>3, PutSafe
    <3>5. Glued(text) \subseteq lost'
      BY <1>1, <1>6, <1>7
    <3>6. GluedLost'
      BY <1>5, <3>2, <3>5, Numbers, PutGlued
    <3> QED BY <3>2, <3>4, <3>6
  <2> QED BY <2>1, <2>2
<1>11. StepSafe(h)
  BY <1>1, <1>3, <1>4, <1>5, <1>9, <1>10 DEF StepSafe
<1>12. QueueSafe' /\ ReplayOK'
  BY <1>9, <1>10, <1>11, SafeStep DEF HookInv
<1>13. CountsOK'
  BY <1>1, <1>3 DEF HookInv, CountsOK
<1> QED BY <1>9, <1>10, <1>12, <1>13 DEF HookInv

\* A hook ends; what it was sending stays in its file, is written or is lost.
LEMMA EndStep ==
    ASSUME HookInv, NEW h \in Hooks, Do(h, NoHook), disturbed' \in BOOLEAN,
           UNCHANGED <<files, up, clock, sent, history>>
    PROVE  HookInv'
<1>1. ClockRuns /\ Counting
  BY Numbers DEF ClockRuns, Counting
<1>2. Placed(NoHook) /\ NoHook.step = "idle"
  BY NewStates DEF Placed, NoHook
<1>3. CountsOK'
  BY DEF HookInv, CountsOK, history
<1>4. Settled \subseteq Settled' /\ lost \subseteq lost' /\ UNCHANGED <<files, queued>>
  BY HistorySame DEF history
<1> QED BY <1>1, <1>2, <1>3, <1>4, QuietStep

\* A replay ends before its time; the files that it has not removed stay.
LEMMA EndReplayStep ==
    ASSUME HookInv, NEW h \in Hooks, hook[h].step \in {"read", "send"}, EndReplay(h),
           UNCHANGED <<files, up, clock, sent, written, queued, lost>>
    PROVE  HookInv'
<1> DEFINE e == hook[h].e
           new == NextFile(e, <<>>)
<1>1. Do(h, new) /\ disturbed' = TRUE
  BY DEF EndReplay
<1>2. ClockRuns /\ Counting
  BY Numbers DEF ClockRuns, Counting
<1>3. e \in Events \cup {Query} /\ e <= sent
  BY HookShape, Numbers DEF HookInv, At, NoHook
<1>4. /\ new \in HookState /\ new.step \in {"read", "own", "idle"}
      /\ new.step = "read" => new.list # <<>>
      /\ new # NoHook => new.e = e
  <2>1. <<>> \in Seq(Nat)
    OBVIOUS
  <2> HIDE DEF e
  <2> QED BY <1>3, <2>1, NextFileState
<1>5. Placed(new)
  BY <1>3, <1>4 DEF Placed
<1>6. CountsOK'
  BY <1>1 DEF HookInv, CountsOK
<1>7. Settled \subseteq Settled' /\ lost \subseteq lost'
  BY HistorySame
<1> HIDE DEF new
<1> QED BY <1>1, <1>2, <1>4, <1>5, <1>6, <1>7, QuietStep

LEMMA ReadStep ==
    ASSUME HookInv, NEW h \in Hooks, ReadFile(h)
    PROVE  HookInv'
<1> DEFINE n == Head(hook[h].list)
           e == hook[h].e
<1>1. At(h, "read") /\ UNCHANGED <<files, up, clock, sent, faults, history>>
  BY DEF ReadFile
<1>2. ClockRuns /\ Counting
  BY <1>1, Numbers DEF ClockRuns, Counting
<1>3. /\ e \in Events \cup {Query} /\ e <= sent
      /\ hook[h].list \in Seq(Nat) /\ hook[h].list # <<>>
  BY <1>1, HookShape, Numbers DEF HookInv, HooksOK, At, NoHook
<1>4. Settled \subseteq Settled' /\ lost \subseteq lost' /\ UNCHANGED <<files, queued>>
  BY <1>1, HistorySame DEF history
<1>5. CASE n \in Names /\ ~Damaged(Text(n))
  <2> DEFINE text == files[n].text
             new == [step |-> "send", e |-> e, list |-> hook[h].list,
                     text |-> Readable(text), read |-> EventsIn(text)]
  <2>1. Do(h, new) /\ UNCHANGED disturbed
    BY <1>5 DEF ReadFile
  <2>2. text \in Seq(Token)
    BY <1>5 DEF HookInv, FilesOK
  <2>3. /\ Readable(text) \in Seq(Events) /\ EventsIn(text) \in SUBSET Events
        /\ EventsIn(text) = ToSet(Readable(text)) \cup Glued(text)
    <3> HIDE DEF text
    <3> QED BY <2>2, ReadableIs, EventsOfText
  <2>4. Glued(text) \subseteq lost /\ ToSet(Readable(text)) \subseteq Safe
    BY <1>5, Numbers DEF GluedLost, Safe, InFiles
  <2>5. Placed(new) /\ new.step = "send"
    <3> HIDE DEF text, e
    <3>1. new \in HookState
      BY <1>3, <2>3, NewStates
    <3>2. new # NoHook => new.e <= sent'
      BY <1>1, <1>3
    <3> QED BY <1>3, <3>1, <3>2 DEF Placed
  <2>6. ToSet(new.text) \subseteq Safe /\ new.read \subseteq Settled' \cup ToSet(new.text)
    <3> HIDE DEF text, e
    <3> QED BY <1>4, <2>3, <2>4 DEF Settled
  <2>7. CountsOK'
    BY <1>1, <2>1 DEF HookInv, CountsOK, history
  <2> HIDE DEF new
  <2> QED BY <1>2, <1>4, <2>1, <2>5, <2>6, <2>7, QuietStep
<1>6. CASE ~(n \in Names /\ ~Damaged(Text(n)))
  <2>1. EndReplay(h)
    BY <1>6 DEF ReadFile
  <2> QED BY <1>1, <2>1, EndReplayStep DEF At, history
<1> QED BY <1>5, <1>6

LEMMA SendStep ==
    ASSUME HookInv, NEW h \in Hooks, SendLine(h) \/ SendLineFails(h)
    PROVE  HookInv'
<1> DEFINE text == hook[h].text
           new == [hook[h] EXCEPT !.text = Tail(text)]
<1>1. /\ At(h, "send") /\ text # <<>> /\ Do(h, new)
      /\ UNCHANGED <<files, up, clock, sent, queued, disturbed>>
      /\ \/ written' = Append(written, Head(text)) /\ UNCHANGED lost
         \/ lost' = lost \cup {Head(text)} /\ UNCHANGED written
  BY DEF SendLine, SendLineFails, FireAndForget
<1>2. ClockRuns /\ Counting
  BY <1>1, Numbers DEF ClockRuns, Counting
<1>3. /\ text \in Seq(Events) /\ hook[h].e <= sent /\ hook[h].list # <<>>
      /\ hook[h] \in HookState
  BY <1>1, HookShape, Numbers DEF HookInv, HooksOK, At, NoHook
<1>4. Head(text) \in Events /\ Tail(text) \in Seq(Events)
      /\ ToSet(text) = {Head(text)} \cup ToSet(Tail(text))
  <2> HIDE DEF text
  <2> QED BY <1>1, <1>3, SetOfTail
<1>5. /\ new \in HookState /\ new.step = "send" /\ new.e = hook[h].e
      /\ new.list = hook[h].list /\ new.text = Tail(text) /\ new.read = hook[h].read
  <2> DEFINE x == hook[h]
             t == Tail(text)
  <2>1. x \in HookState /\ x.step = "send" /\ t \in Seq(Events)
    BY <1>1, <1>3, <1>4 DEF At
  <2> HIDE DEF x, t
  <2>2. x \in [step: {"send"}, e: Events \cup {Query}, list: Seq(Nat), text: Seq(Events),
               read: SUBSET Events]
    BY <2>1 DEF HookState, NoHook
  <2> DEFINE y == [x EXCEPT !.text = t]
  <2>3. /\ y \in [step: {"send"}, e: Events \cup {Query}, list: Seq(Nat), text: Seq(Events),
                  read: SUBSET Events]
        /\ y.step = "send" /\ y.e = x.e /\ y.list = x.list /\ y.text = t /\ y.read = x.read
    BY <2>1, <2>2
  <2> HIDE DEF y
  <2>4. y \in HookState
    BY <2>3 DEF HookState
  <2> QED BY <2>3, <2>4 DEF x, t, y
<1> HIDE DEF new, text
<1>6. Placed(new)
  BY <1>1, <1>3, <1>5 DEF Placed
<1>7. ToSet(Append(written, Head(text))) = ToSet(written) \cup {Head(text)}
      /\ Append(written, Head(text)) \in Seq(Events)
  <2>1. written \in Seq(Events)
    BY DEF HookInv, CountsOK
  <2> QED BY <1>4, <2>1, SetOfAppend, AppendProperties
<1>8. Settled \subseteq Settled' /\ lost \subseteq lost' /\ Head(text) \in Settled'
  BY <1>1, <1>7 DEF Settled
<1>9. CountsOK'
  <2>1. lost' \subseteq Events /\ written' \in Seq(Events)
    BY <1>1, <1>4, <1>7 DEF HookInv, CountsOK
  <2> QED BY <1>1, <2>1 DEF HookInv, CountsOK
<1>10. ToSet(text) \subseteq Safe /\ hook[h].read \subseteq Settled \cup ToSet(text)
  BY <1>1 DEF HookInv, QueueSafe, ReplayOK, Settled, text
<1>11. ToSet(new.text) \subseteq Safe /\ new.read \subseteq Settled' \cup ToSet(new.text)
  BY <1>4, <1>5, <1>8, <1>10
<1> QED BY <1>1, <1>2, <1>5, <1>6, <1>8, <1>9, <1>11, QuietStep

LEMMA RemoveStep ==
    ASSUME HookInv, NEW h \in Hooks, RemoveReplayed(h)
    PROVE  HookInv'
<1> DEFINE n == Head(hook[h].list)
           e == hook[h].e
           list == hook[h].list
<1>1. /\ At(h, "send") /\ hook[h].text = <<>>
      /\ UNCHANGED <<up, clock, sent, faults, written, queued, before>>
  BY DEF RemoveReplayed, SentAll
<1>2. ClockRuns /\ Counting
  BY <1>1, Numbers DEF ClockRuns, Counting
<1>3. e \in Events \cup {Query} /\ e <= sent /\ list \in Seq(Nat) /\ list # <<>>
  BY <1>1, HookShape, Numbers DEF HookInv, HooksOK, At, NoHook
<1>4. CASE n \in Names
  <2> DEFINE new == NextFile(e, Tail(list))
             text == files[n].text
  <2>1. /\ Unlink({n}) /\ UNCHANGED disturbed
        /\ lost' = lost \cup (EventsIn(text) \ hook[h].read)
        /\ hook' = WithoutFiles({n}, [hook EXCEPT ![h] = new])
    BY <1>4 DEF RemoveReplayed
  <2>2. /\ new \in HookState /\ new.step \in {"read", "own", "idle"}
        /\ new.step = "read" => new.list # <<>>
        /\ new # NoHook => new.e = e
    <3>1. Tail(list) \in Seq(Nat)
      <4> HIDE DEF list
      <4> QED BY <1>3, HeadTailProperties
    <3> HIDE DEF e, list
    <3> QED BY <1>3, <3>1, NextFileState
  <2>3. Placed(new)
    BY <1>1, <1>3, <2>2 DEF Placed
  <2>4. text \in Seq(Token)
    BY <1>4 DEF HookInv, FilesOK
  <2>5. EventsIn(text) \subseteq Events /\ ToSet(Readable(text)) \subseteq EventsIn(text)
    <3> HIDE DEF text
    <3> QED BY <2>4, EventsOfText
  <2>6. hook[h].read \subseteq Settled
    <3>1. ToSet(<<>>) = {}
      BY DEF ToSet
    <3> QED BY <1>1, <3>1 DEF HookInv, ReplayOK, Settled
  <2>7. Settled \subseteq Settled' /\ lost \subseteq lost'
    BY <1>1, <2>1 DEF Settled
  <2>8. ToSet(Readable(text)) \subseteq Settled'
    BY <2>1, <2>5, <2>6, <2>7 DEF Settled
  <2>9. \A m \in Names \cap {n} : ToSet(Readable(files[m].text)) \subseteq Settled'
    BY <2>8
  <2> HIDE DEF n, new, text
  <2>10. FilesOK' /\ FilesKept({n})
    BY <1>2, <2>1, FilesUnlinked DEF HookInv
  <2>11. HooksOK' /\ Others(h) /\ hook'[h] = new
    <3>1. hook[h].step \notin {"line", "end"}
      BY <1>1 DEF At
    <3> QED BY <1>2, <2>1, <2>3, <3>1, HookUnlinks DEF HookInv
  <2>12. Safe \subseteq Safe'
    BY <2>7, <2>9, <2>10, KeptSafe
  <2>13. GluedLost'
    BY <2>7, <2>10, Numbers, KeptGlued
  <2>14. StepSafe(h)
    BY <1>1, <2>2, <2>7, <2>11, <2>12 DEF StepSafe
  <2>15. QueueSafe' /\ ReplayOK'
    BY <2>11, <2>13, <2>14, SafeStep DEF HookInv
  <2>16. CountsOK'
    <3>1. lost' \subseteq Events
      BY <2>1, <2>5 DEF HookInv, CountsOK
    <3> QED BY <1>1, <2>1, <3>1 DEF HookInv, CountsOK
  <2> QED BY <2>10, <2>11, <2>15, <2>16 DEF HookInv
<1>5. CASE n \notin Names
  <2>1. EndReplay(h) /\ UNCHANGED <<files, lost>>
    BY <1>5 DEF RemoveReplayed
  <2> QED BY <1>1, <2>1, EndReplayStep DEF At
<1> QED BY <1>4, <1>5

LEMMA SendOwnStep ==
    ASSUME HookInv, NEW h \in Hooks, SendOwn(h)
    PROVE  HookInv'
<1>1. /\ At(h, "own") /\ Do(h, NoHook) /\ written' = Append(written, hook[h].e)
      /\ UNCHANGED <<files, up, clock, sent, queued, before, lost, disturbed>>
  BY DEF SendOwn, FireAndForget
<1>2. ClockRuns /\ Counting
  BY <1>1, Numbers DEF ClockRuns, Counting
<1>3. hook[h].e \in Events /\ written \in Seq(Events)
  BY <1>1, HookShape DEF HookInv, CountsOK, At
<1>4. /\ Append(written, hook[h].e) \in Seq(Events)
      /\ ToSet(Append(written, hook[h].e)) = ToSet(written) \cup {hook[h].e}
  BY <1>3, SetOfAppend, AppendProperties
<1>5. Placed(NoHook) /\ NoHook.step = "idle"
  BY NewStates DEF Placed, NoHook
<1>6. Settled \subseteq Settled' /\ lost \subseteq lost'
  BY <1>1, <1>4 DEF Settled
<1>7. CountsOK'
  BY <1>1, <1>4 DEF HookInv, CountsOK
<1> QED BY <1>1, <1>2, <1>5, <1>6, <1>7, QuietStep

\* A step of the server: what it has read is not what hooks have written.
LEMMA IdleStep ==
    ASSUME HookInv, up' \in BOOLEAN,
           UNCHANGED <<files, hook, clock, sent, written, queued, before, lost, disturbed>>
    PROVE  HookInv'
<1>1. Names' = Names
  BY DEF Names
<1>2. FilesOK'
  BY <1>1 DEF HookInv, FilesOK
<1>3. HooksOK' /\ CountsOK'
  BY DEF HookInv, HooksOK, CountsOK
<1>4. Safe' = Safe
  BY <1>1 DEF Safe, InFiles
<1>5. QueueSafe'
  BY <1>4 DEF HookInv, QueueSafe, At
<1>6. ReplayOK'
  BY <1>1 DEF HookInv, ReplayOK, At
<1> QED BY <1>2, <1>3, <1>5, <1>6 DEF HookInv

LEMMA HookInvStep == HookInv /\ [Next]_vars => HookInv'
<1> SUFFICES ASSUME HookInv, [Next]_vars PROVE HookInv'
  OBVIOUS
<1>1. ASSUME NEW h \in Hooks, EnqueueFails(h) \/ SendOwnFails(h) \/ Kill(h) PROVE HookInv'
  <2>1. Do(h, NoHook) /\ UNCHANGED <<files, up, clock, sent, history>>
    BY <1>1 DEF EnqueueFails, SendOwnFails, Kill
  <2>2. disturbed' \in BOOLEAN
    <3>1. disturbed \in BOOLEAN
      BY DEF HookInv, CountsOK
    <3>2. disturbed' = disturbed \/ disturbed' = (disturbed \/ h \in Replaying)
      BY <1>1 DEF EnqueueFails, SendOwnFails, Kill
    <3> QED BY <3>1, <3>2
  <2> QED BY <2>1, <2>2, EndStep
<1>2. ASSUME NEW h \in Hooks, HookStep(h) PROVE HookInv'
  BY <1>1, <1>2, MakeRoomStep, FindStep, OpenStep, WriteLineStep, WriteEndStep, ReadStep,
     SendStep, RemoveStep, SendOwnStep
     DEF HookStep
<1>4. ASSUME NEW h \in Hooks, HookFault(h) PROVE HookInv'
  <2>1. CASE ReplayFails(h)
    BY <2>1, EndReplayStep DEF ReplayFails, At, history
  <2> QED BY <1>1, <1>4, <2>1, MakeRoomStep, CutLineStep DEF HookFault
<1>3. ASSUME ServerReads \/ ServerChanges \/ UNCHANGED vars PROVE HookInv'
  <2>1. up \in BOOLEAN
    BY DEF HookInv, CountsOK
  <2>2. up' = ~up \/ up' = up
    BY <1>3 DEF ServerReads, ServerChanges, vars
  <2>3. up' \in BOOLEAN
    BY <2>1, <2>2
  <2>4. UNCHANGED <<files, hook, clock, sent, written, queued, before, lost, disturbed>>
    BY <1>3 DEF ServerReads, ServerChanges, vars
  <2> QED BY <2>3, <2>4, IdleStep
<1> QED BY <1>1, <1>2, <1>3, <1>4, BeginStep DEF Next

LEMMA HookInvInit == Init => HookInv
<1> SUFFICES ASSUME Init PROVE HookInv
  OBVIOUS
<1> DEFINE text == <<1, NL>>
<1>1. /\ Names = {0} /\ files[0].text = text /\ files[0].mtime = 0 /\ clock = 1 /\ sent = 1
      /\ files = [n \in {0} |-> [text |-> text, mtime |-> n]]
      /\ hook = [h \in Hooks |-> NoHook]
      /\ written = <<>> /\ queued = {1} /\ lost = {} /\ up = FALSE /\ disturbed = FALSE
  BY DEF Init, Names
<1>2. text \in Seq(Token) /\ 1 \in Events
  BY HookQueueAssumption DEF Token, Events
<1>3. FilesOK
  BY <1>1, <1>2 DEF FilesOK
<1>4. HooksOK
  BY <1>1, NewStates DEF HooksOK, NoHook
<1>5. CountsOK
  BY <1>1, <1>2, HookQueueAssumption DEF CountsOK
<1>6. ToSet(Readable(text)) = {1} /\ Glued(text) = {}
  <2>1. /\ Len(text) = 2 /\ text[1] = 1 /\ text[2] = NL /\ NL # 1
    BY DEF NL
  <2>2. GoodLines(text) = {1}
    BY <1>2, <2>1, TokenKinds DEF GoodLines, LineStarts, WellFormed, Damaged, ToSet
  <2>3. \A x : x \in ToSet(Readable(text)) <=> \E i \in GoodLines(text) : text[i] = x
    <3> HIDE DEF text
    <3> QED BY <1>2, ReadableIs
  <2>4. ToSet(Readable(text)) = {1}
    BY <2>1, <2>2, <2>3
  <2>5. EventsIn(text) = {1}
    BY <1>2, <2>1, TokenKinds DEF EventsIn, ToSet
  <2> QED BY <2>4, <2>5 DEF Glued
<1> HIDE DEF text
<1>7. QueueSafe
  BY <1>1, <1>6 DEF QueueSafe, Safe, InFiles, At, NoHook
<1>8. ReplayOK
  BY <1>1, <1>6 DEF ReplayOK, At, NoHook
<1> QED BY <1>3, <1>4, <1>5, <1>7, <1>8 DEF HookInv

LEMMA HookInvHolds == Spec => []HookInv
BY HookInvInit, HookInvStep, PTL DEF Spec

\* What hooks have written is in a socket, or has been read, or went down with
\* the server.
WireInv ==
    /\ wire \subseteq Events /\ received \subseteq Events /\ dropped \subseteq Events
    /\ ToSet(written) \subseteq wire \cup received \cup dropped

LEMMA WireInvStep == HookInv /\ WireInv /\ [Next]_vars => WireInv'
<1> SUFFICES ASSUME HookInv, WireInv, [Next]_vars PROVE WireInv'
  OBVIOUS
<1>1. ASSUME UNCHANGED <<written, socket>> PROVE WireInv'
  BY <1>1 DEF WireInv, socket
<1>2. ASSUME NEW e \in Events, FireAndForget(e) PROVE WireInv'
  <2>1. written \in Seq(Events)
    BY DEF HookInv, CountsOK
  <2>2. ToSet(written') = ToSet(written) \cup {e}
    BY <1>2, <2>1, SetOfAppend DEF FireAndForget
  <2> QED BY <1>2, <2>2 DEF FireAndForget, WireInv
<1>3. ASSUME NEW h \in Hooks, SendLine(h) PROVE WireInv'
  <2>1. Head(hook[h].text) \in Events
    BY <1>3, HookShape, SetOfTail DEF SendLine, HookInv
  <2> QED BY <1>2, <1>3, <2>1 DEF SendLine
<1>4. ASSUME NEW h \in Hooks, SendOwn(h) PROVE WireInv'
  <2>1. hook[h].e \in Events
    BY <1>4, HookShape DEF SendOwn, HookInv, At
  <2> QED BY <1>2, <1>4, <2>1 DEF SendOwn
<1>5. CASE ServerReads \/ ServerChanges
  BY <1>5 DEF ServerReads, ServerChanges, WireInv
<1>6. ASSUME NEW h \in Hooks, BeginEvent(h) \/ BeginQuery(h) PROVE WireInv'
  BY <1>1, <1>6 DEF BeginEvent, BeginQuery, history
<1>7. ASSUME NEW h \in Hooks, HookStep(h) PROVE WireInv'
  BY <1>1, <1>3, <1>4, <1>7
     DEF HookStep, MakeRoom, FindOrCreateTarget, OpenTarget, WriteLine, WriteEnd, EnqueueFails,
         ReadFile, SendLineFails, RemoveReplayed, SendOwnFails, history
<1>8. ASSUME NEW h \in Hooks, HookFault(h) PROVE WireInv'
  BY <1>1, <1>8 DEF HookFault, MakeRoomFails, CutLine, ReplayFails, Kill, history
<1>9. CASE UNCHANGED vars
  BY <1>1, <1>9 DEF vars
<1> QED BY <1>5, <1>6, <1>7, <1>8, <1>9 DEF Next

LEMMA WireInvHolds == Spec => []WireInv
<1>1. Init => WireInv
  BY DEF Init, WireInv, ToSet
<1> QED BY <1>1, HookInvHolds, WireInvStep, PTL DEF Spec
-----------------------------------------------------------------------------
(* The theorems. *)

(***************************************************************************)
(* Whatever hooks append, prune, replay and unlink at the same time, the   *)
(* queue directory and the hook processes keep their shape: files are      *)
(* named by a time that has passed and were last written between that time *)
(* and now, they hold only events, parts of events and line ends, and only *)
(* events that some hook carried reach the server.                         *)
(***************************************************************************)
THEOREM QueueDirTypeCorrect == Spec => []TypeOK
<1>1. ASSUME HookInv, WireInv PROVE TypeOK
  <2>1. clock \in Nat /\ clock \in 1..MaxClock /\ sent \in Nat
    BY <1>1, Numbers
  <2>2. ASSUME NEW n \in Names
        PROVE  /\ n \in 0..MaxClock /\ files[n].text \in Seq(Token)
               /\ files[n].mtime \in n..clock
    <3>1. /\ files[n].text \in Seq(Token) /\ n \in Nat /\ files[n].mtime \in Nat
          /\ n <= files[n].mtime /\ files[n].mtime <= clock
      BY <1>1 DEF HookInv, FilesOK
    <3>2. n \in 0..MaxClock /\ files[n].mtime \in n..clock
      BY <2>1, <3>1, HookQueueAssumption
    <3> QED BY <3>1, <3>2
  <2>3. ASSUME NEW h \in Hooks, hook[h] # NoHook PROVE hook[h].e \in 0..sent
    <3>1. hook[h].e \in Nat /\ hook[h].e <= sent
      BY <1>1, <2>3, HookShape, Numbers, HookQueueAssumption DEF HookInv, Events, Query
    <3> QED BY <2>1, <3>1
  <2> QED BY <1>1, <2>2, <2>3 DEF HookInv, CountsOK, WireInv, TypeOK
<1> QED BY <1>1, HookInvHolds, WireInvHolds, PTL

(***************************************************************************)
(* An event whose enqueue returned Ok has been read by the server, is in a *)
(* socket of the server, can still be read by a replay, or is counted as   *)
(* lost or as dropped by a server that went down before it read it, for    *)
(* any number of hooks that append to the same file, replay it, prune it,  *)
(* damage it or are killed in between.                                     *)
(***************************************************************************)
THEOREM QueuedEventsAccounted == Spec => []QueuedAccounted
<1>1. ASSUME HookInv, WireInv PROVE QueuedAccounted
  <2>1. queued \subseteq ToSet(written) \cup lost \cup InFiles
    BY <1>1 DEF HookInv, QueueSafe, Safe
  <2>2. InFiles \subseteq Pending
    BY DEF InFiles, Pending
  <2> QED BY <1>1, <2>1, <2>2 DEF WireInv, QueuedAccounted
<1> QED BY <1>1, HookInvHolds, WireInvHolds, PTL

-----------------------------------------------------------------------------
(* Where an event is: it is written once, and behind those that were in the  *)
(* queue when its hook began.                                                *)

Texts == UNION {ToSet(hook[h].text) : h \in {g \in Hooks : At(g, "send")}}
Filed == UNION {EventsIn(files[n].text) : n \in Names}
Used == ToSet(written) \cup Filed \cup Texts

\* A hook whose event is not in the queue and has not been sent.
Carrier(h) == hook[h] # NoHook /\ ~At(h, "end") /\ hook[h].e # Query

Fresh ==
    /\ Used \subseteq 1..sent
    /\ \A h \in Hooks : Carrier(h) => hook[h].e \notin Used
    /\ \A g, h \in Hooks : Carrier(g) /\ Carrier(h) /\ g # h => hook[g].e # hook[h].e
    /\ before \in [Events -> SUBSET queued]

\* No event is written twice.
WrittenOnce ==
    /\ \A n \in Names : \A i, j \in 1..Len(files[n].text) :
          files[n].text[i] = files[n].text[j] /\ files[n].text[i] \in Events => i = j
    /\ \A m, n \in Names :
          m # n => EventsIn(files[m].text) \cap EventsIn(files[n].text) = {}

\* Event d is settled, or in a file that is not above n.
Reached(d, n) ==
    d \in Settled \/ \E m \in Names : m <= n /\ d \in EventsIn(files[m].text)

\* A hook that has chosen its file: what was queued before its event is at or
\* below that file.
HookReached(h) ==
    hook[h].step \in {"open", "line"} /\ hook[h].file # Gone =>
        \A d \in before[hook[h].e] : Reached(d, hook[h].file)

\* What was queued before an event is in front of it.
AheadOf(d, n, i) ==
    \/ d \in Settled
    \/ \E m \in Names : m < n /\ d \in EventsIn(files[m].text)
    \/ \E j \in 1..(i - 1) : files[n].text[j] = d
FileOrder ==
    /\ \A n \in Names : \A i \in 1..Len(files[n].text) :
          files[n].text[i] \in Events \ lost =>
              \A d \in before[files[n].text[i]] : AheadOf(d, n, i)
    /\ \A h \in Hooks : HookReached(h)

PlaceInv == Fresh /\ WrittenOnce /\ FileOrder

\* One replay at a time, and no file in front of those that it has listed.
ListOK ==
    /\ \A g, h \in Replaying : g = h
    /\ \A h \in Replaying :
          /\ \A i, j \in 1..Len(hook[h].list) : i < j => hook[h].list[i] < hook[h].list[j]
          /\ \A n \in Names : \/ n \in ToSet(hook[h].list)
                              \/ \A m \in ToSet(hook[h].list) : m < n

\* What a replay is about to send has not been sent, and a file whose events
\* were sent is about to be removed.
Unsent ==
    /\ \A n \in Names : EventsIn(files[n].text) \cap ToSet(written) # {} =>
          \E h \in Hooks : At(h, "send") /\ Head(hook[h].list) = n
    /\ \A h \in Hooks : At(h, "send") =>
          /\ \A i, j \in 1..Len(hook[h].text) : hook[h].text[i] = hook[h].text[j] => i = j
          /\ ToSet(hook[h].text) \cap ToSet(written) = {}
          /\ \A n \in Names : ToSet(hook[h].text) \cap EventsIn(files[n].text) # {} =>
                Head(hook[h].list) = n

TextOrder ==
    \A h \in Hooks : At(h, "send") =>
        \A k \in 1..Len(hook[h].text) : hook[h].text[k] \notin lost =>
            \A d \in before[hook[h].text[k]] :
                d \in Settled \/ \E j \in 1..(k - 1) : hook[h].text[j] = d

\* The hook's own request comes after what it replays.
OwnOrder ==
    /\ \A h \in Replaying : hook[h].e # Query =>
          \A d \in before[hook[h].e] :
              d \in Settled \/ \E n \in Names \cap ToSet(hook[h].list) :
                                  d \in EventsIn(files[n].text)
    /\ \A h \in Hooks : At(h, "own") => before[hook[h].e] \subseteq Settled

WrittenOrder ==
    /\ \A i, j \in 1..Len(written) : written[i] = written[j] => i = j
    /\ \A i \in 1..Len(written) : written[i] \notin lost => before[written[i]] \subseteq Settled
    /\ \A i, j \in 1..Len(written) :
          written[j] \notin lost /\ written[i] \in before[written[j]] \ lost => i < j

Tidy == ListOK /\ Unsent /\ TextOrder /\ OwnOrder /\ WrittenOrder
OrderInv == PlaceInv /\ (~disturbed => Tidy)

-----------------------------------------------------------------------------
(* What a step leaves of texts and hooks. *)

\* A text that has only been appended to.
Grown(s, t) == Len(s) <= Len(t) /\ \A i \in 1..Len(s) : t[i] = s[i]

\* Files are appended to, or go once what they hold is settled.
Keeps ==
    /\ Settled \subseteq Settled' /\ lost \subseteq lost'
    /\ \A m \in Names : \/ EventsIn(files[m].text) \subseteq Settled'
                        \/ m \in Names' /\ Grown(files[m].text, files'[m].text)

\* No event is written.
NoNewLine ==
    \A m \in Names' : \A i \in 1..Len(files'[m].text) :
        files'[m].text[i] \in Events =>
            m \in Names /\ i \in 1..Len(files[m].text) /\ Grown(files[m].text, files'[m].text)

\* The other hooks keep their state, or their file has been unlinked.
Stay(h) ==
    \A g \in Hooks : g # h =>
        \/ hook'[g] = hook[g]
        \/ /\ hook[g].step \in {"line", "end"} /\ hook'[g].step = hook[g].step
           /\ hook'[g].e = hook[g].e /\ hook'[g].file = Gone

BeforeKept ==
    /\ before' \in [Events -> SUBSET queued']
    /\ \A e \in 1..sent : before'[e] = before[e]

LEMMA DoneStays ==
    ASSUME HooksOK, NEW h \in Hooks, NEW new, Do(h, new)
    PROVE  Stay(h) /\ hook'[h] = new
BY DEF HooksOK, Do, Stay

LEMMA UnlinksStays ==
    ASSUME HooksOK, NEW h \in Hooks, NEW new, NEW gone, hook[h].step \notin {"line", "end"},
           hook' = WithoutFiles(gone, [hook EXCEPT ![h] = new])
    PROVE  Stay(h) /\ hook'[h] = new
<1> DEFINE Cut(g) == hook[g].step \in {"line", "end"} /\ hook[g].file \in gone
           f == [hook EXCEPT ![h] = new]
<1>1. hook \in [Hooks -> HookState]
  BY DEF HooksOK
<1>2. f[h] = new /\ \A g \in Hooks : g # h => f[g] = hook[g]
  BY <1>1
<1>3. hook' = [g \in Hooks |-> IF Cut(g) THEN [f[g] EXCEPT !.file = Gone] ELSE f[g]]
  BY DEF WithoutFiles
<1> HIDE DEF f
<1>4. ASSUME NEW g \in Hooks, g # h, Cut(g)
      PROVE  /\ hook[g].step \in {"line", "end"} /\ hook'[g].step = hook[g].step
             /\ hook'[g].e = hook[g].e /\ hook'[g].file = Gone
  <2> DEFINE x == hook[g]
  <2>1. x \in HookState /\ x.step \in {"line", "end"} /\ hook'[g] = [x EXCEPT !.file = Gone]
    BY <1>1, <1>2, <1>3, <1>4
  <2> HIDE DEF x
  <2>2. x \in [step: {"line", "end"}, e: Events, file: Nat \cup {Gone}]
    BY <2>1 DEF HookState, NoHook
  <2>3. hook'[g].step = x.step /\ hook'[g].e = x.e /\ hook'[g].file = Gone
    BY <2>1, <2>2
  <2> QED BY <2>1, <2>3 DEF x
<1>5. \A g \in Hooks : g # h /\ ~Cut(g) => hook'[g] = hook[g]
  BY <1>2, <1>3
<1>6. hook'[h] = new
  BY <1>2, <1>3
<1> HIDE DEF Cut
<1> QED BY <1>4, <1>5, <1>6 DEF Stay

LEMMA GrownEvents ==
    ASSUME NEW s \in Seq(Token), NEW t \in Seq(Token), Grown(s, t)
    PROVE  EventsIn(s) \subseteq EventsIn(t)
<1>1. Len(s) \in Nat /\ Len(t) \in Nat
  BY LenProperties
<1>2. ASSUME NEW x \in ToSet(s) PROVE x \in ToSet(t)
  <2>1. PICK i \in 1..Len(s) : s[i] = x
    BY SetOfSeq
  <2>2. i \in 1..Len(t) /\ t[i] = x
    BY <1>1, <2>1 DEF Grown
  <2> QED BY <2>2, SetOfSeq
<1> QED BY <1>2 DEF EventsIn

LEMMA EventAt ==
    ASSUME NEW s \in Seq(Token), NEW x
    PROVE  x \in EventsIn(s) <=> x \in Events /\ \E i \in 1..Len(s) : s[i] = x
<1>1. x \in ToSet(s) <=> \E i \in 1..Len(s) : s[i] = x
  BY SetOfSeq
<1>2. x \in ToSet(s) => x \in Token
  BY SetOfSeq
<1> QED BY <1>1, <1>2, TokenKinds DEF EventsIn

LEMMA TextTyped ==
    ASSUME FilesOK, NEW n \in Names
    PROVE  files[n].text \in Seq(Token) /\ Len(files[n].text) \in Nat /\ n \in Nat
<1>1. files[n].text \in Seq(Token) /\ n \in Nat
  BY DEF FilesOK
<1> QED BY <1>1, LenProperties

LEMMA KeptFrame ==
    ASSUME FilesOK, NEW gone, FilesKept(gone), Settled \subseteq Settled', lost \subseteq lost',
           \A n \in Names \cap gone : EventsIn(files[n].text) \subseteq Settled'
    PROVE  Keeps /\ NoNewLine
<1>1. \A n \in Names : Len(files[n].text) \in Nat
  BY TextTyped
<1>2. \A n \in Names \ gone : n \in Names' /\ files'[n] = files[n]
                              /\ Grown(files[n].text, files'[n].text)
  BY <1>1 DEF FilesKept, Grown
<1>3. Keeps
  BY <1>2 DEF Keeps
<1>4. \A n \in Names' : n \in Names \ gone
  BY DEF FilesKept
<1>5. NoNewLine
  BY <1>2, <1>4 DEF NoNewLine
<1> QED BY <1>3, <1>5

\* A file is created, or appended to.
LEMMA PutFrame ==
    ASSUME FilesOK, NEW n, NEW t \in Token, NEW text, FilePut(n, text),
           text = Append(Text(n), t) \/ (n \notin Names /\ text = <<>>),
           Settled \subseteq Settled', lost \subseteq lost'
    PROVE  /\ Keeps
           /\ \A m \in Names' : \A i \in 1..Len(files'[m].text) :
                 \/ m \in Names /\ i \in 1..Len(files[m].text) /\ Grown(files[m].text, files'[m].text)
                 \/ m = n /\ i = Len(Text(n)) + 1 /\ files'[m].text[i] = t
<1>1. \A m \in Names : Len(files[m].text) \in Nat
  BY TextTyped
<1>2. /\ n \in Names' /\ files'[n].text = text
      /\ \A m \in Names : m # n => m \in Names' /\ files'[m] = files[m]
      /\ \A m \in Names' : m # n => m \in Names
  BY DEF FilePut
<1>3. \A m \in Names : m # n => Grown(files[m].text, files'[m].text)
  BY <1>1, <1>2 DEF Grown
<1>4. Text(n) \in Seq(Token) /\ (n \in Names => Text(n) = files[n].text)
  BY EmptyText, TextTyped DEF Text
<1>5. /\ Append(Text(n), t) \in Seq(Token) /\ Len(Append(Text(n), t)) = Len(Text(n)) + 1
      /\ Len(Text(n)) \in Nat
      /\ \A i \in 1..Len(Text(n)) : Append(Text(n), t)[i] = Text(n)[i]
      /\ Append(Text(n), t)[Len(Text(n)) + 1] = t
  BY <1>4, AppendProperties, LenProperties
<1>6. n \in Names => Grown(files[n].text, text)
  BY <1>4, <1>5 DEF Grown
<1>7. Keeps
  BY <1>2, <1>3, <1>6 DEF Keeps
<1>8. ASSUME NEW m \in Names', NEW i \in 1..Len(files'[m].text)
      PROVE  \/ m \in Names /\ i \in 1..Len(files[m].text) /\ Grown(files[m].text, files'[m].text)
             \/ m = n /\ i = Len(Text(n)) + 1 /\ files'[m].text[i] = t
  <2>1. CASE m # n
    BY <1>2, <1>3, <2>1
  <2>2. CASE m = n /\ text = <<>>
    <3>1. Len(<<>>) = 0
      BY EmptySeq
    <3> QED BY <1>2, <2>2, <3>1
  <2>3. CASE m = n /\ text = Append(Text(n), t)
    <3>1. i \in 1..(Len(Text(n)) + 1)
      BY <1>2, <1>5, <2>3
    <3>2. CASE i = Len(Text(n)) + 1
      BY <1>2, <1>5, <2>3, <3>2
    <3>3. CASE i # Len(Text(n)) + 1
      <4>1. i \in 1..Len(Text(n))
        BY <1>5, <3>1, <3>3
      <4>2. n \in Names
        <5>1. n \notin Names => Len(Text(n)) = 0
          BY EmptySeq DEF Text
        <5> QED BY <4>1, <5>1
      <4> QED BY <1>2, <1>4, <1>6, <2>3, <4>1, <4>2
    <3> QED BY <3>2, <3>3
  <2> QED BY <2>1, <2>2, <2>3
<1> QED BY <1>7, <1>8

\* The event of a hook: it is still carried by it, or is a new one, or (X) it is
\* written or sent in this step.
Carries(h, X) ==
    /\ Used' \subseteq Used \cup X
    /\ X = {} \/ (X = {hook[h].e} /\ Carrier(h) /\ ~Carrier(h)')
    /\ Carrier(h)' => \/ Carrier(h) /\ hook'[h].e = hook[h].e
                      \/ hook'[h].e = sent + 1 /\ sent' = sent + 1

LEMMA CarrierEvent ==
    ASSUME HookInv, NEW h \in Hooks, Carrier(h)
    PROVE  hook[h].e \in 1..sent /\ hook[h].e \in Events
<1>1. hook[h].e \in Events /\ hook[h].e <= sent /\ sent \in Nat
  BY HookShape, Numbers DEF HookInv, Carrier
<1> QED BY <1>1, HookQueueAssumption DEF Events

LEMMA CarriersStay ==
    ASSUME HooksOK, NEW h \in Hooks, Stay(h), NEW g \in Hooks, g # h, Carrier(g)'
    PROVE  Carrier(g) /\ hook'[g].e = hook[g].e
<1>1. CASE hook'[g] = hook[g]
  BY <1>1 DEF Carrier, At
<1>2. CASE /\ hook[g].step \in {"line", "end"} /\ hook'[g].step = hook[g].step
           /\ hook'[g].e = hook[g].e
  BY <1>2 DEF Carrier, At, NoHook
<1> QED BY <1>1, <1>2 DEF Stay

LEMMA FreshStep ==
    ASSUME HookInv, Fresh, NEW h \in Hooks, Stay(h), Counting, BeforeKept,
           NEW X, Carries(h, X)
    PROVE  Fresh'
<1>1. sent \in Nat /\ sent' \in Nat /\ 1..sent \subseteq 1..sent'
  BY DEF Counting
<1>2. \A g \in Hooks : Carrier(g) => hook[g].e \in 1..sent
  BY CarrierEvent
<1>3. \A g \in Hooks : g # h /\ Carrier(g)' => Carrier(g) /\ hook'[g].e = hook[g].e
  BY CarriersStay DEF HookInv
<1>4. Used' \subseteq 1..sent
  BY <1>2 DEF Fresh, Carries
<1>5. ASSUME NEW g \in Hooks, Carrier(g)' PROVE hook'[g].e \notin Used'
  <2>1. CASE g # h
    <3>1. Carrier(g) /\ hook'[g].e = hook[g].e /\ hook[g].e \notin Used
      BY <1>3, <1>5, <2>1 DEF Fresh
    <3>2. hook[g].e \notin X
      BY <2>1, <3>1 DEF Carries, Fresh
    <3> QED BY <3>1, <3>2 DEF Carries
  <2>2. CASE g = h /\ Carrier(h) /\ hook'[h].e = hook[h].e
    BY <1>5, <2>2 DEF Carries, Fresh
  <2>3. CASE g = h /\ hook'[h].e = sent + 1
    BY <1>1, <1>4, <2>3
  <2> QED BY <1>5, <2>1, <2>2, <2>3 DEF Carries
<1>6. ASSUME NEW f \in Hooks, NEW g \in Hooks, Carrier(f)', Carrier(g)', f # g, g # h
      PROVE  hook'[f].e # hook'[g].e
  <2>1. Carrier(g) /\ hook'[g].e = hook[g].e /\ hook[g].e \in 1..sent
    BY <1>2, <1>3, <1>6
  <2>2. CASE f # h
    BY <1>3, <1>6, <2>1, <2>2 DEF Fresh
  <2>3. CASE f = h /\ Carrier(h) /\ hook'[h].e = hook[h].e
    BY <1>6, <2>1, <2>3 DEF Fresh
  <2>4. CASE f = h /\ hook'[h].e = sent + 1
    BY <1>1, <2>1, <2>4
  <2> QED BY <1>6, <2>2, <2>3, <2>4 DEF Carries
<1>7. \A f, g \in Hooks : Carrier(f)' /\ Carrier(g)' /\ f # g => hook'[f].e # hook'[g].e
  <2> SUFFICES ASSUME NEW f \in Hooks, NEW g \in Hooks, Carrier(f)', Carrier(g)', f # g
               PROVE  hook'[f].e # hook'[g].e
    OBVIOUS
  <2>1. CASE g # h
    BY <1>6, <2>1
  <2>2. CASE g = h
    <3>1. hook'[g].e # hook'[f].e
      BY <1>6, <2>2
    <3> QED BY <3>1
  <2> QED BY <2>1, <2>2
<1>8. Used' \subseteq 1..sent'
  BY <1>1, <1>4
<1> QED BY <1>5, <1>7, <1>8 DEF Fresh, BeforeKept

LEMMA ReachedKept ==
    ASSUME FilesOK, FilesOK', Keeps
    PROVE  \A d, n : Reached(d, n) => Reached(d, n)'
<1> SUFFICES ASSUME NEW d, NEW n, Reached(d, n) PROVE Reached(d, n)'
  OBVIOUS
<1>1. CASE d \in Settled
  BY <1>1 DEF Reached, Keeps
<1>2. ASSUME NEW m \in Names, m <= n, d \in EventsIn(files[m].text) PROVE Reached(d, n)'
  <2>1. CASE EventsIn(files[m].text) \subseteq Settled'
    BY <1>2, <2>1 DEF Reached
  <2>2. CASE m \in Names' /\ Grown(files[m].text, files'[m].text)
    <3>1. files[m].text \in Seq(Token)
      BY TextTyped
    <3>2. files'[m].text \in Seq(Token)
      BY <2>2 DEF FilesOK
    <3>3. d \in EventsIn(files'[m].text)
      BY <1>2, <2>2, <3>1, <3>2, GrownEvents
    <3> QED BY <1>2, <2>2, <3>3 DEF Reached
  <2> QED BY <2>1, <2>2 DEF Keeps
<1> QED BY <1>1, <1>2 DEF Reached

\* A line that stays keeps what is in front of it.
LEMMA AheadKept ==
    ASSUME FilesOK, FilesOK', Keeps, NEW n \in Names, n \in Names',
           Grown(files[n].text, files'[n].text), NEW i \in 1..Len(files[n].text),
           NEW d, AheadOf(d, n, i)
    PROVE  AheadOf(d, n, i)'
<1>1. CASE d \in Settled
  BY <1>1 DEF AheadOf, Keeps
<1>2. ASSUME NEW m \in Names, m < n, d \in EventsIn(files[m].text) PROVE AheadOf(d, n, i)'
  <2>1. CASE EventsIn(files[m].text) \subseteq Settled'
    BY <1>2, <2>1 DEF AheadOf
  <2>2. CASE m \in Names' /\ Grown(files[m].text, files'[m].text)
    <3>1. files[m].text \in Seq(Token)
      BY TextTyped
    <3>2. files'[m].text \in Seq(Token)
      BY <2>2 DEF FilesOK
    <3>3. d \in EventsIn(files'[m].text)
      BY <1>2, <2>2, <3>1, <3>2, GrownEvents
    <3> QED BY <1>2, <2>2, <3>3 DEF AheadOf
  <2> QED BY <2>1, <2>2 DEF Keeps
<1>3. ASSUME NEW j \in 1..(i - 1), files[n].text[j] = d PROVE AheadOf(d, n, i)'
  <2>1. Len(files[n].text) \in Nat
    BY TextTyped
  <2>2. j \in 1..Len(files[n].text)
    BY <2>1
  <2>3. files'[n].text[j] = d
    BY <1>3, <2>2 DEF Grown
  <2> QED BY <2>3 DEF AheadOf
<1> QED BY <1>1, <1>2, <1>3 DEF AheadOf

LEMMA LinesUsed ==
    ASSUME FilesOK, NEW n \in Names, NEW i \in 1..Len(files[n].text), files[n].text[i] \in Events
    PROVE  files[n].text[i] \in EventsIn(files[n].text) /\ files[n].text[i] \in Used
<1>1. files[n].text \in Seq(Token)
  BY TextTyped
<1>2. files[n].text[i] \in EventsIn(files[n].text)
  BY <1>1, EventAt
<1> QED BY <1>2 DEF Used, Filed

LEMMA HooksReached ==
    ASSUME HookInv, FilesOK', PlaceInv, NEW h \in Hooks, Stay(h), Keeps, BeforeKept, HookReached(h)'
    PROVE  \A g \in Hooks : HookReached(g)'
<1> SUFFICES ASSUME NEW g \in Hooks, g # h, hook'[g].step \in {"open", "line"},
                    hook'[g].file # Gone, NEW d \in before'[hook'[g].e]
             PROVE  Reached(d, hook[g].file)'
  BY DEF HookReached
<1>1. hook'[g] = hook[g]
  BY DEF Stay
<1>2. Carrier(g)
  <2>1. hook[g].e \in Events /\ hook[g] # NoHook
    BY <1>1, HookShape DEF HookInv, NoHook
  <2>2. hook[g].e # Query
    BY <2>1 DEF Events, Query
  <2> QED BY <1>1, <2>1, <2>2 DEF Carrier, At
<1>3. before'[hook[g].e] = before[hook[g].e]
  BY <1>2, CarrierEvent DEF BeforeKept
<1>4. Reached(d, hook[g].file)
  BY <1>1, <1>3 DEF PlaceInv, FileOrder, HookReached
<1>5. \A x, n : Reached(x, n) => Reached(x, n)'
  BY ReachedKept DEF HookInv
<1> QED BY <1>1, <1>4, <1>5 DEF Reached

LEMMA PlacesStep ==
    ASSUME HookInv, HookInv', PlaceInv, NEW h \in Hooks, Stay(h), Counting, BeforeKept, Keeps,
           NoNewLine, Carries(h, {}) \/ Carries(h, {hook[h].e}), HookReached(h)'
    PROVE  PlaceInv'
<1>0. FilesOK /\ FilesOK'
  BY DEF HookInv
<1>1. Fresh'
  BY FreshStep DEF PlaceInv
<1>2. ASSUME NEW n \in Names', NEW i \in 1..Len(files'[n].text), files'[n].text[i] \in Events
      PROVE  /\ n \in Names /\ i \in 1..Len(files[n].text) /\ files'[n].text[i] = files[n].text[i]
             /\ Grown(files[n].text, files'[n].text)
  BY <1>2 DEF NoNewLine, Grown
<1>3. ASSUME NEW n \in Names' PROVE files'[n].text \in Seq(Token)
  BY <1>0 DEF FilesOK
<1>4. ASSUME NEW n \in Names', NEW x \in EventsIn(files'[n].text)
      PROVE  n \in Names /\ x \in EventsIn(files[n].text)
  <2>1. PICK i \in 1..Len(files'[n].text) : files'[n].text[i] = x /\ x \in Events
    BY <1>3, EventAt
  <2>2. n \in Names /\ i \in 1..Len(files[n].text) /\ files[n].text[i] = x
    BY <1>2, <2>1
  <2> QED BY <1>0, <2>1, <2>2, LinesUsed
<1>5. WrittenOnce'
  <2>1. ASSUME NEW n \in Names', NEW i \in 1..Len(files'[n].text), NEW j \in 1..Len(files'[n].text),
               files'[n].text[i] = files'[n].text[j], files'[n].text[i] \in Events
        PROVE  i = j
    BY <1>2, <2>1 DEF PlaceInv, WrittenOnce
  <2>2. \A m, n \in Names' : m # n => EventsIn(files'[m].text) \cap EventsIn(files'[n].text) = {}
    BY <1>4 DEF PlaceInv, WrittenOnce
  <2> QED BY <2>1, <2>2 DEF WrittenOnce
<1>6. ASSUME NEW n \in Names', NEW i \in 1..Len(files'[n].text),
             files'[n].text[i] \in Events \ lost', NEW d \in before'[files'[n].text[i]]
      PROVE  AheadOf(d, n, i)'
  <2>1. /\ n \in Names /\ i \in 1..Len(files[n].text) /\ files'[n].text[i] = files[n].text[i]
        /\ Grown(files[n].text, files'[n].text)
    BY <1>2, <1>6
  <2>2. files[n].text[i] \in Events \ lost /\ files[n].text[i] \in 1..sent
    BY <1>0, <1>6, <2>1, LinesUsed DEF Keeps, PlaceInv, Fresh
  <2>3. d \in before[files[n].text[i]]
    BY <1>6, <2>1, <2>2 DEF BeforeKept
  <2>4. AheadOf(d, n, i)
    BY <2>1, <2>2, <2>3 DEF PlaceInv, FileOrder
  <2> QED BY <1>0, <2>1, <2>4, AheadKept
<1>7. \A g \in Hooks : HookReached(g)'
  BY <1>0, HooksReached
<1>8. FileOrder'
  BY <1>6, <1>7 DEF FileOrder
<1> QED BY <1>1, <1>5, <1>8 DEF PlaceInv

LEMMA OldEvents ==
    ASSUME FilesOK, FilesOK', NoNewLine
    PROVE  \A n \in Names' : \A x \in EventsIn(files'[n].text) :
               n \in Names /\ x \in EventsIn(files[n].text)
<1> SUFFICES ASSUME NEW n \in Names', NEW x \in EventsIn(files'[n].text)
             PROVE  n \in Names /\ x \in EventsIn(files[n].text)
  OBVIOUS
<1>1. files'[n].text \in Seq(Token)
  BY DEF FilesOK
<1>2. PICK i \in 1..Len(files'[n].text) : files'[n].text[i] = x /\ x \in Events
  BY <1>1, EventAt
<1>3. n \in Names /\ i \in 1..Len(files[n].text) /\ files[n].text[i] = x
  BY <1>2 DEF NoNewLine, Grown
<1> QED BY <1>2, <1>3, LinesUsed

LEMMA TextsStep ==
    ASSUME NEW h \in Hooks, Stay(h)
    PROVE  Texts' \subseteq Texts \cup (IF hook'[h].step = "send" THEN ToSet(hook'[h].text) ELSE {})
<1> SUFFICES ASSUME NEW g \in Hooks, hook'[g].step = "send", NEW x \in ToSet(hook'[g].text), g # h
             PROVE  x \in Texts
  BY DEF Texts, At
<1>1. hook'[g] = hook[g]
  BY DEF Stay
<1> QED BY <1>1 DEF Texts, At

\* An event that was written or sent before is in no other file than it was.
OldLines ==
    \A n \in Names' : \A x \in EventsIn(files'[n].text) :
        x \in Used => n \in Names /\ x \in EventsIn(files[n].text)

\* What a step of hook h leaves as it was.
Framed(h) == Stay(h) /\ Keeps /\ BeforeKept /\ OldLines

\* What a step does with the event of its hook.
Moves(h, X, new) ==
    /\ ToSet(written') \subseteq Used \cup X
    /\ new.step = "send" => ToSet(new.text) \subseteq Used
    /\ X = {} \/ (X = {hook[h].e} /\ Carrier(h) /\ new = NoHook)
    /\ \/ new = NoHook
       \/ new.e = Query
       \/ Carrier(h) /\ new.e = hook[h].e
       \/ new.e = sent + 1 /\ sent' = sent + 1

LEMMA MovesCarry ==
    ASSUME FilesOK, FilesOK', NoNewLine, NEW h \in Hooks, Stay(h), NEW X, Moves(h, X, hook'[h])
    PROVE  Carries(h, X)
<1>1. Filed' \subseteq Filed
  <2> SUFFICES ASSUME NEW n \in Names', NEW x \in EventsIn(files'[n].text) PROVE x \in Filed
    BY DEF Filed
  <2>1. n \in Names /\ x \in EventsIn(files[n].text)
    BY OldEvents
  <2> QED BY <2>1 DEF Filed
<1>2. Texts' \subseteq Used
  BY TextsStep DEF Used, Moves
<1>3. Used' \subseteq Used \cup X
  BY <1>1, <1>2 DEF Used, Moves
<1>4. Carrier(h)' => hook'[h] # NoHook /\ hook'[h].e # Query
  BY DEF Carrier
<1> QED BY <1>3, <1>4 DEF Carries, Moves

LEMMA QuietPlaces ==
    ASSUME HookInv, HookInv', PlaceInv, NEW h \in Hooks, NEW new, Do(h, new), UNCHANGED files,
           ClockRuns, Counting, BeforeKept, Settled \subseteq Settled', lost \subseteq lost',
           Moves(h, {}, new) \/ Moves(h, {hook[h].e}, new), HookReached(h)'
    PROVE  PlaceInv' /\ Framed(h) /\ hook'[h] = new
<1>1. FilesOK' /\ FilesKept({})
  BY FilesSame DEF HookInv
<1>2. Keeps /\ NoNewLine
  BY <1>1, KeptFrame DEF HookInv
<1>3. Stay(h) /\ hook'[h] = new
  BY DoneStays DEF HookInv
<1>4. Carries(h, {}) \/ Carries(h, {hook[h].e})
  BY <1>1, <1>2, <1>3, MovesCarry DEF HookInv
<1>5. PlaceInv'
  BY <1>2, <1>3, <1>4, PlacesStep
<1>6. OldLines
  BY <1>1, <1>2, OldEvents DEF OldLines, HookInv
<1> QED BY <1>2, <1>3, <1>5, <1>6 DEF Framed

LEMMA UnlinkPlaces ==
    ASSUME HookInv, HookInv', PlaceInv, NEW h \in Hooks, NEW new, NEW gone, Unlink(gone),
           hook' = WithoutFiles(gone, [hook EXCEPT ![h] = new]),
           hook[h].step \notin {"line", "end"}, new.step \notin {"send", "open", "line"},
           new = NoHook \/ new.e = hook[h].e, hook[h].step # "idle", hook[h] # NoHook,
           ClockRuns, Counting, UNCHANGED <<written, queued, before>>, lost \subseteq lost',
           \A n \in Names \cap gone : EventsIn(files[n].text) \subseteq Settled'
    PROVE  PlaceInv' /\ Framed(h) /\ hook'[h] = new
<1>0. Settled \subseteq Settled'
  BY DEF Settled
<1>1. FilesOK' /\ FilesKept(gone)
  BY FilesUnlinked DEF HookInv
<1>2. Keeps /\ NoNewLine
  BY <1>0, <1>1, KeptFrame DEF HookInv
<1>3. Stay(h) /\ hook'[h] = new
  BY UnlinksStays DEF HookInv
<1>4. Moves(h, {}, new)
  BY DEF Moves, Used, Carrier, At
<1>5. Carries(h, {})
  BY <1>1, <1>2, <1>3, <1>4, MovesCarry DEF HookInv
<1>6. BeforeKept
  BY DEF BeforeKept, PlaceInv, Fresh
<1>7. HookReached(h)'
  BY <1>3 DEF HookReached
<1>8. PlaceInv'
  BY <1>2, <1>3, <1>5, <1>6, <1>7, PlacesStep
<1>9. OldLines
  BY <1>1, <1>2, OldEvents DEF OldLines, HookInv
<1> QED BY <1>2, <1>3, <1>6, <1>8, <1>9 DEF Framed

\* The old line keeps its place, and the new one is behind all that it follows.
LEMMA WriteLinePlaces ==
    ASSUME HookInv, HookInv', PlaceInv, NEW h \in Hooks, WriteLine(h)
    PROVE  PlaceInv' /\ Framed(h)
<1> DEFINE n == hook[h].file
           e == hook[h].e
           new == [hook[h] EXCEPT !.step = "end"]
           text == Append(Text(n), e)
<1>1. /\ At(h, "line") /\ AppendTo(h, e) /\ Do(h, new)
      /\ lost' = lost \cup (IF n = Gone THEN {e} ELSE Glued(text))
      /\ UNCHANGED <<up, clock, sent, faults, written, queued, before, disturbed>>
  BY DEF WriteLine
<1>2. ClockRuns /\ Counting /\ clock \in Nat
  BY <1>1, Numbers DEF ClockRuns, Counting
<1>3. e \in Events /\ n \in Nat \cup {Gone} /\ n <= clock /\ hook[h] # NoHook
  BY <1>1, HookShape, Numbers DEF HookInv, HooksOK, At, NoHook
<1>4. Carrier(h) /\ e \notin Used
  <2>1. e # Query
    BY <1>3 DEF Events, Query
  <2>2. Carrier(h)
    BY <1>1, <1>3, <2>1 DEF Carrier, At
  <2> QED BY <2>2 DEF PlaceInv, Fresh
<1>5. Stay(h) /\ hook'[h] = new
  BY <1>1, DoneStays DEF HookInv
<1>6. new.step = "end"
  <2> DEFINE x == hook[h]
  <2>1. x \in HookState /\ x.step = "line"
    BY <1>1, HookShape DEF HookInv, At
  <2> HIDE DEF x
  <2>2. x \in [step: {"line", "end"}, e: Events, file: Nat \cup {Gone}]
    BY <2>1 DEF HookState, NoHook
  <2>3. [x EXCEPT !.step = "end"].step = "end"
    BY <2>2
  <2> QED BY <2>3 DEF x
<1>7. AppendTo(h, e) <=> IF n = Gone THEN UNCHANGED files ELSE Put(n, text)
  BY DEF AppendTo
<1>8. n # Gone => \A d \in before[e] : Reached(d, n)
  BY <1>1 DEF PlaceInv, FileOrder, HookReached, At
<1>9. Text(n) \in Seq(Token) /\ e \in Token /\ text \in Seq(Token)
  <2>1. Text(n) \in Seq(Token) /\ e \in Token
    BY <1>3, TextShape DEF Token
  <2> HIDE DEF n, e
  <2> QED BY <2>1, EventsOfAppend
<1> HIDE DEF n, e, new, text
<1>10. Settled \subseteq Settled' /\ lost \subseteq lost' /\ FilesOK /\ FilesOK'
  BY <1>1 DEF Settled, HookInv
<1>11. BeforeKept /\ ~Carrier(h)' /\ HookReached(h)'
  <2>1. BeforeKept
    BY <1>1 DEF BeforeKept, PlaceInv, Fresh
  <2> QED BY <1>5, <1>6, <2>1 DEF Carrier, HookReached, At
<1>12. CASE n = Gone
  <2>1. FilesKept({})
    BY <1>1, <1>2, <1>7, <1>12, FilesSame DEF HookInv
  <2>2. Keeps /\ NoNewLine
    BY <1>10, <2>1, KeptFrame
  <2>3. Filed' \subseteq Filed
    <3> SUFFICES ASSUME NEW m \in Names', NEW x \in EventsIn(files'[m].text) PROVE x \in Filed
      BY DEF Filed
    <3>1. m \in Names /\ x \in EventsIn(files[m].text)
      BY <1>10, <2>2, OldEvents
    <3> QED BY <3>1 DEF Filed
  <2>4. Texts' \subseteq Texts
    BY <1>5, <1>6, TextsStep
  <2>5. Carries(h, {})
    BY <1>1, <1>11, <2>3, <2>4 DEF Carries, Used
  <2>6. PlaceInv'
    BY <1>2, <1>5, <1>11, <2>2, <2>5, PlacesStep
  <2>7. OldLines
    BY <1>10, <2>2, OldEvents DEF OldLines
  <2> QED BY <1>5, <1>11, <2>2, <2>6, <2>7 DEF Framed
<1>13. CASE n # Gone
  <2>1. n \in Nat /\ Put(n, text)
    BY <1>1, <1>3, <1>7, <1>13
  <2>2. FilePut(n, text)
    BY <1>1, <1>2, <1>3, <1>9, <2>1, FilesPut DEF HookInv
  <2> DEFINE L == Len(Text(n)) + 1
  <2>3. /\ Keeps
        /\ \A m \in Names' : \A i \in 1..Len(files'[m].text) :
              \/ m \in Names /\ i \in 1..Len(files[m].text) /\ Grown(files[m].text, files'[m].text)
              \/ m = n /\ i = L /\ files'[m].text[i] = e
    BY <1>9, <1>10, <2>2, PutFrame DEF text
  <2>4. ASSUME NEW m \in Names', NEW i \in 1..Len(files'[m].text), files'[m].text[i] \in Events
        PROVE  \/ /\ m \in Names /\ i \in 1..Len(files[m].text) /\ Grown(files[m].text, files'[m].text)
                  /\ files[m].text[i] = files'[m].text[i]
                  /\ files[m].text[i] \in EventsIn(files[m].text) /\ files[m].text[i] \in Used
               \/ m = n /\ i = L /\ files'[m].text[i] = e
    <3>1. CASE m \in Names /\ i \in 1..Len(files[m].text) /\ Grown(files[m].text, files'[m].text)
      <4>1. files[m].text[i] = files'[m].text[i]
        BY <3>1 DEF Grown
      <4> QED BY <1>10, <2>4, <3>1, <4>1, LinesUsed
    <3> HIDE DEF L
    <3> QED BY <2>3, <3>1
  <2>5. \A m \in Names' : files'[m].text \in Seq(Token)
    BY <1>10 DEF FilesOK
  <2>6. ASSUME NEW m \in Names', NEW x \in EventsIn(files'[m].text)
        PROVE  (m \in Names /\ x \in EventsIn(files[m].text)) \/ (m = n /\ x = e)
    <3>1. PICK i \in 1..Len(files'[m].text) : files'[m].text[i] = x /\ x \in Events
      BY <2>5, EventAt
    <3> HIDE DEF L
    <3> QED BY <2>4, <3>1
  <2> HIDE DEF L
  <2>7. Carries(h, {e})
    <3>1. Filed' \subseteq Filed \cup {e}
      BY <2>6 DEF Filed
    <3>2. Texts' \subseteq Texts
      BY <1>5, <1>6, TextsStep
    <3>3. Used' \subseteq Used \cup {e}
      BY <1>1, <3>1, <3>2 DEF Used
    <3> QED BY <1>4, <1>11, <3>3 DEF Carries, e
  <2>8. Fresh'
    BY <1>2, <1>5, <1>11, <2>7, FreshStep DEF PlaceInv
  <2>9. WrittenOnce'
    <3>1. ASSUME NEW m \in Names', NEW i \in 1..Len(files'[m].text), NEW j \in 1..Len(files'[m].text),
                 files'[m].text[i] = files'[m].text[j], files'[m].text[i] \in Events
          PROVE  i = j
      BY <1>4, <2>4, <3>1 DEF PlaceInv, WrittenOnce
    <3>2. ASSUME NEW m \in Names', NEW k \in Names', m # k,
                 NEW x \in EventsIn(files'[m].text), x \in EventsIn(files'[k].text)
          PROVE  FALSE
      <4>1. \A f \in Names : e \notin EventsIn(files[f].text)
        BY <1>4 DEF Used, Filed
      <4> QED BY <2>6, <3>2, <4>1 DEF PlaceInv, WrittenOnce
    <3>3. \A m, k \in Names' : m # k => EventsIn(files'[m].text) \cap EventsIn(files'[k].text) = {}
      BY <3>2
    <3> QED BY <3>1, <3>3 DEF WrittenOnce
  <2>10. ASSUME NEW m \in Names', NEW i \in 1..Len(files'[m].text),
                files'[m].text[i] \in Events \ lost', NEW d \in before'[files'[m].text[i]]
         PROVE  AheadOf(d, m, i)'
    <3>1. CASE /\ m \in Names /\ i \in 1..Len(files[m].text) /\ Grown(files[m].text, files'[m].text)
               /\ files[m].text[i] = files'[m].text[i]
      <4>1. files[m].text[i] \in Events \ lost /\ d \in before[files[m].text[i]]
        BY <1>1, <1>10, <2>10, <3>1
      <4>2. AheadOf(d, m, i)
        BY <3>1, <4>1 DEF PlaceInv, FileOrder
      <4> QED BY <1>10, <2>3, <3>1, <4>2, AheadKept
    <3>2. CASE m = n /\ i = L /\ files'[m].text[i] = e
      <4>1. d \in before[e]
        BY <1>1, <2>10, <3>2
      <4>2. CASE d \in Settled
        BY <1>10, <4>2 DEF AheadOf
      <4>3. ASSUME NEW k \in Names, k <= n, d \in EventsIn(files[k].text)
            PROVE  AheadOf(d, m, i)'
        <5>1. k \in Nat /\ n \in Nat /\ files[k].text \in Seq(Token) /\ Len(files[k].text) \in Nat
          BY <1>10, <2>1, TextTyped
        <5>2. CASE EventsIn(files[k].text) \subseteq Settled'
          BY <4>3, <5>2 DEF AheadOf
        <5>3. CASE k \in Names' /\ Grown(files[k].text, files'[k].text) /\ k < n
          <6>1. d \in EventsIn(files'[k].text)
            BY <2>5, <4>3, <5>1, <5>3, GrownEvents
          <6> QED BY <3>2, <5>3, <6>1 DEF AheadOf
        <5>4. CASE k \in Names' /\ Grown(files[k].text, files'[k].text) /\ k = n
          <6>1. PICK j \in 1..Len(files[n].text) : files[n].text[j] = d
            BY <4>3, <5>1, <5>4, EventAt
          <6>2. files'[n].text[j] = d
            BY <5>4, <6>1 DEF Grown
          <6>3. L = Len(files[n].text) + 1
            BY <4>3, <5>4 DEF L, Text
          <6>4. j \in 1..(i - 1)
            BY <3>2, <5>1, <5>4, <6>3
          <6> QED BY <3>2, <6>2, <6>4 DEF AheadOf
        <5> QED BY <2>3, <4>3, <5>1, <5>2, <5>3, <5>4 DEF Keeps
      <4> QED BY <1>8, <1>13, <4>1, <4>2, <4>3 DEF Reached
    <3> QED BY <2>4, <2>10, <3>1, <3>2
  <2>11. \A g \in Hooks : HookReached(g)'
    BY <1>5, <1>10, <1>11, <2>3, HooksReached
  <2>12. FileOrder'
    BY <2>10, <2>11 DEF FileOrder
  <2>13. OldLines
    BY <1>4, <2>6 DEF OldLines
  <2>14. Framed(h)
    BY <1>5, <1>11, <2>3, <2>13 DEF Framed
  <2> QED BY <2>8, <2>9, <2>12, <2>14 DEF PlaceInv
<1> QED BY <1>12, <1>13

LEMMA CarrierAt ==
    ASSUME HookInv, NEW h \in Hooks,
           hook[h].step \in {"room", "target", "own", "open", "line"}
    PROVE  Carrier(h) /\ hook[h].e \in Events
<1>1. hook[h].e \in Events /\ hook[h] # NoHook
  BY HookShape DEF HookInv, NoHook
<1>2. hook[h].e # Query
  BY <1>1 DEF Events, Query
<1> QED BY <1>1, <1>2 DEF Carrier, At

LEMMA BeforeSame == ASSUME PlaceInv, queued \subseteq queued', UNCHANGED before PROVE BeforeKept
BY DEF PlaceInv, Fresh, BeforeKept

LEMMA WrittenUsed == ToSet(written) \subseteq Used /\ lost \subseteq Settled
BY DEF Used, Settled

LEMMA ListSorted ==
    ASSUME HookInv
    PROVE  /\ Sorted(Names) \in Seq(Nat) /\ ToSet(Sorted(Names)) = Names
           /\ Sorted(Names) = <<>> <=> Names = {}
           /\ \A i, j \in 1..Len(Sorted(Names)) : i < j => Sorted(Names)[i] < Sorted(Names)[j]
<1> DEFINE q == Sorted(Names)
<1>1. IsFiniteSet(Names) /\ Names \in SUBSET Nat
  BY Numbers, NamesFinite DEF HookInv
<1>2. /\ q \in Seq(Names) /\ Len(q) = Cardinality(Names)
      /\ \A n \in Names : \E k \in 1..Cardinality(Names) : q[k] = n
      /\ \A i, j \in 1..Cardinality(Names) : i < j => q[i] < q[j]
  <2> HIDE DEF Names
  <2> QED BY <1>1, AscendingIs DEF Sorted
<1> HIDE DEF q, Names
<1>3. q \in Seq(Nat)
  BY <1>1, <1>2, SeqMonotonic
<1>4. ToSet(q) \subseteq Names /\ \A x : x \in ToSet(q) <=> \E i \in 1..Len(q) : q[i] = x
  BY <1>2, SetOfSeq
<1>5. ToSet(q) = Names
  BY <1>2, <1>4
<1>6. q = <<>> <=> Names = {}
  <2>1. q = <<>> => ToSet(q) = {}
    BY DEF ToSet
  <2>2. q # <<>> => Head(q) \in Names
    BY <1>2, HeadTailProperties
  <2> QED BY <1>5, <2>1, <2>2
<1> QED BY <1>2, <1>3, <1>5, <1>6 DEF q

LEMMA StartPlaces ==
    ASSUME HookInv, HookInv', PlaceInv, NEW h \in Hooks, hook[h] = NoHook,
           NEW e, e = Query \/ (e = sent + 1 /\ sent' = sent + 1), Counting, BeforeKept,
           StartReplay(h, e) \/ StartOffline(h, e),
           UNCHANGED <<files, clock, written, lost>>
    PROVE  PlaceInv' /\ Framed(h)
<1>1. ClockRuns /\ Settled \subseteq Settled' /\ lost \subseteq lost'
  BY Numbers DEF ClockRuns, Settled
<1>2. PICK new : /\ Do(h, new)
                 /\ new = NoHook \/ new.e = e
                 /\ new.step \in {"idle", "read", "own", "room"}
  <2>1. CASE StartReplay(h, e)
    <3>1. Do(h, NextFile(e, Sorted(Names)))
      BY <2>1 DEF StartReplay
    <3>2. LET new == NextFile(e, Sorted(Names))
          IN  (new = NoHook \/ new.e = e) /\ new.step \in {"idle", "read", "own"}
      BY DEF NextFile, NoHook
    <3> HIDE DEF Do
    <3> QED BY <3>1, <3>2
  <2>2. CASE StartOffline(h, e)
    <3>1. Do(h, [step |-> "room", e |-> e]) \/ Do(h, NoHook)
      BY <2>2 DEF StartOffline
    <3>2. [step |-> "room", e |-> e].e = e /\ [step |-> "room", e |-> e].step = "room"
          /\ NoHook.step = "idle"
      BY DEF NoHook
    <3> HIDE DEF Do
    <3> QED BY <3>1, <3>2
  <2> QED BY <2>1, <2>2
<1>3. Moves(h, {}, new)
  BY <1>2, WrittenUsed DEF Moves
<1>4. HookReached(h)'
  <2>1. hook'[h] = new
    BY <1>2, DoneStays DEF HookInv
  <2> QED BY <1>2, <2>1 DEF HookReached
<1> QED BY <1>1, <1>2, <1>3, <1>4, QuietPlaces

LEMMA BeginPlaces ==
    ASSUME HookInv, HookInv', PlaceInv, NEW h \in Hooks, BeginEvent(h) \/ BeginQuery(h)
    PROVE  PlaceInv' /\ Framed(h)
<1>1. sent \in Nat /\ sent \in 1..MaxEvents /\ 1..sent \subseteq Events
  BY Numbers
<1>2. CASE BeginEvent(h)
  <2>1. /\ hook[h] = NoHook /\ sent < MaxEvents /\ sent' = sent + 1
        /\ before' = [before EXCEPT ![sent + 1] = queued]
        /\ StartReplay(h, sent + 1) \/ StartOffline(h, sent + 1)
        /\ UNCHANGED <<files, clock, written, lost, queued>>
    BY <1>2 DEF BeginEvent
  <2>2. Counting
    BY <1>1, <2>1 DEF Counting
  <2>3. BeforeKept
    <3>1. before \in [Events -> SUBSET queued]
      BY DEF PlaceInv, Fresh
    <3>2. \A x \in 1..sent : x \in Events /\ x # sent + 1
      BY <1>1
    <3> QED BY <2>1, <3>1, <3>2 DEF BeforeKept
  <2> QED BY <2>1, <2>2, <2>3, StartPlaces
<1>3. CASE BeginQuery(h)
  <2>1. /\ hook[h] = NoHook /\ StartReplay(h, Query)
        /\ UNCHANGED <<files, clock, sent, written, lost, queued, before>>
    BY <1>3 DEF BeginQuery, history
  <2>2. Counting /\ BeforeKept
    BY <1>1, <2>1, BeforeSame DEF Counting
  <2> QED BY <2>1, <2>2, StartPlaces
<1> QED BY <1>2, <1>3

LEMMA FindPlaces ==
    ASSUME HookInv, HookInv', PlaceInv, NEW h \in Hooks, NEW now, FindOrCreateTarget(h, now)
    PROVE  PlaceInv' /\ Framed(h)
<1>1. /\ At(h, "target") /\ now \in clock..MaxClock /\ clock' = now
      /\ UNCHANGED <<files, up, sent, faults, history, disturbed>>
  BY DEF FindOrCreateTarget, SystemTimeNow
<1>2. ClockRuns /\ Counting /\ now \in Nat /\ clock \in Nat /\ clock <= now
  BY <1>1, Numbers, HookQueueAssumption DEF ClockRuns, Counting
<1>3. PICK n : /\ \A m \in Names : m <= n
               /\ Do(h, [step |-> "open", e |-> hook[h].e, file |-> n])
  <2>1. ASSUME NEW m \in Names PROVE m <= now
    <3>1. m \in Nat /\ files[m].mtime \in Nat /\ m <= files[m].mtime /\ files[m].mtime <= clock
      BY DEF HookInv, FilesOK
    <3> QED BY <1>2, <3>1
  <2>2. \/ \E n \in Names : /\ \A m \in Names : m <= n
                            /\ Do(h, [step |-> "open", e |-> hook[h].e, file |-> n])
        \/ Do(h, [step |-> "open", e |-> hook[h].e, file |-> now])
    BY DEF FindOrCreateTarget
  <2> HIDE DEF Do, Names
  <2> QED BY <2>1, <2>2
<1> DEFINE new == [step |-> "open", e |-> hook[h].e, file |-> n]
<1>4. hook'[h] = new /\ new.step = "open" /\ new.e = hook[h].e /\ new.file = n
  BY <1>3, DoneStays DEF HookInv
<1>5. Carrier(h) /\ hook[h].e \in Events
  BY <1>1, CarrierAt DEF At
<1>6. Moves(h, {}, new)
  BY <1>1, <1>4, <1>5, WrittenUsed DEF Moves, history
<1>7. UNCHANGED <<written, lost, queued, before>> /\ Names' = Names /\ UNCHANGED files
  BY <1>1 DEF history, Names
<1>8. HookReached(h)'
  <2> SUFFICES ASSUME NEW d \in before[hook[h].e] PROVE Reached(d, n)'
    BY <1>4, <1>7 DEF HookReached, Reached
  <2>1. d \in Safe
    BY <1>5 DEF PlaceInv, Fresh, HookInv, QueueSafe
  <2>2. CASE d \in Settled
    BY <1>7, <2>2 DEF Reached, Settled
  <2>3. CASE d \in InFiles
    <3>1. PICK m \in Names : d \in ToSet(Readable(files[m].text))
      BY <2>3 DEF InFiles
    <3>2. files[m].text \in Seq(Token)
      BY TextTyped DEF HookInv
    <3>3. d \in EventsIn(files[m].text)
      BY <3>1, <3>2, EventsOfText
    <3> QED BY <1>3, <1>7, <3>3 DEF Reached
  <2> QED BY <2>1, <2>2, <2>3 DEF Safe, Settled
<1>9. Settled \subseteq Settled' /\ lost \subseteq lost' /\ BeforeKept
  BY <1>7, BeforeSame DEF Settled
<1> HIDE DEF new
<1> QED BY <1>2, <1>3, <1>6, <1>7, <1>8, <1>9, QuietPlaces DEF new

\* A new file is empty.
LEMMA OpenPlaces ==
    ASSUME HookInv, HookInv', PlaceInv, NEW h \in Hooks, OpenTarget(h)
    PROVE  PlaceInv' /\ Framed(h)
<1> DEFINE n == hook[h].file
           new == [hook[h] EXCEPT !.step = "line"]
<1>1. /\ At(h, "open") /\ Do(h, new)
      /\ IF n \in Names THEN UNCHANGED files ELSE Put(n, <<>>)
      /\ UNCHANGED <<up, clock, sent, faults, history>>
  BY DEF OpenTarget
<1>2. ClockRuns /\ Counting /\ clock \in Nat
  BY <1>1, Numbers DEF ClockRuns, Counting
<1>3. n \in Nat /\ n <= clock /\ Carrier(h)
  BY <1>1, HookShape, CarrierAt DEF HookInv, HooksOK, At
<1>4. new.step = "line" /\ new.e = hook[h].e /\ new.file = n
  <2> DEFINE x == hook[h]
  <2>1. x \in HookState /\ x.step = "open"
    BY <1>1, HookShape DEF HookInv, At
  <2> HIDE DEF x
  <2>2. x \in [step: {"open"}, e: Events, file: Nat]
    BY <2>1 DEF HookState, NoHook
  <2> DEFINE y == [x EXCEPT !.step = "line"]
  <2>3. y.step = "line" /\ y.e = x.e /\ y.file = x.file
    BY <2>2
  <2> QED BY <2>3 DEF x
<1>5. UNCHANGED <<written, lost, queued, before>>
  BY <1>1 DEF history
<1>6. Settled \subseteq Settled' /\ lost \subseteq lost' /\ BeforeKept
  BY <1>5, BeforeSame DEF Settled
<1> HIDE DEF n, new
<1>7. Stay(h) /\ hook'[h] = new
  BY <1>1, DoneStays DEF HookInv
<1>8. Moves(h, {}, new)
  BY <1>3, <1>4, <1>5, WrittenUsed DEF Moves
<1>9. Keeps /\ NoNewLine /\ FilesOK /\ FilesOK'
  <2>1. CASE n \in Names
    <3>1. FilesOK' /\ FilesKept({})
      BY <1>1, <1>2, <2>1, FilesSame DEF HookInv
    <3> QED BY <1>6, <3>1, KeptFrame DEF HookInv
  <2>2. CASE n \notin Names
    <3>1. FilesOK' /\ FilePut(n, <<>>)
      BY <1>1, <1>2, <1>3, <2>2, EmptyText, FilesPut DEF HookInv
    <3>2. NL \in Token /\ NL \notin Events
      BY TokenKinds
    <3>3. /\ Keeps
          /\ \A m \in Names' : \A i \in 1..Len(files'[m].text) :
                \/ m \in Names /\ i \in 1..Len(files[m].text) /\ Grown(files[m].text, files'[m].text)
                \/ m = n /\ i = Len(Text(n)) + 1 /\ files'[m].text[i] = NL
      BY <1>6, <2>2, <3>1, <3>2, PutFrame DEF HookInv
    <3>4. NoNewLine
      BY <3>2, <3>3 DEF NoNewLine
    <3> QED BY <3>1, <3>3, <3>4 DEF HookInv
  <2> QED BY <2>1, <2>2
<1>10. HookReached(h)'
  <2>1. n # Gone => \A d \in before[hook[h].e] : Reached(d, n)
    BY <1>1 DEF PlaceInv, FileOrder, HookReached, At, n
  <2>2. \A d, m : Reached(d, m) => Reached(d, m)'
    BY <1>9, ReachedKept
  <2> QED BY <1>4, <1>5, <1>7, <2>1, <2>2 DEF HookReached, Reached
<1>11. Carries(h, {})
  BY <1>7, <1>8, <1>9, MovesCarry
<1>12. PlaceInv'
  BY <1>2, <1>6, <1>7, <1>9, <1>10, <1>11, PlacesStep
<1>13. OldLines
  BY <1>9, OldEvents DEF OldLines
<1> QED BY <1>6, <1>7, <1>9, <1>12, <1>13 DEF Framed

\* The hook ends with something in the file that is no event.
LEMMA TailPlaces ==
    ASSUME HookInv, HookInv', PlaceInv, NEW h \in Hooks, hook[h].step \in {"line", "end"},
           NEW t \in {NL, Stub, Torn}, AppendTo(h, t), Do(h, NoHook),
           lost \subseteq lost', queued \subseteq queued',
           UNCHANGED <<clock, sent, written, before>>
    PROVE  PlaceInv' /\ Framed(h)
<1> DEFINE n == hook[h].file
           text == Append(Text(n), t)
<1>2. ClockRuns /\ Counting /\ clock \in Nat
  BY Numbers DEF ClockRuns, Counting
<1>3. n \in Nat \cup {Gone} /\ n <= clock
  BY HookShape DEF HookInv, HooksOK, At
<1>4. Settled \subseteq Settled' /\ lost \subseteq lost' /\ BeforeKept
  BY BeforeSame DEF Settled
<1>5. t \in Token /\ t \notin Events /\ Text(n) \in Seq(Token)
  BY TokenKinds, TextShape
<1>6. text \in Seq(Token)
  <2> HIDE DEF n
  <2> QED BY <1>5, EventsOfAppend
<1>7. AppendTo(h, t) <=> IF n = Gone THEN UNCHANGED files ELSE Put(n, text)
  BY DEF AppendTo
<1> HIDE DEF n, text
<1>8. Stay(h) /\ hook'[h] = NoHook
  BY DoneStays DEF HookInv
<1>9. Keeps /\ NoNewLine
  <2>1. CASE n = Gone
    <3>1. FilesKept({})
      BY <1>2, <1>7, <2>1, FilesSame DEF HookInv
    <3> QED BY <1>4, <3>1, KeptFrame DEF HookInv
  <2>2. CASE n # Gone
    <3>1. n \in Nat /\ Put(n, text)
      BY <1>3, <1>7, <2>2
    <3>2. FilePut(n, text)
      BY <1>2, <1>3, <1>6, <3>1, FilesPut DEF HookInv
    <3>3. /\ Keeps
          /\ \A m \in Names' : \A i \in 1..Len(files'[m].text) :
                \/ m \in Names /\ i \in 1..Len(files[m].text) /\ Grown(files[m].text, files'[m].text)
                \/ m = n /\ i = Len(Text(n)) + 1 /\ files'[m].text[i] = t
      BY <1>4, <1>5, <3>2, PutFrame DEF HookInv, text
    <3>4. NoNewLine
      BY <1>5, <3>3 DEF NoNewLine
    <3> QED BY <3>3, <3>4
  <2> QED BY <2>1, <2>2
<1>10. Moves(h, {}, NoHook)
  BY WrittenUsed DEF Moves, NoHook
<1>11. Carries(h, {}) /\ HookReached(h)'
  BY <1>8, <1>9, <1>10, MovesCarry DEF HookInv, HookReached, NoHook
<1>12. PlaceInv'
  BY <1>2, <1>4, <1>8, <1>9, <1>11, PlacesStep
<1>13. OldLines
  BY <1>9, OldEvents DEF OldLines, HookInv
<1> QED BY <1>4, <1>8, <1>9, <1>12, <1>13 DEF Framed

LEMMA WriteEndPlaces ==
    ASSUME HookInv, HookInv', PlaceInv, NEW h \in Hooks, WriteEnd(h)
    PROVE  PlaceInv' /\ Framed(h)
<1>1. /\ hook[h].step = "end" /\ AppendTo(h, NL) /\ Do(h, NoHook)
      /\ queued' = queued \cup {hook[h].e}
      /\ UNCHANGED <<clock, sent, written, before, lost>>
  BY DEF WriteEnd, At
<1> QED BY <1>1, TailPlaces

LEMMA CutLinePlaces ==
    ASSUME HookInv, HookInv', PlaceInv, NEW h \in Hooks, CutLine(h)
    PROVE  PlaceInv' /\ Framed(h)
<1>1. /\ hook[h].step = "line" /\ Do(h, NoHook) /\ lost \subseteq lost'
      /\ UNCHANGED <<clock, sent, written, queued, before>>
  BY DEF CutLine, At
<1>2. PICK t \in {Stub, Torn} : AppendTo(h, t)
  BY DEF CutLine
<1> QED BY <1>1, <1>2, TailPlaces

LEMMA MakeRoomPlaces ==
    ASSUME HookInv, HookInv', PlaceInv, NEW h \in Hooks, NEW now,
           MakeRoom(h, now) \/ MakeRoomFails(h, now)
    PROVE  PlaceInv' /\ Framed(h) /\ Names' \subseteq Names /\ hook'[h].step \in {"target", "idle"}
<1>1. /\ At(h, "room") /\ now \in clock..MaxClock /\ clock' = now
      /\ UNCHANGED <<up, sent, written, queued, before, disturbed>>
  BY RoomMade
<1>2. ClockRuns /\ Counting
  BY <1>1, Numbers, HookQueueAssumption DEF ClockRuns, Counting
<1>3. PICK gone \in SUBSET Names, new \in {[step |-> "target", e |-> hook[h].e], NoHook} :
         Discard(h, gone, new)
  BY RoomMade
<1>4. /\ Unlink(gone)
      /\ lost' = lost \cup UNION {EventsIn(files[n].text) : n \in gone}
      /\ hook' = WithoutFiles(gone, [hook EXCEPT ![h] = new])
  BY <1>3 DEF Discard
<1>5. \A n \in Names \cap gone : EventsIn(files[n].text) \subseteq Settled'
  BY <1>4 DEF Settled
<1>6. /\ new.step \in {"target", "idle"} /\ (new = NoHook \/ new.e = hook[h].e)
      /\ hook[h].step = "room" /\ hook[h] # NoHook
  BY <1>1, <1>3, CarrierAt DEF At, Carrier, NoHook
<1>7. PlaceInv' /\ Framed(h) /\ hook'[h] = new
  BY <1>1, <1>2, <1>4, <1>5, <1>6, UnlinkPlaces
<1>8. Names' = Names \ gone
  BY <1>2, <1>4, FilesUnlinked DEF FilesKept, HookInv
<1> QED BY <1>6, <1>7, <1>8

LEMMA EndPlaces ==
    ASSUME HookInv, HookInv', PlaceInv, NEW h \in Hooks, Do(h, NoHook),
           UNCHANGED <<files, clock, sent, history>>
    PROVE  PlaceInv' /\ Framed(h) /\ hook'[h] = NoHook
<1>1. UNCHANGED <<written, lost, queued, before>>
  BY DEF history
<1>2. ClockRuns /\ Counting
  BY Numbers DEF ClockRuns, Counting
<1>3. Settled \subseteq Settled' /\ lost \subseteq lost' /\ BeforeKept
  BY <1>1, BeforeSame DEF Settled
<1>4. Moves(h, {}, NoHook)
  BY <1>1, WrittenUsed DEF Moves, NoHook
<1>5. HookReached(h)'
  <2>1. hook'[h] = NoHook
    BY DoneStays DEF HookInv
  <2> QED BY <2>1 DEF HookReached, NoHook
<1> QED BY <1>2, <1>3, <1>4, <1>5, QuietPlaces

\* A replay that ends early gives up the other files.
LEMMA GivesUpPlaces ==
    ASSUME HookInv, HookInv', PlaceInv, NEW h \in Hooks, hook[h].step \in {"read", "send"},
           Do(h, NextFile(hook[h].e, <<>>)),
           UNCHANGED <<files, clock, sent, written, lost, queued, before>>
    PROVE  PlaceInv' /\ Framed(h)
<1> DEFINE new == NextFile(hook[h].e, <<>>)
<1>2. ClockRuns /\ Counting
  BY Numbers DEF ClockRuns, Counting
<1>3. Settled \subseteq Settled' /\ lost \subseteq lost' /\ BeforeKept
  BY BeforeSame DEF Settled
<1>4. \/ new = NoHook /\ new.step = "idle"
      \/ new.e = hook[h].e /\ new.step = "own" /\ hook[h].e # Query
  BY DEF NextFile, NoHook
<1>5. hook[h] # NoHook /\ ~At(h, "end")
  BY DEF NoHook, At
<1> HIDE DEF new
<1>6. Moves(h, {}, new)
  BY <1>4, <1>5, WrittenUsed DEF Moves, Carrier
<1>7. HookReached(h)'
  <2>1. hook'[h] = new
    BY DoneStays DEF HookInv, new
  <2> QED BY <1>4, <2>1 DEF HookReached
<1> QED BY <1>2, <1>3, <1>6, <1>7, QuietPlaces DEF new

LEMMA ReadPlaces ==
    ASSUME HookInv, HookInv', PlaceInv, NEW h \in Hooks, ReadFile(h)
    PROVE  PlaceInv' /\ Framed(h)
<1> DEFINE n == Head(hook[h].list)
           text == files[n].text
           new == [step |-> "send", e |-> hook[h].e, list |-> hook[h].list,
                   text |-> Readable(text), read |-> EventsIn(text)]
<1>1. /\ At(h, "read") /\ UNCHANGED <<files, clock, sent, history>>
      /\ \/ n \in Names /\ Do(h, new)
         \/ Do(h, NextFile(hook[h].e, <<>>))
  BY DEF ReadFile, EndReplay
<1>2. CASE Do(h, NextFile(hook[h].e, <<>>))
  BY <1>1, <1>2, GivesUpPlaces DEF At, history
<1>3. CASE n \in Names /\ Do(h, new)
  <2>1. UNCHANGED <<written, lost, queued, before>>
    BY <1>1 DEF history
  <2>2. ClockRuns /\ Counting
    BY <1>1, Numbers DEF ClockRuns, Counting
  <2>3. Settled \subseteq Settled' /\ lost \subseteq lost' /\ BeforeKept
    BY <2>1, BeforeSame DEF Settled
  <2>4. /\ new.step = "send" /\ new.text = Readable(text) /\ new.e = hook[h].e
        /\ hook[h] # NoHook /\ ~At(h, "end")
    BY <1>1 DEF NoHook, At
  <2>5. ToSet(Readable(text)) \subseteq Used
    <3>1. text \in Seq(Token)
      BY <1>3, TextTyped DEF HookInv
    <3>2. ToSet(Readable(text)) \subseteq EventsIn(text)
      <4> HIDE DEF text
      <4> QED BY <3>1, EventsOfText
    <3> QED BY <1>3, <3>2 DEF Used, Filed
  <2> HIDE DEF new, text, n
  <2>6. Moves(h, {}, new)
    BY <2>1, <2>4, <2>5, WrittenUsed DEF Moves, Carrier
  <2>7. HookReached(h)'
    <3>1. hook'[h] = new
      BY <1>1, <1>3, DoneStays DEF HookInv
    <3> QED BY <2>4, <3>1 DEF HookReached
  <2> QED BY <1>1, <1>3, <2>2, <2>3, <2>6, <2>7, QuietPlaces
<1> QED BY <1>1, <1>2, <1>3

\* The state of a hook after it has sent or skipped a line.
LEMMA SentLine ==
    ASSUME HooksOK, NEW h \in Hooks, At(h, "send"), hook[h].text # <<>>
    PROVE  LET new == [hook[h] EXCEPT !.text = Tail(@)] IN
           /\ new.step = "send" /\ new.e = hook[h].e /\ new.list = hook[h].list
           /\ new.text = Tail(hook[h].text)
           /\ Head(hook[h].text) \in Events /\ Tail(hook[h].text) \in Seq(Events)
           /\ ToSet(hook[h].text) = {Head(hook[h].text)} \cup ToSet(Tail(hook[h].text))
<1> DEFINE x == hook[h]
<1>1. x \in HookState /\ x.step = "send" /\ x.text # <<>>
  BY HookShape DEF At
<1> HIDE DEF x
<1>2. x \in [step: {"send"}, e: Events \cup {Query}, list: Seq(Nat), text: Seq(Events),
             read: SUBSET Events]
  BY <1>1 DEF HookState, NoHook
<1>3. x.text \in Seq(Events)
  BY <1>2
<1>4. /\ Head(x.text) \in Events /\ Tail(x.text) \in Seq(Events)
      /\ ToSet(x.text) = {Head(x.text)} \cup ToSet(Tail(x.text))
  BY <1>1, <1>3, SetOfTail
<1>5. LET y == [x EXCEPT !.text = Tail(@)] IN
      y.step = "send" /\ y.e = x.e /\ y.list = x.list /\ y.text = Tail(x.text)
  BY <1>2
<1> QED BY <1>4, <1>5 DEF x

LEMMA SendPlaces ==
    ASSUME HookInv, HookInv', PlaceInv, NEW h \in Hooks, SendLine(h) \/ SendLineFails(h)
    PROVE  PlaceInv' /\ Framed(h)
<1> DEFINE text == hook[h].text
           new == [hook[h] EXCEPT !.text = Tail(@)]
<1>1. /\ At(h, "send") /\ text # <<>> /\ Do(h, new)
      /\ UNCHANGED <<files, clock, sent, queued, before>>
      /\ \/ written' = Append(written, Head(text)) /\ UNCHANGED lost
         \/ lost' = lost \cup {Head(text)} /\ UNCHANGED written
  BY DEF SendLine, SendLineFails, FireAndForget
<1>2. ClockRuns /\ Counting /\ BeforeKept
  BY <1>1, Numbers, BeforeSame DEF ClockRuns, Counting
<1>3. /\ new.step = "send" /\ new.e = hook[h].e /\ new.text = Tail(text)
      /\ Head(text) \in Events /\ ToSet(text) = {Head(text)} \cup ToSet(Tail(text))
  BY <1>1, SentLine DEF HookInv
<1>4. ToSet(text) \subseteq Used
  BY <1>1 DEF Used, Texts
<1> HIDE DEF new, text
<1>5. ToSet(Append(written, Head(text))) = ToSet(written) \cup {Head(text)}
  <2>1. written \in Seq(Events)
    BY DEF HookInv, CountsOK
  <2> QED BY <1>3, <2>1, SetOfAppend
<1>6. Settled \subseteq Settled' /\ lost \subseteq lost'
  BY <1>1, <1>5 DEF Settled
<1>7. hook[h] # NoHook /\ ~At(h, "end")
  BY <1>1 DEF NoHook, At
<1>8. Moves(h, {}, new)
  BY <1>1, <1>3, <1>4, <1>5, <1>7, WrittenUsed DEF Moves, Carrier
<1>9. HookReached(h)'
  <2>1. hook'[h] = new
    BY <1>1, DoneStays DEF HookInv
  <2> QED BY <1>3, <2>1 DEF HookReached
<1> QED BY <1>1, <1>2, <1>6, <1>8, <1>9, QuietPlaces

LEMMA RemovePlaces ==
    ASSUME HookInv, HookInv', PlaceInv, NEW h \in Hooks, RemoveReplayed(h)
    PROVE  PlaceInv' /\ Framed(h)
<1> DEFINE n == Head(hook[h].list)
           new == NextFile(hook[h].e, Tail(hook[h].list))
           text == files[n].text
<1>1. /\ At(h, "send") /\ hook[h].text = <<>>
      /\ UNCHANGED <<up, clock, sent, faults, written, queued, before>>
      /\ n \notin Names => Do(h, NextFile(hook[h].e, <<>>)) /\ UNCHANGED <<files, lost>>
      /\ n \in Names => /\ Unlink({n})
                        /\ lost' = lost \cup (EventsIn(text) \ hook[h].read)
                        /\ hook' = WithoutFiles({n}, [hook EXCEPT ![h] = new])
  BY DEF RemoveReplayed, SentAll, EndReplay
<1>2. CASE n \notin Names
  BY <1>1, <1>2, GivesUpPlaces DEF At
<1>3. CASE n \in Names
  <2>1. ClockRuns /\ Counting
    BY <1>1, Numbers DEF ClockRuns, Counting
  <2>2. hook[h].read \subseteq Settled
    <3>1. ToSet(<<>>) = {}
      BY DEF ToSet
    <3> QED BY <1>1, <3>1 DEF HookInv, ReplayOK, Settled
  <2>3. EventsIn(text) \subseteq Settled' /\ lost \subseteq lost'
    BY <1>1, <1>3, <2>2 DEF Settled
  <2>4. \A m \in Names \cap {n} : EventsIn(files[m].text) \subseteq Settled'
    BY <2>3
  <2>5. new.step \in {"read", "own", "idle"} /\ (new = NoHook \/ new.e = hook[h].e)
    BY DEF NextFile, NoHook
  <2>6. hook[h].step = "send" /\ hook[h] # NoHook
    BY <1>1 DEF At, NoHook
  <2> HIDE DEF new, n, text
  <2> QED BY <1>1, <1>3, <2>1, <2>3, <2>4, <2>5, <2>6, UnlinkPlaces
<1> QED BY <1>2, <1>3

LEMMA OwnPlaces ==
    ASSUME HookInv, HookInv', PlaceInv, NEW h \in Hooks, SendOwn(h)
    PROVE  PlaceInv' /\ Framed(h) /\ hook'[h] = NoHook
<1>1. /\ At(h, "own") /\ Do(h, NoHook) /\ written' = Append(written, hook[h].e)
      /\ UNCHANGED <<files, up, clock, sent, queued, before, lost, disturbed>>
  BY DEF SendOwn, FireAndForget
<1>2. ClockRuns /\ Counting /\ BeforeKept
  BY <1>1, Numbers, BeforeSame DEF ClockRuns, Counting
<1>3. hook[h].e \in Events /\ Carrier(h) /\ written \in Seq(Events)
  BY <1>1, CarrierAt DEF HookInv, CountsOK, At
<1>4. ToSet(written') = ToSet(written) \cup {hook[h].e}
  BY <1>1, <1>3, SetOfAppend
<1>5. Settled \subseteq Settled' /\ lost \subseteq lost'
  BY <1>1, <1>4 DEF Settled
<1>6. Moves(h, {hook[h].e}, NoHook)
  BY <1>3, <1>4, WrittenUsed DEF Moves, NoHook
<1>7. HookReached(h)'
  <2>1. hook'[h] = NoHook
    BY <1>1, DoneStays DEF HookInv
  <2> QED BY <2>1 DEF HookReached, NoHook
<1> QED BY <1>1, <1>2, <1>5, <1>6, <1>7, QuietPlaces

\* A file that is open for writing is still there.
Opened ==
    \A h \in Hooks : hook[h].step \in {"line", "end"} /\ hook[h].file # Gone => hook[h].file \in Names

LEMMA OpenedStep == HookInv /\ Opened /\ [Next]_vars => Opened'
<1> SUFFICES ASSUME HookInv, Opened, [Next]_vars PROVE Opened'
  OBVIOUS
<1>0. HooksOK /\ FilesOK
  BY DEF HookInv
<1>1. ASSUME NEW h \in Hooks, NEW new, Do(h, new), Names \subseteq Names',
             new.step \in {"line", "end"} /\ new.file # Gone => new.file \in Names'
      PROVE  Opened'
  <2>1. hook'[h] = new /\ \A g \in Hooks : g # h => hook'[g] = hook[g]
    BY <1>0, <1>1 DEF Do, HooksOK
  <2> QED BY <1>1, <2>1 DEF Opened
<1>2. ASSUME NEW h \in Hooks, NEW new, NEW gone, Unlink(gone), hook[h].step \notin {"line", "end"},
             hook' = WithoutFiles(gone, [hook EXCEPT ![h] = new]), new.step \notin {"line", "end"}
      PROVE  Opened'
  <2>1. Stay(h) /\ hook'[h] = new
    BY <1>0, <1>2, UnlinksStays
  <2>2. Names' = Names \ gone
    BY <1>2 DEF Unlink, Names
  <2>3. ASSUME NEW g \in Hooks, g # h, hook'[g].step \in {"line", "end"}, hook'[g].file # Gone
        PROVE  hook'[g].file \in Names'
    <3>1. hook'[g] = hook[g]
      BY <2>1, <2>3 DEF Stay
    <3>2. hook[g].file \in Names
      BY <2>3, <3>1 DEF Opened
    <3>3. hook[g].file \notin gone
      <4> SUFFICES ASSUME hook[g].file \in gone PROVE FALSE
        OBVIOUS
      <4> DEFINE x == hook[g]
      <4>1. hook'[g] = [x EXCEPT !.file = Gone]
        BY <1>0, <1>2, <2>3, <3>1 DEF WithoutFiles, HooksOK
      <4>2. x \in HookState /\ x.step \in {"line", "end"}
        BY <1>0, <2>3, <3>1 DEF HooksOK
      <4> HIDE DEF x
      <4>3. x \in [step: {"line", "end"}, e: Events, file: Nat \cup {Gone}]
        BY <4>2 DEF HookState, NoHook
      <4>4. [x EXCEPT !.file = Gone].file = Gone
        BY <4>3
      <4> QED BY <2>3, <4>1, <4>4
    <3> QED BY <2>2, <3>1, <3>2, <3>3
  <2> QED BY <1>2, <2>1, <2>3 DEF Opened
<1>3. ASSUME NEW h \in Hooks, BeginEvent(h) \/ BeginQuery(h) PROVE Opened'
  <2>1. Names' = Names
    BY <1>3 DEF BeginEvent, BeginQuery, Names
  <2>2. PICK e : StartReplay(h, e) \/ StartOffline(h, e)
    BY <1>3 DEF BeginEvent, BeginQuery
  <2>3. PICK new : Do(h, new) /\ new.step \notin {"line", "end"}
    <3>1. /\ NextFile(e, Sorted(Names)).step \notin {"line", "end"}
          /\ [step |-> "room", e |-> e].step \notin {"line", "end"}
          /\ NoHook.step \notin {"line", "end"}
      BY DEF NextFile, NoHook
    <3>2. \/ Do(h, NextFile(e, Sorted(Names)))
          \/ Do(h, [step |-> "room", e |-> e])
          \/ Do(h, NoHook)
      BY <2>2 DEF StartReplay, StartOffline
    <3> HIDE DEF Do, Names
    <3> QED BY <3>1, <3>2
  <2> QED BY <1>1, <2>1, <2>3
<1>4. ASSUME NEW h \in Hooks, NEW now, MakeRoom(h, now) \/ MakeRoomFails(h, now) PROVE Opened'
  <2>1. PICK gone \in SUBSET Names, new \in {[step |-> "target", e |-> hook[h].e], NoHook} :
           Discard(h, gone, new)
    BY <1>4, RoomMade
  <2>2. /\ hook[h].step = "room" /\ Unlink(gone)
        /\ hook' = WithoutFiles(gone, [hook EXCEPT ![h] = new])
    BY <1>4, <2>1, RoomMade DEF Discard, At
  <2>3. new.step \in {"target", "idle"}
    BY DEF NoHook
  <2> QED BY <1>2, <2>2, <2>3
<1>5. ASSUME NEW h \in Hooks, NEW now, FindOrCreateTarget(h, now) PROVE Opened'
  <2>1. Names' = Names
    BY <1>5 DEF FindOrCreateTarget, Names
  <2>2. PICK n : Do(h, [step |-> "open", e |-> hook[h].e, file |-> n])
    BY <1>5 DEF FindOrCreateTarget
  <2> HIDE DEF Do, Names
  <2> QED BY <1>1, <2>1, <2>2
<1>6. ASSUME NEW h \in Hooks, NEW step, step \in {"line", "end"},
             hook[h].step \in {"open", "line"},
             Do(h, [hook[h] EXCEPT !.step = step]), Names \subseteq Names',
             hook[h].file # Gone => hook[h].file \in Names'
      PROVE  Opened'
  <2> DEFINE x == hook[h]
             new == [x EXCEPT !.step = step]
  <2>1. x \in HookState /\ x.step \in {"open", "line"}
    BY <1>0, <1>6 DEF HooksOK
  <2> HIDE DEF x
  <2>2. \/ x \in [step: {"open"}, e: Events, file: Nat]
        \/ x \in [step: {"line", "end"}, e: Events, file: Nat \cup {Gone}]
    BY <2>1 DEF HookState, NoHook
  <2>3. new.file = x.file
    BY <2>2
  <2> HIDE DEF new
  <2> QED BY <1>1, <1>6, <2>3 DEF x, new
<1>7. ASSUME NEW h \in Hooks, OpenTarget(h) PROVE Opened'
  <2>1. /\ hook[h].step = "open" /\ Do(h, [hook[h] EXCEPT !.step = "line"])
        /\ Names \subseteq Names' /\ hook[h].file \in Names'
    BY <1>7 DEF OpenTarget, At, Put, Names
  <2> QED BY <1>6, <2>1
<1>8. ASSUME NEW h \in Hooks, NEW t, AppendTo(h, t)
      PROVE  Names \subseteq Names' /\ (hook[h].file # Gone => hook[h].file \in Names')
  BY <1>8 DEF AppendTo, Put, Names
<1>9. ASSUME NEW h \in Hooks, WriteLine(h) PROVE Opened'
  <2>1. /\ hook[h].step = "line" /\ Do(h, [hook[h] EXCEPT !.step = "end"])
        /\ AppendTo(h, hook[h].e)
    BY <1>9 DEF WriteLine, At
  <2> QED BY <1>6, <1>8, <2>1
<1>10. ASSUME NEW h \in Hooks, Do(h, NoHook), Names \subseteq Names' PROVE Opened'
  <2>1. NoHook.step = "idle"
    BY DEF NoHook
  <2> QED BY <1>1, <1>10, <2>1
<1>11. ASSUME NEW h \in Hooks, WriteEnd(h) \/ CutLine(h) PROVE Opened'
  BY <1>8, <1>10, <1>11 DEF WriteEnd, CutLine
<1>12. ASSUME NEW h \in Hooks, EnqueueFails(h) \/ SendOwn(h) \/ SendOwnFails(h) \/ Kill(h)
       PROVE  Opened'
  <2>1. Do(h, NoHook) /\ Names' = Names
    BY <1>12 DEF EnqueueFails, SendOwn, SendOwnFails, Kill, Names
  <2> QED BY <1>10, <2>1
<1>13. ASSUME NEW h \in Hooks, NEW e, NEW list, Do(h, NextFile(e, list)), Names' = Names
       PROVE  Opened'
  <2>1. NextFile(e, list).step \notin {"line", "end"}
    BY DEF NextFile, NoHook
  <2> QED BY <1>1, <1>13, <2>1
<1>14. ASSUME NEW h \in Hooks, ReadFile(h) PROVE Opened'
  <2> DEFINE n == Head(hook[h].list)
             new == [step |-> "send", e |-> hook[h].e, list |-> hook[h].list,
                     text |-> Readable(files[n].text), read |-> EventsIn(files[n].text)]
  <2>1. Names' = Names /\ (Do(h, new) \/ Do(h, NextFile(hook[h].e, <<>>)))
    BY <1>14 DEF ReadFile, EndReplay, Names
  <2>2. new.step = "send"
    OBVIOUS
  <2> HIDE DEF new
  <2> QED BY <1>1, <1>13, <2>1, <2>2
<1>15. ASSUME NEW h \in Hooks, SendLine(h) \/ SendLineFails(h) PROVE Opened'
  <2> DEFINE new == [hook[h] EXCEPT !.text = Tail(@)]
  <2>1. Do(h, new) /\ At(h, "send") /\ hook[h].text # <<>> /\ Names' = Names
    BY <1>15 DEF SendLine, SendLineFails, Names
  <2>2. new.step = "send"
    BY <1>0, <2>1, SentLine
  <2> HIDE DEF new
  <2> QED BY <1>1, <2>1, <2>2
<1>16. ASSUME NEW h \in Hooks, RemoveReplayed(h) PROVE Opened'
  <2> DEFINE n == Head(hook[h].list)
             new == NextFile(hook[h].e, Tail(hook[h].list))
  <2>1. new.step \notin {"line", "end"} /\ hook[h].step = "send"
    BY <1>16 DEF NextFile, NoHook, RemoveReplayed, At
  <2>2. \/ Unlink({n}) /\ hook' = WithoutFiles({n}, [hook EXCEPT ![h] = new])
        \/ Do(h, NextFile(hook[h].e, <<>>)) /\ Names' = Names
    BY <1>16 DEF RemoveReplayed, EndReplay, Names
  <2> HIDE DEF new, n
  <2> QED BY <1>2, <1>13, <2>1, <2>2
<1>17. ASSUME ServerReads \/ ServerChanges \/ UNCHANGED vars PROVE Opened'
  <2>1. UNCHANGED <<files, hook>>
    BY <1>17 DEF ServerReads, ServerChanges, vars
  <2> QED BY <2>1 DEF Opened, Names
<1>18. ASSUME NEW h \in Hooks, HookStep(h) PROVE Opened'
  BY <1>4, <1>5, <1>7, <1>9, <1>11, <1>12, <1>14, <1>15, <1>16, <1>18 DEF HookStep
<1>19. ASSUME NEW h \in Hooks, HookFault(h) PROVE Opened'
  <2>1. CASE ReplayFails(h)
    <3>1. Do(h, NextFile(hook[h].e, <<>>)) /\ Names' = Names
      BY <2>1 DEF ReplayFails, EndReplay, Names
    <3> QED BY <1>13, <3>1
  <2> QED BY <1>4, <1>11, <1>12, <1>19, <2>1 DEF HookFault
<1> QED BY <1>3, <1>17, <1>18, <1>19 DEF Next

-----------------------------------------------------------------------------
(* In which order events are sent, as long as nothing disturbs a replay. *)

LEMMA SendersStay ==
    ASSUME NEW h \in Hooks, Stay(h), NEW g \in Hooks, g # h
    PROVE  /\ g \in Replaying <=> g \in Replaying'
           /\ g \in Replaying \/ At(g, "own")' => hook'[g] = hook[g]
BY DEF Stay, Replaying, At

LEMMA WrittenKept ==
    ASSUME PlaceInv, WrittenOrder, CountsOK, BeforeKept, UNCHANGED written, lost \subseteq lost'
    PROVE  WrittenOrder'
<1>1. \A i \in 1..Len(written) : written[i] \in 1..sent
  <2>1. \A i \in 1..Len(written) : written[i] \in ToSet(written)
    BY SetOfSeq DEF CountsOK
  <2> QED BY <2>1, WrittenUsed DEF PlaceInv, Fresh
<1>2. \A i \in 1..Len(written) : before'[written[i]] = before[written[i]]
  BY <1>1 DEF BeforeKept
<1>3. Settled \subseteq Settled'
  BY DEF Settled
<1> QED BY <1>2, <1>3 DEF WrittenOrder

\* What is sent next is new, and what was queued before it is settled.
LEMMA SentStep ==
    ASSUME HookInv, WrittenOrder, NEW x \in Events, written' = Append(written, x),
           x \notin ToSet(written), UNCHANGED <<lost, before>>,
           x \notin lost => before[x] \subseteq Settled
    PROVE  WrittenOrder'
<1> DEFINE L == Len(written) + 1
<1>1. written \in Seq(Events) /\ Len(written) \in Nat
  BY LenProperties DEF HookInv, CountsOK
<1>2. /\ Len(written') = L /\ written'[L] = x
      /\ \A i \in 1..Len(written) : written'[i] = written[i]
  BY <1>1, AppendProperties
<1>3. \A i \in 1..Len(written') : i = L \/ i \in 1..Len(written)
  BY <1>1, <1>2
<1>4. \A i \in 1..Len(written) : written[i] # x /\ written[i] \in ToSet(written) /\ i < L
  BY <1>1, SetOfSeq
<1>5. Settled \subseteq Settled'
  <2>1. ToSet(written') = ToSet(written) \cup {x}
    BY <1>1, SetOfAppend
  <2> QED BY <2>1 DEF Settled
<1> HIDE DEF L
<1>6. \A i, j \in 1..Len(written') : written'[i] = written'[j] => i = j
  BY <1>2, <1>3, <1>4 DEF WrittenOrder
<1>7. \A i \in 1..Len(written') : written'[i] \notin lost => before[written'[i]] \subseteq Settled
  BY <1>2, <1>3 DEF WrittenOrder
<1>8. ASSUME NEW i \in 1..Len(written'), NEW j \in 1..Len(written'), written'[j] \notin lost,
             written'[i] \in before[written'[j]], written'[i] \notin lost
      PROVE  i < j
  <2>1. written'[i] \in ToSet(written)
    BY <1>7, <1>8 DEF Settled
  <2>2. i \in 1..Len(written)
    BY <1>2, <1>3, <2>1
  <2>3. CASE j = L
    BY <1>4, <2>2, <2>3
  <2>4. CASE j \in 1..Len(written)
    BY <1>2, <1>8, <2>2, <2>4 DEF WrittenOrder
  <2> QED BY <1>3, <2>3, <2>4
<1> QED BY <1>5, <1>6, <1>7, <1>8 DEF WrittenOrder

LEMMA OwnKept ==
    ASSUME HookInv, OwnOrder, NEW h \in Hooks, Framed(h),
           hook'[h].step = "own" => before'[hook'[h].e] \subseteq Settled'
    PROVE  \A g \in Hooks : At(g, "own")' => before'[hook'[g].e] \subseteq Settled'
<1> SUFFICES ASSUME NEW g \in Hooks, g # h, At(g, "own")'
             PROVE  before'[hook'[g].e] \subseteq Settled'
  BY DEF At
<1>1. hook'[g] = hook[g] /\ At(g, "own")
  BY SendersStay DEF Framed, At
<1>2. hook[g].e \in 1..sent
  BY <1>1, CarrierAt, CarrierEvent DEF At
<1> QED BY <1>1, <1>2 DEF Framed, BeforeKept, Keeps, OwnOrder

\* A hook that replays still has the events that were queued before its own.
LEMMA ReplayKept ==
    ASSUME HookInv, FilesOK', OwnOrder, NEW h \in Hooks, Framed(h), NEW g \in Replaying,
           hook[g].e # Query, NEW d \in before'[hook[g].e]
    PROVE  \/ d \in Settled'
           \/ \E n \in Names \cap ToSet(hook[g].list) :
                 n \in Names' /\ d \in EventsIn(files'[n].text)
<1>1. g \in Hooks /\ Carrier(g)
  BY DEF Replaying, Carrier, At, NoHook
<1>2. d \in before[hook[g].e]
  BY <1>1, CarrierEvent DEF Framed, BeforeKept
<1>3. CASE d \in Settled
  BY <1>3 DEF Framed, Keeps
<1>4. ASSUME NEW n \in Names \cap ToSet(hook[g].list), d \in EventsIn(files[n].text)
      PROVE  d \in Settled' \/ (n \in Names' /\ d \in EventsIn(files'[n].text))
  <2>1. CASE EventsIn(files[n].text) \subseteq Settled'
    BY <1>4, <2>1
  <2>2. CASE n \in Names' /\ Grown(files[n].text, files'[n].text)
    <3>1. files[n].text \in Seq(Token)
      BY TextTyped DEF HookInv
    <3>2. files'[n].text \in Seq(Token)
      BY <2>2 DEF FilesOK
    <3> QED BY <1>4, <2>2, <3>1, <3>2, GrownEvents
  <2> QED BY <2>1, <2>2 DEF Framed, Keeps
<1> QED BY <1>2, <1>3, <1>4 DEF OwnOrder

\* A step of a hook that does not replay: it writes behind what is listed.
LEMMA AsideStep ==
    ASSUME HookInv, HookInv', PlaceInv, Tidy, NEW h \in Hooks, Framed(h),
           h \notin Replaying, hook'[h].step \notin {"read", "send"},
           hook'[h].step = "own" => before'[hook'[h].e] \subseteq Settled',
           \A n \in Names' \ Names, l \in Listed : l <= n,
           \A x \in ToSet(written') \ ToSet(written) : x \notin Used /\ x \notin Filed',
           WrittenOrder'
    PROVE  Tidy'
<1>1. Replaying' = Replaying /\ \A g \in Replaying : hook'[g] = hook[g]
  <2>1. h \notin Replaying'
    BY DEF Replaying
  <2>2. Replaying \subseteq Hooks /\ Replaying' \subseteq Hooks
    BY DEF Replaying
  <2> QED BY <2>1, <2>2, SendersStay DEF Framed
<1>2. \A g \in Hooks : At(g, "send")' => g \in Replaying /\ At(g, "send") /\ hook'[g] = hook[g]
  <2>1. \A g \in Hooks : At(g, "send")' => g \in Replaying'
    BY DEF At, Replaying
  <2> QED BY <1>1, <2>1 DEF At
<1>3. \A g \in Hooks : At(g, "send") => At(g, "send")' /\ hook'[g] = hook[g]
  <2>1. \A g \in Hooks : At(g, "send") => g \in Replaying
    BY DEF At, Replaying
  <2> QED BY <1>1, <2>1 DEF At
<1>4. ListOK'
  <2>1. ASSUME NEW g \in Replaying, NEW n \in Names' \ Names, n \notin ToSet(hook[g].list),
               NEW m \in ToSet(hook[g].list)
        PROVE  m < n
    <3>1. m <= n
      BY DEF Listed
    <3>2. n \in Nat /\ m \in Nat /\ m # n
      <4>1. hook[g].list \in Seq(Nat)
        BY HookShape DEF HookInv, Replaying
      <4> QED BY <2>1, <4>1, SetOfSeq DEF HookInv, FilesOK
    <3> QED BY <3>1, <3>2
  <2> QED BY <1>1, <2>1 DEF ListOK, Tidy
<1>5. \A g \in Hooks : At(g, "send") => ToSet(hook[g].text) \subseteq Used
  BY DEF Used, Texts
<1>6. \A n \in Names' : \A x \in EventsIn(files'[n].text) : x \in Filed'
  BY DEF Filed
<1>7. Unsent'
  <2>1. ASSUME NEW n \in Names', NEW x \in EventsIn(files'[n].text), x \in ToSet(written')
        PROVE  \E g \in Hooks : At(g, "send")' /\ Head(hook'[g].list) = n
    <3>1. x \in ToSet(written) /\ x \in Used
      BY <1>6, <2>1, WrittenUsed
    <3>2. n \in Names /\ x \in EventsIn(files[n].text)
      BY <3>1 DEF Framed, OldLines
    <3> QED BY <1>3, <3>1, <3>2 DEF Tidy, Unsent
  <2>2. ASSUME NEW g \in Hooks, At(g, "send")'
        PROVE  /\ \A i, j \in 1..Len(hook'[g].text) : hook'[g].text[i] = hook'[g].text[j] => i = j
               /\ ToSet(hook'[g].text) \cap ToSet(written') = {}
               /\ \A n \in Names' : ToSet(hook'[g].text) \cap EventsIn(files'[n].text) # {} =>
                     Head(hook'[g].list) = n
    <3>1. At(g, "send") /\ hook'[g] = hook[g] /\ ToSet(hook[g].text) \subseteq Used
      BY <1>2, <1>5, <2>2
    <3>2. ToSet(hook'[g].text) \cap ToSet(written') = {}
      BY <3>1 DEF Tidy, Unsent
    <3>3. ASSUME NEW n \in Names', NEW x \in ToSet(hook[g].text), x \in EventsIn(files'[n].text)
          PROVE  Head(hook[g].list) = n
      <4>1. n \in Names /\ x \in EventsIn(files[n].text)
        BY <3>1, <3>3 DEF Framed, OldLines
      <4> QED BY <3>1, <3>3, <4>1 DEF Tidy, Unsent
    <3> QED BY <3>1, <3>2, <3>3 DEF Tidy, Unsent
  <2> QED BY <2>1, <2>2 DEF Unsent
<1>8. TextOrder'
  <2> SUFFICES ASSUME NEW g \in Hooks, At(g, "send")', NEW k \in 1..Len(hook'[g].text),
                      hook'[g].text[k] \notin lost', NEW d \in before'[hook'[g].text[k]]
               PROVE  d \in Settled' \/ \E j \in 1..(k - 1) : hook'[g].text[j] = d
    BY DEF TextOrder
  <2>1. At(g, "send") /\ hook'[g] = hook[g] /\ ToSet(hook[g].text) \subseteq Used
    BY <1>2, <1>5
  <2>2. hook[g].text[k] \in 1..sent
    <3>1. hook[g].text \in Seq(Events)
      BY <2>1, HookShape DEF HookInv
    <3>2. hook[g].text[k] \in ToSet(hook[g].text)
      BY <2>1, <3>1, SetOfSeq
    <3> QED BY <2>1, <3>2 DEF PlaceInv, Fresh
  <2>3. d \in before[hook[g].text[k]] /\ hook[g].text[k] \notin lost
    BY <2>1, <2>2 DEF Framed, BeforeKept, Keeps
  <2> QED BY <2>1, <2>3 DEF Tidy, TextOrder, Framed, Keeps
<1>9. OwnOrder'
  <2>1. \A g \in Hooks : At(g, "own")' => before'[hook'[g].e] \subseteq Settled'
    BY OwnKept DEF Tidy
  <2>2. ASSUME NEW g \in Replaying', hook'[g].e # Query, NEW d \in before'[hook'[g].e]
        PROVE  d \in Settled' \/ \E n \in Names' \cap ToSet(hook'[g].list) :
                                    d \in EventsIn(files'[n].text)
    <3>1. g \in Replaying /\ hook'[g] = hook[g]
      BY <1>1, <2>2
    <3>2. \/ d \in Settled'
          \/ \E n \in Names \cap ToSet(hook[g].list) :
                n \in Names' /\ d \in EventsIn(files'[n].text)
      BY <2>2, <3>1, ReplayKept DEF Tidy, HookInv
    <3> QED BY <3>1, <3>2
  <2> QED BY <2>1, <2>2 DEF OwnOrder
<1> QED BY <1>4, <1>7, <1>8, <1>9 DEF Tidy

LEMMA AsideSame ==
    ASSUME HookInv, HookInv', PlaceInv, Tidy, NEW h \in Hooks, Framed(h), UNCHANGED written,
           hook[h].step \notin {"read", "send"}, hook'[h].step \notin {"read", "send", "own"},
           \A n \in Names' \ Names, l \in Listed : l <= n
    PROVE  Tidy'
<1>1. h \notin Replaying
  BY DEF Replaying
<1>2. WrittenOrder'
  BY WrittenKept DEF Framed, Keeps, Tidy, HookInv
<1> QED BY <1>1, <1>2, AsideStep

LEMMA EnqueueTidy ==
    ASSUME HookInv, HookInv', PlaceInv, Opened, Tidy, ~disturbed', NEW h \in Hooks,
           \/ \E now \in clock..MaxClock :
                MakeRoom(h, now) \/ MakeRoomFails(h, now) \/ FindOrCreateTarget(h, now)
           \/ OpenTarget(h) \/ WriteLine(h) \/ WriteEnd(h) \/ CutLine(h)
    PROVE  Tidy'
<1>1. ASSUME NEW now, MakeRoom(h, now) \/ MakeRoomFails(h, now) PROVE Tidy'
  <2>1. Framed(h) /\ Names' \subseteq Names /\ hook'[h].step \in {"target", "idle"}
    BY <1>1, MakeRoomPlaces
  <2>2. hook[h].step = "room" /\ UNCHANGED written
    BY <1>1, RoomMade DEF At
  <2> QED BY <2>1, <2>2, AsideSame
<1>2. ASSUME NEW now, FindOrCreateTarget(h, now) PROVE Tidy'
  <2>1. Framed(h)
    BY <1>2, FindPlaces
  <2>2. hook[h].step = "target" /\ UNCHANGED written /\ Names' = Names
    BY <1>2 DEF FindOrCreateTarget, At, history, Names
  <2>3. PICK n : Do(h, [step |-> "open", e |-> hook[h].e, file |-> n])
    BY <1>2 DEF FindOrCreateTarget
  <2>4. hook'[h].step = "open"
    BY <2>3, DoneStays DEF HookInv
  <2> QED BY <2>1, <2>2, <2>4, AsideSame
<1>3. CASE OpenTarget(h)
  <2>1. Framed(h)
    BY <1>3, OpenPlaces
  <2>2. hook[h].step = "open" /\ UNCHANGED written /\ Do(h, [hook[h] EXCEPT !.step = "line"])
    BY <1>3 DEF OpenTarget, At, history
  <2>3. hook'[h].step = "line"
    <3> DEFINE x == hook[h]
    <3>1. x \in HookState /\ x.step = "open"
      BY <2>2, HookShape DEF HookInv
    <3>2. hook'[h] = [x EXCEPT !.step = "line"]
      BY <2>2, DoneStays DEF HookInv
    <3> HIDE DEF x
    <3>3. x \in [step: {"open"}, e: Events, file: Nat]
      BY <3>1 DEF HookState, NoHook
    <3> QED BY <3>2, <3>3
  <2>4. ASSUME NEW n \in Names' \ Names, NEW l \in Listed PROVE l <= n
    <3>1. n = hook[h].file /\ hook[h].file \notin Names
      BY <1>3, <2>4 DEF OpenTarget, Put, Names
    <3>2. ~(hook[h].file < l)
      <4>1. disturbed' = (disturbed \/ \E m \in Listed : hook[h].file < m)
        BY <1>3, <3>1 DEF OpenTarget
      <4> QED BY <4>1
    <3>3. n \in Nat /\ l \in Nat
      <4>1. PICK g \in Replaying : l \in ToSet(hook[g].list)
        BY DEF Listed
      <4>2. hook[g].list \in Seq(Nat)
        BY HookShape DEF HookInv, Replaying
      <4> QED BY <2>2, <3>1, <4>1, <4>2, SetOfSeq, HookShape DEF HookInv, At
    <3> QED BY <3>1, <3>2, <3>3
  <2> QED BY <2>1, <2>2, <2>3, <2>4, AsideSame
<1>4. ASSUME NEW t, hook[h].step \in {"line", "end"}, AppendTo(h, t) PROVE Names' = Names
  BY <1>4 DEF AppendTo, Put, Names, Opened
<1>5. CASE WriteLine(h)
  <2>1. Framed(h)
    BY <1>5, WriteLinePlaces
  <2>2. /\ hook[h].step = "line" /\ UNCHANGED written /\ AppendTo(h, hook[h].e)
        /\ Do(h, [hook[h] EXCEPT !.step = "end"])
    BY <1>5 DEF WriteLine, At
  <2>3. hook'[h].step = "end"
    <3> DEFINE x == hook[h]
    <3>1. x \in HookState /\ x.step = "line"
      BY <2>2, HookShape DEF HookInv
    <3>2. hook'[h] = [x EXCEPT !.step = "end"]
      BY <2>2, DoneStays DEF HookInv
    <3> HIDE DEF x
    <3>3. x \in [step: {"line", "end"}, e: Events, file: Nat \cup {Gone}]
      BY <3>1 DEF HookState, NoHook
    <3> QED BY <3>2, <3>3
  <2>4. Names' = Names
    BY <1>4, <2>2
  <2> QED BY <2>1, <2>2, <2>3, <2>4, AsideSame
<1>6. CASE WriteEnd(h) \/ CutLine(h)
  <2>1. Framed(h)
    BY <1>6, WriteEndPlaces, CutLinePlaces
  <2>2. /\ hook[h].step \in {"line", "end"} /\ UNCHANGED written /\ Do(h, NoHook)
        /\ \E t : AppendTo(h, t)
    BY <1>6 DEF WriteEnd, CutLine, At
  <2>3. hook'[h].step = "idle"
    BY <2>2, DoneStays DEF HookInv, NoHook
  <2>4. Names' = Names
    BY <1>4, <2>2
  <2> QED BY <2>1, <2>2, <2>3, <2>4, AsideSame
<1> QED BY <1>1, <1>2, <1>3, <1>5, <1>6

\* A hook that stops; a replay that is cut short disturbs the order.
LEMMA EndTidy ==
    ASSUME HookInv, HookInv', PlaceInv, Tidy, ~disturbed', NEW h \in Hooks,
           EnqueueFails(h) \/ SendOwnFails(h) \/ Kill(h)
    PROVE  Tidy'
<1>1. Do(h, NoHook) /\ UNCHANGED <<files, clock, sent, history>>
  BY DEF EnqueueFails, SendOwnFails, Kill
<1>2. Framed(h) /\ hook'[h] = NoHook
  BY <1>1, EndPlaces
<1>3. hook[h].step \notin {"read", "send"}
  BY DEF EnqueueFails, SendOwnFails, Kill, At, Replaying
<1>4. UNCHANGED written /\ Names' = Names /\ hook'[h].step = "idle"
  BY <1>1, <1>2 DEF history, Names, NoHook
<1> QED BY <1>2, <1>3, <1>4, AsideSame

LEMMA OwnTidy ==
    ASSUME HookInv, HookInv', PlaceInv, Tidy, NEW h \in Hooks, SendOwn(h)
    PROVE  Tidy'
<1>1. /\ At(h, "own") /\ written' = Append(written, hook[h].e)
      /\ UNCHANGED <<files, lost, before>>
  BY DEF SendOwn, FireAndForget
<1>2. Framed(h) /\ hook'[h] = NoHook /\ Fresh /\ Fresh'
  BY OwnPlaces DEF PlaceInv
<1>3. hook[h].e \in Events /\ hook[h].e \notin Used
  BY <1>1, <1>2, CarrierAt DEF Fresh, At
<1>4. before[hook[h].e] \subseteq Settled
  BY <1>1 DEF Tidy, OwnOrder
<1>5. WrittenOrder'
  BY <1>1, <1>3, <1>4, WrittenUsed, SentStep DEF Tidy
<1>6. written \in Seq(Events)
  BY DEF HookInv, CountsOK
<1>7. ToSet(written') = ToSet(written) \cup {hook[h].e}
  BY <1>1, <1>3, <1>6, SetOfAppend
<1>8. Names' = Names /\ Filed' = Filed
  BY <1>1 DEF Names, Filed
<1>9. h \notin Replaying /\ hook'[h].step = "idle"
  BY <1>1, <1>2 DEF Replaying, At, NoHook
<1>10. \A x \in ToSet(written') \ ToSet(written) : x \notin Used /\ x \notin Filed'
  BY <1>3, <1>7, <1>8 DEF Used
<1> QED BY <1>2, <1>5, <1>8, <1>9, <1>10, AsideStep

\* A hook begins: a replay lists all files, unless there are none.
LEMMA StartTidy ==
    ASSUME HookInv, HookInv', PlaceInv, Tidy, ~disturbed', NEW h \in Hooks,
           BeginEvent(h) \/ BeginQuery(h)
    PROVE  Tidy'
<1>1. Framed(h)
  BY BeginPlaces
<1>2. hook[h] = NoHook /\ hook[h].step = "idle" /\ UNCHANGED <<files, written, queued, lost>>
  BY DEF BeginEvent, BeginQuery, history, NoHook
<1>3. PICK e : /\ StartReplay(h, e) \/ StartOffline(h, e)
               /\ e # Query => before'[e] = queued
  <2>1. CASE BeginEvent(h)
    <3>1. before \in [Events -> SUBSET queued] /\ sent + 1 \in Events
      BY <2>1, Numbers, HookQueueAssumption DEF PlaceInv, Fresh, BeginEvent, Events
    <3>2. before'[sent + 1] = queued
      BY <2>1, <3>1 DEF BeginEvent
    <3> QED BY <2>1, <3>2 DEF BeginEvent
  <2>2. CASE BeginQuery(h)
    BY <2>2 DEF BeginQuery
  <2> QED BY <2>1, <2>2
<1>4. Names' = Names /\ Filed' = Filed /\ Settled' = Settled
  BY <1>2 DEF Names, Filed, Settled
<1>5. WrittenOrder'
  BY <1>1, <1>2, WrittenKept DEF Framed, Keeps, Tidy, HookInv
<1>6. h \notin Replaying
  BY <1>2 DEF Replaying
<1>7. CASE StartOffline(h, e)
  <2>1. Do(h, [step |-> "room", e |-> e]) \/ Do(h, NoHook)
    BY <1>7 DEF StartOffline
  <2>2. hook'[h].step \in {"room", "idle"}
    <3>1. hook'[h] = [step |-> "room", e |-> e] \/ hook'[h] = NoHook
      BY <2>1, DoneStays DEF HookInv
    <3> QED BY <3>1 DEF NoHook
  <2> QED BY <1>1, <1>2, <1>4, <2>2, AsideSame
<1>8. ASSUME StartReplay(h, e), NEW d, e # Query, d \in queued
      PROVE  d \in Settled \/ \E n \in Names : d \in EventsIn(files[n].text)
  <2>1. d \in Safe
    BY <1>8 DEF HookInv, QueueSafe
  <2>2. CASE d \in InFiles
    <3>1. PICK n \in Names : d \in ToSet(Readable(files[n].text))
      BY <2>2 DEF InFiles
    <3>2. files[n].text \in Seq(Token)
      BY TextTyped DEF HookInv
    <3>3. d \in EventsIn(files[n].text)
      BY <3>1, <3>2, EventsOfText
    <3> QED BY <3>3
  <2> QED BY <2>1, <2>2 DEF Safe, Settled
<1>9. CASE StartReplay(h, e) /\ Names = {}
  <2>1. Do(h, NextFile(e, Sorted(Names)))
    BY <1>9 DEF StartReplay
  <2>2. Sorted(Names) = <<>>
    BY <1>9, ListSorted
  <2>3. \/ hook'[h] = NoHook
        \/ e # Query /\ hook'[h] = [step |-> "own", e |-> e]
    BY <2>1, <2>2, DoneStays DEF HookInv, NextFile
  <2>4. hook'[h].step = "own" => before'[hook'[h].e] \subseteq Settled'
    BY <1>3, <1>4, <1>8, <1>9, <2>3 DEF NoHook
  <2>5. hook'[h].step \notin {"read", "send"}
    BY <2>3 DEF NoHook
  <2> QED BY <1>1, <1>2, <1>4, <1>5, <1>6, <2>4, <2>5, AsideStep
<1>10. CASE StartReplay(h, e) /\ Names # {}
  <2> DEFINE list == Sorted(Names)
             new == [step |-> "read", e |-> e, list |-> list]
  <2>1. Do(h, NextFile(e, list)) /\ disturbed' = (disturbed \/ (Names # {} /\ Replaying # {}))
    BY <1>10 DEF StartReplay
  <2>2. /\ ToSet(list) = Names /\ list # <<>>
        /\ \A i, j \in 1..Len(list) : i < j => list[i] < list[j]
    BY <1>10, ListSorted
  <2>3. Replaying = {}
    BY <1>10, <2>1
  <2> HIDE DEF list
  <2>4. hook'[h] = new
    BY <2>1, <2>2, DoneStays DEF HookInv, NextFile
  <2>5. new.step = "read" /\ new.e = e /\ new.list = list
    OBVIOUS
  <2> HIDE DEF new
  <2>6. Replaying' = {h}
    <3>1. h \in Replaying' /\ Replaying' \subseteq Hooks
      BY <2>4, <2>5 DEF Replaying
    <3>2. \A g \in Hooks : g # h => g \notin Replaying'
      BY <1>1, <2>3, SendersStay DEF Framed
    <3> QED BY <3>1, <3>2
  <2>7. ListOK'
    BY <1>4, <2>2, <2>4, <2>5, <2>6 DEF ListOK
  <2>8. \A g \in Hooks : ~At(g, "send") /\ ~At(g, "send")'
    <3>1. \A g \in Hooks : At(g, "send")' => g \in Replaying'
      BY DEF At, Replaying
    <3>2. \A g \in Hooks : At(g, "send") => g \in Replaying
      BY DEF At, Replaying
    <3> QED BY <2>3, <2>4, <2>5, <2>6, <3>1, <3>2 DEF At
  <2>9. Unsent'
    BY <1>2, <1>4, <2>8 DEF Unsent, Tidy
  <2>10. TextOrder'
    BY <2>8 DEF TextOrder
  <2>11. OwnOrder'
    <3>1. \A g \in Hooks : At(g, "own")' => before'[hook'[g].e] \subseteq Settled'
      BY <1>1, <2>4, <2>5, OwnKept DEF Tidy
    <3>2. ASSUME hook'[h].e # Query, NEW d \in before'[hook'[h].e]
          PROVE  d \in Settled' \/ \E n \in Names' \cap ToSet(hook'[h].list) :
                                      d \in EventsIn(files'[n].text)
      <4>1. e # Query /\ d \in queued
        BY <1>3, <2>4, <2>5, <3>2
      <4> QED BY <1>2, <1>4, <1>8, <1>10, <2>2, <2>4, <2>5, <4>1
    <3> QED BY <2>6, <3>1, <3>2 DEF OwnOrder
  <2> QED BY <1>5, <2>7, <2>9, <2>10, <2>11 DEF Tidy
<1> QED BY <1>3, <1>7, <1>9, <1>10

\* The lines are read in the order of the text.
LEMMA ReadableAt ==
    ASSUME NEW text \in Seq(Token)
    PROVE  \E p : \A k \in 1..Len(Readable(text)) :
               /\ p[k] \in 1..Len(text) /\ Readable(text)[k] = text[p[k]]
               /\ \A j \in 1..Len(Readable(text)) : j < k => p[j] < p[k]
<1> DEFINE G == GoodLines(text)
           good == Ascending(G)
<1>1. G \in SUBSET Nat /\ IsFiniteSet(G) /\ \A i \in G : i \in 1..Len(text) /\ text[i] \in Events
  BY GoodLinesShape
<1>2. Readable(text) = [k \in 1..Len(good) |-> text[good[k]]]
  BY DEF Readable, GoodLines
<1> HIDE DEF G
<1>3. /\ good \in Seq(G) /\ Len(good) = Cardinality(G) /\ Cardinality(G) \in Nat
      /\ \A i, j \in 1..Cardinality(G) : i < j => good[i] < good[j]
  BY <1>1, AscendingIs
<1> HIDE DEF good
<1>4. \A k \in 1..Len(good) : good[k] \in G
  BY <1>3, ElementOfSeq
<1>5. Readable(text) \in [1..Len(good) -> Events]
  BY <1>1, <1>2, <1>4
<1>6. Len(Readable(text)) = Len(good)
  BY <1>3, <1>5
<1>7. \A k \in 1..Len(Readable(text)) :
          /\ good[k] \in 1..Len(text) /\ Readable(text)[k] = text[good[k]]
          /\ \A j \in 1..Len(Readable(text)) : j < k => good[j] < good[k]
  BY <1>1, <1>2, <1>3, <1>4, <1>6
<1> QED BY <1>7

\* A replay reads its first file, which nobody has sent from yet.
LEMMA ReadTidy ==
    ASSUME HookInv, HookInv', PlaceInv, Tidy, ~disturbed', NEW h \in Hooks, ReadFile(h)
    PROVE  Tidy'
<1> DEFINE n == Head(hook[h].list)
           text == files[n].text
           list == hook[h].list
           good == Readable(text)
           new == [step |-> "send", e |-> hook[h].e, list |-> list,
                   text |-> good, read |-> EventsIn(text)]
<1>1. /\ At(h, "read") /\ UNCHANGED <<files, clock, sent, history>>
      /\ n \in Names /\ Do(h, new)
  BY DEF ReadFile, EndReplay
<1>2. UNCHANGED <<written, lost, queued, before, files>> /\ Names' = Names /\ Settled' = Settled
  BY <1>1 DEF history, Names, Settled
<1>3. Framed(h) /\ hook'[h] = new
  BY <1>1, ReadPlaces, DoneStays DEF HookInv
<1>4. new.step = "send" /\ new.e = hook[h].e /\ new.list = list /\ new.text = good
  OBVIOUS
<1>5. list \in Seq(Nat) /\ list # <<>>
  BY <1>1, HookShape DEF HookInv, HooksOK, At
<1>6. 1 \in 1..Len(list) /\ n = list[1] /\ Len(list) \in Nat
  <2> HIDE DEF list
  <2>1. Len(list) \in Nat /\ (Len(list) = 0 <=> list = <<>>)
    BY <1>5, EmptySeq
  <2> QED BY <1>5, <2>1, HeadTailProperties DEF list
<1>7. Replaying = {h} /\ Replaying' = {h}
  <2>1. h \in Replaying /\ h \in Replaying'
    BY <1>1, <1>3, <1>4 DEF Replaying, At
  <2>2. Replaying = {h} /\ Replaying' \subseteq Hooks
    BY <2>1 DEF Tidy, ListOK, Replaying
  <2> QED BY <1>3, <2>1, <2>2, SendersStay DEF Framed
<1>8. \A g \in Hooks : ~At(g, "send") /\ (At(g, "send")' => g = h)
  <2>1. \A g \in Hooks : (At(g, "send") => g \in Replaying) /\ (At(g, "send")' => g \in Replaying')
    BY DEF At, Replaying
  <2> QED BY <1>1, <1>7, <2>1 DEF At
<1>9. \A m \in Names : EventsIn(files[m].text) \cap ToSet(written) = {}
  BY <1>8 DEF Tidy, Unsent
<1>10. text \in Seq(Token) /\ Len(text) \in Nat
  BY <1>1, TextTyped DEF HookInv
<1>11. \A i, j \in 1..Len(text) : text[i] = text[j] /\ text[i] \in Events => i = j
  BY <1>1 DEF PlaceInv, WrittenOnce
<1>12. \A m \in Names : m # n => EventsIn(files[m].text) \cap EventsIn(text) = {}
  BY <1>1 DEF PlaceInv, WrittenOnce
<1>13. \A i \in 1..Len(text) : text[i] \in Events \ lost =>
          \A d \in before[text[i]] : AheadOf(d, n, i)
  BY <1>1 DEF PlaceInv, FileOrder
<1>14. ASSUME NEW m \in Names PROVE ~(m < n)
  <2>1. m \in Nat /\ n \in Nat
    BY <1>1 DEF HookInv, FilesOK
  <2>2. CASE m \in ToSet(list)
    <3>1. PICK i \in 1..Len(list) : list[i] = m
      BY <1>5, <2>2, SetOfSeq
    <3>2. i # 1 => list[1] < list[i]
      BY <1>1, <1>6, <3>1 DEF Tidy, ListOK, Replaying, At
    <3> QED BY <1>6, <2>1, <3>1, <3>2
  <2>3. CASE \A l \in ToSet(list) : l < m
    <3>1. n \in ToSet(list)
      BY <1>5, <1>6, SetOfSeq
    <3> QED BY <2>1, <2>3, <3>1
  <2> QED BY <1>1, <2>2, <2>3 DEF Tidy, ListOK, Replaying, At
<1>15. Glued(text) \subseteq lost
  BY <1>1, Numbers DEF GluedLost
<1>16. \A i \in 1..Len(text) : \A d :
          AheadOf(d, n, i) => d \in Settled \/ \E j \in 1..(i - 1) : text[j] = d
  BY <1>14 DEF AheadOf
<1>17. before \in [Events -> SUBSET queued] /\ queued \subseteq Events
  BY DEF PlaceInv, Fresh, HookInv, CountsOK
<1> HIDE DEF text, n, list
<1>18. PICK p : \A k \in 1..Len(good) :
                   /\ p[k] \in 1..Len(text) /\ good[k] = text[p[k]]
                   /\ \A j \in 1..Len(good) : j < k => p[j] < p[k]
  BY <1>10, ReadableAt
<1>19. /\ good \in Seq(Events) /\ Len(good) \in Nat /\ ToSet(good) \subseteq EventsIn(text)
       /\ EventsIn(text) = ToSet(good) \cup Glued(text)
       /\ \A x : x \in ToSet(good) <=> \E k \in 1..Len(good) : good[k] = x
  BY <1>10, ReadableIs, EventsOfText, SetOfSeq, LenProperties
<1> HIDE DEF good, new
<1>20. \A k \in 1..Len(good) : good[k] \in Events
  BY <1>19, ElementOfSeq
<1>21. ListOK'
  BY <1>2, <1>3, <1>4, <1>7 DEF Tidy, ListOK, list
<1>22. Unsent'
  <2>1. \A i, j \in 1..Len(good) : good[i] = good[j] => i = j
    <3> SUFFICES ASSUME NEW i \in 1..Len(good), NEW j \in 1..Len(good), good[i] = good[j], i < j
                 PROVE  FALSE
      BY <1>19
    <3>1. p[i] \in 1..Len(text) /\ p[j] \in 1..Len(text) /\ p[i] < p[j] /\ text[p[i]] = text[p[j]]
          /\ text[p[i]] \in Events
      BY <1>18, <1>20
    <3>2. p[i] = p[j]
      BY <1>11, <3>1
    <3> QED BY <1>10, <3>1, <3>2
  <2>2. ToSet(good) \cap ToSet(written) = {}
    BY <1>1, <1>9, <1>19 DEF text
  <2>3. \A m \in Names : ToSet(good) \cap EventsIn(files[m].text) # {} => n = m
    BY <1>12, <1>19
  <2> QED BY <1>2, <1>3, <1>4, <1>8, <1>9, <2>1, <2>2, <2>3 DEF Unsent, list, n
<1>23. TextOrder'
  <2> SUFFICES ASSUME NEW k \in 1..Len(good), good[k] \notin lost, NEW d \in before[good[k]]
               PROVE  d \in Settled \/ \E j \in 1..(k - 1) : good[j] = d
    BY <1>2, <1>3, <1>4, <1>8 DEF TextOrder
  <2>1. p[k] \in 1..Len(text) /\ good[k] = text[p[k]] /\ good[k] \in Events
    BY <1>18, <1>20
  <2>2. AheadOf(d, n, p[k])
    BY <1>13, <2>1
  <2>3. ASSUME NEW j \in 1..(p[k] - 1), text[j] = d PROVE d \in Settled \/ \E i \in 1..(k - 1) : good[i] = d
    <3>1. j \in 1..Len(text) /\ d \in Events
      BY <1>10, <1>17, <2>1
    <3>2. d \in EventsIn(text)
      BY <1>10, <2>3, <3>1, EventAt
    <3>3. CASE d \in Glued(text)
      BY <1>15, <3>3 DEF Settled
    <3>4. CASE d \in ToSet(good)
      <4>1. PICK i \in 1..Len(good) : good[i] = d
        BY <1>19, <3>4
      <4>2. p[i] \in 1..Len(text) /\ text[p[i]] = text[j] /\ text[p[i]] \in Events
        BY <1>18, <1>20, <2>3, <4>1
      <4>3. p[i] = j
        BY <1>11, <3>1, <4>2
      <4>4. ~(k < i) /\ k # i
        BY <1>10, <1>18, <2>1, <4>2, <4>3
      <4>5. i \in 1..(k - 1)
        BY <1>19, <4>4
      <4> QED BY <4>1, <4>5
    <3> QED BY <1>19, <3>2, <3>3, <3>4
  <2> QED BY <1>16, <2>1, <2>2, <2>3
<1>24. OwnOrder'
  <2>1. \A g \in Hooks : At(g, "own")' => before'[hook'[g].e] \subseteq Settled'
    BY <1>3, <1>4, OwnKept DEF Tidy
  <2> QED BY <1>2, <1>3, <1>4, <1>7, <2>1 DEF OwnOrder, Tidy, list
<1>25. WrittenOrder'
  BY <1>2, <1>3, WrittenKept DEF Framed, Keeps, Tidy, HookInv
<1> QED BY <1>21, <1>22, <1>23, <1>24, <1>25 DEF Tidy

\* The next line is sent, or skipped.
LEMMA SendTidy ==
    ASSUME HookInv, HookInv', PlaceInv, Tidy, NEW h \in Hooks, SendLine(h) \/ SendLineFails(h)
    PROVE  Tidy'
<1> DEFINE text == hook[h].text
           rest == Tail(text)
           x == Head(text)
           new == [hook[h] EXCEPT !.text = Tail(@)]
<1>1. /\ At(h, "send") /\ text # <<>> /\ Do(h, new)
      /\ UNCHANGED <<files, before, queued>>
      /\ \/ written' = Append(written, x) /\ UNCHANGED lost
         \/ lost' = lost \cup {x} /\ UNCHANGED written
  BY DEF SendLine, SendLineFails, FireAndForget
<1>2. /\ new.step = "send" /\ new.e = hook[h].e /\ new.list = hook[h].list /\ new.text = rest
      /\ x \in Events /\ rest \in Seq(Events) /\ ToSet(text) = {x} \cup ToSet(rest)
  BY <1>1, SentLine DEF HookInv
<1> HIDE DEF new
<1>3. Framed(h) /\ hook'[h] = new
  BY <1>1, SendPlaces, DoneStays DEF HookInv
<1>4. Replaying = {h} /\ Replaying' = {h}
  <2>1. h \in Replaying /\ h \in Replaying'
    BY <1>1, <1>2, <1>3 DEF Replaying, At
  <2>2. Replaying = {h} /\ Replaying' \subseteq Hooks
    BY <2>1 DEF Tidy, ListOK, Replaying
  <2> QED BY <1>3, <2>1, <2>2, SendersStay DEF Framed
<1>5. \A g \in Hooks : (At(g, "send") => g = h) /\ (At(g, "send")' => g = h)
  <2>1. \A g \in Hooks : (At(g, "send") => g \in Replaying) /\ (At(g, "send")' => g \in Replaying')
    BY DEF At, Replaying
  <2> QED BY <1>4, <2>1
<1>6. text \in Seq(Events)
  BY <1>1, HookShape DEF HookInv
<1>7. /\ \A i, j \in 1..Len(text) : text[i] = text[j] => i = j
      /\ ToSet(text) \cap ToSet(written) = {}
      /\ \A n \in Names : ToSet(text) \cap EventsIn(files[n].text) # {} => Head(hook[h].list) = n
  BY <1>1 DEF Tidy, Unsent
<1>8. \A k \in 1..Len(text) : text[k] \notin lost =>
         \A d \in before[text[k]] : d \in Settled \/ \E j \in 1..(k - 1) : text[j] = d
  BY <1>1 DEF Tidy, TextOrder
<1> HIDE DEF text
<1>9. /\ Len(text) \in Nat /\ Len(text) >= 1 /\ x = text[1] /\ Len(rest) = Len(text) - 1
      /\ \A i \in 1..Len(rest) : rest[i] = text[i + 1]
  <2>1. Len(text) \in Nat /\ (Len(text) = 0 <=> text = <<>>)
    BY <1>6, EmptySeq
  <2> QED BY <1>1, <1>6, <2>1, HeadTailProperties
<1> HIDE DEF rest, x
<1>10. \A y : y \in ToSet(rest) <=> \E i \in 1..Len(rest) : rest[i] = y
  BY <1>2, SetOfSeq
<1>11. x \notin ToSet(rest)
  <2> SUFFICES ASSUME NEW i \in 1..Len(rest), rest[i] = x PROVE FALSE
    BY <1>10
  <2>1. i + 1 \in 1..Len(text) /\ 1 \in 1..Len(text) /\ text[i + 1] = text[1]
    BY <1>9
  <2>2. i + 1 = 1
    BY <1>7, <2>1
  <2> QED BY <1>9, <2>2
<1>12. /\ ToSet(Append(written, x)) = ToSet(written) \cup {x}
       /\ x \notin ToSet(written) /\ ToSet(written) \subseteq ToSet(written')
       /\ ToSet(written') \subseteq ToSet(written) \cup {x}
  <2>1. written \in Seq(Events)
    BY DEF HookInv, CountsOK
  <2>2. ToSet(Append(written, x)) = ToSet(written) \cup {x}
    BY <1>2, <2>1, SetOfAppend
  <2> QED BY <1>1, <1>2, <1>7, <2>2
<1>13. Settled \subseteq Settled' /\ lost \subseteq lost' /\ x \in Settled'
  BY <1>1, <1>12 DEF Settled
<1>14. Names' = Names /\ UNCHANGED files
  BY <1>1 DEF Names
<1>15. ListOK'
  BY <1>2, <1>3, <1>4, <1>14 DEF Tidy, ListOK
<1>16. Unsent'
  <2>1. ASSUME NEW n \in Names, NEW y \in EventsIn(files[n].text), y \in ToSet(written')
        PROVE  At(h, "send")' /\ Head(hook'[h].list) = n
    <3>1. At(h, "send")' /\ hook'[h].list = hook[h].list
      BY <1>2, <1>3 DEF At
    <3>2. CASE y = x
      BY <1>2, <1>7, <2>1, <3>1, <3>2
    <3>3. CASE y \in ToSet(written)
      BY <1>5, <2>1, <3>1, <3>3 DEF Tidy, Unsent
    <3> QED BY <1>12, <2>1, <3>2, <3>3
  <2>2. ASSUME NEW i \in 1..Len(rest), NEW j \in 1..Len(rest), rest[i] = rest[j] PROVE i = j
    <3>1. i + 1 \in 1..Len(text) /\ j + 1 \in 1..Len(text) /\ text[i + 1] = text[j + 1]
      BY <1>9, <2>2
    <3>2. i + 1 = j + 1
      BY <1>7, <3>1
    <3> QED BY <1>9, <3>2
  <2>3. ToSet(rest) \cap ToSet(written') = {}
    BY <1>2, <1>7, <1>11, <1>12
  <2>4. \A n \in Names : ToSet(rest) \cap EventsIn(files[n].text) # {} => Head(hook[h].list) = n
    BY <1>2, <1>7
  <2> QED BY <1>2, <1>3, <1>5, <1>14, <2>1, <2>2, <2>3, <2>4 DEF Unsent
<1>17. TextOrder'
  <2> SUFFICES ASSUME NEW k \in 1..Len(rest), rest[k] \notin lost', NEW d \in before[rest[k]]
               PROVE  d \in Settled' \/ \E j \in 1..(k - 1) : rest[j] = d
    BY <1>1, <1>2, <1>3, <1>5 DEF TextOrder
  <2>1. k + 1 \in 1..Len(text) /\ text[k + 1] = rest[k] /\ rest[k] \notin lost
    BY <1>9, <1>13
  <2>2. d \in Settled \/ \E j \in 1..((k + 1) - 1) : text[j] = d
    BY <1>8, <2>1
  <2>3. ASSUME NEW j \in 1..((k + 1) - 1), text[j] = d
        PROVE  d \in Settled' \/ \E i \in 1..(k - 1) : rest[i] = d
    <3>1. CASE j = 1
      BY <1>9, <1>13, <2>3, <3>1
    <3>2. CASE j # 1
      <4>1. j - 1 \in 1..(k - 1) /\ j - 1 \in 1..Len(rest) /\ (j - 1) + 1 = j
        BY <1>9, <2>3, <3>2
      <4>2. rest[j - 1] = d
        BY <1>9, <2>3, <4>1
      <4> QED BY <4>1, <4>2
    <3> QED BY <3>1, <3>2
  <2> QED BY <1>13, <2>2, <2>3
<1>18. OwnOrder'
  <2>1. \A g \in Hooks : At(g, "own")' => before'[hook'[g].e] \subseteq Settled'
    BY <1>2, <1>3, OwnKept DEF Tidy
  <2>2. \A d : hook[h].e # Query /\ d \in before[hook[h].e] =>
           d \in Settled \/ \E n \in Names \cap ToSet(hook[h].list) : d \in EventsIn(files[n].text)
    BY <1>4 DEF OwnOrder, Tidy
  <2> QED BY <1>1, <1>2, <1>3, <1>4, <1>13, <1>14, <2>1, <2>2 DEF OwnOrder
<1>19. WrittenOrder'
  <2>1. CASE UNCHANGED written
    BY <1>3, <1>13, <2>1, WrittenKept DEF Framed, Tidy, HookInv
  <2>2. CASE written' = Append(written, x) /\ UNCHANGED lost
    <3>1. x \notin lost => before[x] \subseteq Settled
      <4>1. 1 \in 1..Len(text)
        BY <1>9
      <4>2. 1..(1 - 1) = {}
        OBVIOUS
      <4> QED BY <1>8, <1>9, <4>1, <4>2
    <3> QED BY <1>1, <1>2, <1>12, <2>2, <3>1, SentStep DEF Tidy
  <2> QED BY <1>1, <2>1, <2>2
<1> QED BY <1>15, <1>16, <1>17, <1>18, <1>19 DEF Tidy

\* A file goes, and with it the events that were sent from it.
LEMMA RemoveTidy ==
    ASSUME HookInv, HookInv', PlaceInv, Tidy, ~disturbed', NEW h \in Hooks, RemoveReplayed(h)
    PROVE  Tidy'
<1> DEFINE list == hook[h].list
           rest == Tail(list)
           n == Head(list)
           new == NextFile(hook[h].e, rest)
<1>1. /\ At(h, "send") /\ UNCHANGED <<written, queued, before>>
      /\ n \in Names /\ Unlink({n})
      /\ hook' = WithoutFiles({n}, [hook EXCEPT ![h] = new])
  BY DEF RemoveReplayed, EndReplay
<1>2. list \in Seq(Nat) /\ list # <<>>
  BY <1>1, HookShape DEF HookInv, HooksOK, At
<1>3. Framed(h) /\ hook'[h] = new
  <2>1. hook[h].step \notin {"line", "end"}
    BY <1>1 DEF At
  <2> QED BY <1>1, <2>1, RemovePlaces, UnlinksStays DEF HookInv
<1>4. Names' = Names \ {n}
  BY <1>1 DEF Unlink, Names
<1>5. \/ rest # <<>> /\ new.step = "read" /\ new.e = hook[h].e /\ new.list = rest
      \/ rest = <<>> /\ new = NoHook /\ new.step = "idle"
      \/ rest = <<>> /\ new.step = "own" /\ new.e = hook[h].e /\ hook[h].e # Query
  BY DEF NextFile, NoHook
<1>6. /\ \A i, j \in 1..Len(list) : i < j => list[i] < list[j]
      /\ \A m \in Names : m \in ToSet(list) \/ \A l \in ToSet(list) : l < m
      /\ \A d : hook[h].e # Query /\ d \in before'[hook[h].e] =>
           \/ d \in Settled'
           \/ \E m \in Names \cap ToSet(list) : m \in Names' /\ d \in EventsIn(files'[m].text)
  <2>1. h \in Replaying
    BY <1>1 DEF Replaying, At
  <2>2. \A d : hook[h].e # Query /\ d \in before'[hook[h].e] =>
           \/ d \in Settled'
           \/ \E m \in Names \cap ToSet(list) : m \in Names' /\ d \in EventsIn(files'[m].text)
    BY <1>3, <2>1, ReplayKept DEF Tidy, HookInv
  <2> QED BY <2>1, <2>2 DEF Tidy, ListOK
<1>7. Replaying = {h} /\ Replaying' \subseteq {h}
  <2>1. h \in Replaying
    BY <1>1 DEF Replaying, At
  <2>2. Replaying = {h} /\ Replaying' \subseteq Hooks
    BY <2>1 DEF Tidy, ListOK, Replaying
  <2> QED BY <1>3, <2>1, <2>2, SendersStay DEF Framed
<1> HIDE DEF new, n, rest, list
<1>8. \A g \in Hooks : (At(g, "send") => g = h) /\ ~At(g, "send")'
  <2>1. \A g \in Hooks : (At(g, "send") => g \in Replaying) /\ (At(g, "send")' => g \in Replaying')
    BY DEF At, Replaying
  <2>2. ~At(h, "send")'
    BY <1>3, <1>5 DEF At
  <2> QED BY <1>7, <2>1, <2>2
<1>9. /\ Len(list) \in Nat /\ rest \in Seq(Nat) /\ Len(rest) = Len(list) - 1
      /\ \A i \in 1..Len(rest) : rest[i] = list[i + 1]
      /\ ToSet(list) = {n} \cup ToSet(rest) /\ Len(list) >= 1
  <2>1. Len(list) \in Nat /\ (Len(list) = 0 <=> list = <<>>)
    BY <1>2, EmptySeq
  <2> QED BY <1>2, <2>1, HeadTailProperties, SetOfTail DEF n, rest
<1>10. ListOK'
  <2>1. ASSUME NEW i \in 1..Len(rest), NEW j \in 1..Len(rest), i < j PROVE rest[i] < rest[j]
    <3>1. i + 1 \in 1..Len(list) /\ j + 1 \in 1..Len(list) /\ i + 1 < j + 1
      BY <1>9, <2>1
    <3>2. list[i + 1] < list[j + 1]
      BY <1>6, <3>1
    <3> QED BY <1>9, <3>2
  <2>2. \A m \in Names' : m \in ToSet(rest) \/ \A l \in ToSet(rest) : l < m
    BY <1>4, <1>6, <1>9
  <2>3. h \in Replaying' => hook'[h].list = rest
    BY <1>3, <1>5 DEF Replaying
  <2> QED BY <1>7, <2>1, <2>2, <2>3 DEF ListOK
<1>11. Unsent'
  <2> SUFFICES ASSUME NEW m \in Names', NEW x \in EventsIn(files'[m].text), x \in ToSet(written)
               PROVE  FALSE
    BY <1>1, <1>8 DEF Unsent
  <2>1. m \in Names /\ x \in EventsIn(files[m].text) /\ m # n
    BY <1>3, <1>4, WrittenUsed DEF Framed, OldLines
  <2>2. Head(list) = m
    BY <1>8, <2>1 DEF Tidy, Unsent, list
  <2> QED BY <2>1, <2>2 DEF n
<1>12. TextOrder'
  BY <1>8 DEF TextOrder
<1>13. OwnOrder'
  <2>1. ASSUME NEW d, hook[h].e # Query, d \in before'[hook[h].e]
        PROVE  d \in Settled' \/ \E m \in Names' \cap ToSet(rest) : d \in EventsIn(files'[m].text)
    <3>1. \/ d \in Settled'
          \/ \E m \in Names \cap ToSet(list) : m \in Names' /\ d \in EventsIn(files'[m].text)
      BY <1>6, <2>1
    <3> QED BY <1>4, <1>9, <3>1
  <2>2. hook'[h].step = "own" => before'[hook'[h].e] \subseteq Settled'
    <3>1. ToSet(<<>>) = {}
      BY DEF ToSet
    <3> QED BY <1>3, <1>5, <2>1, <3>1
  <2>3. \A g \in Hooks : At(g, "own")' => before'[hook'[g].e] \subseteq Settled'
    BY <1>3, <2>2, OwnKept DEF Tidy
  <2>4. h \in Replaying' => hook'[h].list = rest /\ hook'[h].e = hook[h].e
    BY <1>3, <1>5 DEF Replaying
  <2> QED BY <1>7, <2>1, <2>3, <2>4 DEF OwnOrder
<1>14. WrittenOrder'
  BY <1>1, <1>3, WrittenKept DEF Framed, Keeps, Tidy, HookInv
<1> QED BY <1>10, <1>11, <1>12, <1>13, <1>14 DEF Tidy

-----------------------------------------------------------------------------
(* The order of sends. *)

HookOrderInv == HookInv /\ Opened /\ OrderInv

LEMMA HookOrderInit == Init => HookOrderInv
<1> SUFFICES ASSUME Init PROVE HookOrderInv
  OBVIOUS
<1> DEFINE text == <<1, NL>>
<1>1. /\ Names = {0} /\ files[0].text = text /\ sent = 1
      /\ hook = [h \in Hooks |-> NoHook]
      /\ written = <<>> /\ queued = {1} /\ lost = {}
      /\ before = [e \in Events |-> {}]
  BY DEF Init, Names
<1>2. HookInv
  BY HookInvInit
<1>3. \A h \in Hooks : hook[h] = NoHook /\ hook[h].step = "idle"
  BY <1>1 DEF NoHook
<1>4. Opened
  BY <1>3 DEF Opened
<1>5. /\ Len(text) = 2 /\ text[1] = 1 /\ text[2] = NL /\ EventsIn(text) = {1} /\ NL # 1
      /\ \A i \in 1..Len(text) : i = 1 \/ i = 2
  <2>1. Len(text) = 2 /\ text[1] = 1 /\ text[2] = NL /\ 1 \in Events /\ NL \notin Events
    BY HookQueueAssumption DEF NL, Events
  <2>2. EventsIn(text) = {1}
    BY <2>1 DEF EventsIn, ToSet
  <2> QED BY <2>1, <2>2 DEF NL
<1> HIDE DEF text
<1>6. ToSet(written) = {} /\ Len(written) = 0
  BY <1>1 DEF ToSet
<1>7. Filed = {1} /\ Texts = {}
  <2>1. Filed = {1}
    BY <1>1, <1>5 DEF Filed
  <2>2. Texts = {}
    BY <1>3 DEF Texts, At
  <2> QED BY <2>1, <2>2
<1>8. Fresh
  BY <1>1, <1>3, <1>6, <1>7 DEF Fresh, Used, Carrier
<1>9. WrittenOnce
  BY <1>1, <1>5 DEF WrittenOnce
<1>10. FileOrder
  <2>1. \A x \in Events : before[x] = {}
    BY <1>1
  <2> QED BY <1>3, <2>1 DEF FileOrder, HookReached
<1>11. Replaying = {} /\ \A h \in Hooks : ~At(h, "send") /\ ~At(h, "own")
  BY <1>3 DEF Replaying, At
<1>12. Tidy
  BY <1>6, <1>11 DEF Tidy, ListOK, Unsent, TextOrder, OwnOrder, WrittenOrder
<1> QED BY <1>2, <1>4, <1>8, <1>9, <1>10, <1>12 DEF HookOrderInv, OrderInv, PlaceInv

LEMMA HookOrderStep == HookOrderInv /\ [Next]_vars => HookOrderInv'
<1> SUFFICES ASSUME HookOrderInv, [Next]_vars PROVE HookOrderInv'
  OBVIOUS
<1>1. HookInv /\ HookInv' /\ Opened /\ Opened' /\ PlaceInv /\ (~disturbed => Tidy)
  BY HookInvStep, OpenedStep DEF HookOrderInv, OrderInv
<1>2. ASSUME NEW h \in Hooks, BeginEvent(h) \/ BeginQuery(h)
      PROVE  PlaceInv' /\ (~disturbed' => Tidy')
  <2>1. ~disturbed' => ~disturbed
    BY <1>2 DEF BeginEvent, BeginQuery, StartReplay, StartOffline
  <2> QED BY <1>1, <1>2, <2>1, BeginPlaces, StartTidy
<1>3. ASSUME NEW h \in Hooks, EnqueueFails(h) \/ SendOwnFails(h) \/ Kill(h)
      PROVE  PlaceInv' /\ (~disturbed' => Tidy')
  <2>1. Do(h, NoHook) /\ UNCHANGED <<files, clock, sent, history>>
    BY <1>3 DEF EnqueueFails, SendOwnFails, Kill
  <2>2. ~disturbed' => ~disturbed
    BY <1>3 DEF EnqueueFails, SendOwnFails, Kill
  <2> QED BY <1>1, <1>3, <2>1, <2>2, EndPlaces, EndTidy
<1>4. ASSUME NEW h \in Hooks,
             \/ \E now \in clock..MaxClock :
                  MakeRoom(h, now) \/ MakeRoomFails(h, now) \/ FindOrCreateTarget(h, now)
             \/ OpenTarget(h) \/ WriteLine(h) \/ WriteEnd(h) \/ CutLine(h)
      PROVE  PlaceInv' /\ (~disturbed' => Tidy')
  <2>1. ~disturbed' => ~disturbed
    BY <1>4 DEF MakeRoom, MakeRoomFails, FindOrCreateTarget, OpenTarget, WriteLine, WriteEnd,
       CutLine
  <2>2. PlaceInv'
    BY <1>1, <1>4, MakeRoomPlaces, FindPlaces, OpenPlaces, WriteLinePlaces, WriteEndPlaces,
       CutLinePlaces
  <2>3. ~disturbed' => Tidy'
    BY <1>1, <1>4, <2>1, EnqueueTidy
  <2> QED BY <2>2, <2>3
<1>5. ASSUME NEW h \in Hooks,
             ReadFile(h) \/ SendLine(h) \/ SendLineFails(h) \/ RemoveReplayed(h) \/ SendOwn(h)
      PROVE  PlaceInv' /\ (~disturbed' => Tidy')
  <2>1. ~disturbed' => ~disturbed
    BY <1>5 DEF ReadFile, SendLine, SendLineFails, RemoveReplayed, SendOwn, EndReplay
  <2>2. PlaceInv'
    BY <1>1, <1>5, ReadPlaces, SendPlaces, RemovePlaces, OwnPlaces
  <2>3. ~disturbed' => Tidy'
    BY <1>1, <1>5, <2>1, ReadTidy, SendTidy, RemoveTidy, OwnTidy
  <2> QED BY <2>2, <2>3
<1>6. ASSUME ServerReads \/ ServerChanges \/ UNCHANGED vars PROVE PlaceInv' /\ (~disturbed' => Tidy')
  <2>1. UNCHANGED <<files, hook, sent, written, queued, before, lost, disturbed>>
    BY <1>6 DEF ServerReads, ServerChanges, vars
  <2>2. /\ Names' = Names /\ Replaying' = Replaying /\ Settled' = Settled
        /\ Used' = Used
    BY <2>1 DEF Names, Replaying, Settled, Used, Filed, Texts, At
  <2>3. Fresh' /\ WrittenOnce' /\ FileOrder'
    <3>1. Fresh'
      BY <1>1, <2>1, <2>2 DEF PlaceInv, Fresh, Carrier, At
    <3>2. WrittenOnce'
      BY <1>1, <2>1, <2>2 DEF PlaceInv, WrittenOnce
    <3>3. FileOrder'
      BY <1>1, <2>1, <2>2 DEF PlaceInv, FileOrder, HookReached, Reached, AheadOf
    <3> QED BY <3>1, <3>2, <3>3
  <2>4. Tidy => Tidy'
    <3>1. ListOK => ListOK'
      BY <2>1, <2>2 DEF ListOK
    <3>2. Unsent => Unsent'
      BY <2>1, <2>2 DEF Unsent, At
    <3>3. TextOrder => TextOrder'
      BY <2>1, <2>2 DEF TextOrder, At
    <3>4. OwnOrder => OwnOrder'
      BY <2>1, <2>2 DEF OwnOrder, At
    <3>5. WrittenOrder => WrittenOrder'
      BY <2>1, <2>2 DEF WrittenOrder
    <3> QED BY <3>1, <3>2, <3>3, <3>4, <3>5 DEF Tidy
  <2> QED BY <1>1, <2>1, <2>3, <2>4 DEF PlaceInv
<1>8. ASSUME NEW h \in Hooks, ReplayFails(h) PROVE PlaceInv' /\ (~disturbed' => Tidy')
  <2>1. /\ Do(h, NextFile(hook[h].e, <<>>)) /\ disturbed' /\ hook[h].step \in {"read", "send"}
        /\ UNCHANGED <<files, clock, sent, written, lost, queued, before>>
    BY <1>8 DEF ReplayFails, EndReplay, At, history
  <2> QED BY <1>1, <2>1, GivesUpPlaces
<1>7. PlaceInv' /\ (~disturbed' => Tidy')
  BY <1>2, <1>3, <1>4, <1>5, <1>6, <1>8 DEF Next, HookStep, HookFault
<1> QED BY <1>1, <1>7 DEF HookOrderInv, OrderInv

LEMMA HookOrderHolds == Spec => []HookOrderInv
BY HookOrderInit, HookOrderStep, PTL DEF Spec

(***************************************************************************)
(* Events are sent to the server in the order in which they were queued,   *)
(* and each of them once: what was in the queue when the hook of an event  *)
(* began is sent before that event.  So it is for any number of hooks that *)
(* append, prune and are killed while a replay runs, as long as no two     *)
(* replays overlap, none is cut short or loses a file under its hands, and *)
(* no file appears below one that it has listed.                           *)
(***************************************************************************)
THEOREM EventsOldestFirst == Spec => []OldestFirst
<1>1. HookOrderInv => OldestFirst
  <2> SUFFICES ASSUME HookOrderInv, ~disturbed
               PROVE  /\ \A i, j \in 1..Len(written) : i # j => written[i] # written[j]
                      /\ \A d, e \in ToSet(written) \ lost :
                            d \in before[e] => Position(d) < Position(e)
    BY DEF OldestFirst
  <2>1. WrittenOrder /\ written \in Seq(Events)
    BY DEF HookOrderInv, OrderInv, Tidy, HookInv, CountsOK
  <2>2. \A x \in ToSet(written) : Position(x) \in 1..Len(written) /\ written[Position(x)] = x
    <3> SUFFICES ASSUME NEW x \in ToSet(written)
                 PROVE  Position(x) \in 1..Len(written) /\ written[Position(x)] = x
      OBVIOUS
    <3>1. \E i \in 1..Len(written) : written[i] = x
      BY <2>1, SetOfSeq
    <3> QED BY <3>1 DEF Position
  <2>3. \A i, j \in 1..Len(written) : i # j => written[i] # written[j]
    BY <2>1 DEF WrittenOrder
  <2>4. ASSUME NEW d \in ToSet(written) \ lost, NEW e \in ToSet(written) \ lost, d \in before[e]
        PROVE  Position(d) < Position(e)
    BY <2>1, <2>2, <2>4 DEF WrittenOrder
  <2> QED BY <2>3, <2>4
<1> QED BY <1>1, HookOrderHolds, PTL
=============================================================================
