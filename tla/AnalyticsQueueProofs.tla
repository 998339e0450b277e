------------------------ MODULE AnalyticsQueueProofs ------------------------
(***************************************************************************)
(* The analytics queue, for every capacity, batch size and number of       *)
(* events: the order of the writes, the account of every event, what close *)
(* leaves behind, that the channel, the drain task and the shutdown        *)
(* implement the contract of AnalyticsContract, and what store_metrics     *)
(* makes of that order.                                                    *)
(*                                                                         *)
(* The argument is one invariant: the events written, those in the batch   *)
(* and those in the channel are, in this order, one increasing sequence,   *)
(* and an event that the end of the process cuts off comes after every     *)
(* event written.                                                          *)
(***************************************************************************)
EXTENDS StoreMetrics, SequenceTheorems, TLAPS

Events == 1..MaxEvents

\* Every member of A is smaller than every member of B.
Below(A, B) == \A x \in A, y \in B : x < y
-----------------------------------------------------------------------------
(* The elements of sequences. *)

\* The elements of a sequence over S are in S.
LEMMA ElementsIn ==
    ASSUME NEW S, NEW s \in Seq(S)
    PROVE  Elements(s) \subseteq S /\ Elements(<<>>) = {}
BY DEF Elements

\* What Append adds.
LEMMA ElementsAppend ==
    ASSUME NEW S, NEW s \in Seq(S), NEW e \in S
    PROVE  Elements(Append(s, e)) = Elements(s) \cup {e}
<1>1. /\ Append(s, e) \in Seq(S) /\ Len(Append(s, e)) = Len(s) + 1 /\ Len(s) \in Nat
      /\ \A i \in 1..Len(s) : Append(s, e)[i] = s[i]
      /\ Append(s, e)[Len(s) + 1] = e
  BY AppendProperties, LenProperties
<1>2. 1..(Len(s) + 1) = 1..Len(s) \cup {Len(s) + 1}
  BY <1>1
<1> QED BY <1>1, <1>2 DEF Elements

\* The elements of two sequences in a row.
LEMMA ElementsConcat ==
    ASSUME NEW S, NEW s \in Seq(S), NEW t \in Seq(S)
    PROVE  Elements(s \o t) = Elements(s) \cup Elements(t)
<1>1. Len(s) \in Nat /\ Len(t) \in Nat
  BY LenProperties
<1>2. /\ Len(s \o t) = Len(s) + Len(t)
      /\ \A i \in 1..(Len(s) + Len(t)) :
            (s \o t)[i] = IF i <= Len(s) THEN s[i] ELSE t[i - Len(s)]
  BY ConcatProperties
<1>3. ASSUME NEW i \in 1..Len(s) PROVE s[i] \in Elements(s \o t)
  <2>1. i \in 1..(Len(s) + Len(t)) /\ (s \o t)[i] = s[i]
    BY <1>1, <1>2
  <2> QED BY <1>2, <2>1 DEF Elements
<1>4. ASSUME NEW i \in 1..Len(t) PROVE t[i] \in Elements(s \o t)
  <2>1. i + Len(s) \in 1..(Len(s) + Len(t)) /\ (s \o t)[i + Len(s)] = t[i]
    BY <1>1, <1>2
  <2> QED BY <1>2, <2>1 DEF Elements
<1>5. ASSUME NEW i \in 1..(Len(s) + Len(t))
      PROVE  (s \o t)[i] \in Elements(s) \cup Elements(t)
  <2>1. CASE i <= Len(s)
    BY <1>1, <1>2, <2>1 DEF Elements
  <2>2. CASE i > Len(s)
    <3>1. i - Len(s) \in 1..Len(t) /\ (s \o t)[i] = t[i - Len(s)]
      BY <1>1, <1>2, <2>2
    <3> QED BY <3>1 DEF Elements
  <2> QED BY <1>1, <2>1, <2>2
<1> QED BY <1>2, <1>3, <1>4, <1>5 DEF Elements

\* Head and Tail share out the elements.
LEMMA ElementsHeadTail ==
    ASSUME NEW S, NEW s \in Seq(S), s # <<>>
    PROVE  /\ Elements(s) = {Head(s)} \cup Elements(Tail(s))
           /\ Head(s) \in S /\ Tail(s) \in Seq(S) /\ Len(Tail(s)) = Len(s) - 1
<1>1. /\ Head(s) \in S /\ Tail(s) \in Seq(S) /\ Len(Tail(s)) = Len(s) - 1
      /\ \A i \in 1..Len(Tail(s)) : Tail(s)[i] = s[i + 1]
  BY HeadTailProperties
<1>2. Len(s) \in Nat \ {0} /\ Head(s) = s[1]
  BY EmptySeq
<1>3. ASSUME NEW i \in 1..Len(s) PROVE s[i] \in {Head(s)} \cup Elements(Tail(s))
  <2>1. CASE i = 1
    BY <1>2, <2>1
  <2>2. CASE i > 1
    <3>1. i - 1 \in 1..Len(Tail(s)) /\ Tail(s)[i - 1] = s[i]
      BY <1>1, <1>2, <2>2
    <3> QED BY <3>1 DEF Elements
  <2> QED BY <2>1, <2>2
<1>4. ASSUME NEW i \in 1..Len(Tail(s)) PROVE Tail(s)[i] \in Elements(s)
  <2>1. i + 1 \in 1..Len(s) /\ Tail(s)[i] = s[i + 1]
    BY <1>1, <1>2
  <2> QED BY <2>1 DEF Elements
<1>5. Head(s) \in Elements(s)
  BY <1>2 DEF Elements
<1> QED BY <1>1, <1>3, <1>4, <1>5 DEF Elements
-----------------------------------------------------------------------------
(* Increasing sequences. *)

\* A larger event may be appended.
LEMMA IncreasingAppend ==
    ASSUME NEW s \in Seq(Events), NEW e \in Events, Increasing(s), Below(Elements(s), {e})
    PROVE  Increasing(Append(s, e))
<1>1. /\ Len(Append(s, e)) = Len(s) + 1 /\ Len(s) \in Nat
      /\ \A i \in 1..Len(s) : Append(s, e)[i] = s[i]
      /\ Append(s, e)[Len(s) + 1] = e
  BY AppendProperties, LenProperties
<1>2. \A i \in 1..Len(s) : s[i] < e
  BY DEF Below, Elements
<1> QED BY <1>1, <1>2 DEF Increasing

\* Two increasing sequences make one if the first lies below the second.
LEMMA IncreasingConcat ==
    ASSUME NEW s \in Seq(Events), NEW t \in Seq(Events), Increasing(s), Increasing(t),
           Below(Elements(s), Elements(t))
    PROVE  Increasing(s \o t)
<1>1. Len(s) \in Nat /\ Len(t) \in Nat
  BY LenProperties
<1>2. /\ Len(s \o t) = Len(s) + Len(t)
      /\ \A i \in 1..(Len(s) + Len(t)) :
            (s \o t)[i] = IF i <= Len(s) THEN s[i] ELSE t[i - Len(s)]
  BY ConcatProperties
<1>3. \A i \in 1..Len(s), j \in 1..Len(t) : s[i] < t[j]
  BY DEF Below, Elements
<1> SUFFICES ASSUME NEW i \in 1..(Len(s) + Len(t)), NEW j \in 1..(Len(s) + Len(t)), i < j
             PROVE  (s \o t)[i] < (s \o t)[j]
  BY <1>2 DEF Increasing
<1>4. CASE j <= Len(s)
  BY <1>1, <1>2, <1>4 DEF Increasing
<1>5. CASE i > Len(s)
  <2>1. i - Len(s) \in 1..Len(t) /\ j - Len(s) \in 1..Len(t) /\ i - Len(s) < j - Len(s)
    BY <1>1, <1>5
  <2> QED BY <1>1, <1>2, <1>5, <2>1 DEF Increasing
<1>6. CASE i <= Len(s) /\ j > Len(s)
  <2>1. i \in 1..Len(s) /\ j - Len(s) \in 1..Len(t)
    BY <1>1, <1>6
  <2> QED BY <1>1, <1>2, <1>3, <1>6, <2>1
<1> QED BY <1>1, <1>4, <1>5, <1>6

\* The head of an increasing sequence lies below the rest, which is increasing.
LEMMA IncreasingTail ==
    ASSUME NEW s \in Seq(Events), s # <<>>, Increasing(s)
    PROVE  Increasing(Tail(s)) /\ Below({Head(s)}, Elements(Tail(s)))
<1>1. /\ Len(Tail(s)) = Len(s) - 1 /\ \A i \in 1..Len(Tail(s)) : Tail(s)[i] = s[i + 1]
      /\ Len(s) \in Nat \ {0} /\ Head(s) = s[1]
  BY HeadTailProperties, EmptySeq
<1>2. \A i \in 1..Len(Tail(s)) : s[1] < Tail(s)[i]
  BY <1>1 DEF Increasing
<1>3. Increasing(Tail(s))
  <2> SUFFICES ASSUME NEW i \in 1..Len(Tail(s)), NEW j \in 1..Len(Tail(s)), i < j
               PROVE  Tail(s)[i] < Tail(s)[j]
    BY DEF Increasing
  <2>1. i + 1 \in 1..Len(s) /\ j + 1 \in 1..Len(s) /\ i + 1 < j + 1
    BY <1>1
  <2> QED BY <1>1, <2>1 DEF Increasing
<1> QED BY <1>1, <1>2, <1>3 DEF Below, Elements
-----------------------------------------------------------------------------
(* The invariant. *)

\* Written, batched and queued events, in this order, increase; so do written
\* events and those that the end of the task refused or that of the process cut off.
Ordered ==
    /\ Increasing(committed) /\ Increasing(batch) /\ Increasing(queue)
    /\ Below(Elements(committed), Elements(batch) \cup Elements(queue) \cup cut \cup refused)
    /\ Below(Elements(batch), Elements(queue))

\* What the task holds at each of its steps, and when it has ended.
Phases ==
    /\ drain \in {"select", "exited"} => batch = <<>>
    /\ drain \in {"collect", "commit", "flushCommit"} => batch # <<>>
    /\ drain = "exited" => queue = <<>>
    /\ refused # {} => drain = "exited"
    /\ cut # {} => drain = "exited" /\ store \in {"closed", "dropped"}
    /\ cut # {} /\ store = "closed" => timedOut
    /\ store = "closed" /\ ~timedOut => drain = "exited"

QueueInv == TypeOK /\ Accounted /\ Ordered /\ Phases

\* Events known to the queue are at most the last one sent.
LEMMA AccountedBounds ==
    ASSUME TypeOK, Accounted
    PROVE  /\ sent \in Nat /\ queue \in Seq(Events) /\ batch \in Seq(Events)
           /\ committed \in Seq(Events)
           /\ Elements(queue) \subseteq Events /\ Elements(batch) \subseteq Events
           /\ Elements(committed) \subseteq Events
           /\ \A x \in Elements(queue) \cup Elements(batch) \cup Elements(committed) : x <= sent
<1>1. sent \in Nat /\ queue \in Seq(Events) /\ batch \in Seq(Events) /\ committed \in Seq(Events)
  BY QueueAssumption DEF TypeOK, Events
<1>2. \A x \in 1..sent : x <= sent
  BY <1>1
<1> QED BY <1>1, <1>2, ElementsIn DEF Accounted

\* An empty store satisfies it.
LEMMA QueueInvInit == Init => QueueInv
<1> SUFFICES ASSUME Init PROVE QueueInv
  OBVIOUS
<1>1. /\ sent = 0 /\ queue = <<>> /\ batch = <<>> /\ committed = <<>>
      /\ drain = "select" /\ store = "open" /\ shed = {} /\ refused = {} /\ lost = {} /\ cut = {}
  BY DEF Init
<1>2. Elements(<<>>) = {} /\ <<>> \in Seq(1..MaxEvents) /\ Len(<<>>) = 0
  BY DEF Elements
<1>3. TypeOK
  <2>1. signal \in BOOLEAN /\ timedOut \in BOOLEAN
    BY DEF Init
  <2> QED BY QueueAssumption, <1>1, <1>2, <2>1 DEF TypeOK
<1>4. Accounted
  BY <1>1, <1>2 DEF Accounted
<1>5. Ordered
  BY <1>1, <1>2 DEF Ordered, Increasing, Below
<1>6. Phases
  BY <1>1 DEF Phases
<1> QED BY <1>3, <1>4, <1>5, <1>6 DEF QueueInv

\* The sequences after the receiver has handed over an event.
LEMMA ReceiveKeeps ==
    ASSUME QueueInv, Receive
    PROVE  /\ queue' \in Seq(Events) /\ Len(queue') <= Capacity
           /\ batch' \in Seq(Events) /\ Len(batch') = Len(batch) + 1 /\ batch' # <<>>
           /\ Elements(queue') \cup Elements(batch') = Elements(queue) \cup Elements(batch)
           /\ Increasing(batch') /\ Increasing(queue')
           /\ Below(Elements(batch'), Elements(queue'))
<1>1. /\ queue # <<>> /\ batch' = Append(batch, Head(queue)) /\ queue' = Tail(queue)
      /\ queue \in Seq(Events) /\ batch \in Seq(Events)
      /\ Len(queue) \in Nat /\ Len(queue) <= Capacity /\ Capacity \in Nat
      /\ Increasing(batch) /\ Increasing(queue) /\ Below(Elements(batch), Elements(queue))
  BY AccountedBounds, LenProperties, QueueAssumption DEF Receive, QueueInv, TypeOK, Ordered
<1>2. /\ Elements(queue) = {Head(queue)} \cup Elements(Tail(queue))
      /\ Head(queue) \in Events /\ Tail(queue) \in Seq(Events)
      /\ Len(Tail(queue)) = Len(queue) - 1
  BY <1>1, ElementsHeadTail
<1>3. /\ Elements(batch') = Elements(batch) \cup {Head(queue)}
      /\ batch' \in Seq(Events) /\ Len(batch') = Len(batch) + 1 /\ batch' # <<>>
  BY <1>1, <1>2, ElementsAppend, AppendProperties
<1>4. Increasing(batch')
  BY <1>1, <1>2, IncreasingAppend DEF Below
<1>5. Increasing(queue') /\ Below({Head(queue)}, Elements(queue'))
  BY <1>1, IncreasingTail
<1>6. Below(Elements(batch'), Elements(queue'))
  BY <1>1, <1>2, <1>3, <1>5 DEF Below
<1> QED BY <1>1, <1>2, <1>3, <1>4, <1>5, <1>6

\* Moving an event into the batch keeps the invariant.
LEMMA ReceiveInv ==
    ASSUME QueueInv, Receive, drain \in {"select", "collect", "flush"}, Len(batch) < BatchSize,
           UNCHANGED <<sent, storeVars, committed, shed, refused, lost, cut>>,
           drain' = IF drain = "select" THEN "collect" ELSE drain
    PROVE  QueueInv'
<1>1. /\ queue' \in Seq(Events) /\ Len(queue') <= Capacity
      /\ batch' \in Seq(Events) /\ Len(batch') = Len(batch) + 1 /\ batch' # <<>>
      /\ Elements(queue') \cup Elements(batch') = Elements(queue) \cup Elements(batch)
      /\ Increasing(batch') /\ Increasing(queue')
      /\ Below(Elements(batch'), Elements(queue'))
  BY ReceiveKeeps
<1>2. TypeOK'
  <2>1. Len(batch') <= BatchSize
    BY <1>1, AccountedBounds, LenProperties, QueueAssumption DEF QueueInv
  <2> QED BY <1>1, <2>1 DEF QueueInv, TypeOK, storeVars, Events
<1>3. Accounted'
  BY <1>1 DEF QueueInv, Accounted
<1>4. Ordered'
  BY <1>1 DEF QueueInv, Ordered, Below
<1>5. Phases'
  BY <1>1 DEF QueueInv, Phases, storeVars
<1> QED BY <1>2, <1>3, <1>4, <1>5 DEF QueueInv

\* An enqueued event is larger than all before it.
LEMMA EnqueueInv ==
    ASSUME QueueInv, EnqueueAnalytics
    PROVE  QueueInv'
<1> DEFINE e == sent + 1
<1>1. /\ sent' = e /\ sent \in Nat /\ e \in Events /\ queue \in Seq(Events)
      /\ batch \in Seq(Events) /\ committed \in Seq(Events)
      /\ Elements(queue) \subseteq Events /\ Elements(batch) \subseteq Events
      /\ Elements(committed) \subseteq Events
      /\ \A x \in Elements(queue) \cup Elements(batch) \cup Elements(committed) : x < e
  BY AccountedBounds, QueueAssumption DEF QueueInv, EnqueueAnalytics, Events
<1>2. 1..e = 1..sent \cup {e}
  BY <1>1
<1>3. store = "open" /\ cut = {}
  BY DEF EnqueueAnalytics, QueueInv, Phases
<1> HIDE DEF e
<1>4. CASE drain # "exited" /\ Len(queue) < Capacity
  <2>1. /\ queue' = Append(queue, e)
        /\ UNCHANGED <<batch, drain, signal, store, timedOut, committed, shed, refused, lost, cut>>
    BY <1>1, <1>4, LenProperties, QueueAssumption DEF EnqueueAnalytics, e
  <2>2. /\ queue' \in Seq(Events) /\ Len(queue') = Len(queue) + 1
        /\ Elements(queue') = Elements(queue) \cup {e}
    BY <1>1, <2>1, AppendProperties, ElementsAppend
  <2>3. TypeOK'
    <3>1. Len(queue') <= Capacity /\ sent' \in 0..MaxEvents
      BY <1>1, <1>4, <2>2, LenProperties, QueueAssumption DEF Events
    <3> QED BY <2>1, <2>2, <3>1 DEF QueueInv, TypeOK, Events
  <2>4. Accounted'
    BY <1>1, <1>2, <2>1, <2>2 DEF QueueInv, Accounted
  <2>5. Increasing(queue')
    BY <1>1, <2>1, IncreasingAppend DEF QueueInv, Ordered, Below
  <2>6. Ordered'
    BY <1>1, <2>1, <2>2, <2>5 DEF QueueInv, Ordered, Below
  <2>7. Phases'
    BY <1>3, <1>4, <2>1 DEF QueueInv, Phases
  <2> QED BY <2>3, <2>4, <2>6, <2>7 DEF QueueInv
<1>5. CASE drain = "exited" \/ Len(queue) >= Capacity
  <2>1. /\ \/ shed' = shed \cup {e} /\ refused' = refused
           \/ drain = "exited" /\ refused' = refused \cup {e} /\ shed' = shed
        /\ UNCHANGED <<queue, batch, drain, signal, store, timedOut, committed, lost, cut>>
    BY <1>1, <1>5, LenProperties, QueueAssumption DEF EnqueueAnalytics, e
  <2>2. TypeOK'
    <3>1. sent' \in 0..MaxEvents
      BY <1>1, QueueAssumption DEF Events
    <3> QED BY <1>1, <2>1, <3>1 DEF QueueInv, TypeOK, Events
  <2>3. Accounted'
    BY <1>1, <1>2, <2>1 DEF QueueInv, Accounted
  <2>4. Ordered'
    BY <1>1, <2>1 DEF QueueInv, Ordered, Below
  <2>5. Phases'
    BY <2>1 DEF QueueInv, Phases
  <2> QED BY <2>2, <2>3, <2>4, <2>5 DEF QueueInv
<1> QED BY <1>1, <1>4, <1>5, LenProperties, QueueAssumption

\* The batch leaves: it is written or discarded.
LEMMA BatchInv ==
    ASSUME QueueInv, CommitBatch \/ DiscardBatch
    PROVE  QueueInv'
<1>1. /\ batch' = <<>> /\ drain' = AfterCommit /\ drain \in {"commit", "flushCommit"}
      /\ UNCHANGED <<sent, queue, storeVars, shed, refused, cut>>
  BY DEF CommitBatch, DiscardBatch
<1>2. /\ queue \in Seq(Events) /\ batch \in Seq(Events) /\ committed \in Seq(Events)
      /\ Elements(queue) \subseteq Events /\ Elements(batch) \subseteq Events
      /\ Elements(committed) \subseteq Events
  BY AccountedBounds DEF QueueInv
<1>3. Elements(<<>>) = {} /\ <<>> \in Seq(1..MaxEvents) /\ Len(<<>>) = 0 /\ Increasing(<<>>)
  BY DEF Elements, Increasing
<1>4. Phases'
  BY <1>1 DEF QueueInv, Phases, AfterCommit, storeVars
<1>5. CASE CommitBatch
  <2>1. committed' = committed \o batch /\ lost' = lost
    BY <1>5 DEF CommitBatch
  <2>2. /\ committed' \in Seq(Events)
        /\ Elements(committed') = Elements(committed) \cup Elements(batch)
        /\ Increasing(committed')
    BY <1>2, <2>1, ConcatProperties, ElementsConcat, IncreasingConcat
       DEF QueueInv, Ordered, Below
  <2>3. TypeOK'
    BY <1>1, <1>3, <2>1, <2>2, QueueAssumption
       DEF QueueInv, TypeOK, storeVars, AfterCommit, Events
  <2>4. Accounted'
    BY <1>1, <1>3, <2>1, <2>2 DEF QueueInv, Accounted
  <2>5. cut = {} /\ refused = {}
    BY <1>1 DEF QueueInv, Phases
  <2>6. Ordered'
    BY <1>1, <1>3, <2>2, <2>5 DEF QueueInv, Ordered, Below
  <2> QED BY <1>4, <2>3, <2>4, <2>6 DEF QueueInv
<1>6. CASE DiscardBatch
  <2>1. committed' = committed /\ lost' = lost \cup Elements(batch)
    BY <1>6 DEF DiscardBatch
  <2>2. TypeOK'
    <3>1. lost' \subseteq 1..MaxEvents
      BY <1>2, <2>1 DEF QueueInv, TypeOK, Events
    <3> QED BY <1>1, <1>3, <2>1, <3>1, QueueAssumption DEF QueueInv, TypeOK, storeVars, AfterCommit
  <2>3. Accounted'
    BY <1>1, <1>3, <2>1 DEF QueueInv, Accounted
  <2>4. Ordered'
    BY <1>1, <1>3, <2>1 DEF QueueInv, Ordered, Below
  <2> QED BY <1>4, <2>2, <2>3, <2>4 DEF QueueInv
<1> QED BY <1>5, <1>6

\* The task or the process ends with whatever is in memory.
LEMMA EndInv ==
    ASSUME QueueInv, DrainPanic \/ ProcessExit
    PROVE  QueueInv'
<1>1. /\ batch' = <<>> /\ queue' = <<>> /\ drain' = "exited" /\ drain # "exited"
      /\ UNCHANGED <<sent, storeVars, committed, shed, refused>>
      /\ cut = {}
  BY DEF DrainPanic, ProcessExit, QueueInv, Phases
<1>2. /\ Elements(queue) \subseteq Events /\ Elements(batch) \subseteq Events
  BY AccountedBounds DEF QueueInv
<1>3. Elements(<<>>) = {} /\ <<>> \in Seq(1..MaxEvents) /\ Len(<<>>) = 0 /\ Increasing(<<>>)
  BY DEF Elements, Increasing
<1>4. CASE DrainPanic
  <2>1. lost' = lost \cup Elements(batch) \cup Elements(queue) /\ cut' = cut
    BY <1>4 DEF DrainPanic
  <2>2. TypeOK'
    <3>1. lost' \subseteq 1..MaxEvents
      BY <1>2, <2>1 DEF QueueInv, TypeOK, Events
    <3> QED BY <1>1, <1>3, <2>1, <3>1, QueueAssumption DEF QueueInv, TypeOK, storeVars
  <2>3. Accounted'
    BY <1>1, <1>3, <2>1 DEF QueueInv, Accounted
  <2>4. Ordered' /\ Phases'
    BY <1>1, <1>3, <2>1 DEF QueueInv, Ordered, Phases, Below, storeVars
  <2> QED BY <2>2, <2>3, <2>4 DEF QueueInv
<1>5. CASE ProcessExit
  <2>1. cut' = Elements(batch) \cup Elements(queue) /\ lost' = lost
        /\ store \in {"closed", "dropped"}
    BY <1>5 DEF ProcessExit
  <2>2. TypeOK'
    BY <1>1, <1>2, <1>3, <2>1, QueueAssumption DEF QueueInv, TypeOK, storeVars, Events
  <2>3. Accounted'
    BY <1>1, <1>3, <2>1 DEF QueueInv, Accounted
  <2>4. Ordered'
    BY <1>1, <1>3, <2>1 DEF QueueInv, Ordered, Below
  <2>5. Phases'
    BY <1>1, <2>1 DEF QueueInv, Phases, storeVars
  <2> QED BY <2>2, <2>3, <2>4, <2>5 DEF QueueInv
<1> QED BY <1>4, <1>5

\* Steps that move no event: those of the task between batches, and close.
LEMMA ControlInv ==
    ASSUME QueueInv,
           \/ CollectEnd \/ SelectShutdown \/ FlushBatch \/ FlushEnd
           \/ CloseBegin \/ CloseJoin \/ CloseTimeout \/ DropStore
    PROVE  QueueInv'
<1>1. UNCHANGED <<sent, queue, batch, committed, shed, refused, lost, cut>>
  BY DEF CollectEnd, SelectShutdown, FlushBatch, FlushEnd, CloseBegin, CloseJoin,
         CloseTimeout, DropStore, taskVars
<1>2. Accounted' /\ Ordered'
  BY <1>1 DEF QueueInv, Accounted, Ordered
<1>3. TypeOK'
  BY <1>1 DEF QueueInv, TypeOK, CollectEnd, SelectShutdown, FlushBatch, FlushEnd, CloseBegin,
              CloseJoin, CloseTimeout, DropStore, taskVars, storeVars
<1>4. Phases'
  BY <1>1 DEF QueueInv, Phases, CollectEnd, SelectShutdown, FlushBatch, FlushEnd, CloseBegin,
              CloseJoin, CloseTimeout, DropStore, taskVars, storeVars
<1> QED BY <1>2, <1>3, <1>4 DEF QueueInv

\* Every step keeps the invariant.
LEMMA QueueInvNext == QueueInv /\ [Next]_vars => QueueInv'
<1> SUFFICES ASSUME QueueInv, [Next]_vars PROVE QueueInv'
  OBVIOUS
<1>1. CASE SelectEvent
  <2>1. Len(batch) < BatchSize
    BY <1>1, QueueAssumption DEF SelectEvent, QueueInv, Phases
  <2> QED BY <1>1, <2>1, ReceiveInv DEF SelectEvent
<1>2. CASE CollectEvent \/ FlushEvent
  BY <1>2, ReceiveInv DEF CollectEvent, FlushEvent
<1>3. CASE UNCHANGED vars
  BY <1>3 DEF vars, QueueInv, TypeOK, Accounted, Ordered, Phases
<1> QED BY <1>1, <1>2, <1>3, EnqueueInv, BatchInv, EndInv, ControlInv
        DEF Next, DrainStep, StoreStep

\* The invariant holds throughout.
LEMMA QueueInvariant == Spec => []QueueInv
BY QueueInvInit, QueueInvNext, PTL DEF Spec
-----------------------------------------------------------------------------
(* What follows from it. *)

\* The channel and the batch keep within their bounds.
THEOREM QueueTypeCorrect == Spec => []TypeOK
<1>1. QueueInv => TypeOK
  BY DEF QueueInv
<1> QED BY <1>1, QueueInvariant, PTL

\* Events are written in the order of their enqueuing and none twice, whatever
\* was shed or discarded between them.
THEOREM QueueWrittenInOrder == Spec => []WrittenInOrder
<1>1. QueueInv => WrittenInOrder
  BY DEF QueueInv, Ordered, WrittenInOrder
<1> QED BY <1>1, QueueInvariant, PTL

\* No event vanishes between enqueue_analytics and the database.
THEOREM QueueAccounted == Spec => []Accounted
<1>1. QueueInv => Accounted
  BY DEF QueueInv
<1> QED BY <1>1, QueueInvariant, PTL

\* A close that returns in time leaves no event in memory.
THEOREM QueueCloseFlushes == Spec => []CloseFlushes
<1>1. QueueInv => CloseFlushes
  <2> SUFFICES ASSUME QueueInv, store = "closed", ~timedOut
               PROVE  drain = "exited" /\ 1..sent = Elements(committed) \cup shed \cup refused \cup lost
    BY DEF CloseFlushes
  <2>1. drain = "exited" /\ queue = <<>> /\ batch = <<>> /\ cut = {}
    BY DEF QueueInv, Phases
  <2>2. Elements(<<>>) = {}
    BY DEF Elements
  <2> QED BY <2>1, <2>2 DEF QueueInv, Accounted
<1> QED BY <1>1, QueueInvariant, PTL

(* store_metrics: its steps are steps of the queue. *)

\* What is proved of the queue holds of it while store_metrics feeds it.
LEMMA MetricsOverQueue == MetricsSpec => Spec
<1>1. [MetricsStep \/ QueueStep]_metricsVars => [Next]_vars
  BY DEF MetricsStep, EnqueueMetric, EnqueueDelete, EnqueuePhase, Enqueue, QueueStep, Next,
         metricsVars
<1> QED BY <1>1, PTL DEF MetricsSpec, MetricsInit, Spec

\* The origins of the events enqueued, and that a call's phases follow its delete.
MetricsInv ==
    /\ by \in Seq(Origins) /\ Len(by) = sent
    /\ \A n \in 1..Len(by) : by[n].kind = "phase" =>
           \E d \in EventsOf(by[n].call, "delete") : d < n

\* What Enqueue appends to the origins.
LEMMA EnqueueMetricsInv ==
    ASSUME QueueInv, MetricsInv, NEW c \in Calls, NEW kind \in {"metric", "delete", "phase"},
           Enqueue(c, kind), kind = "phase" => Has(c, "delete")
    PROVE  MetricsInv'
<1> DEFINE o == [call |-> c, kind |-> kind]
<1>1. by' = Append(by, o) /\ o \in Origins /\ by \in Seq(Origins) /\ Len(by) = sent
      /\ sent' = sent + 1
  BY DEF Enqueue, EnqueueAnalytics, Origins, MetricsInv
<1>2. /\ by' \in Seq(Origins) /\ Len(by') = Len(by) + 1 /\ Len(by) \in Nat
      /\ \A i \in 1..Len(by) : by'[i] = by[i]
      /\ by'[Len(by) + 1] = o
  BY <1>1, AppendProperties, LenProperties
<1> DEFINE Later(b) == {n \in 1..Len(by') : by'[n] = [call |-> b, kind |-> "delete"]}
<1>3. \A b : EventsOf(b, "delete") \subseteq Later(b) /\ EventsOf(b, "delete") \subseteq 1..Len(by)
  BY <1>2 DEF EventsOf
<1> HIDE DEF Later
<1>4. ASSUME NEW n \in 1..Len(by'), by'[n].kind = "phase"
      PROVE  \E d \in Later(by'[n].call) : d < n
  <2>1. CASE n \in 1..Len(by)
    BY <1>2, <1>3, <1>4, <2>1 DEF MetricsInv
  <2>2. CASE n = Len(by) + 1
    <3>1. by'[n].call = c /\ kind = "phase"
      BY <1>2, <1>4, <2>2
    <3>2. PICK d \in EventsOf(c, "delete") : TRUE
      BY <3>1 DEF Has
    <3>3. d \in Later(c) /\ d < n
      BY <1>2, <1>3, <2>2, <3>2
    <3> QED BY <3>1, <3>3
  <2> QED BY <1>2, <2>1, <2>2
<1> QED BY <1>1, <1>2, <1>4 DEF MetricsInv, EventsOf, Later

\* Every step of the calls and of the queue keeps both invariants.
LEMMA MetricsInvNext ==
    QueueInv /\ MetricsInv /\ [MetricsStep \/ QueueStep]_metricsVars => QueueInv' /\ MetricsInv'
<1> SUFFICES ASSUME QueueInv, MetricsInv, [MetricsStep \/ QueueStep]_metricsVars
             PROVE  QueueInv' /\ MetricsInv'
  OBVIOUS
<1>1. CASE MetricsStep
  <2>1. PICK c \in Calls : EnqueueMetric(c) \/ EnqueueDelete(c) \/ EnqueuePhase(c)
    BY <1>1 DEF MetricsStep
  <2>2. PICK kind \in {"metric", "delete", "phase"} :
            Enqueue(c, kind) /\ (kind = "phase" => Has(c, "delete"))
    BY <2>1 DEF EnqueueMetric, EnqueueDelete, EnqueuePhase
  <2>3. MetricsInv'
    BY <2>2, EnqueueMetricsInv
  <2>4. QueueInv'
    BY <2>2, EnqueueInv DEF Enqueue
  <2> QED BY <2>3, <2>4
<1>2. CASE QueueStep
  <2>1. (DrainStep \/ StoreStep) /\ by' = by
    BY <1>2 DEF QueueStep
  <2>2. QueueInv'
    BY <2>1, QueueInvNext DEF Next
  <2>3. sent' = sent
    BY <2>1 DEF DrainStep, StoreStep, SelectEvent, CollectEvent, CollectEnd, SelectShutdown,
                FlushEvent, FlushBatch, FlushEnd, CommitBatch, DiscardBatch, DrainPanic,
                CloseBegin, CloseJoin, CloseTimeout, DropStore, ProcessExit
  <2>4. MetricsInv'
    BY <2>1, <2>3 DEF MetricsInv, EventsOf
  <2> QED BY <2>2, <2>4
<1>3. CASE UNCHANGED metricsVars
  <2>1. UNCHANGED vars /\ by' = by /\ sent' = sent
    BY <1>3 DEF metricsVars, vars
  <2>2. QueueInv'
    BY <2>1, QueueInvNext
  <2>3. MetricsInv'
    BY <2>1 DEF MetricsInv, EventsOf
  <2> QED BY <2>2, <2>3
<1> QED BY <1>1, <1>2, <1>3

\* The delete of a call whose phase is in the table beside that of an earlier
\* call has been given up: written, it would have removed the other; and it
\* cannot be in memory still, refused or cut off, as a later event is written.
LEMMA StalePhasesStep == QueueInv /\ MetricsInv => StalePhasesRemoved
<1> SUFFICES ASSUME QueueInv, MetricsInv,
                    NEW m \in PhaseRows(committed), NEW n \in PhaseRows(committed),
                    Precedes(by[m].call, by[n].call)
             PROVE  EventsOf(by[n].call, "delete") \cap (shed \cup lost) # {}
  BY DEF StalePhasesRemoved
<1> DEFINE c == committed
<1>1. c \in Seq(Events) /\ Len(c) \in Nat /\ Increasing(c) /\ sent \in Nat /\ Len(by) = sent
  BY AccountedBounds, LenProperties DEF QueueInv, Ordered, MetricsInv
<1>2. PICK k \in 1..Len(c) : /\ m = c[k]
                             /\ \A i \in 1..Len(c) : i > k => by[c[i]].kind # "delete"
  BY DEF PhaseRows
<1>3. PICK j \in 1..Len(c) : n = c[j] /\ by[n].kind = "phase"
  BY DEF PhaseRows
<1>4. m \in Elements(c) /\ n \in Elements(c) /\ m \in 1..sent /\ n \in 1..sent
  <2>1. m \in Elements(c) /\ n \in Elements(c)
    BY <1>2, <1>3 DEF Elements
  <2> QED BY <2>1 DEF QueueInv, Accounted
<1>5. PICK d \in EventsOf(by[n].call, "delete") : d < n
  BY <1>1, <1>3, <1>4 DEF MetricsInv
<1>6. d \in 1..sent /\ by[d].call = by[n].call /\ by[d].kind = "delete"
  BY <1>1, <1>5 DEF EventsOf
<1>7. m < d
  BY <1>1, <1>4, <1>6 DEF Precedes
<1>8. d \notin Elements(c)
  <2> SUFFICES ASSUME NEW i \in 1..Len(c), c[i] = d PROVE FALSE
    BY DEF Elements
  <2>1. k < i
    BY <1>1, <1>2, <1>4, <1>6, <1>7 DEF Increasing
  <2> QED BY <1>2, <1>6, <2>1
<1>9. d \notin Elements(queue) \cup Elements(batch) \cup cut \cup refused
  BY <1>4, <1>5, <1>6 DEF QueueInv, Ordered, Below
<1>10. d \in shed \cup lost
  BY <1>6, <1>8, <1>9 DEF QueueInv, Accounted
<1> QED BY <1>5, <1>10

\* A phase row stays beside one of a later call of store_metrics only if the queue
\* gave up the later call's delete, however many calls overlap with the two.
THEOREM MetricsStalePhases == MetricsSpec => []StalePhasesRemoved
<1>1. MetricsInit => QueueInv /\ MetricsInv
  <2> SUFFICES ASSUME MetricsInit PROVE QueueInv /\ MetricsInv
    OBVIOUS
  <2>1. QueueInv /\ sent = 0 /\ by = <<>>
    BY QueueInvInit DEF MetricsInit, Init
  <2>2. MetricsInv
    BY <2>1 DEF MetricsInv
  <2> QED BY <2>1, <2>2
<1> QED BY <1>1, MetricsInvNext, StalePhasesStep, PTL DEF MetricsSpec
-----------------------------------------------------------------------------
(* The refinement of the contract. *)

\* Both modules mean the same by the elements of a sequence.
LEMMA SameElements == \A s : Contract!ElementsOf(s) = Elements(s)
BY DEF Contract!ElementsOf, Elements

\* The oldest Len(s) events of s and t together are s, the others t.
LEMMA SplitConcat ==
    ASSUME NEW s \in Seq(Events), NEW t \in Seq(Events), s # <<>>
    PROVE  /\ SubSeq(s \o t, 1, Len(s)) = s
           /\ SubSeq(s \o t, Len(s) + 1, Len(s \o t)) = t
           /\ Len(s \o t) = Len(s) + Len(t) /\ Len(s) \in Nat \ {0} /\ Len(t) \in Nat
<1>1. Len(s \o t) = Len(s) + Len(t) /\ Len(s) \in Nat \ {0} /\ Len(t) \in Nat
  BY ConcatProperties, EmptySeq, LenProperties
<1>2. SubSeq(s \o t, 1, Len(s)) = s
  BY <1>1, SubSeqOfConcat1, SubSeqFull
<1>3. SubSeq(s \o t, Len(s) + 1, Len(s \o t)) = t
  <2>1. CASE t = <<>>
    BY <1>1, <2>1, SubSeqEmpty, ConcatProperties
  <2>2. CASE t # <<>>
    <3>1. Len(t) \in Nat \ {0}
      BY <2>2, EmptySeq
    <3>2. SubSeq(s \o t, Len(s) + 1, Len(s) + Len(t)) = SubSeq(t, 1, Len(t))
      BY <1>1, <3>1, SubSeqOfConcat2
    <3> QED BY <1>1, <3>2, SubSeqFull
  <2> QED BY <2>1, <2>2
<1> QED BY <1>1, <1>2, <1>3

\* Handing an event from the channel to the batch is invisible to callers.
LEMMA ReceiveInvisible ==
    ASSUME QueueInv, Receive
    PROVE  batch' \o queue' = batch \o queue
<1>1. /\ queue # <<>> /\ batch' = Append(batch, Head(queue)) /\ queue' = Tail(queue)
      /\ queue \in Seq(Events) /\ batch \in Seq(Events)
  BY AccountedBounds DEF Receive, QueueInv
<1>2. /\ Head(queue) \in Events /\ Tail(queue) \in Seq(Events) /\ Len(queue) \in Nat \ {0}
      /\ queue = <<Head(queue)>> \o Tail(queue) /\ <<Head(queue)>> \in Seq(Events)
  <2>1. Head(queue) \in Events /\ Tail(queue) \in Seq(Events) /\ Len(queue) \in Nat \ {0}
    BY <1>1, ElementsHeadTail, EmptySeq
  <2>2. SubSeq(queue, 1, Len(queue)) = <<queue[1]>> \o SubSeq(queue, 2, Len(queue))
    BY <1>1, <2>1, SubSeqRecursiveFirst
  <2>3. SubSeq(queue, 1, Len(queue)) = queue /\ Tail(queue) = SubSeq(queue, 2, Len(queue))
    BY <1>1, SubSeqFull, TailIsSubSeq
  <2>4. <<Head(queue)>> \in Seq(Events) /\ Head(queue) = queue[1]
    BY <2>1
  <2> QED BY <2>1, <2>2, <2>3, <2>4
<1>3. Append(batch, Head(queue)) = batch \o <<Head(queue)>>
  BY <1>1, <1>2, AppendIsConcat
<1> QED BY <1>1, <1>2, <1>3, ConcatAssociative

\* Every step is a step of the contract, or none that callers can see.
LEMMA ContractStep ==
    ASSUME QueueInv, QueueInv', [Next]_vars
    PROVE  [Contract!ContractNext]_(Contract!cvars)
<1> USE DEF Contract!cvars
<1>1. /\ queue \in Seq(Events) /\ batch \in Seq(Events) /\ Len(batch) <= BatchSize
      /\ Elements(<<>>) = {} /\ <<>> \in Seq(Events)
  BY AccountedBounds, ElementsIn DEF QueueInv, TypeOK
<1>2. ASSUME UNCHANGED <<sent, batch \o queue, committed, shed, refused, lost, cut>>
      PROVE  UNCHANGED Contract!cvars
  BY <1>2
<1>3. CASE EnqueueAnalytics
  <2>1. sent + 1 \in Events
    BY <1>3, QueueAssumption DEF EnqueueAnalytics, QueueInv, TypeOK, Events
  <2>2. batch \o Append(queue, sent + 1) = Append(batch \o queue, sent + 1)
    <3>1. Append(queue, sent + 1) = queue \o <<sent + 1>> /\ <<sent + 1>> \in Seq(Events)
      BY <1>1, <2>1, AppendIsConcat
    <3>2. Append(batch \o queue, sent + 1) = (batch \o queue) \o <<sent + 1>>
      BY <1>1, <2>1, ConcatProperties, AppendIsConcat
    <3> QED BY <1>1, <3>1, <3>2, ConcatAssociative
  <2>3. Contract!Offer
    BY <1>3, <2>2 DEF EnqueueAnalytics, Contract!Offer
  <2> QED BY <2>3 DEF Contract!ContractNext
<1>4. CASE SelectEvent \/ CollectEvent \/ FlushEvent
  BY <1>2, <1>4, ReceiveInvisible DEF SelectEvent, CollectEvent, FlushEvent
<1>5. CASE CommitBatch \/ DiscardBatch
  <2> DEFINE k == Len(batch)
  <2>1. batch # <<>>
    BY <1>5 DEF CommitBatch, DiscardBatch, QueueInv, Phases
  <2>2. /\ SubSeq(batch \o queue, 1, k) = batch
        /\ SubSeq(batch \o queue, k + 1, Len(batch \o queue)) = queue
        /\ k \in 1..BatchSize /\ k <= Len(batch \o queue)
    BY <1>1, <2>1, SplitConcat, QueueAssumption
  <2>3. <<>> \o queue = queue
    BY <1>1, ConcatEmptySeq
  <2>4. Contract!Take(k)
    BY <1>5, <2>2, <2>3 DEF Contract!Take, CommitBatch, DiscardBatch
  <2>5. Contract!WriteBatch(k) \/ Contract!GiveUp(k)
    BY <1>5, <2>2, <2>4, SameElements
       DEF Contract!WriteBatch, Contract!GiveUp, CommitBatch, DiscardBatch
  <2> QED BY <2>2, <2>5 DEF Contract!ContractNext
<1>6. CASE DrainPanic \/ ProcessExit
  <2>1. Elements(batch \o queue) = Elements(batch) \cup Elements(queue) /\ <<>> \o <<>> = <<>>
    BY <1>1, ElementsConcat, ConcatEmptySeq
  <2>2. cut = {}
    BY <1>6 DEF DrainPanic, ProcessExit, QueueInv, Phases
  <2>3. Contract!GiveUpAll
    BY <1>6, <2>1, <2>2, SameElements DEF Contract!GiveUpAll, DrainPanic, ProcessExit
  <2> QED BY <2>3 DEF Contract!ContractNext
<1>7. CASE \/ CollectEnd \/ SelectShutdown \/ FlushBatch \/ FlushEnd
           \/ CloseBegin \/ CloseJoin \/ CloseTimeout \/ DropStore
  BY <1>2, <1>7 DEF CollectEnd, SelectShutdown, FlushBatch, FlushEnd, CloseBegin, CloseJoin,
                    CloseTimeout, DropStore, taskVars
<1>8. CASE UNCHANGED vars
  BY <1>2, <1>8 DEF vars
<1> QED BY <1>3, <1>4, <1>5, <1>6, <1>7, <1>8 DEF Next, DrainStep, StoreStep

\* The channel, the drain task and the shutdown implement the contract.
THEOREM QueueImplementsContract == Spec => ImplementsContract
<1>1. Init => Contract!ContractInit
  BY ConcatEmptySeq DEF Init, Contract!ContractInit
<1>2. QueueInv /\ QueueInv' /\ [Next]_vars => [Contract!ContractNext]_(Contract!cvars)
  BY ContractStep
<1> QED BY <1>1, <1>2, QueueInvariant, PTL DEF Spec, ImplementsContract, Contract!ContractSpec
=============================================================================
