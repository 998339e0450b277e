-------------------------- MODULE AnalyticsContract --------------------------
(***************************************************************************)
(* What the analytics queue promises to its callers, without a channel, a  *)
(* drain task or a shutdown: events are taken or refused in the order of   *)
(* the calls; those taken are written oldest first, a batch at a time and  *)
(* each at most once; a batch may be given up as a whole.                  *)
(***************************************************************************)
EXTENDS Integers, Sequences

CONSTANTS BatchSize, MaxEvents

VARIABLES
    count,      \* events offered so far; the n-th one is n
    pending,    \* taken, and neither written nor given up yet
    written,    \* in the order of their writing
    dropped     \* refused or given up

cvars == <<count, pending, written, dropped>>

ElementsOf(s) == {s[i] : i \in 1..Len(s)}

Offer ==
    /\ count < MaxEvents
    /\ count' = count + 1
    /\ \/ pending' = Append(pending, count + 1) /\ UNCHANGED dropped
       \/ dropped' = dropped \cup {count + 1} /\ UNCHANGED pending
    /\ UNCHANGED written

\* The oldest k events leave together.
Take(k) == pending' = SubSeq(pending, k + 1, Len(pending))

WriteBatch(k) ==
    /\ Take(k)
    /\ written' = written \o SubSeq(pending, 1, k)
    /\ UNCHANGED <<count, dropped>>

GiveUp(k) ==
    /\ Take(k)
    /\ dropped' = dropped \cup ElementsOf(SubSeq(pending, 1, k))
    /\ UNCHANGED <<count, written>>

\* The end of the task or of the process.
GiveUpAll ==
    /\ pending' = <<>>
    /\ dropped' = dropped \cup ElementsOf(pending)
    /\ UNCHANGED <<count, written>>

ContractInit == count = 0 /\ pending = <<>> /\ written = <<>> /\ dropped = {}

ContractNext ==
    \/ Offer
    \/ \E k \in 1..BatchSize : k <= Len(pending) /\ (WriteBatch(k) \/ GiveUp(k))
    \/ GiveUpAll

ContractSpec == ContractInit /\ [][ContractNext]_cvars
=============================================================================
