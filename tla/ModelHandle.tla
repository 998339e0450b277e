----------------------------- MODULE ModelHandle -----------------------------
(***************************************************************************)
(* The lazily loaded model behind NliServiceHandle: a task that loads it,  *)
(* a monitor that retries a failed load with backoff, and the callers of   *)
(* get_provider, which find out that a worker panic has poisoned the       *)
(* session (infra/nli_handle.rs).  EmbedServiceHandle is the same machine  *)
(* without the poisoning (infra/embed_handle.rs).                          *)
(***************************************************************************)
EXTENDS Naturals

CONSTANTS
    Callers,      \* calls of get_provider in flight at once
    MaxRetries,   \* MAX_RETRIES
    MaxPoison     \* bound: panics of a worker that holds the session

VARIABLES
    state,      \* NliState with the attempts made so far
    healthy,    \* is the session of the loaded provider not poisoned?
    load,       \* the attempt that a load task is making, 0 for no task
    monitor,    \* "sleep", "backoff" or "done"
    caller,     \* which calls have seen a poisoned session
    poison      \* panics so far

vars == <<state, healthy, load, monitor, caller, poison>>

To(kind, attempts) == state' = [kind |-> kind, attempts |-> attempts]
Is(kind) == state.kind = kind

\* start_loading: the first load and the monitor are spawned.
Init ==
    /\ state = [kind |-> "Loading", attempts |-> 0]
    /\ healthy = TRUE
    /\ load = 1
    /\ monitor = "sleep"
    /\ caller = [c \in Callers |-> "idle"]
    /\ poison = 0
-----------------------------------------------------------------------------
(* spawn_load_task: whatever the state is by now, its result replaces it.   *)

LoadSucceeds ==
    /\ load # 0
    /\ To("Ready", 0) /\ healthy' = TRUE
    /\ load' = 0
    /\ UNCHANGED <<monitor, caller, poison>>

\* The name, the files, the hash or the session fails, or the task panics.
LoadFails ==
    /\ load # 0
    /\ To("Failed", load)
    /\ load' = 0
    /\ UNCHANGED <<healthy, monitor, caller, poison>>
-----------------------------------------------------------------------------
(* spawn_retry_monitor.                                                     *)

\* Ready, or Failed for the last time: the monitor is done.
MonitorReturns ==
    /\ monitor = "sleep"
    /\ Is("Ready") \/ (Is("Failed") /\ state.attempts >= MaxRetries)
    /\ monitor' = "done"
    /\ UNCHANGED <<state, healthy, load, caller, poison>>

\* Failed: another attempt, after the backoff.  In the other states the monitor
\* sleeps again.
MonitorRetries ==
    /\ monitor = "sleep"
    /\ Is("Failed") /\ state.attempts < MaxRetries
    /\ To("Retrying", state.attempts + 1)
    /\ monitor' = "backoff"
    /\ UNCHANGED <<healthy, load, caller, poison>>

MonitorSpawnsLoad ==
    /\ monitor = "backoff"
    /\ load' = state.attempts
    /\ monitor' = "sleep"
    /\ UNCHANGED <<state, healthy, caller, poison>>
-----------------------------------------------------------------------------
\* A rayon worker panics while it holds the session's mutex.
Poison ==
    /\ Is("Ready") /\ healthy /\ poison < MaxPoison
    /\ healthy' = FALSE
    /\ poison' = poison + 1
    /\ UNCHANGED <<state, load, monitor, caller>>

\* get_provider, under the read lock: the session is poisoned.  In every other
\* case the call returns and changes nothing.
SeePoison(c) ==
    /\ caller[c] = "idle"
    /\ Is("Ready") /\ ~healthy
    /\ caller' = [caller EXCEPT ![c] = "poisoned"]
    /\ UNCHANGED <<state, healthy, load, monitor, poison>>

\* get_provider, under the write lock: whatever provider is Ready by now fails.
FailProvider(c) ==
    /\ caller[c] = "poisoned"
    /\ caller' = [caller EXCEPT ![c] = "idle"]
    /\ IF Is("Ready") THEN To("Failed", 1) ELSE UNCHANGED state
    /\ UNCHANGED <<healthy, load, monitor, poison>>
-----------------------------------------------------------------------------
Load == LoadSucceeds \/ LoadFails
Monitor == MonitorReturns \/ MonitorRetries \/ MonitorSpawnsLoad

Next ==
    \/ Load \/ Monitor \/ Poison
    \/ \E c \in Callers : SeePoison(c) \/ FailProvider(c)

\* Loads end, and the runtime wakes the monitor from its sleeps.
FairSpec == Init /\ [][Next]_vars /\ WF_vars(Load) /\ WF_vars(Monitor)

(***************************************************************************)
(* "When `attempts < MAX_RETRIES`, the retry monitor will re-attempt"      *)
(* (nli_handle.rs, NliState::Failed; get_provider logs "retry will start", *)
(* and its callers are told NliNotReady): such a state is left.            *)
(***************************************************************************)
RetryFollows ==
    Is("Failed") /\ state.attempts < MaxRetries
        ~> ~(Is("Failed") /\ state.attempts < MaxRetries)
=============================================================================
