---------------------------- MODULE ServerProcess ----------------------------
(***************************************************************************)
(* The life of the daemon process of one project: it replaces the process  *)
(* that the PID file names, takes the PID file, binds the hook socket and  *)
(* the MCP socket, serves sessions, and on SIGTERM runs graceful_shutdown. *)
(* Any number of starts, `unimatrix stop` commands and crashes meet on the *)
(* same three paths (main.rs, infra/pidfile.rs, infra/shutdown.rs,         *)
(* uds/listener.rs, uds/mcp_listener.rs).                                  *)
(*                                                                         *)
(* A path holds the file that its name leads to; unlinking the path leaves *)
(* alone whoever has the file open.  The PID file that process p creates   *)
(* is file p, the socket that p binds is p.                                *)
(***************************************************************************)
EXTENDS Integers, FiniteSets

CONSTANTS
    MaxProcs,       \* bound: daemon processes started, numbered in that order
    MaxAtOnce,      \* bound: daemon processes alive at once
    MaxSessions,    \* bound: MCP sessions of a process at once
    MaxStops,       \* bound: stop commands
    MaxCrashes      \* bound: processes that crash or are killed from outside

ASSUME ProcessAssumption ==
    /\ MaxProcs \in Nat /\ MaxAtOnce \in Nat
    /\ MaxSessions \in Nat /\ MaxStops \in Nat /\ MaxCrashes \in Nat

VARIABLES
    pc,          \* where each process is
    victim,      \* the process that each starting process waits for
    fd,          \* the PID file that each process has open
    pidPath,     \* the file at the PID path
    pidText,     \* the process that each PID file names
    flock,       \* the process that holds the lock of each PID file
    hookSock,    \* the socket at the path of the hook listener
    mcpSock,     \* the socket at the path of the MCP listener
    sessions,    \* MCP session tasks of each process
    stopper,     \* the process that a stop command waits for
    stops, crashes,
    overlapped   \* history: a process was started while another was starting

Procs == 1..MaxProcs
None == 0    \* no process, no file

files == <<fd, pidPath, pidText, flock>>
socks == <<hookSock, mcpSock>>
bounds == <<stops, crashes>>
vars == <<pc, victim, files, socks, sessions, stopper, bounds, overlapped>>

Starting == {"wait", "open", "create", "lock", "write", "unlinkHook", "bindHook",
             "unlinkMcp", "bindMcp", "ready"}
Stopping == {"grace", "mcpGuard", "hookGuard", "dump", "unwrap", "failed",
             "pidGuard", "exit"}
Gone == {"off", "dead"}

\* From the unlinking of a stale socket to the unlinking of the own one.
Owning == {"bindHook", "unlinkMcp", "bindMcp", "ready", "serving", "grace",
           "mcpGuard", "hookGuard", "failed"}

Alive(p) == pc[p] \notin Gone
Goto(p, label) == pc' = [pc EXCEPT ![p] = label]
At(p, label) == pc[p] = label

\* The kernel closes what the processes of P have open.
Released(P) == flock' = [f \in Procs |-> IF flock[f] \in P THEN None ELSE flock[f]]

\* What SIGTERM does to q: the handler is the last thing installed by a start,
\* and until then the signal kills; during the shutdown it has no effect.
AfterTerm(q) ==
    IF pc[q] \in Starting THEN "dead" ELSE IF pc[q] = "serving" THEN "grace" ELSE pc[q]

\* The processes of P are gone: killed, or by their own exit.
Die(P) ==
    /\ pc' = [p \in Procs |-> IF p \in P THEN "dead" ELSE pc[p]]
    /\ Released(P)
    /\ fd' = [p \in Procs |-> IF p \in P THEN None ELSE fd[p]]
    /\ sessions' = [p \in Procs |-> IF p \in P THEN 0 ELSE sessions[p]]
    /\ UNCHANGED <<pidPath, pidText>>
-----------------------------------------------------------------------------
(* handle_stale_pid_file and terminate_and_wait.                            *)

\* read_pid_file: no file and an empty file count as no process.
Recorded == IF pidPath = None THEN None ELSE pidText[pidPath]

\* Sends SIGTERM to q, a process other than the sender.
Terminate(q) ==
    IF AfterTerm(q) = "dead"
    THEN /\ Released({q})
         /\ fd' = [fd EXCEPT ![q] = None]
         /\ UNCHANGED <<pidPath, pidText>>
    ELSE UNCHANGED files

Start(p) ==
    /\ Cardinality({q \in Procs : Alive(q)}) < MaxAtOnce
    /\ At(p, "off") /\ \A q \in 1..(p - 1) : pc[q] # "off"
    /\ LET q == Recorded IN
       IF q # None /\ Alive(q)
       THEN /\ pc' = [pc EXCEPT ![p] = "wait", ![q] = AfterTerm(q)]
            /\ victim' = [victim EXCEPT ![p] = q]
            /\ Terminate(q)
            /\ sessions' = [sessions EXCEPT ![q] = IF AfterTerm(q) = "dead" THEN 0 ELSE @]
       ELSE /\ Goto(p, "open")
            /\ UNCHANGED <<victim, files, sessions>>
    /\ overlapped' = (overlapped \/ \E r \in Procs : pc[r] \in Starting)
    /\ UNCHANGED <<socks, stopper, bounds>>

\* Mutant: the start does not wait for the process it has signalled.
WaitExitsAtOnce(p) ==
    /\ At(p, "wait")
    /\ Goto(p, "open")
    /\ victim' = [victim EXCEPT ![p] = None]
    /\ UNCHANGED <<files, socks, sessions, stopper, bounds, overlapped>>

\* The poll finds that the process has exited.
WaitExits(p) ==
    /\ At(p, "wait") /\ ~Alive(victim[p])
    /\ Goto(p, "open")
    /\ victim' = [victim EXCEPT ![p] = None]
    /\ UNCHANGED <<files, socks, sessions, stopper, bounds, overlapped>>

\* STALE_PROCESS_TIMEOUT has passed: SIGKILL.
WaitKills(p) ==
    /\ At(p, "wait") /\ Alive(victim[p])
    /\ Die({victim[p]})
    /\ UNCHANGED <<victim, socks, stopper, bounds, overlapped>>
-----------------------------------------------------------------------------
(* tokio_main_daemon, up to "unimatrix daemon ready".                       *)

\* open_store_with_retry: SQLite lets several processes in.
OpenStore(p) ==
    /\ At(p, "open")
    /\ Goto(p, "create")
    /\ UNCHANGED <<victim, files, socks, sessions, stopper, bounds, overlapped>>

\* PidGuard::acquire: opens the PID file, or creates it, without truncating it.
OpenPidFile(p) ==
    /\ At(p, "create")
    /\ Goto(p, "lock")
    /\ IF pidPath = None
       THEN pidPath' = p /\ fd' = [fd EXCEPT ![p] = p]
       ELSE fd' = [fd EXCEPT ![p] = pidPath] /\ UNCHANGED pidPath
    /\ UNCHANGED <<victim, pidText, flock, socks, sessions, stopper, bounds, overlapped>>

\* Mutant: the error of try_lock_exclusive is ignored.
LockPidFileIgnored(p) ==
    /\ At(p, "lock")
    /\ flock' = [flock EXCEPT ![fd[p]] = IF @ = None THEN p ELSE @]
    /\ pidText' = [pidText EXCEPT ![fd[p]] = None]
    /\ Goto(p, "write")
    /\ UNCHANGED <<fd, victim, pidPath, socks, sessions, stopper, bounds, overlapped>>

\* try_lock_exclusive and the truncation.  A start that does not get the lock
\* goes on without a PidGuard.
LockPidFile(p) ==
    /\ At(p, "lock")
    /\ IF flock[fd[p]] = None
       THEN /\ flock' = [flock EXCEPT ![fd[p]] = p]
            /\ pidText' = [pidText EXCEPT ![fd[p]] = None]
            /\ Goto(p, "write")
            /\ UNCHANGED fd
       ELSE /\ fd' = [fd EXCEPT ![p] = None]
            /\ Goto(p, "unlinkHook")
            /\ UNCHANGED <<pidText, flock>>
    /\ UNCHANGED <<victim, pidPath, socks, sessions, stopper, bounds, overlapped>>

WritePidFile(p) ==
    /\ At(p, "write")
    /\ pidText' = [pidText EXCEPT ![fd[p]] = p]
    /\ Goto(p, "unlinkHook")
    /\ UNCHANGED <<victim, fd, pidPath, flock, socks, sessions, stopper, bounds, overlapped>>

\* handle_stale_socket: unlinks whatever socket is at the path.
UnlinkHook(p) ==
    /\ At(p, "unlinkHook")
    /\ hookSock' = None
    /\ Goto(p, "bindHook")
    /\ UNCHANGED <<victim, files, mcpSock, sessions, stopper, bounds, overlapped>>

\* start_uds_listener: bind refuses a path that exists.
BindHook(p) ==
    /\ At(p, "bindHook") /\ hookSock = None
    /\ hookSock' = p
    /\ Goto(p, "unlinkMcp")
    /\ UNCHANGED <<victim, files, mcpSock, sessions, stopper, bounds, overlapped>>

\* start_mcp_uds_listener.
UnlinkMcp(p) ==
    /\ At(p, "unlinkMcp")
    /\ mcpSock' = None
    /\ Goto(p, "bindMcp")
    /\ UNCHANGED <<victim, files, hookSock, sessions, stopper, bounds, overlapped>>

BindMcp(p) ==
    /\ At(p, "bindMcp") /\ mcpSock = None
    /\ mcpSock' = p
    /\ Goto(p, "ready")
    /\ UNCHANGED <<victim, files, hookSock, sessions, stopper, bounds, overlapped>>

\* The task of shutdown_signal runs and has the handlers installed.
InstallHandler(p) ==
    /\ At(p, "ready")
    /\ Goto(p, "serving")
    /\ UNCHANGED <<victim, files, socks, sessions, stopper, bounds, overlapped>>

\* A step of the start fails (the store does not open, the path of a socket is
\* taken, the vector index does not load...): main returns.  The guard of the
\* hook socket, if there is one, unlinks the path, and then that of the PID file.
StartFails(p) ==
    /\ pc[p] \in {"open", "unlinkHook", "bindHook", "unlinkMcp", "bindMcp"}
    /\ Goto(p, IF pc[p] \in {"unlinkMcp", "bindMcp"} THEN "failed" ELSE "pidGuard")
    /\ UNCHANGED <<victim, files, socks, sessions, stopper, bounds, overlapped>>
-----------------------------------------------------------------------------
(* run_mcp_acceptor and run_session.                                        *)

\* The accept loop runs until Step 0 of the shutdown: the cancelled token and a
\* connection are picked from in any order.  MAX_CONCURRENT_SESSIONS is a soft
\* cap, counted inside the tasks; MaxSessions is a bound.
AcceptSession(p) ==
    /\ pc[p] \in {"ready", "serving", "grace"} /\ mcpSock = p
    /\ sessions[p] < MaxSessions
    /\ sessions' = [sessions EXCEPT ![p] = @ + 1]
    /\ UNCHANGED <<pc, victim, files, socks, stopper, bounds, overlapped>>

\* The client disconnects, or the cancelled token reaches the session between
\* two requests.  Nothing bounds how long a request may take.
SessionEnds(p) ==
    /\ sessions[p] > 0
    /\ sessions' = [sessions EXCEPT ![p] = @ - 1]
    /\ UNCHANGED <<pc, victim, files, socks, stopper, bounds, overlapped>>
-----------------------------------------------------------------------------
(* graceful_shutdown, 100 ms after the signal.                              *)

\* Mutant: Step 0 waits for the sessions, however long they take.
StopAcceptorsJoined(p) ==
    /\ At(p, "grace") /\ sessions[p] = 0
    /\ Goto(p, "mcpGuard")
    /\ UNCHANGED <<victim, files, socks, sessions, stopper, bounds, overlapped>>

\* Mutant: the PidGuard is dropped first, before the guards of the sockets.
StopAcceptorsReleasesPid(p) ==
    /\ At(p, "grace")
    /\ Goto(p, "mcpGuard")
    /\ IF fd[p] # None THEN pidPath' = None ELSE UNCHANGED pidPath
    /\ UNCHANGED <<victim, fd, pidText, flock, socks, sessions, stopper, bounds, overlapped>>

\* Step 0: abort cancels the acceptor wherever it is, also in the loop that
\* joins the sessions; the wait of 35 s is for the acceptor alone.
StopAcceptors(p) ==
    /\ At(p, "grace")
    /\ Goto(p, "mcpGuard")
    /\ UNCHANGED <<victim, files, socks, sessions, stopper, bounds, overlapped>>

\* Step 0a: SocketGuard::drop unlinks the path.
DropMcpGuard(p) ==
    /\ At(p, "mcpGuard")
    /\ mcpSock' = None
    /\ Goto(p, "hookGuard")
    /\ UNCHANGED <<victim, files, hookSock, sessions, stopper, bounds, overlapped>>

\* Steps 0b and 0c; also the end of a start that has bound the hook socket.
DropHookGuard(p) ==
    /\ pc[p] \in {"hookGuard", "failed"}
    /\ hookSock' = None
    /\ Goto(p, IF pc[p] = "failed" THEN "pidGuard" ELSE "dump")
    /\ UNCHANGED <<victim, files, mcpSock, sessions, stopper, bounds, overlapped>>

\* Steps 0d, 1 and 1b: the tick is aborted, the index and the adaptation state
\* are saved; a failure is logged.
DumpAndSave(p) ==
    /\ At(p, "dump")
    /\ Goto(p, "unwrap")
    /\ UNCHANGED <<victim, files, socks, sessions, stopper, bounds, overlapped>>

\* Steps 2 and 3: the database is compacted if nobody else holds the store,
\* else the compaction is skipped.
UnwrapStore(p) ==
    /\ At(p, "unwrap")
    /\ Goto(p, "pidGuard")
    /\ UNCHANGED <<victim, files, socks, sessions, stopper, bounds, overlapped>>

\* PidGuard::drop unlinks the path; the lock goes with the descriptor.
DropPidGuard(p) ==
    /\ At(p, "pidGuard")
    /\ Goto(p, "exit")
    /\ IF fd[p] # None
       THEN /\ pidPath' = None
            /\ flock' = [flock EXCEPT ![fd[p]] = None]
            /\ fd' = [fd EXCEPT ![p] = None]
            /\ UNCHANGED pidText
       ELSE UNCHANGED files
    /\ UNCHANGED <<victim, socks, sessions, stopper, bounds, overlapped>>

\* main has returned: the runtime waits for the blocking work of the sessions
\* and drops their tasks.
Exit(p) ==
    /\ At(p, "exit")
    /\ Die({p})
    /\ UNCHANGED <<victim, socks, stopper, bounds, overlapped>>
-----------------------------------------------------------------------------
(* run_stop, and the crash of a process.                                    *)

StopCommand ==
    /\ stopper = None /\ stops < MaxStops
    /\ stops' = stops + 1
    /\ LET q == Recorded IN
       /\ q # None /\ Alive(q)
       /\ stopper' = q
       /\ Goto(q, AfterTerm(q))
       /\ Terminate(q)
       /\ sessions' = [sessions EXCEPT ![q] = IF AfterTerm(q) = "dead" THEN 0 ELSE @]
    /\ UNCHANGED <<victim, socks, crashes, overlapped>>

StopReturns ==
    /\ stopper # None /\ ~Alive(stopper)
    /\ stopper' = None
    /\ UNCHANGED <<pc, victim, files, socks, sessions, bounds, overlapped>>

\* 15 s have passed: SIGKILL.
StopKills ==
    /\ stopper # None /\ Alive(stopper)
    /\ Die({stopper})
    /\ UNCHANGED <<victim, socks, stopper, bounds, overlapped>>

Crash(p) ==
    /\ Alive(p) /\ crashes < MaxCrashes
    /\ crashes' = crashes + 1
    /\ Die({p})
    /\ UNCHANGED <<victim, socks, stopper, stops, overlapped>>
-----------------------------------------------------------------------------
Init ==
    /\ pc = [p \in Procs |-> "off"]
    /\ victim = [p \in Procs |-> None]
    /\ fd = [p \in Procs |-> None]
    /\ pidPath = None
    /\ pidText = [p \in Procs |-> None]
    /\ flock = [p \in Procs |-> None]
    /\ hookSock = None /\ mcpSock = None
    /\ sessions = [p \in Procs |-> 0]
    /\ stopper = None /\ stops = 0 /\ crashes = 0
    /\ overlapped = FALSE

\* What the main thread of a process does next.
MainStep(p) ==
    \/ WaitExits(p) \/ WaitKills(p)
    \/ OpenStore(p) \/ OpenPidFile(p) \/ LockPidFile(p) \/ WritePidFile(p)
    \/ UnlinkHook(p) \/ BindHook(p) \/ UnlinkMcp(p) \/ BindMcp(p)
    \/ InstallHandler(p) \/ StartFails(p)
    \/ StopAcceptors(p) \/ DropMcpGuard(p) \/ DropHookGuard(p)
    \/ DumpAndSave(p) \/ UnwrapStore(p) \/ DropPidGuard(p) \/ Exit(p)

StopStep == StopReturns \/ StopKills

Next ==
    \/ \E p \in Procs : Start(p) \/ MainStep(p)
    \/ \E p \in Procs : AcceptSession(p) \/ SessionEnds(p) \/ Crash(p)
    \/ StopCommand \/ StopStep

Spec == Init /\ [][Next]_vars

(***************************************************************************)
(* Processes are scheduled, and the blocking work that the runtime waits   *)
(* for at the exit comes to an end.  Sessions may stay for ever.           *)
(***************************************************************************)
FairSpec == Spec /\ \A p \in Procs : WF_vars(MainStep(p))
-----------------------------------------------------------------------------
ShapeOK ==
    /\ pc \in [Procs -> Starting \cup Stopping \cup Gone \cup {"serving"}]
    /\ victim \in [Procs -> Procs \cup {None}]
    /\ fd \in [Procs -> Procs \cup {None}]
    /\ pidPath \in Procs \cup {None}
    /\ pidText \in [Procs -> Procs \cup {None}]
    /\ flock \in [Procs -> Procs \cup {None}]
    /\ {hookSock, mcpSock, stopper} \subseteq Procs \cup {None}
    /\ sessions \in [Procs -> 0..MaxSessions]
    /\ stops \in 0..MaxStops /\ crashes \in 0..MaxCrashes
    /\ overlapped \in BOOLEAN

\* Where a process may have a PID file open, and where it must.
MayHaveFile == (Starting \ {"wait", "open", "create"}) \cup {"serving"} \cup (Stopping \ {"exit"})
MustHaveFile == {"lock", "write"}

(***************************************************************************)
(* The shape of the state.  A lock belongs to a process that has the file  *)
(* open; a process has one open from its opening to the drop of its        *)
(* PidGuard at most, and past the locking only with the lock, also when    *)
(* starts overlap: a start that does not get the lock has no PidGuard that *)
(* could unlink the path of another (PidGuard::acquire).                   *)
(***************************************************************************)
TypeOK ==
    /\ ShapeOK
    /\ \A f \in Procs : flock[f] # None => fd[flock[f]] = f
    /\ \A p \in Procs :
        /\ fd[p] # None => pc[p] \in MayHaveFile /\ (flock[fd[p]] = p <=> ~At(p, "lock"))
        /\ pc[p] \in MustHaveFile => fd[p] # None

(***************************************************************************)
(* As long as no two starts overlap, a start replaces its predecessor: two *)
(* processes never serve the same project, whatever was killed, failed or  *)
(* is still shutting down, and a process that unlinks a socket as stale    *)
(* (handle_stale_socket) takes it from nobody alive.                       *)
(***************************************************************************)
ServingAlone ==
    ~overlapped => \A p, q \in Procs : pc[p] \in Owning /\ pc[q] \in Owning => p = q

(***************************************************************************)
(* A serving process can be found: the sockets at both paths are its own,  *)
(* and the PID file names it and is locked by it, so that a stop command   *)
(* and the next start reach it.  The guards of its predecessor unlink by   *)
(* path and must all have run before it binds.                             *)
(***************************************************************************)
ServingReachable ==
    \A p \in Procs : At(p, "serving") /\ ~overlapped =>
        /\ hookSock = p /\ mcpSock = p
        /\ pidPath # None /\ pidText[pidPath] = p /\ flock[pidPath] = p

(***************************************************************************)
(* No process stays between starting and serving, or between the signal    *)
(* and its exit: no start waits for ever for the one it replaces, and no   *)
(* session, however long it takes, keeps the shutdown from ending.         *)
(***************************************************************************)
NoLimbo ==
    \A p \in Procs : pc[p] \in Starting \cup Stopping ~> pc[p] \in {"serving", "dead"}

(***************************************************************************)
(* "By this point: session task clones are dropped (Step 0 joined them)"   *)
(* (shutdown.rs, Step 2): when the holders of the store are dropped for    *)
(* the compaction, no session is left that holds it too.                   *)
(***************************************************************************)
SessionsJoined == \A p \in Procs : At(p, "unwrap") => sessions[p] = 0
=============================================================================
