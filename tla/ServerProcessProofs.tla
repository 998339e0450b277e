------------------------- MODULE ServerProcessProofs -------------------------
(***************************************************************************)
(* What holds of the daemon processes of one project for every number of   *)
(* starts, of processes alive at once, of sessions, stop commands and      *)
(* crashes.                                                                *)
(*                                                                         *)
(* ServingAlone and ServingReachable speak of processes that own the       *)
(* sockets.  What protects them is the PID file, and that is what the      *)
(* inductive invariant follows: as long as no two starts overlap, at most  *)
(* one process has the PID file open; it is the file at the PID path; once *)
(* its holder is past the write it is locked by the holder and names it,   *)
(* so that the next start finds its predecessor there and waits until it   *)
(* has let go of the file.                                                 *)
(***************************************************************************)
EXTENDS ServerProcess, TLAPS

\* Where a process certainly has the PID file, locked and written.
Holding == {"unlinkHook", "bindHook", "unlinkMcp", "bindMcp", "ready", "serving", "grace",
            "mcpGuard", "hookGuard", "failed", "dump", "unwrap"}

\* Where the socket at the path of the listener is the process's own.
HookBound == {"unlinkMcp", "bindMcp", "ready", "serving", "grace", "mcpGuard", "hookGuard",
              "failed"}
McpBound == {"ready", "serving", "grace", "mcpGuard"}

OneStarter == \A p, q \in Procs : pc[p] \in Starting /\ pc[q] \in Starting => p = q
OneHolder == \A p, q \in Procs : fd[p] # None /\ fd[q] # None => p = q

\* The file a process has open is the one at the path; the lock and the text
\* are as far as the process is.
HoldsPath ==
    \A p \in Procs : fd[p] # None =>
        /\ pc[p] \in {"lock", "write", "pidGuard"} \cup Holding
        /\ fd[p] = pidPath
        /\ flock[pidPath] = IF pc[p] = "lock" THEN None ELSE p
        /\ pc[p] \notin {"lock", "write"} => pidText[pidPath] = p

HasFile == \A p \in Procs : pc[p] \in {"lock", "write"} \cup Holding => fd[p] # None

\* Nobody but the process a start waits for has the PID file, and nobody at all
\* once it has waited.
WayFree ==
    \A p \in Procs :
        /\ pc[p] \in {"open", "create"} => \A q \in Procs : fd[q] = None
        /\ pc[p] = "wait" => /\ victim[p] \in Procs
                             /\ \A q \in Procs : fd[q] # None => q = victim[p]

LocksHeld == \A f \in Procs : flock[f] # None => fd[flock[f]] = f

SocketsOwn ==
    \A p \in Procs : /\ pc[p] \in HookBound => hookSock = p
                     /\ pc[p] \in McpBound => mcpSock = p

Orderly ==
    /\ OneStarter /\ OneHolder /\ HoldsPath /\ HasFile
    /\ WayFree /\ LocksHeld /\ SocketsOwn

ProcessInv == ShapeOK /\ (~overlapped => Orderly)
-----------------------------------------------------------------------------
(* Types. *)

Labels == Starting \cup Stopping \cup Gone \cup {"serving"}

LEMMA NoneIsNoProcess == None \notin Procs
BY ProcessAssumption DEF None, Procs

LEMMA AfterTermIsLabel ==
    ASSUME ShapeOK, NEW q \in Procs
    PROVE  AfterTerm(q) \in Labels
BY DEF ShapeOK, AfterTerm, Labels, Gone, Stopping

LEMMA RecordedIsProcess ==
    ASSUME ShapeOK
    PROVE  Recorded \in Procs \cup {None}
BY DEF ShapeOK, Recorded

\* Killing processes keeps the types.
LEMMA DieTypes ==
    ASSUME ShapeOK, NEW P, Die(P)
    PROVE  /\ pc' \in [Procs -> Labels]
           /\ fd' \in [Procs -> Procs \cup {None}]
           /\ flock' \in [Procs -> Procs \cup {None}]
           /\ sessions' \in [Procs -> 0..MaxSessions]
           /\ pidPath' = pidPath /\ pidText' = pidText
BY ProcessAssumption DEF ShapeOK, Die, Released, Labels, Gone

LEMMA TerminateTypes ==
    ASSUME ShapeOK, NEW q \in Procs, Terminate(q)
    PROVE  /\ fd' \in [Procs -> Procs \cup {None}]
           /\ flock' \in [Procs -> Procs \cup {None}]
           /\ pidPath' = pidPath /\ pidText' = pidText
BY DEF ShapeOK, Terminate, Released, files

\* A step of the main thread of a process, but for the three that kill.
QuietStep(p) ==
    \/ WaitExits(p)
    \/ OpenStore(p) \/ OpenPidFile(p) \/ LockPidFile(p) \/ WritePidFile(p)
    \/ UnlinkHook(p) \/ BindHook(p) \/ UnlinkMcp(p) \/ BindMcp(p)
    \/ InstallHandler(p) \/ StartFails(p)
    \/ StopAcceptors(p) \/ DropMcpGuard(p) \/ DropHookGuard(p)
    \/ DumpAndSave(p) \/ UnwrapStore(p) \/ DropPidGuard(p)

LEMMA StepCases ==
    ASSUME Next
    PROVE  \/ \E p \in Procs : Start(p) \/ QuietStep(p) \/ WaitKills(p) \/ Exit(p)
           \/ \E p \in Procs : AcceptSession(p) \/ SessionEnds(p) \/ Crash(p)
           \/ StopCommand \/ StopReturns \/ StopKills
BY DEF Next, MainStep, QuietStep, StopStep

LEMMA QuietTypes ==
    ASSUME ShapeOK, NEW p \in Procs, QuietStep(p)
    PROVE  ShapeOK'
<1>1. CASE WaitExits(p)
  BY <1>1 DEF WaitExits, Goto, ShapeOK, files, socks, bounds, Starting
<1>2. CASE OpenStore(p) \/ InstallHandler(p) \/ StartFails(p) \/ StopAcceptors(p)
           \/ DumpAndSave(p) \/ UnwrapStore(p)
  BY <1>2 DEF OpenStore, InstallHandler, StartFails, StopAcceptors, DumpAndSave, UnwrapStore,
     Goto, ShapeOK, files, socks, bounds, Starting, Stopping
<1>3. CASE OpenPidFile(p)
  BY <1>3 DEF OpenPidFile, Goto, ShapeOK, socks, bounds, Starting
<1>4. CASE LockPidFile(p)
  BY <1>4 DEF LockPidFile, Goto, ShapeOK, socks, bounds, Starting
<1>5. CASE WritePidFile(p)
  BY <1>5 DEF WritePidFile, Goto, ShapeOK, socks, bounds, Starting
<1>6. CASE UnlinkHook(p) \/ BindHook(p) \/ UnlinkMcp(p) \/ BindMcp(p)
  BY <1>6 DEF UnlinkHook, BindHook, UnlinkMcp, BindMcp, Goto, ShapeOK, files, bounds, Starting
<1>7. CASE DropMcpGuard(p) \/ DropHookGuard(p)
  BY <1>7 DEF DropMcpGuard, DropHookGuard, Goto, ShapeOK, files, bounds, Stopping
<1>8. CASE DropPidGuard(p)
  BY <1>8 DEF DropPidGuard, Goto, ShapeOK, files, socks, bounds, Stopping
<1> QED BY <1>1, <1>2, <1>3, <1>4, <1>5, <1>6, <1>7, <1>8 DEF QuietStep

LEMMA TypesPreserved ==
    ASSUME ShapeOK, [Next]_vars
    PROVE  ShapeOK'
<1>1. CASE UNCHANGED vars
  BY <1>1 DEF vars, files, socks, bounds, ShapeOK
<1>2. ASSUME NEW p \in Procs, QuietStep(p)
      PROVE  ShapeOK'
  BY <1>2, QuietTypes
<1>3. ASSUME NEW p \in Procs, Start(p)
      PROVE  ShapeOK'
  <2> DEFINE q == Recorded
  <2>1. overlapped' \in BOOLEAN
    BY <1>3 DEF Start
  <2>2. CASE q # None /\ Alive(q)
    <3>1. q \in Procs
      BY <2>2, RecordedIsProcess
    <3>2. Terminate(q) /\ pc' = [pc EXCEPT ![p] = "wait", ![q] = AfterTerm(q)]
          /\ victim' = [victim EXCEPT ![p] = q]
          /\ sessions' = [sessions EXCEPT ![q] = IF AfterTerm(q) = "dead" THEN 0 ELSE @]
      BY <1>3, <2>2 DEF Start
    <3>3. pc' \in [Procs -> Labels]
      BY <3>1, <3>2, AfterTermIsLabel DEF ShapeOK, Labels, Starting
    <3>4. victim' \in [Procs -> Procs \cup {None}]
      BY <3>1, <3>2 DEF ShapeOK
    <3>5. sessions' \in [Procs -> 0..MaxSessions]
      BY <3>1, <3>2, ProcessAssumption DEF ShapeOK
    <3> QED BY <1>3, <2>1, <3>1, <3>2, <3>3, <3>4, <3>5, TerminateTypes
            DEF Start, ShapeOK, Labels, socks, bounds
  <2>3. CASE ~(q # None /\ Alive(q))
    BY <1>3, <2>1, <2>3 DEF Start, Goto, ShapeOK, files, socks, bounds, Starting
  <2> QED BY <2>2, <2>3
<1>4. ASSUME NEW p \in Procs, WaitKills(p) \/ Exit(p) \/ Crash(p)
      PROVE  ShapeOK'
  <2>1. PICK P : Die(P)
    BY <1>4 DEF WaitKills, Exit, Crash
  <2>2. crashes' \in 0..MaxCrashes
    BY <1>4, ProcessAssumption DEF WaitKills, Exit, Crash, ShapeOK, bounds
  <2> QED BY <1>4, <2>1, <2>2, DieTypes DEF WaitKills, Exit, Crash, ShapeOK, Labels, socks, bounds
<1>5. ASSUME NEW p \in Procs, AcceptSession(p) \/ SessionEnds(p)
      PROVE  ShapeOK'
  BY <1>5, ProcessAssumption DEF AcceptSession, SessionEnds, ShapeOK, files, socks, bounds
<1>6. CASE StopCommand
  <2> DEFINE q == Recorded
  <2>1. q \in Procs
    BY <1>6, RecordedIsProcess DEF StopCommand
  <2>2. stops' \in 0..MaxStops
    BY <1>6, ProcessAssumption DEF StopCommand, ShapeOK
  <2>3. pc' \in [Procs -> Labels]
    BY <1>6, <2>1, AfterTermIsLabel DEF StopCommand, Goto, ShapeOK, Labels
  <2>4. sessions' \in [Procs -> 0..MaxSessions]
    BY <1>6, <2>1, ProcessAssumption DEF StopCommand, ShapeOK
  <2> QED BY <1>6, <2>1, <2>2, <2>3, <2>4, TerminateTypes DEF StopCommand, ShapeOK, Labels, socks
<1>7. CASE StopReturns
  BY <1>7 DEF StopReturns, ShapeOK, files, socks, bounds
<1>8. CASE StopKills
  BY <1>8, DieTypes DEF StopKills, ShapeOK, Labels, socks, bounds
<1> QED BY <1>1, <1>2, <1>3, <1>4, <1>5, <1>6, <1>7, <1>8, StepCases

LEMMA InitTypes == Init => ShapeOK
<1> SUFFICES ASSUME Init PROVE ShapeOK
  OBVIOUS
<1>1. pc \in [Procs -> Labels]
  BY DEF Init, Labels, Gone
<1>2. overlapped \in BOOLEAN
  BY DEF Init
<1>3. stops \in 0..MaxStops /\ crashes \in 0..MaxCrashes
      /\ sessions \in [Procs -> 0..MaxSessions]
  BY ProcessAssumption DEF Init
<1>4. {hookSock, mcpSock, stopper} \subseteq Procs \cup {None}
  BY DEF Init
<1> QED BY <1>1, <1>2, <1>3, <1>4 DEF Init, ShapeOK, Labels

\* What TypeOK says of the locks and of the files that are open.
LocksOK ==
    /\ \A f \in Procs : flock[f] # None => fd[flock[f]] = f
    /\ \A p \in Procs :
        /\ fd[p] # None => pc[p] \in MayHaveFile /\ (flock[fd[p]] = p <=> pc[p] # "lock")
        /\ pc[p] \in MustHaveFile => fd[p] # None

\* A process that ends, or gets SIGTERM, keeps no lock and takes none from others.
LEMMA EndKeepsLocks ==
    ASSUME ShapeOK, LocksOK, NEW P, Released(P),
           fd' = [p \in Procs |-> IF p \in P THEN None ELSE fd[p]],
           NEW l \in [Procs -> Labels], pc' = l,
           \A p \in Procs : p \notin P =>
               l[p] = pc[p] \/ (pc[p] = "off" /\ l[p] \in {"wait", "open"})
                           \/ (pc[p] = "serving" /\ l[p] = "grace"),
           \A p \in P \cap Procs : l[p] = "dead"
    PROVE  LocksOK'
<1> USE NoneIsNoProcess
<1>1. \A f \in Procs : flock'[f] = IF flock[f] \in P THEN None ELSE flock[f]
  BY DEF Released
<1>2. \A f \in Procs : flock'[f] # None => fd'[flock'[f]] = f
  BY <1>1 DEF ShapeOK, LocksOK
<1>3. ASSUME NEW p \in Procs, fd'[p] # None
      PROVE  pc'[p] \in MayHaveFile /\ (flock'[fd'[p]] = p <=> pc'[p] # "lock")
  <2>1. p \notin P /\ fd'[p] = fd[p] /\ fd[p] \in Procs
    BY <1>3 DEF ShapeOK
  <2>2. pc[p] \in MayHaveFile /\ (flock[fd[p]] = p <=> pc[p] # "lock")
    BY <2>1, <1>3 DEF LocksOK
  <2>3. pc'[p] = pc[p] \/ (pc[p] = "serving" /\ pc'[p] = "grace")
    BY <2>1, <2>2 DEF MayHaveFile, Starting, Stopping
  <2>4. pc'[p] \in MayHaveFile
    BY <2>2, <2>3 DEF MayHaveFile, Starting, Stopping
  <2> QED BY <1>1, <2>1, <2>2, <2>3, <2>4
<1>4. ASSUME NEW p \in Procs, pc'[p] \in MustHaveFile PROVE fd'[p] # None
  BY <1>4 DEF LocksOK, MustHaveFile
<1> QED BY <1>2, <1>3, <1>4 DEF LocksOK

\* The steps of a main thread that do not kill.
LEMMA QuietKeepsLocks ==
    ASSUME ShapeOK, LocksOK, NEW p \in Procs, QuietStep(p)
    PROVE  LocksOK'
<1> USE NoneIsNoProcess
<1>1. CASE OpenPidFile(p)
  <2>1. fd[p] = None /\ flock' = flock
    BY <1>1 DEF OpenPidFile, At, LocksOK, MayHaveFile, Starting, Stopping
  <2>2. /\ \A q \in Procs : q # p => fd'[q] = fd[q] /\ pc'[q] = pc[q]
        /\ pc'[p] = "lock" /\ fd'[p] \in Procs
    BY <1>1 DEF OpenPidFile, Goto, ShapeOK
  <2>3. \A f \in Procs : flock[f] # p
    BY <2>1 DEF LocksOK
  <2>4. pc'[p] \in MayHaveFile
    BY <2>2 DEF MayHaveFile, Starting
  <2>5. \A f \in Procs : flock'[f] # None => fd'[flock'[f]] = f
    BY <2>1, <2>2, <2>3 DEF LocksOK, ShapeOK
  <2>6. flock'[fd'[p]] # p
    BY <2>1, <2>2, <2>3
  <2> QED BY <2>1, <2>2, <2>4, <2>5, <2>6 DEF LocksOK
<1>2. CASE LockPidFile(p)
  <2>1. fd[p] \in Procs /\ pc[p] = "lock"
    BY <1>2 DEF LockPidFile, At, LocksOK, MustHaveFile, ShapeOK
  <2>2. \A q \in Procs : q # p => pc'[q] = pc[q]
    BY <1>2 DEF LockPidFile, Goto, ShapeOK
  <2>3. CASE flock[fd[p]] = None
    <3>1. /\ fd' = fd /\ pc'[p] = "write"
          /\ \A f \in Procs : flock'[f] = IF f = fd[p] THEN p ELSE flock[f]
      BY <1>2, <2>1, <2>3 DEF LockPidFile, Goto, ShapeOK
    <3>2. \A f \in Procs : flock'[f] # None => fd'[flock'[f]] = f
      BY <3>1 DEF LocksOK
    <3>3. \A q \in Procs : q # p /\ fd[q] = fd[p] => pc[q] = "lock"
      BY <2>1, <2>3 DEF LocksOK
    <3> QED BY <2>1, <2>2, <3>1, <3>2, <3>3
            DEF LocksOK, ShapeOK, MayHaveFile, MustHaveFile, Starting
  <2>4. CASE flock[fd[p]] # None
    <3>1. /\ flock' = flock /\ pc'[p] = "unlinkHook"
          /\ \A q \in Procs : fd'[q] = IF q = p THEN None ELSE fd[q]
      BY <1>2, <2>1, <2>4 DEF LockPidFile, Goto, ShapeOK
    <3>2. \A f \in Procs : flock[f] # p
      <4> SUFFICES ASSUME NEW f \in Procs, flock[f] = p PROVE FALSE
        OBVIOUS
      <4>1. fd[p] = f
        BY DEF LocksOK
      <4> QED BY <2>1, <4>1 DEF LocksOK
    <3> QED BY <2>2, <3>1, <3>2 DEF LocksOK, ShapeOK, MustHaveFile
  <2> QED BY <2>3, <2>4
<1>3. CASE DropPidGuard(p)
  <2>1. \A q \in Procs : pc'[q] = IF q = p THEN "exit" ELSE pc[q]
    BY <1>3 DEF DropPidGuard, Goto, ShapeOK
  <2>2. CASE fd[p] # None
    <3>1. fd[p] \in Procs /\ flock[fd[p]] = p
      BY <1>3, <2>2 DEF DropPidGuard, At, LocksOK, ShapeOK
    <3>2. /\ \A f \in Procs : flock'[f] = IF f = fd[p] THEN None ELSE flock[f]
          /\ \A q \in Procs : fd'[q] = IF q = p THEN None ELSE fd[q]
      BY <1>3, <2>2, <3>1 DEF DropPidGuard, ShapeOK
    <3>3. \A f \in Procs : flock'[f] # None => fd'[flock'[f]] = f
      BY <3>1, <3>2 DEF LocksOK, ShapeOK
    <3>4. \A q \in Procs : q # p /\ fd[q] = fd[p] => pc[q] = "lock"
      BY <3>1 DEF LocksOK
    <3> QED BY <2>1, <3>2, <3>3, <3>4 DEF LocksOK, ShapeOK, MustHaveFile
  <2>3. CASE fd[p] = None
    BY <1>3, <2>1, <2>3 DEF DropPidGuard, files, LocksOK, MustHaveFile
  <2> QED BY <2>2, <2>3
<1>4. CASE ~OpenPidFile(p) /\ ~LockPidFile(p) /\ ~DropPidGuard(p)
  <2>1. fd' = fd /\ flock' = flock
    BY <1>4 DEF QuietStep, WaitExits, OpenStore, WritePidFile, UnlinkHook, BindHook, UnlinkMcp,
       BindMcp, InstallHandler, StartFails, StopAcceptors, DropMcpGuard, DropHookGuard,
       DumpAndSave, UnwrapStore, files
  <2>2. \A q \in Procs : q # p => pc'[q] = pc[q]
    BY <1>4 DEF QuietStep, WaitExits, OpenStore, WritePidFile, UnlinkHook, BindHook, UnlinkMcp,
       BindMcp, InstallHandler, StartFails, StopAcceptors, DropMcpGuard, DropHookGuard,
       DumpAndSave, UnwrapStore, Goto, ShapeOK
  <2>3. pc'[p] \notin MustHaveFile /\ pc[p] # "lock"
        /\ (pc[p] \in MayHaveFile => pc'[p] \in MayHaveFile)
    BY <1>4 DEF QuietStep, WaitExits, OpenStore, WritePidFile, UnlinkHook, BindHook, UnlinkMcp,
       BindMcp, InstallHandler, StartFails, StopAcceptors, DropMcpGuard, DropHookGuard,
       DumpAndSave, UnwrapStore, Goto, At, ShapeOK, MayHaveFile, MustHaveFile, Starting, Stopping
  <2> QED BY <2>1, <2>2, <2>3 DEF LocksOK, MustHaveFile
<1> QED BY <1>1, <1>2, <1>3, <1>4

\* Every step keeps the locks with those who have the files open.
LEMMA LocksPreserved ==
    ASSUME ShapeOK, LocksOK, [Next]_vars
    PROVE  LocksOK'
<1>0. ShapeOK' /\ pc' \in [Procs -> Labels] /\ pc \in [Procs -> Labels]
  BY TypesPreserved DEF ShapeOK, Labels
<1>1. CASE UNCHANGED vars
  BY <1>1 DEF vars, files, LocksOK
<1>2. ASSUME NEW p \in Procs, QuietStep(p)
      PROVE  LocksOK'
  BY <1>2, QuietKeepsLocks
<1>3. ASSUME NEW P, Die(P)
      PROVE  LocksOK'
  <2>1. \A p \in Procs : pc'[p] = IF p \in P THEN "dead" ELSE pc[p]
    BY <1>3 DEF Die
  <2> QED BY <1>0, <1>3, <2>1, EndKeepsLocks DEF Die
<1>4. ASSUME NEW q \in Procs, Terminate(q),
             \A p \in Procs : p # q => pc'[p] = pc[p]
                                       \/ (pc[p] = "off" /\ pc'[p] \in {"wait", "open"}),
             pc'[q] = AfterTerm(q)
      PROVE  LocksOK'
  <2>1. CASE AfterTerm(q) = "dead"
    <3>1. Released({q}) /\ fd' = [p \in Procs |-> IF p \in {q} THEN None ELSE fd[p]]
      BY <1>4, <2>1 DEF Terminate, ShapeOK
    <3> QED BY <1>0, <1>4, <2>1, <3>1, EndKeepsLocks
  <2>2. CASE AfterTerm(q) # "dead"
    <3>1. fd' = fd /\ flock' = flock
      BY <1>4, <2>2 DEF Terminate, files
    <3>2. pc'[q] = pc[q] \/ (pc[q] = "serving" /\ pc'[q] = "grace")
      BY <1>4, <2>2 DEF AfterTerm
    <3> QED BY <1>4, <3>1, <3>2 DEF LocksOK, MayHaveFile, MustHaveFile, Starting, Stopping
  <2> QED BY <2>1, <2>2
<1>5. ASSUME NEW p \in Procs, Start(p)
      PROVE  LocksOK'
  <2> DEFINE q == Recorded
  <2>1. CASE q # None /\ Alive(q)
    <3>1. q \in Procs /\ pc[p] = "off" /\ p # q
      BY <1>5, <2>1, RecordedIsProcess DEF Start, At, Alive, Gone
    <3>2. Terminate(q) /\ pc' = [pc EXCEPT ![p] = "wait", ![q] = AfterTerm(q)]
      BY <1>5, <2>1 DEF Start
    <3>3. \A r \in Procs : pc'[r] = IF r = q THEN AfterTerm(q) ELSE IF r = p THEN "wait" ELSE pc[r]
      BY <1>0, <3>1, <3>2
    <3> HIDE DEF q
    <3> QED BY <1>4, <3>1, <3>2, <3>3
  <2>2. CASE ~(q # None /\ Alive(q))
    <3>1. fd' = fd /\ flock' = flock /\ pc[p] = "off"
          /\ \A r \in Procs : pc'[r] = IF r = p THEN "open" ELSE pc[r]
      BY <1>0, <1>5, <2>2 DEF Start, Goto, At, files
    <3> QED BY <3>1 DEF LocksOK, MayHaveFile, MustHaveFile, Starting, Stopping
  <2> QED BY <2>1, <2>2
<1>6. CASE StopCommand
  <2> DEFINE q == Recorded
  <2>1. q \in Procs
    BY <1>6, RecordedIsProcess DEF StopCommand
  <2>2. Terminate(q) /\ \A r \in Procs : pc'[r] = IF r = q THEN AfterTerm(q) ELSE pc[r]
    BY <1>0, <1>6, <2>1 DEF StopCommand, Goto
  <2> HIDE DEF q
  <2> QED BY <1>4, <2>1, <2>2
<1>7. ASSUME NEW p \in Procs, AcceptSession(p) \/ SessionEnds(p)
      PROVE  LocksOK'
  BY <1>7 DEF AcceptSession, SessionEnds, files, LocksOK
<1>8. CASE StopReturns
  BY <1>8 DEF StopReturns, files, LocksOK
<1>9. ASSUME NEW p \in Procs, WaitKills(p) \/ Exit(p) \/ Crash(p) \/ StopKills
      PROVE  LocksOK'
  BY <1>3, <1>9 DEF WaitKills, Exit, Crash, StopKills
<1>10. CASE StopKills
  BY <1>3, <1>10 DEF StopKills
<1> QED BY <1>1, <1>2, <1>5, <1>6, <1>7, <1>8, <1>9, <1>10, StepCases

LEMMA ShapeInvariant == Spec => []ShapeOK
<1>1. Init => ShapeOK
  BY InitTypes
<1> QED BY <1>1, TypesPreserved, PTL DEF Spec

\* The state always has its shape: a lock belongs to a process that has the file
\* open, and past the locking nobody has a PID file open without its lock, also
\* when starts overlap.
THEOREM ProcessTypeCorrect == Spec => []TypeOK
<1>1. Init => LocksOK
  BY DEF Init, LocksOK, MustHaveFile
<1>2. ShapeOK /\ LocksOK /\ [Next]_vars => LocksOK'
  BY LocksPreserved
<1>3. ShapeOK /\ LocksOK => TypeOK
  BY DEF LocksOK, TypeOK, At
<1> QED BY <1>1, <1>2, <1>3, ShapeInvariant, PTL DEF Spec
-----------------------------------------------------------------------------
(* The PID file keeps the processes apart. *)

\* Processes end: what a kill, a crash, an exit and a SIGTERM during a start do
\* to what Orderly speaks of.
Fall(P) ==
    /\ pc' = [p \in Procs |-> IF p \in P THEN "dead" ELSE pc[p]]
    /\ fd' = [p \in Procs |-> IF p \in P THEN None ELSE fd[p]]
    /\ Released(P)
    /\ UNCHANGED <<pidPath, pidText, victim, socks>>

LEMMA FallKeepsOrder ==
    ASSUME ShapeOK, Orderly, NEW P, Fall(P)
    PROVE  Orderly'
<1> USE NoneIsNoProcess
<1>1. \A p \in Procs : /\ fd'[p] # None => p \notin P /\ fd'[p] = fd[p] /\ pc'[p] = pc[p]
                       /\ pc'[p] # "dead" => p \notin P /\ fd'[p] = fd[p] /\ pc'[p] = pc[p]
  BY DEF Fall, ShapeOK
<1>2. OneStarter' /\ OneHolder' /\ HasFile' /\ SocketsOwn'
  BY <1>1 DEF Fall, Orderly, OneStarter, OneHolder, HasFile, SocketsOwn, Starting, Holding,
     HookBound, McpBound, socks
<1>3. \A f \in Procs : flock'[f] = IF flock[f] \in P THEN None ELSE flock[f]
  BY DEF Fall, Released
<1>4. LocksHeld'
  BY <1>3 DEF Fall, Orderly, LocksHeld, ShapeOK
<1>5. WayFree'
  BY <1>1 DEF Fall, Orderly, WayFree
<1>6. HoldsPath'
  <2> SUFFICES ASSUME NEW p \in Procs, fd'[p] # None
               PROVE  /\ pc'[p] \in {"lock", "write", "pidGuard"} \cup Holding
                      /\ fd'[p] = pidPath'
                      /\ flock'[pidPath'] = IF pc'[p] = "lock" THEN None ELSE p
                      /\ pc'[p] \notin {"lock", "write"} => pidText'[pidPath'] = p
    BY DEF HoldsPath
  <2>1. p \notin P /\ fd'[p] = fd[p] /\ pc'[p] = pc[p]
    BY <1>1
  <2>2. pidPath' = pidPath /\ pidText' = pidText
    BY DEF Fall
  <2>3. /\ pc[p] \in {"lock", "write", "pidGuard"} \cup Holding
        /\ fd[p] = pidPath
        /\ flock[pidPath] = IF pc[p] = "lock" THEN None ELSE p
        /\ pc[p] \notin {"lock", "write"} => pidText[pidPath] = p
    BY <2>1 DEF Orderly, HoldsPath
  <2>4. flock'[pidPath] = flock[pidPath]
    BY <1>3, <2>1, <2>3 DEF ShapeOK
  <2> QED BY <2>1, <2>2, <2>3, <2>4
<1> QED BY <1>2, <1>4, <1>5, <1>6 DEF Orderly

LEMMA WaitExitsKeepsOrder ==
    ASSUME ShapeOK, Orderly, NEW p \in Procs, WaitExits(p)
    PROVE  Orderly'
<1>1. \A q \in Procs : fd[q] = None
  <2>1. victim[p] \in Procs /\ \A q \in Procs : fd[q] # None => q = victim[p]
    BY DEF WaitExits, At, Orderly, WayFree
  <2>2. pc[victim[p]] \in Gone
    BY DEF WaitExits, Alive
  <2>3. fd[victim[p]] = None
    BY <2>1, <2>2 DEF Orderly, HoldsPath, Gone, Holding
  <2> QED BY <2>1, <2>3
<1>2. \A q \in Procs : pc'[q] = IF q = p THEN "open" ELSE pc[q]
  BY DEF WaitExits, Goto, ShapeOK
<1>3. OneStarter' /\ OneHolder' /\ HoldsPath' /\ HasFile' /\ LocksHeld' /\ SocketsOwn'
  BY <1>1, <1>2 DEF WaitExits, At, Orderly, OneStarter, OneHolder, HoldsPath, HasFile, LocksHeld,
     SocketsOwn, files, socks, Starting, Holding, HookBound, McpBound
<1>4. WayFree'
  <2>1. \A q \in Procs : q # p => pc[q] # "wait"
    BY DEF WaitExits, At, Orderly, OneStarter, Starting
  <2> QED BY <1>1, <1>2, <2>1 DEF WaitExits, WayFree, files
<1> QED BY <1>3, <1>4 DEF Orderly

\* The steps that change neither the PID file nor a socket.
LEMMA GoOnKeepsOrder ==
    ASSUME ShapeOK, Orderly, NEW p \in Procs,
           \/ OpenStore(p) \/ InstallHandler(p) \/ StartFails(p) \/ StopAcceptors(p)
           \/ DumpAndSave(p) \/ UnwrapStore(p)
    PROVE  Orderly'
<1> USE DEF OpenStore, InstallHandler, StartFails, StopAcceptors, DumpAndSave, UnwrapStore,
            Goto, At, files, socks
<1>1. \A q \in Procs : q # p => pc'[q] = pc[q]
  BY DEF ShapeOK
<1>2. OneStarter' /\ OneHolder' /\ LocksHeld'
  BY DEF ShapeOK, Orderly, OneStarter, OneHolder, LocksHeld, Starting
<1>3. HasFile' /\ WayFree'
  BY DEF ShapeOK, Orderly, HasFile, WayFree, Holding
<1>4. SocketsOwn'
  BY DEF ShapeOK, Orderly, SocketsOwn, HookBound, McpBound
<1>5. HoldsPath'
  BY DEF ShapeOK, Orderly, HoldsPath, HasFile, WayFree, Holding
<1> QED BY <1>2, <1>3, <1>4, <1>5 DEF Orderly

LEMMA OpenPidFileKeepsOrder ==
    ASSUME ShapeOK, Orderly, NEW p \in Procs, OpenPidFile(p)
    PROVE  Orderly'
<1> USE NoneIsNoProcess
<1>1. \A q \in Procs : fd[q] = None
  BY DEF OpenPidFile, At, Orderly, WayFree
<1>2. \A f \in Procs : flock[f] = None
  BY <1>1 DEF Orderly, LocksHeld, ShapeOK
<1>3. \A q \in Procs : pc'[q] = IF q = p THEN "lock" ELSE pc[q]
  BY DEF OpenPidFile, Goto, ShapeOK
<1>4. pidPath' \in Procs /\ \A q \in Procs : fd'[q] = IF q = p THEN pidPath' ELSE None
  BY <1>1 DEF OpenPidFile, ShapeOK
<1>5. \A q \in Procs : q # p => pc[q] \notin Starting
  BY DEF OpenPidFile, At, Orderly, OneStarter, Starting
<1>6. \A q \in Procs : q # p => pc[q] \notin {"lock", "write"} \cup Holding
  BY <1>1 DEF Orderly, HasFile
<1>7. OneStarter' /\ OneHolder' /\ HasFile' /\ WayFree'
  BY <1>3, <1>4, <1>5, <1>6 DEF OneStarter, OneHolder, HasFile, WayFree, Starting
<1>8. HoldsPath' /\ LocksHeld'
  BY <1>2, <1>3, <1>4 DEF OpenPidFile, HoldsPath, LocksHeld
<1>9. SocketsOwn'
  BY <1>3 DEF OpenPidFile, socks, Orderly, SocketsOwn, HookBound, McpBound
<1> QED BY <1>7, <1>8, <1>9 DEF Orderly

LEMMA LockPidFileKeepsOrder ==
    ASSUME ShapeOK, Orderly, NEW p \in Procs, LockPidFile(p)
    PROVE  Orderly'
<1> USE NoneIsNoProcess
<1>1. fd[p] # None /\ fd[p] = pidPath /\ pidPath \in Procs /\ flock[pidPath] = None
  BY DEF LockPidFile, At, Orderly, HasFile, HoldsPath, ShapeOK
<1>2. /\ fd' = fd /\ flock' = [flock EXCEPT ![pidPath] = p]
      /\ \A q \in Procs : pc'[q] = IF q = p THEN "write" ELSE pc[q]
  BY <1>1 DEF LockPidFile, Goto, ShapeOK
<1>3. \A q \in Procs : q # p => fd[q] = None
  BY <1>1 DEF Orderly, OneHolder
<1>4. OneStarter' /\ OneHolder' /\ HasFile' /\ WayFree'
  BY <1>1, <1>2, <1>3 DEF LockPidFile, At, Orderly, OneStarter, OneHolder, HasFile, WayFree,
     Starting
<1>5. HoldsPath' /\ LocksHeld'
  BY <1>1, <1>2, <1>3 DEF LockPidFile, Orderly, HoldsPath, LocksHeld, ShapeOK
<1>6. SocketsOwn'
  BY <1>2 DEF LockPidFile, socks, Orderly, SocketsOwn, HookBound, McpBound
<1> QED BY <1>4, <1>5, <1>6 DEF Orderly

LEMMA WritePidFileKeepsOrder ==
    ASSUME ShapeOK, Orderly, NEW p \in Procs, WritePidFile(p)
    PROVE  Orderly'
<1> USE NoneIsNoProcess
<1>1. fd[p] # None /\ fd[p] = pidPath /\ pidPath \in Procs /\ flock[pidPath] = p
  BY DEF WritePidFile, At, Orderly, HasFile, HoldsPath, ShapeOK
<1>2. \A q \in Procs : pc'[q] = IF q = p THEN "unlinkHook" ELSE pc[q]
  BY DEF WritePidFile, Goto, ShapeOK
<1>3. \A q \in Procs : q # p => fd[q] = None
  BY <1>1 DEF Orderly, OneHolder
<1>4. OneStarter' /\ OneHolder' /\ HasFile' /\ WayFree' /\ LocksHeld'
  BY <1>1, <1>2 DEF WritePidFile, At, Orderly, OneStarter, OneHolder, HasFile, WayFree,
     LocksHeld, Starting
<1>5. HoldsPath'
  BY <1>1, <1>2, <1>3 DEF WritePidFile, HoldsPath, Holding, ShapeOK
<1>6. SocketsOwn'
  BY <1>2 DEF WritePidFile, socks, Orderly, SocketsOwn, HookBound, McpBound
<1> QED BY <1>4, <1>5, <1>6 DEF Orderly

\* The steps that unlink or bind a socket: the one process that has the PID file
\* takes them, and nobody else's socket is at the path.
LEMMA SocketStepKeepsOrder ==
    ASSUME ShapeOK, Orderly, NEW p \in Procs,
           \/ UnlinkHook(p) \/ BindHook(p) \/ UnlinkMcp(p) \/ BindMcp(p)
           \/ DropMcpGuard(p) \/ DropHookGuard(p)
    PROVE  Orderly'
<1> USE NoneIsNoProcess
<1> USE DEF UnlinkHook, BindHook, UnlinkMcp, BindMcp, DropMcpGuard, DropHookGuard,
            Goto, At, files
<1>1. pc[p] \in Holding /\ fd[p] # None
  BY DEF Orderly, HasFile, Holding
<1>2. \A q \in Procs : q # p => fd[q] = None /\ pc[q] \notin Holding
  BY <1>1 DEF Orderly, OneHolder, HasFile
<1>3. OneStarter' /\ OneHolder' /\ LocksHeld'
  BY DEF ShapeOK, Orderly, OneStarter, OneHolder, LocksHeld, Starting
<1>4. HasFile' /\ WayFree'
  BY <1>1 DEF ShapeOK, Orderly, HasFile, WayFree, Holding
<1>5. HoldsPath'
  BY <1>1, <1>2 DEF ShapeOK, Orderly, HoldsPath, Holding
<1>6. SocketsOwn'
  <2>1. \A q \in Procs : q # p => pc'[q] \notin HookBound \cup McpBound
    BY <1>2 DEF ShapeOK, Holding, HookBound, McpBound
  <2>2. (pc'[p] \in HookBound => hookSock' = p) /\ (pc'[p] \in McpBound => mcpSock' = p)
    BY DEF ShapeOK, Orderly, SocketsOwn, HookBound, McpBound
  <2> QED BY <2>1, <2>2 DEF SocketsOwn
<1> QED BY <1>3, <1>4, <1>5, <1>6 DEF Orderly

LEMMA DropPidGuardKeepsOrder ==
    ASSUME ShapeOK, Orderly, NEW p \in Procs, DropPidGuard(p)
    PROVE  Orderly'
<1> USE NoneIsNoProcess
<1>1. \A q \in Procs : pc'[q] = IF q = p THEN "exit" ELSE pc[q]
  BY DEF DropPidGuard, Goto, ShapeOK
<1>2. SocketsOwn' /\ OneStarter'
  BY <1>1 DEF DropPidGuard, socks, Orderly, SocketsOwn, OneStarter, HookBound, McpBound, Starting
<1>3. CASE fd[p] # None
  <2>1. \A q \in Procs : q # p => fd[q] = None
    BY <1>3 DEF Orderly, OneHolder
  <2>2. \A q \in Procs : fd'[q] = None
    BY <1>3, <2>1 DEF DropPidGuard, ShapeOK
  <2>3. \A f \in Procs : flock[f] # None => f = fd[p]
    BY <2>1 DEF Orderly, LocksHeld, ShapeOK
  <2>4. \A f \in Procs : flock'[f] = None
    BY <1>3, <2>3 DEF DropPidGuard, ShapeOK
  <2>5. HasFile'
    BY <1>1, <2>1 DEF Orderly, HasFile, Holding
  <2>6. WayFree'
    BY <1>1, <2>2 DEF DropPidGuard, Orderly, WayFree
  <2> QED BY <1>2, <2>2, <2>4, <2>5, <2>6 DEF Orderly, OneHolder, HoldsPath, LocksHeld
<1>4. CASE fd[p] = None
  <2>1. fd' = fd /\ pidPath' = pidPath /\ pidText' = pidText /\ flock' = flock /\ victim' = victim
    BY <1>4 DEF DropPidGuard, files
  <2>2. OneHolder' /\ HasFile' /\ WayFree' /\ LocksHeld'
    BY <1>1, <2>1 DEF Orderly, OneHolder, HasFile, WayFree, LocksHeld, Holding
  <2>3. HoldsPath'
    BY <1>1, <1>4, <2>1 DEF Orderly, HoldsPath
  <2> QED BY <1>2, <2>2, <2>3 DEF Orderly
<1> QED BY <1>3, <1>4

\* A process that is signalled and does not die of it.
Graced(q) ==
    /\ AfterTerm(q) # "dead"
    /\ pc' = [pc EXCEPT ![q] = AfterTerm(q)]
    /\ UNCHANGED <<files, victim, socks>>

LEMMA GracedKeepsOrder ==
    ASSUME ShapeOK, Orderly, NEW q \in Procs, Graced(q)
    PROVE  Orderly'
<1>1. CASE pc[q] = "serving"
  <2>1. \A r \in Procs : pc'[r] = IF r = q THEN "grace" ELSE pc[r]
    BY <1>1 DEF Graced, AfterTerm, ShapeOK, Starting
  <2>2. OneStarter' /\ OneHolder' /\ HasFile' /\ WayFree' /\ LocksHeld' /\ SocketsOwn'
    BY <1>1, <2>1 DEF Graced, files, socks, Orderly, OneStarter, OneHolder, HasFile, WayFree,
       LocksHeld, SocketsOwn, Starting, Holding, HookBound, McpBound
  <2>3. HoldsPath'
    BY <1>1, <2>1 DEF Graced, files, Orderly, HoldsPath, Holding
  <2> QED BY <2>2, <2>3 DEF Orderly
<1>2. CASE pc[q] # "serving"
  <2>1. pc' = pc
    BY <1>2 DEF Graced, AfterTerm, ShapeOK
  <2> QED BY <2>1 DEF Graced, files, socks, Orderly, OneStarter, OneHolder, HoldsPath, HasFile,
             WayFree, LocksHeld, SocketsOwn
<1> QED BY <1>1, <1>2

LEMMA StopCommandKeepsOrder ==
    ASSUME ShapeOK, Orderly, StopCommand
    PROVE  Orderly'
<1> DEFINE q == Recorded
<1>1. q \in Procs
  BY RecordedIsProcess DEF StopCommand
<1>2. pc' = [pc EXCEPT ![q] = AfterTerm(q)] /\ Terminate(q) /\ UNCHANGED <<victim, socks>>
  BY DEF StopCommand, Goto
<1> HIDE DEF q
<1>3. CASE AfterTerm(q) = "dead"
  <2>1. pc' = [p \in Procs |-> IF p \in {q} THEN "dead" ELSE pc[p]]
    BY <1>2, <1>3 DEF ShapeOK
  <2>2. fd' = [p \in Procs |-> IF p \in {q} THEN None ELSE fd[p]]
    BY <1>2, <1>3 DEF Terminate, ShapeOK
  <2>3. Fall({q})
    BY <1>2, <1>3, <2>1, <2>2 DEF Fall, Terminate
  <2> QED BY <2>3, FallKeepsOrder
<1>4. CASE AfterTerm(q) # "dead"
  BY <1>1, <1>2, <1>4, GracedKeepsOrder DEF Graced, Terminate
<1> QED BY <1>3, <1>4

\* A start finds the holder of the PID file, if there is one, in the file.
LEMMA HolderRecorded ==
    ASSUME ShapeOK, Orderly, \A r \in Procs : pc[r] \notin Starting,
           NEW h \in Procs, fd[h] # None
    PROVE  Recorded = h /\ Alive(h)
BY NoneIsNoProcess DEF Orderly, HoldsPath, Recorded, Alive, Gone, Starting, Holding, ShapeOK

LEMMA StartKeepsOrder ==
    ASSUME ShapeOK, Orderly, NEW p \in Procs, Start(p), ~overlapped'
    PROVE  Orderly'
<1> USE NoneIsNoProcess
<1> DEFINE q == Recorded
<1>1. \A r \in Procs : pc[r] \notin Starting
  BY DEF Start
<1>2. pc[p] = "off" /\ socks' = socks
  BY DEF Start, At
<1>3. fd[p] = None
  BY <1>2 DEF Orderly, HoldsPath, Holding
<1>4. CASE q # None /\ Alive(q)
  <2>1. q \in Procs /\ q # p
    BY <1>2, <1>4, RecordedIsProcess DEF Alive, Gone
  <2>2. /\ pc' = [pc EXCEPT ![p] = "wait", ![q] = AfterTerm(q)]
        /\ victim' = [victim EXCEPT ![p] = q]
        /\ Terminate(q)
    BY <1>4 DEF Start
  <2>3. \A h \in Procs : fd[h] # None => h = q
    BY <1>1, HolderRecorded
  <2> HIDE DEF q
  <2>4. AfterTerm(q) = (IF pc[q] = "serving" THEN "grace" ELSE pc[q]) /\ AfterTerm(q) # "dead"
    BY <1>1, <1>4, <2>1 DEF AfterTerm, Alive, Gone
  <2>5. files' = files
    BY <2>2, <2>4 DEF Terminate
  <2>6. \A r \in Procs :
           pc'[r] = IF r = p THEN "wait"
                    ELSE IF r = q /\ pc[q] = "serving" THEN "grace" ELSE pc[r]
    BY <2>1, <2>2, <2>4 DEF ShapeOK
  <2>7. OneStarter' /\ OneHolder' /\ HasFile' /\ LocksHeld' /\ SocketsOwn'
    BY <1>1, <1>2, <2>5, <2>6 DEF files, socks, Orderly, OneStarter, OneHolder, HasFile,
       LocksHeld, SocketsOwn, Starting, Holding, HookBound, McpBound
  <2>8. HoldsPath'
    BY <1>3, <2>5, <2>6 DEF files, Orderly, HoldsPath, Holding
  <2>9. WayFree'
    BY <1>1, <2>1, <2>2, <2>3, <2>5, <2>6 DEF files, WayFree, Starting, ShapeOK
  <2> QED BY <2>7, <2>8, <2>9 DEF Orderly
<1>5. CASE ~(q # None /\ Alive(q))
  <2>1. \A h \in Procs : fd[h] = None
    BY <1>1, <1>5, HolderRecorded
  <2>2. files' = files /\ \A r \in Procs : pc'[r] = IF r = p THEN "open" ELSE pc[r]
    BY <1>5 DEF Start, Goto, ShapeOK, files
  <2>3. OneStarter' /\ OneHolder' /\ HasFile' /\ LocksHeld' /\ SocketsOwn' /\ HoldsPath'
    BY <1>1, <1>2, <2>1, <2>2 DEF files, socks, Orderly, OneStarter, OneHolder, HasFile, LocksHeld,
       SocketsOwn, HoldsPath, Starting, Holding, HookBound, McpBound
  <2>4. WayFree'
    BY <1>1, <2>1, <2>2 DEF files, WayFree, Starting
  <2> QED BY <2>3, <2>4 DEF Orderly
<1> QED BY <1>4, <1>5

LEMMA OrderKept ==
    ASSUME ProcessInv, [Next]_vars
    PROVE  ProcessInv'
<1>1. ShapeOK /\ ShapeOK'
  BY TypesPreserved DEF ProcessInv
<1>2. ASSUME ~overlapped' PROVE ~overlapped
  <2>1. CASE UNCHANGED vars
    BY <1>2, <2>1 DEF vars
  <2>2. ASSUME NEW p \in Procs, Start(p) PROVE ~overlapped
    BY <1>2, <2>2 DEF Start
  <2>3. ASSUME NEW p \in Procs, QuietStep(p) PROVE ~overlapped
    BY <1>2, <2>3 DEF QuietStep, WaitExits, OpenStore, OpenPidFile, LockPidFile, WritePidFile,
       UnlinkHook, BindHook, UnlinkMcp, BindMcp, InstallHandler, StartFails, StopAcceptors,
       DropMcpGuard, DropHookGuard, DumpAndSave, UnwrapStore, DropPidGuard
  <2>4. ASSUME NEW p \in Procs,
               WaitKills(p) \/ Exit(p) \/ AcceptSession(p) \/ SessionEnds(p) \/ Crash(p)
        PROVE  ~overlapped
    BY <1>2, <2>4 DEF WaitKills, Exit, AcceptSession, SessionEnds, Crash
  <2>5. CASE StopCommand \/ StopReturns \/ StopKills
    BY <1>2, <2>5 DEF StopCommand, StopReturns, StopKills
  <2> QED BY <2>1, <2>2, <2>3, <2>4, <2>5, StepCases
<1> SUFFICES ASSUME ~overlapped' PROVE Orderly'
  BY <1>1 DEF ProcessInv
<1>3. Orderly
  BY <1>2 DEF ProcessInv
<1>4. ASSUME UNCHANGED <<pc, victim, files, socks>> PROVE Orderly'
  BY <1>3, <1>4 DEF files, socks, Orderly, OneStarter, OneHolder, HoldsPath, HasFile,
     WayFree, LocksHeld, SocketsOwn
<1>5. CASE UNCHANGED vars
  BY <1>4, <1>5 DEF vars
<1>6. ASSUME NEW p \in Procs, Start(p) PROVE Orderly'
  BY <1>1, <1>3, <1>6, StartKeepsOrder
<1>7. ASSUME NEW p \in Procs, QuietStep(p) PROVE Orderly'
  BY <1>1, <1>3, <1>7, WaitExitsKeepsOrder, GoOnKeepsOrder, OpenPidFileKeepsOrder,
     LockPidFileKeepsOrder, WritePidFileKeepsOrder, SocketStepKeepsOrder, DropPidGuardKeepsOrder
     DEF QuietStep
<1>8. ASSUME NEW P, Die(P), UNCHANGED <<victim, socks>> PROVE Orderly'
  <2>1. Fall(P)
    BY <1>8 DEF Die, Fall
  <2> QED BY <1>1, <1>3, <2>1, FallKeepsOrder
<1>9. ASSUME NEW p \in Procs, WaitKills(p) \/ Exit(p) \/ Crash(p) PROVE Orderly'
  BY <1>8, <1>9 DEF WaitKills, Exit, Crash
<1>10. ASSUME NEW p \in Procs, AcceptSession(p) \/ SessionEnds(p) PROVE Orderly'
  BY <1>4, <1>10 DEF AcceptSession, SessionEnds
<1>11. CASE StopCommand
  BY <1>1, <1>3, <1>11, StopCommandKeepsOrder
<1>12. CASE StopReturns
  BY <1>4, <1>12 DEF StopReturns
<1>13. CASE StopKills
  BY <1>8, <1>13 DEF StopKills
<1> QED BY <1>5, <1>6, <1>7, <1>9, <1>10, <1>11, <1>12, <1>13, StepCases

LEMMA ProcessInvHolds == Spec => []ProcessInv
<1>1. Init => ProcessInv
  <2> SUFFICES ASSUME Init PROVE ProcessInv
    OBVIOUS
  <2>1. ShapeOK
    BY InitTypes
  <2>2. Orderly
    BY DEF Init, Orderly, OneStarter, OneHolder, HoldsPath, HasFile, WayFree, LocksHeld,
       SocketsOwn, Starting, Holding, HookBound, McpBound
  <2> QED BY <2>1, <2>2 DEF ProcessInv
<1> QED BY <1>1, OrderKept, PTL DEF Spec

\* handle_stale_pid_file and PidGuard keep the processes of a project apart as
\* long as no two starts overlap: two processes never own the sockets at once,
\* with any number of starts, failures, stop commands, kills and crashes.
THEOREM ProcessServesAlone == Spec => []ServingAlone
<1>1. ProcessInv => ServingAlone
  <2> SUFFICES ASSUME ProcessInv, ~overlapped, NEW p \in Procs, NEW q \in Procs,
                      pc[p] \in Owning, pc[q] \in Owning
               PROVE  p = q
    BY DEF ServingAlone
  <2>1. pc[p] \in Holding /\ pc[q] \in Holding
    BY DEF Owning, Holding
  <2> QED BY <2>1 DEF ProcessInv, Orderly, HasFile, OneHolder
<1> QED BY <1>1, ProcessInvHolds, PTL

\* Under the same condition a process that serves is the one that clients, stop
\* commands and the next start reach: both sockets are its own, and the PID
\* file at the path names it and is locked by it.
THEOREM ProcessReachable == Spec => []ServingReachable
<1>1. ProcessInv => ServingReachable
  <2> SUFFICES ASSUME ProcessInv, NEW p \in Procs, At(p, "serving"), ~overlapped
               PROVE  /\ hookSock = p /\ mcpSock = p
                      /\ pidPath # None /\ pidText[pidPath] = p /\ flock[pidPath] = p
    BY DEF ServingReachable
  <2>1. hookSock = p /\ mcpSock = p
    BY DEF ProcessInv, Orderly, SocketsOwn, At, HookBound, McpBound
  <2>2. fd[p] # None
    BY DEF ProcessInv, Orderly, HasFile, At, Holding
  <2>3. pidPath # None /\ pidText[pidPath] = p /\ flock[pidPath] = p
    BY <2>2 DEF ProcessInv, Orderly, HoldsPath, At
  <2> QED BY <2>1, <2>3
<1> QED BY <1>1, ProcessInvHolds, PTL
=============================================================================
