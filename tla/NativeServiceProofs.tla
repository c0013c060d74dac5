------------------------- MODULE NativeServiceProofs -------------------------
(***************************************************************************)
(* Proofs about NativeService for every number of supervisors, launches    *)
(* and disturbances. IInv is the inductive invariant: it says what the     *)
(* holder of the operation lock may assume at each step, and follows every *)
(* live generation from its launch to the service, to the victim of a      *)
(* cleanup, or to the abandoned ones.                                      *)
(***************************************************************************)
EXTENDS NativeService, TLAPS

\* The operation lock, and the step of the operation under it.
LockInv ==
  /\ (holder = Nobody) = (step = "idle")
  /\ (call = "none") = (step = "idle")
  /\ (victim # 0) = (step \in {"terminate", "release"})
  /\ step \in {"attach", "spawn", "terminate", "release", "cleaned"} => process = 0
  /\ step \in {"handshake", "record", "ready"} => process # 0
  /\ process <= launches /\ victim <= launches

\* The lifecycle against the operation in progress, and against shutdown.
LifecycleInv ==
  /\ call = "restart" => lifecycle = "starting"
  /\ call = "stop" => lifecycle = "stopping" /\ step \in {"clear", "terminate", "release", "cleaned"}
  /\ call = "start" => \/ lifecycle = "starting"
                       \/ lifecycle = "failed" /\ step \in {"clear", "cleaned"} /\ process = 0
  /\ lifecycle = "starting" /\ step = "idle" => process = 0
  /\ lifecycle \in {"new", "failed", "stopped"} => process = 0
  /\ lifecycle \in {"new", "running", "stopped"} => step = "idle"
  /\ lifecycle \in {"stopping", "stopped"} => shutdown
  /\ lifecycle = "new" => launches = 0 /\ ~attached
  /\ step = "attach" => call = "start" /\ launches = 0

\* What a launch has established, and what a running service therefore has.
RunningInv ==
  /\ step \in {"record", "ready", "finish"} /\ ~attached => pidKnown
  /\ step \in {"ready", "finish"} /\ ~attached => record = process
  /\ step = "finish" /\ ~attached => process # 0
  /\ RunningIsRecorded

\* The supervisors know an attached service before they can act on it.
AttachedInv ==
  /\ AttachedIsOnlyObserved
  /\ attached => /\ call # "restart"
                 /\ step \in {"idle", "finish", "clear", "cleaned"}
                 /\ call = "start" => step = "finish"
  /\ \A s \in Supervisors :
       /\ supStep[s] # "unborn" => lifecycle # "new" /\ call # "start"
       /\ supStep[s] \in {"observe", "decide"} /\ attached => seen[s].attached
       /\ supStep[s] = "restart" => ~attached

\* No trace of a generation before it is launched; afterwards it is accounted for.
GenerationInv ==
  /\ \A g \in Gens : g > launches => ~Live(g)
  /\ LiveIsAccounted

IInv == TypeOK /\ LockInv /\ LifecycleInv /\ RunningInv /\ AttachedInv /\ GenerationInv

\* With a single supervisor: what it saw is still so when it acts on it. The
\* process it looked at is the current one or none, a dead process does not come
\* back to life, and nobody else restarts or clears the count of missed checks.
SoleSupervisor == \A s, t \in Supervisors : s = t

WatchInv ==
  /\ pidKnown => process # 0 /\ native[process] # "none"
  /\ process # 0 /\ call \in {"none", "stop"} => pidKnown
  /\ \A s \in Supervisors :
       /\ supStep[s] \in {"snapshot", "observe", "decide", "restart"} => call \in {"none", "stop"}
       /\ supStep[s] \in {"observe", "decide"} /\ ~seen[s].attached =>
            process = 0 \/ (seen[s].process = process /\ seen[s].pid)
       /\ supStep[s] = "decide" /\ ~seen[s].attached =>
            /\ verdict[s] \in {"healthy", "unready", "gone"}
            /\ verdict[s] = "gone" => ~Alive(process)
       /\ supStep[s] = "restart" => ~Alive(process) \/ unhealthy >= Threshold
-----------------------------------------------------------------------------
\* Proofs.

\* The initial states satisfy the inductive invariant.
LEMMA InitInv == Init => IInv
<1> SUFFICES ASSUME Init PROVE IInv
  OBVIOUS
<1>1. TypeOK
  <2>1. FlagsOK
    BY ZenonT(20) DEF Init, FlagsOK
  <2>2. ValuesOK
    BY ConstantsAssumption DEF Init, ValuesOK, Nothing, Lifecycles, Threads, Calls, Steps, SupSteps,
       Verdicts, Condition, Gens
  <2> QED
    BY <2>1, <2>2 DEF TypeOK
<1>2. LockInv /\ LifecycleInv /\ RunningInv /\ AttachedInv
  BY DEF Init, LockInv, LifecycleInv, RunningInv, RunningIsRecorded, AttachedInv, AttachedIsOnlyObserved
<1>3. GenerationInv
  BY ConstantsAssumption DEF Init, GenerationInv, LiveIsAccounted, Live, Gens
<1> QED
  BY <1>1, <1>2, <1>3 DEF IInv

\* Every step keeps the flags Boolean.
LEMMA FlagsStep ==
  TypeOK /\ [Next]_vars => FlagsOK'
<1> SUFFICES ASSUME TypeOK, [Next]_vars PROVE FlagsOK'
  OBVIOUS
<1> USE ConstantsAssumption DEF vars, fields, policy, lock, watchers, world, outside,
      ghosts, TypeOK, FlagsOK
<1>1. ASSUME StartSteps PROVE FlagsOK'
  BY <1>1, ZenonT(20) DEF StartSteps, BeginStart, Attach, FinishStart, StartFails,
     StartRaises, Lock, Probe, Goto, Fail, Unlock, Serving, Disturb, Gens
<1>2. ASSUME LaunchSteps PROVE FlagsOK'
  BY <1>2, ZenonT(20) DEF LaunchSteps, SpawnRefused, Spawn, SpawnWithoutPump, Handshake,
     RecordPid, AwaitReady, Disturb, Fail, Goto, Unlock, Alive, NewRecord, Serving, Gens
<1>3. ASSUME CleanupSteps PROVE FlagsOK'
  BY <1>3, ZenonT(20) DEF CleanupSteps, ClearReferences, Terminate, Release, Goto,
     Disturb, CleanupRaises
<1>4. ASSUME RestartSteps PROVE FlagsOK'
  BY <1>4, ZenonT(20) DEF RestartSteps, Relaunch, FinishRestart, RestartFails, Goto,
     Unlock, Doubled, AfterFailedRestart, Minimum
<1>5. ASSUME StopSteps PROVE FlagsOK'
  BY <1>5, ZenonT(20) DEF StopSteps, StopUnstarted, BeginStop, FinishStop, StopRaises,
     AfterUnstartedStop, Lock, Unlock
<1>6. ASSUME NEW s \in Supervisors, SupervisorStep(s) PROVE FlagsOK'
  <2>1. CASE StartSupervisor(s)
    BY <2>1, ZenonT(20) DEF StartSupervisor
  <2>2. CASE BeginSupervise(s)
    BY <2>2, ZenonT(20) DEF BeginSupervise
  <2>3. CASE ExitSupervisor(s)
    BY <2>3, ZenonT(20) DEF ExitSupervisor
  <2>4. CASE Snapshot(s)
    BY <2>4, ZenonT(20) DEF Snapshot
  <2>5. CASE Observe(s)
    BY <2>5, ZenonT(20) DEF Observe, Alive, Probe, Serving, Disturb, Gens
  <2>6. CASE Decide(s)
    BY <2>6 DEF Decide, Minimum, OnlyObserved, Patient, Nothing
  <2>7. CASE RestartDeclined(s)
    BY <2>7, ZenonT(20) DEF RestartDeclined, MayRestart
  <2>8. CASE BeginRestart(s)
    BY <2>8, ZenonT(20) DEF BeginRestart, Lock, RestartEntry, MayRestart
  <2> QED
    BY <1>6, <2>1, <2>2, <2>3, <2>4, <2>5, <2>6, <2>7, <2>8 DEF SupervisorStep
<1>7. ASSUME NEW g \in Gens, ProcessStep(g) PROVE FlagsOK'
  BY <1>7, ZenonT(20) DEF ProcessStep, GuardianSpawns, GuardianDies, NativeDies,
     GuardianExits, PumpEnds, Disturb, Gens
<1>8. ASSUME RequestShutdown \/ ExternalDies \/ BackoffElapses PROVE FlagsOK'
  BY <1>8, ZenonT(20) DEF RequestShutdown, ExternalDies, BackoffElapses, Disturb
<1>9. CASE UNCHANGED vars
  BY <1>9, ZenonT(20)
<1> QED
  BY <1>1, <1>2, <1>3, <1>4, <1>5, <1>6, <1>7, <1>8, <1>9 DEF Next

\* Every step keeps the other variables in their domains. A generation that is
\* abandoned is one that exists because a cleanup has a victim, hence LockInv.
LEMMA ValuesStep ==
  IInv /\ [Next]_vars => ValuesOK'
<1> SUFFICES ASSUME IInv, [Next]_vars PROVE ValuesOK'
  OBVIOUS
<1> USE ConstantsAssumption DEF vars, fields, policy, lock, watchers, world, outside,
      ghosts, IInv, TypeOK, ValuesOK, LockInv, Lifecycles, Threads, Calls, Steps, SupSteps,
      Verdicts, Gens, Condition
<1>1. ASSUME StartSteps PROVE ValuesOK'
  <2>1. ASSUME NEW c \in BOOLEAN, BeginStart(c) PROVE ValuesOK'
    BY <2>1 DEF BeginStart, Lock
  <2>2. CASE Attach
    BY <2>2 DEF Attach, Probe, Goto, Fail, Serving, Disturb
  <2>3. CASE FinishStart
    BY <2>3 DEF FinishStart, Unlock
  <2>4. CASE StartFails
    BY <2>4 DEF StartFails, Goto
  <2>5. CASE StartRaises
    BY <2>5 DEF StartRaises, Unlock
  <2> QED
    BY <1>1, <2>1, <2>2, <2>3, <2>4, <2>5 DEF StartSteps
<1>2. ASSUME LaunchSteps PROVE ValuesOK'
  <2>1. CASE SpawnRefused
    BY <2>1 DEF SpawnRefused, Disturb, Fail, Goto
  <2>2. CASE Spawn
    BY <2>2 DEF Spawn, Goto
  <2>3. CASE SpawnWithoutPump
    BY <2>3 DEF SpawnWithoutPump, Disturb, Fail, Unlock, Goto
  <2>4. CASE Handshake
    BY <2>4 DEF Handshake, Alive, Goto, Fail, Disturb
  <2>5. CASE RecordPid
    BY <2>5 DEF RecordPid, NewRecord, Goto, Fail, Disturb
  <2>6. CASE AwaitReady
    BY <2>6 DEF AwaitReady, Serving, Goto, Fail, Disturb
  <2> QED
    BY <1>2, <2>1, <2>2, <2>3, <2>4, <2>5, <2>6 DEF LaunchSteps
<1>3. ASSUME CleanupSteps PROVE ValuesOK'
  <2>1. CASE ClearReferences
    BY <2>1 DEF ClearReferences, Goto
  <2>2. CASE Terminate
    <3>1. victim \in Gens
      BY <2>2 DEF Terminate, Gens
    <3>2. guardian' \in [Gens -> Condition] /\ native' \in [Gens -> Condition]
      BY <2>2, <3>1 DEF Terminate, Condition
    <3>3. abandoned' \subseteq Gens
      <4>1. abandoned' = abandoned \/ abandoned' = abandoned \cup {victim}
        BY <2>2, Zenon DEF Terminate, CleanupRaises
      <4>2. abandoned \subseteq Gens
        OBVIOUS
      <4> HIDE DEF IInv, TypeOK, ValuesOK, LockInv, Gens
      <4> QED
        BY <3>1, <4>1, <4>2, Zenon
    <3> QED
      BY <2>2, <3>2, <3>3 DEF Terminate, Disturb, Goto
  <2>3. CASE Release
    <3>1. victim \in Gens
      BY <2>3 DEF Release, Gens
    <3>2. pump' \in [Gens -> Condition] /\ record' \in 0 .. MaxLaunches
      BY <2>3, <3>1 DEF Release, Condition
    <3>3. abandoned' \subseteq Gens
      BY <2>3, <3>1 DEF Release, CleanupRaises
    <3>4. faults' \in 0 .. MaxFaults
      BY <2>3 DEF Release, Disturb
    <3> QED
      BY <2>3, <3>2, <3>3, <3>4 DEF Release, Goto
  <2> QED
    BY <1>3, <2>1, <2>2, <2>3 DEF CleanupSteps
<1>4. ASSUME RestartSteps PROVE ValuesOK'
  <2>1. CASE Relaunch
    BY <2>1 DEF Relaunch, Goto
  <2>2. CASE FinishRestart
    BY <2>2 DEF FinishRestart, Unlock
  <2>3. CASE RestartFails
    BY <2>3 DEF RestartFails, Doubled, AfterFailedRestart, Unlock, Minimum
  <2> QED
    BY <1>4, <2>1, <2>2, <2>3 DEF RestartSteps
<1>5. ASSUME StopSteps PROVE ValuesOK'
  <2>1. CASE StopUnstarted
    BY <2>1 DEF StopUnstarted, AfterUnstartedStop
  <2>2. CASE BeginStop
    BY <2>2 DEF BeginStop, Lock
  <2>3. CASE FinishStop
    BY <2>3 DEF FinishStop, Unlock
  <2>4. CASE StopRaises
    BY <2>4 DEF StopRaises, Unlock
  <2> QED
    BY <1>5, <2>1, <2>2, <2>3, <2>4 DEF StopSteps
<1>6. ASSUME NEW s \in Supervisors, SupervisorStep(s) PROVE ValuesOK'
  <2>1. CASE StartSupervisor(s)
    BY <2>1 DEF StartSupervisor
  <2>2. CASE BeginSupervise(s)
    BY <2>2 DEF BeginSupervise
  <2>3. CASE ExitSupervisor(s)
    BY <2>3 DEF ExitSupervisor
  <2>4. CASE Snapshot(s)
    BY <2>4 DEF Snapshot, FlagsOK
  <2>5. CASE Observe(s)
    BY <2>5 DEF Observe, Alive, Probe, Serving, Disturb
  <2>6. CASE Decide(s)
    BY <2>6 DEF Decide, Minimum, OnlyObserved, Patient, Nothing
  <2>7. CASE RestartDeclined(s)
    BY <2>7 DEF RestartDeclined, MayRestart
  <2>8. CASE BeginRestart(s)
    BY <2>8 DEF BeginRestart, Lock, RestartEntry, MayRestart
  <2> QED
    BY <1>6, <2>1, <2>2, <2>3, <2>4, <2>5, <2>6, <2>7, <2>8 DEF SupervisorStep
<1>7. ASSUME NEW g \in Gens, ProcessStep(g) PROVE ValuesOK'
  <2>1. CASE GuardianSpawns(g)
    BY <2>1 DEF GuardianSpawns
  <2>2. CASE GuardianDies(g)
    BY <2>2 DEF GuardianDies, Disturb
  <2>3. CASE NativeDies(g)
    BY <2>3 DEF NativeDies, Disturb
  <2>4. CASE GuardianExits(g)
    BY <2>4 DEF GuardianExits
  <2>5. CASE PumpEnds(g)
    BY <2>5 DEF PumpEnds
  <2> QED
    BY <1>7, <2>1, <2>2, <2>3, <2>4, <2>5 DEF ProcessStep
<1>8. ASSUME RequestShutdown \/ ExternalDies \/ BackoffElapses PROVE ValuesOK'
  <2>1. CASE RequestShutdown
    BY <2>1 DEF RequestShutdown
  <2>2. CASE ExternalDies
    BY <2>2 DEF ExternalDies, Disturb
  <2>3. CASE BackoffElapses
    BY <2>3 DEF BackoffElapses
  <2> QED
    BY <1>8, <2>1, <2>2, <2>3
<1>9. CASE UNCHANGED vars
  BY <1>9 DEF Live
<1> QED
  BY <1>1, <1>2, <1>3, <1>4, <1>5, <1>6, <1>7, <1>8, <1>9 DEF Next

\* Every step keeps the lock, the call and the step of its holder in agreement,
\* and the victim with them.
LEMMA LockStep ==
  IInv /\ [Next]_vars => LockInv'
<1> SUFFICES ASSUME IInv, [Next]_vars PROVE LockInv'
  OBVIOUS
<1> USE ConstantsAssumption DEF vars, fields, policy, lock, watchers, world, outside,
      ghosts, IInv, TypeOK, ValuesOK, LockInv, LifecycleInv, RunningInv, AttachedInv,
      Lifecycles, Threads, Calls, Steps, SupSteps, Verdicts, Gens, Condition
<1>1. ASSUME StartSteps PROVE LockInv'
  BY <1>1 DEF StartSteps, BeginStart, Attach, FinishStart, StartFails, StartRaises,
     Lock, Probe, Goto, Fail, Unlock, Serving, Disturb
<1>2. ASSUME LaunchSteps PROVE LockInv'
  <2>1. CASE SpawnRefused
    BY <2>1 DEF SpawnRefused, Disturb, Fail, Goto
  <2>2. CASE Spawn
    BY <2>2 DEF Spawn, Goto
  <2>3. CASE SpawnWithoutPump
    BY <2>3 DEF SpawnWithoutPump, Disturb, Fail, Unlock, Goto
  <2>4. CASE Handshake
    BY <2>4 DEF Handshake, Alive, Goto, Fail, Disturb
  <2>5. CASE RecordPid
    BY <2>5 DEF RecordPid, NewRecord, Goto, Fail, Disturb
  <2>6. CASE AwaitReady
    BY <2>6 DEF AwaitReady, Serving, Goto, Fail, Disturb
  <2> QED
    BY <1>2, <2>1, <2>2, <2>3, <2>4, <2>5, <2>6 DEF LaunchSteps
<1>3. ASSUME CleanupSteps PROVE LockInv'
  <2>1. CASE ClearReferences
    BY <2>1 DEF ClearReferences, Goto
  <2>2. CASE Terminate
    BY <2>2 DEF Terminate, Disturb, CleanupRaises, Goto
  <2>3. CASE Release
    BY <2>3 DEF Release, Disturb, CleanupRaises, Goto
  <2> QED
    BY <1>3, <2>1, <2>2, <2>3 DEF CleanupSteps
<1>4. ASSUME RestartSteps PROVE LockInv'
  BY <1>4 DEF RestartSteps, Relaunch, FinishRestart, RestartFails, Goto, Unlock,
     Doubled, AfterFailedRestart, Minimum
<1>5. ASSUME StopSteps PROVE LockInv'
  BY <1>5 DEF StopSteps, StopUnstarted, BeginStop, FinishStop, StopRaises,
     AfterUnstartedStop, Lock, Unlock
<1>6. ASSUME NEW s \in Supervisors, SupervisorStep(s) PROVE LockInv'
  BY <1>6 DEF SupervisorStep, StartSupervisor, BeginSupervise, ExitSupervisor, Snapshot,
     Observe, Decide, RestartDeclined, BeginRestart, Alive, Probe, Minimum,
     OnlyObserved, Patient, Nothing, MayRestart, Lock, RestartEntry, Serving, Disturb
<1>7. ASSUME NEW g \in Gens, ProcessStep(g) PROVE LockInv'
  BY <1>7 DEF ProcessStep, GuardianSpawns, GuardianDies, NativeDies, GuardianExits,
     PumpEnds, Disturb
<1>8. ASSUME RequestShutdown \/ ExternalDies \/ BackoffElapses PROVE LockInv'
  BY <1>8 DEF RequestShutdown, ExternalDies, BackoffElapses, Disturb
<1>9. CASE UNCHANGED vars
  BY <1>9 DEF Live
<1> QED
  BY <1>1, <1>2, <1>3, <1>4, <1>5, <1>6, <1>7, <1>8, <1>9 DEF Next

\* Every step keeps the lifecycle in agreement with the operation in progress.
LEMMA LifecycleStep ==
  IInv /\ [Next]_vars => LifecycleInv'
<1> SUFFICES ASSUME IInv, [Next]_vars PROVE LifecycleInv'
  OBVIOUS
<1> USE ConstantsAssumption DEF vars, fields, policy, lock, watchers, world, outside,
      ghosts, IInv, TypeOK, ValuesOK, LockInv, LifecycleInv, AttachedInv,
      AttachedIsOnlyObserved, Lifecycles, Threads, Calls, Steps, SupSteps, Verdicts, Gens,
      Condition
<1>1. ASSUME StartSteps PROVE LifecycleInv'
  <2>1. ASSUME NEW c \in BOOLEAN, BeginStart(c) PROVE LifecycleInv'
    BY <2>1 DEF BeginStart, Lock
  <2>2. CASE Attach
    BY <2>2 DEF Attach, Probe, Goto, Fail, Serving, Disturb
  <2>3. CASE FinishStart
    BY <2>3 DEF FinishStart, Unlock
  <2>4. CASE StartFails
    BY <2>4 DEF StartFails, Goto
  <2>5. CASE StartRaises
    BY <2>5 DEF StartRaises, Unlock
  <2> QED
    BY <1>1, <2>1, <2>2, <2>3, <2>4, <2>5 DEF StartSteps
<1>2. ASSUME LaunchSteps PROVE LifecycleInv'
  BY <1>2 DEF LaunchSteps, SpawnRefused, Spawn, SpawnWithoutPump, Handshake, RecordPid,
     AwaitReady, Disturb, Fail, Goto, Unlock, Alive, NewRecord, Serving
<1>3. ASSUME CleanupSteps PROVE LifecycleInv'
  BY <1>3 DEF CleanupSteps, ClearReferences, Terminate, Release, Goto, Disturb,
     CleanupRaises
<1>4. ASSUME RestartSteps PROVE LifecycleInv'
  BY <1>4 DEF RestartSteps, Relaunch, FinishRestart, RestartFails, Goto, Unlock,
     Doubled, AfterFailedRestart, Minimum
<1>5. ASSUME StopSteps PROVE LifecycleInv'
  <2>1. CASE StopUnstarted
    BY <2>1 DEF StopUnstarted, AfterUnstartedStop
  <2>2. CASE BeginStop
    BY <2>2 DEF BeginStop, Lock
  <2>3. CASE FinishStop
    BY <2>3 DEF FinishStop, Unlock
  <2>4. CASE StopRaises
    BY <2>4 DEF StopRaises, Unlock
  <2> QED
    BY <1>5, <2>1, <2>2, <2>3, <2>4 DEF StopSteps
<1>6. ASSUME NEW s \in Supervisors, SupervisorStep(s) PROVE LifecycleInv'
  BY <1>6 DEF SupervisorStep, StartSupervisor, BeginSupervise, ExitSupervisor, Snapshot,
     Observe, Decide, RestartDeclined, BeginRestart, Alive, Probe, Minimum,
     OnlyObserved, Patient, Nothing, MayRestart, Lock, RestartEntry, Serving, Disturb
<1>7. ASSUME NEW g \in Gens, ProcessStep(g) PROVE LifecycleInv'
  BY <1>7 DEF ProcessStep, GuardianSpawns, GuardianDies, NativeDies, GuardianExits,
     PumpEnds, Disturb
<1>8. ASSUME RequestShutdown \/ ExternalDies \/ BackoffElapses PROVE LifecycleInv'
  BY <1>8 DEF RequestShutdown, ExternalDies, BackoffElapses, Disturb
<1>9. CASE UNCHANGED vars
  BY <1>9 DEF Live
<1> QED
  BY <1>1, <1>2, <1>3, <1>4, <1>5, <1>6, <1>7, <1>8, <1>9 DEF Next

\* Every step keeps the PID and its record with the process they belong to.
LEMMA RunningStep ==
  IInv /\ [Next]_vars => RunningInv'
<1> SUFFICES ASSUME IInv, [Next]_vars PROVE RunningInv'
  OBVIOUS
<1> USE ConstantsAssumption DEF vars, fields, policy, lock, watchers, world, outside,
      ghosts, IInv, TypeOK, ValuesOK, LockInv, LifecycleInv, RunningInv, AttachedInv,
      RunningIsRecorded, Lifecycles, Threads, Calls, Steps, SupSteps, Verdicts, Gens,
      Condition
<1>1. ASSUME StartSteps PROVE RunningInv'
  BY <1>1 DEF StartSteps, BeginStart, Attach, FinishStart, StartFails, StartRaises,
     Lock, Probe, Goto, Fail, Unlock, Serving, Disturb
<1>2. ASSUME LaunchSteps PROVE RunningInv'
  <2>1. CASE SpawnRefused
    BY <2>1 DEF SpawnRefused, Disturb, Fail, Goto
  <2>2. CASE Spawn
    BY <2>2 DEF Spawn, Goto
  <2>3. CASE SpawnWithoutPump
    BY <2>3 DEF SpawnWithoutPump, Disturb, Fail, Unlock, Goto
  <2>4. CASE Handshake
    BY <2>4 DEF Handshake, Alive, Goto, Fail, Disturb
  <2>5. CASE RecordPid
    BY <2>5 DEF RecordPid, NewRecord, Goto, Fail, Disturb
  <2>6. CASE AwaitReady
    BY <2>6 DEF AwaitReady, Serving, Goto, Fail, Disturb
  <2> QED
    BY <1>2, <2>1, <2>2, <2>3, <2>4, <2>5, <2>6 DEF LaunchSteps
<1>3. ASSUME CleanupSteps PROVE RunningInv'
  <2>1. CASE ClearReferences
    BY <2>1 DEF ClearReferences, Goto
  <2>2. CASE Terminate
    BY <2>2 DEF Terminate, Disturb, CleanupRaises, Goto
  <2>3. CASE Release
    BY <2>3 DEF Release, Disturb, CleanupRaises, Goto
  <2> QED
    BY <1>3, <2>1, <2>2, <2>3 DEF CleanupSteps
<1>4. ASSUME RestartSteps PROVE RunningInv'
  BY <1>4 DEF RestartSteps, Relaunch, FinishRestart, RestartFails, Goto, Unlock,
     Doubled, AfterFailedRestart, Minimum
<1>5. ASSUME StopSteps PROVE RunningInv'
  BY <1>5 DEF StopSteps, StopUnstarted, BeginStop, FinishStop, StopRaises,
     AfterUnstartedStop, Lock, Unlock
<1>6. ASSUME NEW s \in Supervisors, SupervisorStep(s) PROVE RunningInv'
  BY <1>6 DEF SupervisorStep, StartSupervisor, BeginSupervise, ExitSupervisor, Snapshot,
     Observe, Decide, RestartDeclined, BeginRestart, Alive, Probe, Minimum,
     OnlyObserved, Patient, Nothing, MayRestart, Lock, RestartEntry, Serving, Disturb
<1>7. ASSUME NEW g \in Gens, ProcessStep(g) PROVE RunningInv'
  BY <1>7 DEF ProcessStep, GuardianSpawns, GuardianDies, NativeDies, GuardianExits,
     PumpEnds, Disturb
<1>8. ASSUME RequestShutdown \/ ExternalDies \/ BackoffElapses PROVE RunningInv'
  BY <1>8 DEF RequestShutdown, ExternalDies, BackoffElapses, Disturb
<1>9. CASE UNCHANGED vars
  BY <1>9 DEF Live
<1> QED
  BY <1>1, <1>2, <1>3, <1>4, <1>5, <1>6, <1>7, <1>8, <1>9 DEF Next

\* Every step leaves an attached service without a process of its own.
LEMMA AttachedStep ==
  IInv /\ [Next]_vars => AttachedInv'
<1> SUFFICES ASSUME IInv, [Next]_vars PROVE AttachedInv'
  OBVIOUS
<1> USE ConstantsAssumption DEF vars, fields, policy, lock, watchers, world, outside,
      ghosts, IInv, TypeOK, ValuesOK, LockInv, LifecycleInv, AttachedInv,
      AttachedIsOnlyObserved, Lifecycles, Threads, Calls, Steps, SupSteps, Verdicts, Gens,
      Condition
<1>1. ASSUME StartSteps PROVE AttachedInv'
  <2>1. ASSUME NEW c \in BOOLEAN, BeginStart(c) PROVE AttachedInv'
    BY <2>1 DEF BeginStart, Lock
  <2>2. CASE Attach
    BY <2>2 DEF Attach, Probe, Goto, Fail, Serving, Disturb
  <2>3. CASE FinishStart
    BY <2>3 DEF FinishStart, Unlock
  <2>4. CASE StartFails
    BY <2>4 DEF StartFails, Goto
  <2>5. CASE StartRaises
    BY <2>5 DEF StartRaises, Unlock
  <2> QED
    BY <1>1, <2>1, <2>2, <2>3, <2>4, <2>5 DEF StartSteps
<1>2. ASSUME LaunchSteps PROVE AttachedInv'
  BY <1>2 DEF LaunchSteps, SpawnRefused, Spawn, SpawnWithoutPump, Handshake, RecordPid,
     AwaitReady, Disturb, Fail, Goto, Unlock, Alive, NewRecord, Serving
<1>3. ASSUME CleanupSteps PROVE AttachedInv'
  BY <1>3 DEF CleanupSteps, ClearReferences, Terminate, Release, Goto, Disturb,
     CleanupRaises
<1>4. ASSUME RestartSteps PROVE AttachedInv'
  BY <1>4 DEF RestartSteps, Relaunch, FinishRestart, RestartFails, Goto, Unlock,
     Doubled, AfterFailedRestart, Minimum
<1>5. ASSUME StopSteps PROVE AttachedInv'
  BY <1>5 DEF StopSteps, StopUnstarted, BeginStop, FinishStop, StopRaises,
     AfterUnstartedStop, Lock, Unlock
<1>6. ASSUME NEW s \in Supervisors, SupervisorStep(s) PROVE AttachedInv'
  <2>1. CASE StartSupervisor(s)
    BY <2>1 DEF StartSupervisor
  <2>2. CASE BeginSupervise(s)
    BY <2>2 DEF BeginSupervise
  <2>3. CASE ExitSupervisor(s)
    BY <2>3 DEF ExitSupervisor
  <2>4. CASE Snapshot(s)
    BY <2>4 DEF Snapshot
  <2>5. CASE Observe(s)
    BY <2>5 DEF Observe, Alive, Probe, Serving, Disturb
  <2>6. CASE Decide(s)
    BY <2>6 DEF Decide, Minimum, OnlyObserved, Patient, Nothing
  <2>7. CASE RestartDeclined(s)
    BY <2>7 DEF RestartDeclined, MayRestart
  <2>8. CASE BeginRestart(s)
    BY <2>8 DEF BeginRestart, Lock, RestartEntry, MayRestart
  <2> QED
    BY <1>6, <2>1, <2>2, <2>3, <2>4, <2>5, <2>6, <2>7, <2>8 DEF SupervisorStep
<1>7. ASSUME NEW g \in Gens, ProcessStep(g) PROVE AttachedInv'
  BY <1>7 DEF ProcessStep, GuardianSpawns, GuardianDies, NativeDies, GuardianExits,
     PumpEnds, Disturb
<1>8. ASSUME RequestShutdown \/ ExternalDies \/ BackoffElapses PROVE AttachedInv'
  BY <1>8 DEF RequestShutdown, ExternalDies, BackoffElapses, Disturb
<1>9. CASE UNCHANGED vars
  BY <1>9 DEF Live
<1> QED
  BY <1>1, <1>2, <1>3, <1>4, <1>5, <1>6, <1>7, <1>8, <1>9 DEF Next

\* Every step accounts for what is alive: a launch makes a generation the
\* process, a cleanup moves it to the victim, and an error to the abandoned
\* ones.
LEMMA GenerationStep ==
  IInv /\ [Next]_vars => GenerationInv'
<1> SUFFICES ASSUME IInv, [Next]_vars PROVE GenerationInv'
  OBVIOUS
<1> USE ConstantsAssumption DEF vars, fields, policy, lock, watchers, world, outside,
      ghosts, IInv, TypeOK, ValuesOK, LockInv, LifecycleInv, GenerationInv,
      LiveIsAccounted, Lifecycles, Threads, Calls, Steps, SupSteps, Verdicts, Gens,
      Condition, Live
<1>1. ASSUME StartSteps PROVE GenerationInv'
  BY <1>1 DEF StartSteps, BeginStart, Attach, FinishStart, StartFails, StartRaises,
     Lock, Probe, Goto, Fail, Unlock, Serving, Disturb
<1>2. ASSUME LaunchSteps PROVE GenerationInv'
  <2>1. CASE SpawnRefused
    BY <2>1 DEF SpawnRefused, Disturb, Fail, Goto
  <2>2. CASE Spawn
    BY <2>2 DEF Spawn, Goto
  <2>3. CASE SpawnWithoutPump
    BY <2>3 DEF SpawnWithoutPump, Disturb, Fail, Unlock, Goto
  <2>4. CASE Handshake
    BY <2>4 DEF Handshake, Alive, Goto, Fail, Disturb
  <2>5. CASE RecordPid
    BY <2>5 DEF RecordPid, NewRecord, Goto, Fail, Disturb
  <2>6. CASE AwaitReady
    BY <2>6 DEF AwaitReady, Serving, Goto, Fail, Disturb
  <2> QED
    BY <1>2, <2>1, <2>2, <2>3, <2>4, <2>5, <2>6 DEF LaunchSteps
<1>3. ASSUME CleanupSteps PROVE GenerationInv'
  <2>1. CASE ClearReferences
    BY <2>1 DEF ClearReferences, Goto
  <2>2. CASE Terminate
    BY <2>2 DEF Terminate, Disturb, CleanupRaises, Goto
  <2>3. CASE Release
    BY <2>3 DEF Release, Disturb, CleanupRaises, Goto
  <2> QED
    BY <1>3, <2>1, <2>2, <2>3 DEF CleanupSteps
<1>4. ASSUME RestartSteps PROVE GenerationInv'
  BY <1>4 DEF RestartSteps, Relaunch, FinishRestart, RestartFails, Goto, Unlock,
     Doubled, AfterFailedRestart, Minimum
<1>5. ASSUME StopSteps PROVE GenerationInv'
  BY <1>5 DEF StopSteps, StopUnstarted, BeginStop, FinishStop, StopRaises,
     AfterUnstartedStop, Lock, Unlock
<1>6. ASSUME NEW s \in Supervisors, SupervisorStep(s) PROVE GenerationInv'
  BY <1>6 DEF SupervisorStep, StartSupervisor, BeginSupervise, ExitSupervisor, Snapshot,
     Observe, Decide, RestartDeclined, BeginRestart, Alive, Probe, Minimum,
     OnlyObserved, Patient, Nothing, MayRestart, Lock, RestartEntry, Serving, Disturb
<1>7. ASSUME NEW g \in Gens, ProcessStep(g) PROVE GenerationInv'
  <2>1. CASE GuardianSpawns(g)
    BY <2>1 DEF GuardianSpawns
  <2>2. CASE GuardianDies(g)
    BY <2>2 DEF GuardianDies, Disturb
  <2>3. CASE NativeDies(g)
    BY <2>3 DEF NativeDies, Disturb
  <2>4. CASE GuardianExits(g)
    BY <2>4 DEF GuardianExits
  <2>5. CASE PumpEnds(g)
    BY <2>5 DEF PumpEnds
  <2> QED
    BY <1>7, <2>1, <2>2, <2>3, <2>4, <2>5 DEF ProcessStep
<1>8. ASSUME RequestShutdown \/ ExternalDies \/ BackoffElapses PROVE GenerationInv'
  BY <1>8 DEF RequestShutdown, ExternalDies, BackoffElapses, Disturb
<1>9. CASE UNCHANGED vars
  BY <1>9
<1> QED
  BY <1>1, <1>2, <1>3, <1>4, <1>5, <1>6, <1>7, <1>8, <1>9 DEF Next

\* The invariant is inductive.
LEMMA InvStep == IInv /\ [Next]_vars => IInv'
<1> SUFFICES ASSUME IInv, [Next]_vars PROVE IInv'
  OBVIOUS
<1>1. TypeOK'
  BY FlagsStep, ValuesStep DEF IInv, TypeOK
<1> QED
  BY <1>1, LockStep, LifecycleStep, RunningStep, AttachedStep, GenerationStep DEF IInv

\* Every reachable state of the service satisfies the inductive invariant.
THEOREM InvariantHolds == Spec => []IInv
<1>1. Init => IInv
  BY InitInv
<1>2. IInv /\ [Next]_vars => IInv'
  BY InvStep
<1> QED
  BY <1>1, <1>2, PTL DEF Spec

\* The variables stay in their domains.
THEOREM TypeCorrect == Spec => []TypeOK
<1>1. IInv => TypeOK
  BY DEF IInv
<1> QED
  BY <1>1, InvariantHolds, PTL

\* No path of start, restart and stop loses a live guardian, native process or
\* log pump: it is held, being torn down, or its operation has raised.
THEOREM NothingIsLost == Spec => []LiveIsAccounted
<1>1. IInv => LiveIsAccounted
  BY DEF IInv, GenerationInv
<1> QED
  BY <1>1, InvariantHolds, PTL

\* Without failed cleanups, two generations are never alive together: while a
\* victim is torn down the service holds no other process.
THEOREM OneInstance == Spec => []SingleInstance
<1>1. IInv => SingleInstance
  <2> SUFFICES ASSUME IInv, NEW g \in Gens \ abandoned, NEW h \in Gens \ abandoned,
                      Live(g), Live(h)
               PROVE  g = h
    BY DEF SingleInstance
  <2>1. g \in {process, victim} /\ h \in {process, victim}
    BY DEF IInv, GenerationInv, LiveIsAccounted
  <2>2. g # 0 /\ h # 0
    BY ConstantsAssumption DEF Gens
  <2>3. process = 0 \/ victim = 0
    BY DEF IInv, LockInv
  <2> QED
    BY <2>1, <2>2, <2>3
<1> QED
  BY <1>1, InvariantHolds, PTL

\* The PID record on disk names the process of a service that runs on its own.
THEOREM RecordNamesProcess == Spec => []RunningIsRecorded
<1>1. IInv => RunningIsRecorded
  BY DEF IInv, RunningInv
<1> QED
  BY <1>1, InvariantHolds, PTL

\* Nothing is ever launched for, held for, or torn down for an attached service.
THEOREM AttachedIsLeftAlone == Spec => []AttachedIsOnlyObserved
<1>1. IInv => AttachedIsOnlyObserved
  BY DEF IInv, AttachedInv
<1> QED
  BY <1>1, InvariantHolds, PTL
-----------------------------------------------------------------------------
\* The restart decision, with a single supervisor.

\* What the only supervisor saw stays true until it acts on it: nobody else
\* restarts, and processes do not come back to life.
LEMMA WatchStep ==
  (SoleSupervisor /\ IInv /\ WatchInv) /\ [Next]_vars => WatchInv'
<1> SUFFICES ASSUME (SoleSupervisor /\ IInv /\ WatchInv), [Next]_vars PROVE WatchInv'
  OBVIOUS
<1> USE ConstantsAssumption DEF vars, fields, policy, lock, watchers, world, outside,
      ghosts, SoleSupervisor, IInv, TypeOK, ValuesOK, LockInv, LifecycleInv, RunningInv,
      AttachedInv, AttachedIsOnlyObserved, WatchInv, Lifecycles, Threads, Calls, Steps,
      SupSteps, Verdicts, Gens, Condition, Alive
<1>1. ASSUME StartSteps PROVE WatchInv'
  <2>1. ASSUME NEW c \in BOOLEAN, BeginStart(c) PROVE WatchInv'
    BY <2>1 DEF BeginStart, Lock
  <2>2. CASE Attach
    BY <2>2 DEF Attach, Probe, Goto, Fail, Serving, Disturb
  <2>3. CASE FinishStart
    BY <2>3 DEF FinishStart, Unlock
  <2>4. CASE StartFails
    BY <2>4 DEF StartFails, Goto
  <2>5. CASE StartRaises
    BY <2>5 DEF StartRaises, Unlock
  <2> QED
    BY <1>1, <2>1, <2>2, <2>3, <2>4, <2>5 DEF StartSteps
<1>2. ASSUME LaunchSteps PROVE WatchInv'
  <2>1. CASE SpawnRefused
    BY <2>1 DEF SpawnRefused, Disturb, Fail, Goto
  <2>2. CASE Spawn
    BY <2>2 DEF Spawn, Goto
  <2>3. CASE SpawnWithoutPump
    BY <2>3 DEF SpawnWithoutPump, Disturb, Fail, Unlock, Goto
  <2>4. CASE Handshake
    BY <2>4 DEF Handshake, Goto, Fail, Disturb
  <2>5. CASE RecordPid
    BY <2>5 DEF RecordPid, NewRecord, Goto, Fail, Disturb
  <2>6. CASE AwaitReady
    BY <2>6 DEF AwaitReady, Serving, Goto, Fail, Disturb
  <2> QED
    BY <1>2, <2>1, <2>2, <2>3, <2>4, <2>5, <2>6 DEF LaunchSteps
<1>3. ASSUME CleanupSteps PROVE WatchInv'
  <2>1. CASE ClearReferences
    BY <2>1 DEF ClearReferences, Goto
  <2>2. CASE Terminate
    BY <2>2 DEF Terminate, Disturb, CleanupRaises, Goto
  <2>3. CASE Release
    BY <2>3 DEF Release, Disturb, CleanupRaises, Goto
  <2> QED
    BY <1>3, <2>1, <2>2, <2>3 DEF CleanupSteps
<1>4. ASSUME RestartSteps PROVE WatchInv'
  <2>1. CASE Relaunch
    BY <2>1 DEF Relaunch, Goto
  <2>2. CASE FinishRestart
    BY <2>2 DEF FinishRestart, Unlock
  <2>3. CASE RestartFails
    BY <2>3 DEF RestartFails, Doubled, AfterFailedRestart, Unlock, Minimum
  <2> QED
    BY <1>4, <2>1, <2>2, <2>3 DEF RestartSteps
<1>5. ASSUME StopSteps PROVE WatchInv'
  <2>1. CASE StopUnstarted
    BY <2>1 DEF StopUnstarted, AfterUnstartedStop
  <2>2. CASE BeginStop
    BY <2>2 DEF BeginStop, Lock
  <2>3. CASE FinishStop
    BY <2>3 DEF FinishStop, Unlock
  <2>4. CASE StopRaises
    BY <2>4 DEF StopRaises, Unlock
  <2> QED
    BY <1>5, <2>1, <2>2, <2>3, <2>4 DEF StopSteps
<1>6. ASSUME NEW s \in Supervisors, SupervisorStep(s) PROVE WatchInv'
  <2>1. CASE StartSupervisor(s)
    BY <2>1 DEF StartSupervisor
  <2>2. CASE BeginSupervise(s)
    BY <2>2 DEF BeginSupervise
  <2>3. CASE ExitSupervisor(s)
    BY <2>3 DEF ExitSupervisor
  <2>4. CASE Snapshot(s)
    BY <2>4 DEF Snapshot
  <2>5. CASE Observe(s)
    BY <2>5 DEF Observe, Probe, Serving, Disturb
  <2>6. CASE Decide(s)
    BY <2>6 DEF Decide, Minimum, OnlyObserved, Patient, Nothing
  <2>7. CASE RestartDeclined(s)
    BY <2>7 DEF RestartDeclined, MayRestart
  <2>8. CASE BeginRestart(s)
    BY <2>8 DEF BeginRestart, Lock, RestartEntry, MayRestart
  <2> QED
    BY <1>6, <2>1, <2>2, <2>3, <2>4, <2>5, <2>6, <2>7, <2>8 DEF SupervisorStep
<1>7. ASSUME NEW g \in Gens, ProcessStep(g) PROVE WatchInv'
  <2>1. CASE GuardianSpawns(g)
    BY <2>1 DEF GuardianSpawns
  <2>2. CASE GuardianDies(g)
    BY <2>2 DEF GuardianDies, Disturb
  <2>3. CASE NativeDies(g)
    BY <2>3 DEF NativeDies, Disturb
  <2>4. CASE GuardianExits(g)
    BY <2>4 DEF GuardianExits
  <2>5. CASE PumpEnds(g)
    BY <2>5 DEF PumpEnds
  <2> QED
    BY <1>7, <2>1, <2>2, <2>3, <2>4, <2>5 DEF ProcessStep
<1>8. ASSUME RequestShutdown \/ ExternalDies \/ BackoffElapses PROVE WatchInv'
  BY <1>8 DEF RequestShutdown, ExternalDies, BackoffElapses, Disturb
<1>9. CASE UNCHANGED vars
  BY <1>9 DEF Live
<1> QED
  BY <1>1, <1>2, <1>3, <1>4, <1>5, <1>6, <1>7, <1>8, <1>9 DEF Next

\* With the one supervisor thread the stack starts, a restart takes down a live
\* process only after Threshold failed checks in a row, although the decision is
\* made on copies and without the lock.
THEOREM RestartsAreJustified ==
  ASSUME SoleSupervisor
  PROVE  Spec => RestartJustified
<1>1. Init => WatchInv
  BY DEF Init, WatchInv
<1>2. SoleSupervisor /\ IInv /\ WatchInv /\ [Next]_vars => WatchInv'
  BY WatchStep
<1>3. IInv /\ WatchInv /\ [Next]_vars
        => [holder = Nobody /\ call' = "restart" => ~Alive(process) \/ unhealthy >= Threshold]_vars
  <2> SUFFICES ASSUME IInv, WatchInv, Next, holder = Nobody, call' = "restart"
               PROVE  ~Alive(process) \/ unhealthy >= Threshold
    OBVIOUS
  <2>1. step = "idle" /\ call = "none"
    BY DEF IInv, LockInv
  <2>2. PICK s \in Supervisors : BeginRestart(s)
    BY <2>1 DEF Next, StartSteps, BeginStart, Attach, FinishStart, StartFails, StartRaises,
       LaunchSteps, SpawnRefused, Spawn, SpawnWithoutPump, Handshake, RecordPid, AwaitReady,
       CleanupSteps, ClearReferences, Terminate, Release, RestartSteps, Relaunch, FinishRestart,
       RestartFails, StopSteps, StopUnstarted, BeginStop, FinishStop, StopRaises, SupervisorStep,
       StartSupervisor, BeginSupervise, ExitSupervisor, Snapshot, Observe, Decide, RestartDeclined,
       ProcessStep, GuardianSpawns, GuardianDies, NativeDies, GuardianExits, PumpEnds,
       RequestShutdown, ExternalDies, BackoffElapses, Lock, lock
  <2> QED
    BY <2>2 DEF BeginRestart, WatchInv
<1> QED
  BY <1>1, <1>2, <1>3, SoleSupervisor, InvariantHolds, PTL DEF Spec, RestartJustified
-----------------------------------------------------------------------------
\* The service implements its contract.

\* A new service is a new contract.
LEMMA ContractInit == Init => Contract!Init
  BY DEF Init, Contract!Init, Held

\* Every step of the service is a step of the contract or leaves it alone: a
\* spawn acquires, the end of a cleanup retires, an attachment borrows, and
\* every write of the lifecycle is a move that the table of transitions allows.
LEMMA ContractStep ==
  IInv /\ [Next]_vars => [Contract!Next]_Contract!contractVars
<1> SUFFICES ASSUME IInv, [Next]_vars PROVE [Contract!Next]_Contract!contractVars
  OBVIOUS
<1> USE ConstantsAssumption DEF vars, fields, policy, lock, watchers, world, outside,
      ghosts, IInv, TypeOK, ValuesOK, LockInv, LifecycleInv, RunningInv, AttachedInv,
      AttachedIsOnlyObserved, Contract!Next,
      Contract!Acquire, Contract!Retire, Contract!Borrow, Contract!Move, Contract!Allowed,
      Contract!contractVars, Held,
      Lifecycles, Threads, Calls, Steps, SupSteps, Verdicts, Gens,
      Condition
<1>1. ASSUME StartSteps PROVE [Contract!Next]_Contract!contractVars
  <2>1. ASSUME NEW c \in BOOLEAN, BeginStart(c) PROVE [Contract!Next]_Contract!contractVars
    BY <2>1 DEF BeginStart, Lock
  <2>2. CASE Attach
    <3>1. step = "attach" /\ launches = 0 /\ victim = 0 /\ process = 0 /\ lifecycle = "starting"
      BY <2>2 DEF Attach
    <3>2. PICK ready \in BOOLEAN : attached' = ready
      BY <2>2 DEF Attach
    <3>3. Held' = Held /\ lifecycle' = lifecycle /\ launches' = launches
      BY <2>2, <3>1 DEF Attach, Fail
    <3>4. CASE ready = TRUE
      BY <3>1, <3>2, <3>3, <3>4, Zenon
    <3>5. CASE ready = FALSE
      <4>1. attached = FALSE
        BY <3>1, Zenon DEF FlagsOK
      <4> QED
        BY <3>2, <3>3, <3>5, <4>1, Zenon
    <3> QED
      BY <3>4, <3>5
  <2>3. CASE FinishStart
    BY <2>3 DEF FinishStart, Unlock
  <2>4. CASE StartFails
    BY <2>4 DEF StartFails, Goto
  <2>5. CASE StartRaises
    BY <2>5 DEF StartRaises, Unlock
  <2> QED
    BY <1>1, <2>1, <2>2, <2>3, <2>4, <2>5 DEF StartSteps
<1>2. ASSUME LaunchSteps PROVE [Contract!Next]_Contract!contractVars
  <2>1. CASE SpawnRefused
    BY <2>1 DEF SpawnRefused, Disturb, Fail, Goto
  <2>2. CASE Spawn
    BY <2>2 DEF Spawn, Goto
  <2>3. CASE SpawnWithoutPump
    BY <2>3 DEF SpawnWithoutPump, Disturb, Fail, Unlock, Goto
  <2>4. CASE Handshake
    BY <2>4 DEF Handshake, Alive, Goto, Fail, Disturb
  <2>5. CASE RecordPid
    BY <2>5 DEF RecordPid, NewRecord, Goto, Fail, Disturb
  <2>6. CASE AwaitReady
    BY <2>6 DEF AwaitReady, Serving, Goto, Fail, Disturb
  <2> QED
    BY <1>2, <2>1, <2>2, <2>3, <2>4, <2>5, <2>6 DEF LaunchSteps
<1>3. ASSUME CleanupSteps PROVE [Contract!Next]_Contract!contractVars
  <2>1. CASE ClearReferences
    BY <2>1 DEF ClearReferences, Goto
  <2>2. CASE Terminate
    BY <2>2 DEF Terminate, Disturb, CleanupRaises, Goto
  <2>3. CASE Release
    BY <2>3 DEF Release, Disturb, CleanupRaises, Goto
  <2> QED
    BY <1>3, <2>1, <2>2, <2>3 DEF CleanupSteps
<1>4. ASSUME RestartSteps PROVE [Contract!Next]_Contract!contractVars
  <2>1. CASE Relaunch
    BY <2>1 DEF Relaunch, Goto
  <2>2. CASE FinishRestart
    BY <2>2 DEF FinishRestart, Unlock
  <2>3. CASE RestartFails
    BY <2>3 DEF RestartFails, Doubled, AfterFailedRestart, Unlock, Minimum
  <2> QED
    BY <1>4, <2>1, <2>2, <2>3 DEF RestartSteps
<1>5. ASSUME StopSteps PROVE [Contract!Next]_Contract!contractVars
  <2>1. CASE StopUnstarted
    BY <2>1 DEF StopUnstarted, AfterUnstartedStop
  <2>2. CASE BeginStop
    BY <2>2 DEF BeginStop, Lock
  <2>3. CASE FinishStop
    <3>1. lifecycle = "stopping" /\ lifecycle' = "stopped" /\ attached' = FALSE /\ launches' = launches
      BY <2>3 DEF FinishStop
    <3>2. Held = 0 /\ Held' = 0
      BY <2>3 DEF FinishStop
    <3>3. "stopped" \in Contract!Allowed["stopping"]
      OBVIOUS
    <3> QED
      BY <3>1, <3>2, <3>3, Zenon
  <2>4. CASE StopRaises
    BY <2>4 DEF StopRaises, Unlock
  <2> QED
    BY <1>5, <2>1, <2>2, <2>3, <2>4 DEF StopSteps
<1>6. ASSUME NEW s \in Supervisors, SupervisorStep(s) PROVE [Contract!Next]_Contract!contractVars
  <2>1. CASE StartSupervisor(s)
    BY <2>1 DEF StartSupervisor
  <2>2. CASE BeginSupervise(s)
    BY <2>2 DEF BeginSupervise
  <2>3. CASE ExitSupervisor(s)
    BY <2>3 DEF ExitSupervisor
  <2>4. CASE Snapshot(s)
    BY <2>4 DEF Snapshot
  <2>5. CASE Observe(s)
    BY <2>5 DEF Observe, Alive, Probe, Serving, Disturb
  <2>6. CASE Decide(s)
    BY <2>6 DEF Decide, Minimum, OnlyObserved, Patient, Nothing
  <2>7. CASE RestartDeclined(s)
    BY <2>7 DEF RestartDeclined, MayRestart
  <2>8. CASE BeginRestart(s)
    BY <2>8 DEF BeginRestart, Lock, RestartEntry, MayRestart
  <2> QED
    BY <1>6, <2>1, <2>2, <2>3, <2>4, <2>5, <2>6, <2>7, <2>8 DEF SupervisorStep
<1>7. ASSUME NEW g \in Gens, ProcessStep(g) PROVE [Contract!Next]_Contract!contractVars
  <2>1. CASE GuardianSpawns(g)
    BY <2>1 DEF GuardianSpawns
  <2>2. CASE GuardianDies(g)
    BY <2>2 DEF GuardianDies, Disturb
  <2>3. CASE NativeDies(g)
    BY <2>3 DEF NativeDies, Disturb
  <2>4. CASE GuardianExits(g)
    BY <2>4 DEF GuardianExits
  <2>5. CASE PumpEnds(g)
    BY <2>5 DEF PumpEnds
  <2> QED
    BY <1>7, <2>1, <2>2, <2>3, <2>4, <2>5 DEF ProcessStep
<1>8. ASSUME RequestShutdown \/ ExternalDies \/ BackoffElapses PROVE [Contract!Next]_Contract!contractVars
  BY <1>8 DEF RequestShutdown, ExternalDies, BackoffElapses, Disturb
<1>9. CASE UNCHANGED vars
  BY <1>9 DEF Live
<1> QED
  BY <1>1, <1>2, <1>3, <1>4, <1>5, <1>6, <1>7, <1>8, <1>9 DEF Next

\* The service implements its contract, however its supervisors, crashes and
\* failures interleave.
THEOREM ImplementsTheContract == Spec => ImplementsContract
<1>1. Init => Contract!Init
  BY ContractInit
<1>2. IInv /\ [Next]_vars => [Contract!Next]_Contract!contractVars
  BY ContractStep
<1> QED
  BY <1>1, <1>2, InvariantHolds, PTL DEF Spec, ImplementsContract, Contract!Spec
=============================================================================
