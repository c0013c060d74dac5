---------------------------- MODULE NativeService ----------------------------
(***************************************************************************)
(* ManagedNativeService: one Prometheus or Grafana owned by the monitoring *)
(* stack. Two kinds of threads work on it: the Owner, which holds the      *)
(* stack's operation lock and calls start() once and stop() at the end,    *)
(* and the supervisor thread, which calls supervise() periodically and     *)
(* through it _restart(). start, stop and _restart run under the service's *)
(* operation lock, stop and start waiting for it, _restart giving up when  *)
(* it is taken. supervise() looks at the processes without that lock.      *)
(*                                                                         *)
(* Every launch is a generation: a guardian, the native process the        *)
(* guardian spawns, and the log pump thread that drains their output.      *)
(***************************************************************************)
EXTENDS Integers, FiniteSets

CONSTANTS
  Supervisors,   \* threads that run supervise(); the stack has one
  Owner,         \* the thread that holds the stack's operation lock
  Nobody,        \* no holder of the operation lock
  MaxLaunches,   \* bound: Popen is refused after this many launches
  Threshold,     \* RestartPolicy.unhealthy_threshold
  MaxDelay,      \* maximum backoff, in units of the initial backoff
  Faults,        \* the kinds of disturbance the environment may cause
  MaxFaults      \* bound: how many disturbances it causes in a behaviour

FaultKinds == {"launch", "thread", "terminate", "pump", "record", "probe", "guardian", "native", "external"}

ASSUME ConstantsAssumption ==
  /\ Owner \notin Supervisors
  /\ Nobody \notin Supervisors \cup {Owner}
  /\ MaxLaunches \in Nat
  /\ Threshold \in Nat \ {0}
  /\ MaxDelay \in Nat \ {0}
  /\ MaxFaults \in Nat
  /\ Faults \subseteq FaultKinds

Threads == Supervisors \cup {Owner}
Gens == 1 .. MaxLaunches

VARIABLES
  \* the fields of ManagedNativeService
  lifecycle,     \* lifecycle.state
  process,       \* _process and _log_pump, always set together: a generation or 0
  pidKnown,      \* _native_pid and _native_started are set
  attached,      \* _attached
  lastHealthy,   \* _last_healthy
  unhealthy,     \* _unhealthy_count, saturated at Threshold
  delay,         \* the backoff the next failed restart gets, from _restart_failures
  backoff,       \* time left until _next_restart
  \* the operation lock, and what its holder is doing
  holder, call, step, victim, raised,
  \* the supervisors: where they are, and what supervise() saw
  supStep, seen, verdict,
  \* the processes and threads of each generation
  guardian, native, pump, launches,
  \* the shutdown event, the PID record on disk, and a foreign listener on the port
  shutdown, record, external,
  \* bookkeeping of the model: disturbances so far, and the generations whose
  \* cleanup or acquisition raised an error, which the service has let go of
  faults, abandoned

fields   == <<lifecycle, process, pidKnown, attached, lastHealthy>>
policy   == <<unhealthy, delay, backoff>>
lock     == <<holder, call, step, victim, raised>>
watchers == <<supStep, seen, verdict>>
world    == <<guardian, native, pump, launches>>
outside  == <<shutdown, record, external>>
ghosts   == <<faults, abandoned>>
vars     == <<fields, policy, lock, watchers, world, outside, ghosts>>

Lifecycles == {"new", "starting", "running", "stopping", "stopped", "failed"}
Calls      == {"none", "start", "stop", "restart"}
Steps      == {"idle", "attach", "spawn", "handshake", "record", "ready", "finish",
               "clear", "terminate", "release", "cleaned"}
SupSteps   == {"unborn", "wait", "snapshot", "observe", "decide", "restart", "exited"}
Verdicts   == {"none", "healthy", "unready", "gone", "attached-up", "attached-down"}
Condition  == {"none", "alive", "dead"}

FlagsOK ==
  /\ pidKnown \in BOOLEAN /\ attached \in BOOLEAN /\ lastHealthy \in BOOLEAN
  /\ raised \in BOOLEAN /\ shutdown \in BOOLEAN /\ external \in BOOLEAN

ValuesOK ==
  /\ lifecycle \in Lifecycles
  /\ process \in 0 .. MaxLaunches
  /\ unhealthy \in 0 .. Threshold
  /\ delay \in 1 .. MaxDelay
  /\ backoff \in 0 .. MaxDelay
  /\ holder \in Threads \cup {Nobody}
  /\ call \in Calls
  /\ step \in Steps
  /\ victim \in 0 .. MaxLaunches
  /\ supStep \in [Supervisors -> SupSteps]
  /\ seen \in [Supervisors -> [process : 0 .. MaxLaunches, pid : BOOLEAN, attached : BOOLEAN]]
  /\ verdict \in [Supervisors -> Verdicts]
  /\ guardian \in [Gens -> Condition]
  /\ native \in [Gens -> Condition]
  /\ pump \in [Gens -> Condition]
  /\ launches \in 0 .. MaxLaunches
  /\ record \in 0 .. MaxLaunches
  /\ faults \in 0 .. MaxFaults
  /\ abandoned \subseteq Gens

TypeOK == FlagsOK /\ ValuesOK

Nothing == [process |-> 0, pid |-> FALSE, attached |-> FALSE]

Init ==
  /\ lifecycle = "new"
  /\ process = 0 /\ pidKnown = FALSE /\ attached = FALSE /\ lastHealthy = FALSE
  /\ unhealthy = 0 /\ delay = 1 /\ backoff = 0
  /\ holder = Nobody /\ call = "none" /\ step = "idle" /\ victim = 0 /\ raised = FALSE
  /\ supStep = [s \in Supervisors |-> "unborn"]
  /\ seen = [s \in Supervisors |-> Nothing]
  /\ verdict = [s \in Supervisors |-> "none"]
  /\ guardian = [g \in Gens |-> "none"]
  /\ native = [g \in Gens |-> "none"]
  /\ pump = [g \in Gens |-> "none"]
  /\ launches = 0
  /\ shutdown = FALSE
  /\ record = 0
  /\ external \in BOOLEAN
  /\ faults = 0
  /\ abandoned = {}
-----------------------------------------------------------------------------
\* Helper state formulae and steps.

\* One more disturbance of the environment.
Disturb(kind) ==
  /\ kind \in Faults
  /\ faults < MaxFaults
  /\ faults' = faults + 1

Alive(g) == g # 0 /\ guardian[g] = "alive" /\ native[g] = "alive"
Live(g)  == guardian[g] = "alive" \/ native[g] = "alive" \/ pump[g] = "alive"

\* HttpHealthProbe asks the port: it cannot tell whose listener answers.
Serving == external \/ \E g \in Gens : native[g] = "alive"

\* A probe can fail although something serves (a timeout), never succeed otherwise.
Probe(ready) ==
  \/ ready = Serving /\ UNCHANGED faults
  \/ Serving /\ ready = FALSE /\ Disturb("probe")

Minimum(a, b) == IF a < b THEN a ELSE b

\* Defect for the runs: the maximum is forgotten.
DoubledForever(d) == 2 * d

\* The next backoff after a failed restart: doubled, up to the maximum.
Doubled(d) == Minimum(2 * d, MaxDelay)

Goto(next) == step' = next /\ UNCHANGED <<holder, call>>

\* The operation lock is released, by a return or by an exception.
Unlock == holder' = Nobody /\ call' = "none" /\ step' = "idle" /\ raised' = FALSE

Lock(t, c, first) ==
  /\ holder = Nobody
  /\ holder' = t /\ call' = c /\ step' = first
  /\ UNCHANGED <<victim, raised>>

\* An error inside the locked operation, before or after _process was set.
Fail(next) == raised' = TRUE /\ Goto(next) /\ UNCHANGED victim

\* Defect for the runs: the error of a cleanup is swallowed.
SwallowCleanup == UNCHANGED <<raised, abandoned>>

\* The error of a cleanup is kept for the caller: the service has let go of the victim.
CleanupRaises == raised' = TRUE /\ abandoned' = abandoned \cup {victim}
-----------------------------------------------------------------------------
\* start(), called once by the stack on a new service.

\* -continue false comes here with a free port: terminate_existing() saw to it.
BeginStart(continueExisting) ==
  /\ lifecycle = "new"
  /\ Lock(Owner, "start", IF continueExisting THEN "attach" ELSE "spawn")
  /\ ~continueExisting => ~external
  /\ lifecycle' = "starting"
  /\ UNCHANGED <<process, pidKnown, attached, lastHealthy, policy, watchers, world, outside, ghosts>>

\* -continue true: attach to a healthy listener; launch on a free port; fail
\* on a port that is taken by something that is not healthy.
Attach ==
  /\ step = "attach"
  /\ \E ready \in BOOLEAN :
       /\ Probe(ready)
       /\ attached' = ready
       /\ lastHealthy' = ready
       /\ IF ready THEN Goto("finish") /\ UNCHANGED <<victim, raised>>
          ELSE IF external THEN Fail("cleaned")
          ELSE Goto("spawn") /\ UNCHANGED <<victim, raised>>
  /\ UNCHANGED <<lifecycle, process, pidKnown, policy, watchers, world, outside, abandoned>>

FinishStart ==
  /\ step = "finish" /\ call = "start"
  /\ lifecycle' = "running"
  /\ Unlock /\ UNCHANGED victim
  /\ UNCHANGED <<process, pidKnown, attached, lastHealthy, policy, watchers, world, outside, ghosts>>

\* except BaseException: FAILED first, then _stop_process() once more, then raise.
StartFails ==
  /\ step = "cleaned" /\ call = "start" /\ lifecycle = "starting"
  /\ lifecycle' = "failed"
  /\ Goto("clear") /\ UNCHANGED <<victim, raised>>
  /\ UNCHANGED <<process, pidKnown, attached, lastHealthy, policy, watchers, world, outside, ghosts>>

StartRaises ==
  /\ step = "cleaned" /\ call = "start" /\ lifecycle = "failed"
  /\ Unlock /\ UNCHANGED victim
  /\ UNCHANGED <<fields, policy, watchers, world, outside, ghosts>>
-----------------------------------------------------------------------------
\* _launch(), inside start() or _restart().

\* The command cannot be built or Popen refuses: nothing was acquired.
SpawnRefused ==
  /\ step = "spawn"
  /\ \/ Disturb("launch")
     \/ launches = MaxLaunches /\ UNCHANGED faults
  /\ Fail("cleaned")
  /\ UNCHANGED <<fields, policy, watchers, world, outside, abandoned>>

Spawn ==
  /\ step = "spawn"
  /\ launches < MaxLaunches
  /\ launches' = launches + 1
  /\ guardian' = [guardian EXCEPT ![launches + 1] = "alive"]
  /\ pump' = [pump EXCEPT ![launches + 1] = "alive"]
  /\ process' = launches + 1
  /\ Goto("handshake") /\ UNCHANGED <<victim, raised>>
  /\ UNCHANGED <<lifecycle, pidKnown, attached, lastHealthy, policy, watchers, native, outside, ghosts>>

\* The guardian runs, but the pump thread cannot be started. The RuntimeError
\* leaves _launch() before _process is set and before its try block; _restart()
\* does not catch it, so the lifecycle stays where it is.
SpawnWithoutPump ==
  /\ step = "spawn"
  /\ launches < MaxLaunches
  /\ Disturb("thread")
  /\ launches' = launches + 1
  /\ guardian' = [guardian EXCEPT ![launches + 1] = "alive"]
  /\ abandoned' = abandoned \cup {launches + 1}
  /\ IF call = "start" THEN Fail("cleaned") ELSE Unlock /\ UNCHANGED victim
  /\ UNCHANGED <<fields, policy, watchers, native, pump, outside>>

\* _await_guardian_start(): the handshake file names a live child of a live guardian.
\* Shutdown, an exit, or the deadline ends the wait with an error.
Handshake ==
  /\ step = "handshake"
  /\ \/ /\ ~shutdown /\ Alive(process)
        /\ pidKnown' = TRUE /\ Goto("record") /\ UNCHANGED <<victim, raised, faults>>
     \/ /\ shutdown \/ guardian[process] = "dead" \/ native[process] = "dead"
        /\ Fail("clear") /\ UNCHANGED <<pidKnown, faults>>
     \/ Disturb("launch") /\ Fail("clear") /\ UNCHANGED pidKnown
  /\ UNCHANGED <<lifecycle, process, attached, lastHealthy, policy, watchers, world, outside, abandoned>>

\* Defect for the runs: an existing record is kept.
KeptRecord == IF record = 0 THEN process ELSE record

\* The component's entry is replaced, whatever an earlier generation left there.
NewRecord == process

\* registry.record_pid() looks the process up and replaces the record. A
\* failure to synchronize the directory is raised after the record was replaced.
RecordPid ==
  /\ step = "record"
  /\ \/ native[process] = "alive" /\ record' = NewRecord /\ Goto("ready") /\ UNCHANGED <<victim, raised, faults>>
     \/ native[process] = "dead" /\ Fail("clear") /\ UNCHANGED <<record, faults>>
     \/ Disturb("record") /\ record' \in {record, NewRecord} /\ Fail("clear")
  /\ UNCHANGED <<fields, policy, watchers, world, shutdown, external, abandoned>>

\* _await_ready(): the guardian lives, the port answers, and the guardian still
\* lives after the stability wait; or shutdown, an exit, or the deadline.
AwaitReady ==
  /\ step = "ready"
  /\ \/ /\ ~shutdown /\ guardian[process] = "alive" /\ Serving
        /\ lastHealthy' = TRUE /\ Goto("finish") /\ UNCHANGED <<victim, raised, faults>>
     \/ /\ shutdown \/ guardian[process] = "dead"
        /\ Fail("clear") /\ UNCHANGED <<lastHealthy, faults>>
     \/ Disturb("probe") /\ Fail("clear") /\ UNCHANGED lastHealthy
  /\ UNCHANGED <<lifecycle, process, pidKnown, attached, policy, watchers, world, outside, abandoned>>
-----------------------------------------------------------------------------
\* _stop_process(), inside start(), stop(), _restart() and _launch().

\* The references are taken and cleared first, under the state lock.
ClearReferences ==
  /\ step = "clear"
  /\ process' = 0
  /\ victim' = process
  /\ Goto(IF process = 0 THEN "cleaned" ELSE "terminate")
  /\ pidKnown' = FALSE
  /\ UNCHANGED <<lifecycle, attached, lastHealthy, raised, policy, watchers, world, outside, ghosts>>

\* _terminate_owned_process() and, for a native that survived it, _terminate_psutil_tree():
\* both are gone, or a bounded wait expired and some of them may still be there.
Terminate ==
  /\ step = "terminate"
  /\ \/ /\ guardian' = [guardian EXCEPT ![victim] = "dead"]
        /\ native' = [native EXCEPT ![victim] = IF @ = "alive" THEN "dead" ELSE @]
        /\ UNCHANGED <<raised, faults, abandoned>>
     \/ /\ Disturb("terminate")
        /\ guardian' \in {guardian, [guardian EXCEPT ![victim] = "dead"]}
        /\ native' \in {native, [native EXCEPT ![victim] = IF @ = "alive" THEN "dead" ELSE @]}
        /\ CleanupRaises
  /\ Goto("release") /\ UNCHANGED victim
  /\ UNCHANGED <<fields, policy, watchers, pump, launches, outside>>

\* The pump is joined: it ends once nothing holds the pipe, unless it is stuck
\* in a write. Then the PID record is removed, whatever was raised before; a
\* failure to remove it is only logged.
Release ==
  /\ step = "release"
  /\ \/ /\ guardian[victim] # "alive" /\ native[victim] # "alive"
        /\ pump' = [pump EXCEPT ![victim] = "dead"]
        /\ UNCHANGED <<raised, abandoned, faults>>
        /\ record' = IF record = victim THEN 0 ELSE record
     \/ /\ guardian[victim] # "alive" /\ native[victim] # "alive"
        /\ Disturb("record")
        /\ pump' = [pump EXCEPT ![victim] = "dead"]
        /\ UNCHANGED <<raised, abandoned, record>>
     \/ /\ pump[victim] = "alive"
        /\ IF guardian[victim] = "alive" \/ native[victim] = "alive" THEN UNCHANGED faults ELSE Disturb("pump")
        /\ CleanupRaises
        /\ record' = IF record = victim THEN 0 ELSE record
        /\ UNCHANGED pump
  /\ victim' = 0
  /\ Goto("cleaned")
  /\ UNCHANGED <<fields, policy, watchers, guardian, native, launches, shutdown, external>>
-----------------------------------------------------------------------------
\* supervise() and _restart().

\* The stack starts the thread only once every service has started.
StartSupervisor(s) ==
  /\ supStep[s] = "unborn"
  /\ lifecycle = "running"
  /\ supStep' = [supStep EXCEPT ![s] = "wait"]
  /\ UNCHANGED <<fields, policy, lock, seen, verdict, world, outside, ghosts>>

\* The loop of the stack's supervisor thread, and the unlocked check at the
\* top of supervise().
BeginSupervise(s) ==
  /\ supStep[s] = "wait" /\ holder # s
  /\ ~shutdown
  /\ lifecycle \in {"running", "failed"}
  /\ supStep' = [supStep EXCEPT ![s] = "snapshot"]
  /\ UNCHANGED <<fields, policy, lock, seen, verdict, world, outside, ghosts>>

ExitSupervisor(s) ==
  /\ supStep[s] = "wait" /\ holder # s
  /\ shutdown
  /\ supStep' = [supStep EXCEPT ![s] = "exited"]
  /\ UNCHANGED <<fields, policy, lock, seen, verdict, world, outside, ghosts>>

\* The fields are copied under the state lock.
Snapshot(s) ==
  /\ supStep[s] = "snapshot"
  /\ seen' = [seen EXCEPT ![s] = [process |-> process, pid |-> pidKnown, attached |-> attached]]
  /\ supStep' = [supStep EXCEPT ![s] = "observe"]
  /\ UNCHANGED <<fields, policy, lock, verdict, world, outside, ghosts>>

\* The probe and the two liveness checks, on the copies and without any lock.
Observe(s) ==
  /\ supStep[s] = "observe"
  /\ \E ready \in BOOLEAN :
       LET mine == seen[s].pid /\ Alive(seen[s].process)
       IN /\ Probe(ready)
          /\ verdict' = [verdict EXCEPT ![s] =
               IF seen[s].attached THEN IF ready THEN "attached-up" ELSE "attached-down"
               ELSE IF ~mine THEN "gone" ELSE IF ready THEN "healthy" ELSE "unready"]
  /\ supStep' = [supStep EXCEPT ![s] = "decide"]
  /\ UNCHANGED <<fields, policy, lock, seen, world, outside, abandoned>>

\* Defect for the runs: an attached service is treated like an owned one.
OwnsEverything(s) == FALSE

\* An attached service is only probed.
OnlyObserved(s) == seen[s].attached

\* Defect for the runs: one check too few.
Hasty(s, missed) == verdict[s] = "unready" /\ missed < Threshold - 1

\* A process that lives but does not answer is given Threshold checks.
Patient(s, missed) == verdict[s] = "unready" /\ missed < Threshold

\* What supervise() does with what it saw.
Decide(s) ==
  LET missed == Minimum(unhealthy + 1, Threshold)
  IN /\ supStep[s] = "decide"
     /\ lastHealthy' = (verdict[s] \in {"healthy", "attached-up"})
     /\ IF OnlyObserved(s)
        THEN UNCHANGED <<unhealthy, delay>>
        ELSE /\ unhealthy' = IF verdict[s] = "healthy" THEN 0 ELSE missed
             /\ delay' = IF verdict[s] = "healthy" THEN 1 ELSE delay
     /\ supStep' = [supStep EXCEPT ![s] =
          IF OnlyObserved(s) \/ verdict[s] = "healthy" \/ Patient(s, missed) \/ backoff > 0
          THEN "wait" ELSE "restart"]
     /\ seen' = [seen EXCEPT ![s] = Nothing]
     /\ verdict' = [verdict EXCEPT ![s] = "none"]
     /\ UNCHANGED <<lifecycle, process, pidKnown, attached, backoff, lock, world, outside, ghosts>>

\* Defect for the runs: the shutdown event is not read again under the lock.
RestartAnyway == TRUE

\* _restart() reads the shutdown event again once it holds the lock.
MayRestart == ~shutdown

\* Defect for the runs: the old process is not stopped before the new one.
LaunchFirst == "spawn"

\* _restart() stops what it finds before it launches.
RestartEntry == "clear"

\* _restart() gives up when the lock is taken or shutdown was requested.
RestartDeclined(s) ==
  /\ supStep[s] = "restart"
  /\ holder # Nobody \/ ~MayRestart
  /\ supStep' = [supStep EXCEPT ![s] = "wait"]
  /\ UNCHANGED <<fields, policy, lock, seen, verdict, world, outside, ghosts>>

BeginRestart(s) ==
  /\ supStep[s] = "restart"
  /\ Lock(s, "restart", RestartEntry)
  /\ MayRestart
  /\ lifecycle' = IF lifecycle \in {"running", "failed"} THEN "starting" ELSE lifecycle
  /\ supStep' = [supStep EXCEPT ![s] = "wait"]
  /\ UNCHANGED <<process, pidKnown, attached, lastHealthy, policy, seen, verdict, world, outside, ghosts>>

Relaunch ==
  /\ step = "cleaned" /\ call = "restart" /\ ~raised
  /\ Goto("spawn") /\ UNCHANGED <<victim, raised>>
  /\ UNCHANGED <<fields, policy, watchers, world, outside, ghosts>>

FinishRestart ==
  /\ step = "finish" /\ call = "restart"
  /\ unhealthy' = 0 /\ delay' = 1
  /\ lastHealthy' = TRUE
  /\ lifecycle' = "running"
  /\ Unlock /\ UNCHANGED victim
  /\ UNCHANGED <<process, pidKnown, attached, backoff, watchers, world, outside, ghosts>>

\* Defect for the runs: the lifecycle is left as it is.
StayStarting == "starting"

\* Where a failed restart leaves the lifecycle: the supervisor tries again.
AfterFailedRestart == "failed"

RestartFails ==
  /\ step = "cleaned" /\ call = "restart" /\ raised
  /\ backoff' = delay
  /\ delay' = Doubled(delay)
  /\ lifecycle' = AfterFailedRestart
  /\ Unlock /\ UNCHANGED victim
  /\ UNCHANGED <<process, pidKnown, attached, lastHealthy, unhealthy, watchers, world, outside, ghosts>>
-----------------------------------------------------------------------------
\* stop(): the stack calls it after it has set the shutdown event.

RequestShutdown ==
  /\ ~shutdown
  /\ shutdown' = TRUE
  /\ UNCHANGED <<fields, policy, lock, watchers, world, record, external, ghosts>>

\* Defect for the runs: a service that was never started is passed over.
StayNew == "new"

\* What stop() makes of a service that was never started.
AfterUnstartedStop == "stopped"

StopUnstarted ==
  /\ shutdown /\ holder = Nobody
  /\ lifecycle = "new"
  /\ lifecycle' = AfterUnstartedStop
  /\ UNCHANGED <<process, pidKnown, attached, lastHealthy, policy, lock, watchers, world, outside, ghosts>>

BeginStop ==
  /\ shutdown
  /\ lifecycle \notin {"new", "stopped"}
  /\ Lock(Owner, "stop", "clear")
  /\ lifecycle' = "stopping"
  /\ UNCHANGED <<process, pidKnown, attached, lastHealthy, policy, watchers, world, outside, ghosts>>

FinishStop ==
  /\ step = "cleaned" /\ call = "stop" /\ ~raised
  /\ attached' = FALSE /\ lastHealthy' = FALSE
  /\ lifecycle' = "stopped"
  /\ Unlock /\ UNCHANGED victim
  /\ UNCHANGED <<process, pidKnown, policy, watchers, world, outside, ghosts>>

\* A failed cleanup leaves the lifecycle STOPPING; stop() can be called again.
StopRaises ==
  /\ step = "cleaned" /\ call = "stop" /\ raised
  /\ Unlock /\ UNCHANGED victim
  /\ UNCHANGED <<fields, policy, watchers, world, outside, ghosts>>
-----------------------------------------------------------------------------
\* The processes, the pump threads and time.

\* The guardian spawns the native process and publishes its PID.
GuardianSpawns(g) ==
  /\ guardian[g] = "alive" /\ native[g] = "none"
  /\ native' = [native EXCEPT ![g] = "alive"]
  /\ UNCHANGED <<fields, policy, lock, watchers, guardian, pump, launches, outside, ghosts>>

\* The guardian is killed, alone.
GuardianDies(g) ==
  /\ guardian[g] = "alive"
  /\ Disturb("guardian")
  /\ guardian' = [guardian EXCEPT ![g] = "dead"]
  /\ UNCHANGED <<fields, policy, lock, watchers, native, pump, launches, outside, abandoned>>

\* The native process crashes, or finds its port taken and exits.
NativeDies(g) ==
  /\ native[g] = "alive"
  /\ \/ Disturb("native")
     \/ (external \/ \E h \in Gens : h < g /\ native[h] = "alive") /\ UNCHANGED faults
  /\ native' = [native EXCEPT ![g] = "dead"]
  /\ UNCHANGED <<fields, policy, lock, watchers, guardian, pump, launches, outside, abandoned>>

\* The guardian exits with the code of its native process.
GuardianExits(g) ==
  /\ guardian[g] = "alive" /\ native[g] = "dead"
  /\ guardian' = [guardian EXCEPT ![g] = "dead"]
  /\ UNCHANGED <<fields, policy, lock, watchers, native, pump, launches, outside, ghosts>>

\* End of file: nothing holds the pipe any more.
PumpEnds(g) ==
  /\ pump[g] = "alive" /\ guardian[g] # "alive" /\ native[g] # "alive"
  /\ pump' = [pump EXCEPT ![g] = "dead"]
  /\ UNCHANGED <<fields, policy, lock, watchers, guardian, native, launches, outside, ghosts>>

ExternalDies ==
  /\ external
  /\ Disturb("external")
  /\ external' = FALSE
  /\ UNCHANGED <<fields, policy, lock, watchers, world, shutdown, record, abandoned>>

BackoffElapses ==
  /\ backoff > 0
  /\ backoff' = backoff - 1
  /\ UNCHANGED <<fields, unhealthy, delay, lock, watchers, world, outside, ghosts>>
-----------------------------------------------------------------------------
StartSteps   == (\E c \in BOOLEAN : BeginStart(c)) \/ Attach \/ FinishStart \/ StartFails \/ StartRaises
LaunchSteps  == SpawnRefused \/ Spawn \/ SpawnWithoutPump \/ Handshake \/ RecordPid \/ AwaitReady
CleanupSteps == ClearReferences \/ Terminate \/ Release
RestartSteps == Relaunch \/ FinishRestart \/ RestartFails
StopSteps    == StopUnstarted \/ BeginStop \/ FinishStop \/ StopRaises

SupervisorStep(s) ==
  \/ StartSupervisor(s) \/ BeginSupervise(s) \/ ExitSupervisor(s) \/ Snapshot(s) \/ Observe(s) \/ Decide(s)
  \/ RestartDeclined(s) \/ BeginRestart(s)

ProcessStep(g) == GuardianSpawns(g) \/ GuardianDies(g) \/ NativeDies(g) \/ GuardianExits(g) \/ PumpEnds(g)

Next ==
  \/ StartSteps \/ LaunchSteps \/ CleanupSteps \/ RestartSteps \/ StopSteps
  \/ \E s \in Supervisors : SupervisorStep(s)
  \/ \E g \in Gens : ProcessStep(g)
  \/ RequestShutdown \/ ExternalDies \/ BackoffElapses

Spec == Init /\ [][Next]_vars

\* The holder of the operation lock runs on: every wait inside it is bounded.
\* The supervisor loops until shutdown, close() always calls stop(), a
\* guardian spawns its child and follows it, and time passes. Crashes,
\* failures and the shutdown request are never forced.
Fairness ==
  /\ WF_vars(Attach \/ FinishStart \/ StartFails \/ StartRaises)
  /\ WF_vars(LaunchSteps) /\ WF_vars(CleanupSteps) /\ WF_vars(RestartSteps)
  /\ WF_vars(StopSteps)
  /\ \A s \in Supervisors :
       WF_vars(BeginSupervise(s) \/ ExitSupervisor(s) \/ Snapshot(s) \/ Observe(s) \/ Decide(s)
               \/ RestartDeclined(s) \/ BeginRestart(s))
  /\ \A g \in Gens : WF_vars(GuardianSpawns(g)) /\ WF_vars(GuardianExits(g))
  /\ WF_vars(BackoffElapses)

FairSpec == Spec /\ Fairness
-----------------------------------------------------------------------------
\* Properties.

\* Two generations are never alive at the same time, unless the cleanup or the
\* acquisition of one of them raised an error: start, stop and restart take
\* turns, and each clears what it finds before it launches
\* (docs/ARCHITECTURE.md:60, one process of each kind).
SingleInstance ==
  \A g, h \in Gens \ abandoned : Live(g) /\ Live(h) => g = h

\* Whatever is alive is held by the service, is being torn down by the holder
\* of the lock, or belongs to an operation that raised: no path of start,
\* restart and stop loses a process or a pump thread silently.
LiveIsAccounted ==
  \A g \in Gens : Live(g) => g \in {process, victim} \cup abandoned

\* While the service runs on a process of its own, the PID record on disk
\* names exactly that process: it is what the next control plane finds after
\* a crash of this one (registry.record_pid and remove against _process).
RunningIsRecorded ==
  lifecycle = "running" /\ ~attached => process # 0 /\ pidKnown /\ record = process

\* An attached service is only observed: nothing is launched for it, held,
\* or torn down (docs/INTERNALS.md, "Marked unhealthy but never restarted").
AttachedIsOnlyObserved ==
  attached => launches = 0 /\ process = 0 /\ victim = 0

\* A restart takes down a process that is alive only after Threshold checks
\* in a row have failed, although the decision was made on old copies.
RestartJustified ==
  [][holder = Nobody /\ call' = "restart" => ~Alive(process) \/ unhealthy >= Threshold]_vars

\* The service implements its contract: the instance it answers for is the
\* one it holds or, during a cleanup, the one it is tearing down.
Held == IF victim # 0 THEN victim ELSE process
Contract == INSTANCE ServiceContract
  WITH phase <- lifecycle, current <- Held, used <- launches, borrowed <- attached
ImplementsContract == Contract!Spec

\* A service whose process is gone runs again, or is shut down: no failed
\* restart, backoff or lost race leaves it unsupervised.
FailureIsRepaired ==
  ((\E s \in Supervisors : supStep[s] = "wait") /\ ~attached /\ ~Alive(process))
    ~> (shutdown \/ (lifecycle = "running" /\ Alive(process)))

\* Every shutdown ends with the service stopped, or with the error of a
\* cleanup reported and the lock free.
ShutdownCompletes ==
  shutdown ~> \/ lifecycle = "stopped"
              \/ lifecycle = "stopping" /\ holder = Nobody /\ abandoned # {}

\* docs/ARCHITECTURE.md:252: a pump that outlives its pipe makes cleanup fail,
\* "preventing a replacement process from racing an old worker for the same
\* log path". At most one pump thread then works on the log path.
OnePumpPerLog ==
  \A g, h \in Gens : pump[g] = "alive" /\ pump[h] = "alive" => g = h
=============================================================================
