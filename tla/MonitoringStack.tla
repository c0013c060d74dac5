--------------------------- MODULE MonitoringStack ---------------------------
(***************************************************************************)
(* ManagedMonitoringStack: Prometheus and Grafana, started and stopped     *)
(* together under one operation lock and watched by one supervisor thread. *)
(* start() builds a new pair of services and a new supervisor, close() may *)
(* come from any thread and at any time: it sets the shutdown event before *)
(* it waits for the lock. The supervisor takes no lock of the stack. What  *)
(* a service does inside is the subject of NativeService; here a launch,   *)
(* a stop and a restart of a service are single steps.                     *)
(***************************************************************************)
EXTENDS Integers, FiniteSets

CONSTANTS
  Callers,      \* threads that call start() and close()
  Nobody,       \* no holder of the operation lock
  Disciplined,  \* start() is called only on a stack that has come to rest
  Faults,       \* the kinds of failure the environment may cause
  MaxFaults,    \* bound: how many in a behaviour
  MaxStarts,    \* bound: how many calls of start()
  MaxCloses     \* bound: how many calls of close()

FaultKinds == {"prepare", "launch", "thread", "slow", "terminate", "native", "unready"}

ASSUME StackAssumption ==
  /\ Nobody \notin Callers
  /\ Disciplined \in BOOLEAN
  /\ Faults \subseteq FaultKinds
  /\ MaxFaults \in Nat /\ MaxStarts \in Nat \ {0} /\ MaxCloses \in Nat

Epochs == 1 .. MaxStarts   \* one pair of services and one supervisor for each start()
Kinds  == 1 .. 2           \* the position in _services: Prometheus, then Grafana

VARIABLES
  \* the stack: its lifecycle, the shutdown event, which pair _services is (0 for
  \* none), which supervisor _supervisor_thread is (0 for none)
  lifecycle, event, epoch, thread,
  \* the operation lock, what its holder does, with which service, and whether a stop failed
  holder, task, step, at, failed,
  \* the callers that have set the event and wait for the lock
  closing,
  \* the services: lifecycle, whether the process they hold is alive, and the
  \* supervisor that holds their operation lock (0 for none)
  svc, up, busy,
  \* the supervisors: where they are, in which pair, at which service
  sup, pair, kind,
  \* bookkeeping of the model: leaked processes, calls and failures so far
  leaked, starts, closes, faults

stack       == <<lifecycle, event, epoch, thread>>
lock        == <<holder, task, step, at, failed>>
services    == <<svc, up, busy>>
supervisors == <<sup, pair, kind>>
bounds      == <<starts, closes>>
vars == <<stack, lock, closing, services, supervisors, leaked, bounds, faults>>

Lifecycles == {"new", "starting", "running", "stopping", "stopped", "failed"}
Steps      == {"idle", "prepare", "launch", "announce", "supervise", "join", "stop", "finish"}
SupSteps   == {"unborn", "unstarted", "wait", "check", "restart", "relaunch", "ready", "refresh", "exited"}

TypeOK ==
  /\ lifecycle \in Lifecycles /\ event \in BOOLEAN
  /\ epoch \in 0 .. MaxStarts /\ thread \in 0 .. MaxStarts
  /\ holder \in Callers \cup {Nobody} /\ task \in {"none", "start", "close"}
  /\ step \in Steps /\ at \in Kinds /\ failed \in BOOLEAN
  /\ closing \subseteq Callers
  /\ svc \in [Epochs -> [Kinds -> Lifecycles]]
  /\ up \in [Epochs -> [Kinds -> BOOLEAN]]
  /\ busy \in [Epochs -> [Kinds -> 0 .. MaxStarts]]
  /\ sup \in [Epochs -> SupSteps]
  /\ pair \in [Epochs -> 0 .. MaxStarts] /\ kind \in [Epochs -> Kinds]
  /\ leaked \subseteq Epochs \X Kinds
  /\ starts \in 0 .. MaxStarts /\ closes \in 0 .. MaxCloses /\ faults \in 0 .. MaxFaults

Init ==
  /\ lifecycle = "new" /\ event = FALSE /\ epoch = 0 /\ thread = 0
  /\ holder = Nobody /\ task = "none" /\ step = "idle" /\ at = 1 /\ failed = FALSE
  /\ closing = {}
  /\ svc = [e \in Epochs |-> [k \in Kinds |-> "new"]]
  /\ up = [e \in Epochs |-> [k \in Kinds |-> FALSE]]
  /\ busy = [e \in Epochs |-> [k \in Kinds |-> 0]]
  /\ sup = [e \in Epochs |-> "unborn"]
  /\ pair = [e \in Epochs |-> 0] /\ kind = [e \in Epochs |-> 1]
  /\ leaked = {} /\ starts = 0 /\ closes = 0 /\ faults = 0
-----------------------------------------------------------------------------
\* Helper state formulae and steps.

Disturb(what) ==
  /\ what \in Faults
  /\ faults < MaxFaults
  /\ faults' = faults + 1

Alive(e) == sup[e] \notin {"unborn", "unstarted", "exited"}
AtRest   == closing = {} /\ \A e \in Epochs : ~Alive(e)

Goto(next) == step' = next /\ UNCHANGED <<holder, task, at, failed>>
Lock(c, what, first) == holder = Nobody /\ holder' = c /\ task' = what /\ step' = first /\ at' = 1 /\ failed' = FALSE
Unlock == holder' = Nobody /\ task' = "none" /\ step' = "idle" /\ UNCHANGED <<at, failed>>
-----------------------------------------------------------------------------
\* start().

\* A close() that came first has left its event: a new stack refuses to start.
BeginStart(c) ==
  /\ c \notin closing /\ c # holder
  /\ starts < MaxStarts /\ starts' = starts + 1
  /\ lifecycle \in {"new", "stopped", "failed"}
  /\ Disciplined => AtRest
  /\ \/ /\ event /\ lifecycle = "new" /\ holder = Nobody
        /\ lifecycle' = "stopped" /\ UNCHANGED <<event, lock>>
     \/ /\ ~(event /\ lifecycle = "new")
        /\ event' = IF lifecycle = "stopped" THEN FALSE ELSE event
        /\ lifecycle' = "starting"
        /\ Lock(c, "start", "prepare")
  /\ UNCHANGED <<epoch, thread, closing, services, supervisors, leaked, closes, faults>>

\* Defect for the runs: the first service in front.
Forward == 1

\* _stop_services() goes through the services in reverse order.
LastService == 2

\* except BaseException of _start(): FAILED, the event, and all services stopped.
Unwind ==
  /\ lifecycle' = "failed" /\ event' = TRUE
  /\ step' = "stop" /\ at' = LastService /\ UNCHANGED <<holder, task, failed>>

\* Configuration, reconciliation, validation and ports; then a new pair of services.
Prepare ==
  /\ step = "prepare"
  /\ \/ epoch' = starts /\ Goto("launch") /\ UNCHANGED <<lifecycle, event, faults>>
     \/ Disturb("prepare") /\ Unwind /\ UNCHANGED epoch
  /\ UNCHANGED <<thread, closing, services, supervisors, leaked, bounds>>

\* service.start(), which gives up when shutdown is requested.
Launch ==
  /\ step = "launch"
  /\ \/ /\ ~event
        /\ svc' = [svc EXCEPT ![epoch][at] = "running"]
        /\ up' = [up EXCEPT ![epoch][at] = TRUE]
        /\ IF at = 1 THEN at' = 2 /\ UNCHANGED <<holder, task, step, failed>> ELSE Goto("announce")
        /\ UNCHANGED <<lifecycle, event, faults>>
     \/ /\ (event /\ UNCHANGED faults) \/ Disturb("launch")
        /\ svc' = [svc EXCEPT ![epoch][at] = "failed"]
        /\ Unwind /\ UNCHANGED up
  /\ UNCHANGED <<epoch, thread, closing, busy, supervisors, leaked, bounds>>

\* RUNNING; refresh_statuses() then asks Prometheus about the targets.
Announce ==
  /\ step = "announce"
  /\ lifecycle' = "running" /\ Goto("supervise")
  /\ UNCHANGED <<event, epoch, thread, closing, services, supervisors, leaked, bounds, faults>>

\* A new supervisor thread, which may fail to start after it was stored.
StartSupervisor ==
  /\ step = "supervise"
  /\ thread' = epoch
  /\ \/ /\ Unlock
        /\ sup' = [sup EXCEPT ![epoch] = "wait"]
        /\ UNCHANGED <<lifecycle, event, faults>>
     \/ /\ Disturb("thread") /\ Unwind
        /\ sup' = [sup EXCEPT ![epoch] = "unstarted"]
  /\ UNCHANGED <<epoch, closing, services, pair, kind, leaked, bounds>>
-----------------------------------------------------------------------------
\* close().

\* close() sets the event before it takes the lock, to end a start in progress.
RequestClose(c) ==
  /\ c \notin closing /\ c # holder
  /\ closes < MaxCloses /\ closes' = closes + 1
  /\ event' = TRUE
  /\ closing' = closing \cup {c}
  /\ UNCHANGED <<lifecycle, epoch, thread, lock, services, supervisors, leaked, starts, faults>>

BeginClose(c) ==
  /\ c \in closing
  /\ closing' = closing \ {c}
  /\ \/ /\ lifecycle \in {"new", "stopped"} /\ holder = Nobody
        /\ lifecycle' = "stopped" /\ UNCHANGED lock
     \/ /\ lifecycle \notin {"new", "stopped"}
        /\ lifecycle' = "stopping" /\ Lock(c, "close", "join")
  /\ UNCHANGED <<event, epoch, thread, services, supervisors, leaked, bounds, faults>>

\* The wait for the supervisor ends when it has exited, or after three seconds:
\* it may be in a probe or a restart, or not see the event at all.
JoinEnds ==
  \/ thread = 0 /\ UNCHANGED faults
  \/ thread # 0 /\ sup[thread] = "exited" /\ UNCHANGED faults
  \/ thread # 0 /\ Alive(thread) /\ ~event /\ UNCHANGED faults
  \/ thread # 0 /\ Alive(thread) /\ sup[thread] # "wait" /\ Disturb("slow")

Join ==
  /\ step = "join"
  /\ JoinEnds
  /\ step' = "stop" /\ at' = LastService /\ UNCHANGED <<holder, task, failed>>
  /\ UNCHANGED <<stack, closing, services, supervisors, leaked, bounds>>

\* join() of a thread that was never started raises, and STOPPING stays.
JoinRaises ==
  /\ step = "join"
  /\ thread # 0 /\ sup[thread] = "unstarted"
  /\ Unlock
  /\ UNCHANGED <<stack, closing, services, supervisors, leaked, bounds, faults>>

\* Defect for the runs: the operation lock of the service is not waited for.
Regardless(e, k) == TRUE

\* service.stop() waits for a restart in progress.
Free(e, k) == busy[e][k] = 0

\* _stop_services(), for close() and for a failed start(): an error does not keep
\* the other service from being stopped. A service left STOPPING has let go of
\* its process; one that is STOPPED is left as it is.
StopService ==
  /\ step = "stop"
  /\ IF epoch = 0 THEN UNCHANGED <<services, leaked, failed, faults>>
     ELSE /\ Free(epoch, at)
          /\ \/ /\ svc[epoch][at] = "stopped"
                /\ UNCHANGED <<svc, up, leaked, failed, faults>>
             \/ /\ svc[epoch][at] # "stopped"
                /\ svc' = [svc EXCEPT ![epoch][at] = "stopped"]
                /\ up' = [up EXCEPT ![epoch][at] = FALSE]
                /\ UNCHANGED <<leaked, failed, faults>>
             \/ /\ svc[epoch][at] # "stopped"
                /\ up[epoch][at] /\ Disturb("terminate")
                /\ svc' = [svc EXCEPT ![epoch][at] = "stopping"]
                /\ up' = [up EXCEPT ![epoch][at] = FALSE]
                /\ leaked' = leaked \cup {<<epoch, at>>} /\ failed' = TRUE
          /\ UNCHANGED busy
  /\ IF at = LastService THEN at' = 3 - LastService /\ UNCHANGED step ELSE step' = "finish" /\ UNCHANGED at
  /\ UNCHANGED <<stack, holder, task, closing, supervisors, bounds>>

\* close() leaves a stopped stack even when it raises; start() raises.
Finish ==
  /\ step = "finish"
  /\ lifecycle' = IF task = "close" THEN "stopped" ELSE lifecycle
  /\ Unlock
  /\ UNCHANGED <<event, epoch, thread, closing, services, supervisors, leaked, bounds, faults>>
-----------------------------------------------------------------------------
\* The supervisor thread of epoch e.

\* Defect for the runs: one service too many.
Beyond(k) == k + 1

\* There are two services in a pair.
NextKind(k) == 2

\* The next service of the pair, then the statuses.
Advance(e) ==
  /\ kind' = [kind EXCEPT ![e] = NextKind(@)]
  /\ sup' = [sup EXCEPT ![e] = IF kind[e] = 1 THEN "check" ELSE "refresh"]
  /\ UNCHANGED pair

At(e, next) == sup' = [sup EXCEPT ![e] = next] /\ UNCHANGED <<pair, kind>>

\* A round goes through the pair that _services is when it begins.
Tick(e) ==
  /\ sup[e] = "wait" /\ ~event
  /\ sup' = [sup EXCEPT ![e] = "check"]
  /\ pair' = [pair EXCEPT ![e] = epoch]
  /\ kind' = [kind EXCEPT ![e] = 1]
  /\ UNCHANGED <<stack, lock, closing, services, leaked, bounds, faults>>

Exit(e) ==
  /\ sup[e] = "wait" /\ event
  /\ At(e, "exited")
  /\ UNCHANGED <<stack, lock, closing, services, leaked, bounds, faults>>

\* supervise(): the service is left alone, or found dead, or not ready for too long.
Check(e) ==
  LET s == svc[pair[e]][kind[e]]
      alive == up[pair[e]][kind[e]]
  IN /\ sup[e] = "check"
     /\ \/ /\ event \/ alive \/ s \notin {"running", "failed"}
           /\ Advance(e) /\ UNCHANGED faults
        \/ /\ ~event /\ s \in {"running", "failed"}
           /\ \/ ~alive /\ UNCHANGED faults
              \/ alive /\ Disturb("unready")
           /\ At(e, "restart")
     /\ UNCHANGED <<stack, lock, closing, services, leaked, bounds>>

\* _restart() gives up when shutdown was requested or the lock is taken.
Decline(e) ==
  /\ sup[e] = "restart"
  /\ event \/ busy[pair[e]][kind[e]] # 0
  /\ Advance(e)
  /\ UNCHANGED <<stack, lock, closing, services, leaked, bounds, faults>>

\* Otherwise it stops what the service holds.
Restart(e) ==
  LET p == pair[e] IN LET k == kind[e] IN
  /\ sup[e] = "restart" /\ ~event /\ busy[p][k] = 0
  /\ busy' = [busy EXCEPT ![p][k] = e]
  /\ svc' = [svc EXCEPT ![p][k] = IF @ \in {"running", "failed"} THEN "starting" ELSE @]
  /\ up' = [up EXCEPT ![p][k] = FALSE]
  /\ At(e, "relaunch")
  /\ UNCHANGED <<stack, lock, closing, leaked, bounds, faults>>

\* Defects for the runs: the lock of the service is kept; a failed restart leaves
\* STARTING; an unexpected error ends the thread.
KeepBusy(e) == e
StayStarting == "starting"
Uncaught(e) == At(e, "exited")

\* _restart() releases the lock in every case, and a failed restart is tried again.
Released(e) == 0
AfterFailedRestart == "failed"

\* Whatever supervise() raises, the supervisor goes on.
Caught(e) == Advance(e)

Unhold(e) == busy' = [busy EXCEPT ![pair[e]][kind[e]] = Released(e)]

\* It launches without a look at the event, or cannot. When the log pump's
\* thread cannot be started, the guardian is lost and the service stays STARTING.
Relaunch(e) ==
  LET p == pair[e] IN LET k == kind[e] IN
  /\ sup[e] = "relaunch"
  /\ \/ /\ up' = [up EXCEPT ![p][k] = TRUE]
        /\ At(e, "ready")
        /\ UNCHANGED <<svc, busy, leaked, faults>>
     \/ /\ Disturb("launch")
        /\ svc' = [svc EXCEPT ![p][k] = IF @ = "starting" THEN AfterFailedRestart ELSE @]
        /\ Unhold(e) /\ Advance(e)
        /\ UNCHANGED <<up, leaked>>
     \/ /\ Disturb("thread")
        /\ leaked' = leaked \cup {<<p, k>>}
        /\ Unhold(e) /\ Caught(e)
        /\ UNCHANGED <<svc, up>>
  /\ UNCHANGED <<stack, lock, closing, bounds>>

\* The wait for readiness ends with a service that runs or, on shutdown, the death
\* of the process or the deadline, with one that is cleaned up. A service that was
\* STOPPED before the restart cannot become RUNNING: the transition raises, and
\* the process stays.
Ready(e) ==
  LET p == pair[e] IN LET k == kind[e] IN
  /\ sup[e] = "ready"
  /\ \/ /\ ~event /\ up[p][k]
        /\ svc' = [svc EXCEPT ![p][k] = IF @ = "starting" THEN "running" ELSE @]
        /\ UNCHANGED <<up, faults>>
     \/ /\ ((event \/ ~up[p][k]) /\ UNCHANGED faults) \/ Disturb("launch")
        /\ svc' = [svc EXCEPT ![p][k] = IF @ = "starting" THEN AfterFailedRestart ELSE @]
        /\ up' = [up EXCEPT ![p][k] = FALSE]
  /\ Unhold(e) /\ Advance(e)
  /\ UNCHANGED <<stack, lock, closing, leaked, bounds>>

\* refresh_statuses() and the end of the round.
EndRound(e) ==
  /\ sup[e] = "refresh"
  /\ At(e, "wait")
  /\ UNCHANGED <<stack, lock, closing, services, leaked, bounds, faults>>

\* A native process dies.
NativeDies(e, k) ==
  /\ up[e][k]
  /\ Disturb("native")
  /\ up' = [up EXCEPT ![e][k] = FALSE]
  /\ UNCHANGED <<stack, lock, closing, svc, busy, supervisors, leaked, bounds>>
-----------------------------------------------------------------------------
CloseSteps    == Join \/ JoinRaises \/ StopService \/ Finish
HolderStep    == Prepare \/ Launch \/ Announce \/ StartSupervisor \/ CloseSteps
SupervisorStep(e) == Tick(e) \/ Exit(e) \/ Check(e) \/ Decline(e) \/ Restart(e) \/ Relaunch(e) \/ Ready(e) \/ EndRound(e)

Next ==
  \/ \E c \in Callers : BeginStart(c) \/ RequestClose(c) \/ BeginClose(c)
  \/ HolderStep
  \/ \E e \in Epochs : SupervisorStep(e) \/ \E k \in Kinds : NativeDies(e, k)

Spec == Init /\ [][Next]_vars

\* The holder of the lock runs on, a caller that waits for the lock gets it once
\* it stays free, and the supervisors run. Calls and failures are never forced.
Fairness ==
  /\ WF_vars(HolderStep)
  /\ \A c \in Callers : WF_vars(BeginClose(c))
  /\ \A e \in Epochs : WF_vars(SupervisorStep(e))

FairSpec == Spec /\ Fairness
-----------------------------------------------------------------------------
\* Properties.

\* A stack that is down runs nothing: no process of any pair is alive, except
\* what a stop has reported as not terminated, although a supervisor whose join
\* timed out may still be in a restart (close(), _stop_services, _restart).
DownIsDown ==
  lifecycle \in {"stopped", "failed"} /\ holder = Nobody =>
    \A e \in Epochs, k \in Kinds : ~up[e][k]

\* Grafana reads from Prometheus: Prometheus is stopped only when Grafana is down
\* (close(): "in reverse dependency order"), and nothing starts Grafana again.
OrderedShutdown ==
  \A e \in Epochs : svc[e][1] \in {"stopping", "stopped"} => ~up[e][2]

\* Supervision follows the lifecycle of the stack.  Once it runs, one supervisor
\* watches its services and no other one is left (docs/ARCHITECTURE.md:237, "One
\* supervisor thread checks both").  Once close() has left it stopped, no
\* supervisor goes on: each has exited, or will exit because the event is set
\* (monitoring.py:249, close() stops "supervision and owned services").
SupervisionFollows ==
  /\ lifecycle = "running" /\ ~event /\ holder = Nobody =>
       /\ Alive(epoch) /\ pair[epoch] \in {0, epoch}
       /\ \A e \in Epochs \ {epoch} : ~Alive(e)
  /\ lifecycle = "stopped" /\ holder = Nobody => event \/ \A e \in Epochs : ~Alive(e)

\* Every close() returns, also when it comes during a start or a restart.
CloseReturns == \A c \in Callers : (c \in closing \/ (holder = c /\ task = "close")) ~> (c \notin closing /\ holder # c)

\* A service that dies comes back, unless the stack is shut down: the failure of
\* one service does not keep the supervisor from the other one. A launch that raised
\* an unexpected error is excepted (FailureIsRepaired of NativeService).
ServicesComeBack ==
  \A e \in Epochs, k \in Kinds :
    (lifecycle = "running" /\ epoch = e /\ ~up[e][k]) ~> (event \/ up[e][k] \/ <<e, k>> \in leaked)
=============================================================================
