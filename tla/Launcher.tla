------------------------------ MODULE Launcher ------------------------------
(***************************************************************************)
(* scripts/sbk_dashboard_launcher.py for one management port: commands     *)
(* that start and stop an instance, the supervisor of a background         *)
(* instance, its dashboard and the watcher of both.  They share one record *)
(* file that says who owns the port, and two marker files per start.       *)
(* A process is its pid together with its creation time, which is what     *)
(* matching_process() compares, so that a reused pid is another process.   *)
(***************************************************************************)
EXTENDS Naturals

CONSTANTS
  NoRecord,   \* the record file does not exist
  Starts,     \* start commands, background or foreground
  Stops,      \* stop commands
  Kinds,      \* the kinds of failure that may happen
  MaxFaults   \* bound: how many failures may happen

FailureKinds == {"kill", "interrupt", "spawn", "write", "slow", "dashboard"}

Record(s, m) == [of |-> s, mode |-> m]
Records == [of : Starts, mode : {"starting", "foreground", "background"}]

ASSUME LauncherAssumption ==
  /\ NoRecord \notin Records
  /\ Kinds \subseteq FailureKinds /\ MaxFaults \in Nat

VARIABLES
  record,      \* the record file of the port
  starter, tries, found, \* the start commands: step, failed attempts, record in the way
  supervisor, stopping,  \* the supervisors: step, and the stopping event
  dashboard, watcher,    \* the processes a supervisor starts
  authorized, confirmed, \* the two marker files of each start
  stopper, seen, caught, \* the stop commands: step, record read, processes captured
  stolen,                \* bookkeeping: starts whose record was taken while its owner lived
  faults                 \* failures so far, a bound of the model

search   == <<tries, found>>
commands == <<starter, search>>
tree     == <<supervisor, stopping, dashboard, watcher>>
markers  == <<authorized, confirmed>>
stops    == <<stopper, seen, caught>>
vars == <<record, commands, tree, markers, stops, stolen, faults>>

None == "none"

TypeOK ==
  /\ record \in Records \cup {NoRecord}
  /\ starter \in [Starts -> {"idle", "link", "inspect", "match", "clear", "announce", "spawn",
                             "grace", "write", "authorize", "confirm", "settle", "terminate",
                             "forget", "serving", "leaving", "unlink", "started", "gone"}]
  /\ tries \in [Starts -> 0 .. 1]
  /\ found \in [Starts -> Records \cup {NoRecord}]
  /\ supervisor \in [Starts -> {None, "handshake", "launch", "settle", "watch", "confirm",
                                "drain", "finish", "unlink"}]
  /\ stopping \in [Starts -> BOOLEAN]
  /\ dashboard \in [Starts -> {None, "starting", "bound", "serving", "ending"}]
  /\ watcher \in [Starts -> {None, "watching", "forcing"}]
  /\ authorized \subseteq Starts /\ confirmed \subseteq Starts
  /\ stopper \in [Stops -> {"idle", "match", "clear", "signal", "wait", "check", "unlink",
                            "stopped", "absent"}]
  /\ seen \in [Stops -> Records \cup {NoRecord}]
  /\ caught \in [Stops -> SUBSET ({"starter", "supervisor", "dashboard", "watcher"} \X Starts)]
  /\ stolen \subseteq Starts
  /\ faults \in 0 .. MaxFaults

Init ==
  /\ record = NoRecord
  /\ starter = [s \in Starts |-> "idle"]
  /\ tries = [s \in Starts |-> 0] /\ found = [s \in Starts |-> NoRecord]
  /\ supervisor = [s \in Starts |-> None] /\ stopping = [s \in Starts |-> FALSE]
  /\ dashboard = [s \in Starts |-> None] /\ watcher = [s \in Starts |-> None]
  /\ authorized = {} /\ confirmed = {}
  /\ stopper = [k \in Stops |-> "idle"] /\ seen = [k \in Stops |-> NoRecord]
  /\ caught = [k \in Stops |-> {}]
  /\ stolen = {} /\ faults = 0
-----------------------------------------------------------------------------
\* Helper state formulae and steps.

Disturb(kind) == kind \in Kinds /\ faults < MaxFaults /\ faults' = faults + 1

At(s, step)         == starter' = [starter EXCEPT ![s] = step]
SupervisorAt(s, step) == supervisor' = [supervisor EXCEPT ![s] = step]
StopperAt(k, step)  == stopper' = [stopper EXCEPT ![k] = step]

SupervisorEnds(s) == SupervisorAt(s, None) /\ stopping' = [stopping EXCEPT ![s] = FALSE]

Starting(s)   == starter[s] \notin {"idle", "started", "gone"}
Supervised(s) == supervisor[s] # None
Running(s)    == dashboard[s] # None
Watched(s)    == watcher[s] # None

Alive(p) ==
  CASE p[1] = "starter"    -> Starting(p[2])
    [] p[1] = "supervisor" -> Supervised(p[2])
    [] p[1] = "dashboard"  -> Running(p[2])
    [] p[1] = "watcher"    -> Watched(p[2])

\* The process a record names.
Owner(r) == IF r.mode = "background" THEN <<"supervisor", r.of>> ELSE <<"starter", r.of>>

\* matching_process(): the record names a process that still runs.
Matching(r) == r # NoRecord /\ Alive(Owner(r))

\* The start that loses its record when it is replaced or unlinked by a process
\* that may only touch a record of p.
Victim(p) == IF Matching(record) /\ Owner(record) # p THEN {record.of} ELSE {}

\* remove_stale_state() unlinks whatever is there now.
Unlink(p) == record' = NoRecord /\ stolen' = stolen \cup Victim(p)

Names(r, p) == r # NoRecord /\ Owner(r) = p

\* Dashboards that go on until somebody ends them.
Lasting == {"starting", "bound", "serving"}

\* What SIGTERM does to a dashboard: before main.run() installs its handlers it
\* dies, afterwards it shuts down.
Terminated(d) == IF d \in {"starting", "bound"} THEN None ELSE IF d = "serving" THEN "ending" ELSE d

EndDashboard(s) == dashboard' = [dashboard EXCEPT ![s] = Terminated(@)]

\* Children that the stopping handler of the supervisor knows.
HasChild(s) == supervisor[s] \in {"settle", "watch", "confirm", "drain", "finish", "unlink"}

\* SIGTERM to the supervisor: until its handlers are installed it dies; then
\* it sets the stopping event and ends the dashboard if it has one.
TerminateSupervisor(s) ==
  \/ /\ supervisor[s] = "handshake"
     /\ SupervisorEnds(s)
     /\ UNCHANGED dashboard
  \/ /\ Supervised(s)
     /\ stopping' = [stopping EXCEPT ![s] = TRUE]
     /\ IF HasChild(s) THEN EndDashboard(s) ELSE UNCHANGED dashboard
     /\ UNCHANGED supervisor
  \/ ~Supervised(s) /\ UNCHANGED <<supervisor, stopping, dashboard>>

\* SIGTERM to the process group of the supervisor, the dashboard included.
TerminateGroup(s) ==
  IF Supervised(s) THEN TerminateSupervisor(s)
  ELSE /\ EndDashboard(s)
       /\ UNCHANGED <<supervisor, stopping>>

\* SIGTERM or SIGINT to a start command, by its step: the default action, the
\* KeyboardInterrupt of interrupt_start(), also within the cleanup it starts,
\* or the shutdown of the application in the foreground.
Interrupted(s) ==
  CASE starter[s] = "grace" -> {"gone", "terminate"}
    [] starter[s] \in {"write", "authorize", "confirm", "settle"} -> {"terminate"}
    [] starter[s] \in {"serving", "leaving"} -> {"leaving", "gone"}
    [] OTHER -> {"gone"}

InterruptStarter(s) == \E step \in Interrupted(s) : At(s, step)
-----------------------------------------------------------------------------
\* start: reserve_start() links a complete file to the name of the record.

Linking(s) == starter[s] \in {"idle", "link"}

Reserve(s, next) ==
  /\ Linking(s) /\ record = NoRecord
  /\ record' = Record(s, "starting")
  /\ tries' = [tries EXCEPT ![s] = 0]
  /\ At(s, next)
  /\ UNCHANGED <<found, tree, markers, stops, stolen, faults>>

AlreadyExists(s) ==
  /\ Linking(s) /\ record # NoRecord
  /\ At(s, "inspect")
  /\ UNCHANGED <<record, search, tree, markers, stops, stolen, faults>>

\* It reads the record that is in the way ...
Inspect(s) ==
  /\ starter[s] = "inspect"
  /\ found' = [found EXCEPT ![s] = record]
  /\ At(s, "match")
  /\ UNCHANGED <<record, tries, tree, markers, stops, stolen, faults>>

SomebodyThere(s) == Matching(found[s])

\* ... and then looks for the process it names.
MatchFound(s) ==
  /\ starter[s] = "match"
  /\ At(s, IF SomebodyThere(s) THEN "gone" ELSE "clear")
  /\ found' = [found EXCEPT ![s] = NoRecord]
  /\ UNCHANGED <<record, tries, tree, markers, stops, stolen, faults>>

LastTry(s) == tries[s] = 1

\* By now the record may have become somebody else's.
Clear(s) ==
  /\ starter[s] = "clear"
  /\ Unlink(<<"starter", s>>)
  /\ \/ LastTry(s) /\ At(s, "gone") /\ UNCHANGED tries
     \/ ~LastTry(s) /\ At(s, "link") /\ tries' = [tries EXCEPT ![s] = @ + 1]
  /\ UNCHANGED <<found, tree, markers, stops, faults>>
-----------------------------------------------------------------------------
\* A foreground start is the instance itself.

Write(s, m, next) ==
  /\ record' = Record(s, m) /\ stolen' = stolen \cup Victim(<<"starter", s>>)
  /\ At(s, next)
  /\ UNCHANGED <<search, tree, markers, stops, faults>>

\* remove_owned_state() reads whose record it is ...
Release(s) == At(s, IF Names(record, <<"starter", s>>) THEN "unlink" ELSE "gone")

WriteForeground(s) ==
  /\ starter[s] = "announce"
  /\ \/ Write(s, "foreground", "serving")
     \/ /\ Disturb("write")
        /\ Release(s)
        /\ UNCHANGED <<record, search, tree, markers, stops, stolen>>

\* The application returns on its own account.
ApplicationEnds(s) ==
  /\ starter[s] = "serving" /\ Disturb("dashboard")
  /\ At(s, "leaving")
  /\ UNCHANGED <<record, search, tree, markers, stops, stolen>>

Leave(s) ==
  /\ starter[s] = "leaving"
  /\ Release(s)
  /\ UNCHANGED <<record, search, tree, markers, stops, stolen, faults>>

\* ... and unlinks what is there by then.
UnlinkOwn(s) ==
  /\ starter[s] = "unlink"
  /\ Unlink(<<"starter", s>>)
  /\ At(s, "gone")
  /\ UNCHANGED <<search, tree, markers, stops, faults>>
-----------------------------------------------------------------------------
\* start_background().

SpawnSupervisor(s) ==
  /\ starter[s] = "spawn"
  /\ \/ SupervisorAt(s, "handshake") /\ At(s, "grace") /\ UNCHANGED faults
     \/ Disturb("spawn") /\ Release(s) /\ UNCHANGED supervisor
  /\ UNCHANGED <<record, search, stopping, dashboard, watcher, markers, stops, stolen>>

Grace(s) ==
  /\ starter[s] = "grace"
  /\ At(s, IF Supervised(s) THEN "write" ELSE "terminate")
  /\ UNCHANGED <<record, search, tree, markers, stops, stolen, faults>>

\* Defects for the runs: the record still names the start command, or has a mode
\* that no stop command knows.
KeepReservation == "starting"
UnknownMode == "detached"

\* From here on the record names the supervisor.
RecordedMode == "background"

WriteBackground(s) ==
  /\ starter[s] = "write"
  /\ \/ Write(s, RecordedMode, "authorize")
     \/ /\ Disturb("write")
        /\ At(s, "terminate")
        /\ UNCHANGED <<record, search, tree, markers, stops, stolen>>

Authorize(s) ==
  /\ starter[s] = "authorize"
  /\ \/ authorized' = authorized \cup {s} /\ At(s, "confirm") /\ UNCHANGED faults
     \/ Disturb("write") /\ At(s, "terminate") /\ UNCHANGED authorized
  /\ UNCHANGED <<record, search, tree, confirmed, stops, stolen>>

\* wait_for_background_start(): the supervisor has confirmed, or is gone, or the
\* time is up: the supervisor is slow, or will not confirm any more.
Confirm(s) ==
  /\ starter[s] = "confirm"
  /\ \/ /\ s \in confirmed /\ Supervised(s)
        /\ confirmed' = confirmed \ {s} /\ At(s, "settle") /\ UNCHANGED faults
     \/ /\ ~Supervised(s) \/ (s \notin confirmed /\ supervisor[s] \in {"drain", "finish", "unlink"})
        /\ At(s, "terminate") /\ UNCHANGED <<confirmed, faults>>
     \/ /\ Supervised(s) /\ s \notin confirmed /\ Disturb("slow")
        /\ At(s, "terminate") /\ UNCHANGED confirmed
  /\ UNCHANGED <<record, search, tree, authorized, stops, stolen>>

Settle(s) ==
  /\ starter[s] = "settle"
  /\ At(s, IF Supervised(s) THEN "started" ELSE "terminate")
  /\ UNCHANGED <<record, search, tree, markers, stops, stolen, faults>>

Terminate(s) ==
  /\ starter[s] = "terminate"
  /\ TerminateGroup(s)
  /\ At(s, "forget")
  /\ UNCHANGED <<record, search, watcher, markers, stops, stolen, faults>>

\* child.wait() has returned, or its timeout has expired and is ignored.
\* The record is unlinked whoever it names, a live supervisor included.
Forget(s) ==
  /\ starter[s] = "forget"
  /\ Unlink(<<"starter", s>>)
  /\ authorized' = authorized \ {s} /\ confirmed' = confirmed \ {s}
  /\ At(s, "gone")
  /\ UNCHANGED <<search, tree, stops, faults>>
-----------------------------------------------------------------------------
\* run_dashboard(), the supervisor.

\* wait_for_startup_handshake() looks for the marker first.
Handshake(s) ==
  /\ supervisor[s] = "handshake" /\ s \in authorized
  /\ authorized' = authorized \ {s}
  /\ SupervisorAt(s, "launch")
  /\ UNCHANGED <<record, commands, stopping, dashboard, watcher, confirmed, stops, stolen, faults>>

\* It was stopped, or the start command is gone, or the time is up.
GiveUp(s) ==
  /\ supervisor[s] = "handshake"
  /\ \/ (stopping[s] \/ ~Starting(s)) /\ UNCHANGED faults
     \/ Disturb("slow")
  /\ SupervisorEnds(s)
  /\ UNCHANGED <<record, commands, dashboard, watcher, markers, stops, stolen>>

LaunchDashboard(s) ==
  /\ supervisor[s] = "launch"
  /\ \/ /\ dashboard' = [dashboard EXCEPT ![s] = "starting"]
        /\ SupervisorAt(s, "settle") /\ UNCHANGED faults
     \/ Disturb("spawn") /\ SupervisorAt(s, "finish") /\ UNCHANGED dashboard
  /\ UNCHANGED <<record, commands, stopping, watcher, markers, stops, stolen>>

\* Defect for the runs: the start is confirmed without a watcher.
Unwatched == "confirm"

BeforeConfirmation == "watch"

\* The dashboard survives the startup window and nobody asked to stop.
Survives(s) ==
  /\ supervisor[s] = "settle"
  /\ SupervisorAt(s, IF Running(s) /\ ~stopping[s] THEN BeforeConfirmation ELSE "drain")
  /\ UNCHANGED <<record, commands, stopping, dashboard, watcher, markers, stops, stolen, faults>>

LaunchWatcher(s) ==
  /\ supervisor[s] = "watch"
  /\ \/ /\ watcher' = [watcher EXCEPT ![s] = "watching"]
        /\ SupervisorAt(s, "confirm") /\ UNCHANGED <<dashboard, faults>>
     \/ Disturb("spawn") /\ SupervisorAt(s, "finish") /\ EndDashboard(s) /\ UNCHANGED watcher
  /\ UNCHANGED <<record, commands, stopping, markers, stops, stolen>>

Report(s) ==
  /\ supervisor[s] = "confirm"
  /\ \/ /\ confirmed' = confirmed \cup {s}
        /\ SupervisorAt(s, "drain") /\ UNCHANGED <<dashboard, faults>>
     \/ Disturb("write") /\ SupervisorAt(s, "finish") /\ EndDashboard(s) /\ UNCHANGED confirmed
  /\ UNCHANGED <<record, commands, stopping, watcher, authorized, stops, stolen>>

\* drain_child_output() returns at the end of the output, or cannot write the log.
Drain(s) ==
  /\ supervisor[s] = "drain"
  /\ \/ ~Running(s) /\ UNCHANGED <<dashboard, faults>>
     \/ Running(s) /\ Disturb("write") /\ EndDashboard(s)
  /\ SupervisorAt(s, "finish")
  /\ UNCHANGED <<record, commands, stopping, watcher, markers, stops, stolen>>

Finish(s) ==
  /\ supervisor[s] = "finish"
  /\ \/ ~Running(s) /\ UNCHANGED faults
     \/ Running(s) /\ Disturb("slow")
  /\ authorized' = authorized \ {s} /\ confirmed' = confirmed \ {s}
  /\ IF Names(record, <<"supervisor", s>>)
       THEN SupervisorAt(s, "unlink") /\ UNCHANGED stopping
       ELSE SupervisorEnds(s)
  /\ UNCHANGED <<record, commands, dashboard, watcher, stops, stolen>>

\* It unlinks what is there by now.
Vanish(s) ==
  /\ supervisor[s] = "unlink"
  /\ Unlink(<<"supervisor", s>>)
  /\ SupervisorEnds(s)
  /\ UNCHANGED <<commands, dashboard, watcher, markers, stops, faults>>
-----------------------------------------------------------------------------
\* watch_launcher() and the dashboard.

Watch(s) ==
  /\ watcher[s] = "watching"
  /\ \/ ~Running(s) /\ watcher' = [watcher EXCEPT ![s] = None] /\ UNCHANGED dashboard
     \/ Running(s) /\ ~Supervised(s) /\ EndDashboard(s) /\ watcher' = [watcher EXCEPT ![s] = "forcing"]
  /\ UNCHANGED <<record, commands, supervisor, stopping, markers, stops, stolen, faults>>

\* wait_then_force(): what is left after the timeout is killed.
WaitThenForce(s) ==
  /\ watcher[s] = "forcing"
  /\ watcher' = [watcher EXCEPT ![s] = None]
  /\ dashboard' = [dashboard EXCEPT ![s] = None]
  /\ UNCHANGED <<record, commands, supervisor, stopping, markers, stops, stolen, faults>>

\* The management port is bound by another instance.
Bound == \E s \in Starts : dashboard[s] \in {"bound", "serving", "ending"} \/ starter[s] \in {"serving", "leaving"}

\* The dashboard binds the management port, or ends with an error.
Bind(s) ==
  /\ dashboard[s] = "starting"
  /\ dashboard' = [dashboard EXCEPT ![s] = IF Bound THEN None ELSE "bound"]
  /\ UNCHANGED <<record, commands, supervisor, stopping, watcher, markers, stops, stolen, faults>>

\* The monitoring has started; from now on a signal shuts the dashboard down.
InstallHandlers(s) ==
  /\ dashboard[s] = "bound"
  /\ dashboard' = [dashboard EXCEPT ![s] = "serving"]
  /\ UNCHANGED <<record, commands, supervisor, stopping, watcher, markers, stops, stolen, faults>>

DashboardEnds(s) ==
  /\ \/ dashboard[s] = "ending" /\ UNCHANGED faults
     \/ dashboard[s] \in Lasting /\ Disturb("dashboard")
  /\ dashboard' = [dashboard EXCEPT ![s] = None]
  /\ UNCHANGED <<record, commands, supervisor, stopping, watcher, markers, stops, stolen>>
-----------------------------------------------------------------------------
\* stop_instance().

\* load_state() of a port without a record finds nothing to stop.
Load(k) ==
  /\ stopper[k] = "idle"
  /\ seen' = [seen EXCEPT ![k] = record]
  /\ StopperAt(k, IF record = NoRecord THEN "absent" ELSE "match")
  /\ UNCHANGED <<record, commands, tree, markers, caught, stolen, faults>>

\* process.children(recursive=True).
Descendants(p) ==
  LET s == p[2]
      children == {x \in {"supervisor", "dashboard", "watcher"} \X {s} : Alive(x)}
  IN  IF p[1] = "supervisor" THEN children \ {p}
      ELSE IF Supervised(s) THEN children ELSE {}

Match(k) ==
  /\ stopper[k] = "match"
  /\ LET p == Owner(seen[k])
     IN  IF Alive(p) THEN StopperAt(k, "signal") /\ caught' = [caught EXCEPT ![k] = {p} \cup Descendants(p)]
                     ELSE StopperAt(k, "clear") /\ UNCHANGED caught
  /\ UNCHANGED <<record, commands, tree, markers, seen, stolen, faults>>

ClearStale(k) ==
  /\ stopper[k] = "clear"
  /\ Unlink(Owner(seen[k]))
  /\ StopperAt(k, "absent") /\ seen' = [seen EXCEPT ![k] = NoRecord]
  /\ UNCHANGED <<commands, tree, markers, caught, faults>>

\* request_stop(), whose failure on a process that is gone is ignored.
Signal(k) ==
  /\ stopper[k] = "signal"
  /\ StopperAt(k, "wait")
  /\ LET p == Owner(seen[k])
     IN  IF ~Alive(p) THEN UNCHANGED <<starter, supervisor, stopping, dashboard>>
         ELSE IF p[1] = "supervisor" THEN TerminateSupervisor(p[2]) /\ UNCHANGED starter
         ELSE InterruptStarter(p[2]) /\ UNCHANGED <<supervisor, stopping, dashboard>>
  /\ UNCHANGED <<record, search, watcher, markers, seen, caught, stolen, faults>>

\* Defect for the runs: nobody is waited for.
Hurried(k) == TRUE

\* wait_for_process_exit().
Exited(k) == \A p \in caught[k] : ~Alive(p)

Wait(k) ==
  /\ stopper[k] = "wait" /\ Exited(k)
  /\ StopperAt(k, "check") /\ caught' = [caught EXCEPT ![k] = {}]
  /\ UNCHANGED <<record, commands, tree, markers, seen, stolen, faults>>

\* The processes of that role that are killed.
Hit(k, role) == {s \in Starts : <<role, s>> \in caught[k] /\ Alive(<<role, s>>)}

Without(f, S, dead) == [s \in Starts |-> IF s \in S THEN dead ELSE f[s]]

\* force_cleanup(), after the timeout.
ForceStop(k) ==
  /\ stopper[k] = "wait" /\ ~Exited(k)
  /\ starter' = Without(starter, Hit(k, "starter"), "gone")
  /\ supervisor' = Without(supervisor, Hit(k, "supervisor"), None)
  /\ stopping' = Without(stopping, Hit(k, "supervisor"), FALSE)
  /\ dashboard' = Without(dashboard, Hit(k, "dashboard"), None)
  /\ watcher' = Without(watcher, Hit(k, "watcher"), None)
  /\ StopperAt(k, "check") /\ caught' = [caught EXCEPT ![k] = {}]
  /\ UNCHANGED <<record, search, markers, seen, stolen, faults>>

\* remove_owned_state() reads the record ...
Check(k) ==
  /\ stopper[k] = "check"
  /\ StopperAt(k, IF Names(record, Owner(seen[k])) THEN "unlink" ELSE "stopped")
  /\ UNCHANGED <<record, commands, tree, markers, seen, caught, stolen, faults>>

\* ... and unlinks what is there by then.
Remove(k) ==
  /\ stopper[k] = "unlink"
  /\ Unlink(Owner(seen[k]))
  /\ StopperAt(k, "stopped")
  /\ UNCHANGED <<commands, tree, markers, seen, caught, faults>>
-----------------------------------------------------------------------------
\* The user and the operating system.

Interrupt(s) ==
  /\ Starting(s) /\ Disturb("interrupt")
  /\ InterruptStarter(s)
  /\ UNCHANGED <<record, search, tree, markers, stops, stolen>>

KillStarter(s) ==
  /\ Starting(s) /\ Disturb("kill")
  /\ At(s, "gone")
  /\ UNCHANGED <<record, search, tree, markers, stops, stolen>>

KillSupervisor(s) ==
  /\ Supervised(s) /\ Disturb("kill")
  /\ SupervisorEnds(s)
  /\ UNCHANGED <<record, commands, dashboard, watcher, markers, stops, stolen>>

StarterStep(s) ==
  \/ Reserve(s, "announce") \/ Reserve(s, "spawn")
  \/ AlreadyExists(s) \/ Inspect(s) \/ MatchFound(s) \/ Clear(s)
  \/ WriteForeground(s) \/ Leave(s) \/ UnlinkOwn(s)
  \/ SpawnSupervisor(s) \/ Grace(s) \/ WriteBackground(s) \/ Authorize(s)
  \/ Confirm(s) \/ Settle(s) \/ Terminate(s) \/ Forget(s)

SupervisorStep(s) ==
  \/ Handshake(s) \/ GiveUp(s) \/ LaunchDashboard(s) \/ Survives(s) \/ LaunchWatcher(s)
  \/ Report(s) \/ Drain(s) \/ Finish(s) \/ Vanish(s)

WatcherStep(s)   == Watch(s) \/ WaitThenForce(s)
DashboardStep(s) == Bind(s) \/ InstallHandlers(s) \/ DashboardEnds(s)

StopperStep(k) ==
  \/ Match(k) \/ ClearStale(k) \/ Signal(k) \/ Wait(k) \/ ForceStop(k) \/ Check(k) \/ Remove(k)

Next ==
  \/ \E s \in Starts :
       \/ StarterStep(s) \/ SupervisorStep(s) \/ WatcherStep(s) \/ DashboardStep(s)
       \/ ApplicationEnds(s) \/ Interrupt(s) \/ KillStarter(s) \/ KillSupervisor(s)
  \/ \E k \in Stops : Load(k) \/ StopperStep(k)

Spec == Init /\ [][Next]_vars

\* Every process takes its steps: all its waits have timeouts.  Commands and
\* failures are never forced.
Fairness ==
  /\ \A s \in Starts :
       /\ WF_vars(starter[s] # "idle" /\ StarterStep(s)) /\ WF_vars(SupervisorStep(s))
       /\ WF_vars(WatcherStep(s)) /\ WF_vars(DashboardStep(s))
  /\ \A k \in Stops : WF_vars(StopperStep(k))

FairSpec == Spec /\ Fairness
-----------------------------------------------------------------------------
\* Properties.

\* The start has the port: it holds the reservation, or its instance runs.
Holds(s) ==
  \/ starter[s] \in {"announce", "spawn", "grace", "write", "serving", "leaving"}
  \/ supervisor[s] \in {"launch", "settle", "watch", "confirm", "drain", "finish", "unlink"}

\* docs/INTERNALS.md:63: the record names the start that has the port before a
\* dashboard is launched for it and until it is gone, so that later starts see it
\* and a stop finds it.  Excepted are starts whose record somebody else has taken:
\* remove_stale_state() and write_state() do not look at what they replace.
HoldersAreRecorded ==
  \A s \in Starts : Holds(s) => s \in stolen \/ (record # NoRecord /\ record.of = s)

\* docs/ARCHITECTURE.md:404: whoever is killed, a dashboard that serves has a
\* supervisor, or a watcher, or a start command that will notice; unless the start
\* command itself was killed or has given up.
NeverAlone ==
  \A s \in Starts : dashboard[s] \in Lasting =>
    \/ Supervised(s) \/ Watched(s)
    \/ starter[s] \in {"confirm", "settle", "terminate", "forget", "gone"}

\* When a stop command has waited, the process it read about is gone, and a
\* dashboard whose start had been reported is down, or its watcher ends it.
StopIsComplete ==
  \A k \in Stops : stopper[k] \in {"check", "unlink", "stopped"} =>
    LET s == seen[k].of
    IN  /\ ~Alive(Owner(seen[k]))
        /\ seen[k].mode = "background" /\ starter[s] = "started" =>
             ~Supervised(s) /\ (dashboard[s] \in Lasting => Watched(s))

\* tests/test_launcher_scripts.py:966: an interrupted start cleans every process it
\* has acquired: its supervisor does not outlive it.
InterruptedStartEnds ==
  \A s \in Starts : (starter[s] = "gone" /\ Supervised(s)) ~> ~Supervised(s)
=============================================================================
