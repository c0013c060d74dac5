# sbk-dashboard: a TLA+ verification project

sbk-dashboard is a Python control plane for one Prometheus and one Grafana
process: it registers benchmark endpoints over HTTP, derives discovery files and
dashboards from them, and owns, supervises and stops the two native servers. A
web page manages the endpoints, a plug-in of Grafana shows several of them side
by side, and a launcher starts and stops all of it. This directory holds TLA+
models of it, the TLC configurations that check them, and TLAPS proofs. Paths
below are relative to the repository; `processes.py` etc. stand for files in
`src/sbk_dashboard/`.

Reading order: `ServiceContract`, `NativeService`, `NativeServiceProofs`;
`EndpointContract`, `EndpointTransaction`, `EndpointProofs`; `MonitoringStack`,
`StackProofs`; `HttpAdmission`, `AdmissionProofs`; `Launcher`, `LauncherProofs`;
`BrowserClient`, `BrowserProofs`; `TimeRanges`, `DashboardLayout`, `LayoutProofs`,
`ComparisonApp`, `ComparisonProofs`. The `MC*` modules and the `.cfg` files are
the instances for TLC.

## 1. The system

| Component | State | Operations | Threads | Status |
|---|---|---|---|---|
| native service (`processes.py`, `ManagedNativeService`) | lifecycle, process and log pump, native PID, attached flag, failure counters, operation lock, PID record | `start`, `supervise`, `_restart`, `stop` | owner of the stack, supervisor, pump; guardian and native processes | modelled, proved |
| monitoring stack (`monitoring.py`) | lifecycle, shutdown event, pair of services, supervisor thread, operation lock | `start`, `close`, `_supervise` | any caller, supervisor | modelled, proved (`reconcile`, `refresh_statuses`: next row) |
| endpoint registry and transaction (`registry.py`, `web.py`, `files.py`, `monitoring.py`) | `_targets`, `targets.json`, discovery, dashboards, mappings, statuses and their generation, mutation lock | register, delete, compare, reconcile, rollback, status refresh | HTTP workers, supervisor | modelled, proved |
| dashboard provisioner (`provisioning.py`, `comparison.py`) | dashboard and comparison files | `reconcile`, `ensure_comparison_dashboard`, pruning | HTTP workers | existence of files only |
| HTTP front (`web.py`) | semaphore, executor queue, workers, lifecycle; client activity | accept, admit, reject, handle, close | accepting thread, workers, closer | admission modelled, proved |
| log pump (`RotatingProcessLog`) | output file, size, backoff | drain, rotate, retry | pump | its life only |
| guardian (`guardian.py`, `windows_job.py`) | child, start-state file | spawn, watch the parent, terminate the tree | process | as seen by a live control plane |
| process record, port manager (`ManagedProcessRegistry`, `PortProcessManager`) | JSON record of both components; listeners | record, find, remove; inspect, terminate | owner | one component's record |
| launcher (`scripts/sbk_dashboard_launcher.py`) | record per port, markers | reserve, start, handshake, watch, stop | start, stop, supervisor, watcher, dashboard: processes | modelled (POSIX, one port), proved |
| browser client (`resources/web/app.js`) | list shown, selection, buttons, windows, requests under way | load, select, register, remove, compare | one page; answers in any order | modelled, proved (activity reports left out) |
| comparison plug-in (`grafana-plugin/src/*.ts*`) | descriptor, lanes, selections, window, URL, cards, loads | load with retry, change a range, add a lane, leave, reopen | one page; loads of pages that were left | modelled, proved |
| tool bootstrap (`bootstrap.py`, `grafana_plugin.py`, `scripts/sbk_dashboard_bootstrap.py`) | cache, install lock, staging | download, verify, publish | processes | not modelled |
| composition root (`main.py`) | signal flag | `run` | main | not modelled |
| configuration, release and packaging | none that changes | | | not modelled |

How they interact. The main thread starts the HTTP server object, the stack and
then serving, and closes the server before the stack. HTTP workers change the
registry under the mutation lock and call `reconcile()` on the stack. The
supervisor thread calls `supervise()` of both services, without a lock of the
stack, and refreshes the statuses. The shutdown event is shared by the stack and
its services; it is set before any lock is taken. The page talks to the HTTP
workers, the plug-in to Grafana, from which it gets the comparison descriptor
that the control plane has written. A service launches a guardian, which
launches the native server; both inherit the pipe the log pump reads.

What makes the components correct, and what is hard about it:

* *native service* - never two instances, none lost, restarts only when
  justified, every failure repaired, every stop completed. Hard: `supervise()`
  acts on copies it took before a slow probe; cleanup and launch fail in the
  middle; shutdown comes at any moment.
* *stack* - down means down, Grafana before Prometheus, one supervisor, every
  close returns. Hard: joins time out, close and start race.
* *endpoints* - memory, disk, derived files and statuses agree; answers are
  true; a restart finds a loadable registry. Hard: every write can fail before
  or after the replacement, compensation can fail, the process can die between
  two writes, an old Prometheus response can arrive late.
* *launcher* - who has the port is on record, a dashboard always has somebody
  who ends it, a stop stops. Hard: commands overlap, signals arrive before there
  is anything to end, any process can be killed.
* *HTTP front* - bounded work, every permit released once, nothing runs after
  close. Hard: completion callback against cancellation and submission failure.
* *browser client* - list, selection, counts and buttons agree; no window or
  form is left hanging; the page comes to show the registry. Hard: three
  handlers and a timer overlap across their awaits, answers overtake each other.
* *comparison plug-in* - the URL restores what is shown; cards, groups and
  scenes agree; a load ends and one that was aborted stays silent. Hard: three
  callbacks write the URL from their own copies, the URL may hold anything,
  `Date` is narrower than safe integers, a load outlives its page.

The hazards behind these, each at its line and with the property that covers
it or the reason why none does, are in `PROJECT.json`.

## 2. Modules

**`ServiceContract`** is what a native service promises: the transition table
of `LifecycleController`, at most one instance, acquired only while STARTING
and only when none is held; nothing is acquired after STOPPED.

**`NativeService`** is `ManagedNativeService` step by step. A *generation* is
one launch: guardian, native process, pump thread. The operation lock is
`holder`, with `call` (start, stop, restart) and `step` as the holder's
program counter; one action per step that another thread can observe:

| Code | Actions |
|---|---|
| `start` | `BeginStart`, `Attach`, launch steps, `FinishStart`, `StartFails`, `StartRaises` |
| `_launch`, `_await_guardian_start`, `_await_ready` | `Spawn`, `SpawnRefused`, `SpawnWithoutPump`, `Handshake`, `RecordPid`, `AwaitReady` |
| `_stop_process` and the termination helpers | `ClearReferences`, `Terminate`, `Release` |
| `supervise` | `BeginSupervise`, `Snapshot`, `Observe`, `Decide` |
| `_restart` | `BeginRestart`, `RestartDeclined`, `Relaunch`, `FinishRestart`, `RestartFails` |
| `stop` | `StopUnstarted`, `BeginStop`, `FinishStop`, `StopRaises` |
| processes and time | `GuardianSpawns`, `GuardianDies`, `NativeDies`, `GuardianExits`, `PumpEnds`, `ExternalDies`, `BackoffElapses` |

`abandoned` is bookkeeping: generations whose cleanup or acquisition raised.
Properties that except it say so; the code reports exactly these cases as errors.

**`EndpointTransaction`** models the handlers of `web.py` with the registry,
the files and the statuses. Endpoints are an identity and a *form* (name,
metrics path, kind: an exact repeat is the same form). `PersistFails` and the
`Write*` actions know two failures of `atomic_write`: before the replacement,
and after it (`_fsync_directory`, `files.py:32`). `purpose` tells what a
reconciliation is for: a change (`apply`), its compensation (`undo`) or the
startup (`boot`). `Crash` kills the control plane between any two steps. The
status of an endpoint is the generation it was requested in (`seenAt`) next to
the one the endpoint was published in (`joined`).

**`EndpointContract`** is the API as its clients see it: one registry, changed by
one request at a time (`registry`), what a restart finds (`durable`), and whether
what is derived from the registry is out of step with it (`degraded`). "Created"
and "deleted" are answered when the change is in force and durable. "Failed" means
that the change is not in force, "broken" that it is, because it could not be taken
back; in both cases a restart may find the other state of that one change, and
nothing else. A comparison is refused for endpoints that are not registered and
while the registry is degraded. `EndpointTransaction` implements it with
`Committed` (the registry under change is what it was before), `disk` and
`diverged`.

**`MonitoringStack`** has one *epoch* for each `start()`: a pair of services
and a supervisor. A launch and a stop of a service are single steps (inside
they are `NativeService`); a restart is four, because `stop()` must wait for
it. The end of a start is two: `Announce` (RUNNING, and a refresh of the statuses)
and `StartSupervisor`, between which the stack runs and nobody supervises it.
`Disciplined` is the callers' discipline, see 4.

**`HttpAdmission`** is the accepting thread, the semaphore, the executor and
`close()`. The executor and `serve_forever` are library code, modelled as this
program uses it and marked external in the map; one detail matters: a
submission whose worker thread cannot be started raises *after* it was queued.

**`Launcher`** is the launcher script for one port, with one action per step of
a start command (`starter`), its supervisor, the dashboard, the watcher and a
stop command. A process is a role and the start it belongs to; a record names a
start and a mode, and by its mode the process that owns it. The unconditional
removals and replacements of the record are modelled as such; `stolen`
remembers the starts that lost a record to one of them while its owner lived,
and `HoldersAreRecorded` excepts those and no others. Where the code looks first
and acts later these are two steps: a start reads the record that is in its way
(`Inspect`), looks for its process (`MatchFound`) and unlinks (`Clear`); who removes
its own record reads it (`Release`, `Finish`, `Check`) and unlinks what is there by
then (`UnlinkOwn`, `Vanish`, `Remove`). A dashboard has the port (`Bind`) before a
signal can shut it down in order (`InstallHandlers`). A signal has the effect
the receiver's handlers have at that step, the default action included. A
timeout that must be longer than what it waits for (`Confirm`) counts as a
failure (`slow`), unless what it waits for will not come any more; the stop
command's timeout, which the user sets, may expire at any time (`ForceStop`).

**`BrowserClient`** is the landing page. A request of the page is first *sent*,
then *answered* with what the server had at that moment, then received, in any
order with the others; the code between two awaits is one action.

| Code (`app.js`) | Actions |
|---|---|
| `loadTargets`, timers, refresh button | `Poll`, `ReceiveList` (`Render`, `EndLoad`) |
| checkbox, `updateComparisonButton` | `Toggle`, `OutOfBounds` |
| Remove button | `Remove`, `ReceiveDelete` (which loads the list again) |
| submit handler | `Submit`, `ReceiveSubmit` |
| compare handler | `Compare` (opens the window or is blocked), `ReceiveCompare` |
| a rejected or unreadable answer | `Lose`, before or after the server has acted |

The server (`Serve*`) is `web.py` as the page sees it, the answer 500 to a change
that was taken back or could not be (`ServeFailure`) included; `OthersChange` stands for
other clients and for states that change.

**`TimeRanges`** has the pure functions of `timeRanges.ts`: lanes, selections,
their canonical key, the groups, and the encoding in the URL. **`DashboardLayout`**
has the layout of the panels and the scoping of their queries (`dashboard.ts`,
`scene.ts`), with recursive functions for the loop over the panels and for nested
rows, and a reference definition (`InDocumentOrder`) that it is checked against; its
assumption `LayoutAssumption` says that a dashboard is a finite tree, which JSON is. Lanes, targets and groups are
sets: their order on the page is left out, the order of the panels is not.

**`ComparisonApp`** is the view (`App.tsx`, `descriptor.ts`). React applies the
updates of one callback together and runs the effects of a click before the next
one, so a callback is one action: `Open`, `Close`, `Retry`, and under `Change` one
for each control (`ModeChange`, `ChooseRelative`, `FollowGlobal`, `Apply`,
`EditDraft`, `SetLaneCount`, `PickWindow`). `Answer` and `Elapse` are the steps of
a load, which outlives its page: `Close` marks it aborted, or ends it while it
waits. What the `.then` and the `.catch` of the effect do is in `Deliver` and
`Fail`, the exception inside the former included.

Definitions introduced by a comment that begins "Defect" are alternatives that
no specification uses: they stand for plausible bugs, and each property is
shown to fail when the definition after them is replaced by one.

## 3. Runs

| Run | Instance | Distinct states | Shows |
|---|---|---|---|
| `native_safety` | 3 launches, threshold 2, maximum backoff 2, 3 faults of 9 kinds | 30,008 | seven properties of one service, refinement of `ServiceContract` included |
| `native_liveness` | 5 launches, 3 faults, without `thread` and `terminate` | 13,911 | a failure is repaired, a shutdown completes |
| `native_pump_race` | 3 launches, 2 faults | violation | two pumps on one log path |
| `endpoint_safety` | 3 endpoints, 2 forms, limit 2, 2 clients, 3 requests, 3 faults, symmetry | 419,086 | agreement, a registry that can always be loaded, current statuses, refinement of `EndpointContract` (true answers) |
| `endpoint_liveness` | 2 endpoints, 1 form, 2 clients, 3 requests, 2 faults | 226,744 | every request is answered |
| `stack_safety` | 2 callers, 2 starts, 3 closes, 3 faults of 7 kinds | 56,680 | down is down, ordered shutdown, supervision follows the stack, close returns, services come back |
| `http_admission` | 4 connections, 1 worker, queue of 1, 1 fault | 42,920 | permits and bounds, quiet stop, everyone let go, close returns |
| `launcher_safety` | 2 starts, 1 stop, 2 faults of 6 kinds | 5,258,992 | the holder of the port is on record, no dashboard is alone, a stop is complete |
| `launcher_interrupted` | 1 start, 1 interrupt | violation | an interrupted start leaves a dashboard |
| `browser` | 2 endpoints, 2 requests under way, selections of exactly 1, 2 changes, 1 request that fails on the way or in the server | 883,866 | the page agrees with itself, nothing hangs, the page recovers |
| `comparison` | 1 or 2 targets, 2 to 3 lanes, 2 groups, 3 attempts, 2 loads, 9 URLs | 39,323 | the URL restores the view, cards match groups, every lane sees every panel, loads keep their terms, the page settles |
| `comparison_date` | the same | violation | the message of a failed load over a comparison that was loaded |

Why the bounds are enough. Two generations are needed for a conflict and three
for a conflict after a repair; two faults for a failure within the handling of a
failure, three for one more afterwards. Threshold 2 and backoff 2 are the
smallest values at which "not yet" and "capped" differ. Three endpoints with a
limit of two make the limit bind while an endpoint is being deleted; two forms
tell a repeat from a conflict. Two starts are needed for a supervisor of an
earlier start. Four connections overload a capacity of two while one is in the
hands of the accepting thread. Two starts and a stop make every pair of commands
overlap; what needs a third start (two of them finding the same stale record,
and the second failed attempt to reserve) is not reached. Counters
(`generation`) are bounded by the number of requests and faults. On the page two
requests are enough for answers that overtake each other and for a list that is
outdated, two changes for one by the page and one by somebody else, and a
selection of exactly one of two endpoints makes both ends of the policy bind. In
the comparison a minute is 2, an hour 4 and a day 8, the largest range a day,
the range of `Date` 15 and that of safe integers 17, so that rounding to
minutes, ranges that are too long and times beyond each limit all occur; three
lanes and two groups make the limit of groups bind; three attempts with a delay
of 2, at most 3, make the delay reach its cap; a second load is one that
outlives its page. The URLs are fresh links, bookmarks and every kind of state
that is out of bounds (`MCUrls`, `MCFarUrls`). Deadlock is not checked: the
bounded systems come to rest when requests, launches and faults are used up, and
a stopped service really stops.

Symmetry is used in `endpoint_safety` only, which has no liveness property:
clients, identities and forms are model values no definition distinguishes.

Fairness. Each program thread takes its steps (weak fairness on the step of
the lock's holder, on each supervisor, each worker, each handler): all waits
inside have timeouts in the code (probe, handshake, readiness, termination,
join, socket). A waiting thread gets a lock that stays free. Calls, requests,
crashes and failures are never forced. In `NativeService` the backoff elapses
and a live guardian spawns its child and follows it. In `ComparisonApp` Grafana
answers every request and timers fire. In `BrowserClient` the server answers and
answers are received; polling is strongly fair, because the model's places for
requests, which the code does not have, may be taken whenever the timer fires.

## 4. What the runs say about the code

Three disagreements between code and documentation or tests came up; each is a
finding in `PROJECT.json` with a run that exhibits it.

* `native_pump_race`, `processes.py:1006`: `_stop_process` forgets the old process
  and pump before the cleanup that can fail, so the restart after the failed one
  launches a replacement next to the pump that `docs/ARCHITECTURE.md:252` says it
  waits for.
* `launcher_interrupted`, `sbk_dashboard_launcher.py:669`: a start that is
  interrupted within about a poll interval after its authorization signals a
  supervisor that has no child yet. The supervisor looks at the marker before the
  stopping event, launches the dashboard and reads its output for good; the record
  is gone, so that no stop finds it.
* `comparison_date`, `timeRanges.ts:92`: a bound of a fixed range in the URL may be
  any safe integer, but `toISOString()` raises beyond the range of `Date`
  (8.64e15 < 2^53 - 1). It does so in the `.then` of the load, after the descriptor
  and the lanes are set; the `.catch` then reports that Grafana could not load the
  descriptor, over a comparison that was loaded and with every lane on the global
  range. `docs/COMPARISON.md:77` says that invalid URL state falls back to the
  global range.

Remarks, without a run of their own:

* `processes.py:842`: a pump thread that cannot be started raises `RuntimeError`,
  which `_restart` does not handle; the lifecycle stays STARTING and the service is
  not supervised any more. `FailureIsRepaired` is checked without that fault.
* `web.py:338`: the lookup of DELETE is outside the mutation lock, so it may answer
  404 for an endpoint that a rollback brings back. The contract admits
  it while the other deletion is still to be answered (`Missing`).
* `monitoring.py:112`: `start()` of a stopped stack clears the event of a `close()`
  that is waiting for the lock. `main.run` starts once and closes once, so this
  takes a second user of the class. `MonitoringStack` has its properties when
  `start()` is called only on a stack at rest (`Disciplined`): no close waiting, and
  the last supervisor gone, which close itself does not guarantee when its join
  times out. So no property would notice a second user of the class; what holds for
  him is in the first part of `StackProofs`.
* `launcher:307`, `:812`, `:242`, `:518`: `remove_stale_state()` is called after a
  check that may be outdated, or without any, and can remove the record of another
  start, so that two starts have the port. That is the reason for the exception in
  `HoldersAreRecorded`, which therefore does not speak of these races: it says that
  there are no others. The management socket still admits one dashboard at a time
  (`Bind`).
* `close()` of the HTTP server waits forever if its accepting thread could not be
  started (`CloseReturns` of `HttpAdmission`, `web.py:223`), and `close()` of the
  stack raises and stays STOPPING if the supervisor thread could not be started
  (`JoinRaises`, `monitoring.py:264`); both are exceptions inside properties, which
  do not catch them.
* `app.js:158`: a removal whose answer is lost is not followed by a load; its
  button stays disabled until the next poll (`PageRecovers` needs `Poll`).

## 5. Proofs

Every safety invariant and action property of the passing runs is a theorem, for
every value of the constants that satisfies the named assumption of its module. TLC
evaluates those assumptions in the runs. In each module the theorem
`InvariantHolds` states the inductive invariant `IInv`, proved from lemmas with one
case per action, and the properties follow from it. Each `IInv` was checked by TLC
before it was proved. Some theorems say more than the runs check; those are marked
*beyond the runs*.

**`NativeServiceProofs`**: any number of supervisors, launches and faults, any
threshold and backoff. `TypeCorrect`, `OneInstance`, `NothingIsLost`,
`RecordNamesProcess`, `AttachedIsLeftAlone`, `RestartsAreJustified` (for one
supervisor, `SoleSupervisor`; two would share the counter of missed checks), and
`ImplementsTheContract`: `NativeService` refines `ServiceContract`. The safety
properties are not inductive: that a launch may forget about `process` depends on
what the holder of the lock has done before. The invariant says, for each value of
`step`, what `process`, `victim`, `pidKnown`, `attached` and `lifecycle` are; that a
free lock means no victim and no error; and where each generation is: higher ones
than `launches` do not exist, lower ones are dead, held, being torn down, or
abandoned. `RestartJustified` needs a second invariant that relates a supervisor's
copies and verdict to the present: what it saw can be outdated only in the
direction that makes the restart a repair.

**`EndpointProofs`**: any endpoints, forms, clients, limit and faults. `LockInv`
says what the holder of the mutation lock has done to the registry so far,
`RegistryInv` that memory and disk are each loadable and at most one change apart,
`FileInv` which derived files are already those of memory at each step of a
reconciliation, `BootInv` that a start has nothing to compensate. From these follow
`StoresAgree`, `RegistryIsAlwaysDurable`, `StatusesAreCurrent`. `ImplementsTheContract`
is the refinement, crashes included: one lemma per action says which step of
`EndpointContract` it is, or that it changes nothing a client could see. Where the
lock is released the change becomes a step of the contract, so each such lemma
needs the invariant to know what has happened since the request was taken up.
*Beyond the runs*, `EveryAnswerIsTrue` is about the step that answers: what is
reported as created or deleted is so in memory, on disk, in discovery, dashboards
and mappings; what "exists already" is registered; what is compared is registered,
published and has its comparison.

**`StackProofs`**: any callers, starts, closes and faults. The first part holds for
callers that do as they like: `PairInv` says how far a pair of services and its
supervisor have come, `BusyInv` that a service whose lock is held is the one its
supervisor restarts. From these follow `TypesHold` and, *beyond the runs*,
`OneRestartAtATime` and `RestartsAreUndisturbed`: supervisors left over from earlier
starts never restart the same service, and nobody else changes a service during its
restart. The second part is for disciplined callers. Whether a process can still
come up depends on the supervisor: `AliveInv` says that only the supervisor of the
last start is alive, `LockInv` what an operation has done to lifecycle and event,
`UpInv` which services are down and out of its reach, those among them that a stop
finds stopped already. From these follow
`DownRunsNothing`, `GrafanaStopsFirst`, `OneSupervisor`.

**`AdmissionProofs`**: any connections, workers and length of the queue. A
connection is in the hands of the accepting thread, queued once, running or done,
and in one of these only (`PlaceInv`); the permits that are not free are as many as
the connections that hold one (`CountInv`). From these follow
`PermitsAreAccounted` and, with how far the server has come (`PhaseInv`),
`StoppedServersAreQuiet`. *Beyond the runs*, `AnswersAreFinal`: no step changes an
answer that was given. Work whose worker could not be started stays queued after
its connection was dropped; `AnswerInv` says that nobody watches such work, and that
what is queued and watched is still open.

**`LauncherProofs`**: any start and stop commands, any failures. `Need` says which
record each step of a start needs; `RecordInv` that it is there or was taken.
Every removal or replacement of a record is by its owner, who needs it no more, or
of an owner that is dead, or counts as stolen; that a stop command's owner is still
dead when it removes the record follows from `KnownInv` (the process that a record
names has been there and does not come up again) and `StopInv`. `Phase` says which
processes and markers there are at each step of a start, and `WatchInv` that from
the confirmation on a dashboard has a watcher. From these follow
`PortHoldersAreRecorded` with `OneStartHasThePort` (two starts have the port only if
the record of one was taken), `DashboardsAreNeverAlone`, `StopsAreComplete`.

**`BrowserProofs`**: any endpoints, policy and requests. The type invariant, the
agreement of the page with itself and the fact that nothing hangs are inductive
together: `ThePageIsConsistent`, `NothingHangs`. *Beyond the runs*,
`OneSubmitAtATime`: of the requests under way one at most is a registration, and the
button of the form is disabled for as long (`OneSubmit`, inductive together with
the types: `FormStep`).

**`LayoutProofs`**: every dashboard (`LayoutAssumption`), however many panels it has
and however deep its rows. `LayoutShowsTheDocument`: the loop with its current row,
recursively applied to rows, shows the visual panels in the order of the document.
`SceneShowsTheDocument`: the scene of a group shows each of them once, scoped to
its targets. What a recursive function computes is available to a proof only once
a function that solves its equation is known to exist; `RecursionTo` (over numbers)
and `RecursionOnLists` (over rows within rows) show that, by joining partial
solutions, and the equations are unfolded from there. Induction is a minimal
counterexample: of a set of numbers by `NatLessThanWellFounded`, of a set of lists
by `LayoutAssumption` itself. The invariant of the loop is that the panels of the
output so far are those of the panels read so far, and that only the last item of
the output can grow.

**`ComparisonProofs`**: any policy, descriptors, URLs and clock. `DecodeEncode`
says that the encoding of a selection the code takes as it is decodes to that
selection; with the invariant that only such selections are shown, what is written
to the URL is read back (`BookmarksRestore`), and `CardsMatchTheirGroups`.
`LoadsKeepTheTerms`: at each moment of a load, the attempts made and the time
waited are those of the schedule (`TermsInv`), whose sum of delays is unfolded with
`RecursionTo`; hence a load gives up after all its attempts and no earlier.
`LanesSeeEveryPanel` combines the groups of the lanes with
`SceneShowsTheDocument`.

Only model-checked: the temporal properties under fairness (`FailureIsRepaired`,
`CloseReturns`, `PageRecovers` and the like), which are beyond the prover, and the
properties of the three runs that end in a violation, which are false.

## 6. Not modelled

Data: the text of configuration files, the content of dashboards and the
PromQL rewriting of the provisioner, HTML and JSON rendering, logging, names;
in the plug-in labels, sorting, the grid and visual options. Platform branches
that differ in means only (job objects, process groups) are one step. Durations
are not measured: a timeout is an alternative wherever the code has one.

* *Native processes*: `PortProcessManager`, PID identity and the record file that
  both components share, and what a guardian does after the death of the control
  plane, concern leftovers of earlier control planes; the models begin and end
  with one. The rotation of process logs and its retries act on bytes that
  nothing else reads.
* *Launcher*: the stop-request file of Windows, stop-all over several ports, and
  the rotation of the supervisor's log.
* *Tool bootstrap*: one process at a time under an install lock, whose substance is
  what the operating system does to files.
* *Composition root*: `run()` is a sequence of starts and closes, whose steps are
  calls that `MonitoringStack` and `HttpAdmission` model. The stack and the
  transaction are not composed: `reconcile()` refused by a stack that is down is a
  failure of a change, which `EndpointTransaction` has anyway.
* *Browser client*: the client identifier, the reports of activity, and
  `RecentClientActivity` on the server, which is read for one log line.
* *Plug-in*: the time zone is a constant offset, so that a local time names one
  moment (no change to or from daylight saving time). `EpochToInput` leaves the
  offset out, so that a bound of a range within one offset of the end of `Date`
  counts as what can be shown; in the code `App.tsx:395` raises for it while the card
  is rendered. No property speaks of that.
* *Configuration, release and packaging*: sequential parsing and scripts, the build
  of the plug-in and its styles.

`GET` handlers read one snapshot and change nothing. The pruning of the
comparison cache (128 files) is not part of `EndpointTransaction`: with fewer
files it does nothing. `start()` of a RUNNING stack, which its docstring
excludes, is not a call the model makes.
