---------------------------- MODULE LauncherProofs ----------------------------
(***************************************************************************)
(* Proofs about Launcher for any start and stop commands and any failures. *)
(* That the record names who has the port follows from which record each   *)
(* step of a start needs (Need): every replacement or removal of a record  *)
(* is either by its owner, who needs it no more, or of a dead owner, or    *)
(* counted as stolen.  That a removal meets a dead owner needs in turn     *)
(* that the process a record names never comes up again (KnownInv).        *)
(***************************************************************************)
EXTENDS Launcher, TLAPS

RecordModes == {"starting", "foreground", "background"}

\* The steps of a start command before it has a supervisor, with a supervisor
\* that must still wait, and after the record names the supervisor.
Alone     == {"idle", "link", "inspect", "match", "clear", "announce", "spawn", "serving",
              "leaving", "unlink"}
Preparing == {"grace", "write", "authorize"}
Detached  == {"authorize", "confirm", "settle", "terminate", "forget", "started", "gone"}
Seeking   == {"idle", "link", "inspect", "match", "clear"}

\* Which processes and markers there are by the step of the start.
Phase(s) ==
  /\ starter[s] \in Alone => supervisor[s] = None
  /\ starter[s] \in Alone \cup Preparing =>
       /\ supervisor[s] \in {None, "handshake"} /\ dashboard[s] = None /\ watcher[s] = None
       /\ s \notin authorized /\ s \notin confirmed
  /\ supervisor[s] \in {"handshake", "launch"} =>
       /\ dashboard[s] = None /\ watcher[s] = None /\ s \notin confirmed
       /\ starter[s] \notin {"settle", "started"}
PhaseInv == \A s \in Starts : Phase(s)

\* From the confirmation on a dashboard has a watcher.
Guarded(s) ==
  s \in confirmed \/ supervisor[s] = "confirm" \/ starter[s] \in {"settle", "started"} =>
    (dashboard[s] \in Lasting => Watched(s))
WatchInv == \A s \in Starts : Guarded(s)

\* The record that a start needs.
Need(s, m) ==
  \/ m = "starting" /\ starter[s] \in {"announce", "spawn", "grace", "write"}
  \/ m = "foreground" /\ starter[s] \in {"serving", "leaving"}
  \/ /\ m = "background"
     /\ \/ supervisor[s] \in {"launch", "settle", "watch", "confirm", "drain", "finish", "unlink"}
        \/ supervisor[s] = "handshake" /\ (starter[s] = "authorize" \/ s \in authorized)
RecordInv == \A s \in Starts, m \in RecordModes : Need(s, m) => s \in stolen \/ record = Record(s, m)

\* The process that a record names has been there, so that it does not come up later.
Known(r) ==
  r # NoRecord => /\ starter[r.of] \notin Seeking
                  /\ r.mode = "background" => starter[r.of] \in Detached
KnownInv == Known(record) /\ \A k \in Stops : Known(seen[k])

\* What a stop command knows.
Stopped(k) ==
  /\ stopper[k] \notin {"idle", "absent"} => seen[k] # NoRecord
  /\ stopper[k] \in {"signal", "wait"} => Owner(seen[k]) \in caught[k]
  /\ stopper[k] \in {"clear", "check", "unlink", "stopped"} => ~Alive(Owner(seen[k]))
  /\ \A s \in Starts : <<"watcher", s>> \in caught[k] =>
       /\ starter[s] \notin Alone \cup Preparing /\ supervisor[s] \notin {"handshake", "launch"}
       /\ <<"dashboard", s>> \in caught[k] \/ dashboard[s] = None
StopInv == \A k \in Stops : Stopped(k)

IInv == TypeOK /\ PhaseInv /\ WatchInv /\ RecordInv /\ KnownInv /\ StopInv
-----------------------------------------------------------------------------
\* Processes.
LEMMA AliveFacts ==
  ASSUME NEW s
  PROVE  /\ Alive(<<"starter", s>>) <=> Starting(s)
         /\ Alive(<<"supervisor", s>>) <=> Supervised(s)
         /\ Alive(<<"dashboard", s>>) <=> Running(s)
         /\ Alive(<<"watcher", s>>) <=> Watched(s)
  BY DEF Alive

LEMMA OwnerFacts ==
  ASSUME NEW r \in Records
  PROVE  /\ r.of \in Starts /\ r.mode \in RecordModes /\ r = Record(r.of, r.mode) /\ r # NoRecord
         /\ r.mode = "background" => Owner(r) = <<"supervisor", r.of>>
         /\ r.mode # "background" => Owner(r) = <<"starter", r.of>>
  BY LauncherAssumption DEF Records, RecordModes, Record, Owner

LEMMA RecordFacts ==
  ASSUME NEW s \in Starts, NEW m \in RecordModes
  PROVE  /\ Record(s, m) \in Records /\ Record(s, m) # NoRecord
         /\ Record(s, m).of = s /\ Record(s, m).mode = m
  BY LauncherAssumption DEF Record, Records, RecordModes

\* Types.
LEMMA VictimTypes ==
  ASSUME TypeOK, NEW p
  PROVE  /\ Victim(p) \subseteq Starts
         /\ Unlink(p) => record' \in Records \cup {NoRecord} /\ stolen' \subseteq Starts
<1>1. Victim(p) \subseteq Starts
  BY OwnerFacts DEF TypeOK, Victim, Matching
<1>2. Unlink(p) => record' \in Records \cup {NoRecord} /\ stolen' \subseteq Starts
  BY <1>1 DEF TypeOK, Unlink
<1> QED
  BY <1>1, <1>2

LEMMA StarterTypes ==
  ASSUME TypeOK, NEW s \in Starts,
         StarterStep(s) \/ ApplicationEnds(s) \/ Interrupt(s) \/ KillStarter(s)
  PROVE  TypeOK'
<1>1. CASE Reserve(s, "announce") \/ Reserve(s, "spawn")
  <2>1. record' \in Records
    BY <1>1, RecordFacts DEF Reserve, RecordModes
  <2>2. \E step \in {"announce", "spawn"} : starter' = [starter EXCEPT ![s] = step]
    BY <1>1 DEF Reserve, At
  <2>3. /\ tries' = [tries EXCEPT ![s] = 0]
        /\ UNCHANGED <<found, tree, markers, stops, stolen, faults>>
    BY <1>1 DEF Reserve
  <2> QED
    BY <2>1, <2>2, <2>3 DEF TypeOK, markers, stops, tree
<1>2. CASE AlreadyExists(s)
  BY <1>2 DEF TypeOK, AlreadyExists, At, markers, search, stops, tree
<1>3. CASE Inspect(s)
  BY <1>3 DEF TypeOK, Inspect, At, markers, search, stops, tree
<1>4. CASE Clear(s)
  BY <1>4, VictimTypes DEF TypeOK, Clear, At, LastTry, markers, search, stops, tree
<1>5. CASE WriteForeground(s)
  BY <1>5, VictimTypes, RecordFacts, LauncherAssumption
  DEF TypeOK, WriteForeground, Release, At, Disturb, Write, markers, search, stops, tree, RecordModes
<1>6. CASE ApplicationEnds(s)
  BY <1>6, LauncherAssumption DEF TypeOK, ApplicationEnds, At, Disturb, markers, search, stops, tree
<1>7. CASE Leave(s)
  BY <1>7, VictimTypes DEF TypeOK, Leave, Release, At, markers, search, stops, tree
<1>8. CASE SpawnSupervisor(s)
  BY <1>8, VictimTypes, LauncherAssumption
  DEF TypeOK, SpawnSupervisor, At, Disturb, Release, SupervisorAt, markers, search, stops
<1>9. CASE Grace(s)
  BY <1>9 DEF TypeOK, Grace, At, markers, search, stops, tree
<1>10. CASE WriteBackground(s)
  BY <1>10, VictimTypes, RecordFacts, LauncherAssumption
  DEF TypeOK, WriteBackground, At, Disturb, RecordedMode, Write, markers, search, stops, tree, RecordModes
<1>11. CASE Authorize(s)
  BY <1>11, LauncherAssumption DEF TypeOK, Authorize, At, Disturb, search, stops, tree
<1>12. CASE Confirm(s)
  BY <1>12, LauncherAssumption DEF TypeOK, Confirm, At, Disturb, search, stops, tree
<1>13. CASE Settle(s)
  BY <1>13 DEF TypeOK, Settle, At, markers, search, stops, tree
<1>14. CASE Terminate(s)
  BY <1>14
  DEF TypeOK, Terminate, At, EndDashboard, None, SupervisorAt, SupervisorEnds, TerminateGroup,
      TerminateSupervisor, Terminated, markers, search, stops
<1>15. CASE Forget(s)
  BY <1>15, VictimTypes DEF TypeOK, Forget, At, search, stops, tree
<1>16. CASE Interrupt(s)
  BY <1>16, LauncherAssumption
  DEF TypeOK, Interrupt, At, Disturb, InterruptStarter, Interrupted, markers, search, stops, tree
<1>17. CASE KillStarter(s)
  BY <1>17, LauncherAssumption DEF TypeOK, KillStarter, At, Disturb, markers, search, stops, tree
<1>18. CASE MatchFound(s)
  BY <1>18 DEF TypeOK, MatchFound, At, markers, stops, tree
<1>19. CASE UnlinkOwn(s)
  BY <1>19, VictimTypes DEF TypeOK, UnlinkOwn, At, markers, search, stops, tree
<1> QED
  BY <1>1, <1>2, <1>3, <1>4, <1>5, <1>6, <1>7, <1>8, <1>9, <1>10, <1>11, <1>12,
     <1>13, <1>14, <1>15, <1>16, <1>17, <1>18, <1>19
  DEF StarterStep

LEMMA TreeTypes ==
  ASSUME TypeOK, NEW s \in Starts,
         SupervisorStep(s) \/ KillSupervisor(s) \/ WatcherStep(s) \/ DashboardStep(s)
  PROVE  TypeOK'
<1>1. CASE Handshake(s)
  BY <1>1 DEF TypeOK, Handshake, SupervisorAt, commands, search, stops
<1>2. CASE GiveUp(s)
  BY <1>2, LauncherAssumption
  DEF TypeOK, GiveUp, Disturb, None, SupervisorAt, SupervisorEnds, commands, search, markers, stops
<1>3. CASE LaunchDashboard(s)
  BY <1>3, LauncherAssumption
  DEF TypeOK, LaunchDashboard, Disturb, SupervisorAt, commands, search, markers, stops
<1>4. CASE Survives(s)
  BY <1>4 DEF TypeOK, Survives, BeforeConfirmation, SupervisorAt, commands, search, markers, stops
<1>5. CASE LaunchWatcher(s)
  BY <1>5, LauncherAssumption
  DEF TypeOK, LaunchWatcher, Disturb, EndDashboard, None, SupervisorAt, Terminated, commands, search,
      markers, stops
<1>6. CASE Report(s)
  BY <1>6, LauncherAssumption
  DEF TypeOK, Report, Disturb, EndDashboard, None, SupervisorAt, Terminated, commands, search, stops
<1>7. CASE Drain(s)
  BY <1>7, LauncherAssumption
  DEF TypeOK, Drain, Disturb, EndDashboard, None, SupervisorAt, Terminated, commands, search, markers,
      stops
<1>8. CASE Finish(s)
  <2>1. /\ supervisor' \in {[supervisor EXCEPT ![s] = "unlink"], [supervisor EXCEPT ![s] = None]}
        /\ stopping' \in {stopping, [stopping EXCEPT ![s] = FALSE]}
    BY <1>8 DEF Finish, SupervisorAt, SupervisorEnds
  <2> QED
    <3>1. faults' \in 0 .. MaxFaults
      BY <1>8, LauncherAssumption DEF TypeOK, Finish, Disturb
    <3>2. supervisor' \in [Starts -> {None, "handshake", "launch", "settle", "watch", "confirm",
                                     "drain", "finish", "unlink"}]
      BY <2>1 DEF TypeOK, None
    <3>3. stopping' \in [Starts -> BOOLEAN]
      BY <2>1 DEF TypeOK
    <3>4. /\ authorized' \subseteq authorized /\ confirmed' \subseteq confirmed
          /\ UNCHANGED <<record, commands, dashboard, watcher, stops, stolen>>
      BY <1>8 DEF Finish
    <3> QED
      BY <3>1, <3>2, <3>3, <3>4 DEF TypeOK, commands, search, stops
<1>9. CASE KillSupervisor(s)
  BY <1>9, LauncherAssumption
  DEF TypeOK, KillSupervisor, Disturb, None, SupervisorAt, SupervisorEnds, commands, search, markers, stops
<1>10. CASE Watch(s)
  BY <1>10 DEF TypeOK, Watch, EndDashboard, None, Terminated, commands, search, markers, stops
<1>11. CASE WaitThenForce(s)
  BY <1>11 DEF TypeOK, WaitThenForce, None, commands, search, markers, stops
<1>12. CASE Bind(s)
  BY <1>12 DEF TypeOK, Bind, None, commands, search, markers, stops
<1>13. CASE DashboardEnds(s)
  BY <1>13, LauncherAssumption DEF TypeOK, DashboardEnds, Lasting, Disturb, None, commands, search, markers, stops
<1>14. CASE Vanish(s)
  BY <1>14, VictimTypes
  DEF TypeOK, Vanish, None, SupervisorAt, SupervisorEnds, commands, search, markers, stops
<1>15. CASE InstallHandlers(s)
  BY <1>15 DEF TypeOK, InstallHandlers, None, commands, search, markers, stops
<1> QED
  BY <1>1, <1>2, <1>3, <1>4, <1>5, <1>6, <1>7, <1>8, <1>9, <1>10, <1>11, <1>12, <1>13, <1>14, <1>15
  DEF SupervisorStep, WatcherStep, DashboardStep

LEMMA StopperTypes ==
  ASSUME TypeOK, StopInv, NEW k \in Stops, Load(k) \/ StopperStep(k)
  PROVE  TypeOK'
<1>1. CASE Load(k)
  BY <1>1 DEF TypeOK, Load, StopperAt, commands, search, markers, tree
<1>2. CASE Match(k)
  <2>1. Owner(seen[k]) \in {"starter", "supervisor"} \X Starts
    BY <1>2, OwnerFacts DEF TypeOK, StopInv, Stopped, Match
  <2>2. Descendants(Owner(seen[k])) \subseteq {"starter", "supervisor", "dashboard", "watcher"} \X Starts
    BY <2>1 DEF Descendants
  <2> QED
    BY <1>2, <2>1, <2>2 DEF TypeOK, Match, StopperAt, commands, search, markers, tree
<1>3. CASE ClearStale(k)
  BY <1>3, VictimTypes DEF TypeOK, ClearStale, StopperAt, commands, search, markers, tree
<1>4. CASE Signal(k)
  <2> DEFINE p == Owner(seen[k])
  <2>1. p \in {"starter", "supervisor"} \X Starts
    BY <1>4, OwnerFacts DEF TypeOK, StopInv, Stopped, Signal
  <2>2. stopper' \in [Stops -> {"idle", "match", "clear", "signal", "wait", "check", "unlink", "stopped", "absent"}]
    BY <1>4 DEF TypeOK, Signal, StopperAt
  <2>3. CASE UNCHANGED <<starter, supervisor, stopping, dashboard>>
    BY <1>4, <2>2, <2>3 DEF TypeOK, Signal, markers, search
  <2>4. CASE TerminateSupervisor(p[2]) /\ UNCHANGED starter
    <3>1. p[2] \in Starts
      BY <2>1
    <3>2. /\ supervisor' = supervisor \/ supervisor' = [supervisor EXCEPT ![p[2]] = None]
          /\ stopping' = stopping \/ \E b \in BOOLEAN : stopping' = [stopping EXCEPT ![p[2]] = b]
          /\ dashboard' = dashboard \/ dashboard' = [dashboard EXCEPT ![p[2]] = Terminated(dashboard[p[2]])]
      BY <2>4 DEF TerminateSupervisor, SupervisorEnds, SupervisorAt, EndDashboard
    <3> HIDE DEF p
    <3> QED
      BY <1>4, <2>2, <2>4, <3>1, <3>2 DEF TypeOK, Signal, Terminated, None, markers, search
  <2>5. CASE InterruptStarter(p[2]) /\ UNCHANGED <<supervisor, stopping, dashboard>>
    BY <1>4, <2>1, <2>2, <2>5 DEF TypeOK, Signal, InterruptStarter, Interrupted, At, markers, search
  <2> QED
    BY <1>4, <2>3, <2>4, <2>5 DEF Signal
<1>5. CASE Wait(k)
  BY <1>5 DEF TypeOK, Wait, StopperAt, commands, search, markers, tree
<1>6. CASE ForceStop(k)
  BY <1>6 DEF TypeOK, ForceStop, None, StopperAt, Without, markers, search
<1>7. CASE Check(k)
  BY <1>7 DEF TypeOK, Check, StopperAt, commands, search, markers, tree
<1>8. CASE Remove(k)
  BY <1>8, VictimTypes DEF TypeOK, Remove, StopperAt, commands, search, markers, tree
<1> QED
  BY <1>1, <1>2, <1>3, <1>4, <1>5, <1>6, <1>7, <1>8 DEF StopperStep

-----------------------------------------------------------------------------
\* What a step does to a start.

Same(s) ==
  /\ UNCHANGED <<starter[s], supervisor[s], dashboard[s], watcher[s]>>
  /\ (s \in authorized' <=> s \in authorized) /\ (s \in confirmed' <=> s \in confirmed)

\* What is over does not begin again.
Goes(s) ==
  /\ starter[s] \notin Seeking => starter'[s] \notin Seeking
  /\ starter[s] \in Detached => starter'[s] \in Detached
  /\ starter[s] \in {"started", "gone"} => starter'[s] = starter[s]
  /\ starter[s] \notin Alone => starter'[s] \notin Alone
  /\ starter[s] \notin Alone /\ ~Supervised(s) => ~Supervised(s)'
  /\ starter[s] \notin Alone \cup Preparing => starter'[s] \notin Alone \cup Preparing
  /\ starter[s] \notin Alone \cup Preparing /\ supervisor[s] \notin {"handshake", "launch"} =>
       /\ supervisor'[s] \notin {"handshake", "launch"}
       /\ dashboard[s] = None => dashboard'[s] = None

Local == /\ PhaseInv' /\ WatchInv' /\ \A s \in Starts : Goes(s)

LEMMA SameKeeps ==
  ASSUME NEW s \in Starts, Same(s), Phase(s), Guarded(s)
  PROVE  Phase(s)' /\ Guarded(s)' /\ Goes(s)
  BY DEF Same, Phase, Guarded, Goes, Watched, Supervised

LEMMA LocalFrame ==
  ASSUME PhaseInv, WatchInv, NEW s \in Starts, \A t \in Starts \ {s} : Same(t),
         Phase(s)', Guarded(s)', Goes(s)
  PROVE  Local
<1>1. \A t \in Starts : Phase(t)' /\ Guarded(t)' /\ Goes(t)
  BY SameKeeps DEF PhaseInv, WatchInv
<1> QED
  BY <1>1 DEF Local, PhaseInv, WatchInv

LEMMA StarterLocal ==
  ASSUME IInv, NEW s \in Starts,
         StarterStep(s) \/ ApplicationEnds(s) \/ Interrupt(s) \/ KillStarter(s)
  PROVE  Local /\ UNCHANGED stops /\ \A t \in Starts \ {s} : Same(t)
<1>0. TypeOK /\ Phase(s) /\ Guarded(s) /\ PhaseInv /\ WatchInv
  BY DEF IInv, PhaseInv, WatchInv
<1>1. CASE Reserve(s, "announce") \/ Reserve(s, "spawn")
  <2>1. \A t \in Starts \ {s} : Same(t)
    BY <1>0, <1>1 DEF TypeOK, Same, Reserve, At, Linking, markers, stops, tree
  <2>2. Phase(s)' /\ Guarded(s)' /\ Goes(s)
    BY <1>0, <1>1
    DEF TypeOK, Phase, Guarded, Goes, Alone, Preparing, Seeking, Detached, Watched, None,
        Supervised, Reserve, At, Linking, markers, stops, tree
  <2>3. UNCHANGED stops
    BY <1>1 DEF Reserve
  <2> QED
    BY <1>0, <2>1, <2>2, <2>3, LocalFrame
<1>2. CASE AlreadyExists(s)
  <2>1. \A t \in Starts \ {s} : Same(t)
    BY <1>0, <1>2 DEF TypeOK, Same, AlreadyExists, At, Linking, markers, stops, tree
  <2>2. Phase(s)' /\ Guarded(s)' /\ Goes(s)
    BY <1>0, <1>2
    DEF TypeOK, Phase, Guarded, Goes, Alone, Preparing, Seeking, Detached, Watched, None,
        Supervised, AlreadyExists, At, Linking, markers, stops, tree
  <2>3. UNCHANGED stops
    BY <1>2 DEF AlreadyExists
  <2> QED
    BY <1>0, <2>1, <2>2, <2>3, LocalFrame
<1>3. CASE Inspect(s)
  <2>1. \A t \in Starts \ {s} : Same(t)
    BY <1>0, <1>3 DEF TypeOK, Same, Inspect, At, markers, stops, tree
  <2>2. Phase(s)' /\ Guarded(s)' /\ Goes(s)
    BY <1>0, <1>3
    DEF TypeOK, Phase, Guarded, Goes, Alone, Preparing, Seeking, Detached, Watched, None,
        Supervised, Inspect, At, markers, stops, tree
  <2>3. UNCHANGED stops
    BY <1>3 DEF Inspect
  <2> QED
    BY <1>0, <2>1, <2>2, <2>3, LocalFrame
<1>4. CASE Clear(s)
  <2>1. \A t \in Starts \ {s} : Same(t)
    BY <1>0, <1>4 DEF TypeOK, Same, Clear, At, markers, stops, tree
  <2>2. Phase(s)' /\ Guarded(s)' /\ Goes(s)
    BY <1>0, <1>4
    DEF TypeOK, Phase, Guarded, Goes, Alone, Preparing, Seeking, Detached, Watched, None,
        Supervised, Clear, At, markers, stops, tree
  <2>3. UNCHANGED stops
    BY <1>4 DEF Clear
  <2> QED
    BY <1>0, <2>1, <2>2, <2>3, LocalFrame
<1>5. CASE WriteForeground(s)
  <2>1. \A t \in Starts \ {s} : Same(t)
    BY <1>0, <1>5 DEF TypeOK, Same, WriteForeground, Release, At, Write, markers, stops, tree
  <2>2. Phase(s)' /\ Guarded(s)' /\ Goes(s)
    BY <1>0, <1>5
    DEF TypeOK, Phase, Guarded, Goes, Alone, Preparing, Seeking, Detached, Watched, None,
        Supervised, WriteForeground, Release, At, Write, markers, stops, tree
  <2>3. UNCHANGED stops
    BY <1>5 DEF WriteForeground, Write
  <2> QED
    BY <1>0, <2>1, <2>2, <2>3, LocalFrame
<1>6. CASE ApplicationEnds(s)
  <2>1. \A t \in Starts \ {s} : Same(t)
    BY <1>0, <1>6 DEF TypeOK, Same, ApplicationEnds, At, markers, stops, tree
  <2>2. Phase(s)' /\ Guarded(s)' /\ Goes(s)
    BY <1>0, <1>6
    DEF TypeOK, Phase, Guarded, Goes, Alone, Preparing, Seeking, Detached, Watched, None,
        Supervised, ApplicationEnds, At, markers, stops, tree
  <2>3. UNCHANGED stops
    BY <1>6 DEF ApplicationEnds
  <2> QED
    BY <1>0, <2>1, <2>2, <2>3, LocalFrame
<1>7. CASE Leave(s)
  <2>1. \A t \in Starts \ {s} : Same(t)
    BY <1>0, <1>7 DEF TypeOK, Same, Leave, Release, At, markers, stops, tree
  <2>2. Phase(s)' /\ Guarded(s)' /\ Goes(s)
    BY <1>0, <1>7
    DEF TypeOK, Phase, Guarded, Goes, Alone, Preparing, Seeking, Detached, Watched, None,
        Supervised, Leave, Release, At, markers, stops, tree
  <2>3. UNCHANGED stops
    BY <1>7 DEF Leave
  <2> QED
    BY <1>0, <2>1, <2>2, <2>3, LocalFrame
<1>8. CASE SpawnSupervisor(s)
  <2>1. \A t \in Starts \ {s} : Same(t)
    BY <1>0, <1>8 DEF TypeOK, Same, SpawnSupervisor, Release, At, SupervisorAt, markers, stops
  <2>2. Phase(s)' /\ Guarded(s)' /\ Goes(s)
    BY <1>0, <1>8
    DEF TypeOK, Phase, Guarded, Goes, Alone, Preparing, Seeking, Detached, Watched, None,
        Supervised, SpawnSupervisor, Release, At, SupervisorAt, markers, stops
  <2>3. UNCHANGED stops
    BY <1>8 DEF SpawnSupervisor
  <2> QED
    BY <1>0, <2>1, <2>2, <2>3, LocalFrame
<1>9. CASE Grace(s)
  <2>1. \A t \in Starts \ {s} : Same(t)
    BY <1>0, <1>9 DEF TypeOK, Same, Grace, At, markers, stops, tree
  <2>2. Phase(s)' /\ Guarded(s)' /\ Goes(s)
    BY <1>0, <1>9
    DEF TypeOK, Phase, Guarded, Goes, Alone, Preparing, Seeking, Detached, Watched, None,
        Supervised, Grace, At, markers, stops, tree
  <2>3. UNCHANGED stops
    BY <1>9 DEF Grace
  <2> QED
    BY <1>0, <2>1, <2>2, <2>3, LocalFrame
<1>10. CASE WriteBackground(s)
  <2>1. \A t \in Starts \ {s} : Same(t)
    BY <1>0, <1>10 DEF TypeOK, Same, WriteBackground, At, Write, markers, stops, tree
  <2>2. Phase(s)' /\ Guarded(s)' /\ Goes(s)
    BY <1>0, <1>10
    DEF TypeOK, Phase, Guarded, Goes, Alone, Preparing, Seeking, Detached, Watched, None,
        Supervised, WriteBackground, At, Write, markers, stops, tree
  <2>3. UNCHANGED stops
    BY <1>10 DEF WriteBackground, Write
  <2> QED
    BY <1>0, <2>1, <2>2, <2>3, LocalFrame
<1>11. CASE Authorize(s)
  <2>1. \A t \in Starts \ {s} : Same(t)
    BY <1>0, <1>11 DEF TypeOK, Same, Authorize, At, stops, tree
  <2>2. Phase(s)' /\ Guarded(s)' /\ Goes(s)
    BY <1>0, <1>11
    DEF TypeOK, Phase, Guarded, Goes, Alone, Preparing, Seeking, Detached, Watched, None,
        Supervised, Authorize, At, stops, tree
  <2>3. UNCHANGED stops
    BY <1>11 DEF Authorize
  <2> QED
    BY <1>0, <2>1, <2>2, <2>3, LocalFrame
<1>12. CASE Confirm(s)
  <2>1. \A t \in Starts \ {s} : Same(t)
    BY <1>0, <1>12 DEF TypeOK, Same, Confirm, At, stops, tree
  <2>2. Phase(s)' /\ Guarded(s)' /\ Goes(s)
    BY <1>0, <1>12
    DEF TypeOK, Phase, Guarded, Goes, Alone, Preparing, Seeking, Detached, Watched, None,
        Supervised, Confirm, At, stops, tree
  <2>3. UNCHANGED stops
    BY <1>12 DEF Confirm
  <2> QED
    BY <1>0, <2>1, <2>2, <2>3, LocalFrame
<1>13. CASE Settle(s)
  <2>1. \A t \in Starts \ {s} : Same(t)
    BY <1>0, <1>13 DEF TypeOK, Same, Settle, At, markers, stops, tree
  <2>2. Phase(s)' /\ Guarded(s)' /\ Goes(s)
    BY <1>0, <1>13
    DEF TypeOK, Phase, Guarded, Goes, Alone, Preparing, Seeking, Detached, Watched, None,
        Supervised, Settle, At, markers, stops, tree
  <2>3. UNCHANGED stops
    BY <1>13 DEF Settle
  <2> QED
    BY <1>0, <2>1, <2>2, <2>3, LocalFrame
<1>14. CASE Terminate(s)
  <2>1. \A t \in Starts \ {s} : Same(t)
    BY <1>0, <1>14
    DEF TypeOK, Same, Terminate, At, EndDashboard, HasChild, SupervisorAt, SupervisorEnds,
        TerminateGroup, TerminateSupervisor, Terminated, markers, stops
  <2>2. Phase(s)' /\ Guarded(s)' /\ Goes(s)
    BY <1>0, <1>14
    DEF TypeOK, Lasting, Phase, Guarded, Goes, Alone, Preparing, Seeking, Detached, Watched, None,
        Supervised, Terminate, At, EndDashboard, HasChild, SupervisorAt, SupervisorEnds,
        TerminateGroup, TerminateSupervisor, Terminated, markers, stops
  <2>3. UNCHANGED stops
    BY <1>14 DEF Terminate
  <2> QED
    BY <1>0, <2>1, <2>2, <2>3, LocalFrame
<1>15. CASE Forget(s)
  <2>1. \A t \in Starts \ {s} : Same(t)
    BY <1>0, <1>15 DEF TypeOK, Same, Forget, At, stops, tree
  <2>2. Phase(s)' /\ Guarded(s)' /\ Goes(s)
    BY <1>0, <1>15
    DEF TypeOK, Phase, Guarded, Goes, Alone, Preparing, Seeking, Detached, Watched, None,
        Supervised, Forget, At, stops, tree
  <2>3. UNCHANGED stops
    BY <1>15 DEF Forget
  <2> QED
    BY <1>0, <2>1, <2>2, <2>3, LocalFrame
<1>16. CASE Interrupt(s)
  <2>1. \A t \in Starts \ {s} : Same(t)
    BY <1>0, <1>16
    DEF TypeOK, Same, Interrupt, At, InterruptStarter, Interrupted, markers, stops, tree
  <2>2. Phase(s)' /\ Guarded(s)' /\ Goes(s)
    BY <1>0, <1>16
    DEF TypeOK, Phase, Guarded, Goes, Alone, Preparing, Seeking, Detached, Watched, None,
        Supervised, Starting, Interrupt, At, InterruptStarter, Interrupted, markers, stops, tree
  <2>3. UNCHANGED stops
    BY <1>16 DEF Interrupt
  <2> QED
    BY <1>0, <2>1, <2>2, <2>3, LocalFrame
<1>17. CASE KillStarter(s)
  <2>1. \A t \in Starts \ {s} : Same(t)
    BY <1>0, <1>17 DEF TypeOK, Same, KillStarter, At, markers, stops, tree
  <2>2. Phase(s)' /\ Guarded(s)' /\ Goes(s)
    BY <1>0, <1>17
    DEF TypeOK, Phase, Guarded, Goes, Alone, Preparing, Seeking, Detached, Watched, None,
        Supervised, Starting, KillStarter, At, markers, stops, tree
  <2>3. UNCHANGED stops
    BY <1>17 DEF KillStarter
  <2> QED
    BY <1>0, <2>1, <2>2, <2>3, LocalFrame
<1>18. CASE MatchFound(s)
  <2>1. \A t \in Starts \ {s} : Same(t)
    BY <1>0, <1>18 DEF TypeOK, Same, MatchFound, At, markers, stops, tree
  <2>2. Phase(s)' /\ Guarded(s)' /\ Goes(s)
    BY <1>0, <1>18
    DEF TypeOK, Phase, Guarded, Goes, Alone, Preparing, Seeking, Detached, Watched, None,
        Supervised, MatchFound, At, markers, stops, tree
  <2>3. UNCHANGED stops
    BY <1>18 DEF MatchFound
  <2> QED
    BY <1>0, <2>1, <2>2, <2>3, LocalFrame
<1>19. CASE UnlinkOwn(s)
  <2>1. \A t \in Starts \ {s} : Same(t)
    BY <1>0, <1>19 DEF TypeOK, Same, UnlinkOwn, At, markers, stops, tree
  <2>2. Phase(s)' /\ Guarded(s)' /\ Goes(s)
    BY <1>0, <1>19
    DEF TypeOK, Phase, Guarded, Goes, Alone, Preparing, Seeking, Detached, Watched, None,
        Supervised, UnlinkOwn, At, markers, stops, tree
  <2>3. UNCHANGED stops
    BY <1>19 DEF UnlinkOwn
  <2> QED
    BY <1>0, <2>1, <2>2, <2>3, LocalFrame
<1> QED
  BY <1>1, <1>2, <1>3, <1>4, <1>5, <1>6, <1>7, <1>8, <1>9, <1>10, <1>11, <1>12,
     <1>13, <1>14, <1>15, <1>16, <1>17, <1>18, <1>19
  DEF StarterStep

LEMMA TreeLocal ==
  ASSUME IInv, NEW s \in Starts,
         SupervisorStep(s) \/ KillSupervisor(s) \/ WatcherStep(s) \/ DashboardStep(s)
  PROVE  Local /\ UNCHANGED stops /\ \A t \in Starts \ {s} : Same(t)
<1>0. TypeOK /\ Phase(s) /\ Guarded(s) /\ PhaseInv /\ WatchInv
  BY DEF IInv, PhaseInv, WatchInv
<1>1. CASE Handshake(s)
  <2>1. \A t \in Starts \ {s} : Same(t)
    BY <1>0, <1>1 DEF TypeOK, Same, Handshake, SupervisorAt, commands, stops
  <2>2. Phase(s)' /\ Guarded(s)' /\ Goes(s)
    BY <1>0, <1>1
    DEF TypeOK, Phase, Guarded, Goes, Alone, Preparing, Seeking, Detached, Watched, None,
        Supervised, Handshake, SupervisorAt, commands, stops
  <2>3. UNCHANGED stops
    BY <1>1 DEF Handshake
  <2> QED
    BY <1>0, <2>1, <2>2, <2>3, LocalFrame
<1>2. CASE GiveUp(s)
  <2>1. \A t \in Starts \ {s} : Same(t)
    BY <1>0, <1>2 DEF TypeOK, Same, GiveUp, SupervisorAt, SupervisorEnds, commands, markers, stops
  <2>2. Phase(s)' /\ Guarded(s)' /\ Goes(s)
    BY <1>0, <1>2
    DEF TypeOK, Phase, Guarded, Goes, Alone, Preparing, Seeking, Detached, Watched, None,
        Supervised, Starting, GiveUp, SupervisorAt, SupervisorEnds, commands, markers, stops
  <2>3. UNCHANGED stops
    BY <1>2 DEF GiveUp
  <2> QED
    BY <1>0, <2>1, <2>2, <2>3, LocalFrame
<1>3. CASE LaunchDashboard(s)
  <2>1. \A t \in Starts \ {s} : Same(t)
    BY <1>0, <1>3 DEF TypeOK, Same, LaunchDashboard, SupervisorAt, commands, markers, stops
  <2>2. Phase(s)' /\ Guarded(s)' /\ Goes(s)
    BY <1>0, <1>3
    DEF TypeOK, Lasting, Phase, Guarded, Goes, Alone, Preparing, Seeking, Detached, Watched, None,
        Supervised, LaunchDashboard, SupervisorAt, commands, markers, stops
  <2>3. UNCHANGED stops
    BY <1>3 DEF LaunchDashboard
  <2> QED
    BY <1>0, <2>1, <2>2, <2>3, LocalFrame
<1>4. CASE Survives(s)
  <2>1. \A t \in Starts \ {s} : Same(t)
    BY <1>0, <1>4
    DEF TypeOK, Same, Survives, BeforeConfirmation, SupervisorAt, commands, markers, stops
  <2>2. Phase(s)' /\ Guarded(s)' /\ Goes(s)
    BY <1>0, <1>4
    DEF TypeOK, Phase, Guarded, Goes, Alone, Preparing, Seeking, Detached, Watched, None,
        Supervised, Running, Survives, BeforeConfirmation, SupervisorAt, commands, markers, stops
  <2>3. UNCHANGED stops
    BY <1>4 DEF Survives
  <2> QED
    BY <1>0, <2>1, <2>2, <2>3, LocalFrame
<1>5. CASE LaunchWatcher(s)
  <2>1. \A t \in Starts \ {s} : Same(t)
    BY <1>0, <1>5
    DEF TypeOK, Same, LaunchWatcher, EndDashboard, SupervisorAt, Terminated, commands, markers,
        stops
  <2>2. Phase(s)' /\ Guarded(s)' /\ Goes(s)
    BY <1>0, <1>5
    DEF TypeOK, Lasting, Phase, Guarded, Goes, Alone, Preparing, Seeking, Detached, Watched, None,
        Supervised, LaunchWatcher, EndDashboard, SupervisorAt, Terminated, commands, markers, stops
  <2>3. UNCHANGED stops
    BY <1>5 DEF LaunchWatcher
  <2> QED
    BY <1>0, <2>1, <2>2, <2>3, LocalFrame
<1>6. CASE Report(s)
  <2>1. \A t \in Starts \ {s} : Same(t)
    BY <1>0, <1>6 DEF TypeOK, Same, Report, EndDashboard, SupervisorAt, Terminated, commands, stops
  <2>2. Phase(s)' /\ Guarded(s)' /\ Goes(s)
    BY <1>0, <1>6
    DEF TypeOK, Lasting, Phase, Guarded, Goes, Alone, Preparing, Seeking, Detached, Watched, None,
        Supervised, Report, EndDashboard, SupervisorAt, Terminated, commands, stops
  <2>3. UNCHANGED stops
    BY <1>6 DEF Report
  <2> QED
    BY <1>0, <2>1, <2>2, <2>3, LocalFrame
<1>7. CASE Drain(s)
  <2>1. \A t \in Starts \ {s} : Same(t)
    BY <1>0, <1>7
    DEF TypeOK, Same, Drain, EndDashboard, SupervisorAt, Terminated, commands, markers, stops
  <2>2. Phase(s)' /\ Guarded(s)' /\ Goes(s)
    BY <1>0, <1>7
    DEF TypeOK, Lasting, Phase, Guarded, Goes, Alone, Preparing, Seeking, Detached, Watched, None,
        Supervised, Running, Drain, EndDashboard, SupervisorAt, Terminated, commands, markers,
        stops
  <2>3. UNCHANGED stops
    BY <1>7 DEF Drain
  <2> QED
    BY <1>0, <2>1, <2>2, <2>3, LocalFrame
<1>8. CASE Finish(s)
  <2>1. \A t \in Starts \ {s} : Same(t)
    BY <1>0, <1>8 DEF TypeOK, Same, Finish, SupervisorAt, SupervisorEnds, commands, stops
  <2>2. Phase(s)' /\ Guarded(s)' /\ Goes(s)
    BY <1>0, <1>8
    DEF TypeOK, Phase, Guarded, Goes, Alone, Preparing, Seeking, Detached, Watched, None,
        Supervised, Running, Finish, SupervisorAt, SupervisorEnds, commands, stops
  <2>3. UNCHANGED stops
    BY <1>8 DEF Finish
  <2> QED
    BY <1>0, <2>1, <2>2, <2>3, LocalFrame
<1>9. CASE KillSupervisor(s)
  <2>1. \A t \in Starts \ {s} : Same(t)
    BY <1>0, <1>9
    DEF TypeOK, Same, KillSupervisor, SupervisorAt, SupervisorEnds, commands, markers, stops
  <2>2. Phase(s)' /\ Guarded(s)' /\ Goes(s)
    BY <1>0, <1>9
    DEF TypeOK, Phase, Guarded, Goes, Alone, Preparing, Seeking, Detached, Watched, None,
        Supervised, KillSupervisor, SupervisorAt, SupervisorEnds, commands, markers, stops
  <2>3. UNCHANGED stops
    BY <1>9 DEF KillSupervisor
  <2> QED
    BY <1>0, <2>1, <2>2, <2>3, LocalFrame
<1>10. CASE Watch(s)
  <2>1. \A t \in Starts \ {s} : Same(t)
    BY <1>0, <1>10 DEF TypeOK, Same, Watch, EndDashboard, Terminated, commands, markers, stops
  <2>2. Phase(s)' /\ Guarded(s)' /\ Goes(s)
    <3>1. /\ UNCHANGED <<starter, supervisor, authorized, confirmed>> /\ watcher[s] # None
          /\ \/ dashboard[s] = None /\ dashboard'[s] = None
             \/ dashboard'[s] = Terminated(dashboard[s]) /\ watcher'[s] = "forcing"
      BY <1>0, <1>10 DEF TypeOK, Running, Watch, EndDashboard, None, commands, markers
    <3>2. /\ dashboard[s] = None => dashboard'[s] = None
          /\ dashboard'[s] \in Lasting => Watched(s)'
      BY <3>1 DEF Terminated, Lasting, Watched, None
    <3> QED
      BY <1>0, <3>1, <3>2 DEF Phase, Guarded, Goes, Supervised, Alone, Preparing, None
  <2>3. UNCHANGED stops
    BY <1>10 DEF Watch
  <2> QED
    BY <1>0, <2>1, <2>2, <2>3, LocalFrame
<1>11. CASE WaitThenForce(s)
  <2>1. \A t \in Starts \ {s} : Same(t)
    BY <1>0, <1>11 DEF TypeOK, Same, WaitThenForce, commands, markers, stops
  <2>2. Phase(s)' /\ Guarded(s)' /\ Goes(s)
    BY <1>0, <1>11
    DEF TypeOK, Phase, Guarded, Goes, Alone, Preparing, Seeking, Detached, Watched, None,
        Supervised, Lasting, WaitThenForce, commands, markers, stops
  <2>3. UNCHANGED stops
    BY <1>11 DEF WaitThenForce
  <2> QED
    BY <1>0, <2>1, <2>2, <2>3, LocalFrame
<1>12. CASE Bind(s)
  <2>1. \A t \in Starts \ {s} : Same(t)
    BY <1>0, <1>12 DEF TypeOK, Same, Bind, commands, markers, stops
  <2>2. Phase(s)' /\ Guarded(s)' /\ Goes(s)
    BY <1>0, <1>12
    DEF TypeOK, Lasting, Phase, Guarded, Goes, Alone, Preparing, Seeking, Detached, Watched, None,
        Supervised, Bind, commands, markers, stops
  <2>3. UNCHANGED stops
    BY <1>12 DEF Bind
  <2> QED
    BY <1>0, <2>1, <2>2, <2>3, LocalFrame
<1>13. CASE DashboardEnds(s)
  <2>1. \A t \in Starts \ {s} : Same(t)
    BY <1>0, <1>13 DEF TypeOK, Same, Lasting, DashboardEnds, commands, markers, stops
  <2>2. Phase(s)' /\ Guarded(s)' /\ Goes(s)
    BY <1>0, <1>13
    DEF TypeOK, Lasting, Phase, Guarded, Goes, Alone, Preparing, Seeking, Detached, Watched, None,
        Supervised, DashboardEnds, commands, markers, stops
  <2>3. UNCHANGED stops
    BY <1>13 DEF DashboardEnds
  <2> QED
    BY <1>0, <2>1, <2>2, <2>3, LocalFrame
<1>14. CASE Vanish(s)
  <2>1. \A t \in Starts \ {s} : Same(t)
    BY <1>0, <1>14 DEF TypeOK, Same, Vanish, SupervisorAt, SupervisorEnds, commands, markers, stops
  <2>2. Phase(s)' /\ Guarded(s)' /\ Goes(s)
    BY <1>0, <1>14
    DEF TypeOK, Phase, Guarded, Goes, Alone, Preparing, Seeking, Detached, Watched, None,
        Supervised, Vanish, SupervisorAt, SupervisorEnds, commands, markers, stops
  <2>3. UNCHANGED stops
    BY <1>14 DEF Vanish
  <2> QED
    BY <1>0, <2>1, <2>2, <2>3, LocalFrame
<1>15. CASE InstallHandlers(s)
  <2>1. \A t \in Starts \ {s} : Same(t)
    BY <1>0, <1>15 DEF TypeOK, Same, Lasting, InstallHandlers, commands, markers, stops
  <2>2. Phase(s)' /\ Guarded(s)' /\ Goes(s)
    BY <1>0, <1>15
    DEF TypeOK, Phase, Guarded, Goes, Alone, Preparing, Seeking, Detached, Watched, None,
        Supervised, Lasting, InstallHandlers, commands, markers, stops
  <2>3. UNCHANGED stops
    BY <1>15 DEF InstallHandlers
  <2> QED
    BY <1>0, <2>1, <2>2, <2>3, LocalFrame
<1> QED
  BY <1>1, <1>2, <1>3, <1>4, <1>5, <1>6, <1>7, <1>8, <1>9, <1>10, <1>11, <1>12, <1>13, <1>14, <1>15
  DEF SupervisorStep, WatcherStep, DashboardStep

LEMMA AllSame ==
  ASSUME IInv, UNCHANGED <<starter, supervisor, dashboard, watcher, markers>>
  PROVE  Local
<1>1. \A t \in Starts : Same(t) /\ Phase(t) /\ Guarded(t)
  BY DEF IInv, PhaseInv, WatchInv, Same, markers
<1>2. \A t \in Starts : Phase(t)' /\ Guarded(t)' /\ Goes(t)
  BY <1>1, SameKeeps
<1> QED
  BY <1>2 DEF Local, PhaseInv, WatchInv

\* A signal to a supervisor or to a start command.
LEMMA SignalLocal ==
  ASSUME IInv, NEW s \in Starts,
         \/ TerminateSupervisor(s) /\ UNCHANGED starter
         \/ Starting(s) /\ InterruptStarter(s) /\ UNCHANGED <<supervisor, stopping, dashboard>>,
         UNCHANGED <<watcher, markers>>
  PROVE  Local /\ \A t \in Starts, m \in RecordModes : Need(t, m)' => Need(t, m)
<1>0. TypeOK /\ Phase(s) /\ Guarded(s) /\ PhaseInv /\ WatchInv
  BY DEF IInv, PhaseInv, WatchInv
<1>1. CASE TerminateSupervisor(s) /\ UNCHANGED starter
  <2>1. \A t \in Starts \ {s} : Same(t)
    BY <1>0, <1>1
    DEF TypeOK, Same, TerminateSupervisor, SupervisorEnds, SupervisorAt, EndDashboard, markers
  <2>2. Phase(s)' /\ Guarded(s)' /\ Goes(s)
    BY <1>0, <1>1
    DEF TypeOK, Phase, Guarded, Goes, Alone, Preparing, Seeking, Detached, Watched, Supervised, None, HasChild,
        TerminateSupervisor, SupervisorEnds, SupervisorAt, EndDashboard, Terminated, Lasting, markers
  <2>3. \A m \in RecordModes : Need(s, m)' => Need(s, m)
    BY <1>0, <1>1
    DEF TypeOK, Need, None, TerminateSupervisor, SupervisorEnds, SupervisorAt, markers
  <2> QED
    BY <1>0, <2>1, <2>2, <2>3, LocalFrame DEF Same, Need
<1>2. CASE Starting(s) /\ InterruptStarter(s) /\ UNCHANGED <<supervisor, stopping, dashboard>>
  <2>1. \A t \in Starts \ {s} : Same(t)
    BY <1>0, <1>2 DEF TypeOK, Same, InterruptStarter, At, markers
  <2>2. Phase(s)' /\ Guarded(s)' /\ Goes(s)
    BY <1>0, <1>2
    DEF TypeOK, Phase, Guarded, Goes, Alone, Preparing, Seeking, Detached, Watched, Supervised, None, Starting,
        InterruptStarter, Interrupted, At, markers
  <2>3. \A m \in RecordModes : Need(s, m)' => Need(s, m)
    BY <1>0, <1>2 DEF TypeOK, Need, InterruptStarter, Interrupted, At, markers
  <2> QED
    BY <1>0, <2>1, <2>2, <2>3, LocalFrame DEF Same, Need
<1> QED
  BY <1>1, <1>2

LEMMA StopperLocal ==
  ASSUME IInv, NEW k \in Stops, Load(k) \/ StopperStep(k)
  PROVE  Local /\ \A t \in Starts, m \in RecordModes : Need(t, m)' => Need(t, m)
<1>0. TypeOK /\ PhaseInv /\ WatchInv /\ Stopped(k)
  BY DEF IInv, StopInv
<1>1. CASE Load(k) \/ Match(k) \/ ClearStale(k) \/ Wait(k) \/ Check(k) \/ Remove(k)
  <2>1. UNCHANGED <<starter, supervisor, dashboard, watcher, markers>>
    BY <1>1 DEF Load, Match, ClearStale, Wait, Check, Remove, commands, tree
  <2> QED
    BY <2>1, AllSame DEF Need, markers
<1>2. CASE Signal(k)
  <2> DEFINE p == Owner(seen[k])
  <2>1. /\ p[2] \in Starts
        /\ \/ p[1] = "supervisor"
           \/ p = <<"starter", p[2]>>
    BY <1>0, <1>2, OwnerFacts DEF TypeOK, Stopped, Signal
  <2>2. CASE UNCHANGED <<starter, supervisor, dashboard>>
    BY <1>2, <2>2, AllSame DEF Signal, Need, markers
  <2>3. CASE ~UNCHANGED <<starter, supervisor, dashboard>>
    <3>1. p[1] # "supervisor" => Starting(p[2])
      BY <1>2, <2>1, <2>3, AliveFacts DEF Signal
    <3>2. \/ TerminateSupervisor(p[2]) /\ UNCHANGED starter
          \/ Starting(p[2]) /\ InterruptStarter(p[2]) /\ UNCHANGED <<supervisor, stopping, dashboard>>
      BY <1>2, <2>3, <3>1 DEF Signal
    <3>3. UNCHANGED <<watcher, markers>>
      BY <1>2 DEF Signal
    <3> QED
      BY <2>1, <3>2, <3>3, SignalLocal
  <2> QED
    BY <2>2, <2>3
<1>3. CASE ForceStop(k)
  <2>1. ASSUME NEW t \in Starts
        PROVE  /\ starter'[t] = starter[t] \/ (Starting(t) /\ starter'[t] = "gone")
               /\ supervisor'[t] = supervisor[t] \/ supervisor'[t] = None
               /\ dashboard'[t] = dashboard[t] \/ dashboard'[t] = None
               /\ watcher'[t] = watcher[t] \/ (<<"watcher", t>> \in caught[k] /\ watcher'[t] = None)
               /\ <<"dashboard", t>> \in caught[k] => dashboard'[t] = None
               /\ (t \in authorized' <=> t \in authorized) /\ (t \in confirmed' <=> t \in confirmed)
    <3>1. /\ starter'[t] = IF t \in Hit(k, "starter") THEN "gone" ELSE starter[t]
          /\ supervisor'[t] = IF t \in Hit(k, "supervisor") THEN None ELSE supervisor[t]
          /\ dashboard'[t] = IF t \in Hit(k, "dashboard") THEN None ELSE dashboard[t]
          /\ watcher'[t] = IF t \in Hit(k, "watcher") THEN None ELSE watcher[t]
      BY <1>3 DEF ForceStop, Without
    <3>2. t \in Hit(k, "watcher") => <<"watcher", t>> \in caught[k]
      BY DEF Hit
    <3>3. <<"dashboard", t>> \in caught[k] => t \in Hit(k, "dashboard") \/ dashboard[t] = None
      BY AliveFacts DEF Hit, Running
    <3>4. (t \in authorized' <=> t \in authorized) /\ (t \in confirmed' <=> t \in confirmed)
      BY <1>3 DEF ForceStop, markers
    <3>5. t \in Hit(k, "starter") => Starting(t)
      BY AliveFacts DEF Hit
    <3>6. /\ starter'[t] = starter[t] \/ (Starting(t) /\ starter'[t] = "gone")
          /\ supervisor'[t] = supervisor[t] \/ supervisor'[t] = None
          /\ dashboard'[t] = dashboard[t] \/ dashboard'[t] = None
      BY <3>1, <3>5
    <3>7. watcher'[t] = watcher[t] \/ (<<"watcher", t>> \in caught[k] /\ watcher'[t] = None)
      BY <3>1, <3>2
    <3>8. <<"dashboard", t>> \in caught[k] => dashboard'[t] = None
      BY <3>1, <3>3
    <3> QED
      BY <3>4, <3>6, <3>7, <3>8
  <2>2. ASSUME NEW t \in Starts
        PROVE  Phase(t)' /\ Goes(t)
    BY <1>0, <2>1 DEF PhaseInv, Phase, Goes, Supervised, Starting, None, Alone, Preparing, Seeking, Detached
  <2>3. ASSUME NEW t \in Starts
        PROVE  Guarded(t)'
    <3>1. watcher'[t] # watcher[t] => dashboard'[t] = None
      BY <1>0, <2>1 DEF Stopped
    <3> QED
      BY <1>0, <2>1, <3>1 DEF WatchInv, Guarded, Watched, None, Lasting
  <2>4. \A t \in Starts, m \in RecordModes : Need(t, m)' => Need(t, m)
    BY <2>1 DEF Need, None
  <2> QED
    BY <2>2, <2>3, <2>4 DEF Local, PhaseInv, WatchInv
<1> QED
  BY <1>1, <1>2, <1>3 DEF StopperStep

-----------------------------------------------------------------------------
\* RecordInv.

LEMMA NeedAlive ==
  ASSUME NEW s \in Starts, NEW m \in RecordModes, Need(s, m)
  PROVE  Alive(Owner(Record(s, m))) /\ Matching(Record(s, m))
<1>1. Alive(Owner(Record(s, m)))
  <2>1. CASE m = "background"
    <3>1. Owner(Record(s, m)) = <<"supervisor", s>>
      BY <2>1 DEF Owner, Record
    <3>2. Supervised(s)
      BY <2>1 DEF Need, Supervised, None
    <3> QED
      BY <3>1, <3>2, AliveFacts
  <2>2. CASE m # "background"
    <3>1. Owner(Record(s, m)) = <<"starter", s>>
      BY <2>2 DEF Owner, Record
    <3>2. Starting(s)
      BY <2>2 DEF Need, Starting
    <3> QED
      BY <3>1, <3>2, AliveFacts
  <2> QED
    BY <2>1, <2>2
<1> QED
  BY <1>1, RecordFacts DEF Matching

\* The steps that keep the record, that unlink it, and that replace it.
LEMMA RecordKept ==
  ASSUME RecordInv, record' = record, stolen \subseteq stolen',
         \A t \in Starts, m \in RecordModes : Need(t, m)' => Need(t, m)
  PROVE  RecordInv'
  BY DEF RecordInv

LEMMA RecordTaken ==
  ASSUME RecordInv, NEW p, Unlink(p),
         \A t \in Starts, m \in RecordModes : Need(t, m)' => Need(t, m) /\ Owner(Record(t, m)) # p
  PROVE  RecordInv'
<1> SUFFICES ASSUME NEW t \in Starts, NEW m \in RecordModes, Need(t, m)'
             PROVE  t \in stolen'
  BY DEF RecordInv
<1>1. Need(t, m) /\ Owner(Record(t, m)) # p /\ (t \in stolen \/ record = Record(t, m))
  BY DEF RecordInv
<1>2. record = Record(t, m) => t \in Victim(p)
  BY <1>1, NeedAlive, RecordFacts DEF Victim
<1> QED
  BY <1>1, <1>2 DEF Unlink

LEMMA RecordReplaced ==
  ASSUME RecordInv, NEW s \in Starts, NEW n \in RecordModes,
         record' = Record(s, n), stolen' = stolen \cup Victim(<<"starter", s>>),
         \A t \in Starts \ {s}, m \in RecordModes : Need(t, m)' => Need(t, m),
         \A m \in RecordModes : Need(s, m)' => m = n
  PROVE  RecordInv'
<1>1. ASSUME NEW t \in Starts \ {s}, NEW m \in RecordModes, Need(t, m)'
      PROVE  t \in stolen'
  <2>1. Need(t, m) /\ (t \in stolen \/ record = Record(t, m))
    BY <1>1 DEF RecordInv
  <2>2. Owner(Record(t, m)) # <<"starter", s>>
    BY OwnerFacts, RecordFacts
  <2> QED
    BY <2>1, <2>2, NeedAlive, RecordFacts DEF Victim
<1> QED
  BY <1>1 DEF RecordInv

LEMMA StarterRecord ==
  ASSUME IInv, NEW s \in Starts,
         StarterStep(s) \/ ApplicationEnds(s) \/ Interrupt(s) \/ KillStarter(s)
  PROVE  RecordInv'
<1>0. /\ TypeOK /\ RecordInv /\ Phase(s) /\ Known(record)
      /\ \A t \in Starts \ {s} : Same(t)
      /\ \A t \in Starts \ {s}, m \in RecordModes : Need(t, m)' => Need(t, m)
  <2>1. \A t \in Starts \ {s} : Same(t)
    BY StarterLocal
  <2> QED
    BY <2>1 DEF IInv, PhaseInv, KnownInv, Same, Need
<1>1. CASE Reserve(s, "announce") \/ Reserve(s, "spawn")
  <2>1. record = NoRecord /\ record' = Record(s, "starting") /\ stolen' = stolen /\ "starting" \in RecordModes
    BY <1>1 DEF Reserve, RecordModes
  <2>2. Victim(<<"starter", s>>) = {}
    BY <2>1 DEF Victim, Matching
  <2>3. \A m \in RecordModes : Need(s, m)' => m = "starting"
    BY <1>0, <1>1 DEF TypeOK, Phase, Need, None, Alone, Reserve, At, Linking, markers, tree
  <2> QED
    BY <1>0, <2>1, <2>2, <2>3, RecordReplaced
<1>2. CASE AlreadyExists(s)
  <2>1. record' = record /\ stolen' = stolen
    BY <1>2 DEF AlreadyExists
  <2>2. \A m \in RecordModes : Need(s, m)' => Need(s, m)
    BY <1>0, <1>2 DEF TypeOK, Need, None, AlreadyExists, At, Linking, markers, tree
  <2> QED
    BY <1>0, <2>1, <2>2, RecordKept
<1>3. CASE Inspect(s)
  <2>1. record' = record /\ stolen' = stolen
    BY <1>3 DEF Inspect
  <2>2. \A m \in RecordModes : Need(s, m)' => Need(s, m)
    BY <1>0, <1>3 DEF TypeOK, Need, None, Inspect, At, markers, tree
  <2> QED
    BY <1>0, <2>1, <2>2, RecordKept
<1>4. CASE Clear(s)
  <2>1. Unlink(<<"starter", s>>)
    BY <1>4 DEF Clear
  <2>2. \A m \in RecordModes : Need(s, m)' => Need(s, m) /\ m = "background"
    BY <1>0, <1>4 DEF TypeOK, Need, RecordModes, None, Clear, At, markers, tree
  <2>3. \A t \in Starts, m \in RecordModes :
          Need(t, m)' => Need(t, m) /\ Owner(Record(t, m)) # <<"starter", s>>
    BY <1>0, <2>2, OwnerFacts, RecordFacts
  <2> QED
    BY <1>0, <2>1, <2>3, RecordTaken
<1>5. CASE WriteForeground(s)
  <2>1. CASE Write(s, "foreground", "serving")
    <3>1. /\ record' = Record(s, "foreground") /\ stolen' = stolen \cup Victim(<<"starter", s>>)
          /\ "foreground" \in RecordModes
      BY <2>1 DEF Write, RecordModes
    <3>2. \A m \in RecordModes : Need(s, m)' => m = "foreground"
      BY <1>0, <1>5, <2>1
      DEF TypeOK, Phase, Need, None, Alone, Preparing, Write, WriteForeground, At, markers, tree
    <3> QED
      BY <1>0, <3>1, <3>2, RecordReplaced
  <2>2. CASE Release(s) /\ UNCHANGED <<record, search, tree, markers, stops, stolen>>
    <3>1. \A m \in RecordModes : Need(s, m)' => Need(s, m)
      BY <1>0, <2>2 DEF TypeOK, Need, Release, At, markers, tree
    <3> QED
      BY <1>0, <2>2, <3>1, RecordKept
  <2> QED
    BY <1>5, <2>1, <2>2 DEF WriteForeground
<1>6. CASE ApplicationEnds(s)
  <2>1. record' = record /\ stolen' = stolen
    BY <1>6 DEF ApplicationEnds
  <2>2. \A m \in RecordModes : Need(s, m)' => Need(s, m)
    BY <1>0, <1>6 DEF TypeOK, Need, None, ApplicationEnds, At, markers, tree
  <2> QED
    BY <1>0, <2>1, <2>2, RecordKept
<1>7. CASE Leave(s)
  <2>1. record' = record /\ stolen' = stolen
    BY <1>7 DEF Leave
  <2>2. \A m \in RecordModes : Need(s, m)' => Need(s, m)
    BY <1>0, <1>7 DEF TypeOK, Need, None, Leave, Release, At, markers, tree
  <2> QED
    BY <1>0, <2>1, <2>2, RecordKept
<1>8. CASE SpawnSupervisor(s)
  <2>1. record' = record /\ stolen' = stolen
    BY <1>8 DEF SpawnSupervisor
  <2>2. \A m \in RecordModes : Need(s, m)' => Need(s, m)
    BY <1>0, <1>8 DEF TypeOK, Need, None, Phase, Alone, SpawnSupervisor, Release, SupervisorAt, At, markers
  <2> QED
    BY <1>0, <2>1, <2>2, RecordKept
<1>9. CASE Grace(s)
  <2>1. record' = record /\ stolen' = stolen
    BY <1>9 DEF Grace
  <2>2. \A m \in RecordModes : Need(s, m)' => Need(s, m)
    BY <1>0, <1>9 DEF TypeOK, Need, None, Grace, At, Supervised, markers, tree
  <2> QED
    BY <1>0, <2>1, <2>2, RecordKept
<1>10. CASE WriteBackground(s)
  <2>1. CASE Write(s, RecordedMode, "authorize")
    <3>1. /\ record' = Record(s, RecordedMode) /\ stolen' = stolen \cup Victim(<<"starter", s>>)
          /\ RecordedMode \in RecordModes
      BY <2>1 DEF Write, RecordedMode, RecordModes
    <3>2. \A m \in RecordModes : Need(s, m)' => m = RecordedMode
      BY <1>0, <1>10, <2>1
      DEF TypeOK, Phase, Need, None, Alone, Preparing, Write, WriteBackground, At, markers, tree,
          RecordedMode
    <3> QED
      BY <1>0, <3>1, <3>2, RecordReplaced
  <2>2. CASE At(s, "terminate") /\ UNCHANGED <<record, search, tree, markers, stops, stolen>>
    <3>1. \A m \in RecordModes : Need(s, m)' => Need(s, m)
      BY <1>0, <2>2 DEF TypeOK, Need, At, markers, tree
    <3> QED
      BY <1>0, <2>2, <3>1, RecordKept
  <2> QED
    BY <1>10, <2>1, <2>2 DEF WriteBackground
<1>11. CASE Authorize(s)
  <2>1. record' = record /\ stolen' = stolen
    BY <1>11 DEF Authorize
  <2>2. \A m \in RecordModes : Need(s, m)' => Need(s, m)
    BY <1>0, <1>11 DEF TypeOK, Need, None, Authorize, At, tree
  <2> QED
    BY <1>0, <2>1, <2>2, RecordKept
<1>12. CASE Confirm(s)
  <2>1. record' = record /\ stolen' = stolen
    BY <1>12 DEF Confirm
  <2>2. \A m \in RecordModes : Need(s, m)' => Need(s, m)
    BY <1>0, <1>12 DEF TypeOK, Need, None, Confirm, At, Supervised, tree
  <2> QED
    BY <1>0, <2>1, <2>2, RecordKept
<1>13. CASE Settle(s)
  <2>1. record' = record /\ stolen' = stolen
    BY <1>13 DEF Settle
  <2>2. \A m \in RecordModes : Need(s, m)' => Need(s, m)
    BY <1>0, <1>13 DEF TypeOK, Need, None, Settle, At, Supervised, markers, tree
  <2> QED
    BY <1>0, <2>1, <2>2, RecordKept
<1>14. CASE Terminate(s)
  <2>1. record' = record /\ stolen' = stolen
    BY <1>14 DEF Terminate
  <2>2. \A m \in RecordModes : Need(s, m)' => Need(s, m)
    BY <1>0, <1>14
    DEF TypeOK, Need, None, Terminate, At, Supervised, SupervisorAt, SupervisorEnds,
        TerminateGroup, TerminateSupervisor, markers
  <2> QED
    BY <1>0, <2>1, <2>2, RecordKept
<1>15. CASE Forget(s)
  <2>1. Unlink(<<"starter", s>>)
    BY <1>15 DEF Forget
  <2>2. \A m \in RecordModes : Need(s, m)' => Need(s, m) /\ m = "background"
    BY <1>0, <1>15 DEF TypeOK, Need, RecordModes, None, Forget, At, tree
  <2>3. \A t \in Starts, m \in RecordModes :
          Need(t, m)' => Need(t, m) /\ Owner(Record(t, m)) # <<"starter", s>>
    BY <1>0, <2>2, OwnerFacts, RecordFacts
  <2> QED
    BY <1>0, <2>1, <2>3, RecordTaken
<1>16. CASE Interrupt(s)
  <2>1. record' = record /\ stolen' = stolen
    BY <1>16 DEF Interrupt
  <2>2. \A m \in RecordModes : Need(s, m)' => Need(s, m)
    BY <1>0, <1>16
    DEF TypeOK, Need, None, Interrupt, At, InterruptStarter, Interrupted, markers, tree
  <2> QED
    BY <1>0, <2>1, <2>2, RecordKept
<1>17. CASE KillStarter(s)
  <2>1. record' = record /\ stolen' = stolen
    BY <1>17 DEF KillStarter
  <2>2. \A m \in RecordModes : Need(s, m)' => Need(s, m)
    BY <1>0, <1>17 DEF TypeOK, Need, None, KillStarter, At, markers, tree
  <2> QED
    BY <1>0, <2>1, <2>2, RecordKept
<1>18. CASE MatchFound(s)
  <2>1. record' = record /\ stolen' = stolen
    BY <1>18 DEF MatchFound
  <2>2. \A m \in RecordModes : Need(s, m)' => Need(s, m)
    BY <1>0, <1>18 DEF TypeOK, Need, None, MatchFound, At, markers, tree
  <2> QED
    BY <1>0, <2>1, <2>2, RecordKept
<1>19. CASE UnlinkOwn(s)
  <2>1. Unlink(<<"starter", s>>)
    BY <1>19 DEF UnlinkOwn
  <2>2. \A m \in RecordModes : Need(s, m)' => Need(s, m) /\ m = "background"
    BY <1>0, <1>19 DEF TypeOK, Need, RecordModes, None, UnlinkOwn, At, markers, tree
  <2>3. \A t \in Starts, m \in RecordModes :
          Need(t, m)' => Need(t, m) /\ Owner(Record(t, m)) # <<"starter", s>>
    BY <1>0, <2>2, OwnerFacts, RecordFacts
  <2> QED
    BY <1>0, <2>1, <2>3, RecordTaken
<1> QED
  BY <1>1, <1>2, <1>3, <1>4, <1>5, <1>6, <1>7, <1>8, <1>9, <1>10, <1>11, <1>12,
     <1>13, <1>14, <1>15, <1>16, <1>17, <1>18, <1>19
  DEF StarterStep

LEMMA TreeRecord ==
  ASSUME IInv, NEW s \in Starts,
         SupervisorStep(s) \/ KillSupervisor(s) \/ WatcherStep(s) \/ DashboardStep(s)
  PROVE  RecordInv'
<1>0. /\ TypeOK /\ RecordInv /\ Phase(s) /\ Known(record)
      /\ \A t \in Starts \ {s} : Same(t)
      /\ \A t \in Starts \ {s}, m \in RecordModes : Need(t, m)' => Need(t, m)
  <2>1. \A t \in Starts \ {s} : Same(t)
    BY TreeLocal
  <2> QED
    BY <2>1 DEF IInv, PhaseInv, KnownInv, Same, Need
<1>1. CASE Handshake(s)
  <2>1. record' = record /\ stolen' = stolen
    BY <1>1 DEF Handshake
  <2>2. \A m \in RecordModes : Need(s, m)' => Need(s, m)
    BY <1>0, <1>1 DEF TypeOK, Need, None, Handshake, SupervisorAt, commands
  <2> QED
    BY <1>0, <2>1, <2>2, RecordKept
<1>2. CASE GiveUp(s)
  <2>1. record' = record /\ stolen' = stolen
    BY <1>2 DEF GiveUp
  <2>2. \A m \in RecordModes : Need(s, m)' => Need(s, m)
    BY <1>0, <1>2 DEF TypeOK, Need, None, GiveUp, SupervisorAt, SupervisorEnds, commands, markers
  <2> QED
    BY <1>0, <2>1, <2>2, RecordKept
<1>3. CASE LaunchDashboard(s)
  <2>1. record' = record /\ stolen' = stolen
    BY <1>3 DEF LaunchDashboard
  <2>2. \A m \in RecordModes : Need(s, m)' => Need(s, m)
    BY <1>0, <1>3 DEF TypeOK, Need, None, LaunchDashboard, SupervisorAt, commands, markers
  <2> QED
    BY <1>0, <2>1, <2>2, RecordKept
<1>4. CASE Survives(s)
  <2>1. record' = record /\ stolen' = stolen
    BY <1>4 DEF Survives
  <2>2. \A m \in RecordModes : Need(s, m)' => Need(s, m)
    BY <1>0, <1>4
    DEF TypeOK, Need, None, Survives, BeforeConfirmation, SupervisorAt, commands, markers
  <2> QED
    BY <1>0, <2>1, <2>2, RecordKept
<1>5. CASE LaunchWatcher(s)
  <2>1. record' = record /\ stolen' = stolen
    BY <1>5 DEF LaunchWatcher
  <2>2. \A m \in RecordModes : Need(s, m)' => Need(s, m)
    BY <1>0, <1>5 DEF TypeOK, Need, None, LaunchWatcher, SupervisorAt, commands, markers
  <2> QED
    BY <1>0, <2>1, <2>2, RecordKept
<1>6. CASE Report(s)
  <2>1. record' = record /\ stolen' = stolen
    BY <1>6 DEF Report
  <2>2. \A m \in RecordModes : Need(s, m)' => Need(s, m)
    BY <1>0, <1>6 DEF TypeOK, Need, None, Report, SupervisorAt, commands
  <2> QED
    BY <1>0, <2>1, <2>2, RecordKept
<1>7. CASE Drain(s)
  <2>1. record' = record /\ stolen' = stolen
    BY <1>7 DEF Drain
  <2>2. \A m \in RecordModes : Need(s, m)' => Need(s, m)
    BY <1>0, <1>7 DEF TypeOK, Need, None, Drain, SupervisorAt, commands, markers
  <2> QED
    BY <1>0, <2>1, <2>2, RecordKept
<1>8. CASE Finish(s)
  <2>1. record' = record /\ stolen' = stolen
    BY <1>8 DEF Finish
  <2>2. \A m \in RecordModes : Need(s, m)' => Need(s, m)
    BY <1>0, <1>8 DEF TypeOK, Need, None, Finish, SupervisorEnds, SupervisorAt, commands
  <2> QED
    BY <1>0, <2>1, <2>2, RecordKept
<1>9. CASE KillSupervisor(s)
  <2>1. record' = record /\ stolen' = stolen
    BY <1>9 DEF KillSupervisor
  <2>2. \A m \in RecordModes : Need(s, m)' => Need(s, m)
    BY <1>0, <1>9
    DEF TypeOK, Need, None, KillSupervisor, Supervised, SupervisorAt, SupervisorEnds, commands,
        markers
  <2> QED
    BY <1>0, <2>1, <2>2, RecordKept
<1>10. CASE Watch(s)
  <2>1. record' = record /\ stolen' = stolen
    BY <1>10 DEF Watch
  <2>2. \A m \in RecordModes : Need(s, m)' => Need(s, m)
    BY <1>0, <1>10 DEF TypeOK, Need, None, Watch, Supervised, commands, markers
  <2> QED
    BY <1>0, <2>1, <2>2, RecordKept
<1>11. CASE WaitThenForce(s)
  <2>1. record' = record /\ stolen' = stolen
    BY <1>11 DEF WaitThenForce
  <2>2. \A m \in RecordModes : Need(s, m)' => Need(s, m)
    BY <1>0, <1>11 DEF TypeOK, Need, None, WaitThenForce, commands, markers
  <2> QED
    BY <1>0, <2>1, <2>2, RecordKept
<1>12. CASE Bind(s)
  <2>1. record' = record /\ stolen' = stolen
    BY <1>12 DEF Bind
  <2>2. \A m \in RecordModes : Need(s, m)' => Need(s, m)
    BY <1>0, <1>12 DEF TypeOK, Need, None, Bind, commands, markers
  <2> QED
    BY <1>0, <2>1, <2>2, RecordKept
<1>13. CASE DashboardEnds(s)
  <2>1. record' = record /\ stolen' = stolen
    BY <1>13 DEF DashboardEnds
  <2>2. \A m \in RecordModes : Need(s, m)' => Need(s, m)
    BY <1>0, <1>13 DEF TypeOK, Need, None, DashboardEnds, commands, markers
  <2> QED
    BY <1>0, <2>1, <2>2, RecordKept
<1>14. CASE Vanish(s)
  <2>1. Unlink(<<"supervisor", s>>)
    BY <1>14 DEF Vanish
  <2>2. \A m \in RecordModes : Need(s, m)' => Need(s, m) /\ m # "background"
    BY <1>0, <1>14 DEF TypeOK, Need, None, Vanish, SupervisorEnds, SupervisorAt, commands, markers
  <2>3. \A t \in Starts, m \in RecordModes :
          Need(t, m)' => Need(t, m) /\ Owner(Record(t, m)) # <<"supervisor", s>>
    BY <1>0, <2>2, OwnerFacts, RecordFacts
  <2> QED
    BY <1>0, <2>1, <2>3, RecordTaken
<1>15. CASE InstallHandlers(s)
  <2>1. record' = record /\ stolen' = stolen
    BY <1>15 DEF InstallHandlers
  <2>2. \A m \in RecordModes : Need(s, m)' => Need(s, m)
    BY <1>0, <1>15 DEF TypeOK, Need, None, InstallHandlers, commands, markers
  <2> QED
    BY <1>0, <2>1, <2>2, RecordKept
<1> QED
  BY <1>1, <1>2, <1>3, <1>4, <1>5, <1>6, <1>7, <1>8, <1>9, <1>10, <1>11, <1>12, <1>13, <1>14, <1>15
  DEF SupervisorStep, WatcherStep, DashboardStep

LEMMA StopperRecord ==
  ASSUME IInv, NEW k \in Stops, Load(k) \/ StopperStep(k)
  PROVE  RecordInv'
<1>0. RecordInv /\ Stopped(k) /\ \A t \in Starts, m \in RecordModes : Need(t, m)' => Need(t, m)
  BY StopperLocal DEF IInv, StopInv
<1>1. CASE ClearStale(k) \/ Remove(k)
  <2> DEFINE p == Owner(seen[k])
  <2>1. Unlink(p) /\ ~Alive(p)
    BY <1>0, <1>1 DEF ClearStale, Remove, Stopped
  <2>2. \A t \in Starts, m \in RecordModes : Need(t, m) => Owner(Record(t, m)) # p
    BY <2>1, NeedAlive
  <2> HIDE DEF p
  <2> QED
    BY <1>0, <2>1, <2>2, RecordTaken
<1>2. CASE Load(k) \/ Match(k) \/ Signal(k) \/ Wait(k) \/ ForceStop(k) \/ Check(k)
  BY <1>0, <1>2, RecordKept DEF Load, Match, Signal, Wait, ForceStop, Check
<1> QED
  BY <1>1, <1>2 DEF StopperStep
-----------------------------------------------------------------------------
\* KnownInv and StopInv.

\* In the next state, of a record that is there now.
KnownNext(r) ==
  r # NoRecord => /\ starter'[r.of] \notin Seeking
                  /\ r.mode = "background" => starter'[r.of] \in Detached
Over(r) == IF r.mode = "background" THEN supervisor'[r.of] = None
           ELSE starter'[r.of] \in {"idle", "started", "gone"}

LEMMA KnownKept ==
  ASSUME NEW r \in Records \cup {NoRecord}, Known(r), \A s \in Starts : Goes(s)
  PROVE  KnownNext(r)
<1>1. CASE r = NoRecord
  BY <1>1 DEF KnownNext
<1>2. CASE r \in Records
  <2>1. r.of \in Starts /\ r # NoRecord
    BY <1>2, OwnerFacts
  <2> QED
    BY <2>1 DEF Known, KnownNext, Goes
<1> QED
  BY <1>1, <1>2

LEMMA KnownFrame ==
  ASSUME KnownNext(record'), \A k \in Stops : KnownNext(seen'[k])
  PROVE  KnownInv'
  BY DEF KnownInv, KnownNext, Known

LEMMA DeadStays ==
  ASSUME NEW r \in Records, Known(r), \A s \in Starts : Goes(s), ~Alive(Owner(r))
  PROVE  Over(r)
<1>1. r.of \in Starts /\ r # NoRecord /\ Goes(r.of)
  BY OwnerFacts
<1>2. CASE r.mode = "background"
  <2>1. starter[r.of] \in Detached /\ ~Supervised(r.of)
    BY <1>1, <1>2, AliveFacts DEF Known, Owner
  <2> QED
    BY <1>1, <1>2, <2>1 DEF Goes, Detached, Alone, Supervised, Over
<1>3. CASE r.mode # "background"
  <2>1. starter[r.of] \notin Seeking /\ ~Starting(r.of)
    BY <1>1, <1>3, AliveFacts DEF Known, Owner
  <2> QED
    BY <1>1, <1>3, <2>1 DEF Goes, Seeking, Starting, Over
<1> QED
  BY <1>2, <1>3

LEMMA OverMeans ==
  ASSUME NEW k \in Stops, Over(seen'[k])
  PROVE  ~Alive(Owner(seen[k]))'
<1>1. CASE seen'[k].mode = "background"
  BY <1>1 DEF Over, Owner, Alive, Supervised
<1>2. CASE seen'[k].mode # "background"
  BY <1>2 DEF Over, Owner, Alive, Starting
<1> QED
  BY <1>1, <1>2

\* What a watcher that a stop command has captured says about its start.
CaughtNext(k) ==
  \A s \in Starts : <<"watcher", s>> \in caught[k] =>
    /\ starter'[s] \notin Alone \cup Preparing /\ supervisor'[s] \notin {"handshake", "launch"}
    /\ <<"dashboard", s>> \in caught[k] \/ dashboard'[s] = None

LEMMA CaughtKept ==
  ASSUME NEW k \in Stops, Stopped(k), \A s \in Starts : Goes(s)
  PROVE  CaughtNext(k)
  BY DEF Stopped, CaughtNext, Goes

LEMMA StoppedKept ==
  ASSUME IInv, \A s \in Starts : Goes(s), NEW k \in Stops,
         UNCHANGED <<stopper[k], seen[k], caught[k]>>
  PROVE  Stopped(k)'
<1>1. Stopped(k) /\ Known(seen[k]) /\ seen[k] \in Records \cup {NoRecord}
  BY DEF IInv, StopInv, KnownInv, TypeOK
<1>2. CaughtNext(k)
  BY <1>1, CaughtKept
<1>3. ASSUME stopper[k] \in {"clear", "check", "unlink", "stopped"}
      PROVE  ~Alive(Owner(seen[k]))'
  <2>1. seen[k] \in Records /\ ~Alive(Owner(seen[k]))
    BY <1>1, <1>3 DEF Stopped
  <2>2. Over(seen'[k])
    BY <1>1, <2>1, DeadStays
  <2> QED
    BY <2>2, OverMeans
<1> QED
  BY <1>1, <1>2, <1>3 DEF Stopped, CaughtNext, Owner

\* Which record a start command writes.
LEMMA StarterWrites ==
  ASSUME IInv, NEW s \in Starts,
         StarterStep(s) \/ ApplicationEnds(s) \/ Interrupt(s) \/ KillStarter(s)
  PROVE  record' \in {record, NoRecord} \/ KnownNext(record')
<1>0. TypeOK
  BY DEF IInv
<1>1. CASE Reserve(s, "announce") \/ Reserve(s, "spawn")
  <2>1. record' = Record(s, "starting") /\ starter'[s] \in {"announce", "spawn"}
    BY <1>0, <1>1 DEF TypeOK, Reserve, At
  <2> QED
    BY <2>1 DEF KnownNext, Record, Seeking
<1>2. CASE WriteForeground(s)
  <2>1. CASE Write(s, "foreground", "serving")
    <3>1. record' = Record(s, "foreground") /\ starter'[s] = "serving"
      BY <1>0, <2>1 DEF TypeOK, Write, At
    <3> QED
      BY <3>1 DEF KnownNext, Record, Seeking
  <2>2. CASE record' = record
    BY <2>2
  <2> QED
    BY <1>2, <2>1, <2>2 DEF WriteForeground
<1>3. CASE WriteBackground(s)
  <2>1. CASE Write(s, RecordedMode, "authorize")
    <3>1. record' = Record(s, RecordedMode) /\ starter'[s] = "authorize"
      BY <1>0, <2>1 DEF TypeOK, Write, At
    <3> QED
      BY <3>1 DEF KnownNext, Record, Seeking, Detached
  <2>2. CASE record' = record
    BY <2>2
  <2> QED
    BY <1>3, <2>1, <2>2 DEF WriteBackground
<1>4. CASE Clear(s) \/ UnlinkOwn(s) \/ Forget(s)
  BY <1>4 DEF Clear, UnlinkOwn, Forget, Unlink
<1>5. CASE Leave(s) \/ SpawnSupervisor(s) \/ MatchFound(s)
  BY <1>5 DEF Leave, SpawnSupervisor, MatchFound
<1>6. CASE AlreadyExists(s) \/ Inspect(s) \/ Grace(s) \/ Authorize(s) \/ Confirm(s) \/ Settle(s)
           \/ Terminate(s) \/ ApplicationEnds(s) \/ Interrupt(s) \/ KillStarter(s)
  BY <1>6
  DEF AlreadyExists, Inspect, Grace, Authorize, Confirm, Settle, Terminate, ApplicationEnds,
      Interrupt, KillStarter
<1> QED
  BY <1>1, <1>2, <1>3, <1>4, <1>5, <1>6 DEF StarterStep

LEMMA TreeWrites ==
  ASSUME NEW s \in Starts,
         SupervisorStep(s) \/ KillSupervisor(s) \/ WatcherStep(s) \/ DashboardStep(s)
  PROVE  record' \in {record, NoRecord}
<1>1. CASE Vanish(s)
  BY <1>1 DEF Vanish, Unlink
<1>2. CASE ~Vanish(s)
  BY <1>2
  DEF SupervisorStep, WatcherStep, DashboardStep, Handshake, GiveUp, LaunchDashboard, Survives,
      LaunchWatcher, Report, Drain, Finish, KillSupervisor, Watch, WaitThenForce, Bind,
      InstallHandlers, DashboardEnds
<1> QED
  BY <1>1, <1>2

LEMMA KnownFacts ==
  ASSUME IInv, \A s \in Starts : Goes(s)
  PROVE  /\ KnownNext(record) /\ KnownNext(NoRecord)
         /\ \A k \in Stops : KnownNext(seen[k])
<1>1. KnownNext(record) /\ \A k \in Stops : KnownNext(seen[k])
  BY KnownKept DEF IInv, TypeOK, KnownInv
<1> QED
  BY <1>1 DEF KnownNext

\* The steps of a start change neither what a stop command has read nor captured.
LEMMA StartKnows ==
  ASSUME IInv, NEW s \in Starts,
         \/ StarterStep(s) \/ ApplicationEnds(s) \/ Interrupt(s) \/ KillStarter(s)
         \/ SupervisorStep(s) \/ KillSupervisor(s) \/ WatcherStep(s) \/ DashboardStep(s)
  PROVE  KnownInv' /\ StopInv'
<1>1. Local /\ UNCHANGED stops
  BY StarterLocal, TreeLocal
<1>2. record' \in {record, NoRecord} \/ KnownNext(record')
  BY StarterWrites, TreeWrites
<1>3. KnownNext(record') /\ \A k \in Stops : KnownNext(seen'[k])
  BY <1>1, <1>2, KnownFacts DEF Local, stops
<1>4. \A k \in Stops : Stopped(k)'
  BY <1>1, StoppedKept DEF Local, stops
<1> QED
  BY <1>3, <1>4, KnownFrame DEF StopInv

LEMMA StopperKnows ==
  ASSUME IInv, NEW k \in Stops, Load(k) \/ StopperStep(k)
  PROVE  KnownInv'
<1>0. /\ \A s \in Starts : Goes(s)
      /\ seen \in [Stops -> Records \cup {NoRecord}]
  BY StopperLocal DEF Local, IInv, TypeOK
<1>1. record' \in {record, NoRecord}
  BY DEF StopperStep, Load, Match, ClearStale, Signal, Wait, ForceStop, Check, Remove, Unlink
<1>2. \A j \in Stops : seen'[j] \in {seen[j], record, NoRecord}
  BY <1>0 DEF StopperStep, Load, Match, ClearStale, Signal, Wait, ForceStop, Check, Remove
<1> QED
  BY <1>0, <1>1, <1>2, KnownFacts, KnownFrame

\* The stop command that takes the step.
LEMMA StopperStops ==
  ASSUME IInv, NEW k \in Stops, Load(k) \/ StopperStep(k)
  PROVE  Stopped(k)'
<1>0. /\ \A s \in Starts : Goes(s)
      /\ TypeOK /\ PhaseInv /\ Stopped(k) /\ Known(seen[k])
  BY StopperLocal DEF Local, IInv, StopInv, KnownInv
<1>1. CaughtNext(k)
  BY <1>0, CaughtKept
<1>2. ASSUME stopper[k] \notin {"idle", "absent"}
      PROVE  seen[k] \in Records
  BY <1>0, <1>2 DEF TypeOK, Stopped
<1>3. ASSUME seen[k] \in Records, seen'[k] = seen[k], ~Alive(Owner(seen[k]))
      PROVE  ~Alive(Owner(seen[k]))'
  BY <1>0, <1>3, DeadStays, OverMeans
<1>4. CASE Load(k)
  BY <1>0, <1>1, <1>4 DEF TypeOK, Stopped, CaughtNext, Load, StopperAt
<1>5. CASE Match(k)
  <2> DEFINE p == Owner(seen[k])
  <2>1. seen[k] \in Records /\ seen'[k] = seen[k] /\ UNCHANGED <<starter, supervisor, dashboard, watcher>>
    BY <1>2, <1>5 DEF Match, commands, tree
  <2>2. CASE ~Alive(p)
    <3>1. stopper'[k] = "clear" /\ caught'[k] = caught[k] /\ ~Alive(Owner(seen[k]))'
      BY <1>0, <1>3, <1>5, <2>1, <2>2 DEF TypeOK, Match, StopperAt
    <3> QED
      BY <1>0, <1>1, <2>1, <3>1, OwnerFacts DEF Stopped, CaughtNext
  <2>3. CASE Alive(p)
    <3>1. stopper'[k] = "signal" /\ caught'[k] = {p} \cup Descendants(p)
      BY <1>0, <1>5, <2>3 DEF TypeOK, Match, StopperAt
    <3>2. p[1] # "watcher" /\ p[2] \in Starts
      BY <2>1, OwnerFacts
    <3>3. ASSUME NEW s \in Starts, <<"watcher", s>> \in caught'[k]
          PROVE  Watched(s) /\ (Running(s) => <<"dashboard", s>> \in caught'[k])
      <4> DEFINE children == {x \in {"supervisor", "dashboard", "watcher"} \X {p[2]} : Alive(x)}
      <4>1. /\ <<"watcher", s>> \in Descendants(p)
            /\ Descendants(p) \in {children, children \ {p}, {}}
        BY <3>1, <3>2, <3>3 DEF Descendants
      <4>2. Descendants(p) # {} /\ <<"watcher", s>> \in children
        BY <4>1
      <4>3. s = p[2] /\ Watched(s)
        <5>1. <<"watcher", s>> \in {"supervisor", "dashboard", "watcher"} \X {p[2]}
          BY <4>2
        <5>2. Alive(<<"watcher", s>>)
          BY <4>2
        <5> QED
          BY <5>1, <5>2, AliveFacts
      <4>4. Running(s) => <<"dashboard", s>> \in children /\ p # <<"dashboard", s>>
        <5>1. p # <<"dashboard", s>>
          BY <2>1, OwnerFacts
        <5>2. Running(s) => Alive(<<"dashboard", s>>)
          BY AliveFacts
        <5>3. <<"dashboard", s>> \in {"supervisor", "dashboard", "watcher"} \X {p[2]}
          BY <4>3
        <5> QED
          BY <5>1, <5>2, <5>3
      <4> HIDE DEF children
      <4> QED
        BY <3>1, <4>1, <4>2, <4>3, <4>4
    <3>4. ASSUME NEW s \in Starts, <<"watcher", s>> \in caught'[k]
          PROVE  /\ starter'[s] \notin Alone \cup Preparing
                 /\ supervisor'[s] \notin {"handshake", "launch"}
                 /\ <<"dashboard", s>> \in caught'[k] \/ dashboard'[s] = None
      BY <1>0, <2>1, <3>3, <3>4 DEF PhaseInv, Phase, Watched, Running
    <3>5. seen'[k] # NoRecord /\ Owner(seen[k])' \in caught'[k]
      BY <2>1, <3>1, OwnerFacts DEF Owner
    <3> HIDE DEF p
    <3> QED
      BY <3>1, <3>4, <3>5 DEF Stopped
  <2> QED
    BY <2>2, <2>3
<1>6. CASE ClearStale(k)
  BY <1>0, <1>1, <1>6 DEF TypeOK, Stopped, CaughtNext, ClearStale, StopperAt
<1>7. CASE Signal(k)
  <2>1. stopper[k] = "signal" /\ stopper'[k] = "wait" /\ seen'[k] = seen[k] /\ caught'[k] = caught[k]
    BY <1>0, <1>7 DEF TypeOK, Signal, StopperAt
  <2> QED
    BY <1>0, <1>1, <2>1 DEF Stopped, CaughtNext, Owner
<1>8. CASE Wait(k)
  <2>1. /\ stopper[k] = "wait" /\ stopper'[k] = "check" /\ seen'[k] = seen[k] /\ caught'[k] = {}
        /\ Exited(k)
    BY <1>0, <1>8 DEF TypeOK, Wait, StopperAt
  <2>2. seen[k] \in Records /\ ~Alive(Owner(seen[k]))
    BY <1>0, <1>2, <2>1 DEF Stopped, Exited
  <2> QED
    BY <1>0, <1>3, <2>1, <2>2, OwnerFacts DEF Stopped
<1>9. CASE ForceStop(k)
  <2> DEFINE p == Owner(seen[k])
             s == seen[k].of
  <2>1. stopper[k] = "wait" /\ stopper'[k] = "check" /\ seen'[k] = seen[k] /\ caught'[k] = {}
    BY <1>0, <1>9 DEF TypeOK, ForceStop, StopperAt
  <2>2. seen[k] \in Records /\ p \in caught[k] /\ s \in Starts
    BY <1>0, <1>2, <2>1, OwnerFacts DEF Stopped
  <2>3. ASSUME Alive(p)
        PROVE  ~Alive(Owner(seen[k]))'
    <3>1. CASE seen[k].mode = "background"
      <4>1. s \in Hit(k, "supervisor")
        BY <2>2, <2>3, <3>1, OwnerFacts DEF Hit
      <4>2. supervisor'[s] = None
        BY <1>9, <2>2, <4>1 DEF ForceStop, Without
      <4>3. Over(seen'[k])
        BY <2>1, <3>1, <4>2 DEF Over
      <4> QED
        BY <4>3, OverMeans
    <3>2. CASE seen[k].mode # "background"
      <4>1. s \in Hit(k, "starter")
        BY <2>2, <2>3, <3>2, OwnerFacts DEF Hit
      <4>2. starter'[s] = "gone"
        BY <1>9, <2>2, <4>1 DEF ForceStop, Without
      <4>3. Over(seen'[k])
        BY <2>1, <3>2, <4>2 DEF Over
      <4> QED
        BY <4>3, OverMeans
    <3> QED
      BY <3>1, <3>2
  <2>4. ~Alive(Owner(seen[k]))'
    BY <1>3, <2>1, <2>2, <2>3
  <2> HIDE DEF p, s
  <2> QED
    BY <2>1, <2>2, <2>4, OwnerFacts DEF Stopped
<1>10. CASE Check(k) \/ Remove(k)
  <2>1. /\ stopper[k] \in {"check", "unlink"} /\ stopper'[k] \in {"unlink", "stopped"}
        /\ seen'[k] = seen[k] /\ caught'[k] = caught[k]
    BY <1>0, <1>10 DEF TypeOK, Check, Remove, StopperAt
  <2>2. seen[k] \in Records /\ ~Alive(Owner(seen[k]))
    BY <1>0, <1>2, <2>1 DEF Stopped
  <2> QED
    BY <1>0, <1>1, <1>3, <2>1, <2>2, OwnerFacts DEF Stopped, CaughtNext
<1> QED
  BY <1>4, <1>5, <1>6, <1>7, <1>8, <1>9, <1>10 DEF StopperStep

LEMMA StopperStopInv ==
  ASSUME IInv, NEW k \in Stops, Load(k) \/ StopperStep(k)
  PROVE  StopInv'
<1>1. TypeOK /\ \A s \in Starts : Goes(s)
  BY StopperLocal DEF Local, IInv
<1>2. \A j \in Stops \ {k} : UNCHANGED <<stopper[j], seen[j], caught[j]>>
  BY <1>1
  DEF TypeOK, StopperStep, StopperAt, Load, Match, ClearStale, Signal, Wait, ForceStop, Check, Remove
<1>3. \A j \in Stops \ {k} : Stopped(j)'
  BY <1>1, <1>2, StoppedKept
<1>4. Stopped(k)'
  BY StopperStops
<1> QED
  BY <1>3, <1>4 DEF StopInv
-----------------------------------------------------------------------------
\* The inductive invariant.

LEMMA InitEstablishes ==
  ASSUME Init
  PROVE  IInv
<1>1. TypeOK
  BY LauncherAssumption DEF Init, TypeOK, None
<1>2. PhaseInv /\ WatchInv
  BY DEF Init, PhaseInv, Phase, WatchInv, Guarded, Alone, None
<1>3. RecordInv
  BY DEF Init, RecordInv, Need, None
<1>4. KnownInv
  BY DEF Init, KnownInv, Known
<1>5. StopInv
  BY DEF Init, StopInv, Stopped
<1> QED
  BY <1>1, <1>2, <1>3, <1>4, <1>5 DEF IInv

LEMMA StepPreserves ==
  ASSUME IInv, [Next]_vars
  PROVE  IInv'
<1>1. CASE UNCHANGED vars
  <2>1. TypeOK'
    BY <1>1 DEF IInv, TypeOK, vars, commands, search, tree, markers, stops
  <2>2. PhaseInv' /\ WatchInv'
    BY <1>1
    DEF IInv, PhaseInv, Phase, WatchInv, Guarded, Watched, vars, commands, search, tree, markers, stops
  <2>3. RecordInv'
    BY <1>1 DEF IInv, RecordInv, Need, vars, commands, search, tree, markers, stops
  <2>4. KnownInv'
    BY <1>1 DEF IInv, KnownInv, Known, vars, commands, search, tree, markers, stops
  <2>5. StopInv'
    <3>1. \A s \in Starts : Goes(s)
      BY <1>1, AllSame DEF Local, vars, commands, search, tree, markers, stops
    <3> QED
      BY <1>1, <3>1, StoppedKept DEF StopInv, vars, stops
  <2> QED
    BY <2>1, <2>2, <2>3, <2>4, <2>5 DEF IInv
<1>2. ASSUME NEW s \in Starts,
             StarterStep(s) \/ ApplicationEnds(s) \/ Interrupt(s) \/ KillStarter(s)
      PROVE  IInv'
  <2>1. TypeOK'
    BY <1>2, StarterTypes DEF IInv
  <2> QED
    BY <1>2, <2>1, StarterLocal, StarterRecord, StartKnows DEF IInv, Local
<1>3. ASSUME NEW s \in Starts,
             SupervisorStep(s) \/ KillSupervisor(s) \/ WatcherStep(s) \/ DashboardStep(s)
      PROVE  IInv'
  <2>1. TypeOK'
    BY <1>3, TreeTypes DEF IInv
  <2> QED
    BY <1>3, <2>1, TreeLocal, TreeRecord, StartKnows DEF IInv, Local
<1>4. ASSUME NEW k \in Stops, Load(k) \/ StopperStep(k)
      PROVE  IInv'
  <2>1. TypeOK'
    BY <1>4, StopperTypes DEF IInv
  <2> QED
    BY <1>4, <2>1, StopperLocal, StopperRecord, StopperKnows, StopperStopInv DEF IInv, Local
<1> QED
  BY <1>1, <1>2, <1>3, <1>4 DEF Next

\* The strengthening of the properties below that every step preserves: scripts/
\* sbk_dashboard_launcher.py keeps the record, the markers and the processes of a
\* start in step, whoever stops, fails or is killed.
THEOREM InvariantHolds == Spec => []IInv
<1>1. Init => IInv
  BY InitEstablishes
<1>2. IInv /\ [Next]_vars => IInv'
  BY StepPreserves
<1> QED
  BY <1>1, <1>2, PTL DEF Spec

\* The variables of the launcher keep their types.
THEOREM TypesHold == Spec => []TypeOK
<1>1. IInv => TypeOK
  BY DEF IInv
<1> QED
  BY <1>1, InvariantHolds, PTL

\* A start that holds the port, by its reservation or by an instance, is the one
\* that the record names, unless its record was taken by remove_stale_state() or
\* write_state() of somebody else while it lived.
THEOREM PortHoldersAreRecorded == Spec => []HoldersAreRecorded
<1>1. ASSUME IInv
      PROVE  HoldersAreRecorded
  <2> SUFFICES ASSUME NEW s \in Starts, Holds(s), s \notin stolen
               PROVE  record # NoRecord /\ record.of = s
    BY DEF HoldersAreRecorded
  <2>1. PICK m \in RecordModes : Need(s, m)
    BY DEF Holds, Need, RecordModes
  <2>2. record = Record(s, m)
    BY <1>1, <2>1 DEF IInv, RecordInv
  <2> QED
    BY <2>2, RecordFacts
<1> QED
  BY <1>1, InvariantHolds, PTL

\* Two starts have the port at once only when the record of one of them was taken while
\* it lived (sbk_dashboard_launcher.py: reserve_start, remove_owned_state).
THEOREM OneStartHasThePort ==
  Spec => [](\A s, t \in Starts : Holds(s) /\ Holds(t) /\ s # t => s \in stolen \/ t \in stolen)
<1>1. HoldersAreRecorded => \A s, t \in Starts : Holds(s) /\ Holds(t) /\ s # t => s \in stolen \/ t \in stolen
  BY DEF HoldersAreRecorded
<1> QED
  BY <1>1, PortHoldersAreRecorded, PTL

\* A dashboard that runs has a supervisor, or a watcher of the supervisor, or a
\* start command that is about to notice, unless the start command gave up.
THEOREM DashboardsAreNeverAlone == Spec => []NeverAlone
<1>1. ASSUME IInv
      PROVE  NeverAlone
  BY <1>1 DEF IInv, TypeOK, PhaseInv, Phase, WatchInv, Guarded, Alone, Preparing, NeverAlone, Lasting, None
<1> QED
  BY <1>1, InvariantHolds, PTL

\* A stop command that has waited has ended the process that it read about; what
\* is left of a background instance is ended by its watcher.
THEOREM StopsAreComplete == Spec => []StopIsComplete
<1>1. ASSUME IInv
      PROVE  StopIsComplete
  <2> SUFFICES ASSUME NEW k \in Stops, stopper[k] \in {"check", "unlink", "stopped"}
               PROVE  LET s == seen[k].of
                      IN  /\ ~Alive(Owner(seen[k]))
                          /\ seen[k].mode = "background" /\ starter[s] = "started" =>
                               ~Supervised(s) /\ (dashboard[s] \in Lasting => Watched(s))
    BY DEF StopIsComplete
  <2>1. seen[k] \in Records /\ ~Alive(Owner(seen[k]))
    BY <1>1 DEF IInv, TypeOK, StopInv, Stopped
  <2>2. seen[k].of \in Starts /\ Guarded(seen[k].of)
    BY <1>1, <2>1, OwnerFacts DEF IInv, WatchInv
  <2>3. seen[k].mode = "background" => ~Supervised(seen[k].of)
    BY <2>1, AliveFacts DEF Owner
  <2> QED
    BY <2>1, <2>2, <2>3 DEF Guarded
<1> QED
  BY <1>1, InvariantHolds, PTL
=============================================================================
