------------------------------ MODULE StackProofs ------------------------------
(***************************************************************************)
(* Proofs about MonitoringStack for any callers, starts, closes and        *)
(* faults.  The first part is about callers that do what they like: AnyInv *)
(* says which services each supervisor may hold.  The second is about      *)
(* callers that start a stack at rest only (Disciplined).  Whether a       *)
(* process can still come up depends on the supervisor: UpInv says which   *)
(* services are out of its reach, and AliveInv that only the supervisor of *)
(* the current pair acts, and on that pair.                                *)
(***************************************************************************)
EXTENDS MonitoringStack, TLAPS

Restarting(e) == sup[e] \in {"relaunch", "ready"}

\* A service whose lock is held is the one its supervisor restarts.
BusyInv ==
  /\ \A e \in Epochs, k \in Kinds :
       busy[e][k] # 0 => /\ busy[e][k] \in Epochs /\ Restarting(busy[e][k])
                         /\ pair[busy[e][k]] = e /\ kind[busy[e][k]] = k
  /\ \A e \in Epochs : Restarting(e) => busy[pair[e]][kind[e]] = e

\* A pair is new when its start begins to launch it, and so is its supervisor; a
\* supervisor restarts services only that have been launched.
PairInv ==
  /\ epoch <= starts
  /\ step = "prepare" => epoch < starts
  /\ step \in {"launch", "announce", "supervise"} => epoch # 0 /\ sup[epoch] = "unborn"
  /\ step = "launch" => svc[epoch][at] = "new" /\ (at = 1 => svc[epoch][2] = "new")
  /\ \A e \in Epochs : e > epoch => sup[e] = "unborn" /\ \A k \in Kinds : svc[e][k] = "new"
  /\ \A e \in Epochs : pair[e] <= epoch
  /\ \A e \in Epochs : sup[e] \in {"check", "restart", "relaunch", "ready", "refresh"} => pair[e] # 0
  /\ \A e \in Epochs : sup[e] = "restart" \/ Restarting(e) => svc[pair[e]][kind[e]] # "new"

AnyInv == TypeOK /\ PairInv /\ BusyInv

NoneAlive == \A e \in Epochs : ~Alive(e)
Quiet(k) == \A e \in Epochs : ~up[e][k] /\ busy[e][k] = 0
AllQuiet == Quiet(1) /\ Quiet(2)

\* The supervisor that is alive is that of the last start.
AliveInv ==
  /\ \A e \in Epochs : Alive(e) => e = epoch /\ e = thread /\ pair[e] \in {0, epoch}
  /\ \A e \in Epochs : sup[e] \in {"check", "restart", "relaunch", "ready", "refresh"} => pair[e] = epoch
  /\ \A e \in Epochs : sup[e] = "unborn" => pair[e] = 0
  /\ \A e \in Epochs : e > epoch => sup[e] = "unborn"
  /\ step \in {"launch", "announce", "supervise"} => sup[epoch] = "unborn"
  /\ lifecycle = "running" /\ ~event /\ holder = Nobody => epoch # 0 /\ Alive(epoch)
  /\ task = "start" => NoneAlive
  /\ lifecycle \in {"new", "stopped", "failed"} /\ holder = Nobody => event \/ NoneAlive

\* The operation lock, and the lifecycle and the event during an operation.
LockInv ==
  /\ holder = Nobody <=> task = "none"
  /\ step = "idle" <=> task = "none"
  /\ task = "close" => step \in {"join", "stop", "finish"} /\ lifecycle = "stopping" /\ event
  /\ task = "start" => \/ step \in {"prepare", "launch", "announce"} /\ lifecycle = "starting"
                       \/ step = "supervise" /\ lifecycle = "running"
                       \/ step \in {"stop", "finish"} /\ lifecycle = "failed" /\ event
  /\ task = "none" => lifecycle # "starting"
  /\ closing # {} => event
  /\ epoch <= starts
  /\ step = "prepare" => epoch < starts /\ at = 1
  /\ step \in {"launch", "announce", "supervise"} => epoch = starts /\ epoch # 0

\* What cannot be up, and cannot come up.
UpInv ==
  /\ \A e \in Epochs, k \in Kinds : up[e][k] => e = epoch
  /\ step = "launch" => Quiet(2)
  /\ step = "stop" /\ at = 1 => Quiet(2)
  /\ step \in {"prepare", "finish"} => AllQuiet
  /\ lifecycle \in {"new", "stopped", "failed"} /\ holder = Nobody => AllQuiet
  /\ step = "launch" /\ at = 2 => svc[epoch][1] = "running"
  /\ step \in {"announce", "supervise"} => \A k \in Kinds : svc[epoch][k] = "running"
  /\ epoch # 0 /\ svc[epoch][1] \in {"stopping", "stopped"} => Quiet(2) /\ (event \/ NoneAlive)
  /\ epoch # 0 => \A k \in Kinds : svc[epoch][k] = "stopped" => Quiet(k) /\ (event \/ NoneAlive)

IInv == AnyInv /\ AliveInv /\ LockInv /\ UpInv

-----------------------------------------------------------------------------
\* The invariant holds initially.
LEMMA InitEstablishes == Init => IInv
<1> SUFFICES ASSUME Init PROVE IInv
  OBVIOUS
<1>1. TypeOK
  <2>1. 0 \in 0 .. MaxStarts /\ 0 \in 0 .. MaxCloses /\ 0 \in 0 .. MaxFaults /\ 1 \in Kinds
    BY StackAssumption DEF Kinds
  <2>2. /\ svc \in [Epochs -> [Kinds -> Lifecycles]] /\ up \in [Epochs -> [Kinds -> BOOLEAN]]
        /\ busy \in [Epochs -> [Kinds -> 0 .. MaxStarts]]
        /\ sup \in [Epochs -> SupSteps] /\ pair \in [Epochs -> 0 .. MaxStarts] /\ kind \in [Epochs -> Kinds]
    BY <2>1 DEF Init, Lifecycles, SupSteps
  <2> QED
    BY <2>1, <2>2 DEF Init, TypeOK, Lifecycles, Steps
<1>2. NoneAlive /\ AllQuiet
  BY DEF Init, NoneAlive, Alive, AllQuiet, Quiet, Kinds
<1>3. AliveInv
  BY <1>2 DEF Init, AliveInv, Alive
<1>4. LockInv
  BY StackAssumption DEF Init, LockInv
<1>5. BusyInv
  BY DEF Init, BusyInv, Restarting
<1>6. UpInv
  BY <1>2 DEF Init, UpInv
<1>7. PairInv
  BY DEF Init, PairInv, Restarting
<1> QED
  BY <1>1, <1>3, <1>4, <1>5, <1>6, <1>7 DEF AnyInv, IInv

-----------------------------------------------------------------------------
\* Types.
LockTyped ==
  /\ holder \in Callers \cup {Nobody} /\ task \in {"none", "start", "close"}
  /\ step \in Steps /\ at \in Kinds /\ failed \in BOOLEAN

LEMMA DisturbTypes ==
  ASSUME TypeOK, NEW what, Disturb(what)
  PROVE  faults' \in 0 .. MaxFaults
  BY StackAssumption DEF TypeOK, Disturb

LEMMA EpochTypes ==
  ASSUME IInv
  PROVE  /\ step \in {"launch", "announce", "supervise"} => epoch \in Epochs
         /\ epoch # 0 => epoch \in Epochs
         /\ \A e \in Epochs : e # 0 /\ pair[e] \in 0 .. MaxStarts
         /\ \A e \in Epochs : sup[e] \in {"check", "restart", "relaunch", "ready", "refresh"} =>
              pair[e] = epoch /\ e = epoch
<1>1. epoch \in 0 .. MaxStarts /\ pair \in [Epochs -> 0 .. MaxStarts]
  BY DEF AnyInv, IInv, TypeOK
<1>2. epoch # 0 => epoch \in Epochs
  BY <1>1, StackAssumption DEF Epochs
<1>3. step \in {"launch", "announce", "supervise"} => epoch # 0
  BY DEF IInv, LockInv
<1>4. \A e \in Epochs : e # 0 /\ pair[e] \in 0 .. MaxStarts
  BY <1>1, StackAssumption DEF Epochs
<1>5. \A e \in Epochs : sup[e] \in {"check", "restart", "relaunch", "ready", "refresh"} =>
        pair[e] = epoch /\ e = epoch
  BY DEF IInv, AliveInv, Alive
<1> QED
  BY <1>2, <1>3, <1>4, <1>5

\* What AnyInv says about the pairs that are worked on.
LEMMA PairTypes ==
  ASSUME AnyInv
  PROVE  /\ 0 \notin Epochs
         /\ step \in {"launch", "announce", "supervise"} => epoch \in Epochs
         /\ epoch # 0 => epoch \in Epochs
         /\ \A e \in Epochs : sup[e] # "unborn" => e <= epoch /\ epoch \in Epochs
         /\ \A e \in Epochs : sup[e] \in {"check", "restart", "relaunch", "ready", "refresh"} => pair[e] \in Epochs
<1>1. epoch \in 0 .. MaxStarts /\ pair \in [Epochs -> 0 .. MaxStarts] /\ MaxStarts \in Nat
  BY StackAssumption DEF AnyInv, TypeOK
<1>2. 0 \notin Epochs /\ (epoch # 0 => epoch \in Epochs) /\ \A x \in 0 .. MaxStarts : x # 0 => x \in Epochs
  BY <1>1 DEF Epochs
<1>3. ASSUME NEW e \in Epochs, sup[e] # "unborn" PROVE e <= epoch /\ epoch # 0
  <2>1. e \in 1 .. MaxStarts /\ ~(e > epoch)
    BY <1>3 DEF AnyInv, PairInv, Epochs
  <2> QED
    BY <1>1, <2>1
<1> QED
  BY <1>1, <1>2, <1>3 DEF AnyInv, PairInv

\* An entry of a table of services is replaced.
LEMMA TableTypes ==
  ASSUME NEW T, NEW table \in [Epochs -> [Kinds -> T]], NEW e \in Epochs, NEW k \in Kinds, NEW value \in T
  PROVE  [table EXCEPT ![e][k] = value] \in [Epochs -> [Kinds -> T]]
  OBVIOUS

\* What the helper steps do to the lock.
LEMMA LockTypes ==
  ASSUME TypeOK
  PROVE  /\ \A c \in Callers, what \in {"start", "close"}, first \in Steps :
              Lock(c, what, first) => LockTyped'
         /\ \A next \in Steps : Goto(next) => LockTyped'
         /\ Unlock => LockTyped'
         /\ UNCHANGED lock => LockTyped'
         /\ Unwind => LockTyped' /\ lifecycle' \in Lifecycles /\ event' \in BOOLEAN
<1>1. "idle" \in Steps /\ "stop" \in Steps /\ 1 \in Kinds /\ 2 \in Kinds /\ "failed" \in Lifecycles
  BY DEF Steps, Kinds, Lifecycles
<1>2. LockTyped
  BY DEF TypeOK, LockTyped
<1>3. ASSUME NEW c \in Callers, NEW what \in {"start", "close"}, NEW first \in Steps, Lock(c, what, first)
      PROVE  LockTyped'
  BY <1>1, <1>3 DEF LockTyped, Lock
<1>4. \A next \in Steps : Goto(next) => LockTyped'
  BY <1>2 DEF LockTyped, Goto
<1>5. Unlock => LockTyped'
  BY <1>1, <1>2 DEF LockTyped, Unlock
<1>6. UNCHANGED lock => LockTyped'
  BY <1>2 DEF LockTyped, lock
<1>7. Unwind => LockTyped' /\ lifecycle' \in Lifecycles /\ event' \in BOOLEAN
  BY <1>1, <1>2 DEF LockTyped, Unwind, LastService
<1> QED
  BY <1>3, <1>4, <1>5, <1>6, <1>7

LEMMA Words ==
  /\ {"new", "starting", "running", "stopping", "stopped", "failed"} \subseteq Lifecycles
  /\ {"prepare", "launch", "announce", "supervise", "join", "stop", "finish"} \subseteq Steps
  /\ {"wait", "check", "restart", "relaunch", "ready", "refresh", "exited", "unstarted"} \subseteq SupSteps
  /\ 1 \in Kinds /\ 2 \in Kinds /\ \A k \in Kinds : k = 1 \/ k = 2
  BY DEF Lifecycles, Steps, SupSteps, Kinds

\* Steps that leave the services and the supervisors alone.
LEMMA StackTypes ==
  ASSUME TypeOK, UNCHANGED <<services, supervisors, leaked>>,
         lifecycle' \in Lifecycles, event' \in BOOLEAN, epoch' \in 0 .. MaxStarts, thread' \in 0 .. MaxStarts,
         LockTyped', closing' \subseteq Callers,
         starts' \in 0 .. MaxStarts, closes' \in 0 .. MaxCloses, faults' \in 0 .. MaxFaults
  PROVE  TypeOK'
  BY DEF TypeOK, LockTyped, services, supervisors

\* Steps that leave the stack and the lock alone.
LEMMA ServiceTypes ==
  ASSUME TypeOK, UNCHANGED <<stack, lock, closing, bounds>>,
         svc' \in [Epochs -> [Kinds -> Lifecycles]], up' \in [Epochs -> [Kinds -> BOOLEAN]],
         busy' \in [Epochs -> [Kinds -> 0 .. MaxStarts]],
         sup' \in [Epochs -> SupSteps], pair' \in [Epochs -> 0 .. MaxStarts], kind' \in [Epochs -> Kinds],
         leaked' \subseteq Epochs \X Kinds, faults' \in 0 .. MaxFaults
  PROVE  TypeOK'
  BY DEF TypeOK, stack, lock, bounds

LEMMA MoveTypes ==
  ASSUME TypeOK, NEW e \in Epochs, Advance(e) \/ \E next \in SupSteps : At(e, next)
  PROVE  /\ sup' \in [Epochs -> SupSteps] /\ pair' \in [Epochs -> 0 .. MaxStarts]
         /\ kind' \in [Epochs -> Kinds]
<1>1. "check" \in SupSteps /\ "refresh" \in SupSteps /\ 2 \in Kinds
  BY DEF SupSteps, Kinds
<1>2. CASE Advance(e)
  BY <1>1, <1>2 DEF TypeOK, Advance, NextKind
<1>3. CASE \E next \in SupSteps : At(e, next)
  BY <1>3 DEF TypeOK, At
<1> QED
  BY <1>2, <1>3

LEMMA TypeStep == ASSUME AnyInv, [Next]_vars PROVE TypeOK'
<1>0. TypeOK
  BY DEF AnyInv
<1>1. ASSUME NEW c \in Callers, BeginStart(c) PROVE TypeOK'
  <2>1. lifecycle' \in Lifecycles /\ event' \in BOOLEAN
    BY <1>0, <1>1, Words DEF TypeOK, BeginStart
  <2>2. starts' \in 0 .. MaxStarts
    BY <1>0, <1>1, StackAssumption DEF TypeOK, BeginStart
  <2>3. LockTyped'
    BY <1>0, <1>1, Words, LockTypes DEF BeginStart
  <2> QED
    BY <1>0, <1>1, <2>1, <2>2, <2>3, StackTypes DEF TypeOK, BeginStart
<1>2. ASSUME NEW c \in Callers, RequestClose(c) PROVE TypeOK'
  <2>1. closes' \in 0 .. MaxCloses
    BY <1>0, <1>2, StackAssumption DEF TypeOK, RequestClose
  <2> QED
    BY <1>0, <1>2, <2>1 DEF TypeOK, RequestClose, lock, services, supervisors
<1>3. ASSUME NEW c \in Callers, BeginClose(c) PROVE TypeOK'
  <2>1. lifecycle' \in Lifecycles /\ LockTyped'
    BY <1>0, <1>3, Words, LockTypes DEF BeginClose
  <2> QED
    BY <1>0, <1>3, <2>1, StackTypes DEF TypeOK, BeginClose, bounds
<1>4. CASE Prepare
  <2>1. lifecycle' \in Lifecycles /\ event' \in BOOLEAN /\ LockTyped'
    BY <1>0, <1>4, Words, LockTypes DEF TypeOK, Prepare
  <2>2. faults' \in 0 .. MaxFaults /\ epoch' \in 0 .. MaxStarts
    BY <1>0, <1>4, DisturbTypes DEF TypeOK, Prepare
  <2> QED
    BY <1>0, <1>4, <2>1, <2>2, StackTypes DEF TypeOK, Prepare, bounds
<1>5. CASE Launch
  <2>1. lifecycle' \in Lifecycles /\ event' \in BOOLEAN /\ faults' \in 0 .. MaxFaults /\ LockTyped'
    <3>1. CASE Unwind
      BY <1>0, <1>5, <3>1, LockTypes, DisturbTypes DEF TypeOK, Launch
    <3>2. CASE UNCHANGED <<lifecycle, event, faults>> /\ Goto("announce")
      BY <1>0, <3>2, Words, LockTypes DEF TypeOK
    <3>3. CASE UNCHANGED <<lifecycle, event, faults>> /\ at' = 2 /\ UNCHANGED <<holder, task, step, failed>>
      BY <1>0, <3>3, Words DEF TypeOK, LockTyped
    <3> QED
      BY <1>5, <3>1, <3>2, <3>3 DEF Launch
  <2>2. epoch \in Epochs /\ at \in Kinds /\ "running" \in Lifecycles /\ "failed" \in Lifecycles
    BY <1>0, <1>5, PairTypes, Words DEF TypeOK, Launch
  <2>3. svc' \in [Epochs -> [Kinds -> Lifecycles]] /\ up' \in [Epochs -> [Kinds -> BOOLEAN]]
    <3>1. svc \in [Epochs -> [Kinds -> Lifecycles]] /\ up \in [Epochs -> [Kinds -> BOOLEAN]]
      BY <1>0 DEF TypeOK
    <3>2. [up EXCEPT ![epoch][at] = TRUE] \in [Epochs -> [Kinds -> BOOLEAN]]
      BY <2>2, <3>1, TableTypes
    <3>3. \A s \in {"running", "failed"} : [svc EXCEPT ![epoch][at] = s] \in [Epochs -> [Kinds -> Lifecycles]]
      BY <2>2, <3>1, TableTypes
    <3> QED
      BY <1>5, <3>1, <3>2, <3>3 DEF Launch
  <2> QED
    BY <1>0, <1>5, <2>1, <2>3 DEF TypeOK, LockTyped, Launch, supervisors, bounds
<1>6. CASE Announce
  <2>1. lifecycle' \in Lifecycles /\ LockTyped'
    BY <1>0, <1>6, Words, LockTypes DEF Announce
  <2> QED
    BY <1>0, <1>6, <2>1, StackTypes DEF TypeOK, Announce, bounds
<1>17. CASE StartSupervisor
  <2>1. lifecycle' \in Lifecycles /\ event' \in BOOLEAN /\ faults' \in 0 .. MaxFaults /\ LockTyped'
    <3>1. CASE Unwind
      BY <1>0, <1>17, <3>1, LockTypes, DisturbTypes DEF TypeOK, StartSupervisor
    <3>2. CASE UNCHANGED <<lifecycle, event, faults>> /\ Unlock
      BY <1>0, <3>2, LockTypes DEF TypeOK
    <3> QED
      BY <1>17, <3>1, <3>2 DEF StartSupervisor
  <2>2. sup' \in [Epochs -> SupSteps]
    BY <1>0, <1>17 DEF TypeOK, StartSupervisor, SupSteps
  <2> QED
    BY <1>0, <1>17, <2>1, <2>2 DEF TypeOK, LockTyped, StartSupervisor, services, bounds
<1>7. CASE Join
  <2>1. faults' \in 0 .. MaxFaults /\ LockTyped'
    BY <1>0, <1>7, Words, DisturbTypes DEF TypeOK, LockTyped, Join, JoinEnds, LastService
  <2> QED
    BY <1>0, <1>7, <2>1, StackTypes DEF TypeOK, Join, stack, bounds
<1>8. CASE JoinRaises
  <2>1. LockTyped'
    BY <1>0, <1>8, LockTypes DEF JoinRaises
  <2> QED
    BY <1>0, <1>8, <2>1, StackTypes DEF TypeOK, JoinRaises, stack, bounds
<1>9. CASE StopService
  <2>1. LockTyped' /\ faults' \in 0 .. MaxFaults
    <3>1. step' \in Steps /\ at' \in Kinds
      BY <1>0, <1>9, Words DEF TypeOK, StopService, LastService
    <3>2. failed' \in BOOLEAN /\ faults' \in 0 .. MaxFaults
      BY <1>0, <1>9, DisturbTypes DEF TypeOK, StopService
    <3> QED
      BY <1>0, <1>9, <3>1, <3>2 DEF TypeOK, LockTyped, StopService
  <2>2. CASE epoch = 0
    BY <1>0, <1>9, <2>1, <2>2, StackTypes DEF TypeOK, StopService, stack, bounds
  <2>3. CASE epoch # 0
    <3>1. epoch \in Epochs /\ at \in Kinds /\ "stopped" \in Lifecycles /\ "stopping" \in Lifecycles
      BY <1>0, <2>3, PairTypes DEF TypeOK, Lifecycles
    <3>2. svc' \in [Epochs -> [Kinds -> Lifecycles]] /\ up' \in [Epochs -> [Kinds -> BOOLEAN]]
      <4>1. svc \in [Epochs -> [Kinds -> Lifecycles]] /\ up \in [Epochs -> [Kinds -> BOOLEAN]]
        BY <1>0 DEF TypeOK
      <4>2. [up EXCEPT ![epoch][at] = FALSE] \in [Epochs -> [Kinds -> BOOLEAN]]
        BY <3>1, <4>1, TableTypes
      <4>3. \A s \in {"stopped", "stopping"} : [svc EXCEPT ![epoch][at] = s] \in [Epochs -> [Kinds -> Lifecycles]]
        BY <3>1, <4>1, TableTypes
      <4>4. /\ svc' = svc \/ \E x \in {"stopped", "stopping"} : svc' = [svc EXCEPT ![epoch][at] = x]
            /\ up' = up \/ up' = [up EXCEPT ![epoch][at] = FALSE]
        BY <1>9, <2>3 DEF StopService
      <4> QED
        BY <4>1, <4>2, <4>3, <4>4
    <3>3. leaked' \subseteq Epochs \X Kinds
      BY <1>0, <1>9, <2>3, <3>1 DEF TypeOK, StopService
    <3> QED
      BY <1>0, <1>9, <2>1, <2>3, <3>2, <3>3 DEF TypeOK, LockTyped, StopService, stack, supervisors, bounds
  <2> QED
    BY <2>2, <2>3
<1>10. CASE Finish
  <2>1. lifecycle' \in Lifecycles /\ LockTyped'
    BY <1>0, <1>10, Words, LockTypes DEF TypeOK, Finish
  <2> QED
    BY <1>0, <1>10, <2>1, StackTypes DEF TypeOK, Finish, bounds
<1>11. ASSUME NEW e \in Epochs, Tick(e) PROVE TypeOK'
  <2>1. sup' \in [Epochs -> SupSteps] /\ pair' \in [Epochs -> 0 .. MaxStarts] /\ kind' \in [Epochs -> Kinds]
    BY <1>0, <1>11 DEF TypeOK, Tick, SupSteps, Kinds
  <2> QED
    BY <1>0, <1>11, <2>1, ServiceTypes DEF TypeOK, Tick, services
<1>12. ASSUME NEW e \in Epochs, Exit(e) \/ Decline(e) \/ EndRound(e) PROVE TypeOK'
  <2>1. sup' \in [Epochs -> SupSteps] /\ pair' \in [Epochs -> 0 .. MaxStarts] /\ kind' \in [Epochs -> Kinds]
    BY <1>0, <1>12, MoveTypes DEF Exit, Decline, EndRound, SupSteps
  <2>2. UNCHANGED <<stack, lock, closing, services, leaked, bounds, faults>>
    BY <1>12 DEF Exit, Decline, EndRound
  <2> QED
    BY <1>0, <2>1, <2>2, ServiceTypes DEF TypeOK, services
<1>13. ASSUME NEW e \in Epochs, Check(e) PROVE TypeOK'
  <2>1. sup' \in [Epochs -> SupSteps] /\ pair' \in [Epochs -> 0 .. MaxStarts] /\ kind' \in [Epochs -> Kinds]
    BY <1>0, <1>13, MoveTypes DEF Check, SupSteps
  <2>2. faults' \in 0 .. MaxFaults
    BY <1>0, <1>13, DisturbTypes DEF TypeOK, Check
  <2> QED
    BY <1>0, <1>13, <2>1, <2>2, ServiceTypes DEF TypeOK, Check, services
<1>14. ASSUME NEW e \in Epochs, Restart(e) \/ Relaunch(e) \/ Ready(e) PROVE TypeOK'
  <2> DEFINE p == pair[e]
             k == kind[e]
  <2>1. p \in Epochs /\ k \in Kinds /\ e \in 0 .. MaxStarts /\ 0 \in 0 .. MaxStarts
    BY <1>0, <1>14, PairTypes, StackAssumption DEF TypeOK, Restart, Relaunch, Ready, Epochs
  <2>2. sup' \in [Epochs -> SupSteps] /\ pair' \in [Epochs -> 0 .. MaxStarts] /\ kind' \in [Epochs -> Kinds]
    BY <1>0, <1>14, MoveTypes DEF Restart, Relaunch, Ready, Caught, SupSteps
  <2>3. {"starting", "failed", "running"} \subseteq Lifecycles /\ svc[p][k] \in Lifecycles
    BY <1>0, <2>1 DEF TypeOK, Lifecycles
  <2>4. svc' \in [Epochs -> [Kinds -> Lifecycles]]
    <3>1. svc' = svc \/ \E s \in Lifecycles : svc' = [svc EXCEPT ![p][k] = s]
      BY <1>0, <1>14, <2>1, <2>3 DEF TypeOK, Restart, Relaunch, Ready, AfterFailedRestart
    <3>2. svc \in [Epochs -> [Kinds -> Lifecycles]]
      BY <1>0 DEF TypeOK
    <3>3. \A x \in Lifecycles : [svc EXCEPT ![p][k] = x] \in [Epochs -> [Kinds -> Lifecycles]]
      <4> HIDE DEF p, k
      <4> QED
        BY <2>1, <3>2, TableTypes
    <3> QED
      BY <3>1, <3>2, <3>3
  <2>5. up' \in [Epochs -> [Kinds -> BOOLEAN]]
    <3>1. up' = up \/ \E b \in BOOLEAN : up' = [up EXCEPT ![p][k] = b]
      BY <1>14 DEF Restart, Relaunch, Ready
    <3>2. up \in [Epochs -> [Kinds -> BOOLEAN]]
      BY <1>0 DEF TypeOK
    <3>3. \A x \in BOOLEAN : [up EXCEPT ![p][k] = x] \in [Epochs -> [Kinds -> BOOLEAN]]
      <4> HIDE DEF p, k
      <4> QED
        BY <2>1, <3>2, TableTypes
    <3> QED
      BY <3>1, <3>2, <3>3
  <2>6. busy' \in [Epochs -> [Kinds -> 0 .. MaxStarts]]
    <3>1. busy' = busy \/ \E b \in 0 .. MaxStarts : busy' = [busy EXCEPT ![p][k] = b]
      BY <1>14, <2>1 DEF Restart, Relaunch, Ready, Unhold, Released
    <3>2. busy \in [Epochs -> [Kinds -> 0 .. MaxStarts]]
      BY <1>0 DEF TypeOK
    <3>3. \A x \in 0 .. MaxStarts : [busy EXCEPT ![p][k] = x] \in [Epochs -> [Kinds -> 0 .. MaxStarts]]
      <4> HIDE DEF p, k
      <4> QED
        BY <2>1, <3>2, TableTypes
    <3> QED
      BY <3>1, <3>2, <3>3
  <2>7. leaked' \subseteq Epochs \X Kinds /\ faults' \in 0 .. MaxFaults
    BY <1>0, <1>14, <2>1, DisturbTypes DEF TypeOK, Restart, Relaunch, Ready
  <2>8. UNCHANGED <<stack, lock, closing, bounds>>
    BY <1>14 DEF Restart, Relaunch, Ready
  <2> QED
    BY <1>0, <2>2, <2>4, <2>5, <2>6, <2>7, <2>8, ServiceTypes
<1>15. ASSUME NEW e \in Epochs, NEW k \in Kinds, NativeDies(e, k) PROVE TypeOK'
  <2>1. up' \in [Epochs -> [Kinds -> BOOLEAN]]
    BY <1>0, <1>15, TableTypes DEF TypeOK, NativeDies
  <2>2. faults' \in 0 .. MaxFaults
    BY <1>0, <1>15, DisturbTypes DEF NativeDies
  <2> QED
    BY <1>0, <1>15, <2>1, <2>2, ServiceTypes DEF TypeOK, NativeDies, supervisors
<1>16. CASE UNCHANGED vars
  BY <1>0, <1>16 DEF TypeOK, vars, stack, lock, services, supervisors, bounds
<1> QED
  BY <1>1, <1>2, <1>3, <1>4, <1>5, <1>6, <1>7, <1>8, <1>9, <1>10, <1>11, <1>12, <1>13, <1>14, <1>15, <1>16, <1>17
  DEF Next, HolderStep, CloseSteps, SupervisorStep

-----------------------------------------------------------------------------
\* Whatever the callers do.

\* Only this service may be changed, and not back to new.
Touches(p, k) ==
  /\ svc' = svc \/ \E x \in Lifecycles \ {"new"} : svc' = [svc EXCEPT ![p][k] = x]
  /\ up' = up \/ \E b \in BOOLEAN : up' = [up EXCEPT ![p][k] = b]

\* A step of a supervisor is about itself and the service it is at.
LEMMA SupervisorMoves ==
  ASSUME AnyInv, NEW e \in Epochs, SupervisorStep(e)
  PROVE  /\ UNCHANGED <<stack, lock, closing, bounds>>
         /\ \A f \in Epochs \ {e} : sup'[f] = sup[f] /\ pair'[f] = pair[f] /\ kind'[f] = kind[f]
         /\ sup[e] # "unborn" /\ (Restarting(e) => sup'[e] # sup[e])
         /\ pair'[e] = pair[e] \/ pair'[e] = epoch
         /\ sup'[e] \in {"check", "restart", "relaunch", "ready", "refresh"} => pair'[e] # 0
<1>1. UNCHANGED <<stack, lock, closing, bounds>>
  BY DEF SupervisorStep, Tick, Exit, Check, Decline, Restart, Relaunch, Ready, EndRound
<1>2. sup \in [Epochs -> SupSteps] /\ pair \in [Epochs -> 0 .. MaxStarts] /\ kind \in [Epochs -> Kinds]
  BY DEF AnyInv, TypeOK
<1>3. \/ Tick(e) \/ Exit(e) \/ EndRound(e)
      \/ sup[e] \in {"check", "restart", "relaunch", "ready"} /\ Advance(e)
      \/ sup[e] = "check" /\ At(e, "restart")
      \/ sup[e] = "restart" /\ At(e, "relaunch")
      \/ sup[e] = "relaunch" /\ At(e, "ready")
  BY DEF SupervisorStep, Check, Decline, Restart, Relaunch, Ready, Caught
<1>4. \A f \in Epochs \ {e} : sup'[f] = sup[f] /\ pair'[f] = pair[f] /\ kind'[f] = kind[f]
  BY <1>2, <1>3 DEF Tick, Exit, EndRound, Advance, At
<1>5. sup[e] # "unborn" /\ (Restarting(e) => sup'[e] # sup[e])
  BY <1>2, <1>3 DEF Tick, Exit, EndRound, Advance, At, Restarting
<1>6. pair'[e] = pair[e] \/ pair'[e] = epoch
  BY <1>2, <1>3 DEF Tick, Exit, EndRound, Advance, At
<1>7. sup'[e] \in {"check", "restart", "relaunch", "ready", "refresh"} => pair'[e] # 0
  <2>1. epoch # 0 /\ (sup[e] \in {"check", "restart", "relaunch", "ready"} => pair[e] # 0)
    BY <1>5, PairTypes
  <2> QED
    BY <1>2, <1>3, <2>1 DEF Tick, Exit, EndRound, Advance, At
<1> QED
  BY <1>1, <1>4, <1>5, <1>6, <1>7

\* The three ways to be at a service that is restarted.
Takes(e, p, k) ==
  /\ sup[e] = "restart" /\ busy[p][k] = 0 /\ busy' = [busy EXCEPT ![p][k] = e]
  /\ sup'[e] = "relaunch" /\ pair'[e] = p /\ kind'[e] = k

Keeps(e, p, k) == Restarting(e) /\ sup'[e] = "ready" /\ UNCHANGED busy /\ pair'[e] = p /\ kind'[e] = k

GivesBack(e, p, k) == Restarting(e) /\ sup'[e] \in {"check", "refresh"} /\ busy' = [busy EXCEPT ![p][k] = 0]

LEMMA SupervisorRestarts ==
  ASSUME AnyInv, NEW e \in Epochs, SupervisorStep(e), NEW p, p = pair[e], NEW k, k = kind[e]
  PROVE  \/ /\ UNCHANGED services /\ ~Restarting(e) /\ ~Restarting(e)'
            /\ sup'[e] = "restart" => pair'[e] = p /\ kind'[e] = k /\ svc[p][k] # "new"
         \/ /\ p \in Epochs /\ k \in Kinds /\ svc[p][k] # "new" /\ Touches(p, k)
            /\ Takes(e, p, k) \/ Keeps(e, p, k) \/ GivesBack(e, p, k)
<1>1. sup \in [Epochs -> SupSteps] /\ pair \in [Epochs -> 0 .. MaxStarts] /\ kind \in [Epochs -> Kinds]
  BY DEF AnyInv, TypeOK
<1>2. CASE Tick(e) \/ Exit(e) \/ EndRound(e) \/ Decline(e)
  BY <1>1, <1>2 DEF Tick, Exit, EndRound, Decline, Advance, At, Restarting
<1>3. CASE Check(e)
  BY <1>1, <1>3 DEF Check, Advance, At, Restarting
<1>4. ASSUME sup[e] \in {"restart", "relaunch", "ready"}
      PROVE  /\ p \in Epochs /\ k \in Kinds /\ svc[p][k] # "new" /\ svc[p][k] \in Lifecycles
             /\ {"starting", "running", "failed"} \subseteq Lifecycles \ {"new"}
  <2>1. p \in Epochs /\ k \in Kinds
    BY <1>1, <1>4, PairTypes
  <2>2. svc[p][k] # "new" /\ svc[p][k] \in Lifecycles
    BY <1>4, <2>1 DEF AnyInv, PairInv, Restarting, TypeOK
  <2> QED
    BY <2>1, <2>2 DEF Lifecycles
<1>5. CASE Restart(e)
  <2>1. svc' = [svc EXCEPT ![p][k] = IF svc[p][k] \in {"running", "failed"} THEN "starting" ELSE svc[p][k]]
        /\ up' = [up EXCEPT ![p][k] = FALSE]
    BY <1>5 DEF Restart
  <2>2. Touches(p, k)
    BY <1>4, <1>5, <2>1 DEF Touches, Restart
  <2> QED
    BY <1>1, <1>4, <1>5, <2>2 DEF Restart, At, Restarting, Takes
<1>6. CASE Relaunch(e)
  <2>1. svc' = svc \/ svc' = [svc EXCEPT ![p][k] = IF svc[p][k] = "starting" THEN "failed" ELSE svc[p][k]]
    BY <1>6 DEF Relaunch, AfterFailedRestart
  <2>2. up' = up \/ up' = [up EXCEPT ![p][k] = TRUE]
    BY <1>6 DEF Relaunch
  <2>3. Touches(p, k)
    BY <1>4, <1>6, <2>1, <2>2 DEF Touches, Relaunch
  <2>4. \/ At(e, "ready") /\ UNCHANGED busy
        \/ Advance(e) /\ busy' = [busy EXCEPT ![p][k] = 0]
    BY <1>6 DEF Relaunch, Unhold, Released, Caught
  <2> QED
    BY <1>1, <1>4, <1>6, <2>3, <2>4 DEF Relaunch, At, Advance, Restarting, Keeps, GivesBack
<1>7. CASE Ready(e)
  <2>1. \E x \in {"running", "failed"} :
          svc' = [svc EXCEPT ![p][k] = IF svc[p][k] = "starting" THEN x ELSE svc[p][k]]
    BY <1>7 DEF Ready, AfterFailedRestart
  <2>2. up' = up \/ up' = [up EXCEPT ![p][k] = FALSE]
    BY <1>7 DEF Ready
  <2>3. Touches(p, k)
    BY <1>4, <1>7, <2>1, <2>2 DEF Touches, Ready
  <2>4. Advance(e) /\ busy' = [busy EXCEPT ![p][k] = 0]
    BY <1>7 DEF Ready, Unhold, Released
  <2> QED
    BY <1>1, <1>4, <1>7, <2>3, <2>4 DEF Ready, Advance, Restarting, GivesBack
<1> QED
  BY <1>2, <1>3, <1>5, <1>6, <1>7 DEF SupervisorStep

LEMMA SupervisorLeavesNew ==
  ASSUME AnyInv, NEW e \in Epochs, SupervisorStep(e), NEW f \in Epochs, NEW j \in Kinds, svc[f][j] = "new"
  PROVE  svc'[f][j] = "new"
<1> DEFINE p == pair[e]
           k == kind[e]
<1>1. p = pair[e] /\ k = kind[e]
  OBVIOUS
<1> HIDE DEF p, k
<1>2. UNCHANGED services \/ (svc[p][k] # "new" /\ Touches(p, k))
  BY <1>1, SupervisorRestarts
<1>3. svc \in [Epochs -> [Kinds -> Lifecycles]]
  BY DEF AnyInv, TypeOK
<1>4. svc' = svc \/ (svc[p][k] # "new" /\ \E x \in Lifecycles \ {"new"} : svc' = [svc EXCEPT ![p][k] = x])
  BY <1>2 DEF services, Touches
<1> QED
  BY <1>3, <1>4

\* The service of another supervisor is another one.
LEMMA HeldApart ==
  ASSUME AnyInv, NEW e \in Epochs, Restarting(e), NEW f \in Epochs, f # e, NEW p, p = pair[f], NEW k, k = kind[f],
         Restarting(f) \/ (p \in Epochs /\ k \in Kinds /\ busy[p][k] = 0)
  PROVE  p # pair[e] \/ k # kind[e]
  BY PairTypes DEF AnyInv, BusyInv

\* What a step makes of a service.
LEMMA ServicesMove ==
  ASSUME AnyInv, [Next]_vars, NEW f \in Epochs, NEW k \in Kinds, svc'[f][k] # svc[f][k] \/ (up'[f][k] /\ ~up[f][k])
  PROVE  /\ svc'[f][k] # "new"
         /\ \/ step = "launch" /\ f = epoch /\ k = at
            \/ step = "stop" /\ f = epoch /\ k = at /\ busy[f][k] = 0
            \/ \E e \in Epochs : /\ SupervisorStep(e) /\ f = pair[e] /\ k = kind[e] /\ svc[f][k] # "new"
                                 /\ Restarting(e) \/ (sup[e] = "restart" /\ busy[f][k] = 0)
<1>1. svc \in [Epochs -> [Kinds -> Lifecycles]] /\ up \in [Epochs -> [Kinds -> BOOLEAN]]
  BY DEF AnyInv, TypeOK
<1>2. CASE UNCHANGED services \/ UNCHANGED <<svc, up>>
  BY <1>2 DEF services
<1>3. CASE Launch
  <2>1. svc' = [svc EXCEPT ![epoch][at] = "running"] \/ svc' = [svc EXCEPT ![epoch][at] = "failed"]
    BY <1>3 DEF Launch
  <2>2. up' = up \/ up' = [up EXCEPT ![epoch][at] = TRUE]
    BY <1>3 DEF Launch
  <2>3. epoch \in Epochs /\ at \in Kinds /\ step = "launch"
    BY <1>3, PairTypes DEF AnyInv, TypeOK, Launch
  <2>4. f = epoch /\ k = at
    BY <1>1, <2>1, <2>2, <2>3
  <2> QED
    BY <1>1, <2>1, <2>3, <2>4
<1>4. CASE StopService
  <2>1. epoch # 0 /\ epoch \in Epochs /\ at \in Kinds /\ step = "stop"
    BY <1>4, PairTypes DEF AnyInv, TypeOK, StopService, services
  <2>2. /\ busy[epoch][at] = 0
        /\ \/ UNCHANGED <<svc, up>>
           \/ /\ svc' = [svc EXCEPT ![epoch][at] = "stopped"] \/ svc' = [svc EXCEPT ![epoch][at] = "stopping"]
              /\ up' = [up EXCEPT ![epoch][at] = FALSE]
    BY <1>4, <2>1 DEF StopService, Free
  <2>3. f = epoch /\ k = at
    BY <1>1, <2>1, <2>2
  <2> QED
    BY <1>1, <2>1, <2>2, <2>3
<1>5. ASSUME NEW e \in Epochs, SupervisorStep(e) 
      PROVE  /\ svc'[f][k] # "new" /\ f = pair[e] /\ k = kind[e] /\ svc[f][k] # "new"
             /\ Restarting(e) \/ (sup[e] = "restart" /\ busy[f][k] = 0)
  <2> DEFINE p == pair[e]
             j == kind[e]
  <2>1. /\ p \in Epochs /\ j \in Kinds /\ svc[p][j] # "new" /\ Touches(p, j)
        /\ Restarting(e) \/ (sup[e] = "restart" /\ busy[p][j] = 0)
    <3> HIDE DEF p, j
    <3>1. p = pair[e] /\ j = kind[e]
      BY DEF p, j
    <3> QED
      BY <1>5, <3>1, SupervisorRestarts DEF services, Takes, Keeps, GivesBack
  <2>2. f = p /\ j = k /\ svc'[f][k] # "new"
    <3> HIDE DEF p, j
    <3>1. CASE svc' = svc
      <4>1. PICK b \in BOOLEAN : up' = [up EXCEPT ![p][j] = b]
        BY <2>1, <3>1 DEF Touches
      <4>2. f = p /\ j = k
        BY <1>1, <2>1, <3>1, <4>1
      <4> QED
        BY <2>1, <3>1, <4>2
    <3>2. CASE \E x \in Lifecycles \ {"new"} : svc' = [svc EXCEPT ![p][j] = x]
      <4>1. PICK x \in Lifecycles \ {"new"} : svc' = [svc EXCEPT ![p][j] = x]
        BY <3>2
      <4>2. up' = up \/ \E b \in BOOLEAN : up' = [up EXCEPT ![p][j] = b]
        BY <2>1 DEF Touches
      <4>3. f = p /\ j = k
        BY <1>1, <2>1, <4>1, <4>2
      <4> QED
        BY <1>1, <2>1, <4>1, <4>3
    <3> QED
      BY <2>1, <3>1, <3>2 DEF Touches
  <2> QED
    BY <2>1, <2>2
<1>6. ASSUME NEW e \in Epochs, NEW j \in Kinds, NativeDies(e, j) PROVE FALSE
  BY <1>1, <1>6 DEF NativeDies
<1> QED
  BY <1>2, <1>3, <1>4, <1>5, <1>6
  DEF Next, HolderStep, CloseSteps, BeginStart, RequestClose, BeginClose, Prepare, Announce, StartSupervisor,
      Join, JoinRaises, Finish, vars

\* BusyInv is kept by whoever takes or gives back the lock of a service.
LEMMA BusyStep == ASSUME AnyInv, [Next]_vars PROVE BusyInv'
<1>0. /\ BusyInv
      /\ busy \in [Epochs -> [Kinds -> 0 .. MaxStarts]]
      /\ sup \in [Epochs -> SupSteps] /\ pair \in [Epochs -> 0 .. MaxStarts] /\ kind \in [Epochs -> Kinds]
  BY DEF AnyInv, TypeOK
<1>1. ASSUME UNCHANGED <<busy, supervisors>> PROVE BusyInv'
  BY <1>0, <1>1 DEF BusyInv, Restarting, supervisors
<1>2. ASSUME NEW c \in Callers, BeginStart(c) \/ RequestClose(c) \/ BeginClose(c) PROVE BusyInv'
  BY <1>1, <1>2 DEF BeginStart, RequestClose, BeginClose, services
<1>3. CASE Prepare \/ Launch \/ Announce \/ CloseSteps
  BY <1>1, <1>3 DEF Prepare, Launch, Announce, CloseSteps, Join, JoinRaises, StopService, Finish, services
<1>4. CASE StartSupervisor
  <2>1. epoch \in Epochs /\ sup[epoch] = "unborn"
    BY <1>4, PairTypes DEF StartSupervisor, AnyInv, PairInv
  <2>2. UNCHANGED <<busy, pair, kind>> /\ \E x \in {"wait", "unstarted"} : sup' = [sup EXCEPT ![epoch] = x]
    BY <1>4 DEF StartSupervisor, services
  <2>3. \A e \in Epochs : Restarting(e)' <=> Restarting(e)
    BY <1>0, <2>1, <2>2 DEF Restarting
  <2> QED
    BY <1>0, <2>2, <2>3 DEF BusyInv, Restarting
<1>5. ASSUME NEW e \in Epochs, SupervisorStep(e) PROVE BusyInv'
  <2> DEFINE p == pair[e]
             k == kind[e]
  <2>1. \A f \in Epochs \ {e} : /\ pair'[f] = pair[f] /\ kind'[f] = kind[f]
                                /\ Restarting(f)' <=> Restarting(f)
    BY <1>5, SupervisorMoves DEF Restarting
  <2>2. \A f \in Epochs, j \in Kinds : busy[f][j] # 0 =>
          busy[f][j] \in Epochs /\ Restarting(busy[f][j]) /\ pair[busy[f][j]] = f /\ kind[busy[f][j]] = j
    BY <1>0 DEF BusyInv
  <2>3. \A f \in Epochs : Restarting(f) => busy[pair[f]][kind[f]] = f /\ pair[f] \in Epochs /\ kind[f] \in Kinds
    BY <1>0, PairTypes DEF BusyInv, Restarting
  <2>4. e # 0
    BY PairTypes
  <2>5. CASE UNCHANGED busy /\ ~Restarting(e) /\ ~Restarting(e)'
    BY <2>1, <2>2, <2>3, <2>5 DEF BusyInv
  <2>6. CASE p \in Epochs /\ k \in Kinds /\ Takes(e, p, k)
    <3> HIDE DEF p, k
    <3>1. /\ busy[p][k] = 0 /\ pair'[e] = p /\ kind'[e] = k
          /\ \A f \in Epochs, j \in Kinds : busy'[f][j] = IF f = p /\ j = k THEN e ELSE busy[f][j]
      BY <1>0, <2>6 DEF Takes
    <3>2. ~Restarting(e) /\ Restarting(e)'
      BY <2>6 DEF Restarting, Takes
    <3>3. ASSUME NEW f \in Epochs, NEW j \in Kinds, NEW g, g = busy'[f][j], g # 0
          PROVE  g \in Epochs /\ Restarting(g)' /\ pair'[g] = f /\ kind'[g] = j
      <4>1. CASE f = p /\ j = k
        <5>1. g = e
          BY <3>1, <3>3, <4>1
        <5> QED
          BY <3>1, <3>2, <4>1, <5>1
      <4>2. CASE ~(f = p /\ j = k)
        <5>1. g = busy[f][j]
          BY <3>1, <3>3, <4>2
        <5>2. g \in Epochs \ {e} /\ Restarting(g) /\ pair[g] = f /\ kind[g] = j
          BY <2>2, <3>2, <3>3, <5>1
        <5> QED
          BY <2>1, <5>2
      <4> QED
        BY <4>1, <4>2
    <3>4. ASSUME NEW f \in Epochs, Restarting(f)' PROVE busy'[pair'[f]][kind'[f]] = f
      <4>1. CASE f = e
        BY <2>6, <3>1, <4>1
      <4>2. CASE f # e
        <5>1. Restarting(f) /\ pair'[f] = pair[f] /\ kind'[f] = kind[f]
          BY <2>1, <3>4, <4>2
        <5>2. busy[pair[f]][kind[f]] = f /\ pair[f] \in Epochs /\ kind[f] \in Kinds /\ f # 0
          BY <2>3, <5>1, PairTypes
        <5> QED
          BY <3>1, <5>1, <5>2
      <4> QED
        BY <4>1, <4>2
    <3> QED
      BY <3>3, <3>4 DEF BusyInv
  <2>7. CASE Keeps(e, p, k)
    <3>1. Restarting(e)'
      BY <2>7 DEF Restarting, Keeps
    <3> QED
      BY <2>1, <2>2, <2>3, <2>7, <3>1 DEF BusyInv, Keeps
  <2>8. CASE GivesBack(e, p, k)
    <3>1. p \in Epochs /\ k \in Kinds
      BY <2>3, <2>8 DEF GivesBack
    <3>2. \A f \in Epochs, j \in Kinds : busy'[f][j] = IF f = p /\ j = k THEN 0 ELSE busy[f][j]
      BY <1>0, <2>8, <3>1 DEF GivesBack
    <3>3. ~Restarting(e)'
      BY <2>8 DEF Restarting, GivesBack
    <3> QED
      BY <2>1, <2>2, <2>3, <2>8, <3>2, <3>3 DEF BusyInv, GivesBack
  <2> HIDE DEF p, k
  <2>9. p = pair[e] /\ k = kind[e]
    BY DEF p, k
  <2>10. \/ UNCHANGED services /\ ~Restarting(e) /\ ~Restarting(e)'
         \/ p \in Epochs /\ k \in Kinds /\ (Takes(e, p, k) \/ Keeps(e, p, k) \/ GivesBack(e, p, k))
    BY <1>5, <2>9, SupervisorRestarts
  <2> QED
    BY <2>5, <2>6, <2>7, <2>8, <2>10 DEF services
<1>6. ASSUME NEW e \in Epochs, NEW k \in Kinds, NativeDies(e, k) PROVE BusyInv'
  BY <1>1, <1>6 DEF NativeDies
<1>7. CASE UNCHANGED vars
  BY <1>1, <1>7 DEF vars, services
<1> QED
  BY <1>2, <1>3, <1>4, <1>5, <1>6, <1>7 DEF Next, HolderStep

\* PairInv is kept: launched services are not new again, and what is not launched
\* is left alone.
LEMMA PairFrame ==
  ASSUME AnyInv, [Next]_vars, UNCHANGED <<epoch, supervisors>>, starts' >= starts,
         step' = "prepare" => epoch < starts',
         step' \in {"launch", "announce", "supervise"} => step \in {"launch", "announce", "supervise"},
         step' = "launch" => step = "launch" /\ at' = at /\ svc' = svc
  PROVE  PairInv'
<1>1. PairInv /\ epoch \in Int /\ starts \in Int /\ starts' \in Int
  BY TypeStep DEF AnyInv, TypeOK
<1>2. \A f \in Epochs, k \in Kinds :
        /\ svc[f][k] # "new" => svc'[f][k] # "new"
        /\ f # epoch /\ svc[f][k] = "new" => svc'[f][k] = "new"
  BY ServicesMove
<1>3. \A e \in Epochs : sup[e] = "restart" \/ Restarting(e) => pair[e] \in Epochs /\ kind[e] \in Kinds
  BY PairTypes DEF AnyInv, TypeOK, Restarting
<1>4. /\ epoch' <= starts'
      /\ step' = "prepare" => epoch' < starts'
      /\ step' \in {"launch", "announce", "supervise"} => epoch' # 0 /\ sup'[epoch'] = "unborn"
      /\ step' = "launch" => svc'[epoch'][at'] = "new" /\ (at' = 1 => svc'[epoch'][2] = "new")
  BY <1>1 DEF PairInv, supervisors
<1>5. \A e \in Epochs : e > epoch' => sup'[e] = "unborn" /\ \A k \in Kinds : svc'[e][k] = "new"
  <2> SUFFICES ASSUME NEW e \in Epochs, e > epoch PROVE sup'[e] = "unborn" /\ \A k \in Kinds : svc'[e][k] = "new"
    OBVIOUS
  <2>1. e # epoch /\ sup[e] = "unborn" /\ \A k \in Kinds : svc[e][k] = "new"
    BY <1>1 DEF PairInv, Epochs
  <2> QED
    BY <1>2, <2>1 DEF supervisors
<1>6. \A e \in Epochs : sup'[e] = "restart" \/ Restarting(e)' => svc'[pair'[e]][kind'[e]] # "new"
  BY <1>1, <1>2, <1>3 DEF PairInv, Restarting, supervisors
<1>7. \A e \in Epochs :
        /\ pair'[e] <= epoch'
        /\ sup'[e] \in {"check", "restart", "relaunch", "ready", "refresh"} => pair'[e] # 0
  BY <1>1 DEF PairInv, supervisors
<1> QED
  BY <1>4, <1>5, <1>6, <1>7 DEF PairInv

LEMMA PairStep == ASSUME AnyInv, [Next]_vars PROVE PairInv'
<1>0. /\ PairInv /\ epoch \in Int /\ starts \in 0 .. MaxStarts /\ MaxStarts \in Nat
      /\ at \in Kinds /\ at \in 1 .. 2 /\ svc \in [Epochs -> [Kinds -> Lifecycles]]
      /\ sup \in [Epochs -> SupSteps] /\ pair \in [Epochs -> 0 .. MaxStarts] /\ kind \in [Epochs -> Kinds]
  BY StackAssumption DEF AnyInv, TypeOK, Kinds
<1>1. \A f \in Epochs, k \in Kinds : svc[f][k] # "new" => svc'[f][k] # "new"
  BY ServicesMove
<1>2. ASSUME NEW c \in Callers, BeginStart(c) \/ RequestClose(c) \/ BeginClose(c) PROVE PairInv'
  <2>1. UNCHANGED <<epoch, supervisors, services>>
    BY <1>2 DEF BeginStart, RequestClose, BeginClose
  <2>2. \/ starts' = starts /\ UNCHANGED lock
        \/ starts' = starts + 1 /\ (UNCHANGED lock \/ step' = "prepare")
        \/ starts' = starts /\ step' = "join"
    BY <1>2 DEF BeginStart, RequestClose, BeginClose, Lock, bounds
  <2>3. starts' >= starts /\ (step' = "prepare" => epoch < starts')
    BY <1>0, <2>2 DEF PairInv, lock
  <2> QED
    BY <2>1, <2>2, <2>3, PairFrame DEF lock, services
<1>3. CASE Prepare
  <2>1. CASE epoch' = starts /\ Goto("launch")
    <3>1. epoch < starts /\ starts \in Epochs /\ starts > epoch
      <4>1. epoch < starts /\ epoch \in 0 .. MaxStarts
        BY <1>0, <1>3 DEF Prepare, PairInv, AnyInv, TypeOK
      <4> QED
        BY <1>0, <4>1 DEF Epochs
    <3>2. sup[starts] = "unborn" /\ \A k \in Kinds : svc[starts][k] = "new"
      BY <1>0, <3>1 DEF PairInv
    <3>3. UNCHANGED <<services, supervisors, starts>> /\ step' = "launch" /\ at' = at
      BY <1>3, <2>1 DEF Prepare, Goto, bounds
    <3>4. \A e \in Epochs : pair[e] <= epoch' /\ (e > epoch' => e > epoch) /\ starts # 0
      BY <1>0, <2>1, <3>1 DEF PairInv, Epochs
    <3> QED
      BY <1>0, <2>1, <3>1, <3>2, <3>3, <3>4 DEF PairInv, Restarting, services, supervisors, Kinds
  <2>2. CASE UNCHANGED epoch /\ Unwind
    BY <1>0, <1>3, <2>2, PairFrame DEF Prepare, Unwind, bounds, PairInv
  <2> QED
    BY <1>3, <2>1, <2>2 DEF Prepare
<1>4. CASE Launch
  <2>1. UNCHANGED <<epoch, supervisors, starts>> /\ epoch \in Epochs
    BY <1>4, PairTypes DEF Launch, bounds
  <2>2. CASE at = 1 /\ step' = step /\ at' = 2 /\ svc' = [svc EXCEPT ![epoch][at] = "running"]
    <3>1. /\ step' = "launch" /\ svc'[epoch][2] = "new" /\ sup[epoch] = "unborn" /\ epoch # 0
          /\ \A f \in Epochs, k \in Kinds : f # epoch => svc'[f][k] = svc[f][k]
      BY <1>0, <1>4, <2>1, <2>2 DEF Launch, PairInv, Kinds
    <3>2. \A e \in Epochs : sup[e] = "restart" \/ Restarting(e) => pair[e] \in Epochs /\ kind[e] \in Kinds
      BY PairTypes DEF AnyInv, TypeOK, Restarting
    <3>3. \A e \in Epochs : e > epoch => sup'[e] = "unborn" /\ \A k \in Kinds : svc'[e][k] = "new"
      <4> SUFFICES ASSUME NEW e \in Epochs, e > epoch
                   PROVE  sup'[e] = "unborn" /\ \A k \in Kinds : svc'[e][k] = "new"
        OBVIOUS
      <4>1. e # epoch
        BY <1>0 DEF Epochs
      <4>2. sup[e] = "unborn" /\ \A k \in Kinds : svc[e][k] = "new"
        BY <1>0 DEF PairInv
      <4> QED
        BY <2>1, <3>1, <4>1, <4>2 DEF supervisors
    <3>4. \A e \in Epochs : sup'[e] = "restart" \/ Restarting(e)' => svc'[pair'[e]][kind'[e]] # "new"
      <4> SUFFICES ASSUME NEW e \in Epochs, sup[e] = "restart" \/ Restarting(e)
                   PROVE  svc'[pair[e]][kind[e]] # "new"
        BY <2>1 DEF Restarting, supervisors
      <4>1. svc[pair[e]][kind[e]] # "new" /\ pair[e] \in Epochs /\ kind[e] \in Kinds
        BY <1>0, <3>2 DEF PairInv
      <4> QED
        BY <1>1, <4>1
    <3> QED
      BY <1>0, <2>1, <2>2, <3>1, <3>3, <3>4 DEF PairInv, Restarting, supervisors
  <2>3. CASE step' \in {"announce", "stop"}
    BY <1>0, <1>4, <2>1, <2>3, PairFrame DEF Launch
  <2> QED
    BY <1>4, <2>2, <2>3 DEF Launch, Goto, Unwind
<1>10. CASE Announce
  BY <1>0, <1>10, PairFrame DEF Announce, Goto, bounds, services, PairInv
<1>5. CASE StartSupervisor
  <2>1. /\ UNCHANGED <<epoch, services, pair, kind, starts>> /\ step' \in {"idle", "stop"}
        /\ \E x \in {"wait", "unstarted"} : sup' = [sup EXCEPT ![epoch] = x]
    BY <1>5 DEF StartSupervisor, Unlock, Unwind, bounds
  <2>2. /\ \A e \in Epochs : e # epoch => sup'[e] = sup[e]
        /\ epoch \in Epochs => sup'[epoch] \in {"wait", "unstarted"}
    BY <1>0, <2>1
  <2>3. \A e \in Epochs : /\ e > epoch => e # epoch
                          /\ sup'[e] \in {"check", "restart", "relaunch", "ready", "refresh"} => sup'[e] = sup[e]
    BY <1>0, <2>2 DEF Epochs
  <2> QED
    BY <1>0, <2>1, <2>2, <2>3 DEF PairInv, Restarting, services
<1>6. CASE CloseSteps
  BY <1>0, <1>6, PairFrame
  DEF CloseSteps, Join, JoinRaises, StopService, Finish, Unlock, LastService, stack, bounds, PairInv
<1>7. ASSUME NEW e \in Epochs, SupervisorStep(e) PROVE PairInv'
  <2>1. UNCHANGED <<epoch, step, at, starts>>
    BY <1>7, SupervisorMoves DEF stack, lock, bounds
  <2>2. /\ \A f \in Epochs \ {e} : sup'[f] = sup[f] /\ pair'[f] = pair[f] /\ kind'[f] = kind[f]
        /\ sup[e] # "unborn" /\ (pair'[e] = pair[e] \/ pair'[e] = epoch)
        /\ sup'[e] \in {"check", "restart", "relaunch", "ready", "refresh"} => pair'[e] # 0
    BY <1>7, SupervisorMoves
  <2>3. \A f \in Epochs, k \in Kinds : svc[f][k] = "new" => svc'[f][k] = "new"
    BY <1>7, SupervisorLeavesNew
  <2>4. \A f \in Epochs : sup[f] = "restart" \/ Restarting(f) => pair[f] \in Epochs /\ kind[f] \in Kinds
    BY PairTypes DEF AnyInv, TypeOK, Restarting
  <2>5. sup'[e] = "restart" \/ Restarting(e)' => svc'[pair'[e]][kind'[e]] # "new"
    <3> DEFINE p == pair[e]
               k == kind[e]
    <3>1. p = pair[e] /\ k = kind[e]
      OBVIOUS
    <3> HIDE DEF p, k
    <3>2. CASE UNCHANGED services /\ ~Restarting(e)' /\ (sup'[e] = "restart" => pair'[e] = p /\ kind'[e] = k /\ svc[p][k] # "new")
      BY <3>2 DEF services
    <3>3. CASE p \in Epochs /\ k \in Kinds /\ svc[p][k] # "new" /\ (Takes(e, p, k) \/ Keeps(e, p, k) \/ GivesBack(e, p, k))
      <4>1. svc'[p][k] # "new"
        BY <1>1, <3>3
      <4> QED
        BY <3>3, <4>1 DEF Takes, Keeps, GivesBack, Restarting
    <3> QED
      BY <1>7, <3>1, <3>2, <3>3, SupervisorRestarts
  <2>6. \A f \in Epochs : sup'[f] = "restart" \/ Restarting(f)' => svc'[pair'[f]][kind'[f]] # "new"
    <3> SUFFICES ASSUME NEW f \in Epochs \ {e}, sup'[f] = "restart" \/ Restarting(f)'
                 PROVE  svc'[pair'[f]][kind'[f]] # "new"
      BY <2>5
    <3>1. sup[f] = "restart" \/ Restarting(f)
      BY <2>2 DEF Restarting
    <3>2. svc[pair[f]][kind[f]] # "new" /\ pair[f] \in Epochs /\ kind[f] \in Kinds
      BY <1>0, <2>4, <3>1 DEF PairInv
    <3>3. svc'[pair[f]][kind[f]] # "new"
      BY <1>1, <3>2
    <3> QED
      BY <2>2, <3>3
  <2>7. \A f \in Epochs : f > epoch => sup'[f] = "unborn" /\ \A k \in Kinds : svc'[f][k] = "new"
    BY <1>0, <2>2, <2>3 DEF PairInv
  <2>8. \A f \in Epochs : /\ pair'[f] <= epoch
                          /\ sup'[f] \in {"check", "restart", "relaunch", "ready", "refresh"} => pair'[f] # 0
    BY <1>0, <2>2 DEF PairInv
  <2>9. step = "launch" => svc'[epoch][at] = "new" /\ (at = 1 => svc'[epoch][2] = "new")
    BY <1>0, <2>3, PairTypes DEF PairInv, Kinds
  <2>10. step \in {"launch", "announce", "supervise"} => epoch # 0 /\ sup'[epoch] = "unborn"
    BY <1>0, <2>2, PairTypes DEF PairInv
  <2> QED
    BY <1>0, <2>1, <2>6, <2>7, <2>8, <2>9, <2>10 DEF PairInv
<1>8. ASSUME NEW e \in Epochs, NEW k \in Kinds, NativeDies(e, k) PROVE PairInv'
  BY <1>0, <1>8, PairFrame DEF NativeDies, stack, lock, bounds, PairInv
<1>9. CASE UNCHANGED vars
  BY <1>0, <1>9, PairFrame DEF vars, stack, lock, services, bounds, PairInv
<1> QED
  BY <1>2, <1>3, <1>4, <1>5, <1>6, <1>7, <1>8, <1>9, <1>10 DEF Next, HolderStep

LEMMA AnyStep == ASSUME AnyInv, [Next]_vars PROVE AnyInv'
  BY TypeStep, BusyStep, PairStep DEF AnyInv

-----------------------------------------------------------------------------
\* What a step of a supervisor leaves alone, and what the lock implies.

\* Only the supervisor of the current pair steps.
LEMMA SupMoves ==
  ASSUME IInv, NEW e \in Epochs, SupervisorStep(e)
  PROVE  /\ Alive(e) /\ e = epoch /\ e = thread /\ UNCHANGED <<stack, lock, closing, bounds>>
         /\ \A f \in Epochs \ {e} : sup'[f] = sup[f] /\ pair'[f] = pair[f] /\ kind'[f] = kind[f]
         /\ sup'[e] \notin {"unborn", "unstarted"}
         /\ sup'[e] = "exited" => event
         /\ pair'[e] \in {0, epoch}
         /\ sup'[e] \in {"check", "restart", "relaunch", "ready", "refresh"} => pair'[e] = epoch
<1>1. Alive(e)
  BY DEF Alive, SupervisorStep, Tick, Exit, Check, Decline, Restart, Relaunch, Ready, EndRound
<1>2. e = epoch /\ e = thread /\ pair[e] \in {0, epoch}
      /\ (sup[e] \in {"check", "restart", "relaunch", "ready", "refresh"} => pair[e] = epoch)
  BY <1>1 DEF IInv, AliveInv
<1>3. UNCHANGED <<stack, lock, closing, bounds>>
  BY DEF SupervisorStep, Tick, Exit, Check, Decline, Restart, Relaunch, Ready, EndRound
<1>4. /\ sup \in [Epochs -> SupSteps] /\ pair \in [Epochs -> 0 .. MaxStarts] /\ kind \in [Epochs -> Kinds]
  BY DEF AnyInv, IInv, TypeOK
<1>5. \/ Tick(e) \/ Exit(e) \/ EndRound(e)
      \/ sup[e] \in {"check", "restart", "relaunch", "ready"} /\ Advance(e)
      \/ sup[e] = "check" /\ At(e, "restart")
      \/ sup[e] = "restart" /\ At(e, "relaunch")
      \/ sup[e] = "relaunch" /\ At(e, "ready")
  BY DEF SupervisorStep, Check, Decline, Restart, Relaunch, Ready, Caught
<1>6. \A f \in Epochs \ {e} : sup'[f] = sup[f] /\ pair'[f] = pair[f] /\ kind'[f] = kind[f]
  BY <1>4, <1>5 DEF Tick, Exit, EndRound, Advance, At
<1>7. sup'[e] \notin {"unborn", "unstarted"} /\ (sup'[e] = "exited" => event)
  BY <1>4, <1>5 DEF Tick, Exit, EndRound, Advance, At
<1>8. pair'[e] \in {0, epoch}
      /\ (sup'[e] \in {"check", "restart", "relaunch", "ready", "refresh"} => pair'[e] = epoch)
  BY <1>2, <1>4, <1>5 DEF Tick, Exit, EndRound, Advance, At
<1> QED
  BY <1>1, <1>2, <1>3, <1>6, <1>7, <1>8

\* What the step of the holder says about its task.
LEMMA LockFacts ==
  ASSUME IInv
  PROVE  /\ step \in {"prepare", "launch", "announce", "supervise"} => task = "start" /\ NoneAlive
         /\ step = "join" => task = "close"
         /\ step \in {"stop", "finish"} => event /\ (task = "close" \/ (task = "start" /\ NoneAlive))
         /\ step # "idle" => holder # Nobody
         /\ holder = Nobody => step = "idle" /\ task = "none"
<1>1. task = "start" => NoneAlive
  BY DEF IInv, AliveInv
<1>2. task \in {"none", "start", "close"}
  BY DEF AnyInv, IInv, TypeOK
<1> QED
  BY <1>1, <1>2 DEF IInv, LockInv

\* A free supervisor holds no service, and what it holds is of the current pair.
LEMMA BusyFacts ==
  ASSUME IInv
  PROVE  /\ \A e \in Epochs, k \in Kinds :
              busy[e][k] # 0 => /\ epoch \in Epochs /\ Alive(epoch) /\ busy[e][k] = epoch /\ e = epoch
                                /\ kind[epoch] = k /\ sup[epoch] \in {"relaunch", "ready"}
         /\ \A e \in Epochs, k \in Kinds : up[e][k] => e = epoch
         /\ epoch = 0 \/ NoneAlive => \A e \in Epochs, k \in Kinds : busy[e][k] = 0
<1>1. ASSUME NEW e \in Epochs, NEW k \in Kinds, busy[e][k] # 0
      PROVE  /\ epoch \in Epochs /\ Alive(epoch) /\ busy[e][k] = epoch /\ e = epoch
             /\ kind[epoch] = k /\ sup[epoch] \in {"relaunch", "ready"}
  <2> DEFINE f == busy[e][k]
  <2>1. f \in Epochs /\ sup[f] \in {"relaunch", "ready"} /\ pair[f] = e /\ kind[f] = k
    BY <1>1 DEF AnyInv, IInv, BusyInv, Restarting
  <2>2. f = epoch /\ Alive(f) /\ pair[f] = epoch
    BY <2>1 DEF IInv, AliveInv, Alive
  <2> QED
    BY <2>1, <2>2
<1>2. \A e \in Epochs, k \in Kinds : up[e][k] => e = epoch
  BY DEF IInv, UpInv
<1>3. 0 \notin Epochs
  BY DEF Epochs
<1> QED
  BY <1>1, <1>2, <1>3 DEF NoneAlive
-----------------------------------------------------------------------------
\* AliveInv.

\* Steps that leave the supervisors and the choice of the pair alone.
LEMMA AliveFrame ==
  ASSUME AliveInv, UNCHANGED <<sup, pair, epoch, thread>>,
         step' \in {"launch", "announce", "supervise"} => step \in {"launch", "announce", "supervise"},
         lifecycle' = "running" /\ ~event' /\ holder' = Nobody => lifecycle = "running" /\ ~event /\ holder = Nobody,
         task' = "start" => NoneAlive,
         lifecycle' \in {"new", "stopped", "failed"} /\ holder' = Nobody => event' \/ NoneAlive
  PROVE  AliveInv'
<1>1. NoneAlive' <=> NoneAlive
  BY DEF NoneAlive, Alive
<1>2. \A e \in Epochs : Alive(e)' => Alive(e)
  BY DEF Alive
<1>3. Alive(epoch) => Alive(epoch)'
  BY DEF Alive
<1> QED
  BY <1>1, <1>2, <1>3 DEF AliveInv

LEMMA AliveStep ==
  ASSUME IInv, Disciplined, [Next]_vars
  PROVE  AliveInv'
<1>0. AliveInv /\ (task = "start" => NoneAlive)
  BY DEF IInv, AliveInv
<1>1. ASSUME NEW c \in Callers, BeginStart(c) PROVE AliveInv'
  <2>1. NoneAlive
    BY <1>1 DEF BeginStart, AtRest, NoneAlive
  <2>2. UNCHANGED <<sup, pair, epoch, thread>> /\ lifecycle' \in {"stopped", "starting"}
    BY <1>1 DEF BeginStart, supervisors
  <2>3. step' \in {"launch", "announce", "supervise"} => step \in {"launch", "announce", "supervise"}
    BY <1>1 DEF BeginStart, Lock, lock
  <2> QED
    BY <1>0, <2>1, <2>2, <2>3, AliveFrame
<1>2. ASSUME NEW c \in Callers, RequestClose(c) PROVE AliveInv'
  BY <1>0, <1>2, AliveFrame DEF RequestClose, lock, supervisors
<1>3. ASSUME NEW c \in Callers, BeginClose(c) PROVE AliveInv'
  <2>1. event /\ event' = event
    BY <1>3 DEF IInv, LockInv, BeginClose
  <2>2. UNCHANGED <<sup, pair, epoch, thread>>
    BY <1>3 DEF BeginClose, supervisors
  <2>3. /\ step' \in {"launch", "announce", "supervise"} => step \in {"launch", "announce", "supervise"}
        /\ task' = "start" => task = "start"
    BY <1>3 DEF BeginClose, Lock, lock
  <2> QED
    BY <1>0, <2>1, <2>2, <2>3, AliveFrame
<1>4. CASE Prepare
  <2>1. task = "start" /\ NoneAlive /\ holder # Nobody /\ lifecycle = "starting"
    BY <1>4, LockFacts DEF IInv, LockInv, Prepare
  <2>2. CASE Unwind /\ UNCHANGED epoch
    BY <1>0, <1>4, <2>1, <2>2, AliveFrame DEF Prepare, Unwind, supervisors
  <2>3. CASE epoch' = starts /\ Goto("launch") /\ UNCHANGED <<lifecycle, event, faults>>
    <3>1. starts \in Epochs /\ epoch < starts
      BY <1>4 DEF AnyInv, IInv, LockInv, TypeOK, Prepare, Epochs
    <3>2. UNCHANGED <<sup, pair>> /\ NoneAlive'
      BY <1>4, <2>1 DEF Prepare, supervisors, NoneAlive, Alive
    <3>3. \A e \in Epochs : /\ ~Alive(e)'
                            /\ sup'[e] \notin {"check", "restart", "relaunch", "ready", "refresh"}
      BY <3>2 DEF NoneAlive, Alive
    <3>4. \A e \in Epochs : sup'[e] = "unborn" => pair'[e] = 0
      BY <1>0, <3>2 DEF AliveInv
    <3>5. \A e \in Epochs : e >= starts => sup'[e] = "unborn"
      BY <1>0, <3>1, <3>2 DEF AliveInv, Epochs, AnyInv, IInv, TypeOK
    <3>6. sup'[epoch'] = "unborn" /\ \A e \in Epochs : e > epoch' => sup'[e] = "unborn"
      BY <2>3, <3>1, <3>5 DEF Epochs
    <3>7. lifecycle' = "starting"
      BY <2>1, <2>3
    <3> QED
      BY <3>2, <3>3, <3>4, <3>6, <3>7 DEF AliveInv
  <2> QED
    BY <1>4, <2>2, <2>3 DEF Prepare
<1>5. CASE Launch
  <2>1. task = "start" /\ NoneAlive /\ holder # Nobody /\ lifecycle = "starting"
    BY <1>5, LockFacts DEF IInv, LockInv, Launch
  <2>2. UNCHANGED <<sup, pair, epoch, thread>>
    BY <1>5 DEF Launch, supervisors
  <2>3. step = "launch" /\ lifecycle' # "running" /\ holder' = holder
    BY <1>5, <2>1 DEF Launch, Unwind, Goto
  <2> QED
    BY <1>0, <2>1, <2>2, <2>3, AliveFrame
<1>11. CASE Announce
  <2>1. task = "start" /\ holder # Nobody /\ NoneAlive
    BY <1>11, LockFacts DEF Announce
  <2> QED
    BY <1>0, <1>11, <2>1, AliveFrame DEF Announce, Goto, supervisors
<1>6. CASE StartSupervisor
  <2>1. task = "start" /\ NoneAlive /\ holder # Nobody /\ sup[epoch] = "unborn"
    BY <1>0, <1>6, LockFacts DEF AliveInv, StartSupervisor
  <2>2. epoch \in Epochs /\ epoch # 0 /\ pair[epoch] = 0 /\ epoch' = epoch /\ thread' = epoch /\ pair' = pair
    BY <1>0, <1>6, <2>1, EpochTypes DEF AliveInv, IInv, LockInv, StartSupervisor
  <2>3. \E s \in {"wait", "unstarted"} : sup' = [sup EXCEPT ![epoch] = s]
    BY <1>6 DEF StartSupervisor
  <2>4. \A e \in Epochs \ {epoch} : sup'[e] = sup[e] /\ ~Alive(e)'
    BY <2>1, <2>3 DEF NoneAlive, Alive
  <2>5. sup \in [Epochs -> SupSteps]
    BY DEF AnyInv, IInv, TypeOK
  <2>6. sup'[epoch] \in {"wait", "unstarted"}
    BY <2>2, <2>3, <2>5
  <2>7. /\ \A e \in Epochs : Alive(e)' => e = epoch' /\ e = thread' /\ pair'[e] \in {0, epoch'}
        /\ \A e \in Epochs : sup'[e] \in {"check", "restart", "relaunch", "ready", "refresh"} => pair'[e] = epoch'
        /\ \A e \in Epochs : sup'[e] = "unborn" => pair'[e] = 0
        /\ \A e \in Epochs : e > epoch' => sup'[e] = "unborn"
    <3>1. \A e \in Epochs : Alive(e)' => e = epoch
      BY <2>4
    <3>2. \A e \in Epochs : sup'[e] \in {"check", "restart", "relaunch", "ready", "refresh"} => e # epoch /\ Alive(e)'
      BY <2>6 DEF Alive
    <3>3. \A e \in Epochs : e > epoch => e # epoch /\ sup[e] = "unborn"
      BY <1>0, <2>2 DEF AliveInv, Epochs
    <3> QED
      BY <1>0, <2>2, <2>4, <2>6, <3>1, <3>2, <3>3 DEF AliveInv
  <2>10. lifecycle = "running"
    BY <1>6, <2>1 DEF IInv, LockInv, StartSupervisor
  <2>8. CASE Unlock /\ lifecycle' = lifecycle /\ sup' = [sup EXCEPT ![epoch] = "wait"]
    BY <2>2, <2>5, <2>7, <2>8, <2>10 DEF AliveInv, Unlock, Alive
  <2>9. CASE Unwind /\ sup' = [sup EXCEPT ![epoch] = "unstarted"]
    <3>1. NoneAlive'
      BY <2>2, <2>4, <2>5, <2>9 DEF NoneAlive, Alive
    <3> QED
      BY <2>1, <2>7, <2>9, <3>1 DEF AliveInv, Unwind
  <2> QED
    BY <1>6, <2>8, <2>9 DEF StartSupervisor
<1>7. CASE CloseSteps
  <2>1. UNCHANGED <<sup, pair, epoch, thread, event>> /\ step' \notin {"launch", "announce", "supervise"}
    BY <1>7 DEF CloseSteps, Join, JoinRaises, StopService, Finish, Unlock, supervisors, stack
  <2>2. event /\ (task' = "start" => task = "start")
    BY <1>7, LockFacts DEF CloseSteps, Join, JoinRaises, StopService, Finish, Unlock, stack, IInv, LockInv
  <2>3. lifecycle' \in {"new", "stopped", "failed"} /\ holder' = Nobody => event'
    <3>1. CASE Join \/ StopService
      BY <3>1, LockFacts DEF Join, StopService
    <3>2. CASE JoinRaises
      BY <3>2, LockFacts DEF IInv, LockInv, JoinRaises, stack
    <3>3. CASE Finish
      BY <3>3, LockFacts DEF Finish
    <3> QED
      BY <1>7, <3>1, <3>2, <3>3 DEF CloseSteps
  <2> QED
    BY <1>0, <2>1, <2>2, <2>3, AliveFrame
<1>8. ASSUME NEW e \in Epochs, SupervisorStep(e) PROVE AliveInv'
  <2>1. /\ Alive(e) /\ e = epoch /\ e = thread /\ UNCHANGED <<stack, lock, closing, bounds>>
        /\ \A f \in Epochs \ {e} : sup'[f] = sup[f] /\ pair'[f] = pair[f]
        /\ sup'[e] \notin {"unborn", "unstarted"} /\ (sup'[e] = "exited" => event)
        /\ pair'[e] \in {0, epoch}
        /\ sup'[e] \in {"check", "restart", "relaunch", "ready", "refresh"} => pair'[e] = epoch
    BY <1>8, SupMoves
  <2>2. UNCHANGED <<lifecycle, event, epoch, thread, holder, task, step>>
    BY <2>1 DEF stack, lock
  <2>3. task # "start" /\ step \notin {"launch", "announce", "supervise"} /\ ~NoneAlive
    BY <2>1, LockFacts DEF IInv, AliveInv, NoneAlive
  <2>4. \A f \in Epochs : Alive(f)' => f = epoch' /\ f = thread' /\ pair'[f] \in {0, epoch'}
    BY <1>0, <2>1, <2>2 DEF AliveInv, Alive
  <2>5. /\ \A f \in Epochs : sup'[f] \in {"check", "restart", "relaunch", "ready", "refresh"} => pair'[f] = epoch'
        /\ \A f \in Epochs : sup'[f] = "unborn" => pair'[f] = 0
    BY <1>0, <2>1, <2>2 DEF AliveInv
  <2>6. \A f \in Epochs : f > epoch' => sup'[f] = "unborn"
    <3>1. \A f \in Epochs : f > epoch => f # e /\ sup[f] = "unborn"
      BY <1>0, <2>1 DEF AliveInv, Epochs
    <3> QED
      BY <2>1, <2>2, <3>1
  <2>7. ~event => Alive(epoch)'
    BY <2>1, <2>2 DEF Alive
  <2> QED
    BY <1>0, <2>2, <2>3, <2>4, <2>5, <2>6, <2>7 DEF AliveInv
<1>9. ASSUME NEW e \in Epochs, NEW k \in Kinds, NativeDies(e, k) PROVE AliveInv'
  BY <1>0, <1>9, AliveFrame DEF AliveInv, NativeDies, supervisors, stack, lock
<1>10. CASE UNCHANGED vars
  BY <1>0, <1>10, AliveFrame DEF AliveInv, vars, supervisors, stack, lock
<1> QED
  BY <1>1, <1>2, <1>3, <1>4, <1>5, <1>6, <1>7, <1>8, <1>9, <1>10, <1>11 DEF Next, HolderStep
-----------------------------------------------------------------------------
\* LockInv.

LEMMA LockStep ==
  ASSUME IInv, Disciplined, [Next]_vars
  PROVE  LockInv'
<1>0. LockInv /\ epoch \in 0 .. MaxStarts /\ starts \in 0 .. MaxStarts /\ Nobody \notin Callers
  BY StackAssumption DEF AnyInv, IInv, TypeOK
<1>1. ASSUME NEW c \in Callers, BeginStart(c) PROVE LockInv'
  <2>1. closing' = {} /\ epoch' = epoch /\ starts' = starts + 1 /\ holder = Nobody /\ epoch <= starts
    BY <1>0, <1>1 DEF BeginStart, AtRest, Lock, LockInv
  <2>2. CASE Lock(c, "start", "prepare") /\ lifecycle' = "starting"
    BY <1>0, <2>1, <2>2 DEF Lock, LockInv
  <2>3. CASE lifecycle' = "stopped" /\ UNCHANGED lock
    BY <1>0, <2>1, <2>3 DEF lock, LockInv
  <2> QED
    BY <1>1, <2>2, <2>3 DEF BeginStart
<1>2. ASSUME NEW c \in Callers, RequestClose(c) PROVE LockInv'
  BY <1>0, <1>2 DEF RequestClose, lock, LockInv
<1>3. ASSUME NEW c \in Callers, BeginClose(c) PROVE LockInv'
  <2>1. event /\ event' /\ closing' \subseteq closing /\ UNCHANGED <<epoch, starts>> /\ holder = Nobody
    BY <1>0, <1>3 DEF BeginClose, Lock, LockInv, bounds
  <2>2. CASE lifecycle' = "stopped" /\ UNCHANGED lock
    BY <1>0, <2>1, <2>2 DEF lock, LockInv
  <2>3. CASE lifecycle' = "stopping" /\ Lock(c, "close", "join")
    BY <1>0, <2>1, <2>3 DEF Lock, LockInv
  <2> QED
    BY <1>3, <2>2, <2>3 DEF BeginClose
<1>4. CASE Prepare
  <2>1. task = "start" /\ holder # Nobody /\ at = 1 /\ epoch < starts /\ lifecycle = "starting"
    BY <1>0, <1>4, LockFacts DEF Prepare, LockInv
  <2>2. UNCHANGED <<closing, starts>>
    BY <1>4 DEF Prepare, bounds
  <2>3. CASE Unwind /\ UNCHANGED epoch
    BY <1>0, <2>1, <2>2, <2>3 DEF Unwind, LockInv
  <2>4. CASE epoch' = starts /\ Goto("launch") /\ UNCHANGED <<lifecycle, event>>
    BY <1>0, <2>1, <2>2, <2>4 DEF Goto, LockInv
  <2> QED
    BY <1>4, <2>3, <2>4 DEF Prepare
<1>5. CASE Launch
  <2>1. task = "start" /\ holder # Nobody /\ epoch = starts /\ epoch # 0 /\ lifecycle = "starting"
    BY <1>0, <1>5, LockFacts DEF Launch, LockInv
  <2>2. UNCHANGED <<closing, starts, epoch>> /\ step = "launch"
    BY <1>5 DEF Launch, bounds
  <2>3. CASE Unwind
    BY <1>0, <2>1, <2>2, <2>3 DEF Unwind, LockInv
  <2>4. CASE /\ UNCHANGED <<lifecycle, event, holder, task>>
             /\ step' \in {"launch", "announce"}
    BY <1>0, <2>1, <2>2, <2>4 DEF LockInv
  <2> QED
    BY <1>5, <2>2, <2>3, <2>4 DEF Launch, Goto
<1>13. CASE Announce
  <2>1. task = "start" /\ holder # Nobody /\ epoch = starts /\ epoch # 0
    BY <1>0, <1>13, LockFacts DEF Announce, LockInv
  <2>2. /\ UNCHANGED <<event, closing, starts, epoch, holder, task>>
        /\ step' = "supervise" /\ lifecycle' = "running"
    BY <1>13 DEF Announce, Goto, bounds
  <2> QED
    BY <1>0, <2>1, <2>2 DEF LockInv
<1>6. CASE StartSupervisor
  <2>1. task = "start" /\ holder # Nobody /\ epoch <= starts /\ lifecycle = "running"
    BY <1>0, <1>6, LockFacts DEF StartSupervisor, LockInv
  <2>2. UNCHANGED <<closing, starts, epoch>>
    BY <1>6 DEF StartSupervisor, bounds
  <2>3. CASE Unwind
    BY <1>0, <2>1, <2>2, <2>3 DEF Unwind, LockInv
  <2>4. CASE Unlock /\ UNCHANGED <<lifecycle, event>>
    BY <1>0, <2>1, <2>2, <2>4 DEF Unlock, LockInv
  <2> QED
    BY <1>6, <2>3, <2>4 DEF StartSupervisor
<1>7. CASE Join \/ StopService
  <2>1. /\ UNCHANGED <<lifecycle, event, epoch, holder, task, closing, starts>>
        /\ step' \in {"stop", "finish"} /\ task # "none" /\ step \in {"join", "stop"}
    BY <1>0, <1>7, LockFacts DEF Join, StopService, stack, bounds, LockInv
  <2>2. task = "start" => lifecycle = "failed" /\ event
    BY <1>0, <2>1 DEF LockInv
  <2> QED
    BY <1>0, <2>1, <2>2 DEF LockInv
<1>8. CASE JoinRaises \/ Finish
  <2>1. UNCHANGED <<event, epoch, closing, starts>> /\ Unlock
    BY <1>8 DEF JoinRaises, Finish, stack, bounds
  <2>2. lifecycle' # "starting"
    BY <1>0, <1>8, LockFacts DEF JoinRaises, Finish, stack, LockInv
  <2> QED
    BY <1>0, <2>1, <2>2 DEF Unlock, LockInv
<1>9. ASSUME UNCHANGED <<stack, lock, closing, bounds>> PROVE LockInv'
  BY <1>0, <1>9 DEF LockInv, stack, lock, bounds
<1>10. ASSUME NEW e \in Epochs, SupervisorStep(e) PROVE LockInv'
  BY <1>9, <1>10, SupMoves
<1>11. ASSUME NEW e \in Epochs, NEW k \in Kinds, NativeDies(e, k) PROVE LockInv'
  BY <1>9, <1>11 DEF NativeDies
<1>12. CASE UNCHANGED vars
  BY <1>9, <1>12 DEF vars
<1> QED
  BY <1>1, <1>2, <1>3, <1>4, <1>5, <1>6, <1>7, <1>8, <1>10, <1>11, <1>12, <1>13 DEF Next, HolderStep, CloseSteps

-----------------------------------------------------------------------------
\* UpInv.

\* Steps that start nothing, and leave the choice of the pair alone.
LEMMA QuietFrame ==
  ASSUME NEW k \in Kinds, Quiet(k), UNCHANGED busy,
         \A e \in Epochs, j \in Kinds : up'[e][j] => up[e][j]
  PROVE  Quiet(k)'
  BY DEF Quiet

LEMMA QuietSteps ==
  ASSUME IInv, Disciplined, [Next]_vars, event, NEW e \in Epochs, SupervisorStep(e), NEW k \in Kinds, Quiet(k)
  PROVE  Quiet(k)'
<1>0. /\ busy \in [Epochs -> [Kinds -> 0 .. MaxStarts]] /\ up \in [Epochs -> [Kinds -> BOOLEAN]]
      /\ kind \in [Epochs -> Kinds]
  BY DEF AnyInv, IInv, TypeOK
<1>1. CASE UNCHANGED services
  BY <1>1 DEF services, Quiet
<1>2. CASE Relaunch(e) \/ Ready(e)
  <2> DEFINE p == pair[e]
             j == kind[e]
  <2>1. sup[e] \in {"relaunch", "ready"} /\ e # 0 /\ p \in Epochs /\ j \in Kinds
    BY <1>0, <1>2, EpochTypes DEF Relaunch, Ready
  <2>2. busy[p][j] = e
    BY <2>1 DEF AnyInv, IInv, BusyInv, Restarting
  <2>3. j # k
    BY <2>1, <2>2 DEF Quiet
  <2>4. up' = up \/ \E b \in BOOLEAN : up' = [up EXCEPT ![p][j] = b]
    BY <1>2 DEF Relaunch, Ready
  <2>5. busy' = busy \/ busy' = [busy EXCEPT ![p][j] = 0]
    BY <1>2 DEF Relaunch, Ready, Unhold, Released
  <2>6. \A f \in Epochs : up'[f][k] = up[f][k]
    BY <1>0, <2>1, <2>3, <2>4
  <2>7. \A f \in Epochs : busy'[f][k] = busy[f][k]
    BY <1>0, <2>1, <2>3, <2>5
  <2> QED
    BY <2>6, <2>7 DEF Quiet
<1> QED
  BY <1>1, <1>2 DEF SupervisorStep, Tick, Exit, Check, Decline, Restart, EndRound

\* Nothing but the holder of the lock stops a service for good.
LEMMA ServiceMoves ==
  ASSUME IInv, NEW e \in Epochs, SupervisorStep(e)
  PROVE  /\ \A f \in Epochs, k \in Kinds : svc'[f][k] \in {"stopping", "stopped"} => svc'[f][k] = svc[f][k]
         /\ \A f \in Epochs, k \in Kinds : up'[f][k] => f = epoch
<1>0. /\ svc \in [Epochs -> [Kinds -> Lifecycles]] /\ up \in [Epochs -> [Kinds -> BOOLEAN]]
      /\ kind \in [Epochs -> Kinds]
  BY DEF AnyInv, IInv, TypeOK
<1>1. \A f \in Epochs, k \in Kinds : up[f][k] => f = epoch
  BY BusyFacts
<1>2. CASE Restart(e) \/ Relaunch(e) \/ Ready(e)
  <2> DEFINE p == pair[e]
             k == kind[e]
  <2>1. p = epoch /\ p \in Epochs /\ k \in Kinds
    BY <1>0, <1>2, EpochTypes DEF Restart, Relaunch, Ready
  <2>2. \A f \in Epochs, j \in Kinds : svc'[f][j] = svc[f][j] \/ svc'[f][j] \notin {"stopping", "stopped"}
    <3>1. CASE Restart(e)
      BY <1>0, <2>1, <3>1 DEF Restart
    <3>2. CASE Relaunch(e)
      BY <1>0, <2>1, <3>2 DEF Relaunch, AfterFailedRestart
    <3>3. CASE Ready(e)
      BY <1>0, <2>1, <3>3 DEF Ready, AfterFailedRestart
    <3> QED
      BY <1>2, <3>1, <3>2, <3>3
  <2>3. up' = up \/ \E b \in BOOLEAN : up' = [up EXCEPT ![p][k] = b]
    BY <1>2 DEF Restart, Relaunch, Ready
  <2>5. \A f \in Epochs, j \in Kinds : up'[f][j] => f = epoch
    BY <1>0, <1>1, <2>1, <2>3
  <2> QED
    BY <2>2, <2>5
<1>3. CASE UNCHANGED services
  BY <1>1, <1>3 DEF services
<1> QED
  BY <1>2, <1>3 DEF SupervisorStep, Tick, Exit, Check, Decline, EndRound

\* Steps that neither start a service nor touch the one in front.
LEMMA UpFrame ==
  ASSUME IInv, UNCHANGED <<busy, svc, epoch, event>>, NoneAlive => NoneAlive',
         \A e \in Epochs, k \in Kinds : up'[e][k] => up[e][k],
         step' \in {"launch", "announce", "supervise"} => step' = step /\ at' = at,
         step' = "stop" => at' = 2 \/ Quiet(2),
         step' \in {"prepare", "finish"} => AllQuiet,
         lifecycle' \in {"new", "stopped", "failed"} /\ holder' = Nobody => AllQuiet
  PROVE  UpInv'
<1>1. \A k \in Kinds : Quiet(k) => Quiet(k)'
  BY QuietFrame
<1>2. (Quiet(2) => Quiet(2)') /\ (AllQuiet => AllQuiet')
  BY <1>1 DEF AllQuiet, Kinds
<1> QED
  BY <1>1, <1>2 DEF IInv, UpInv

LEMMA UpStep ==
  ASSUME IInv, Disciplined, [Next]_vars
  PROVE  UpInv'
<1>0. /\ UpInv /\ epoch \in 0 .. MaxStarts
      /\ svc \in [Epochs -> [Kinds -> Lifecycles]] /\ up \in [Epochs -> [Kinds -> BOOLEAN]]
      /\ 1 \in Kinds /\ 2 \in Kinds /\ at \in Kinds
  BY DEF AnyInv, IInv, TypeOK, Kinds
<1>1. ASSUME NEW c \in Callers, BeginStart(c) PROVE UpInv'
  <2>1. NoneAlive /\ holder = Nobody /\ AllQuiet
    BY <1>0, <1>1 DEF BeginStart, AtRest, NoneAlive, Lock, UpInv
  <2>2. UNCHANGED <<busy, svc, up, sup, epoch>>
    BY <1>1 DEF BeginStart, services, supervisors
  <2>3. NoneAlive' /\ AllQuiet' /\ (\A k \in Kinds : Quiet(k)') /\ Quiet(2)' /\ \A e \in Epochs, k \in Kinds : ~up'[e][k]
    BY <2>1, <2>2 DEF NoneAlive, Alive, AllQuiet, Quiet, Kinds
  <2>4. step' \in {"idle", "prepare"}
    BY <1>1, <2>1, LockFacts DEF BeginStart, Lock, lock
  <2> QED
    BY <2>3, <2>4 DEF UpInv
<1>2. ASSUME NEW c \in Callers, RequestClose(c) PROVE UpInv'
  <2>1. event' /\ UNCHANGED <<busy, svc, up, epoch, step, at, lifecycle, holder>>
    BY <1>2 DEF RequestClose, lock, services
  <2>2. (\A k \in Kinds : Quiet(k) => Quiet(k)') /\ (Quiet(2) => Quiet(2)') /\ (AllQuiet => AllQuiet')
    BY <2>1 DEF AllQuiet, Quiet
  <2> QED
    BY <1>0, <2>1, <2>2 DEF UpInv
<1>3. ASSUME NEW c \in Callers, BeginClose(c) PROVE UpInv'
  <2>1. UNCHANGED <<busy, svc, up, epoch, event, sup>>
    BY <1>3 DEF BeginClose, services, supervisors
  <2>2. NoneAlive => NoneAlive'
    BY <2>1 DEF NoneAlive, Alive
  <2>3. CASE lifecycle \in {"new", "stopped"} /\ holder = Nobody /\ UNCHANGED lock
    <3>1. AllQuiet /\ step' = "idle"
      BY <1>0, <2>3, LockFacts DEF UpInv, lock
    <3> QED
      BY <2>1, <2>2, <3>1, UpFrame
  <2>4. CASE lifecycle' = "stopping" /\ Lock(c, "close", "join")
    BY <2>1, <2>2, <2>4, UpFrame DEF Lock
  <2> QED
    BY <1>3, <2>3, <2>4 DEF BeginClose
<1>4. CASE Prepare
  <2>1. AllQuiet /\ NoneAlive /\ at = 1 /\ holder # Nobody
    BY <1>0, <1>4, LockFacts DEF UpInv, IInv, LockInv, Prepare
  <2>2. UNCHANGED <<busy, svc, up, sup>>
    BY <1>4 DEF Prepare, services, supervisors
  <2>3. NoneAlive' /\ AllQuiet' /\ (\A k \in Kinds : Quiet(k)') /\ Quiet(2)' /\ \A e \in Epochs, k \in Kinds : ~up'[e][k]
    BY <2>1, <2>2 DEF NoneAlive, Alive, AllQuiet, Quiet, Kinds
  <2>4. holder' # Nobody /\ (step' = "stop" \/ (step' = "launch" /\ at' = 1))
    BY <1>4, <2>1 DEF Prepare, Unwind, Goto
  <2> QED
    BY <2>3, <2>4 DEF UpInv
<1>5. CASE Launch
  <2>1. NoneAlive /\ holder # Nobody /\ step = "launch" /\ Quiet(2) /\ epoch \in Epochs
    BY <1>0, <1>5, LockFacts, EpochTypes DEF UpInv, Launch
  <2>2. UNCHANGED <<busy, sup, epoch, holder>>
    BY <1>5 DEF Launch, supervisors, Unwind, Goto
  <2>3. NoneAlive'
    BY <2>1, <2>2 DEF NoneAlive, Alive
  <2>4. ASSUME up' = up, svc' = [svc EXCEPT ![epoch][at] = "failed"], Unwind
        PROVE  UpInv'
    <3>1. Quiet(2)' /\ \A e \in Epochs, k \in Kinds : up'[e][k] => e = epoch'
      BY <1>0, <2>1, <2>2, <2>4 DEF Quiet, UpInv
    <3>2. step' = "stop" /\ at' = 2
      BY <2>4 DEF Unwind, LastService
    <3>3. \A k \in Kinds : svc'[epoch'][k] = "stopped" => Quiet(k)'
      <4>1. at = 1 \/ svc[epoch][1] = "running"
        BY <1>0, <2>1 DEF UpInv, Kinds
      <4> QED
        BY <1>0, <2>1, <2>2, <2>4, <3>1, <4>1 DEF Kinds
    <3> QED
      BY <2>1, <2>2, <2>3, <3>1, <3>2, <3>3 DEF UpInv
  <2>5. ASSUME svc' = [svc EXCEPT ![epoch][at] = "running"], up' = [up EXCEPT ![epoch][at] = TRUE]
        PROVE  \A e \in Epochs, k \in Kinds : up'[e][k] => e = epoch'
    BY <1>0, <2>1, <2>2, <2>5 DEF UpInv
  <2>6. ASSUME svc' = [svc EXCEPT ![epoch][at] = "running"], up' = [up EXCEPT ![epoch][at] = TRUE],
               at = 1, at' = 2, step' = step
        PROVE  UpInv'
    <3>1. Quiet(2)'
      <4>1. \A e \in Epochs : up'[e][2] = up[e][2] /\ busy'[e][2] = busy[e][2]
        BY <1>0, <2>1, <2>2, <2>6
      <4> QED
        BY <2>1, <4>1 DEF Quiet
    <3>4. svc'[epoch'][1] = "running"
      BY <1>0, <2>1, <2>2, <2>6
    <3> QED
      BY <2>1, <2>2, <2>3, <2>5, <2>6, <3>1, <3>4 DEF UpInv, Kinds
  <2>7. ASSUME svc' = [svc EXCEPT ![epoch][at] = "running"], up' = [up EXCEPT ![epoch][at] = TRUE],
               at # 1, step' = "announce"
        PROVE  UpInv'
    <3>1. \A k \in Kinds : svc'[epoch'][k] = "running"
      BY <1>0, <2>1, <2>2, <2>7 DEF Kinds, UpInv
    <3> QED
      BY <1>0, <2>1, <2>2, <2>3, <2>5, <2>7, <3>1 DEF UpInv
  <2> QED
    BY <1>5, <2>4, <2>6, <2>7 DEF Launch, Goto
<1>6. CASE Announce
  <2>1. NoneAlive /\ holder # Nobody /\ step = "announce" /\ \A k \in Kinds : svc[epoch][k] = "running"
    BY <1>0, <1>6, LockFacts DEF UpInv, Announce
  <2>2. UNCHANGED <<busy, svc, up, epoch, holder>> /\ step' = "supervise"
    BY <1>6 DEF Announce, Goto, services
  <2> QED
    BY <1>0, <2>1, <2>2 DEF UpInv
<1>12. CASE StartSupervisor
  <2>1. holder # Nobody /\ step = "supervise" /\ \A k \in Kinds : svc[epoch][k] = "running"
    BY <1>0, <1>12, LockFacts DEF UpInv, StartSupervisor
  <2>2. UNCHANGED <<busy, svc, up, epoch>> /\ lifecycle = "running"
    BY <1>12, <2>1, LockFacts DEF StartSupervisor, services, IInv, LockInv
  <2>3. \/ step' = "idle" /\ lifecycle' = "running"
        \/ step' = "stop" /\ at' = 2 /\ holder' = holder
    BY <1>12, <2>2 DEF StartSupervisor, Unlock, Unwind, LastService
  <2> QED
    BY <1>0, <2>1, <2>2, <2>3 DEF UpInv
<1>7. CASE Join \/ JoinRaises \/ Finish
  <2>1. UNCHANGED <<busy, svc, up, epoch, event, sup>>
    BY <1>7 DEF Join, JoinRaises, Finish, services, supervisors, stack
  <2>2. NoneAlive => NoneAlive'
    BY <2>1 DEF NoneAlive, Alive
  <2>3. CASE Join
    <3>1. step' = "stop" /\ at' = 2 /\ holder' = holder /\ holder # Nobody
      BY <2>3, LockFacts DEF Join, LastService
    <3> QED
      BY <2>1, <2>2, <3>1, UpFrame
  <2>4. CASE JoinRaises
    <3>1. step' = "idle" /\ lifecycle' = "stopping"
      BY <2>4, LockFacts DEF JoinRaises, Unlock, stack, IInv, LockInv
    <3> QED
      BY <2>1, <2>2, <3>1, UpFrame
  <2>5. CASE Finish
    <3>1. step' = "idle" /\ AllQuiet
      BY <1>0, <2>5 DEF Finish, Unlock, UpInv
    <3> QED
      BY <2>1, <2>2, <3>1, UpFrame
  <2> QED
    BY <1>7, <2>3, <2>4, <2>5
<1>8. CASE StopService
  <2>1. step = "stop" /\ holder # Nobody /\ event /\ event' /\ (at = 1 => Quiet(2))
    BY <1>0, <1>8, LockFacts DEF StopService, stack, UpInv
  <2>2. UNCHANGED <<busy, epoch, lifecycle, holder>> /\ (IF at = 2 THEN at' = 1 /\ step' = "stop" ELSE step' = "finish")
    BY <1>8, <2>1 DEF StopService, services, stack, LastService
  <2>3. \A e \in Epochs, k \in Kinds : /\ up'[e][k] => up[e][k]
                                       /\ k # at => svc'[e][k] = svc[e][k]
    BY <1>0, <1>8, EpochTypes DEF StopService, services
  <2>4. \A e \in Epochs : ~up'[e][at] /\ busy'[e][at] = 0
    <3>1. CASE epoch = 0
      <4>1. \A e \in Epochs, k \in Kinds : busy[e][k] = 0 /\ ~up[e][k]
        BY <3>1, BusyFacts, EpochTypes
      <4> QED
        BY <1>0, <2>2, <2>3, <4>1
    <3>2. CASE epoch # 0
      <4>1. epoch \in Epochs /\ busy[epoch][at] = 0 /\ ~up'[epoch][at]
        <5>1. epoch \in Epochs
          BY <3>2, EpochTypes
        <5>2. CASE svc[epoch][at] = "stopped" /\ UNCHANGED up
          BY <1>0, <1>8, <3>2, <5>1, <5>2 DEF StopService, Free, UpInv, Quiet
        <5>3. CASE up' = [up EXCEPT ![epoch][at] = FALSE]
          BY <1>0, <1>8, <3>2, <5>1, <5>3 DEF StopService, Free
        <5>4. (svc[epoch][at] = "stopped" /\ UNCHANGED up) \/ up' = [up EXCEPT ![epoch][at] = FALSE]
          BY <1>8, <3>2 DEF StopService
        <5> QED
          BY <5>1, <5>2, <5>3, <5>4
      <4>2. \A e \in Epochs : e # epoch => busy[e][at] = 0 /\ ~up[e][at]
        BY <1>0, BusyFacts
      <4> QED
        BY <1>0, <2>2, <2>3, <4>1, <4>2
    <3> QED
      BY <3>1, <3>2
  <2>5. Quiet(2) => Quiet(2)'
    BY <1>0, <2>2, <2>3, QuietFrame
  <2>6. /\ at = 1 => Quiet(2)' /\ AllQuiet'
        /\ at = 2 => Quiet(2)'
    BY <2>1, <2>4, <2>5 DEF AllQuiet, Quiet
  <2>7. Quiet(2)' /\ (step' = "finish" => AllQuiet')
    BY <1>0, <2>2, <2>6 DEF Kinds
  <2>8. epoch # 0 => \A k \in Kinds : svc'[epoch][k] = "stopped" => Quiet(k)'
    <3> SUFFICES ASSUME epoch # 0, NEW k \in Kinds, svc'[epoch][k] = "stopped" PROVE Quiet(k)'
      OBVIOUS
    <3>1. CASE k = at
      BY <2>4, <3>1 DEF Quiet
    <3>2. CASE k # at
      <4>1. Quiet(k)
        BY <1>0, <2>3, <3>2, EpochTypes DEF UpInv
      <4> QED
        BY <1>0, <2>2, <2>3, <4>1, QuietFrame
    <3> QED
      BY <3>1, <3>2
  <2> QED
    BY <1>0, <2>1, <2>2, <2>3, <2>7, <2>8 DEF UpInv
<1>9. ASSUME NEW e \in Epochs, SupervisorStep(e) PROVE UpInv'
  <2>1. Alive(e) /\ e = epoch /\ UNCHANGED <<lifecycle, event, epoch, holder, task, step, at>> /\ ~NoneAlive
    BY <1>9, SupMoves DEF stack, lock, NoneAlive
  <2>2. step \notin {"prepare", "launch", "announce", "supervise"}
    BY <2>1, LockFacts
  <2>3. \A k \in Kinds : event /\ Quiet(k) => Quiet(k)'
    BY <1>9, QuietSteps
  <2>4. event => (Quiet(2) => Quiet(2)') /\ (AllQuiet => AllQuiet')
    BY <1>0, <2>3 DEF AllQuiet
  <2>5. step \in {"stop", "finish"} => event
    BY LockFacts
  <2>6. lifecycle \in {"new", "stopped", "failed"} /\ holder = Nobody => event
    BY <2>1 DEF IInv, AliveInv
  <2>7. epoch # 0 /\ svc'[epoch][1] \in {"stopping", "stopped"} => event /\ Quiet(2)
    BY <1>0, <1>9, <2>1, ServiceMoves DEF UpInv
  <2>8. \A f \in Epochs, k \in Kinds : up'[f][k] => f = epoch
    BY <1>9, ServiceMoves
  <2>9. \A k \in Kinds : epoch # 0 /\ svc'[epoch][k] = "stopped" => event /\ Quiet(k)
    BY <1>0, <1>9, <2>1, ServiceMoves DEF UpInv
  <2> QED
    BY <1>0, <2>1, <2>2, <2>4, <2>3, <2>5, <2>6, <2>7, <2>8, <2>9 DEF UpInv
<1>10. ASSUME NEW e \in Epochs, NEW k \in Kinds, NativeDies(e, k) PROVE UpInv'
  <2>1. UNCHANGED <<busy, svc, epoch, event, sup, step, at, lifecycle, holder>>
    BY <1>10 DEF NativeDies, stack, lock, supervisors
  <2>2. \A f \in Epochs, j \in Kinds : up'[f][j] => up[f][j]
    BY <1>0, <1>10 DEF NativeDies
  <2>3. NoneAlive => NoneAlive'
    BY <2>1 DEF NoneAlive, Alive
  <2>4. step = "stop" => at = 2 \/ Quiet(2)
    BY <1>0 DEF UpInv, Kinds
  <2> QED
    BY <1>0, <2>1, <2>2, <2>3, <2>4, UpFrame DEF UpInv
<1>11. CASE UNCHANGED vars
  <2>1. UNCHANGED <<busy, svc, up, epoch, event, sup, step, at, lifecycle, holder>>
    BY <1>11 DEF vars, stack, lock, services, supervisors
  <2>2. NoneAlive => NoneAlive'
    BY <2>1 DEF NoneAlive, Alive
  <2>3. step = "stop" => at = 2 \/ Quiet(2)
    BY <1>0 DEF UpInv, Kinds
  <2> QED
    BY <1>0, <2>1, <2>2, <2>3, UpFrame DEF UpInv
<1> QED
  BY <1>1, <1>2, <1>3, <1>4, <1>5, <1>6, <1>7, <1>8, <1>9, <1>10, <1>11, <1>12 DEF Next, HolderStep, CloseSteps

-----------------------------------------------------------------------------
\* The theorems.

LEMMA InvariantStep ==
  ASSUME IInv, Disciplined, [Next]_vars
  PROVE  IInv'
  BY AnyStep, AliveStep, LockStep, UpStep DEF IInv

\* What each supervisor may hold, whoever calls start() and close(), and when.
THEOREM AnyInvariantHolds == Spec => []AnyInv
<1>1. Init => AnyInv
  BY InitEstablishes DEF IInv
<1>2. AnyInv /\ [Next]_vars => AnyInv'
  BY AnyStep
<1> QED
  BY <1>1, <1>2, PTL DEF Spec

\* Two supervisors do not restart the same service (the operation lock of a service
\* in _restart()), although the supervisor of an earlier start may be left over.
THEOREM OneRestartAtATime ==
  Spec => [](\A e, f \in Epochs :
               Restarting(e) /\ Restarting(f) /\ pair[e] = pair[f] /\ kind[e] = kind[f] => e = f)
<1>1. AnyInv => \A e, f \in Epochs :
                  Restarting(e) /\ Restarting(f) /\ pair[e] = pair[f] /\ kind[e] = kind[f] => e = f
  BY DEF AnyInv, BusyInv
<1> QED
  BY <1>1, AnyInvariantHolds, PTL

\* A restart is undisturbed: from the moment it takes the lock of its service to the
\* moment it lets go, nothing else changes the lifecycle of that service or brings up a
\* process for it, neither a close() that came with the restart nor another supervisor
\* (_restart(), stop(), both under the operation lock of the service).
THEOREM RestartsAreUndisturbed ==
  Spec => [][\A e \in Epochs : Restarting(e) /\ sup'[e] = sup[e] =>
               /\ svc'[pair[e]][kind[e]] = svc[pair[e]][kind[e]]
               /\ up'[pair[e]][kind[e]] => up[pair[e]][kind[e]]]_vars
<1> DEFINE Undisturbed == \A e \in Epochs : Restarting(e) /\ sup'[e] = sup[e] =>
                            /\ svc'[pair[e]][kind[e]] = svc[pair[e]][kind[e]]
                            /\ up'[pair[e]][kind[e]] => up[pair[e]][kind[e]]
<1>1. AnyInv /\ [Next]_vars => [Undisturbed]_vars
  <2> SUFFICES ASSUME AnyInv, [Next]_vars, NEW e \in Epochs, Restarting(e), sup'[e] = sup[e],
                      NEW p, p = pair[e], NEW k, k = kind[e],
                      svc'[p][k] # svc[p][k] \/ (up'[p][k] /\ ~up[p][k])
               PROVE  FALSE
    OBVIOUS
  <2>1. p \in Epochs /\ k \in Kinds /\ svc[p][k] # "new" /\ busy[p][k] = e /\ e # 0
    BY PairTypes DEF AnyInv, PairInv, BusyInv, TypeOK, Restarting
  <2>2. ~(step = "launch" /\ p = epoch /\ k = at)
    BY <2>1 DEF AnyInv, PairInv
  <2>3. PICK f \in Epochs : /\ SupervisorStep(f) /\ p = pair[f] /\ k = kind[f]
                           /\ (Restarting(f) \/ (sup[f] = "restart" /\ busy[p][k] = 0))
    BY <2>1, <2>2, ServicesMove
  <2>4. f # e
    <3>1. Restarting(f) => sup'[f] # sup[f]
      BY <2>3, SupervisorMoves
    <3> QED
      BY <3>1
  <2> QED
    BY <2>1, <2>3, <2>4, HeldApart
<1> QED
  BY <1>1, AnyInvariantHolds, PTL DEF Spec

\* The inductive invariant of the stack with disciplined callers.
THEOREM InvariantHolds == ASSUME Disciplined PROVE Spec => []IInv
<1>1. Init => IInv
  BY InitEstablishes
<1>2. IInv /\ [Next]_vars => IInv'
  BY InvariantStep
<1> QED
  BY <1>1, <1>2, PTL DEF Spec

\* The variables stay in their domains.
THEOREM TypesHold == Spec => []TypeOK
<1>1. AnyInv => TypeOK
  BY DEF AnyInv
<1> QED
  BY <1>1, AnyInvariantHolds, PTL

\* A stack that is down runs nothing (close(), _stop_services, _restart).
THEOREM DownRunsNothing == ASSUME Disciplined PROVE Spec => []DownIsDown
<1>1. IInv => DownIsDown
  <2> SUFFICES ASSUME IInv, lifecycle \in {"stopped", "failed"}, holder = Nobody,
                      NEW e \in Epochs, NEW k \in Kinds
               PROVE  ~up[e][k]
    BY DEF DownIsDown
  <2>1. Quiet(1) /\ Quiet(2)
    BY DEF IInv, UpInv, AllQuiet
  <2> QED
    BY <2>1 DEF Quiet, Kinds
<1> QED
  BY <1>1, InvariantHolds, PTL

\* Grafana is down before Prometheus is stopped, and stays down (close()).
THEOREM GrafanaStopsFirst == ASSUME Disciplined PROVE Spec => []OrderedShutdown
<1>1. IInv => OrderedShutdown
  <2> SUFFICES ASSUME IInv, NEW e \in Epochs, svc[e][1] \in {"stopping", "stopped"}, up[e][2]
               PROVE  FALSE
    BY DEF OrderedShutdown
  <2>1. e = epoch /\ e # 0
    BY BusyFacts, EpochTypes DEF Kinds
  <2> QED
    BY <2>1 DEF IInv, UpInv, Quiet
<1> QED
  BY <1>1, InvariantHolds, PTL

\* One supervisor watches a running stack, and none a stopped one (_supervise).
THEOREM OneSupervisor == ASSUME Disciplined PROVE Spec => []SupervisionFollows
<1>1. IInv => SupervisionFollows
  <2> SUFFICES ASSUME IInv
               PROVE  SupervisionFollows
    OBVIOUS
  <2>1. lifecycle = "running" /\ ~event /\ holder = Nobody => epoch \in Epochs /\ Alive(epoch)
    BY EpochTypes DEF IInv, AliveInv
  <2>2. \A e \in Epochs : Alive(e) => e = epoch /\ pair[e] \in {0, epoch}
    BY DEF IInv, AliveInv
  <2>3. lifecycle = "stopped" /\ holder = Nobody => event \/ NoneAlive
    BY DEF IInv, AliveInv
  <2> QED
    BY <2>1, <2>2, <2>3 DEF SupervisionFollows, NoneAlive
<1> QED
  BY <1>1, InvariantHolds, PTL
=============================================================================
