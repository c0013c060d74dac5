--------------------------- MODULE ServiceContract ---------------------------
(***************************************************************************)
(* What one native service (Prometheus or Grafana) promises its owner,     *)
(* whatever its supervisor, its guardian and its log pump do: the          *)
(* lifecycle moves only along the table of LifecycleController, the        *)
(* service holds at most one launched instance, a new instance is acquired *)
(* only while it is starting and holds none, it runs only with an instance *)
(* or attached to somebody else's, and once stopped it never acquires      *)
(* anything again.                                                         *)
(***************************************************************************)
EXTENDS Naturals

VARIABLES
  phase,     \* the state of the service's LifecycleController
  current,   \* the instance the service answers for, 0 for none
  used,      \* how many instances it has acquired so far
  borrowed   \* the service is attached to a listener it does not own

contractVars == <<phase, current, used, borrowed>>

\* LifecycleController._ALLOWED, and the write of the current state, which is
\* accepted and does nothing.
Allowed == [ new      |-> {"starting", "stopped"},
             starting |-> {"running", "failed", "stopping"},
             running  |-> {"starting", "failed", "stopping"},
             failed   |-> {"starting", "stopping", "stopped"},
             stopping |-> {"stopped"},
             stopped  |-> {"starting"} ]

Phases == {"new", "starting", "running", "failed", "stopping", "stopped"}

Init ==
  /\ phase = "new"
  /\ current = 0
  /\ used = 0
  /\ borrowed = FALSE

\* A fresh instance, never while another one is held. An instance can be lost
\* between its launch and the moment the service holds it.
Acquire ==
  /\ phase = "starting"
  /\ current = 0
  /\ ~borrowed
  /\ used' = used + 1
  /\ current' \in {0, used'}
  /\ UNCHANGED <<phase, borrowed>>

\* The instance has been cleaned up, or its cleanup has been reported as failed.
Retire ==
  /\ phase \in {"starting", "stopping"}
  /\ current # 0
  /\ current' = 0
  /\ UNCHANGED <<phase, used, borrowed>>

\* A healthy listener of somebody else is used instead of a launch.
Borrow ==
  /\ phase = "starting"
  /\ used = 0
  /\ borrowed' = TRUE
  /\ UNCHANGED <<phase, current, used>>

\* A transition of the lifecycle.
Move ==
  /\ phase # "stopped"
  /\ phase' \in Allowed[phase]
  /\ phase' = "running" => current # 0 \/ borrowed
  /\ phase = "running" /\ phase' = "starting" => ~borrowed
  /\ phase' \in {"failed", "stopped"} => current = 0
  /\ borrowed' \in {borrowed, FALSE}
  /\ borrowed' # borrowed => phase' = "stopped"
  /\ UNCHANGED <<current, used>>

Next == Acquire \/ Retire \/ Borrow \/ Move

Spec == Init /\ [][Next]_contractVars
=============================================================================
