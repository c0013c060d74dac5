--------------------------- MODULE EndpointContract ---------------------------
(***************************************************************************)
(* What the endpoint API promises its clients: requests change one         *)
(* registry, one at a time, every answer tells what was done, and what was *)
(* answered is what a restart finds. An answer "failed" means that the     *)
(* change is not in force, though a restart may find it; "broken", that it *)
(* is in force because the compensation failed, though a restart may not   *)
(* find it. Nothing else but a change under way is found by a restart.     *)
(***************************************************************************)
EXTENDS FiniteSets, Naturals

CONSTANTS Ids, Forms, Clients, MaxTargets

VARIABLES
  registry,  \* the registered targets
  durable,   \* those a restart finds
  degraded,  \* a compensation has failed, and no later change has succeeded
  request,   \* what each client asked for, or None
  answer     \* what it was told, "none" while it waits

contractVars == <<registry, durable, degraded, request, answer>>

Targets == [id : Ids, form : Forms]
None    == [op |-> "none"]
Waits(c, op) == request[c].op = op /\ answer[c] = "none"
Known(id)    == \E t \in registry : t.id = id
Tell(c, what) == answer' = [answer EXCEPT ![c] = what] /\ UNCHANGED request

\* R is the registry with the change that client c waits for.
Change(c, R) ==
  \/ /\ Waits(c, "register")
     /\ ~Known(request[c].target.id) /\ Cardinality(registry) < MaxTargets
     /\ R = registry \cup {request[c].target}
  \/ /\ Waits(c, "delete")
     /\ \E t \in registry : t.id = request[c].target.id /\ R = registry \ {t}

Init ==
  /\ registry = {} /\ durable = {} /\ degraded = FALSE
  /\ request = [c \in Clients |-> None]
  /\ answer = [c \in Clients |-> "none"]

Ask(c) ==
  /\ request[c] = None \/ answer[c] # "none"
  /\ \E r \in [op : {"register", "delete"}, target : Targets] \cup [op : {"compare"}, ids : SUBSET Ids] :
       request' = [request EXCEPT ![c] = r]
  /\ answer' = [answer EXCEPT ![c] = "none"]
  /\ UNCHANGED <<registry, durable, degraded>>

\* A change is made durable before it is in force, and may be taken back until then.
Write(c) == Change(c, durable') /\ UNCHANGED <<registry, degraded, request, answer>>
Withdraw(c) == Change(c, durable) /\ durable' = registry /\ UNCHANGED <<registry, degraded, request, answer>>

\* A change that is durable comes into force.
Commit(c) == Change(c, durable) /\ registry' = durable /\ degraded' = FALSE /\ UNCHANGED durable
Create(c) == Waits(c, "register") /\ Commit(c) /\ Tell(c, "created")
Delete(c) == Waits(c, "delete") /\ Commit(c) /\ Tell(c, "deleted")

\* An exact repeat returns the registration it finds.
Repeat(c) ==
  /\ Waits(c, "register")
  /\ request[c].target \in registry
  /\ Tell(c, "existing") /\ UNCHANGED <<registry, durable, degraded>>

\* Other fields for a known endpoint, or one endpoint too many; a comparison of
\* an endpoint that is not registered, or not yet published again.
Refuse(c) ==
  /\ \/ /\ Waits(c, "register")
        /\ request[c].target \notin registry
        /\ Known(request[c].target.id) \/ Cardinality(registry) >= MaxTargets
     \/ /\ Waits(c, "compare")
        /\ degraded \/ \E id \in request[c].ids : ~Known(id)
  /\ Tell(c, "refused") /\ UNCHANGED <<registry, durable, degraded>>

\* The endpoint is missing, or its deletion for another client is under way.
Missing(c) ==
  /\ Waits(c, "delete")
  /\ Known(request[c].target.id) =>
       \E d \in Clients \ {c} : /\ Waits(d, "delete") /\ Change(d, durable)
                                /\ request[d].target.id = request[c].target.id
  /\ Tell(c, "missing") /\ UNCHANGED <<registry, durable, degraded>>

Compare(c) ==
  /\ Waits(c, "compare")
  /\ \A id \in request[c].ids : Known(id)
  /\ Tell(c, "compared") /\ UNCHANGED <<registry, durable, degraded>>

\* Nothing was done, or it could not be confirmed that the change is durable.
Fail(c) ==
  /\ answer[c] = "none"
  /\ durable' = durable \/ Change(c, durable')
  /\ Tell(c, "failed") /\ UNCHANGED <<registry, degraded>>

\* The change was taken back, and what follows from the registry brought back or not.
Compensate(c) ==
  /\ Waits(c, "register") \/ Waits(c, "delete")
  /\ durable = registry /\ degraded' \in BOOLEAN
  /\ Tell(c, "failed") /\ UNCHANGED <<registry, durable>>

\* The change could not be taken back.
Break(c) ==
  /\ Change(c, durable)
  /\ registry' = durable /\ durable' \in {registry, durable} /\ degraded' = TRUE
  /\ Tell(c, "broken")

Restart ==
  /\ registry' = durable /\ degraded' = FALSE /\ UNCHANGED durable
  /\ request' = [c \in Clients |-> None]
  /\ answer' = [c \in Clients |-> "none"]

Next ==
  \/ \E c \in Clients :
       \/ Ask(c) \/ Write(c) \/ Withdraw(c) \/ Create(c) \/ Delete(c) \/ Repeat(c) \/ Refuse(c)
       \/ Missing(c) \/ Compare(c) \/ Fail(c) \/ Compensate(c) \/ Break(c)
  \/ Restart

Spec == Init /\ [][Next]_contractVars
=============================================================================
