------------------------- MODULE EndpointTransaction -------------------------
(***************************************************************************)
(* Registration, deletion and comparison of endpoints: the HTTP workers of *)
(* web.py, TargetRegistry with targets.json, ManagedMonitoringStack        *)
(* .reconcile() with the files it writes and the status map it publishes,  *)
(* and the supervisor's status refresh. One mutation lock serializes the   *)
(* changes; a change whose reconciliation fails is compensated. Every      *)
(* file is replaced by atomic_write, which may fail before the replacement *)
(* or after it, and the control plane may be killed between any two steps. *)
(***************************************************************************)
EXTENDS Integers, FiniteSets

CONSTANTS
  Ids,          \* endpoint identities: the digest of host and port
  Forms,        \* name, metrics path and kind of an endpoint
  Clients,      \* HTTP worker threads with a request
  Boot, Nobody, \* the startup, as holder of the lock; no holder
  MaxTargets,   \* SBK_DASHBOARD_MAX_TARGETS
  Faults,       \* the kinds of failure the environment may cause
  MaxFaults,    \* bound: how many in a behaviour
  MaxRequests   \* bound: how many requests in a behaviour

FaultKinds == {"write", "sync", "crash"}

ASSUME EndpointAssumption ==
  /\ Boot \notin Clients /\ Nobody \notin Clients /\ Boot # Nobody
  /\ IsFiniteSet(Ids) /\ IsFiniteSet(Forms)
  /\ MaxTargets \in Nat \ {0} /\ MaxFaults \in Nat /\ MaxRequests \in Nat
  /\ Faults \subseteq FaultKinds

VARIABLES
  \* the registry: _targets, targets.json, and whether the last write of it raised
  memory, disk, unsynced,
  \* what reconcile() writes: discovery, dashboards, comparisons, mappings; what it publishes
  discovery, dashboards, comparisons, mappings, published,
  \* statuses: the generation, the one each endpoint was published in, the one its
  \* status was requested in (0 while pending), and the one being asked for
  generation, joined, seenAt, asked,
  \* the mutation lock, the registry when it was taken, and the progress of its holder
  holder, before, purpose, step,
  \* the clients
  request, found, answer,
  \* bookkeeping of the model: an unhealed compensation, failures and requests so far
  diverged, faults, requests

registryVars == <<memory, disk, unsynced>>
files        == <<discovery, dashboards, comparisons, mappings>>
statuses     == <<published, generation, joined, seenAt>>
lock         == <<holder, before, purpose, step>>
clients      == <<request, found, answer>>
vars == <<registryVars, files, statuses, asked, lock, clients, diverged, faults, requests>>

Targets  == [id : Ids, form : Forms]
None     == [op |-> "none"]
Requests == [op : {"register", "delete"}, target : Targets]
            \cup [op : {"compare"}, ids : {S \in SUBSET Ids : S # {}}]
Answers  == {"none", "created", "existing", "refused", "deleted", "missing", "compared", "failed", "broken"}
IdsOf(R) == {t.id : t \in R}

TypeOK ==
  /\ memory \subseteq Targets /\ disk \subseteq Targets /\ unsynced \in BOOLEAN
  /\ discovery \subseteq Targets /\ dashboards \subseteq Targets /\ mappings \subseteq Targets
  /\ comparisons \subseteq SUBSET Ids
  /\ published \subseteq Targets
  /\ generation \in Nat /\ joined \in [Ids -> 0 .. generation] /\ seenAt \in [Ids -> 0 .. generation]
  /\ asked \in 0 .. generation
  /\ holder \in Clients \cup {Boot, Nobody}
  /\ before \subseteq Targets
  /\ purpose \in {"none", "apply", "undo", "boot"}
  /\ step \in {"idle", "discovery", "dashboards", "mappings", "publish", "rollback"}
  /\ request \in [Clients -> Requests \cup {None}]
  /\ found \in [Clients -> BOOLEAN]
  /\ answer \in [Clients -> Answers]
  /\ diverged \in BOOLEAN
  /\ faults \in 0 .. MaxFaults /\ requests \in 0 .. MaxRequests

\* The first start, on an empty data directory.
Init ==
  /\ memory = {} /\ disk = {} /\ unsynced = FALSE
  /\ discovery = {} /\ dashboards = {} /\ comparisons = {} /\ mappings = {}
  /\ published = {} /\ generation = 0 /\ asked = 0
  /\ joined = [i \in Ids |-> 0] /\ seenAt = [i \in Ids |-> 0]
  /\ holder = Boot /\ before = {} /\ purpose = "boot" /\ step = "discovery"
  /\ request = [c \in Clients |-> None]
  /\ found = [c \in Clients |-> FALSE]
  /\ answer = [c \in Clients |-> "none"]
  /\ diverged = FALSE /\ faults = 0 /\ requests = 0
-----------------------------------------------------------------------------
\* Helper steps.

Disturb(kind) ==
  /\ kind \in Faults
  /\ faults < MaxFaults
  /\ faults' = faults + 1

Waits(c, op) == request[c].op = op /\ answer[c] = "none"
Tell(c, what) == answer' = [answer EXCEPT ![c] = what] /\ UNCHANGED <<request, found>>

Unlock == holder' = Nobody /\ purpose' = "none" /\ step' = "idle" /\ UNCHANGED before

\* atomic_json of targets.json fails: the old content stays, or, when the
\* directory cannot be synchronized, the new content is there already.
PersistFails(next) ==
  /\ \/ Disturb("write") /\ UNCHANGED disk
     \/ Disturb("sync") /\ disk' = next
  /\ unsynced' = TRUE
  /\ UNCHANGED memory

\* TargetRegistry._persist: the new content is written first and published in memory then.
Persist(next) == disk' = next /\ memory' = next /\ unsynced' = FALSE

\* The transaction of client c is under way: its reconciliation comes next.
Transact(c) ==
  /\ holder' = c /\ before' = memory /\ purpose' = "apply" /\ step' = "discovery"
  /\ UNCHANGED clients
-----------------------------------------------------------------------------
\* Requests. HTTP is served once the stack has started.

Ask(c, r) ==
  /\ purpose # "boot"
  /\ request[c] = None \/ answer[c] # "none"
  /\ requests < MaxRequests
  /\ requests' = requests + 1
  /\ request' = [request EXCEPT ![c] = r]
  /\ found' = [found EXCEPT ![c] = FALSE]
  /\ answer' = [answer EXCEPT ![c] = "none"]
  /\ UNCHANGED <<registryVars, files, statuses, asked, lock, diverged, faults>>

\* Defects for the runs: the limit is compared wrongly; the fields are stored as they came.
FullLater == Cardinality(memory) > MaxTargets
Raw(c) == [request[c].target EXCEPT !.form = request[c].op]

\* The limit of the registry, and what is registered for a request.
Full == Cardinality(memory) >= MaxTargets
Normalized(c) == request[c].target

\* POST /api/targets, under the lock: an exact repeat, a refusal, a failed
\* write of the registry, or a new registration that is reconciled next.
Register(c) ==
  LET t == Normalized(c)
      conflict == t.id \in IdsOf(memory)
  IN /\ Waits(c, "register") /\ holder = Nobody
     /\ \/ /\ t \in memory
           /\ Tell(c, "existing") /\ UNCHANGED <<registryVars, lock, faults>>
        \/ /\ t \notin memory /\ (conflict \/ Full)
           /\ Tell(c, "refused") /\ UNCHANGED <<registryVars, lock, faults>>
        \/ /\ t \notin memory /\ ~conflict /\ ~Full
           /\ \/ Persist(memory \cup {t}) /\ Transact(c) /\ UNCHANGED faults
              \/ PersistFails(memory \cup {t}) /\ Tell(c, "failed") /\ UNCHANGED lock
     /\ UNCHANGED <<files, statuses, asked, diverged, requests>>

\* DELETE looks the endpoint up before it waits for the lock.
LookUp(c) ==
  /\ Waits(c, "delete") /\ ~found[c]
  /\ IF request[c].target.id \in IdsOf(memory)
     THEN found' = [found EXCEPT ![c] = TRUE] /\ UNCHANGED <<request, answer>>
     ELSE Tell(c, "missing")
  /\ UNCHANGED <<registryVars, files, statuses, asked, lock, diverged, faults, requests>>

\* ... and again under the lock.
Delete(c) ==
  LET named == {t \in memory : t.id = request[c].target.id}
  IN /\ Waits(c, "delete") /\ found[c] /\ holder = Nobody
     /\ \/ /\ named = {}
           /\ Tell(c, "missing") /\ UNCHANGED <<registryVars, lock, faults>>
        \/ /\ named # {}
           /\ \/ Persist(memory \ named) /\ Transact(c) /\ UNCHANGED faults
              \/ PersistFails(memory \ named) /\ Tell(c, "failed") /\ UNCHANGED lock
     /\ UNCHANGED <<files, statuses, asked, diverged, requests>>

\* POST /api/comparison-dashboard: the selection is checked against the registry
\* and against the published targets, and its descriptor is written.
Compare(c) ==
  LET ids == request[c].ids
  IN /\ Waits(c, "compare") /\ holder = Nobody
     /\ \/ /\ ~(ids \subseteq IdsOf(memory) /\ ids \subseteq IdsOf(published))
           /\ Tell(c, "refused") /\ UNCHANGED <<comparisons, faults>>
        \/ /\ ids \subseteq IdsOf(memory) /\ ids \subseteq IdsOf(published)
           /\ \/ comparisons' = comparisons \cup {ids} /\ Tell(c, "compared") /\ UNCHANGED faults
              \/ Disturb("write") /\ Tell(c, "failed") /\ UNCHANGED comparisons
              \/ Disturb("sync") /\ comparisons' = comparisons \cup {ids} /\ Tell(c, "failed")
     /\ UNCHANGED <<registryVars, discovery, dashboards, mappings, statuses, asked, lock, diverged, requests>>
-----------------------------------------------------------------------------
\* reconcile(), by the holder of the lock: for a change, for its compensation,
\* or at startup. The registry cannot change meanwhile.

\* Defects for the runs: the lock is kept; the change is not compensated.
KeepLock == purpose' = "none" /\ step' = "idle" /\ UNCHANGED <<holder, before>>
Abandon == Unlock /\ Tell(holder, "failed") /\ UNCHANGED diverged

\* The handler returns with its answer, and the lock is released.
Leave == Unlock

\* A failed reconciliation of a change is compensated before the request fails.
Compensate == step' = "rollback" /\ UNCHANGED <<holder, before, purpose, clients, diverged>>

\* The exception of a failed write, by what reconcile() was called for: a change
\* is rolled back, a failed compensation is only logged, a failed start is repeated.
ReconcileFails ==
  \/ purpose = "apply" /\ Compensate
  \/ purpose = "undo" /\ Leave /\ Tell(holder, "failed") /\ diverged' = TRUE
  \/ purpose = "boot" /\ step' = "discovery" /\ UNCHANGED <<holder, before, purpose, clients, diverged>>

Proceed(next) == step' = next /\ UNCHANGED <<holder, before, purpose, clients, diverged, faults>>

\* A write of file content that is memory, or a failure before or after the replacement.
WriteDiscovery ==
  /\ step = "discovery"
  /\ \/ discovery' = memory /\ Proceed("dashboards")
     \/ Disturb("write") /\ UNCHANGED discovery /\ ReconcileFails
     \/ Disturb("sync") /\ discovery' = memory /\ ReconcileFails
  /\ UNCHANGED <<registryVars, dashboards, comparisons, mappings, statuses, asked, requests>>

\* Comparisons all of whose endpoints are still registered.
Resolvable(R) == {S \in comparisons : S \subseteq IdsOf(R)}

\* Defect for the runs: the mappings are forgotten.
SkipMappings == "publish"

\* Discovery, dashboards, mappings, publication.
AfterDashboards == "mappings"

\* Dashboards are written one by one, then what is no longer expected is removed:
\* a failure leaves the work half done. The file of an endpoint is named by its id.
WriteDashboards ==
  /\ step = "dashboards"
  /\ \/ /\ dashboards' = memory
        /\ comparisons' = Resolvable(memory)
        /\ Proceed(AfterDashboards)
     \/ /\ Disturb("write")
        /\ \/ /\ \E done \in SUBSET memory :
                   dashboards' = {t \in dashboards : t.id \notin IdsOf(done)} \cup done
              /\ UNCHANGED comparisons
           \/ /\ \E kept \in SUBSET (dashboards \ memory) :
                   dashboards' = memory \cup {t \in kept : t.id \notin IdsOf(memory)}
              /\ \E kept \in SUBSET comparisons : comparisons' = Resolvable(memory) \cup kept
        /\ ReconcileFails
  /\ UNCHANGED <<registryVars, discovery, mappings, statuses, asked, requests>>

WriteMappings ==
  /\ step = "mappings"
  /\ \/ mappings' = memory /\ Proceed("publish")
     \/ Disturb("write") /\ UNCHANGED mappings /\ ReconcileFails
     \/ Disturb("sync") /\ mappings' = memory /\ ReconcileFails
  /\ UNCHANGED <<registryVars, discovery, dashboards, comparisons, statuses, asked, requests>>

\* The new target tuple and status map replace the old ones: a status is kept
\* for an endpoint that stays, a new endpoint is pending.
Publish ==
  /\ step = "publish"
  /\ generation' = generation + 1
  /\ published' = memory
  /\ LET stays == IdsOf(published) \cap IdsOf(memory)
     IN /\ joined' = [i \in Ids |-> IF i \in stays THEN joined[i]
                                    ELSE IF i \in IdsOf(memory) THEN generation' ELSE 0]
        /\ seenAt' = [i \in Ids |-> IF i \in stays THEN seenAt[i] ELSE 0]
  /\ Unlock
  /\ IF purpose = "boot" THEN UNCHANGED clients
     ELSE Tell(holder, IF purpose = "undo" THEN "failed"
                       ELSE IF request[holder].op = "register" THEN "created" ELSE "deleted")
  /\ diverged' = FALSE
  /\ UNCHANGED <<registryVars, files, asked, faults, requests>>

\* restore() checks the limit again.
Room == Cardinality(memory) < MaxTargets

\* remove() of what was registered, or restore() of what was deleted. When that
\* fails too, the client is told so and nothing is reconciled.
RollBack ==
  LET t == request[holder].target
      deleted == before \ memory
      next == IF request[holder].op = "register" THEN memory \ {t} ELSE memory \cup deleted
      refused == request[holder].op = "delete" /\ (IdsOf(deleted) \cap IdsOf(memory) # {} \/ ~Room)
  IN /\ step = "rollback"
     /\ \/ /\ ~refused
           /\ Persist(next)
           /\ purpose' = "undo" /\ step' = "discovery"
           /\ UNCHANGED <<holder, before, clients, faults, diverged>>
        \/ /\ ~refused
           /\ PersistFails(next)
           /\ Unlock /\ Tell(holder, "broken") /\ diverged' = TRUE
        \/ /\ refused
           /\ UNCHANGED <<registryVars, faults>>
           /\ Unlock /\ Tell(holder, "broken") /\ diverged' = TRUE
     /\ UNCHANGED <<files, statuses, asked, requests>>
-----------------------------------------------------------------------------
\* The status refresh of the supervisor, and the death of the control plane.

AskPrometheus ==
  /\ purpose # "boot"
  /\ asked = 0
  /\ asked' = generation
  /\ UNCHANGED <<registryVars, files, statuses, lock, clients, diverged, faults, requests>>

\* Defect for the runs: the generation is not compared.
AnyGeneration == TRUE

\* A response is used only if no reconciliation was published since it was requested.
StillCurrent == asked = generation

\* The response gives every published endpoint a status; a response that is
\* outdated, or an error, changes nothing.
Refresh ==
  /\ asked # 0
  /\ asked' = 0
  /\ \/ /\ StillCurrent
        /\ seenAt' = [i \in Ids |-> IF i \in IdsOf(published) THEN asked ELSE 0]
     \/ UNCHANGED seenAt
  /\ UNCHANGED <<registryVars, files, published, generation, joined, lock, clients, diverged, faults, requests>>

\* The control plane is killed and started again: the registry is loaded, the
\* statuses are empty, and the requests are lost.
Crash ==
  /\ Disturb("crash")
  /\ memory' = disk /\ unsynced' = FALSE
  /\ published' = {} /\ generation' = 0 /\ asked' = 0
  /\ joined' = [i \in Ids |-> 0] /\ seenAt' = [i \in Ids |-> 0]
  /\ holder' = Boot /\ before' = {} /\ purpose' = "boot" /\ step' = "discovery"
  /\ request' = [c \in Clients |-> None]
  /\ found' = [c \in Clients |-> FALSE]
  /\ answer' = [c \in Clients |-> "none"]
  /\ diverged' = FALSE
  /\ UNCHANGED <<disk, files, requests>>
-----------------------------------------------------------------------------
Handle(c)  == Register(c) \/ LookUp(c) \/ Delete(c) \/ Compare(c)
Reconcile  == WriteDiscovery \/ WriteDashboards \/ WriteMappings \/ Publish \/ RollBack

Next ==
  \/ \E c \in Clients : (\E r \in Requests : Ask(c, r)) \/ Handle(c)
  \/ Reconcile
  \/ AskPrometheus \/ Refresh \/ Crash

Spec == Init /\ [][Next]_vars

\* A worker that waits for the lock gets it once it stays free, and the holder
\* of the lock does its file operations. Requests, refreshes and failures are
\* never forced.
Fairness == WF_vars(Reconcile) /\ \A c \in Clients : WF_vars(Handle(c))

FairSpec == Spec /\ Fairness
-----------------------------------------------------------------------------
\* Properties.

\* Between changes, registry, discovery, dashboards, mappings, comparisons and
\* published statuses agree, unless a compensation has failed; the next change
\* that succeeds repairs even that (web.py _targets, _target and reconcile()).
Agreement ==
  holder = Nobody /\ ~diverged =>
    /\ discovery = memory /\ dashboards = memory /\ mappings = memory /\ published = memory
    /\ \A S \in comparisons : S \subseteq IdsOf(memory)

\* Whatever fails at whatever step, the next start can load the registry: no
\* identity is stored twice and the limit holds (TargetRegistry.__init__ raises
\* otherwise).  It loads what the API shows, unless the last write raised: then
\* they differ in at most the one endpoint of that write.  And restore() never
\* refuses what a failed deletion gives back: its slot and its identity cannot
\* have been taken meanwhile (registry.py:147).
Loadable(R) == Cardinality(IdsOf(R)) = Cardinality(R) /\ Cardinality(R) <= MaxTargets

RegistryIsDurable ==
  /\ Loadable(disk)
  /\ ~unsynced => disk = memory
  /\ Cardinality((disk \ memory) \cup (memory \ disk)) <= 1
  /\ step = "rollback" /\ request[holder].op = "delete" =>
       IdsOf(before \ memory) \cap IdsOf(memory) = {} /\ Room

\* An endpoint has a status only from a response that was requested after the
\* endpoint was published (docs/ARCHITECTURE.md:235, obsolete generations).
StatusIsCurrent == \A i \in Ids : seenAt[i] # 0 => seenAt[i] >= joined[i]

\* The API implements its contract: what is in force is the registry, or what
\* it was before the change in progress; what a restart finds is on disk.
Committed == IF holder \in Clients THEN before ELSE memory
Contract == INSTANCE EndpointContract WITH registry <- Committed, durable <- disk, degraded <- diverged
ImplementsContract == Contract!Spec

\* Every request is answered, or lost with the control plane: a failure at any
\* step of a change or of its compensation frees the mutation lock.
RequestsAreAnswered ==
  \A c \in Clients : request[c] # None ~> request[c] = None \/ answer[c] # "none"
=============================================================================
