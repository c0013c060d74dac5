---------------------------- MODULE EndpointProofs ----------------------------
(***************************************************************************)
(* Proofs about EndpointTransaction for any endpoints, clients, limit,     *)
(* faults and requests.  What a rollback, a crash or an answer may rely on *)
(* depends on how far the transaction of the lock's holder has come:       *)
(* LockInv says what each step knows about the registry, FileInv which     *)
(* files have been written already.                                        *)
(***************************************************************************)
EXTENDS EndpointTransaction, FiniteSetTheorems, TLAPS

Fits(R) ==
  /\ IsFiniteSet(R) /\ Cardinality(R) <= MaxTargets
  /\ \A t, u \in R : t.id = u.id => t = u

NearTo(R, S) == R = S \/ \E t \in Targets : R = S \cup {t} \/ R = S \ {t}

\* The registry in memory and on disk.
RegistryInv ==
  /\ Fits(memory) /\ Fits(disk)
  /\ NearTo(disk, memory) /\ (~unsynced => disk = memory)

\* What the holder of the lock has done.
Registered == memory = before \cup {request[holder].target} /\ request[holder].target \notin before
Deleted == \E t \in before : t.id = request[holder].target.id /\ memory = before \ {t}

LockInv ==
  /\ holder = Nobody <=> purpose = "none"
  /\ holder = Nobody <=> step = "idle"
  /\ holder = Boot <=> purpose = "boot"
  /\ step = "rollback" => purpose = "apply"
  /\ purpose \in {"apply", "undo"} =>
       /\ answer[holder] = "none" /\ request[holder].op \in {"register", "delete"}
       /\ request[holder].op = "delete" => found[holder]
       /\ disk = memory /\ Fits(before)
  /\ purpose = "undo" => memory = before
  /\ purpose = "apply" /\ request[holder].op = "register" => Registered
  /\ purpose = "apply" /\ request[holder].op = "delete" => Deleted

\* Which files are written already.
FileInv ==
  /\ Agreement
  /\ step \in {"dashboards", "mappings", "publish"} => discovery = memory
  /\ step \in {"mappings", "publish"} =>
       dashboards = memory /\ \A S \in comparisons : S \subseteq IdsOf(memory)
  /\ step = "publish" => mappings = memory

\* A start begins with nothing to be compensated.
BootInv == purpose = "boot" => ~diverged

IInv == TypeOK /\ RegistryInv /\ LockInv /\ FileInv /\ BootInv /\ StatusIsCurrent

-----------------------------------------------------------------------------
\* Facts about data.
LEMMA RequestTypes ==
  ASSUME NEW r \in Requests \cup {None}
  PROVE  /\ r.op \in {"register", "delete"} => r.target \in Targets /\ r.target.id \in Ids /\ r # None
         /\ r.op = "compare" => r.ids \in SUBSET Ids /\ r # None
<1>1. CASE r \in [op : {"register", "delete"}, target : Targets]
  BY <1>1 DEF Targets, None
<1>2. CASE r \in [op : {"compare"}, ids : {S \in SUBSET Ids : S # {}}]
  BY <1>2 DEF None
<1>3. CASE r = None
  BY <1>3 DEF None
<1> QED
  BY <1>1, <1>2, <1>3 DEF Requests

LEMMA EmptyFits == Fits({})
  BY FS_EmptySet, EndpointAssumption DEF Fits

LEMMA SubsetFits ==
  ASSUME NEW R, Fits(R), NEW S \in SUBSET R
  PROVE  Fits(S) /\ Cardinality(S) <= Cardinality(R)
<1>1. IsFiniteSet(S) /\ Cardinality(S) <= Cardinality(R)
  BY FS_Subset DEF Fits
<1>2. Cardinality(S) \in Nat /\ Cardinality(R) \in Nat
  BY <1>1, FS_CardinalityType DEF Fits
<1> QED
  BY <1>1, <1>2, EndpointAssumption DEF Fits

LEMMA AddedFits ==
  ASSUME NEW R, Fits(R), NEW t, t.id \notin IdsOf(R), ~(Cardinality(R) >= MaxTargets)
  PROVE  Fits(R \cup {t})
<1>1. IsFiniteSet(R \cup {t}) /\ Cardinality(R \cup {t}) <= Cardinality(R) + 1
  <2>1. IsFiniteSet(R)
    BY DEF Fits
  <2>2. Cardinality(R) \in Nat
    BY <2>1, FS_CardinalityType
  <2>3. IsFiniteSet(R \cup {t})
        /\ Cardinality(R \cup {t}) = IF t \in R THEN Cardinality(R) ELSE Cardinality(R) + 1
    BY <2>1, FS_AddElement
  <2> QED
    BY <2>2, <2>3
<1>2. Cardinality(R) \in Nat /\ Cardinality(R \cup {t}) \in Nat
  BY <1>1, FS_CardinalityType DEF Fits
<1>3. \A u, v \in R \cup {t} : u.id = v.id => u = v
  BY DEF Fits, IdsOf
<1> QED
  BY <1>1, <1>2, <1>3, EndpointAssumption DEF Fits

\* A registry that fits can be loaded.
LEMMA FittingLoads == ASSUME NEW R, Fits(R) PROVE Loadable(R)
<1> DEFINE f == [t \in R |-> t.id]
<1>1. f \in Injection(R, IdsOf(R))
  BY DEF Fits, IdsOf, Injection, IsInjective
<1>2. f \in Surjection(R, IdsOf(R))
  BY DEF IdsOf, Surjection
<1>3. ExistsBijection(R, IdsOf(R))
  BY <1>1, <1>2 DEF ExistsBijection, Bijection
<1>4. Cardinality(IdsOf(R)) = Cardinality(R)
  BY <1>3, FS_Bijection DEF Fits
<1> QED
  BY <1>4 DEF Loadable, Fits

LEMMA NearCount ==
  ASSUME NEW R, NEW S, NearTo(R, S)
  PROVE  Cardinality((R \ S) \cup (S \ R)) <= 1
<1>1. (R \ S) \cup (S \ R) = {} \/ \E t : (R \ S) \cup (S \ R) = {t}
  <2>1. CASE R = S
    BY <2>1
  <2>2. ASSUME NEW t \in Targets, R = S \cup {t} \/ R = S \ {t}
        PROVE  (R \ S) \cup (S \ R) = {} \/ (R \ S) \cup (S \ R) = {t}
    BY <2>2
  <2> QED
    BY <2>1, <2>2 DEF NearTo
<1>2. Cardinality({}) = 0 /\ \A t : Cardinality({t}) = 1
  BY FS_EmptySet, FS_Singleton
<1> QED
  BY <1>1, <1>2

\* An identity names at most one endpoint.
LEMMA NamedIsOne ==
  ASSUME NEW R, Fits(R), NEW id, {t \in R : t.id = id} # {}
  PROVE  \E t \in R : t.id = id /\ R \ {u \in R : u.id = id} = R \ {t}
<1>1. PICK t \in R : t.id = id
  OBVIOUS
<1>2. {u \in R : u.id = id} = {t}
  BY <1>1 DEF Fits
<1> QED
  BY <1>1, <1>2

-----------------------------------------------------------------------------
\* What the steps of a transaction may rely on.
LEMMA HolderIsClient ==
  ASSUME IInv, purpose \in {"apply", "undo"}
  PROVE  /\ holder \in Clients /\ holder # Boot /\ holder # Nobody /\ step # "idle"
         /\ request[holder].target \in Targets /\ request[holder] # None
<1>1. holder \in Clients /\ holder # Boot /\ holder # Nobody /\ step # "idle"
  BY DEF IInv, TypeOK, LockInv
<1>2. request[holder] \in Requests \cup {None} /\ request[holder].op \in {"register", "delete"}
  BY <1>1 DEF IInv, TypeOK, LockInv
<1> QED
  BY <1>1, <1>2, RequestTypes

LEMMA HolderIsNobody ==
  ASSUME IInv, holder \notin Clients \cup {Boot}
  PROVE  holder = Nobody /\ purpose = "none" /\ step = "idle"
  BY DEF IInv, TypeOK, LockInv

\* The registry before a change is near the one after it, and can be restored.
LEMMA BackIsPossible ==
  ASSUME IInv, purpose = "apply"
  PROVE  /\ NearTo(before, memory) /\ NearTo(memory, before)
         /\ request[holder].op = "register" => memory \ {request[holder].target} = before
         /\ request[holder].op = "delete" =>
              /\ memory \cup (before \ memory) = before
              /\ IdsOf(before \ memory) \cap IdsOf(memory) = {} /\ Room
<1>1. request[holder].target \in Targets /\ before \subseteq Targets /\ Fits(before)
  BY HolderIsClient DEF IInv, TypeOK, LockInv
<1>2. request[holder].op \in {"register", "delete"}
  BY DEF IInv, LockInv
<1>3. CASE request[holder].op = "register"
  <2>1. memory = before \cup {request[holder].target} /\ request[holder].target \notin before
    BY <1>3 DEF IInv, LockInv, Registered
  <2>2. memory \ {request[holder].target} = before
    BY <2>1
  <2> QED
    BY <1>1, <1>3, <2>1, <2>2 DEF NearTo
<1>4. CASE request[holder].op = "delete"
  <2>1. PICK t \in before : t.id = request[holder].target.id /\ memory = before \ {t}
    BY <1>4 DEF IInv, LockInv, Deleted
  <2>2. before \ memory = {t} /\ before = memory \cup {t}
    BY <2>1
  <2>3. IdsOf(before \ memory) \cap IdsOf(memory) = {}
    <3>1. ASSUME NEW u \in memory PROVE u.id # t.id
      BY <1>1, <2>1 DEF Fits
    <3> QED
      BY <2>2, <3>1 DEF IdsOf
  <2>4. Cardinality(memory) = Cardinality(before) - 1 /\ Cardinality(before) \in Nat
    BY <1>1, <2>1, FS_RemoveElement, FS_CardinalityType DEF Fits
  <2>5. Room
    BY <1>1, <2>4, EndpointAssumption DEF Fits, Room
  <2>6. NearTo(before, memory) /\ NearTo(memory, before)
    BY <1>1, <2>1, <2>2 DEF NearTo
  <2> QED
    BY <1>4, <2>2, <2>3, <2>5, <2>6
<1> QED
  BY <1>2, <1>3, <1>4

\* So a rollback is never refused: it restores the registry or fails to write it.
LEMMA RollBackOutcome ==
  ASSUME IInv, RollBack
  PROVE  /\ step = "rollback" /\ purpose = "apply"
         /\ UNCHANGED <<files, statuses, asked, requests>>
         /\ \/ /\ Persist(before) /\ purpose' = "undo" /\ step' = "discovery"
               /\ UNCHANGED <<holder, before, clients, faults, diverged>>
            \/ PersistFails(before) /\ Unlock /\ Tell(holder, "broken") /\ diverged' = TRUE
<1>1. step = "rollback" /\ purpose = "apply"
  BY DEF RollBack, IInv, LockInv
<1>2. request[holder].op = "register" \/ request[holder].op = "delete"
  BY <1>1 DEF IInv, LockInv
<1>3. CASE request[holder].op = "register"
  BY <1>1, <1>3, BackIsPossible DEF RollBack
<1>4. CASE request[holder].op = "delete"
  BY <1>1, <1>4, BackIsPossible DEF RollBack
<1> QED
  BY <1>2, <1>3, <1>4

\* A change that is registered is the one its transaction is about.
LEMMA RegisterOutcome ==
  ASSUME IInv, NEW c \in Clients, Register(c)
  PROVE  /\ holder = Nobody /\ Waits(c, "register") /\ request[c].target \in Targets
         /\ UNCHANGED <<files, statuses, asked, diverged, requests>>
         /\ \/ Tell(c, "existing") /\ request[c].target \in memory /\ UNCHANGED <<registryVars, lock, faults>>
            \/ /\ Tell(c, "refused") /\ UNCHANGED <<registryVars, lock, faults>>
               /\ request[c].target \notin memory
               /\ request[c].target.id \in IdsOf(memory) \/ Cardinality(memory) >= MaxTargets
            \/ /\ Fits(memory \cup {request[c].target}) /\ NearTo(memory \cup {request[c].target}, memory)
               /\ request[c].target \notin memory
               /\ \/ Persist(memory \cup {request[c].target}) /\ Transact(c) /\ UNCHANGED faults
                  \/ PersistFails(memory \cup {request[c].target}) /\ Tell(c, "failed") /\ UNCHANGED lock
<1> DEFINE t == request[c].target
<1>1. request[c] \in Requests \cup {None} /\ request[c].op = "register" /\ Fits(memory)
  BY DEF IInv, TypeOK, RegistryInv, Register, Waits
<1>2. t \in Targets
  BY <1>1, RequestTypes
<1>3. t.id \notin IdsOf(memory) /\ ~Full => Fits(memory \cup {t})
  BY <1>1, AddedFits DEF Full
<1>4. NearTo(memory \cup {t}, memory)
  BY <1>2 DEF NearTo
<1> QED
  BY <1>2, <1>3, <1>4 DEF Register, Normalized, Full

LEMMA DeleteOutcome ==
  ASSUME IInv, NEW c \in Clients, Delete(c)
  PROVE  /\ holder = Nobody /\ Waits(c, "delete") /\ found[c]
         /\ UNCHANGED <<files, statuses, asked, diverged, requests>>
         /\ \/ /\ Tell(c, "missing") /\ UNCHANGED <<registryVars, lock, faults>>
               /\ request[c].target.id \notin IdsOf(memory)
            \/ \E t \in memory :
                 /\ t.id = request[c].target.id
                 /\ Fits(memory \ {t}) /\ NearTo(memory \ {t}, memory)
                 /\ \/ Persist(memory \ {t}) /\ Transact(c) /\ UNCHANGED faults
                    \/ PersistFails(memory \ {t}) /\ Tell(c, "failed") /\ UNCHANGED lock
<1> DEFINE named == {t \in memory : t.id = request[c].target.id}
<1>1. Fits(memory) /\ memory \subseteq Targets
  BY DEF IInv, TypeOK, RegistryInv
<1>2. CASE named = {}
  BY <1>2 DEF Delete, IdsOf
<1>3. CASE named # {}
  <2>1. PICK t \in memory : t.id = request[c].target.id /\ memory \ named = memory \ {t}
    BY <1>1, <1>3, NamedIsOne
  <2>2. Fits(memory \ {t}) /\ NearTo(memory \ {t}, memory)
    BY <1>1, SubsetFits DEF NearTo
  <2>3. /\ holder = Nobody /\ Waits(c, "delete") /\ found[c]
        /\ UNCHANGED <<files, statuses, asked, diverged, requests>>
        /\ \/ Persist(memory \ named) /\ Transact(c) /\ UNCHANGED faults
           \/ PersistFails(memory \ named) /\ Tell(c, "failed") /\ UNCHANGED lock
    BY <1>3 DEF Delete
  <2> QED
    BY <2>1, <2>2, <2>3
<1> QED
  BY <1>2, <1>3

-----------------------------------------------------------------------------
\* The invariant holds initially.
LEMMA InitEstablishes == Init => IInv
<1> SUFFICES ASSUME Init PROVE IInv
  OBVIOUS
<1>1. TypeOK
  <2>1. 0 \in 0 .. 0 /\ 0 \in 0 .. MaxFaults /\ 0 \in 0 .. MaxRequests
    BY EndpointAssumption
  <2>2. /\ joined \in [Ids -> 0 .. generation] /\ seenAt \in [Ids -> 0 .. generation]
        /\ generation \in Nat /\ asked \in 0 .. generation
    BY <2>1 DEF Init
  <2>3. /\ request \in [Clients -> Requests \cup {None}]
        /\ found \in [Clients -> BOOLEAN] /\ answer \in [Clients -> Answers]
    BY DEF Init, Answers
  <2> QED
    BY <2>1, <2>2, <2>3 DEF Init, TypeOK
<1>2. RegistryInv
  BY EmptyFits DEF Init, RegistryInv, NearTo
<1>3. LockInv
  BY EndpointAssumption DEF Init, LockInv
<1>4. FileInv
  BY EndpointAssumption DEF Init, FileInv, Agreement
<1>5. BootInv /\ StatusIsCurrent
  BY DEF Init, BootInv, StatusIsCurrent
<1> QED
  BY <1>1, <1>2, <1>3, <1>4, <1>5 DEF IInv

-----------------------------------------------------------------------------
\* Types of what the helper steps change.
LEMMA DisturbTypes ==
  ASSUME TypeOK, NEW kind, Disturb(kind)
  PROVE  faults' \in 0 .. MaxFaults
  BY EndpointAssumption DEF TypeOK, Disturb

LEMMA TellTypes ==
  ASSUME TypeOK, NEW c \in Clients, NEW what \in Answers, Tell(c, what)
  PROVE  /\ request' \in [Clients -> Requests \cup {None}]
         /\ found' \in [Clients -> BOOLEAN] /\ answer' \in [Clients -> Answers]
  BY DEF TypeOK, Tell

LEMMA PersistTypes ==
  ASSUME TypeOK, NEW next \in SUBSET Targets,
         (Persist(next) /\ UNCHANGED faults) \/ PersistFails(next)
  PROVE  /\ memory' \subseteq Targets /\ disk' \subseteq Targets /\ unsynced' \in BOOLEAN
         /\ faults' \in 0 .. MaxFaults
<1>1. CASE Persist(next) /\ UNCHANGED faults
  BY <1>1 DEF TypeOK, Persist
<1>2. CASE PersistFails(next)
  BY <1>2, DisturbTypes DEF TypeOK, PersistFails
<1> QED
  BY <1>1, <1>2

LEMMA UnlockTypes ==
  ASSUME TypeOK, Unlock
  PROVE  /\ holder' \in Clients \cup {Boot, Nobody} /\ before' \subseteq Targets
         /\ purpose' \in {"none", "apply", "undo", "boot"}
         /\ step' \in {"idle", "discovery", "dashboards", "mappings", "publish", "rollback"}
  BY DEF TypeOK, Unlock

\* What a failed write of a reconciliation leaves.
LEMMA FailTypes ==
  ASSUME IInv, ReconcileFails
  PROVE  /\ holder' \in Clients \cup {Boot, Nobody} /\ before' \subseteq Targets
         /\ purpose' \in {"none", "apply", "undo", "boot"}
         /\ step' \in {"idle", "discovery", "dashboards", "mappings", "publish", "rollback"}
         /\ request' \in [Clients -> Requests \cup {None}]
         /\ found' \in [Clients -> BOOLEAN] /\ answer' \in [Clients -> Answers]
         /\ diverged' \in BOOLEAN
<1>1. TypeOK
  BY DEF IInv
<1>2. CASE purpose = "apply" /\ Compensate
  BY <1>1, <1>2 DEF TypeOK, Compensate, clients
<1>3. CASE purpose = "undo" /\ Leave /\ Tell(holder, "failed") /\ diverged' = TRUE
  <2>1. holder \in Clients /\ "failed" \in Answers
    BY <1>3, HolderIsClient DEF Answers
  <2> QED
    BY <1>1, <1>3, <2>1, TellTypes, UnlockTypes DEF Leave
<1>4. CASE purpose = "boot" /\ step' = "discovery" /\ UNCHANGED <<holder, before, purpose, clients, diverged>>
  BY <1>1, <1>4 DEF TypeOK, clients
<1> QED
  BY <1>2, <1>3, <1>4 DEF ReconcileFails

LEMMA ProceedTypes ==
  ASSUME TypeOK, NEW next \in {"dashboards", "mappings", "publish"}, Proceed(next)
  PROVE  /\ holder' \in Clients \cup {Boot, Nobody} /\ before' \subseteq Targets
         /\ purpose' \in {"none", "apply", "undo", "boot"}
         /\ step' \in {"idle", "discovery", "dashboards", "mappings", "publish", "rollback"}
         /\ request' \in [Clients -> Requests \cup {None}]
         /\ found' \in [Clients -> BOOLEAN] /\ answer' \in [Clients -> Answers]
         /\ diverged' \in BOOLEAN /\ faults' \in 0 .. MaxFaults
  BY DEF TypeOK, Proceed, clients

LEMMA TransactTypes ==
  ASSUME TypeOK, NEW c \in Clients, Transact(c)
  PROVE  /\ holder' \in Clients \cup {Boot, Nobody} /\ before' \subseteq Targets
         /\ purpose' \in {"none", "apply", "undo", "boot"}
         /\ step' \in {"idle", "discovery", "dashboards", "mappings", "publish", "rollback"}
         /\ request' \in [Clients -> Requests \cup {None}]
         /\ found' \in [Clients -> BOOLEAN] /\ answer' \in [Clients -> Answers]
  BY DEF TypeOK, Transact, clients

\* A handler's change of the registry: it takes the lock or fails.
LEMMA HandlerTypes ==
  ASSUME TypeOK, NEW c \in Clients, NEW next \in SUBSET Targets,
         UNCHANGED <<files, statuses, asked, diverged, requests>>,
         \/ Persist(next) /\ Transact(c) /\ UNCHANGED faults
         \/ PersistFails(next) /\ Tell(c, "failed") /\ UNCHANGED lock
  PROVE  TypeOK'
<1>1. CASE Persist(next) /\ Transact(c) /\ UNCHANGED faults
  BY <1>1, PersistTypes, TransactTypes DEF TypeOK, files, statuses
<1>2. CASE PersistFails(next) /\ Tell(c, "failed") /\ UNCHANGED lock
  <2>1. "failed" \in Answers
    BY DEF Answers
  <2> QED
    BY <1>2, <2>1, PersistTypes, TellTypes DEF TypeOK, files, statuses, lock
<1> QED
  BY <1>1, <1>2

LEMMA TypeStep == ASSUME IInv, [Next]_vars PROVE TypeOK'
<1>0. TypeOK
  BY DEF IInv
<1>1. ASSUME NEW c \in Clients, NEW r \in Requests, Ask(c, r) PROVE TypeOK'
  <2>1. requests' \in 0 .. MaxRequests
    BY <1>0, <1>1, EndpointAssumption DEF TypeOK, Ask
  <2>2. /\ request' \in [Clients -> Requests \cup {None}]
        /\ found' \in [Clients -> BOOLEAN] /\ answer' \in [Clients -> Answers]
    BY <1>0, <1>1 DEF TypeOK, Ask, Answers
  <2> QED
    BY <1>0, <1>1, <2>1, <2>2 DEF TypeOK, Ask, registryVars, files, statuses, lock
<1>2. ASSUME NEW c \in Clients, Register(c) PROVE TypeOK'
  <2>1. /\ request[c].target \in Targets /\ UNCHANGED <<files, statuses, asked, diverged, requests>>
        /\ \/ \E what \in {"existing", "refused"} : Tell(c, what) /\ UNCHANGED <<registryVars, lock, faults>>
           \/ Persist(memory \cup {request[c].target}) /\ Transact(c) /\ UNCHANGED faults
           \/ PersistFails(memory \cup {request[c].target}) /\ Tell(c, "failed") /\ UNCHANGED lock
    BY <1>2, RegisterOutcome
  <2>2. memory \cup {request[c].target} \in SUBSET Targets
    BY <1>0, <2>1 DEF TypeOK
  <2>3. CASE \E what \in {"existing", "refused"} : Tell(c, what) /\ UNCHANGED <<registryVars, lock, faults>>
    <3>1. PICK what \in {"existing", "refused"} : Tell(c, what) /\ UNCHANGED <<registryVars, lock, faults>>
      BY <2>3
    <3>2. what \in Answers
      BY DEF Answers
    <3> QED
      BY <1>0, <2>1, <3>1, <3>2, TellTypes DEF TypeOK, registryVars, files, statuses, lock
  <2> QED
    BY <1>0, <2>1, <2>2, <2>3, HandlerTypes
<1>3. ASSUME NEW c \in Clients, LookUp(c) PROVE TypeOK'
  <2>1. /\ request' \in [Clients -> Requests \cup {None}]
        /\ found' \in [Clients -> BOOLEAN] /\ answer' \in [Clients -> Answers]
    BY <1>0, <1>3 DEF TypeOK, LookUp, Tell, Answers
  <2> QED
    BY <1>0, <1>3, <2>1 DEF TypeOK, LookUp, registryVars, files, statuses, lock
<1>4. ASSUME NEW c \in Clients, Delete(c) PROVE TypeOK'
  <2>1. /\ UNCHANGED <<files, statuses, asked, diverged, requests>>
        /\ \/ Tell(c, "missing") /\ UNCHANGED <<registryVars, lock, faults>>
           \/ \E t \in memory :
                \/ Persist(memory \ {t}) /\ Transact(c) /\ UNCHANGED faults
                \/ PersistFails(memory \ {t}) /\ Tell(c, "failed") /\ UNCHANGED lock
    BY <1>4, DeleteOutcome
  <2>2. CASE Tell(c, "missing") /\ UNCHANGED <<registryVars, lock, faults>>
    <3>1. "missing" \in Answers
      BY DEF Answers
    <3> QED
      BY <1>0, <2>1, <2>2, <3>1, TellTypes DEF TypeOK, registryVars, files, statuses, lock
  <2>3. ASSUME NEW t \in memory,
               \/ Persist(memory \ {t}) /\ Transact(c) /\ UNCHANGED faults
               \/ PersistFails(memory \ {t}) /\ Tell(c, "failed") /\ UNCHANGED lock
        PROVE  TypeOK'
    <3>1. memory \ {t} \in SUBSET Targets
      BY <1>0 DEF TypeOK
    <3> QED
      BY <1>0, <2>1, <2>3, <3>1, HandlerTypes
  <2> QED
    BY <2>1, <2>2, <2>3
<1>5. ASSUME NEW c \in Clients, Compare(c) PROVE TypeOK'
  <2>1. request[c].ids \in SUBSET Ids
    BY <1>0, <1>5, RequestTypes DEF TypeOK, Compare, Waits
  <2>2. /\ request' \in [Clients -> Requests \cup {None}]
        /\ found' \in [Clients -> BOOLEAN] /\ answer' \in [Clients -> Answers]
    BY <1>0, <1>5 DEF TypeOK, Compare, Tell, Answers
  <2>3. faults' \in 0 .. MaxFaults
    BY <1>0, <1>5, DisturbTypes DEF TypeOK, Compare
  <2>4. comparisons' \subseteq SUBSET Ids
    BY <1>0, <1>5, <2>1 DEF TypeOK, Compare
  <2> QED
    BY <1>0, <1>5, <2>2, <2>3, <2>4 DEF TypeOK, Compare, registryVars, statuses, lock
<1>6. CASE WriteDiscovery
  <2>1. CASE Proceed("dashboards") /\ discovery' = memory
    BY <1>0, <1>6, <2>1, ProceedTypes DEF TypeOK, WriteDiscovery, registryVars, statuses
  <2>2. CASE ReconcileFails /\ faults' \in 0 .. MaxFaults
    BY <1>0, <1>6, <2>2, FailTypes DEF TypeOK, WriteDiscovery, registryVars, statuses
  <2> QED
    BY <1>0, <1>6, <2>1, <2>2, DisturbTypes DEF WriteDiscovery
<1>7. CASE WriteDashboards
  <2>1. dashboards' \subseteq Targets /\ comparisons' \subseteq SUBSET Ids
    BY <1>0, <1>7 DEF TypeOK, WriteDashboards, Resolvable
  <2>2. CASE Proceed("mappings")
    BY <1>0, <1>7, <2>1, <2>2, ProceedTypes DEF TypeOK, WriteDashboards, registryVars, statuses
  <2>3. CASE ReconcileFails /\ faults' \in 0 .. MaxFaults
    BY <1>0, <1>7, <2>1, <2>3, FailTypes DEF TypeOK, WriteDashboards, registryVars, statuses
  <2> QED
    BY <1>0, <1>7, <2>2, <2>3, DisturbTypes DEF WriteDashboards, AfterDashboards
<1>8. CASE WriteMappings
  <2>1. CASE Proceed("publish") /\ mappings' = memory
    BY <1>0, <1>8, <2>1, ProceedTypes DEF TypeOK, WriteMappings, registryVars, statuses
  <2>2. CASE ReconcileFails /\ faults' \in 0 .. MaxFaults
    BY <1>0, <1>8, <2>2, FailTypes DEF TypeOK, WriteMappings, registryVars, statuses
  <2> QED
    BY <1>0, <1>8, <2>1, <2>2, DisturbTypes DEF WriteMappings
<1>9. CASE Publish
  <2>1. /\ request' \in [Clients -> Requests \cup {None}]
        /\ found' \in [Clients -> BOOLEAN] /\ answer' \in [Clients -> Answers]
    <3>1. CASE purpose = "boot"
      BY <1>0, <1>9, <3>1 DEF TypeOK, Publish, clients
    <3>2. CASE purpose # "boot"
      <4>1. holder \in Clients
        BY <1>0, <1>9, <3>2, HolderIsClient DEF TypeOK, IInv, LockInv, Publish
      <4>2. \E what \in Answers : Tell(holder, what)
        BY <1>9, <3>2 DEF Publish, Answers
      <4> QED
        BY <1>0, <4>1, <4>2, TellTypes
    <3> QED
      BY <3>1, <3>2
  <2>2. /\ generation' \in Nat /\ asked' \in 0 .. generation'
        /\ joined' \in [Ids -> 0 .. generation'] /\ seenAt' \in [Ids -> 0 .. generation']
    <3>1. /\ generation \in Nat /\ generation' = generation + 1 /\ asked' = asked /\ asked \in 0 .. generation
          /\ joined \in [Ids -> 0 .. generation] /\ seenAt \in [Ids -> 0 .. generation]
      BY <1>0, <1>9 DEF TypeOK, Publish
    <3>2. \A i \in Ids : joined[i] \in 0 .. generation' /\ seenAt[i] \in 0 .. generation'
      BY <3>1
    <3>3. 0 \in 0 .. generation' /\ generation' \in 0 .. generation'
      BY <3>1
    <3> QED
      BY <1>9, <3>1, <3>2, <3>3 DEF Publish
  <2>3. /\ holder' \in Clients \cup {Boot, Nobody} /\ before' \subseteq Targets
        /\ purpose' \in {"none", "apply", "undo", "boot"}
        /\ step' \in {"idle", "discovery", "dashboards", "mappings", "publish", "rollback"}
    BY <1>0, <1>9, UnlockTypes DEF Publish
  <2> QED
    BY <1>0, <1>9, <2>1, <2>2, <2>3 DEF TypeOK, Publish, registryVars, files
<1>10. CASE RollBack
  <2>1. /\ holder \in Clients /\ before \in SUBSET Targets /\ "broken" \in Answers
        /\ UNCHANGED <<files, statuses, asked, requests>>
        /\ \/ /\ Persist(before) /\ purpose' = "undo" /\ step' = "discovery"
              /\ UNCHANGED <<holder, before, clients, faults, diverged>>
           \/ PersistFails(before) /\ Unlock /\ Tell(holder, "broken") /\ diverged' = TRUE
    BY <1>0, <1>10, RollBackOutcome, HolderIsClient DEF TypeOK, Answers
  <2>2. CASE /\ Persist(before) /\ purpose' = "undo" /\ step' = "discovery"
             /\ UNCHANGED <<holder, before, clients, faults, diverged>>
    BY <1>0, <2>1, <2>2, PersistTypes DEF TypeOK, files, statuses, clients
  <2>3. CASE PersistFails(before) /\ Unlock /\ Tell(holder, "broken") /\ diverged' = TRUE
    BY <1>0, <2>1, <2>3, PersistTypes, UnlockTypes, TellTypes DEF TypeOK, files, statuses
  <2> QED
    BY <2>1, <2>2, <2>3
<1>11. CASE AskPrometheus
  BY <1>0, <1>11 DEF TypeOK, AskPrometheus, registryVars, files, statuses, lock, clients
<1>12. CASE Refresh
  <2>1. seenAt' \in [Ids -> 0 .. generation] /\ generation' = generation /\ asked' \in 0 .. generation
    BY <1>0, <1>12 DEF TypeOK, Refresh
  <2> QED
    BY <1>0, <1>12, <2>1 DEF TypeOK, Refresh, registryVars, files, lock, clients
<1>13. CASE Crash
  <2>1. faults' \in 0 .. MaxFaults
    BY <1>0, <1>13, DisturbTypes DEF Crash
  <2>2. /\ request' \in [Clients -> Requests \cup {None}]
        /\ found' \in [Clients -> BOOLEAN] /\ answer' \in [Clients -> Answers]
    BY <1>13 DEF Crash, Answers
  <2>3. /\ joined' \in [Ids -> 0 .. generation'] /\ seenAt' \in [Ids -> 0 .. generation']
        /\ generation' \in Nat /\ asked' \in 0 .. generation'
    <3>1. 0 \in 0 .. 0
      OBVIOUS
    <3> QED
      BY <1>13, <3>1 DEF Crash
  <2> QED
    BY <1>0, <1>13, <2>1, <2>2, <2>3 DEF TypeOK, Crash, files
<1>14. CASE UNCHANGED vars
  BY <1>0, <1>14 DEF TypeOK, vars, registryVars, files, statuses, lock, clients
<1> QED
  BY <1>1, <1>2, <1>3, <1>4, <1>5, <1>6, <1>7, <1>8, <1>9, <1>10, <1>11, <1>12, <1>13, <1>14
  DEF Next, Handle, Reconcile

-----------------------------------------------------------------------------
\* The registry always fits and its file differs in at most one endpoint.
LEMMA WriteKeepsRegistry ==
  ASSUME RegistryInv, NEW next, Fits(next), NearTo(next, memory), Persist(next) \/ PersistFails(next)
  PROVE  RegistryInv'
<1>1. CASE Persist(next)
  BY <1>1 DEF RegistryInv, Persist, NearTo
<1>2. CASE PersistFails(next)
  BY <1>2 DEF RegistryInv, PersistFails
<1> QED
  BY <1>1, <1>2

LEMMA RegistryStep == ASSUME IInv, [Next]_vars PROVE RegistryInv'
<1>0. RegistryInv
  BY DEF IInv
<1>1. CASE UNCHANGED registryVars
  BY <1>0, <1>1 DEF RegistryInv, registryVars, NearTo
<1>2. ASSUME NEW c \in Clients, Register(c) PROVE RegistryInv'
  BY <1>0, <1>1, <1>2, RegisterOutcome, WriteKeepsRegistry
<1>3. ASSUME NEW c \in Clients, Delete(c) PROVE RegistryInv'
  BY <1>0, <1>1, <1>3, DeleteOutcome, WriteKeepsRegistry
<1>4. CASE RollBack
  <2>1. Persist(before) \/ PersistFails(before)
    BY <1>4, RollBackOutcome
  <2>2. Fits(before) /\ NearTo(before, memory)
    BY <1>4, RollBackOutcome, BackIsPossible DEF IInv, LockInv
  <2> QED
    BY <1>0, <2>1, <2>2, WriteKeepsRegistry
<1>5. CASE Crash
  BY <1>0, <1>5 DEF RegistryInv, Crash, NearTo
<1> QED
  BY <1>1, <1>2, <1>3, <1>4, <1>5
  DEF Next, Handle, Reconcile, Ask, LookUp, Compare, WriteDiscovery, WriteDashboards, WriteMappings,
      Publish, AskPrometheus, Refresh, vars

-----------------------------------------------------------------------------
\* What the transaction has done so far.

\* A client that is asked or answered while another holds the lock does not disturb it.
LEMMA OthersKeepLock ==
  ASSUME IInv, UNCHANGED <<registryVars, lock>>,
         NEW c \in Clients, purpose \in {"apply", "undo"} => c # holder,
         \A d \in Clients \ {c} : request'[d] = request[d] /\ found'[d] = found[d] /\ answer'[d] = answer[d]
  PROVE  LockInv'
<1>1. CASE purpose \in {"apply", "undo"}
  <2>1. holder \in Clients \ {c}
    BY <1>1, HolderIsClient
  <2>2. request'[holder] = request[holder] /\ found'[holder] = found[holder] /\ answer'[holder] = answer[holder]
    BY <2>1
  <2> QED
    BY <2>2 DEF IInv, LockInv, Registered, Deleted, registryVars, lock
<1>2. CASE purpose \notin {"apply", "undo"}
  BY <1>2 DEF IInv, LockInv, registryVars, lock
<1> QED
  BY <1>1, <1>2

LEMMA SameKeepsLock ==
  ASSUME IInv, UNCHANGED <<memory, disk, holder, before, purpose, request, found, answer>>,
         step' # step => step # "idle" /\ step' # "idle" /\ (step' = "rollback" => purpose = "apply")
  PROVE  LockInv'
  BY DEF IInv, LockInv, Registered, Deleted

LEMMA FreeKeepsLock == ASSUME Unlock PROVE LockInv'
  BY EndpointAssumption DEF Unlock, LockInv

\* A transaction begins with a change of the registry.
LEMMA BeginKeepsLock ==
  ASSUME IInv, NEW c \in Clients, NEW next, Persist(next), Transact(c),
         answer[c] = "none", request[c].op \in {"register", "delete"},
         request[c].op = "register" => request[c].target \notin memory /\ next = memory \cup {request[c].target},
         request[c].op = "delete" =>
           found[c] /\ \E t \in memory : t.id = request[c].target.id /\ next = memory \ {t}
  PROVE  LockInv'
  BY EndpointAssumption
  DEF IInv, RegistryInv, LockInv, Registered, Deleted, Persist, Transact, clients

LEMMA FailKeepsLock ==
  ASSUME IInv, ReconcileFails, UNCHANGED registryVars, step # "idle"
  PROVE  LockInv'
<1>1. CASE purpose = "apply" /\ Compensate
  BY <1>1, SameKeepsLock DEF Compensate, registryVars, clients
<1>2. CASE purpose = "undo" /\ Leave
  BY <1>2, FreeKeepsLock DEF Leave
<1>3. CASE purpose = "boot" /\ step' = "discovery" /\ UNCHANGED <<holder, before, purpose, clients>>
  <2>1. UNCHANGED <<memory, disk, holder, before, purpose, request, found, answer>>
    BY <1>3 DEF registryVars, clients
  <2> QED
    BY <1>3, <2>1, SameKeepsLock
<1> QED
  BY <1>1, <1>2, <1>3 DEF ReconcileFails

LEMMA LockStep == ASSUME IInv, [Next]_vars PROVE LockInv'
<1>0. TypeOK /\ LockInv
  BY DEF IInv
<1>1. ASSUME NEW c \in Clients, NEW r \in Requests, Ask(c, r) PROVE LockInv'
  <2>1. purpose \in {"apply", "undo"} => c # holder
    BY <1>1, HolderIsClient DEF IInv, LockInv, Ask
  <2>2. \A d \in Clients \ {c} : request'[d] = request[d] /\ found'[d] = found[d] /\ answer'[d] = answer[d]
    BY <1>0, <1>1 DEF TypeOK, Ask
  <2> QED
    BY <1>1, <2>1, <2>2, OthersKeepLock DEF Ask
<1>2. ASSUME NEW c \in Clients, Register(c) PROVE LockInv'
  <2>1. CASE \E what : Tell(c, what) /\ UNCHANGED <<registryVars, lock>>
    <3>1. \A d \in Clients \ {c} : request'[d] = request[d] /\ found'[d] = found[d] /\ answer'[d] = answer[d]
      BY <1>0, <2>1 DEF TypeOK, Tell
    <3>2. purpose = "none"
      BY <1>0, <1>2, RegisterOutcome DEF LockInv
    <3> QED
      BY <2>1, <3>1, <3>2, OthersKeepLock
  <2>2. CASE Persist(memory \cup {request[c].target}) /\ Transact(c)
    <3>1. answer[c] = "none" /\ request[c].op = "register"
      BY <1>2, RegisterOutcome DEF Waits
    <3>2. request[c].target \notin memory
      <4>1. ~UNCHANGED lock
        BY <1>2, <2>2, RegisterOutcome, EndpointAssumption DEF Transact, lock
      <4> QED
        BY <1>2, <4>1, RegisterOutcome
    <3> QED
      BY <2>2, <3>1, <3>2, BeginKeepsLock
  <2>3. CASE PersistFails(memory \cup {request[c].target}) /\ UNCHANGED lock
    <3>1. holder' = Nobody /\ purpose' = "none" /\ step' = "idle"
      BY <1>0, <1>2, <2>3, RegisterOutcome DEF LockInv, lock
    <3> QED
      BY <3>1, EndpointAssumption DEF LockInv
  <2> QED
    BY <1>2, <2>1, <2>2, <2>3, RegisterOutcome
<1>3. ASSUME NEW c \in Clients, LookUp(c) PROVE LockInv'
  <2>1. purpose \in {"apply", "undo"} => c # holder
    BY <1>3, HolderIsClient DEF IInv, LockInv, LookUp, Waits
  <2>2. \A d \in Clients \ {c} : request'[d] = request[d] /\ found'[d] = found[d] /\ answer'[d] = answer[d]
    BY <1>0, <1>3 DEF TypeOK, LookUp, Tell
  <2> QED
    BY <1>3, <2>1, <2>2, OthersKeepLock DEF LookUp
<1>4. ASSUME NEW c \in Clients, Delete(c) PROVE LockInv'
  <2>1. CASE \E what : Tell(c, what) /\ UNCHANGED <<registryVars, lock>>
    <3>1. \A d \in Clients \ {c} : request'[d] = request[d] /\ found'[d] = found[d] /\ answer'[d] = answer[d]
      BY <1>0, <2>1 DEF TypeOK, Tell
    <3>2. purpose = "none"
      BY <1>0, <1>4, DeleteOutcome DEF LockInv
    <3> QED
      BY <2>1, <3>1, <3>2, OthersKeepLock
  <2>2. ASSUME NEW t \in memory, t.id = request[c].target.id, Persist(memory \ {t}), Transact(c) PROVE LockInv'
    <3>1. request[c].op = "delete" /\ answer[c] = "none" /\ found[c]
      BY <1>4, DeleteOutcome DEF Waits
    <3> QED
      BY <2>2, <3>1, BeginKeepsLock
  <2>3. CASE UNCHANGED lock
    <3>1. holder' = Nobody /\ purpose' = "none" /\ step' = "idle"
      BY <1>0, <1>4, <2>3, DeleteOutcome DEF LockInv, lock
    <3> QED
      BY <3>1, EndpointAssumption DEF LockInv
  <2> QED
    BY <1>4, <2>1, <2>2, <2>3, DeleteOutcome
<1>5. ASSUME NEW c \in Clients, Compare(c) PROVE LockInv'
  <2>1. purpose = "none" /\ UNCHANGED <<registryVars, lock>>
    BY <1>0, <1>5 DEF LockInv, Compare
  <2>2. \A d \in Clients \ {c} : request'[d] = request[d] /\ found'[d] = found[d] /\ answer'[d] = answer[d]
    BY <1>0, <1>5 DEF TypeOK, Compare, Tell
  <2> QED
    BY <2>1, <2>2, OthersKeepLock
<1>6. ASSUME UNCHANGED registryVars, step # "idle",
             ReconcileFails \/ \E next \in {"dashboards", "mappings", "publish"} : Proceed(next)
      PROVE  LockInv'
  <2>1. CASE \E next \in {"dashboards", "mappings", "publish"} : Proceed(next)
    <3>1. UNCHANGED <<memory, disk, holder, before, purpose, request, found, answer>>
          /\ step' \in {"dashboards", "mappings", "publish"}
      BY <1>6, <2>1 DEF Proceed, registryVars, clients
    <3> QED
      BY <1>6, <3>1, SameKeepsLock
  <2> QED
    BY <1>6, <2>1, FailKeepsLock
<1>7. CASE WriteDiscovery \/ WriteDashboards \/ WriteMappings
  BY <1>6, <1>7 DEF WriteDiscovery, WriteDashboards, WriteMappings, AfterDashboards
<1>8. CASE Publish
  BY <1>8, FreeKeepsLock DEF Publish
<1>9. CASE RollBack
  <2>1. CASE /\ Persist(before) /\ purpose' = "undo" /\ step' = "discovery"
             /\ UNCHANGED <<holder, before, clients, faults, diverged>>
    <3>1. step = "rollback" /\ purpose = "apply"
      BY <1>9, RollBackOutcome
    <3>2. holder # Nobody /\ holder # Boot
      BY <3>1, HolderIsClient
    <3> QED
      BY <1>0, <2>1, <3>1, <3>2 DEF LockInv, Persist, clients
  <2> QED
    BY <1>9, <2>1, RollBackOutcome, FreeKeepsLock
<1>10. CASE AskPrometheus \/ Refresh
  <2>1. UNCHANGED <<memory, disk, holder, before, purpose, request, found, answer, step>>
    BY <1>10 DEF AskPrometheus, Refresh, registryVars, lock, clients
  <2> QED
    BY <2>1, SameKeepsLock
<1>11. CASE Crash
  BY <1>11, EndpointAssumption DEF Crash, LockInv
<1>12. CASE UNCHANGED vars
  <2>1. UNCHANGED <<memory, disk, holder, before, purpose, request, found, answer, step>>
    BY <1>12 DEF vars, registryVars, lock, clients
  <2> QED
    BY <2>1, SameKeepsLock
<1> QED
  BY <1>1, <1>2, <1>3, <1>4, <1>5, <1>7, <1>8, <1>9, <1>10, <1>11, <1>12
  DEF Next, Handle, Reconcile

-----------------------------------------------------------------------------
\* The files follow the registry.
LEMMA SameKeepsFiles ==
  ASSUME IInv, UNCHANGED <<memory, files, published, holder, step, diverged>>
  PROVE  FileInv'
  BY DEF IInv, FileInv, Agreement, files

\* While the lock is held before the first write, or after a failure, nothing is claimed.
LEMMA HeldKeepsFiles ==
  ASSUME holder' # Nobody \/ diverged', step' \notin {"dashboards", "mappings", "publish"}
  PROVE  FileInv'
  BY DEF FileInv, Agreement

LEMMA FailKeepsFiles == ASSUME IInv, ReconcileFails, step # "idle" PROVE FileInv'
<1>1. CASE purpose = "apply" /\ Compensate
  BY <1>1, HolderIsClient, HeldKeepsFiles DEF Compensate
<1>2. CASE purpose = "undo" /\ Leave /\ diverged' = TRUE
  BY <1>2, HeldKeepsFiles DEF Leave, Unlock
<1>3. CASE purpose = "boot" /\ step' = "discovery" /\ UNCHANGED holder
  BY <1>3, HeldKeepsFiles, EndpointAssumption DEF IInv, LockInv
<1> QED
  BY <1>1, <1>2, <1>3 DEF ReconcileFails

LEMMA FileStep == ASSUME IInv, [Next]_vars PROVE FileInv'
<1>0. TypeOK /\ LockInv /\ FileInv
  BY DEF IInv
<1>1. ASSUME NEW c \in Clients, Register(c) \/ Delete(c) PROVE FileInv'
  <2>1. UNCHANGED <<files, statuses, diverged>> /\ (Transact(c) \/ (UNCHANGED memory /\ UNCHANGED lock))
    <3>1. CASE Register(c)
      BY <3>1 DEF Register, PersistFails, registryVars
    <3>2. CASE Delete(c)
      BY <3>2 DEF Delete, PersistFails, registryVars
    <3> QED
      BY <1>1, <3>1, <3>2
  <2>2. CASE Transact(c)
    BY <2>2, HeldKeepsFiles, EndpointAssumption DEF Transact
  <2>3. CASE UNCHANGED memory /\ UNCHANGED lock
    BY <2>1, <2>3, SameKeepsFiles DEF statuses, lock
  <2> QED
    BY <2>1, <2>2, <2>3
<1>2. ASSUME NEW c \in Clients, Compare(c) PROVE FileInv'
  <2>1. step = "idle" /\ step' = step /\ holder' = holder
    BY <1>0, <1>2 DEF LockInv, Compare, lock
  <2>2. \A S \in comparisons' : S \in comparisons \/ S \subseteq IdsOf(memory)
    BY <1>2 DEF Compare
  <2> QED
    BY <1>0, <1>2, <2>1, <2>2 DEF FileInv, Agreement, Compare, registryVars, statuses
<1>3. CASE WriteDiscovery
  <2>1. CASE discovery' = memory /\ Proceed("dashboards")
    <3>1. holder # Nobody
      BY <1>0, <1>3 DEF LockInv, WriteDiscovery
    <3> QED
      BY <1>3, <2>1, <3>1 DEF FileInv, Agreement, WriteDiscovery, Proceed, registryVars
  <2> QED
    BY <1>3, <2>1, FailKeepsFiles DEF WriteDiscovery
<1>4. CASE WriteDashboards
  <2>1. CASE dashboards' = memory /\ comparisons' = Resolvable(memory) /\ Proceed("mappings")
    <3>1. holder # Nobody /\ discovery = memory
      BY <1>0, <1>4 DEF LockInv, FileInv, WriteDashboards
    <3>2. \A S \in comparisons' : S \subseteq IdsOf(memory)
      BY <2>1 DEF Resolvable
    <3> QED
      BY <1>4, <2>1, <3>1, <3>2 DEF FileInv, Agreement, WriteDashboards, Proceed, registryVars
  <2> QED
    BY <1>4, <2>1, FailKeepsFiles DEF WriteDashboards, AfterDashboards
<1>5. CASE WriteMappings
  <2>1. CASE mappings' = memory /\ Proceed("publish")
    <3>1. /\ holder # Nobody /\ discovery = memory /\ dashboards = memory
          /\ \A S \in comparisons : S \subseteq IdsOf(memory)
      BY <1>0, <1>5 DEF LockInv, FileInv, WriteMappings
    <3> QED
      BY <1>5, <2>1, <3>1 DEF FileInv, Agreement, WriteMappings, Proceed, registryVars
  <2> QED
    BY <1>5, <2>1, FailKeepsFiles DEF WriteMappings
<1>6. CASE Publish
  <2>1. /\ discovery = memory /\ dashboards = memory /\ mappings = memory
        /\ \A S \in comparisons : S \subseteq IdsOf(memory)
    BY <1>0, <1>6 DEF FileInv, Publish
  <2> QED
    BY <1>6, <2>1 DEF FileInv, Agreement, Publish, Unlock, registryVars, files
<1>7. CASE RollBack
  <2>1. \/ step' = "discovery" /\ UNCHANGED holder
        \/ Unlock /\ diverged' = TRUE
    BY <1>7, RollBackOutcome
  <2>2. holder # Nobody
    BY <1>7, RollBackOutcome, HolderIsClient
  <2> QED
    BY <2>1, <2>2, HeldKeepsFiles DEF Unlock
<1>8. CASE Crash
  BY <1>8, HeldKeepsFiles, EndpointAssumption DEF Crash
<1>9. CASE UNCHANGED <<memory, files, published, lock, diverged>>
  BY <1>9, SameKeepsFiles DEF lock
<1> QED
  BY <1>1, <1>2, <1>3, <1>4, <1>5, <1>6, <1>7, <1>8, <1>9
  DEF Next, Handle, Reconcile, Ask, LookUp, AskPrometheus, Refresh, vars, registryVars, statuses

-----------------------------------------------------------------------------
\* No status is older than its endpoint.
LEMMA StatusStep == ASSUME IInv, [Next]_vars PROVE StatusIsCurrent'
<1>0. TypeOK /\ StatusIsCurrent
  BY DEF IInv
<1>1. CASE Publish
  BY <1>0, <1>1 DEF StatusIsCurrent, Publish
<1>2. CASE Refresh
  <2>1. CASE UNCHANGED seenAt
    BY <1>0, <1>2, <2>1 DEF StatusIsCurrent, Refresh
  <2>2. CASE StillCurrent /\ seenAt' = [i \in Ids |-> IF i \in IdsOf(published) THEN asked ELSE 0]
    <3>1. \A i \in Ids : joined[i] \in 0 .. generation
      BY <1>0 DEF TypeOK
    <3>2. \A i \in Ids : joined[i] <= generation
      BY <1>0, <3>1 DEF TypeOK
    <3> QED
      BY <1>2, <2>2, <3>2 DEF StatusIsCurrent, Refresh, StillCurrent
  <2> QED
    BY <1>2, <2>1, <2>2 DEF Refresh
<1>3. CASE Crash
  BY <1>3 DEF StatusIsCurrent, Crash
<1>4. CASE UNCHANGED statuses
  BY <1>0, <1>4 DEF StatusIsCurrent, statuses
<1> QED
  BY <1>1, <1>2, <1>3, <1>4
  DEF Next, Handle, Reconcile, Ask, Register, LookUp, Delete, Compare, WriteDiscovery, WriteDashboards,
      WriteMappings, RollBack, AskPrometheus, vars

-----------------------------------------------------------------------------
\* A start that is repeated stays without a failed compensation.
LEMMA BootStep == ASSUME IInv, [Next]_vars PROVE BootInv'
<1>1. CASE UNCHANGED <<purpose, diverged>>
  BY <1>1 DEF IInv, BootInv
<1>2. CASE purpose' # "boot"
  BY <1>2 DEF BootInv
<1>3. CASE diverged' = FALSE
  BY <1>3 DEF BootInv
<1>4. ASSUME ReconcileFails PROVE BootInv'
  BY <1>1, <1>2, <1>4 DEF ReconcileFails, Compensate, Leave, Unlock
<1>5. ASSUME WriteDiscovery \/ WriteDashboards \/ WriteMappings PROVE BootInv'
  BY <1>1, <1>4, <1>5 DEF WriteDiscovery, WriteDashboards, WriteMappings, Proceed
<1>6. ASSUME RollBack PROVE BootInv'
  BY <1>2, <1>6, RollBackOutcome DEF Unlock
<1>7. ASSUME Publish \/ Crash PROVE BootInv'
  BY <1>3, <1>7 DEF Publish, Crash
<1>8. ASSUME NEW c \in Clients, Register(c) \/ Delete(c) PROVE BootInv'
  BY <1>1, <1>2, <1>8 DEF Register, Delete, Transact, lock
<1> QED
  BY <1>1, <1>5, <1>6, <1>7, <1>8
  DEF Next, Handle, Reconcile, Ask, LookUp, Compare, AskPrometheus, Refresh, vars, lock

-----------------------------------------------------------------------------
\* The invariant is inductive.
THEOREM InvariantHolds == Spec => []IInv
<1>1. Init => IInv
  BY InitEstablishes
<1>2. IInv /\ [Next]_vars => IInv'
  <2>1. ASSUME IInv, [Next]_vars PROVE IInv'
    BY <2>1, TypeStep, RegistryStep, LockStep, FileStep, BootStep, StatusStep DEF IInv
  <2> QED
    BY <2>1
<1> QED
  BY <1>1, <1>2, PTL DEF Spec

\* Every variable keeps its type.
THEOREM TypesHold == Spec => []TypeOK
<1>1. IInv => TypeOK
  BY DEF IInv
<1> QED
  BY <1>1, InvariantHolds, PTL

\* Between changes all stores of the endpoints agree, unless a compensation has failed.
THEOREM StoresAgree == Spec => []Agreement
<1>1. IInv => Agreement
  BY DEF IInv, FileInv
<1> QED
  BY <1>1, InvariantHolds, PTL

\* At every moment targets.json can be loaded, and differs from the registry in
\* at most one endpoint; a failed deletion can always be taken back.
THEOREM RegistryIsAlwaysDurable == Spec => []RegistryIsDurable
<1>1. ASSUME IInv PROVE RegistryIsDurable
  <2>1. Loadable(disk)
    BY <1>1, FittingLoads DEF IInv, RegistryInv
  <2>2. Cardinality((disk \ memory) \cup (memory \ disk)) <= 1
    BY <1>1, NearCount DEF IInv, RegistryInv
  <2>3. step = "rollback" /\ request[holder].op = "delete" => IdsOf(before \ memory) \cap IdsOf(memory) = {} /\ Room
    BY <1>1, BackIsPossible DEF IInv, LockInv
  <2> QED
    BY <1>1, <2>1, <2>2, <2>3 DEF IInv, RegistryInv, RegistryIsDurable
<1> QED
  BY <1>1, InvariantHolds, PTL

\* A status was requested after its endpoint was published.
THEOREM StatusesAreCurrent == Spec => []StatusIsCurrent
<1>1. IInv => StatusIsCurrent
  BY DEF IInv
<1> QED
  BY <1>1, InvariantHolds, PTL

-----------------------------------------------------------------------------
\* What an answer says is so when it is given: a new endpoint is durable and has
\* its discovery, dashboard, mapping and status; of a deleted one nothing is left,
\* no comparison either; what is found registered is served, unless a compensation
\* has failed; and a comparison that is answered is there, of endpoints that are
\* registered and published.
Derived == discovery = memory /\ dashboards = memory /\ mappings = memory /\ published = memory

AnswerIsTrue(c) ==
  /\ answer'[c] = "created" => request[c].target \in memory' /\ disk' = memory' /\ Derived'
  /\ answer'[c] = "deleted" =>
       /\ request[c].target.id \notin IdsOf(memory') /\ disk' = memory' /\ Derived'
       /\ \A S \in comparisons' : request[c].target.id \notin S
  /\ answer'[c] = "existing" => request[c].target \in memory' /\ (~diverged' => Derived')
  /\ answer'[c] = "compared" =>
       request[c].ids \in comparisons' /\ request[c].ids \subseteq IdsOf(memory') \cap IdsOf(published')

AnswersAreTrue == [][\A c \in Clients : answer[c] = "none" => AnswerIsTrue(c)]_vars

\* A published change is served as its answer says.
LEMMA PublishAnswers ==
  ASSUME IInv, Publish, NEW c \in Clients, answer[c] = "none"
  PROVE  AnswerIsTrue(c)
<1>1. /\ Derived' /\ memory' = memory /\ disk' = disk /\ comparisons' = comparisons
      /\ \A S \in comparisons : S \subseteq IdsOf(memory)
  BY DEF IInv, FileInv, Publish, Derived, registryVars, files
<1>2. CASE answer'[c] \notin {"created", "deleted"}
  <2>1. answer'[c] \in {"none", "failed"}
    BY <1>2 DEF Publish, Tell, clients, IInv, TypeOK
  <2> QED
    BY <2>1 DEF AnswerIsTrue
<1>3. CASE answer'[c] \in {"created", "deleted"}
  <2>1. c = holder /\ purpose = "apply"
    BY <1>3 DEF Publish, Tell, clients, IInv, TypeOK, LockInv
  <2>2. disk = memory /\ Fits(before)
    BY <2>1 DEF IInv, LockInv
  <2>3. answer'[c] = "created" => request[c].target \in memory
    BY <2>1 DEF Publish, Tell, IInv, TypeOK, LockInv, Registered
  <2>4. answer'[c] = "deleted" => request[c].target.id \notin IdsOf(memory)
    BY <2>1, <2>2 DEF Publish, Tell, IInv, TypeOK, LockInv, Deleted, Fits, IdsOf
  <2> QED
    BY <1>1, <1>3, <2>2, <2>3, <2>4 DEF AnswerIsTrue
<1> QED
  BY <1>2, <1>3

\* Every answer of the API is true when it is given, for any endpoints, clients,
\* limit and failures (web.py _targets, _target, _comparison_dashboard).
THEOREM EveryAnswerIsTrue == Spec => AnswersAreTrue
<1>1. ASSUME IInv, [Next]_vars, NEW c \in Clients, answer[c] = "none" PROVE AnswerIsTrue(c)
  <2>1. CASE answer'[c] \in {"none", "refused", "missing", "failed", "broken"}
    BY <2>1 DEF AnswerIsTrue
  <2>2. CASE Publish
    BY <1>1, <2>2, PublishAnswers
  <2>3. ASSUME NEW d \in Clients, Register(d) PROVE AnswerIsTrue(c)
    <3>1. CASE answer'[c] # "existing"
      <4>1. answer'[c] \in {"none", "refused", "failed"}
        BY <1>1, <2>3, <3>1 DEF Register, Tell, Transact, clients, IInv, TypeOK
      <4> QED
        BY <2>1, <4>1
    <3>2. CASE answer'[c] = "existing"
      <4>1. c = d /\ request[c].target \in memory /\ UNCHANGED registryVars
        BY <1>1, <2>3, <3>2, RegisterOutcome DEF Register, Tell, Transact, clients, IInv, TypeOK, Normalized
      <4>2. holder = Nobody /\ UNCHANGED <<files, statuses, diverged>>
        BY <2>3 DEF Register
      <4>3. ~diverged' => Derived'
        BY <1>1, <4>1, <4>2 DEF IInv, FileInv, Agreement, Derived, files, statuses, registryVars
      <4> QED
        BY <3>2, <4>1, <4>3 DEF AnswerIsTrue, registryVars
    <3> QED
      BY <3>1, <3>2
  <2>4. ASSUME NEW d \in Clients, Compare(d) PROVE AnswerIsTrue(c)
    <3>1. CASE answer'[c] # "compared"
      <4>1. answer'[c] \in {"none", "refused", "failed"}
        BY <1>1, <2>4, <3>1 DEF Compare, Tell, IInv, TypeOK
      <4> QED
        BY <2>1, <4>1
    <3>2. CASE answer'[c] = "compared"
      <4>1. c = d /\ request[c].ids \in comparisons'
        BY <1>1, <2>4, <3>2 DEF Compare, Tell, IInv, TypeOK
      <4>2. request[c].ids \subseteq IdsOf(memory) \cap IdsOf(published)
        BY <1>1, <2>4, <3>2, <4>1 DEF Compare, Tell, IInv, TypeOK
      <4>3. UNCHANGED <<memory, published>>
        BY <2>4 DEF Compare, registryVars, statuses
      <4> QED
        BY <3>2, <4>1, <4>2, <4>3 DEF AnswerIsTrue
    <3> QED
      BY <3>1, <3>2
  <2>5. ASSUME ReconcileFails PROVE answer'[c] \in {"none", "failed"}
    BY <1>1, <2>5 DEF ReconcileFails, Compensate, Leave, Tell, clients, IInv, TypeOK
  <2>6. ASSUME WriteDiscovery \/ WriteDashboards \/ WriteMappings PROVE AnswerIsTrue(c)
    BY <1>1, <2>1, <2>5, <2>6 DEF WriteDiscovery, WriteDashboards, WriteMappings, Proceed, clients
  <2>7. ASSUME RollBack PROVE AnswerIsTrue(c)
    BY <1>1, <2>1, <2>7 DEF RollBack, Tell, clients, IInv, TypeOK
  <2>8. ASSUME NEW d \in Clients, NEW r \in Requests, Ask(d, r) PROVE AnswerIsTrue(c)
    BY <1>1, <2>1, <2>8 DEF Ask, IInv, TypeOK
  <2>9. ASSUME NEW d \in Clients, LookUp(d) \/ Delete(d) PROVE AnswerIsTrue(c)
    BY <1>1, <2>1, <2>9 DEF LookUp, Delete, Tell, Transact, clients, IInv, TypeOK
  <2>10. ASSUME Crash PROVE AnswerIsTrue(c)
    BY <2>1, <2>10 DEF Crash
  <2>11. CASE UNCHANGED clients
    BY <1>1, <2>1, <2>11 DEF clients
  <2> QED
    BY <1>1, <2>2, <2>3, <2>4, <2>6, <2>7, <2>8, <2>9, <2>10, <2>11
    DEF Next, Handle, Reconcile, AskPrometheus, Refresh, vars
<1>2. IInv /\ [Next]_vars => [\A c \in Clients : answer[c] = "none" => AnswerIsTrue(c)]_vars
  BY <1>1
<1> QED
  BY <1>2, InvariantHolds, PTL DEF Spec, AnswersAreTrue

-----------------------------------------------------------------------------
\* The refinement: a change is written and withdrawn on disk, it comes into
\* force when it is published or cannot be compensated, and every answer is one
\* the contract allows.
StepAllowed == Contract!Next \/ UNCHANGED <<Committed, disk, diverged, request, answer>>

\* The contract counts as the registry does.
LEMMA SameCount == \A S : Contract!Cardinality(S) = Cardinality(S)
  BY DEF Contract!Cardinality, Cardinality, Contract!IsFiniteSet, IsFiniteSet

LEMMA InitRefines == Init => Contract!Init
  BY EndpointAssumption DEF Init, Committed, Contract!Init, None, Contract!None

\* What is committed, by who holds the lock.
LEMMA CommittedIs ==
  ASSUME IInv
  PROVE  /\ holder \in Clients <=> purpose \in {"apply", "undo"}
         /\ purpose \in {"apply", "undo"} => Committed = before /\ disk = memory
         /\ purpose \notin {"apply", "undo"} => Committed = memory
<1>1. holder \in Clients <=> purpose \in {"apply", "undo"}
  BY EndpointAssumption DEF IInv, TypeOK, LockInv
<1> QED
  BY <1>1 DEF Committed, IInv, LockInv

LEMMA FreeCommits ==
  ASSUME holder' \notin Clients
  PROVE  Committed' = memory'
  BY DEF Committed

LEMMA SameCommits ==
  ASSUME UNCHANGED <<memory, before, holder>>
  PROVE  Committed' = Committed
  BY DEF Committed

\* A change that the registry admits is one of the contract.
LEMMA NewIsAChange ==
  ASSUME NEW c \in Clients, Waits(c, "register"), Fits(Committed),
         NEW R, R = Committed \cup {request[c].target}, Fits(R), request[c].target \notin Committed
  PROVE  Contract!Change(c, R)
<1> DEFINE t == request[c].target
<1>1. ~Contract!Known(t.id)
  BY DEF Contract!Known, Fits
<1>2. Cardinality(R) = Cardinality(Committed) + 1 /\ Cardinality(Committed) \in Nat
  BY FS_AddElement, FS_CardinalityType DEF Fits
<1>3. Cardinality(Committed) < MaxTargets
  BY <1>2, EndpointAssumption DEF Fits
<1>4. Contract!Waits(c, "register") /\ Contract!Cardinality(Committed) < MaxTargets
  BY <1>3, SameCount DEF Waits, Contract!Waits
<1> QED
  BY <1>1, <1>4 DEF Contract!Change

LEMMA LessIsAChange ==
  ASSUME NEW c \in Clients, Waits(c, "delete"),
         NEW t \in Committed, t.id = request[c].target.id
  PROVE  Contract!Change(c, Committed \ {t})
  BY DEF Contract!Change, Contract!Waits, Waits

\* So is the one that the holder of the lock has written.
LEMMA PendingIsAChange ==
  ASSUME IInv, purpose = "apply"
  PROVE  /\ holder \in Clients /\ answer[holder] = "none"
         /\ Committed = before /\ disk = memory /\ Contract!Change(holder, disk)
<1>1. /\ holder \in Clients /\ answer[holder] = "none" /\ Committed = before /\ disk = memory
      /\ Fits(memory) /\ Fits(before)
  BY HolderIsClient, CommittedIs DEF IInv, LockInv, RegistryInv
<1>2. CASE request[holder].op = "register"
  BY <1>1, <1>2, NewIsAChange DEF IInv, LockInv, Registered, Waits
<1>3. CASE request[holder].op = "delete"
  BY <1>1, <1>3, LessIsAChange DEF IInv, LockInv, Deleted, Waits
<1> QED
  BY <1>1, <1>2, <1>3 DEF IInv, LockInv

\* The beginning of a transaction, or its failure to write the registry.
LEMMA BeginRefines ==
  ASSUME IInv, NEW c \in Clients, holder = Nobody, answer[c] = "none", UNCHANGED diverged,
         NEW R, Contract!Change(c, R),
         \/ Persist(R) /\ Transact(c)
         \/ PersistFails(R) /\ Tell(c, "failed") /\ UNCHANGED lock
  PROVE  StepAllowed
<1>1. Committed = memory
  BY CommittedIs DEF IInv, LockInv
<1>2. CASE Persist(R) /\ Transact(c)
  <2>1. Committed' = Committed /\ disk' = R /\ UNCHANGED <<request, answer>>
    BY <1>1, <1>2 DEF Persist, Transact, Committed, clients
  <2>2. Contract!Write(c)
    BY <2>1 DEF Contract!Write
  <2> QED
    BY <2>2 DEF StepAllowed, Contract!Next
<1>3. CASE PersistFails(R) /\ Tell(c, "failed") /\ UNCHANGED lock
  <2>1. Committed' = Committed /\ disk' \in {disk, R}
    BY <1>3, SameCommits DEF PersistFails, lock
  <2>2. Contract!Tell(c, "failed")
    BY <1>3 DEF Contract!Tell, Tell
  <2>3. Contract!Fail(c)
    BY <2>1, <2>2 DEF Contract!Fail
  <2> QED
    BY <2>3 DEF StepAllowed, Contract!Next
<1> QED
  BY <1>2, <1>3

LEMMA AskRefines ==
  ASSUME IInv, NEW c \in Clients, NEW r \in Requests, Ask(c, r)
  PROVE  StepAllowed
<1>1. UNCHANGED <<Committed, disk, diverged>>
  BY SameCommits DEF Ask, registryVars, lock
<1>2. r \in [op : {"register", "delete"}, target : Contract!Targets] \cup [op : {"compare"}, ids : SUBSET Ids]
  BY DEF Requests, Targets, Contract!Targets
<1>3. Contract!Ask(c)
  BY <1>1, <1>2 DEF Ask, Contract!Ask, None, Contract!None
<1> QED
  BY <1>3 DEF StepAllowed, Contract!Next

LEMMA RegisterRefines ==
  ASSUME IInv, NEW c \in Clients, Register(c)
  PROVE  StepAllowed
<1>1. holder = Nobody /\ Waits(c, "register") /\ Committed = memory /\ UNCHANGED diverged
  BY RegisterOutcome, CommittedIs DEF IInv, LockInv
<1>2. CASE UNCHANGED <<registryVars, lock>> /\ Tell(c, "existing") /\ request[c].target \in memory
  <2>1. UNCHANGED <<Committed, disk>>
    BY <1>2, SameCommits DEF registryVars, lock
  <2>2. Contract!Repeat(c)
    BY <1>1, <1>2, <2>1 DEF Contract!Repeat, Contract!Waits, Contract!Tell, Waits, Tell
  <2> QED
    BY <2>2 DEF StepAllowed, Contract!Next
<1>3. CASE /\ UNCHANGED <<registryVars, lock>> /\ Tell(c, "refused") /\ request[c].target \notin memory
           /\ request[c].target.id \in IdsOf(memory) \/ Cardinality(memory) >= MaxTargets
  <2>1. UNCHANGED <<Committed, disk>>
    BY <1>3, SameCommits DEF registryVars, lock
  <2>2. Contract!Known(request[c].target.id) \/ Contract!Cardinality(Committed) >= MaxTargets
    BY <1>1, <1>3, SameCount DEF Contract!Known, IdsOf
  <2>3. Contract!Waits(c, "register") /\ Contract!Tell(c, "refused")
    BY <1>1, <1>3 DEF Contract!Waits, Contract!Tell, Waits, Tell
  <2>4. Contract!Refuse(c)
    BY <1>1, <1>3, <2>1, <2>2, <2>3 DEF Contract!Refuse
  <2> QED
    BY <2>4 DEF StepAllowed, Contract!Next
<1>4. CASE /\ Fits(memory \cup {request[c].target}) /\ request[c].target \notin memory
           /\ \/ Persist(memory \cup {request[c].target}) /\ Transact(c)
              \/ PersistFails(memory \cup {request[c].target}) /\ Tell(c, "failed") /\ UNCHANGED lock
  <2>1. Contract!Change(c, memory \cup {request[c].target})
    BY <1>1, <1>4, NewIsAChange DEF IInv, RegistryInv
  <2>2. answer[c] = "none"
    BY <1>1 DEF Waits
  <2> QED
    BY <1>1, <1>4, <2>1, <2>2, BeginRefines
<1> QED
  BY <1>2, <1>3, <1>4, RegisterOutcome

LEMMA LookUpRefines ==
  ASSUME IInv, NEW c \in Clients, LookUp(c)
  PROVE  StepAllowed
<1> DEFINE id == request[c].target.id
<1>1. UNCHANGED <<Committed, disk, diverged>>
  BY SameCommits DEF LookUp, registryVars, lock
<1>2. CASE UNCHANGED <<request, answer>>
  BY <1>1, <1>2 DEF StepAllowed
<1>3. CASE id \notin IdsOf(memory) /\ Tell(c, "missing")
  <2>1. ASSUME Contract!Known(id)
        PROVE  \E d \in Clients \ {c} : /\ Contract!Waits(d, "delete") /\ Contract!Change(d, disk)
                                        /\ request[d].target.id = id
    <3>1. PICK t \in Committed : t.id = id
      BY <2>1 DEF Contract!Known
    <3>2. t \notin memory
      BY <1>3, <3>1 DEF IdsOf
    <3>3. purpose \in {"apply", "undo"} /\ t \in before /\ holder \in Clients
      BY <3>1, <3>2, CommittedIs
    <3>4. purpose = "apply" /\ request[holder].op = "delete"
      BY <3>2, <3>3 DEF IInv, LockInv, Registered
    <3>5. t.id = request[holder].target.id
      BY <3>2, <3>3, <3>4 DEF IInv, LockInv, Deleted
    <3>6. holder # c /\ answer[holder] = "none"
      BY <3>4 DEF IInv, LockInv, LookUp
    <3>7. Contract!Change(holder, disk)
      BY <3>4, PendingIsAChange
    <3> QED
      BY <3>1, <3>3, <3>4, <3>5, <3>6, <3>7 DEF Contract!Waits
  <2>2. Contract!Missing(c)
    BY <1>1, <1>3, <2>1 DEF Contract!Missing, Contract!Waits, Contract!Tell, LookUp, Waits, Tell
  <2> QED
    BY <2>2 DEF StepAllowed, Contract!Next
<1> QED
  BY <1>2, <1>3 DEF LookUp

LEMMA DeleteRefines ==
  ASSUME IInv, NEW c \in Clients, Delete(c)
  PROVE  StepAllowed
<1>1. holder = Nobody /\ Waits(c, "delete") /\ Committed = memory /\ UNCHANGED diverged
  BY DeleteOutcome, CommittedIs DEF IInv, LockInv
<1>2. CASE /\ Tell(c, "missing") /\ UNCHANGED <<registryVars, lock, faults>>
           /\ request[c].target.id \notin IdsOf(memory)
  <2>1. UNCHANGED <<Committed, disk>>
    BY <1>2, SameCommits DEF registryVars, lock
  <2>2. Contract!Missing(c)
    BY <1>1, <1>2, <2>1
    DEF Contract!Missing, Contract!Known, Contract!Waits, Contract!Tell, Waits, Tell, IdsOf
  <2> QED
    BY <2>2 DEF StepAllowed, Contract!Next
<1>3. ASSUME NEW t \in memory, t.id = request[c].target.id,
             \/ Persist(memory \ {t}) /\ Transact(c)
             \/ PersistFails(memory \ {t}) /\ Tell(c, "failed") /\ UNCHANGED lock
      PROVE  StepAllowed
  <2>1. Contract!Change(c, memory \ {t})
    BY <1>1, <1>3, LessIsAChange
  <2>2. answer[c] = "none"
    BY <1>1 DEF Waits
  <2> QED
    BY <1>1, <1>3, <2>1, <2>2, BeginRefines
<1> QED
  BY <1>2, <1>3, DeleteOutcome

\* A refused comparison names an endpoint that is not registered, or not
\* published, and those differ only after a compensation has failed.
LEMMA CompareRefines ==
  ASSUME IInv, NEW c \in Clients, Compare(c)
  PROVE  StepAllowed
<1>1. /\ UNCHANGED <<Committed, disk, diverged>> /\ Waits(c, "compare")
      /\ Committed = memory /\ holder = Nobody
  BY SameCommits, CommittedIs DEF Compare, registryVars, lock, IInv, LockInv
<1>2. CASE Tell(c, "refused") /\ ~(request[c].ids \subseteq IdsOf(memory) /\ request[c].ids \subseteq IdsOf(published))
  <2>1. ~diverged => published = memory
    BY <1>1 DEF IInv, FileInv, Agreement
  <2>2. diverged \/ \E id \in request[c].ids : ~Contract!Known(id)
    BY <1>1, <1>2, <2>1 DEF Contract!Known, IdsOf
  <2>3. Contract!Refuse(c)
    BY <1>1, <1>2, <2>2 DEF Contract!Refuse, Contract!Waits, Contract!Tell, Waits, Tell
  <2> QED
    BY <2>3 DEF StepAllowed, Contract!Next
<1>3. CASE Tell(c, "compared") /\ request[c].ids \subseteq IdsOf(memory)
  <2>1. \A id \in request[c].ids : Contract!Known(id)
    BY <1>1, <1>3 DEF Contract!Known, IdsOf
  <2>2. Contract!Compare(c)
    BY <1>1, <1>3, <2>1 DEF Contract!Compare, Contract!Waits, Contract!Tell, Waits, Tell
  <2> QED
    BY <2>2 DEF StepAllowed, Contract!Next
<1>4. CASE Tell(c, "failed")
  <2>1. Contract!Fail(c)
    BY <1>1, <1>4 DEF Contract!Fail, Contract!Tell, Tell, Waits
  <2> QED
    BY <2>1 DEF StepAllowed, Contract!Next
<1> QED
  BY <1>2, <1>3, <1>4 DEF Compare

\* A change that was taken back is answered.
LEMMA UndoneIsAllowed ==
  ASSUME IInv, purpose = "undo", Unlock, Tell(holder, "failed"), UNCHANGED <<memory, disk>>,
         diverged' \in BOOLEAN
  PROVE  StepAllowed
<1>1. /\ holder \in Clients /\ answer[holder] = "none" /\ Committed = before
      /\ request[holder].op \in {"register", "delete"}
  BY HolderIsClient, CommittedIs DEF IInv, LockInv
<1>2. memory = before /\ disk = memory
  BY DEF IInv, LockInv
<1>3. Committed' = memory'
  BY FreeCommits, EndpointAssumption DEF Unlock
<1>4. Contract!Compensate(holder)
  BY <1>1, <1>2, <1>3 DEF Contract!Compensate, Contract!Waits, Contract!Tell, Tell
<1> QED
  BY <1>1, <1>4 DEF StepAllowed, Contract!Next

\* A step of a reconciliation that writes or fails to write a file.
LEMMA WriteRefines ==
  ASSUME IInv, WriteDiscovery \/ WriteDashboards \/ WriteMappings
  PROVE  StepAllowed
<1>1. UNCHANGED <<memory, disk>>
  BY DEF WriteDiscovery, WriteDashboards, WriteMappings, registryVars
<1>2. CASE UNCHANGED <<holder, before, clients, diverged>>
  BY <1>1, <1>2, SameCommits DEF StepAllowed, clients
<1>3. CASE purpose = "undo" /\ Leave /\ Tell(holder, "failed") /\ diverged' = TRUE
  BY <1>1, <1>3, UndoneIsAllowed DEF Leave
<1> QED
  BY <1>2, <1>3
  DEF WriteDiscovery, WriteDashboards, WriteMappings, Proceed, ReconcileFails, Compensate

\* A published change is what the contract creates or deletes.
LEMMA PublishRefines == ASSUME IInv, Publish PROVE StepAllowed
<1>1. Committed' = memory /\ UNCHANGED <<memory, disk>> /\ diverged' = FALSE
  BY FreeCommits, EndpointAssumption DEF Publish, Unlock, registryVars
<1>2. CASE purpose = "boot"
  <2>1. Committed = memory /\ diverged = FALSE
    BY <1>2, CommittedIs DEF IInv, BootInv, TypeOK
  <2> QED
    BY <1>1, <1>2, <2>1 DEF StepAllowed, Publish, clients
<1>3. CASE purpose = "undo"
  BY <1>1, <1>3, UndoneIsAllowed DEF Publish
<1>4. CASE purpose = "apply"
  <2>1. Contract!Commit(holder)
    BY <1>1, <1>4, PendingIsAChange DEF Contract!Commit
  <2>2. CASE request[holder].op = "register"
    <3>1. Tell(holder, "created")
      BY <1>4, <2>2 DEF Publish
    <3>2. Contract!Create(holder)
      BY <1>4, <2>1, <2>2, <3>1, PendingIsAChange DEF Contract!Create, Contract!Waits, Contract!Tell, Tell
    <3> QED
      BY <1>4, <3>2, PendingIsAChange DEF StepAllowed, Contract!Next
  <2>3. CASE request[holder].op = "delete"
    <3>1. Tell(holder, "deleted")
      BY <1>4, <2>3 DEF Publish
    <3>2. Contract!Delete(holder)
      BY <1>4, <2>1, <2>3, <3>1, PendingIsAChange DEF Contract!Delete, Contract!Waits, Contract!Tell, Tell
    <3> QED
      BY <1>4, <3>2, PendingIsAChange DEF StepAllowed, Contract!Next
  <2> QED
    BY <1>4, <2>2, <2>3 DEF IInv, LockInv
<1> QED
  BY <1>2, <1>3, <1>4 DEF IInv, TypeOK, LockInv, Publish

LEMMA RollBackRefines == ASSUME IInv, RollBack PROVE StepAllowed
<1>1. /\ purpose = "apply" /\ holder \in Clients /\ answer[holder] = "none"
      /\ Committed = before /\ disk = memory /\ Contract!Change(holder, disk)
  BY RollBackOutcome, PendingIsAChange
<1>2. CASE Persist(before) /\ UNCHANGED <<holder, before, clients, diverged>>
  <2>1. Committed' = before
    BY <1>1, <1>2 DEF Committed
  <2>2. Contract!Withdraw(holder)
    BY <1>1, <1>2, <2>1 DEF Contract!Withdraw, Persist, clients
  <2> QED
    BY <1>1, <2>2 DEF StepAllowed, Contract!Next
<1>3. CASE PersistFails(before) /\ Unlock /\ Tell(holder, "broken") /\ diverged' = TRUE
  <2>1. Committed' = memory /\ disk' \in {disk, before}
    BY <1>3, FreeCommits, EndpointAssumption DEF Unlock, PersistFails
  <2>2. Contract!Break(holder)
    BY <1>1, <1>3, <2>1 DEF Contract!Break, Contract!Tell, Tell
  <2> QED
    BY <1>1, <2>2 DEF StepAllowed, Contract!Next
<1> QED
  BY <1>2, <1>3, RollBackOutcome

\* A restart finds what was on disk.
LEMMA CrashRefines == ASSUME IInv, Crash PROVE StepAllowed
<1>1. Committed' = disk
  BY FreeCommits, EndpointAssumption DEF Crash
<1>2. Contract!Restart
  BY <1>1 DEF Contract!Restart, Crash, None, Contract!None
<1> QED
  BY <1>2 DEF StepAllowed, Contract!Next

LEMMA StepRefines == ASSUME IInv, [Next]_vars PROVE StepAllowed
<1>1. CASE UNCHANGED <<registryVars, lock, clients, diverged>>
  BY <1>1, SameCommits DEF StepAllowed, registryVars, lock, clients
<1> QED
  BY <1>1, AskRefines, RegisterRefines, LookUpRefines, DeleteRefines, CompareRefines, WriteRefines,
     PublishRefines, RollBackRefines, CrashRefines
  DEF Next, Handle, Reconcile, AskPrometheus, Refresh, vars

\* The API implements its contract for any endpoints, clients, limit and failures.
THEOREM ImplementsTheContract == Spec => ImplementsContract
<1>1. Init => Contract!Init
  BY InitRefines
<1>2. IInv /\ [Next]_vars => [Contract!Next]_Contract!contractVars
  BY StepRefines DEF StepAllowed, Contract!contractVars
<1> QED
  BY <1>1, <1>2, InvariantHolds, PTL DEF Spec, ImplementsContract, Contract!Spec
=============================================================================
