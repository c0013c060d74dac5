---------------------------- MODULE AdmissionProofs ----------------------------
(***************************************************************************)
(* Proofs about HttpAdmission for every set of connections and every size  *)
(* of the pool and of its queue.  Counting the permits needs to know where *)
(* a connection can be: it is in the hands of the accepting thread, queued *)
(* once, running, or done, and in one of these only.                       *)
(***************************************************************************)
EXTENDS HttpAdmission, FiniteSetTheorems, TLAPS

Pooled == ToSet(queue) \cup running
Fresh(c) == c \notin Pooled \cup watched \cup completed
InHands(c) == acceptor \in {"taken", "submit", "watch"} /\ current = c
NoRepeats(s) == \A i, j \in DOMAIN s : s[i] = s[j] => i = j

TypeInv == TypeOK /\ permits \in Nat

\* Where a connection is.
PlaceInv ==
  /\ acceptor \in {"taken", "submit", "watch"} => current \in Connections
  /\ acceptor \in {"taken", "submit"} => socket[current] = "open" /\ Fresh(current)
  /\ acceptor = "watch" => current \notin watched /\ current \in Pooled \cup completed
  /\ \A c \in Connections : socket[c] \in {"none", "backlog", "reset"} => Fresh(c)
  /\ \A c \in Connections : socket[c] = "open" => InHands(c) \/ c \in watched
  /\ watched \subseteq Pooled \cup completed
  /\ completed \cap Pooled = {} /\ ToSet(queue) \cap running = {} /\ NoRepeats(queue)
  /\ \A c \in completed : socket[c] = "shut"

Held == {c \in Connections : Holding(c)}
CountInv == permits + Cardinality(Held) = Capacity

\* How far the server has come.
PhaseInv ==
  /\ closer # "idle" <=> lifecycle = "stopping"
  /\ lifecycle \in {"new", "starting"} => acceptor = "unborn"
  /\ acceptor = "unborn" => Pooled = {} /\ watched = {} /\ completed = {}
  /\ acceptor = "ended" => lifecycle \in {"stopping", "stopped"}
  /\ closer \in {"cancel", "wait"} => acceptor = "ended" /\ ~listening
  /\ closer = "wait" => queue = <<>>
  /\ lifecycle = "stopped" => acceptor \in {"unborn", "ended"} /\ Pooled = {} /\ ~listening
  /\ ~listening => \A c \in Connections : socket[c] # "backlog"

IInv == TypeInv /\ PlaceInv /\ CountInv /\ PhaseInv

-----------------------------------------------------------------------------
\* The queue.
LEMMA AppendFacts ==
  ASSUME NEW q \in Seq(Connections), NEW c \in Connections
  PROVE  /\ Append(q, c) \in Seq(Connections)
         /\ ToSet(Append(q, c)) = ToSet(q) \cup {c}
         /\ NoRepeats(q) /\ c \notin ToSet(q) => NoRepeats(Append(q, c))
<1>1. /\ Append(q, c) \in Seq(Connections) /\ Len(q) \in Nat
      /\ DOMAIN Append(q, c) = 1 .. Len(q) + 1 /\ DOMAIN q = 1 .. Len(q)
      /\ \A i \in 1 .. Len(q) : Append(q, c)[i] = q[i]
      /\ Append(q, c)[Len(q) + 1] = c
  OBVIOUS
<1>2. \A i \in 1 .. Len(q) + 1 : i \in 1 .. Len(q) \/ i = Len(q) + 1
  BY <1>1
<1>3. ToSet(Append(q, c)) \subseteq ToSet(q) \cup {c}
  BY <1>1, <1>2 DEF ToSet
<1>4. ToSet(q) \cup {c} \subseteq ToSet(Append(q, c))
  BY <1>1 DEF ToSet
<1>5. ASSUME NoRepeats(q), c \notin ToSet(q) PROVE NoRepeats(Append(q, c))
  BY <1>1, <1>2, <1>5 DEF NoRepeats, ToSet
<1> QED
  BY <1>1, <1>3, <1>4, <1>5

LEMMA TailFacts ==
  ASSUME NEW q \in Seq(Connections), q # <<>>, NoRepeats(q)
  PROVE  /\ Tail(q) \in Seq(Connections) /\ Head(q) \in Connections
         /\ ToSet(Tail(q)) = ToSet(q) \ {Head(q)}
         /\ Head(q) \in ToSet(q) /\ NoRepeats(Tail(q))
<1>1. /\ Tail(q) \in Seq(Connections) /\ Len(q) \in Nat \ {0} /\ DOMAIN q = 1 .. Len(q)
      /\ DOMAIN Tail(q) = 1 .. Len(q) - 1 /\ Head(q) = q[1]
      /\ \A i \in 1 .. Len(q) - 1 : Tail(q)[i] = q[i + 1]
  OBVIOUS
<1>2. /\ \A i \in 1 .. Len(q) - 1 : i + 1 \in DOMAIN q /\ i + 1 # 1
      /\ \A i \in DOMAIN q : i = 1 \/ (i - 1 \in 1 .. Len(q) - 1 /\ (i - 1) + 1 = i)
      /\ 1 \in DOMAIN q
  BY <1>1
<1>3. Head(q) \in ToSet(q) /\ Head(q) \in Connections
  BY <1>1, <1>2 DEF ToSet
<1>4. ToSet(Tail(q)) \subseteq ToSet(q) \ {Head(q)}
  BY <1>1, <1>2 DEF ToSet, NoRepeats
<1>5. ToSet(q) \ {Head(q)} \subseteq ToSet(Tail(q))
  <2>1. ASSUME NEW i \in DOMAIN q, q[i] # Head(q) PROVE q[i] \in ToSet(Tail(q))
    <3>1. i - 1 \in 1 .. Len(q) - 1 /\ (i - 1) + 1 = i
      BY <1>1, <1>2, <2>1
    <3>2. Tail(q)[i - 1] = q[i]
      BY <1>1, <3>1
    <3> QED
      BY <1>1, <3>1, <3>2 DEF ToSet
  <2> QED
    BY <2>1 DEF ToSet
<1>6. NoRepeats(Tail(q))
  <2> SUFFICES ASSUME NEW i \in DOMAIN Tail(q), NEW j \in DOMAIN Tail(q), Tail(q)[i] = Tail(q)[j]
               PROVE  i = j
    BY DEF NoRepeats
  <2>1. q[i + 1] = q[j + 1] /\ i + 1 \in DOMAIN q /\ j + 1 \in DOMAIN q
    BY <1>1, <1>2
  <2> QED
    BY <1>1, <2>1 DEF NoRepeats
<1> QED
  BY <1>1, <1>3, <1>4, <1>5, <1>6

LEMMA QueueTypes == ASSUME NEW q \in Seq(Connections) PROVE ToSet(q) \subseteq Connections
  BY DEF ToSet

LEMMA EmptyQueue == ToSet(<<>>) = {} /\ <<>> \in Seq(Connections) /\ NoRepeats(<<>>)
  BY DEF ToSet, NoRepeats

LEMMA NoQueue == ASSUME NEW q \in Seq(Connections), ToSet(q) = {} PROVE q = <<>>
<1>1. Len(q) \in Nat /\ DOMAIN q = 1 .. Len(q)
  OBVIOUS
<1>2. ASSUME Len(q) # 0 PROVE q[1] \in ToSet(q)
  BY <1>1, <1>2 DEF ToSet
<1> QED
  BY <1>1, <1>2

-----------------------------------------------------------------------------
\* The permits.
LEMMA Counts ==
  /\ Capacity \in Nat
  /\ IsFiniteSet(Held) /\ Cardinality(Held) \in Nat
  /\ IsFiniteSet(Held') /\ Cardinality(Held') \in Nat
<1>1. Held \subseteq Connections /\ Held' \subseteq Connections
  BY DEF Held
<1> QED
  BY <1>1, FS_Subset, FS_CardinalityType, AdmissionAssumption DEF Capacity

LEMMA PermitTaken ==
  ASSUME CountInv, permits \in Nat, permits > 0, NEW c \in Connections, c \notin Held,
         Held' = Held \cup {c}, permits' = permits - 1
  PROVE  CountInv' /\ permits' \in Nat /\ permits' \in 0 .. Capacity
<1>1. Cardinality(Held') = Cardinality(Held) + 1
  BY Counts, FS_AddElement
<1> QED
  BY <1>1, Counts DEF CountInv, Capacity

LEMMA PermitReturned ==
  ASSUME CountInv, permits \in Nat, NEW c \in Held, Held' = Held \ {c}, permits' = permits + 1
  PROVE  CountInv' /\ permits' \in Nat /\ permits' \in 0 .. Capacity
<1>1. Cardinality(Held') = Cardinality(Held) - 1
  BY Counts, FS_RemoveElement
<1> QED
  BY <1>1, Counts DEF CountInv, Capacity

LEMMA PermitsStay ==
  ASSUME CountInv, permits \in Nat, Held' = Held, permits' = permits
  PROVE  CountInv' /\ permits' \in Nat /\ permits' \in 0 .. Capacity
  BY Counts DEF CountInv, Capacity

-----------------------------------------------------------------------------
LEMMA InitEstablishes == Init => IInv
<1> SUFFICES ASSUME Init PROVE IInv
  OBVIOUS
<1>1. Held = {} /\ permits = Capacity /\ Capacity \in Nat
  BY Counts DEF Init, Held, Holding
<1>2. CountInv /\ permits \in 0 .. Capacity /\ permits \in Nat
  BY <1>1, FS_EmptySet DEF CountInv
<1>3. TypeInv
  BY <1>2, EmptyQueue, AdmissionAssumption DEF Init, TypeInv, TypeOK
<1>4. PlaceInv
  BY EmptyQueue DEF Init, PlaceInv, Pooled, Fresh, InHands
<1>5. PhaseInv
  BY EmptyQueue DEF Init, PhaseInv, Pooled
<1> QED
  BY <1>2, <1>3, <1>4, <1>5 DEF IInv

LEMMA ConnectStep == ASSUME IInv, NEW c \in Connections, Connect(c) PROVE IInv'
<1>1. CountInv' /\ permits' \in Nat /\ permits' \in 0 .. Capacity
  BY PermitsStay DEF IInv, TypeInv, Connect, Held, Holding, accept, futures
<1>2. TypeInv'
  BY <1>1 DEF IInv, TypeInv, TypeOK, Connect, server, accept, executor, futures
<1>3. PlaceInv'
  BY DEF IInv, TypeInv, TypeOK, PlaceInv, Pooled, Fresh, InHands, Connect, accept, executor, futures
<1>4. PhaseInv'
  BY DEF IInv, TypeInv, TypeOK, PhaseInv, Pooled, Connect, server, accept, executor, futures
<1> QED
  BY <1>1, <1>2, <1>3, <1>4 DEF IInv

LEMMA StartStep == ASSUME IInv, Start PROVE IInv'
<1>1. CountInv' /\ permits' \in Nat /\ permits' \in 0 .. Capacity
  BY PermitsStay DEF IInv, TypeInv, PhaseInv, Start, Accepting, Held, Holding, accept, futures
<1>2. TypeInv'
  BY <1>1, AdmissionAssumption
  DEF IInv, TypeInv, TypeOK, Start, Disturb, Accepting, sockets, accept, executor, futures
<1>3. PlaceInv'
  BY DEF IInv, PlaceInv, PhaseInv, Pooled, Fresh, InHands, Start, Accepting, sockets, accept, executor, futures
<1>4. PhaseInv'
  BY DEF IInv, PhaseInv, Pooled, Start, Accepting, sockets, accept, executor, futures
<1> QED
  BY <1>1, <1>2, <1>3, <1>4 DEF IInv

LEMMA AcceptStep == ASSUME IInv, NEW c \in Connections, Accept(c) PROVE IInv'
<1>1. CountInv' /\ permits' \in Nat /\ permits' \in 0 .. Capacity
  BY PermitsStay DEF IInv, TypeInv, Accept, Accepting, Held, Holding, futures
<1>2. TypeInv'
  BY <1>1 DEF IInv, TypeInv, TypeOK, Accept, Accepting, server, executor, futures
<1>3. PlaceInv'
  BY DEF IInv, TypeInv, TypeOK, PlaceInv, Pooled, Fresh, InHands, Accept, Accepting, executor, futures
<1>4. PhaseInv'
  BY DEF IInv, TypeInv, TypeOK, PhaseInv, Pooled, Accept, Accepting, server, executor, futures
<1> QED
  BY <1>1, <1>2, <1>3, <1>4 DEF IInv

LEMMA AdmitStep == ASSUME IInv, Admit PROVE IInv'
<1>1. /\ current \in Connections /\ current \notin Held /\ Held' = Held \cup {current}
      /\ permits > 0 /\ permits' = permits - 1
  BY DEF IInv, TypeInv, PlaceInv, Fresh, Admit, HasPermit, Accepting, Held, Holding, futures
<1>2. CountInv' /\ permits' \in Nat /\ permits' \in 0 .. Capacity
  BY <1>1, PermitTaken DEF IInv, TypeInv
<1>3. TypeInv'
  BY <1>2 DEF IInv, TypeInv, TypeOK, Admit, Accepting, server, sockets, executor, futures
<1>4. PlaceInv'
  BY DEF IInv, PlaceInv, Pooled, Fresh, InHands, Admit, Accepting, sockets, executor, futures
<1>5. PhaseInv'
  BY DEF IInv, PhaseInv, Pooled, Admit, Accepting, server, sockets, executor, futures
<1> QED
  BY <1>2, <1>3, <1>4, <1>5 DEF IInv

LEMMA RejectStep == ASSUME IInv, Reject PROVE IInv'
<1>1. CountInv' /\ permits' \in Nat /\ permits' \in 0 .. Capacity
  BY PermitsStay DEF IInv, TypeInv, Reject, Accepting, Held, Holding, futures
<1>2. TypeInv'
  BY <1>1 DEF IInv, TypeInv, TypeOK, Reject, Shut, Closed, Accepting, server, executor, futures
<1>3. PlaceInv'
  BY DEF IInv, TypeInv, TypeOK, PlaceInv, Pooled, Fresh, InHands, Reject, Shut, Closed, Accepting, executor, futures
<1>4. PhaseInv'
  BY DEF IInv, TypeInv, TypeOK, PhaseInv, Pooled, Reject, Shut, Closed, Accepting, server, executor, futures
<1> QED
  BY <1>1, <1>2, <1>3, <1>4 DEF IInv

\* What both outcomes of a submission do to the queue.
LEMMA Queued ==
  ASSUME IInv, acceptor = "submit", queue' = Append(queue, current), running' = running
  PROVE  /\ current \in Connections /\ current \notin Pooled \cup watched \cup completed
         /\ queue' \in Seq(Connections) /\ Pooled' = Pooled \cup {current}
         /\ ToSet(queue') \cap running' = {} /\ NoRepeats(queue')
<1>1. current \in Connections /\ current \notin Pooled \cup watched \cup completed
  BY DEF IInv, PlaceInv, Fresh
<1>2. queue \in Seq(Connections) /\ NoRepeats(queue) /\ ToSet(queue) \cap running = {}
  BY DEF IInv, TypeInv, TypeOK, PlaceInv
<1>3. current \notin ToSet(queue) /\ current \notin running
  BY <1>1 DEF Pooled
<1>4. /\ queue' \in Seq(Connections) /\ ToSet(queue') = ToSet(queue) \cup {current}
      /\ NoRepeats(queue')
  BY <1>1, <1>2, <1>3, AppendFacts
<1> QED
  BY <1>1, <1>2, <1>3, <1>4 DEF Pooled

LEMMA SubmitStep == ASSUME IInv, Submit PROVE IInv'
<1>1. /\ current \in Connections /\ current \notin Pooled \cup watched \cup completed
      /\ queue' \in Seq(Connections) /\ Pooled' = Pooled \cup {current}
      /\ ToSet(queue') \cap running' = {} /\ NoRepeats(queue')
  BY Queued DEF Submit
<1>2. CountInv' /\ permits' \in Nat /\ permits' \in 0 .. Capacity
  BY PermitsStay DEF IInv, TypeInv, Submit, Accepting, Held, Holding, futures
<1>3. threads' \in 0 .. Workers
  BY AdmissionAssumption DEF IInv, TypeInv, TypeOK, Submit, Spawns
<1>4. TypeInv'
  BY <1>1, <1>2, <1>3 DEF IInv, TypeInv, TypeOK, Submit, Accepting, server, sockets, futures
<1>5. PlaceInv'
  BY <1>1 DEF IInv, PlaceInv, Fresh, InHands, Submit, Accepting, sockets, futures
<1>6. PhaseInv'
  BY <1>1 DEF IInv, PhaseInv, Submit, Accepting, server, sockets, futures
<1> QED
  BY <1>2, <1>4, <1>5, <1>6 DEF IInv

LEMMA SubmitFailsStep == ASSUME IInv, SubmitFails PROVE IInv'
<1>1. /\ current \in Connections /\ current \notin Pooled \cup watched \cup completed
      /\ queue' \in Seq(Connections) /\ Pooled' = Pooled \cup {current}
      /\ ToSet(queue') \cap running' = {} /\ NoRepeats(queue')
  BY Queued DEF SubmitFails
<1>2. current \in Held /\ Held' = Held \ {current} /\ permits' = permits + 1
  BY <1>1 DEF SubmitFails, Returned, Accepting, Held, Holding, futures
<1>3. CountInv' /\ permits' \in Nat /\ permits' \in 0 .. Capacity
  BY <1>2, PermitReturned DEF IInv, TypeInv
<1>4. TypeInv'
  BY <1>1, <1>3, AdmissionAssumption
  DEF IInv, TypeInv, TypeOK, SubmitFails, Disturb, Shut, Closed, Accepting, server, futures
<1>5. PlaceInv'
  BY <1>1 DEF IInv, TypeInv, TypeOK, PlaceInv, Fresh, InHands, SubmitFails, Shut, Closed, Accepting, futures
<1>6. PhaseInv'
  BY <1>1 DEF IInv, TypeInv, TypeOK, PhaseInv, SubmitFails, Shut, Closed, Accepting, server, futures
<1> QED
  BY <1>3, <1>4, <1>5, <1>6 DEF IInv

LEMMA WatchStep == ASSUME IInv, Watch PROVE IInv'
<1>1. current \in Connections /\ current \notin watched /\ current \in Pooled \cup completed
  BY DEF IInv, PlaceInv, Watch
<1>2. CountInv' /\ permits' \in Nat /\ permits' \in 0 .. Capacity
  <2>1. CASE current \in completed
    <3>1. current \in Held /\ Held' = Held \ {current} /\ permits' = permits + 1
      BY <1>1, <2>1 DEF Watch, Accepting, Held, Holding
    <3> QED
      BY <3>1, PermitReturned DEF IInv, TypeInv
  <2>2. CASE current \notin completed
    <3>1. Held' = Held /\ permits' = permits
      BY <1>1, <2>2 DEF Watch, Accepting, Held, Holding
    <3> QED
      BY <3>1, PermitsStay DEF IInv, TypeInv
  <2> QED
    BY <2>1, <2>2
<1>3. TypeInv'
  BY <1>1, <1>2 DEF IInv, TypeInv, TypeOK, Watch, Accepting, server, sockets, executor
<1>4. PlaceInv'
  BY <1>1 DEF IInv, PlaceInv, Pooled, Fresh, InHands, Watch, Accepting, sockets, executor
<1>5. PhaseInv'
  BY <1>1 DEF IInv, PhaseInv, Pooled, Watch, Accepting, server, sockets, executor
<1> QED
  BY <1>2, <1>3, <1>4, <1>5 DEF IInv

LEMMA AcceptorEndsStep == ASSUME IInv, AcceptorEnds PROVE IInv'
<1>1. CountInv' /\ permits' \in Nat /\ permits' \in 0 .. Capacity
  BY PermitsStay DEF IInv, TypeInv, AcceptorEnds, Accepting, Held, Holding, futures
<1>2. TypeInv'
  BY <1>1 DEF IInv, TypeInv, TypeOK, AcceptorEnds, Accepting, server, sockets, executor, futures
<1>3. PlaceInv'
  BY DEF IInv, PlaceInv, Pooled, Fresh, InHands, AcceptorEnds, Accepting, sockets, executor, futures
<1>4. PhaseInv'
  BY DEF IInv, PhaseInv, Pooled, AcceptorEnds, Ends, Accepting, server, sockets, executor, futures
<1> QED
  BY <1>1, <1>2, <1>3, <1>4 DEF IInv

-----------------------------------------------------------------------------
LEMMA TakeStep == ASSUME IInv, Take PROVE IInv'
<1>1. /\ Tail(queue) \in Seq(Connections) /\ Head(queue) \in Connections
      /\ ToSet(Tail(queue)) = ToSet(queue) \ {Head(queue)}
      /\ Head(queue) \in ToSet(queue) /\ NoRepeats(Tail(queue))
  BY TailFacts DEF IInv, TypeInv, TypeOK, PlaceInv, Take
<1>2. Pooled' = Pooled /\ ToSet(queue') \cap running' = {} /\ NoRepeats(queue')
  BY <1>1 DEF Pooled, Take, IInv, PlaceInv
<1>3. CountInv' /\ permits' \in Nat /\ permits' \in 0 .. Capacity
  BY PermitsStay DEF IInv, TypeInv, Take, Held, Holding, accept, futures
<1>4. TypeInv'
  BY <1>1, <1>3 DEF IInv, TypeInv, TypeOK, Take, server, accept, sockets, futures
<1>5. PlaceInv'
  BY <1>2 DEF IInv, PlaceInv, Fresh, InHands, Take, accept, sockets, futures
<1>6. PhaseInv'
  BY <1>2, EmptyQueue DEF IInv, PhaseInv, Take, server, accept, sockets, futures
<1> QED
  BY <1>3, <1>4, <1>5, <1>6 DEF IInv

LEMMA HandleStep == ASSUME IInv, NEW c \in Connections, Handle(c) PROVE IInv'
<1>1. CountInv' /\ permits' \in Nat /\ permits' \in 0 .. Capacity
  BY PermitsStay DEF IInv, TypeInv, Handle, Held, Holding, accept, futures
<1>2. TypeInv'
  BY <1>1 DEF IInv, TypeInv, TypeOK, Handle, Shut, Closed, server, accept, executor, futures
<1>3. PlaceInv'
  BY DEF IInv, TypeInv, TypeOK, PlaceInv, Pooled, Fresh, InHands, Handle, Shut, Closed, accept, executor, futures
<1>4. PhaseInv'
  BY DEF IInv, TypeInv, TypeOK, PhaseInv, Pooled, Handle, Shut, Closed, server, accept, executor, futures
<1> QED
  BY <1>1, <1>2, <1>3, <1>4 DEF IInv

LEMMA CompleteStep == ASSUME IInv, NEW c \in Connections, Complete(c) PROVE IInv'
<1>1. c \in running /\ c \notin completed /\ c \notin ToSet(queue) /\ socket[c] = "shut"
  BY DEF IInv, PlaceInv, Pooled, Complete
<1>2. Pooled' = Pooled \ {c} /\ completed' = completed \cup {c} /\ ToSet(queue') \cap running' = {}
  BY <1>1 DEF IInv, PlaceInv, Pooled, Complete
<1>3. CountInv' /\ permits' \in Nat /\ permits' \in 0 .. Capacity
  <2>1. CASE c \in watched
    <3>1. ~(acceptor \in {"submit", "watch"} /\ current = c)
      BY <1>1, <2>1 DEF IInv, PlaceInv, Fresh
    <3>2. c \in Held /\ Held' = Held \ {c} /\ permits' = permits + 1
      BY <1>1, <2>1, <3>1 DEF Complete, Releases, Held, Holding, accept
    <3> QED
      BY <3>2, PermitReturned DEF IInv, TypeInv
  <2>2. CASE c \notin watched
    <3>1. Held' = Held /\ permits' = permits
      BY <2>2 DEF Complete, Releases, Held, Holding, accept
    <3> QED
      BY <3>1, PermitsStay DEF IInv, TypeInv
  <2> QED
    BY <2>1, <2>2
<1>4. TypeInv'
  BY <1>3 DEF IInv, TypeInv, TypeOK, Complete, server, accept, sockets
<1>5. PlaceInv'
  BY <1>1, <1>2 DEF IInv, PlaceInv, Fresh, InHands, Complete, Pooled, accept, sockets
<1>6. PhaseInv'
  BY <1>1, <1>2 DEF IInv, PhaseInv, Complete, Pooled, server, accept, sockets
<1> QED
  BY <1>3, <1>4, <1>5, <1>6 DEF IInv

-----------------------------------------------------------------------------
LEMMA CloseUnstartedStep == ASSUME IInv, CloseUnstarted PROVE IInv'
<1>1. CountInv' /\ permits' \in Nat /\ permits' \in 0 .. Capacity
  BY PermitsStay DEF IInv, TypeInv, CloseUnstarted, Held, Holding, accept, futures
<1>2. TypeInv'
  BY <1>1 DEF IInv, TypeInv, TypeOK, CloseUnstarted, accept, executor, futures
<1>3. PlaceInv'
  BY DEF IInv, TypeInv, TypeOK, PlaceInv, PhaseInv, Pooled, Fresh, InHands, CloseUnstarted, accept, executor, futures
<1>4. PhaseInv'
  BY DEF IInv, TypeInv, TypeOK, PhaseInv, Pooled, CloseUnstarted, accept, executor, futures
<1> QED
  BY <1>1, <1>2, <1>3, <1>4 DEF IInv

LEMMA BeginCloseStep == ASSUME IInv, BeginClose PROVE IInv'
<1>1. CountInv' /\ permits' \in Nat /\ permits' \in 0 .. Capacity
  BY PermitsStay DEF IInv, TypeInv, BeginClose, Held, Holding, accept, futures
<1>2. TypeInv'
  BY <1>1 DEF IInv, TypeInv, TypeOK, BeginClose, accept, sockets, executor, futures
<1>3. PlaceInv'
  BY DEF IInv, PlaceInv, Pooled, Fresh, InHands, BeginClose, accept, sockets, executor, futures
<1>4. PhaseInv'
  BY DEF IInv, PhaseInv, Pooled, BeginClose, accept, sockets, executor, futures
<1> QED
  BY <1>1, <1>2, <1>3, <1>4 DEF IInv

LEMMA CloseListenerStep == ASSUME IInv, CloseListener PROVE IInv'
<1>1. CountInv' /\ permits' \in Nat /\ permits' \in 0 .. Capacity
  BY PermitsStay DEF IInv, TypeInv, CloseListener, Held, Holding, accept, futures
<1>2. TypeInv'
  BY <1>1 DEF IInv, TypeInv, TypeOK, CloseListener, accept, executor, futures
<1>3. PlaceInv'
  BY DEF IInv, TypeInv, TypeOK, PlaceInv, Pooled, Fresh, InHands, CloseListener, accept, executor, futures
<1>4. PhaseInv'
  BY DEF IInv, TypeInv, TypeOK, PhaseInv, Pooled, CloseListener, accept, executor, futures
<1> QED
  BY <1>1, <1>2, <1>3, <1>4 DEF IInv

LEMMA CancelStep == ASSUME IInv, Cancel PROVE IInv'
<1> DEFINE c == Head(queue)
<1>1. /\ Tail(queue) \in Seq(Connections) /\ c \in Connections
      /\ ToSet(Tail(queue)) = ToSet(queue) \ {c}
      /\ c \in ToSet(queue) /\ NoRepeats(Tail(queue))
  BY TailFacts DEF IInv, TypeInv, TypeOK, PlaceInv, Cancel
<1>2. /\ acceptor = "ended" /\ c \notin completed /\ c \notin running
      /\ queue' = Tail(queue) /\ running' = running /\ completed' = completed \cup {c}
      /\ UNCHANGED <<server, accept, threads, watched, faults>>
  BY <1>1 DEF IInv, PlaceInv, PhaseInv, Pooled, Cancel
<1> HIDE DEF c
<1>3. Pooled' = Pooled \ {c} /\ ToSet(queue') \cap running' = {} /\ NoRepeats(queue')
  BY <1>1, <1>2 DEF Pooled, IInv, PlaceInv
<1>4. /\ c \in watched => Shut(c, "dropped") /\ permits' = permits + 1
      /\ c \notin watched => UNCHANGED <<sockets, permits>>
  BY DEF c, Cancel, Cancelled
<1>5. CountInv' /\ permits' \in Nat /\ permits' \in 0 .. Capacity
  <2>1. CASE c \in watched
    <3>1. c \in Held /\ Held' = Held \ {c} /\ permits' = permits + 1
      BY <1>1, <1>2, <1>4, <2>1 DEF Held, Holding, accept
    <3> QED
      BY <3>1, PermitReturned DEF IInv, TypeInv
  <2>2. CASE c \notin watched
    <3>1. Held' = Held /\ permits' = permits
      BY <1>2, <1>4, <2>2 DEF Held, Holding, accept
    <3> QED
      BY <3>1, PermitsStay DEF IInv, TypeInv
  <2> QED
    BY <2>1, <2>2
<1>6. /\ socket' \in [Connections -> {"none", "backlog", "open", "shut", "reset"}]
      /\ answer' \in [Connections -> {"none", "served", "overloaded", "dropped"}]
      /\ socket'[c] = "shut" /\ \A other \in Connections \ {c} : socket'[other] = socket[other]
  <2>1. CASE c \in watched
    BY <1>1, <1>4, <2>1 DEF Shut, Closed, IInv, TypeInv, TypeOK
  <2>2. CASE c \notin watched
    <3>1. socket[c] = "shut"
      BY <1>1, <1>2, <2>2 DEF IInv, TypeInv, TypeOK, PlaceInv, Fresh, InHands, Pooled
    <3> QED
      BY <1>4, <2>2, <3>1 DEF sockets, IInv, TypeInv, TypeOK
  <2> QED
    BY <2>1, <2>2
<1>7. TypeInv'
  BY <1>1, <1>2, <1>5, <1>6 DEF IInv, TypeInv, TypeOK, server, accept
<1>8. PlaceInv'
  <2>1. /\ acceptor' = "ended" /\ current' = current /\ watched' = watched
        /\ completed' \cap Pooled' = {} /\ watched' \subseteq Pooled' \cup completed'
    BY <1>2, <1>3 DEF IInv, PlaceInv, accept
  <2>2. ASSUME NEW other \in Connections, socket'[other] \in {"none", "backlog", "reset"}
        PROVE  Fresh(other)'
    <3>1. other # c /\ Fresh(other)
      BY <1>6, <2>2 DEF IInv, PlaceInv
    <3> QED
      BY <1>2, <1>3, <3>1 DEF Fresh
  <2>3. ASSUME NEW other \in Connections, socket'[other] = "open" PROVE other \in watched'
    BY <1>2, <1>6, <2>1, <2>3 DEF IInv, PlaceInv, InHands
  <2>4. ASSUME NEW other \in completed' PROVE socket'[other] = "shut"
    <3>1. CASE other = c
      BY <1>6, <3>1
    <3>2. CASE other # c
      BY <1>2, <1>6, <2>4, <3>2 DEF IInv, TypeInv, TypeOK, PlaceInv
    <3> QED
      BY <3>1, <3>2
  <2> QED
    BY <1>3, <2>1, <2>2, <2>3, <2>4 DEF PlaceInv
<1>9. PhaseInv'
  BY <1>1, <1>2, <1>3, <1>6, EmptyQueue DEF IInv, PhaseInv, Pooled, server, accept
<1> QED
  BY <1>5, <1>7, <1>8, <1>9 DEF IInv

LEMMA AwaitPoolStep == ASSUME IInv, AwaitPool PROVE IInv'
<1>1. CountInv' /\ permits' \in Nat /\ permits' \in 0 .. Capacity
  BY PermitsStay DEF IInv, TypeInv, AwaitPool, Held, Holding, accept, futures
<1>2. TypeInv'
  BY <1>1 DEF IInv, TypeInv, TypeOK, AwaitPool, accept, sockets, executor, futures
<1>3. PlaceInv'
  BY DEF IInv, PlaceInv, Pooled, Fresh, InHands, AwaitPool, accept, sockets, executor, futures
<1>4. PhaseInv'
  BY DEF IInv, PhaseInv, Pooled, AwaitPool, accept, sockets, executor, futures
<1> QED
  BY <1>1, <1>2, <1>3, <1>4 DEF IInv

LEMMA EndCloseStep == ASSUME IInv, EndClose PROVE IInv'
<1>1. CountInv' /\ permits' \in Nat /\ permits' \in 0 .. Capacity
  BY PermitsStay DEF IInv, TypeInv, EndClose, Held, Holding, accept, futures
<1>2. TypeInv'
  BY <1>1 DEF IInv, TypeInv, TypeOK, EndClose, accept, sockets, executor, futures
<1>3. PlaceInv'
  BY DEF IInv, PlaceInv, Pooled, Fresh, InHands, EndClose, accept, sockets, executor, futures
<1>4. PhaseInv'
  BY EmptyQueue DEF IInv, PhaseInv, Pooled, EndClose, PoolEnded, accept, sockets, executor, futures
<1> QED
  BY <1>1, <1>2, <1>3, <1>4 DEF IInv

LEMMA InductiveStep == IInv /\ [Next]_vars => IInv'
<1> SUFFICES ASSUME IInv, [Next]_vars PROVE IInv'
  OBVIOUS
<1>1. ASSUME NEW c \in Connections, Connect(c) \/ Accept(c) \/ Handle(c) \/ Complete(c) PROVE IInv'
  BY <1>1, ConnectStep, AcceptStep, HandleStep, CompleteStep
<1>2. CASE AcceptorStep
  BY <1>2, AdmitStep, RejectStep, SubmitStep, SubmitFailsStep, WatchStep, AcceptorEndsStep DEF AcceptorStep
<1>3. CASE CloserStep
  BY <1>3, CloseListenerStep, CancelStep, AwaitPoolStep, EndCloseStep DEF CloserStep
<1>4. CASE Start \/ Take \/ CloseUnstarted \/ BeginClose
  BY <1>4, StartStep, TakeStep, CloseUnstartedStep, BeginCloseStep
<1>5. CASE UNCHANGED vars
  BY <1>5 DEF vars, server, accept, sockets, executor, futures, IInv, TypeInv, TypeOK, PlaceInv,
     CountInv, PhaseInv, Pooled, Fresh, InHands, Held, Holding
<1> QED
  BY <1>1, <1>2, <1>3, <1>4, <1>5 DEF Next

\* The inductive invariant holds.
THEOREM InvariantHolds == Spec => []IInv
  BY InitEstablishes, InductiveStep, PTL DEF Spec

\* The variables of the server have their types; in particular the semaphore is never
\* released beyond its capacity (web.py:610-689).
THEOREM TypesHold == Spec => []TypeOK
<1>1. IInv => TypeOK
  BY DEF IInv, TypeInv
<1> QED
  BY <1>1, InvariantHolds, PTL

\* Every permit is accounted for, and with it the work the server accepts is bounded
\* (web.py:637-672).
THEOREM PermitsAreAccounted == Spec => []PermitsMatch
<1>1. ASSUME IInv PROVE PermitsMatch
  <2> DEFINE Open == {c \in Connections : socket[c] = "open"}
             OpenPooled == {c \in ToSet(queue) \cup running : socket[c] = "open"}
  <2>1. Cardinality(Held) <= Capacity /\ IsFiniteSet(Held)
    BY <1>1, Counts DEF IInv, TypeInv, CountInv
  <2>2. Open \subseteq Held \cup {current}
    BY <1>1 DEF IInv, PlaceInv, Held, Holding, InHands
  <2>3. IsFiniteSet(Held \cup {current}) /\ Cardinality(Held \cup {current}) <= Capacity + 1
    BY <2>1, Counts, FS_AddElement
  <2>4. Cardinality(Open) <= Capacity + 1
    <3>1. IsFiniteSet(Open) /\ Cardinality(Open) <= Cardinality(Held \cup {current})
      BY <2>2, <2>3, FS_Subset
    <3> QED
      BY <2>3, <3>1, Counts, FS_CardinalityType
  <2>5. OpenPooled \subseteq Held
    <3>1. ASSUME NEW c \in OpenPooled PROVE c \in Connections /\ Holding(c)
      BY <1>1, QueueTypes DEF IInv, TypeInv, TypeOK, PlaceInv, Pooled, Fresh, Holding, InHands
    <3> QED
      BY <3>1 DEF Held
  <2>6. Cardinality(OpenPooled) <= Capacity
    <3>1. IsFiniteSet(OpenPooled) /\ Cardinality(OpenPooled) <= Cardinality(Held)
      BY <2>1, <2>5, FS_Subset
    <3> QED
      BY <2>1, <3>1, Counts, FS_CardinalityType
  <2> QED
    BY <1>1, <2>4, <2>6 DEF IInv, CountInv, Held, PermitsMatch
<1> QED
  BY <1>1, InvariantHolds, PTL

\* A server that is closed runs nothing and leaves no connection open (web.py:210-228).
THEOREM StoppedServersAreQuiet == Spec => []StoppedIsQuiet
<1>1. ASSUME IInv, lifecycle = "stopped"
      PROVE  /\ queue = <<>> /\ running = {} /\ permits = Capacity
             /\ \A c \in Connections : socket[c] \notin {"backlog", "open"}
  <2>1. Pooled = {} /\ acceptor \in {"unborn", "ended"} /\ ~listening
    BY <1>1 DEF IInv, PhaseInv
  <2>2. queue = <<>> /\ running = {}
    BY <1>1, <2>1, NoQueue DEF Pooled, IInv, TypeInv, TypeOK
  <2>3. Held = {}
    BY <1>1, <2>1 DEF IInv, PlaceInv, Held, Holding
  <2>4. permits = Capacity
    BY <1>1, <2>3, FS_EmptySet, Counts DEF IInv, TypeInv, CountInv
  <2>5. \A c \in Connections : socket[c] \notin {"backlog", "open"}
    BY <1>1, <2>1 DEF IInv, PlaceInv, PhaseInv, InHands
  <2> QED
    BY <2>2, <2>4, <2>5
<1>2. IInv => StoppedIsQuiet
  BY <1>1 DEF StoppedIsQuiet
<1> QED
  BY <1>2, InvariantHolds, PTL

-----------------------------------------------------------------------------
\* One answer for each connection.

\* A connection is shut when it is answered.  What is queued with its callback
\* attached, or about to be, is open: the one that was dropped because no thread
\* could be started for it is queued, but nobody watches it.
AnswerInv ==
  /\ \A c \in ToSet(queue) : c \in watched \/ (acceptor = "watch" /\ current = c) => socket[c] = "open"
  /\ \A c \in Connections : socket[c] = "shut" <=> answer[c] # "none"

\* A connection is left as it is, or moved while it has no answer, or answered.
Same(c) == socket'[c] = socket[c] /\ answer'[c] = answer[c]
Moved(c) == socket[c] # "shut" /\ socket'[c] # "shut" /\ answer'[c] = answer[c]
Answered(c) == socket[c] = "open" /\ socket'[c] = "shut" /\ answer'[c] # "none"

LEMMA ShutAnswers ==
  ASSUME IInv, NEW c \in Connections, socket[c] = "open", NEW what \in {"served", "overloaded", "dropped"},
         Shut(c, what), NEW d \in Connections
  PROVE  (d = c /\ Answered(d)) \/ (d # c /\ Same(d))
<1>1. /\ socket \in [Connections -> {"none", "backlog", "open", "shut", "reset"}]
      /\ answer \in [Connections -> {"none", "served", "overloaded", "dropped"}]
  BY DEF IInv, TypeInv, TypeOK
<1>2. socket' = [socket EXCEPT ![c] = "shut"] /\ answer' = [answer EXCEPT ![c] = what]
  BY DEF Shut, Closed
<1> QED
  BY <1>1, <1>2 DEF Answered, Same

LEMMA OneAnswer ==
  ASSUME IInv, AnswerInv, [Next]_vars, NEW d \in Connections
  PROVE  Same(d) \/ Moved(d) \/ Answered(d)
<1>0. /\ socket \in [Connections -> {"none", "backlog", "open", "shut", "reset"}]
      /\ queue \in Seq(Connections)
  BY DEF IInv, TypeInv, TypeOK
<1>1. CASE UNCHANGED sockets
  BY <1>1 DEF Same, sockets
<1>2. ASSUME NEW c \in Connections, Connect(c) \/ Accept(c) PROVE Same(d) \/ Moved(d)
  BY <1>0, <1>2 DEF Connect, Accept, Same, Moved
<1>3. CASE CloseUnstarted \/ CloseListener
  BY <1>0, <1>3 DEF CloseUnstarted, CloseListener, Same, Moved
<1>4. CASE Reject \/ SubmitFails
  <2>1. current \in Connections /\ socket[current] = "open"
    BY <1>4 DEF IInv, PlaceInv, Reject, SubmitFails
  <2>2. \E what \in {"served", "overloaded", "dropped"} : Shut(current, what)
    BY <1>4 DEF Reject, SubmitFails
  <2> QED
    BY <2>1, <2>2, ShutAnswers
<1>5. ASSUME NEW c \in Connections, Handle(c) PROVE Same(d) \/ Answered(d)
  <2>1. socket[c] = "open" /\ \E what \in {"served", "overloaded", "dropped"} : Shut(c, what)
    BY <1>5 DEF Handle
  <2> QED
    BY <2>1, ShutAnswers
<1>6. CASE Cancel
  <2>1. queue # <<>> /\ Head(queue) \in ToSet(queue) /\ Head(queue) \in Connections
    BY <1>0, <1>6, TailFacts DEF Cancel, IInv, PlaceInv
  <2>2. CASE Head(queue) \in watched
    <3>1. socket[Head(queue)] = "open"
      BY <2>1, <2>2 DEF AnswerInv
    <3>2. Shut(Head(queue), "dropped")
      BY <1>6, <2>2 DEF Cancel, Cancelled
    <3> QED
      BY <2>1, <3>1, <3>2, ShutAnswers
  <2>3. CASE Head(queue) \notin watched
    BY <1>1, <1>6, <2>3 DEF Cancel, Cancelled
  <2> QED
    BY <2>2, <2>3
<1>7. ASSUME NEW c \in Connections, Complete(c) PROVE UNCHANGED sockets
  BY <1>7 DEF Complete
<1>8. CASE Start \/ Admit \/ Submit \/ Watch \/ AcceptorEnds \/ Take \/ BeginClose \/ AwaitPool \/ EndClose \/ UNCHANGED vars
  BY <1>1, <1>8 DEF Start, Admit, Submit, Watch, AcceptorEnds, Take, BeginClose, AwaitPool, EndClose, vars
<1> QED
  BY <1>1, <1>2, <1>3, <1>4, <1>5, <1>6, <1>7, <1>8 DEF Next, AcceptorStep, CloserStep

\* What is queued and watched stays open while it is queued.
LEMMA QueueStaysOpen ==
  ASSUME IInv, AnswerInv, [Next]_vars, NEW d \in ToSet(queue'),
         d \in watched' \/ (acceptor' = "watch" /\ current' = d)
  PROVE  socket'[d] = "open"
<1>0. /\ queue \in Seq(Connections) /\ NoRepeats(queue)
      /\ socket \in [Connections -> {"none", "backlog", "open", "shut", "reset"}]
  BY DEF IInv, TypeInv, TypeOK, PlaceInv
<1>1. ASSUME d \in ToSet(queue), d \in watched \/ (acceptor = "watch" /\ current = d),
             socket[d] = "open" => socket'[d] = "open"
      PROVE  socket'[d] = "open"
  BY <1>1 DEF AnswerInv
<1>2. d \in ToSet(queue) => d \in Connections /\ ~(socket[d] \in {"none", "backlog", "reset"})
  BY <1>0, QueueTypes DEF IInv, PlaceInv, Fresh, Pooled
<1>3. ASSUME NEW c \in Connections, Connect(c) \/ Accept(c) PROVE socket'[d] = "open"
  BY <1>0, <1>1, <1>2, <1>3 DEF Connect, Accept, Accepting, executor, futures, accept
<1>4. CASE CloseUnstarted \/ CloseListener
  BY <1>0, <1>1, <1>2, <1>4 DEF CloseUnstarted, CloseListener, accept, executor, futures
<1>5. CASE Reject
  <2>1. current \notin ToSet(queue) /\ queue' = queue /\ watched' = watched /\ acceptor' = "accepting"
    BY <1>5 DEF Reject, Accepting, IInv, PlaceInv, Fresh, Pooled, executor, futures
  <2>2. socket' = [socket EXCEPT ![current] = "shut"]
    BY <1>5 DEF Reject, Shut, Closed
  <2> QED
    BY <1>0, <1>1, <1>2, <2>1, <2>2
<1>6. CASE Submit
  <2>1. /\ socket[current] = "open" /\ socket' = socket /\ watched' = watched
        /\ queue' = Append(queue, current) /\ current \in Connections /\ current' = current /\ acceptor # "watch"
    BY <1>6 DEF Submit, Accepting, IInv, PlaceInv, sockets, futures
  <2>2. ToSet(queue') = ToSet(queue) \cup {current}
    BY <1>0, <2>1, AppendFacts
  <2> QED
    BY <1>1, <2>1, <2>2
<1>7. CASE SubmitFails
  <2>1. /\ current \notin ToSet(queue) /\ current \notin watched /\ current \in Connections
        /\ queue' = Append(queue, current) /\ watched' = watched /\ acceptor' = "accepting"
        /\ socket' = [socket EXCEPT ![current] = "shut"]
    BY <1>7 DEF SubmitFails, Accepting, Shut, Closed, IInv, PlaceInv, Fresh, Pooled, futures
  <2>2. ToSet(queue') = ToSet(queue) \cup {current}
    BY <1>0, <2>1, AppendFacts
  <2> QED
    BY <1>0, <1>1, <1>2, <2>1, <2>2
<1>8. CASE Watch
  <2>1. /\ queue' = queue /\ socket' = socket /\ watched' = watched \cup {current}
        /\ acceptor' = "accepting" /\ acceptor = "watch"
    BY <1>8 DEF Watch, Accepting, executor, sockets
  <2> QED
    BY <1>1, <2>1
<1>9. CASE Take
  <2>1. ToSet(queue') = ToSet(queue) \ {Head(queue)}
    BY <1>0, <1>9, TailFacts DEF Take
  <2> QED
    BY <1>1, <1>9, <2>1 DEF Take, accept, sockets, futures
<1>10. ASSUME NEW c \in Connections, Handle(c) PROVE socket'[d] = "open"
  <2>1. c \notin ToSet(queue) /\ UNCHANGED <<queue, watched, acceptor, current>>
    BY <1>10 DEF Handle, IInv, PlaceInv, executor, futures, accept
  <2>2. socket' = [socket EXCEPT ![c] = "shut"]
    BY <1>10 DEF Handle, Shut, Closed
  <2> QED
    BY <1>0, <1>1, <1>2, <2>1, <2>2
<1>11. ASSUME NEW c \in Connections, Complete(c) PROVE socket'[d] = "open"
  BY <1>1, <1>11 DEF Complete, accept, sockets
<1>12. CASE Cancel
  <2>1. ToSet(queue') = ToSet(queue) \ {Head(queue)} /\ Head(queue) \in Connections
    BY <1>0, <1>12, TailFacts DEF Cancel
  <2>2. UNCHANGED <<watched, acceptor, current>>
    BY <1>12 DEF Cancel, accept
  <2>3. socket' = socket \/ socket' = [socket EXCEPT ![Head(queue)] = "shut"]
    BY <1>12 DEF Cancel, Cancelled, Shut, Closed, sockets
  <2> QED
    BY <1>0, <1>1, <1>2, <2>1, <2>2, <2>3
<1>13. CASE Start \/ Admit \/ AcceptorEnds \/ BeginClose \/ AwaitPool \/ EndClose \/ UNCHANGED vars
  <2>1. UNCHANGED <<queue, socket, watched>> /\ (acceptor' = "watch" => UNCHANGED <<acceptor, current>>)
    BY <1>13 DEF Start, Admit, AcceptorEnds, BeginClose, AwaitPool, EndClose, Accepting,
       vars, accept, sockets, executor, futures
  <2> QED
    BY <1>1, <2>1
<1> QED
  BY <1>3, <1>4, <1>5, <1>6, <1>7, <1>8, <1>9, <1>10, <1>11, <1>12, <1>13 DEF Next, AcceptorStep, CloserStep

\* A connection is answered once: the answer it has been given, by a worker, by the
\* accepting thread or by close(), is final, although the work of a connection that was
\* dropped for want of a thread may still be queued (web.py:637-689).
THEOREM AnswersAreFinal ==
  Spec => [][\A c \in Connections : socket[c] = "shut" => socket'[c] = "shut" /\ answer'[c] = answer[c]]_vars
<1> DEFINE Final == \A c \in Connections : socket[c] = "shut" => socket'[c] = "shut" /\ answer'[c] = answer[c]
<1>1. Init => AnswerInv
  BY EmptyQueue DEF Init, AnswerInv
<1>2. IInv /\ AnswerInv /\ [Next]_vars => AnswerInv' /\ [Final]_vars
  <2> SUFFICES ASSUME IInv, AnswerInv, [Next]_vars PROVE AnswerInv' /\ Final
    OBVIOUS
  <2>1. \A c \in Connections : Same(c) \/ Moved(c) \/ Answered(c)
    BY OneAnswer
  <2>2. \A c \in ToSet(queue') : c \in watched' \/ (acceptor' = "watch" /\ current' = c) => socket'[c] = "open"
    BY QueueStaysOpen
  <2>3. \A c \in Connections : socket'[c] = "shut" <=> answer'[c] # "none"
    BY <2>1 DEF AnswerInv, Same, Moved, Answered
  <2>4. Final
    BY <2>1 DEF Same, Moved, Answered
  <2> QED
    BY <2>2, <2>3, <2>4 DEF AnswerInv, ToSet
<1> QED
  BY <1>1, <1>2, InvariantHolds, PTL DEF Spec
=============================================================================
