---------------------------- MODULE HttpAdmission ----------------------------
(***************************************************************************)
(* DashboardHttpServer and BoundedThreadPoolHttpServer: one thread accepts *)
(* connections, admits each one with a permit of a bounded semaphore or    *)
(* answers 503, and submits it to a pool of at most Workers threads. The   *)
(* permit is given back by a callback of the future, which the accepting   *)
(* thread attaches after the submission, in whichever thread completes it. *)
(* close() ends the accepting thread, cancels what is queued and waits for *)
(* what is running.                                                        *)
(***************************************************************************)
EXTENDS Integers, FiniteSets, Sequences, SequencesExt

CONSTANTS
  Connections,  \* the connections that may come
  Workers,      \* SBK_DASHBOARD_HTTP_WORKERS
  Queue,        \* SBK_DASHBOARD_HTTP_QUEUE_CAPACITY
  MaxFaults     \* bound: how many threads fail to start

ASSUME AdmissionAssumption ==
  /\ IsFiniteSet(Connections)
  /\ Workers \in Nat \ {0} /\ Queue \in Nat \ {0} /\ MaxFaults \in Nat

Capacity == Workers + Queue

VARIABLES
  lifecycle, closer,  \* the server's lifecycle, and how far close() has come
  listening,          \* the listening socket is open
  acceptor, current,  \* the accepting thread, and the connection it deals with
  socket, answer,     \* the connections, and what each was answered
  permits,            \* the value of the semaphore
  queue, running,     \* the executor: queued and running connections
  threads,            \* the worker threads started so far
  watched, completed, \* futures with the callback attached, futures done or cancelled
  faults              \* threads that failed to start, a bound of the model

server   == <<lifecycle, closer, listening>>
accept   == <<acceptor, current>>
sockets  == <<socket, answer>>
executor == <<queue, running, threads>>
futures  == <<watched, completed>>
vars == <<server, accept, sockets, permits, executor, futures, faults>>

Nothing == "nothing"

TypeOK ==
  /\ lifecycle \in {"new", "starting", "running", "stopping", "stopped"}
  /\ closer \in {"idle", "shutdown", "cancel", "wait"}
  /\ listening \in BOOLEAN
  /\ acceptor \in {"unborn", "accepting", "taken", "submit", "watch", "ended"}
  /\ current \in Connections \cup {Nothing}
  /\ socket \in [Connections -> {"none", "backlog", "open", "shut", "reset"}]
  /\ answer \in [Connections -> {"none", "served", "overloaded", "dropped"}]
  /\ permits \in 0 .. Capacity
  /\ queue \in Seq(Connections)
  /\ running \subseteq Connections /\ watched \subseteq Connections /\ completed \subseteq Connections
  /\ threads \in 0 .. Workers
  /\ faults \in 0 .. MaxFaults

\* The constructor binds and listens.
Init ==
  /\ lifecycle = "new" /\ closer = "idle" /\ listening = TRUE
  /\ acceptor = "unborn" /\ current = Nothing
  /\ socket = [c \in Connections |-> "none"]
  /\ answer = [c \in Connections |-> "none"]
  /\ permits = Capacity
  /\ queue = <<>> /\ running = {} /\ threads = 0
  /\ watched = {} /\ completed = {}
  /\ faults = 0
-----------------------------------------------------------------------------
\* Helper state formulae and steps.

Disturb == faults < MaxFaults /\ faults' = faults + 1

Accepting(next, c) == acceptor' = next /\ current' = c

\* Defect for the runs: the socket stays open.
LeftOpen == "open"

\* What shutdown_request() makes of the socket, in a finally clause.
Closed == "shut"

Shut(c, what) == socket' = [socket EXCEPT ![c] = Closed] /\ answer' = [answer EXCEPT ![c] = what]

\* Worker threads that wait for work.
Idle == threads - Cardinality(running)
-----------------------------------------------------------------------------
\* The clients and start().

Connect(c) ==
  /\ socket[c] = "none" /\ listening
  /\ socket' = [socket EXCEPT ![c] = "backlog"]
  /\ UNCHANGED <<server, accept, answer, permits, executor, futures, faults>>

\* The accepting thread is started, or cannot be.
Start ==
  /\ lifecycle = "new" /\ closer = "idle"
  /\ \/ lifecycle' = "running" /\ Accepting("accepting", Nothing) /\ UNCHANGED faults
     \/ lifecycle' = "starting" /\ Disturb /\ UNCHANGED accept
  /\ UNCHANGED <<closer, listening, sockets, permits, executor, futures>>
-----------------------------------------------------------------------------
\* The accepting thread.

\* serve_forever() looks at the shutdown request before it takes a connection.
Accept(c) ==
  /\ acceptor = "accepting" /\ closer = "idle"
  /\ socket[c] = "backlog"
  /\ socket' = [socket EXCEPT ![c] = "open"]
  /\ Accepting("taken", c)
  /\ UNCHANGED <<server, answer, permits, executor, futures, faults>>

\* acquire(blocking=False) succeeds.
HasPermit == permits > 0

Admit ==
  /\ acceptor = "taken" /\ HasPermit
  /\ permits' = permits - 1
  /\ Accepting("submit", current)
  /\ UNCHANGED <<server, sockets, executor, futures, faults>>

\* 503, written by the accepting thread itself.
Reject ==
  /\ acceptor = "taken" /\ ~HasPermit
  /\ Shut(current, "overloaded")
  /\ Accepting("accepting", Nothing)
  /\ UNCHANGED <<server, permits, executor, futures, faults>>

\* Defect for the runs: the number of workers is not limited.
SpawnsAlways == Idle <= Len(queue)

\* submit() queues the work and starts another thread when no worker is idle.
Spawns == Idle <= Len(queue) /\ threads < Workers

Submit ==
  /\ acceptor = "submit"
  /\ queue' = Append(queue, current)
  /\ threads' = IF Spawns THEN threads + 1 ELSE threads
  /\ Accepting("watch", current)
  /\ UNCHANGED <<server, sockets, permits, running, futures, faults>>

\* Defect for the runs: the permit is not given back.
Kept == permits

\* The permit of a submission that failed.
Returned == permits + 1

\* When the thread cannot be started submit() raises, but the work stays queued.
SubmitFails ==
  /\ acceptor = "submit" /\ Spawns /\ Disturb
  /\ queue' = Append(queue, current)
  /\ permits' = Returned
  /\ Shut(current, "dropped")
  /\ Accepting("accepting", Nothing)
  /\ UNCHANGED <<server, running, threads, futures>>

\* add_done_callback() runs the callback at once when the future is done already.
Watch ==
  /\ acceptor = "watch"
  /\ watched' = watched \cup {current}
  /\ permits' = IF current \in completed THEN permits + 1 ELSE permits
  /\ Accepting("accepting", Nothing)
  /\ UNCHANGED <<server, sockets, executor, completed, faults>>

\* Defect for the runs: the request is noticed with the next connection only.
WokenUp == closer = "shutdown" /\ \E c \in Connections : socket[c] = "backlog"

\* serve_forever() polls the shutdown request.
Ends == closer = "shutdown"

AcceptorEnds ==
  /\ acceptor = "accepting" /\ Ends
  /\ Accepting("ended", Nothing)
  /\ UNCHANGED <<server, sockets, permits, executor, futures, faults>>
-----------------------------------------------------------------------------
\* The workers.

Take ==
  /\ queue # <<>> /\ Idle > 0
  /\ running' = running \cup {Head(queue)}
  /\ queue' = Tail(queue)
  /\ UNCHANGED <<server, accept, sockets, permits, threads, futures, faults>>

\* The handler answers, or fails or times out on its client.
Handle(c) ==
  /\ c \in running /\ socket[c] = "open"
  /\ \/ Shut(c, "served")
     \/ Shut(c, "dropped")
  /\ UNCHANGED <<server, accept, permits, executor, futures, faults>>

\* The callback, once it is attached, releases the permit.
Releases(c) == IF c \in watched THEN permits + 1 ELSE permits

\* The future is done.
Complete(c) ==
  /\ c \in running /\ socket[c] = "shut"
  /\ running' = running \ {c}
  /\ completed' = completed \cup {c}
  /\ permits' = Releases(c)
  /\ UNCHANGED <<server, accept, sockets, queue, threads, watched, faults>>
-----------------------------------------------------------------------------
\* close(), by the composition root, after start() has returned or raised.

CloseUnstarted ==
  /\ lifecycle = "new" /\ closer = "idle"
  /\ lifecycle' = "stopped" /\ listening' = FALSE
  /\ socket' = [c \in Connections |-> IF socket[c] = "backlog" THEN "reset" ELSE socket[c]]
  /\ UNCHANGED <<closer, accept, answer, permits, executor, futures, faults>>

\* shutdown() requests the end of serve_forever() ...
BeginClose ==
  /\ lifecycle \in {"starting", "running"} /\ closer = "idle"
  /\ lifecycle' = "stopping" /\ closer' = "shutdown"
  /\ UNCHANGED <<listening, accept, sockets, permits, executor, futures, faults>>

\* ... and waits for it; the listening socket is closed then.
CloseListener ==
  /\ closer = "shutdown" /\ acceptor = "ended"
  /\ closer' = "cancel" /\ listening' = FALSE
  /\ socket' = [c \in Connections |-> IF socket[c] = "backlog" THEN "reset" ELSE socket[c]]
  /\ UNCHANGED <<lifecycle, accept, answer, permits, executor, futures, faults>>

\* The callback of a cancelled future shuts the socket and releases the permit.
Cancelled(c) ==
  IF c \in watched THEN Shut(c, "dropped") /\ permits' = permits + 1 ELSE UNCHANGED <<sockets, permits>>

\* close_pool() cancels the queued futures one by one; workers still take from the queue.
Cancel ==
  /\ closer = "cancel" /\ queue # <<>>
  /\ Cancelled(Head(queue))
  /\ completed' = completed \cup {Head(queue)}
  /\ queue' = Tail(queue)
  /\ UNCHANGED <<server, accept, running, threads, watched, faults>>

AwaitPool ==
  /\ closer = "cancel" /\ queue = <<>>
  /\ closer' = "wait"
  /\ UNCHANGED <<lifecycle, listening, accept, sockets, permits, executor, futures, faults>>

\* Defect for the runs: the pool is not waited for.
DoNotWait == TRUE

\* shutdown(wait=True) has joined the workers.
PoolEnded == running = {}

EndClose ==
  /\ closer = "wait" /\ PoolEnded
  /\ lifecycle' = "stopped" /\ closer' = "idle"
  /\ UNCHANGED <<listening, accept, sockets, permits, executor, futures, faults>>
-----------------------------------------------------------------------------
AcceptorStep == Admit \/ Reject \/ Submit \/ SubmitFails \/ Watch \/ AcceptorEnds
CloserStep   == CloseListener \/ Cancel \/ AwaitPool \/ EndClose

Next ==
  \/ \E c \in Connections : Connect(c) \/ Accept(c) \/ Handle(c) \/ Complete(c)
  \/ Start \/ AcceptorStep \/ Take
  \/ CloseUnstarted \/ BeginClose \/ CloserStep

Spec == Init /\ [][Next]_vars

\* The threads run; a handler ends because its client's socket has a timeout.
\* Clients, start() and close() are never forced.
Fairness ==
  /\ WF_vars(AcceptorStep) /\ WF_vars(Take) /\ WF_vars(CloserStep)
  /\ \A c \in Connections : WF_vars(Accept(c)) /\ WF_vars(Handle(c)) /\ WF_vars(Complete(c))

FairSpec == Spec /\ Fairness
-----------------------------------------------------------------------------
\* Properties.

\* A permit is taken for this connection.
Holding(c) ==
  \/ acceptor \in {"submit", "watch"} /\ current = c
  \/ c \in watched \ completed

\* A permit is taken by the connection at hand, and by each future that is not
\* completed: it is released exactly once, whether the future is handled before or
\* after its callback is attached, cancelled, or never accepted by the pool.  So
\* beyond the capacity no queued future and no open connection accumulates, the one
\* in the hands of the accepting thread excepted (docs/ARCHITECTURE.md:229).
PermitsMatch ==
  /\ permits + Cardinality({c \in Connections : Holding(c)}) = Capacity
  /\ Cardinality({c \in Connections : socket[c] = "open"}) <= Capacity + 1
  /\ Cardinality({c \in ToSet(queue) \cup running : socket[c] = "open"}) <= Capacity

\* Once close() has returned, no handler runs that could use the registry or the
\* monitoring stack, and every connection that was accepted is closed.
StoppedIsQuiet ==
  lifecycle = "stopped" =>
    /\ queue = <<>> /\ running = {} /\ permits = Capacity
    /\ \A c \in Connections : socket[c] \notin {"backlog", "open"}

\* Every accepted connection is answered or closed, whatever happens to the
\* thread that was to serve it, and also when the server closes.
EveryoneIsLetGo == \A c \in Connections : socket[c] = "open" ~> socket[c] = "shut"

\* close() returns, unless the accepting thread was never started: shutdown()
\* then waits for a serve_forever() that nobody calls (web.py:223).
CloseReturns == closer = "shutdown" ~> (lifecycle = "stopped" \/ acceptor = "unborn")
=============================================================================
