---------------------------- MODULE BrowserClient ----------------------------
(***************************************************************************)
(* The landing page of the dashboard (app.js): it polls the list of        *)
(* endpoints, removes and registers endpoints, and opens the comparison of *)
(* the selected ones in a new window.  Requests overlap, each continues    *)
(* when its answer comes, in any order, and the list in an answer may be   *)
(* older than the one that is shown.                                       *)
(*                                                                         *)
(* An endpoint is its identifier; the list maps it to its state.  Messages *)
(* and reports of activity change nothing else and are left out.           *)
(***************************************************************************)
EXTENDS Naturals, FiniteSets

CONSTANTS
  Targets,                     \* the endpoints that may be registered
  MinSelected, MaxSelected,    \* UI_POLICY, the bounds of a comparison
  FirstLists,                  \* bound: what may be registered at first
  Requests,                    \* bound: requests under way at once
  MaxChanges,                  \* bound: changes of the registry, the page's own or not
  MaxFaults                    \* bound: requests that fail without a reason of their own

\* The states that the page tells apart; "pending" stands for every other one.
States == {"up", "down", "pending"}
Lists == UNION {[ids -> States] : ids \in SUBSET Targets}

ASSUME PolicyAssumption ==
  /\ IsFiniteSet(Targets) /\ MinSelected \in Nat \ {0} /\ MaxSelected \in Nat
  /\ FirstLists \subseteq Lists /\ MaxChanges \in Nat /\ MaxFaults \in Nat

VARIABLES
  registry,         \* the server's endpoints, a function from some of Targets to States
  shown,            \* the list on the page
  summary,          \* the counts above it
  armed,            \* the endpoints whose Remove button is enabled
  selected,         \* selectedTargetIds
  compareDisabled, submitDisabled,
  requests,         \* Requests -> a request of the page, or Free
  windows,          \* the window that the compare of a request opened last
  here,             \* whether the page has not been left
  changes, faults

page == <<shown, summary, armed, selected, compareDisabled, submitDisabled, windows, here>>
vars == <<registry, page, requests, changes, faults>>

Nothing == [id \in {} |-> "up"]

\* A request waits to be served, then its answer waits to be received.  A list that
\* follows a registration ends with the submit handler.
Free == [kind |-> "none", phase |-> "none", ids |-> {}, ok |-> FALSE, list |-> Nothing, submit |-> FALSE]
Sent(kind, ids, submit) ==
  [kind |-> kind, phase |-> "sent", ids |-> ids, ok |-> FALSE, list |-> Nothing, submit |-> submit]

Blank == "blank"     \* opened, waiting for its address
NoWindow == "none"   \* none was opened, or it was closed

Summary(list) ==
  [total |-> Cardinality(DOMAIN list),
   up    |-> Cardinality({id \in DOMAIN list : list[id] = "up"}),
   down  |-> Cardinality({id \in DOMAIN list : list[id] = "down"})]

\* updateComparisonButton
OutOfBounds(ids) == Cardinality(ids) < MinSelected \/ Cardinality(ids) > MaxSelected

Init ==
  /\ registry \in FirstLists
  /\ shown = Nothing /\ summary = Summary(Nothing) /\ armed = {} /\ selected = {}
  /\ compareDisabled = TRUE /\ submitDisabled = FALSE
  /\ requests = [r \in Requests |-> Free] /\ windows = [r \in Requests |-> NoWindow]
  /\ here = TRUE /\ changes = 0 /\ faults = 0

Send(r, request) ==
  /\ here /\ requests[r] = Free
  /\ requests' = [requests EXCEPT ![r] = request]

-----------------------------------------------------------------------------
\* The timer, the refresh button and the first load.
Poll(r) ==
  /\ Send(r, Sent("load", {}, FALSE))
  /\ UNCHANGED <<registry, page, changes, faults>>

\* The checkbox of an endpoint; it stays unchecked when the selection is full.
Toggle(id) ==
  /\ here /\ id \in DOMAIN shown
  /\ id \in selected \/ Cardinality(selected) < MaxSelected
  /\ selected' = IF id \in selected THEN selected \ {id} ELSE selected \cup {id}
  /\ compareDisabled' = OutOfBounds(selected')
  /\ UNCHANGED <<registry, shown, summary, armed, submitDisabled, requests, windows, here, changes, faults>>

\* The Remove button, confirmed.
Remove(r, id) ==
  /\ id \in armed /\ changes < MaxChanges
  /\ Send(r, Sent("delete", {id}, FALSE))
  /\ armed' = armed \ {id} /\ changes' = changes + 1
  /\ UNCHANGED <<registry, shown, summary, selected, compareDisabled, submitDisabled, windows, here, faults>>

Submit(r, id) ==
  /\ ~submitDisabled /\ changes < MaxChanges
  /\ Send(r, Sent("submit", {id}, FALSE))
  /\ submitDisabled' = TRUE /\ changes' = changes + 1
  /\ UNCHANGED <<registry, shown, summary, armed, selected, compareDisabled, windows, here, faults>>

\* The window is opened at the click, unless the browser blocks it.
Compare(r) ==
  /\ ~compareDisabled /\ ~OutOfBounds(selected)
  /\ Send(r, Sent("compare", selected, FALSE))
  /\ compareDisabled' = TRUE
  /\ \E opened \in {Blank, NoWindow} : windows' = [windows EXCEPT ![r] = opened]
  /\ UNCHANGED <<registry, shown, summary, armed, selected, submitDisabled, here, changes, faults>>

-----------------------------------------------------------------------------
\* The server (web.py), and the other clients of it.
Answered(r, ok, list) ==
  requests' = [requests EXCEPT ![r].phase = "answered", ![r].ok = ok, ![r].list = list]

Without(ids) == [id \in DOMAIN registry \ ids |-> registry[id]]

With(ids) == [id \in DOMAIN registry \cup ids |-> IF id \in DOMAIN registry THEN registry[id] ELSE "pending"]

\* The answer to a removal is looked at for its message only.
ServeDelete(r, ids) ==
  /\ requests[r].kind = "delete"
  /\ Answered(r, TRUE, Nothing)
  /\ registry' = Without(ids)

\* An endpoint that is registered already is accepted once more or, with other
\* fields, refused.
ServeSubmit(r, ids) ==
  /\ requests[r].kind = "submit"
  /\ \E ok \in {TRUE, ids \cap DOMAIN registry = {}} : Answered(r, ok, Nothing)
  /\ registry' = With(ids)

ServeCompare(r, ids) ==
  /\ requests[r].kind = "compare"
  /\ Answered(r, ids \subseteq DOMAIN registry, Nothing)
  /\ UNCHANGED registry

ServeList(r) ==
  /\ requests[r].kind = "load"
  /\ Answered(r, TRUE, registry)
  /\ UNCHANGED registry

\* The server fails with a status of 500: the change is undone, or that fails too.
ServeFailure(r, ids) ==
  /\ requests[r].kind # "load"
  /\ faults < MaxFaults /\ faults' = faults + 1
  /\ Answered(r, FALSE, Nothing)
  /\ \/ UNCHANGED registry
     \/ requests[r].kind = "delete" /\ registry' = Without(ids)
     \/ requests[r].kind = "submit" /\ registry' = With(ids)

Serve(r) ==
  LET ids == requests[r].ids IN
  /\ requests[r].phase = "sent"
  /\ \/ /\ ServeDelete(r, ids) \/ ServeSubmit(r, ids) \/ ServeCompare(r, ids) \/ ServeList(r)
        /\ UNCHANGED faults
     \/ ServeFailure(r, ids)
  /\ UNCHANGED <<page, changes>>

\* An endpoint is registered or removed, or its state changes.
OthersChange ==
  /\ changes < MaxChanges /\ changes' = changes + 1
  /\ \E id \in Targets, state \in States :
       registry' \in {[other \in DOMAIN registry \cup {id} |->
                        IF other = id THEN state ELSE registry[other]],
                     [other \in DOMAIN registry \ {id} |-> registry[other]]}
  /\ UNCHANGED <<page, requests, faults>>

-----------------------------------------------------------------------------
\* The continuations of the requests.
Finish(r) == requests' = [requests EXCEPT ![r] = Free]

\* Defect: endpoints that are gone stay selected.
KeepSelected(list) == selected

StillListed(list) == selected \cap DOMAIN list

\* Defect: the handler ends without enabling its button.
EndDisabled(r) == Finish(r) /\ UNCHANGED submitDisabled

\* The end of loadTargets, and of the submit handler that awaits it.
EndLoad(r) ==
  /\ Finish(r)
  /\ submitDisabled' = IF requests[r].submit THEN FALSE ELSE submitDisabled

Render(list) ==
  /\ selected' = StillListed(list)
  /\ shown' = list /\ summary' = Summary(list) /\ armed' = DOMAIN list
  /\ compareDisabled' = OutOfBounds(selected')

ReceiveList(r) ==
  /\ requests[r].kind = "load"
  /\ EndLoad(r) /\ Render(requests[r].list)
  /\ UNCHANGED <<windows, here>>

\* Whatever the server said, the list is loaded again.
ReceiveDelete(r) ==
  /\ requests[r].kind = "delete"
  /\ requests' = [requests EXCEPT ![r] = Sent("load", {}, FALSE)]
  /\ UNCHANGED page

\* The submit handler ends with an error.
Refused(r) ==
  /\ Finish(r) /\ submitDisabled' = FALSE
  /\ UNCHANGED <<shown, summary, armed, selected, compareDisabled, windows, here>>

\* Defect: the registration is sent once more instead of the list being loaded.
SubmitAgain(r) ==
  /\ requests[r].kind = "submit"
  /\ IF requests[r].ok
     THEN requests' = [requests EXCEPT ![r] = Sent("submit", requests[r].ids, TRUE)] /\ UNCHANGED page
     ELSE Refused(r)

\* The list is loaded again when the endpoint was registered.
ReceiveSubmit(r) ==
  /\ requests[r].kind = "submit"
  /\ IF requests[r].ok
     THEN requests' = [requests EXCEPT ![r] = Sent("load", {}, TRUE)] /\ UNCHANGED page
     ELSE Refused(r)

\* Defect: the window is left open when there is nothing to show in it.
LeftOpen(r) == windows[r]

Closed(r) == NoWindow

\* The window goes to the comparison, or else the page itself.
ReceiveCompare(r) ==
  /\ requests[r].kind = "compare"
  /\ IF ~requests[r].ok
     THEN windows' = [windows EXCEPT ![r] = Closed(r)] /\ UNCHANGED here
     ELSE IF windows[r] = Blank
     THEN windows' = [windows EXCEPT ![r] = "comparison"] /\ UNCHANGED here
     ELSE here' = FALSE /\ UNCHANGED windows
  /\ Finish(r)
  /\ compareDisabled' = OutOfBounds(selected)
  /\ UNCHANGED <<shown, summary, armed, selected, submitDisabled>>

Receive(r) ==
  /\ here /\ requests[r].phase = "answered"
  /\ ReceiveList(r) \/ ReceiveDelete(r) \/ ReceiveSubmit(r) \/ ReceiveCompare(r)
  /\ UNCHANGED <<registry, changes, faults>>

\* A request is rejected or its answer is lost or not understood, before or after
\* the server did what it asks for, or a list is refused.  A removal is not followed up then.
Lose(r) ==
  /\ here /\ requests[r] # Free /\ faults < MaxFaults /\ faults' = faults + 1
  /\ CASE requests[r].kind = "load" ->
            EndLoad(r) /\ UNCHANGED <<shown, summary, armed, selected, compareDisabled, windows, here>>
       [] requests[r].kind = "delete" -> Finish(r) /\ UNCHANGED page
       [] requests[r].kind = "submit" -> Refused(r)
       [] OTHER ->
            /\ Finish(r) /\ windows' = [windows EXCEPT ![r] = Closed(r)]
            /\ compareDisabled' = OutOfBounds(selected)
            /\ UNCHANGED <<shown, summary, armed, selected, submitDisabled, here>>
  /\ UNCHANGED <<registry, changes>>

Next ==
  \/ OthersChange
  \/ \E id \in Targets : Toggle(id)
  \/ \E r \in Requests :
       \/ Poll(r) \/ Compare(r) \/ Serve(r) \/ Receive(r) \/ Lose(r)
       \/ \E id \in Targets : Remove(r, id) \/ Submit(r, id)

Spec == Init /\ [][Next]_vars

\* The server answers, answers are received, and the timer of the poll, which does
\* not need a free request in the code, sends one again and again.
Fairness ==
  /\ \A r \in Requests : WF_vars(Serve(r)) /\ WF_vars(Receive(r))
  /\ SF_vars(\E r \in Requests : Poll(r))
FairSpec == Spec /\ Fairness

-----------------------------------------------------------------------------
RequestRecords ==
  [kind : {"none", "load", "delete", "submit", "compare"}, phase : {"none", "sent", "answered"},
   ids : SUBSET Targets, ok : BOOLEAN, list : Lists, submit : BOOLEAN]

(***************************************************************************)
(* Every variable has its type, and only a request of the submit handler   *)
(* follows one (app.js, the state of the page).                            *)
(***************************************************************************)
TypeOK ==
  /\ registry \in Lists /\ shown \in Lists
  /\ armed \subseteq Targets /\ selected \subseteq Targets
  /\ compareDisabled \in BOOLEAN /\ submitDisabled \in BOOLEAN /\ here \in BOOLEAN
  /\ requests \in [Requests -> RequestRecords]
  /\ \A r \in Requests : /\ requests[r].kind = "none" => requests[r] = Free
                         /\ requests[r].submit => requests[r].kind = "load"
  /\ windows \in [Requests -> {NoWindow, Blank, "comparison"}]
  /\ changes \in 0..MaxChanges /\ faults \in 0..MaxFaults

Comparing == \E r \in Requests : requests[r].kind = "compare"

(***************************************************************************)
(* However answers overtake each other, the page agrees with itself: what  *)
(* is selected or can be removed is on it, never more than the policy      *)
(* allows is selected, the counts are those of the list, and the compare   *)
(* button is enabled only for a number of endpoints the server would take  *)
(* and disabled for a good number only while a comparison is on its way    *)
(* (app.js:78-87, 115-153, 197-223: three handlers and a timer change      *)
(* these across their awaits).                                             *)
(***************************************************************************)
PageIsConsistent ==
  /\ selected \cup armed \subseteq DOMAIN shown
  /\ Cardinality(selected) <= MaxSelected
  /\ summary = Summary(shown)
  /\ ~compareDisabled => ~OutOfBounds(selected)
  /\ here /\ compareDisabled /\ ~OutOfBounds(selected) => Comparing

(***************************************************************************)
(* A window that was opened for a comparison is blank only while its       *)
(* request is under way: it is sent to the comparison or closed            *)
(* (app.js:204-222).  The submit button is disabled only while the submit  *)
(* handler is at work (app.js:166-195).                                    *)
(***************************************************************************)
NothingIsLeftHanging ==
  here => /\ \A r \in Requests : windows[r] = Blank => requests[r].kind = "compare"
          /\ submitDisabled => \E r \in Requests : requests[r].kind = "submit" \/ requests[r].submit

(***************************************************************************)
(* When the registry no longer changes and requests no longer fail, the    *)
(* page comes to show the registry as it is, with every Remove button      *)
(* enabled and the form ready (app.js:137-164, 225-228).                   *)
(***************************************************************************)
PageRecovers ==
  <>[](~here \/ (shown = registry /\ armed = DOMAIN registry /\ ~submitDisabled))
=============================================================================
