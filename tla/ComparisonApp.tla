----------------------------- MODULE ComparisonApp -----------------------------
(***************************************************************************)
(* The comparison view of the Grafana plug-in (App.tsx, descriptor.ts):    *)
(* it loads the descriptor of the comparison its URL names, with retries   *)
(* while the descriptor is being provisioned, and then shows one scene for *)
(* each distinct time range of its lanes, keeping the URL such that it     *)
(* reopens what is shown.                                                  *)
(*                                                                         *)
(* React applies the state updates of one callback together and runs the   *)
(* effects of a click before the next one, so a callback is one action.    *)
(* The subscription to the global scene is such an effect, so the window   *)
(* of that scene and globalWindow are one variable.  A load outlives the   *)
(* page that started it; a page has one load at a time.  The user opens    *)
(* and closes pages one after the other.                                   *)
(***************************************************************************)
EXTENDS TimeRanges, DashboardLayout

CONSTANTS
  Described,                  \* external: what Grafana may hold under each well-formed uid
  SchemaVersion,              \* COMPARISON_DESCRIPTOR_SCHEMA_VERSION
  Attempts,                   \* DESCRIPTOR_LOAD_ATTEMPTS
  RetryDelay, MaxRetryDelay,  \* DESCRIPTOR_RETRY_DELAY_MS, DESCRIPTOR_MAX_RETRY_DELAY_MS
  Minute, Hour,
  LastShown,                  \* the last time that datetime-local can show (year 9999)
  Windows, DefaultWindow, NoWindow,
  NotFound, Unavailable,      \* answers of Grafana with status 404 and with another
  NoDashboard, NoSlot,
  Urls,                       \* the URLs the user may have been given
  Nows, DraftTimes,           \* bounds: times of the clock, times typed in a card
  Slots                       \* bound: loads under way at once

VARIABLES
  open,         \* whether the view is mounted
  url,          \* window.location.search, kept while no page is open
  loads,        \* Slots -> a run of loadComparisonDescriptor, or Idle
  current,      \* the load of the page, or NoSlot
  dashboard,    \* the descriptor (dashboard, targets), or NoDashboard
  lanes, selections,
  window,       \* globalWindow
  error,        \* "", "uid", "provisioning", "failed" or "limit"
  drafts        \* lane -> the fields of its card, a pair of times, 0 for no time

page == <<dashboard, lanes, selections, window, error, drafts>>
vars == <<open, url, loads, current, page>>

ASSUME AppAssumption ==
  /\ Attempts \in Nat \ {0} /\ RetryDelay \in Nat /\ MaxRetryDelay \in Nat
  /\ Minute \in Nat \ {0} /\ Hour \in 1..MaxSpan /\ LastShown \in 0..MaxDate
  /\ DefaultWindow \in Windows /\ NoWindow \notin Windows
  /\ \A location \in Urls : location.window \in Windows \cup {NoWindow}
  /\ Nows \subseteq Hour..MaxDate /\ DraftTimes \subseteq 0..LastShown
  /\ NoDashboard \notin UNION {Described[uid] : uid \in DOMAIN Described}
  /\ \A uid \in DOMAIN Described : \A reply \in Described[uid] : reply.panels \in PanelLists
  /\ \A targets \in SUBSET TargetIds : targets # EndpointVariable
  /\ NoSlot \notin Slots

-----------------------------------------------------------------------------
\* The fields of a card.  A time that does not fit the field is read back as 0.
\* The offset of the time zone (App.tsx:394) is left out: it is constant here, and
\* is added for the field and taken off again when the field is read.
EpochToInput(time) == IF time \in 1..LastShown THEN time - (time % Minute) ELSE 0

Blank == <<0, 0>>
Shown(selection) ==
  IF selection.mode = "absolute"
  THEN <<EpochToInput(selection.from), EpochToInput(selection.to)>> ELSE Blank

Bounds(selection) ==
  IF selection.mode = "absolute" THEN <<selection.from, selection.to>> ELSE << >>

\* A card forgets what was typed when the range of its lane changes.
DraftsAfter(newLanes, newSelections) ==
  [lane \in newLanes |->
     IF /\ lane \in DOMAIN drafts
        /\ Bounds(Chosen(newSelections, lane)) = Bounds(Chosen(selections, lane))
     THEN drafts[lane] ELSE Shown(Chosen(newSelections, lane))]

AbsoluteValid(draft) ==
  draft[1] > 0 /\ draft[2] > draft[1] /\ draft[2] - draft[1] <= MaxSpan

-----------------------------------------------------------------------------
\* Loading.
Idle == [phase |-> "idle", attempt |-> 0, waited |-> 0, aborted |-> FALSE]
FirstRequest == [phase |-> "requesting", attempt |-> 1, waited |-> 0, aborted |-> FALSE]

BoundedDelay(attempt) ==
  LET delay == RetryDelay * 2 ^ (attempt - 1)
  IN  IF delay \in 0..MaxRetryDelay THEN delay ELSE MaxRetryDelay

\* descriptorRetryWindowMilliseconds, for a number of attempts
RetryWindow[attempts \in 0..Attempts] ==
  IF attempts <= 1 THEN 0 ELSE RetryWindow[attempts - 1] + BoundedDelay(attempts - 1)

IsReady(reply) ==
  /\ reply \notin {NotFound, Unavailable}
  /\ reply.version = SchemaVersion
  /\ ValidTargets(reply)

IsRetryable(reply) == reply # Unavailable /\ ~IsReady(reply)

NoLanes == [lane \in {} |-> Global]
BlankPage(first, message) ==
  /\ dashboard' = NoDashboard /\ lanes' = {} /\ selections' = NoLanes /\ drafts' = NoLanes
  /\ window' = first /\ error' = message

WindowOf(location) == IF location.window = NoWindow THEN DefaultWindow ELSE location.window

StartLoad ==
  \E slot \in Slots :
    /\ loads[slot].phase = "idle"
    /\ loads' = [loads EXCEPT ![slot] = FirstRequest] /\ current' = slot

Init ==
  /\ open = FALSE /\ url \in Urls /\ loads = [slot \in Slots |-> Idle] /\ current = NoSlot
  /\ dashboard = NoDashboard /\ lanes = {} /\ selections = NoLanes /\ drafts = NoLanes
  /\ window = WindowOf(url) /\ error = ""

\* The view is mounted, for a new location or for the one that was left.
Open ==
  /\ ~open /\ open' = TRUE
  /\ url' \in Urls \cup {url}
  /\ IF url'.uid \in DOMAIN Described
     THEN StartLoad /\ BlankPage(WindowOf(url'), "")
     ELSE UNCHANGED <<loads, current>> /\ BlankPage(WindowOf(url'), "uid")

\* Defect: leaving the page does not reach its load.
Unreached(load) == load

\* A wait ends at once, a request when it is answered.
Aborted(load) == IF load.phase = "requesting" THEN [load EXCEPT !.aborted = TRUE] ELSE Idle

Close ==
  /\ open /\ open' = FALSE
  /\ loads' = IF current = NoSlot THEN loads ELSE [loads EXCEPT ![current] = Aborted(@)]
  /\ current' = NoSlot
  /\ BlankPage(window, "")
  /\ UNCHANGED url

\* The button is shown on the error page; it starts the load again unless the uid
\* is malformed.
Retry ==
  /\ open /\ dashboard = NoDashboard /\ error \notin {"", "uid"}
  /\ StartLoad
  /\ error' = ""
  /\ UNCHANGED <<open, url, dashboard, lanes, selections, window, drafts>>

\* The descriptor is shown with the lanes and the selections of the URL.  When they
\* cannot be grouped the selections are not set and the error of the load is.
Deliver(descriptor) ==
  LET newLanes == ComparisonLanes(descriptor.ids, url.lanes)
      raises == GroupingRaises(newLanes, Decoded(newLanes, url))
      newSelections == IF raises THEN selections ELSE SelectionsFromUrl(newLanes, url)
  IN  /\ dashboard' = descriptor /\ lanes' = newLanes /\ selections' = newSelections
      /\ drafts' = DraftsAfter(newLanes, newSelections)
      /\ error' = IF raises THEN "failed" ELSE error
      /\ UNCHANGED window

\* Defect: an answer that is neither is ignored.
Ignored(message) == UNCHANGED page

Fail(message) == error' = message /\ UNCHANGED <<dashboard, lanes, selections, window, drafts>>

\* Defect: the loop starts over without looking at the signal.
NeverAborted(load) == FALSE

IsCancelled(load) == load.aborted

IsLast(load) == load.attempt = Attempts

End(slot) ==
  /\ loads' = [loads EXCEPT ![slot] = Idle]
  /\ current' = IF current = slot THEN NoSlot ELSE current

\* Grafana answers a request and the load goes on.
Answer(slot, reply) ==
  /\ loads[slot].phase = "requesting"
  /\ \/ IsCancelled(loads[slot]) /\ End(slot) /\ UNCHANGED page
     \/ ~IsCancelled(loads[slot]) /\ IsReady(reply) /\ End(slot) /\ Deliver(reply)
     \/ /\ ~IsCancelled(loads[slot]) /\ IsRetryable(reply) /\ ~IsLast(loads[slot])
        /\ loads' = [loads EXCEPT ![slot].phase = "waiting",
                                  ![slot].waited = @ + BoundedDelay(loads[slot].attempt)]
        /\ UNCHANGED <<current, page>>
     \/ /\ ~IsCancelled(loads[slot]) /\ ~IsReady(reply)
        /\ IsRetryable(reply) => IsLast(loads[slot])
        /\ End(slot)
        /\ Fail(IF IsRetryable(reply) THEN "provisioning" ELSE "failed")
  /\ UNCHANGED <<open, url>>

\* What Grafana may answer to the page of the current URL; an aborted request may
\* be one of an earlier page, and its answer is not looked at.
Replies ==
  {NotFound, Unavailable} \cup (IF url.uid \in DOMAIN Described THEN Described[url.uid] ELSE {})

\* The delay is over: the next attempt.
Elapse(slot) ==
  /\ loads[slot].phase = "waiting"
  /\ loads' = [loads EXCEPT ![slot].phase = "requesting", ![slot].attempt = @ + 1]
  /\ UNCHANGED <<open, url, current, page>>

-----------------------------------------------------------------------------
\* Changing what is shown.
Show(newLanes, newSelections) ==
  IF ExceedsTimeGroupLimit(newLanes, newSelections)
  THEN error' = "limit" /\ UNCHANGED <<url, lanes, selections, drafts>>
  ELSE /\ error' = "" /\ lanes' = newLanes /\ selections' = newSelections
       /\ drafts' = DraftsAfter(newLanes, newSelections)
       /\ url' = SelectionsToUrl(url.uid, newLanes, newSelections, window)

\* onChange of the card of a lane
UpdateSelection(lane, selection) ==
  /\ Show(lanes, [l \in DOMAIN selections \cup {lane} |->
                    IF l = lane THEN selection ELSE selections[l]])
  /\ UNCHANGED <<open, loads, current, dashboard, window>>

ModeOf(lane) == Chosen(selections, lane).mode

\* The select of a card reports a mode that differs from the one it shows.
ModeChange(lane, mode, now) ==
  /\ mode # ModeOf(lane)
  /\ UpdateSelection(lane, CASE mode = "relative" -> Relative(DefaultRelative)
                             [] mode = "absolute" -> Absolute(now - Hour, now)
                             [] OTHER -> Global)

ChooseRelative(lane, from) ==
  /\ ModeOf(lane) = "relative" /\ from # Chosen(selections, lane).from
  /\ UpdateSelection(lane, Relative(from))

FollowGlobal(lane) == ModeOf(lane) # "global" /\ UpdateSelection(lane, Global)

Apply(lane) ==
  /\ ModeOf(lane) = "absolute" /\ AbsoluteValid(drafts[lane])
  /\ UpdateSelection(lane, Absolute(drafts[lane][1], drafts[lane][2]))

\* Bound: only one card is edited at a time.
OneCard(lane) == \A l \in lanes \ {lane} : drafts[l] = Shown(Chosen(selections, l))

\* A time is typed in one of the two fields of a card.
EditDraft(lane, field, time) ==
  /\ ModeOf(lane) = "absolute" /\ OneCard(lane)
  /\ drafts' = [drafts EXCEPT ![lane][field] = EpochToInput(time)]
  /\ UNCHANGED <<open, url, loads, current, dashboard, lanes, selections, window, error>>

SelectionsFor(newLanes) == [lane \in newLanes |-> Chosen(selections, lane)]

SetLaneCount(count) ==
  /\ Cardinality(dashboard.ids) = 1 /\ count \in MinLanes..MaxLanes
  /\ LET newLanes == ComparisonLanes(dashboard.ids, count)
     IN  Show(newLanes, SelectionsFor(newLanes))
  /\ UNCHANGED <<open, loads, current, dashboard, window>>

\* The time picker of the global scene, there is one while a lane follows it.
PickWindow(new) ==
  /\ \E lane \in lanes : SelectionKey(Chosen(selections, lane)) = Global
  /\ window' = new
  /\ url' = SelectionsToUrl(url.uid, lanes, selections, new)
  /\ UNCHANGED <<open, loads, current, dashboard, lanes, selections, error, drafts>>

Change ==
  /\ dashboard # NoDashboard
  /\ \/ \E lane \in lanes :
          \/ \E mode \in Modes, now \in Nows : ModeChange(lane, mode, now)
          \/ \E from \in RelativeValues : ChooseRelative(lane, from)
          \/ FollowGlobal(lane)
          \/ Apply(lane)
          \/ \E field \in 1..2, time \in DraftTimes : EditDraft(lane, field, time)
     \/ \E step \in {-1, 1} : SetLaneCount(Cardinality(lanes) + step)
     \/ \E new \in Windows : PickWindow(new)

Progress(slot) == (\E reply \in Replies : Answer(slot, reply)) \/ Elapse(slot)

Next == Open \/ Close \/ Retry \/ Change \/ \E slot \in Slots : Progress(slot)

Spec == Init /\ [][Next]_vars

\* Grafana answers every request and every timer fires.
Fairness == \A slot \in Slots : WF_vars(Progress(slot))
FairSpec == Spec /\ Fairness

-----------------------------------------------------------------------------
\* Types.
LoadRecords ==
  [phase : {"idle", "requesting", "waiting"}, attempt : 0..Attempts, waited : Nat,
   aborted : BOOLEAN]

(***************************************************************************)
(* Every variable has its type; a page without a descriptor shows nothing  *)
(* and a page that is loading has a load that is not aborted (App.tsx, the *)
(* state of the view and its effect).                                      *)
(***************************************************************************)
TypeOK ==
  /\ open \in BOOLEAN /\ url.window \in Windows \cup {NoWindow} /\ window \in Windows
  /\ loads \in [Slots -> LoadRecords] /\ current \in Slots \cup {NoSlot}
  /\ \A slot \in Slots : loads[slot].phase = "waiting" => ~loads[slot].aborted
  /\ current # NoSlot => /\ open /\ dashboard = NoDashboard
                        /\ loads[current].phase # "idle" /\ ~loads[current].aborted
  /\ error \in {"", "uid", "provisioning", "failed", "limit"}
  /\ dashboard # NoDashboard => open /\ IsReady(dashboard)
  /\ DOMAIN selections \subseteq lanes /\ \A lane \in lanes : IsSelection(Chosen(selections, lane))
  /\ drafts \in [lanes -> (0..LastShown) \X (0..LastShown)]

(***************************************************************************)
(* Whatever was changed, in whatever order, the URL in the address bar     *)
(* reopens the view: the same lanes, with the same time range each, and    *)
(* the same global window.  The state is read from the URL once and        *)
(* written to it by three callbacks (App.tsx:94-111, 146-160, 164-235), so *)
(* one that records less than it changes would only show on a reload.      *)
(***************************************************************************)
Reopened == ComparisonLanes(dashboard.ids, url.lanes)

BookmarkRestores ==
  dashboard # NoDashboard /\ ~GroupingRaises(Reopened, Decoded(Reopened, url)) =>
    /\ Reopened = lanes
    /\ WindowOf(url) = window
    /\ \A lane \in lanes :
         SelectionKey(SelectionsFromUrl(lanes, url)[lane]) = SelectionKey(Chosen(selections, lane))

(***************************************************************************)
(* The range that the card of a lane names is the one its group uses: no   *)
(* selection is one that selectionKey() would silently turn into another,  *)
(* or that cannot be formatted, there are never more groups than the       *)
(* policy allows, and a card that does not show a fixed range has nothing  *)
(* typed in it (timeRanges.ts:50-66, App.tsx:169-182, 311-330).            *)
(***************************************************************************)
CardsMatchGroups ==
  dashboard # NoDashboard =>
    /\ \A lane \in lanes : LET selection == Chosen(selections, lane)
                          IN  SelectionKey(selection) = selection /\ Representable(selection)
    /\ Cardinality(Keys(lanes, selections)) <= MaxGroups
    /\ \A lane \in lanes : ModeOf(lane) # "absolute" => drafts[lane] = Blank

(***************************************************************************)
(* Each lane is shown by exactly one scene, under its own range, and that  *)
(* scene has every panel of the dashboard once and in the order of the     *)
(* document, with each query scoped to the targets of the lanes of the     *)
(* scene and nothing left to substitute (dashboard.ts:27-57, scene.ts,     *)
(* timeRanges.ts:68-109).                                                  *)
(***************************************************************************)
GroupsShown == GroupSelections(lanes, selections, window)

ScopedTo(targets) ==
  [i \in DOMAIN InDocumentOrder[dashboard.panels] |->
     LET panel == InDocumentOrder[dashboard.panels][i]
     IN  [type |-> panel.type, queries |-> ScopedQueries(panel, targets)]]

ShowsEverything(group) ==
  LET scene == BuildGroupScene(dashboard.panels, group)
      targets == {lane[1] : lane \in group.lanes}
  IN  /\ FlattenSeq(scene.children) = ScopedTo(targets)
      /\ \A i \in DOMAIN FlattenSeq(scene.children) :
           \A query \in Range(FlattenSeq(scene.children)[i].queries) :
             EndpointVariable \notin Range(query)
      /\ \A lane \in group.lanes : LET own == SelectionKey(Chosen(selections, lane))
                                  IN  scene.timePicker = (own = Global) /\ group.key = own

EveryLaneSeesEveryPanel ==
  dashboard # NoDashboard =>
    /\ \A lane \in lanes : Cardinality({group \in GroupsShown : lane \in group.lanes}) = 1
    /\ \A group \in GroupsShown : ShowsEverything(group)

(***************************************************************************)
(* A load that was aborted sends no request and changes nothing on the     *)
(* page that follows it, and a page that says that provisioning did not    *)
(* finish within a time has made every attempt and waited that time        *)
(* (descriptor.ts:46-94, App.tsx:112-125).                                 *)
(***************************************************************************)
AbortedIsSilent(slot) ==
  loads[slot].aborted =>
    loads'[slot] = loads[slot] \/ (loads'[slot] = Idle /\ UNCHANGED page)

GivesUpLast(slot) ==
  current = slot /\ error' = "provisioning" =>
    loads[slot].attempt = Attempts /\ loads[slot].waited = RetryWindow[Attempts]

LoadsKeepTheirTerms == [][\A slot \in Slots : AbortedIsSilent(slot) /\ GivesUpLast(slot)]_vars

(***************************************************************************)
(* A page that is not left shows its comparison or an error in the end     *)
(* (App.tsx:65-126, 237-245).                                              *)
(***************************************************************************)
PageSettles == open ~> ~open \/ dashboard # NoDashboard \/ error # ""

(***************************************************************************)
(* The page only says that Grafana could not load the descriptor when it   *)
(* was not loaded (App.tsx:123).                                           *)
(***************************************************************************)
FailureIsOfTheLoad == error = "failed" => dashboard = NoDashboard
=============================================================================
