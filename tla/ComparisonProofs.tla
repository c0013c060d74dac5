--------------------------- MODULE ComparisonProofs ---------------------------
(***************************************************************************)
(* Proofs about ComparisonApp for every policy, descriptor, URL and clock. *)
(* The first part is about the functions of timeRanges.ts: what is written *)
(* to the URL is read back.  The second is the inductive invariant of the  *)
(* view, from which its types, the cards and the bookmarks follow.         *)
(***************************************************************************)
EXTENDS ComparisonApp, LayoutProofs, FiniteSetTheorems, TLAPS

\* A selection that the code takes as it is.
Effective(selection) ==
  IsSelection(selection) /\ SelectionKey(selection) = selection /\ Representable(selection)

AllEffective(shown, chosen) == \A lane \in shown : Effective(Chosen(chosen, lane))

LEMMA GlobalIsEffective == Effective(Global)
  BY DEF Effective, IsSelection, SelectionKey, Representable, Global

LEMMA RelativeIsEffective ==
  ASSUME NEW from \in RelativeValues PROVE Effective(Relative(from))
  BY DEF Effective, IsSelection, SelectionKey, Representable, Relative

LEMMA AbsoluteIsEffective ==
  ASSUME NEW from \in 0..MaxDate, NEW to \in 0..MaxDate, from < to, to - from <= MaxSpan
  PROVE  Effective(Absolute(from, to))
<1>1. MaxSpan \in Int /\ -MaxSafeInteger <= MaxSpan /\ MaxSpan <= MaxSafeInteger
  BY PolicyAssumption DEF MaxSpan
<1>2. Usable(from, to)
  BY <1>1, PolicyAssumption DEF Usable, IsSafe
<1>3. Representable(Absolute(from, to))
  BY PolicyAssumption DEF Representable, Absolute
<1> QED
  BY <1>2, <1>3 DEF Effective, IsSelection, SelectionKey, Absolute

\* An effective selection is decoded from its encoding, whatever the policy and the
\* times, and only the global range has no parameter (timeRanges.ts:128-148).
THEOREM DecodeEncode ==
  ASSUME NEW selection, Effective(selection)
  PROVE  /\ DecodeSelection(EncodeSelection(selection)) = selection
         /\ EncodeSelection(selection) = NoParameter => selection = Global
<1>1. CASE selection = Global
  <2>1. EncodeSelection(selection) = << >>
    BY <1>1 DEF Effective, EncodeSelection, Global, NoParameter
  <2> QED
    BY <1>1, <2>1 DEF DecodeSelection
<1>2. CASE selection.mode = "relative"
  <2>1. EncodeSelection(selection) = <<"r", selection.from>>
    BY <1>2 DEF Effective, EncodeSelection
  <2>2. selection.from \in RelativeValues /\ selection = Relative(selection.from)
    BY <1>2 DEF Effective, IsSelection, Global, Relative
  <2>3. DecodeSelection(<<"r", selection.from>>) = Relative(selection.from)
    BY <2>2 DEF DecodeSelection
  <2> QED
    BY <2>1, <2>2, <2>3 DEF NoParameter
<1>3. CASE selection.mode = "absolute"
  <2>1. EncodeSelection(selection) = <<"a", selection.from, selection.to>>
    BY <1>3 DEF Effective, EncodeSelection
  <2>2. Usable(selection.from, selection.to) /\ selection = Absolute(selection.from, selection.to)
    BY <1>3 DEF Effective, IsSelection, SelectionKey, Global, Absolute
  <2>3. DecodeSelection(<<"a", selection.from, selection.to>>) = Absolute(selection.from, selection.to)
    BY <2>2 DEF DecodeSelection
  <2> QED
    BY <2>1, <2>2, <2>3 DEF NoParameter
<1> QED
  BY <1>1, <1>2, <1>3 DEF Effective, IsSelection

-----------------------------------------------------------------------------
\* The lanes of a descriptor, for some requested number of them.
LanesOf(shown, targets) == \E requested : shown = ComparisonLanes(targets, requested)

LEMMA LaneCountBounds ==
  ASSUME NEW requested
  PROVE  LaneCount(requested) \in Nat /\ LaneCount(requested) \in MinLanes..MaxLanes
  BY PolicyAssumption DEF LaneCount

\* Several lanes of one target are counted in the URL and counted again from it.
LEMMA LanesReopen ==
  ASSUME NEW targets, IsFiniteSet(targets), NEW shown, LanesOf(shown, targets)
  PROVE  ComparisonLanes(targets, RecordedCount(shown)) = shown
<1>1. PICK requested : shown = ComparisonLanes(targets, requested)
  BY DEF LanesOf
<1>2. CASE Cardinality(targets) # 1
  BY <1>1, <1>2 DEF ComparisonLanes
<1>3. CASE Cardinality(targets) = 1
  <2> DEFINE n == LaneCount(requested)
  <2>1. PICK t : targets = {t}
    BY <1>3, FS_Singleton
  <2>2. shown = {t} \X (1..n)
    BY <1>1, <1>3, <2>1 DEF ComparisonLanes
  <2>3. n \in Nat /\ n \in MinLanes..MaxLanes
    BY LaneCountBounds
  <2>4. IsFiniteSet(1..n) /\ Cardinality(1..n) = n
    BY <2>3, FS_Interval, PolicyAssumption
  <2>5. Cardinality(shown) = n
    <3>1. IsFiniteSet({t}) /\ Cardinality({t}) = 1
      BY FS_Singleton
    <3>2. Cardinality({t} \X (1..n)) = Cardinality({t}) * Cardinality(1..n)
      BY <2>4, <3>1, FS_Product
    <3>3. 1 * n = n
      BY <2>3, PolicyAssumption
    <3> QED
      BY <2>2, <2>4, <3>1, <3>2, <3>3
  <2>6. n >= 2 => TargetsOf(shown) = {t}
    <3> SUFFICES ASSUME n >= 2 PROVE TargetsOf(shown) = {t}
      OBVIOUS
    <3>1. <<t, 1>> \in shown
      BY <2>2, <2>3
    <3>2. \A lane \in shown : lane[1] = t
      BY <2>2
    <3>3. <<t, 1>>[1] = t
      OBVIOUS
    <3> QED
      BY <3>1, <3>2, <3>3 DEF TargetsOf
  <2>7. RecordedCount(shown) = IF n >= 2 THEN n ELSE 0
    BY <2>5, <2>6, FS_Singleton DEF RecordedCount
  <2>8. LaneCount(RecordedCount(shown)) = n
    BY <2>3, <2>7, PolicyAssumption DEF LaneCount
  <2> QED
    BY <1>3, <2>1, <2>2, <2>8 DEF ComparisonLanes
<1> QED
  BY <1>2, <1>3

\* What is written to the URL is read back.
LEMMA RoundTrip ==
  ASSUME NEW uid, NEW shown, NEW chosen, NEW first,
         AllEffective(shown, chosen), ~ExceedsTimeGroupLimit(shown, chosen)
  PROVE  LET location == SelectionsToUrl(uid, shown, chosen, first)
         IN  /\ location.window = first
             /\ location.lanes = RecordedCount(shown)
             /\ \A lane \in shown :
                  SelectionsFromUrl(shown, location)[lane] = Chosen(chosen, lane)
<1> DEFINE location == SelectionsToUrl(uid, shown, chosen, first)
           Encoded(lane) == EncodeSelection(Chosen(chosen, lane))
           written == {lane \in shown : Encoded(lane) # NoParameter}
<1>1. /\ location.window = first /\ location.lanes = RecordedCount(shown)
      /\ location.ranges = [lane \in written |-> Encoded(lane)]
  BY DEF SelectionsToUrl
<1>2. \A lane \in shown : Parameter(location, lane) = Encoded(lane)
  BY <1>1 DEF Parameter
<1>3. \A lane \in shown : Decoded(shown, location)[lane] = Chosen(chosen, lane)
  BY <1>2, DecodeEncode DEF Decoded, AllEffective
<1>4. \A lane \in shown : Chosen(Decoded(shown, location), lane) = Chosen(chosen, lane)
  <2>1. DOMAIN Decoded(shown, location) = shown
    BY DEF Decoded
  <2> QED
    BY <1>3, <2>1 DEF Chosen
<1>5. Keys(shown, Decoded(shown, location)) = Keys(shown, chosen)
  BY <1>4 DEF Keys
<1>6. ~ExceedsTimeGroupLimit(shown, Decoded(shown, location))
  BY <1>5 DEF ExceedsTimeGroupLimit
<1>7. SelectionsFromUrl(shown, location) = Decoded(shown, location)
  BY <1>6 DEF SelectionsFromUrl
<1> QED
  BY <1>1, <1>3, <1>7

LEMMA DecodedIsTaken ==
  ASSUME NEW parts
  PROVE  LET selection == DecodeSelection(parts)
         IN  IsSelection(selection) /\ SelectionKey(selection) = selection
<1> DEFINE selection == DecodeSelection(parts)
<1>1. CASE selection = Global
  BY <1>1 DEF IsSelection, SelectionKey, Global
<1>2. CASE parts[2] \in RelativeValues /\ selection = Relative(parts[2])
  BY <1>2, RelativeIsEffective DEF Effective
<1>3. CASE Usable(parts[2], parts[3]) /\ selection = Absolute(parts[2], parts[3])
  BY <1>3 DEF IsSelection, SelectionKey, Absolute, Usable, IsSafe
<1> QED
  BY <1>1, <1>2, <1>3 DEF DecodeSelection

LEMMA AllGlobalFits ==
  ASSUME NEW shown, NEW chosen, \A lane \in shown : Chosen(chosen, lane) = Global
  PROVE  AllEffective(shown, chosen) /\ ~ExceedsTimeGroupLimit(shown, chosen)
<1>1. Keys(shown, chosen) \subseteq {Global}
  BY GlobalIsEffective DEF Keys, Effective
<1>2. IsFiniteSet({Global}) /\ Cardinality({Global}) = 1
  BY FS_Singleton
<1>3. Cardinality(Keys(shown, chosen)) \in Nat /\ Cardinality(Keys(shown, chosen)) <= 1
  BY <1>1, <1>2, FS_Subset, FS_CardinalityType
<1> QED
  BY <1>3, GlobalIsEffective, PolicyAssumption DEF AllEffective, ExceedsTimeGroupLimit

\* What is read from a URL, unless it cannot be grouped, can be shown.
LEMMA FromUrlFits ==
  ASSUME NEW shown, NEW location, ~GroupingRaises(shown, Decoded(shown, location))
  PROVE  LET chosen == SelectionsFromUrl(shown, location)
         IN  /\ DOMAIN chosen = shown
             /\ AllEffective(shown, chosen)
             /\ ~ExceedsTimeGroupLimit(shown, chosen)
<1> DEFINE decoded == Decoded(shown, location)
           chosen == SelectionsFromUrl(shown, location)
<1>1. CASE ExceedsTimeGroupLimit(shown, decoded)
  <2>1. chosen = [lane \in shown |-> Global]
    BY <1>1 DEF SelectionsFromUrl
  <2>2. \A lane \in shown : Chosen(chosen, lane) = Global
    BY <2>1 DEF Chosen
  <2> QED
    BY <2>1, <2>2, AllGlobalFits
<1>2. CASE ~ExceedsTimeGroupLimit(shown, decoded)
  <2>1. chosen = decoded
    BY <1>2 DEF SelectionsFromUrl
  <2>2. ASSUME NEW lane \in shown
        PROVE  /\ IsSelection(Chosen(decoded, lane))
               /\ SelectionKey(Chosen(decoded, lane)) = Chosen(decoded, lane)
    BY DecodedIsTaken DEF Decoded, Chosen
  <2>3. ASSUME NEW lane \in shown PROVE Representable(Chosen(decoded, lane))
    BY <2>2 DEF GroupingRaises, Keys
  <2> QED
    BY <1>2, <2>1, <2>2, <2>3 DEF Decoded, AllEffective, Effective
<1> QED
  BY <1>1, <1>2

LEMMA KeysAreFinite ==
  ASSUME NEW targets, IsFiniteSet(targets), NEW shown, LanesOf(shown, targets), NEW chosen
  PROVE  IsFiniteSet(Keys(shown, chosen)) /\ Cardinality(Keys(shown, chosen)) \in Nat
<1>1. PICK requested : shown = ComparisonLanes(targets, requested)
  BY DEF LanesOf
<1>2. IsFiniteSet(1..LaneCount(requested))
  BY LaneCountBounds, FS_Interval
<1>3. IsFiniteSet({0})
  BY FS_Singleton
<1>4. IsFiniteSet(shown)
  BY <1>1, <1>2, <1>3, FS_Product DEF ComparisonLanes
<1> DEFINE key == [lane \in shown |-> SelectionKey(Chosen(chosen, lane))]
<1>5. key \in Surjection(shown, Keys(shown, chosen))
  BY DEF Surjection, Keys
<1> QED
  BY <1>4, <1>5, FS_Surjection, FS_CardinalityType

-----------------------------------------------------------------------------
(***************************************************************************)
(* The inductive invariant.  A load that was not aborted is that of the    *)
(* page, and there is none once the page shows an error or a comparison;   *)
(* what a comparison shows fits the policy; a card has something typed     *)
(* only while its lane has a fixed range.                                  *)
(***************************************************************************)
LoadInv ==
  /\ \A slot \in Slots :
       /\ loads[slot].phase # "idle" /\ ~loads[slot].aborted => slot = current
       /\ loads[slot].phase = "waiting" => loads[slot].attempt < Attempts
  /\ current # NoSlot => error = ""
  /\ dashboard = NoDashboard => lanes = {}
  /\ open /\ dashboard = NoDashboard => window = WindowOf(url)

ViewInv ==
  dashboard # NoDashboard =>
    /\ LanesOf(lanes, dashboard.ids)
    /\ AllEffective(lanes, selections)
    /\ ~ExceedsTimeGroupLimit(lanes, selections)

DraftInv == \A lane \in lanes : ModeOf(lane) # "absolute" => drafts[lane] = Blank

IInv == TypeOK /\ LoadInv /\ ViewInv /\ DraftInv /\ BookmarkRestores

Fields == (0..LastShown) \X (0..LastShown)

LEMMA LoadTypes ==
  /\ Idle \in LoadRecords /\ FirstRequest \in LoadRecords
  /\ FirstRequest.phase = "requesting" /\ ~FirstRequest.aborted
<1>1. 0 \in 0..Attempts /\ 1 \in 0..Attempts /\ 0 \in Nat /\ FALSE \in BOOLEAN
  BY AppAssumption
<1>2. Idle \in LoadRecords
  BY <1>1, Zenon DEF Idle, LoadRecords
<1>3. FirstRequest \in LoadRecords
  BY <1>1, Zenon DEF FirstRequest, LoadRecords
<1>4. FirstRequest.phase = "requesting" /\ ~FirstRequest.aborted
  BY DEF FirstRequest
<1> QED
  BY <1>2, <1>3, <1>4

LEMMA InitEstablishes == Init => IInv
<1> SUFFICES ASSUME Init PROVE IInv
  OBVIOUS
<1> USE AppAssumption DEF Init
<1>1. NoLanes \in [{} -> Fields] /\ DOMAIN NoLanes = {}
  BY DEF NoLanes
<1>2. url \in Urls /\ WindowOf(url) \in Windows
  BY DEF WindowOf
<1>3. Idle \in LoadRecords
  BY LoadTypes
<1>4. TypeOK
  BY <1>1, <1>2, <1>3 DEF TypeOK, Idle, Fields
<1>5. LoadInv
  BY <1>3 DEF LoadInv, Idle
<1> QED
  BY <1>4, <1>5 DEF IInv, ViewInv, DraftInv, BookmarkRestores

LEMMA TimesAreShown == \A time : EpochToInput(time) \in 0..LastShown
<1> SUFFICES ASSUME NEW time \in 1..LastShown PROVE time - (time % Minute) \in 0..LastShown
  BY AppAssumption, PolicyAssumption DEF EpochToInput
<1>1. time \in Nat /\ LastShown \in Nat /\ Minute \in Nat /\ Minute > 0
  BY AppAssumption, PolicyAssumption
<1>2. time % Minute \in 0..(Minute - 1)
  BY <1>1
<1>3. time = Minute * (time \div Minute) + (time % Minute)
  BY <1>1
<1>4. time \div Minute \in Nat
  BY <1>1
<1>5. \A q \in Nat, m \in Nat : m * q \in Nat
  OBVIOUS
<1>6. Minute * (time \div Minute) \in Nat
  BY <1>1, <1>4, <1>5
<1> QED
  BY <1>1, <1>2, <1>3, <1>6

LEMMA FieldsAreShown ==
  ASSUME NEW selection PROVE Shown(selection) \in Fields
<1>1. 0 \in 0..LastShown
  BY AppAssumption, PolicyAssumption
<1> QED
  BY <1>1, TimesAreShown DEF Shown, Blank, Fields

\* The cards after a change of the lanes or of their ranges.
LEMMA DraftsFollow ==
  ASSUME TypeOK, DraftInv, NEW shown, NEW chosen
  PROVE  LET after == DraftsAfter(shown, chosen)
         IN  /\ after \in [shown -> Fields]
             /\ \A lane \in shown :
                  Chosen(chosen, lane).mode # "absolute" => after[lane] = Blank
<1>1. drafts \in [lanes -> Fields]
  BY DEF TypeOK, Fields
<1>2. ASSUME NEW lane \in shown, Chosen(chosen, lane).mode # "absolute", lane \in DOMAIN drafts,
             Bounds(Chosen(chosen, lane)) = Bounds(Chosen(selections, lane))
      PROVE  drafts[lane] = Blank
  BY <1>1, <1>2 DEF Bounds, DraftInv, ModeOf
<1> QED
  BY <1>1, <1>2, FieldsAreShown DEF DraftsAfter, Shown

-----------------------------------------------------------------------------
\* Steps that change what is shown.
LEMMA ShowStep ==
  ASSUME IInv, dashboard # NoDashboard, NEW newLanes, NEW newSelections,
         LanesOf(newLanes, dashboard.ids), AllEffective(newLanes, newSelections),
         DOMAIN newSelections \subseteq newLanes,
         Show(newLanes, newSelections), UNCHANGED <<open, loads, current, dashboard, window>>
  PROVE  IInv'
<1>1. IsFiniteSet(dashboard.ids)
  BY PolicyAssumption, FS_Subset DEF IInv, TypeOK, IsReady, ValidTargets
<1>2. CASE ExceedsTimeGroupLimit(newLanes, newSelections)
  <2>1. error' = "limit" /\ UNCHANGED <<url, lanes, selections, drafts>>
    BY <1>2 DEF Show
  <2>2. current = NoSlot
    BY DEF IInv, TypeOK
  <2>3. TypeOK'
    BY <2>1 DEF IInv, TypeOK
  <2>4. LoadInv'
    BY <2>1, <2>2 DEF IInv, LoadInv
  <2>5. ViewInv' /\ DraftInv' /\ BookmarkRestores'
    BY <2>1 DEF IInv, ViewInv, DraftInv, BookmarkRestores, ModeOf, Reopened
  <2> QED
    BY <2>3, <2>4, <2>5 DEF IInv
<1>3. CASE ~ExceedsTimeGroupLimit(newLanes, newSelections)
  <2>1. /\ error' = "" /\ lanes' = newLanes /\ selections' = newSelections
        /\ drafts' = DraftsAfter(newLanes, newSelections)
        /\ url' = SelectionsToUrl(url.uid, newLanes, newSelections, window)
    BY <1>3 DEF Show
  <2>2. current = NoSlot
    BY DEF IInv, TypeOK
  <2>3. /\ drafts' \in [newLanes -> Fields]
        /\ \A lane \in newLanes :
             Chosen(newSelections, lane).mode # "absolute" => drafts'[lane] = Blank
    BY <2>1, DraftsFollow DEF IInv
  <2> DEFINE location == SelectionsToUrl(url.uid, newLanes, newSelections, window)
  <2>10. /\ location.window = window /\ location.lanes = RecordedCount(newLanes)
         /\ \A lane \in newLanes :
              SelectionsFromUrl(newLanes, location)[lane] = Chosen(newSelections, lane)
    BY <1>3, RoundTrip
  <2>11. url' = location
    BY <2>1
  <2> HIDE DEF location
  <2>4. /\ url'.window = window /\ url'.lanes = RecordedCount(newLanes)
        /\ \A lane \in newLanes :
             SelectionsFromUrl(newLanes, url')[lane] = Chosen(newSelections, lane)
    BY <2>10, <2>11
  <2>5. TypeOK'
    BY <2>1, <2>2, <2>3, <2>4 DEF IInv, TypeOK, AllEffective, Effective, Fields
  <2>6. LoadInv'
    BY <2>1, <2>2 DEF IInv, LoadInv
  <2>7. ViewInv'
    BY <1>3, <2>1 DEF ViewInv
  <2>8. DraftInv'
    BY <2>1, <2>3 DEF DraftInv, ModeOf
  <2>9. BookmarkRestores'
    <3>1. ComparisonLanes(dashboard.ids, url'.lanes) = newLanes
      BY <1>1, <2>4, LanesReopen
    <3>2. WindowOf(url') = window
      BY <2>4, AppAssumption DEF WindowOf, IInv, TypeOK
    <3> QED
      BY <2>1, <2>4, <3>1, <3>2 DEF BookmarkRestores, Reopened
  <2> QED
    BY <2>5, <2>6, <2>7, <2>8, <2>9 DEF IInv
<1> QED
  BY <1>2, <1>3

LEMMA UpdateStep ==
  ASSUME IInv, dashboard # NoDashboard, NEW lane \in lanes, NEW selection, Effective(selection),
         UpdateSelection(lane, selection)
  PROVE  IInv'
<1> DEFINE candidate == [l \in DOMAIN selections \cup {lane} |->
                           IF l = lane THEN selection ELSE selections[l]]
<1>1. ASSUME NEW l \in lanes
      PROVE  Chosen(candidate, l) = IF l = lane THEN selection ELSE Chosen(selections, l)
  BY DEF Chosen
<1>2. AllEffective(lanes, candidate)
  BY <1>1 DEF IInv, ViewInv, AllEffective
<1>3. DOMAIN candidate \subseteq lanes
  BY DEF IInv, TypeOK
<1>4. LanesOf(lanes, dashboard.ids)
  BY DEF IInv, ViewInv
<1>5. Show(lanes, candidate) /\ UNCHANGED <<open, loads, current, dashboard, window>>
  BY DEF UpdateSelection
<1> HIDE DEF candidate
<1> QED
  BY <1>2, <1>3, <1>4, <1>5, ShowStep

LEMMA CardStep ==
  ASSUME IInv, dashboard # NoDashboard, NEW lane \in lanes,
         \/ \E mode \in Modes, now \in Nows : ModeChange(lane, mode, now)
         \/ \E from \in RelativeValues : ChooseRelative(lane, from)
         \/ FollowGlobal(lane)
         \/ Apply(lane)
  PROVE  IInv'
<1>1. ASSUME NEW mode \in Modes, NEW now \in Nows, ModeChange(lane, mode, now) PROVE IInv'
  <2>1. /\ now \in 0..MaxDate /\ now - Hour \in 0..MaxDate /\ now - Hour < now
        /\ now - (now - Hour) <= MaxSpan
    <3>1. Hour \in 1..MaxSpan /\ now \in Hour..MaxDate /\ MaxDate \in Int /\ MaxSpan \in Int
      BY AppAssumption, PolicyAssumption DEF MaxSpan
    <3> QED
      BY <3>1
  <2>2. Effective(Absolute(now - Hour, now))
    BY <2>1, AbsoluteIsEffective
  <2>3. Effective(Relative(DefaultRelative))
    BY RelativeIsEffective, PolicyAssumption
  <2> DEFINE chosen == CASE mode = "relative" -> Relative(DefaultRelative)
                         [] mode = "absolute" -> Absolute(now - Hour, now)
                         [] OTHER -> Global
  <2>4. Effective(chosen)
    BY <2>2, <2>3, GlobalIsEffective
  <2>5. UpdateSelection(lane, chosen)
    BY <1>1 DEF ModeChange
  <2> QED
    BY <2>4, <2>5, UpdateStep
<1>2. ASSUME NEW from \in RelativeValues, ChooseRelative(lane, from) PROVE IInv'
  BY <1>2, RelativeIsEffective, UpdateStep DEF ChooseRelative
<1>3. CASE FollowGlobal(lane)
  BY <1>3, GlobalIsEffective, UpdateStep DEF FollowGlobal
<1>4. CASE Apply(lane)
  <2>1. drafts[lane][1] \in 0..LastShown /\ drafts[lane][2] \in 0..LastShown
    BY DEF IInv, TypeOK
  <2>2. drafts[lane][1] \in 0..MaxDate /\ drafts[lane][2] \in 0..MaxDate
    BY <2>1, AppAssumption, PolicyAssumption
  <2>3. Effective(Absolute(drafts[lane][1], drafts[lane][2]))
    BY <1>4, <2>2, AbsoluteIsEffective DEF Apply, AbsoluteValid
  <2> QED
    BY <1>4, <2>3, UpdateStep DEF Apply
<1> QED
  BY <1>1, <1>2, <1>3, <1>4

LEMMA LaneCountStep ==
  ASSUME IInv, dashboard # NoDashboard, NEW count, SetLaneCount(count)
  PROVE  IInv'
<1> DEFINE newLanes == ComparisonLanes(dashboard.ids, count)
           kept == SelectionsFor(newLanes)
<1>1. /\ Show(newLanes, kept) /\ UNCHANGED <<open, loads, current, dashboard, window>>
  BY DEF SetLaneCount
<1>2. LanesOf(newLanes, dashboard.ids)
  BY DEF LanesOf
<1>3. DOMAIN kept \subseteq newLanes
  BY DEF SelectionsFor
<1>4. ASSUME NEW lane \in newLanes PROVE Effective(Chosen(kept, lane))
  <2>1. Chosen(kept, lane) = Chosen(selections, lane)
    BY DEF SelectionsFor, Chosen
  <2>2. CASE lane \in lanes
    BY <2>1, <2>2 DEF IInv, ViewInv, AllEffective
  <2>3. CASE lane \notin lanes
    <3>1. lane \notin DOMAIN selections
      BY <2>3 DEF IInv, TypeOK
    <3> QED
      BY <2>1, <3>1, GlobalIsEffective DEF Chosen
  <2> QED
    BY <2>2, <2>3
<1> HIDE DEF newLanes, kept
<1>5. AllEffective(newLanes, kept)
  BY <1>4 DEF AllEffective
<1> QED
  BY <1>1, <1>2, <1>3, <1>5, ShowStep

LEMMA EditStep ==
  ASSUME IInv, dashboard # NoDashboard, NEW lane \in lanes, NEW field \in 1..2, NEW time \in DraftTimes,
         EditDraft(lane, field, time)
  PROVE  IInv'
<1>1. ModeOf(lane) = "absolute"
      /\ UNCHANGED <<open, url, loads, current, dashboard, lanes, selections, window, error>>
      /\ drafts' = [drafts EXCEPT ![lane][field] = EpochToInput(time)]
  BY DEF EditDraft
<1>2. EpochToInput(time) \in 0..LastShown
  BY TimesAreShown
<1>3. drafts' \in [lanes -> Fields] /\ \A l \in lanes \ {lane} : drafts'[l] = drafts[l]
  <2>1. drafts \in [lanes -> Fields]
    BY DEF IInv, TypeOK, Fields
  <2>2. [drafts[lane] EXCEPT ![field] = EpochToInput(time)] \in Fields
    BY <1>2, <2>1 DEF Fields
  <2> QED
    BY <1>1, <2>1, <2>2
<1>4. TypeOK'
  BY <1>1, <1>3 DEF IInv, TypeOK, Fields
<1>5. LoadInv' /\ ViewInv' /\ BookmarkRestores'
  BY <1>1 DEF IInv, LoadInv, ViewInv, BookmarkRestores, Reopened
<1>6. DraftInv'
  BY <1>1, <1>3 DEF IInv, DraftInv, ModeOf
<1> QED
  BY <1>4, <1>5, <1>6 DEF IInv

LEMMA PickStep ==
  ASSUME IInv, dashboard # NoDashboard, NEW new \in Windows, PickWindow(new)
  PROVE  IInv'
<1> DEFINE location == SelectionsToUrl(url.uid, lanes, selections, new)
<1>1. /\ window' = new /\ url' = location
      /\ UNCHANGED <<open, loads, current, dashboard, lanes, selections, error, drafts>>
  BY DEF PickWindow
<1>2. IsFiniteSet(dashboard.ids) /\ LanesOf(lanes, dashboard.ids)
  BY PolicyAssumption, FS_Subset DEF IInv, TypeOK, IsReady, ValidTargets, ViewInv
<1>3. /\ location.window = new /\ location.lanes = RecordedCount(lanes)
      /\ \A lane \in lanes : SelectionsFromUrl(lanes, location)[lane] = Chosen(selections, lane)
  BY RoundTrip DEF IInv, ViewInv
<1> HIDE DEF location
<1>4. ComparisonLanes(dashboard.ids, location.lanes) = lanes /\ WindowOf(location) = new
  BY <1>2, <1>3, LanesReopen, AppAssumption DEF WindowOf
<1>5. TypeOK'
  BY <1>1, <1>3 DEF IInv, TypeOK
<1>6. LoadInv' /\ ViewInv' /\ DraftInv'
  BY <1>1 DEF IInv, LoadInv, ViewInv, DraftInv, ModeOf
<1>7. BookmarkRestores'
  BY <1>1, <1>3, <1>4 DEF BookmarkRestores, Reopened
<1> QED
  BY <1>5, <1>6, <1>7 DEF IInv

-----------------------------------------------------------------------------
\* Steps of the page and its loads.
LEMMA BlankStep ==
  ASSUME NEW first \in Windows, NEW message \in {"", "uid"}, BlankPage(first, message)
  PROVE  /\ dashboard' = NoDashboard /\ lanes' = {} /\ window' \in Windows /\ error' = message
         /\ DOMAIN selections' = {} /\ drafts' \in [lanes' -> Fields]
         /\ error' \in {"", "uid", "provisioning", "failed", "limit"}
  BY DEF BlankPage, NoLanes

LEMMA StartStep ==
  ASSUME IInv, current = NoSlot, StartLoad
  PROVE  /\ loads' \in [Slots -> LoadRecords] /\ current' \in Slots
         /\ loads'[current'].phase # "idle" /\ ~loads'[current'].aborted
         /\ \A slot \in Slots :
              /\ loads'[slot].phase # "idle" /\ ~loads'[slot].aborted => slot = current'
              /\ loads'[slot].phase = "waiting" =>
                   loads'[slot].attempt < Attempts /\ ~loads'[slot].aborted
<1>1. PICK slot \in Slots : loads' = [loads EXCEPT ![slot] = FirstRequest] /\ current' = slot
  BY DEF StartLoad
<1>2. loads \in [Slots -> LoadRecords]
  BY DEF IInv, TypeOK
<1>3. /\ loads' \in [Slots -> LoadRecords] /\ loads'[slot] = FirstRequest
      /\ \A other \in Slots \ {slot} : loads'[other] = loads[other]
  BY <1>1, <1>2, LoadTypes
<1>4. ASSUME NEW other \in Slots \ {slot}
      PROVE  /\ ~(loads[other].phase # "idle" /\ ~loads[other].aborted)
             /\ loads[other].phase = "waiting" =>
                  loads[other].attempt < Attempts /\ ~loads[other].aborted
  BY AppAssumption DEF IInv, LoadInv, TypeOK
<1> QED
  BY <1>1, <1>3, <1>4, LoadTypes

LEMMA OpenStep == ASSUME IInv, Open PROVE IInv'
<1>1. open = FALSE /\ open' = TRUE /\ url' \in Urls \cup {url} /\ current = NoSlot
  BY DEF Open, IInv, TypeOK
<1>2. url'.window \in Windows \cup {NoWindow} /\ WindowOf(url') \in Windows
  BY <1>1, AppAssumption DEF IInv, TypeOK, WindowOf
<1>3. CASE StartLoad /\ BlankPage(WindowOf(url'), "")
  <2>1. /\ dashboard' = NoDashboard /\ lanes' = {} /\ window' = WindowOf(url') /\ error' = ""
        /\ DOMAIN selections' = {} /\ drafts' \in [lanes' -> Fields]
    BY <1>2, <1>3, BlankStep DEF BlankPage
  <2>2. TypeOK' /\ LoadInv'
    BY <1>1, <1>2, <1>3, <2>1, StartStep DEF TypeOK, LoadInv, WindowOf, Fields
  <2> QED
    BY <2>1, <2>2 DEF IInv, ViewInv, DraftInv, BookmarkRestores
<1>4. CASE UNCHANGED <<loads, current>> /\ BlankPage(WindowOf(url'), "uid")
  <2>1. /\ dashboard' = NoDashboard /\ lanes' = {} /\ window' = WindowOf(url') /\ error' = "uid"
        /\ DOMAIN selections' = {} /\ drafts' \in [lanes' -> Fields]
    BY <1>2, <1>4, BlankStep DEF BlankPage
  <2>2. TypeOK' /\ LoadInv'
    BY <1>1, <1>2, <1>4, <2>1 DEF IInv, TypeOK, LoadInv, WindowOf, Fields
  <2> QED
    BY <2>1, <2>2 DEF IInv, ViewInv, DraftInv, BookmarkRestores
<1> QED
  BY <1>3, <1>4 DEF Open

LEMMA CloseStep == ASSUME IInv, Close PROVE IInv'
<1>1. /\ open' = FALSE /\ current' = NoSlot /\ url' = url
      /\ loads' = IF current = NoSlot THEN loads ELSE [loads EXCEPT ![current] = Aborted(@)]
      /\ BlankPage(window, "")
  BY DEF Close
<1>2. /\ dashboard' = NoDashboard /\ lanes' = {} /\ window' \in Windows /\ error' = ""
      /\ DOMAIN selections' = {} /\ drafts' \in [lanes' -> Fields]
  BY <1>1, BlankStep DEF IInv, TypeOK
<1>3. ASSUME NEW load \in LoadRecords
      PROVE  /\ Aborted(load) \in LoadRecords
             /\ Aborted(load).phase # "waiting"
             /\ Aborted(load).phase # "idle" => Aborted(load).aborted
  BY LoadTypes DEF Aborted, LoadRecords, Idle
<1>4. /\ loads' \in [Slots -> LoadRecords]
      /\ \A slot \in Slots : loads'[slot] = IF slot = current THEN Aborted(loads[slot]) ELSE loads[slot]
  BY <1>1, <1>3, AppAssumption DEF IInv, TypeOK
<1>5. ASSUME NEW slot \in Slots
      PROVE  /\ ~(loads'[slot].phase # "idle" /\ ~loads'[slot].aborted)
             /\ loads'[slot].phase = "waiting" =>
                  loads'[slot].attempt < Attempts /\ ~loads'[slot].aborted
  <2>1. loads[slot] \in LoadRecords
    BY DEF IInv, TypeOK
  <2>2. CASE slot = current
    BY <1>3, <1>4, <2>1, <2>2
  <2>3. CASE slot # current
    BY <1>4, <2>3 DEF IInv, LoadInv, TypeOK
  <2> QED
    BY <2>2, <2>3
<1>6. TypeOK' /\ LoadInv'
  BY <1>1, <1>2, <1>4, <1>5 DEF IInv, TypeOK, LoadInv, Fields
<1> QED
  BY <1>2, <1>6 DEF IInv, ViewInv, DraftInv, BookmarkRestores

LEMMA RetryStep == ASSUME IInv, Retry PROVE IInv'
<1>1. /\ open /\ dashboard = NoDashboard /\ error # "" /\ StartLoad /\ error' = ""
      /\ UNCHANGED <<open, url, dashboard, lanes, selections, window, drafts>>
  BY DEF Retry
<1>2. current = NoSlot
  BY <1>1 DEF IInv, LoadInv
<1>3. TypeOK' /\ LoadInv'
  BY <1>1, <1>2, StartStep DEF IInv, TypeOK, LoadInv
<1> QED
  BY <1>1, <1>3 DEF IInv, ViewInv, DraftInv, BookmarkRestores, ModeOf

LEMMA DelayIsBounded == ASSUME NEW attempt PROVE BoundedDelay(attempt) \in Nat
<1>1. \A delay : (IF delay \in 0..MaxRetryDelay THEN delay ELSE MaxRetryDelay) \in Nat
  BY AppAssumption
<1> QED
  BY <1>1, Zenon DEF BoundedDelay

\* A load that was not aborted is that of an open page that shows nothing yet.
LEMMA CurrentLoad ==
  ASSUME IInv, NEW slot \in Slots, loads[slot].phase # "idle", ~loads[slot].aborted
  PROVE  /\ slot = current /\ current # NoSlot /\ open /\ dashboard = NoDashboard /\ error = ""
         /\ lanes = {} /\ window = WindowOf(url) /\ DOMAIN selections = {}
<1>1. slot = current /\ current # NoSlot
  BY AppAssumption DEF IInv, LoadInv
<1>2. open /\ dashboard = NoDashboard
  BY <1>1 DEF IInv, TypeOK
<1> QED
  BY <1>1, <1>2 DEF IInv, TypeOK, LoadInv

LEMMA EndStep ==
  ASSUME IInv, NEW slot \in Slots, End(slot)
  PROVE  /\ loads' \in [Slots -> LoadRecords]
         /\ loads'[slot] = Idle /\ \A other \in Slots \ {slot} : loads'[other] = loads[other]
         /\ current' = IF current = slot THEN NoSlot ELSE current
  BY LoadTypes DEF End, IInv, TypeOK

\* When the load of the page ends there is no other.
LEMMA NoLoadIsLeft ==
  ASSUME IInv, NEW slot \in Slots, slot = current, End(slot)
  PROVE  /\ current' = NoSlot
         /\ \A other \in Slots : /\ loads'[other].phase # "idle" => loads'[other].aborted
                                 /\ loads'[other].phase # "waiting"
<1>1. Idle.phase = "idle"
  BY DEF Idle
<1>2. ASSUME NEW other \in Slots \ {slot}
      PROVE  /\ loads[other].phase # "idle" => loads[other].aborted
             /\ loads[other].phase # "waiting"
  BY DEF IInv, TypeOK, LoadInv
<1> QED
  BY <1>1, <1>2, EndStep

LEMMA DeliverStep ==
  ASSUME IInv, NEW slot \in Slots, NEW reply \in Replies, slot = current, open, lanes = {}, error = "",
         window = WindowOf(url), DOMAIN selections = {},
         IsReady(reply), End(slot), Deliver(reply), UNCHANGED <<open, url>>
  PROVE  IInv'
<1> DEFINE newLanes == ComparisonLanes(reply.ids, url.lanes)
           raises == GroupingRaises(newLanes, Decoded(newLanes, url))
           newSelections == IF raises THEN selections ELSE SelectionsFromUrl(newLanes, url)
<1>1. /\ dashboard' = reply /\ lanes' = newLanes /\ selections' = newSelections
      /\ drafts' = DraftsAfter(newLanes, newSelections) /\ window' = window
      /\ error' = IF raises THEN "failed" ELSE error
  BY DEF Deliver
<1>2. /\ DOMAIN newSelections \subseteq newLanes
      /\ AllEffective(newLanes, newSelections) /\ ~ExceedsTimeGroupLimit(newLanes, newSelections)
  <2>1. CASE raises
    <3>1. \A lane \in newLanes : Chosen(newSelections, lane) = Global
      BY <2>1 DEF Chosen
    <3> QED
      BY <2>1, <3>1, AllGlobalFits
  <2>2. CASE ~raises
    BY <2>2, FromUrlFits
  <2> QED
    BY <2>1, <2>2
<1>3. ~raises => \A lane \in newLanes :
                   SelectionsFromUrl(newLanes, url)[lane] = Chosen(newSelections, lane)
  <2> SUFFICES ASSUME ~raises, NEW lane \in newLanes
               PROVE  SelectionsFromUrl(newLanes, url)[lane] = Chosen(newSelections, lane)
    OBVIOUS
  <2>1. DOMAIN SelectionsFromUrl(newLanes, url) = newLanes
    BY FromUrlFits
  <2> QED
    BY <2>1 DEF Chosen
<1>4. LanesOf(newLanes, reply.ids)
  BY DEF LanesOf
<1> HIDE DEF newLanes, newSelections
<1>5. /\ drafts' \in [newLanes -> Fields]
      /\ \A lane \in newLanes :
           Chosen(newSelections, lane).mode # "absolute" => drafts'[lane] = Blank
  BY <1>1, DraftsFollow DEF IInv
<1>6. TypeOK'
  BY <1>1, <1>2, <1>5, EndStep, NoLoadIsLeft DEF IInv, TypeOK, AllEffective, Effective, Fields
<1>7. LoadInv'
  <2>1. reply \notin {NotFound, Unavailable}
    BY DEF IsReady
  <2>2. url.uid \in DOMAIN Described /\ reply \in Described[url.uid]
    BY <2>1 DEF Replies
  <2>3. reply # NoDashboard
    BY <2>2, AppAssumption
  <2> QED
    BY <1>1, <2>3, NoLoadIsLeft DEF LoadInv
<1>8. ViewInv' /\ DraftInv'
  BY <1>1, <1>2, <1>4, <1>5 DEF ViewInv, DraftInv, ModeOf
<1>9. BookmarkRestores'
  BY <1>1, <1>3 DEF BookmarkRestores, Reopened, newLanes
<1> QED
  BY <1>6, <1>7, <1>8, <1>9 DEF IInv

LEMMA AnswerStep ==
  ASSUME IInv, NEW slot \in Slots, NEW reply \in Replies, Answer(slot, reply)
  PROVE  IInv'
<1>1. loads[slot].phase = "requesting" /\ open' = open /\ url' = url
  BY DEF Answer
<1>2. CASE IsCancelled(loads[slot]) /\ End(slot) /\ UNCHANGED page
  <2>1. slot # current \/ current = NoSlot
    BY <1>2 DEF IInv, TypeOK, IsCancelled
  <2>2. current' = current /\ UNCHANGED <<dashboard, lanes, selections, window, error, drafts>>
    BY <1>2, <2>1 DEF End, page
  <2>3. \A other \in Slots : loads'[other] = loads[other] \/ (loads'[other] = Idle /\ other = slot)
    BY <1>2, EndStep
  <2>4. Idle.phase = "idle"
    BY DEF Idle
  <2>5. TypeOK' /\ LoadInv'
    BY <1>1, <1>2, <2>1, <2>2, <2>3, <2>4, EndStep, AppAssumption DEF IInv, TypeOK, LoadInv
  <2> QED
    BY <1>1, <2>2, <2>5 DEF IInv, ViewInv, DraftInv, BookmarkRestores, ModeOf, Reopened
<1>3. CASE ~IsCancelled(loads[slot]) /\ IsReady(reply) /\ End(slot) /\ Deliver(reply)
  BY <1>1, <1>3, CurrentLoad, DeliverStep DEF IsCancelled
<1>4. CASE /\ ~IsCancelled(loads[slot]) /\ IsRetryable(reply) /\ ~IsLast(loads[slot])
           /\ loads' = [loads EXCEPT ![slot].phase = "waiting",
                                     ![slot].waited = @ + BoundedDelay(loads[slot].attempt)]
           /\ UNCHANGED <<current, page>>
  <2>1. loads \in [Slots -> LoadRecords]
    BY DEF IInv, TypeOK
  <2>2. loads[slot].waited + BoundedDelay(loads[slot].attempt) \in Nat
    BY <2>1, DelayIsBounded DEF LoadRecords
  <2>3. loads' \in [Slots -> LoadRecords]
    BY <1>4, <2>1, <2>2 DEF LoadRecords
  <2>4. /\ loads'[slot].aborted = loads[slot].aborted
        /\ loads'[slot].attempt = loads[slot].attempt /\ loads'[slot].phase = "waiting"
        /\ \A other \in Slots \ {slot} : loads'[other] = loads[other]
    BY <1>4, <2>1 DEF LoadRecords
  <2>5. UNCHANGED <<current, dashboard, lanes, selections, window, error, drafts>>
    BY <1>4 DEF page
  <2>6. ~loads[slot].aborted /\ loads[slot].attempt < Attempts
    BY <1>4, <2>1, AppAssumption DEF IsCancelled, IsLast, LoadRecords
  <2>7. TypeOK' /\ LoadInv'
    BY <1>1, <2>3, <2>4, <2>5, <2>6 DEF IInv, TypeOK, LoadInv
  <2> QED
    BY <1>1, <2>5, <2>7 DEF IInv, ViewInv, DraftInv, BookmarkRestores, ModeOf, Reopened
<1>5. CASE /\ ~IsCancelled(loads[slot]) /\ End(slot)
           /\ Fail(IF IsRetryable(reply) THEN "provisioning" ELSE "failed")
  <2>1. slot = current /\ open /\ dashboard = NoDashboard /\ lanes = {} /\ window = WindowOf(url)
    BY <1>1, <1>5, CurrentLoad DEF IsCancelled
  <2>2. /\ error' \in {"provisioning", "failed"}
        /\ UNCHANGED <<dashboard, lanes, selections, window, drafts>>
    BY <1>5 DEF Fail
  <2>3. TypeOK' /\ LoadInv'
    BY <1>1, <1>5, <2>1, <2>2, EndStep, NoLoadIsLeft DEF IInv, TypeOK, LoadInv
  <2> QED
    BY <1>1, <2>1, <2>2, <2>3 DEF IInv, ViewInv, DraftInv, BookmarkRestores, ModeOf
<1> QED
  BY <1>2, <1>3, <1>4, <1>5 DEF Answer

LEMMA ElapseStep == ASSUME IInv, NEW slot \in Slots, Elapse(slot) PROVE IInv'
<1>1. /\ loads[slot].phase = "waiting"
      /\ loads' = [loads EXCEPT ![slot].phase = "requesting", ![slot].attempt = @ + 1]
      /\ UNCHANGED <<open, url, current, dashboard, lanes, selections, window, error, drafts>>
  BY DEF Elapse, page
<1>2. loads \in [Slots -> LoadRecords] /\ loads[slot].attempt < Attempts
  BY <1>1 DEF IInv, TypeOK, LoadInv
<1>3. loads[slot].attempt + 1 \in 0..Attempts
  BY <1>2, AppAssumption DEF LoadRecords
<1>4. loads' \in [Slots -> LoadRecords]
  BY <1>1, <1>2, <1>3 DEF LoadRecords
<1>5. /\ loads'[slot].aborted = loads[slot].aborted /\ loads'[slot].phase = "requesting"
      /\ \A other \in Slots \ {slot} : loads'[other] = loads[other]
  BY <1>1, <1>2 DEF LoadRecords
<1>6. TypeOK' /\ LoadInv'
  BY <1>1, <1>4, <1>5 DEF IInv, TypeOK, LoadInv
<1> QED
  BY <1>1, <1>6 DEF IInv, ViewInv, DraftInv, BookmarkRestores, ModeOf, Reopened

-----------------------------------------------------------------------------
LEMMA InductiveStep == IInv /\ [Next]_vars => IInv'
<1> SUFFICES ASSUME IInv, [Next]_vars PROVE IInv'
  OBVIOUS
<1>1. CASE Open \/ Close \/ Retry
  BY <1>1, OpenStep, CloseStep, RetryStep
<1>2. CASE Change
  <2>1. dashboard # NoDashboard
    BY <1>2 DEF Change
  <2>2. ASSUME NEW lane \in lanes,
               \/ \E mode \in Modes, now \in Nows : ModeChange(lane, mode, now)
               \/ \E from \in RelativeValues : ChooseRelative(lane, from)
               \/ FollowGlobal(lane)
               \/ Apply(lane)
        PROVE  IInv'
    BY <2>1, <2>2, CardStep
  <2>3. ASSUME NEW lane \in lanes, NEW field \in 1..2, NEW time \in DraftTimes,
               EditDraft(lane, field, time)
        PROVE  IInv'
    BY <2>1, <2>3, EditStep
  <2>4. ASSUME NEW count, SetLaneCount(count) PROVE IInv'
    BY <2>1, <2>4, LaneCountStep
  <2>5. ASSUME NEW new \in Windows, PickWindow(new) PROVE IInv'
    BY <2>1, <2>5, PickStep
  <2> QED
    BY <1>2, <2>2, <2>3, <2>4, <2>5 DEF Change
<1>3. ASSUME NEW slot \in Slots, Progress(slot) PROVE IInv'
  BY <1>3, AnswerStep, ElapseStep DEF Progress
<1>4. CASE UNCHANGED vars
  BY <1>4 DEF vars, page, IInv, TypeOK, LoadInv, ViewInv, DraftInv, BookmarkRestores, ModeOf, Reopened
<1> QED
  BY <1>1, <1>2, <1>3, <1>4 DEF Next

THEOREM InvariantHolds == Spec => []IInv
  BY InitEstablishes, InductiveStep, PTL DEF Spec

\* The types of the view hold, and a page that loads has one load that is not
\* aborted (App.tsx, the state of the view and its effect).
THEOREM TypesHold == Spec => []TypeOK
<1>1. IInv => TypeOK
  BY DEF IInv
<1> QED
  BY <1>1, InvariantHolds, PTL

\* Whatever is changed, the URL reopens the view as it is (App.tsx:94-111, 146-160,
\* 164-235), for every policy, descriptor, clock and URL.
THEOREM BookmarksRestore == Spec => []BookmarkRestores
<1>1. IInv => BookmarkRestores
  BY DEF IInv
<1> QED
  BY <1>1, InvariantHolds, PTL

\* The range that a card names is the one its group uses, and the groups are within
\* the policy (timeRanges.ts:50-66, App.tsx:169-182, 311-330).
THEOREM CardsMatchTheirGroups == Spec => []CardsMatchGroups
<1>1. IInv => CardsMatchGroups
  <2> SUFFICES ASSUME IInv, dashboard # NoDashboard PROVE CardsMatchGroups
    BY DEF CardsMatchGroups
  <2>1. IsFiniteSet(dashboard.ids)
    BY PolicyAssumption, FS_Subset DEF IInv, TypeOK, IsReady, ValidTargets
  <2>2. Cardinality(Keys(lanes, selections)) \in Nat
    BY <2>1, KeysAreFinite DEF IInv, ViewInv
  <2>3. Cardinality(Keys(lanes, selections)) <= MaxGroups
    BY <2>2, PolicyAssumption DEF IInv, ViewInv, ExceedsTimeGroupLimit
  <2> QED
    BY <2>3 DEF IInv, ViewInv, DraftInv, AllEffective, Effective, CardsMatchGroups
<1> QED
  BY <1>1, InvariantHolds, PTL

-----------------------------------------------------------------------------
(***************************************************************************)
(* The terms of a load: what it has waited is what the policy says for the *)
(* attempts it has made, and it is aborted only during a request.          *)
(***************************************************************************)
Term(load) ==
  /\ load.aborted => load.phase = "requesting"
  /\ load.phase = "requesting" =>
       load.attempt \in 1..Attempts /\ load.waited = RetryWindow[load.attempt]
  /\ load.phase = "waiting" =>
       load.attempt \in 1..(Attempts - 1) /\ load.waited = RetryWindow[load.attempt + 1]

TermsInv == \A slot \in Slots : Term(loads[slot])

\* descriptorRetryWindowMilliseconds() adds the delays one after the other.
LEMMA RetryWindowSteps ==
  \A n \in 0..Attempts :
    RetryWindow[n] = IF n <= 1 THEN 0 ELSE RetryWindow[n - 1] + BoundedDelay(n - 1)
<1> DEFINE step == [n \in 1..Attempts |->
                      [w \in Nat |-> IF n <= 1 THEN 0 ELSE w + BoundedDelay(n - 1)]]
<1>1. step \in [1..Attempts -> [Nat -> Nat]]
  BY DelayIsBounded
<1>2. \A n \in 1..Attempts : \A w \in Nat :
        step[n][w] = IF n <= 1 THEN 0 ELSE w + BoundedDelay(n - 1)
  OBVIOUS
<1> HIDE DEF step
<1>3. Attempts \in Nat /\ 0 \in Nat
  BY AppAssumption
<1>4. PICK f \in [0..Attempts -> Nat] : Iterates(f, Attempts, 0, step)
  BY <1>1, <1>3, RecursionTo
<1>5. ASSUME NEW n \in 0..Attempts
      PROVE  f[n] = IF n <= 1 THEN 0 ELSE f[n - 1] + BoundedDelay(n - 1)
  <2>1. n # 0 => n \in 1..Attempts /\ n - 1 \in 0..Attempts
    BY <1>3
  <2> QED
    BY <1>2, <1>4, <2>1 DEF Iterates
<1>6. f = [n \in 0..Attempts |-> IF n <= 1 THEN 0 ELSE f[n - 1] + BoundedDelay(n - 1)]
  BY <1>5
<1>7. RetryWindow = CHOOSE w : w = [n \in 0..Attempts |->
                                      IF n <= 1 THEN 0 ELSE w[n - 1] + BoundedDelay(n - 1)]
  BY DEF RetryWindow
<1>8. RetryWindow = [n \in 0..Attempts |->
                       IF n <= 1 THEN 0 ELSE RetryWindow[n - 1] + BoundedDelay(n - 1)]
  BY <1>6, <1>7
<1> QED
  BY <1>8, Zenon

\* What a step does to a load.
StartsToWait(slot) ==
  /\ loads[slot].phase = "requesting" /\ ~loads[slot].aborted /\ loads[slot].attempt # Attempts
  /\ loads'[slot] = [loads[slot] EXCEPT !.phase = "waiting",
                                        !.waited = @ + BoundedDelay(loads[slot].attempt)]

TriesAgain(slot) ==
  /\ loads[slot].phase = "waiting"
  /\ loads'[slot] = [loads[slot] EXCEPT !.phase = "requesting", !.attempt = @ + 1]

Moves(slot) ==
  \/ loads'[slot] = loads[slot]
  \/ loads[slot].phase = "idle" /\ loads'[slot] = FirstRequest
  \/ slot = current /\ loads'[slot] = Aborted(loads[slot])
  \/ loads[slot].phase = "requesting" /\ loads'[slot] = Idle /\ UNCHANGED page
  \/ loads[slot].phase = "requesting" /\ ~loads[slot].aborted /\ loads'[slot] = Idle
  \/ StartsToWait(slot) \/ TriesAgain(slot)

LEMMA LoadsMove == ASSUME IInv, [Next]_vars, NEW slot \in Slots PROVE Moves(slot)
<1>1. loads \in [Slots -> LoadRecords]
  BY DEF IInv, TypeOK
<1>2. CASE StartLoad
  BY <1>1, <1>2 DEF StartLoad, Moves
<1>3. CASE Close
  <2>1. loads' = IF current = NoSlot THEN loads ELSE [loads EXCEPT ![current] = Aborted(@)]
    BY <1>3 DEF Close
  <2> QED
    BY <1>1, <2>1 DEF Moves
<1>4. CASE UNCHANGED loads
  BY <1>4 DEF Moves
<1>5. ASSUME NEW other \in Slots, NEW reply \in Replies, Answer(other, reply) PROVE Moves(slot)
  <2>1. loads[other].phase = "requesting"
    BY <1>5 DEF Answer
  <2>2. CASE IsCancelled(loads[other]) /\ End(other) /\ UNCHANGED page
    BY <1>1, <2>1, <2>2 DEF End, Moves
  <2>3. CASE ~IsCancelled(loads[other]) /\ End(other)
    BY <1>1, <2>1, <2>3 DEF End, IsCancelled, Moves
  <2>4. CASE /\ ~IsCancelled(loads[other]) /\ ~IsLast(loads[other])
             /\ loads' = [loads EXCEPT ![other].phase = "waiting",
                                       ![other].waited = @ + BoundedDelay(loads[other].attempt)]
    BY <1>1, <2>1, <2>4 DEF IsCancelled, IsLast, Moves, StartsToWait
  <2> QED
    BY <1>5, <2>2, <2>3, <2>4 DEF Answer
<1>6. ASSUME NEW other \in Slots, Elapse(other) PROVE Moves(slot)
  BY <1>1, <1>6 DEF Elapse, Moves, TriesAgain
<1>7. Change => UNCHANGED loads
  BY DEF Change, ModeChange, ChooseRelative, FollowGlobal, Apply, UpdateSelection, EditDraft,
         SetLaneCount, PickWindow
<1>8. Open \/ Retry => StartLoad \/ UNCHANGED loads
  BY DEF Open, Retry
<1> QED
  BY <1>2, <1>3, <1>4, <1>5, <1>6, <1>7, <1>8 DEF Next, Progress, vars

LEMMA TermsStep == ASSUME IInv, TermsInv, [Next]_vars PROVE TermsInv'
<1> SUFFICES ASSUME NEW slot \in Slots PROVE Term(loads'[slot])
  BY DEF TermsInv
<1>1. Term(loads[slot]) /\ loads[slot] \in LoadRecords /\ Moves(slot)
  BY LoadsMove DEF TermsInv, IInv, TypeOK
<1>2. Attempts \in Nat \ {0}
  BY AppAssumption
<1>3. Term(Idle)
  BY DEF Term, Idle
<1>4. CASE loads[slot].phase = "idle" /\ loads'[slot] = FirstRequest
  <2>1. RetryWindow[1] = 0 /\ 1 \in 1..Attempts
    BY <1>2, RetryWindowSteps
  <2> QED
    BY <1>4, <2>1 DEF Term, FirstRequest
<1>5. CASE loads'[slot] = Aborted(loads[slot])
  BY <1>1, <1>3, <1>5 DEF Aborted, Term, LoadRecords
<1>6. CASE StartsToWait(slot)
  <2>1. /\ loads[slot].attempt \in 1..(Attempts - 1)
        /\ loads[slot].waited = RetryWindow[loads[slot].attempt]
    BY <1>1, <1>2, <1>6 DEF Term, StartsToWait
  <2>2. RetryWindow[loads[slot].attempt + 1] =
          RetryWindow[loads[slot].attempt] + BoundedDelay(loads[slot].attempt)
    <3>1. /\ loads[slot].attempt + 1 \in 0..Attempts /\ ~(loads[slot].attempt + 1 <= 1)
          /\ (loads[slot].attempt + 1) - 1 = loads[slot].attempt
      BY <1>2, <2>1
    <3> QED
      BY <3>1, RetryWindowSteps
  <2>3. /\ loads'[slot].phase = "waiting" /\ loads'[slot].aborted = loads[slot].aborted
        /\ loads'[slot].attempt = loads[slot].attempt
        /\ loads'[slot].waited = loads[slot].waited + BoundedDelay(loads[slot].attempt)
    BY <1>1, <1>6 DEF LoadRecords, StartsToWait
  <2> QED
    BY <1>6, <2>1, <2>2, <2>3 DEF Term, StartsToWait
<1>7. CASE TriesAgain(slot)
  <2>1. /\ loads[slot].attempt \in 1..(Attempts - 1) /\ ~loads[slot].aborted
        /\ loads[slot].waited = RetryWindow[loads[slot].attempt + 1]
    BY <1>1, <1>7 DEF Term, TriesAgain
  <2>2. /\ loads'[slot].phase = "requesting" /\ loads'[slot].aborted = loads[slot].aborted
        /\ loads'[slot].attempt = loads[slot].attempt + 1
        /\ loads'[slot].waited = loads[slot].waited
    BY <1>1, <1>7 DEF LoadRecords, TriesAgain
  <2>3. loads'[slot].attempt \in 1..Attempts
    BY <1>2, <2>1, <2>2
  <2> QED
    BY <2>1, <2>2, <2>3 DEF Term
<1>8. CASE loads'[slot] = loads[slot] \/ loads'[slot] = Idle
  BY <1>1, <1>3, <1>8
<1> QED
  BY <1>1, <1>4, <1>5, <1>6, <1>7, <1>8 DEF Moves

THEOREM TermsHold == Spec => []TermsInv
<1>1. Init => TermsInv
  <2>1. Term(Idle)
    BY DEF Term, Idle
  <2> QED
    BY <2>1 DEF Init, TermsInv
<1>2. IInv /\ TermsInv /\ [Next]_vars => TermsInv'
  BY TermsStep
<1> QED
  BY <1>1, <1>2, InvariantHolds, PTL DEF Spec

\* The page says that provisioning did not finish only after the last attempt.
LEMMA GivingUp ==
  ASSUME IInv, [Next]_vars, NEW slot \in Slots, current = slot, error' = "provisioning"
  PROVE  loads[slot].phase = "requesting" /\ loads[slot].attempt = Attempts
<1>1. /\ current # NoSlot /\ open /\ dashboard = NoDashboard /\ error = ""
      /\ loads[slot].phase # "idle" /\ ~loads[slot].aborted
  BY AppAssumption DEF IInv, TypeOK, LoadInv
<1>2. ~Open /\ ~Retry /\ ~Change
  BY <1>1 DEF Open, Retry, Change
<1>3. ~Close
  BY DEF Close, BlankPage
<1>4. ASSUME NEW other \in Slots, Elapse(other) PROVE FALSE
  BY <1>1, <1>4 DEF Elapse, page
<1>5. ~UNCHANGED vars
  BY <1>1 DEF vars, page
<1>6. PICK other \in Slots, reply \in Replies : Answer(other, reply)
  BY <1>2, <1>3, <1>4, <1>5 DEF Next, Progress
<1>7. loads[other].phase = "requesting" /\ ~UNCHANGED page
  BY <1>1, <1>6 DEF Answer, page
<1>8. ~Deliver(reply)
  BY <1>1 DEF Deliver
<1>9. ~IsCancelled(loads[other]) /\ (IsRetryable(reply) => IsLast(loads[other]))
      /\ Fail(IF IsRetryable(reply) THEN "provisioning" ELSE "failed")
  BY <1>6, <1>7, <1>8 DEF Answer
<1>10. IsLast(loads[other])
  BY <1>9 DEF Fail
<1>11. other = slot
  BY <1>7, <1>9, CurrentLoad DEF IsCancelled
<1> QED
  BY <1>7, <1>10, <1>11 DEF IsLast

\* A load that was aborted is silent, and the page gives up after every attempt and
\* the time it names (descriptor.ts:46-94, App.tsx:112-125).
THEOREM LoadsKeepTheTerms == Spec => LoadsKeepTheirTerms
<1>1. ASSUME IInv, TermsInv, [Next]_vars, NEW slot \in Slots PROVE AbortedIsSilent(slot)
  <2> SUFFICES ASSUME loads[slot].aborted
               PROVE  loads'[slot] = loads[slot] \/ (loads'[slot] = Idle /\ UNCHANGED page)
    BY DEF AbortedIsSilent
  <2>1. Moves(slot) /\ loads[slot].phase = "requesting"
    BY <1>1, LoadsMove DEF TermsInv, Term
  <2>2. slot # current
    BY <1>1, AppAssumption DEF IInv, TypeOK
  <2> QED
    BY <2>1, <2>2 DEF Moves, StartsToWait, TriesAgain
<1>2. ASSUME IInv, TermsInv, [Next]_vars, NEW slot \in Slots PROVE GivesUpLast(slot)
  BY <1>2, GivingUp DEF GivesUpLast, TermsInv, Term
<1>3. IInv /\ TermsInv /\ [Next]_vars =>
        [\A slot \in Slots : AbortedIsSilent(slot) /\ GivesUpLast(slot)]_vars
  BY <1>1, <1>2
<1> QED
  BY <1>3, InvariantHolds, TermsHold, PTL DEF Spec, LoadsKeepTheirTerms
-----------------------------------------------------------------------------
\* What is shown is a dashboard that Grafana holds, so its panels are those of a list.
PanelsInv == dashboard # NoDashboard => dashboard.panels \in PanelLists

LEMMA DashboardKept == Next => dashboard' \in {dashboard, NoDashboard} \cup (Replies \ {NotFound, Unavailable})
<1>1. Open \/ Close => dashboard' = NoDashboard
  BY DEF Open, Close, BlankPage
<1>2. Retry \/ Change => dashboard' = dashboard
  BY DEF Retry, Change, ModeChange, ChooseRelative, FollowGlobal, Apply, UpdateSelection,
         EditDraft, SetLaneCount, PickWindow
<1>3. ASSUME NEW slot \in Slots, NEW reply \in Replies, Answer(slot, reply)
      PROVE  dashboard' \in {dashboard} \cup (Replies \ {NotFound, Unavailable})
  BY <1>3 DEF Answer, page, Deliver, Fail, IsReady
<1>4. ASSUME NEW slot \in Slots, Elapse(slot) PROVE dashboard' = dashboard
  BY <1>4 DEF Elapse, page
<1> QED
  BY <1>1, <1>2, <1>3, <1>4 DEF Next, Progress

LEMMA PanelsHold == Spec => []PanelsInv
<1>1. Init => PanelsInv
  BY DEF Init, PanelsInv
<1>2. ASSUME NEW reply \in Replies \ {NotFound, Unavailable} PROVE reply.panels \in PanelLists
  BY AppAssumption DEF Replies
<1>3. PanelsInv /\ [Next]_vars => PanelsInv'
  BY <1>2, DashboardKept DEF PanelsInv, vars, page
<1> QED
  BY <1>1, <1>3, PTL DEF Spec

\* The targets of the lanes are well-formed identifiers.
LEMMA TargetsAreIdentifiers ==
  ASSUME NEW ids, ids \subseteq TargetIds, NEW shown, LanesOf(shown, ids)
  PROVE  TargetsOf(shown) \subseteq TargetIds
<1>1. PICK requested : shown = ComparisonLanes(ids, requested)
  BY DEF LanesOf
<1>2. \A lane \in shown : lane[1] \in ids
  BY <1>1 DEF ComparisonLanes
<1> QED
  BY <1>2 DEF TargetsOf

\* A group is the one of its key.
LEMMA GroupOfLane ==
  ASSUME NEW shown, NEW chosen, NEW first, NEW lane \in shown
  PROVE  Cardinality({group \in GroupSelections(shown, chosen, first) : lane \in group.lanes}) = 1
<1> DEFINE own == SelectionKey(Chosen(chosen, lane))
           Group(key) == [key     |-> key,
                          range   |-> IF key = Global THEN first ELSE key,
                          targets |-> GroupTargets(key, shown, chosen),
                          lanes   |-> LanesAt(key, shown, chosen)]
<1>1. GroupSelections(shown, chosen, first) = {Group(key) : key \in Keys(shown, chosen)}
  BY DEF GroupSelections
<1>2. \A key : lane \in Group(key).lanes <=> key = own
  BY DEF LanesAt
<1>3. own \in Keys(shown, chosen)
  BY DEF Keys
<1> HIDE DEF Group, own
<1>4. {group \in GroupSelections(shown, chosen, first) : lane \in group.lanes} = {Group(own)}
  BY <1>1, <1>2, <1>3
<1> QED
  BY <1>4, FS_Singleton

\* Nothing is left to substitute in a query that was scoped to targets.
LEMMA NothingIsLeft ==
  ASSUME NEW panel, NEW group, group.targets \in SUBSET TargetIds,
         NEW query \in Range(BuildPanel(panel, group).queries)
  PROVE  EndpointVariable \notin Range(query)
<1>1. PICK q \in DOMAIN panel.queries :
             query = [i \in DOMAIN panel.queries[q] |->
                        IF panel.queries[q][i] = EndpointVariable THEN group.targets
                        ELSE panel.queries[q][i]]
  BY DEF Range, BuildPanel, ScopedQueries
<1>2. group.targets # EndpointVariable
  BY AppAssumption
<1>3. \A i \in DOMAIN query : query[i] # EndpointVariable
  BY <1>1, <1>2
<1> QED
  BY <1>3 DEF Range

LEMMA GroupShowsEverything ==
  ASSUME IInv, PanelsInv, dashboard # NoDashboard, NEW group \in GroupsShown
  PROVE  ShowsEverything(group)
<1> DEFINE list == dashboard.panels
           scene == BuildGroupScene(list, group)
           targets == {lane[1] : lane \in group.lanes}
<1>1. PICK key \in Keys(lanes, selections) :
             group = [key     |-> key,
                      range   |-> IF key = Global THEN window ELSE key,
                      targets |-> GroupTargets(key, lanes, selections),
                      lanes   |-> LanesAt(key, lanes, selections)]
  BY DEF GroupsShown, GroupSelections
<1>2. group.targets = targets /\ group.lanes \subseteq lanes
      /\ \A lane \in group.lanes : SelectionKey(Chosen(selections, lane)) = group.key
  BY <1>1 DEF GroupTargets, TargetsOf, LanesAt
<1>3. group.targets \subseteq TargetIds
  <2>1. dashboard.ids \subseteq TargetIds
    BY DEF IInv, TypeOK, IsReady, ValidTargets
  <2>2. TargetsOf(lanes) \subseteq TargetIds
    BY <2>1, TargetsAreIdentifiers DEF IInv, ViewInv
  <2> QED
    BY <1>2, <2>2 DEF TargetsOf
<1>4. list \in PanelLists
  BY DEF PanelsInv
<1>5. FlattenSeq(scene.children) =
        [i \in DOMAIN InDocumentOrder[list] |-> BuildPanel(InDocumentOrder[list][i], group)]
  BY <1>4, SceneShowsTheDocument
<1>6. FlattenSeq(scene.children) = ScopedTo(targets)
  BY <1>2, <1>5 DEF ScopedTo, BuildPanel
<1>7. ASSUME NEW i \in DOMAIN FlattenSeq(scene.children),
             NEW query \in Range(FlattenSeq(scene.children)[i].queries)
      PROVE  EndpointVariable \notin Range(query)
  <2>1. FlattenSeq(scene.children)[i] = BuildPanel(InDocumentOrder[list][i], group)
    BY <1>5
  <2> QED
    BY <1>3, <1>7, <2>1, NothingIsLeft
<1>8. ASSUME NEW lane \in group.lanes
      PROVE  LET own == SelectionKey(Chosen(selections, lane))
             IN  scene.timePicker = (own = Global) /\ group.key = own
  <2> DEFINE own == SelectionKey(Chosen(selections, lane))
  <2>1. own = group.key /\ scene.timePicker = (group.key.mode = "global")
    BY <1>2 DEF BuildGroupScene
  <2>2. IsSelection(own)
    BY <1>2 DEF IInv, ViewInv, AllEffective, Effective
  <2>3. (own.mode = "global") = (own = Global)
    BY <2>2 DEF IsSelection, Global
  <2> QED
    BY <2>1, <2>3
<1> QED
  BY <1>6, <1>7, <1>8 DEF ShowsEverything

\* Each lane is in exactly one scene, which shows every panel of the dashboard in
\* order, with its queries scoped to the targets of its lanes (dashboard.ts:27-57,
\* scene.ts, timeRanges.ts:68-109), for every dashboard and policy.
THEOREM LanesSeeEveryPanel == Spec => []EveryLaneSeesEveryPanel
<1>1. IInv /\ PanelsInv => EveryLaneSeesEveryPanel
  BY GroupOfLane, GroupShowsEverything DEF EveryLaneSeesEveryPanel, GroupsShown
<1> QED
  BY <1>1, InvariantHolds, PanelsHold, PTL
=============================================================================
