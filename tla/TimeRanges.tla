------------------------------ MODULE TimeRanges ------------------------------
(***************************************************************************)
(* The time ranges of the comparison plug-in (timeRanges.ts): lanes, the   *)
(* selection of each lane, its canonical key, the groups of lanes that     *)
(* share a key, and the encoding of all of it in the URL.  Everything here *)
(* is a function of its arguments.                                         *)
(*                                                                         *)
(* A lane <<t, k>> is the k-th range of a single target t, or k = 0 and    *)
(* the lane of t among several targets.  Lanes, targets and groups are     *)
(* sets: their order on the page is left out.  Labels are left out.        *)
(***************************************************************************)
EXTENDS Integers, FiniteSets, Sequences

CONSTANTS
  RelativeValues,             \* RELATIVE_RANGES
  DefaultRelative,            \* DEFAULT_RELATIVE_FROM
  Day,                        \* MILLISECONDS_PER_DAY
  MaxSafeInteger,             \* Number.MAX_SAFE_INTEGER
  MaxDate,                    \* the largest time value of a Date
  TargetIds,                  \* the identifiers that match TARGET_ID
  MinTargets, MaxTargets,     \* ComparisonPolicy, from the descriptor
  MinLanes, MaxLanes,
  MaxGroups, MaxDays

ASSUME PolicyAssumption ==
  /\ DefaultRelative \in RelativeValues
  /\ Day \in Nat \ {0} /\ MaxSafeInteger \in Nat /\ MaxDate \in 0..MaxSafeInteger
  /\ MinTargets \in Nat \ {0} /\ MaxTargets \in Nat /\ IsFiniteSet(TargetIds)
  /\ MinLanes \in Nat \ {0} /\ MaxLanes \in Nat /\ MinLanes <= MaxLanes
  /\ MaxGroups \in Nat \ {0} /\ MaxDays \in Nat \ {0} /\ MaxDays * Day <= MaxSafeInteger

\* Selections (TargetTimeSelection).  A field that its mode does not use is absent.
Global == [mode |-> "global"]
Relative(from) == [mode |-> "relative", from |-> from]
Absolute(from, to) == [mode |-> "absolute", from |-> from, to |-> to]
Modes == {"global", "relative", "absolute"}
IsSelection(selection) ==
  \/ selection = Global
  \/ selection.mode = "relative" /\ selection.from \in RelativeValues
     /\ selection = Relative(selection.from)
  \/ selection.mode = "absolute" /\ selection.from \in Int /\ selection.to \in Int
     /\ selection = Absolute(selection.from, selection.to)

MaxSpan == MaxDays * Day
IsSafe(n) == n \in Int /\ -MaxSafeInteger <= n /\ n <= MaxSafeInteger

Usable(from, to) ==
  /\ IsSafe(from) /\ IsSafe(to) /\ from < to
  /\ IsSafe(MaxSpan) /\ to - from <= MaxSpan

\* The canonical range of a selection; the key is a string in the code.
SelectionKey(selection) ==
  CASE selection.mode = "relative" ->
         Relative(IF selection.from \in RelativeValues THEN selection.from ELSE DefaultRelative)
    [] selection.mode = "absolute" /\ Usable(selection.from, selection.to) ->
         Absolute(selection.from, selection.to)
    [] OTHER -> Global

\* The lane of a selection that the record does not hold follows the global range.
Chosen(selections, lane) ==
  IF lane \in DOMAIN selections THEN selections[lane] ELSE Global

-----------------------------------------------------------------------------
\* Lanes.  A number of lanes that is missing or out of bounds counts as the minimum.
LaneCount(requested) == IF requested \in MinLanes..MaxLanes THEN requested ELSE MinLanes

ComparisonLanes(targets, requested) ==
  IF Cardinality(targets) = 1 THEN targets \X (1..LaneCount(requested)) ELSE targets \X {0}

TargetsOf(lanes) == {lane[1] : lane \in lanes}

-----------------------------------------------------------------------------
\* Groups: one for each key, with the lanes that have it and their targets.
Keys(lanes, selections) == {SelectionKey(Chosen(selections, lane)) : lane \in lanes}

LanesAt(key, lanes, selections) ==
  {lane \in lanes : SelectionKey(Chosen(selections, lane)) = key}

GroupTargets(key, lanes, selections) == TargetsOf(LanesAt(key, lanes, selections))

GroupSelections(lanes, selections, window) ==
  {[key     |-> key,
    range   |-> IF key = Global THEN window ELSE key,
    targets |-> GroupTargets(key, lanes, selections),
    lanes   |-> LanesAt(key, lanes, selections)] : key \in Keys(lanes, selections)}

\* new Date(n).toISOString() raises a RangeError beyond the range of Date, which
\* is smaller than that of safe integers.
Representable(key) ==
  key.mode = "absolute" => /\ -MaxDate <= key.from /\ key.from <= MaxDate
                           /\ -MaxDate <= key.to   /\ key.to   <= MaxDate

GroupingRaises(lanes, selections) ==
  \E key \in Keys(lanes, selections) : ~Representable(key)

ExceedsTimeGroupLimit(lanes, selections) == Cardinality(Keys(lanes, selections)) > MaxGroups

-----------------------------------------------------------------------------
\* The URL.  A parameter tr-<lane> is the tuple of its parts, without the colons;
\* the empty tuple stands for a parameter that is absent, as does 0 for the number
\* of lanes.
NoParameter == << >>

EncodeSelection(selection) ==
  LET key == SelectionKey(selection)
  IN  CASE key.mode = "relative" -> <<"r", key.from>>
        [] key.mode = "absolute" -> <<"a", key.from, key.to>>
        [] OTHER -> NoParameter

\* Defect: a range from the URL is taken as it is.
DecodeBlindly(parts) ==
  CASE Len(parts) = 2 /\ parts[1] = "r" /\ parts[2] \in RelativeValues -> Relative(parts[2])
    [] Len(parts) = 3 /\ parts[1] = "a" -> Absolute(parts[2], parts[3])
    [] OTHER -> Global

DecodeSelection(parts) ==
  CASE Len(parts) = 2 /\ parts[1] = "r" /\ parts[2] \in RelativeValues -> Relative(parts[2])
    [] Len(parts) = 3 /\ parts[1] = "a" /\ Usable(parts[2], parts[3]) ->
         Absolute(parts[2], parts[3])
    [] OTHER -> Global

Parameter(url, lane) ==
  IF lane \in DOMAIN url.ranges THEN url.ranges[lane] ELSE NoParameter

Decoded(lanes, url) == [lane \in lanes |-> DecodeSelection(Parameter(url, lane))]

SelectionsFromUrl(lanes, url) ==
  IF ExceedsTimeGroupLimit(lanes, Decoded(lanes, url))
  THEN [lane \in lanes |-> Global]
  ELSE Decoded(lanes, url)

\* Defect: the number of lanes is not part of the URL.
WithoutCount(lanes) == 0

RecordedCount(lanes) ==
  IF Cardinality(lanes) >= 2 /\ Cardinality(TargetsOf(lanes)) = 1 THEN Cardinality(lanes) ELSE 0

SelectionsToUrl(uid, lanes, selections, window) ==
  LET Encoded(lane) == EncodeSelection(Chosen(selections, lane))
  IN  [uid    |-> uid,
       window |-> window,
       lanes  |-> RecordedCount(lanes),
       ranges |-> [lane \in {l \in lanes : Encoded(l) # NoParameter} |-> Encoded(lane)]]

-----------------------------------------------------------------------------
\* The endpoints of a descriptor that is complete: those it names, all of them
\* well-formed and described, in a number that the policy admits.
ValidTargets(descriptor) ==
  /\ Cardinality(descriptor.ids) \in MinTargets..MaxTargets
  /\ descriptor.ids \subseteq TargetIds \cap descriptor.targets
=============================================================================
