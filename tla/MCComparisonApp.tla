---------------------------- MODULE MCComparisonApp ----------------------------
(***************************************************************************)
(* An instance of ComparisonApp for TLC: a comparison of one target, with  *)
(* two or three lanes, and one of two targets, on a scale on which a       *)
(* minute is 2, an hour 4 and a day 8.                                     *)
(***************************************************************************)
EXTENDS ComparisonApp, TLC

CONSTANTS T1, T2, Malformed, Token, Text, Other

MCRelative == {"now-5m", "now-1h"}

\* Panels: two before any row, a row with a row in it, panels after the row, one
\* of them a text panel, and a row of its own.
Panel(type, queries) == [type |-> type, queries |-> queries, panels |-> << >>]
Row(panels) == [type |-> "row", queries |-> NoQueries, panels |-> panels]
Once == <<<<Text, Token, Other>>>>
Twice == <<<<Token, Text, Token>>, <<Other>>>>
Inner == <<Panel("stat", Once)>>
Nested == <<Panel("timeseries", Twice), Row(Inner), Panel("table", Once)>>
Top == <<Panel("gauge", Once), Panel("text", NoQueries), Row(Nested),
         Panel("timeseries", Twice), Panel(NoType, Once), Row(<< >>), Panel("stat", Twice)>>
MCPanelLists == {<< >>, Inner, Nested, Top}

Descriptor(version, ids, targets) ==
  [version |-> version, ids |-> ids, targets |-> targets, panels |-> Top]

\* Ready, in the earlier schema, not described yet, and with a malformed identifier.
Held(ids) ==
  {Descriptor(2, ids, ids), Descriptor(1, ids, ids), Descriptor(2, ids, {}),
   Descriptor(2, ids \cup {Malformed}, ids \cup {Malformed})}
MCDescribed == "one" :> Held({T1}) @@ "two" :> Held({T1, T2})

Location(uid, from, count, ranges) ==
  [uid |-> uid, window |-> from, lanes |-> count, ranges |-> ranges]
L(k) == <<T1, k>>

\* Fresh links, a bookmark, and URLs whose state is out of bounds: a number of
\* lanes, a range that is reversed, too long, not safe or not a range, too many
\* ranges, and one beyond the range of Date.
MCUrls ==
  {Location("none", NoWindow, 0, << >>),
   Location("two", NoWindow, 0, << >>),
   Location("two", "w2", 0, <<T2, 0>> :> <<"a", 3, 7>>),
   Location("one", NoWindow, 0, << >>),
   Location("one", "w2", 3, L(1) :> <<"r", "now-5m">> @@ L(3) :> <<"a", 3, 7>>),
   Location("one", NoWindow, 9, L(1) :> <<"a", 14, 2>> @@ L(2) :> <<"a", 1, 14>>),
   Location("one", NoWindow, 2, L(1) :> <<"x">> @@ L(2) :> <<"a", 16, 20>>),
   Location("one", NoWindow, 3,
            L(1) :> <<"r", "now-5m">> @@ L(2) :> <<"r", "now-1h">> @@ L(3) :> <<"a", 3, 7>>)}
MCFarUrls ==
  {Location("one", NoWindow, 2, L(1) :> <<"r", "now-5m">> @@ L(2) :> <<"a", 14, 16>>)}
MCAllUrls == MCUrls \cup MCFarUrls
=============================================================================
