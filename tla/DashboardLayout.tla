---------------------------- MODULE DashboardLayout ----------------------------
(***************************************************************************)
(* How the comparison plug-in lays out the panels of the generated         *)
(* dashboard and scopes their queries (dashboard.ts, scene.ts).            *)
(*                                                                         *)
(* A panel is [type, queries, panels]: its queries, or NoQueries, and the  *)
(* panels of a row.  A query is the sequence of the pieces of its          *)
(* expression, which may hold EndpointVariable any number of times.        *)
(* Titles, options, transformations and the grid are left out.             *)
(***************************************************************************)
EXTENDS Naturals, Sequences, SequencesExt

CONSTANTS
  PanelLists,        \* the lists of panels of the dashboards and of their rows
  EndpointVariable,  \* the piece that stands for the targets of a group
  NoType, NoQueries

Panels == UNION {Range(list) : list \in PanelLists}

\* The lists that the rows of a list hold.
RowLists(list) == {list[n].panels : n \in {i \in DOMAIN list : list[i].type = "row"}}

\* A dashboard is JSON, a finite tree: no list of panels is within itself.
ASSUME LayoutAssumption ==
  /\ PanelLists \subseteq Seq(Panels)
  /\ \A list \in PanelLists : RowLists(list) \subseteq PanelLists
  /\ \A some \in (SUBSET PanelLists) \ {{}} : \E list \in some : RowLists(list) \cap some = {}

\* An item of the layout is a panel on its own or a row with its panels.
AloneItem(panel) == [kind |-> "panel", panels |-> <<panel>>]
RowItem(panels) == [kind |-> "row", panels |-> panels]

IsVisual(panel) == panel.type \notin {"row", NoType} /\ panel.queries # NoQueries

\* Defect: a panel after a row is taken for one that stands alone and lost.
DropAfterRow(output, panel, nested) ==
  IF panel.type = "row" THEN Append(output, RowItem(nested))
  ELSE IF ~IsVisual(panel) \/ (output # << >> /\ Last(output).kind = "row") THEN output
  ELSE Append(output, AloneItem(panel))

\* A row is followed by rows only, so the current row is the last item.
AddPanel(output, panel, nested) ==
  IF panel.type = "row" THEN Append(output, RowItem(nested))
  ELSE IF ~IsVisual(panel) THEN output
  ELSE IF output # << >> /\ Last(output).kind = "row"
       THEN [output EXCEPT ![Len(output)].panels = Append(@, panel)]
  ELSE Append(output, AloneItem(panel))

PanelsOfItems(items) == FlattenSeq([i \in DOMAIN items |-> items[i].panels])

\* The panels to put in the row that each panel of a list opens.
RowPanels(list, panelsOf) ==
  [n \in DOMAIN list |-> IF list[n].type = "row" THEN panelsOf[list[n].panels] ELSE << >>]

\* The loop of dashboardLayout: the output after each of the panels.
OutputAfter(list, nested) ==
  LET output[n \in 0..Len(list)] ==
        IF n = 0 THEN << >> ELSE AddPanel(output[n - 1], list[n], nested[n])
  IN  output

\* visualPanels: the panels of the layout of a list, without the rows.
VisualPanels[list \in PanelLists] ==
  PanelsOfItems(OutputAfter(list, RowPanels(list, VisualPanels))[Len(list)])

Layout(list) == OutputAfter(list, RowPanels(list, VisualPanels))[Len(list)]

\* The regular expression of the targets is the set of them.
ScopedQueries(panel, targets) ==
  [q \in DOMAIN panel.queries |->
     [i \in DOMAIN panel.queries[q] |->
        IF panel.queries[q][i] = EndpointVariable THEN targets ELSE panel.queries[q][i]]]

BuildPanel(panel, group) ==
  [type |-> panel.type, queries |-> ScopedQueries(panel, group.targets)]

BuildGroupScene(list, group) ==
  [timeRange     |-> group.range,
   children      |-> [i \in DOMAIN Layout(list) |->
                        [j \in DOMAIN Layout(list)[i].panels |->
                           BuildPanel(Layout(list)[i].panels[j], group)]],
   timePicker    |-> group.key.mode = "global",
   refreshPicker |-> group.key.mode # "absolute"]

-----------------------------------------------------------------------------
(***************************************************************************)
(* The reference the layout is checked against: the visual panels of a     *)
(* list in the order of the document, the rows opened.                     *)
(***************************************************************************)
InDocumentOrder[list \in PanelLists] ==
  FlattenSeq([n \in DOMAIN list |->
                IF list[n].type = "row" THEN InDocumentOrder[list[n].panels]
                ELSE IF IsVisual(list[n]) THEN <<list[n]>>
                ELSE << >>])
=============================================================================
