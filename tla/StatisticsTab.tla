---------------------------- MODULE StatisticsTab ----------------------------
(***************************************************************************)
(* The statistics tab of woincqt (ui/qt/tabs/statistics_tab.cc): the state *)
(* it keeps (TabState), the list in which projects are selected            *)
(* (ProjectsWidget, a list widget of Qt) and the charts (ChartsWidget).    *)
(* They tell each other by signals that are delivered at once, so one call *)
(* of the event loop runs through all three: a project that is gone is     *)
(* taken off the list, which changes the selection, which redraws the      *)
(* charts, before the next one that is gone is looked at.                  *)
(*                                                                         *)
(* The operators take and return the state of the tab as one record.       *)
(* Projects are numbers in the order of their names, 0 is no project, and  *)
(* the daily statistics of a project are one number.                       *)
(***************************************************************************)
EXTENDS Integers, FiniteSets, FiniteSetsExt

VARIABLE tab

ViewModes == {"one", "separate", "together", "sum"}
\* Two of the four types, which differ in the column they pick only.
StatisticTypes == {"user_total", "host_avg"}
NoProject == 0

\* What TabState holds, the list (items, chosen, current), what the charts show
\* and whether something was looked up that is not there.
EmptyTab ==
  [projects |-> {}, stats |-> <<>>, type |-> "user_total", mode |-> "separate",
   one |-> NoProject, many |-> {},
   items |-> {}, chosen |-> {}, current |-> NoProject,
   charts |-> [mode |-> "separate", type |-> "user_total", stats |-> <<>>],
   failed |-> FALSE]

Only(f, S) == [x \in DOMAIN f \cap S |-> f[x]]

\* selected_projects()
SelectedProjects(s) ==
  IF s.mode # "one" THEN s.many ELSE IF s.one = NoProject THEN {} ELSE {s.one}

\* update_view_: the statistics of every selected project are looked up.
UpdateView(s) ==
  IF s.failed \/ ~(SelectedProjects(s) \subseteq DOMAIN s.stats) THEN [s EXCEPT !.failed = TRUE]
  ELSE [s EXCEPT !.charts = [mode |-> s.mode, type |-> s.type,
                             stats |-> Only(s.stats, SelectedProjects(s))]]

\* item_selection_changed_, change_project_selection and the charts behind it.
ItemSelectionChanged(s) ==
  UpdateView(IF s.mode # "one" THEN [s EXCEPT !.many = s.chosen]
             ELSE [s EXCEPT !.one = IF s.chosen = {} THEN NoProject
                                    ELSE CHOOSE p \in s.chosen : TRUE])

\* The item after p, or the one before it if p is the last.
Neighbour(items, p) ==
  LET after == {i \in items : i > p}
      before == {i \in items : i < p} IN
  IF after # {} THEN Min(after) ELSE IF before # {} THEN Max(before) ELSE NoProject

\* A list widget takes off an item.  If it is the current one the next becomes
\* current, and selected where only one can be; an item that is selected is
\* deselected while it is still there.
TakeOff(s, p) ==
  LET next == Neighbour(s.items, p)
      moved == s.current = p /\ s.mode = "one" /\ next # NoProject
      s1 == IF ~moved THEN s
            ELSE IF s.chosen = {next} THEN [s EXCEPT !.current = next]
            ELSE ItemSelectionChanged([s EXCEPT !.current = next, !.chosen = {next}])
      s2 == [s1 EXCEPT !.current = IF @ = p THEN next ELSE @, !.chosen = @ \ {p}]
      s3 == IF p \in s1.chosen THEN ItemSelectionChanged(s2) ELSE s2 IN
  [s3 EXCEPT !.items = @ \ {p}]

\* A project that is gone is not selected any more, in either kind of view.
Forget(s, p) ==
  [s EXCEPT !.one = IF @ = p THEN NoProject ELSE @, !.many = @ \ {p}]

\* Its item is taken off the list, then its statistics, if it still has any, are erased.
GoesAway(s, p) ==
  LET t == TakeOff(Forget(s, p), p) IN [t EXCEPT !.stats = Only(@, DOMAIN @ \ {p})]

\* One project after the other, in the order of their names.
AllGoAway(s, gone) ==
  LET after[p \in Nat] ==
        IF p = 0 THEN s ELSE IF p \in gone THEN GoesAway(after[p - 1], p) ELSE after[p - 1]
  IN after[Max({0} \cup gone)]

ProjectsUpdated(s, projects) ==
  AllGoAway([s EXCEPT !.projects = projects], DOMAIN s.stats \ projects)

\* update_statistics: all the statistics are replaced, then the projects that are gone
\* are taken off, which have none any more, then the new ones added.
StatisticsUpdated(s, statistics) ==
  LET stats == Only(statistics, s.projects)
      s1 == AllGoAway([s EXCEPT !.stats = stats], DOMAIN s.stats \ DOMAIN stats) IN
  UpdateView([s1 EXCEPT !.items = @ \cup DOMAIN stats])

\* Mutant: the list keeps its selection when the view changes.
ChangeViewModeOnly(s, mode) == UpdateView([s EXCEPT !.mode = mode])

\* change_view_mode: the charts first, then the list takes over the selection
\* that belongs to the view.
ChangeViewMode(s, mode) ==
  LET s1 == UpdateView([s EXCEPT !.mode = mode]) IN
  IF (s.mode = "one") = (mode = "one") THEN s1
  ELSE ItemSelectionChanged([s1 EXCEPT !.chosen = SelectedProjects(s1) \cap s1.items])

ChangeStatisticsType(s, type) == UpdateView([s EXCEPT !.type = type])

\* move_selection_, round the ends of the list.
MoveSelection(s, default, step) ==
  LET n == Cardinality(s.items)
      row(p) == Cardinality({i \in s.items : i < p})
      from == IF s.chosen = {} THEN default ELSE row(CHOOSE p \in s.chosen : TRUE) + step IN
  ItemSelectionChanged([s EXCEPT !.chosen = {p \in s.items : row(p) = (from + n) % n}])

\* The user clicks an item: it alone is selected, or selected as well, or not
\* any more.
ClickItem(s, p) ==
  LET chosen == IF s.mode = "one" THEN {p}
                ELSE IF p \in s.chosen THEN s.chosen \ {p} ELSE s.chosen \cup {p} IN
  IF chosen = s.chosen THEN [s EXCEPT !.current = p]
  ELSE ItemSelectionChanged([s EXCEPT !.current = p, !.chosen = chosen])

-----------------------------------------------------------------------------
(* What the user does on the tab; the buttons that would change nothing are *)
(* disabled.                                                               *)

PressViewMode == \E mode \in ViewModes \ {tab.mode} : tab' = ChangeViewMode(tab, mode)

PressType == \E type \in StatisticTypes \ {tab.type} : tab' = ChangeStatisticsType(tab, type)

PressPreviousOrNext ==
  /\ tab.mode = "one"
  /\ \/ tab' = MoveSelection(tab, -1, -1)
     \/ tab' = MoveSelection(tab, 0, 1)

ClickProject == \E p \in tab.items : tab' = ClickItem(tab, p)

UserOnStatistics ==
  /\ ~tab.failed
  /\ PressViewMode \/ PressType \/ PressPreviousOrNext \/ ClickProject

-----------------------------------------------------------------------------
\* The list, the selection and the charts of the statistics tab agree whenever
\* the event loop is back: every project with statistics is listed, the items
\* selected are the selection of the present view, and the charts show the
\* statistics of just these as they were received last.
ChartsShowSelection ==
  tab.failed \/
  /\ tab.items = DOMAIN tab.stats
  /\ tab.chosen = SelectedProjects(tab)
  /\ tab.charts = [mode |-> tab.mode, type |-> tab.type, stats |-> Only(tab.stats, tab.chosen)]

\* The assertions in selected_projects and change_project_selection: what is
\* selected has statistics.
SelectedHaveStatistics == ~tab.failed
=============================================================================
