-------------------------------- MODULE Tabs --------------------------------
(***************************************************************************)
(* The tabs that list tasks, projects, file transfers or events: the table *)
(* model, the view with the user's selection, and the panel with the       *)
(* buttons that act on it (ui/qt/tabs/*_tab.cc).  One of them at a time;   *)
(* they have the same parts, wired a little differently.                   *)
(*                                                                         *)
(* The tab hears from the model handler only: host_selected, and then that *)
(* host's rows, until host_unselected.  The signals are direct calls, so   *)
(* nothing of the user happens between a host_unselected and the empty     *)
(* list that follows it; `todo' holds what is left to be delivered.        *)
(***************************************************************************)
EXTENDS TabModelUpdater

CONSTANTS
  Hosts,
  Tabs,        \* the tabs to look at: a subset of TabKinds
  MaxRows,     \* bound: rows of a list
  MaxUpdates,  \* bound: lists sent to the tab
  MaxEvents    \* MAX_NUM_EVENTS, 2000 in the code

TabKinds == {"tasks", "projects", "transfers", "events"}

ASSUME TabsAssumption ==
  /\ Tabs \subseteq TabKinds
  /\ {MaxRows, MaxUpdates, MaxEvents} \subseteq Nat
  /\ Values \subseteq [suspended : BOOLEAN]
  /\ Hidden \subseteq [host : Hosts, cpu : Nat]

NoHost == "no host"

VARIABLES
  tab,        \* the tab looked at
  selected,   \* model handler: selected_host_
  host,       \* the tab's own selected_host_: panel of the transfers, else the model
  todo,       \* signals of the model handler still to be delivered
  panel,      \* panel: the selected rows it acts on
  hasRows,    \* transfers panel: has_transfers_
  question,   \* the rows an "are you sure" box is open for
  sent,       \* history: the last command sent
  picked,     \* history: keys the user selected that have been in the list since
  updates     \* history: number of lists sent

tabVars == <<tab, selected, host, todo, panel, hasRows, question, sent, picked, updates>>
vars == <<updaterVars, tabVars>>

Item == [key : Keys, host : Hosts \cup {NoHost}, suspended : BOOLEAN]

Keyed(s) == {s[k].key : k \in 1..Len(s)}

SelectedRows == {k \in 1..Len(view) : view[k].selected}

Init ==
  /\ UpdaterInit
  /\ tab \in Tabs
  /\ selected = NoHost
  /\ host = NoHost
  /\ todo = <<>>
  /\ panel = {}
  /\ hasRows = FALSE
  /\ question = {}
  /\ sent = {}
  /\ picked = {}
  /\ updates = 0

-----------------------------------------------------------------------------
(* The panel.                                                              *)

\* What the panel keeps of the selected rows.  Tasks are copied with their host.
TaskItems(R, data) ==
  {[key |-> data[k].key, host |-> data[k].hidden.host, suspended |-> data[k].value.suspended] : k \in R}

\* Projects get the host of the model.
ProjectItems(R, data, h) ==
  {[key |-> data[k].key, host |-> h, suspended |-> data[k].value.suspended] : k \in R}

\* Transfers are project and file only, the panel knows the host.
TransferItems(R, data) == {[key |-> data[k].key, host |-> host, suspended |-> FALSE] : k \in R}

ItemsOf(R, data, h) ==
  CASE tab = "tasks" -> TaskItems(R, data)
    [] tab = "projects" -> ProjectItems(R, data, h)
    [] OTHER -> TransferItems(R, data)

\* Mutant: the numbers are looked up in the rows as they will be.
PanelFromNextRows(R) == ItemsOf({k \in R : k <= Len(rows')}, rows', host)

\* The view's selectionChanged and what is connected to it.
PanelFromView(R) == ItemsOf(R, rows, host)

AllSuspended(value) == \A i \in panel : i.suspended = value

\* update_selected_tasks: suspend or resume are offered only if all rows agree.
TasksOffer(op) ==
  CASE op = "suspend" -> AllSuspended(FALSE)
    [] op = "resume" -> AllSuspended(TRUE)
    [] op = "abort" -> TRUE
    [] op = "update" -> FALSE

\* update_selected_projects; update stands for reset and remove too.
ProjectsOffer(op) ==
  CASE op = "suspend" -> AllSuspended(FALSE)
    [] op = "resume" -> AllSuspended(TRUE)
    [] op = "abort" -> FALSE
    [] op = "update" -> TRUE

\* Both buttons of the transfers have the same condition; update is their retry.
TransfersOffer(op) == op \in {"abort", "update"} /\ hasRows

Offered(op) ==
  /\ panel # {}
  /\ CASE tab = "tasks" -> TasksOffer(op)
       [] tab = "projects" -> ProjectsOffer(op)
       [] tab = "transfers" -> TransfersOffer(op)

-----------------------------------------------------------------------------
(* Signals of the model handler.                                           *)

Idle == todo = <<>> /\ ~merging

\* Transfers and events can not be suspended, and only a task has numbers that its tab
\* does not show (cpu stands for them: CPU times, memory, the slot it runs in; as a bound they are the
\* same in all rows of a list).
RowsOf(h) ==
  UNION {[1..n -> {r \in Row : /\ r.hidden = shared
                               /\ tab \in {"transfers", "events"} => ~r.value.suspended}]
           : n \in 0..MaxRows,
             shared \in {d \in Hidden : d.host = h /\ (tab # "tasks" => d.cpu = 0)}}

Sorted(s) == \A j, k \in 1..Len(s) : j < k => s[j].key < s[k].key

\* The lists the model handler sends: tasks and projects are sorted by it, messages
\* come in the order of their numbers, but transfers as the BOINC client lists them.
Lists(h) == {s \in RowsOf(h) : IF tab = "transfers"
                                 THEN \A j, k \in 1..Len(s) : j # k => s[j].key # s[k].key
                                 ELSE Sorted(s)}

\* ModelHandler::select_host_ and unselect_host_, as far as a tab hears of them.
SelectHost(h) ==
  /\ Idle
  /\ selected = NoHost
  /\ updates < MaxUpdates
  /\ selected' = h
  /\ todo' = << [signal |-> "host_selected", data |-> <<>>] >>
  /\ UNCHANGED <<updaterVars, tab, host, panel, hasRows, question, sent, picked, updates>>

UnselectHost ==
  /\ Idle
  /\ selected # NoHost
  /\ selected' = NoHost
  /\ todo' = << [signal |-> "host_unselected", data |-> <<>>],
                [signal |-> "updated", data |-> <<>>] >>
  /\ UNCHANGED <<updaterVars, tab, host, panel, hasRows, question, sent, picked, updates>>

\* A list of the selected host; the events of one list continue those before it.
SendRows ==
  /\ Idle
  /\ selected # NoHost
  /\ updates < MaxUpdates
  /\ updates' = updates + 1
  /\ \E data \in Lists(selected) :
       /\ tab = "events" => \A a \in Keyed(data), b \in Keyed(rows) : a > b
       /\ todo' = << [signal |-> "updated", data |-> data] >>
  /\ UNCHANGED <<updaterVars, tab, selected, host, panel, hasRows, question, sent, picked>>

-----------------------------------------------------------------------------
(* Slots of the tab.                                                       *)

\* select_host and unselect_host of the tasks and projects models: the rows go.
ListChangesHost ==
  /\ Clear(<<>>)
  /\ panel' = {}
  /\ picked' = {}
  /\ UNCHANGED hasRows

\* The transfers panel forgets its selection, the view does not.
TransfersChangeHost ==
  /\ panel' = {}
  /\ hasRows' = FALSE
  /\ UNCHANGED <<updaterVars, picked>>

\* The events model clears its rows and then appends nothing to them, which
\* announces nothing.
EventsChangeHost ==
  /\ rows' = <<>>
  /\ new' = <<>>
  /\ UNCHANGED <<ci, ni, merging, view, panel, hasRows, picked>>

HostChanged(signal) ==
  /\ todo # <<>> /\ ~merging
  /\ Head(todo).signal = signal
  /\ todo' = Tail(todo)
  /\ host' = IF signal = "host_selected" THEN selected ELSE NoHost
  /\ CASE tab \in {"tasks", "projects"} -> ListChangesHost
       [] tab = "transfers" -> TransfersChangeHost
       [] tab = "events" -> EventsChangeHost
  /\ UNCHANGED <<tab, selected, question, sent, updates>>

\* append_events: only the last MaxEvents of the old and the new events are kept.
WithNewEvents(data) ==
  LET all == rows \o data
  IN SubSeq(all, IF Len(all) > MaxEvents THEN Len(all) - MaxEvents + 1 ELSE 1, Len(all))

\* update_tasks, update_projects, update and append_events begin.
UpdateBegins ==
  /\ todo # <<>> /\ ~merging
  /\ Head(todo).signal = "updated"
  /\ LET data == IF tab = "events" THEN WithNewEvents(Head(todo).data) ELSE Head(todo).data
     IN /\ \/ Start(data) /\ panel' = panel
           \/ Clear(data) /\ panel' = {}
        /\ hasRows' = (tab = "transfers" /\ data # <<>>)
        /\ picked' = picked \cap Keyed(data)
  /\ todo' = IF merging' THEN todo ELSE Tail(todo)
  /\ UNCHANGED <<tab, selected, host, question, sent, updates>>

\* Rows are removed.  If one of them was selected the selection changes and the
\* panel is told, before the rows are erased.
UpdateRemoves ==
  /\ RemoveRest \/ \E n \in 1..Len(rows) : Remove(n)
  /\ LET gone == {k \in SelectedRows : ci <= k /\ k < ci + Len(rows) - Len(rows')}
     IN panel' = IF gone # {} THEN PanelFromView(SelectedRows \ gone) ELSE panel
  /\ UNCHANGED <<tab, selected, host, todo, hasRows, question, sent, picked, updates>>

UpdateWrites ==
  /\ Update \/ InsertNew
  /\ UNCHANGED tabVars

\* tasks_updated and projects_updated make the view tell its selection again.
UpdateEnds ==
  /\ Finish
  /\ todo' = Tail(todo)
  /\ panel' = IF tab \in {"tasks", "projects"}
                THEN ItemsOf({k \in 1..Len(view') : view'[k].selected}, rows', host)
                ELSE panel
  /\ UNCHANGED <<tab, selected, host, hasRows, question, sent, picked, updates>>

-----------------------------------------------------------------------------
(* The user.                                                               *)

\* Mutant: the question does not keep the user from the list.
UserSelectsMeanwhile(S) ==
  /\ Idle
  /\ tab # "events"
  /\ Select(S)
  /\ panel' = PanelFromView(S)
  /\ picked' = {rows[k].key : k \in S}
  /\ UNCHANGED <<tab, selected, host, todo, hasRows, question, sent, updates>>

\* The events can not be selected.
UserSelects(S) ==
  /\ Idle
  /\ question = {}
  /\ tab # "events"
  /\ Select(S)
  /\ panel' = PanelFromView(S)
  /\ picked' = {rows[k].key : k \in S}
  /\ sent' = {}
  /\ UNCHANGED <<tab, selected, host, todo, hasRows, question, updates>>

Command(op, items) == {[op |-> op, item |-> i] : i \in items}

\* Tasks and projects are sent with their own host.
PanelSends(op) == Command(op, panel)

\* Transfers are sent with the panel's host.
TransfersSend(op) == Command(op, {[i EXCEPT !.host = host] : i \in panel})

Sent(op) == IF tab = "transfers" THEN TransfersSend(op) ELSE PanelSends(op)

Click(op) ==
  /\ Idle
  /\ question = {}
  /\ Offered(op)
  /\ IF op = "abort"
       THEN question' = panel /\ UNCHANGED sent
       ELSE sent' = Sent(op) /\ UNCHANGED question
  /\ UNCHANGED <<updaterVars, tab, selected, host, todo, panel, hasRows, picked, updates>>

\* The box runs its own event loop: lists go on arriving while it is open, and a
\* yes acts on what is selected then.
Answer(yes) ==
  /\ Idle
  /\ question # {}
  /\ question' = {}
  /\ sent' = IF yes THEN Sent("abort") ELSE {}
  /\ UNCHANGED <<updaterVars, tab, selected, host, todo, panel, hasRows, picked, updates>>

Next ==
  \/ \E h \in Hosts : SelectHost(h)
  \/ UnselectHost
  \/ SendRows
  \/ HostChanged("host_selected")
  \/ HostChanged("host_unselected")
  \/ UpdateBegins
  \/ UpdateRemoves
  \/ UpdateWrites
  \/ UpdateEnds
  \/ \E S \in SUBSET (1..Len(rows)) : UserSelects(S)
  \/ \E op \in {"suspend", "resume", "abort", "update"} : Click(op)
  \/ \E yes \in BOOLEAN : Answer(yes)

Spec == Init /\ [][Next]_vars

-----------------------------------------------------------------------------

TypeOK ==
  /\ UpdaterTypeOK
  /\ tab \in Tabs
  /\ {selected, host} \subseteq Hosts \cup {NoHost}
  /\ Len(todo) <= 2
  /\ panel \subseteq Item
  /\ hasRows \in BOOLEAN
  /\ question \subseteq Item
  /\ picked \subseteq Keys
  /\ \A c \in sent : c.item \in Item
  /\ updates \in 0..MaxUpdates

\* A list keeps the selection of the user through every update: what is selected is
\* what the user selected and has been in the list ever since, no matter which rows
\* were put in or taken out around it.  A transfer may lose the selection, because
\* the list is not sorted, but no other transfer gets it.
SelectionIsTheUsers ==
  ~merging => LET marked == {rows[k].key : k \in SelectedRows \cap 1..Len(rows)}
              IN IF tab = "transfers" THEN marked \subseteq picked ELSE marked = picked

\* What the buttons act on is what is selected, of the host that is shown; for
\* tasks and projects it is also as new as the list.
PanelActsOnSelection ==
  Idle /\ tab # "events" =>
    /\ {i.key : i \in panel} = {rows[k].key : k \in SelectedRows}
    /\ \A i \in panel : i.host = selected
    /\ tab # "transfers" => panel = ItemsOf(SelectedRows, rows, host)

\* Only what the user was asked about is aborted, of the host it was on, even if
\* lists or another host arrive while the question is open.
AbortsOnlyWhatWasConfirmed ==
  [][\A c \in sent' \ sent :
       c.op = "abort" => \E i \in question : i.key = c.item.key /\ i.host = c.item.host]_vars

\* The view of a list knows exactly the rows that are there, see ViewKnowsTheRows.
\* Not so in the events tab, which clears its rows without a word to the view when
\* a host is selected or unselected (EventsChangeHost).
ListsViewKnowsTheRows == tab # "events" => ViewKnowsTheRows
=============================================================================
