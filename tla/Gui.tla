--------------------------------- MODULE Gui ---------------------------------
(***************************************************************************)
(* woincqt at work: BOINC clients that change, the periodic jobs of libui  *)
(* that fetch from them, the event loop of the GUI thread with the slots   *)
(* of the model (ModelHandler), of the Qt controller                       *)
(* (ui/qt/controller.cc 273-429) and of the statistics tab                 *)
(* (StatisticsTab), and the user who adds hosts and shuts clients down.    *)
(*                                                                         *)
(* Of libui only the order of things is kept: one worker per host runs one *)
(* job after the other; a job that was asked for while it ran is forgotten *)
(* (PeriodicTasks); a host is removed by a thread of its own, after its    *)
(* worker (Controller).                                                    *)
(***************************************************************************)
EXTENDS ModelHandler, StatisticsTab, SequencesExt

CONSTANTS
  Scenarios      \* what is looked at together, see GuiInit

ASSUME ScenarioAssumption ==
  \A s \in Scenarios : s.hosts \subseteq Hosts /\ s.projects \cup s.attached \subseteq Projects

Frequent == Kinds \ {"client_state"}

VARIABLES
  scenario,      \* the scenario of this behaviour; never changes
  client,        \* what each BOINC client knows
  changes,       \* how often the clients changed and the user acted on the tab
  host,          \* off, connecting, failed, connected (it has a worker) or leaving
  enabled,       \* the hosts whose periodic tasks are scheduled
  attempts,      \* how often a host was added
  due, pending,  \* the periodic tasks of each host, as in PeriodicTasks
  jobs,          \* the queue of the host's jobs
  running,       \* the periodic task its worker has to settle
  fetched,       \* messages_seqno and notices_seqno, as one number
  logins,        \* pending_logins_: the passwords of each host, in their order
  entered,       \* the password each host was added with last
  used,          \* the credentials taken to authorize it, and why they may be others
  leftover,      \* hosts of which an earlier attempt left a login behind
  blocked,       \* the host whose answer to quit the GUI thread waits for
  answer,        \* that answer
  down,          \* the controller is shut down
  crashed        \* an exception left a slot or a thread

libVars == <<host, enabled, due, pending, jobs, running, fetched>>
loginVars == <<attempts, logins, entered, used, leftover>>
endVars == <<blocked, answer, down, crashed>>
guiVars == <<modelVars, tab, endVars>>
vars == <<scenario, client, changes, libVars, loginVars, guiVars>>

\* The order of the tasks in the scheduler's array.
TaskOrder == <<"cc_status", "client_state", "disk_usage", "file_transfers", "messages",
               "notices", "projects", "statistics", "tasks">>

Unused == [password |-> "", excused |-> FALSE]
Periodic(kind) == [kind |-> kind, password |-> ""]
Authorization(password) == [kind |-> "authorize", password |-> password]

\* What a client knows: its projects with their flags, the tasks of some of
\* them, their credit, its modes, transfers and how much it logged.
NewClient ==
  [projects |-> [p \in scenario.attached |-> {}], tasks |-> <<>>,
   credit |-> [p \in scenario.attached |-> 0], modes |-> HostModel.modes,
   transfers |-> <<>>, logged |-> 0]

GuiInit ==
  /\ Init /\ tab = EmptyTab
  /\ scenario \in Scenarios
  /\ client = [h \in Hosts |-> NewClient] /\ changes = 0
  /\ host = [h \in Hosts |-> "off"] /\ attempts = 0
  /\ enabled = {} /\ due = [h \in Hosts |-> {}] /\ pending = due
  /\ jobs = [h \in Hosts |-> <<>>] /\ running = [h \in Hosts |-> "none"]
  /\ fetched = [h \in Hosts |-> 0]
  /\ logins = [h \in Hosts |-> <<>>] /\ leftover = {}
  /\ entered = [h \in Hosts |-> ""] /\ used = [h \in Hosts |-> Unused]
  /\ blocked = NoHost /\ answer = "none" /\ down = FALSE /\ crashed = FALSE

-----------------------------------------------------------------------------
(* The BOINC clients.                                                      *)

Changed(h, name) ==
  /\ name \in scenario.changes /\ changes < scenario.maxChanges
  /\ changes' = changes + 1
  /\ UNCHANGED <<scenario, libVars, loginVars, guiVars>>

\* f with the value v for x.
With(f, x, v) == [y \in DOMAIN f \cup {x} |-> IF y = x THEN v ELSE f[y]]

Attach(h, p) ==
  /\ Changed(h, "projects")
  /\ p \notin DOMAIN client[h].projects
  /\ client' = [client EXCEPT ![h].projects = With(@, p, {}), ![h].credit = With(@, p, 0)]

Detach(h, p) ==
  /\ Changed(h, "projects")
  /\ p \in DOMAIN client[h].projects
  /\ LET rest == DOMAIN client[h].projects \ {p} IN
     client' = [client EXCEPT ![h].projects = Only(@, rest), ![h].credit = Only(@, rest),
                              ![h].tasks = Only(@, rest)]

TaskChanges(h, p) ==
  /\ Changed(h, "tasks")
  /\ p \in DOMAIN client[h].projects
  /\ \/ \E t \in scenario.tasks :
          client' = [client EXCEPT ![h].tasks = With(@, p, t)]
     \/ client' = [client EXCEPT ![h].tasks = Only(@, DOMAIN @ \ {p})]

ModesChange(h) ==
  /\ Changed(h, "modes")
  /\ \E modes \in scenario.modes : client' = [client EXCEPT ![h].modes = modes]

OthersChange(h) ==
  \/ /\ Changed(h, "credit")
     /\ \E p \in DOMAIN client[h].credit : client' = [client EXCEPT ![h].credit[p] = 1 - @]
  \/ /\ Changed(h, "flags")
     /\ \E p \in DOMAIN client[h].projects, flag \in Range(ProjectRemarks) :
          client' = [client EXCEPT ![h].projects[p] = {flag}]
  \/ /\ Changed(h, "transfers")
     /\ \E t \in scenario.transfers : client' = [client EXCEPT ![h].transfers = <<t>>]
  \/ /\ Changed(h, "news")
     /\ client' = [client EXCEPT ![h].logged = @ + 1]

ClientChanges ==
  \E h \in scenario.hosts :
    \/ \E p \in scenario.projects : Attach(h, p) \/ Detach(h, p) \/ TaskChanges(h, p)
    \/ ModesChange(h) \/ OthersChange(h)

\* What it answers.  News are what was not fetched before.
Answer(h, kind) ==
  LET c == client[h] IN
  CASE kind = "cc_status" -> c.modes
    [] kind = "client_state" ->
         [projects |-> c.projects, wus |-> DOMAIN c.tasks, tasks |-> c.tasks]
    [] kind \in {"disk_usage", "projects"} -> c.projects
    [] kind = "statistics" -> c.credit
    [] kind = "tasks" -> c.tasks
    [] kind = "file_transfers" -> c.transfers
    [] kind \in {"messages", "notices"} ->
         [k \in 1..(c.logged - fetched[h]) |-> [host |-> h, number |-> fetched[h] + k]]

-----------------------------------------------------------------------------
(* libui: connecting, the scheduler and the worker of a host.              *)

Post(event) == events' = Append(events, event)
Room == Len(events) < scenario.maxEvents

Connected(h) ==
  /\ host[h] = "connecting" /\ Room
  /\ host' = [host EXCEPT ![h] = "connected"]
  /\ Post(ToController("connected", h))
  /\ UNCHANGED <<scenario, client, changes, enabled, due, pending, jobs, running, fetched, loginVars,
                 models, selected, shown, tab, endVars>>

\* There is no worker; the host waits for its removal.
ConnectFails(h) ==
  /\ "failures" \in scenario.changes
  /\ host[h] = "connecting" /\ Room
  /\ host' = [host EXCEPT ![h] = "failed"]
  /\ Post(ToController("error", h))
  /\ UNCHANGED <<scenario, client, changes, enabled, due, pending, jobs, running, fetched, loginVars,
                 models, selected, shown, tab, endVars>>

\* The interval has passed, the same for all tasks but the client state, for
\* which it is an hour.
IntervalPasses(h) ==
  /\ host[h] = "connected" /\ h \in enabled
  /\ ~(scenario.kinds \cap Frequent \subseteq due[h])
  /\ due' = [due EXCEPT ![h] = @ \cup (scenario.kinds \cap Frequent)]
  /\ UNCHANGED <<scenario, client, changes, host, enabled, pending, jobs, running, fetched,
                 loginVars, guiVars>>

SchedulerPass(h) ==
  LET queued == SelectSeq(TaskOrder, LAMBDA k : k \in due[h] \ pending[h]) IN
  /\ h \in enabled /\ host[h] = "connected" /\ queued # <<>>
  /\ pending' = [pending EXCEPT ![h] = @ \cup due[h]]
  /\ jobs' = [jobs EXCEPT ![h] = @ \o [k \in DOMAIN queued |-> Periodic(queued[k])]]
  /\ UNCHANGED <<scenario, client, changes, host, enabled, due, running, fetched, loginVars, guiVars>>

\* The worker runs a periodic job and tells the handlers.
RunPeriodic(h) ==
  /\ host[h] \in {"connected", "leaving"} /\ running[h] = "none" /\ Room
  /\ jobs[h] # <<>> /\ Head(jobs[h]).kind \in Kinds
  /\ LET kind == Head(jobs[h]).kind IN
     /\ running' = [running EXCEPT ![h] = kind]
     /\ fetched' = IF kind \in {"messages", "notices"}
                   THEN [fetched EXCEPT ![h] = client[h].logged] ELSE fetched
     /\ Post(ToModel(kind, h, Answer(h, kind)))
  /\ jobs' = [jobs EXCEPT ![h] = Tail(@)]
  /\ UNCHANGED <<scenario, client, changes, host, enabled, due, pending, loginVars,
                 models, selected, shown, tab, endVars>>

\* handle_post_execution: what was asked for in the meantime is forgotten.
PostExecution(h) ==
  /\ running[h] # "none"
  /\ running' = [running EXCEPT ![h] = "none"]
  /\ due' = [due EXCEPT ![h] = @ \ {running[h]}]
  /\ pending' = [pending EXCEPT ![h] = @ \ {running[h]}]
  /\ UNCHANGED <<scenario, client, changes, host, enabled, jobs, fetched, loginVars, guiVars>>

\* The connection is lost: a periodic job or the authorization fails.
JobFails(h) ==
  /\ "failures" \in scenario.changes
  /\ host[h] = "connected" /\ running[h] = "none" /\ Room
  /\ jobs[h] # <<>> /\ Head(jobs[h]).kind # "quit"
  /\ jobs' = [jobs EXCEPT ![h] = Tail(@)]
  /\ pending' = [pending EXCEPT ![h] = @ \ {Head(jobs[h]).kind}]
  /\ due' = [due EXCEPT ![h] = @ \ {Head(jobs[h]).kind}]
  /\ Post(ToController("error", h))
  /\ UNCHANGED <<scenario, client, changes, host, enabled, running, fetched, loginVars,
                 models, selected, shown, tab, endVars>>

\* The client takes or refuses the password.
Authorize(h) ==
  /\ host[h] \in {"connected", "leaving"} /\ running[h] = "none" /\ Room
  /\ jobs[h] # <<>> /\ Head(jobs[h]).kind = "authorize"
  /\ jobs' = [jobs EXCEPT ![h] = Tail(@)]
  /\ \/ Post(ToController("authorized", h))
     \/ "failures" \in scenario.changes /\ Post(ToController("authorization_failed", h))
  /\ UNCHANGED <<scenario, client, changes, host, enabled, due, pending, running, fetched,
                 loginVars, models, selected, shown, tab, endVars>>

\* Mutant: a job that fails leaves its promise alone.
RunQuitForgetsFailure(h) ==
  /\ host[h] \in {"connected", "leaving"} /\ running[h] = "none"
  /\ jobs[h] # <<>> /\ Head(jobs[h]).kind = "quit"
  /\ jobs' = [jobs EXCEPT ![h] = Tail(@)]
  /\ answer' \in {"taken", "refused", "none"}
  /\ UNCHANGED <<scenario, client, changes, host, enabled, due, pending, running, fetched,
                 loginVars, modelVars, tab, blocked, down, crashed>>

\* The client answers quit: it takes it, refuses it, or the job fails, which
\* the promise hands on as an exception.
RunQuit(h) ==
  /\ host[h] \in {"connected", "leaving"} /\ running[h] = "none"
  /\ jobs[h] # <<>> /\ Head(jobs[h]).kind = "quit"
  /\ jobs' = [jobs EXCEPT ![h] = Tail(@)]
  /\ answer' \in {"taken", "refused", "exception"}
  /\ UNCHANGED <<scenario, client, changes, host, enabled, due, pending, running, fetched,
                 loginVars, modelVars, tab, blocked, down, crashed>>

WorkerStep(h) == RunPeriodic(h) \/ PostExecution(h) \/ Authorize(h) \/ RunQuit(h)

\* Mutant: the model is told first, then the worker is joined.
RemovedBeforeItsWorker(h) ==
  /\ host[h] = "leaving" /\ ~down /\ Room
  /\ IF running[h] # "none" \/ jobs[h] # <<>>
     THEN UNCHANGED <<host, enabled, due, pending, jobs, fetched, answer>>
     ELSE /\ host' = [host EXCEPT ![h] = "off"]
          /\ enabled' = enabled \ {h}
          /\ due' = [due EXCEPT ![h] = {}] /\ pending' = [pending EXCEPT ![h] = {}]
          /\ fetched' = [fetched EXCEPT ![h] = 0]
          /\ UNCHANGED <<jobs, answer>>
  /\ Post(ToModel("removed", h, {}))
  /\ UNCHANGED <<scenario, client, changes, running, loginVars, models, selected, shown, tab,
                 blocked, down, crashed>>

\* The thread of async_remove_host: the worker is joined, the jobs are dropped
\* and the model is told.  Dropping the quit job breaks its promise.
Removed(h) ==
  /\ host[h] = "leaving" /\ running[h] = "none" /\ ~down
  /\ host' = [host EXCEPT ![h] = "off"]
  /\ enabled' = enabled \ {h}
  /\ due' = [due EXCEPT ![h] = {}] /\ pending' = [pending EXCEPT ![h] = {}]
  /\ jobs' = [jobs EXCEPT ![h] = <<>>] /\ fetched' = [fetched EXCEPT ![h] = 0]
  /\ answer' = IF blocked = h /\ answer = "none" THEN "exception" ELSE answer
  /\ Post(ToModel("removed", h, {}))
  /\ UNCHANGED <<scenario, client, changes, running, loginVars, models, selected, shown, tab,
                 blocked, down, crashed>>

-----------------------------------------------------------------------------
(* The slots of the Qt controller.  libui throws if a host is not known or *)
(* everything is shut down; nobody catches that in a slot.                 *)

Accepted(h) == ~down /\ host[h] # "off"

\* What is left alone by a call of libui that was not accepted.
Throws ==
  /\ crashed' = TRUE
  /\ UNCHANGED <<libVars, blocked, answer, down>>

\* All the logins of the host are erased.
ForgetLogins(h) ==
  /\ logins' = [logins EXCEPT ![h] = <<>>]
  /\ leftover' = leftover \ {h}

\* add_host: the credentials are kept before the host is added; adding a host
\* again is refused.
AddComputer(h, password) ==
  /\ attempts < scenario.maxAttempts
  /\ attempts' = attempts + 1
  /\ logins' = [logins EXCEPT ![h] = Append(@, password)]
  /\ IF host[h] = "off" /\ ~down
     THEN /\ host' = [host EXCEPT ![h] = "connecting"]
          /\ due' = [due EXCEPT ![h] = scenario.kinds]
          /\ entered' = [entered EXCEPT ![h] = password]
          /\ used' = [used EXCEPT ![h] = Unused]
          /\ Post(ToModel("added", h, {}))
          /\ UNCHANGED leftover
     ELSE /\ leftover' = leftover \cup {h}
          /\ UNCHANGED <<host, due, entered, used, events>>
  /\ UNCHANGED <<scenario, client, changes, enabled, pending, jobs, running, fetched,
                 models, selected, shown, tab, endVars>>

\* handle_host_connected: the first credentials of the host are taken.
HandleConnected(h) ==
  /\ IF Accepted(h) /\ logins[h] # <<>>
     THEN LET password == Head(logins[h]) IN
          /\ jobs' = [jobs EXCEPT ![h] = Append(@, Authorization(password))]
          /\ used' = [used EXCEPT ![h] = [password |-> password, excused |-> h \in leftover]]
          /\ UNCHANGED <<host, enabled, due, pending, running, fetched, endVars>>
     ELSE Throws /\ UNCHANGED used
  /\ UNCHANGED <<attempts, logins, entered, leftover>>

HandleAuthorized(h) ==
  /\ ForgetLogins(h)
  /\ IF Accepted(h)
     THEN /\ enabled' = enabled \cup {h}
          /\ UNCHANGED <<host, due, pending, jobs, running, fetched, endVars>>
     ELSE Throws
  /\ UNCHANGED <<attempts, entered, used>>

\* The thread of async_remove_host throws if the host is gone or going; what a
\* removal during connect() does is the subject of Controller.
RemoveLater(h) ==
  IF ~down /\ host[h] \in {"connected", "failed"}
  THEN /\ host' = [host EXCEPT ![h] = "leaving"]
       /\ UNCHANGED <<enabled, due, pending, jobs, running, fetched, endVars>>
  ELSE Throws

\* Mutant: the credentials that were refused are kept.
HandleAuthorizationFailedKeepsLogin(h) == RemoveLater(h) /\ UNCHANGED loginVars

HandleAuthorizationFailed(h) ==
  /\ ForgetLogins(h)
  /\ RemoveLater(h)
  /\ UNCHANGED <<attempts, entered, used>>

\* The credentials are left behind if the host was not authorized yet.
HandleError(h) ==
  /\ RemoveLater(h)
  /\ leftover' = IF logins[h] = <<>> THEN leftover ELSE leftover \cup {h}
  /\ UNCHANGED <<attempts, logins, entered, used>>

\* schedule_state_update and its like: reschedule_now.
ScheduleUpdate(h, kind) ==
  /\ IF Accepted(h)
     THEN /\ due' = [due EXCEPT ![h] = @ \cup {kind}]
          /\ UNCHANGED <<host, enabled, pending, jobs, running, fetched, endVars>>
     ELSE Throws
  /\ UNCHANGED loginVars

\* trigger_client_shutdown: the quit job is the next to run and the GUI thread
\* waits for its answer.
ShutDownClient(h) ==
  /\ "shutdown" \in scenario.changes
  /\ selected = h
  /\ IF Accepted(h)
     THEN /\ enabled' = enabled \ {h}
          /\ jobs' = [jobs EXCEPT ![h] = <<[kind |-> "quit", password |-> ""]>> \o @]
          /\ blocked' = h
          /\ UNCHANGED <<host, due, pending, running, fetched, answer, down, crashed>>
     ELSE Throws
  /\ UNCHANGED <<scenario, client, changes, loginVars, modelVars, tab>>

\* With the answer the GUI thread goes on: everything is shut down, which waits
\* for all workers, or the tasks are scheduled again.
ClientAnswered ==
  /\ answer # "none"
  /\ blocked' = NoHost /\ answer' = "none"
  /\ CASE answer = "exception" ->
            crashed' = TRUE /\ UNCHANGED <<libVars, events, down>>
       [] answer = "refused" ->
            /\ IF Accepted(blocked)
               THEN enabled' = enabled \cup {blocked} /\ UNCHANGED crashed
               ELSE crashed' = TRUE /\ UNCHANGED enabled
            /\ UNCHANGED <<host, due, pending, jobs, running, fetched, events, down>>
       [] answer = "taken" ->
            /\ \A h \in Hosts : running[h] = "none"
            /\ down' = TRUE
            /\ crashed' = \E h \in Hosts : host[h] \in {"connecting", "leaving"}
            /\ events' = events \o SetToSeq({ToModel("removed", h, {}) :
                                               h \in {g \in Hosts : host[g] # "off"}})
            /\ host' = [h \in Hosts |-> "off"]
            /\ jobs' = [h \in Hosts |-> <<>>]
            /\ UNCHANGED <<enabled, due, pending, running, fetched>>
  /\ UNCHANGED <<scenario, client, changes, loginVars, models, selected, shown, tab>>

-----------------------------------------------------------------------------
(* The event loop.                                                         *)

\* Events for the model, and what of it reaches the statistics tab.
ModelSlot(e) ==
  LET h == e.host
      mine == selected = h IN
  /\ CASE e.kind = "added" -> AddHost(h) /\ UNCHANGED tab
       [] e.kind = "removed" ->
            /\ RemoveHost(h)
            /\ tab' = IF mine THEN StatisticsUpdated(ProjectsUpdated(tab, {}), <<>>) ELSE tab
       [] e.kind = "cc_status" -> UpdateCCStatus(h, e.data) /\ UNCHANGED tab
       [] e.kind = "client_state" -> UpdateClientState(h, e.data) /\ UNCHANGED tab
       [] e.kind = "projects" ->
            /\ UpdateProjects(h, e.data)
            /\ tab' = IF mine THEN ProjectsUpdated(tab, DOMAIN e.data) ELSE tab
       [] e.kind = "tasks" -> UpdateTasks(h, e.data) /\ UNCHANGED tab
       [] e.kind = "statistics" ->
            /\ UpdateByProject(h, "statistics", e.data)
            /\ tab' = IF mine /\ ProjectsAreKnown(DOMAIN e.data, models[h])
                      THEN StatisticsUpdated(tab, e.data) ELSE tab
       [] e.kind = "disk_usage" -> UpdateByProject(h, "disk_usage", e.data) /\ UNCHANGED tab
       [] e.kind = "file_transfers" -> UpdateFileTransfers(h, e.data) /\ UNCHANGED tab
       [] e.kind = "messages" -> AppendNews(h, "messages", e.data) /\ UNCHANGED tab
       [] e.kind = "notices" ->
            /\ AppendNews(h, "notices", e.data) \/ RefreshNotices(h, e.data)
            /\ UNCHANGED tab
  /\ UNCHANGED <<libVars, loginVars, endVars>>

ControllerSlot(e) ==
  /\ CASE e.kind = "connected" -> HandleConnected(e.host)
       [] e.kind = "authorized" -> HandleAuthorized(e.host)
       [] e.kind = "authorization_failed" -> HandleAuthorizationFailed(e.host)
       [] e.kind = "error" -> HandleError(e.host)
       [] OTHER -> ScheduleUpdate(e.host, e.kind)
  /\ Handled
  /\ UNCHANGED <<models, selected, shown, tab>>

HandleEvent ==
  /\ events # <<>>
  /\ LET e == Head(events) IN
     \/ e.to = "model" /\ ModelSlot(e)
     \/ e.to = "controller" /\ ControllerSlot(e)
  /\ UNCHANGED <<scenario, client, changes>>

User ==
  \/ \E h \in scenario.hosts :
       ShutDownClient(h) \/ \E password \in scenario.passwords : AddComputer(h, password)
  \/ /\ UserOnStatistics
     /\ "user" \in scenario.changes /\ changes < scenario.maxChanges
     /\ changes' = changes + 1
     /\ UNCHANGED <<scenario, client, libVars, loginVars, modelVars, endVars>>

-----------------------------------------------------------------------------
Alive == ~crashed /\ ~tab.failed
GuiIsFree == Alive /\ blocked = NoHost

GuiStep == (GuiIsFree /\ HandleEvent) \/ (Alive /\ ClientAnswered)

Connects(h) == Alive /\ (Connected(h) \/ ConnectFails(h))
Schedules(h) == Alive /\ (IntervalPasses(h) \/ SchedulerPass(h))
Works(h) == Alive /\ WorkerStep(h)
Leaves(h) == Alive /\ Removed(h)

GuiNext ==
  \/ GuiStep
  \/ GuiIsFree /\ User
  \/ Alive /\ ClientChanges
  \/ \E h \in Hosts :
       \/ Connects(h) \/ Schedules(h) \/ Works(h) \/ Leaves(h)
       \/ Alive /\ JobFails(h)

\* The event loop runs, connect() returns, the scheduler wakes up, the workers
\* run what is queued (the bound on the events is not part of the system) and
\* the intervals pass, but for that of the client state.
GuiFairness ==
  /\ WF_vars(GuiStep)
  /\ \A h \in Hosts :
       /\ WF_vars(Connects(h) \/ Leaves(h))
       /\ WF_vars(Schedules(h))
       /\ SF_vars(Works(h))

GuiSpec == GuiInit /\ [][GuiNext]_vars /\ GuiFairness

-----------------------------------------------------------------------------
(* Properties.                                                             *)

\* What the tabs show is the selected host's, and nothing is shown while none
\* is selected, whatever the other hosts send and however hosts come and go.
ShownIsSelected ==
  \A kind \in DOMAIN shown \ {"cc_status"} :
    /\ shown[kind].host \in {selected, NoHost}
    /\ kind \in {"messages", "notices"} =>
         \A item \in Range(shown[kind].data) : item.host = selected

\* The lookups of find_host_model_ find their host.
EventsFindTheirHost ==
  events # <<>> /\ Head(events).to = "model" /\ Head(events).kind # "added"
    => Known(Head(events).host)

\* A host is authorized with the password it was added with, unless an earlier
\* attempt left its credentials behind.
OwnPassword ==
  \A h \in Hosts : used[h].password \in {"", entered[h]} \/ used[h].excused

\* What the tabs of a host should show.
UpToDate(h) ==
  LET c == client[h]
      m == [HostModel EXCEPT !.projects = c.projects, !.modes = c.modes]
      Shows(kind, data) ==
        kind \in scenario.kinds =>
          shown[kind].data = data \/ (data = <<>> /\ shown[kind].data = <<>>) IN
  /\ Shows("tasks", MapTasks(c.tasks, m))
  /\ Shows("projects", MapProjects(c.projects))
  /\ Shows("statistics", c.credit)
  /\ Shows("disk_usage", c.projects)
  /\ Shows("file_transfers", MapTransfers(c.transfers, m))
  /\ "statistics" \in scenario.kinds => tab.stats = c.credit

\* The tabs of a host that stays selected and connected catch up with its
\* client once that does not change any more: asking for the state or the
\* projects that a reply did not know comes to an end.
TabsCatchUp ==
  LET Served == selected # NoHost /\ host[selected] = "connected" /\ selected \in enabled /\ Alive IN
  <>[]Served => <>[](selected # NoHost /\ UpToDate(selected))

\* The GUI thread, which waits for the client to quit, gets an answer if the
\* host has a worker.
GuiThaws ==
  (blocked # NoHost /\ host[blocked] = "connected") ~> (blocked = NoHost \/ ~Alive)
=============================================================================
