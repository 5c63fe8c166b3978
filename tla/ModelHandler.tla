----------------------------- MODULE ModelHandler -----------------------------
(***************************************************************************)
(* The model behind the tabs of woincqt (ui/qt/model_handler.cc): one host *)
(* model per host, filled from the replies the adapter queues to the GUI   *)
(* thread, and what is announced to the tabs, which is the data of the     *)
(* selected host.  A reply that names a project, a work unit or an         *)
(* application the host model does not know can not be shown; the model    *)
(* then asks for what is missing.                                          *)
(*                                                                         *)
(* A project is its name and its URL.  A task is known by its project,     *)
(* which has at most one, and has a situation: the flags and states that   *)
(* decide what is said about it.  The application and its version come     *)
(* and go with the work unit.                                              *)
(***************************************************************************)
EXTENDS Naturals, Sequences, FiniteSets, Functions, TLC

CONSTANTS
  Hosts, NoHost,
  Projects       \* numbers, in the order of the names

ASSUME ModelAssumption ==
  /\ NoHost \notin Hosts
  /\ IsFiniteSet(Projects) /\ Projects = 1..Cardinality(Projects)

VARIABLES
  models,      \* host_models_
  selected,    \* selected_host_
  shown,       \* what each tab was told last, or since the host was selected
  events       \* the event queue of the GUI thread

modelVars == <<models, selected, shown, events>>

\* What the adapter forwards, and what the model asks the controller for.
Kinds == {"cc_status", "client_state", "disk_usage", "file_transfers", "messages",
          "notices", "projects", "statistics", "tasks"}

ToModel(kind, h, data) == [to |-> "model", kind |-> kind, host |-> h, data |-> data]
ToController(kind, h) == [to |-> "controller", kind |-> kind, host |-> h, data |-> {}]

Nothing == [host |-> NoHost, data |-> <<>>]
NothingShown == [kind \in Kinds \ {"client_state"} |-> Nothing]
NotSuspended == "NotSuspended"

-----------------------------------------------------------------------------
(* What is said about tasks, projects and transfers.                       *)

\* A task that waits for the network says so if the network is suspended.
OnTheNetwork(word, modes) ==
  IF modes.network = NotSuspended THEN <<word>> ELSE <<word, "suspended", modes.network>>

ActiveStatus(active, nonCpuIntensive) ==
  IF active.tooLarge THEN <<"Waiting for memory">>
  ELSE IF active.needsShmem THEN <<"Waiting for shared memory">>
  ELSE CASE active.scheduler = "Scheduled" ->
              IF nonCpuIntensive THEN <<"Running", "non-CPU-intensive">> ELSE <<"Running">>
         [] active.scheduler = "Preempted" -> <<"Waiting to run">>
         [] active.scheduler = "Uninitialized" -> <<"Ready to start">>

\* A task whose files are there.  A throttled client is not suspended; a task
\* that executes nevertheless is running.
DownloadedStatus(t, modes, nonCpuIntensive) ==
  IF t.projectSuspended THEN <<"Project suspended by user">>
  ELSE IF t.suspended THEN <<"Task suspended by user">>
  ELSE IF /\ modes.cpu \notin {NotSuspended, "CpuThrottle"}
          /\ t.active # <<>> /\ ~t.active[1].executing
       THEN <<"Suspended", modes.cpu>>
  ELSE IF modes.gpu # NotSuspended /\ t.usesGpu THEN <<"GPU suspended", modes.gpu>>
  ELSE IF t.active # <<>> THEN ActiveStatus(t.active[1], nonCpuIntensive)
  ELSE <<"Ready to start">>

\* resolve_task_status.  Waiting drops what was said before, the missing GPU too.
TaskStatus(t, modes, nonCpuIntensive) ==
  LET gpu == IF t.coprocMissing THEN <<"GPU missing">> ELSE <<>> IN
  CASE t.state = "New" -> gpu \o <<"New">>
    [] t.state = "FilesDownloading" ->
         gpu \o IF t.ready THEN <<"Download failed">> ELSE OnTheNetwork("Downloading", modes)
    [] t.state = "FilesDownloaded" ->
         IF t.networkWait THEN <<"Waiting for network access">>
         ELSE IF t.schedulerWait THEN <<"Postponed">>
         ELSE gpu \o DownloadedStatus(t, modes, nonCpuIntensive)
    [] t.state = "ComputeError" -> gpu \o <<"Computation error">>
    [] t.state = "FilesUploading" ->
         gpu \o IF t.ready THEN <<"Upload failed">> ELSE OnTheNetwork("Uploading", modes)
    [] t.state = "Aborted" -> gpu \o <<"Aborted">>
    [] OTHER ->
         IF t.acknowledged THEN gpu \o <<"Acknowledged">>
         ELSE IF t.ready THEN gpu \o <<"Ready to report">>
         ELSE <<"invalid state">>

\* resolve_project_status: everything that is to be said, in this order.
ProjectRemarks ==
  <<"suspended_via_gui", "dont_request_more_work", "ended", "detach_when_done",
    "sched_rpc_pending", "scheduler_rpc_in_progress", "trickle_up_pending", "deferred">>

ProjectStatus(flags) == SelectSeq(ProjectRemarks, LAMBDA remark : remark \in flags)

\* resolve_transfer_status
TransferStatus(t, modes) ==
  LET direction == IF t.upload THEN "Upload" ELSE "Download" IN
  IF ~t.persistent THEN <<"Could not resolve status">>
  ELSE <<direction>>
       \o (IF t.retryLater THEN <<"retry">>
           ELSE IF t.gaveUp THEN <<"failed">>
           ELSE IF modes.network # NotSuspended THEN <<"suspended", modes.network>>
           ELSE IF t.active THEN <<"active">> ELSE <<"pending">>)
       \o (IF t.backoff THEN <<"project backoff">> ELSE <<>>)

-----------------------------------------------------------------------------
(* From the replies to what is shown.                                      *)

HostModel == [projects |-> <<>>, wus |-> {}, tasks |-> <<>>,
              modes |-> [cpu |-> NotSuspended, gpu |-> NotSuspended, network |-> NotSuspended]]

\* All the work units, and with them the applications and projects, are known.
TasksAreKnown(named, m) == named \subseteq m.wus \cap DOMAIN m.projects

ProjectsAreKnown(named, m) == named \subseteq DOMAIN m.projects

MapProjects(projects) == [p \in DOMAIN projects |-> ProjectStatus(projects[p])]

MapTasks(tasks, m) ==
  [p \in DOMAIN tasks |->
     TaskStatus(tasks[p], m.modes, "non_cpu_intensive" \in m.projects[p])]

MapTransfers(transfers, m) ==
  [k \in DOMAIN transfers |-> TransferStatus(transfers[k], m.modes)]

-----------------------------------------------------------------------------
(* The slots, called by the event loop with the event it took.             *)

Init ==
  /\ models = <<>> /\ selected = NoHost /\ events = <<>>
  /\ shown = NothingShown

\* The lookups of find_host_model_ are asserted.
Known(h) == h \in DOMAIN models

\* The queue without the event that is handled, and with what was asked for.
Handled == events' = Tail(events)
Asks(h, kinds) == events' = Tail(events) \o [k \in DOMAIN kinds |-> ToController(kinds[k], h)]

Show(h, kind, data) == shown' = [shown EXCEPT ![kind] = [host |-> h, data |-> data]]

AddHost(h) ==
  /\ models' = [g \in DOMAIN models \cup {h} |-> IF Known(g) THEN models[g] ELSE HostModel]
  /\ selected' = IF selected = NoHost THEN h ELSE selected
  /\ Handled /\ UNCHANGED shown

\* remove_host, with unselect_host_.  The run modes stay: their menu is disabled.
RemoveHost(h) ==
  /\ models' = Restrict(models, DOMAIN models \ {h})
  /\ selected' = IF selected = h THEN NoHost ELSE selected
  /\ shown' = IF selected = h THEN [NothingShown EXCEPT !["cc_status"] = shown["cc_status"]]
              ELSE shown
  /\ Handled

UpdateCCStatus(h, modes) ==
  /\ models' = [models EXCEPT ![h].modes = modes]
  /\ IF selected = h THEN Show(h, "cc_status", modes) ELSE UNCHANGED shown
  /\ Handled /\ UNCHANGED selected

\* Mutant: the work units of the client state are not taken.
UpdateClientStateWithoutWorkunits(h, state) ==
  /\ models' = [models EXCEPT ![h].projects = state.projects]
  /\ Handled /\ UNCHANGED <<selected, shown>>

\* The tabs are not told: the tasks come with the next reply.
UpdateClientState(h, state) ==
  /\ LET m == [models[h] EXCEPT !.projects = state.projects, !.wus = state.wus] IN
     models' = [models EXCEPT ![h] = [m EXCEPT !.tasks = MapTasks(state.tasks, m)]]
  /\ Handled /\ UNCHANGED <<selected, shown>>

UpdateProjects(h, projects) ==
  /\ models' = [models EXCEPT ![h].projects = projects]
  /\ IF selected = h THEN Show(h, "projects", MapProjects(projects)) ELSE UNCHANGED shown
  /\ Handled /\ UNCHANGED selected

UpdateTasks(h, tasks) ==
  /\ IF TasksAreKnown(DOMAIN tasks, models[h])
     THEN /\ models' = [models EXCEPT ![h].tasks = MapTasks(tasks, models[h])]
          /\ IF selected = h THEN Show(h, "tasks", MapTasks(tasks, models[h]))
             ELSE UNCHANGED shown
          /\ Handled
     ELSE Asks(h, <<"client_state">>) /\ UNCHANGED <<models, shown>>
  /\ UNCHANGED selected

\* update_statistics and update_disk_usage of the selected host: the projects
\* are asked for before what names them.
UpdateByProject(h, kind, data) ==
  /\ IF selected # h THEN Handled /\ UNCHANGED shown
     ELSE IF ProjectsAreKnown(DOMAIN data, models[h])
     THEN Handled /\ Show(h, kind, data)
     ELSE Asks(h, <<"projects", kind>>) /\ UNCHANGED shown
  /\ UNCHANGED <<models, selected>>

UpdateFileTransfers(h, transfers) ==
  /\ IF selected = h THEN Show(h, "file_transfers", MapTransfers(transfers, models[h]))
     ELSE UNCHANGED shown
  /\ Handled /\ UNCHANGED <<models, selected>>

\* Mutant: what is new is shown whoever it comes from.
AppendNewsOfAnyone(h, kind, items) ==
  /\ Show(h, kind, shown[kind].data \o items)
  /\ Handled /\ UNCHANGED <<models, selected>>

\* update_messages and update_notices: what is new is appended.
AppendNews(h, kind, items) ==
  /\ IF selected = h /\ items # <<>> THEN Show(h, kind, shown[kind].data \o items)
     ELSE UNCHANGED shown
  /\ Handled /\ UNCHANGED <<models, selected>>

\* update_notices of a list that was refreshed.
RefreshNotices(h, items) ==
  /\ IF selected = h THEN Show(h, "notices", items) ELSE UNCHANGED shown
  /\ Handled /\ UNCHANGED <<models, selected>>
===============================================================================
