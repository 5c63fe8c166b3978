-------------------------------- MODULE MCGui --------------------------------
(* Values for the constants of Gui.                                         *)
EXTENDS Gui

Idle ==
  [state |-> "FilesDownloaded", ready |-> FALSE, suspended |-> FALSE,
   projectSuspended |-> FALSE, usesGpu |-> FALSE, coprocMissing |-> FALSE,
   schedulerWait |-> FALSE, networkWait |-> FALSE, acknowledged |-> FALSE, active |-> <<>>]

Active == [executing |-> FALSE, scheduler |-> "Preempted", tooLarge |-> FALSE,
           needsShmem |-> FALSE]

MCTasks == {[Idle EXCEPT !.active = <<Active>>], [Idle EXCEPT !.state = "FilesUploading"]}

MCModes == {[HostModel.modes EXCEPT !.cpu = "UserReq", !.network = "UserReq"], HostModel.modes}

MCTransfers ==
  {[persistent |-> TRUE, upload |-> TRUE, retryLater |-> FALSE, gaveUp |-> FALSE,
    active |-> a, backoff |-> FALSE] : a \in BOOLEAN}

\* What a scenario may take up: the hosts, the projects and those that are attached
\* at first, the periodic tasks, what may change and how often, how many events
\* the GUI thread may be behind, and how often hosts are added.
Nobody ==
  [hosts |-> {1}, projects |-> {1}, attached |-> {}, kinds |-> {}, changes |-> {},
   maxChanges |-> 0, maxEvents |-> 2, maxAttempts |-> 1, passwords |-> {"a"},
   tasks |-> MCTasks, modes |-> MCModes, transfers |-> MCTransfers]

\* A task of a new work unit, of a new project.
TasksOfNewProjects ==
  [Nobody EXCEPT !.kinds = {"client_state", "projects", "tasks"}, !.maxEvents = 1,
                 !.changes = {"projects", "tasks"}, !.maxChanges = 3]

\* The status of a task depends on the modes of its client.
TasksInModes ==
  [Nobody EXCEPT !.attached = {1}, !.kinds = {"client_state", "tasks", "cc_status"},
                 !.maxEvents = 1, !.changes = {"tasks", "modes"}, !.maxChanges = 2]

\* Projects go under the statistics tab.
ProjectsOnTheTab ==
  [Nobody EXCEPT !.projects = {1, 2}, !.attached = {1, 2},
                 !.kinds = {"projects", "statistics"}, !.maxEvents = 1,
                 !.changes = {"projects", "credit", "user"}, !.maxChanges = 3]

Transfers ==
  [Nobody EXCEPT !.kinds = {"file_transfers", "cc_status"},
                 !.changes = {"transfers", "modes"}, !.maxChanges = 2]

DiskUsage ==
  [Nobody EXCEPT !.kinds = {"disk_usage", "projects"},
                 !.changes = {"projects", "flags"}, !.maxChanges = 2]

\* Two hosts that come and go.
TwoHosts(kind, additions) ==
  [Nobody EXCEPT !.hosts = {1, 2}, !.kinds = {kind}, !.changes = {"news", "failures"},
                 !.maxEvents = 1, !.maxChanges = 1, !.maxAttempts = additions]

\* One host, added again and again.
Attempts == [Nobody EXCEPT !.changes = {"failures"}, !.maxAttempts = 4,
                            !.passwords = {"a", "b"}]

Shutdown ==
  [Nobody EXCEPT !.hosts = {1, 2}, !.kinds = {"cc_status"}, !.maxEvents = 1,
                 !.changes = {"failures", "shutdown"},
                 !.maxAttempts = 2]

MCScenarios ==
  {TasksOfNewProjects, TasksInModes, ProjectsOnTheTab, Transfers, DiskUsage,
   TwoHosts("messages", 3), TwoHosts("notices", 2),
   Attempts, Shutdown}

\* Two projects are selected, then both go.
MCTabScenario == {[ProjectsOnTheTab EXCEPT !.maxChanges = 4]}
=============================================================================
