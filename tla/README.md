# A TLA+ model of woinc

woinc is a manager for BOINC clients: a library that speaks the GUI RPC
protocol (`src/lib`, `libwoinc`), a library that keeps connections to several
clients, polls them and calls handlers (`src/libui`, `libwoincui`), a Qt GUI
(`src/ui/qt`, `woincqt`) and a command line tool (`src/ui/cli`, `woinccmd`).
The modules in this directory model what is concurrent in it, what goes wrong
in ways tests do not reach, and the algorithms it depends on.

All paths below are relative to the repository.

## The system

| component | state | operations |
|---|---|---|
| job queue, `src/libui/src/job_queue.cc` | deque, shutdown flag, mutex, condition variable | `push_front`, `push_back`, `pop` (blocks), `shutdown` |
| host controller and client, `host_controller.cc`, `client.cc` | client, queue, worker thread | `connect` (starts the worker), `schedule`, `schedule_now`, `shutdown` (joins it), destructor (shuts down again) |
| controller, `controller.cc` | map of host controllers, shutdown flag, mutex, scheduler thread | `add_host`, `authorize_host`, `remove_host`, `async_remove_host`, `schedule_periodic_tasks`, some 20 commands with a future, `shutdown` |
| periodic tasks scheduler, `periodic_tasks_scheduler.cc` | per host and task: last execution, pending; per host: sequence numbers; a copy of the intervals | `add_host`, `remove_host`, `reschedule_now`, `handle_post_execution`, the loop |
| configuration, `configuration.cc` | intervals, per host: schedule on/off, active only | getters and setters |
| handler registry, `handler_registry.cc` | handlers, mutex | `for_host_handler`, `for_periodic_task_handler`, register, deregister |
| jobs, `jobs.cc`, `jobs.h` | payload of a periodic job, promise of an asynchronous one | `execute`, post execution |
| socket and connection, `src/lib/src/socket_posix.cc`, `rpc_connection.cc` | file descriptor | `open`, `do_rpc` (send, receive until the end mark) |
| RPC commands, XML, `rpc_command.cc`, `rpc_parsing.cc`, `xml.cc` | request and response | `execute`: one exchange, two for authorizing and for SetCCConfig |
| Qt controller, adapter, poller, `src/ui/qt/controller.cc`, `adapter.cc` | passwords of pending logins, subscriptions of futures | slots that react to the signals of the handlers, polling every 100 ms |
| model handler, `model_handler.cc` | a model of every host, the selected host | a slot per kind of data, names and states are resolved, updates are asked for |
| tabs with rows, `tabs/tasks_tab.cc`, `projects_tab.cc`, `transfers_tab.cc`, `events_tab.cc`, `tab_model_updater.h` | rows, the view's selection, the members of the button panel | in-place merge of a new list, host changes, buttons |
| statistics tab, `tabs/statistics_tab.cc` | statistics, view mode, selections of both modes | updates of projects and statistics, modes, next and previous |
| dialogs, `dialogs/` | preferences with masks, log flags, the wizard's pages with timers | load, edit, save; start and poll a lookup, attach |
| `woinccmd`, `src/ui/cli/main.cc` | arguments, one connection | parse, connect, authorize, execute, print |

How they interact.  The threads are the callers of the public interface (in the
GUI: the Qt thread), one detached connect thread per `add_host`, one worker per
connected host, detached threads of `async_remove_host`, and the scheduler.

* A caller takes the controller's mutex **C** for a whole operation.  Under it
  it may take the scheduler context's **S**, the configuration's, a queue's
  mutex, the registry's **R** (to call the handlers, `handler_registry.cc:54`),
  and it joins workers and the scheduler.
* The scheduler holds S, and under it the configuration's and a queue's mutex;
  it looks the host up in the controller's map without C (`controller.cc:188`).
* A worker pops jobs, executes them over its connection, delivers callbacks
  under R, and settles a periodic job under S.  A connect thread delivers its
  callback under R.
* A callback may call the controller, which takes C: `handler.h` asks for that.
  The GUI does not; its handlers emit queued signals (`adapter.cc:27-85`), which
  the event loop delivers to the model handler and the Qt controller.  The model
  handler signals the tabs directly and the Qt controller by the event loop.
* Commands of the dialogs return futures.  A poller looks at them every 100 ms
  and calls the dialog back, or reports an error after 30 seconds; the job runs
  all the same, and since commands are put in front of the queue
  (`controller.cc:164`, `job_queue.cc:82`) newer ones may run before it.
* All jobs of a host share one connection.  A job that stops waiting after ten
  seconds leaves its answer on it (`rpc_connection.cc:125`), and the next job, of
  whatever kind, reads it.

So the order of waiting is C before S, R, configuration, queue, worker and
scheduler, and whoever delivers a callback and calls the controller in it turns
it around.

What makes each part correct, and what is hard about it:

* queue and host controller: every job accepted runs at most once and alone, in
  the order the two ends of the deque promise; no wakeup is lost between the
  test of the predicate and the sleep; shutting down ends, starts nothing more
  and destroys nothing that is in use.
* controller: the five places a host is kept in agree at every moment another
  thread may look; callbacks exclude each other; no circular wait; a removal and
  a shutdown end; no exception leaves a thread.
* periodic tasks: one job per task at a time, none forgotten; messages are never
  skipped, and messages and notices are not repeated unless a job reads a late
  answer, although the sequence numbers travel with the job and may fail on the
  way; changed settings get through.
* RPC and `woinccmd`: a command is judged by the reply to it, authorized means
  authorized, every command returns, the exit status is true.
* GUI: what is shown belongs to the selected host although answers of others
  are still queued; incomplete data makes it ask for more, and that ends; a
  host is authorized with the password the user has typed for it.
* tabs: the merge moves rows under a selection, the view must be told of every
  one of them in time, and buttons act on copies of what is selected.
* dialogs: edited values, masks, defaults and what was loaded interact; answers
  may be late, lost or of an earlier page; another manager writes as well.

## The modules

* **`JobService`** is the abstract specification: the life of a job, and what
  closing the service does.  It has neither threads nor a queue.
* **`JobQueue`** has the critical sections of `job_queue.cc` as actions.  They do
  not call out, so each is atomic; the notification after the unlock is an action
  of its own (`NotifyOne`, `NotifyAll`), waiting threads are in `waiting`, and
  being woken only means to test the predicate again.
* **`HostController`** extends it by the producers, the connect thread, the worker
  and the thread that removes the host.  `status` is the life of each job; `stamp`,
  `ticket` and `early` are history.  Starting a `std::thread` and assigning it to
  `worker_thread_` are two actions (`SpawnWorker`, `AssignWorker`), `shutdown()` is
  four, and the destructor goes through them again (`pass`).  `early` tells that the
  removal began before `connect()` had returned: then the object may be destroyed
  under the connect thread, which `ConnectInDestroyed` and `DestroyCrashes` record.
* **`Controller`** has the threads above as processes with a program counter.  The
  mutexes C and R are variables, since they are held across blocking calls and
  callbacks; S and the others are held for sections that never block and nest in
  one order, so those sections are parts of actions.  A host added again is a new
  incarnation `<<host, n>>` with a queue and threads of its own, since the detached
  threads of the old one may still be there.  The queue is the one `HostController`
  shows to be implemented: push, pop and close are atomic.  All commands built on
  `create_and_schedule_async_job_` are one action, they differ in the RPC only.
  The handlers do what `handler.h` tells them to, either directly (`direct`)
  or by posting an event a caller picks up later, as the GUI does.  An exception
  that leaves a thread, or the use of a destroyed object, ends the process with a
  reason in `crash`.
* **`PeriodicTasks`** takes one connected host and adds time (ages in ticks), due
  times, the scheduler's copy of the intervals, the sequence numbers, the order of
  the jobs of one pass, and the BOINC client's lists of messages and notices.  A job
  sends its request (`Fetch`), reads an answer (`Receive`), tells the handlers (`Tell`)
  and settles with the scheduler.  Requests and answers travel in `asked` and
  `answers`; after `ReceiveTimesOut` they stay there, and a later job reads what is
  first.  It makes sense of an answer to a request like its own only (`Understood`):
  another one lacks the node it parses, and two in one piece are not XML.
* **`RpcConnection`** is one connection: requests, replies read in chunks of any
  size, timeouts, failing sends, disconnects, the end mark as a symbol of its own,
  the two exchanges of an authorization and what the job makes of a status.
* **`CommandLine`** and **`Woinccmd`** are the other user of that connection:
  `CommandLine` has `parse_host` letter by letter and the words after a command,
  next to what the usage text documents; `Woinccmd` goes through `main()` from the
  arguments to the exit.  `Commands` is the table of all commands of a build with
  `WOINC_CLI_COMMANDS`: the words each needs, what may follow, and what it sends.  Words
  are told apart only as far as a command does (a number, the name of an operation,
  any other text).  A behaviour is either one of a worker (any sequence of commands)
  or one of `woinccmd`.
* **`ModelHandler`** has a slot of `model_handler.cc` per action, with the tables
  that resolve the status of tasks, projects and transfers.  A work unit and the
  project it belongs to are one thing in it, and the tabs are what was sent to
  them last (`shown`).
* **`StatisticsTab`** has the tab's state with the list widget in front of it.  It
  is written as operators on one record: `update_projects` and `update_statistics`
  send signals in the middle, and what they cause is applied at that point, one project
  that is gone after the other (`AllGoAway`, a recursive function).  `failed` is set
  where a lookup throws.
* **`Gui`** composes both with the event queue of the GUI thread, the slots of the
  Qt controller, BOINC clients that change, and what `libwoincui` does for a host:
  connect, schedule, one worker that runs jobs in order, remove.  That part is
  coarser than `Controller` and `PeriodicTasks`: locks are left out, time is that
  an interval passes, and a request that falls into a running job of its task is
  forgotten, as `PeriodicTasks` has it.
* **`TabModelUpdater`** is `update_tab_model`, one action per announcement, since the
  view's slots run in between; `view` is what a view has heard.  A row has a part that
  is not shown (`Hidden`), and the merge leaves a row alone if only that part differs
  (`Same`): `Task::operator==` compares what is shown, as `types.h:133` says the updater
  needs it.  All other rows are compared completely.  **`Tabs`** puts a
  tab around it: model, selection, panel, the question before an abort, and the
  signals of the model handler.  It is one module for four tabs, since they are
  the same but for their wiring (`ListChangesHost`, `TransfersChangeHost`,
  `EventsChangeHost`; `PanelSends`, `TransfersSend`).
* **`Settings`** has the preferences dialog and the event log dialog with their
  loading and saving, the poller, the two commands that write
  (`SetGlobalPreferences` overwrites, `SetCCConfig` reads first), the client's
  files, and another manager.  Preferences are grouped by the kind of widget.  The
  host's queue is in it as the code has it: `Subscribe` puts a command in front of
  those that wait, `TakeJob` takes the first, `RunJob` runs it.
* **`AddProjectWizard`** has the wizard's pages, timers, message boxes, queued
  signals and requests.  `requests` is in the order they were made, which is the one
  the poller looks at them; the worker runs the newest that is queued (`TakeRequest`).
* **`Dialogs`** runs one of the two; they are modal and share no state.
* In `Settings` and `AddProjectWizard`, what is run and fails may have reached the client.  Which answers the
  following commands then read is not followed: from there on (`late`, `outOfStep`) a
  command may succeed or fail whatever became of it.
* **`MC...`** modules give values to constants that a configuration can not write.
* **`HostControllerProofs`**, **`ControllerProofs`**, **`PeriodicTasksProofs`**,
  **`WoinccmdProofs`** (with those about `RpcConnection` and `CommandLine`),
  **`TabsProofs`** (with those about `TabModelUpdater`), **`StatisticsTabProofs`**,
  **`GuiProofs`** and **`DialogsProofs`** (about `Settings` and `AddProjectWizard`) have
  the proofs about the module each is named after.

The comment `Mutant:` marks an operator that is not part of a specification: it is
the operator after it with a plausible bug, and the property it belongs to fails
with it.

## The runs

| run | question | bounds |
|---|---|---|
| `host_controller` | jobs have one place, order of service, wakeups, takedown, implements `JobService`, liveness | 2 producers, 2 commands, 2 other jobs |
| `controller` | do maps, flags, callbacks and locks fit together | three scenarios: 1 host added twice with all operations; 2 hosts, added, removed and shut down, with posting and with calling handlers; 1 caller, 1 task, 1 removal thread, 1 failing job |
| `controller_liveness` | shutdown returns, a removal ends, a pending task is run | 1 host, 1 caller |
| `periodic_tasks` | both feeds in order, no message left out, messages and settings get through, falling silent | 2 messages, 2 notices; one task with intervals of 1 and 2 ticks, `GetMessages` with 1 receive that gives up; or two tasks with one interval, with 1 receive that gives up next to `GetStatistics` |
| `woinccmd` | arguments, true replies, passwords, exit status, an end | 5 requests of a worker; every command with up to 4 words behind it; hosts of up to 5 letters; 2 polls; every kind of failure |
| `tabs` | merge, view, selection, panel, aborts | 3 rows, 3 lists, 2 hosts (symmetric), 2 values of what is not shown, 2 events kept |
| `dialogs` | the dialogs and the wizard under late, failing, missing and overtaken commands | one group of preferences at a time, 3 values, 2 dialogs, 2 waiting jobs, 1 change by another manager; 2 projects, Next pressed 4 times, 1 poll, 2 requests that were given up |
| `gui` | shown data, logins, charts, catching up, thawing | nine scenarios, see `MCGui` |

Four more runs end in a violation; they are the findings below.

Why the bounds are enough.  Two jobs of each kind make every order of service of
two jobs, and two producers make a notification that overlaps with another push.
Two incarnations of a host make the leftovers of the old one meet the new one;
two hosts make two workers and connect threads meet at the registry.  One failing
job makes one asynchronous removal.  Two messages and two notices, or two messages and one receive that gives up, let an
item arrive between building a request and answering it and between two requests; two
intervals and a copy renewed every tick make the copy stale.  Five requests are
an authorization, one that fails in between and another one after it.  Three rows
are the least in which a row is removed before, between and behind others while
one is updated and one inserted; the transfers come in any order.  Two dialogs
let the answer of one reach the next, and the save of the second overtake that of
the first; two given up requests let an old lookup run after its successor.  Four times Next is the wizard to its last
page, and back and forth once on each of the pages that wait.

The scenarios of `Gui` each bound what may be there at once: kinds of data, of
changes and of hosts.  A task of a new project (three changes: the project, its
task and one more behind), tasks under changing modes, projects that go while
they are selected in the statistics tab, transfers, the disk usage, two hosts
with messages or notices that come and go, four attempts on one host with two
passwords, and the shutdown of a client with two hosts.  `maxEvents` stops the
workers when the GUI thread is that many events behind.  `MaxQueue` only stops
callers from sending commands without end.

`MCDialogs` does not follow a behaviour where no property speaks of it any more:
preferences after an answer is out of step, the log flags after that if the user was
impatient as well, and a wizard whose page was left backwards while it waited.  `late`,
`impatient` and `hasty` never become false or empty again.  Groups of more than one
preference start without an override file.  The theorems are about the modules without
these cuts.

Deadlock is checked where the system must not stop (`host_controller`,
`periodic_tasks`, `woinccmd`).  `controller` runs without the check, since calling handlers may deadlock
(`NoCircularWait` is stated for the others), and so do the runs of the GUI: its user may stop at any time
or close the window, a slot that throws ends it, and the bounds do.

Fairness.  Threads are scheduled by the operating system, so a thread that can go
on does: weak fairness for the worker, the connect thread, the owner once the
removal has begun, the scheduler and the event loop.  Callers and removal threads
wait for C while others take and release it; a mutex that is free again and again
is obtained, so they are strongly fair.  Nobody has to call anything: starting an
operation, scheduling a job, the user and spurious wakeups are not fair.  In
`PeriodicTasks` time goes on, the client answers, a request that is made again and
again is sent sometime, and its answer is not always an error (strong fairness of
sending and of answering for each of two tasks); without it nothing could be shown
to a user whose host never answers.  Which job reads the answer is not part of the
assumption.  In `RpcConnection`
only the worker is fair: a blocked `recv` returns after ten seconds
(`socket_posix.cc:101-107`), and the BOINC client need not answer at all.  In `Gui`
the workers are strongly fair because of `maxEvents` only, intervals pass but for
the hour of the client state (`configuration.h:60-70`), so catching up has to come from
asking for it, and jobs do not fail unless they do: a job that fails removes the
host, and `TabsCatchUp` speaks of hosts that stay.

What the properties leave open on purpose.

* `PendingTaskEnds` gives up if the callers go on with commands: they are pushed to
  the front of the deque and overtake the periodic jobs as long as they come.
* `LatestSettingIsShown` says eventually: a `reschedule_now` that falls into a
  running job of its task is overwritten by `handle_post_execution`, so the change
  shows one interval later.
* `FeedsInOrder`, `MessagesAreShown` and `LatestSettingIsShown` hold until a receive gives
  up.  Then the answers may stay one job behind for good: a job reads the answer to
  the request of the one before it, so messages are shown twice, a full list of notices
  may be followed by an older answer, and what is shown lags behind.  That no message
  is left out (the first part of `FeedsInOrder`) and that the host falls silent hold all
  the same.
* `TrueUntilFailure` ends with the first failed exchange: after a receive timeout
  neither the socket nor the client is closed, and the next job reads the late
  reply (`rpc_connection.cc:125`).  `woinccmd` exits then, so for it the same holds
  without that condition (`WoinccmdTellsTheTruth`).
* `MergeIsExact` is about the keys and what is shown.
* `ArgumentsAreReadAsDocumented` excuses one thing the usage does not show and the code
  takes, the mode of `--set_gpu_mode` or `--set_network_mode` without its duration
  (`WithoutDuration`).  Without the excuse the property does not hold, see below.
* `EventsFindTheirHost` is about the model handler's lookups.  Late callbacks of a
  connect thread (`controller.cc:262`) reach the Qt controller, whose slots may throw.
* `GuiThaws` is about hosts that are connected; on another one the wait has no end.
* `OwnPassword` excuses a host with a login left behind: the password of an attempt
  that failed to connect is found before the new one (`qt/controller.cc:370`).
* `DialogOutlivesItsAnswers` excuses a dialog the user closed while it waited: the
  subscription keeps its pointer.
* `AttachedAsShown` and `WaitingIsDriven` excuse a user who presses Commit while the
  project is being attached, or goes back while an answer is on its way.  The second can
  spoil both: an answer of the account page that comes late is handled as if it were about
  the page's present project, and moves the pages while the attach page has a request
  on its way, whose answer is then dropped.
* `DeliveredAsShown` leaves out days of the week, times of day and the transfer
  period, see below.  It excuses two more things.  A save that was not run within 30
  seconds stays in the queue; the save of the next dialog is put in front of it, so the
  old one runs last, or between the new one and the reading of the file (`overtaken`).
  And after a receive that gave up, of any job of the host, a command learns what
  became of another one (`late`); `UnreadOptionsSurvive` has that condition too.
* `AttachedAsShown` excuses the same: a lookup that was given up is started after the
  next project's, whose poll is then told its account key (`replaced`), and answers
  out of step (`outOfStep`).  `WaitingIsDriven` needs neither.

## What is proved

`HostControllerProofs` proves, for any sets of producers and jobs, all the safety
properties of `HostController` and that it implements `JobService`.  The only
assumption is `JobsAssumption`: a job is either for the front or for the back of
the deque, and `NoJob` is none of them.

* `TypeCorrect`: inductive by itself.
* `OnePlace` (`EveryJobHasOnePlace`): the status of a job, its place in the deque
  and the worker's current job agree.  It needs `SpawnedOnce`: the worker is
  started once, otherwise a second one could find a current job.
* `ConnectedWhileRunning` and `SafeDestruction`: from `TakedownInv`, which says who
  may be where while the host is taken down, provided that `connect()` returned
  first: the thread is joinable as long as it is at work, and after the join of
  either pass it is not.
* `WakeupNotLost`: from `WakeupInv`; a worker that waits with a job in the deque has
  a producer between its unlock and its notification, and after the flag is set the
  owner is just before `notify_all`.
* `NoStartAfterShutdown` and `OrderOfService`: the latter from `OrderInv`, the deque
  is always sorted by the order of service.  The property speaks of the job started
  and any other queued job, so it follows from the sorted deque and `OnePlace`.
* `ServiceImplemented`: every action maps to an action of `JobService` or a stutter;
  `WorkerTake` needs `OnePlace` (nobody else runs) and `Destroy` needs `WakeupInv` (the
  queue has been shut down).  `ServiceRunsOneAtATime` is about `JobService` itself.

`TabsProofs` first proves `MergeAlwaysExact` and `ViewAlwaysKnowsTheRows` for any
set of values, shown or not, any integer keys, lists of any length, sorted or not, and any number
of calls.  The only assumption is `KeysAssumption`, that the comparison is one of
integers.  The inductive invariant `UpdaterInv` has the types, that the view has the
model's rows, and `MergeInvariant`: both iterators are at the same position, and
before it the rows are the new ones in what is compared (`Same`).  `FinishIsExact` is the case at the end of either
list; lemmas say what cutting, inserting and appending do to a sequence.  Each step keeps
the part about the rows whether or not the view knows them (`MergeSound`, `Kept`), since
the events tab merges under a view that does not.

It then puts the tab around the merge, for any hosts, rows and lists (`TabsAssumption`: the
bounds are numbers, a value has a host and whether it is suspended), with the lemmas of
the merge cited at each of its steps.  `HandlerInv` says which signals can be on their way
and `RowsInv` that the rows are of the tab's host and stay sorted in the middle of a merge.
The selection is looked at as a set of rows (`Chosen`), and lemmas say what each
announcement does to it (`ChosenAfterCut`, `ChosenAfterInsert`, ...).

* `SelectionStaysTheUsers`: from `SelectionInv`, which during the merge compares what is
  selected and among the new rows with what the user selected.  A row the merge takes
  out of a sorted list is not among the new ones (`RemovedAreOld`); the transfers are not
  sorted, so there only one direction holds.
* `PanelFollowsTheSelection`: from `PanelInv`; the panel of the transfers follows every
  announcement, the others are told again at the end of the merge.
* `OnlyTheConfirmedIsAborted`: from `QuestionInv`, each selected row is one the user is
  being asked about, by key and host, while the question is open.  It holds since the
  selection can then only shrink, and a host that goes takes it along before the
  next one comes.

`ControllerProofs` proves the safety properties of `Controller` for any hosts, tasks,
callers and bounds, with handlers that post and handlers that call.  It assumes
`ControllerAssumption` (a scenario is one of the record type, the bounds are numbers)
and `NoThreadIsNone` (the value of a free lock is no thread).  The invariant `IInv` has
a part for each thing the code relies on without saying so:

* `ThreadsInv` and `InboxInv`: which operation, with which arguments, a thread may be
  in at each place of its code; `LocksHeld`: it holds C and R exactly at the places
  between taking and releasing them; from it `CallbacksAreExclusive`.
* `HostsInv` and `OwnerInv`: a registered host is its latest incarnation, and the
  owner of C is the only one that may be half way through adding or removing one, so
  what it has read of the maps is still true when it goes on.
* `LifeInv`: a worker runs only between its start and the join, a host controller is
  alive until then, a job is in hands exactly while it is worked on; from it
  `WorkerNeverOutlivesHost`.
* `BookInv`: a task of a known host is pending exactly while one job of it is in the
  queue or in the worker's hands; from it `BookkeepingAlwaysAgrees`.

`LocksNeverCircle` needs the last step of an argument: if handlers post, the holder of
R waits for nobody; a worker or a connect thread waits for R only; the owner of C
waits for R, for a worker or for the scheduler, and the scheduler for nobody.  So no
chain of waiting comes back.

`PeriodicTasksProofs` proves `FeedsStayInOrder` and `OneJobOfATask` for feeds of any length and any intervals that have a longest one
(`PeriodicAssumption`; the code has one for each task).  The sequence number of a feed travels: it is with the scheduler, in a queued
job or with the worker.  The invariant says that it is in one place only and there
is a number up to which the handlers have seen the feed (`AsFar`), exactly the last
one while no receive has given up; that a task has one job, and
only while it is pending (`GoodQueue`), is what makes this a place; and that the
numbers of the client's notices are consecutive (`ClientInv`) makes what is newer than
a number the end of the list (`AfterIsASuffix`).  While no receive has given up the
connection holds nothing but the request of the worker's job or the answer to it
(`InStep`).  After that an answer may be read by any later job; but it continues the
feed where its request started, which the handlers had seen by then (`GoodAnswer`),
and that is all the first part of `FeedsInOrder` needs.

`WoinccmdProofs` proves `TruthUntilFailure` and `GoodPasswordIsNeverRefused` for any
number of commands, from `ConnectionAssumption`.  Until an exchange fails, the two streams
hold nothing but the one exchange the worker is in, in one of four states (`Streams`):
the request is on its way (`Asked`), the reply and its end mark are (`Answered`), its
body has been read (`PartlyRead`), or the client has closed the connection (`Lost`).
Hence what is judged is the client's answer to this request (`AnswerIsOwn`), and in the
second exchange of an authorization the nonce is still the latest (`Authorizing`).

Its second half adds the program: `FirstFailureEnds` says that after a failed exchange
`woinccmd` sends nothing more and can only end with a failure.  Together with the
connection's invariant, whose steps are proved once and used in both, it gives
`WoinccmdIsTruthful` without the condition that no exchange has failed, for any line,
host and number of polls; `BothUsersAreToldTheTruth` states the properties of the
connection for the composition that the run checks.

What `woinccmd` reads from its arguments is proved in the same module, for any set of
command lines and of host texts (`WoinccmdAssumption`: a line is made of options, commands
and the three kinds of other words, a host text of the five kinds of letters `parse_host`
tells apart).  `ArgumentsRead` follows from `ArgumentsInv`: between two readings the rest of
the line is the line without the `--host` and `--passwd` words that were read, and the text of the
host could be parsed.  The heart of it is `ParsedIsSaid`: taking a
text apart at its first or last colon or bracket and putting host and port together again
gives the text, which is reasoning about places in sequences (`FirstAndLast`, `PartAt`,
`TakenApart`).  `PlainTextIsMeaningful` is the other direction, and `WordsAreRead` compares
the words after a command with the usage.

`GuiProofs` proves the four safety properties of `Gui` for any hosts, scenarios and queues
of any length and any finite number of projects.  The assumptions are `ScenarioAssumption`,
that a scenario is about hosts and projects there are, and `ModelAssumption`, that no host
is `NoHost` and projects are the numbers from 1 on, in the order of their names.

* `SlotsFindTheirHost`: an event is handled long after it was emitted, and the model
  handler looks its host up (`find_host_model_`).  `QueueInv` says for each place of the
  queue which hosts will be known when it is reached (`Knows`): an addition lies before it
  and no removal in between, or the host is known now and no removal lies before it.  Every
  event but an addition is queued while its host is known at the end of the queue.  That
  a removal is the last event of a host is the argument: its worker has been joined.
* `TabsShowTheSelectedHost`: from `ShownInv`; what is shown is a message or notice of
  the selected host also one by one.
* `HostsGetTheirPassword`: from `LoginInv`; the logins of a host are those of its last
  addition and none is kept of a host that is gone, unless an attempt that failed left
  some behind (`OwnLogins`).
* `ChartsFollowTheSelection` (`ChartsShowSelection`): from `TabInv`, which is `Consistent`
  of `StatisticsTabProofs`.  There each operator of the tab is shown to lead from a
  consistent tab to a consistent one, or to a failed lookup.  Two things make it more than
  the property: in the middle of a call the parts do not agree, so `Leaving` says what
  holds after a project was forgotten and before its item is off the list; and
  `Listed` alone, without the charts, is what the loop of `update_statistics` keeps, since the
  statistics are replaced before it.  The loop is a recursive function over the
  numbers; that it has a value at each of them is proved by the least number where it
  would have none (`LoopRuns`, `LoopsAgree`, `AllGoAwayLoops`), and the invariant along it
  in the same way (`AllGone`).  That next and previous select one project only is a fact
  about cardinalities (`RowsDiffer`).

`DialogsProofs` proves the five safety properties of `Settings` and `AddProjectWizard` for
any preferences and projects and any number of dialogs, jobs, changes by others, visits
of a page, polls and given up requests (`SettingsAssumption` and `WizardAssumption`:
these are numbers).

* `DialogsOutliveTheirAnswers`: from `FlowInv`.  At most one job is subscribed, the one
  that runs or the next one; it is the one that is waited for, and the event log
  dialog waits for nothing but its own commands.
* `SavedIsDelivered`: from `DeliverInv`, which follows what was saved on its way (`OnItsWay`):
  it is in the job that is subscribed, then in the override file and, once that is read
  again, in the client's working preferences.  Older saves may still be queued
  or running; the first of them that reaches the client after the new one ends what
  is claimed (`Overtakes`).
* `SavingKeepsUnreadOptions`, an action property: the second half of `SetCCConfig` writes
  what its first half has read, so only a change in between can be lost.
* `ProjectsAreAttachedAsShown` and `PagesWaitForSomething`: from `WizardInv`.  As long as the
  user leaves no page with an answer on its way, the wizard does exactly one thing: it
  rests (`Resting`), has one request or its answer (`Asking`), a timer (`Timing`), an error box
  that is open (`Erring`) or one queued step of the pages (`Moving`).  Beside that there may
  be any number of requests nobody waits for, queued, running or overtaken.  What is
  said about projects and keys holds while nothing was replaced or is out of step
  (`Straight`); that the pages wait for something does not need it.

Model-checked only: liveness (`QueuedJobIsServed`, `ShutdownTerminates`, `ShutdownCompletes`,
`RemovalCompletes`, `PendingTaskEnds`, `MessagesAreShown`, `LatestSettingIsShown`, `FallsSilent`,
`EverythingEnds`, `TabsCatchUp`, `GuiThaws`), since fairness is out of the prover's reach.
Every invariant and action property of a passing run is a theorem.  The type invariants
(`TypeOK`, `UpdaterTypeOK`) are in no run of their own and are proved.  The modules of the
GUI's models and dialogs have none, the types their proofs need are conjuncts of the
invariants above.

## Findings

Where the code does not do what its comments say; each has a run that shows it.

1. `direct_calls_deadlock`: `handler.h:35` asks handlers to authorize the host in the
   callback; with a removal under way this is a circular wait (R is held by the
   callback, C by the removal).
2. `removal_during_job`: removing a host while its worker runs a periodic job makes
   `tasks_.at(host)` throw in the worker, which terminates the process.
3. `saving_flags`: saving the log flags takes the exclusive applications out of
   `cc_config.xml` and puts them back as `exclusive__app` (`rpc_command.cc:616`), which
   nobody reads, although `rpc_command.cc:537` means to keep everything else.
4. `removed_statistics`: if two selected projects lose their statistics in one answer,
   the statistics tab announces the first while the second is still selected, and
   the lookup of its statistics fails (`statistics_tab.cc:223`).

Seen while modelling; the models have these steps, and but for the first of `woinccmd`
no sentence of the repository promises otherwise:

* `libwoincui`: jobs name their host by the url it was connected by (`client.cc:30`),
  everything else by its name; commands are served newest first; jobs scheduled on
  a host that is not connected are accepted and never run; a second
  `async_remove_host` of a host, or one after `shutdown()`, throws in a detached thread
  (`controller.cc:643`); the connect thread keeps a plain pointer a removal may
  destroy (`controller.cc:261`); detached threads may outlive the controller object.
* `woincqt`: `trigger_client_shutdown` blocks the GUI thread, for good if the host has
  no worker; a request to update a host that is gone throws out of a slot; after the
  removal of the selected host none is selected; the events tab clears its rows
  without telling its view (`events_tab.cc:116`); a second error of a host is a second
  removal.
* preferences: a limit that is not checked is left out of the override file, or 0
  for the disk and the CPU; days of the week are never written, for nothing sets
  their mask; times of day are shown as 0 to 23.983, the default span
  (`preferences_dialog.cc:49`), but saved as 0 to 0 until they are changed; the handler of the transfer period refers to a parameter that is gone
  (`preferences_dialog.cc:107`); if the client fails to read the file nobody is told.
* event log options: what is written is the configuration as it was loaded, so other
  known options set meanwhile are undone.
* wizard: an error of the list of projects closes a page only; the account key of a
  lookup that was started for one project may come back for the next, if the user goes
  back while it is waited for or if its start was given up and is run later.
* commands and settings that were given up after 30 seconds are run all the same,
  after newer ones; a receive that gave up leaves its answer to the next job of the
  host, from then on each job may read the answer to the one before it.
* tabs: what the dialog of a task's properties shows beyond the columns is as old as the
  last change of a column.
* `woinccmd`: `--set_gpu_mode` and `--set_network_mode` take a mode without a duration
  (`main.cc:1469`, `main.cc:1477`), which sets it with 0, although the usage shows the
  duration as one of their words, without the brackets it has around that of
  `--set_run_mode` (`main.cc:222`, `main.cc:224`, `main.cc:226`);
  a line that ends where an option may follow, and `--get_statistics`
  alone, look at the first of no words (`main.cc:856`, `main.cc:1500`); `[h]:` is read as
  the host `h]`; an operation that fails prints so and exits with success; a project
  detached between the two requests of `--get_statistics` is looked up and used.
* inserting into the map of host controllers races with the scheduler's lookup of
  another host, which is undefined behaviour in C++ and not modelled.

## Not modelled, and the plan

The order of the work was: `JobService`, `JobQueue`, `HostController` with proofs,
`Controller`, `PeriodicTasks`, `RpcConnection`; then `TabModelUpdater` with proofs and
`Tabs`, `Settings`, `AddProjectWizard`, `ModelHandler`, `StatisticsTab`, `Gui`,
`CommandLine` and `Woinccmd`.

What could be added: resolving a name and falling back to another address family
in `Connection::open` (it loops over a list and its state is local), and
registering handlers at run time (the GUI does so before any host is added).

Left out for good: the fields of the XML messages and their conversion (data
without control, covered by unit tests) but for defaults that matter, md5 (a
published function), drawing, the property dialogs and the tabs for notices and
disk usage (they rebuild what they show from the last signal), menus, what
`woinccmd` prints of an answer, logging.
