----------------------------- MODULE Controller -----------------------------
(***************************************************************************)
(* woinc::ui::Controller (libui/src/controller.cc) with the host           *)
(* controllers, the periodic tasks scheduler, the configuration and the    *)
(* handler registry it owns, and the threads that meet in it:              *)
(*   <<"caller", c>>  a thread of the program that uses the library;       *)
(*   <<"conn", i>>    the detached connect thread of one added host;       *)
(*   <<"work", i>>    the worker thread of that host;                      *)
(*   <<"rm", k>>      a detached thread of async_remove_host;              *)
(*   <<"sched", 0>>   the periodic tasks scheduler.                        *)
(* A host that is removed and added again gets a new HostController; i is  *)
(* such an incarnation, <<host, n>> for the n-th time host is added.       *)
(*                                                                         *)
(* Two mutexes are held across blocking calls and callbacks: the           *)
(* controller's (ctrlLock) and the registry's (regLock).  The mutexes of   *)
(* the scheduler context, the configuration and the job queues are only    *)
(* held for sections that never block and nest in one order (context, then *)
(* configuration or queue), so such a section is part of one action.  The  *)
(* condition variable of the job queue is the subject of HostController,   *)
(* which shows that a queue behaves as the one here.                       *)
(*                                                                         *)
(* The handlers do what woinc/ui/handler.h asks of them.  In a direct      *)
(* scenario they call the controller from inside the callback; in the      *)
(* others they post an event and a caller makes the call later, as         *)
(* ui/qt/adapter.cc does.                                                  *)
(*                                                                         *)
(* A host is added under its own url, as the GUI does: the jobs know it by *)
(* the url (Client::host), everybody else by its name.                     *)
(***************************************************************************)
EXTENDS Naturals, Sequences, FiniteSets

CONSTANTS
  Hosts,         \* host names
  Tasks,         \* periodic tasks (the code has nine)
  Callers,       \* threads that use the public interface
  None,          \* no thread holds the lock, no task
  Scenarios,     \* what is looked at together: the hosts, how often one is added
                 \* (adds), what the callers may call (ops) and whether the
                 \* handlers call back or post events (direct)
  MaxAdds,       \* bound: how often one host is added in any scenario
  MaxRemovals,   \* bound: detached removal threads at a time
  MaxQueue,      \* bound: no new command while a queue is that long
  MaxErrors      \* bound: failing jobs

AllOps == {"add", "remove", "async_remove", "command", "shutdown"}

ASSUME ControllerAssumption ==
  /\ Scenarios \subseteq [hosts : SUBSET Hosts, adds : 0..MaxAdds, ops : SUBSET AllOps,
                          direct : BOOLEAN]
  /\ MaxAdds \in Nat /\ MaxRemovals \in Nat /\ MaxQueue \in Nat /\ MaxErrors \in Nat

Inc == Hosts \X (1..MaxAdds)

CallerThreads == {"caller"} \X Callers
ConnThreads == {"conn"} \X Inc
WorkThreads == {"work"} \X Inc
RemoveThreads == {"rm"} \X (1..MaxRemovals)
Scheduler == <<"sched", 0>>
Thread == CallerThreads \cup ConnThreads \cup WorkThreads \cup RemoveThreads \cup {Scheduler}

ASSUME NoThreadIsNone == None \notin Thread

VARIABLES
  scenario,          \* the scenario of this behaviour; never changes
  ctrlLock,          \* who holds Controller::Impl::mutex_
  regLock,           \* who holds HandlerRegistry::mutex_
  shutdown,          \* shutdown_
  schedShutdown,     \* shutdown_triggered_
  hostControllers,   \* host_controllers_: the incarnation of each host, 0 without one
  adds,              \* how often each host was added
  config,            \* host_configurations_: schedule_periodic_tasks of each host
  known,             \* the hosts in tasks_ and states_ of the scheduler context
  pending,           \* the tasks of each known host with the pending flag set
  queue,             \* job_queue_ of each incarnation
  closed,            \* shutdown_ of that queue
  joinable,          \* worker_thread_.joinable() of each incarnation
  alive,             \* the life of each HostController object
  job,               \* the job each worker runs
  pc,                \* where each thread is
  call,              \* the public operation a thread is in
  cb,                \* the callback a thread delivers
  inbox,             \* calls the handlers have posted
  errors,            \* number of failed jobs
  crash,             \* why the process was terminated, "no" if it was not
  gone               \* the Controller object has been destroyed

ctrlVars == <<scenario, shutdown, hostControllers, adds, config>>
schedVars == <<schedShutdown, known, pending>>
hostVars == <<queue, closed, joinable, alive, job>>
lockVars == <<ctrlLock, regLock>>
uiVars == <<inbox, errors, crash, gone>>
vars == <<ctrlVars, schedVars, hostVars, lockVars, uiVars, pc, call, cb>>

-----------------------------------------------------------------------------
(* Types.                                                                  *)

Job == [kind : {"auth", "async"}, task : {None}] \cup [kind : {"periodic"}, task : Tasks]
Periodic(t) == [kind |-> "periodic", task |-> t]
AuthJob == [kind |-> "auth", task |-> None]
AsyncJob == [kind |-> "async", task |-> None]
NoJob == [kind |-> "none", task |-> None]

Call == [op : AllOps \cup {"authorize", "schedule", "none"}, host : Hosts \cup {None}]
NoCall == [op |-> "none", host |-> None]
MkCall(op, h) == [op |-> op, host |-> h]

\* The callbacks of HostHandler, and on_update for all periodic tasks.
CallbackKinds == {"added", "removed", "connected", "authorized", "auth_failed", "error", "update"}
Callback == [kind : CallbackKinds \cup {"none"}, host : Hosts \cup {None}]
NoCallback == [kind |-> "none", host |-> None]
MkCallback(kind, h) == [kind |-> kind, host |-> h]

Places ==
  {"unused", "idle", "enter", "add_context", "add_spawn", "rm_context", "rm_close", "rm_join", "rm_erase",
   "rm_config", "sd_join", "sd_next", "connect", "notify", "callback", "leaving", "pop", "run",
   "post", "loop", "exited"}

Crashes == {"no", "post_execution", "remove_unknown", "remove_after_shutdown",
            "use_after_destroy", "controller_destroyed"}

TypeOK ==
  /\ scenario \in Scenarios
  /\ ctrlLock \in Thread \cup {None}
  /\ regLock \in Thread \cup {None}
  /\ shutdown \in BOOLEAN
  /\ schedShutdown \in BOOLEAN
  /\ hostControllers \in [Hosts -> 0..MaxAdds]
  /\ adds \in [Hosts -> 0..MaxAdds]
  /\ config \in [Hosts -> {"absent", "off", "on"}]
  /\ known \subseteq Hosts
  /\ pending \in [Hosts -> SUBSET Tasks]
  /\ queue \in [Inc -> Seq(Job)]
  /\ closed \in [Inc -> BOOLEAN]
  /\ joinable \in [Inc -> BOOLEAN]
  /\ alive \in [Inc -> {"unborn", "alive", "destroyed"}]
  /\ job \in [Inc -> Job \cup {NoJob}]
  /\ pc \in [Thread -> Places]
  /\ call \in [Thread -> Call]
  /\ cb \in [Thread -> Callback]
  /\ inbox \in Seq(Call)
  /\ errors \in 0..MaxErrors
  /\ crash \in Crashes
  /\ gone \in BOOLEAN

Init ==
  /\ scenario \in Scenarios
  /\ ctrlLock = None
  /\ regLock = None
  /\ shutdown = FALSE
  /\ schedShutdown = FALSE
  /\ hostControllers = [h \in Hosts |-> 0]
  /\ adds = [h \in Hosts |-> 0]
  /\ config = [h \in Hosts |-> "absent"]
  /\ known = {}
  /\ pending = [h \in Hosts |-> {}]
  /\ queue = [i \in Inc |-> <<>>]
  /\ closed = [i \in Inc |-> FALSE]
  /\ joinable = [i \in Inc |-> FALSE]
  /\ alive = [i \in Inc |-> "unborn"]
  /\ job = [i \in Inc |-> NoJob]
  /\ pc = [t \in Thread |-> IF t \in CallerThreads THEN "idle"
                            ELSE IF t = Scheduler THEN "loop" ELSE "unused"]
  /\ call = [t \in Thread |-> NoCall]
  /\ cb = [t \in Thread |-> NoCallback]
  /\ inbox = <<>>
  /\ errors = 0
  /\ crash = "no"
  /\ gone = FALSE

-----------------------------------------------------------------------------
(* Helpers.                                                                *)

HasHost(h) == h \in Hosts /\ hostControllers[h] # 0

\* The incarnation of a registered host.
IncOf(h) == <<h, hostControllers[h]>>

Goto(t, place) == pc' = [pc EXCEPT ![t] = place]

\* A public operation ends: a handler goes back to its callback.
AfterCall(t) ==
  CASE t \in CallerThreads -> "idle"
    [] t \in RemoveThreads -> "unused"
    [] OTHER -> "leaving"

Returns(t) ==
  /\ Goto(t, AfterCall(t))
  /\ call' = [call EXCEPT ![t] = NoCall]

\* t calls into the registry to deliver a callback about host h.
Delivers(t, kind, h) ==
  /\ Goto(t, "notify")
  /\ cb' = [cb EXCEPT ![t] = MkCallback(kind, h)]

Terminates(reason) ==
  /\ crash' = reason
  /\ UNCHANGED <<ctrlVars, schedVars, hostVars, lockVars, inbox, errors, gone, pc, call, cb>>

\* Append a job to the queue of incarnation i, which drops it once it is closed.
PushBack(i, j) == queue' = [queue EXCEPT ![i] = IF closed[i] THEN @ ELSE Append(@, j)]
PushFront(i, j) == queue' = [queue EXCEPT ![i] = IF closed[i] THEN @ ELSE <<j>> \o @]

-----------------------------------------------------------------------------
(* Callers.                                                                *)

\* A caller enters a public operation that locks the controller.
StartCall(t, c) ==
  /\ pc[t] = "idle"
  /\ Goto(t, "enter")
  /\ call' = [call EXCEPT ![t] = c]

\* Bound: h is added scenario.adds times at most, and not while a caller waits for
\* the lock to add it, which would be the same as to call add_host afterwards.
MayAdd(h) ==
  /\ adds[h] < scenario.adds
  /\ \A u \in CallerThreads : pc[u] = "enter" => call[u] # MkCall("add", h)

UserCalls(t) ==
  \E h \in scenario.hosts :
    /\ \/ "add" \in scenario.ops /\ MayAdd(h) /\ StartCall(t, MkCall("add", h))
       \/ "remove" \in scenario.ops /\ StartCall(t, MkCall("remove", h))
       \/ /\ "command" \in scenario.ops
          /\ HasHost(h) => Len(queue[IncOf(h)]) < MaxQueue
          /\ StartCall(t, MkCall("command", h))
       \/ "shutdown" \in scenario.ops /\ ~shutdown /\ StartCall(t, MkCall("shutdown", None))
    /\ UNCHANGED <<ctrlVars, schedVars, hostVars, lockVars, uiVars, cb>>

\* async_remove_host starts a thread, which calls async_remove_host_.
SpawnRemoval(h, pcs) ==
  \E k \in 1..MaxRemovals :
    /\ pcs[<<"rm", k>>] = "unused"
    /\ pc' = [pcs EXCEPT ![<<"rm", k>>] = "enter"]
    /\ call' = [call EXCEPT ![<<"rm", k>>] = MkCall("async_remove", h)]

UserRemovesAsync(t) ==
  /\ "async_remove" \in scenario.ops
  /\ pc[t] = "idle"
  /\ \E h \in scenario.hosts : SpawnRemoval(h, pc)
  /\ UNCHANGED <<ctrlVars, schedVars, hostVars, lockVars, uiVars, cb>>

\* The caller makes the oldest call the handlers have posted.
HandlesEvent(t) ==
  /\ pc[t] = "idle"
  /\ inbox # <<>>
  /\ inbox' = Tail(inbox)
  /\ \/ Head(inbox).op = "async_remove" /\ SpawnRemoval(Head(inbox).host, pc)
     \/ Head(inbox).op # "async_remove" /\ StartCall(t, Head(inbox))
  /\ UNCHANGED <<ctrlVars, schedVars, hostVars, lockVars, errors, crash, gone, cb>>

\* The last use of the controller: its destructor, after shutdown() returned.
DestroyController(t) ==
  /\ shutdown /\ ~gone
  /\ ctrlLock = None
  /\ \A c \in CallerThreads : pc[c] = "idle"
  /\ t \in CallerThreads
  /\ gone' = TRUE
  /\ UNCHANGED <<ctrlVars, schedVars, hostVars, lockVars, inbox, errors, crash, pc, call, cb>>

-----------------------------------------------------------------------------
(* Operations that do their work under the controller's lock at once.      *)

\* t is about to lock the controller, which nobody holds.
Enters(t, ops) ==
  /\ pc[t] = "enter"
  /\ ctrlLock = None
  /\ call[t].op \in ops

\* ... and the checks of the operation pass.
Verified(t, ops) == Enters(t, ops) /\ ~shutdown /\ HasHost(call[t].host)

\* verify_not_shutdown_, verify_known_host_ or the duplicate check of add_host
\* throw; the caller gets the exception.
CallThrows(t) ==
  /\ \/ Enters(t, {"authorize", "schedule", "command", "remove"})
        /\ (shutdown \/ ~HasHost(call[t].host))
     \/ Enters(t, {"add"}) /\ (shutdown \/ HasHost(call[t].host))
  /\ Returns(t)
  /\ UNCHANGED <<ctrlVars, schedVars, hostVars, lockVars, uiVars, cb>>

AuthorizeHost(t) ==
  /\ Verified(t, {"authorize"})
  /\ PushBack(IncOf(call[t].host), AuthJob)
  /\ Returns(t)
  /\ UNCHANGED <<ctrlVars, schedVars, closed, joinable, alive, job, lockVars, uiVars, cb>>

SchedulePeriodicTasks(t) ==
  /\ Verified(t, {"schedule"})
  /\ config' = [config EXCEPT ![call[t].host] = "on"]
  /\ Returns(t)
  /\ UNCHANGED <<scenario, shutdown, hostControllers, adds, schedVars, hostVars, lockVars, uiVars, cb>>

\* Any of the operations built on create_and_schedule_async_job_.  That some of
\* them go on to reschedule a task is a matter of PeriodicTasks.
Command(t) ==
  /\ Verified(t, {"command"})
  /\ PushFront(IncOf(call[t].host), AsyncJob)
  /\ Returns(t)
  /\ UNCHANGED <<ctrlVars, schedVars, closed, joinable, alive, job, lockVars, uiVars, cb>>

-----------------------------------------------------------------------------
(* add_host.                                                               *)

AddHost(t) ==
  /\ Enters(t, {"add"}) /\ ~shutdown /\ ~HasHost(call[t].host)
  /\ LET h == call[t].host IN
     /\ adds' = [adds EXCEPT ![h] = @ + 1]
     /\ hostControllers' = [hostControllers EXCEPT ![h] = adds[h] + 1]
     /\ config' = [config EXCEPT ![h] = "off"]
     /\ alive' = [alive EXCEPT ![<<h, adds[h] + 1>>] = "alive"]
  /\ ctrlLock' = t
  /\ Goto(t, "add_context")
  /\ UNCHANGED <<scenario, shutdown, schedVars, queue, closed, joinable, job, regLock, uiVars, call, cb>>

AddToContext(t) ==
  /\ pc[t] = "add_context"
  /\ known' = known \cup {call[t].host}
  /\ pending' = [pending EXCEPT ![call[t].host] = {}]
  /\ Delivers(t, "added", call[t].host)
  /\ UNCHANGED <<ctrlVars, schedShutdown, hostVars, lockVars, uiVars, call>>

\* The lock is released and the connect thread is started.
AddSpawns(t) ==
  /\ pc[t] = "add_spawn"
  /\ ctrlLock' = None
  /\ pc' = [pc EXCEPT ![t] = AfterCall(t), ![<<"conn", IncOf(call[t].host)>>] = "connect"]
  /\ call' = [call EXCEPT ![t] = NoCall]
  /\ UNCHANGED <<ctrlVars, schedVars, hostVars, regLock, uiVars, cb>>

-----------------------------------------------------------------------------
(* The connect thread.                                                     *)

ConnectFails(i) ==
  LET t == <<"conn", i>> IN
  /\ pc[t] = "connect"
  /\ alive[i] = "alive"
  /\ Delivers(t, "error", i[1])
  /\ UNCHANGED <<ctrlVars, schedVars, hostVars, lockVars, uiVars, call>>

ConnectSucceeds(i) ==
  LET t == <<"conn", i>> IN
  /\ pc[t] = "connect"
  /\ alive[i] = "alive"
  /\ joinable' = [joinable EXCEPT ![i] = TRUE]
  /\ pc' = [pc EXCEPT ![t] = "notify", ![<<"work", i>>] = "pop"]
  /\ cb' = [cb EXCEPT ![t] = MkCallback("connected", i[1])]
  /\ UNCHANGED <<ctrlVars, schedVars, queue, closed, alive, job, lockVars, uiVars, call>>

\* host_controller_ptr dangles: the host was removed while connect() ran.
ConnectInDestroyed(i) ==
  /\ pc[<<"conn", i>>] = "connect"
  /\ alive[i] = "destroyed"
  /\ Terminates("use_after_destroy")

-----------------------------------------------------------------------------
(* The worker thread of an incarnation.                                    *)

Work(i) == <<"work", i>>

WorkerPop(i) ==
  /\ pc[Work(i)] = "pop"
  /\ ~closed[i] /\ queue[i] # <<>>
  /\ job' = [job EXCEPT ![i] = Head(queue[i])]
  /\ queue' = [queue EXCEPT ![i] = Tail(@)]
  /\ Goto(Work(i), "run")
  /\ UNCHANGED <<ctrlVars, schedVars, closed, joinable, alive, lockVars, uiVars, call, cb>>

WorkerExit(i) ==
  /\ pc[Work(i)] = "pop"
  /\ closed[i]
  /\ Goto(Work(i), "exited")
  /\ UNCHANGED <<ctrlVars, schedVars, hostVars, lockVars, uiVars, call, cb>>

\* A command resolves its future and an update without messages is not told;
\* only periodic jobs have a post execution handler.
RunQuietly(i) ==
  /\ pc[Work(i)] = "run"
  /\ \/ job[i].kind = "async" /\ Goto(Work(i), "pop") /\ job' = [job EXCEPT ![i] = NoJob]
     \/ job[i].kind = "periodic" /\ Goto(Work(i), "post") /\ UNCHANGED job
  /\ UNCHANGED <<ctrlVars, schedVars, queue, closed, joinable, alive, lockVars, uiVars, call, cb>>

\* The callbacks a job may end in.
Outcomes(j) ==
  CASE j.kind = "auth" -> {"authorized", "auth_failed", "error"}
    [] j.kind = "periodic" -> {"update", "error"}
    [] OTHER -> {}

Failures == {"auth_failed", "error"}

RunAndTell(i) ==
  /\ pc[Work(i)] = "run"
  /\ \E kind \in Outcomes(job[i]) :
       /\ kind \in Failures => errors < MaxErrors
       /\ errors' = IF kind \in Failures THEN errors + 1 ELSE errors
       /\ Delivers(Work(i), kind, i[1])
  /\ UNCHANGED <<ctrlVars, schedVars, hostVars, lockVars, inbox, crash, gone, call>>

\* Mutant: handle_post_execution leaves the pending flag.
PostExecutionStaysPending(i) ==
  /\ pc[Work(i)] = "post"
  /\ schedShutdown \/ i[1] \in known
  /\ job' = [job EXCEPT ![i] = NoJob]
  /\ Goto(Work(i), "pop")
  /\ UNCHANGED <<ctrlVars, schedVars, queue, closed, joinable, alive, lockVars, uiVars, call, cb>>

\* handle_post_execution, called by the worker after a periodic job.
PostExecution(i) ==
  /\ pc[Work(i)] = "post"
  /\ schedShutdown \/ i[1] \in known
  /\ pending' = IF schedShutdown THEN pending
                ELSE [pending EXCEPT ![i[1]] = @ \ {job[i].task}]
  /\ job' = [job EXCEPT ![i] = NoJob]
  /\ Goto(Work(i), "pop")
  /\ UNCHANGED <<ctrlVars, schedShutdown, known, queue, closed, joinable, alive, lockVars, uiVars,
                 call, cb>>

\* tasks_.at(host) throws and nobody in the worker catches it.
PostExecutionThrows(i) ==
  /\ pc[Work(i)] = "post"
  /\ ~schedShutdown /\ i[1] \notin known
  /\ Terminates("post_execution")

-----------------------------------------------------------------------------
(* The scheduler.  A pass that schedules several tasks is several steps;   *)
(* whether a task is due is a matter of time and left open.                *)

ScheduleTask(h, t) ==
  /\ pc[Scheduler] = "loop"
  /\ ~schedShutdown
  /\ h \in known
  /\ config[h] = "on"
  /\ t \notin pending[h]
  /\ pending' = [pending EXCEPT ![h] = @ \cup {t}]
  /\ PushBack(IncOf(h), Periodic(t))
  /\ UNCHANGED <<ctrlVars, schedShutdown, known, closed, joinable, alive, job, lockVars, uiVars,
                 pc, call, cb>>

SchedulerExit ==
  /\ pc[Scheduler] = "loop"
  /\ schedShutdown
  /\ Goto(Scheduler, "exited")
  /\ UNCHANGED <<ctrlVars, schedVars, hostVars, lockVars, uiVars, call, cb>>

-----------------------------------------------------------------------------
(* Callbacks: for_host_handler and for_periodic_task_handler.              *)

\* Mutant: the handlers are called without the registry's mutex.
TakeRegistryUnlocked(t) ==
  /\ pc[t] = "notify"
  /\ Goto(t, "callback")
  /\ UNCHANGED <<ctrlVars, schedVars, hostVars, lockVars, uiVars, call, cb>>

TakeRegistry(t) ==
  /\ pc[t] = "notify"
  /\ regLock = None
  /\ regLock' = t
  /\ Goto(t, "callback")
  /\ UNCHANGED <<ctrlVars, schedVars, hostVars, ctrlLock, uiVars, call, cb>>

\* What woinc/ui/handler.h asks a handler to do: authorize a connected host,
\* schedule the periodic tasks of an authorized one, try another password or
\* remove the host, remove a failing one.
Reactions(c) ==
  CASE c.kind = "connected" -> {MkCall("authorize", c.host)}
    [] c.kind = "authorized" -> {MkCall("schedule", c.host)}
    [] c.kind = "auth_failed" -> {MkCall("authorize", c.host), MkCall("async_remove", c.host)}
    [] c.kind = "error" -> {MkCall("async_remove", c.host)}
    [] OTHER -> {NoCall}

\* Mutant: a queued connection turned into a direct one.
HandlerPostsDirectly(t) ==
  /\ pc[t] = "callback"
  /\ \E r \in Reactions(cb[t]) :
       \/ r.op \in {"authorize", "schedule"} /\ Goto(t, "enter") /\ call' = [call EXCEPT ![t] = r]
       \/ r = NoCall /\ Goto(t, "leaving") /\ UNCHANGED call
  /\ UNCHANGED <<ctrlVars, schedVars, hostVars, lockVars, uiVars, cb>>

\* The handler posts an event for its reaction, or has none.
HandlerPosts(t) ==
  /\ pc[t] = "callback"
  /\ \E r \in Reactions(cb[t]) :
       \/ r = NoCall /\ UNCHANGED inbox
       \/ ~scenario.direct /\ r # NoCall /\ inbox' = Append(inbox, r)
  /\ Goto(t, "leaving")
  /\ UNCHANGED <<ctrlVars, schedVars, hostVars, lockVars, errors, crash, gone, call, cb>>

\* The handler calls the controller itself, the registry still being locked.
HandlerCalls(t) ==
  /\ pc[t] = "callback"
  /\ scenario.direct
  /\ \E r \in Reactions(cb[t]) :
       \/ r.op = "async_remove" /\ SpawnRemoval(r.host, [pc EXCEPT ![t] = "leaving"])
       \/ r.op \in {"authorize", "schedule"} /\ Goto(t, "enter") /\ call' = [call EXCEPT ![t] = r]
  /\ UNCHANGED <<ctrlVars, schedVars, hostVars, lockVars, uiVars, cb>>

\* Where a thread goes on after its callback.
AfterCallback(t) ==
  CASE cb[t].kind = "added" -> "add_spawn"
    [] cb[t].kind = "removed" -> "rm_config"
    [] t \in ConnThreads -> "exited"
    [] t \in WorkThreads -> IF job[t[2]].kind = "periodic" THEN "post" ELSE "pop"

LeaveCallback(t) ==
  /\ pc[t] = "leaving"
  /\ regLock' = None
  /\ Goto(t, AfterCallback(t))
  /\ cb' = [cb EXCEPT ![t] = NoCallback]
  /\ job' = IF t \in WorkThreads /\ AfterCallback(t) = "pop"
            THEN [job EXCEPT ![t[2]] = NoJob] ELSE job
  /\ UNCHANGED <<ctrlVars, schedVars, queue, closed, joinable, alive, ctrlLock, uiVars, call>>

-----------------------------------------------------------------------------
(* remove_host, async_remove_host and the loop of shutdown: remove_host_.  *)

RemoveHost(t) ==
  /\ \/ Verified(t, {"remove"})
     \/ Enters(t, {"async_remove"}) /\ ~shutdown
  /\ ctrlLock' = t
  /\ Goto(t, "rm_context")
  /\ UNCHANGED <<ctrlVars, schedVars, hostVars, regLock, uiVars, call, cb>>

\* ShutdownException leaves the detached thread.
AsyncRemoveThrows(t) ==
  /\ Enters(t, {"async_remove"}) /\ shutdown
  /\ Terminates("remove_after_shutdown")

\* Mutant: remove_host_ forgets the scheduler.
RemoveFromContextForgotten(t) ==
  /\ pc[t] = "rm_context"
  /\ Goto(t, "rm_close")
  /\ UNCHANGED <<ctrlVars, schedVars, hostVars, lockVars, uiVars, call, cb>>

RemoveFromContext(t) ==
  /\ pc[t] = "rm_context"
  /\ known' = known \ {call[t].host}
  /\ pending' = [h \in Hosts |-> IF h = call[t].host THEN {} ELSE pending[h]]
  /\ Goto(t, "rm_close")
  /\ UNCHANGED <<ctrlVars, schedShutdown, hostVars, lockVars, uiVars, call, cb>>

\* Mutant: HostController::shutdown does not shut the queue down.
CloseQueueStaysOpen(t) ==
  /\ pc[t] = "rm_close"
  /\ HasHost(call[t].host)
  /\ Goto(t, "rm_join")
  /\ UNCHANGED <<ctrlVars, schedVars, hostVars, lockVars, uiVars, call, cb>>

CloseQueue(t) ==
  /\ pc[t] = "rm_close"
  /\ HasHost(call[t].host)
  /\ closed' = [closed EXCEPT ![IncOf(call[t].host)] = TRUE]
  /\ Goto(t, "rm_join")
  /\ UNCHANGED <<ctrlVars, schedVars, queue, joinable, alive, job, lockVars, uiVars, call, cb>>

\* host_controllers_.at(host) throws: async_remove_host_ does not look whether
\* the host is known.
RemoveUnknownThrows(t) ==
  /\ pc[t] = "rm_close"
  /\ ~HasHost(call[t].host)
  /\ Terminates("remove_unknown")

\* Mutant: the worker thread is detached instead of joined.
JoinWorkerDetaches(t) ==
  /\ pc[t] = "rm_join"
  /\ joinable' = [joinable EXCEPT ![IncOf(call[t].host)] = FALSE]
  /\ Goto(t, "rm_erase")
  /\ UNCHANGED <<ctrlVars, schedVars, queue, closed, alive, job, lockVars, uiVars, call, cb>>

JoinWorker(t) ==
  LET i == IncOf(call[t].host) IN
  /\ pc[t] = "rm_join"
  /\ joinable[i] => pc[Work(i)] = "exited"
  /\ joinable' = [joinable EXCEPT ![i] = FALSE]
  /\ Goto(t, "rm_erase")
  /\ UNCHANGED <<ctrlVars, schedVars, queue, closed, alive, job, lockVars, uiVars, call, cb>>

\* The destructor shuts the host controller down again, so it joins a worker
\* that was started in the meantime.
EraseHost(t) ==
  LET i == IncOf(call[t].host) IN
  /\ pc[t] = "rm_erase"
  /\ joinable[i] => pc[Work(i)] = "exited"
  /\ joinable' = [joinable EXCEPT ![i] = FALSE]
  /\ alive' = [alive EXCEPT ![i] = "destroyed"]
  /\ queue' = [queue EXCEPT ![i] = <<>>]
  /\ hostControllers' = [hostControllers EXCEPT ![call[t].host] = 0]
  /\ Delivers(t, "removed", call[t].host)
  /\ UNCHANGED <<scenario, shutdown, adds, config, schedVars, closed, job, lockVars, uiVars, call>>

RemoveFromConfig(t) ==
  /\ pc[t] = "rm_config"
  /\ config' = [config EXCEPT ![call[t].host] = "absent"]
  /\ IF call[t].op = "shutdown"
     THEN Goto(t, "sd_next") /\ call' = [call EXCEPT ![t].host = None] /\ UNCHANGED ctrlLock
     ELSE Returns(t) /\ ctrlLock' = None
  /\ UNCHANGED <<scenario, shutdown, hostControllers, adds, schedVars, hostVars, regLock, uiVars, cb>>

-----------------------------------------------------------------------------
(* shutdown.                                                               *)

\* Mutant: the scheduler is joined without being told to stop.
ShutdownWithoutTrigger(t) ==
  /\ Enters(t, {"shutdown"})
  /\ ctrlLock' = t
  /\ shutdown' = TRUE
  /\ Goto(t, "sd_join")
  /\ UNCHANGED <<scenario, hostControllers, adds, config, schedVars, hostVars, regLock, uiVars, call, cb>>

Shutdown(t) ==
  /\ Enters(t, {"shutdown"})
  /\ ctrlLock' = t
  /\ shutdown' = TRUE
  /\ schedShutdown' = TRUE
  /\ Goto(t, "sd_join")
  /\ UNCHANGED <<scenario, hostControllers, adds, config, known, pending, hostVars, regLock, uiVars, call, cb>>

JoinScheduler(t) ==
  /\ pc[t] = "sd_join"
  /\ pc[Scheduler] = "exited"
  /\ Goto(t, "sd_next")
  /\ UNCHANGED <<ctrlVars, schedVars, hostVars, lockVars, uiVars, call, cb>>

\* cbegin()->first: the order of the hosts does not matter here.
RemoveNext(t) ==
  /\ pc[t] = "sd_next"
  /\ \E h \in Hosts :
       /\ HasHost(h)
       /\ call' = [call EXCEPT ![t].host = h]
       /\ Goto(t, "rm_context")
  /\ UNCHANGED <<ctrlVars, schedVars, hostVars, lockVars, uiVars, cb>>

ShutdownReturns(t) ==
  /\ pc[t] = "sd_next"
  /\ \A h \in Hosts : ~HasHost(h)
  /\ ctrlLock' = None
  /\ Returns(t)
  /\ UNCHANGED <<ctrlVars, schedVars, hostVars, regLock, uiVars, cb>>

\* A detached thread outlives the controller and goes on in it.
DetachedThreadInDestroyed ==
  /\ gone
  /\ \E t \in ConnThreads \cup RemoveThreads : pc[t] \notin {"unused", "exited"}
  /\ Terminates("controller_destroyed")

-----------------------------------------------------------------------------
(* The next-state relation.                                                *)

OperationStep(t) ==
  \/ CallThrows(t) \/ AuthorizeHost(t) \/ SchedulePeriodicTasks(t) \/ Command(t)
  \/ AddHost(t) \/ AddToContext(t) \/ AddSpawns(t)
  \/ RemoveHost(t) \/ AsyncRemoveThrows(t) \/ RemoveFromContext(t) \/ CloseQueue(t)
  \/ RemoveUnknownThrows(t) \/ JoinWorker(t) \/ EraseHost(t) \/ RemoveFromConfig(t)
  \/ Shutdown(t) \/ JoinScheduler(t) \/ RemoveNext(t) \/ ShutdownReturns(t)

CallbackStep(t) == TakeRegistry(t) \/ HandlerPosts(t) \/ HandlerCalls(t) \/ LeaveCallback(t)

ConnectStep(i) == ConnectFails(i) \/ ConnectSucceeds(i) \/ ConnectInDestroyed(i)

WorkerStep(i) ==
  \/ WorkerPop(i) \/ WorkerExit(i) \/ RunQuietly(i) \/ RunAndTell(i)
  \/ PostExecution(i) \/ PostExecutionThrows(i)

SchedulerStep ==
  \/ \E h \in Hosts, t \in Tasks : ScheduleTask(h, t)
  \/ SchedulerExit

CallerStep(t) == UserCalls(t) \/ UserRemovesAsync(t) \/ HandlesEvent(t) \/ DestroyController(t)

Running == crash = "no" /\ ~gone

\* The process is over, or nobody is inside the controller: the callers may
\* stay away for ever.
Finished ==
  \/ crash # "no"
  \/ \A c \in CallerThreads : pc[c] = "idle"

Next ==
  \/ Running /\ \/ \E t \in CallerThreads : CallerStep(t)
                \/ \E t \in Thread : OperationStep(t) \/ CallbackStep(t)
                \/ \E i \in Inc : ConnectStep(i) \/ WorkerStep(i)
                \/ SchedulerStep
  \/ crash = "no" /\ DetachedThreadInDestroyed
  \/ Finished /\ UNCHANGED vars

Spec == Init /\ [][Next]_vars

\* A thread that can go on does, and one that waits for a mutex gets it when it
\* is free again and again.  The callers handle the posted events, but need not
\* call anything else.
Fairness ==
  /\ \A t \in CallerThreads \cup RemoveThreads :
       SF_vars(Running /\ (OperationStep(t) \/ CallbackStep(t)))
  /\ \A i \in Inc :
       /\ WF_vars(Running /\ (ConnectStep(i) \/ CallbackStep(<<"conn", i>>)
                              \/ OperationStep(<<"conn", i>>)))
       /\ WF_vars(Running /\ (WorkerStep(i) \/ CallbackStep(Work(i)) \/ OperationStep(Work(i))))
  /\ WF_vars(Running /\ SchedulerExit)

FairSpec == Spec /\ Fairness

-----------------------------------------------------------------------------
(* Safety.                                                                 *)

\* The number of times periodic task t is in the hands of incarnation i.
InFlight(i, t) ==
  Cardinality({k \in DOMAIN queue[i] : queue[i][k] = Periodic(t)})
  + (IF job[i] = Periodic(t) THEN 1 ELSE 0)

\* What the controller, the configuration and the scheduler keep of a host agrees.
\* The scheduler looks a host up in host_controllers_ without the controller's
\* lock and in the configuration, with at() and assert: whoever is in tasks_ has
\* to be in both, at every moment.  The pending flag of a task is set exactly
\* while one job for it is queued or running, so no task is scheduled twice and
\* none is forgotten.
BookkeepingAgrees ==
  /\ \A h \in Hosts :
       /\ h \in known => HasHost(h)
       /\ HasHost(h) => config[h] # "absent"
  /\ ~schedShutdown =>
       \A h \in known, t \in Tasks :
         InFlight(IncOf(h), t) = (IF t \in pending[h] THEN 1 ELSE 0)

\* t is between the begin and the end of a callback.
InCallback(t) == cb[t].kind # "none" /\ pc[t] # "notify"

\* handler.h: a handler is not called more than once at the same time, and not
\* concurrently to on_host_removed.
CallbacksExclusive ==
  \A t, u \in Thread : InCallback(t) /\ InCallback(u) => t = u

\* A worker only runs jobs and delivers callbacks while its host controller
\* exists: the host is told to be removed after the last update.
WorkerOutlivedByHost ==
  \A i \in Inc :
    (pc[Work(i)] \in {"pop", "run", "notify", "callback", "leaving", "enter", "post"})
      => alive[i] = "alive"

\* t waits for u: for a mutex u holds or for the end of thread u.
WaitsFor(t, u) ==
  \/ pc[t] = "enter" /\ ctrlLock = u
  \/ pc[t] = "notify" /\ regLock = u
  \/ /\ pc[t] \in {"rm_join", "rm_erase"}
     /\ u = Work(IncOf(call[t].host))
     /\ joinable[IncOf(call[t].host)] /\ pc[u] # "exited"
  \/ pc[t] = "sd_join" /\ u = Scheduler /\ pc[u] # "exited"

\* A set of threads that waits for itself.
CircularWait ==
  LET Blocked == {t \in Thread : \E u \in Thread : WaitsFor(t, u)} IN
  \E D \in SUBSET Blocked : D # {} /\ \A t \in D : \E u \in D : WaitsFor(t, u)

\* The locks and joins of the controller never close a circle, if the handlers post
\* their calls.
NoCircularWait == scenario.direct \/ ~CircularWait

\* handler.h: a handler should authorize the host in on_host_connected and schedule
\* the periodic tasks in on_host_authorized.
HandlersMayCall == ~CircularWait

\* handler.h: on_host_error at any step, and the handler removes the host: no
\* removal may find the scheduler's data of a running job gone.
RemovalWaitsForJobs == crash # "post_execution"

-----------------------------------------------------------------------------
(* Liveness, under FairSpec.                                               *)

\* shutdown() returns, unless the process is terminated first.
ShutdownCompletes ==
  \A t \in CallerThreads :
    (call[t].op = "shutdown") ~> (call[t].op = "none" \/ crash # "no")

\* A removal ends with the host gone from every map.
RemovalCompletes ==
  \A t \in CallerThreads \cup RemoveThreads :
    (pc[t] = "rm_context") ~> (pc[t] \in {"rm_config", "unused", "idle"} \/ crash # "no")

\* A scheduled task is eventually executed or its host is removed, unless the
\* callers go on with commands, which overtake it in the queue.
PendingTaskEnds ==
  \A h \in Hosts, t \in Tasks :
    (t \in pending[h]) ~>
      \/ t \notin pending[h] \/ schedShutdown \/ crash # "no"
      \/ \E c \in CallerThreads : call[c].op = "command"
=============================================================================
