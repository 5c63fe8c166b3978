--------------------------- MODULE HostController ---------------------------
(***************************************************************************)
(* woinc::ui::HostController (libui/src/host_controller.cc) with its job   *)
(* queue, its client and its worker thread.  Four parties meet here:       *)
(*   - producers, which schedule jobs (the API callers of the controller   *)
(*     and the periodic tasks scheduler);                                  *)
(*   - the connector, the detached thread of Controller::add_host that     *)
(*     runs connect() and starts the worker;                               *)
(*   - the worker, which pops and runs jobs;                               *)
(*   - the owner, which runs shutdown() and then the destructor            *)
(*     (Controller::remove_host_).                                         *)
(*                                                                         *)
(* The life of every job is kept in `status'; a job's future is resolved   *)
(* when it is settled, and broken when the job object is destroyed first.  *)
(***************************************************************************)
EXTENDS JobQueue, FiniteSets

CONSTANTS
  Producers,            \* threads that schedule jobs
  AsyncJobs,            \* jobs for schedule_now (push_front)
  BackJobs,             \* authorization and periodic jobs, for schedule (push_back)
  NoJob                 \* no current job

Jobs == AsyncJobs \cup BackJobs

ASSUME JobsAssumption ==
  /\ AsyncJobs \cap BackJobs = {}
  /\ NoJob \notin Jobs

VARIABLES
  connected,   \* client_.connected_
  connector,   \* where the connect thread is
  worker,      \* where the worker thread is
  joinable,    \* worker_thread_.joinable()
  current,     \* the job the worker runs
  owner,       \* where the thread that removes the host is
  pass,        \* 1: shutdown() of remove_host_, 2: shutdown() of the destructor
  status,      \* the life of each job
  stamp,       \* history: the how-many-th accepted job a job is, 0 if it was not
  ticket,      \* history: the number of accepted jobs
  crashed,     \* a destroyed object was used, or a joinable thread destroyed
  early        \* history: the removal began before connect() had returned

hostVars == <<connected, connector, worker, joinable, current, owner, pass,
              status, stamp, ticket, crashed, early>>
vars == <<queueVars, hostVars>>

Status == {"new", "queued", "running", "settled", "rejected", "broken"}

Worker == "worker"    \* the thread that waits on the queue

TypeOK ==
  /\ jobs \in Seq(Jobs)
  /\ shutdown \in BOOLEAN
  /\ waiting \subseteq {Worker}
  /\ notifying \subseteq Producers
  /\ connected \in BOOLEAN
  /\ connector \in {"opening", "spawning", "assigning", "done"}
  /\ worker \in {"none", "pop", "running", "exited"}
  /\ joinable \in BOOLEAN
  /\ current \in Jobs \cup {NoJob}
  /\ owner \in {"open", "flag", "notify", "join", "disconnect", "destroy", "destroyed"}
  /\ pass \in {1, 2}
  /\ status \in [Jobs -> Status]
  /\ stamp \in [Jobs -> Nat]
  /\ ticket \in Nat
  /\ crashed \in BOOLEAN
  /\ early \in BOOLEAN

Init ==
  /\ QueueInit
  /\ connected = FALSE
  /\ connector = "opening"
  /\ worker = "none"
  /\ joinable = FALSE
  /\ current = NoJob
  /\ owner = "open"
  /\ pass = 1
  /\ status = [j \in Jobs |-> "new"]
  /\ stamp = [j \in Jobs |-> 0]
  /\ ticket = 0
  /\ crashed = FALSE
  /\ early = FALSE

-----------------------------------------------------------------------------
(* Producers.                                                              *)

\* The object still exists and p is not in the middle of a push.
MayPush(p, j) ==
  /\ owner # "destroyed"
  /\ p \notin notifying
  /\ status[j] = "new"

Accepted(j) ==
  /\ status' = [status EXCEPT ![j] = "queued"]
  /\ ticket' = ticket + 1
  /\ stamp' = [stamp EXCEPT ![j] = ticket + 1]
  /\ UNCHANGED <<connected, connector, worker, joinable, current, owner, pass, crashed, early>>

ScheduleNow(p, j) ==
  /\ j \in AsyncJobs
  /\ MayPush(p, j)
  /\ PushFront(p, j)
  /\ Accepted(j)

Schedule(p, j) ==
  /\ j \in BackJobs
  /\ MayPush(p, j)
  /\ PushBack(p, j)
  /\ Accepted(j)

ScheduleRefused(p, j) ==
  /\ MayPush(p, j)
  /\ PushRefused
  /\ status' = [status EXCEPT ![j] = "rejected"]
  /\ UNCHANGED <<connected, connector, worker, joinable, current, owner, pass,
                 stamp, ticket, crashed, early>>

Notify(p) == NotifyOne(p) /\ UNCHANGED hostVars

-----------------------------------------------------------------------------
(* The connector: connect().                                               *)

ConnectFails ==
  /\ owner # "destroyed"
  /\ connector = "opening"
  /\ connector' = "done"
  /\ UNCHANGED <<queueVars, connected, worker, joinable, current, owner, pass,
                 status, stamp, ticket, crashed, early>>

ConnectSucceeds ==
  /\ owner # "destroyed"
  /\ connector = "opening"
  /\ connector' = "spawning"
  /\ connected' = TRUE
  /\ UNCHANGED <<queueVars, worker, joinable, current, owner, pass,
                 status, stamp, ticket, crashed, early>>

\* The constructor of std::thread starts the worker ...
SpawnWorker ==
  /\ owner # "destroyed"
  /\ connector = "spawning"
  /\ connector' = "assigning"
  /\ worker' = "pop"
  /\ UNCHANGED <<queueVars, connected, joinable, current, owner, pass,
                 status, stamp, ticket, crashed, early>>

\* ... before worker_thread_ is assigned.
AssignWorker ==
  /\ owner # "destroyed"
  /\ connector = "assigning"
  /\ connector' = "done"
  /\ joinable' = TRUE
  /\ UNCHANGED <<queueVars, connected, worker, current, owner, pass,
                 status, stamp, ticket, crashed, early>>

\* connect() goes on in an object that is gone.
ConnectInDestroyed ==
  /\ owner = "destroyed"
  /\ connector # "done"
  /\ crashed' = TRUE
  /\ UNCHANGED <<queueVars, connected, connector, worker, joinable, current, owner,
                 pass, status, stamp, ticket, early>>

-----------------------------------------------------------------------------
(* The worker: pops jobs until it gets none and runs each on the client.   *)

WorkerWait ==
  /\ worker = "pop"
  /\ PopWait(Worker)
  /\ UNCHANGED hostVars

WorkerTake ==
  /\ worker = "pop"
  /\ PopJob(Worker)
  /\ worker' = "running"
  /\ current' = Head(jobs)
  /\ status' = [status EXCEPT ![Head(jobs)] = "running"]
  /\ UNCHANGED <<connected, connector, joinable, owner, pass, stamp, ticket, crashed, early>>

WorkerFinish ==
  /\ worker = "running"
  /\ worker' = "pop"
  /\ current' = NoJob
  /\ status' = [status EXCEPT ![current] = "settled"]
  /\ UNCHANGED <<queueVars, connected, connector, joinable, owner, pass, stamp, ticket,
                 crashed, early>>

WorkerExit ==
  /\ worker = "pop"
  /\ PopNothing(Worker)
  /\ worker' = "exited"
  /\ UNCHANGED <<connected, connector, joinable, current, owner, pass, status, stamp,
                 ticket, crashed, early>>

WorkerSpuriousWakeup == SpuriousWakeup(Worker) /\ UNCHANGED hostVars

-----------------------------------------------------------------------------
(* The owner: shutdown() in two passes, then the members are destroyed.    *)

OwnerTo(place) ==
  /\ owner' = place
  /\ UNCHANGED <<connector, worker, current, stamp, ticket>>

\* The first pass is started by the controller, the second by the destructor.
ShutdownQueue ==
  /\ \/ owner = "open" /\ early' = (connector # "done")
     \/ owner = "flag" /\ UNCHANGED early
  /\ SetShutdown
  /\ OwnerTo("notify")
  /\ UNCHANGED <<connected, joinable, pass, status, crashed>>

WakeWorker ==
  /\ owner = "notify"
  /\ NotifyAll
  /\ OwnerTo("join")
  /\ UNCHANGED <<connected, joinable, pass, status, crashed, early>>

\* Mutant: the worker thread is detached instead of joined.
JoinDetaches ==
  /\ owner = "join"
  /\ joinable' = FALSE
  /\ OwnerTo("disconnect")
  /\ UNCHANGED <<queueVars, connected, pass, status, crashed, early>>

Join ==
  /\ owner = "join"
  /\ joinable => worker = "exited"
  /\ joinable' = FALSE
  /\ OwnerTo("disconnect")
  /\ UNCHANGED <<queueVars, connected, pass, status, crashed, early>>

Disconnect ==
  /\ owner = "disconnect"
  /\ connected' = FALSE
  /\ \/ pass = 1 /\ pass' = 2 /\ OwnerTo("flag")
     \/ pass = 2 /\ UNCHANGED pass /\ OwnerTo("destroy")
  /\ UNCHANGED <<queueVars, joinable, status, crashed, early>>

\* A joinable std::thread terminates the process, a worker that still runs
\* would go on in freed memory.
DestroyCrashes ==
  /\ owner = "destroy"
  /\ joinable \/ worker \notin {"none", "exited"}
  /\ crashed' = TRUE
  /\ UNCHANGED <<queueVars, connected, connector, worker, joinable, current, owner,
                 pass, status, stamp, ticket, early>>

\* No producer is inside the queue any more: they hold the controller's or the
\* scheduler's mutex while they push, and the owner took both before.
Destroy ==
  /\ owner = "destroy"
  /\ ~joinable /\ worker \in {"none", "exited"}
  /\ notifying = {}
  /\ status' = [j \in Jobs |-> IF status[j] = "queued" THEN "broken" ELSE status[j]]
  /\ OwnerTo("destroyed")
  /\ jobs' = <<>>
  /\ UNCHANGED <<shutdown, waiting, notifying, connected, joinable, pass, crashed, early>>

-----------------------------------------------------------------------------
ProducerStep ==
  \E p \in Producers :
    \/ \E j \in Jobs : ScheduleNow(p, j) \/ Schedule(p, j) \/ ScheduleRefused(p, j)
    \/ Notify(p)

ConnectorStep ==
  ConnectFails \/ ConnectSucceeds \/ SpawnWorker \/ AssignWorker \/ ConnectInDestroyed

WorkerStep == WorkerWait \/ WorkerTake \/ WorkerFinish \/ WorkerExit

OwnerStep ==
  ShutdownQueue \/ WakeWorker \/ Join \/ Disconnect \/ DestroyCrashes \/ Destroy

\* The process crashed, or the host is gone and every thread has ended.
Finished ==
  \/ crashed
  \/ owner = "destroyed" /\ connector = "done" /\ worker \in {"none", "exited"}

Next ==
  \/ ~crashed /\ (ProducerStep \/ ConnectorStep \/ WorkerStep \/ OwnerStep
                  \/ WorkerSpuriousWakeup)
  \/ Finished /\ UNCHANGED vars

Spec == Init /\ [][Next]_vars

\* Threads that can run do run.  Nobody has to schedule jobs or to remove the
\* host, and spurious wakeups may never come; a removal, once begun, goes on.
Fairness ==
  /\ WF_vars(~crashed /\ \E p \in Producers : Notify(p))
  /\ WF_vars(~crashed /\ ConnectorStep)
  /\ WF_vars(~crashed /\ WorkerStep)
  /\ WF_vars(~crashed /\ owner # "open" /\ OwnerStep)

FairSpec == Spec /\ Fairness

-----------------------------------------------------------------------------
(* Safety.                                                                 *)

\* The places of a job agree: it is queued iff it is in the deque, and there
\* only once; it is running iff it is the worker's current job.  A job that is
\* popped twice, lost, or run next to another one breaks it.
EveryJobHasOnePlace ==
  /\ \A j \in Jobs : status[j] = "queued" <=> InQueue(j)
  /\ \A i, k \in 1..Len(jobs) : jobs[i] = jobs[k] => i = k
  /\ \A j \in Jobs : status[j] = "running" <=> j = current
  /\ worker = "running" <=> current # NoJob

\* If connect() has returned before the host is shut down, a job that runs finds
\* the client connected: the worker is joined before anyone disconnects it.
JobSeesConnectedClient ==
  (~early /\ worker = "running") => connected

\* A worker blocked in pop with nobody on the way to wake it has nothing to
\* do: a push or a shutdown that slips in between its test and its sleep is
\* not lost.
NoLostWakeup ==
  (worker = "pop" /\ Worker \in waiting) =>
    \/ jobs = <<>> /\ ~shutdown
    \/ notifying # {}
    \/ owner = "notify"

\* Under the same condition the host controller is destroyed only when no thread
\* is inside it.
NoUseAfterDestroy == early \/ ~crashed

\* Once the queue is shut down no job is started, not even one queued before.
NothingStartsAfterShutdown ==
  [][\A j \in Jobs : status[j] = "queued" /\ status'[j] = "running" => ~shutdown]_vars

\* j is served before k: commands of the user overtake the periodic jobs and
\* each other, newest first; the other jobs keep their order.
Before(j, k) ==
  \/ j \in AsyncJobs /\ (k \in BackJobs \/ stamp[j] > stamp[k])
  \/ j \in BackJobs /\ k \in BackJobs /\ stamp[j] < stamp[k]

\* Whatever job the worker starts, no job queued at that moment had to go first.
ServedInOrder ==
  [][\A j, k \in Jobs :
       (j # k /\ status[j] = "queued" /\ status'[j] = "running" /\ status[k] = "queued")
         => Before(j, k)]_vars

-----------------------------------------------------------------------------
(* Liveness, under FairSpec.                                               *)

\* With a worker, a queued job is eventually run, or destroyed with the host.
QueuedJobIsServed ==
  \A j \in Jobs :
    (status[j] = "queued" /\ worker # "none") ~> (status[j] \in {"settled", "broken"} \/ crashed)

\* A removal that has begun ends: no join waits for ever.
ShutdownTerminates == owner # "open" ~> (owner = "destroyed" \/ crashed)

-----------------------------------------------------------------------------
(* The host controller implements the job service.                         *)

Service == INSTANCE JobService WITH open <- ~shutdown

ImplementsService == Service!Spec
=============================================================================
