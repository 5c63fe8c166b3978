---------------------------- MODULE PeriodicTasks ----------------------------
(***************************************************************************)
(* The periodic tasks of one connected host: the scheduler                 *)
(* (libui/src/periodic_tasks_scheduler.cc), the jobs it makes              *)
(* (PeriodicJob, libui/src/jobs.cc), the settings it reads                 *)
(* (libui/src/configuration.cc) and the lists the BOINC client keeps, of   *)
(* which a job fetches what is new since the last sequence number it saw.  *)
(*                                                                         *)
(* Requests and answers are no more than the order in which they travel    *)
(* over the connection: a job that stops waiting for its answer leaves it  *)
(* there, and the next job reads it.                                       *)
(*                                                                         *)
(* Time is the age of the last execution in ticks, cut off at LongAgo;     *)
(* that is also what time_point::min() amounts to.  One pass of the        *)
(* scheduler, a critical section of its context's mutex, is one action.    *)
(* Adding and removing hosts is the subject of Controller.                 *)
(***************************************************************************)
EXTENDS Naturals, Sequences, SequencesExt

CONSTANTS
  Scenarios,     \* periodic tasks that are looked at together (tasks), the intervals
                 \* they may be given, in ticks (intervals), and, a bound, how many
                 \* receives give up after their ten seconds (timeouts)
  CacheTicks,    \* age at which the scheduler renews its copy of the intervals
  MaxMessages,   \* bound: messages the client logs
  MaxNotices     \* bound: notices the client publishes

\* GetStatistics stands for the tasks that have no state of their own.
AllTasks == {"GetMessages", "GetNotices", "GetStatistics", "GetTasks"}

\* There is a longest interval.
ASSUME PeriodicAssumption ==
  /\ \A s \in Scenarios : /\ s.tasks \subseteq AllTasks
                         /\ s.intervals \subseteq Nat \ {0}
                         /\ s.timeouts \in Nat
                         /\ \E n \in s.intervals : \A m \in s.intervals : m <= n
  /\ {CacheTicks, MaxMessages, MaxNotices} \subseteq Nat

VARIABLES
  scenario,     \* the scenario of this behaviour; never changes
  interval,     \* Configuration::intervals_
  activeOnly,   \* active_only_tasks_ of the host
  enabled,      \* schedule_periodic_tasks of the host
  calling,      \* active_only_tasks() is between its two halves
  cache,        \* the scheduler's copy of the intervals
  cacheAge,     \* ticks since last_cache_update
  age,          \* ticks since last_execution of each task
  pending,      \* the tasks with the pending flag
  seqno,        \* messages_seqno and notices_seqno, by task
  stopped,      \* shutdown_triggered_
  queue,        \* the periodic jobs in the host's queue
  worker,       \* what the worker does with its job
  job,          \* the job it runs
  reply,        \* what it made of the answer
  asked,        \* the requests the client has not answered yet
  answers,      \* its answers that nobody has read yet
  timeouts,     \* the receives that have given up so far
  messages,     \* the client's log: its messages are 1..messages
  notices,      \* the client's notices, oldest first
  published,    \* how many notices the client has published so far
  refresh,      \* the client will send all notices next time
  shownMessages, shownNotices, shownActive   \* what the handlers were told

Tasks == scenario.tasks
Intervals == scenario.intervals

\* Every interval has passed.
LongAgo == CHOOSE n \in Intervals : \A m \in Intervals : m <= n

\* What the configuration holds, and active_only_tasks() on its way through it.
settings == <<scenario, interval, activeOnly, enabled, calling>>
scheduler == <<cache, cacheAge, age, pending, seqno, stopped>>
work == <<queue, worker, job, reply>>
connection == <<asked, answers, timeouts>>
client == <<messages, notices, published, refresh>>
shown == <<shownMessages, shownNotices, shownActive>>
vars == <<settings, scheduler, work, connection, client, shown>>

Feeds == {"GetMessages", "GetNotices"}

Job == [task : Tasks, seqno : Nat, active : BOOLEAN]
NoJob == [task |-> "none", seqno |-> 0, active |-> FALSE]

\* An answer; NoReply is one that no job can read.
Reply == [request : Job \cup {NoJob}, ok : BOOLEAN, items : Seq(Nat), refreshed : BOOLEAN]
NoReply == [request |-> NoJob, ok |-> FALSE, items |-> <<>>, refreshed |-> FALSE]

TypeOK ==
  /\ scenario \in Scenarios
  /\ interval \in [Tasks -> Intervals] /\ cache \in [Tasks -> Intervals]
  /\ {activeOnly, enabled, calling, stopped, refresh} \subseteq BOOLEAN
  /\ cacheAge \in 0..CacheTicks
  /\ age \in [Tasks -> 0..LongAgo]
  /\ pending \subseteq Tasks
  /\ seqno \in [Feeds -> Nat]
  /\ queue \in Seq(Job)
  /\ worker \in {"idle", "receive", "tell", "post"}
  /\ job \in Job \cup {NoJob}
  /\ reply \in Reply
  /\ asked \in Seq(Job) /\ answers \in Seq(Reply) /\ timeouts \in 0..scenario.timeouts
  /\ messages \in 0..MaxMessages /\ published \in 0..MaxNotices
  /\ notices \in Seq(1..published)
  /\ shownMessages \in Seq(Nat) /\ shownNotices \in Seq(Nat)
  /\ shownActive \in BOOLEAN

Init ==
  /\ scenario \in Scenarios
  /\ interval \in [Tasks -> Intervals] /\ cache = interval
  /\ activeOnly = FALSE /\ enabled = FALSE /\ calling = FALSE
  /\ cacheAge = 0
  /\ age = [t \in Tasks |-> LongAgo]
  /\ pending = {}
  /\ seqno = [t \in Feeds |-> 0]
  /\ stopped = FALSE
  /\ queue = <<>> /\ worker = "idle" /\ job = NoJob /\ reply = NoReply
  /\ asked = <<>> /\ answers = <<>> /\ timeouts = 0
  /\ messages = 0 /\ notices = <<>> /\ published = 0 /\ refresh = FALSE
  /\ shownMessages = <<>> /\ shownNotices = <<>> /\ shownActive = FALSE

-----------------------------------------------------------------------------
(* The public interface.                                                   *)

PeriodicTaskInterval(t, n) ==
  /\ interval' = [interval EXCEPT ![t] = n]
  /\ UNCHANGED <<scenario, activeOnly, enabled, calling, scheduler, work, connection, client, shown>>

SchedulePeriodicTasks(value) ==
  /\ ~calling
  /\ enabled' = value
  /\ UNCHANGED <<scenario, interval, activeOnly, calling, scheduler, work, connection, client, shown>>

\* last_execution is set whether the task is pending or not.
Reschedule(t) ==
  /\ age' = [age EXCEPT ![t] = LongAgo]
  /\ UNCHANGED <<cache, cacheAge, pending, seqno, stopped, work, connection, client, shown>>

RescheduleNow(t) ==
  /\ ~calling
  /\ Reschedule(t)
  /\ UNCHANGED settings

\* active_only_tasks first writes the configuration ...
ActiveOnlyTasks(value) ==
  /\ ~calling
  /\ activeOnly' = value
  /\ calling' = TRUE
  /\ UNCHANGED <<scenario, interval, enabled, scheduler, work, connection, client, shown>>

\* ... and then reschedules GetTasks; a pass may come in between.
ActiveOnlyReschedules ==
  /\ calling
  /\ calling' = FALSE
  /\ Reschedule("GetTasks")
  /\ UNCHANGED <<scenario, interval, activeOnly, enabled>>

TriggerShutdown ==
  /\ ~calling
  /\ stopped' = TRUE
  /\ UNCHANGED <<settings, cache, cacheAge, age, pending, seqno, work, connection, client, shown>>

-----------------------------------------------------------------------------
(* The scheduler.                                                          *)

Tick ==
  /\ age' = [t \in Tasks |-> IF age[t] < LongAgo THEN age[t] + 1 ELSE LongAgo]
  /\ cacheAge' = IF cacheAge < CacheTicks THEN cacheAge + 1 ELSE CacheTicks
  /\ UNCHANGED <<settings, cache, pending, seqno, stopped, work, connection, client, shown>>

\* Mutant: the setting of active_only_tasks is not read.
MakeJobForAllTasks(t) ==
  [task |-> t, seqno |-> IF t \in Feeds THEN seqno[t] ELSE 0, active |-> FALSE]

\* Mutant: a job asks from the next number on, though the client answers what is newer.
MakeJobFromTheNext(t) ==
  [task |-> t, seqno |-> IF t \in Feeds THEN seqno[t] + 1 ELSE 0,
   active |-> t = "GetTasks" /\ activeOnly]

\* schedule_: the payload of the job for task t.
MakeJob(t) ==
  [task |-> t,
   seqno |-> IF t \in Feeds THEN seqno[t] ELSE 0,
   active |-> t = "GetTasks" /\ activeOnly]

\* Mutant: schedule_periodic_tasks of the host is not tested.
DueThoughDisabled(intervals) == {t \in Tasks \ pending : age[t] >= intervals[t]}

\* The tasks that are neither pending nor too young.
Due(intervals) == {t \in Tasks \ pending : enabled /\ age[t] >= intervals[t]}

\* The job of task t joins the queue if the task is due.
Queued(t, due) == IF t \in due THEN <<MakeJob(t)>> ELSE <<>>

\* The copy of the intervals is renewed if it is old; all due tasks are queued, in the
\* order of the context's array.
SchedulerPass ==
  /\ ~stopped
  /\ LET renew == cacheAge = CacheTicks
         intervals == IF renew THEN interval ELSE cache
         due == Due(intervals) IN
     /\ renew \/ due # {}
     /\ cache' = intervals
     /\ cacheAge' = IF renew THEN 0 ELSE cacheAge
     /\ pending' = pending \cup due
     /\ queue' = queue \o Queued("GetMessages", due) \o Queued("GetNotices", due)
                 \o Queued("GetStatistics", due) \o Queued("GetTasks", due)
  /\ UNCHANGED <<settings, age, seqno, stopped, worker, job, reply, connection, client, shown>>

-----------------------------------------------------------------------------
(* The worker: send, receive, tell the handlers, settle with the scheduler. *)

\* The job sends its request and waits, or the connection takes nothing any more.
Fetch ==
  /\ worker = "idle"
  /\ queue # <<>>
  /\ job' = Head(queue)
  /\ queue' = Tail(queue)
  /\ \/ worker' = "receive" /\ asked' = Append(asked, Head(queue))
     \/ worker' = "tell" /\ UNCHANGED asked
  /\ UNCHANGED <<settings, scheduler, reply, answers, timeouts, client, shown>>

\* What a job makes of the n answers it finds in one piece: it reads one answer, to a
\* request like its own, whoever asked for it.
Understood(n) ==
  IF n = 1 /\ Head(answers).request.task = job.task THEN Head(answers) ELSE NoReply

\* Receiving ends with a chunk that ends with an answer.
Receive ==
  /\ worker = "receive"
  /\ worker' = "tell"
  /\ \E n \in 1..Len(answers) :
       /\ reply' = Understood(n)
       /\ answers' = SubSeq(answers, n + 1, Len(answers))
  /\ UNCHANGED <<settings, scheduler, queue, job, asked, timeouts, client, shown>>

\* The connection stays open and keeps what is still on its way; what was received
\* before is dropped.
ReceiveTimesOut ==
  /\ worker = "receive"
  /\ worker' = "tell"
  /\ timeouts < scenario.timeouts
  /\ timeouts' = timeouts + 1
  /\ \E n \in 0..Len(answers) : answers' = SubSeq(answers, n + 1, Len(answers))
  /\ UNCHANGED <<settings, scheduler, queue, job, reply, asked, client, shown>>

\* Mutant: a full list of notices is appended like any other.
NoticesAfterAppending(r) == shownNotices \o r.items

\* What a handler makes of an answer to GetNotices.
NoticesAfter(r) == IF r.refreshed THEN r.items ELSE shownNotices \o r.items

\* An answer moves the payload's sequence number to its last item.  The handlers
\* are not told about no messages, and a failed job tells them nothing.
Tell ==
  /\ worker = "tell"
  /\ worker' = "post"
  /\ job' = IF reply.items = <<>> THEN job ELSE [job EXCEPT !.seqno = Last(reply.items)]
  /\ shownMessages' = IF job.task = "GetMessages" THEN shownMessages \o reply.items
                      ELSE shownMessages
  /\ shownNotices' = IF job.task = "GetNotices" THEN NoticesAfter(reply) ELSE shownNotices
  /\ shownActive' = IF job.task = "GetTasks" /\ reply.ok THEN reply.request.active
                    ELSE shownActive
  /\ UNCHANGED <<settings, scheduler, queue, reply, connection, client>>

\* Mutant: handle_post_execution leaves the pending flag.
HandlePostExecutionStaysPending ==
  /\ worker = "post"
  /\ worker' = "idle"
  /\ job' = NoJob
  /\ reply' = NoReply
  /\ UNCHANGED <<settings, scheduler, queue, connection, client, shown>>

\* A request to run the task again that came since it was queued is forgotten.
HandlePostExecution ==
  /\ worker = "post"
  /\ worker' = "idle"
  /\ job' = NoJob
  /\ reply' = NoReply
  /\ IF stopped
     THEN UNCHANGED <<age, pending, seqno>>
     ELSE /\ age' = [age EXCEPT ![job.task] = 0]
          /\ pending' = pending \ {job.task}
          /\ seqno' = IF job.task \in Feeds THEN [seqno EXCEPT ![job.task] = job.seqno] ELSE seqno
  /\ UNCHANGED <<settings, cache, cacheAge, stopped, queue, connection, client, shown>>

-----------------------------------------------------------------------------
(* The BOINC client.                                                       *)

\* What is newer than n of items, whose numbers grow.
After(items, n) ==
  LET older == CHOOSE m \in 0..Len(items) : \A k \in 1..Len(items) : k > m <=> items[k] > n
  IN SubSeq(items, older + 1, Len(items))

\* What the client answers: all notices if its list was changed at the old end,
\* else what is newer than the sequence number of the request.
Answer(j) ==
  [request |-> j,
   ok |-> TRUE,
   items |-> CASE j.task = "GetMessages" -> After([k \in 1..messages |-> k], j.seqno)
               [] j.task = "GetNotices" -> IF refresh THEN notices ELSE After(notices, j.seqno)
               [] OTHER -> <<>>,
   refreshed |-> j.task = "GetNotices" /\ refresh]

\* The client answers in the order it was asked.  Its answer may be an error, or be torn
\* by a receive that gave up in the middle of it: then nobody can read it.
ClientAnswers ==
  /\ asked # <<>>
  /\ asked' = Tail(asked)
  /\ LET sent == refresh /\ Head(asked).task # "GetNotices" IN
     \/ answers' = Append(answers, Answer(Head(asked))) /\ refresh' = sent
     \/ answers' = Append(answers, NoReply) /\ refresh' \in {refresh, sent}
  /\ UNCHANGED <<settings, scheduler, work, timeouts, messages, notices, published, shown>>

ClientLogs ==
  /\ "GetMessages" \in Tasks
  /\ messages < MaxMessages
  /\ messages' = messages + 1
  /\ UNCHANGED <<settings, scheduler, work, connection, notices, published, refresh, shown>>

ClientPublishes ==
  /\ "GetNotices" \in Tasks
  /\ published < MaxNotices
  /\ published' = published + 1
  /\ notices' = Append(notices, published + 1)
  /\ UNCHANGED <<settings, scheduler, work, connection, messages, refresh, shown>>

\* Expired notices go; what remains is sent as a whole next time.
ClientExpires ==
  /\ notices # <<>>
  /\ notices' = Tail(notices)
  /\ refresh' = TRUE
  /\ UNCHANGED <<settings, scheduler, work, connection, messages, published, shown>>

-----------------------------------------------------------------------------
CallerStep ==
  \/ \E t \in Tasks : RescheduleNow(t) \/ \E n \in Intervals : PeriodicTaskInterval(t, n)
  \/ \E value \in BOOLEAN :
       \/ SchedulePeriodicTasks(value)
       \/ "GetTasks" \in Tasks /\ ActiveOnlyTasks(value)
  \/ TriggerShutdown

WorkerStep == Fetch \/ Receive \/ ReceiveTimesOut \/ Tell \/ HandlePostExecution

ClientStep == ClientAnswers \/ ClientLogs \/ ClientPublishes \/ ClientExpires

Next ==
  \/ CallerStep \/ ActiveOnlyReschedules
  \/ Tick \/ SchedulerPass
  \/ WorkerStep
  \/ ClientStep

Spec == Init /\ [][Next]_vars

\* The scheduler wakes up several times a second, the worker runs what is queued, the
\* client answers and time goes on.  A job that is run again and again gets through to
\* the client some time, and so does the client's answer to it.  The properties need
\* that of two tasks.
Fairness ==
  /\ WF_vars(Tick)
  /\ WF_vars(SchedulerPass)
  /\ WF_vars(ActiveOnlyReschedules)
  /\ WF_vars(WorkerStep) /\ WF_vars(ClientAnswers)
  /\ \A t \in {"GetMessages", "GetTasks"} :
       /\ SF_vars(Fetch /\ Head(queue).task = t /\ worker' = "receive")
       /\ SF_vars(ClientAnswers /\ Head(asked).task = t /\ Last(answers').ok)

FairSpec == Spec /\ Fairness

-----------------------------------------------------------------------------
(* Properties.                                                             *)

\* When a message is shown, all older ones have been: none is ever left out, although
\* answers may come late and be read by other jobs.  While no receive gives up, the
\* handlers see the messages one after the other, none twice, whatever else fails or is
\* rescheduled in between: there is never more than one GetMessages job, and it starts
\* where the last one ended.  The notices a handler has after appending and refreshing
\* as it was told are in the client's order then, none of them twice.
FeedsInOrder ==
  /\ \A k \in DOMAIN shownMessages : \A n \in 1..shownMessages[k] :
       \E i \in 1..k : shownMessages[i] = n
  /\ timeouts = 0 =>
       /\ \A k \in DOMAIN shownMessages : shownMessages[k] = k
       /\ \A k, m \in DOMAIN shownNotices : k < m => shownNotices[k] < shownNotices[m]

\* A message the client logs is shown eventually, or the scheduling is off.  After a
\* receive that gave up the answers may be one job behind for good.
MessagesAreShown ==
  \A n \in 1..MaxMessages :
    messages >= n ~> (Len(shownMessages) >= n \/ ~enabled \/ stopped \/ timeouts > 0)

\* The tasks are eventually shown with the latest setting of active_only_tasks,
\* also when the change fell into a running job.
LatestSettingIsShown ==
  \A value \in BOOLEAN :
    ("GetTasks" \in Tasks /\ activeOnly = value) ~>
      (shownActive = value \/ activeOnly # value \/ ~enabled \/ stopped \/ timeouts > 0)

\* With the scheduling switched off the host falls silent once the jobs under
\* way are done: nothing keeps on rescheduling itself.
FallsSilent == ~enabled ~> (pending = {} \/ enabled \/ stopped)
=============================================================================
