------------------------- MODULE PeriodicTasksProofs -------------------------
(***************************************************************************)
(* The handlers see messages and notices in order: the proof.  A feed has  *)
(* one job at a time, and the sequence number that its next job starts at  *)
(* is where the handlers are, wherever it is kept: with the scheduler, in  *)
(* a queued job or with the worker.  While no receive has given up, the    *)
(* connection holds nothing but the request, or the answer, of the worker's*)
(* job; after that, an answer still starts at a number the handlers have   *)
(* seen, since its request did.                                            *)
(***************************************************************************)
EXTENDS PeriodicTasks, SequenceTheorems, TLAPS

-----------------------------------------------------------------------------
(* The inductive invariant.                                                *)

\* The handlers have been told the messages up to number n.
Seen(n) == \A m \in 1..n : \E i \in 1..Len(shownMessages) : shownMessages[i] = m

\* The handlers have seen the feed of task t up to number n, and while no receive has
\* given up not further.
AsFar(t, n) ==
  /\ t = "GetMessages" => Seen(n) /\ (timeouts = 0 => Len(shownMessages) = n)
  /\ t = "GetNotices" /\ timeouts = 0 => \A k \in 1..Len(shownNotices) : shownNotices[k] <= n

\* The tasks whose job is in the queue.
Waiting == IF worker = "idle" THEN pending ELSE pending \ {job.task}

\* q holds at most one job of each task of S and no other, and they start where the
\* handlers are.
GoodQueue(q, S) ==
  /\ q \in Seq(Job)
  /\ \A i \in 1..Len(q) : q[i].task \in S /\ AsFar(q[i].task, q[i].seqno)
  /\ \A i, k \in 1..Len(q) : q[i].task = q[k].task => i = k

\* The client's notices are the latest it has published.
ClientInv ==
  /\ Len(notices) <= published
  /\ \A k \in 1..Len(notices) : notices[k] = published - Len(notices) + k

\* Every number of a feed is kept once: by the scheduler or by the one job of the feed.
SchedulerInv ==
  /\ GoodQueue(queue, Waiting)
  /\ \A t \in (Tasks \cap Feeds) \ pending : AsFar(t, seqno[t])

\* The worker's job starts where the handlers are; what it received is an answer to a
\* request of its kind, and to its own while no receive has given up.
WorkerInv ==
  /\ worker # "idle" => job \in Job /\ job.task \in pending /\ AsFar(job.task, job.seqno)
  /\ worker \in {"idle", "receive"} => reply = NoReply
  /\ worker = "tell" =>
       \/ reply = NoReply
       \/ (reply.request.task = job.task /\ (timeouts = 0 => reply.request = job))

\* An answer continues the feed where its request started.
GoodAnswer(a) ==
  /\ a.request.task = "GetMessages" =>
       /\ ~a.refreshed /\ Seen(a.request.seqno)
       /\ \A k \in 1..Len(a.items) : a.items[k] = a.request.seqno + k
  /\ a.request.task = "GetNotices" =>
       /\ \A k, m \in 1..Len(a.items) : k < m => a.items[k] < a.items[m]
       /\ ~a.refreshed => \A k \in 1..Len(a.items) : a.items[k] > a.request.seqno

\* The connection carries the request of the worker's job or the answer to it.
InStep ==
  IF worker = "receive"
  THEN \/ asked = <<job>> /\ answers = <<>>
       \/ asked = <<>> /\ Len(answers) = 1 /\ (answers[1] = NoReply \/ answers[1].request = job)
  ELSE asked = <<>> /\ answers = <<>>

ConnectionInv ==
  /\ \A k \in 1..Len(asked) : asked[k].task = "GetMessages" => Seen(asked[k].seqno)
  /\ \A k \in 1..Len(answers) : GoodAnswer(answers[k])
  /\ GoodAnswer(reply)
  /\ timeouts = 0 => InStep

ShownInv ==
  /\ timeouts = 0 =>
       /\ \A k \in 1..Len(shownMessages) : shownMessages[k] = k
       /\ \A k, m \in 1..Len(shownNotices) : k < m => shownNotices[k] < shownNotices[m]
  /\ \A k \in 1..Len(shownMessages) : \A n \in 1..shownMessages[k] :
       \E i \in 1..k : shownMessages[i] = n

IInv == TypeOK /\ ClientInv /\ SchedulerInv /\ WorkerInv /\ ConnectionInv /\ ShownInv

-----------------------------------------------------------------------------
(* Lemmas about the model's operators.                                     *)

LEMMA LongAgoIsANumber ==
  ASSUME scenario \in Scenarios
  PROVE  LongAgo \in Intervals /\ LongAgo \in Nat \ {0}
<1>1. Intervals \subseteq Nat \ {0} /\ \E n \in Intervals : \A m \in Intervals : m <= n
  BY PeriodicAssumption DEF Intervals
<1>2. LongAgo \in Intervals
  BY <1>1 DEF LongAgo
<1>3. QED
  BY <1>1, <1>2

\* What is newer than n of growing numbers is what comes after the first `older' of them.
LEMMA AfterIsASuffix ==
  ASSUME NEW items \in Seq(Nat), NEW n \in Nat, NEW first \in Nat,
         \A k \in 1..Len(items) : items[k] = first + k
  PROVE  /\ After(items, n) \in Seq(Nat)
         /\ \E m \in 0..Len(items) :
              /\ \A k \in 1..Len(items) : k > m <=> items[k] > n
              /\ Len(After(items, n)) = Len(items) - m
              /\ \A k \in 1..(Len(items) - m) : After(items, n)[k] = items[m + k]
<1> DEFINE Older(m) == \A k \in 1..Len(items) : k > m <=> items[k] > n
<1>1. Len(items) \in Nat
  BY LenProperties
<1>2. \E m \in 0..Len(items) : Older(m)
  <2>1. CASE n <= first
    <3>1. Older(0) /\ 0 \in 0..Len(items)
      BY <1>1, <2>1
    <3> HIDE DEF Older
    <3>2. QED
      BY <3>1
  <2>2. CASE n > first /\ n - first <= Len(items)
    <3>1. Older(n - first) /\ n - first \in 0..Len(items)
      BY <1>1, <2>2
    <3> HIDE DEF Older
    <3>2. QED
      BY <3>1
  <2>3. CASE n > first /\ n - first > Len(items)
    <3>1. Older(Len(items)) /\ Len(items) \in 0..Len(items)
      BY <1>1, <2>3
    <3> HIDE DEF Older
    <3>2. QED
      BY <3>1
  <2>4. QED
    BY <1>1, <2>1, <2>2, <2>3
<1>3. PICK m : m = CHOOSE i \in 0..Len(items) : Older(i)
  OBVIOUS
<1>4. m \in 0..Len(items) /\ Older(m)
  BY <1>2, <1>3
<1>5. After(items, n) = SubSeq(items, m + 1, Len(items))
  BY <1>3 DEF After
<1>6. \A i \in (m + 1)..Len(items) : items[i] \in Nat
  BY <1>1, <1>4, ElementOfSeq
<1>7. /\ SubSeq(items, m + 1, Len(items)) \in Seq(Nat)
      /\ Len(SubSeq(items, m + 1, Len(items))) = Len(items) - m
      /\ \A k \in 1..(Len(items) - m) : SubSeq(items, m + 1, Len(items))[k] = items[m + k]
  BY <1>1, <1>4, <1>6, SubSeqProperties
<1>8. QED
  BY <1>4, <1>5, <1>7

\* A queue takes the job of one more task.
LEMMA QueueTakesAJob ==
  ASSUME NEW q, NEW S, GoodQueue(q, S), NEW due, NEW t \in AllTasks,
         due \subseteq Tasks, due \cap S = {}, activeOnly \in BOOLEAN, seqno \in [Feeds -> Nat],
         t \in due => AsFar(t, MakeJob(t).seqno)
  PROVE  GoodQueue(q \o Queued(t, due), S \cup (due \cap {t}))
<1>1. CASE t \notin due
  <2>1. q \o Queued(t, due) = q
    BY <1>1, ConcatEmptySeq DEF Queued, GoodQueue
  <2>2. S \cup (due \cap {t}) = S
    BY <1>1
  <2>3. QED
    BY <2>1, <2>2
<1>2. CASE t \in due
  <2>1. PICK j : j = MakeJob(t)
    OBVIOUS
  <2>2. j \in Job /\ j.task = t
    <3>1. j.active \in BOOLEAN
      BY <2>1, Zenon DEF MakeJob
    <3>2. QED
      BY <1>2, <2>1, <3>1 DEF MakeJob, Job, Feeds
  <2>3. q \in Seq(Job) /\ Len(q) \in Nat
    BY LenProperties DEF GoodQueue
  <2>4. PICK r : r = q \o <<j>>
    OBVIOUS
  <2>5. r = q \o Queued(t, due)
    BY <1>2, <2>1, <2>4 DEF Queued
  <2>6. /\ r \in Seq(Job) /\ Len(r) = Len(q) + 1
        /\ \A i \in 1..Len(q) : r[i] = q[i]
        /\ r[Len(q) + 1] = j
    <3>1. <<j>> \in Seq(Job) /\ Len(<<j>>) = 1 /\ <<j>>[1] = j
      BY <2>2
    <3>2. QED
      BY <2>3, <2>4, <3>1, ConcatProperties
  <2>7. \A i \in 1..Len(r) : i \in 1..Len(q) \/ i = Len(q) + 1
    BY <2>3, <2>6
  <2>8. \A i \in 1..Len(q) : r[i].task \in S /\ r[i].task # t /\ AsFar(r[i].task, r[i].seqno)
    BY <1>2, <2>6 DEF GoodQueue
  <2>9. \A i \in 1..Len(r) : r[i].task \in S \cup {t} /\ AsFar(r[i].task, r[i].seqno)
    BY <1>2, <2>1, <2>2, <2>6, <2>7, <2>8
  <2>10. \A i, k \in 1..Len(r) : r[i].task = r[k].task => i = k
    BY <2>2, <2>6, <2>7, <2>8 DEF GoodQueue
  <2>11. S \cup (due \cap {t}) = S \cup {t}
    BY <1>2
  <2>12. QED
    BY <2>5, <2>6, <2>9, <2>10, <2>11 DEF GoodQueue
<1>3. QED
  BY <1>1, <1>2

LEMMA NoReplyIsAReply == NoReply \in Reply /\ GoodAnswer(NoReply)
<1>1. <<>> \in Seq(Nat)
  OBVIOUS
<1>2. NoReply.ok \in BOOLEAN /\ NoReply.refreshed \in BOOLEAN
  BY Zenon DEF NoReply
<1>3. NoReply \in Reply
  BY <1>1, <1>2 DEF Reply, NoReply
<1>4. GoodAnswer(NoReply)
  BY DEF GoodAnswer, NoReply, NoJob
<1>5. QED
  BY <1>3, <1>4

-----------------------------------------------------------------------------
(* Init, and the steps that touch no job.                                  *)

LEMMA InitIInv == Init => IInv
<1> SUFFICES ASSUME Init PROVE IInv
  OBVIOUS
<1>1. LongAgo \in Intervals /\ LongAgo \in Nat
  BY LongAgoIsANumber DEF Init
<1>2. TypeOK
  <2>1. {activeOnly, enabled, calling, stopped, refresh} \subseteq BOOLEAN /\ shownActive \in BOOLEAN
    BY Zenon DEF Init
  <2>2. age \in [Tasks -> 0..LongAgo] /\ seqno \in [Feeds -> Nat]
    BY <1>1 DEF Init
  <2>3. /\ queue \in Seq(Job) /\ notices \in Seq(1..published)
        /\ shownMessages \in Seq(Nat) /\ shownNotices \in Seq(Nat)
    BY DEF Init
  <2>4. asked \in Seq(Job) /\ answers \in Seq(Reply) /\ timeouts \in 0..scenario.timeouts
    BY PeriodicAssumption DEF Init
  <2>5. QED
    BY <2>1, <2>2, <2>3, <2>4, NoReplyIsAReply, PeriodicAssumption DEF Init, TypeOK
<1>3. ClientInv /\ ShownInv /\ WorkerInv /\ ConnectionInv
  BY NoReplyIsAReply DEF Init, ClientInv, ShownInv, WorkerInv, ConnectionInv, InStep
<1>4. SchedulerInv
  BY DEF Init, SchedulerInv, GoodQueue, AsFar, Seen, Feeds
<1>5. QED
  BY <1>2, <1>3, <1>4 DEF IInv

\* What these invariants say depends on the jobs, the sequence numbers and what the
\* handlers were told.
LEMMA JobsUntouched ==
  ASSUME IInv, UNCHANGED <<scenario, pending, seqno, work, connection, shown>>
  PROVE  SchedulerInv' /\ WorkerInv' /\ ConnectionInv' /\ ShownInv'
<1> USE DEF IInv, work, connection, shown
<1>1. Job' = Job /\ Tasks' = Tasks /\ Waiting' = Waiting
  BY DEF Job, Tasks, Waiting
<1>2. \A t, n : AsFar(t, n)' <=> AsFar(t, n)
  BY DEF AsFar, Seen
<1>3. SchedulerInv'
  BY <1>1, <1>2 DEF SchedulerInv, GoodQueue
<1>4. WorkerInv'
  BY <1>1, <1>2 DEF WorkerInv
<1>5. ShownInv'
  BY DEF ShownInv
<1>6. ConnectionInv'
  BY DEF ConnectionInv, GoodAnswer, Seen, InStep
<1>7. QED
  BY <1>3, <1>4, <1>5, <1>6

\* A step that changes only settings, the clocks and the flag of the shutdown.
LEMMA SettingsStepIInv ==
  ASSUME IInv, UNCHANGED <<scenario, pending, seqno, work, connection, client, shown>>,
         interval' \in [Tasks -> Intervals], cache' \in [Tasks -> Intervals],
         {activeOnly', enabled', calling', stopped'} \subseteq BOOLEAN,
         cacheAge' \in 0..CacheTicks, age' \in [Tasks -> 0..LongAgo]
  PROVE  IInv'
<1>1. SchedulerInv' /\ WorkerInv' /\ ConnectionInv' /\ ShownInv'
  BY JobsUntouched
<1>2. ClientInv'
  BY DEF IInv, ClientInv, client
<1>3. Tasks' = Tasks /\ Intervals' = Intervals /\ LongAgo' = LongAgo /\ Job' = Job /\ Reply' = Reply
  BY DEF Tasks, Intervals, LongAgo, Job, Reply
<1>4. {activeOnly', enabled', calling', stopped', refresh'} \subseteq BOOLEAN /\ shownActive' \in BOOLEAN
  BY Zenon DEF IInv, TypeOK, client, shown
<1>5. TypeOK'
  BY <1>3, <1>4 DEF IInv, TypeOK, work, connection, client, shown
<1>6. QED
  BY <1>1, <1>2, <1>5 DEF IInv

LEMMA CallerStepIInv ==
  ASSUME IInv, CallerStep \/ ActiveOnlyReschedules
  PROVE  IInv'
<1> USE DEF IInv
<1>1. /\ interval \in [Tasks -> Intervals] /\ cache \in [Tasks -> Intervals]
      /\ cacheAge \in 0..CacheTicks /\ age \in [Tasks -> 0..LongAgo]
  BY DEF TypeOK
<1>2. LongAgo \in 0..LongAgo
  BY LongAgoIsANumber DEF TypeOK
<1>3. {activeOnly, enabled, calling, stopped} \subseteq BOOLEAN
  BY Zenon DEF TypeOK
<1>4. ASSUME NEW t \in Tasks, NEW n \in Intervals, PeriodicTaskInterval(t, n)
      PROVE  IInv'
  <2>1. interval' \in [Tasks -> Intervals]
    BY <1>1, <1>4 DEF PeriodicTaskInterval
  <2>2. QED
    BY <1>1, <1>3, <1>4, <2>1, SettingsStepIInv DEF PeriodicTaskInterval, scheduler
<1>5. ASSUME NEW t, Reschedule(t), UNCHANGED <<scenario, interval, activeOnly, enabled>>,
             calling' \in BOOLEAN
      PROVE  IInv'
  <2>1. age' \in [Tasks -> 0..LongAgo]
    BY <1>1, <1>2, <1>5 DEF Reschedule
  <2>2. {activeOnly', enabled', calling', stopped'} \subseteq BOOLEAN
    BY <1>3, <1>5, Zenon DEF Reschedule
  <2>3. QED
    BY <1>1, <1>5, <2>1, <2>2, SettingsStepIInv DEF Reschedule
<1>6. ASSUME NEW value \in BOOLEAN, SchedulePeriodicTasks(value) \/ ActiveOnlyTasks(value)
      PROVE  IInv'
  <2>1. {activeOnly', enabled', calling', stopped'} \subseteq BOOLEAN
    BY <1>3, <1>6, Zenon DEF SchedulePeriodicTasks, ActiveOnlyTasks, scheduler
  <2>2. QED
    BY <1>1, <1>6, <2>1, SettingsStepIInv DEF SchedulePeriodicTasks, ActiveOnlyTasks, scheduler
<1>7. CASE TriggerShutdown
  <2>1. {activeOnly', enabled', calling', stopped'} \subseteq BOOLEAN
    BY <1>3, <1>7, Zenon DEF TriggerShutdown, settings
  <2>2. QED
    BY <1>1, <1>7, <2>1, SettingsStepIInv DEF TriggerShutdown, settings
<1>8. CASE ActiveOnlyReschedules
  <2>1. calling' \in BOOLEAN
    BY <1>8, Zenon DEF ActiveOnlyReschedules
  <2>2. QED
    BY <1>5, <1>8, <2>1 DEF ActiveOnlyReschedules
<1>9. ASSUME NEW t \in Tasks, RescheduleNow(t)
      PROVE  IInv'
  <2>1. UNCHANGED <<scenario, interval, activeOnly, enabled>> /\ Reschedule(t)
    BY <1>9 DEF RescheduleNow, settings
  <2>2. calling' \in BOOLEAN
    BY <1>3, <1>9, Zenon DEF RescheduleNow, settings
  <2>3. QED
    BY <1>5, <2>1, <2>2
<1>10. QED
  BY <1>4, <1>6, <1>7, <1>8, <1>9 DEF CallerStep

LEMMA TickIInv ==
  ASSUME IInv, Tick
  PROVE  IInv'
<1> USE DEF IInv, Tick
<1>1. LongAgo \in Nat
  BY LongAgoIsANumber DEF TypeOK
<1>2. age' \in [Tasks -> 0..LongAgo]
  BY <1>1 DEF TypeOK
<1>3. cacheAge' \in 0..CacheTicks
  BY PeriodicAssumption DEF TypeOK
<1>4. {activeOnly', enabled', calling', stopped'} \subseteq BOOLEAN
  BY Zenon DEF TypeOK, settings
<1>5. QED
  BY <1>2, <1>3, <1>4, SettingsStepIInv DEF TypeOK, settings

\* The client's lists are not the scheduler's concern.
LEMMA ClientListsIInv ==
  ASSUME IInv, ClientLogs \/ ClientPublishes \/ ClientExpires
  PROVE  IInv'
<1> USE DEF IInv
<1>1. UNCHANGED <<settings, scheduler, work, connection, shown>>
  BY DEF ClientLogs, ClientPublishes, ClientExpires
<1>2. SchedulerInv' /\ WorkerInv' /\ ConnectionInv' /\ ShownInv'
  BY <1>1, JobsUntouched DEF settings, scheduler
<1>3. Tasks' = Tasks /\ Intervals' = Intervals /\ LongAgo' = LongAgo /\ Job' = Job /\ Reply' = Reply
  BY <1>1 DEF Tasks, Intervals, LongAgo, Job, Reply, settings
<1>4. notices \in Seq(1..published) /\ Len(notices) \in Nat /\ published \in 0..MaxNotices
  BY LenProperties DEF TypeOK
<1>5. /\ messages' \in 0..MaxMessages /\ published' \in 0..MaxNotices
      /\ refresh' \in BOOLEAN
      /\ notices' \in Seq(1..published') /\ ClientInv'
  <2>1. CASE ClientLogs
    <3>1. messages' \in 0..MaxMessages
      BY <2>1, PeriodicAssumption DEF ClientLogs, TypeOK
    <3>2. refresh' \in BOOLEAN
      BY <2>1, Zenon DEF ClientLogs, TypeOK
    <3>3. QED
      BY <2>1, <3>1, <3>2 DEF ClientLogs, TypeOK, ClientInv
  <2>2. CASE ClientPublishes
    <3>1. published' = published + 1 /\ published' \in 1..MaxNotices
      BY <1>4, <2>2, PeriodicAssumption DEF ClientPublishes
    <3>2. notices \in Seq(1..published')
      BY <1>4, <3>1, SeqMonotonic
    <3>3. /\ notices' \in Seq(1..published')
          /\ Len(notices') = Len(notices) + 1
          /\ \A k \in 1..Len(notices) : notices'[k] = notices[k]
          /\ notices'[Len(notices) + 1] = published'
      BY <2>2, <3>1, <3>2, AppendProperties DEF ClientPublishes
    <3>4. ClientInv'
      <4>1. Len(notices') <= published'
        BY <1>4, <3>1, <3>3 DEF ClientInv
      <4>2. \A k \in 1..Len(notices') : k \in 1..Len(notices) \/ k = Len(notices) + 1
        BY <1>4, <3>3
      <4>3. \A k \in 1..Len(notices) : notices'[k] = published - Len(notices) + k
        BY <3>3 DEF ClientInv
      <4>4. ASSUME NEW k \in 1..Len(notices')
            PROVE  notices'[k] = published' - Len(notices') + k
        <5>1. published' \in Nat /\ published' - Len(notices') = published - Len(notices)
          BY <1>4, <3>1, <3>3
        <5>2. CASE k \in 1..Len(notices)
          BY <3>3, <4>3, <5>1, <5>2
        <5>3. CASE k = Len(notices) + 1
          BY <1>4, <3>1, <3>3, <5>1, <5>3
        <5>4. QED
          BY <4>2, <5>2, <5>3
      <4>5. QED
        BY <4>1, <4>4 DEF ClientInv
    <3>5. refresh' \in BOOLEAN
      BY <2>2, Zenon DEF ClientPublishes, TypeOK
    <3>6. QED
      BY <2>2, <3>1, <3>3, <3>4, <3>5 DEF ClientPublishes, TypeOK
  <2>3. CASE ClientExpires
    <3>1. /\ notices' \in Seq(1..published) /\ Len(notices') = Len(notices) - 1
          /\ \A k \in 1..Len(notices') : notices'[k] = notices[k + 1]
      BY <1>4, <2>3, HeadTailProperties DEF ClientExpires
    <3>2. ClientInv'
      <4>1. \A k \in 1..Len(notices') : k + 1 \in 1..Len(notices)
        BY <1>4, <3>1
      <4>2. \A k \in 1..Len(notices') : notices'[k] = published - Len(notices) + (k + 1)
        BY <3>1, <4>1 DEF ClientInv
      <4>3. published' = published /\ Len(notices') \in Nat
        BY <2>3, <3>1, LenProperties DEF ClientExpires
      <4>4. Len(notices') <= published'
        BY <1>4, <3>1, <4>3 DEF ClientInv
      <4>5. \A k \in 1..Len(notices') : notices'[k] = published' - Len(notices') + k
        BY <1>4, <3>1, <4>2, <4>3
      <4>6. QED
        BY <4>4, <4>5 DEF ClientInv
    <3>3. refresh' \in BOOLEAN
      BY <2>3, Zenon DEF ClientExpires
    <3>4. QED
      BY <1>4, <2>3, <3>1, <3>2, <3>3 DEF ClientExpires, TypeOK
  <2>4. QED
    BY <2>1, <2>2, <2>3
<1>6. TypeOK'
  <2>1. {activeOnly', enabled', calling', stopped', refresh'} \subseteq BOOLEAN /\ shownActive' \in BOOLEAN
    BY <1>1, <1>5, Zenon DEF TypeOK, settings, scheduler, shown
  <2>2. QED
    BY <1>1, <1>3, <1>5, <2>1 DEF TypeOK, settings, scheduler, work, connection, shown
<1>7. QED
  BY <1>2, <1>5, <1>6

-----------------------------------------------------------------------------
(* The scheduler queues jobs.                                              *)

LEMMA SchedulerPassIInv ==
  ASSUME IInv, SchedulerPass
  PROVE  IInv'
<1> USE DEF IInv
<1>1. PICK intervals \in {interval, cache} :
        LET due == Due(intervals) IN
        /\ cache' = intervals /\ cacheAge' \in {0, cacheAge}
        /\ pending' = pending \cup due
        /\ queue' = queue \o Queued("GetMessages", due) \o Queued("GetNotices", due)
                    \o Queued("GetStatistics", due) \o Queued("GetTasks", due)
  BY DEF SchedulerPass
<1>2. UNCHANGED <<settings, age, seqno, stopped, worker, job, reply, connection, client, shown>>
  BY DEF SchedulerPass
<1>3. PICK due : due = Due(intervals)
  OBVIOUS
<1>4. due \subseteq Tasks \ pending
  BY <1>3 DEF Due
<1>5. Tasks \subseteq AllTasks
  BY PeriodicAssumption DEF TypeOK, Tasks
<1>6. \A t \in due : AsFar(t, MakeJob(t).seqno)
  BY <1>4 DEF SchedulerInv, MakeJob, AsFar, Feeds
<1>7. GoodQueue(queue, Waiting) /\ due \cap Waiting = {} /\ due \subseteq Tasks
  BY <1>4 DEF SchedulerInv, Waiting
<1>8. activeOnly \in BOOLEAN
  BY Zenon DEF TypeOK
<1>9. seqno \in [Feeds -> Nat]
  BY DEF TypeOK
\* The tasks of the array, one after the other.
<1> DEFINE q1 == queue \o Queued("GetMessages", due)
           q2 == q1 \o Queued("GetNotices", due)
           q3 == q2 \o Queued("GetStatistics", due)
           q4 == q3 \o Queued("GetTasks", due)
           s1 == Waiting \cup (due \cap {"GetMessages"})
           s2 == s1 \cup (due \cap {"GetNotices"})
           s3 == s2 \cup (due \cap {"GetStatistics"})
           s4 == s3 \cup (due \cap {"GetTasks"})
<1>10. GoodQueue(q4, s4)
  <2> DEFINE rest1 == due \ {"GetMessages"}
             rest2 == rest1 \ {"GetNotices"}
             rest3 == rest2 \ {"GetStatistics"}
  <2>1. GoodQueue(q1, s1)
    BY <1>6, <1>7, <1>8, <1>9, QueueTakesAJob DEF AllTasks
  <2>2. \A t : t # "GetMessages" => Queued(t, rest1) = Queued(t, due)
    BY DEF Queued
  <2>3. \A t : t \notin {"GetMessages", "GetNotices"} => Queued(t, rest2) = Queued(t, due)
    BY DEF Queued
  <2>4. \A t : t \notin {"GetMessages", "GetNotices", "GetStatistics"} => Queued(t, rest3) = Queued(t, due)
    BY DEF Queued
  <2>5. /\ rest1 \subseteq Tasks /\ rest1 \cap s1 = {}
        /\ rest2 \subseteq Tasks /\ rest2 \cap s2 = {}
        /\ rest3 \subseteq Tasks /\ rest3 \cap s3 = {}
    BY <1>7
  <2>6. /\ s2 = s1 \cup (rest1 \cap {"GetNotices"})
        /\ s3 = s2 \cup (rest2 \cap {"GetStatistics"})
        /\ s4 = s3 \cup (rest3 \cap {"GetTasks"})
    OBVIOUS
  <2>7. /\ q2 = q1 \o Queued("GetNotices", rest1)
        /\ q3 = q2 \o Queued("GetStatistics", rest2)
        /\ q4 = q3 \o Queued("GetTasks", rest3)
    BY <2>2, <2>3, <2>4
  <2>8. rest1 \subseteq due /\ rest2 \subseteq due /\ rest3 \subseteq due
    OBVIOUS
  <2> HIDE DEF q1, q2, q3, q4, s1, s2, s3, s4, rest1, rest2, rest3
  <2>9. GoodQueue(q2, s2)
    BY <1>6, <1>8, <1>9, <2>1, <2>5, <2>6, <2>7, <2>8, QueueTakesAJob DEF AllTasks
  <2>10. GoodQueue(q3, s3)
    BY <1>6, <1>8, <1>9, <2>9, <2>5, <2>6, <2>7, <2>8, QueueTakesAJob DEF AllTasks
  <2>11. QED
    BY <1>6, <1>8, <1>9, <2>10, <2>5, <2>6, <2>7, <2>8, QueueTakesAJob DEF AllTasks
<1>11. queue' = q4
  BY <1>1, <1>3
<1>12. s4 = Waiting'
  <2>1. s4 = Waiting \cup due
    BY <1>5, <1>7 DEF AllTasks
  <2>2. worker # "idle" => job.task \in pending /\ job.task \notin due
    BY <1>4 DEF WorkerInv
  <2>3. QED
    BY <1>1, <1>2, <1>3, <2>1, <2>2 DEF Waiting
<1> HIDE DEF q1, q2, q3, q4, s1, s2, s3, s4
<1>13. Tasks' = Tasks /\ Intervals' = Intervals /\ LongAgo' = LongAgo /\ Job' = Job /\ Reply' = Reply
  BY <1>2 DEF Tasks, Intervals, LongAgo, Job, Reply, settings
<1>14. \A t, n : AsFar(t, n)' <=> AsFar(t, n)
  BY <1>2 DEF AsFar, Seen, connection, shown
<1>15. SchedulerInv'
  <2>1. GoodQueue(queue, Waiting)'
    BY <1>10, <1>11, <1>12, <1>13, <1>14 DEF GoodQueue
  <2>2. \A t \in (Tasks' \cap Feeds) \ pending' : AsFar(t, seqno[t])'
    BY <1>1, <1>2, <1>13, <1>14 DEF SchedulerInv
  <2>3. QED
    BY <2>1, <2>2 DEF SchedulerInv
<1>16. WorkerInv' /\ ConnectionInv' /\ ShownInv' /\ ClientInv'
  <2>1. WorkerInv'
    BY <1>1, <1>2, <1>13, <1>14 DEF WorkerInv, connection
  <2>2. ConnectionInv' /\ ShownInv' /\ ClientInv'
    <3>1. \A n : Seen(n)' <=> Seen(n)
      BY <1>2 DEF Seen, shown
    <3>2. (\A a : GoodAnswer(a)' <=> GoodAnswer(a)) /\ (InStep' <=> InStep)
      BY <1>2, <3>1 DEF GoodAnswer, InStep, connection
    <3>3. ConnectionInv'
      BY <1>2, <3>1, <3>2 DEF ConnectionInv, connection
    <3>4. QED
      BY <1>2, <3>3 DEF ShownInv, ClientInv, connection, shown, client
  <2>3. QED
    BY <2>1, <2>2
<1>17. TypeOK'
  <2>1. {activeOnly', enabled', calling', stopped', refresh'} \subseteq BOOLEAN /\ shownActive' \in BOOLEAN
    BY <1>2, Zenon DEF TypeOK, settings, client, shown
  <2>2. queue' \in Seq(Job)
    BY <1>10, <1>11 DEF GoodQueue
  <2>3. pending' \subseteq Tasks
    BY <1>1, <1>3, <1>7 DEF TypeOK
  <2>4. cache' \in [Tasks -> Intervals] /\ cacheAge' \in 0..CacheTicks
    BY <1>1, PeriodicAssumption DEF TypeOK
  <2>5. /\ scenario' \in Scenarios' /\ interval' \in [Tasks' -> Intervals']
        /\ age' \in [Tasks' -> 0..LongAgo'] /\ seqno' \in [Feeds -> Nat]
    BY <1>2, <1>13 DEF TypeOK, settings
  <2>6. /\ worker' \in {"idle", "receive", "tell", "post"}
        /\ job' \in Job' \cup {NoJob} /\ reply' \in Reply'
    BY <1>2, <1>13 DEF TypeOK
  <2>7. /\ asked' \in Seq(Job)' /\ answers' \in Seq(Reply)' /\ timeouts' \in 0..scenario'.timeouts
    BY <1>2, <1>13 DEF TypeOK, settings, connection
  <2>8. /\ messages' \in 0..MaxMessages /\ published' \in 0..MaxNotices
        /\ notices' \in Seq(1..published')
        /\ shownMessages' \in Seq(Nat) /\ shownNotices' \in Seq(Nat)
    BY <1>2 DEF TypeOK, client, shown
  <2>9. QED
    BY <1>13, <2>1, <2>2, <2>3, <2>4, <2>5, <2>6, <2>7, <2>8, Zenon DEF TypeOK
<1>18. QED
  BY <1>15, <1>16, <1>17

-----------------------------------------------------------------------------
(* The worker.                                                             *)

\* What the client may answer to a job continues the feed of the job.
LEMMA AnswerContinues ==
  ASSUME TypeOK, ClientInv, NEW j \in Job
  PROVE  /\ Answer(j) \in Reply /\ Answer(j).request = j
         /\ j.task = "GetMessages" =>
              /\ ~Answer(j).refreshed
              /\ \A k \in 1..Len(Answer(j).items) : Answer(j).items[k] = j.seqno + k
         /\ j.task = "GetNotices" =>
              /\ \A k, m \in 1..Len(Answer(j).items) : k < m => Answer(j).items[k] < Answer(j).items[m]
              /\ ~Answer(j).refreshed => \A k \in 1..Len(Answer(j).items) : Answer(j).items[k] > j.seqno
<1>1. j.seqno \in Nat /\ messages \in Nat /\ published \in Nat /\ refresh \in BOOLEAN
  <2>1. refresh \in BOOLEAN
    BY Zenon DEF TypeOK
  <2>2. QED
    BY <2>1 DEF TypeOK, Job
<1>2. CASE j.task = "GetMessages"
  <2>1. PICK log : log = [k \in 1..messages |-> k]
    OBVIOUS
  <2>2. log \in Seq(Nat) /\ Len(log) = messages /\ \A k \in 1..Len(log) : log[k] = 0 + k
    BY <1>1, <2>1
  <2>3. Answer(j) = [request |-> j, ok |-> TRUE, items |-> After(log, j.seqno), refreshed |-> FALSE]
    BY <1>2, <2>1 DEF Answer
  <2>4. After(log, j.seqno) \in Seq(Nat)
    BY <1>1, <2>2, AfterIsASuffix
  <2>5. PICK m \in 0..Len(log) :
          /\ \A k \in 1..Len(log) : k > m <=> log[k] > j.seqno
          /\ Len(After(log, j.seqno)) = Len(log) - m
          /\ \A k \in 1..(Len(log) - m) : After(log, j.seqno)[k] = log[m + k]
    <3>1. 0 \in Nat
      OBVIOUS
    <3>2. QED
      BY ONLY <1>1, <2>2, <3>1, AfterIsASuffix
  <2>6. m = j.seqno \/ m = Len(log)
    <3>1. CASE m < Len(log)
      <4>1. m + 1 \in 1..Len(log) /\ log[m + 1] = m + 1 /\ m + 1 > j.seqno
        BY <1>1, <2>2, <2>5, <3>1
      <4>2. m > 0 => m \in 1..Len(log) /\ log[m] = m /\ ~(m > j.seqno)
        BY <1>1, <2>2, <2>5, <3>1
      <4>3. QED
        BY <1>1, <2>2, <4>1, <4>2
    <3>2. QED
      BY <1>1, <2>2, <3>1
  <2>7. \A k \in 1..Len(After(log, j.seqno)) : After(log, j.seqno)[k] = j.seqno + k
    BY <1>1, <2>2, <2>5, <2>6
  <2>8. QED
    BY <1>2, <2>3, <2>4, <2>7 DEF Reply
<1>3. CASE j.task = "GetNotices"
  <2>1. notices \in Seq(Nat) /\ Len(notices) \in Nat
    <3>1. notices \in Seq(1..published) /\ 1..published \subseteq Nat
      BY <1>1 DEF TypeOK
    <3>2. QED
      BY <3>1, SeqMonotonic, LenProperties
  <2>2. PICK first \in Nat : first = published - Len(notices)
    <3>1. published - Len(notices) \in Nat
      BY <1>1, <2>1 DEF ClientInv
    <3>2. QED
      BY <3>1, Zenon
  <2>3. \A k \in 1..Len(notices) : notices[k] = first + k
    BY <2>2 DEF ClientInv
  <2>4. CASE refresh
    <3>1. Answer(j) = [request |-> j, ok |-> TRUE, items |-> notices, refreshed |-> refresh]
      BY <1>3, <2>4 DEF Answer
    <3>2. \A k, m \in 1..Len(notices) : k < m => notices[k] < notices[m]
      BY <2>1, <2>3
    <3>3. QED
      BY <1>1, <1>3, <2>1, <2>4, <3>1, <3>2 DEF Reply
  <2>5. CASE ~refresh
    <3>1. Answer(j) = [request |-> j, ok |-> TRUE, items |-> After(notices, j.seqno), refreshed |-> FALSE]
      BY <1>3, <2>5 DEF Answer
    <3>2. After(notices, j.seqno) \in Seq(Nat)
      BY <1>1, <2>1, <2>3, AfterIsASuffix
    <3>3. PICK m \in 0..Len(notices) :
            /\ \A k \in 1..Len(notices) : k > m <=> notices[k] > j.seqno
            /\ Len(After(notices, j.seqno)) = Len(notices) - m
            /\ \A k \in 1..(Len(notices) - m) : After(notices, j.seqno)[k] = notices[m + k]
      BY <1>1, <2>1, <2>3, AfterIsASuffix
    <3>4. \A k \in 1..Len(After(notices, j.seqno)) :
            /\ After(notices, j.seqno)[k] = first + m + k
            /\ After(notices, j.seqno)[k] > j.seqno
      BY <2>1, <2>3, <3>3
    <3>5. \A k, i \in 1..Len(After(notices, j.seqno)) :
            k < i => After(notices, j.seqno)[k] < After(notices, j.seqno)[i]
      BY <2>1, <3>3, <3>4
    <3>6. QED
      BY <1>1, <1>3, <3>1, <3>2, <3>4, <3>5 DEF Reply
  <2>6. QED
    BY <1>1, <2>4, <2>5
<1>4. CASE j.task \notin Feeds
  BY <1>4 DEF Answer, Reply, Feeds
<1>5. QED
  BY <1>2, <1>3, <1>4 DEF Feeds

LEMMA FetchIInv ==
  ASSUME IInv, Fetch
  PROVE  IInv'
<1> USE DEF IInv
<1>1. /\ worker = "idle" /\ queue # <<>> /\ job' = Head(queue) /\ queue' = Tail(queue)
      /\ UNCHANGED <<settings, scheduler, reply, answers, timeouts, client, shown>>
      /\ \/ worker' = "receive" /\ asked' = Append(asked, Head(queue))
         \/ worker' = "tell" /\ asked' = asked
  BY DEF Fetch
<1>2. PICK j : j = Head(queue)
  OBVIOUS
<1>3. queue \in Seq(Job) /\ GoodQueue(queue, pending)
  BY <1>1 DEF SchedulerInv, GoodQueue, Waiting
<1>4. /\ j \in Job /\ queue' \in Seq(Job) /\ Len(queue) \in Nat \ {0}
      /\ Len(queue') = Len(queue) - 1
      /\ \A i \in 1..Len(queue') : queue'[i] = queue[i + 1]
      /\ j = queue[1]
  BY <1>1, <1>2, <1>3, HeadTailProperties, LenProperties, EmptySeq
<1>5. j.task \in pending /\ AsFar(j.task, j.seqno)
  BY <1>3, <1>4 DEF GoodQueue
<1>6. Tasks' = Tasks /\ Intervals' = Intervals /\ LongAgo' = LongAgo /\ Job' = Job /\ Reply' = Reply
  BY <1>1 DEF Tasks, Intervals, LongAgo, Job, Reply, settings
<1>7. \A t, n : AsFar(t, n)' <=> AsFar(t, n)
  BY <1>1 DEF AsFar, Seen, shown
<1>8. Waiting' = pending \ {j.task} /\ job' = j
  BY <1>1, <1>2 DEF Waiting, scheduler
<1>9. SchedulerInv'
  <2>1. \A i \in 1..Len(queue') :
          i + 1 \in 1..Len(queue) /\ i + 1 # 1 /\ queue'[i] = queue[i + 1]
    BY <1>4
  <2>2. \A i \in 1..Len(queue') : /\ queue'[i].task \in pending \ {j.task}
                                  /\ AsFar(queue'[i].task, queue'[i].seqno)
    <3>1. SUFFICES ASSUME NEW i \in 1..Len(queue')
                   PROVE  /\ queue'[i].task \in pending \ {j.task}
                          /\ AsFar(queue'[i].task, queue'[i].seqno)
      OBVIOUS
    <3>2. 1 \in 1..Len(queue) /\ i + 1 \in 1..Len(queue) /\ i + 1 # 1
      BY <1>4, <2>1
    <3>3. queue[i + 1].task # queue[1].task
      BY <1>3, <3>2 DEF GoodQueue
    <3>4. queue[i + 1].task \in pending /\ AsFar(queue[i + 1].task, queue[i + 1].seqno)
      BY <1>3, <3>2 DEF GoodQueue
    <3>5. QED
      BY <1>4, <2>1, <3>3, <3>4
  <2>3. \A i, k \in 1..Len(queue') : queue'[i].task = queue'[k].task => i = k
    <3>1. \A i, k \in 1..Len(queue) : queue[i].task = queue[k].task => i = k
      BY <1>3 DEF GoodQueue
    <3>2. SUFFICES ASSUME NEW i \in 1..Len(queue'), NEW k \in 1..Len(queue'),
                          queue'[i].task = queue'[k].task
                   PROVE  i = k
      OBVIOUS
    <3>3. i + 1 = k + 1
      BY <2>1, <3>1, <3>2
    <3>4. i \in Nat /\ k \in Nat
      OBVIOUS
    <3>5. QED
      BY <3>3, <3>4
  <2>4. GoodQueue(queue, Waiting)'
    BY <1>4, <1>6, <1>7, <1>8, <2>2, <2>3 DEF GoodQueue
  <2>5. \A t \in (Tasks' \cap Feeds) \ pending' : AsFar(t, seqno[t])'
    BY <1>1, <1>6, <1>7 DEF SchedulerInv, scheduler
  <2>6. QED
    BY <2>4, <2>5 DEF SchedulerInv
<1>10. WorkerInv'
  <2>1. job'.task \in pending' /\ AsFar(job'.task, job'.seqno)
    BY <1>1, <1>5, <1>8 DEF scheduler
  <2>2. (worker \in {"idle", "receive"} => reply = NoReply)' /\ reply' = NoReply
    BY <1>1 DEF WorkerInv
  <2>3. QED
    BY <1>4, <1>6, <1>7, <1>8, <2>1, <2>2 DEF WorkerInv
<1>11. asked \in Seq(Job) /\ asked' \in Seq(Job)
       /\ \A k \in 1..Len(asked') : asked'[k].task = "GetMessages" => Seen(asked'[k].seqno)
  <2>1. asked \in Seq(Job) /\ Len(asked) \in Nat
    BY LenProperties DEF TypeOK
  <2>2. \A k \in 1..Len(asked) : asked[k].task = "GetMessages" => Seen(asked[k].seqno)
    BY DEF ConnectionInv
  <2>3. CASE asked' = Append(asked, j)
    <3>1. /\ asked' \in Seq(Job) /\ Len(asked') = Len(asked) + 1
          /\ \A k \in 1..Len(asked) : asked'[k] = asked[k]
          /\ asked'[Len(asked) + 1] = j
      BY <1>4, <2>1, <2>3, AppendProperties
    <3>2. j.task = "GetMessages" => Seen(j.seqno)
      BY <1>5 DEF AsFar
    <3>3. \A k \in 1..Len(asked') : k \in 1..Len(asked) \/ k = Len(asked) + 1
      BY <2>1, <3>1
    <3>4. QED
      BY <2>1, <2>2, <3>1, <3>2, <3>3
  <2>4. QED
    BY <1>1, <1>2, <2>1, <2>2, <2>3
<1>12. ConnectionInv'
  <2>1. \A n : Seen(n)' <=> Seen(n)
    BY <1>1 DEF Seen, shown
  <2>2. \A a : GoodAnswer(a)' <=> GoodAnswer(a)
    BY <2>1 DEF GoodAnswer
  <2>3. timeouts = 0 => InStep'
    <3>1. timeouts = 0 => asked = <<>> /\ answers = <<>>
      BY <1>1 DEF ConnectionInv, InStep
    <3>2. Append(<<>>, j) = <<j>>
      OBVIOUS
    <3>3. QED
      BY <1>1, <1>2, <1>8, <3>1, <3>2 DEF InStep
  <2>4. QED
    BY <1>1, <1>11, <2>1, <2>2, <2>3 DEF ConnectionInv
<1>13. ShownInv' /\ ClientInv'
  BY <1>1 DEF ShownInv, ClientInv, shown, client
<1>14. TypeOK'
  <2>1. {activeOnly', enabled', calling', stopped', refresh'} \subseteq BOOLEAN /\ shownActive' \in BOOLEAN
    BY <1>1, Zenon DEF TypeOK, settings, scheduler, client, shown
  <2>2. QED
    BY <1>1, <1>4, <1>6, <1>8, <1>11, <2>1 DEF TypeOK, settings, scheduler, client, shown
<1>15. QED
  BY <1>9, <1>10, <1>12, <1>13, <1>14

\* What is left of a sequence of answers when the first n are gone.
LEMMA AnswersLeft ==
  ASSUME answers \in Seq(Reply), NEW n \in 0..Len(answers),
         NEW rest, rest = SubSeq(answers, n + 1, Len(answers)),
         \A k \in 1..Len(answers) : GoodAnswer(answers[k])
  PROVE  /\ rest \in Seq(Reply) /\ Len(rest) = Len(answers) - n
         /\ \A k \in 1..Len(rest) : GoodAnswer(rest[k])
<1>1. Len(answers) \in Nat
  BY LenProperties
<1>2. \A i \in (n + 1)..Len(answers) : answers[i] \in Reply
  BY <1>1, ElementOfSeq
<1>3. /\ rest \in Seq(Reply) /\ Len(rest) = Len(answers) - n
      /\ \A k \in 1..(Len(answers) - n) : rest[k] = answers[n + k]
  BY <1>1, <1>2, SubSeqProperties
<1>4. \A k \in 1..(Len(answers) - n) : n + k \in 1..Len(answers)
  BY <1>1
<1>5. QED
  BY <1>3, <1>4

\* The job has read its answer, or the answer to a request of the same task.
LEMMA ReceiveIInv ==
  ASSUME IInv, Receive
  PROVE  IInv'
<1> USE DEF IInv
<1>1. PICK n \in 1..Len(answers) :
        /\ reply' = Understood(n)
        /\ answers' = SubSeq(answers, n + 1, Len(answers))
  BY DEF Receive
<1>2. /\ worker = "receive" /\ worker' = "tell"
      /\ UNCHANGED <<settings, scheduler, queue, job, asked, timeouts, client, shown>>
  BY DEF Receive
<1>3. Tasks' = Tasks /\ Intervals' = Intervals /\ LongAgo' = LongAgo /\ Job' = Job /\ Reply' = Reply
  BY <1>2 DEF Tasks, Intervals, LongAgo, Job, Reply, settings
<1>4. (\A m : Seen(m)' <=> Seen(m)) /\ (\A t, m : AsFar(t, m)' <=> AsFar(t, m))
  BY <1>2 DEF Seen, AsFar, shown
<1>5. \A a : GoodAnswer(a)' <=> GoodAnswer(a)
  BY <1>4 DEF GoodAnswer
<1>6. /\ answers \in Seq(Reply) /\ Len(answers) \in Nat
      /\ Head(answers) = answers[1] /\ answers[1] \in Reply /\ GoodAnswer(answers[1])
  <2>1. answers \in Seq(Reply) /\ Len(answers) \in Nat
    BY LenProperties DEF TypeOK
  <2>2. 1 \in 1..Len(answers)
    BY <2>1
  <2>3. QED
    BY <2>1, <2>2, ElementOfSeq DEF ConnectionInv
<1>7. /\ answers' \in Seq(Reply) /\ Len(answers') = Len(answers) - n
      /\ \A k \in 1..Len(answers') : GoodAnswer(answers'[k])
  BY <1>1, <1>6, AnswersLeft DEF ConnectionInv
<1>8. /\ reply' \in Reply /\ GoodAnswer(reply')
      /\ reply' = NoReply \/ (reply' = answers[1] /\ answers[1].request.task = job.task)
  BY <1>1, <1>6, NoReplyIsAReply DEF Understood
<1>9. timeouts = 0 =>
        /\ asked = <<>> /\ Len(answers) = 1
        /\ reply' = NoReply \/ reply'.request = job
  <2>1. SUFFICES ASSUME timeouts = 0
                 PROVE  /\ asked = <<>> /\ Len(answers) = 1
                        /\ reply' = NoReply \/ reply'.request = job
    OBVIOUS
  <2>2. InStep /\ Len(answers) # 0
    BY <1>6, <2>1 DEF ConnectionInv
  <2>3. asked = <<>> /\ Len(answers) = 1 /\ (answers[1] = NoReply \/ answers[1].request = job)
    <3>1. Len(<<>>) = 0
      OBVIOUS
    <3>2. QED
      BY <1>2, <2>2, <3>1 DEF InStep
  <2>4. QED
    BY <1>8, <2>3
<1>10. ConnectionInv'
  <2>1. timeouts = 0 => InStep'
    <3>1. timeouts = 0 => n = 1 /\ Len(answers') = 0
      <4>1. SUFFICES ASSUME timeouts = 0 PROVE n = 1 /\ Len(answers') = 0
        OBVIOUS
      <4>2. Len(answers) = 1
        BY <1>9, <4>1
      <4>3. n = 1
        BY <4>2
      <4>4. QED
        BY <1>7, <4>2, <4>3
    <3>2. timeouts = 0 => answers' = <<>>
      BY <1>7, <3>1, EmptySeq
    <3>3. QED
      BY <1>2, <1>9, <3>2 DEF InStep
  <2>2. QED
    BY <1>2, <1>4, <1>5, <1>7, <1>8, <2>1 DEF ConnectionInv
<1>11. WorkerInv'
  BY <1>2, <1>3, <1>4, <1>8, <1>9 DEF WorkerInv, scheduler
<1>12. SchedulerInv'
  BY <1>2, <1>3, <1>4 DEF SchedulerInv, GoodQueue, Waiting, scheduler
<1>13. ShownInv' /\ ClientInv'
  BY <1>2 DEF ShownInv, ClientInv, shown, client
<1>14. TypeOK'
  <2>1. {activeOnly', enabled', calling', stopped', refresh'} \subseteq BOOLEAN /\ shownActive' \in BOOLEAN
    BY <1>2, Zenon DEF TypeOK, settings, scheduler, client, shown
  <2>2. QED
    BY <1>2, <1>3, <1>7, <1>8, <2>1 DEF TypeOK, settings, scheduler, client, shown
<1>15. QED
  BY <1>10, <1>11, <1>12, <1>13, <1>14

\* From here on the connection may be behind: only what was seen matters.
LEMMA ReceiveTimesOutIInv ==
  ASSUME IInv, ReceiveTimesOut
  PROVE  IInv'
<1> USE DEF IInv
<1>1. PICK n \in 0..Len(answers) : answers' = SubSeq(answers, n + 1, Len(answers))
  BY DEF ReceiveTimesOut
<1>2. /\ worker = "receive" /\ worker' = "tell"
      /\ timeouts' = timeouts + 1 /\ timeouts < scenario.timeouts
      /\ UNCHANGED <<settings, scheduler, queue, job, reply, asked, client, shown>>
  BY DEF ReceiveTimesOut
<1>3. Tasks' = Tasks /\ Intervals' = Intervals /\ LongAgo' = LongAgo /\ Job' = Job /\ Reply' = Reply
  BY <1>2 DEF Tasks, Intervals, LongAgo, Job, Reply, settings
<1>4. timeouts' \in 0..scenario.timeouts' /\ timeouts' # 0
  <2>1. timeouts \in 0..scenario.timeouts /\ scenario.timeouts \in Nat
    BY PeriodicAssumption DEF TypeOK
  <2>2. QED
    BY <1>2, <2>1 DEF settings
<1>5. (\A m : Seen(m)' <=> Seen(m)) /\ (\A t, m : AsFar(t, m) => AsFar(t, m)')
  BY <1>2, <1>4 DEF Seen, AsFar, shown
<1>6. \A a : GoodAnswer(a)' <=> GoodAnswer(a)
  BY <1>5 DEF GoodAnswer
<1>7. answers' \in Seq(Reply) /\ \A k \in 1..Len(answers') : GoodAnswer(answers'[k])
  <2>1. answers \in Seq(Reply)
    BY DEF TypeOK
  <2>2. QED
    BY <1>1, <2>1, AnswersLeft DEF ConnectionInv
<1>8. ConnectionInv'
  BY <1>2, <1>4, <1>5, <1>6, <1>7 DEF ConnectionInv
<1>9. WorkerInv'
  BY <1>2, <1>3, <1>5 DEF WorkerInv, scheduler
<1>10. SchedulerInv'
  BY <1>2, <1>3, <1>5 DEF SchedulerInv, GoodQueue, Waiting, scheduler
<1>11. ShownInv' /\ ClientInv'
  BY <1>2, <1>4 DEF ShownInv, ClientInv, shown, client
<1>12. TypeOK'
  <2>1. {activeOnly', enabled', calling', stopped', refresh'} \subseteq BOOLEAN /\ shownActive' \in BOOLEAN
    BY <1>2, Zenon DEF TypeOK, settings, scheduler, client, shown
  <2>2. QED
    BY <1>2, <1>3, <1>4, <1>7, <2>1 DEF TypeOK, settings, scheduler, client, shown
<1>13. QED
  BY <1>8, <1>9, <1>10, <1>11, <1>12

\* The client's answer goes on from where its request started.
LEMMA ClientAnswersIInv ==
  ASSUME IInv, ClientAnswers
  PROVE  IInv'
<1> USE DEF IInv
<1>1. /\ asked # <<>> /\ asked' = Tail(asked)
      /\ UNCHANGED <<settings, scheduler, work, timeouts, messages, notices, published, shown>>
  BY DEF ClientAnswers
<1>2. PICK j : j = Head(asked)
  OBVIOUS
<1>3. PICK answer \in {Answer(j), NoReply} : answers' = Append(answers, answer)
  BY <1>2 DEF ClientAnswers
<1>4. /\ j \in Job /\ j = asked[1] /\ Len(asked) \in Nat \ {0}
      /\ asked' \in Seq(Job) /\ Len(asked') = Len(asked) - 1
      /\ \A i \in 1..Len(asked') : asked'[i] = asked[i + 1]
  <2>1. asked \in Seq(Job)
    BY DEF TypeOK
  <2>2. QED
    BY <1>1, <1>2, <2>1, HeadTailProperties, LenProperties, EmptySeq
<1>5. Tasks' = Tasks /\ Intervals' = Intervals /\ LongAgo' = LongAgo /\ Job' = Job /\ Reply' = Reply
  BY <1>1 DEF Tasks, Intervals, LongAgo, Job, Reply, settings
<1>6. (\A m : Seen(m)' <=> Seen(m)) /\ (\A t, m : AsFar(t, m)' <=> AsFar(t, m))
  BY <1>1 DEF Seen, AsFar, shown
<1>7. \A a : GoodAnswer(a)' <=> GoodAnswer(a)
  BY <1>6 DEF GoodAnswer
<1>8. j.task = "GetMessages" => Seen(j.seqno)
  BY <1>4 DEF ConnectionInv
<1>9. answer \in Reply /\ GoodAnswer(answer) /\ (answer = NoReply \/ answer.request = j)
  <2>1. CASE answer = NoReply
    BY <2>1, NoReplyIsAReply
  <2>2. CASE answer = Answer(j)
    BY <1>4, <1>8, <2>2, AnswerContinues DEF GoodAnswer
  <2>3. QED
    BY <2>1, <2>2
<1>10. /\ answers \in Seq(Reply) /\ Len(answers) \in Nat
       /\ answers' \in Seq(Reply) /\ Len(answers') = Len(answers) + 1
       /\ \A k \in 1..Len(answers) : answers'[k] = answers[k]
       /\ answers'[Len(answers) + 1] = answer
  <2>1. answers \in Seq(Reply) /\ Len(answers) \in Nat
    BY LenProperties DEF TypeOK
  <2>2. QED
    BY <1>3, <1>9, <2>1, AppendProperties
<1>11. \A k \in 1..Len(answers') : GoodAnswer(answers'[k])
  <2>1. \A k \in 1..Len(answers') : k \in 1..Len(answers) \/ k = Len(answers) + 1
    BY <1>10
  <2>2. QED
    BY <1>9, <1>10, <2>1 DEF ConnectionInv
<1>12. \A k \in 1..Len(asked') : asked'[k].task = "GetMessages" => Seen(asked'[k].seqno)
  <2>1. \A k \in 1..Len(asked') : k + 1 \in 1..Len(asked)
    BY <1>4
  <2>2. QED
    BY <1>4, <2>1 DEF ConnectionInv
<1>13. timeouts = 0 => InStep'
  <2>1. SUFFICES ASSUME timeouts = 0 PROVE InStep'
    OBVIOUS
  <2>2. worker = "receive" /\ asked = <<job>> /\ answers = <<>>
    BY <1>1, <2>1 DEF ConnectionInv, InStep
  <2>3. Len(asked) = 1 /\ asked[1] = job /\ Len(answers) = 0
    BY <2>2
  <2>4. j = job /\ Len(asked') = 0 /\ Len(answers') = 1 /\ answers'[1] = answer
    BY <1>4, <1>10, <2>3
  <2>5. asked' = <<>>
    BY <1>4, <2>4, EmptySeq
  <2>6. worker' = worker /\ job' = job
    BY <1>1 DEF work
  <2>7. QED
    BY <1>9, <2>2, <2>4, <2>5, <2>6 DEF InStep
<1>14. ConnectionInv'
  BY <1>1, <1>6, <1>7, <1>11, <1>12, <1>13 DEF ConnectionInv, work
<1>15. WorkerInv' /\ SchedulerInv'
  BY <1>1, <1>5, <1>6 DEF WorkerInv, SchedulerInv, GoodQueue, Waiting, scheduler, work
<1>16. ShownInv' /\ ClientInv'
  BY <1>1 DEF ShownInv, ClientInv, shown
<1>17. TypeOK'
  <2>1. refresh' \in BOOLEAN
    <3>1. refresh \in BOOLEAN
      BY Zenon DEF TypeOK
    <3>2. PICK sent \in BOOLEAN : refresh' \in {refresh, sent}
      BY Zenon DEF ClientAnswers
    <3>3. QED
      BY <3>1, <3>2
  <2>2. {activeOnly', enabled', calling', stopped'} \subseteq BOOLEAN /\ shownActive' \in BOOLEAN
    BY <1>1, Zenon DEF TypeOK, settings, scheduler, shown
  <2>3. {activeOnly', enabled', calling', stopped', refresh'} \subseteq BOOLEAN
    BY <2>1, <2>2
  <2>4. QED
    BY <1>1, <1>4, <1>5, <1>10, <2>2, <2>3 DEF TypeOK, settings, scheduler, work, shown
<1>18. QED
  BY <1>14, <1>15, <1>16, <1>17

LEMMA ClientStepIInv ==
  ASSUME IInv, ClientStep
  PROVE  IInv'
<1>1. QED
  BY ClientListsIInv, ClientAnswersIInv DEF ClientStep

\* An answer brings its job to where the handlers are when they have been told it.
LEMMA TellIInv ==
  ASSUME IInv, Tell
  PROVE  IInv'
<1> USE DEF IInv
<1>1. /\ worker = "tell" /\ worker' = "post"
      /\ UNCHANGED <<settings, scheduler, queue, reply, connection, client>>
  BY DEF Tell
<1>2. job \in Job /\ job.task \in pending /\ AsFar(job.task, job.seqno)
  BY <1>1 DEF WorkerInv
<1>3. PICK items : items = reply.items
  OBVIOUS
<1>4. items \in Seq(Nat) /\ Len(items) \in Nat /\ (items # <<>> => Len(items) >= 1)
  <2>1. items \in Seq(Nat)
    BY <1>3 DEF TypeOK, Reply
  <2>2. QED
    BY <2>1, LenProperties, EmptySeq
\* What was received answers a request of the job's task, and of the job itself if the
\* connection is in step.
<1>5. /\ GoodAnswer(reply) /\ reply.request \in Job \cup {NoJob}
      /\ reply.request = NoJob => items = <<>>
      /\ items # <<>> => reply.request \in Job /\ reply.request.task = job.task
      /\ items # <<>> /\ timeouts = 0 => reply.request = job
  <2>1. reply = NoReply \/ (reply.request.task = job.task /\ (timeouts = 0 => reply.request = job))
    BY <1>1 DEF WorkerInv
  <2>2. NoReply.items = <<>>
    BY DEF NoReply
  <2>3. reply.request \in Job \cup {NoJob} /\ GoodAnswer(reply)
    BY DEF TypeOK, Reply, ConnectionInv
  <2>4. reply.request = NoJob => items = <<>>
    <3>1. job.task \in AllTasks
      BY <1>2, PeriodicAssumption DEF TypeOK, Tasks
    <3>2. NoJob.task # job.task
      BY <3>1 DEF NoJob, AllTasks
    <3>3. QED
      BY <1>3, <2>1, <2>2, <3>2
  <2>5. QED
    BY <1>3, <2>1, <2>2, <2>3, <2>4
<1>6. job' = IF items = <<>> THEN job ELSE [job EXCEPT !.seqno = items[Len(items)]]
  BY <1>3 DEF Tell, Last
<1>7. /\ job' \in Job /\ job'.task = job.task
      /\ job'.seqno = IF items = <<>> THEN job.seqno ELSE items[Len(items)]
  <2>1. items # <<>> => items[Len(items)] \in Nat
    BY <1>4, ElementOfSeq
  <2>2. QED
    BY <1>2, <1>6, <2>1 DEF Job
<1>8. Tasks' = Tasks /\ Intervals' = Intervals /\ LongAgo' = LongAgo /\ Job' = Job /\ Reply' = Reply
  BY <1>1 DEF Tasks, Intervals, LongAgo, Job, Reply, settings
<1>9. /\ shownMessages \in Seq(Nat) /\ Len(shownMessages) \in Nat
      /\ shownNotices \in Seq(Nat) /\ Len(shownNotices) \in Nat
  BY LenProperties DEF TypeOK
<1>10. /\ shownMessages' \in Seq(Nat)
       /\ \A k \in 1..Len(shownMessages) : k \in 1..Len(shownMessages') /\ shownMessages'[k] = shownMessages[k]
       /\ timeouts = 0 => \A k \in 1..Len(shownMessages') : shownMessages'[k] = k
       /\ \A k \in 1..Len(shownMessages') : \A n \in 1..shownMessages'[k] :
            \E i \in 1..k : shownMessages'[i] = n
       /\ job.task # "GetMessages" => UNCHANGED shownMessages
       /\ job.task = "GetMessages" => Seen(job.seqno)'
       /\ job.task = "GetMessages" /\ timeouts = 0 => Len(shownMessages') = job'.seqno
  <2>1. CASE job.task = "GetMessages" /\ items # <<>>
    <3>1. shownMessages' = shownMessages \o items
      BY <1>3, <2>1 DEF Tell
    <3>2. /\ shownMessages' \in Seq(Nat)
          /\ Len(shownMessages') = Len(shownMessages) + Len(items)
          /\ \A k \in 1..(Len(shownMessages) + Len(items)) :
               shownMessages'[k] = IF k <= Len(shownMessages) THEN shownMessages[k]
                                   ELSE items[k - Len(shownMessages)]
      BY <1>4, <1>9, <3>1, ConcatProperties
    <3>3. PICK start : start = reply.request.seqno
      OBVIOUS
    <3>4. start \in Nat /\ Seen(start) /\ \A k \in 1..Len(items) : items[k] = start + k
      <4>1. reply.request \in Job /\ reply.request.task = "GetMessages"
        BY <1>5, <2>1
      <4>2. start \in Nat
        BY <3>3, <4>1 DEF Job
      <4>3. QED
        BY <1>3, <1>5, <3>3, <4>1, <4>2 DEF GoodAnswer
    \* A place of the new list is one of the old list or of the answer.
    <3>5. \A k \in 1..Len(shownMessages) : k \in 1..Len(shownMessages') /\ shownMessages'[k] = shownMessages[k]
      <4>1. SUFFICES ASSUME NEW k \in 1..Len(shownMessages)
                     PROVE  k \in 1..Len(shownMessages') /\ shownMessages'[k] = shownMessages[k]
        OBVIOUS
      <4>2. k \in 1..(Len(shownMessages) + Len(items)) /\ k <= Len(shownMessages)
        BY <1>4, <1>9
      <4>3. QED
        BY <3>2, <4>2
    <3>6. \A i \in 1..Len(items) :
            /\ Len(shownMessages) + i \in 1..Len(shownMessages')
            /\ shownMessages'[Len(shownMessages) + i] = start + i
      <4>1. SUFFICES ASSUME NEW i \in 1..Len(items)
                     PROVE  /\ Len(shownMessages) + i \in 1..Len(shownMessages')
                            /\ shownMessages'[Len(shownMessages) + i] = start + i
        OBVIOUS
      <4>2. /\ Len(shownMessages) + i \in 1..(Len(shownMessages) + Len(items))
            /\ ~(Len(shownMessages) + i <= Len(shownMessages))
            /\ (Len(shownMessages) + i) - Len(shownMessages) = i
        BY <1>4, <1>9
      <4>3. shownMessages'[Len(shownMessages) + i] = items[i]
        BY <3>2, <4>2
      <4>4. QED
        BY <3>2, <3>4, <4>2, <4>3
    <3>7. \A k \in 1..Len(shownMessages') :
            \/ k \in 1..Len(shownMessages)
            \/ \E i \in 1..Len(items) : k = Len(shownMessages) + i
      <4>1. SUFFICES ASSUME NEW k \in 1..Len(shownMessages'), k \notin 1..Len(shownMessages)
                     PROVE  \E i \in 1..Len(items) : k = Len(shownMessages) + i
        OBVIOUS
      <4>2. k - Len(shownMessages) \in 1..Len(items) /\ k = Len(shownMessages) + (k - Len(shownMessages))
        BY <1>4, <1>9, <3>2, <4>1
      <4>3. QED
        BY <4>2
    <3>8. job'.seqno = start + Len(items) /\ Len(items) \in 1..Len(items)
      BY <1>4, <1>7, <2>1, <3>4
    <3>9. timeouts = 0 => start = job.seqno /\ Len(shownMessages) = job.seqno
      BY <1>2, <1>5, <2>1, <3>3 DEF AsFar
    <3>10. timeouts = 0 => \A k \in 1..Len(shownMessages') : shownMessages'[k] = k
      <4>1. \A k \in 1..Len(shownMessages) : timeouts = 0 => shownMessages[k] = k
        BY DEF ShownInv
      <4>2. QED
        BY <3>5, <3>6, <3>7, <3>9, <4>1
    <3>11. \A k \in 1..Len(shownMessages') : \A n \in 1..shownMessages'[k] :
             \E i \in 1..k : shownMessages'[i] = n
      <4>1. SUFFICES ASSUME NEW k \in 1..Len(shownMessages'), NEW n \in 1..shownMessages'[k]
                     PROVE  \E i \in 1..k : shownMessages'[i] = n
        OBVIOUS
      <4>2. CASE k \in 1..Len(shownMessages)
        <5>1. n \in 1..shownMessages[k]
          BY <3>5, <4>2
        <5>2. PICK i \in 1..k : shownMessages[i] = n
          BY <4>2, <5>1 DEF ShownInv
        <5>3. i \in 1..Len(shownMessages)
          BY <1>9, <4>2
        <5>4. QED
          BY <3>5, <5>2, <5>3
      <4>3. CASE \E i \in 1..Len(items) : k = Len(shownMessages) + i
        <5>1. PICK i \in 1..Len(items) : k = Len(shownMessages) + i
          BY <4>3
        <5>2. shownMessages'[k] = start + i
          BY <3>6, <5>1
        <5>3. n \in 1..(start + i) /\ i \in Nat
          BY <5>2
        <5>4. CASE n <= start
          <6>1. n \in 1..start
            BY <3>4, <5>3, <5>4
          <6>2. PICK m \in 1..Len(shownMessages) : shownMessages[m] = n
            BY <3>4, <6>1 DEF Seen
          <6>3. m \in 1..k
            BY <1>9, <5>1, <5>3
          <6>4. QED
            BY <3>5, <6>2, <6>3
        <5>5. CASE n > start
          <6>1. /\ n - start \in 1..Len(items) /\ n - start <= i
                /\ start + (n - start) = n
            BY <1>4, <3>4, <5>1, <5>3, <5>5
          <6>2. Len(shownMessages) + (n - start) \in 1..k
            BY <1>9, <5>1, <6>1
          <6>3. shownMessages'[Len(shownMessages) + (n - start)] = n
            BY <3>6, <6>1
          <6>4. QED
            BY <6>2, <6>3
        <5>6. QED
          BY <3>4, <5>3, <5>4, <5>5
      <4>4. QED
        BY <3>7, <4>2, <4>3
    <3>12. Seen(job.seqno)'
      <4>1. Len(shownMessages) + Len(items) \in 1..Len(shownMessages')
            /\ shownMessages'[Len(shownMessages) + Len(items)] = job'.seqno
        BY <3>6, <3>8
      <4>2. \A n \in 1..job'.seqno : \E i \in 1..(Len(shownMessages) + Len(items)) : shownMessages'[i] = n
        BY <3>11, <4>1
      <4>3. QED
        BY <3>2, <4>2 DEF Seen
    <3>13. timeouts = 0 => Len(shownMessages') = job'.seqno
      BY <3>2, <3>8, <3>9
    <3>14. QED
      BY <2>1, <3>2, <3>5, <3>10, <3>11, <3>12, <3>13
  <2>2. CASE ~(job.task = "GetMessages" /\ items # <<>>)
    <3>1. shownMessages' = shownMessages
      <4>1. CASE job.task = "GetMessages"
        <5>1. shownMessages' = shownMessages \o <<>>
          BY <1>3, <2>2, <4>1 DEF Tell
        <5>2. QED
          BY <1>9, <5>1, ConcatEmptySeq
      <4>2. CASE job.task # "GetMessages"
        BY <4>2 DEF Tell
      <4>3. QED
        BY <4>1, <4>2
    <3>2. job.task = "GetMessages" => job'.seqno = job.seqno
      BY <1>7, <2>2
    <3>3. job.task = "GetMessages" => Seen(job.seqno) /\ (timeouts = 0 => Len(shownMessages) = job.seqno)
      BY <1>2 DEF AsFar
    <3>4. QED
      BY <1>9, <3>1, <3>2, <3>3 DEF ShownInv, Seen
  <2>3. QED
    BY <2>1, <2>2
<1>11. shownNotices' \in Seq(Nat) /\ (job.task # "GetNotices" => UNCHANGED shownNotices)
  <2>1. shownNotices' \in {shownNotices, items, shownNotices \o items}
    BY <1>3 DEF Tell, NoticesAfter
  <2>2. shownNotices \o items \in Seq(Nat)
    BY <1>4, <1>9, ConcatProperties
  <2>3. QED
    BY <1>4, <1>9, <2>1, <2>2 DEF Tell
<1>12. ASSUME timeouts = 0
       PROVE  /\ \A k, m \in 1..Len(shownNotices') : k < m => shownNotices'[k] < shownNotices'[m]
              /\ job.task = "GetNotices" => \A k \in 1..Len(shownNotices') : shownNotices'[k] <= job'.seqno
  <2>0. job.task = "GetNotices" =>
          /\ \A k, m \in 1..Len(items) : k < m => items[k] < items[m]
          /\ ~reply.refreshed => \A k \in 1..Len(items) : items[k] > job.seqno
    <3>1. CASE items = <<>>
      BY <1>4, <3>1
    <3>2. CASE items # <<>>
      BY <1>3, <1>12, <1>5, <3>2 DEF GoodAnswer
    <3>3. QED
      BY <3>1, <3>2
  <2>1. CASE job.task = "GetNotices" /\ reply.refreshed
    <3>1. shownNotices' = items
      BY <1>3, <2>1 DEF Tell, NoticesAfter
    <3>2. \A k, m \in 1..Len(items) : k < m => items[k] < items[m]
      BY <2>1, <2>0
    <3>3. \A k \in 1..Len(items) : items[k] <= items[Len(items)]
      <4>1. SUFFICES ASSUME NEW k \in 1..Len(items) PROVE items[k] <= items[Len(items)]
        OBVIOUS
      <4>2. items[k] \in Nat /\ Len(items) \in 1..Len(items)
        BY <1>4, ElementOfSeq
      <4>3. QED
        BY <1>4, <3>2, <4>2
    <3>4. items = <<>> \/ job'.seqno = items[Len(items)]
      BY <1>7
    <3>5. QED
      BY <1>4, <2>1, <3>1, <3>2, <3>3, <3>4
  <2>2. CASE job.task = "GetNotices" /\ ~reply.refreshed
    <3>1. shownNotices' = shownNotices \o items
      BY <1>3, <2>2 DEF Tell, NoticesAfter
    <3>2. /\ shownNotices' \in Seq(Nat)
          /\ Len(shownNotices') = Len(shownNotices) + Len(items)
          /\ \A k \in 1..(Len(shownNotices) + Len(items)) :
               shownNotices'[k] = IF k <= Len(shownNotices) THEN shownNotices[k]
                                  ELSE items[k - Len(shownNotices)]
      BY <1>4, <1>9, <3>1, ConcatProperties
    <3>3. /\ \A k, m \in 1..Len(items) : k < m => items[k] < items[m]
          /\ \A k \in 1..Len(items) : items[k] > job.seqno
          /\ \A k \in 1..Len(shownNotices) : shownNotices[k] <= job.seqno
      BY <1>2, <1>12, <2>2, <2>0 DEF AsFar
    <3>4. /\ \A k \in 1..Len(items) : items[k] \in Nat
          /\ \A k \in 1..Len(shownNotices) : shownNotices[k] \in Nat
          /\ job.seqno \in Nat
      BY <1>2, <1>4, <1>9, ElementOfSeq DEF Job
    <3>5. \A k \in 1..Len(shownNotices') :
            \/ k \in 1..Len(shownNotices) /\ shownNotices'[k] = shownNotices[k]
            \/ /\ k > Len(shownNotices) /\ k - Len(shownNotices) \in 1..Len(items)
               /\ shownNotices'[k] = items[k - Len(shownNotices)]
      BY <1>4, <1>9, <3>2
    <3>6. ASSUME NEW k \in 1..Len(shownNotices'), NEW m \in 1..Len(shownNotices'), k < m
          PROVE  shownNotices'[k] < shownNotices'[m]
      <4>1. k \in Nat /\ m \in Nat
        OBVIOUS
      <4>2. CASE m \in 1..Len(shownNotices)
        <5>1. k \in 1..Len(shownNotices)
          BY <1>9, <3>6, <4>1, <4>2
        <5>2. shownNotices[k] < shownNotices[m]
          BY <1>12, <3>6, <4>2, <5>1 DEF ShownInv
        <5>3. shownNotices'[k] = shownNotices[k] /\ shownNotices'[m] = shownNotices[m]
          BY <1>9, <3>5, <4>2, <5>1
        <5>4. QED
          BY <5>2, <5>3
      <4>3. CASE m > Len(shownNotices)
        <5>1. m - Len(shownNotices) \in 1..Len(items) /\ shownNotices'[m] = items[m - Len(shownNotices)]
          BY <1>9, <3>5, <4>3
        <5>2. CASE k \in 1..Len(shownNotices)
          <6>1. shownNotices'[k] = shownNotices[k]
            BY <1>9, <3>5, <5>2
          <6>2. QED
            BY <3>3, <3>4, <5>1, <5>2, <6>1
        <5>3. CASE k > Len(shownNotices)
          <6>1. /\ k - Len(shownNotices) \in 1..Len(items)
                /\ shownNotices'[k] = items[k - Len(shownNotices)]
            BY <1>9, <3>5, <5>3
          <6>2. k - Len(shownNotices) < m - Len(shownNotices)
            BY <1>9, <3>6, <4>1
          <6>3. QED
            BY <3>3, <5>1, <6>1, <6>2
        <5>4. QED
          BY <1>9, <4>1, <5>2, <5>3
      <4>4. QED
        BY <1>9, <4>1, <4>2, <4>3
    <3>7. \A k \in 1..Len(shownNotices') : shownNotices'[k] <= job'.seqno
      <4>1. CASE items = <<>>
        <5>1. job'.seqno = job.seqno /\ Len(items) = 0
          BY <1>7, <4>1
        <5>2. QED
          BY <3>3, <3>5, <5>1
      <4>2. CASE items # <<>>
        <5>1. job'.seqno = items[Len(items)] /\ Len(items) \in 1..Len(items)
          BY <1>4, <1>7, <4>2
        <5>2. \A k \in 1..Len(items) : items[k] <= items[Len(items)]
          BY <1>4, <3>3, <3>4, <5>1
        <5>3. \A k \in 1..Len(shownNotices) : shownNotices[k] <= items[Len(items)]
          BY <3>3, <3>4, <5>1
        <5>4. QED
          BY <3>5, <5>1, <5>2, <5>3
      <4>3. QED
        BY <4>1, <4>2
    <3>8. QED
      BY <2>2, <3>2, <3>6, <3>7
  <2>3. CASE job.task # "GetNotices"
    BY <1>12, <1>9, <1>11, <2>3 DEF ShownInv
  <2>4. QED
    BY <2>1, <2>2, <2>3
\* The other tasks stay where they are, and nothing seen is forgotten.
<1>13. timeouts' = timeouts
  BY <1>1 DEF connection
<1>14. \A n : Seen(n) => Seen(n)'
  BY <1>10 DEF Seen
<1>15. \A t, n : t # job.task /\ AsFar(t, n) => AsFar(t, n)'
  BY <1>10, <1>11, <1>13, <1>14 DEF AsFar
<1>16. Waiting' = Waiting /\ job.task \notin Waiting
  BY <1>1, <1>7 DEF Waiting, scheduler
<1>17. SchedulerInv'
  <2>1. GoodQueue(queue, Waiting)'
    BY <1>1, <1>8, <1>15, <1>16 DEF GoodQueue, SchedulerInv
  <2>2. \A t \in (Tasks' \cap Feeds) \ pending' : AsFar(t, seqno[t])'
    BY <1>1, <1>2, <1>8, <1>15 DEF SchedulerInv, scheduler
  <2>3. QED
    BY <2>1, <2>2 DEF SchedulerInv
<1>18. WorkerInv'
  <2>1. AsFar(job.task, job.seqno)'
    BY <1>7, <1>10, <1>12, <1>13 DEF AsFar
  <2>2. QED
    BY <1>1, <1>2, <1>7, <1>8, <2>1 DEF WorkerInv, scheduler
<1>19. ConnectionInv'
  <2>1. \A a : GoodAnswer(a) => GoodAnswer(a)'
    BY <1>14 DEF GoodAnswer
  <2>2. asked' = asked /\ answers' = answers /\ reply' = reply
    BY <1>1 DEF connection
  <2>3. timeouts = 0 => InStep'
    <3>1. timeouts = 0 => asked = <<>> /\ answers = <<>>
      BY <1>1 DEF ConnectionInv, InStep
    <3>2. QED
      BY <1>1, <2>2, <3>1 DEF InStep
  <2>4. QED
    BY <1>13, <1>14, <2>1, <2>2, <2>3 DEF ConnectionInv
<1>20. ShownInv' /\ ClientInv'
  <2>1. ShownInv'
    BY <1>10, <1>12, <1>13 DEF ShownInv
  <2>2. QED
    BY <1>1, <2>1 DEF ClientInv, client
<1>21. TypeOK'
  <2>1. shownActive' \in BOOLEAN
    <3>1. reply.request.active \in BOOLEAN /\ shownActive \in BOOLEAN
      <4>1. NoJob.active \in BOOLEAN
        BY Zenon DEF NoJob
      <4>2. reply.request \in Job => reply.request.active \in BOOLEAN
        BY Zenon DEF Job
      <4>3. QED
        BY <1>5, <4>1, <4>2, Zenon DEF TypeOK
    <3>2. shownActive' \in {reply.request.active, shownActive}
      BY DEF Tell
    <3>3. QED
      BY <3>1, <3>2
  <2>2. {activeOnly', enabled', calling', stopped', refresh'} \subseteq BOOLEAN
    BY <1>1, Zenon DEF TypeOK, settings, scheduler, client
  <2>3. QED
    BY <1>1, <1>7, <1>8, <1>10, <1>11, <2>1, <2>2 DEF TypeOK, settings, scheduler, connection, client
<1>22. QED
  BY <1>17, <1>18, <1>20, <1>21, <1>19

\* The scheduler takes over where the job ended, unless it was stopped: then the task
\* stays pending for good.
LEMMA HandlePostExecutionIInv ==
  ASSUME IInv, HandlePostExecution
  PROVE  IInv'
<1> USE DEF IInv
<1>1. /\ worker = "post" /\ worker' = "idle" /\ job' = NoJob /\ reply' = NoReply
      /\ UNCHANGED <<settings, cache, cacheAge, stopped, queue, connection, client, shown>>
  BY DEF HandlePostExecution
<1>2. job \in Job /\ job.task \in pending /\ job.task \in Tasks /\ AsFar(job.task, job.seqno)
  BY <1>1 DEF WorkerInv, TypeOK
<1>3. Tasks' = Tasks /\ Intervals' = Intervals /\ LongAgo' = LongAgo /\ Job' = Job /\ Reply' = Reply
  BY <1>1 DEF Tasks, Intervals, LongAgo, Job, Reply, settings
<1>4. \A t, n : AsFar(t, n)' <=> AsFar(t, n)
  BY <1>1 DEF AsFar, Seen, connection, shown
<1>5. seqno \in [Feeds -> Nat] /\ age \in [Tasks -> 0..LongAgo] /\ LongAgo \in Nat
  BY LongAgoIsANumber DEF TypeOK
<1>6. \/ stopped /\ UNCHANGED <<age, pending, seqno>>
      \/ /\ age' = [age EXCEPT ![job.task] = 0]
         /\ pending' = pending \ {job.task}
         /\ seqno' = IF job.task \in Feeds THEN [seqno EXCEPT ![job.task] = job.seqno] ELSE seqno
  BY DEF HandlePostExecution
<1>7. seqno' \in [Feeds -> Nat] /\ age' \in [Tasks -> 0..LongAgo] /\ pending' \subseteq pending
  <2>1. job.seqno \in Nat
    BY <1>2 DEF Job
  <2>2. QED
    BY <1>5, <1>6, <2>1
<1>8. Waiting \subseteq Waiting'
  BY <1>1, <1>6 DEF Waiting
<1>9. SchedulerInv'
  <2>1. GoodQueue(queue, Waiting)'
    BY <1>1, <1>3, <1>4, <1>8 DEF SchedulerInv, GoodQueue
  <2>2. \A t \in (Tasks' \cap Feeds) \ pending' : AsFar(t, seqno'[t])
    BY <1>2, <1>3, <1>5, <1>6 DEF SchedulerInv
  <2>3. QED
    BY <1>4, <2>1, <2>2 DEF SchedulerInv
<1>10. WorkerInv' /\ ConnectionInv' /\ ShownInv' /\ ClientInv'
  <2>1. ConnectionInv'
    BY <1>1, NoReplyIsAReply DEF ConnectionInv, GoodAnswer, Seen, InStep, connection, shown
  <2>2. QED
    BY <1>1, <2>1 DEF WorkerInv, ShownInv, ClientInv, shown, client, connection
<1>11. TypeOK'
  <2>1. {activeOnly', enabled', calling', stopped', refresh'} \subseteq BOOLEAN /\ shownActive' \in BOOLEAN
    BY <1>1, Zenon DEF TypeOK, settings, client, shown
  <2>2. reply' \in Reply
    BY <1>1, NoReplyIsAReply
  <2>3. QED
    BY <1>1, <1>3, <1>7, <2>1, <2>2 DEF TypeOK, settings, connection, client, shown
<1>12. QED
  BY <1>9, <1>10, <1>11

LEMMA NextIInv == IInv /\ [Next]_vars => IInv'
<1> SUFFICES ASSUME IInv, [Next]_vars PROVE IInv'
  OBVIOUS
<1>1. CASE CallerStep \/ ActiveOnlyReschedules
  BY <1>1, CallerStepIInv
<1>2. CASE Tick
  BY <1>2, TickIInv
<1>3. CASE SchedulerPass
  BY <1>3, SchedulerPassIInv
<1>4. CASE WorkerStep
  BY <1>4, FetchIInv, ReceiveIInv, ReceiveTimesOutIInv, TellIInv, HandlePostExecutionIInv DEF WorkerStep
<1>5. CASE ClientStep
  BY <1>5, ClientStepIInv
<1>6. CASE UNCHANGED vars
  <2>1. /\ interval \in [Tasks -> Intervals] /\ cache \in [Tasks -> Intervals]
        /\ cacheAge \in 0..CacheTicks /\ age \in [Tasks -> 0..LongAgo]
    BY DEF IInv, TypeOK
  <2>2. {activeOnly', enabled', calling', stopped'} \subseteq BOOLEAN
    BY <1>6, Zenon DEF IInv, TypeOK, vars, settings, scheduler
  <2>3. QED
    BY <1>6, <2>1, <2>2, SettingsStepIInv DEF vars, settings, scheduler
<1>7. QED
  BY <1>1, <1>2, <1>3, <1>4, <1>5, <1>6 DEF Next

THEOREM SpecIInv == Spec => []IInv
<1>1. QED
  BY InitIInv, NextIInv, PTL DEF Spec

-----------------------------------------------------------------------------
(* The theorems.                                                           *)

\* Every reachable state of the periodic tasks is of its type.
THEOREM TypeCorrect == Spec => []TypeOK
<1>1. IInv => TypeOK
  BY DEF IInv
<1>2. QED
  BY <1>1, SpecIInv, PTL

\* However many receives give up, and whatever jobs read the late answers: no message is
\* ever left out.  Until a receive gives up, and whatever is rescheduled, switched off,
\* refused or expires, for every number of messages and notices: the handlers see each
\* message of the client once and in order, and their notices are in order, none twice.
THEOREM FeedsStayInOrder == Spec => []FeedsInOrder
<1>1. IInv => FeedsInOrder
  <2> SUFFICES ASSUME IInv PROVE FeedsInOrder
    OBVIOUS
  <2>1. DOMAIN shownMessages = 1..Len(shownMessages) /\ DOMAIN shownNotices = 1..Len(shownNotices)
    BY LenProperties DEF IInv, TypeOK
  <2>2. QED
    BY <2>1 DEF IInv, ShownInv, FeedsInOrder
<1>2. QED
  BY <1>1, SpecIInv, PTL

\* At no time are there two jobs of one task, in the queue or with the worker, so that
\* the next request of a feed is not made before the last one was settled.
THEOREM OneJobOfATask ==
  Spec => [](/\ \A i, k \in 1..Len(queue) : queue[i].task = queue[k].task => i = k
             /\ worker # "idle" => \A i \in 1..Len(queue) : queue[i].task # job.task)
<1>1. IInv => /\ \A i, k \in 1..Len(queue) : queue[i].task = queue[k].task => i = k
              /\ worker # "idle" => \A i \in 1..Len(queue) : queue[i].task # job.task
  BY DEF IInv, SchedulerInv, GoodQueue, Waiting
<1>2. QED
  BY <1>1, SpecIInv, PTL
=============================================================================
