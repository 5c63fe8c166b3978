------------------------ MODULE HostControllerProofs ------------------------
(***************************************************************************)
(* Proofs about HostController for any sets of producers and jobs.         *)
(***************************************************************************)
EXTENDS HostController, TLAPS

-----------------------------------------------------------------------------
(* What a push or a pop does to the entries of the deque.                  *)

\* push_front puts the job at index 1 and moves every entry up by one.
LEMMA PushFrontEntries ==
  ASSUME NEW S, NEW s \in Seq(S), NEW x \in S
  PROVE  /\ <<x>> \o s \in Seq(S)
         /\ Len(<<x>> \o s) = Len(s) + 1
         /\ (<<x>> \o s)[1] = x
         /\ \A i \in 1..Len(s) : (<<x>> \o s)[i + 1] = s[i]
         /\ \A i \in 2..(Len(s) + 1) : (<<x>> \o s)[i] = s[i - 1]
  OBVIOUS

\* push_back puts the job behind the entries, which keep their index.
LEMMA PushBackEntries ==
  ASSUME NEW S, NEW s \in Seq(S), NEW x \in S
  PROVE  /\ Append(s, x) \in Seq(S)
         /\ Len(Append(s, x)) = Len(s) + 1
         /\ Append(s, x)[Len(s) + 1] = x
         /\ \A i \in 1..Len(s) : Append(s, x)[i] = s[i]
  OBVIOUS

\* pop takes the entry at index 1 and moves every other one down by one.
LEMMA PopEntries ==
  ASSUME NEW S, NEW s \in Seq(S), s # <<>>
  PROVE  /\ Len(s) >= 1
         /\ Head(s) = s[1]
         /\ Head(s) \in S
         /\ Tail(s) \in Seq(S)
         /\ Len(Tail(s)) = Len(s) - 1
         /\ \A i \in 1..(Len(s) - 1) : Tail(s)[i] = s[i + 1]
  OBVIOUS

-----------------------------------------------------------------------------
(* Type correctness.                                                       *)

\* Every variable of the host controller keeps its type, whatever the sets of
\* producers and jobs are.
THEOREM TypeCorrect == Spec => []TypeOK
<1>1. Init => TypeOK
  <2>1. <<>> \in Seq(Jobs)
    OBVIOUS
  <2>2. Init => shutdown \in BOOLEAN /\ connected \in BOOLEAN /\ joinable \in BOOLEAN
                /\ crashed \in BOOLEAN /\ early \in BOOLEAN
    BY Zenon DEF Init, QueueInit
  <2>3. QED
    BY <2>1, <2>2 DEF Init, TypeOK, QueueInit, Status
<1>2. TypeOK /\ [Next]_vars => TypeOK'
  <2> SUFFICES ASSUME TypeOK, [Next]_vars
               PROVE  TypeOK'
    OBVIOUS
  <2> USE DEF TypeOK, queueVars, hostVars, Status
  <2>1. ASSUME NEW p \in Producers, NEW j \in Jobs, ScheduleNow(p, j)
        PROVE  TypeOK'
    <3>1. jobs' \in Seq(Jobs)
      BY <2>1, PushFrontEntries DEF ScheduleNow, PushFront, Push
    <3>2. QED
      BY <2>1, <3>1 DEF ScheduleNow, PushFront, Push, Accepted
  <2>2. ASSUME NEW p \in Producers, NEW j \in Jobs, Schedule(p, j)
        PROVE  TypeOK'
    <3>1. jobs' \in Seq(Jobs)
      BY <2>2, PushBackEntries DEF Schedule, PushBack, Push
    <3>2. QED
      BY <2>2, <3>1 DEF Schedule, PushBack, Push, Accepted
  <2>3. ASSUME NEW p \in Producers, NEW j \in Jobs, ScheduleRefused(p, j)
        PROVE  TypeOK'
    BY <2>3 DEF ScheduleRefused, PushRefused
  <2>4. ASSUME NEW p \in Producers, Notify(p)
        PROVE  TypeOK'
    <3>1. waiting' \subseteq {Worker} /\ notifying' \subseteq Producers
      BY <2>4 DEF Notify, NotifyOne
    <3>2. jobs' = jobs /\ shutdown' = shutdown /\ UNCHANGED hostVars
      BY <2>4 DEF Notify, NotifyOne
    <3>3. QED
      BY <3>1, <3>2
  <2>5. CASE ConnectorStep
    <3> USE DEF ConnectorStep, ConnectFails, ConnectSucceeds, SpawnWorker, AssignWorker,
                ConnectInDestroyed
    <3>1. connected' \in BOOLEAN /\ joinable' \in BOOLEAN /\ crashed' \in BOOLEAN /\ early' \in BOOLEAN
      BY <2>5, Zenon
    <3>2. QED
      BY <2>5, <3>1
  <2>6. CASE WorkerWait
    BY <2>6 DEF WorkerWait, PopWait
  <2>7. CASE WorkerTake
    <3>1. jobs' \in Seq(Jobs) /\ Head(jobs) \in Jobs
      BY <2>7, PopEntries DEF WorkerTake, PopJob
    <3>2. QED
      BY <2>7, <3>1 DEF WorkerTake, PopJob
  <2>8. CASE WorkerFinish
    BY <2>8 DEF WorkerFinish
  <2>9. CASE WorkerExit
    BY <2>9 DEF WorkerExit, PopNothing
  <2>10. CASE WorkerSpuriousWakeup
    BY <2>10 DEF WorkerSpuriousWakeup, SpuriousWakeup
  <2>11. CASE OwnerStep
    <3> USE DEF OwnerStep, ShutdownQueue, WakeWorker, Join, Disconnect, DestroyCrashes,
                Destroy, SetShutdown, NotifyAll, OwnerTo
    <3>1. shutdown' \in BOOLEAN /\ connected' \in BOOLEAN /\ joinable' \in BOOLEAN
          /\ crashed' \in BOOLEAN /\ early' \in BOOLEAN
      BY <2>11, Zenon
    <3>2. jobs' \in Seq(Jobs)
      <4>1. jobs' = jobs \/ jobs' = <<>>
        BY <2>11
      <4>2. <<>> \in Seq(Jobs)
        OBVIOUS
      <4>3. QED
        BY <4>1, <4>2
    <3>3. status' \in [Jobs -> Status]
      BY <2>11
    <3>4. QED
      BY <2>11, <3>1, <3>2, <3>3
  <2>12. CASE UNCHANGED vars
    BY <2>12 DEF vars
  <2>13. QED
    BY <2>1, <2>2, <2>3, <2>4, <2>5, <2>6, <2>7, <2>8, <2>9, <2>10, <2>11, <2>12
       DEF Next, ProducerStep, WorkerStep
<1>3. QED
  BY <1>1, <1>2, PTL DEF Spec

-----------------------------------------------------------------------------
(* The inductive invariant: the places of the jobs, plus what makes each   *)
(* of the other properties inductive.                                      *)

\* The worker thread is started once, by connect().
SpawnedOnce == connector \in {"opening", "spawning"} => worker = "none"

\* Who may be where while the host is taken down, if connect() has returned
\* before: the worker is joined before the client is disconnected.
TakedownInv ==
  /\ early => owner # "open"
  /\ ~early =>
       /\ owner # "open" => connector = "done"
       /\ owner = "open" => pass = 1
       /\ connector \in {"spawning", "assigning"} => connected
       /\ joinable => connector = "done"
       /\ (connector = "done" /\ worker \in {"pop", "running"}) => joinable
       /\ worker \in {"pop", "running"} => connected
       /\ (pass = 2 \/ owner \in {"disconnect", "destroy", "destroyed"})
            => (~joinable /\ worker \in {"none", "exited"})
       /\ ~crashed

\* Who still has to wake a waiting worker.
WakeupInv ==
  /\ waiting # {} => worker = "pop"
  /\ owner # "open" => shutdown
  /\ (waiting # {} /\ shutdown) => owner = "notify"
  /\ (waiting # {} /\ jobs # <<>> /\ ~shutdown) => notifying # {}

\* The deque is sorted by the order of service.
OrderInv ==
  /\ \A i, k \in 1..Len(jobs) : i < k => Before(jobs[i], jobs[k])
  /\ \A j \in Jobs : stamp[j] <= ticket

-----------------------------------------------------------------------------

\* connect() starts the worker and no other code does.
LEMMA StartedOnce == Spec => []SpawnedOnce
<1>1. Init => SpawnedOnce
  BY DEF Init, SpawnedOnce
<1>2. SpawnedOnce /\ [Next]_vars => SpawnedOnce'
  BY DEF SpawnedOnce, Next, vars, hostVars, ProducerStep, ConnectorStep, WorkerStep, OwnerStep,
         ScheduleNow, Schedule, ScheduleRefused, Accepted, Notify, ConnectFails, ConnectSucceeds,
         SpawnWorker, AssignWorker, ConnectInDestroyed, WorkerWait, WorkerTake, WorkerFinish,
         WorkerExit, WorkerSpuriousWakeup, ShutdownQueue, WakeWorker, Join, Disconnect,
         DestroyCrashes, Destroy, OwnerTo
<1>3. QED
  BY <1>1, <1>2, PTL DEF Spec

\* A job is queued, running or done, never two of them and never twice.
THEOREM OnePlace == Spec => []EveryJobHasOnePlace
<1>1. Init => EveryJobHasOnePlace
  BY JobsAssumption DEF Init, QueueInit, EveryJobHasOnePlace, InQueue
<1>2. TypeOK /\ SpawnedOnce /\ EveryJobHasOnePlace /\ [Next]_vars => EveryJobHasOnePlace'
  <2> SUFFICES ASSUME TypeOK, SpawnedOnce, EveryJobHasOnePlace, [Next]_vars
               PROVE  EveryJobHasOnePlace'
    OBVIOUS
  <2>a. ASSUME UNCHANGED <<jobs, status, current>>,
               worker' = worker \/ (worker # "running" /\ worker' # "running")
        PROVE  EveryJobHasOnePlace'
    BY ONLY <2>a, EveryJobHasOnePlace DEF EveryJobHasOnePlace, InQueue
  <2> USE JobsAssumption DEF EveryJobHasOnePlace, InQueue, TypeOK, queueVars, hostVars
  <2>1. ASSUME NEW p \in Producers, NEW j \in Jobs, ScheduleNow(p, j)
        PROVE  EveryJobHasOnePlace'
    <3>1. /\ jobs' = <<j>> \o jobs
          /\ status' = [status EXCEPT ![j] = "queued"]
          /\ status[j] = "new"
          /\ UNCHANGED <<current, worker>>
      BY <2>1 DEF ScheduleNow, PushFront, Push, Accepted, MayPush
    <3>2. /\ Len(jobs') = Len(jobs) + 1
          /\ jobs'[1] = j
          /\ \A i \in 1..Len(jobs) : jobs'[i + 1] = jobs[i]
          /\ \A i \in 2..(Len(jobs) + 1) : jobs'[i] = jobs[i - 1]
      BY <3>1, PushFrontEntries
    <3>3. \A k \in Jobs : status'[k] = "queued" <=> \E i \in 1..Len(jobs') : jobs'[i] = k
      <4> TAKE k \in Jobs
      <4>1. CASE k = j
        BY <4>1, <3>1, <3>2
      <4>2. CASE k # j
        BY <4>2, <3>1, <3>2
      <4>3. QED
        BY <4>1, <4>2
    <3>4. \A i, k \in 1..Len(jobs') : jobs'[i] = jobs'[k] => i = k
      <4>1. Len(jobs) \in Nat /\ \A i \in 1..Len(jobs) : jobs[i] # j
        BY <3>1
      <4>2. SUFFICES ASSUME NEW i \in 1..Len(jobs'), NEW k \in 1..Len(jobs'), jobs'[i] = jobs'[k]
                     PROVE  i = k
        OBVIOUS
      <4>3. CASE i = 1 \/ k = 1
        <5>1. \A n \in 2..(Len(jobs) + 1) : n - 1 \in 1..Len(jobs) /\ jobs'[n] # j
          <6> TAKE n \in 2..(Len(jobs) + 1)
          <6>1. n - 1 \in 1..Len(jobs)
            BY <4>1
          <6>2. jobs'[n] = jobs[n - 1]
            BY <3>2
          <6>3. QED
            BY <4>1, <6>1, <6>2
        <5>2. \A n \in 1..Len(jobs') : n = 1 \/ n \in 2..(Len(jobs) + 1)
          BY <3>2, <4>1
        <5>3. QED
          BY ONLY <3>2, <4>2, <4>3, <5>1, <5>2
      <4>4. CASE i # 1 /\ k # 1
        <5>1. i - 1 \in 1..Len(jobs) /\ k - 1 \in 1..Len(jobs)
          BY <3>2, <4>1, <4>4
        <5>2. jobs[i - 1] = jobs[k - 1]
          BY <3>2, <4>2, <4>4, <4>1
        <5>3. i - 1 = k - 1
          BY <5>1, <5>2
        <5>4. i \in Nat /\ k \in Nat
          BY ONLY <3>2, <4>1
        <5>5. QED
          BY ONLY <5>3, <5>4
      <4>5. QED
        BY <4>3, <4>4
    <3>5. \A k \in Jobs : status'[k] = "running" <=> k = current'
      BY <3>1
    <3>6. worker' = "running" <=> current' # NoJob
      BY <3>1
    <3>7. QED
      BY ONLY <3>3, <3>4, <3>5, <3>6 DEF EveryJobHasOnePlace, InQueue
  <2>2. ASSUME NEW p \in Producers, NEW j \in Jobs, Schedule(p, j)
        PROVE  EveryJobHasOnePlace'
    <3>1. /\ jobs' = Append(jobs, j)
          /\ status' = [status EXCEPT ![j] = "queued"]
          /\ status[j] = "new"
          /\ UNCHANGED <<current, worker>>
      BY <2>2 DEF Schedule, PushBack, Push, Accepted, MayPush
    <3>2. /\ Len(jobs') = Len(jobs) + 1
          /\ jobs'[Len(jobs) + 1] = j
          /\ \A i \in 1..Len(jobs) : jobs'[i] = jobs[i]
      BY <3>1, PushBackEntries
    <3>3. \A k \in Jobs : status'[k] = "queued" <=> \E i \in 1..Len(jobs') : jobs'[i] = k
      <4> TAKE k \in Jobs
      <4>1. CASE k = j
        BY <4>1, <3>1, <3>2
      <4>2. CASE k # j
        BY <4>2, <3>1, <3>2
      <4>3. QED
        BY <4>1, <4>2
    <3>4. \A i, k \in 1..Len(jobs') : jobs'[i] = jobs'[k] => i = k
      <4>1. Len(jobs) \in Nat /\ \A i \in 1..Len(jobs) : jobs[i] # j
        BY <3>1
      <4>2. \A n \in 1..Len(jobs') : n = Len(jobs) + 1 \/ n \in 1..Len(jobs)
        BY <3>2, <4>1
      <4>3. \A i, k \in 1..Len(jobs) : jobs[i] = jobs[k] => i = k
        OBVIOUS
      <4>4. QED
        BY ONLY <3>2, <4>1, <4>2, <4>3
    <3>5. QED
      BY <3>1, <3>3, <3>4
  <2>3. ASSUME NEW p \in Producers, NEW j \in Jobs, ScheduleRefused(p, j)
        PROVE  EveryJobHasOnePlace'
    <3>1. /\ UNCHANGED <<jobs, current, worker>>
          /\ status' = [status EXCEPT ![j] = "rejected"]
          /\ status[j] = "new"
      BY <2>3 DEF ScheduleRefused, PushRefused, MayPush
    <3>2. \A k \in Jobs : status'[k] = "queued" <=> status[k] = "queued"
      BY <3>1
    <3>3. \A k \in Jobs : status'[k] = "running" <=> status[k] = "running"
      BY <3>1
    <3>4. \A k \in Jobs : status'[k] = "queued" <=> InQueue(k)'
      BY <3>1, <3>2
    <3>5. \A k \in Jobs : status'[k] = "running" <=> k = current'
      BY <3>1, <3>3
    <3>6. \A i, k \in 1..Len(jobs') : jobs'[i] = jobs'[k] => i = k
      BY <3>1
    <3>7. worker' = "running" <=> current' # NoJob
      BY <3>1
    <3>8. QED
      BY ONLY <3>4, <3>5, <3>6, <3>7 DEF EveryJobHasOnePlace
  <2>4. ASSUME NEW p \in Producers, Notify(p)
        PROVE  EveryJobHasOnePlace'
    <3>1. UNCHANGED <<jobs, status, current, worker>>
      BY <2>4 DEF Notify, NotifyOne
    <3>2. QED
      BY ONLY <3>1, <2>a
  <2>5. CASE ConnectorStep
    <3>1. /\ UNCHANGED <<jobs, status, current>>
          /\ worker' = worker \/ (worker = "none" /\ worker' = "pop")
      BY <2>5 DEF SpawnedOnce, ConnectorStep, ConnectFails, ConnectSucceeds, SpawnWorker,
                  AssignWorker, ConnectInDestroyed
    <3>2. QED
      BY ONLY <3>1, <2>a
  <2>6. CASE WorkerWait
    <3>1. UNCHANGED <<jobs, status, current, worker>>
      BY <2>6 DEF WorkerWait, PopWait
    <3>2. QED
      BY ONLY <3>1, <2>a
  <2>7. CASE WorkerTake
    <3>1. /\ worker = "pop" /\ worker' = "running"
          /\ jobs # <<>> /\ jobs' = Tail(jobs)
          /\ current' = Head(jobs)
          /\ status' = [status EXCEPT ![Head(jobs)] = "running"]
      BY <2>7 DEF WorkerTake, PopJob
    <3>2. /\ Len(jobs) >= 1 /\ Len(jobs) \in Nat
          /\ Head(jobs) = jobs[1] /\ Head(jobs) \in Jobs
          /\ Len(jobs') = Len(jobs) - 1
          /\ \A i \in 1..(Len(jobs) - 1) : jobs'[i] = jobs[i + 1]
      BY <3>1, PopEntries
    <3>3. \A k \in Jobs : status'[k] = "queued" <=> \E i \in 1..Len(jobs') : jobs'[i] = k
      <4> TAKE k \in Jobs
      <4>1. CASE k = Head(jobs)
        BY <4>1, <3>1, <3>2
      <4>2. CASE k # Head(jobs)
        <5>1. (\E i \in 1..Len(jobs') : jobs'[i] = k) <=> \E i \in 1..Len(jobs) : jobs[i] = k
          <6>1. ASSUME NEW i \in 1..Len(jobs), jobs[i] = k
                PROVE  i - 1 \in 1..Len(jobs') /\ jobs'[i - 1] = k
            BY <6>1, <4>2, <3>2
          <6>2. ASSUME NEW i \in 1..Len(jobs'), jobs'[i] = k
                PROVE  i + 1 \in 1..Len(jobs) /\ jobs[i + 1] = k
            BY <6>2, <3>2
          <6>3. QED
            BY <6>1, <6>2
        <5>2. status'[k] = status[k]
          BY <4>2, <3>1
        <5>3. QED
          BY <5>1, <5>2
      <4>3. QED
        BY <4>1, <4>2
    <3>4. \A i, k \in 1..Len(jobs') : jobs'[i] = jobs'[k] => i = k
      BY <3>1, <3>2
    <3>5. \A k \in Jobs : status'[k] = "running" <=> k = current'
      <4>1. \A k \in Jobs : status[k] # "running"
        BY <3>1
      <4>2. QED
        BY <4>1, <3>1, <3>2
    <3>6. worker' = "running" /\ current' # NoJob
      BY <3>1, <3>2
    <3>7. QED
      BY <3>3, <3>4, <3>5, <3>6
  <2>8. CASE WorkerFinish
    BY <2>8 DEF WorkerFinish
  <2>9. CASE WorkerExit
    <3>1. UNCHANGED <<jobs, status, current>> /\ worker # "running" /\ worker' # "running"
      BY <2>9 DEF WorkerExit, PopNothing
    <3>2. QED
      BY ONLY <3>1, <2>a
  <2>10. CASE WorkerSpuriousWakeup
    <3>1. UNCHANGED <<jobs, status, current, worker>>
      BY <2>10 DEF WorkerSpuriousWakeup, SpuriousWakeup
    <3>2. QED
      BY ONLY <3>1, <2>a
  <2>11. CASE ShutdownQueue \/ WakeWorker \/ Join \/ Disconnect \/ DestroyCrashes
    <3>1. UNCHANGED <<jobs, status, current, worker>>
      BY <2>11 DEF ShutdownQueue, WakeWorker, Join, Disconnect, DestroyCrashes, SetShutdown,
                   NotifyAll, OwnerTo
    <3>2. QED
      BY ONLY <3>1, <2>a
  <2>12. CASE Destroy
    <3>1. jobs' = <<>> /\ Len(jobs') = 0 /\ UNCHANGED <<current, worker>>
      BY <2>12 DEF Destroy, OwnerTo
    <3>2. \A j \in Jobs : status'[j] = IF status[j] = "queued" THEN "broken" ELSE status[j]
      BY <2>12 DEF Destroy
    <3>3. \A j \in Jobs : status'[j] # "queued" /\ ~InQueue(j)'
      BY <3>1, <3>2
    <3>4. \A j \in Jobs : status'[j] = "running" <=> status[j] = "running"
      BY <3>2
    <3>5. \A j \in Jobs : status'[j] = "queued" <=> InQueue(j)'
      BY ONLY <3>3
    <3>6. \A j \in Jobs : status'[j] = "running" <=> j = current'
      BY <3>1, <3>4
    <3>7. worker' = "running" <=> current' # NoJob
      BY <3>1
    <3>8. \A i, k \in 1..Len(jobs') : jobs'[i] = jobs'[k] => i = k
      BY <3>1
    <3>9. QED
      BY ONLY <3>5, <3>6, <3>7, <3>8 DEF EveryJobHasOnePlace
  <2>13. CASE UNCHANGED vars
    BY <2>13 DEF vars
  <2>14. QED
    BY <2>1, <2>2, <2>3, <2>4, <2>5, <2>6, <2>7, <2>8, <2>9, <2>10, <2>11, <2>12, <2>13
       DEF Next, ProducerStep, WorkerStep, OwnerStep
<1>3. QED
  BY <1>1, <1>2, TypeCorrect, StartedOnce, PTL DEF Spec

-----------------------------------------------------------------------------
(* Nobody but the worker touches a connected client.                       *)

\* If connect() returns before the host is shut down (~early), the worker is joined and
\* registered in the right order, and nothing is used after its destruction.
LEMMA Takedown == Spec => []TakedownInv
<1>1. Init => TakedownInv
  BY DEF Init, TakedownInv
<1>2. TypeOK /\ SpawnedOnce /\ TakedownInv /\ [Next]_vars => TakedownInv'
  <2> SUFFICES ASSUME TypeOK, SpawnedOnce, TakedownInv, [Next]_vars
               PROVE  TakedownInv'
    OBVIOUS
  <2> USE DEF TakedownInv, SpawnedOnce, hostVars
  <2>1. CASE ProducerStep
    BY <2>1 DEF ProducerStep, ScheduleNow, Schedule, ScheduleRefused, Accepted, Notify
  <2>2. CASE ~crashed /\ ConnectorStep
    BY <2>2 DEF ConnectorStep, ConnectFails, ConnectSucceeds, SpawnWorker, AssignWorker,
                ConnectInDestroyed
  <2>3. CASE WorkerStep \/ WorkerSpuriousWakeup
    BY <2>3 DEF WorkerStep, WorkerWait, WorkerTake, WorkerFinish, WorkerExit,
                WorkerSpuriousWakeup
  <2>4. CASE ShutdownQueue
    <3>1. /\ UNCHANGED <<connected, connector, worker, joinable, pass, crashed>>
          /\ owner' = "notify"
      BY <2>4 DEF ShutdownQueue, OwnerTo
    <3>2. CASE owner = "open"
      <4>1. ~early' => connector = "done"
        BY <2>4, <3>2 DEF ShutdownQueue
      <4>2. QED
        BY <3>1, <3>2, <4>1
    <3>3. CASE owner = "flag" /\ UNCHANGED early
      BY <3>1, <3>3
    <3>4. QED
      BY <2>4, <3>2, <3>3 DEF ShutdownQueue
  <2>5. CASE WakeWorker
    BY <2>5 DEF WakeWorker, OwnerTo
  <2>6. CASE Join
    BY <2>6 DEF Join, OwnerTo, TypeOK
  <2>7. CASE Disconnect
    BY <2>7 DEF Disconnect, OwnerTo
  <2>8. CASE DestroyCrashes
    BY <2>8 DEF DestroyCrashes
  <2>9. CASE Destroy
    BY <2>9 DEF Destroy, OwnerTo
  <2>10. CASE UNCHANGED vars
    BY <2>10 DEF vars
  <2>11. QED
    BY <2>1, <2>2, <2>3, <2>4, <2>5, <2>6, <2>7, <2>8, <2>9, <2>10 DEF Next, OwnerStep
<1>3. QED
  BY <1>1, <1>2, TypeCorrect, StartedOnce, PTL DEF Spec

\* Under the same condition a running job finds its client connected.
THEOREM ConnectedWhileRunning == Spec => []JobSeesConnectedClient
<1>1. TakedownInv => JobSeesConnectedClient
  BY DEF TakedownInv, JobSeesConnectedClient
<1>2. QED
  BY <1>1, Takedown, PTL

\* Under the same condition no destroyed object is used and no joinable thread
\* is destroyed.
THEOREM SafeDestruction == Spec => []NoUseAfterDestroy
<1>1. TakedownInv => NoUseAfterDestroy
  BY DEF TakedownInv, NoUseAfterDestroy
<1>2. QED
  BY <1>1, Takedown, PTL

-----------------------------------------------------------------------------
(* The condition variable.                                                 *)

\* While the worker waits with something to do, somebody is about to notify.
LEMMA WakerExists == Spec => [](TypeOK /\ WakeupInv)
<1>1. Init => WakeupInv
  BY DEF Init, QueueInit, WakeupInv
<1>2. TypeOK /\ WakeupInv /\ SpawnedOnce /\ [Next]_vars => WakeupInv'
  <2> SUFFICES ASSUME TypeOK, WakeupInv, SpawnedOnce, [Next]_vars
               PROVE  WakeupInv'
    OBVIOUS
  <2> USE DEF WakeupInv, hostVars, queueVars
  <2>1. ASSUME NEW p \in Producers, NEW j \in Jobs,
               ScheduleNow(p, j) \/ Schedule(p, j) \/ ScheduleRefused(p, j)
        PROVE  WakeupInv'
    BY <2>1 DEF ScheduleNow, Schedule, ScheduleRefused, PushFront, PushBack, Push, PushRefused,
                Accepted
  <2>2. ASSUME NEW p \in Producers, Notify(p)
        PROVE  WakeupInv'
    <3>1. waiting' = {}
      BY <2>2 DEF Notify, NotifyOne, TypeOK
    <3>2. QED
      BY <2>2, <3>1 DEF Notify, NotifyOne
  <2>3. CASE ConnectorStep
    BY <2>3 DEF ConnectorStep, ConnectFails, ConnectSucceeds, SpawnWorker, AssignWorker,
                ConnectInDestroyed, SpawnedOnce
  <2>4. CASE WorkerWait
    BY <2>4 DEF WorkerWait, PopWait
  <2>5. CASE WorkerTake
    <3>1. waiting = {}
      BY <2>5 DEF WorkerTake, PopJob, TypeOK
    <3>2. QED
      BY <2>5, <3>1 DEF WorkerTake, PopJob
  <2>6. CASE WorkerFinish
    BY <2>6 DEF WorkerFinish
  <2>7. CASE WorkerExit
    <3>1. waiting = {}
      BY <2>7 DEF WorkerExit, PopNothing, TypeOK
    <3>2. QED
      BY <2>7, <3>1 DEF WorkerExit, PopNothing
  <2>8. CASE WorkerSpuriousWakeup
    <3>1. waiting' = {}
      BY <2>8 DEF WorkerSpuriousWakeup, SpuriousWakeup, TypeOK
    <3>2. QED
      BY <2>8, <3>1 DEF WorkerSpuriousWakeup, SpuriousWakeup
  <2>9. CASE OwnerStep
    BY <2>9 DEF OwnerStep, ShutdownQueue, WakeWorker, Join, Disconnect, DestroyCrashes, Destroy,
                SetShutdown, NotifyAll, OwnerTo
  <2>10. CASE UNCHANGED vars
    BY <2>10 DEF vars
  <2>11. QED
    BY <2>1, <2>2, <2>3, <2>4, <2>5, <2>6, <2>7, <2>8, <2>9, <2>10
       DEF Next, ProducerStep, WorkerStep
<1>3. QED
  BY <1>1, <1>2, TypeCorrect, StartedOnce, PTL DEF Spec

\* A push or a shutdown between the worker's test and its sleep is not lost.
THEOREM WakeupNotLost == Spec => []NoLostWakeup
<1>1. TypeOK /\ WakeupInv => NoLostWakeup
  BY DEF TypeOK, WakeupInv, NoLostWakeup
<1>2. QED
  BY <1>1, WakerExists, PTL

-----------------------------------------------------------------------------
(* Action properties.                                                      *)

\* Only WorkerTake starts a job, and it starts the first one of an open queue.
LEMMA StartedByTake ==
  ASSUME TypeOK, EveryJobHasOnePlace, [Next]_vars,
         NEW j \in Jobs, status[j] = "queued", status'[j] = "running"
  PROVE  ~shutdown /\ jobs # <<>> /\ j = Head(jobs)
<1> USE DEF TypeOK, Status
<1>1. ASSUME NEW p \in Producers, NEW k \in Jobs,
             ScheduleNow(p, k) \/ Schedule(p, k) \/ ScheduleRefused(p, k)
      PROVE  FALSE
  <2>1. status' = [status EXCEPT ![k] = "queued"] \/ status' = [status EXCEPT ![k] = "rejected"]
    BY <1>1 DEF ScheduleNow, Schedule, ScheduleRefused, Accepted
  <2>2. QED
    BY <2>1
<1>2. CASE WorkerTake
  <2>1. /\ jobs # <<>> /\ ~shutdown
        /\ status' = [status EXCEPT ![Head(jobs)] = "running"]
    BY <1>2 DEF WorkerTake, PopJob
  <2>2. QED
    BY <2>1
<1>3. CASE WorkerFinish
  BY <1>3 DEF WorkerFinish
<1>4. CASE Destroy
  BY <1>4 DEF Destroy
<1>5. CASE status' = status
  BY <1>5
<1>6. QED
  BY <1>1, <1>2, <1>3, <1>4, <1>5
     DEF Next, vars, hostVars, ProducerStep, ConnectorStep, WorkerStep, OwnerStep, Notify,
         ConnectFails, ConnectSucceeds, SpawnWorker, AssignWorker, ConnectInDestroyed, WorkerWait,
         WorkerExit, WorkerSpuriousWakeup, ShutdownQueue, WakeWorker, Join, Disconnect,
         DestroyCrashes

\* After the queue's shutdown no job is started.
THEOREM NoStartAfterShutdown == Spec => NothingStartsAfterShutdown
<1>1. TypeOK /\ EveryJobHasOnePlace /\ [Next]_vars
        => \A j \in Jobs : status[j] = "queued" /\ status'[j] = "running" => ~shutdown
  BY StartedByTake
<1>2. QED
  BY <1>1, TypeCorrect, OnePlace, PTL DEF Spec, NothingStartsAfterShutdown

-----------------------------------------------------------------------------
(* The order of service.                                                   *)

\* The deque stays sorted: push_front puts the newest command before all the
\* others, push_back a job behind all the others.
LEMMA Sorted == Spec => []OrderInv
<1>1. Init => OrderInv
  BY DEF Init, QueueInit, OrderInv
<1>2. TypeOK /\ EveryJobHasOnePlace /\ OrderInv /\ [Next]_vars => OrderInv'
  <2> SUFFICES ASSUME TypeOK, EveryJobHasOnePlace, OrderInv, [Next]_vars
               PROVE  OrderInv'
    OBVIOUS
  <2> USE DEF TypeOK
  <2>a. ASSUME NEW j \in Jobs, status[j] = "new"
        PROVE  \A i \in 1..Len(jobs) : jobs[i] \in Jobs \ {j}
    BY <2>a DEF EveryJobHasOnePlace, InQueue
  <2>1. ASSUME NEW p \in Producers, NEW j \in Jobs, ScheduleNow(p, j)
        PROVE  OrderInv'
    <3>1. /\ jobs' = <<j>> \o jobs
          /\ stamp' = [stamp EXCEPT ![j] = ticket + 1]
          /\ ticket' = ticket + 1
          /\ j \in AsyncJobs
          /\ status[j] = "new"
      BY <2>1 DEF ScheduleNow, PushFront, Push, Accepted, MayPush
    <3>2. /\ Len(jobs') = Len(jobs) + 1
          /\ jobs'[1] = j
          /\ \A i \in 2..(Len(jobs) + 1) : jobs'[i] = jobs[i - 1]
      BY <3>1, PushFrontEntries
    <3>a. /\ \A i \in 1..Len(jobs) : jobs[i] \in Jobs \ {j}
          /\ \A k \in Jobs : stamp[k] <= ticket /\ stamp'[k] <= ticket'
          /\ stamp'[j] = ticket + 1
          /\ \A k \in Jobs \ {j} : stamp'[k] = stamp[k]
          /\ Len(jobs) \in Nat
      <4>1. \A i \in 1..Len(jobs) : jobs[i] \in Jobs \ {j}
        BY ONLY <2>a, <3>1, j \in Jobs
      <4>2. Len(jobs) \in Nat
        OBVIOUS
      <4>3. QED
        BY <4>1, <4>2, <3>1 DEF OrderInv
    <3>3. ASSUME NEW i \in 1..Len(jobs'), NEW k \in 1..Len(jobs'), i < k
          PROVE  Before(jobs[i], jobs[k])'
      <4>1. k - 1 \in 1..Len(jobs) /\ jobs'[k] = jobs[k - 1] /\ jobs[k - 1] \in Jobs \ {j}
        BY <3>1, <3>2, <3>3, <3>a
      <4>2. CASE i = 1
        BY <4>1, <4>2, <3>1, <3>2, <3>a DEF Before, Jobs
      <4>3. CASE i # 1
        <5>1. i - 1 \in 1..Len(jobs) /\ jobs'[i] = jobs[i - 1] /\ jobs[i - 1] \in Jobs \ {j}
          BY <4>3, <3>1, <3>2, <3>a
        <5>2. Before(jobs[i - 1], jobs[k - 1])
          <6>1. i - 1 < k - 1
            BY ONLY <3>2, <3>3, <3>a
          <6>2. \A m, n \in 1..Len(jobs) : m < n => Before(jobs[m], jobs[n])
            BY DEF OrderInv
          <6>3. QED
            BY ONLY <4>1, <5>1, <6>1, <6>2
        <5>3. QED
          BY ONLY <4>1, <5>1, <5>2, <3>a DEF Before
      <4>4. QED
        BY <4>2, <4>3
    <3>4. QED
      BY <3>1, <3>3, <3>a DEF OrderInv
  <2>2. ASSUME NEW p \in Producers, NEW j \in Jobs, Schedule(p, j)
        PROVE  OrderInv'
    <3>1. /\ jobs' = Append(jobs, j)
          /\ stamp' = [stamp EXCEPT ![j] = ticket + 1]
          /\ ticket' = ticket + 1
          /\ j \in BackJobs
          /\ status[j] = "new"
      BY <2>2 DEF Schedule, PushBack, Push, Accepted, MayPush
    <3>2. /\ Len(jobs') = Len(jobs) + 1
          /\ jobs'[Len(jobs) + 1] = j
          /\ \A i \in 1..Len(jobs) : jobs'[i] = jobs[i]
      BY <3>1, PushBackEntries
    <3>a. /\ \A i \in 1..Len(jobs) : jobs[i] \in Jobs \ {j}
          /\ \A k \in Jobs : stamp[k] <= ticket /\ stamp'[k] <= ticket'
          /\ stamp'[j] = ticket + 1
          /\ \A k \in Jobs \ {j} : stamp'[k] = stamp[k]
          /\ Len(jobs) \in Nat
      <4>1. \A i \in 1..Len(jobs) : jobs[i] \in Jobs \ {j}
        BY ONLY <2>a, <3>1, j \in Jobs
      <4>2. Len(jobs) \in Nat
        OBVIOUS
      <4>3. QED
        BY <4>1, <4>2, <3>1 DEF OrderInv
    <3>3. ASSUME NEW i \in 1..Len(jobs'), NEW k \in 1..Len(jobs'), i < k
          PROVE  Before(jobs[i], jobs[k])'
      <4>1. i \in 1..Len(jobs) /\ jobs'[i] = jobs[i] /\ jobs[i] \in Jobs \ {j}
        BY <3>1, <3>2, <3>3, <3>a
      <4>2. CASE k = Len(jobs) + 1
        BY <4>1, <4>2, <3>1, <3>2, <3>a DEF Before, Jobs
      <4>3. CASE k # Len(jobs) + 1
        <5>1. k \in 1..Len(jobs) /\ jobs'[k] = jobs[k] /\ jobs[k] \in Jobs \ {j}
          BY <4>3, <3>1, <3>2, <3>a
        <5>2. Before(jobs[i], jobs[k])
          BY <4>1, <5>1, <3>2, <3>3, <3>a DEF OrderInv
        <5>3. QED
          BY <4>1, <5>1, <5>2, <3>1, <3>a DEF Before
      <4>4. QED
        BY <4>2, <4>3
    <3>4. QED
      BY <3>1, <3>3, <3>a DEF OrderInv
  <2>3. CASE WorkerTake
    <3>1. jobs # <<>> /\ jobs' = Tail(jobs) /\ UNCHANGED <<stamp, ticket>>
      BY <2>3 DEF WorkerTake, PopJob
    <3>2. /\ Len(jobs) \in Nat
          /\ Len(jobs') = Len(jobs) - 1
          /\ \A i \in 1..(Len(jobs) - 1) : jobs'[i] = jobs[i + 1]
      BY <3>1, PopEntries
    <3>3. ASSUME NEW i \in 1..Len(jobs'), NEW k \in 1..Len(jobs'), i < k
          PROVE  Before(jobs[i], jobs[k])'
      <4>1. /\ i + 1 \in 1..Len(jobs) /\ jobs'[i] = jobs[i + 1]
            /\ k + 1 \in 1..Len(jobs) /\ jobs'[k] = jobs[k + 1]
            /\ i + 1 < k + 1
        <5>1. i \in 1..(Len(jobs) - 1) /\ k \in 1..(Len(jobs) - 1)
          BY <3>2
        <5>2. jobs'[i] = jobs[i + 1] /\ jobs'[k] = jobs[k + 1]
          BY <3>2, <5>1
        <5>3. i + 1 \in 1..Len(jobs) /\ k + 1 \in 1..Len(jobs) /\ i + 1 < k + 1
          BY <3>2, <5>1, i < k
        <5>4. QED
          BY <5>2, <5>3
      <4>2. Before(jobs[i + 1], jobs[k + 1])
        BY <4>1, <3>3 DEF OrderInv
      <4>3. QED
        BY <4>1, <4>2, <3>1 DEF Before
    <3>4. QED
      BY <3>1, <3>3 DEF OrderInv
  <2>4. CASE Destroy
    BY <2>4 DEF Destroy, OwnerTo, OrderInv, Before
  <2>5. CASE UNCHANGED <<jobs, stamp, ticket>>
    BY <2>5 DEF OrderInv, Before
  <2>6. QED
    BY <2>1, <2>2, <2>3, <2>4, <2>5
       DEF Next, vars, hostVars, queueVars, ProducerStep, ConnectorStep, WorkerStep, OwnerStep,
           ScheduleRefused, PushRefused, Notify, NotifyOne, ConnectFails, ConnectSucceeds,
           SpawnWorker, AssignWorker, ConnectInDestroyed, WorkerWait, PopWait, WorkerFinish,
           WorkerExit, PopNothing, WorkerSpuriousWakeup, SpuriousWakeup, ShutdownQueue,
           WakeWorker, Join, Disconnect, DestroyCrashes, SetShutdown, NotifyAll, OwnerTo
<1>3. QED
  BY <1>1, <1>2, TypeCorrect, OnePlace, PTL DEF Spec

\* No job queued at the moment another one is started had to go before it.
THEOREM OrderOfService == Spec => ServedInOrder
<1>1. TypeOK /\ EveryJobHasOnePlace /\ OrderInv /\ [Next]_vars
        => \A j, k \in Jobs :
             (j # k /\ status[j] = "queued" /\ status'[j] = "running" /\ status[k] = "queued")
               => Before(j, k)
  <2> SUFFICES ASSUME TypeOK, EveryJobHasOnePlace, OrderInv, [Next]_vars,
                      NEW j \in Jobs, NEW k \in Jobs, j # k,
                      status[j] = "queued", status'[j] = "running", status[k] = "queued"
               PROVE  Before(j, k)
    OBVIOUS
  <2>1. Len(jobs) >= 1 /\ Len(jobs) \in Nat /\ jobs[1] = j
    BY StartedByTake, PopEntries DEF TypeOK
  <2>2. PICK i \in 1..Len(jobs) : jobs[i] = k
    BY DEF EveryJobHasOnePlace, InQueue
  <2>3. 1 \in 1..Len(jobs) /\ 1 < i
    BY <2>1, <2>2
  <2>4. QED
    BY <2>1, <2>2, <2>3 DEF OrderInv
<1>2. QED
  BY <1>1, TypeCorrect, OnePlace, Sorted, PTL DEF Spec, ServedInOrder

-----------------------------------------------------------------------------
(* Refinement.                                                             *)

\* The host controller implements the job service: every step of its threads
\* is a step of the service or leaves it alone.
THEOREM ServiceImplemented == Spec => ImplementsService
<1>1. Init => Service!Init
  BY DEF Init, QueueInit, Service!Init
<1>2. TypeOK /\ EveryJobHasOnePlace /\ WakeupInv /\ [Next]_vars => [Service!Next]_Service!vars
  <2> SUFFICES ASSUME TypeOK, EveryJobHasOnePlace, WakeupInv, [Next]_vars
               PROVE  [Service!Next]_Service!vars
    OBVIOUS
  <2> USE DEF Service!vars, queueVars, hostVars
  <2>1. ASSUME NEW p \in Producers, NEW j \in Jobs, ScheduleNow(p, j) \/ Schedule(p, j)
        PROVE  Service!Accept(j)
    BY <2>1 DEF ScheduleNow, Schedule, PushFront, PushBack, Push, Accepted, MayPush,
                Service!Accept, Service!Move
  <2>2. ASSUME NEW p \in Producers, NEW j \in Jobs, ScheduleRefused(p, j)
        PROVE  Service!Reject(j)
    BY <2>2 DEF ScheduleRefused, PushRefused, MayPush, Service!Reject, Service!Move
  <2>3. CASE WorkerTake
    <3>1. /\ ~shutdown /\ UNCHANGED shutdown
          /\ worker = "pop" /\ jobs # <<>>
          /\ status' = [status EXCEPT ![Head(jobs)] = "running"]
      BY <2>3 DEF WorkerTake, PopJob
    <3>2. Head(jobs) \in Jobs /\ InQueue(Head(jobs))
      BY <3>1, PopEntries DEF TypeOK, InQueue
    <3>3. \A k \in Jobs : status[k] # "running"
      BY <3>1, JobsAssumption DEF EveryJobHasOnePlace
    <3>4. Service!Start(Head(jobs))
      BY <3>1, <3>2, <3>3 DEF EveryJobHasOnePlace, Service!Start, Service!Move
    <3>5. QED
      BY <3>2, <3>4 DEF Service!Next
  <2>4. CASE WorkerFinish
    <3>1. current \in Jobs /\ status[current] = "running"
      BY <2>4, JobsAssumption DEF WorkerFinish, EveryJobHasOnePlace, TypeOK
    <3>2. Service!Finish(current)
      BY <2>4, <3>1 DEF WorkerFinish, Service!Finish, Service!Move
    <3>3. QED
      BY <3>1, <3>2 DEF Service!Next
  <2>5. CASE ShutdownQueue
    BY <2>5 DEF ShutdownQueue, SetShutdown, Service!Next, Service!Close
  <2>6. CASE Destroy
    <3>1. worker # "running" /\ shutdown /\ UNCHANGED shutdown
      BY <2>6 DEF Destroy, WakeupInv
    <3>2. \A k \in Jobs : status[k] # "running"
      BY <3>1, JobsAssumption DEF EveryJobHasOnePlace
    <3>3. QED
      BY <2>6, <3>1, <3>2 DEF Destroy, Service!Next, Service!Discard
  <2>7. CASE UNCHANGED <<shutdown, status>>
    BY <2>7
  <2>8. QED
    BY <2>1, <2>2, <2>3, <2>4, <2>5, <2>6, <2>7
       DEF Next, vars, ProducerStep, ConnectorStep, WorkerStep, OwnerStep, Notify, NotifyOne,
           ConnectFails, ConnectSucceeds, SpawnWorker, AssignWorker, ConnectInDestroyed,
           WorkerWait, PopWait, WorkerExit, PopNothing, WorkerSpuriousWakeup, SpuriousWakeup,
           WakeWorker, Join, Disconnect, DestroyCrashes, NotifyAll, Service!Next
<1>3. QED
  BY <1>1, <1>2, TypeCorrect, OnePlace, WakerExists, PTL DEF Spec, ImplementsService,
     Service!Spec

\* What the service promises by itself: jobs run one at a time, whatever is handed
\* in and whenever it is closed.
OneAtATime == \A j, k \in Jobs : status[j] = "running" /\ status[k] = "running" => j = k

THEOREM ServiceRunsOneAtATime == ImplementsService => [](Service!TypeOK /\ OneAtATime)
<1>1. Service!Init => Service!TypeOK /\ OneAtATime
  BY DEF Service!Init, Service!TypeOK, Service!Status, OneAtATime
<1>2. Service!TypeOK /\ OneAtATime /\ [Service!Next]_Service!vars
        => (Service!TypeOK /\ OneAtATime)'
  <2> SUFFICES ASSUME Service!TypeOK, OneAtATime, [Service!Next]_Service!vars
               PROVE  (Service!TypeOK /\ OneAtATime)'
    OBVIOUS
  <2> USE DEF Service!TypeOK, Service!Status, OneAtATime
  <2>1. ASSUME NEW j \in Jobs, Service!Accept(j) \/ Service!Reject(j) \/ Service!Finish(j)
        PROVE  (Service!TypeOK /\ OneAtATime)'
    BY <2>1 DEF Service!Accept, Service!Reject, Service!Finish, Service!Move
  <2>2. ASSUME NEW j \in Jobs, Service!Start(j)
        PROVE  (Service!TypeOK /\ OneAtATime)'
    BY <2>2 DEF Service!Start, Service!Move
  <2>3. CASE Service!Close
    BY <2>3 DEF Service!Close
  <2>4. CASE Service!Discard
    BY <2>4 DEF Service!Discard
  <2>5. CASE UNCHANGED Service!vars
    BY <2>5 DEF Service!vars
  <2> QED  BY <2>1, <2>2, <2>3, <2>4, <2>5 DEF Service!Next
<1> QED  BY <1>1, <1>2, PTL DEF ImplementsService, Service!Spec
=============================================================================
