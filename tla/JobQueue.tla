------------------------------ MODULE JobQueue ------------------------------
(***************************************************************************)
(* woinc::ui::JobQueue (libui/src/job_queue.cc): a deque of jobs guarded   *)
(* by a mutex, with a condition variable its consumers wait on.            *)
(*                                                                         *)
(* No critical section of the queue calls out or blocks, apart from the    *)
(* wait itself, so each one is one action.  The notification that follows  *)
(* a critical section happens after the unlock and is an action of its     *)
(* own.  A thread blocked in condition_.wait is in `waiting'; once it is   *)
(* woken it has to take the mutex and test the predicate again.            *)
(***************************************************************************)
EXTENDS Naturals, Sequences

VARIABLES
  jobs,       \* jobs_: the queued jobs, front first
  shutdown,   \* shutdown_
  waiting,    \* threads blocked in condition_.wait
  notifying   \* producers between unlocking the mutex and notify_one

queueVars == <<jobs, shutdown, waiting, notifying>>

QueueInit ==
  /\ jobs = <<>>
  /\ shutdown = FALSE
  /\ waiting = {}
  /\ notifying = {}

InQueue(j) == \E i \in 1..Len(jobs) : jobs[i] = j

-----------------------------------------------------------------------------
(* push_: the producer's critical section and its notification.            *)

\* What push_ does under the lock, newJobs being the deque with the job in it.
Push(p, newJobs) ==
  /\ ~shutdown
  /\ jobs' = newJobs
  /\ notifying' = notifying \cup {p}
  /\ UNCHANGED <<shutdown, waiting>>

\* Mutant: both ends of the deque mixed up.
PushFrontAtTheBack(p, j) == Push(p, Append(jobs, j))

PushFront(p, j) == Push(p, <<j>> \o jobs)

PushBack(p, j) == Push(p, Append(jobs, j))

\* The job is dropped and nobody is notified.
PushRefused == shutdown /\ UNCHANGED queueVars

\* Mutant: push_ does not notify.
NotifyNobody(p) ==
  /\ p \in notifying
  /\ notifying' = notifying \ {p}
  /\ UNCHANGED <<jobs, shutdown, waiting>>

\* Without a waiter the notification is lost.
NotifyOne(p) ==
  /\ p \in notifying
  /\ notifying' = notifying \ {p}
  /\ \/ waiting = {} /\ UNCHANGED waiting
     \/ \E t \in waiting : waiting' = waiting \ {t}
  /\ UNCHANGED <<jobs, shutdown>>

-----------------------------------------------------------------------------
(* pop: the three ways the predicate test ends, and waking up untold.      *)

PopWait(t) ==
  /\ t \notin waiting
  /\ jobs = <<>>
  /\ ~shutdown
  /\ waiting' = waiting \cup {t}
  /\ UNCHANGED <<jobs, shutdown, notifying>>

\* Mutant: the jobs still queued are served after a shutdown.
PopJobAfterShutdown(t) ==
  /\ t \notin waiting
  /\ jobs # <<>>
  /\ jobs' = Tail(jobs)
  /\ UNCHANGED <<shutdown, waiting, notifying>>

\* Mutant: pop_front is missing.
PopJobStays(t) ==
  /\ t \notin waiting
  /\ jobs # <<>>
  /\ ~shutdown
  /\ UNCHANGED queueVars

PopJob(t) ==
  /\ t \notin waiting
  /\ jobs # <<>>
  /\ ~shutdown
  /\ jobs' = Tail(jobs)
  /\ UNCHANGED <<shutdown, waiting, notifying>>

PopNothing(t) ==
  /\ t \notin waiting
  /\ shutdown
  /\ UNCHANGED queueVars

SpuriousWakeup(t) ==
  /\ t \in waiting
  /\ waiting' = waiting \ {t}
  /\ UNCHANGED <<jobs, shutdown, notifying>>

-----------------------------------------------------------------------------
(* shutdown: the flag under the lock, then notify_all.                     *)

SetShutdown ==
  /\ shutdown' = TRUE
  /\ UNCHANGED <<jobs, waiting, notifying>>

\* Mutant: shutdown does not notify.
NotifyAllNobody == UNCHANGED queueVars

NotifyAll ==
  /\ waiting' = {}
  /\ UNCHANGED <<jobs, shutdown, notifying>>
=============================================================================
