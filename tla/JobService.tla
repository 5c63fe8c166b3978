----------------------------- MODULE JobService -----------------------------
(***************************************************************************)
(* What a host controller promises about the jobs handed to it, without    *)
(* its queue, condition variable, threads and client: every job is either  *)
(* refused or taken; a taken job runs at most once, alone, and only while  *)
(* the service is open; closing the service lets the running job finish    *)
(* and discards the waiting ones together.  HostController implements it.  *)
(***************************************************************************)
CONSTANT Jobs

VARIABLES
  open,    \* no shutdown has been requested
  status   \* the life of each job

vars == <<open, status>>

Status == {"new", "queued", "running", "settled", "rejected", "broken"}

TypeOK ==
  /\ open \in BOOLEAN
  /\ status \in [Jobs -> Status]

Init ==
  /\ open = TRUE
  /\ status = [j \in Jobs |-> "new"]

Move(j, from, to) ==
  /\ status[j] = from
  /\ status' = [status EXCEPT ![j] = to]

Accept(j) == open /\ Move(j, "new", "queued") /\ UNCHANGED open

Reject(j) == ~open /\ Move(j, "new", "rejected") /\ UNCHANGED open

Start(j) ==
  /\ open
  /\ \A k \in Jobs : status[k] # "running"
  /\ Move(j, "queued", "running")
  /\ UNCHANGED open

Finish(j) == Move(j, "running", "settled") /\ UNCHANGED open

Close ==
  /\ open' = FALSE
  /\ UNCHANGED status

\* The waiting jobs are destroyed with the service: their futures break.
Discard ==
  /\ ~open
  /\ \A k \in Jobs : status[k] # "running"
  /\ status' = [j \in Jobs |-> IF status[j] = "queued" THEN "broken" ELSE status[j]]
  /\ UNCHANGED open

Next ==
  \/ \E j \in Jobs : Accept(j) \/ Reject(j) \/ Start(j) \/ Finish(j)
  \/ Close
  \/ Discard

Spec == Init /\ [][Next]_vars
=============================================================================
