---------------------------- MODULE DialogsProofs ----------------------------
(***************************************************************************)
(* Proofs of the safety properties of the dialogs of woincqt that work on  *)
(* a host: those of Settings, and those of AddProjectWizard.               *)
(***************************************************************************)
EXTENDS Settings, AddProjectWizard, SequenceTheorems, TLAPS

(***************************************************************************)
(* Settings: the commands of the dialogs, the subscription and the answer. *)
(***************************************************************************)

JobFields == {"op", "sub", "node", "conf", "read", "hasRead"}

\* A job that is subscribed is the one waited for.
GoodJob(job) ==
  /\ DOMAIN job = JobFields
  /\ "unread" \in DOMAIN job.read
  /\ job.sub => job.op = waitingFor /\ job.op # "none" /\ answer.op = "none"

\* At most one job is subscribed: the one that runs or the next one.  What the event log
\* dialog waits for is its own.
FlowInv ==
  /\ \E S : jobs \in Seq(S)
  /\ \A k \in 1..Len(jobs) : GoodJob(jobs[k]) /\ (jobs[k].sub => k = 1 /\ ~running.sub)
  /\ GoodJob(running)
  /\ "unread" \in DOMAIN cc
  /\ answer.op \in {"none", waitingFor}
  /\ dialog = "preferences" => waitingFor = "none"
  /\ waitingFor \in WritesConfig \cup {"get_cc"} => impatient \/ dialog = "event_log"
  /\ dangling => impatient

LEMMA FlowInitially == SettingsInit => FlowInv
<1> SUFFICES ASSUME SettingsInit PROVE FlowInv
  OBVIOUS
<1>1. jobs = <<>> /\ waitingFor = "none" /\ answer = NoAnswer /\ dialog = "none" /\ dangling = FALSE
      /\ cc = [NoConfig EXCEPT !.exclusive = Apps] /\ running = NoJob
  BY DEF SettingsInit
<1>2. jobs \in Seq({}) /\ Len(jobs) = 0
  BY <1>1
<1>3. "unread" \in DOMAIN cc
  BY <1>1 DEF NoConfig
<1>4. answer.op = "none"
  BY <1>1 DEF NoAnswer
<1>5. DOMAIN running = JobFields /\ running.sub = FALSE /\ "unread" \in DOMAIN running.read
  BY <1>1 DEF NoJob, Job, JobFields, NoConfig
<1> QED  BY <1>1, <1>2, <1>3, <1>4, <1>5 DEF FlowInv, GoodJob, WritesConfig

\* A sequence with a new head.
LEMMA InFront ==
  ASSUME NEW S, NEW s \in Seq(S), NEW e
  PROVE  /\ <<e>> \o s \in Seq(S \cup {e}) /\ Len(<<e>> \o s) = Len(s) + 1 /\ Len(s) \in Nat
         /\ (<<e>> \o s)[1] = e
         /\ \A k \in 1..Len(s) : (<<e>> \o s)[k + 1] = s[k]
<1>1. s \in Seq(S \cup {e}) /\ <<e>> \in Seq(S \cup {e}) /\ Len(<<e>>) = 1 /\ <<e>>[1] = e
  BY SeqMonotonic
<1>2. Len(s) \in Nat
  BY LenProperties
<1> QED  BY <1>1, <1>2, ConcatProperties

\* A job in front of a queue in which nobody is subscribed.
LEMMA JobsInFront ==
  ASSUME FlowInv, NEW job, jobs' = <<job>> \o jobs
  PROVE  /\ \E S : jobs' \in Seq(S)
         /\ Len(jobs') = Len(jobs) + 1 /\ Len(jobs) \in Nat
         /\ \A k \in 1..Len(jobs') :
              \/ k = 1 /\ jobs'[k] = job
              \/ k # 1 /\ \E j \in 1..Len(jobs) : jobs'[k] = jobs[j]
<1>1. PICK S : jobs \in Seq(S)
  BY DEF FlowInv
<1>2. /\ jobs' \in Seq(S \cup {job}) /\ Len(jobs') = Len(jobs) + 1 /\ Len(jobs) \in Nat
      /\ jobs'[1] = job
      /\ \A k \in 1..Len(jobs) : jobs'[k + 1] = jobs[k]
  BY <1>1, InFront
<1>3. ASSUME NEW k \in 1..Len(jobs'), k # 1 PROVE \E j \in 1..Len(jobs) : jobs'[k] = jobs[j]
  <2>1. k - 1 \in 1..Len(jobs) /\ (k - 1) + 1 = k
    BY <1>2, <1>3
  <2> QED  BY <1>2, <2>1
<1> QED  BY <1>2, <1>3

\* Nobody waits: a command and its subscription.
LEMMA SubscribesFlow ==
  ASSUME FlowInv, NEW job, Subscribe(job), DOMAIN job = JobFields, job.op # "none",
         "unread" \in DOMAIN job.read, ~running.sub, \A k \in 1..Len(jobs) : ~jobs[k].sub,
         UNCHANGED <<cc, impatient, dangling>>,
         dialog' # "preferences",
         job.op \in WritesConfig \cup {"get_cc"} => dialog' = "event_log"
  PROVE  FlowInv'
<1>1. /\ \E S : jobs' \in Seq(S)
      /\ \A k \in 1..Len(jobs') :
           \/ k = 1 /\ jobs'[k] = job
           \/ k # 1 /\ \E j \in 1..Len(jobs) : jobs'[k] = jobs[j]
  BY JobsInFront DEF Subscribe
<1>2. waitingFor' = job.op /\ answer'.op = "none" /\ running' = running
  BY DEF Subscribe, NoAnswer
<1>3. ASSUME NEW k \in 1..Len(jobs')
      PROVE  GoodJob(jobs[k])' /\ (jobs'[k].sub => k = 1 /\ ~running'.sub)
  <2>1. CASE k = 1 /\ jobs'[k] = job
    BY <1>2, <2>1 DEF GoodJob
  <2>2. ASSUME NEW j \in 1..Len(jobs), jobs'[k] = jobs[j]
        PROVE  GoodJob(jobs[k])' /\ (jobs'[k].sub => k = 1 /\ ~running'.sub)
    <3>1. GoodJob(jobs[j]) /\ ~jobs[j].sub
      BY DEF FlowInv
    <3> QED  BY <2>2, <3>1 DEF GoodJob
  <2> QED  BY <1>1, <2>1, <2>2
<1>4. GoodJob(running)'
  BY <1>2 DEF FlowInv, GoodJob
<1> QED  BY <1>1, <1>2, <1>3, <1>4 DEF FlowInv

\* Nobody is subscribed while nobody waits, or once there is an answer.
LEMMA NobodySubscribed ==
  ASSUME FlowInv, waitingFor = "none" \/ answer.op # "none"
  PROVE  ~running.sub /\ \A k \in 1..Len(jobs) : ~jobs[k].sub
BY DEF FlowInv, GoodJob

\* A function on an initial segment is a sequence.
LEMMA FunctionSeq ==
  ASSUME NEW n \in Nat, NEW T, NEW f \in [1..n -> T]
  PROVE  f \in Seq(T) /\ Len(f) = n
<1>1. f \in Seq(T)
  BY SeqDef
<1>2. DOMAIN f = 1..Len(f) /\ Len(f) \in Nat
  BY <1>1, LenProperties
<1>3. DOMAIN f = 1..n
  OBVIOUS
<1>4. ASSUME NEW m \in Nat, 1..m = 1..n PROVE m = n
  <2>1. \A i \in Nat : i \in 1..m <=> i \in 1..n
    BY <1>4
  <2>2. (m \in 1..m <=> m \in 1..n) /\ (n \in 1..m <=> n \in 1..n)
    BY <2>1
  <2> QED  BY <2>2
<1> QED  BY <1>1, <1>2, <1>3, <1>4

\* Ending a subscription leaves the jobs where they are.
LEMMA SettledJobs ==
  ASSUME FlowInv, NEW a, Settled(a)
  PROVE  /\ \E T : jobs' \in Seq(T)
         /\ Len(jobs') = Len(jobs)
         /\ \A k \in 1..Len(jobs) :
              jobs'[k] = jobs[k] \/ jobs'[k] = [jobs[k] EXCEPT !.sub = FALSE]
         /\ running' = running \/ running' = [running EXCEPT !.sub = FALSE]
<1>1. PICK S : jobs \in Seq(S)
  BY DEF FlowInv
<1>2. Len(jobs) \in Nat /\ DOMAIN jobs = 1..Len(jobs)
  BY <1>1, LenProperties
<1>3. CASE /\ jobs' = [k \in DOMAIN jobs |-> [jobs[k] EXCEPT !.sub = FALSE]]
           /\ running' = [running EXCEPT !.sub = FALSE]
  <2>1. PICK T : T = {[jobs[k] EXCEPT !.sub = FALSE] : k \in 1..Len(jobs)}
    OBVIOUS
  <2>2. jobs' \in [1..Len(jobs) -> T]
    BY <1>2, <1>3, <2>1
  <2>3. jobs' \in Seq(T) /\ Len(jobs') = Len(jobs)
    BY <1>2, <2>2, FunctionSeq
  <2> QED  BY <1>2, <1>3, <2>3
<1> QED  BY <1>1, <1>3 DEF Settled

\* The subscription ends.
LEMMA SettlesFlow ==
  ASSUME FlowInv, NEW a, Settled(a), Done, UNCHANGED <<cc, impatient>>,
         dangling' => impatient
  PROVE  FlowInv'
<1>1. waitingFor' = "none" /\ answer'.op = "none"
  BY DEF Done, NoAnswer
<1>2. CASE UNCHANGED <<jobs, running>> /\ a = answer /\ a.op # "none"
  <2>1. ~running.sub /\ \A k \in 1..Len(jobs) : ~jobs[k].sub
    BY <1>2, NobodySubscribed
  <2>2. GoodJob(running)' /\ \A k \in 1..Len(jobs') : GoodJob(jobs[k])'
    BY <1>2, <2>1 DEF FlowInv, GoodJob
  <2> QED  BY <1>1, <1>2, <2>1, <2>2 DEF FlowInv, WritesConfig
<1>3. CASE /\ jobs' = [k \in DOMAIN jobs |-> [jobs[k] EXCEPT !.sub = FALSE]]
           /\ running' = [running EXCEPT !.sub = FALSE]
  <2>1. (\E T : jobs' \in Seq(T)) /\ Len(jobs') = Len(jobs)
    BY SettledJobs
  <2>2. \E S : jobs \in Seq(S)
    BY DEF FlowInv
  <2>3. DOMAIN jobs = 1..Len(jobs)
    BY <2>2, LenProperties
  <2>4. ASSUME NEW k \in 1..Len(jobs') PROVE GoodJob(jobs[k])' /\ ~jobs'[k].sub
    <3>1. jobs'[k] = [jobs[k] EXCEPT !.sub = FALSE] /\ k \in 1..Len(jobs)
      BY <1>3, <2>1, <2>3
    <3>2. GoodJob(jobs[k])
      BY <3>1 DEF FlowInv
    <3> QED  BY <3>1, <3>2 DEF GoodJob, JobFields
  <2>5. GoodJob(running)'
    <3>1. GoodJob(running)
      BY DEF FlowInv
    <3> QED  BY <1>3, <3>1 DEF GoodJob, JobFields
  <2> QED  BY <1>1, <2>1, <2>4, <2>5 DEF FlowInv, WritesConfig
<1> QED  BY <1>2, <1>3 DEF Settled

\* The worker takes the job in front.
LEMMA TakeFlow == ASSUME FlowInv, TakeJob PROVE FlowInv'
<1>1. /\ jobs # <<>> /\ running' = Head(jobs) /\ jobs' = Tail(jobs)
      /\ UNCHANGED <<waitingFor, answer, cc, dialog, impatient, dangling>>
  BY DEF TakeJob, userVars, clientVars
<1>2. PICK S : jobs \in Seq(S)
  BY DEF FlowInv
<1>3. /\ jobs' \in Seq(S) /\ Len(jobs') = Len(jobs) - 1 /\ Len(jobs) \in Nat /\ Len(jobs) > 0
      /\ running' = jobs[1]
      /\ \A k \in 1..Len(jobs') : jobs'[k] = jobs[k + 1]
  BY <1>1, <1>2, HeadTailProperties, LenProperties
<1>4. \A k \in 1..Len(jobs') : k + 1 \in 1..Len(jobs) /\ k + 1 # 1
  BY <1>3
<1>5. ASSUME NEW k \in 1..Len(jobs') PROVE GoodJob(jobs[k])' /\ ~jobs'[k].sub
  <2>1. GoodJob(jobs[k + 1]) /\ ~jobs[k + 1].sub /\ jobs'[k] = jobs[k + 1]
    BY <1>3, <1>4 DEF FlowInv
  <2> QED  BY <1>1, <2>1 DEF GoodJob
<1>6. GoodJob(running)'
  <2>1. 1 \in 1..Len(jobs)
    BY <1>3
  <2>2. GoodJob(jobs[1])
    BY <2>1 DEF FlowInv
  <2> QED  BY <1>1, <1>3, <2>2 DEF GoodJob
<1> QED  BY <1>1, <1>3, <1>5, <1>6 DEF FlowInv

\* The job is run: it is subscribed and gets an answer, or nobody is told.
LEMMA RunFlow ==
  ASSUME FlowInv, NEW ok \in BOOLEAN, NEW reached \in BOOLEAN, RunJob(ok, reached)
  PROVE  FlowInv'
<1>1. running.op # "none" /\ UNCHANGED <<waitingFor, jobs, dialog, impatient, dangling>>
  BY DEF RunJob, userVars
<1>2. GoodJob(running)
  BY DEF FlowInv
<1>3. CASE /\ running' = [running EXCEPT !.read = cc, !.hasRead = TRUE]
           /\ UNCHANGED <<cc, answer>>
  <2>1. /\ DOMAIN running' = JobFields /\ running'.op = running.op /\ running'.sub = running.sub
        /\ running'.read = cc
    BY <1>2, <1>3 DEF GoodJob, JobFields
  <2>2. GoodJob(running)'
    BY <1>1, <1>2, <1>3, <2>1 DEF GoodJob, FlowInv
  <2>3. \A k \in 1..Len(jobs) : GoodJob(jobs[k])'
    BY <1>1, <1>3 DEF FlowInv, GoodJob
  <2> QED  BY <1>1, <1>3, <2>1, <2>2, <2>3 DEF FlowInv
<1>4. CASE /\ Ready(ok)
           /\ cc' = IF running.op \in WritesConfig /\ reached THEN Config(running.read, running.conf) ELSE cc
  <2>1. "unread" \in DOMAIN cc'
    BY <1>2, <1>4 DEF Config, FlowInv, GoodJob
  <2>2. ~running'.sub /\ DOMAIN running' = JobFields /\ "unread" \in DOMAIN running'.read
    BY <1>4 DEF Ready, NoJob, Job, JobFields, NoConfig
  <2>3. GoodJob(running)'
    BY <2>2 DEF GoodJob
  <2>4. CASE running.sub
    <3>1. answer'.op = running.op /\ running.op = waitingFor
      BY <1>2, <1>4, <2>4 DEF Ready, GoodJob
    <3>2. \A k \in 1..Len(jobs) : ~jobs[k].sub /\ GoodJob(jobs[k])'
      BY <1>1, <2>4 DEF FlowInv, GoodJob
    <3> QED  BY <1>1, <2>1, <2>3, <3>1, <3>2 DEF FlowInv
  <2>5. CASE ~running.sub
    <3>1. answer' = answer
      BY <1>4, <2>5 DEF Ready
    <3>2. \A k \in 1..Len(jobs) : GoodJob(jobs[k])'
      BY <1>1, <3>1 DEF FlowInv, GoodJob
    <3> QED  BY <1>1, <2>1, <2>2, <2>3, <3>1, <3>2 DEF FlowInv
  <2> QED  BY <2>4, <2>5
<1> QED  BY <1>3, <1>4 DEF RunJob

LEMMA PollerFlow == ASSUME FlowInv, PollerStep PROVE FlowInv'
<1>1. PICK a \in {answer, Failed} :
        PreferencesLoaded(a) \/ PreferencesSaved(a) \/ PreferencesRead(a) \/ FlagsLoaded(a) \/ FlagsSaved(a)
  BY DEF PollerStep
<1>2. ~dangling
  BY DEF PollerStep
<1>3. UNCHANGED <<cc, impatient>>
  BY <1>1 DEF PreferencesLoaded, PreferencesSaved, PreferencesRead, FlagsLoaded, FlagsSaved,
              clientVars, userVars
<1>4. a.op = "none" \/ a.op = waitingFor
  BY DEF FlowInv, Failed, NoAnswer
<1>5. CASE PreferencesLoaded(a) \/ PreferencesRead(a)
  BY <1>2, <1>3, <1>5, SettlesFlow DEF PreferencesLoaded, PreferencesRead, userVars
<1>6. CASE PreferencesSaved(a)
  <2>1. UNCHANGED <<dialog, dangling>>
    BY <1>6 DEF PreferencesSaved, userVars
  <2>2. CASE a.ok /\ a = answer
    <3>1. Subscribe(Job("read_override")) /\ waitingFor = "set_override" /\ answer.op # "none"
      BY <1>4, <1>6, <2>2 DEF PreferencesSaved
    <3>2. ~running.sub /\ \A k \in 1..Len(jobs) : ~jobs[k].sub
      BY <3>1, NobodySubscribed
    <3>3. PICK job : job = Job("read_override")
      OBVIOUS
    <3>4. DOMAIN job = JobFields /\ job.op = "read_override" /\ "unread" \in DOMAIN job.read
      BY <3>3 DEF Job, JobFields, NoConfig
    <3>5. dialog' # "preferences"
      BY <2>1, <3>1 DEF FlowInv
    <3> QED  BY <1>3, <2>1, <3>1, <3>2, <3>3, <3>4, <3>5, SubscribesFlow DEF WritesConfig
  <2>3. CASE ~(a.ok /\ a = answer)
    BY <1>2, <1>3, <1>6, <2>1, <2>3, SettlesFlow DEF PreferencesSaved
  <2> QED  BY <2>2, <2>3
<1>7. CASE FlagsLoaded(a) \/ FlagsSaved(a)
  <2>1. Settled(a) /\ Done /\ dangling' = (dialog # "event_log")
    BY <1>7 DEF FlagsLoaded, FlagsSaved
  <2>2. waitingFor \in WritesConfig \cup {"get_cc"}
    BY <1>4, <1>7 DEF FlagsLoaded, FlagsSaved, WritesConfig
  <2>3. dangling' => impatient
    BY <2>1, <2>2 DEF FlowInv
  <2> QED  BY <1>3, <2>1, <2>3, SettlesFlow
<1> QED  BY <1>1, <1>5, <1>6, <1>7

\* Another manager, and what is typed into a dialog, does not touch the flow.
LEMMA FlowStays ==
  ASSUME FlowInv, UNCHANGED <<flowVars, dialog, dangling, impatient>>, "unread" \in DOMAIN cc'
  PROVE  FlowInv'
<1>1. UNCHANGED <<waitingFor, jobs, running, answer, dialog, dangling, impatient>>
  BY DEF flowVars
<1>2. GoodJob(running)' /\ \A k \in 1..Len(jobs) : GoodJob(jobs[k])'
  BY <1>1 DEF FlowInv, GoodJob
<1> QED  BY <1>1, <1>2 DEF FlowInv

LEMMA FlowPreserved == FlowInv /\ [SettingsNext]_settingsVars => FlowInv'
<1> SUFFICES ASSUME FlowInv, [SettingsNext]_settingsVars PROVE FlowInv'
  OBVIOUS
<1>1. ASSUME UNCHANGED <<cc, flowVars, dialog, dangling, impatient>> PROVE FlowInv'
  BY <1>1, FlowStays DEF FlowInv
<1>2. ASSUME ShowPreferences \/ ShowEventLogOptions PROVE FlowInv'
  <2>1. PICK op \in {"get_working", "get_cc"} :
          Subscribe(Job(op)) /\ (op = "get_cc" => dialog' = "event_log")
    BY <1>2 DEF ShowPreferences, ShowEventLogOptions
  <2>2. PICK job : job = Job(op)
    OBVIOUS
  <2>3. DOMAIN job = JobFields /\ job.op = op /\ "unread" \in DOMAIN job.read
    BY <2>2 DEF Job, JobFields, NoConfig
  <2>4. UNCHANGED <<cc, impatient, dangling>> /\ waitingFor = "none" /\ dialog' # "preferences"
    BY <1>2 DEF ShowPreferences, ShowEventLogOptions, Idle, clientVars
  <2>5. ~running.sub /\ \A k \in 1..Len(jobs) : ~jobs[k].sub
    BY <2>4, NobodySubscribed
  <2> QED  BY <2>1, <2>2, <2>3, <2>4, <2>5, SubscribesFlow DEF WritesConfig
<1>3. ASSUME SavePreferences PROVE FlowInv'
  <2>1. PICK job : job = [Job("set_override") EXCEPT !.node = Override(prefs, mask)]
    OBVIOUS
  <2>2. DOMAIN job = JobFields /\ job.op = "set_override" /\ "unread" \in DOMAIN job.read
    BY <2>1 DEF Job, JobFields, NoConfig
  <2>3. /\ UNCHANGED <<cc, impatient, dangling>> /\ waitingFor = "none" /\ dialog' = "none"
        /\ Subscribe(job)
    BY <1>3, <2>1 DEF SavePreferences, Editing, FlowInv, clientVars
  <2>4. ~running.sub /\ \A k \in 1..Len(jobs) : ~jobs[k].sub
    BY <2>3, NobodySubscribed
  <2> QED  BY <2>2, <2>3, <2>4, SubscribesFlow DEF WritesConfig
<1>4. ASSUME NEW op \in WritesConfig, SaveFlags(op) PROVE FlowInv'
  <2>1. PICK job : job = ConfigJob(op)
    OBVIOUS
  <2>2. DOMAIN job = JobFields /\ job.op = op /\ "unread" \in DOMAIN job.read
    BY <2>1 DEF ConfigJob, Job, JobFields, NoConfig
  <2>3. /\ UNCHANGED <<cc, impatient, dangling>> /\ waitingFor = "none" /\ dialog' = "event_log"
        /\ Subscribe(job)
    BY <1>4, <2>1 DEF SaveFlags, clientVars, userVars
  <2>4. ~running.sub /\ \A k \in 1..Len(jobs) : ~jobs[k].sub
    BY <2>3, NobodySubscribed
  <2>5. op # "none"
    BY DEF WritesConfig
  <2> QED  BY <2>2, <2>3, <2>4, <2>5, SubscribesFlow
<1>5. ASSUME CloseDialog PROVE FlowInv'
  <2>1. UNCHANGED <<cc, waitingFor, jobs, running, answer, dangling>> /\ dialog' = "none" /\ ~dangling
    BY <1>5 DEF CloseDialog, clientVars, flowVars
  <2>2. impatient' = (impatient \/ waitingFor # "none")
    BY <1>5 DEF CloseDialog
  <2>3. waitingFor \in WritesConfig \cup {"get_cc"} => impatient'
    BY <2>2 DEF WritesConfig
  <2>4. GoodJob(running)' /\ \A k \in 1..Len(jobs) : GoodJob(jobs[k])'
    BY <2>1 DEF FlowInv, GoodJob
  <2> QED  BY <2>1, <2>3, <2>4 DEF FlowInv
<1>6. ASSUME OtherStep PROVE FlowInv'
  <2>1. UNCHANGED <<flowVars, dialog, dangling, impatient>>
    BY <1>6 DEF OtherStep, OtherSetsPreference, OtherSetsConfig, userVars
  <2>2. "unread" \in DOMAIN cc'
    <3>1. cc' = cc \/ \E o, u \in {0, 1} : cc' = [cc EXCEPT !.option = o, !.unread = u]
      BY <1>6 DEF OtherStep, OtherSetsPreference, OtherSetsConfig
    <3> QED  BY <3>1 DEF FlowInv
  <2> QED  BY <2>1, <2>2, FlowStays
<1>7. ASSUME Edit \/ ToggleFlag \/ AnswerComesLate \/ UNCHANGED settingsVars PROVE FlowInv'
  BY <1>1, <1>7 DEF Edit, ToggleFlag, AnswerComesLate, settingsVars, clientVars, userVars
<1> QED  BY <1>2, <1>3, <1>4, <1>5, <1>6, <1>7, TakeFlow, RunFlow, PollerFlow DEF SettingsNext, UserStep

(***************************************************************************)
(* What the user saved, on its way to the client.                          *)
(***************************************************************************)

\* The preferences DeliveredAsShown speaks of.
Exact == Group \ (Weekdays \cup Times \cup {"daily_xfer_period_days"})

\* A file says what the dialog showed.
Says(node, shown) ==
  \A f \in Exact :
    IF f \in DOMAIN shown THEN f \in DOMAIN node /\ node[f] = shown[f]
    ELSE f \in AlwaysMapped => f \in DOMAIN node /\ node[f] = 0

\* What was saved last is in the job that is subscribed, then in the client's file, and at
\* last in what the client works with.
OnItsWay(shown) ==
  /\ \A k \in 1..Len(jobs) :
       jobs[k].sub /\ jobs[k].op = "set_override" => Says(jobs[k].node, shown)
  /\ running.sub /\ running.op = "set_override" => Says(running.node, shown)
  /\ answer.op = "set_override" /\ answer.ok => Says(override, shown)
  /\ waitingFor = "read_override" => Says(override, shown)
  /\ answer.op = "read_override" /\ answer.ok => Says(working, shown)
  /\ delivered => Says(override, shown) /\ Says(working, shown)

DeliverInv ==
  /\ waitingFor \in {"set_override", "read_override"} => ~delivered
  /\ ~overtaken /\ ~late => \A shown \in saved : OnItsWay(shown)

\* What is read over the project's preferences says the same.
LEMMA SaysOver ==
  ASSUME NEW shown, Says(override, shown)
  PROVE  Says(Over(override, general), shown)
BY DEF Says, Exact, Over, Group

\* The files, the flow and what was saved stay.
LEMMA DeliverStays ==
  ASSUME DeliverInv, UNCHANGED <<general, override, working, flowVars, saved, delivered>>,
         ~overtaken' /\ ~late' => ~overtaken /\ ~late
  PROVE  DeliverInv'
<1>1. UNCHANGED <<override, working, waitingFor, jobs, running, answer, saved, delivered>> /\ Exact' = Exact
  BY DEF flowVars, Exact, Group
<1>2. ASSUME NEW shown, OnItsWay(shown) PROVE OnItsWay(shown)'
  BY <1>1, <1>2 DEF OnItsWay, Says
<1> QED  BY <1>1, <1>2 DEF DeliverInv

\* A command of another kind joins the queue.
LEMMA DeliverSubscribes ==
  ASSUME FlowInv, DeliverInv, UNCHANGED <<general, override, working, saved, delivered, overtaken, late>>,
         NEW job, Subscribe(job), job.op \notin {"set_override", "read_override"}
  PROVE  DeliverInv'
<1>1. /\ UNCHANGED <<override, working, saved, delivered, overtaken, late, running>> /\ Exact' = Exact
      /\ waitingFor' = job.op /\ answer'.op = "none"
  BY DEF Exact, Group, Subscribe, NoAnswer
<1>2. \A k \in 1..Len(jobs') :
        \/ k = 1 /\ jobs'[k] = job
        \/ k # 1 /\ \E j \in 1..Len(jobs) : jobs'[k] = jobs[j]
  BY JobsInFront DEF Subscribe
<1>3. ASSUME NEW shown, OnItsWay(shown) PROVE OnItsWay(shown)'
  <2>1. ASSUME NEW k \in 1..Len(jobs'), jobs'[k].sub, jobs'[k].op = "set_override"
        PROVE  Says(jobs[k].node, shown)'
    <3>1. PICK j \in 1..Len(jobs) : jobs'[k] = jobs[j]
      BY <1>2, <2>1
    <3>2. Says(jobs[j].node, shown)
      BY <1>3, <2>1, <3>1 DEF OnItsWay
    <3> QED  BY <1>1, <3>1, <3>2 DEF Says
  <2>2. /\ running'.sub /\ running'.op = "set_override" => Says(running.node, shown)'
        /\ delivered' => Says(override, shown)' /\ Says(working, shown)'
    BY <1>1, <1>3 DEF OnItsWay, Says
  <2> QED  BY <1>1, <2>1, <2>2 DEF OnItsWay
<1> QED  BY <1>1, <1>3 DEF DeliverInv

\* The dialog is closed by saving: the job has what it showed.
LEMMA DeliverSaves == ASSUME FlowInv, SavePreferences PROVE DeliverInv'
<1>1. PICK job : job = [Job("set_override") EXCEPT !.node = Override(prefs, mask)]
  OBVIOUS
<1>2. Subscribe(job) /\ job.node = Override(prefs, mask) /\ job.op = "set_override"
  BY <1>1 DEF SavePreferences, Job
<1>3. /\ waitingFor' = "set_override" /\ answer'.op = "none" /\ delivered' = FALSE /\ general' = general
      /\ running' = running
  BY <1>2 DEF SavePreferences, Subscribe, NoAnswer, clientVars
<1>4. ~running.sub /\ \A k \in 1..Len(jobs) : ~jobs[k].sub
  <2>1. waitingFor = "none"
    BY DEF SavePreferences, Editing, FlowInv
  <2> QED  BY <2>1, NobodySubscribed
<1>5. \A k \in 1..Len(jobs') : jobs'[k].sub => jobs'[k] = job
  <2>1. \A k \in 1..Len(jobs') :
          \/ k = 1 /\ jobs'[k] = job
          \/ k # 1 /\ \E j \in 1..Len(jobs) : jobs'[k] = jobs[j]
    BY <1>2, JobsInFront DEF Subscribe
  <2> QED  BY <1>4, <2>1
<1>6. ASSUME NEW shown \in saved' PROVE OnItsWay(shown)'
  <2>1. shown = [f \in {g \in Group : mask[g] \/ g \in Weekdays} |-> Shown(f)]
    BY DEF SavePreferences
  <2>2. ASSUME NEW f \in Exact
        PROVE  IF f \in DOMAIN shown THEN f \in DOMAIN job.node /\ job.node[f] = shown[f]
               ELSE f \in AlwaysMapped => f \in DOMAIN job.node /\ job.node[f] = 0
    <3>1. f \in Group /\ f \notin Weekdays /\ f \notin Times
      BY DEF Exact
    <3>2. f \in DOMAIN shown <=> mask[f]
      BY <2>1, <3>1
    <3>3. Shown(f) = prefs[f]
      BY <3>1 DEF Shown
    <3>4. f \in DOMAIN job.node <=> mask[f] \/ f \in AlwaysMapped
      BY <1>2, <3>1 DEF Override
    <3>5. f \in DOMAIN job.node => job.node[f] = IF mask[f] THEN prefs[f] ELSE 0
      BY <1>2 DEF Override
    <3>6. f \in DOMAIN shown => shown[f] = prefs[f]
      BY <2>1, <3>3
    <3> QED  BY <3>2, <3>4, <3>5, <3>6
  <2>3. Exact' = Exact
    BY <1>3 DEF Exact, Group
  <2>4. Says(job.node, shown)
    BY <2>2 DEF Says
  <2>5. ASSUME NEW k \in 1..Len(jobs'), jobs'[k].sub PROVE Says(jobs[k].node, shown)'
    <3>1. jobs'[k] = job
      BY <1>5, <2>5
    <3> QED  BY <2>3, <2>4, <3>1 DEF Says
  <2> QED  BY <1>3, <1>4, <2>5 DEF OnItsWay
<1> QED  BY <1>3, <1>6 DEF DeliverInv

\* The job that is taken is the one in front.
LEMMA DeliverTakes == ASSUME FlowInv, DeliverInv, TakeJob PROVE DeliverInv'
<1>1. /\ jobs # <<>> /\ running' = Head(jobs) /\ jobs' = Tail(jobs)
      /\ UNCHANGED <<waitingFor, answer, general, override, working, saved, delivered, overtaken, late>>
  BY DEF TakeJob, clientVars, prefsVars, watchedVars
<1>2. PICK S : jobs \in Seq(S)
  BY DEF FlowInv
<1>3. /\ Len(jobs') = Len(jobs) - 1 /\ Len(jobs) \in Nat /\ Len(jobs) > 0
      /\ running' = jobs[1]
      /\ \A k \in 1..Len(jobs') : jobs'[k] = jobs[k + 1]
  BY <1>1, <1>2, HeadTailProperties, LenProperties
<1>4. 1 \in 1..Len(jobs) /\ \A k \in 1..Len(jobs') : k + 1 \in 1..Len(jobs)
  BY <1>3
<1>5. Exact' = Exact
  BY <1>1 DEF Exact, Group
<1>6. ASSUME NEW shown, OnItsWay(shown) PROVE OnItsWay(shown)'
  <2>1. ASSUME NEW k \in 1..Len(jobs'), jobs'[k].sub, jobs'[k].op = "set_override"
        PROVE  Says(jobs[k].node, shown)'
    <3>1. Says(jobs[k + 1].node, shown) /\ jobs'[k] = jobs[k + 1]
      BY <1>3, <1>4, <1>6, <2>1 DEF OnItsWay
    <3> QED  BY <1>5, <3>1 DEF Says
  <2>2. running'.sub /\ running'.op = "set_override" => Says(running.node, shown)'
    BY <1>3, <1>4, <1>5, <1>6 DEF OnItsWay, Says
  <2>3. /\ waitingFor' = waitingFor /\ answer' = answer /\ delivered' = delivered
        /\ Says(override, shown) => Says(override, shown)'
        /\ Says(working, shown) => Says(working, shown)'
    BY <1>1, <1>5 DEF Says
  <2> QED  BY <1>6, <2>1, <2>2, <2>3 DEF OnItsWay
<1> QED  BY <1>1, <1>6 DEF DeliverInv

\* The file changes with the job that is waited for, or before it is written again, or an
\* older save has overtaken it.
LEMMA DeliverRuns ==
  ASSUME FlowInv, DeliverInv, NEW ok \in BOOLEAN, NEW reached \in BOOLEAN, RunJob(ok, reached)
  PROVE  DeliverInv'
<1>1. /\ running.op # "none" /\ (ok /\ ~late => reached)
      /\ UNCHANGED <<waitingFor, jobs, general, saved, delivered>>
      /\ late' \in {late, late \/ (~ok /\ reached)}
  BY DEF RunJob, prefsVars
<1>2. Exact' = Exact
  BY <1>1 DEF Exact, Group
<1>3. GoodJob(running)
  BY DEF FlowInv
<1>4. ~late' => ~late
  BY <1>1
<1>5. CASE /\ running' = [running EXCEPT !.read = cc, !.hasRead = TRUE]
           /\ UNCHANGED <<override, working, cc, answer, overtaken>>
  <2>1. running'.op = running.op /\ running'.sub = running.sub /\ running'.node = running.node
    BY <1>3, <1>5 DEF GoodJob, JobFields
  <2>2. ASSUME NEW shown, OnItsWay(shown) PROVE OnItsWay(shown)'
    BY <1>1, <1>2, <1>5, <2>1, <2>2 DEF OnItsWay, Says
  <2> QED  BY <1>1, <1>4, <1>5, <2>2 DEF DeliverInv
<1>6. CASE /\ Ready(ok)
           /\ override' = IF running.op = "set_override" /\ reached THEN running.node ELSE override
           /\ working' = IF running.op = "read_override" /\ reached THEN Over(override, general) ELSE working
           /\ overtaken' = (overtaken \/ (reached /\ Overtakes))
  <2>1. ~running'.sub
    BY <1>6 DEF Ready, NoJob
  <2>2. ASSUME ~overtaken', ~late', NEW shown \in saved' PROVE OnItsWay(shown)'
    <3>1. ~overtaken /\ ~late /\ OnItsWay(shown) /\ ~(reached /\ Overtakes)
      BY <1>1, <1>4, <1>6, <2>2 DEF DeliverInv
    <3>2. ok => reached
      BY <1>1, <3>1
    <3>3. \A k \in 1..Len(jobs) : jobs[k].sub /\ jobs[k].op = "set_override" => Says(jobs[k].node, shown)'
      BY <1>1, <1>2, <3>1 DEF OnItsWay, Says
    <3>4. ASSUME running.op = "set_override", reached, running.sub PROVE OnItsWay(shown)'
      <4>1. override' = running.node /\ working' = working /\ waitingFor = "set_override" /\ ~delivered
        BY <1>3, <1>6, <3>4 DEF GoodJob, DeliverInv
      <4>2. answer'.op = "set_override"
        BY <1>6, <3>4 DEF Ready
      <4>3. Says(override, shown)'
        BY <1>2, <3>1, <3>4, <4>1 DEF OnItsWay, Says
      <4> QED  BY <1>1, <2>1, <3>3, <4>1, <4>2, <4>3 DEF OnItsWay
    <3>5. ASSUME running.op = "set_override", reached, ~running.sub PROVE OnItsWay(shown)'
      <4>1. waitingFor = "set_override" /\ answer = NoAnswer /\ ~delivered
        BY <3>1, <3>5 DEF Overtakes, DeliverInv
      <4>2. answer'.op = "none"
        BY <1>6, <3>5, <4>1 DEF Ready, NoAnswer
      <4> QED  BY <1>1, <2>1, <3>3, <4>1, <4>2 DEF OnItsWay
    <3>6. ASSUME ~(running.op = "set_override" /\ reached) PROVE OnItsWay(shown)'
      <4>1. override' = override /\ (Says(override, shown) => Says(override, shown)')
        BY <1>2, <1>6, <3>6 DEF Says
      <4>2. /\ working' = working \/ working' = Over(override, general)
            /\ running.op = "read_override" /\ reached => working' = Over(override, general)
        BY <1>6
      <4>3. Says(override, shown) => Says(Over(override, general), shown)
        BY SaysOver
      <4>4. delivered => Says(override, shown)' /\ Says(working, shown)'
        BY <1>2, <3>1, <4>1, <4>2, <4>3 DEF OnItsWay, Says
      <4>5. CASE running.sub
        <5>1. answer'.op = running.op /\ answer'.ok = ok /\ waitingFor = running.op
          BY <1>3, <1>6, <4>5 DEF Ready, GoodJob
        <5>2. answer'.op = "set_override" => ~answer'.ok
          BY <3>2, <3>6, <5>1
        <5>3. waitingFor = "read_override" => Says(override, shown) /\ Says(override, shown)'
          BY <3>1, <4>1 DEF OnItsWay
        <5>4. answer'.op = "read_override" /\ answer'.ok => Says(working, shown)'
          BY <1>2, <3>2, <4>2, <4>3, <5>1, <5>3 DEF Says
        <5> QED  BY <1>1, <2>1, <3>3, <4>4, <5>2, <5>3, <5>4 DEF OnItsWay
      <4>6. CASE ~running.sub
        <5>1. answer' = answer
          BY <1>6, <4>6 DEF Ready
        <5>2. /\ waitingFor = "read_override" => Says(override, shown) /\ Says(override, shown)'
              /\ answer.op = "set_override" /\ answer.ok => Says(override, shown)'
          BY <3>1, <4>1 DEF OnItsWay
        <5>3. answer.op = "read_override" => waitingFor = "read_override"
          BY DEF FlowInv
        <5>4. answer.op = "read_override" /\ answer.ok => Says(working, shown)'
          BY <1>2, <3>1, <4>2, <4>3, <5>2, <5>3 DEF OnItsWay, Says
        <5> QED  BY <1>1, <2>1, <3>3, <4>4, <5>1, <5>2, <5>4 DEF OnItsWay
      <4> QED  BY <4>5, <4>6
    <3> QED  BY <3>4, <3>5, <3>6
  <2> QED  BY <1>1, <2>2 DEF DeliverInv
<1> QED  BY <1>5, <1>6 DEF RunJob

LEMMA DeliverPolls == ASSUME FlowInv, DeliverInv, PollerStep PROVE DeliverInv'
<1>1. PICK a \in {answer, Failed} :
        PreferencesLoaded(a) \/ PreferencesSaved(a) \/ PreferencesRead(a) \/ FlagsLoaded(a) \/ FlagsSaved(a)
  BY DEF PollerStep
<1>2. UNCHANGED <<general, override, working, saved, overtaken, late>> /\ Exact' = Exact
  BY <1>1 DEF PreferencesLoaded, PreferencesSaved, PreferencesRead, FlagsLoaded, FlagsSaved,
              clientVars, prefsVars, watchedVars, Exact, Group
<1>3. a = answer \/ ~a.ok
  BY DEF Failed, NoAnswer
<1>4. \A shown : (Says(override, shown) => Says(override, shown)') /\ (Says(working, shown) => Says(working, shown)')
  BY <1>2 DEF Says
<1>5. ASSUME Settled(a)
      PROVE  /\ ~running'.sub \/ UNCHANGED running
             /\ \A k \in 1..Len(jobs') : k \in 1..Len(jobs) /\ (~jobs'[k].sub \/ jobs'[k] = jobs[k])
  <2>1. GoodJob(running) /\ \A k \in 1..Len(jobs) : GoodJob(jobs[k])
    BY DEF FlowInv
  <2>2. \A job : GoodJob(job) => ~[job EXCEPT !.sub = FALSE].sub
    BY DEF GoodJob, JobFields
  <2>3. /\ Len(jobs') = Len(jobs)
        /\ \A k \in 1..Len(jobs) :
             jobs'[k] = jobs[k] \/ jobs'[k] = [jobs[k] EXCEPT !.sub = FALSE]
        /\ running' = running \/ running' = [running EXCEPT !.sub = FALSE]
    BY <1>5, SettledJobs
  <2> QED  BY <2>1, <2>2, <2>3
<1>6. ASSUME Settled(a), NEW shown, OnItsWay(shown)
      PROVE  /\ running'.sub /\ running'.op = "set_override" => Says(running.node, shown)'
             /\ \A k \in 1..Len(jobs') :
                  jobs'[k].sub /\ jobs'[k].op = "set_override" => Says(jobs[k].node, shown)'
  BY <1>2, <1>5, <1>6 DEF OnItsWay, Says
<1>7. CASE Settled(a) /\ Done /\ delivered' = delivered
  <2>1. waitingFor' = "none" /\ answer'.op = "none"
    BY <1>7 DEF Done, NoAnswer
  <2>2. ASSUME NEW shown, OnItsWay(shown) PROVE OnItsWay(shown)'
    <3>1. delivered' => Says(override, shown)' /\ Says(working, shown)'
      BY <1>4, <1>7, <2>2 DEF OnItsWay
    <3> QED  BY <1>6, <1>7, <2>1, <2>2, <3>1 DEF OnItsWay
  <2> QED  BY <1>2, <2>1, <2>2 DEF DeliverInv
<1>8. CASE PreferencesSaved(a) /\ a.ok /\ a = answer
  <2>1. answer.op = "set_override" /\ answer.ok /\ Subscribe(Job("read_override")) /\ delivered' = delivered
    BY <1>8 DEF PreferencesSaved
  <2>2. waitingFor' = "read_override" /\ answer'.op = "none" /\ running' = running
    BY <2>1 DEF Subscribe, Job, NoAnswer
  <2>3. waitingFor = "set_override" /\ ~delivered
    BY <2>1 DEF FlowInv, DeliverInv
  <2>4. PICK job : job = Job("read_override")
    OBVIOUS
  <2>5. job.op = "read_override"
    BY <2>4 DEF Job
  <2>6. ~running.sub /\ \A k \in 1..Len(jobs) : ~jobs[k].sub
    BY <2>1, NobodySubscribed
  <2>7. \A k \in 1..Len(jobs') : jobs'[k].op = "set_override" => ~jobs'[k].sub
    <3>1. \A k \in 1..Len(jobs') :
            \/ k = 1 /\ jobs'[k] = job
            \/ k # 1 /\ \E j \in 1..Len(jobs) : jobs'[k] = jobs[j]
      BY <2>1, <2>4, JobsInFront DEF Subscribe
    <3> QED  BY <2>5, <2>6, <3>1
  <2>8. ASSUME NEW shown, OnItsWay(shown) PROVE OnItsWay(shown)'
    <3>1. Says(override, shown)'
      BY <1>4, <2>1, <2>8 DEF OnItsWay
    <3> QED  BY <2>1, <2>2, <2>3, <2>6, <2>7, <3>1 DEF OnItsWay
  <2> QED  BY <1>2, <2>1, <2>3, <2>8 DEF DeliverInv
<1>9. CASE PreferencesRead(a)
  <2>1. waitingFor' = "none" /\ answer'.op = "none" /\ delivered' = a.ok /\ Settled(a)
    BY <1>9 DEF PreferencesRead, Done, NoAnswer
  <2>2. ASSUME NEW shown, OnItsWay(shown) PROVE OnItsWay(shown)'
    <3>1. a.ok => answer.op = "read_override" /\ answer.ok /\ waitingFor = "read_override"
      BY <1>3, <1>9 DEF PreferencesRead, FlowInv
    <3>2. a.ok => Says(override, shown)' /\ Says(working, shown)'
      BY <1>4, <2>2, <3>1 DEF OnItsWay
    <3> QED  BY <1>6, <2>1, <2>2, <3>2 DEF OnItsWay
  <2> QED  BY <1>2, <2>1, <2>2 DEF DeliverInv
<1>10. \/ Settled(a) /\ Done /\ delivered' = delivered
       \/ PreferencesSaved(a) /\ a.ok /\ a = answer
       \/ PreferencesRead(a)
  BY <1>1 DEF PreferencesLoaded, PreferencesSaved, PreferencesRead, FlagsLoaded, FlagsSaved
<1> QED  BY <1>7, <1>8, <1>9, <1>10

LEMMA DeliverPreserved == FlowInv /\ DeliverInv /\ [SettingsNext]_settingsVars => DeliverInv'
<1> SUFFICES ASSUME FlowInv, DeliverInv, [SettingsNext]_settingsVars PROVE DeliverInv'
  OBVIOUS
<1>1. ASSUME NEW op \in WritesConfig, SaveFlags(op) PROVE DeliverInv'
  <2>1. PICK job : job = ConfigJob(op)
    OBVIOUS
  <2>2. Subscribe(job) /\ job.op \notin {"set_override", "read_override"}
    BY <1>1, <2>1 DEF SaveFlags, ConfigJob, Job, WritesConfig
  <2> QED  BY <1>1, <2>2, DeliverSubscribes DEF SaveFlags, clientVars, prefsVars, watchedVars
<1>2. ASSUME ShowPreferences \/ ShowEventLogOptions PROVE DeliverInv'
  <2>1. PICK op \in {"get_working", "get_cc"} : Subscribe(Job(op))
    BY <1>2 DEF ShowPreferences, ShowEventLogOptions
  <2>2. Job(op).op \notin {"set_override", "read_override"}
    BY DEF Job
  <2>3. UNCHANGED <<general, override, working, saved, delivered, overtaken, late>>
    BY <1>2 DEF ShowPreferences, ShowEventLogOptions, clientVars, prefsVars, watchedVars
  <2> QED  BY <2>1, <2>2, <2>3, DeliverSubscribes
<1>3. ASSUME OtherStep PROVE DeliverInv'
  <2>1. CASE saved' = {} /\ delivered' = FALSE
    BY <2>1 DEF DeliverInv
  <2>2. CASE UNCHANGED <<general, override, working, flowVars, saved, delivered, watchedVars>>
    BY <2>2, DeliverStays DEF watchedVars
  <2> QED  BY <1>3, <2>1, <2>2 DEF OtherStep, OtherSetsPreference, OtherSetsConfig, prefsVars
<1>4. ASSUME Edit \/ ToggleFlag \/ CloseDialog \/ UNCHANGED settingsVars PROVE DeliverInv'
  BY <1>4, DeliverStays DEF Edit, ToggleFlag, CloseDialog, settingsVars, clientVars, prefsVars, watchedVars
<1>5. ASSUME AnswerComesLate PROVE DeliverInv'
  BY <1>5, DeliverStays DEF AnswerComesLate, clientVars, prefsVars
<1> QED  BY <1>1, <1>2, <1>3, <1>4, <1>5, DeliverSaves, DeliverTakes, DeliverRuns, DeliverPolls
         DEF SettingsNext, UserStep

SettingsInv == FlowInv /\ DeliverInv

THEOREM SettingsInvariant == SettingsSpec => []SettingsInv
<1>1. SettingsInit => SettingsInv
  <2>1. SettingsInit => DeliverInv
    BY DEF SettingsInit, DeliverInv
  <2> QED  BY <2>1, FlowInitially DEF SettingsInv
<1>2. SettingsInv /\ [SettingsNext]_settingsVars => SettingsInv'
  BY FlowPreserved, DeliverPreserved DEF SettingsInv
<1> QED  BY <1>1, <1>2, PTL DEF SettingsSpec

\* What the user saw when the preferences were saved is what the client works with once it
\* has read them, for any preferences and any number of dialogs, commands and failures, as
\* long as no older save overtakes the last one and no answer is out of step.
THEOREM SavedIsDelivered == SettingsSpec => []DeliveredAsShown
<1>1. SettingsInv => DeliveredAsShown
  <2> SUFFICES ASSUME SettingsInv, delivered, ~overtaken, ~late, NEW shown \in saved,
                      NEW f \in Group \ (Weekdays \cup Times \cup {"daily_xfer_period_days"})
               PROVE  IF f \in DOMAIN shown THEN working[f] = shown[f]
                      ELSE f \in AlwaysMapped => working[f] = 0
    BY DEF DeliveredAsShown
  <2>1. Says(working, shown)
    BY DEF SettingsInv, DeliverInv, OnItsWay
  <2> QED  BY <2>1 DEF Says, Exact
<1> QED  BY <1>1, SettingsInvariant, PTL

\* An answer reaches a dialog that was deleted only if the user has closed it while it waited.
THEOREM DialogsOutliveTheirAnswers == SettingsSpec => []DialogOutlivesItsAnswers
<1>1. SettingsInv => DialogOutlivesItsAnswers
  BY DEF SettingsInv, FlowInv, DialogOutlivesItsAnswers
<1> QED  BY <1>1, SettingsInvariant, PTL

\* An option that woinc does not know is overwritten by saving the log flags only if it was
\* changed between the two halves of SetCCConfig, or an answer is out of step.
THEOREM SavingKeepsUnreadOptions == SettingsSpec => UnreadOptionsSurvive
<1>1. FlowInv /\ [SettingsNext]_settingsVars
        => [others' = others /\ cc'.unread # cc.unread /\ ~late =>
              running.hasRead /\ running.read.unread # cc.unread]_settingsVars
  <2> SUFFICES ASSUME FlowInv, [SettingsNext]_settingsVars, others' = others, cc'.unread # cc.unread
               PROVE  running.hasRead /\ running.read.unread # cc.unread
    OBVIOUS
  <2>1. PICK ok \in BOOLEAN, reached \in BOOLEAN : RunJob(ok, reached)
    <3>1. ~UNCHANGED cc
      OBVIOUS
    <3>2. ~OtherStep
      <4> SUFFICES ASSUME OtherStep PROVE FALSE
        OBVIOUS
      <4>1. others < MaxOthers /\ others' = others + 1
        BY DEF OtherStep, OtherSetsPreference, OtherSetsConfig
      <4> QED  BY <4>1
    <3>3. ~UserStep /\ ~PollerStep /\ ~TakeJob /\ ~AnswerComesLate /\ ~UNCHANGED settingsVars
      BY <3>1 DEF UserStep, ShowPreferences, Edit, SavePreferences, ShowEventLogOptions, ToggleFlag,
                  SaveFlags, CloseDialog, PollerStep, PreferencesLoaded, PreferencesSaved,
                  PreferencesRead, FlagsLoaded, FlagsSaved, TakeJob, AnswerComesLate,
                  settingsVars, clientVars
    <3> QED  BY <3>2, <3>3 DEF SettingsNext
  <2>2. "unread" \in DOMAIN running.read
    BY DEF FlowInv, GoodJob
  <2>3. /\ running.op \in WritesConfig => running.hasRead \/ ~reached
        /\ running.op \in WritesConfig /\ reached /\ cc' = Config(running.read, running.conf)
    BY <2>1 DEF RunJob
  <2>4. cc'.unread = running.read.unread
    BY <2>2, <2>3 DEF Config
  <2> QED  BY <2>3, <2>4
<1> QED  BY <1>1, SettingsInvariant, PTL DEF SettingsInv, SettingsSpec, UnreadOptionsSurvive

(***************************************************************************)
(* AddProjectWizard: one thing is under way at a time, as long as nobody   *)
(* goes back while an answer is on its way.                                *)
(***************************************************************************)

RequestFields == {"op", "url", "key", "status", "waiting", "result"}

\* The client's lookup is the last one, and its answers are those to the requests.
Straight == ~replaced /\ ~outOfStep

\* What was run is waited for.  The key a project is attached with is its own.
GoodRequest(r) ==
  /\ DOMAIN r = RequestFields
  /\ r.op \in {"list"} \cup ConfigOps \cup AttachOps
  /\ r.waiting \in BOOLEAN
  /\ ~r.waiting => r.status # "run"
  /\ Straight /\ r.op = "attach" => r.url = r.key

\* Only the last request is waited for.
RequestsInv ==
  /\ \E S : requests \in Seq(S)
  /\ \A k \in 1..Len(requests) :
       GoodRequest(requests[k]) /\ (requests[k].waiting => k = Len(requests))
  /\ Straight => \A a \in attached : a[1] = a[2]

\* What the pages keep; the last one was reached by attaching unless Commit was pressed.
PagesInv ==
  /\ page \in {"choose", "account", "attach", "done"}
  /\ rushed \in BOOLEAN /\ formShown \in BOOLEAN
  /\ ~formShown => login = "none"
  /\ page = "choose" => ~formShown
  /\ page # "choose" => "account" \in linked
  /\ page \in {"attach", "done"} => "attach" \in linked /\ formShown /\ target = url
  /\ page = "done" => rushed \/ (Straight => <<url, url>> \in attached)

\* The page that shows the progress of what is under way.
At(p) ==
  \/ p = "choose" /\ page = "choose" /\ url = NoUrl /\ list = "loading"
  \/ p = "account" /\ page = "account" /\ ~formShown
  \/ p = "attach" /\ (page = "attach" \/ (page = "done" /\ rushed))

NobodyWaits == \A k \in 1..Len(requests) : ~requests[k].waiting
Quiet == timers = {} /\ boxes = <<>> /\ events = <<>>

\* The client has looked up the project of the page, and the page's project is attached.
LookedUp == Straight => lookup = target
Attached == Straight => <<target, target>> \in attached

\* The answer to a request is about the project of the page.
RightAnswer(r) ==
  LET good == r.status = "run" /\ r.result = "ok" IN
  /\ r.op = "start_lookup" => r.url = target /\ (good => LookedUp)
  /\ r.op = "poll_lookup" => LookedUp /\ (Straight /\ good => r.key = target)
  /\ r.op = "attach" => r.url = target /\ (good => Attached)

RequestPage(op) == IF op = "list" THEN "choose" ELSE PageOf(op)

Resting ==
  /\ NobodyWaits /\ Quiet
  /\ page = "account" => formShown
  /\ page = "attach" => rushed

Asking ==
  /\ Len(requests) > 0 /\ requests[Len(requests)].waiting /\ Quiet
  /\ At(RequestPage(requests[Len(requests)].op))
  /\ RightAnswer(requests[Len(requests)])

Timing(p) ==
  /\ NobodyWaits /\ timers = {p} /\ boxes = <<>> /\ events = <<>>
  /\ At(p)
  /\ p = "attach" => LookedUp

Erring(p) ==
  /\ NobodyWaits /\ timers = {} /\ boxes = <<p>> /\ events = <<>>
  /\ At(p)

Moving(e) ==
  /\ NobodyWaits /\ timers = {} /\ boxes = <<>> /\ events = <<e>>
  /\ \/ e[1] = "lookup" /\ At("attach")
     \/ e[1] = "attach" /\ At("attach") /\ (Straight => e[2] = target)
     \/ e[1] = "next" /\ At("attach") /\ Attached
     \/ e[1] = "back" /\ (At("account") \/ At("attach"))

UnderWay ==
  \/ Resting
  \/ Asking
  \/ \E p \in {"account", "attach"} : Timing(p)
  \/ \E p \in {"choose", "account", "attach"} : Erring(p)
  \/ \E e : Moving(e)

PatientInv ==
  /\ RequestsInv
  /\ \/ page = "closed" /\ boxes = <<>> /\ events = <<>>
     \/ PagesInv /\ UnderWay

WizardInv == hasty = {} => PatientInv

LEMMA WizardInitially == WizardInit => WizardInv
<1> SUFFICES ASSUME WizardInit PROVE PatientInv
  BY DEF WizardInv
<1>1. PICK r : r = Request("list", NoUrl, NoUrl)
  OBVIOUS
<1>2. /\ DOMAIN r = RequestFields /\ r.op = "list" /\ r.status = "queued" /\ r.waiting = TRUE
  BY <1>1 DEF Request, RequestFields
<1>3. requests = <<r>> /\ requests \in Seq({r}) /\ Len(requests) = 1 /\ requests[1] = r
  BY <1>1 DEF WizardInit
<1>4. RequestsInv
  <2>1. attached = {}
    BY DEF WizardInit
  <2>2. ASSUME NEW k \in 1..Len(requests) PROVE GoodRequest(requests[k]) /\ k = Len(requests)
    <3>1. k = 1 /\ requests[k] = r
      BY <1>3
    <3> QED  BY <1>2, <1>3, <3>1 DEF GoodRequest
  <2> QED  BY <1>3, <2>1, <2>2 DEF RequestsInv
<1>5. Asking
  BY <1>2, <1>3 DEF Asking, Quiet, At, RequestPage, RightAnswer, WizardInit
<1>6. PagesInv
  BY DEF PagesInv, WizardInit
<1> QED  BY <1>4, <1>5, <1>6 DEF PatientInv, UnderWay

LEMMA HastyStays == ASSUME [WizardNext]_wizardVars, hasty' = {} PROVE hasty = {}
BY DEF WizardNext, wizardVars, watched, ChooseUrl, TypeLogin, PressNext, PressCommit, PressBack,
       CloseWizard, ConfirmError, MovePage, AskForTarget, TimerFires, TakeRequest, RunRequest,
       FallsOutOfStep, Answered,
       Forward, Backward, EnterAccount, EnterAttach, EnterDone, LeaveAccount, LeaveAttach, LeaveDone

LEMMA Alone ==
  ASSUME NEW e
  PROVE  /\ Append(<<>>, e) = <<e>> /\ <<e>> \o <<>> = <<e>>
         /\ Head(<<e>>) = e /\ Tail(<<e>>) = <<>> /\ <<e>> # <<>>
<1>1. <<e>> \in Seq({e}) /\ <<>> \in Seq({e}) /\ e \in {e}
  OBVIOUS
<1>2. <<e>> \o <<>> = <<e>>
  BY <1>1, ConcatEmptySeq
<1> QED  BY <1>1, <1>2

\* A request is made while no other is waited for.
LEMMA RequestJoins ==
  ASSUME RequestsInv, NobodyWaits, NEW op \in {"list"} \cup ConfigOps \cup AttachOps, NEW u, NEW key,
         Straight /\ op = "attach" => u = key,
         requests' = Append(requests, Request(op, u, key)), UNCHANGED attached, Straight' = Straight
  PROVE  /\ RequestsInv'
         /\ Len(requests') > 0 /\ requests'[Len(requests')] = Request(op, u, key)
<1>1. PICK S : requests \in Seq(S)
  BY DEF RequestsInv
<1>2. PICK r : r = Request(op, u, key)
  OBVIOUS
<1>3. requests \in Seq(S \cup {r}) /\ r \in S \cup {r}
  BY <1>1, SeqMonotonic
<1>4. /\ requests' \in Seq(S \cup {r}) /\ Len(requests') = Len(requests) + 1
      /\ \A k \in 1..Len(requests) : requests'[k] = requests[k]
      /\ requests'[Len(requests) + 1] = r
  BY <1>2, <1>3, AppendProperties
<1>5. Len(requests) \in Nat
  BY <1>1, LenProperties
<1>6. /\ DOMAIN r = RequestFields /\ r.op = op /\ r.status = "queued" /\ r.waiting = TRUE
      /\ r.url = u /\ r.key = key
  BY <1>2 DEF Request, RequestFields
<1>7. ASSUME NEW k \in 1..Len(requests')
      PROVE  GoodRequest(requests[k])' /\ (requests'[k].waiting => k = Len(requests'))
  <2>1. CASE k = Len(requests) + 1
    BY <1>4, <1>6, <2>1 DEF GoodRequest
  <2>2. CASE k # Len(requests) + 1
    <3>1. k \in 1..Len(requests)
      BY <1>4, <1>5, <2>2
    <3>2. requests'[k] = requests[k] /\ ~requests[k].waiting /\ GoodRequest(requests[k])
      BY <1>4, <3>1 DEF NobodyWaits, RequestsInv
    <3> QED  BY <3>1, <3>2 DEF GoodRequest
  <2> QED  BY <2>1, <2>2
<1>8. RequestsInv'
  BY <1>4, <1>7 DEF RequestsInv
<1> QED  BY <1>2, <1>4, <1>5, <1>8

\* A sequence without one of its elements.
LEMMA KeptRequests ==
  ASSUME NEW S, NEW rs \in Seq(S), NEW k \in 1..Len(rs)
  PROVE  /\ Kept(rs, k) \in Seq(S) /\ Len(rs) \in Nat
         /\ IF rs[k].status = "run" /\ ~rs[k].waiting
            THEN /\ Len(Kept(rs, k)) = Len(rs) - 1
                 /\ \A j \in 1..(Len(rs) - 1) :
                      Kept(rs, k)[j] = IF j < k THEN rs[j] ELSE rs[j + 1]
            ELSE Kept(rs, k) = rs
<1>1. PICK n : n = Len(rs)
  OBVIOUS
<1>2. n \in Nat /\ n - 1 \in Nat
  BY <1>1, LenProperties
<1>3. PICK f : f = [j \in 1..(n - 1) |-> IF j < k THEN rs[j] ELSE rs[j + 1]]
  OBVIOUS
<1>4. ASSUME NEW j \in 1..(n - 1) PROVE (IF j < k THEN rs[j] ELSE rs[j + 1]) \in S
  <2>1. j \in 1..n /\ j + 1 \in 1..n
    BY <1>2
  <2>2. rs[j] \in S /\ rs[j + 1] \in S
    BY <1>1, <2>1, ElementOfSeq
  <2> QED  BY <2>2
<1>5. f \in [1..(n - 1) -> S]
  BY <1>3, <1>4
<1>6. f \in Seq(S) /\ Len(f) = n - 1
  BY <1>2, <1>5, FunctionSeq
<1>7. Kept(rs, k) = IF rs[k].status = "run" /\ ~rs[k].waiting THEN f ELSE rs
  BY <1>1, <1>3 DEF Kept
<1> QED  BY <1>1, <1>2, <1>3, <1>6, <1>7

\* A request is replaced by one that differs in what became of it.
LEMMA RequestChanges ==
  ASSUME RequestsInv, NEW k \in 1..Len(requests), NEW new,
         requests' = Kept([requests EXCEPT ![k] = new], k),
         DOMAIN new = RequestFields, new.op = requests[k].op, new.url = requests[k].url,
         new.op = "attach" => new.key = requests[k].key,
         new.waiting \in BOOLEAN, new.waiting => requests[k].waiting,
         Straight' => Straight, Straight' => \A a \in attached' : a[1] = a[2]
  PROVE  /\ RequestsInv' /\ Len(requests) \in Nat \ {0} /\ Len(requests') \in Nat
         /\ \/ /\ new.status = "run" /\ ~new.waiting
               /\ Len(requests') = Len(requests) - 1
               /\ \A j \in 1..Len(requests') :
                    requests'[j] = IF j < k THEN requests[j] ELSE requests[j + 1]
            \/ /\ ~(new.status = "run" /\ ~new.waiting)
               /\ Len(requests') = Len(requests) /\ requests'[k] = new
               /\ \A j \in 1..Len(requests') : j # k => requests'[j] = requests[j]
<1>1. PICK S : requests \in Seq(S)
  BY DEF RequestsInv
<1>2. PICK n \in Nat : n = Len(requests)
  BY <1>1, LenProperties
<1>3. PICK rs : rs = [requests EXCEPT ![k] = new]
  OBVIOUS
<1>4. /\ rs \in Seq(S \cup {new}) /\ Len(rs) = n /\ rs[k] = new
      /\ \A j \in 1..n : j # k => rs[j] = requests[j]
  <2>1. requests \in Seq(S \cup {new}) /\ new \in S \cup {new}
    BY <1>1, SeqMonotonic
  <2> QED  BY <1>2, <1>3, <2>1, ExceptSeq
<1>5. \A j \in 1..n : GoodRequest(requests[j]) /\ (requests[j].waiting => j = n)
  BY <1>2 DEF RequestsInv
<1>6. k \in 1..n /\ n # 0
  BY <1>2
<1>7. ASSUME NEW r, GoodRequest(r)
      PROVE  /\ DOMAIN r = RequestFields
             /\ r.op \in {"list"} \cup ConfigOps \cup AttachOps
             /\ r.waiting \in BOOLEAN
             /\ ~r.waiting => r.status # "run"
             /\ Straight' /\ r.op = "attach" => r.url = r.key
  BY <1>7 DEF GoodRequest
<1>8. /\ requests' \in Seq(S \cup {new})
      /\ IF rs[k].status = "run" /\ ~rs[k].waiting
         THEN /\ Len(requests') = Len(rs) - 1
              /\ \A j \in 1..(Len(rs) - 1) : requests'[j] = IF j < k THEN rs[j] ELSE rs[j + 1]
         ELSE requests' = rs
  <2>1. PICK T : T = S \cup {new}
    OBVIOUS
  <2>2. rs \in Seq(T) /\ k \in 1..Len(rs)
    BY <1>4, <1>6, <2>1
  <2>3. requests' = Kept(rs, k)
    BY <1>3
  <2> QED  BY <2>1, <2>2, <2>3, KeptRequests
<1>9. CASE new.status = "run" /\ ~new.waiting
  <2>1. /\ requests' \in Seq(S \cup {new}) /\ Len(requests') = n - 1
        /\ \A j \in 1..(n - 1) : requests'[j] = IF j < k THEN rs[j] ELSE rs[j + 1]
    <3>1. rs[k].status = "run" /\ ~rs[k].waiting
      BY <1>4, <1>9
    <3> QED  BY <1>4, <1>8, <3>1
  <2>2. ASSUME NEW j \in 1..(n - 1)
        PROVE  requests'[j] = IF j < k THEN requests[j] ELSE requests[j + 1]
    <3>1. j \in 1..n /\ j + 1 \in 1..n
      BY <1>6
    <3>2. j < k => j # k
      BY <1>6
    <3>3. ~(j < k) => j + 1 # k
      BY <1>6
    <3> QED  BY <1>4, <2>1, <3>1, <3>2, <3>3
  <2>3. ASSUME NEW j \in 1..(n - 1)
        PROVE  GoodRequest(requests[j])' /\ (requests'[j].waiting => j = n - 1)
    <3>1. PICK i \in 1..n : requests'[j] = requests[i] /\ (i = j \/ i = j + 1) /\ (i = j => j < k)
      <4>1. j \in 1..n /\ j + 1 \in 1..n
        BY <1>6
      <4>2. CASE j < k
        <5>1. requests'[j] = requests[j]
          BY <2>2, <4>2
        <5> QED  BY <4>1, <4>2, <5>1
      <4>3. CASE ~(j < k)
        <5>1. requests'[j] = requests[j + 1]
          BY <2>2, <4>3
        <5>2. j + 1 # j
          BY <4>1
        <5> QED  BY <4>1, <5>1, <5>2
      <4> QED  BY <4>2, <4>3
    <3>2. GoodRequest(requests[i]) /\ (requests[i].waiting => i = n)
      BY <1>5
    <3>3. i = n => j = n - 1
      BY <1>6, <3>1
    <3> QED  BY <1>7, <3>1, <3>2, <3>3 DEF GoodRequest
  <2>4. RequestsInv'
    BY <2>1, <2>3 DEF RequestsInv
  <2>5. Len(requests) \in Nat \ {0} /\ Len(requests') \in Nat /\ Len(requests') = Len(requests) - 1
    BY <1>2, <1>6, <2>1
  <2>6. ASSUME NEW j \in 1..Len(requests')
        PROVE  requests'[j] = IF j < k THEN requests[j] ELSE requests[j + 1]
    <3>1. j \in 1..(n - 1)
      BY <2>1
    <3> QED  BY <2>2, <3>1
  <2> QED  BY <1>9, <2>4, <2>5, <2>6
<1>10. CASE ~(new.status = "run" /\ ~new.waiting)
  <2>1. requests' = rs
    <3>1. ~(rs[k].status = "run" /\ ~rs[k].waiting)
      BY <1>4, <1>10
    <3> QED  BY <1>8, <3>1
  <2>2. ASSUME NEW j \in 1..n
        PROVE  GoodRequest(requests[j])' /\ (requests'[j].waiting => j = n)
    <3>1. GoodRequest(requests[j]) /\ (requests[j].waiting => j = n)
      BY <1>5
    <3>2. CASE j = k
      <4>1. requests'[j] = new
        BY <1>4, <2>1, <3>2
      <4> QED  BY <1>7, <1>10, <3>1, <3>2, <4>1 DEF GoodRequest
    <3>3. CASE j # k
      <4>1. requests'[j] = requests[j]
        BY <1>4, <2>1, <3>3
      <4> QED  BY <1>7, <3>1, <4>1 DEF GoodRequest
    <3> QED  BY <3>2, <3>3
  <2>3. RequestsInv'
    BY <1>4, <2>1, <2>2 DEF RequestsInv
  <2> QED  BY <1>2, <1>4, <1>6, <1>10, <2>1, <2>3
<1> QED  BY <1>9, <1>10

\* Nothing that matters changes, or the answers fall out of step.
LEMMA PatientStays ==
  ASSUME PatientInv, Straight' => Straight,
         UNCHANGED <<page, url, login, list, formShown, timers, linked, target>>,
         UNCHANGED <<requests, boxes, events, lookup, attached, rushed>>
  PROVE  PatientInv'
<1>1. RequestsInv'
  BY DEF PatientInv, RequestsInv, GoodRequest
<1>2. PagesInv => PagesInv'
  BY DEF PagesInv
<1>3. UnderWay => UnderWay'
  <2>1. (\A p : At(p) => At(p)') /\ (NobodyWaits => NobodyWaits') /\ (LookedUp => LookedUp')
        /\ (Attached => Attached') /\ (Quiet => Quiet')
    BY DEF At, NobodyWaits, LookedUp, Attached, Quiet
  <2>2. \A r : RightAnswer(r) => RightAnswer(r)'
    BY <2>1 DEF RightAnswer
  <2>3. Resting => Resting'
    BY <2>1 DEF Resting
  <2>4. Asking => Asking'
    BY <2>1, <2>2 DEF Asking
  <2>5. \A p : (Timing(p) => Timing(p)') /\ (Erring(p) => Erring(p)')
    BY <2>1 DEF Timing, Erring
  <2>6. \A e : Moving(e) => Moving(e)'
    BY <2>1 DEF Moving
  <2> QED  BY <2>3, <2>4, <2>5, <2>6 DEF UnderWay
<1> QED  BY <1>1, <1>2, <1>3 DEF PatientInv

\* The worker takes a request.
LEMMA Takes == ASSUME PatientInv, TakeRequest PROVE PatientInv'
<1>1. PICK S : requests \in Seq(S)
  BY DEF PatientInv, RequestsInv
<1>2. DOMAIN requests = 1..Len(requests) /\ Len(requests) \in Nat
  BY <1>1, LenProperties
<1>3. PICK k \in 1..Len(requests) :
        requests[k].status = "queued" /\ requests' = [requests EXCEPT ![k].status = "running"]
  BY <1>2 DEF TakeRequest
<1>4. /\ UNCHANGED <<page, url, login, list, formShown, timers, linked, target>>
      /\ UNCHANGED <<boxes, events, lookup, attached, rushed>> /\ Straight' = Straight
  BY DEF TakeRequest, fields, pageVars, clientOfWizard, watched, mishaps, Straight
<1>5. PICK r : r = requests[k]
  OBVIOUS
<1>6. GoodRequest(r)
  BY <1>5 DEF PatientInv, RequestsInv
<1>7. PICK new : new = [r EXCEPT !.status = "running"]
  OBVIOUS
<1>8. /\ DOMAIN new = RequestFields /\ new.op = r.op /\ new.status = "running"
      /\ new.waiting = r.waiting /\ new.url = r.url /\ new.key = r.key
  BY <1>6, <1>7 DEF GoodRequest, RequestFields
<1>9. requests' = [requests EXCEPT ![k] = new]
  BY <1>3, <1>5, <1>7
<1>10. requests' = Kept([requests EXCEPT ![k] = new], k)
  <2>1. requests \in Seq(S \cup {new}) /\ new \in S \cup {new}
    BY <1>1, SeqMonotonic
  <2>2. [requests EXCEPT ![k] = new] \in Seq(S \cup {new}) /\ Len([requests EXCEPT ![k] = new]) = Len(requests)
        /\ [requests EXCEPT ![k] = new][k] = new
    BY <2>1, ExceptSeq
  <2> QED  BY <1>8, <1>9, <2>2 DEF Kept
<1>11. /\ RequestsInv' /\ Len(requests') = Len(requests) /\ requests'[k] = new
       /\ \A j \in 1..Len(requests') : j # k => requests'[j] = requests[j]
  <2>1. new.waiting \in BOOLEAN
    BY <1>6, <1>8 DEF GoodRequest
  <2>2. RequestsInv /\ (Straight' => \A a \in attached' : a[1] = a[2])
    BY <1>4 DEF PatientInv, RequestsInv
  <2> QED  BY <1>4, <1>5, <1>8, <1>10, <2>1, <2>2, RequestChanges
<1>12. \A j \in 1..Len(requests') :
         /\ requests'[j].waiting = requests[j].waiting /\ requests'[j].op = requests[j].op
         /\ RightAnswer(requests[j]) => RightAnswer(requests[j])'
  <2>1. ASSUME NEW j \in 1..Len(requests')
        PROVE  /\ requests'[j].waiting = requests[j].waiting /\ requests'[j].op = requests[j].op
               /\ RightAnswer(requests[j]) => RightAnswer(requests[j])'
    <3>1. LookedUp' = LookedUp /\ Attached' = Attached
      BY <1>4 DEF LookedUp, Attached
    <3>2. CASE j = k
      BY <1>4, <1>5, <1>8, <1>11, <3>1, <3>2 DEF RightAnswer
    <3>3. CASE j # k
      <4>1. requests'[j] = requests[j]
        BY <1>11, <3>3
      <4> QED  BY <1>4, <3>1, <4>1 DEF RightAnswer
    <3> QED  BY <3>2, <3>3
  <2> QED  BY <2>1
<1>13. PagesInv => PagesInv'
  BY <1>4 DEF PagesInv
<1>14. /\ \A p : At(p) => At(p)'
       /\ NobodyWaits => NobodyWaits'
       /\ LookedUp => LookedUp'
       /\ Attached => Attached'
       /\ Quiet => Quiet'
  BY <1>4, <1>11, <1>12 DEF At, NobodyWaits, LookedUp, Attached, Quiet
<1>15. UnderWay => UnderWay'
  <2>1. Resting => Resting'
    BY <1>4, <1>14 DEF Resting
  <2>2. Asking => Asking'
    <3> SUFFICES ASSUME Asking PROVE Asking'
      OBVIOUS
    <3>1. Len(requests') > 0 /\ Len(requests') \in 1..Len(requests') /\ Len(requests') = Len(requests)
      BY <1>2, <1>11 DEF Asking
    <3> QED  BY <1>12, <1>14, <3>1 DEF Asking
  <2>3. \A p : (Timing(p) => Timing(p)') /\ (Erring(p) => Erring(p)')
    BY <1>4, <1>14 DEF Timing, Erring
  <2>4. \A e : Moving(e) => Moving(e)'
    BY <1>4, <1>14 DEF Moving
  <2> QED  BY <2>1, <2>2, <2>3, <2>4 DEF UnderWay
<1> QED  BY <1>4, <1>11, <1>13, <1>15 DEF PatientInv

\* The request that was taken is run.
LEMMA RunEffect ==
  ASSUME RequestsInv, NEW result, NEW reached \in BOOLEAN, RunRequest(result, reached)
  PROVE  \E k \in 1..Len(requests) :
         LET r == requests[k] IN
         /\ RequestsInv' /\ Len(requests) \in Nat \ {0} /\ Len(requests') \in Nat
         /\ r.status = "running" /\ GoodRequest(r)
         /\ result = "error" \/ outOfStep \/ reached
         /\ lookup' = IF r.op = "start_lookup" /\ reached THEN r.url ELSE lookup
         /\ attached' = IF r.op = "attach" /\ reached THEN attached \cup {<<r.url, r.key>>} ELSE attached
         /\ Straight' => Straight /\ ~(reached /\ Replaces(r))
         /\ \/ /\ ~r.waiting /\ Len(requests') = Len(requests) - 1
               /\ \A j \in 1..Len(requests') :
                    requests'[j] = IF j < k THEN requests[j] ELSE requests[j + 1]
            \/ /\ r.waiting /\ k = Len(requests) /\ Len(requests') = Len(requests)
               /\ requests'[k].op = r.op /\ requests'[k].waiting
               /\ requests'[k].url = r.url /\ requests'[k].result = result
               /\ requests'[k].key =
                    IF r.op = "poll_lookup" /\ result = "ok" THEN lookup ELSE r.key
<1>1. PICK S : requests \in Seq(S)
  BY DEF RequestsInv
<1>2. Len(requests) \in Nat /\ DOMAIN requests = 1..Len(requests)
  BY <1>1, LenProperties
<1>3. PICK k \in 1..Len(requests) :
        /\ requests[k].status = "running"
        /\ result # "error" /\ ~outOfStep => reached
        /\ LET r == requests[k] IN
           /\ requests' = Kept([requests EXCEPT ![k] =
                [r EXCEPT !.status = "run", !.result = result,
                          !.key = IF r.op = "poll_lookup" /\ result = "ok" THEN lookup ELSE @]], k)
           /\ lookup' = IF r.op = "start_lookup" /\ reached THEN r.url ELSE lookup
           /\ attached' = IF r.op = "attach" /\ reached
                          THEN attached \cup {<<r.url, r.key>>} ELSE attached
           /\ replaced' = (replaced \/ (reached /\ Replaces(r)))
  BY <1>2 DEF RunRequest
<1>4. PICK r : r = requests[k]
  OBVIOUS
<1>5. GoodRequest(r) /\ (r.waiting => k = Len(requests))
  BY <1>4 DEF RequestsInv
<1>6. PICK new : new = [r EXCEPT !.status = "run", !.result = result,
                        !.key = IF r.op = "poll_lookup" /\ result = "ok" THEN lookup ELSE @]
  OBVIOUS
<1>7. /\ DOMAIN new = RequestFields /\ new.op = r.op /\ new.status = "run" /\ new.waiting = r.waiting
      /\ new.url = r.url /\ new.result = result
      /\ new.key = IF r.op = "poll_lookup" /\ result = "ok" THEN lookup ELSE r.key
  <2>1. DOMAIN r = RequestFields
    BY <1>5 DEF GoodRequest
  <2> QED  BY <1>6, <2>1 DEF RequestFields
<1>8. /\ requests' = Kept([requests EXCEPT ![k] = new], k)
      /\ lookup' = IF r.op = "start_lookup" /\ reached THEN r.url ELSE lookup
      /\ attached' = IF r.op = "attach" /\ reached THEN attached \cup {<<r.url, r.key>>} ELSE attached
  BY <1>3, <1>4, <1>6
<1>9. Straight' => Straight /\ ~(reached /\ Replaces(r))
  <2>1. replaced' = (replaced \/ (reached /\ Replaces(r)))
    BY <1>3, <1>4
  <2>2. outOfStep' \in {outOfStep, outOfStep \/ (result = "error" /\ reached)}
    BY DEF RunRequest
  <2>3. ~outOfStep' => ~outOfStep
    BY <2>2
  <2> QED  BY <2>1, <2>3 DEF Straight
<1>10. Straight' => \A a \in attached' : a[1] = a[2]
  <2>1. Straight' => (r.op = "attach" => r.url = r.key) /\ \A a \in attached : a[1] = a[2]
    BY <1>5, <1>9 DEF GoodRequest, RequestsInv
  <2> QED  BY <1>8, <2>1
<1>11. new.waiting \in BOOLEAN /\ (new.op = "attach" => new.key = r.key)
  BY <1>5, <1>7 DEF GoodRequest
<1>12. /\ RequestsInv' /\ Len(requests) \in Nat \ {0} /\ Len(requests') \in Nat
       /\ \/ /\ new.status = "run" /\ ~new.waiting
             /\ Len(requests') = Len(requests) - 1
             /\ \A j \in 1..Len(requests') :
                  requests'[j] = IF j < k THEN requests[j] ELSE requests[j + 1]
          \/ /\ ~(new.status = "run" /\ ~new.waiting)
             /\ Len(requests') = Len(requests) /\ requests'[k] = new
  <2>1. /\ new.op = requests[k].op /\ new.url = requests[k].url /\ (new.waiting => requests[k].waiting)
        /\ new.op = "attach" => new.key = requests[k].key
    BY <1>4, <1>7, <1>11
  <2> QED  BY <1>7, <1>8, <1>9, <1>10, <1>11, <2>1, RequestChanges
<1>13. result = "error" \/ outOfStep \/ reached
  BY <1>3
<1>14. r.status = "running"
  BY <1>3, <1>4
<1>15. CASE ~r.waiting
  <2>1. /\ Len(requests') = Len(requests) - 1
        /\ \A j \in 1..Len(requests') :
             requests'[j] = IF j < k THEN requests[j] ELSE requests[j + 1]
    BY <1>7, <1>12, <1>15
  <2> QED  BY ONLY <1>4, <1>5, <1>8, <1>9, <1>12, <1>13, <1>14, <1>15, <2>1
<1>16. CASE r.waiting
  <2>1. /\ Len(requests') = Len(requests) /\ requests'[k] = new /\ k = Len(requests)
        /\ new.waiting
    BY <1>5, <1>7, <1>12, <1>16
  <2> QED  BY ONLY <1>4, <1>5, <1>7, <1>8, <1>9, <1>12, <1>13, <1>14, <1>16, <2>1
<1>17. r.waiting \in BOOLEAN
  BY <1>5 DEF GoodRequest
<1> QED  BY <1>15, <1>16, <1>17

LEMMA RunsOn ==
  ASSUME PatientInv, NEW result, NEW reached \in BOOLEAN, RunRequest(result, reached)
  PROVE  PatientInv'
<1>1. PICK k \in 1..Len(requests) :
         LET r == requests[k] IN
         /\ RequestsInv' /\ Len(requests) \in Nat \ {0} /\ Len(requests') \in Nat
         /\ r.status = "running" /\ GoodRequest(r)
         /\ result = "error" \/ outOfStep \/ reached
         /\ lookup' = IF r.op = "start_lookup" /\ reached THEN r.url ELSE lookup
         /\ attached' = IF r.op = "attach" /\ reached THEN attached \cup {<<r.url, r.key>>} ELSE attached
         /\ Straight' => Straight /\ ~(reached /\ Replaces(r))
         /\ \/ /\ ~r.waiting /\ Len(requests') = Len(requests) - 1
               /\ \A j \in 1..Len(requests') :
                    requests'[j] = IF j < k THEN requests[j] ELSE requests[j + 1]
            \/ /\ r.waiting /\ k = Len(requests) /\ Len(requests') = Len(requests)
               /\ requests'[k].op = r.op /\ requests'[k].waiting
               /\ requests'[k].url = r.url /\ requests'[k].result = result
               /\ requests'[k].key =
                    IF r.op = "poll_lookup" /\ result = "ok" THEN lookup ELSE r.key
  BY RunEffect DEF PatientInv
<1>2. PICK r : r = requests[k]
  OBVIOUS
<1>3. UNCHANGED <<page, url, login, list, formShown, timers, linked, target, boxes, events, rushed>>
  BY DEF RunRequest, fields, pageVars, watched
<1>4. attached \subseteq attached' /\ (Straight' => Straight /\ ~(reached /\ Replaces(r)))
  BY <1>1, <1>2
<1>5. PagesInv => PagesInv'
  BY <1>3, <1>4 DEF PagesInv
<1>6. (\A p : At(p) => At(p)') /\ (Attached => Attached')
  BY <1>3, <1>4 DEF At, Attached
<1>7. \E S : requests \in Seq(S)
  BY DEF PatientInv, RequestsInv
<1>8. DOMAIN requests = 1..Len(requests) /\ Len(requests) \in Nat
  BY <1>7, LenProperties
<1>9. ASSUME LookedUp, \A j \in 1..Len(requests) :
               requests[j].op = "start_lookup" /\ requests[j].waiting => requests[j].status = "run"
      PROVE  LookedUp'
  <2> SUFFICES ASSUME Straight' PROVE lookup' = target'
    BY DEF LookedUp
  <2>1. Straight /\ ~(reached /\ Replaces(r)) /\ lookup = target /\ target' = target
    BY <1>3, <1>4, <1>9 DEF LookedUp
  <2>2. r.status = "running" /\ k \in 1..Len(requests)
    BY <1>1, <1>2
  <2>3. r.op = "start_lookup" => ~r.waiting
    BY <1>2, <1>9, <2>2
  <2>4. ~(r.op = "start_lookup" /\ reached)
    BY <1>8, <1>9, <2>1, <2>3 DEF Replaces
  <2> QED  BY <1>1, <1>2, <2>1, <2>4
<1>10. ASSUME NobodyWaits PROVE NobodyWaits' /\ (LookedUp => LookedUp')
  <2>1. /\ Len(requests') = Len(requests) - 1
        /\ \A j \in 1..Len(requests') :
             requests'[j] = IF j < k THEN requests[j] ELSE requests[j + 1]
    BY <1>1, <1>10 DEF NobodyWaits
  <2>2. \A j \in 1..Len(requests') : j \in 1..Len(requests) /\ j + 1 \in 1..Len(requests)
    BY <1>1, <2>1
  <2>3. NobodyWaits'
    BY <1>10, <2>1, <2>2 DEF NobodyWaits
  <2> QED  BY <1>9, <1>10, <2>3 DEF NobodyWaits
<1>11. ASSUME Asking PROVE Asking'
  <2>1. PICK l : l = requests[Len(requests)]
    OBVIOUS
  <2>2. l.waiting /\ Quiet /\ At(RequestPage(l.op)) /\ RightAnswer(l)
    BY <1>11, <2>1 DEF Asking
  <2>3. Quiet'
    BY <1>3, <2>2 DEF Quiet
  <2>4. \A j \in 1..Len(requests) : requests[j].waiting => requests[j] = l
    BY <2>1 DEF PatientInv, RequestsInv
  <2>5. l.op # "start_lookup" \/ l.status = "run" => (LookedUp => LookedUp')
    BY <1>9, <2>4
  <2>6. CASE ~r.waiting
    <3>1. /\ Len(requests') = Len(requests) - 1
          /\ \A j \in 1..Len(requests') :
               requests'[j] = IF j < k THEN requests[j] ELSE requests[j + 1]
      BY <1>1, <1>2, <2>6
    <3>2. k # Len(requests)
      BY <1>2, <2>1, <2>2, <2>6
    <3>3. /\ Len(requests') > 0 /\ Len(requests') \in 1..Len(requests')
          /\ Len(requests') + 1 = Len(requests) /\ ~(Len(requests') < k)
      BY <1>1, <3>1, <3>2
    <3>4. requests'[Len(requests')] = l
      BY <2>1, <3>1, <3>3
    <3>5. RightAnswer(l)'
      BY <1>3, <1>4, <1>6, <2>2, <2>5 DEF RightAnswer
    <3> QED  BY <1>6, <2>2, <2>3, <3>3, <3>4, <3>5 DEF Asking
  <2>7. CASE r.waiting
    <3>1. /\ k = Len(requests) /\ Len(requests') = Len(requests) /\ l = r
          /\ requests'[k].op = r.op /\ requests'[k].waiting
          /\ requests'[k].url = r.url /\ requests'[k].result = result
          /\ requests'[k].key = IF r.op = "poll_lookup" /\ result = "ok" THEN lookup ELSE r.key
          /\ Len(requests') > 0
      BY <1>1, <1>2, <2>1, <2>7
    <3>2. RightAnswer(requests[k])'
      <4>1. ASSUME Straight', result = "ok" PROVE Straight /\ reached
        BY <1>1, <1>4, <4>1 DEF Straight
      <4>2. r.op = "start_lookup" => r.url = target /\ (result = "ok" => LookedUp')
        BY <1>1, <1>2, <1>3, <2>2, <3>1, <4>1 DEF RightAnswer, LookedUp
      <4>3. r.op = "poll_lookup" =>
              LookedUp' /\ (Straight' /\ result = "ok" => requests'[k].key = target)
        <5> SUFFICES ASSUME r.op = "poll_lookup"
                     PROVE  LookedUp' /\ (Straight' /\ result = "ok" => requests'[k].key = target)
          OBVIOUS
        <5>1. LookedUp /\ LookedUp'
          BY <2>2, <2>5, <3>1 DEF RightAnswer
        <5> QED  BY <3>1, <4>1, <5>1 DEF LookedUp
      <4>4. r.op = "attach" => r.url = target /\ (result = "ok" => Attached')
        <5>1. r.op = "attach" => r.url = target /\ (Straight => r.url = r.key)
          BY <1>1, <1>2, <2>2, <3>1 DEF RightAnswer, GoodRequest
        <5> QED  BY <1>1, <1>2, <1>3, <4>1, <5>1 DEF Attached
      <4> QED  BY <1>3, <3>1, <4>2, <4>3, <4>4 DEF RightAnswer
    <3> QED  BY <1>6, <2>2, <2>3, <3>1, <3>2 DEF Asking
  <2> QED  BY <2>6, <2>7
<1>12. ASSUME Resting PROVE Resting'
  BY <1>3, <1>10, <1>12 DEF Resting, Quiet
<1>13. ASSUME NEW p, Timing(p) PROVE Timing(p)'
  BY <1>3, <1>6, <1>10, <1>13 DEF Timing
<1>14. ASSUME NEW p, Erring(p) PROVE Erring(p)'
  BY <1>3, <1>6, <1>10, <1>14 DEF Erring
<1>15. ASSUME NEW e, Moving(e) PROVE Moving(e)'
  BY <1>3, <1>4, <1>6, <1>10, <1>15 DEF Moving
<1>16. ASSUME UnderWay PROVE UnderWay'
  <2>1. CASE \E p \in {"account", "attach"} : Timing(p)
    BY <1>13, <2>1 DEF UnderWay
  <2>2. CASE \E p \in {"choose", "account", "attach"} : Erring(p)
    BY <1>14, <2>2 DEF UnderWay
  <2>3. CASE \E e : Moving(e)
    BY <1>15, <2>3 DEF UnderWay
  <2> QED  BY <1>11, <1>12, <1>16, <2>1, <2>2, <2>3 DEF UnderWay
<1> QED  BY <1>1, <1>3, <1>5, <1>16 DEF PatientInv

\* The answer that is awaited: nobody waits any more.
LEMMA OnlyOneIsAnswered ==
  ASSUME RequestsInv, NEW k \in 1..Len(requests), requests[k].waiting,
         requests' = Kept([requests EXCEPT ![k].waiting = FALSE], k), UNCHANGED attached,
         Straight' = Straight
  PROVE  k = Len(requests) /\ RequestsInv' /\ NobodyWaits'
<1>1. PICK r : r = requests[k]
  OBVIOUS
<1>2. k = Len(requests) /\ GoodRequest(r)
  BY <1>1 DEF RequestsInv
<1>3. PICK new : new = [r EXCEPT !.waiting = FALSE]
  OBVIOUS
<1>4. /\ DOMAIN new = RequestFields /\ new.op = r.op /\ new.status = r.status
      /\ new.waiting = FALSE /\ new.url = r.url /\ new.key = r.key
  BY <1>2, <1>3 DEF GoodRequest, RequestFields
<1>5. requests' = Kept([requests EXCEPT ![k] = new], k)
  BY <1>1, <1>3
<1>6. /\ RequestsInv' /\ Len(requests) \in Nat \ {0} /\ Len(requests') \in Nat
      /\ \/ /\ new.status = "run" /\ ~new.waiting
            /\ Len(requests') = Len(requests) - 1
            /\ \A j \in 1..Len(requests') :
                 requests'[j] = IF j < k THEN requests[j] ELSE requests[j + 1]
         \/ /\ ~(new.status = "run" /\ ~new.waiting)
            /\ Len(requests') = Len(requests) /\ requests'[k] = new
            /\ \A j \in 1..Len(requests') : j # k => requests'[j] = requests[j]
  <2>1. Straight' => \A a \in attached' : a[1] = a[2]
    BY DEF RequestsInv
  <2>2. new.waiting \in BOOLEAN /\ (new.waiting => requests[k].waiting)
    BY <1>4
  <2> QED  BY <1>1, <1>4, <1>5, <2>1, <2>2, RequestChanges
<1>7. ASSUME NEW j \in 1..Len(requests') PROVE ~requests'[j].waiting
  <2>1. \A i \in 1..Len(requests) : i # k => ~requests[i].waiting
    BY <1>2 DEF RequestsInv
  <2>2. CASE Len(requests') = Len(requests) - 1
    <3>1. j < k /\ j \in 1..Len(requests) /\ j # k
      BY <1>2, <1>6, <2>2
    <3>2. requests'[j] = requests[j]
      BY <1>6, <2>2, <3>1
    <3> QED  BY <2>1, <3>1, <3>2
  <2>3. CASE Len(requests') = Len(requests)
    <3>1. PICK n : n = Len(requests)
      OBVIOUS
    <3>2. n \in Nat /\ n # n - 1 /\ Len(requests') = n
      BY <1>6, <2>3, <3>1
    <3>3. Len(requests') # Len(requests) - 1
      BY <3>1, <3>2
    <3>4. requests'[k] = new /\ (j # k => requests'[j] = requests[j]) /\ j \in 1..Len(requests)
      BY <1>6, <2>3, <3>3
    <3> QED  BY <1>4, <2>1, <3>4
  <2> QED  BY <1>6, <2>2, <2>3
<1> QED  BY <1>2, <1>6, <1>7 DEF NobodyWaits

LEMMA AnswerMoves ==
  ASSUME PatientInv, hasty = {}, Answered PROVE PatientInv'
<1>1. PICK S : requests \in Seq(S)
  BY DEF PatientInv, RequestsInv
<1>2. DOMAIN requests = 1..Len(requests) /\ Len(requests) \in Nat
  BY <1>1, LenProperties
<1>3. PICK k \in 1..Len(requests) :
        /\ requests[k].waiting
        /\ LET r == [requests[k] EXCEPT !.result = IF requests[k].status = "run" THEN @ ELSE "error"] IN
           ListLoaded(r) \/ Started(r) \/ Polled(r) \/ AttachAnswered(r)
        /\ requests' = Kept([requests EXCEPT ![k].waiting = FALSE], k)
  BY <1>2 DEF Answered
<1>4. /\ page # "closed"
      /\ UNCHANGED <<page, url, login, linked, target, lookup, attached, rushed>>
      /\ Straight' = Straight
  BY DEF Answered, fields, clientOfWizard, watched, mishaps, Straight
<1>5. k = Len(requests) /\ RequestsInv' /\ NobodyWaits'
  BY <1>3, <1>4, OnlyOneIsAnswered DEF PatientInv
<1>6. Asking /\ PagesInv
  BY <1>3, <1>4 DEF PatientInv, UnderWay, Resting, Timing, Erring, Moving, NobodyWaits
<1>7. PICK r : r = [requests[k] EXCEPT !.result = IF requests[k].status = "run" THEN @ ELSE "error"]
  OBVIOUS
<1>8. GoodRequest(requests[k])
  BY DEF PatientInv, RequestsInv
<1>9. /\ r.op = requests[k].op /\ r.key = requests[k].key
      /\ r.result = IF requests[k].status = "run" THEN requests[k].result ELSE "error"
  BY <1>7, <1>8 DEF GoodRequest, RequestFields
<1>10. /\ timers = {} /\ boxes = <<>> /\ events = <<>>
       /\ At(RequestPage(r.op)) /\ RightAnswer(requests[k])
  BY <1>5, <1>6, <1>9 DEF Asking, Quiet
<1>11. (LookedUp => LookedUp') /\ (Attached => Attached')
  BY <1>4 DEF LookedUp, Attached
<1>12. r.result = "ok" => requests[k].status = "run" /\ requests[k].result = "ok"
  BY <1>9
<1>13. \A e : Append(<<>>, e) = <<e>> /\ <<e>> \o <<>> = <<e>>
  BY Alone
<1>14. ASSUME UNCHANGED formShown PROVE PagesInv'
  BY <1>4, <1>6, <1>14 DEF PagesInv
<1>15. ASSUME UNCHANGED <<formShown, list>> PROVE \A p : At(p) => At(p)'
  BY <1>4, <1>15 DEF At
<1>16. ASSUME ListLoaded(r) PROVE PagesInv' /\ UnderWay'
  <2>1. UNCHANGED <<formShown, timers, events>> /\ At("choose")
    BY <1>10, <1>16 DEF ListLoaded, RequestPage
  <2>2. page = "choose" /\ url = NoUrl /\ list = "loading"
    BY <2>1 DEF At
  <2>3. CASE r.result = "ok"
    <3>1. UNCHANGED boxes
      BY <1>16, <2>3 DEF ListLoaded
    <3>2. Resting'
      BY <1>4, <1>5, <1>10, <2>1, <2>2, <3>1 DEF Resting, Quiet
    <3> QED  BY <1>14, <2>1, <3>2 DEF UnderWay
  <2>4. CASE r.result # "ok"
    <3>1. boxes' = <<"choose">> /\ UNCHANGED list
      BY <1>10, <1>13, <1>16, <2>4 DEF ListLoaded
    <3>2. Erring("choose")'
      BY <1>5, <1>10, <1>15, <2>1, <3>1 DEF Erring
    <3> QED  BY <1>14, <2>1, <3>2 DEF UnderWay
  <2> QED  BY <2>3, <2>4
<1>17. ASSUME NEW p \in {"account", "attach"}, ShowError(p), At(p) PROVE PagesInv' /\ UnderWay'
  <2>1. timers' = {} /\ boxes' = <<p>> /\ UNCHANGED <<list, formShown, events>>
    BY <1>10, <1>13, <1>17 DEF ShowError
  <2>2. Erring(p)'
    BY <1>5, <1>10, <1>15, <1>17, <2>1 DEF Erring
  <2> QED  BY <1>14, <2>1, <2>2 DEF UnderWay
<1>18. ASSUME NEW p \in {"account", "attach"}, At(p), timers' = timers \cup {p},
              UNCHANGED <<list, formShown, boxes, events>>, p = "attach" => LookedUp'
       PROVE  PagesInv' /\ UnderWay'
  <2>1. timers' = {p} /\ boxes' = <<>> /\ events' = <<>>
    BY <1>10, <1>18
  <2>2. Timing(p)'
    BY <1>5, <1>15, <1>18, <2>1 DEF Timing
  <2> QED  BY <1>14, <1>18, <2>2 DEF UnderWay
<1>19. ASSUME NEW e, At("attach"), events' = Append(events, e), UNCHANGED <<list, formShown, timers, boxes>>,
              \/ e[1] = "attach" /\ (Straight => e[2] = target)
              \/ e[1] = "next" /\ Attached
       PROVE  PagesInv' /\ UnderWay'
  <2>1. timers' = {} /\ boxes' = <<>> /\ events' = <<e>>
    BY <1>10, <1>13, <1>19
  <2>2. Moving(e)'
    BY <1>4, <1>5, <1>11, <1>15, <1>19, <2>1 DEF Moving
  <2> QED  BY <1>14, <1>19, <2>2 DEF UnderWay
<1>20. ASSUME Started(r) PROVE PagesInv' /\ UnderWay'
  <2>1. PICK p \in {"account", "attach"} : p = PageOf(r.op)
    BY DEF PageOf
  <2>2. At(p) /\ r.op \in {"start_config", "start_lookup"}
    BY <1>10, <1>20, <2>1 DEF Started, RequestPage
  <2>3. CASE r.result = "ok"
    <3>1. timers' = timers \cup {p} /\ UNCHANGED <<list, formShown, boxes, events>>
      BY <1>20, <2>1, <2>3 DEF Started
    <3>2. ASSUME p = "attach" PROVE LookedUp'
      <4>1. r.op = "start_lookup"
        BY <2>1, <2>2, <3>2 DEF PageOf, ConfigOps
      <4>2. LookedUp
        BY <1>9, <1>10, <1>12, <2>3, <4>1 DEF RightAnswer
      <4> QED  BY <1>11, <4>2
    <3> QED  BY <1>18, <2>2, <3>1, <3>2
  <2>4. CASE r.result # "ok"
    BY <1>17, <1>20, <2>1, <2>2, <2>4 DEF Started
  <2> QED  BY <2>3, <2>4
<1>21. ASSUME Polled(r) PROVE PagesInv' /\ UnderWay'
  <2>1. PICK p \in {"account", "attach"} : p = PageOf(r.op)
    BY DEF PageOf
  <2>2. At(p) /\ r.op \in {"poll_config", "poll_lookup"}
    BY <1>10, <1>21, <2>1 DEF Polled, RequestPage
  <2>3. p = "attach" => r.op = "poll_lookup"
    BY <2>1, <2>2 DEF PageOf, ConfigOps
  <2>4. CASE /\ r.result = "ok" /\ p = "account"
             /\ timers' = timers \ {p}
             /\ formShown' = TRUE
             /\ UNCHANGED <<list, polls, boxes, events>>
    <3>1. page = "account"
      BY <2>2, <2>4 DEF At
    <3>2. PagesInv'
      BY <1>4, <1>6, <2>4, <3>1 DEF PagesInv
    <3>3. Resting'
      BY <1>4, <1>5, <1>10, <2>4, <3>1 DEF Resting, Quiet
    <3> QED  BY <3>2, <3>3 DEF UnderWay
  <2>5. CASE /\ r.result = "ok" /\ p = "attach"
             /\ events' = Append(events, <<"attach", r.key>>)
             /\ UNCHANGED <<list, formShown, timers, polls, boxes>>
    <3>1. Straight => r.key = target
      BY <1>9, <1>10, <1>12, <2>3, <2>5 DEF RightAnswer
    <3> QED  BY <1>19, <2>2, <2>5, <3>1
  <2>6. CASE /\ timers' = timers \cup {p}
             /\ UNCHANGED <<list, formShown, boxes, events>>
    <3>1. p = "attach" => LookedUp'
      BY <1>9, <1>10, <1>11, <2>3 DEF RightAnswer
    <3> QED  BY <1>18, <2>2, <2>6, <3>1
  <2>7. CASE ShowError(p)
    BY <1>17, <2>2, <2>7
  <2> QED  BY <1>21, <2>1, <2>4, <2>5, <2>6, <2>7 DEF Polled
<1>22. ASSUME AttachAnswered(r) PROVE PagesInv' /\ UnderWay'
  <2>1. r.op = "attach" /\ At("attach")
    BY <1>10, <1>22 DEF AttachAnswered, RequestPage, PageOf, ConfigOps
  <2>2. "attach" \in linked
    BY <1>6, <2>1 DEF At, PagesInv
  <2>3. CASE r.result = "ok"
    <3>1. events' = Append(events, <<"next", NoUrl>>) /\ UNCHANGED <<list, formShown, timers, polls, boxes>>
      BY <1>22, <2>2, <2>3 DEF AttachAnswered
    <3>2. Attached
      BY <1>9, <1>10, <1>12, <2>1, <2>3 DEF RightAnswer
    <3> QED  BY <1>19, <2>1, <3>1, <3>2
  <2>4. CASE r.result # "ok"
    BY <1>17, <1>22, <2>1, <2>4 DEF AttachAnswered
  <2> QED  BY <2>3, <2>4
<1>23. PagesInv' /\ UnderWay'
  BY <1>3, <1>7, <1>16, <1>20, <1>21, <1>22
<1> QED  BY <1>5, <1>23 DEF PatientInv

\* Nothing is under way on the page, so the pages rest.
LEMMA RestsOtherwise ==
  ASSUME PatientInv, UsersTurn, \A p : ~At(p)
  PROVE  PagesInv /\ Resting
<1>1. boxes = <<>> /\ page # "closed"
  BY DEF UsersTurn
<1>2. ~Asking
  BY DEF Asking
<1>3. \A p \in {"account", "attach"} : ~Timing(p)
  BY DEF Timing
<1>4. \A p \in {"choose", "account", "attach"} : ~Erring(p)
  BY DEF Erring
<1>5. \A e : ~Moving(e)
  BY DEF Moving
<1> QED  BY <1>1, <1>2, <1>3, <1>4, <1>5 DEF PatientInv, UnderWay

\* Before the user acts nothing is queued.
LEMMA UsersPhases ==
  ASSUME PatientInv, UsersTurn
  PROVE  PagesInv /\ (Resting \/ Asking \/ Timing("account") \/ Timing("attach"))
<1>1. boxes = <<>> /\ events = <<>> /\ page # "closed"
  BY DEF UsersTurn
<1>2. \A p \in {"choose", "account", "attach"} : ~Erring(p)
  BY <1>1 DEF Erring
<1>3. \A e : ~Moving(e)
  BY <1>1, Alone DEF Moving
<1> QED  BY <1>1, <1>2, <1>3 DEF PatientInv, UnderWay

\* What is asked on a page is waited for.
LEMMA AskingWaits ==
  ASSUME RequestsInv, Asking
  PROVE  LET op == requests[Len(requests)].op IN
         /\ RequestPage(op) = "account" => Waiting(ConfigOps)
         /\ RequestPage(op) = "attach" => Waiting(AttachOps)
         /\ RequestPage(op) \in {"choose", "account", "attach"}
<1>1. PICK S : requests \in Seq(S)
  BY DEF RequestsInv
<1>2. Len(requests) \in 1..Len(requests) /\ DOMAIN requests = 1..Len(requests)
  BY <1>1, LenProperties DEF Asking
<1>3. GoodRequest(requests[Len(requests)]) /\ requests[Len(requests)].waiting
  BY <1>2 DEF RequestsInv, Asking
<1>4. PICK op : op = requests[Len(requests)].op
  OBVIOUS
<1>5. op \in {"list"} \cup ConfigOps \cup AttachOps
  BY <1>3, <1>4 DEF GoodRequest
<1>6. op \in ConfigOps => Waiting(ConfigOps)
  BY <1>2, <1>3, <1>4 DEF Waiting
<1>7. op \in AttachOps => Waiting(AttachOps)
  BY <1>2, <1>3, <1>4 DEF Waiting
<1> QED  BY <1>4, <1>5, <1>6, <1>7 DEF RequestPage, PageOf

LEMMA RequestsStay ==
  ASSUME RequestsInv, UNCHANGED <<requests, attached>>, Straight' = Straight
  PROVE  RequestsInv' /\ (NobodyWaits => NobodyWaits')
BY DEF RequestsInv, GoodRequest, NobodyWaits

LEMMA Chooses == ASSUME PatientInv, NEW u, ChooseUrl(u) PROVE PatientInv'
<1>1. /\ page = "choose" /\ list = "shown" /\ UsersTurn
      /\ UNCHANGED <<page, login, list, formShown, timers, linked, target, requests, boxes, events, attached, rushed>>
      /\ Straight' = Straight
  BY DEF ChooseUrl, pageVars, clientOfWizard, watched, mishaps, Straight
<1>2. \A p : ~At(p)
  BY <1>1 DEF At
<1>3. PagesInv /\ Resting
  BY <1>1, <1>2, RestsOtherwise
<1>4. PagesInv'
  BY <1>1, <1>3 DEF PagesInv
<1>5. RequestsInv' /\ NobodyWaits'
  BY <1>1, <1>3, RequestsStay DEF PatientInv, Resting
<1>6. Resting'
  BY <1>1, <1>3, <1>5 DEF Resting, Quiet
<1> QED  BY <1>4, <1>5, <1>6 DEF PatientInv, UnderWay

LEMMA Types == ASSUME PatientInv, NEW l, TypeLogin(l) PROVE PatientInv'
<1>1. /\ page = "account" /\ formShown /\ UsersTurn
      /\ UNCHANGED <<page, url, list, formShown, timers, linked, target, requests, boxes, events, attached, rushed>>
      /\ Straight' = Straight
  BY DEF TypeLogin, pageVars, clientOfWizard, watched, mishaps, Straight
<1>2. \A p : ~At(p)
  BY <1>1 DEF At
<1>3. PagesInv /\ Resting
  BY <1>1, <1>2, RestsOtherwise
<1>4. PagesInv'
  BY <1>1, <1>3 DEF PagesInv
<1>5. RequestsInv' /\ NobodyWaits'
  BY <1>1, <1>3, RequestsStay DEF PatientInv, Resting
<1>6. Resting'
  BY <1>1, <1>3, <1>5 DEF Resting, Quiet
<1> QED  BY <1>4, <1>5, <1>6 DEF PatientInv, UnderWay

LEMMA GoesOn == ASSUME PatientInv, PressNext PROVE PatientInv'
<1>1. /\ UsersTurn /\ events = <<>> /\ Forward(events) /\ UNCHANGED <<boxes, lookup, attached, rushed>>
      /\ Straight' = Straight
      /\ \/ page = "choose" /\ url # NoUrl
         \/ page = "account" /\ login # "none"
  BY DEF PressNext, UsersTurn, clientOfWizard, mishaps, Straight
<1>2. \A p : ~At(p)
  <2>1. PagesInv
    BY <1>1, UsersPhases
  <2> QED  BY <1>1, <2>1 DEF At, PagesInv
<1>3. PagesInv /\ Resting
  BY <1>1, <1>2, RestsOtherwise
<1>4. CASE page = "choose"
  <2>1. /\ page' = "account" /\ linked' = linked \cup {"account"}
        /\ requests' = Append(requests, Request("start_config", url, NoUrl))
        /\ events' = <<>>
        /\ UNCHANGED <<url, login, list, formShown, timers, target>>
    BY <1>1, <1>4 DEF Forward, EnterAccount, fields
  <2>2. PagesInv'
    BY <1>1, <1>3, <1>4, <2>1 DEF PagesInv
  <2>3. /\ RequestsInv' /\ Len(requests') > 0
        /\ requests'[Len(requests')] = Request("start_config", url, NoUrl)
    BY <1>1, <1>3, <2>1, RequestJoins DEF PatientInv, Resting, ConfigOps
  <2>4. /\ requests'[Len(requests')].op = "start_config" /\ requests'[Len(requests')].waiting = TRUE
    BY <2>3 DEF Request
  <2>5. At("account")'
    BY <1>3, <1>4, <2>1 DEF At, PagesInv
  <2>6. Quiet'
    BY <1>1, <1>3, <2>1 DEF Resting, Quiet
  <2>7. RequestPage("start_config") = "account"
    BY DEF RequestPage, PageOf, ConfigOps
  <2>8. Asking'
    BY <2>3, <2>4, <2>5, <2>6, <2>7 DEF Asking, RightAnswer
  <2> QED  BY <2>2, <2>3, <2>8 DEF PatientInv, UnderWay
<1>5. CASE page = "account"
  <2>1. PICK e : /\ e = IF login = "key" THEN <<"attach", url>> ELSE <<"lookup", url>>
                 /\ page' = "attach" /\ linked' = linked \cup {"attach"} /\ target' = url
                 /\ events' = Append(events, e)
                 /\ UNCHANGED <<url, login, list, formShown, timers, requests>>
    BY <1>1, <1>5 DEF Forward, EnterAttach, fields
  <2>2. events' = <<e>>
    BY <1>1, <2>1, Alone
  <2>3. PagesInv'
    BY <1>1, <1>3, <1>5, <2>1 DEF PagesInv, Resting
  <2>4. RequestsInv' /\ NobodyWaits'
    BY <1>1, <1>3, <2>1, RequestsStay DEF PatientInv, Resting
  <2>5. At("attach")'
    BY <2>1 DEF At
  <2>6. e[1] = "lookup" \/ (e[1] = "attach" /\ e[2] = url)
    BY <2>1
  <2>7. Moving(e)'
    BY <1>1, <1>3, <2>1, <2>2, <2>4, <2>5, <2>6 DEF Moving, Resting, Quiet
  <2> QED  BY <2>3, <2>4, <2>7 DEF PatientInv, UnderWay
<1> QED  BY <1>1, <1>4, <1>5

LEMMA Commits == ASSUME PatientInv, PressCommit PROVE PatientInv'
<1>1. /\ UsersTurn /\ page = "attach" /\ page' = "done" /\ rushed' = TRUE
      /\ UNCHANGED <<url, login, list, formShown, timers, linked, target, requests, boxes, events, lookup, attached>>
      /\ Straight' = Straight
  BY DEF PressCommit, Forward, EnterDone, fields, pageVars, clientOfWizard, mishaps, Straight
<1>2. PagesInv /\ (Resting \/ Asking \/ Timing("account") \/ Timing("attach"))
  BY <1>1, UsersPhases
<1>3. PagesInv'
  BY <1>1, <1>2 DEF PagesInv
<1>4. RequestsInv' /\ (NobodyWaits => NobodyWaits')
  BY <1>1, RequestsStay DEF PatientInv
<1>5. \A p : At(p) => At(p)'
  BY <1>1 DEF At
<1>6. (LookedUp => LookedUp') /\ (Attached => Attached')
  BY <1>1 DEF LookedUp, Attached
<1>7. CASE Resting
  <2>1. Resting'
    BY <1>1, <1>4, <1>7 DEF Resting, Quiet
  <2> QED  BY <1>3, <1>4, <2>1 DEF PatientInv, UnderWay
<1>8. CASE Asking
  <2>1. PICK r : r = requests[Len(requests)]
    OBVIOUS
  <2>2. RightAnswer(r)'
    BY <1>1, <1>6, <1>8, <2>1 DEF Asking, RightAnswer
  <2>3. At(RequestPage(r.op))'
    BY <1>5, <1>8, <2>1 DEF Asking
  <2>4. Asking'
    BY <1>1, <1>8, <2>1, <2>2, <2>3 DEF Asking, Quiet
  <2> QED  BY <1>3, <1>4, <2>4 DEF PatientInv, UnderWay
<1>9. ASSUME NEW p \in {"account", "attach"}, Timing(p) PROVE PatientInv'
  <2>1. Timing(p)'
    BY <1>1, <1>4, <1>5, <1>6, <1>9 DEF Timing
  <2> QED  BY <1>3, <1>4, <2>1 DEF PatientInv, UnderWay
<1> QED  BY <1>2, <1>7, <1>8, <1>9

\* A page is left backwards while nothing is asked, and nothing is under way then.
LEMMA LeavesPage ==
  ASSUME RequestsInv, PagesInv, NobodyWaits, Backward, UNCHANGED <<attached, rushed>>,
         Straight' = Straight, boxes' = <<>>, events' = <<>>,
         page = "account" => timers \subseteq {"account"},
         page = "attach" => timers \subseteq {"attach"},
         page = "done" => timers = {} /\ rushed
  PROVE  PatientInv'
<1>1. UNCHANGED <<url, list, target, requests>>
  BY DEF Backward, LeaveAccount, LeaveAttach, LeaveDone, fields, pageVars
<1>2. RequestsInv' /\ NobodyWaits'
  BY <1>1, RequestsStay
<1>3. CASE page = "account"
  <2>1. /\ page' = "choose" /\ login' = "none" /\ formShown' = FALSE /\ timers' = {}
    BY <1>3 DEF Backward, LeaveAccount
  <2>2. PagesInv' /\ Resting'
    BY <1>2, <2>1 DEF PagesInv, Resting, Quiet
  <2> QED  BY <1>2, <2>2 DEF PatientInv, UnderWay
<1>4. CASE page = "attach"
  <2>1. /\ page' = "account" /\ timers' = {} /\ linked' = linked \ {"attach"}
        /\ UNCHANGED <<login, formShown>>
    BY <1>4 DEF Backward, LeaveAttach, fields
  <2>2. PagesInv'
    BY <1>4, <2>1 DEF PagesInv
  <2>3. formShown'
    BY <1>4, <2>1 DEF PagesInv
  <2>4. Resting'
    BY <1>2, <2>1, <2>3 DEF Resting, Quiet
  <2> QED  BY <1>2, <2>2, <2>4 DEF PatientInv, UnderWay
<1>5. CASE page = "done"
  <2>1. page' = "attach" /\ UNCHANGED <<login, formShown, timers, linked>>
    BY <1>5 DEF Backward, LeaveDone, fields, pageVars
  <2>2. PagesInv'
    BY <1>1, <1>5, <2>1 DEF PagesInv
  <2>3. Resting'
    BY <1>2, <1>5, <2>1 DEF Resting, Quiet
  <2> QED  BY <1>2, <2>2, <2>3 DEF PatientInv, UnderWay
<1> QED  BY <1>3, <1>4, <1>5 DEF Backward

\* Going back while an answer is on its way is hasty.
LEMMA GoesBack ==
  ASSUME PatientInv, hasty' = {}, PressBack
  PROVE  PatientInv'
<1>1. /\ UsersTurn /\ page \in {"account", "attach"} /\ Backward
      /\ UNCHANGED <<boxes, events, attached, rushed>> /\ Straight' = Straight
  BY DEF PressBack, clientOfWizard, mishaps, Straight
<1>2. PagesInv /\ (Resting \/ Asking \/ Timing("account") \/ Timing("attach"))
  BY <1>1, UsersPhases
<1>3. /\ page = "account" => ~Waiting(ConfigOps)
      /\ page = "attach" => ~Waiting(AttachOps)
  BY <1>1 DEF Backward, LeaveAccount, LeaveAttach
<1>4. ~Asking
  <2> SUFFICES ASSUME Asking PROVE FALSE
    OBVIOUS
  <2>1. PICK op : op = requests[Len(requests)].op
    OBVIOUS
  <2>2. At(RequestPage(op))
    BY <2>1 DEF Asking
  <2>3. /\ RequestPage(op) = "account" => Waiting(ConfigOps)
        /\ RequestPage(op) = "attach" => Waiting(AttachOps)
    BY <2>1, AskingWaits DEF PatientInv
  <2> QED  BY <1>1, <1>3, <2>2, <2>3 DEF At
<1>5. /\ NobodyWaits
      /\ page = "account" => timers \subseteq {"account"}
      /\ page = "attach" => timers \subseteq {"attach"}
  BY <1>1, <1>2, <1>4 DEF Resting, Timing, Quiet, At
<1>6. boxes' = <<>> /\ events' = <<>>
  BY <1>1 DEF UsersTurn
<1> QED  BY <1>1, <1>2, <1>5, <1>6, LeavesPage DEF PatientInv

LEMMA Closes == ASSUME PatientInv, CloseWizard PROVE PatientInv'
<1>1. /\ UNCHANGED <<requests, attached, boxes, events>>
      /\ page' = "closed" /\ boxes = <<>> /\ events = <<>>
      /\ Straight' = Straight
  BY DEF CloseWizard, UsersTurn, clientOfWizard, mishaps, Straight
<1> QED  BY <1>1, RequestsStay DEF PatientInv

\* Something is queued, or an error is shown: it is the only thing under way.
LEMMA MovingAlone ==
  ASSUME PatientInv, events # <<>>
  PROVE  PagesInv /\ \E e : Moving(e)
<1>1. ~Resting /\ ~Asking
  BY DEF Resting, Asking, Quiet
<1>2. \A p : ~Timing(p) /\ ~Erring(p)
  BY DEF Timing, Erring
<1> QED  BY <1>1, <1>2 DEF PatientInv, UnderWay

LEMMA Confirms == ASSUME PatientInv, ConfirmError PROVE PatientInv'
<1>1. /\ boxes # <<>> /\ boxes' = Tail(boxes)
      /\ UNCHANGED <<page, url, login, formShown, timers, linked, target, requests, attached, rushed>>
      /\ Straight' = Straight
  BY DEF ConfirmError, fields, clientOfWizard, watched, mishaps, Straight
<1>2. PagesInv /\ \E p \in {"choose", "account", "attach"} : Erring(p)
  <2>1. ~Resting /\ ~Asking
    BY <1>1 DEF Resting, Asking, Quiet
  <2>2. (\A p : ~Timing(p)) /\ \A e : ~Moving(e)
    BY <1>1 DEF Timing, Moving
  <2> QED  BY <1>1, <2>1, <2>2 DEF PatientInv, UnderWay
<1>3. PICK p \in {"choose", "account", "attach"} : Erring(p)
  BY <1>2
<1>4. boxes = <<p>> /\ events = <<>> /\ timers = {} /\ At(p) /\ NobodyWaits
  BY <1>3 DEF Erring
<1>5. Head(boxes) = p /\ boxes' = <<>>
  BY <1>1, <1>4, Alone
<1>6. RequestsInv' /\ NobodyWaits'
  BY <1>1, <1>4, RequestsStay DEF PatientInv
<1>7. PagesInv'
  BY <1>1, <1>2 DEF PagesInv
<1>8. CASE p = "choose"
  <2>1. UNCHANGED events /\ page = "choose"
    BY <1>4, <1>5, <1>8 DEF ConfirmError, At
  <2>2. Resting'
    BY <1>1, <1>4, <1>5, <1>6, <2>1 DEF Resting, Quiet
  <2> QED  BY <1>6, <1>7, <2>2 DEF PatientInv, UnderWay
<1>9. CASE p # "choose"
  <2>1. p \in linked
    BY <1>2, <1>4, <1>9 DEF At, PagesInv
  <2>2. PICK e : e = <<"back", NoUrl>>
    OBVIOUS
  <2>3. events' = Append(events, e) /\ UNCHANGED list
    BY <1>5, <1>9, <2>1, <2>2 DEF ConfirmError
  <2>4. events' = <<e>>
    BY <1>4, <2>3, Alone
  <2>5. At("account")' \/ At("attach")'
    BY <1>1, <1>4, <1>9, <2>3 DEF At
  <2>6. e[1] = "back"
    BY <2>2
  <2>7. Moving(e)'
    BY <1>1, <1>4, <1>5, <1>6, <2>4, <2>5, <2>6 DEF Moving
  <2> QED  BY <1>6, <1>7, <2>7 DEF PatientInv, UnderWay
<1> QED  BY <1>8, <1>9

LEMMA Moves == ASSUME PatientInv, MovePage PROVE PatientInv'
<1>1. events # <<>> /\ UNCHANGED <<boxes, lookup, attached, rushed>> /\ Straight' = Straight
  BY DEF MovePage, clientOfWizard, mishaps, Straight
<1>2. PagesInv /\ \E e : Moving(e)
  BY <1>1, MovingAlone
<1>3. PICK e : Moving(e)
  BY <1>2
<1>4. /\ events = <<e>> /\ boxes = <<>> /\ timers = {} /\ NobodyWaits
      /\ \/ e[1] = "lookup" /\ At("attach")
         \/ e[1] = "attach" /\ At("attach") /\ (Straight => e[2] = target)
         \/ e[1] = "next" /\ At("attach") /\ Attached
         \/ e[1] = "back" /\ (At("account") \/ At("attach"))
  BY <1>3 DEF Moving
<1>5. Head(events) = e /\ Tail(events) = <<>>
  BY <1>4, Alone
<1>6. CASE e[1] = "next"
  <2>1. page \in {"attach", "done"} /\ (page = "done" => rushed) /\ Attached
    BY <1>4, <1>6 DEF At
  <2>2. /\ page' = "done" /\ events' = <<>>
        /\ UNCHANGED <<url, login, list, formShown, timers, linked, target, requests>>
    <3>1. CASE page = "attach"
      BY <1>5, <1>6, <3>1 DEF MovePage, Forward, EnterDone, fields, pageVars
    <3>2. CASE page = "done"
      BY <1>5, <1>6, <3>2 DEF MovePage, Forward, fields, pageVars
    <3> QED  BY <2>1, <3>1, <3>2
  <2>3. RequestsInv' /\ NobodyWaits'
    BY <1>1, <1>4, <2>2, RequestsStay DEF PatientInv
  <2>4. PagesInv'
    BY <1>1, <1>2, <2>1, <2>2 DEF PagesInv, Attached
  <2>5. Resting'
    BY <1>1, <1>4, <2>2, <2>3 DEF Resting, Quiet
  <2> QED  BY <2>3, <2>4, <2>5 DEF PatientInv, UnderWay
<1>7. CASE e[1] = "back"
  <2>1. At("account") \/ At("attach")
    BY <1>4, <1>7
  <2>2. page # "choose" /\ (page = "done" => rushed)
    BY <2>1 DEF At
  <2>3. Backward /\ events' = <<>>
    BY <1>5, <1>7, <2>2 DEF MovePage
  <2> QED  BY <1>1, <1>2, <1>4, <2>2, <2>3, LeavesPage DEF PatientInv
<1>8. e[1] = "next" \/ e[1] = "back"
  BY <1>5 DEF MovePage
<1> QED  BY <1>6, <1>7, <1>8

LEMMA Asks == ASSUME PatientInv, AskForTarget PROVE PatientInv'
<1>1. /\ events # <<>>
      /\ UNCHANGED <<page, url, login, list, formShown, timers, linked, target, boxes, lookup, attached, rushed>>
      /\ Straight' = Straight
  BY DEF AskForTarget, fields, pageVars, clientOfWizard, watched, mishaps, Straight
<1>2. PagesInv /\ \E e : Moving(e)
  BY <1>1, MovingAlone
<1>3. PICK e : Moving(e)
  BY <1>2
<1>4. /\ events = <<e>> /\ boxes = <<>> /\ timers = {} /\ NobodyWaits
      /\ \/ e[1] = "lookup" /\ At("attach")
         \/ e[1] = "attach" /\ At("attach") /\ (Straight => e[2] = target)
         \/ e[1] = "next" /\ At("attach") /\ Attached
         \/ e[1] = "back" /\ (At("account") \/ At("attach"))
  BY <1>3 DEF Moving
<1>5. Head(events) = e /\ Tail(events) = <<>>
  BY <1>4, Alone
<1>6. /\ e[1] \in {"lookup", "attach"} /\ events' = <<>>
      /\ requests' = Append(requests,
           IF e[1] = "lookup" THEN Request("start_lookup", target, NoUrl)
           ELSE Request("attach", target, e[2]))
  BY <1>5 DEF AskForTarget
<1>7. At("attach") /\ (Straight /\ e[1] = "attach" => e[2] = target)
  BY <1>4, <1>6
<1>8. PICK op : op = IF e[1] = "lookup" THEN "start_lookup" ELSE "attach"
  OBVIOUS
<1>9. PICK key : key = IF e[1] = "lookup" THEN NoUrl ELSE e[2]
  OBVIOUS
<1>10. requests' = Append(requests, Request(op, target, key)) /\ (Straight /\ op = "attach" => target = key)
  BY <1>6, <1>7, <1>8, <1>9
<1>11. op \in {"list"} \cup ConfigOps \cup AttachOps /\ RequestPage(op) = "attach" /\ op # "poll_lookup"
  BY <1>8 DEF AttachOps, RequestPage, PageOf, ConfigOps
<1>12. RequestsInv' /\ Len(requests') > 0 /\ requests'[Len(requests')] = Request(op, target, key)
  <2>1. RequestsInv /\ NobodyWaits /\ UNCHANGED attached /\ Straight' = Straight
    BY <1>1, <1>4 DEF PatientInv
  <2> QED  BY <1>10, <1>11, <2>1, RequestJoins
<1>13. PICK r : r = Request(op, target, key)
  OBVIOUS
<1>14. r.op = op /\ r.waiting = TRUE /\ r.status = "queued" /\ r.url = target
  BY <1>13 DEF Request
<1>15. RightAnswer(r)'
  BY <1>1, <1>11, <1>14 DEF RightAnswer
<1>16. At(RequestPage(r.op))' /\ Quiet'
  BY <1>1, <1>4, <1>6, <1>7, <1>11, <1>14 DEF At, Quiet
<1>17. Asking'
  BY <1>12, <1>13, <1>14, <1>15, <1>16 DEF Asking
<1>18. PagesInv'
  BY <1>1, <1>2 DEF PagesInv
<1> QED  BY <1>12, <1>17, <1>18 DEF PatientInv, UnderWay

LEMMA TimesOut == ASSUME PatientInv, NEW p \in {"account", "attach"}, TimerFires(p) PROVE PatientInv'
<1>1. /\ page # "closed" /\ p \in timers /\ timers' = timers \ {p}
      /\ UNCHANGED <<page, url, login, list, formShown, linked, target, boxes, events, lookup, attached, rushed>>
      /\ Straight' = Straight
  BY DEF TimerFires, fields, clientOfWizard, watched, mishaps, Straight
<1>2. PagesInv /\ Timing(p)
  <2>1. ~Resting /\ ~Asking /\ (\A q : ~Erring(q)) /\ \A e : ~Moving(e)
    BY <1>1 DEF Resting, Asking, Quiet, Erring, Moving
  <2>2. \A q : Timing(q) => q = p
    BY <1>1 DEF Timing
  <2> QED  BY <1>1, <2>1, <2>2 DEF PatientInv, UnderWay
<1>3. PICK op : op = IF p = "account" THEN "poll_config" ELSE "poll_lookup"
  OBVIOUS
<1>4. requests' = Append(requests, Request(op, NoUrl, NoUrl))
  BY <1>3 DEF TimerFires
<1>5. op \in {"list"} \cup ConfigOps \cup AttachOps /\ RequestPage(op) = p /\ op # "attach" /\ op # "start_lookup"
      /\ (op = "poll_lookup" => p = "attach")
  BY <1>3 DEF AttachOps, RequestPage, PageOf, ConfigOps
<1>6. /\ RequestsInv' /\ Len(requests') > 0
      /\ requests'[Len(requests')] = Request(op, NoUrl, NoUrl)
  BY <1>1, <1>2, <1>4, <1>5, RequestJoins DEF PatientInv, Timing
<1>7. LookedUp => LookedUp'
  BY <1>1 DEF LookedUp
<1>8. PICK r : r = Request(op, NoUrl, NoUrl)
  OBVIOUS
<1>9. r.op = op /\ r.waiting = TRUE /\ r.status = "queued"
  BY <1>8 DEF Request
<1>10. RightAnswer(r)'
  BY <1>2, <1>5, <1>7, <1>9 DEF RightAnswer, Timing
<1>11. At(RequestPage(r.op))' /\ Quiet'
  BY <1>1, <1>2, <1>5, <1>9 DEF At, Quiet, Timing
<1>12. Asking'
  BY <1>6, <1>8, <1>9, <1>10, <1>11 DEF Asking
<1>13. PagesInv'
  BY <1>1, <1>2 DEF PagesInv
<1> QED  BY <1>6, <1>12, <1>13 DEF PatientInv, UnderWay

LEMMA WizardPreserved == WizardInv /\ [WizardNext]_wizardVars => WizardInv'
<1> SUFFICES ASSUME WizardInv, [WizardNext]_wizardVars, hasty' = {} PROVE PatientInv'
  BY DEF WizardInv
<1>1. hasty = {} /\ PatientInv
  BY HastyStays DEF WizardInv
<1>2. CASE UNCHANGED wizardVars
  <2>1. /\ UNCHANGED <<page, url, login, list, formShown, timers, linked, target>>
        /\ UNCHANGED <<requests, boxes, events, lookup, attached, rushed>>
    BY <1>2 DEF wizardVars, fields, pageVars, clientOfWizard, watched
  <2>2. Straight' = Straight
    BY <1>2 DEF wizardVars, mishaps, Straight
  <2> QED  BY <1>1, <2>1, <2>2, PatientStays
<1>3. CASE FallsOutOfStep
  <2>1. /\ UNCHANGED <<page, url, login, list, formShown, timers, linked, target>>
        /\ UNCHANGED <<requests, boxes, events, lookup, attached, rushed>>
    BY <1>3 DEF FallsOutOfStep, fields, pageVars, clientOfWizard, watched
  <2>2. Straight' => Straight
    BY <1>3 DEF FallsOutOfStep, Straight
  <2> QED  BY <1>1, <2>1, <2>2, PatientStays
<1>4. CASE WizardNext
  BY <1>1, <1>3, <1>4, Chooses, Types, GoesOn, Commits, GoesBack, Closes, Confirms, Moves, Asks,
     TimesOut, Takes, RunsOn, AnswerMoves DEF WizardNext
<1> QED  BY <1>2, <1>4

THEOREM WizardInvariant == WizardSpec => []WizardInv
BY WizardInitially, WizardPreserved, PTL DEF WizardSpec

\* No project is attached with the account key of another one, and the last page is true,
\* for any projects, any number of visits of the pages and any delays and failures, unless
\* the user is hasty, a lookup that was given up replaces the next one or an answer is out
\* of step.
THEOREM ProjectsAreAttachedAsShown == WizardSpec => []AttachedAsShown
<1>1. WizardInv => AttachedAsShown
  BY DEF WizardInv, PatientInv, RequestsInv, PagesInv, AttachedAsShown, Straight
<1> QED  BY <1>1, WizardInvariant, PTL

\* A page that shows its animation is never left waiting for nothing, in whatever order the
\* requests are run.
THEOREM PagesWaitForSomething == WizardSpec => []WaitingIsDriven
<1>1. WizardInv => WaitingIsDriven
  <2> SUFFICES ASSUME PatientInv, boxes = <<>>, events = <<>>
               PROVE  /\ page = "account" /\ ~formShown => Waiting(ConfigOps) \/ "account" \in timers
                      /\ page = "attach" /\ ~rushed => Waiting(AttachOps) \/ "attach" \in timers
    BY DEF WizardInv, WaitingIsDriven
  <2>1. CASE page = "closed"
    BY <2>1
  <2>2. CASE UsersTurn
    <3>1. PagesInv /\ (Resting \/ Asking \/ Timing("account") \/ Timing("attach"))
      BY <2>2, UsersPhases
    <3>2. CASE Resting
      BY <3>2 DEF Resting
    <3>3. CASE Asking
      <4>1. PICK op : op = requests[Len(requests)].op
        OBVIOUS
      <4>2. /\ RequestPage(op) = "account" => Waiting(ConfigOps)
            /\ RequestPage(op) = "attach" => Waiting(AttachOps)
        BY <3>3, <4>1, AskingWaits DEF PatientInv
      <4>3. At(RequestPage(op))
        BY <3>3, <4>1 DEF Asking
      <4> QED  BY <4>2, <4>3 DEF At
    <3>4. ASSUME NEW p, Timing(p)
          PROVE  (page = "account" => "account" \in timers) /\ (page = "attach" => "attach" \in timers)
      BY <3>4 DEF Timing, At
    <3> QED  BY <3>1, <3>2, <3>3, <3>4
  <2> QED  BY <2>1, <2>2 DEF UsersTurn
<1> QED  BY <1>1, WizardInvariant, PTL
=============================================================================
