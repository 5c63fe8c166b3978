------------------------------ MODULE Settings ------------------------------
(***************************************************************************)
(* Settings of the BOINC client that woincqt edits: the computing          *)
(* preferences (ui/qt/dialogs/preferences_dialog.cc) and the log flags of  *)
(* cc_config.xml (ui/qt/dialogs/event_log_options_dialog.cc), loaded and   *)
(* saved as ui/qt/gui.cc wires it, with the two commands that write them   *)
(* (SetGlobalPreferences and SetCCConfig, lib/src/rpc_command.cc).         *)
(*                                                                         *)
(* A preference is a number; 0 stands for no limit (for                    *)
(* disk_max_used_pct that is 100), for FALSE and for no entry of the       *)
(* weekday.  The client keeps a preference file it got from a project      *)
(* (general) and the override file the dialog writes; what it works with   *)
(* is the one over the other.  Another manager may change everything too.  *)
(***************************************************************************)
EXTENDS Naturals, Sequences

CONSTANTS
  Groups,       \* bound: sets of preferences, one of which the user works on; the
                \* empty one stands for a user who works on the log flags
  Amounts,      \* values a preference may have, 0 is one of them
  Apps,         \* applications that may be exclusive
  MaxOthers,    \* bound: changes by another manager
  MaxDialogs,   \* bound: dialogs that are opened
  MaxJobs       \* bound: jobs that wait

ASSUME SettingsAssumption ==
  /\ Amounts \subseteq Nat /\ {0, 1} \subseteq Amounts
  /\ MaxOthers \in Nat /\ MaxDialogs \in Nat /\ MaxJobs \in Nat

-----------------------------------------------------------------------------
(* The preferences by the kind of widget they have.                        *)

\* Input fields that are always there, and always saved.
UsageLimits == {"max_ncpus_pct", "cpu_usage_limit"}
OtherLimits == {"work_buf_min_days", "work_buf_additional_days",
                "cpu_scheduling_period_minutes", "disk_interval"}
MemoryLimits == {"ram_max_used_busy_pct", "ram_max_used_idle_pct", "vm_max_used_pct"}

Numbers == UsageLimits \cup OtherLimits \cup MemoryLimits

\* Check boxes.
Switches == {"dont_verify_images", "confirm_before_connecting", "hangup_if_dialed",
             "run_on_batteries", "leave_apps_in_memory"}

\* Input fields behind a check box.
NetworkLimits == {"max_bytes_sec_down", "max_bytes_sec_up",
                  "daily_xfer_limit_mb", "daily_xfer_period_days"}
DiskLimits == {"disk_max_used_gb", "disk_min_free_gb", "disk_max_used_pct"}

Limits == NetworkLimits \cup DiskLimits \cup {"suspend_cpu_usage"}

\* The check box of a limit; the two parts of the transfer limit share theirs.
Box(f) == IF f = "daily_xfer_period_days" THEN "daily_xfer_limit_mb" ELSE f

\* Times of the day, and for single days of the week.
Times == {"general_cpu_times", "general_net_times"}
Weekdays == {"daily_cpu_times", "daily_net_times"}

\* Suspend when the computer is in use, with the minutes that are taken for use.
InUse == {"run_if_user_active", "run_gpu_if_user_active", "idle_time_to_run"}

AllPreferences == Numbers \cup Switches \cup Limits \cup Times \cup Weekdays \cup InUse

\* What the client must be told even if the limit is off.
AlwaysMapped == DiskLimits \cup {"suspend_cpu_usage"}

-----------------------------------------------------------------------------

VARIABLES
  general,      \* the preferences from the project
  override,     \* global_prefs_override.xml: what it says of the preferences it names
  working,      \* what the client works with
  cc,           \* cc_config.xml
  others,       \* how often another manager has changed something
  dialog,       \* the dialog that is open or on its way
  dialogs,      \* how many there were
  waitingFor,   \* the subscription of the poller
  jobs,         \* the host's queue of jobs, the next one first
  running,      \* the job the host's worker has taken
  answer,       \* a future that is ready
  prefs, orig, mask,   \* the preferences dialog: edited, as loaded, what is saved
  saved,        \* what the dialog showed when it was saved, if nobody changed it since
  delivered,    \* the client has read that, and nobody has changed it since
  touched,      \* the user has changed something in the dialog
  conf, flag,   \* the event log dialog: the loaded configuration and the flag
  impatient,    \* the user has closed a dialog that was waiting for an answer
  dangling,     \* an answer has reached a dialog that was deleted
  overtaken,    \* an older save has reached the client after the last one
  late          \* an answer of the client was not waited for, and is still to be read

clientVars == <<general, override, working, cc, others>>
prefsVars == <<prefs, orig, mask, saved>>
logVars == <<conf, flag>>
flowVars == <<waitingFor, jobs, running, answer>>
userVars == <<dialog, dialogs, touched, impatient, dangling>>
watchedVars == <<overtaken, late>>
settingsVars == <<clientVars, prefsVars, logVars, flowVars, userVars, watchedVars, delivered>>

Group == DOMAIN general

\* cc_config.xml: an option woinc writes, one it does not write, the exclusive
\* applications, what is found under the tag exclusive__app, and a log flag.
CCConfigs == [option : {0, 1}, unread : {0, 1}, exclusive : SUBSET Apps,
              misspelt : SUBSET Apps, flag : BOOLEAN]
NoConfig == [option |-> 0, unread |-> 0, exclusive |-> {}, misspelt |-> {}, flag |-> FALSE]

NoAnswer == [op |-> "none", ok |-> FALSE, node |-> <<>>, conf |-> NoConfig]

\* A command with its subscription.  For SetGlobalPreferences it has the node it
\* writes; for SetCCConfig the configuration, and what it has read of the client's.
Job(op) == [op |-> op, sub |-> TRUE, node |-> <<>>,
            conf |-> NoConfig, read |-> NoConfig, hasRead |-> FALSE]
NoJob == [Job("none") EXCEPT !.sub = FALSE]

\* SetCCConfig, for the Apply and for the Save button.
WritesConfig == {"apply_cc", "save_cc"}

\* What one file says over what the other one says.
Over(f, g) == [p \in DOMAIN f \cup DOMAIN g |-> IF p \in DOMAIN f THEN f[p] ELSE g[p]]

\* The client's answer: a weekday has a node only if it has an entry.
WorkingNode ==
  [f \in {g \in Group : g \in Weekdays => working[g] # 0} |-> working[f]]

\* parse_ of the preferences: what the node does not have keeps its default.
ParsedPrefs(node) == [f \in Group |-> IF f \in DOMAIN node THEN node[f] ELSE 0]

SettingsInit ==
  /\ \E group \in Groups :
       /\ general \in [group -> Amounts]
       /\ override \in {<<>>} \cup [group -> Amounts]
       /\ \A f \in group \cap (Switches \cup {"run_if_user_active", "run_gpu_if_user_active"}) :
            general[f] \in {0, 1} /\ (override # <<>> => override[f] \in {0, 1})
  /\ working = Over(override, general)
  /\ cc = [NoConfig EXCEPT !.exclusive = Apps]
  /\ others = 0 /\ dialog = "none" /\ dialogs = 0
  /\ waitingFor = "none" /\ jobs = <<>> /\ running = NoJob /\ answer = NoAnswer
  /\ prefs = <<>> /\ orig = <<>> /\ mask = <<>>
  /\ saved = {} /\ delivered = FALSE
  /\ touched = FALSE
  /\ conf = NoConfig /\ flag = FALSE
  /\ impatient = FALSE /\ dangling = FALSE
  /\ overtaken = FALSE /\ late = FALSE

-----------------------------------------------------------------------------
(* The widgets of the preferences dialog.                                  *)

\* A limit is checked if its value, or the other one behind its check box, is set.
Checked(p, f) == \E g \in Limits \cap Group : Box(g) = Box(f) /\ p[g] > 0

MinutesMatter(p) == p["run_if_user_active"] = 0 \/ p["run_gpu_if_user_active"] = 0

\* A check box that is set gives its input field a value.
WithDefault(v) == IF v > 0 THEN v ELSE 1

\* The preferences after the dialog was set up: checking a box runs its handler, so
\* a limit gets its default, and suspending when in use suspends the GPU as well.
SetUpPrefs(p) ==
  [f \in Group |->
     IF f \in Limits /\ Checked(p, f) THEN WithDefault(p[f])
     ELSE IF f = "run_gpu_if_user_active" /\ p["run_if_user_active"] = 0 THEN 0
     ELSE p[f]]

\* What is saved of them.  Nothing sets the mask of the weekdays.
SetUpMask(p) ==
  [f \in Group |->
     \/ f \in Numbers \cup Switches \cup {"run_if_user_active", "run_gpu_if_user_active"}
     \/ f \in Limits /\ Checked(p, f)
     \/ f \in Times /\ p[f] > 0
     \/ f = "idle_time_to_run" /\ MinutesMatter(SetUpPrefs(p))]

Editing == dialog = "preferences" /\ ~dangling

Touch == touched' = TRUE

\* as_checked_input__: unchecking puts back what was loaded.
CheckLimit(f) ==
  /\ Editing
  /\ f \in Limits \cap Group
  /\ LET behind == {g \in Limits \cap Group : Box(g) = Box(f)}
         on == ~mask[f] IN
     /\ mask' = [g \in Group |-> IF g \in behind THEN on ELSE mask[g]]
     /\ prefs' = [g \in Group |-> IF g \notin behind THEN prefs[g]
                                  ELSE IF on THEN WithDefault(prefs[g]) ELSE orig[g]]
  /\ Touch
  /\ UNCHANGED orig

CheckSwitch(f) ==
  /\ Editing
  /\ f \in Switches \cap Group
  /\ prefs' = [prefs EXCEPT ![f] = 1 - @]
  /\ Touch
  /\ UNCHANGED <<orig, mask>>

\* The minutes matter if anything is suspended; else they become what was loaded.
WithMinutes(p) ==
  /\ mask' = [mask EXCEPT !["idle_time_to_run"] = MinutesMatter(p)]
  /\ prefs' = IF MinutesMatter(p) THEN p
              ELSE [p EXCEPT !["idle_time_to_run"] = orig["idle_time_to_run"]]

\* Suspending when in use checks, and disables, the box for the GPU.
CheckInUse(f) ==
  /\ Editing
  /\ f \in {"run_if_user_active", "run_gpu_if_user_active"} \cap Group
  /\ f = "run_gpu_if_user_active" => prefs["run_if_user_active"] = 1
  /\ LET flipped == [prefs EXCEPT ![f] = 1 - @] IN
     WithMinutes(IF flipped["run_if_user_active"] = 0
                 THEN [flipped EXCEPT !["run_gpu_if_user_active"] = 0] ELSE flipped)
  /\ Touch
  /\ UNCHANGED orig

\* time_of_day_widget__: only the mask follows the check box.  Times that are 0 are
\* shown as the default span, and saved as 0 if the user does not change them.
CheckTimes(f) ==
  /\ Editing
  /\ f \in Times \cap Group
  /\ mask' = [mask EXCEPT ![f] = ~@]
  /\ Touch
  /\ UNCHANGED <<prefs, orig>>

\* time_of_weekday_widget__: an entry comes with the default span or is erased.
CheckWeekday(f) ==
  /\ Editing
  /\ f \in Weekdays \cap Group
  /\ prefs' = [prefs EXCEPT ![f] = IF @ = 0 THEN 1 ELSE 0]
  /\ Touch
  /\ UNCHANGED <<orig, mask>>

\* Typing into an input field that is enabled; an empty one counts as 0.  The handler
\* of integer_input__, which only the transfer period has, is used after its end: what
\* it does is undefined.
Type(f, v) ==
  /\ Editing
  /\ f \in Group \cap (Numbers \cup Limits \cup Times \cup {"idle_time_to_run"})
  /\ mask[f]
  /\ prefs[f] # v
  /\ \/ prefs' = [prefs EXCEPT ![f] = v]
     \/ f = "daily_xfer_period_days" /\ UNCHANGED prefs
  /\ Touch
  /\ UNCHANGED <<orig, mask>>

Edit ==
  /\ \E f \in Group :
       \/ CheckLimit(f) \/ CheckSwitch(f) \/ CheckInUse(f) \/ CheckTimes(f) \/ CheckWeekday(f)
       \/ \E v \in Amounts : Type(f, v)
  /\ UNCHANGED <<clientVars, saved, delivered, logVars, flowVars, dialog, dialogs, impatient, dangling, watchedVars>>

-----------------------------------------------------------------------------
(* What is written.                                                        *)

\* Mutant: a limit that is off is left to the client.
OverrideWithoutAlways(p, m) == [f \in {g \in Group : m[g]} |-> p[f]]

\* SetGlobalPreferences: the whole override file.  The weekdays are written under
\* their masks, which the dialog never sets.
Override(p, m) ==
  [f \in {g \in Group : m[g] \/ g \in AlwaysMapped} |-> IF m[f] THEN p[f] ELSE 0]

\* parse_ of the configuration: the options and flags woinc knows.
ParsedConfig(c) ==
  [NoConfig EXCEPT !.option = c.option, !.exclusive = c.exclusive, !.flag = c.flag]

\* Mutant: the configuration is written without what was read.
ConfigFromScratch(read, c) ==
  [NoConfig EXCEPT !.option = c.option, !.misspelt = c.exclusive, !.flag = c.flag]

\* SetCCConfig: known options and flags over what was read.  The exclusive
\* applications are removed and put in under another tag.
Config(read, c) ==
  [read EXCEPT !.option = c.option, !.exclusive = {},
               !.misspelt = @ \cup c.exclusive, !.flag = c.flag]

-----------------------------------------------------------------------------
(* Jobs, futures and the poller.                                           *)

\* schedule_now_: a command is put in front of those that wait already.
Subscribe(job) ==
  /\ jobs' = <<job>> \o jobs
  /\ waitingFor' = job.op
  /\ answer' = NoAnswer
  /\ UNCHANGED running

TakeJob ==
  /\ running.op = "none" /\ jobs # <<>>
  /\ running' = Head(jobs)
  /\ jobs' = Tail(jobs)
  /\ UNCHANGED <<clientVars, prefsVars, logVars, waitingFor, answer, userVars, watchedVars, delivered>>

\* A subscription that has ended is not told.
Ready(ok) ==
  /\ running' = NoJob
  /\ answer' = IF ~running.sub THEN answer
               ELSE [op |-> running.op, ok |-> ok,
                     node |-> IF running.op = "get_working" THEN WorkingNode ELSE <<>>,
                     conf |-> IF running.op = "get_cc" THEN ParsedConfig(cc) ELSE NoConfig]

\* An older save is written although a newer one was.
Overtakes ==
  /\ running.op = "set_override" /\ ~running.sub
  /\ ~(waitingFor = "set_override" /\ answer = NoAnswer)

\* A job that fails may have reached the client nevertheless: the connection was closed,
\* or the answer did not come in time and is read by the next job instead of its own,
\* so that from then on no job learns what became of it.  Which answer it reads is not
\* followed here.
RunJob(ok, reached) ==
  /\ running.op # "none"
  /\ ok /\ ~late => reached
  /\ \/ /\ running.op \in WritesConfig /\ ~running.hasRead /\ ok
        /\ running' = [running EXCEPT !.read = cc, !.hasRead = TRUE]
        /\ UNCHANGED <<override, working, cc, answer, overtaken>>
     \/ /\ running.op \in WritesConfig => running.hasRead \/ ~reached
        /\ Ready(ok)
        /\ override' = IF running.op = "set_override" /\ reached THEN running.node ELSE override
        /\ working' = IF running.op = "read_override" /\ reached THEN Over(override, general) ELSE working
        /\ cc' = IF running.op \in WritesConfig /\ reached THEN Config(running.read, running.conf) ELSE cc
        /\ overtaken' = (overtaken \/ (reached /\ Overtakes))
  /\ late' \in {late, late \/ (~ok /\ reached)}
  /\ UNCHANGED <<general, others, prefsVars, logVars, waitingFor, jobs, userVars, delivered>>

\* The same happens to another job of the host.
AnswerComesLate ==
  /\ running.op = "none" /\ ~late
  /\ late' = TRUE
  /\ UNCHANGED <<clientVars, prefsVars, logVars, flowVars, userVars, overtaken, delivered>>

-----------------------------------------------------------------------------
(* The user opens and closes dialogs (one at a time, bound).               *)

Idle == dialog = "none" /\ waitingFor = "none" /\ ~dangling

\* The preferences are loaded before the dialog is opened.
ShowPreferences ==
  /\ Group # {}
  /\ Idle /\ dialogs < MaxDialogs /\ Len(jobs) < MaxJobs
  /\ Subscribe(Job("get_working"))
  /\ dialogs' = dialogs + 1
  /\ UNCHANGED <<clientVars, prefsVars, logVars, dialog, touched, impatient, dangling, delivered, watchedVars>>

\* The flags are loaded while the dialog shows its progress animation.
ShowEventLogOptions ==
  /\ Group = {}
  /\ Idle /\ dialogs < MaxDialogs /\ Len(jobs) < MaxJobs
  /\ Subscribe(Job("get_cc"))
  /\ dialog' = "event_log"
  /\ dialogs' = dialogs + 1
  /\ UNCHANGED <<clientVars, prefsVars, logVars, touched, impatient, dangling, delivered, watchedVars>>

\* What the dialog shows of a preference that is on.
Shown(f) == IF f \in Times THEN WithDefault(prefs[f]) ELSE prefs[f]

\* save_: the signal, then the dialog is closed.
SavePreferences ==
  /\ Editing
  /\ Subscribe([Job("set_override") EXCEPT !.node = Override(prefs, mask)])
  /\ saved' = {[f \in {g \in Group : mask[g] \/ g \in Weekdays} |-> Shown(f)]}
  /\ delivered' = FALSE
  /\ dialog' = "none" /\ prefs' = <<>> /\ orig' = <<>> /\ mask' = <<>>
  /\ overtaken' = FALSE
  /\ UNCHANGED <<clientVars, logVars, dialogs, touched, impatient, dangling, late>>

ToggleFlag ==
  /\ dialog = "event_log" /\ waitingFor = "none" /\ ~dangling
  /\ flag' = ~flag
  /\ Touch
  /\ UNCHANGED <<clientVars, prefsVars, conf, flowVars, dialog, dialogs, impatient, dangling, delivered, watchedVars>>

ConfigJob(op) == [Job(op) EXCEPT !.conf = [conf EXCEPT !.flag = flag]]

\* Mutant: Save closes the dialog before the answer.
SaveFlagsAndClose(op) ==
  /\ dialog = "event_log" /\ waitingFor = "none" /\ ~dangling
  /\ Len(jobs) < MaxJobs
  /\ Subscribe(ConfigJob(op))
  /\ dialog' = IF op = "save_cc" THEN "none" ELSE dialog
  /\ UNCHANGED <<clientVars, prefsVars, logVars, dialogs, touched, impatient, dangling, delivered, watchedVars>>

\* Apply and Save: the configuration that was loaded, with the flags as they are.
SaveFlags(op) ==
  /\ dialog = "event_log" /\ waitingFor = "none" /\ ~dangling
  /\ Len(jobs) < MaxJobs
  /\ Subscribe(ConfigJob(op))
  /\ UNCHANGED <<clientVars, prefsVars, logVars, userVars, delivered, watchedVars>>

\* Cancel, Escape and the window's close button delete the dialog.  The subscription
\* stays, with the dialog's pointer in its handlers.
CloseDialog ==
  /\ dialog # "none" /\ ~dangling
  /\ dialog' = "none" /\ prefs' = <<>> /\ orig' = <<>> /\ mask' = <<>>
  /\ impatient' = (impatient \/ waitingFor # "none")
  /\ UNCHANGED <<clientVars, saved, logVars, flowVars, dialogs, touched, dangling, delivered, watchedVars>>

-----------------------------------------------------------------------------
(* The poller calls a subscription's handler with its answer or an error.  *)

\* Without an answer within 30 seconds the subscription ends with an error; the job
\* is run all the same.
Failed == [NoAnswer EXCEPT !.op = waitingFor]

Settled(a) ==
  \/ /\ a = answer /\ a.op # "none"
     /\ UNCHANGED <<jobs, running>>
  \/ /\ a = Failed /\ waitingFor # "none" /\ answer = NoAnswer
     /\ jobs' = [k \in DOMAIN jobs |-> [jobs[k] EXCEPT !.sub = FALSE]]
     /\ running' = [running EXCEPT !.sub = FALSE]

Done == waitingFor' = "none" /\ answer' = NoAnswer

\* The dialog appears when the preferences are there.
PreferencesLoaded(a) ==
  /\ a.op = "get_working"
  /\ Settled(a) /\ Done
  /\ IF a.ok
     THEN /\ orig' = ParsedPrefs(a.node)
          /\ prefs' = SetUpPrefs(orig')
          /\ mask' = SetUpMask(orig')
          /\ dialog' = "preferences"
          /\ touched' = FALSE
     ELSE UNCHANGED <<prefs, orig, mask, dialog, touched>>
  /\ UNCHANGED <<clientVars, saved, delivered, logVars, dialogs, impatient, dangling, watchedVars>>

\* The client reads the file that was written; if that fails nobody is told.
PreferencesSaved(a) ==
  /\ a.op = "set_override"
  /\ IF a.ok /\ a = answer
     THEN Subscribe(Job("read_override"))
     ELSE Settled(a) /\ Done
  /\ UNCHANGED <<clientVars, prefsVars, logVars, userVars, delivered, watchedVars>>

PreferencesRead(a) ==
  /\ a.op = "read_override"
  /\ Settled(a) /\ Done
  /\ delivered' = a.ok
  /\ UNCHANGED <<clientVars, prefsVars, logVars, userVars, watchedVars>>

\* A dialog that waited for nothing in vain is gone: its pointer dangles.
FlagsLoaded(a) ==
  /\ a.op = "get_cc"
  /\ Settled(a) /\ Done
  /\ dangling' = (dialog # "event_log")
  /\ conf' = IF a.ok THEN a.conf ELSE conf
  /\ flag' = IF a.ok THEN a.conf.flag ELSE flag
  /\ dialog' = IF a.ok THEN dialog ELSE "none"
  /\ touched' = FALSE
  /\ UNCHANGED <<clientVars, prefsVars, delivered, dialogs, impatient, watchedVars>>

FlagsSaved(a) ==
  /\ a.op \in WritesConfig
  /\ Settled(a) /\ Done
  /\ dangling' = (dialog # "event_log")
  /\ dialog' = IF a.ok /\ a.op = "save_cc" THEN "none" ELSE dialog
  /\ UNCHANGED <<clientVars, prefsVars, logVars, delivered, dialogs, touched, impatient, watchedVars>>

PollerStep ==
  /\ ~dangling
  /\ \E a \in {answer, Failed} :
       PreferencesLoaded(a) \/ PreferencesSaved(a) \/ PreferencesRead(a) \/ FlagsLoaded(a) \/ FlagsSaved(a)

-----------------------------------------------------------------------------
(* Another manager.                                                        *)

OtherSetsPreference(f, v) ==
  /\ others < MaxOthers /\ others' = others + 1
  /\ f \in Group /\ f \notin Switches \cup InUse
  /\ override' = Over([g \in {f} |-> v], override)
  /\ working' = Over(override', general)
  /\ saved' = {}
  /\ delivered' = FALSE
  /\ UNCHANGED <<general, cc, prefs, orig, mask, logVars, flowVars, userVars, watchedVars>>

OtherSetsConfig(c) ==
  /\ others < MaxOthers /\ others' = others + 1
  /\ c # cc
  /\ cc' = c
  /\ UNCHANGED <<general, override, working, prefsVars, logVars, flowVars, userVars, delivered, watchedVars>>

UserStep ==
  \/ ShowPreferences \/ Edit \/ SavePreferences
  \/ ShowEventLogOptions \/ ToggleFlag \/ \E op \in WritesConfig : SaveFlags(op)
  \/ CloseDialog

OtherStep ==
  \/ \E f \in Group, v \in Amounts : OtherSetsPreference(f, v)
  \/ \E o, u \in {0, 1} : OtherSetsConfig([cc EXCEPT !.option = o, !.unread = u])

SettingsNext ==
  \/ UserStep
  \/ TakeJob \/ \E ok, reached \in BOOLEAN : RunJob(ok, reached)
  \/ AnswerComesLate
  \/ PollerStep
  \/ OtherStep

SettingsSpec == SettingsInit /\ [][SettingsNext]_settingsVars

-----------------------------------------------------------------------------
(* Properties.                                                             *)

\* What the user saw when the preferences were saved is what the client works with
\* once it has read them, whatever boxes were checked and unchecked on the way and
\* whatever the project's preferences say: a value that is shown has it, and a disk
\* or CPU limit that is off is off.  It holds neither for the days of the week, which
\* are never written, nor for times of the day, which are shown before they are set,
\* nor for the transfer period, where typing is undefined.  Two things spoil it: a save
\* that timed out in the queue, which the next dialog's save overtakes, and an answer
\* that is out of step.
DeliveredAsShown ==
  delivered /\ ~overtaken /\ ~late =>
    \A shown \in saved, f \in Group \ (Weekdays \cup Times \cup {"daily_xfer_period_days"}) :
      IF f \in DOMAIN shown THEN working[f] = shown[f]
      ELSE f \in AlwaysMapped => working[f] = 0

\* Options of the configuration that woinc does not write are never lost by saving
\* the flags, but for one change that falls between the two halves of SetCCConfig or an
\* answer that is out of step.
UnreadOptionsSurvive ==
  [][others' = others /\ cc'.unread # cc.unread /\ ~late =>
       running.hasRead /\ running.read.unread # cc.unread]_settingsVars

\* An answer finds its dialog unless the user has closed one that was waiting.
DialogOutlivesItsAnswers == dangling => impatient

\* Saving the log flags changes nothing else of cc_config.xml, if nobody else changes
\* it meanwhile, as the comment in SetCCConfig promises.  The code does not keep it: the
\* exclusive applications are put in under a tag that says exclusive__app.
SavingFlagsKeepsTheRest ==
  [][MaxOthers = 0 => cc' = [cc EXCEPT !.flag = cc'.flag]]_settingsVars
=============================================================================
