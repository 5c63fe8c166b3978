-------------------------- MODULE AddProjectWizard --------------------------
(***************************************************************************)
(* The wizard that attaches a project                                      *)
(* (ui/qt/dialogs/add_project_wizard.cc), as ui/qt/gui.cc opens it, with   *)
(* the subscriptions of ui/qt/controller.cc and the host's queue of jobs   *)
(* behind it.                                                              *)
(*                                                                         *)
(* Its pages: choose a project, identify the account (the project's        *)
(* configuration is loaded first), attach (an account key is looked up     *)
(* first if none was typed), done.  Starting an operation and polling for  *)
(* its result are requests; one the user has left behind is answered all   *)
(* the same, on the page it was made by.                                   *)
(***************************************************************************)
EXTENDS Naturals, Sequences, FiniteSets

CONSTANTS
  Urls,        \* projects
  NoUrl,
  MaxVisits,   \* bound: how often the user presses Next
  MaxPolls,    \* POLLING_TIMEOUT_SECS in polls
  MaxGivenUp   \* bound: requests that wait to be run though nobody waits for them

ASSUME WizardAssumption ==
  NoUrl \notin Urls /\ MaxVisits \in Nat /\ MaxPolls \in Nat /\ MaxGivenUp \in Nat

VARIABLES
  page,        \* the current page, "closed" after that
  visits,      \* how often Next was pressed
  list,        \* of projects: "loading", "shown", or "gone" with its page
  url,         \* the field project_url
  login,       \* what is typed of email, password and account_key
  formShown,   \* the account page shows its form, not the animation
  timers,      \* poll_config_timer_ and poll_timer_: the pages whose timer runs
  polls,       \* polls since polling_start_, per page
  linked,      \* pages whose signals are connected to the wizard
  target,      \* project_url_ of the attach page
  requests,    \* jobs and subscriptions, in the order they were made
  boxes,       \* pages with an open error message, the topmost first
  events,      \* queued signals
  lookup,      \* the client: the project of the account lookup it started last
  attached,    \* the client: projects it has attached, with the key it was given
  rushed,      \* the user pressed Commit
  hasty,       \* pages that were left backwards while they waited for an answer
  replaced,    \* a lookup whose start was given up has replaced the client's last one
  outOfStep    \* an answer of the client was not waited for, and is still to be read

clientOfWizard == <<lookup, attached>>
fields == <<url, login>>
pageVars == <<list, formShown, timers, polls, linked, target>>
watched == <<rushed, hasty>>
mishaps == <<replaced, outOfStep>>
wizardVars ==
  <<page, visits, fields, pageVars, requests, boxes, events, clientOfWizard, watched, mishaps>>

AttachOps == {"start_lookup", "poll_lookup", "attach"}
ConfigOps == {"start_config", "poll_config"}

Waiting(ops) == \E k \in DOMAIN requests : requests[k].waiting /\ requests[k].op \in ops

Request(op, u, k) ==
  [op |-> op, url |-> u, key |-> k, status |-> "queued", waiting |-> TRUE, result |-> "none"]

\* Opening the wizard shows its first page, which loads the list of projects.
WizardInit ==
  /\ page = "choose" /\ visits = 0
  /\ list = "loading" /\ url = NoUrl /\ login = "none"
  /\ formShown = FALSE /\ timers = {} /\ polls = [p \in {"account", "attach"} |-> 0]
  /\ linked = {} /\ target = NoUrl
  /\ requests = <<Request("list", NoUrl, NoUrl)>>
  /\ boxes = <<>> /\ events = <<>>
  /\ lookup = NoUrl /\ attached = {}
  /\ rushed = FALSE /\ hasty = {}
  /\ replaced = FALSE /\ outOfStep = FALSE

-----------------------------------------------------------------------------
(* Pages are entered forwards with initializePage and left backwards with  *)
(* cleanupPage; signals are queued behind those that wait already.         *)

EnterAccount(queued) ==
  /\ page' = "account"
  /\ linked' = linked \cup {"account"}
  /\ requests' = Append(requests, Request("start_config", url, NoUrl))
  /\ events' = queued
  /\ UNCHANGED <<fields, list, formShown, timers, polls, target, hasty>>

\* Mutant: the project is remembered once.
EnterAttachAgain(queued) ==
  /\ page' = "attach"
  /\ linked' = linked \cup {"attach"}
  /\ target' = IF target = NoUrl THEN url ELSE target
  /\ events' = Append(queued, IF login = "key" THEN <<"attach", url>> ELSE <<"lookup", url>>)
  /\ UNCHANGED <<fields, list, formShown, timers, polls, requests, hasty>>

\* A typed key is the one of the project that was chosen.
EnterAttach(queued) ==
  /\ page' = "attach"
  /\ linked' = linked \cup {"attach"}
  /\ target' = url
  /\ events' = Append(queued, IF login = "key" THEN <<"attach", url>> ELSE <<"lookup", url>>)
  /\ UNCHANGED <<fields, list, formShown, timers, polls, requests, hasty>>

EnterDone(queued) ==
  /\ page' = "done"
  /\ events' = queued
  /\ UNCHANGED <<fields, pageVars, requests, hasty>>

\* The fields of the page are cleared.
LeaveAccount ==
  /\ page' = "choose"
  /\ login' = "none"
  /\ formShown' = FALSE
  /\ timers' = timers \ {"account"}
  /\ linked' = linked \ {"account"}
  /\ hasty' = IF Waiting(ConfigOps) THEN hasty \cup {"account"} ELSE hasty
  /\ UNCHANGED <<url, list, polls, target, requests>>

LeaveAttach ==
  /\ page' = "account"
  /\ timers' = timers \ {"attach"}
  /\ linked' = linked \ {"attach"}
  /\ hasty' = IF Waiting(AttachOps) THEN hasty \cup {"attach"} ELSE hasty
  /\ UNCHANGED <<fields, list, formShown, polls, target, requests>>

LeaveDone ==
  /\ page' = "attach"
  /\ UNCHANGED <<fields, pageVars, requests, hasty>>

Forward(queued) ==
  \/ page = "choose" /\ EnterAccount(queued)
  \/ page = "account" /\ EnterAttach(queued)
  \/ page = "attach" /\ EnterDone(queued)

Backward ==
  \/ page = "account" /\ LeaveAccount
  \/ page = "attach" /\ LeaveAttach
  \/ page = "done" /\ LeaveDone

-----------------------------------------------------------------------------
(* The user; queued signals come before the next input.                    *)

UsersTurn == page # "closed" /\ boxes = <<>> /\ events = <<>>

\* Selecting a project, or typing its address.
ChooseUrl(u) ==
  /\ UsersTurn /\ page = "choose" /\ list = "shown"
  /\ url' = u
  /\ UNCHANGED <<page, visits, login, pageVars, requests, boxes, events, clientOfWizard, watched, mishaps>>

TypeLogin(l) ==
  /\ UsersTurn /\ page = "account" /\ formShown
  /\ login' = l
  /\ UNCHANGED <<page, visits, url, pageVars, requests, boxes, events, clientOfWizard, watched, mishaps>>

\* isComplete of the two pages.
PressNext ==
  /\ UsersTurn /\ visits < MaxVisits
  /\ \/ page = "choose" /\ url # NoUrl
     \/ page = "account" /\ login # "none"
  /\ Forward(events)
  /\ visits' = visits + 1
  /\ UNCHANGED <<boxes, clientOfWizard, rushed, mishaps>>

\* The attach page does not say when it is complete, so Commit is always enabled.
PressCommit ==
  /\ UsersTurn /\ page = "attach"
  /\ Forward(events)
  /\ rushed' = TRUE
  /\ UNCHANGED <<visits, boxes, clientOfWizard, mishaps>>

\* There is no way back over a page that was committed.
PressBack ==
  /\ UsersTurn /\ page \in {"account", "attach"}
  /\ Backward
  /\ UNCHANGED <<visits, boxes, events, clientOfWizard, rushed, mishaps>>

\* Cancel, Finish and the window's close button delete the wizard.
CloseWizard ==
  /\ UsersTurn
  /\ page' = "closed"
  /\ UNCHANGED <<visits, fields, pageVars, requests, boxes, events, clientOfWizard, watched, mishaps>>

\* The list's error closes its page, but not the wizard; the others go back.
ConfirmError ==
  /\ boxes # <<>>
  /\ boxes' = Tail(boxes)
  /\ IF Head(boxes) = "choose"
     THEN list' = "gone" /\ UNCHANGED events
     ELSE /\ events' = IF Head(boxes) \in linked THEN Append(events, <<"back", NoUrl>>) ELSE events
          /\ UNCHANGED list
  /\ UNCHANGED <<page, visits, fields, formShown, timers, polls, linked, target, requests, clientOfWizard, watched, mishaps>>

-----------------------------------------------------------------------------
(* Queued signals, and timers.                                             *)

\* project_attached goes to the next page, go_back and failed to the previous one, if
\* there is one.  An error message has an event loop of its own: nothing waits for it.
MovePage ==
  /\ events # <<>>
  /\ \/ /\ Head(events)[1] = "next"
        /\ \/ Forward(Tail(events))
           \/ /\ page = "done"
              /\ events' = Tail(events)
              /\ UNCHANGED <<page, fields, pageVars, requests, hasty>>
     \/ /\ Head(events)[1] = "back"
        /\ \/ Backward
           \/ page = "choose" /\ UNCHANGED <<page, fields, pageVars, requests, hasty>>
        /\ events' = Tail(events)
  /\ UNCHANGED <<visits, boxes, clientOfWizard, rushed, mishaps>>

\* load_account_key_ and attach_project_, for the project of the page.
AskForTarget ==
  /\ events # <<>>
  /\ Head(events)[1] \in {"lookup", "attach"}
  /\ requests' = Append(requests,
       IF Head(events)[1] = "lookup"
       THEN Request("start_lookup", target, NoUrl)
       ELSE Request("attach", target, Head(events)[2]))
  /\ events' = Tail(events)
  /\ UNCHANGED <<page, visits, fields, pageVars, boxes, clientOfWizard, watched, mishaps>>

TimerFires(p) ==
  /\ page # "closed" /\ p \in timers
  /\ timers' = timers \ {p}
  /\ requests' = Append(requests,
       Request(IF p = "account" THEN "poll_config" ELSE "poll_lookup", NoUrl, NoUrl))
  /\ UNCHANGED <<page, visits, fields, list, formShown, polls, linked, target, boxes, events, clientOfWizard, watched, mishaps>>

-----------------------------------------------------------------------------
(* Requests: run by the host's worker, the newest first, and answered by   *)
(* the poller.                                                             *)

\* A request is forgotten when it was run and nobody waits for its answer.
Kept(rs, k) ==
  IF rs[k].status = "run" /\ ~rs[k].waiting
  THEN [j \in 1..(Len(rs) - 1) |-> IF j < k THEN rs[j] ELSE rs[j + 1]]
  ELSE rs

Busy == \E k \in DOMAIN requests : requests[k].status = "running"

\* schedule_now_ puts a command in front of those that wait already.
TakeRequest ==
  /\ ~Busy
  /\ \E k \in DOMAIN requests :
       /\ requests[k].status = "queued"
       /\ \A j \in DOMAIN requests : j > k => requests[j].status # "queued"
       /\ requests' = [requests EXCEPT ![k].status = "running"]
  /\ UNCHANGED <<page, visits, fields, pageVars, boxes, events, clientOfWizard, watched, mishaps>>

Results(op) ==
  IF op \in {"poll_config", "poll_lookup"} THEN {"ok", "busy", "error"} ELSE {"ok", "error"}

\* A lookup is started for a page that has given up on it, after the newer ones.
Replaces(r) ==
  /\ r.op = "start_lookup" /\ ~r.waiting
  /\ \A j \in DOMAIN requests :
       requests[j].op = "start_lookup" /\ requests[j].waiting => requests[j].status = "run"

\* The client's answer to a poll is about the lookup that was started last.  What fails
\* may have reached the client: the connection was closed, or the answer did not come in
\* time and is read by the next request instead of its own.  Which answer that one reads
\* is not followed here.
RunRequest(result, reached) ==
  /\ \E k \in DOMAIN requests :
       /\ requests[k].status = "running"
       /\ result \in Results(requests[k].op)
       /\ result # "error" /\ ~outOfStep => reached
       /\ LET r == requests[k] IN
          /\ requests' = Kept([requests EXCEPT ![k] =
               [r EXCEPT !.status = "run", !.result = result,
                         !.key = IF r.op = "poll_lookup" /\ result = "ok" THEN lookup ELSE @]], k)
          /\ lookup' = IF r.op = "start_lookup" /\ reached THEN r.url ELSE lookup
          /\ attached' = IF r.op = "attach" /\ reached
                         THEN attached \cup {<<r.url, r.key>>} ELSE attached
          /\ replaced' = (replaced \/ (reached /\ Replaces(r)))
  /\ outOfStep' \in {outOfStep, outOfStep \/ (result = "error" /\ reached)}
  /\ UNCHANGED <<page, visits, fields, pageVars, boxes, events, watched>>

\* The same happens to another job of the host.
FallsOutOfStep ==
  /\ ~Busy /\ ~outOfStep
  /\ outOfStep' = TRUE
  /\ UNCHANGED <<page, visits, fields, pageVars, requests, boxes, events, clientOfWizard, watched, replaced>>

\* on_error_ of both pages.
ShowError(p) ==
  /\ timers' = timers \ {p}
  /\ boxes' = <<p>> \o boxes
  /\ UNCHANGED <<list, formShown, polls, events>>

PageOf(op) == IF op \in ConfigOps THEN "account" ELSE "attach"

ListLoaded(r) ==
  /\ r.op = "list"
  /\ IF r.result = "ok"
     THEN list' = "shown" /\ UNCHANGED boxes
     ELSE boxes' = <<"choose">> \o boxes /\ UNCHANGED list
  /\ UNCHANGED <<formShown, timers, polls, events>>

Started(r) ==
  /\ r.op \in {"start_config", "start_lookup"}
  /\ LET p == PageOf(r.op) IN
     IF r.result = "ok"
     THEN /\ polls' = [polls EXCEPT ![p] = 0]
          /\ timers' = timers \cup {p}
          /\ UNCHANGED <<list, formShown, boxes, events>>
     ELSE ShowError(p)

\* Mutant: an answer that is not there yet is not asked for again.
PolledOnce(r) ==
  /\ r.op \in {"poll_config", "poll_lookup"}
  /\ LET p == PageOf(r.op) IN
     CASE r.result = "ok" ->
            /\ timers' = timers \ {p}
            /\ formShown' = (formShown \/ p = "account")
            /\ events' = IF p = "attach" THEN Append(events, <<"attach", r.key>>) ELSE events
            /\ UNCHANGED <<list, polls, boxes>>
       [] r.result = "busy" -> UNCHANGED <<list, formShown, events, polls, timers, boxes>>
       [] OTHER -> ShowError(p)

\* Still loading is asked for again for 30 seconds.
Polled(r) ==
  /\ r.op \in {"poll_config", "poll_lookup"}
  /\ LET p == PageOf(r.op) IN
     \/ /\ r.result = "ok" /\ p = "account"
        /\ timers' = timers \ {p}
        /\ formShown' = TRUE
        /\ UNCHANGED <<list, polls, boxes, events>>
     \/ /\ r.result = "ok" /\ p = "attach"
        /\ events' = Append(events, <<"attach", r.key>>)
        /\ UNCHANGED <<list, formShown, timers, polls, boxes>>
     \/ /\ r.result = "busy" /\ polls[p] < MaxPolls
        /\ polls' = [polls EXCEPT ![p] = @ + 1]
        /\ timers' = timers \cup {p}
        /\ UNCHANGED <<list, formShown, boxes, events>>
     \/ /\ r.result = "error" \/ (r.result = "busy" /\ polls[p] = MaxPolls)
        /\ ShowError(p)

AttachAnswered(r) ==
  /\ r.op = "attach"
  /\ IF r.result = "ok"
     THEN /\ events' = IF "attach" \in linked THEN Append(events, <<"next", NoUrl>>) ELSE events
          /\ UNCHANGED <<list, formShown, timers, polls, boxes>>
     ELSE ShowError("attach")

\* A subscription ends with its answer or, 30 seconds after the ones before it, without.
\* When the wizard was closed nothing is left to be told: its handlers use deleted pages.
Answered ==
  /\ page # "closed"
  /\ \E k \in DOMAIN requests :
       LET has == requests[k].status = "run"
           r == [requests[k] EXCEPT !.result = IF has THEN @ ELSE "error"] IN
       /\ requests[k].waiting
       /\ has \/ /\ \A j \in 1..(k - 1) : ~requests[j].waiting
                 /\ Cardinality({j \in DOMAIN requests : ~requests[j].waiting}) < MaxGivenUp
       /\ ListLoaded(r) \/ Started(r) \/ Polled(r) \/ AttachAnswered(r)
       /\ requests' = Kept([requests EXCEPT ![k].waiting = FALSE], k)
  /\ UNCHANGED <<page, visits, fields, linked, target, clientOfWizard, watched, mishaps>>

WizardNext ==
  \/ \E u \in Urls : ChooseUrl(u)
  \/ \E l \in {"mail", "key"} : TypeLogin(l)
  \/ PressNext \/ PressCommit \/ PressBack \/ CloseWizard \/ ConfirmError
  \/ MovePage \/ AskForTarget
  \/ \E p \in {"account", "attach"} : TimerFires(p)
  \/ TakeRequest
  \/ \E result \in {"ok", "busy", "error"}, reached \in BOOLEAN : RunRequest(result, reached)
  \/ FallsOutOfStep \/ Answered

WizardSpec == WizardInit /\ [][WizardNext]_wizardVars

-----------------------------------------------------------------------------
(* Properties.                                                             *)

\* No project is attached with the account key of another one, and the last page
\* says that the project was added only if the client has attached the one that is
\* in the field.  The user may spoil it: by going back while an answer is on its way,
\* which then counts for the next project, or by pressing Commit while the project
\* is being attached.  So may two things that happen later: a lookup that was given up
\* starts after the next one, and an answer is out of step.
AttachedAsShown ==
  hasty = {} /\ ~replaced /\ ~outOfStep =>
    /\ \A a \in attached : a[1] = a[2]
    /\ page = "done" /\ ~rushed => <<url, url>> \in attached

\* A page never waits for nothing: while it shows its animation a request is on its
\* way, a timer runs, an error is shown or the page is about to be left.
WaitingIsDriven ==
  hasty = {} =>
    /\ page = "account" /\ ~formShown =>
         Waiting(ConfigOps) \/ "account" \in timers \/ boxes # <<>> \/ events # <<>>
    /\ page = "attach" /\ ~rushed =>
         Waiting(AttachOps) \/ "attach" \in timers \/ boxes # <<>> \/ events # <<>>
=============================================================================
