------------------------------- MODULE Woinccmd -------------------------------
(***************************************************************************)
(* woinccmd (ui/cli/main.cc): reads its arguments, connects, authorizes if *)
(* that is needed, executes the command (some send more than one, or ask   *)
(* for the result of what they started again and again) and exits.  Any    *)
(* failure ends the program.                                               *)
(*                                                                         *)
(* It is the other user of the connection (RpcConnection); which of the    *)
(* two a behaviour has is chosen at the start.                             *)
(***************************************************************************)
EXTENDS RpcConnection, CommandLine

CONSTANTS
  Lines,       \* command lines
  HostTexts,   \* texts for the host, given in HostLine
  MaxPolls     \* polls for a result, 60 in the code

ASSUME WoinccmdAssumption ==
  Lines \subseteq Seq(Words) /\ HostTexts \subseteq Seq(Letters) /\ MaxPolls \in Nat \ {0}

HostLine == <<"--host", "text", "--get_tasks">>

VARIABLES
  user,        \* of the connection: "worker" or "woinccmd"
  line, text,  \* the arguments, and the host among them
  args,        \* what is left of them
  stage,       \* of main
  host,        \* what the arguments say
  plan,        \* what is still to be sent
  remote,      \* the client is on another host
  authed, polls,
  answered,    \* commands that were executed
  detached,    \* a project was detached after the first of them
  failure,     \* "Failure" was printed
  exit         \* how the program ended

argumentVars == <<line, text, args, host>>
cliVars == <<user, argumentVars, stage, plan, remote, authed, polls, answered, detached, failure, exit>>
allVars == <<vars, cliVars>>

WoinccmdInit ==
  /\ Init
  /\ user \in {"worker", "woinccmd"}
  /\ \/ user = "worker" /\ line = <<>> /\ text = <<>>
     \/ user = "woinccmd" /\ line \in Lines /\ text = <<"h">>
     \/ user = "woinccmd" /\ line = HostLine /\ text \in HostTexts
  /\ args = line
  /\ stage = "host" /\ host = Valid(<<"h">>, NoPort)
  /\ plan = <<>> /\ remote = FALSE
  /\ authed = FALSE /\ polls = 0 /\ answered = 0 /\ detached = FALSE
  /\ failure = FALSE /\ exit = "none"

Running == user = "woinccmd" /\ exit = "none"

Goes(s) == stage' = s /\ exit' = "none"
Exits(how) == stage' = "exited" /\ exit' = how

-----------------------------------------------------------------------------
(* main: the arguments.                                                    *)

ReadHost ==
  /\ Running /\ stage = "host"
  /\ IF args = <<>> \/ args = <<"--host">>
     THEN Exits("failure") /\ UNCHANGED <<args, host>>
     ELSE IF args[1] # "--host"
     THEN Goes("passwd") /\ UNCHANGED <<args, host>>
     ELSE /\ host' = ParseHost(text)
          /\ IF host'.ok THEN Goes("passwd") ELSE Exits("failure")
          /\ args' = SubSeq(args, 3, Len(args))
  /\ UNCHANGED <<vars, user, line, text, plan, remote, authed, polls, answered, detached, failure>>

\* matches: the first of no words is undefined.
ReadPassword ==
  /\ Running /\ stage = "passwd"
  /\ IF args = <<>> THEN Exits("undefined") /\ UNCHANGED args
     ELSE IF args[1] # "--passwd" THEN Goes("version") /\ UNCHANGED args
     ELSE IF Len(args) = 1 THEN Exits("failure") /\ UNCHANGED args
     ELSE Goes("version") /\ args' = SubSeq(args, 3, Len(args))
  /\ UNCHANGED <<vars, user, line, text, host, plan, remote, authed, polls, answered, detached, failure>>

ReadCommand ==
  /\ Running /\ stage = "version"
  /\ IF args = <<>> THEN Exits("undefined") /\ UNCHANGED plan
     ELSE IF args[1] \in Informing
     THEN Exits(IF Len(args) = 1 THEN "success" ELSE "failure") /\ UNCHANGED plan
     ELSE IF args[1] \notin CommandNames THEN Exits("failure") /\ UNCHANGED plan
     ELSE LET parsed == ParseWords(args[1], Tail(args)) IN
          /\ CASE parsed = "taken" -> Goes("parsed")
               [] parsed = "refused" -> Exits("failure")
               [] OTHER -> Exits("undefined")
          /\ plan' = Commands[args[1]].plan
  /\ UNCHANGED <<vars, user, argumentVars, remote, authed, polls, answered, detached, failure>>

-----------------------------------------------------------------------------
(* Client: do_cmd connects and authorizes when it is called first.         *)

\* The socket is opened, or it can not be; nothing is left of the arguments.
Connect ==
  /\ Running /\ stage = "parsed"
  /\ \/ Goes("ready") /\ remote' \in BOOLEAN
     \/ Exits("failure") /\ UNCHANGED remote
  /\ line' = <<>> /\ text' = <<>> /\ args' = <<>> /\ host' = Valid(<<"h">>, NoPort)
  /\ UNCHANGED <<vars, user, plan, authed, polls, answered, detached, failure>>

\* What is asked without authorization, and what is told in the answer.
Public == {"query", "projects"}
Queried == Public \cup {"private"}

NeedsAuthorization == ~authed /\ (remote \/ Head(plan) \notin Public)

\* No password, a wrong one or the right one.
Authorize ==
  /\ Running /\ stage = "ready" /\ NeedsAuthorization
  /\ \/ Exits("failure") /\ UNCHANGED vars
     \/ Goes("authorizing") /\ \E good \in BOOLEAN : StartCommand("auth1", good)
  /\ UNCHANGED <<user, argumentVars, plan, remote, authed, polls, answered, detached, failure>>

Execute ==
  /\ Running /\ stage = "ready" /\ ~NeedsAuthorization
  /\ StartCommand(IF Head(plan) \in Public /\ ~remote THEN "query" ELSE "cmd", FALSE)
  /\ Goes("executing")
  /\ UNCHANGED <<user, argumentVars, plan, remote, authed, polls, answered, detached, failure>>

Authorized ==
  /\ Running /\ stage = "authorizing" /\ command = "none"
  /\ IF outcome.told = "authorized"
     THEN Goes("ready") /\ authed' = TRUE
     ELSE Exits("failure") /\ UNCHANGED authed
  /\ UNCHANGED <<vars, user, argumentVars, plan, remote, polls, answered, detached, failure>>

-----------------------------------------------------------------------------
(* The commands.                                                           *)

\* One command was executed; the program ends with the last.  get_statistics looks
\* for the project of each statistic in the second answer.
Proceed ==
  /\ plan' = Tail(plan)
  /\ answered' = answered + 1
  /\ CASE plan' # <<>> -> Goes("ready")
       [] plan = <<"projects">> /\ detached -> Exits("undefined")
       [] OTHER -> Exits("success")

\* Mutant: a poll that failed is made again.
PolledAgain ==
  /\ Running /\ stage = "executing" /\ command = "none"
  /\ Head(plan) = "poll"
  /\ IF outcome.told = "success" THEN Proceed /\ UNCHANGED polls
     ELSE /\ polls' = polls + 1
          /\ IF polls' < MaxPolls THEN Goes("ready") ELSE Exits("failure")
          /\ UNCHANGED <<plan, answered>>
  /\ UNCHANGED <<vars, user, argumentVars, remote, authed, detached, failure>>

\* execute_cmd_or_die_: everything but Ok.
CommandFailed ==
  /\ Running /\ stage = "executing" /\ command = "none"
  /\ outcome.told \in {"error", "auth_failed"} \/ (outcome.told = "no_success" /\ Head(plan) \in Queried)
  /\ Exits("failure")
  /\ UNCHANGED <<vars, user, argumentVars, plan, remote, authed, polls, answered, detached, failure>>

\* A query whose answer was parsed, an operation of any success, a start whose success
\* nobody looks at.
CommandExecuted ==
  /\ Running /\ stage = "executing" /\ command = "none"
  /\ Head(plan) # "poll"
  /\ outcome.told = "success" \/ (outcome.told = "no_success" /\ Head(plan) \notin Queried)
  /\ Proceed
  /\ failure' = (failure \/ (outcome.told = "no_success" /\ Head(plan) = "operation"))
  /\ UNCHANGED <<vars, user, argumentVars, remote, authed, polls, detached>>

\* The answer to a poll is the result, still in progress, or an error of the project.
Polled ==
  /\ Running /\ stage = "executing" /\ command = "none"
  /\ Head(plan) = "poll"
  /\ \/ outcome.told = "success" /\ Proceed /\ UNCHANGED polls
     \/ /\ outcome.told = "no_success"
        /\ polls' = polls + 1
        /\ \/ polls' < MaxPolls /\ Goes("ready")
           \/ Exits("failure")
        /\ UNCHANGED <<plan, answered>>
  /\ UNCHANGED <<vars, user, argumentVars, remote, authed, detached, failure>>

ClientDetachesProject ==
  /\ Running /\ answered = 1 /\ ~detached
  /\ detached' = TRUE
  /\ UNCHANGED <<vars, user, argumentVars, stage, plan, remote, authed, polls, answered, failure, exit>>

MainStep ==
  \/ ReadHost \/ ReadPassword \/ ReadCommand \/ Connect
  \/ Authorize \/ Execute \/ Authorized
  \/ CommandFailed \/ CommandExecuted \/ Polled

Ended == exit # "none" /\ UNCHANGED allVars

WoinccmdNext ==
  \/ user = "worker" /\ Next /\ UNCHANGED cliVars
  \/ user = "woinccmd" /\ WorkerStep /\ UNCHANGED cliVars
  \/ user = "woinccmd" /\ stage \in {"authorizing", "executing"}
     /\ (ClientAnswers \/ ClientCloses) /\ UNCHANGED cliVars
  \/ MainStep
  \/ ClientDetachesProject
  \/ Ended

WoinccmdSpec ==
  /\ WoinccmdInit /\ [][WoinccmdNext]_allVars
  /\ WF_allVars(WorkerStep /\ UNCHANGED cliVars)
  /\ WF_allVars(MainStep)

-----------------------------------------------------------------------------
(* Properties.                                                             *)

\* woinccmd takes every line that its usage text shows, refuses every other one, and
\* takes from a host what is written there.  Not so for a mode without its duration,
\* which is taken, for --get_statistics alone, for a line that ends where an option may
\* follow, and for the hosts that it misreads.
ArgumentsAreReadAsDocumented ==
  user = "woinccmd" /\ line # <<>> =>
    /\ stage = "parsed" =>
         /\ Documented(line) \/ WithoutDuration(line)
         /\ Says(text, ParseHost(text)) \/ Misread(text)
    /\ exit = "failure" => ~(Documented(line) /\ Meaningful(text))
    /\ exit = "undefined" => ~Documented(line) \/ Last(line) = "--get_statistics"

\* It gives up with the first failure, so no answer it acts on belongs to an earlier
\* request, and when it ends well without a word the client has done what it was told.
WoinccmdTellsTheTruth ==
  user = "woinccmd" =>
    /\ OwnReply
    /\ authed => authorized
    /\ exit = "success" /\ answered > 0 /\ ~failure => outcome.told = "success" /\ outcome.id \in done

\* Every command of a worker returns and woinccmd ends, whatever the client does.
EverythingEnds == CommandReturns /\ (user = "woinccmd" ~> exit # "none")
=============================================================================
