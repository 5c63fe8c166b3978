----------------------------- MODULE CommandLine -----------------------------
(***************************************************************************)
(* What woinccmd makes of its arguments (ui/cli/main.cc): the host, the    *)
(* password, the command and the words after it.                           *)
(*                                                                         *)
(* A word of the command line is an option, the name of a command, or what *)
(* it can be used for: a "number", an "op" (the name of an operation or a  *)
(* mode of the command, or one of "user" and "host"), or another "text".   *)
(* The program is built with the commands of its own.  Only the host       *)
(* is looked at letter by letter: a text is made of brackets, colons,      *)
(* digits ("1") and letters ("h").                                         *)
(***************************************************************************)
EXTENDS Naturals, FiniteSets, Sequences, SequencesExt

Shape(words, op, optional, plan) ==
  [words |-> words, op |-> op, optional |-> optional, plan |-> plan]

\* Sent without authorization to a client on this host, and with it.
Queries ==
  {"--client_version", "--get_cc_status", "--get_disk_usage", "--get_file_transfers",
   "--get_host_info", "--get_project_status", "--get_state", "--get_tasks", "--estimate_times"}
Operations ==
  {"--network_available", "--quit", "--read_cc_config", "--read_global_prefs_override",
   "--run_benchmarks"}
ModeOperations == {"--set_run_mode", "--set_gpu_mode", "--set_network_mode"}

CommandNames ==
  Queries \cup Operations \cup ModeOperations \cup
    {"--get_messages", "--get_notices", "--get_project_config", "--lookup_account",
     "--project", "--project_attach", "--task", "--file_transfer",
     "--get_statistics", "--sum_remaining_cpu_time", "--show_tasks_statistics"}

\* words: that are needed, the op-th of them is an operation; optional: what may
\* follow; plan: what is sent to the client.  A "private" query needs authorization;
\* the answer to a query for "projects" must have those of the statistics before it.
Commands ==
  [c \in CommandNames |->
     CASE c \in Queries -> Shape(0, 0, "none", <<"query">>)
       [] c \in Operations -> Shape(0, 0, "none", <<"operation">>)
       [] c \in ModeOperations -> Shape(1, 1, "number", <<"operation">>)
       [] c = "--get_messages" -> Shape(0, 0, "number", <<"query">>)
       [] c = "--get_notices" -> Shape(0, 0, "number", <<"private">>)
       [] c = "--get_project_config" -> Shape(1, 0, "none", <<"start", "poll">>)
       [] c = "--lookup_account" -> Shape(3, 0, "none", <<"start", "poll">>)
       [] c = "--project" -> Shape(2, 2, "none", <<"operation">>)
       [] c = "--project_attach" -> Shape(2, 0, "none", <<"operation">>)
       [] c \in {"--task", "--file_transfer"} -> Shape(3, 3, "none", <<"operation">>)
       [] c = "--get_statistics" -> Shape(0, 0, "op", <<"query", "projects">>)
       [] c = "--sum_remaining_cpu_time" -> Shape(0, 0, "none", <<"query", "query">>)
       [] OTHER -> Shape(0, 0, "none", <<"query", "query", "query">>)]

\* Those that end the program at once, if they are alone.
Informing == {"-v", "--version", "-?", "-h", "--help"}

Options == {"--host", "--passwd"} \cup Informing

Words == Options \cup CommandNames \cup {"number", "op", "text"}

-----------------------------------------------------------------------------
(* The host.                                                               *)

Letters == {"[", "]", ":", "h", "1"}

NoPort == <<>>

Invalid == [ok |-> FALSE, host |-> <<>>, port |-> NoPort]
Valid(host, port) == [ok |-> TRUE, host |-> host, port |-> port]

\* parse_port: a number that reads the same when it is written again.
IsPort(t) == t # <<>> /\ \A k \in DOMAIN t : t[k] = "1"

WithPort(host, port) == IF IsPort(port) THEN Valid(host, port) ELSE Invalid

FirstOf(t, c) == SelectInSeq(t, LAMBDA x : x = c)
LastOf(t, c) == SelectLastInSeq(t, LAMBDA x : x = c)

\* Mutant: the port is what follows the last colon.
HostBeforeLastColon(t) ==
  IF LastOf(t, ":") = 0 THEN Valid(t, NoPort)
  ELSE WithPort(SubSeq(t, 1, LastOf(t, ":") - 1), SubSeq(t, LastOf(t, ":") + 1, Len(t)))

\* A single colon is followed by the port; with more of them it is an IPv6 address.
PlainHost(t) ==
  IF FirstOf(t, ":") = LastOf(t, ":") /\ FirstOf(t, ":") # 0
  THEN WithPort(SubSeq(t, 1, FirstOf(t, ":") - 1), SubSeq(t, FirstOf(t, ":") + 1, Len(t)))
  ELSE Valid(t, NoPort)

\* Brackets are for an address with a port.
BracketedHost(t) ==
  LET idx == LastOf(t, "]") IN
  IF idx \in {0, 2, Len(t)} \/ (idx < Len(t) /\ t[idx + 1] # ":") THEN Invalid
  ELSE IF idx + 1 < Len(t) THEN WithPort(SubSeq(t, 2, idx - 1), SubSeq(t, idx + 2, Len(t)))
  ELSE Valid(SubSeq(t, 2, Len(t) - 1), NoPort)

ParseHost(t) == IF t # <<>> /\ t[1] = "[" THEN BracketedHost(t) ELSE PlainHost(t)

\* What a host argument may say: host, host:port or [address]:port.
Says(t, r) ==
  /\ r.host # <<>>
  /\ \/ t = <<"[">> \o r.host \o <<"]", ":">> \o r.port /\ IsPort(r.port)
     \/ t = r.host \o <<":">> \o r.port /\ IsPort(r.port) /\ t[1] # "[" /\ LastOf(r.host, ":") = 0
     \/ t = r.host /\ r.port = NoPort /\ t[1] # "[" /\ Cardinality({k \in DOMAIN t : t[k] = ":"}) # 1

Meaningful(t) ==
  \E i, j \in DOMAIN t, k \in 1..(Len(t) + 1) : Says(t, Valid(SubSeq(t, i, j), SubSeq(t, k, Len(t))))

\* A host that is not there, and an address in brackets with a colon but no port,
\* which is taken with its bracket.
Misread(t) ==
  \/ t = <<>> \/ LastOf(t, ":") = 1
  \/ Len(t) > 3 /\ t[1] = "[" /\ t[Len(t) - 1] = "]" /\ t[Len(t)] = ":"

-----------------------------------------------------------------------------
(* The words after the command.                                            *)

\* The optional word of --get_statistics is looked at even if it is not there.
ParseWords(c, words) ==
  LET needed == Commands[c].words
      rest == SubSeq(words, needed + 1, Len(words))
      optional == Commands[c].optional
  IN IF Len(words) < needed \/ (Commands[c].op > 0 /\ words[Commands[c].op] # "op") THEN "refused"
     ELSE IF rest = <<>> THEN IF optional = "op" THEN "undefined" ELSE "taken"
     ELSE IF Len(rest) = 1 /\ rest[1] = optional THEN "taken"
     ELSE "refused"

\* The commands that the usage text shows, and the lines: two of the operations that
\* set a mode are shown with a duration that is not optional.
DurationShown == {"--set_gpu_mode", "--set_network_mode"}

DocumentedCommand(rest) ==
  \/ rest[1] \in Informing /\ Len(rest) = 1
  \/ \E c \in CommandNames, more \in {0, 1} :
       /\ rest[1] = c
       /\ Len(rest) = 1 + Commands[c].words + more
       /\ Commands[c].op > 0 => rest[1 + Commands[c].op] = "op"
       /\ more = 1 => rest[Len(rest)] = Commands[c].optional
       /\ c \in DurationShown => more = 1

Documented(line) ==
  \E h, p \in {0, 2} :
    /\ h + p < Len(line)
    /\ h = 2 => line[1] = "--host"
    /\ p = 2 => line[h + 1] = "--passwd"
    /\ DocumentedCommand(SubSeq(line, h + p + 1, Len(line)))

\* A mode without the duration that is shown with it.
WithoutDuration(line) ==
  Len(line) > 1 /\ line[Len(line) - 1] \in DurationShown /\ Last(line) = "op"
=============================================================================
