---------------------------- MODULE RpcConnection ----------------------------
(***************************************************************************)
(* One connection to a BOINC client: the socket (lib/src/socket_posix.cc), *)
(* the request-response exchange over it (lib/src/rpc_connection.cc), the  *)
(* commands made of one or two exchanges (lib/src/rpc_command.cc) and what *)
(* the jobs make of their status (libui/src/jobs.cc).  The worker thread   *)
(* is the only user, so it executes one command after the other.           *)
(*                                                                         *)
(* A request is a number; the streams carry the messages of the protocol   *)
(* with the request they belong to, which the program itself cannot see.   *)
(* A reply is a body and an end mark (EOM), read in chunks of any size.    *)
(***************************************************************************)
EXTENDS Naturals, Sequences, SequencesExt

CONSTANTS
  MaxRequests,   \* bound: requests sent on the connection
  Failures       \* what may go wrong: a subset of FailureKinds

FailureKinds == {"timeout", "send", "close"}

ASSUME ConnectionAssumption == MaxRequests \in Nat /\ Failures \subseteq FailureKinds

VARIABLES
  open,        \* the BOINC client has not closed its end
  command,     \* the command the worker executes
  request,     \* the number of the latest request
  nonce,       \* the number of the request whose nonce the command was given
  goodPassword,   \* the password of the command is the right one
  chunks,      \* what do_rpc has read of the response so far
  receiving,   \* do_rpc is in its receive loop
  failed,      \* history: an exchange has failed
  outcome,     \* what the job made of the last command
  toClient,    \* requests on their way, or in the client's buffer
  toUs,        \* replies on their way, or in our buffer
  issued,      \* BOINC client: the request it last gave a nonce to
  authorized,  \* BOINC client: the connection is authorized
  done         \* BOINC client: the requests it executed with success

worker == <<command, request, nonce, goodPassword, chunks, receiving, failed, outcome>>
client == <<issued, authorized, done>>
vars == <<open, worker, toClient, toUs, client>>

\* The two exchanges of AuthorizeCommand, and any command of one exchange, which
\* differ in what they ask for: a query needs no authorization on the client's own
\* host.  And what a reply may say to them; busy is any answer but success.
Kinds == {"auth1", "auth2", "cmd", "query"}
Contents == {"nonce", "authorized", "unauthorized", "success", "busy", "error"}

\* `whole' is missing from a request whose end mark could not be sent.
Request == [id : 1..MaxRequests, kind : Kinds \cup {"garbled"}, nonce : 0..MaxRequests,
            good : BOOLEAN, whole : BOOLEAN]

Symbol == [id : 1..MaxRequests, content : Contents \cup {"EOM"}]

\* A reply without an error may still say that the operation had no success.
Outcomes == {"none", "authorized", "auth_failed", "success", "no_success", "error"}

TypeOK ==
  /\ {open, goodPassword, receiving, failed, authorized} \subseteq BOOLEAN
  /\ command \in Kinds \cup {"none"}
  /\ {request, nonce, issued} \subseteq 0..MaxRequests
  /\ chunks \in Seq(Symbol) /\ toUs \in Seq(Symbol)
  /\ toClient \in Seq(Request)
  /\ outcome \in [told : Outcomes, id : 0..MaxRequests, reply : 0..MaxRequests]
  /\ done \subseteq 1..MaxRequests

Init ==
  /\ open = TRUE
  /\ command = "none" /\ request = 0 /\ nonce = 0 /\ goodPassword = FALSE
  /\ chunks = <<>> /\ receiving = FALSE /\ failed = FALSE
  /\ outcome = [told |-> "none", id |-> 0, reply |-> 0]
  /\ toClient = <<>> /\ toUs = <<>>
  /\ issued = 0 /\ authorized = FALSE /\ done = {}

-----------------------------------------------------------------------------
(* The worker starts a command; the first request of an authorization asks *)
(* for a nonce.                                                            *)

StartCommand(kind, good) ==
  /\ command = "none"
  /\ request + (IF kind = "auth1" THEN 2 ELSE 1) <= MaxRequests
  /\ good => kind = "auth1"
  /\ command' = kind
  /\ goodPassword' = good
  /\ UNCHANGED <<open, request, nonce, chunks, receiving, failed, outcome, toClient, toUs, client>>

\* The command ends in request id with `told', judged by a reply to request r,
\* 0 for none.
Ends(told, id, r) ==
  /\ command' = "none"
  /\ outcome' = [told |-> told, id |-> id, reply |-> r]

\* The exchange fails; the connection is left as it is.
Fails(id) ==
  /\ Ends("error", id, 0)
  /\ failed' = TRUE
  /\ receiving' = FALSE
  /\ chunks' = <<>>
  /\ UNCHANGED <<nonce, goodPassword>>

-----------------------------------------------------------------------------
(* do_rpc: send.                                                           *)

\* A request that follows one without its end mark is one message with it.
Sent(whole) ==
  LET req == [id |-> request + 1, kind |-> command, nonce |-> nonce, good |-> goodPassword,
              whole |-> whole]
  IN IF toClient # <<>> /\ ~Last(toClient).whole
     THEN Append(Front(toClient), [req EXCEPT !.kind = "garbled"])
     ELSE Append(toClient, req)

Sending ==
  /\ command # "none" /\ ~receiving
  /\ request' = request + 1

Send ==
  /\ Sending
  /\ receiving' = TRUE
  /\ toClient' = IF open THEN Sent(TRUE) ELSE toClient
  /\ UNCHANGED <<open, command, nonce, goodPassword, chunks, failed, outcome, toUs, client>>

\* send() fails or sends less than it was given, before or at the end mark.
SendFails ==
  /\ "send" \in Failures \/ ~open
  /\ Sending
  /\ Fails(request + 1)
  /\ toClient' \in {toClient} \cup (IF open THEN {Sent(FALSE)} ELSE {})
  /\ UNCHANGED <<open, toUs, client>>

-----------------------------------------------------------------------------
(* do_rpc: the receive loop.                                               *)

\* Mutant: the loop ends with the first chunk.
EndsAnywhere(n) == TRUE

\* The chunk made of the next n symbols ends in the end mark.
EndsInMark(n) == toUs[n].content = "EOM"

\* A chunk that does not end in the end mark: the loop goes on.
ReceivePart ==
  /\ receiving
  /\ \E n \in 1..Len(toUs) :
       /\ ~EndsInMark(n)
       /\ chunks' = chunks \o SubSeq(toUs, 1, n)
       /\ toUs' = SubSeq(toUs, n + 1, Len(toUs))
  /\ UNCHANGED <<open, command, request, nonce, goodPassword, receiving, failed, outcome,
                 toClient, client>>

\* What was read with the chunk, and the root elements in it: the parser skips end
\* marks around them.
Received(n) == chunks \o SubSeq(toUs, 1, n)

Roots(n) == {k \in DOMAIN Received(n) : Received(n)[k].content # "EOM"}

\* How the command goes on: the second request of an authorization, or its end.
\* AuthorizationJob takes Ok for authorized and a command's success is the tag.
Result(content) ==
  CASE content = "unauthorized" -> "auth_failed"
    [] content = "error" -> "error"
    [] OTHER -> CASE command = "auth1" -> IF content = "nonce" THEN "next" ELSE "error"
                  [] command = "auth2" -> "authorized"
                  [] OTHER -> IF content = "success" THEN "success" ELSE "no_success"

\* Mutant: the nonce is not kept for the second request.
NonceOfNobody(reply) == 0

NonceOf(reply) == reply.id

\* The command goes on with its second request, or ends, as the reply says.
Judge(reply) ==
  LET result == Result(reply.content) IN
  IF result = "next"
  THEN command' = "auth2" /\ nonce' = NonceOf(reply) /\ UNCHANGED outcome
  ELSE Ends(result, request, reply.id) /\ UNCHANGED nonce

\* A chunk that ends in the end mark ends the exchange.  A response with no root
\* element or more than one is not parsed.
ReceiveEnd ==
  /\ receiving
  /\ \E n \in 1..Len(toUs) :
       /\ EndsInMark(n)
       /\ toUs' = SubSeq(toUs, n + 1, Len(toUs))
       /\ \/ \E k \in Roots(n) : Roots(n) = {k} /\ Judge(Received(n)[k])
          \/ /\ \A k \in Roots(n) : Roots(n) # {k}
             /\ Ends("error", request, 0) /\ UNCHANGED nonce
  /\ receiving' = FALSE
  /\ chunks' = <<>>
  /\ UNCHANGED <<open, request, goodPassword, failed, toClient, client>>

\* Mutant: no timeout is set on the socket.
ReceiveBlocks == FALSE /\ UNCHANGED vars

\* recv() returns nothing for ten seconds; what is on its way comes too late.
ReceiveTimesOut ==
  /\ "timeout" \in Failures
  /\ receiving
  /\ Fails(request)
  /\ UNCHANGED <<open, request, toClient, toUs, client>>

\* recv() returns 0.
ReceiveDisconnected ==
  /\ receiving /\ toUs = <<>> /\ ~open
  /\ Fails(request)
  /\ UNCHANGED <<open, request, toClient, toUs, client>>

-----------------------------------------------------------------------------
(* The BOINC client: answers its requests in order.                        *)

\* What it may answer to a request.
Answers(req) ==
  CASE req.kind = "garbled" -> {"error"}
    [] req.kind = "auth1" -> {"nonce"}
    [] req.kind = "auth2" -> IF req.good /\ req.nonce = issued THEN {"authorized"} ELSE {"unauthorized"}
    [] OTHER -> IF authorized \/ req.kind = "query" THEN {"success", "busy", "error"}
                ELSE {"unauthorized"}

ClientAnswers ==
  /\ open
  /\ toClient # <<>> /\ Head(toClient).whole
  /\ LET req == Head(toClient) IN
     \E content \in Answers(req) :
       /\ toUs' = toUs \o <<[id |-> req.id, content |-> content], [id |-> req.id, content |-> "EOM"]>>
       /\ issued' = IF content = "nonce" THEN req.id ELSE issued
       /\ authorized' = (authorized \/ content = "authorized")
       /\ done' = IF content = "success" THEN done \cup {req.id} ELSE done
  /\ toClient' = Tail(toClient)
  /\ UNCHANGED <<open, worker>>

ClientCloses ==
  /\ "close" \in Failures
  /\ open
  /\ open' = FALSE
  /\ toClient' = <<>>
  /\ UNCHANGED <<worker, toUs, client>>

-----------------------------------------------------------------------------
WorkerStep ==
  Send \/ SendFails \/ ReceivePart \/ ReceiveEnd \/ ReceiveTimesOut \/ ReceiveDisconnected

\* The bound is reached.
Exhausted == command = "none" /\ request = MaxRequests /\ UNCHANGED vars

Next ==
  \/ \E kind \in {"auth1", "cmd"}, good \in BOOLEAN : StartCommand(kind, good)
  \/ WorkerStep
  \/ ClientAnswers \/ ClientCloses
  \/ Exhausted

Spec == Init /\ [][Next]_vars

\* The worker goes on; a blocked recv() returns after its timeout.  The BOINC
\* client need not answer.
FairSpec == Spec /\ WF_vars(WorkerStep)

-----------------------------------------------------------------------------
(* Properties.                                                             *)

\* A command that is told to have succeeded was executed by the client, and the
\* answer it was judged by is its own.
OwnReply ==
  /\ outcome.reply # 0 => outcome.reply = outcome.id
  /\ outcome.told = "success" => outcome.id \in done

\* on_host_authorized is told only when the client has authorized us.
AuthorizedIsTrue == outcome.told = "authorized" => authorized

\* As long as no exchange has failed, both hold: neither the chunks a reply
\* comes in nor the two exchanges of an authorization can mix up replies.
TrueUntilFailure == failed \/ (OwnReply /\ AuthorizedIsTrue)

\* The right password is not refused, as long as no exchange has failed: the
\* second request of an authorization answers the latest nonce.
GoodPasswordAccepted ==
  (~failed /\ command = "none" /\ goodPassword) => outcome.told # "auth_failed"

\* Every command returns, whatever the client does.
CommandReturns == command # "none" ~> command = "none"
=============================================================================
