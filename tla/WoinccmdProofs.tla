--------------------------- MODULE WoinccmdProofs ---------------------------
(***************************************************************************)
(* The proofs of the connection and of the program that uses it.           *)
(*                                                                         *)
(* As long as no exchange has failed, the answers of a connection are told *)
(* apart: the streams then hold the one exchange the worker is in and      *)
(* nothing else, which is what the invariant of the connection says.       *)
(*                                                                         *)
(* On top of it, woinccmd tells the truth: the program ends with the first *)
(* exchange that fails, so it never reads an answer after one.             *)
(*                                                                         *)
(* Its arguments, of any length, are read as the usage text documents:     *)
(* what parse_host takes apart is what the text says.                      *)
(***************************************************************************)
EXTENDS Woinccmd, SequenceTheorems, WellFoundedInduction, FiniteSetTheorems, TLAPS

-----------------------------------------------------------------------------
(* The inductive invariant.                                                *)

\* How far the requests have got: one more is free, or two for an authorization.
Counted ==
  /\ command = "none" => ~receiving
  /\ receiving => request \in 1..MaxRequests
  /\ command \notin {"none", "auth1"} /\ ~receiving => request + 1 <= MaxRequests
  /\ command = "auth1" => request + (IF receiving THEN 1 ELSE 2) <= MaxRequests

\* The request of the exchange.
OwnRequest ==
  [id |-> request, kind |-> command, nonce |-> nonce, good |-> goodPassword, whole |-> TRUE]

OwnMark == [id |-> request, content |-> "EOM"]

\* What the BOINC client may answer it, and what is true when it has.
MayAnswer(content) ==
  CASE command = "auth1" -> content = "nonce" /\ issued = request
    [] command = "auth2" -> \/ content = "authorized" /\ authorized
                            \/ content = "unauthorized" /\ ~goodPassword
    [] OTHER -> \/ content = "success" /\ request \in done
                \/ content \in {"busy", "error", "unauthorized"}

OwnAnswer(s) == s.id = request /\ MayAnswer(s.content)

\* The four states of the streams while the worker waits for its answer: the request
\* is on its way, the reply is, the worker has read its body, the connection is closed.
Asked == Len(toClient) = 1 /\ toClient[1] = OwnRequest /\ toUs = <<>> /\ chunks = <<>> /\ open
Answered == toClient = <<>> /\ chunks = <<>> /\ Len(toUs) = 2 /\ OwnAnswer(toUs[1]) /\ toUs[2] = OwnMark
PartlyRead == /\ toClient = <<>>
              /\ Len(chunks) = 1 /\ OwnAnswer(chunks[1])
              /\ Len(toUs) = 1 /\ toUs[1] = OwnMark
Lost == toClient = <<>> /\ toUs = <<>> /\ chunks = <<>> /\ ~open

Streams ==
  IF receiving THEN Asked \/ Answered \/ PartlyRead \/ Lost
  ELSE toClient = <<>> /\ toUs = <<>> /\ chunks = <<>>

\* The nonce of the command is the latest; only an authorization has a password.
Authorizing ==
  /\ command = "auth2" => nonce = issued
  /\ command \in {"cmd", "query"} => ~goodPassword

InStep == Streams /\ Authorizing /\ OwnReply /\ AuthorizedIsTrue

IInv == TypeOK /\ Counted /\ (failed \/ InStep) /\ GoodPasswordAccepted

LEMMA InitIInv == Init => IInv
<1> SUFFICES ASSUME Init PROVE IInv
  OBVIOUS
<1>1. TypeOK
  <2>1. {open, goodPassword, receiving, failed, authorized} \subseteq BOOLEAN
    BY Zenon DEF Init
  <2>2. chunks \in Seq(Symbol) /\ toUs \in Seq(Symbol) /\ toClient \in Seq(Request)
    BY DEF Init
  <2>3. outcome \in [told : Outcomes, id : 0..MaxRequests, reply : 0..MaxRequests]
    BY ConnectionAssumption DEF Init, Outcomes
  <2>4. QED
    BY <2>1, <2>2, <2>3, ConnectionAssumption DEF Init, TypeOK
<1>2. QED
  BY <1>1, ConnectionAssumption
  DEF Init, IInv, Counted, InStep, Streams, Authorizing, OwnReply, AuthorizedIsTrue,
      GoodPasswordAccepted

\* Nothing changes.
LEMMA StutterIInv ==
  ASSUME IInv, UNCHANGED vars
  PROVE  IInv'
BY DEF IInv, vars, worker, client, TypeOK, Counted, InStep, Streams, Asked, Answered, PartlyRead,
       Lost, OwnRequest, OwnMark, OwnAnswer, MayAnswer, Authorizing, OwnReply, AuthorizedIsTrue,
       GoodPasswordAccepted

LEMMA StartCommandIInv ==
  ASSUME IInv, NEW kind \in {"auth1", "cmd", "query"}, NEW good \in BOOLEAN,
         StartCommand(kind, good)
  PROVE  IInv'
<1> USE DEF IInv, StartCommand, client
<1>1. TypeOK'
  BY DEF TypeOK, Kinds
<1>2. Counted'
  BY DEF Counted, TypeOK
<1>3. failed' \/ InStep'
  BY DEF InStep, Counted, Streams, Authorizing, OwnReply, AuthorizedIsTrue
<1>4. GoodPasswordAccepted'
  BY DEF GoodPasswordAccepted
<1>5. QED
  BY <1>1, <1>2, <1>3, <1>4

\* A request goes out, alone or as one with what was sent of the one before.
LEMMA SentType ==
  ASSUME TypeOK, Counted, command # "none", ~receiving, NEW whole \in BOOLEAN
  PROVE  /\ request + 1 \in 1..MaxRequests
         /\ Sent(whole) \in Seq(Request)
<1> DEFINE req == [id |-> request + 1, kind |-> command, nonce |-> nonce, good |-> goodPassword,
                   whole |-> whole]
<1>1. request + 1 \in 1..MaxRequests
  BY ConnectionAssumption DEF TypeOK, Counted
<1>2. req \in Request /\ [req EXCEPT !.kind = "garbled"] \in Request
  BY <1>1 DEF TypeOK, Request
<1>3. toClient \in Seq(Request)
  BY DEF TypeOK
<1> HIDE DEF req
<1>4. Append(toClient, req) \in Seq(Request)
  BY <1>2, <1>3, AppendProperties
<1>5. ASSUME toClient # <<>>
      PROVE  Front(toClient) \in Seq(Request)
  <2>1. Len(toClient) \in Nat
    BY <1>3, LenProperties
  <2>2. \A i \in 1..(Len(toClient) - 1) : toClient[i] \in Request
    BY <1>3, <2>1, ElementOfSeq
  <2>3. SubSeq(toClient, 1, Len(toClient) - 1) \in Seq(Request)
    BY <2>1, <2>2, SubSeqProperties
  <2>4. QED
    BY <2>3 DEF Front
<1>6. toClient # <<>> => Append(Front(toClient), [req EXCEPT !.kind = "garbled"]) \in Seq(Request)
  BY <1>2, <1>5, AppendProperties
<1>7. Sent(whole) \in Seq(Request)
  BY <1>4, <1>6 DEF Sent, req
<1>8. QED
  BY <1>1, <1>7

LEMMA AppendToEmpty ==
  ASSUME NEW elt
  PROVE  Len(Append(<<>>, elt)) = 1 /\ Append(<<>>, elt)[1] = elt
<1>1. <<>> \in Seq({elt}) /\ Len(<<>>) = 0
  BY EmptySeq
<1>2. QED
  BY <1>1, AppendProperties

LEMMA SendIInv ==
  ASSUME IInv, Send
  PROVE  IInv'
<1> USE DEF IInv, Send, Sending, client
<1>1. request + 1 \in 1..MaxRequests /\ Sent(TRUE) \in Seq(Request)
  BY SentType
<1>2. TypeOK'
  <2>1. {open', goodPassword', receiving', failed', authorized'} \subseteq BOOLEAN
    BY Zenon DEF TypeOK
  <2>2. toClient' \in Seq(Request)
    BY <1>1 DEF TypeOK
  <2>3. request' \in 0..MaxRequests
    BY <1>1
  <2>4. QED
    BY <2>1, <2>2, <2>3 DEF TypeOK
<1>3. Counted'
  BY <1>1 DEF Counted, TypeOK
<1>4. ASSUME ~failed
      PROVE  InStep'
  <2>1. toClient = <<>> /\ toUs = <<>> /\ chunks = <<>>
    BY <1>4 DEF InStep, Streams
  <2>2. CASE open
    <3>1. toClient' = Append(<<>>, OwnRequest')
      <4>1. toClient' = Sent(TRUE)
        BY <2>2
      <4>2. Sent(TRUE) = Append(<<>>, [id |-> request + 1, kind |-> command, nonce |-> nonce,
                                       good |-> goodPassword, whole |-> TRUE])
        BY <2>1 DEF Sent
      <4>3. QED
        BY <4>1, <4>2 DEF OwnRequest
    <3>2. Len(toClient') = 1 /\ toClient'[1] = OwnRequest'
      BY ONLY <3>1, AppendToEmpty
    <3>3. Asked'
      BY <2>1, <2>2, <3>2 DEF Asked
    <3>4. QED
      BY <1>4, <3>3 DEF InStep, Streams, Authorizing, OwnReply, AuthorizedIsTrue
  <2>3. CASE ~open
    BY <1>4, <2>1, <2>3 DEF InStep, Streams, Lost, Authorizing, OwnReply, AuthorizedIsTrue
  <2>4. QED
    BY <2>2, <2>3
<1>5. GoodPasswordAccepted'
  BY DEF GoodPasswordAccepted
<1>6. QED
  BY <1>2, <1>3, <1>4, <1>5

\* An exchange that fails leaves nothing to be shown of the streams.
LEMMA FailsIInv ==
  ASSUME IInv, NEW id \in 0..MaxRequests, Fails(id), request' \in 0..MaxRequests,
         UNCHANGED <<open, toUs, client>>, toClient' \in Seq(Request)
  PROVE  IInv'
<1> USE DEF IInv, Fails, Ends, client
<1>1. TypeOK'
  <2>1. {open', goodPassword', receiving', failed', authorized'} \subseteq BOOLEAN
    BY Zenon DEF TypeOK
  <2>2. outcome' \in [told : Outcomes, id : 0..MaxRequests, reply : 0..MaxRequests]
    BY ConnectionAssumption DEF Outcomes
  <2>3. chunks' \in Seq(Symbol)
    OBVIOUS
  <2>4. QED
    BY <2>1, <2>2, <2>3 DEF TypeOK
<1>2. Counted'
  BY DEF Counted
<1>3. QED
  BY <1>1, <1>2 DEF GoodPasswordAccepted

LEMMA SendFailsIInv ==
  ASSUME IInv, SendFails
  PROVE  IInv'
<1>1. request + 1 \in 1..MaxRequests /\ Sent(FALSE) \in Seq(Request)
  BY SentType DEF IInv, SendFails, Sending
<1>2. toClient' \in Seq(Request)
  BY <1>1 DEF IInv, TypeOK, SendFails
<1>3. QED
  BY <1>1, <1>2, FailsIInv DEF SendFails, Sending

LEMMA ReceiveTimesOutIInv ==
  ASSUME IInv, ReceiveTimesOut
  PROVE  IInv'
BY FailsIInv DEF ReceiveTimesOut, IInv, TypeOK

LEMMA ReceiveDisconnectedIInv ==
  ASSUME IInv, ReceiveDisconnected
  PROVE  IInv'
BY FailsIInv DEF ReceiveDisconnected, IInv, TypeOK

\* The client answers the request it was sent; the streams hold nothing else.
LEMMA ClientAnswersIInv ==
  ASSUME IInv, ClientAnswers
  PROVE  IInv'
<1> USE DEF IInv, worker
<1>1. PICK req \in Request, content \in Contents :
        /\ req = Head(toClient)
        /\ content \in Answers(req)
        /\ toUs' = toUs \o <<[id |-> req.id, content |-> content], [id |-> req.id, content |-> "EOM"]>>
        /\ issued' = IF content = "nonce" THEN req.id ELSE issued
        /\ authorized' = (authorized \/ content = "authorized")
        /\ done' = IF content = "success" THEN done \cup {req.id} ELSE done
  <2>1. toClient \in Seq(Request) /\ toClient # <<>>
    BY DEF ClientAnswers, TypeOK
  <2>2. Head(toClient) \in Request
    BY <2>1, HeadTailProperties
  <2>3. Answers(Head(toClient)) \subseteq Contents
    BY DEF Answers, Contents
  <2>4. QED
    BY <2>2, <2>3 DEF ClientAnswers
<1>2. req.id \in 1..MaxRequests
  BY DEF Request
<1>3. PICK body \in Symbol, mark \in Symbol :
        /\ body = [id |-> req.id, content |-> content]
        /\ mark = [id |-> req.id, content |-> "EOM"]
  BY <1>2 DEF Symbol
<1>4. toUs' = toUs \o <<body, mark>>
  BY <1>1, <1>3
<1>5. toUs' \in Seq(Symbol) /\ toClient' \in Seq(Request)
  <2>1. toClient \in Seq(Request) /\ toClient # <<>> /\ toUs \in Seq(Symbol)
    BY DEF ClientAnswers, TypeOK
  <2>2. toClient' = Tail(toClient)
    BY DEF ClientAnswers
  <2>3. <<body, mark>> \in Seq(Symbol)
    OBVIOUS
  <2>4. toUs \o <<body, mark>> \in Seq(Symbol) /\ Tail(toClient) \in Seq(Request)
    BY <2>1, <2>3, ConcatProperties, HeadTailProperties
  <2>5. QED
    BY <2>2, <2>4, <1>4
<1>6. TypeOK'
  <2>1. {open', goodPassword', receiving', failed', authorized'} \subseteq BOOLEAN
    BY <1>1, Zenon DEF TypeOK, ClientAnswers
  <2>2. issued' \in 0..MaxRequests /\ done' \subseteq 1..MaxRequests
    <3>1. issued' \in {req.id, issued}
      BY <1>1
    <3>2. done' \subseteq done \cup {req.id}
      BY <1>1
    <3>3. issued \in 0..MaxRequests /\ done \subseteq 1..MaxRequests
      BY DEF TypeOK
    <3>4. req.id \in 0..MaxRequests
      BY <1>2
    <3> QED  BY <1>2, <3>1, <3>2, <3>3, <3>4
  <2>3. QED
    BY <1>5, <2>1, <2>2 DEF TypeOK, ClientAnswers
<1>7. Counted'
  BY DEF Counted, ClientAnswers
<1>8. OwnReply /\ AuthorizedIsTrue => OwnReply' /\ AuthorizedIsTrue'
  BY <1>1 DEF OwnReply, AuthorizedIsTrue, ClientAnswers
<1>9. ASSUME ~failed
      PROVE  InStep'
  <2>1. Asked /\ receiving
    BY <1>9 DEF InStep, Streams, Answered, PartlyRead, Lost, ClientAnswers
  <2>2. req = OwnRequest
    BY <1>1, <2>1 DEF Asked
  <2>3. req.id = request /\ req.kind = command /\ req.nonce = nonce /\ req.good = goodPassword
    BY <2>2 DEF OwnRequest
  <2>4. command \in Kinds
    BY <2>1 DEF TypeOK, Counted
  <2>5. MayAnswer(content)' /\ Authorizing'
    <3>1. request' = request /\ command' = command /\ nonce' = nonce /\ goodPassword' = goodPassword
      BY DEF ClientAnswers
    <3>2. content \in Answers(req) /\ Authorizing
      BY <1>1, <1>9 DEF InStep
    <3>3. CASE command = "auth1"
      BY <1>1, <2>3, <3>1, <3>2, <3>3 DEF Answers, MayAnswer, Authorizing
    <3>4. CASE command = "auth2"
      BY <1>1, <2>3, <3>1, <3>2, <3>4 DEF Answers, MayAnswer, Authorizing
    <3>5. CASE command \in {"cmd", "query"}
      BY <1>1, <2>3, <3>1, <3>2, <3>5 DEF Answers, MayAnswer, Authorizing
    <3>6. QED
      BY <2>4, <3>3, <3>4, <3>5 DEF Kinds
  <2>6. Len(toUs') = 2 /\ toUs'[1] = body /\ toUs'[2] = mark
    <3>1. toUs' = <<>> \o <<body, mark>>
      BY <1>4, <2>1 DEF Asked
    <3>2. <<body, mark>> \in Seq(Symbol)
      OBVIOUS
    <3>3. <<>> \o <<body, mark>> = <<body, mark>>
      BY ONLY <3>2, ConcatEmptySeq
    <3>4. QED
      BY <3>1, <3>3
  <2>7. toClient' = <<>>
    <3>1. toClient \in Seq(Request) /\ Len(toClient) = 1 /\ toClient # <<>> /\ toClient' = Tail(toClient)
      BY <2>1 DEF Asked, TypeOK, ClientAnswers
    <3>2. Len(Tail(toClient)) = 0 /\ Tail(toClient) \in Seq(Request)
      BY ONLY <3>1, HeadTailProperties
    <3>3. QED
      BY <3>1, <3>2, EmptySeq
  <2>8. chunks' = <<>> /\ receiving'
    BY <2>1 DEF Asked, ClientAnswers
  <2>9. Answered'
    BY <1>3, <2>3, <2>5, <2>6, <2>7, <2>8 DEF Answered, OwnAnswer, OwnMark, ClientAnswers
  <2>10. QED
    BY <1>8, <1>9, <2>5, <2>8, <2>9 DEF InStep, Streams
<1>10. GoodPasswordAccepted'
  BY DEF GoodPasswordAccepted, ClientAnswers
<1>11. QED
  BY <1>6, <1>7, <1>9, <1>10 DEF ClientAnswers

LEMMA ClientClosesIInv ==
  ASSUME IInv, ClientCloses
  PROVE  IInv'
<1> USE DEF IInv, ClientCloses, worker, client
<1>1. TypeOK'
  <2>1. {open', goodPassword', receiving', failed', authorized'} \subseteq BOOLEAN
    BY Zenon DEF TypeOK
  <2>2. toClient' \in Seq(Request)
    OBVIOUS
  <2>3. QED
    BY <2>1, <2>2 DEF TypeOK
<1>2. Counted' /\ GoodPasswordAccepted'
  BY DEF Counted, GoodPasswordAccepted
<1>3. OwnReply /\ AuthorizedIsTrue /\ Authorizing => OwnReply' /\ AuthorizedIsTrue' /\ Authorizing'
  BY DEF OwnReply, AuthorizedIsTrue, Authorizing
<1>4. Streams => Streams'
  BY DEF Streams, Asked, Answered, PartlyRead, Lost, OwnAnswer, OwnMark, MayAnswer
<1>5. QED
  BY <1>1, <1>2, <1>3, <1>4 DEF InStep

\* A chunk is moved from the front of the stream to what was read before.
LEMMA ChunkIsMoved ==
  ASSUME TypeOK, NEW n \in 1..Len(toUs)
  PROVE  /\ Received(n) \in Seq(Symbol)
         /\ Len(Received(n)) = Len(chunks) + n
         /\ \A k \in 1..Len(Received(n)) :
              Received(n)[k] = IF k <= Len(chunks) THEN chunks[k] ELSE toUs[k - Len(chunks)]
         /\ SubSeq(toUs, n + 1, Len(toUs)) \in Seq(Symbol)
         /\ Len(SubSeq(toUs, n + 1, Len(toUs))) = Len(toUs) - n
         /\ \A k \in 1..(Len(toUs) - n) : SubSeq(toUs, n + 1, Len(toUs))[k] = toUs[n + k]
<1>1. chunks \in Seq(Symbol) /\ toUs \in Seq(Symbol)
  BY DEF TypeOK
<1>2. Len(toUs) \in Nat /\ Len(chunks) \in Nat
  BY <1>1, LenProperties
<1>3. \A i \in 1..n : toUs[i] \in Symbol
  BY <1>1, <1>2, ElementOfSeq
<1>4. \A i \in (n + 1)..Len(toUs) : toUs[i] \in Symbol
  BY <1>1, <1>2, ElementOfSeq
<1>5. /\ SubSeq(toUs, 1, n) \in Seq(Symbol)
      /\ Len(SubSeq(toUs, 1, n)) = n
      /\ \A i \in 1..n : SubSeq(toUs, 1, n)[i] = toUs[i]
  BY <1>2, <1>3, SubSeqProperties
<1>6. /\ SubSeq(toUs, n + 1, Len(toUs)) \in Seq(Symbol)
      /\ Len(SubSeq(toUs, n + 1, Len(toUs))) = Len(toUs) - n
      /\ \A k \in 1..(Len(toUs) - n) : SubSeq(toUs, n + 1, Len(toUs))[k] = toUs[n + k]
  BY <1>2, <1>4, SubSeqProperties
<1>7. /\ Received(n) \in Seq(Symbol)
      /\ Len(Received(n)) = Len(chunks) + n
      /\ \A k \in 1..(Len(chunks) + n) :
           Received(n)[k] = IF k <= Len(chunks) THEN chunks[k] ELSE SubSeq(toUs, 1, n)[k - Len(chunks)]
  BY <1>1, <1>5, ConcatProperties DEF Received
<1>8. \A k \in 1..(Len(chunks) + n) : k > Len(chunks) => k - Len(chunks) \in 1..n
  BY <1>2
<1>9. QED
  BY <1>2, <1>5, <1>6, <1>7, <1>8

LEMMA ReceivePartIInv ==
  ASSUME IInv, ReceivePart
  PROVE  IInv'
<1> USE DEF IInv, ReceivePart, client
<1>1. PICK n \in 1..Len(toUs) :
        /\ ~EndsInMark(n)
        /\ chunks' = Received(n)
        /\ toUs' = SubSeq(toUs, n + 1, Len(toUs))
  BY DEF Received
<1>2. chunks' \in Seq(Symbol) /\ toUs' \in Seq(Symbol)
  BY <1>1, ChunkIsMoved
<1>3. TypeOK'
  <2>1. {open', goodPassword', receiving', failed', authorized'} \subseteq BOOLEAN
    BY Zenon DEF TypeOK
  <2>2. QED
    BY <1>2, <2>1 DEF TypeOK
<1>4. Counted' /\ GoodPasswordAccepted'
  BY DEF Counted, GoodPasswordAccepted
<1>5. ASSUME ~failed
      PROVE  InStep'
  <2>1. Streams /\ receiving
    BY <1>5 DEF InStep
  <2>2. toUs # <<>>
    BY <1>1
  <2>3. ~PartlyRead
    BY <1>1 DEF PartlyRead, EndsInMark, OwnMark
  <2>4. Answered
    BY <2>1, <2>2, <2>3 DEF Streams, Asked, Lost
  <2>5. n = 1
    BY <1>1, <2>4 DEF Answered, EndsInMark, OwnMark
  <2>6. Len(chunks) = 0
    BY <2>4 DEF Answered
  <2>7. /\ Len(chunks') = 1 /\ chunks'[1] = toUs[1]
        /\ Len(toUs') = 1 /\ toUs'[1] = toUs[2]
    BY <1>1, <2>4, <2>5, <2>6, ChunkIsMoved DEF Answered
  <2>8. PartlyRead'
    BY <2>4, <2>7 DEF Answered, PartlyRead, OwnAnswer, OwnMark, MayAnswer
  <2>9. QED
    BY <1>5, <2>1, <2>8 DEF InStep, Streams, Authorizing, OwnReply, AuthorizedIsTrue
<1>6. QED
  BY <1>3, <1>4, <1>5

\* As long as no exchange has failed, a chunk with an end mark completes the answer to
\* the request, and nothing is left.
LEMMA AnswerIsOwn ==
  ASSUME IInv, ~failed, receiving, NEW n \in 1..Len(toUs), EndsInMark(n)
  PROVE  /\ toClient = <<>> /\ SubSeq(toUs, n + 1, Len(toUs)) = <<>>
         /\ Roots(n) = {1}
         /\ OwnAnswer(Received(n)[1])
<1>1. TypeOK /\ Streams
  BY DEF IInv, InStep
<1>2. toUs # <<>>
  OBVIOUS
<1>3. \A c : MayAnswer(c) => c # "EOM"
  BY DEF MayAnswer
<1>4. CASE Answered
  <2>1. n = 2
    BY <1>3, <1>4 DEF Answered, EndsInMark, OwnAnswer
  <2>2. Len(chunks) = 0 /\ Len(toUs) = 2
    BY <1>4 DEF Answered
  <2>3. Len(Received(n)) = 2 /\ Received(n)[1] = toUs[1] /\ Received(n)[2] = toUs[2]
    BY <1>1, <2>1, <2>2, ChunkIsMoved
  <2>4. DOMAIN Received(n) = {1, 2}
    BY <1>1, <2>3, ChunkIsMoved
  <2>5. Roots(n) = {1} /\ OwnAnswer(Received(n)[1])
    BY <1>3, <1>4, <2>3, <2>4 DEF Roots, Answered, OwnAnswer, OwnMark
  <2>6. SubSeq(toUs, n + 1, Len(toUs)) = <<>>
    BY <2>1, <2>2
  <2>7. QED
    BY <1>4, <2>5, <2>6 DEF Answered
<1>5. CASE PartlyRead
  <2>1. n = 1 /\ Len(chunks) = 1 /\ Len(toUs) = 1
    BY <1>5 DEF PartlyRead
  <2>2. Len(Received(n)) = 2 /\ Received(n)[1] = chunks[1] /\ Received(n)[2] = toUs[1]
    BY <1>1, <2>1, ChunkIsMoved
  <2>3. DOMAIN Received(n) = {1, 2}
    BY <1>1, <2>2, ChunkIsMoved
  <2>4. Roots(n) = {1} /\ OwnAnswer(Received(n)[1])
    BY <1>3, <1>5, <2>2, <2>3 DEF Roots, PartlyRead, OwnAnswer, OwnMark
  <2>5. SubSeq(toUs, n + 1, Len(toUs)) = <<>>
    BY <2>1
  <2>6. QED
    BY <1>5, <2>4, <2>5 DEF PartlyRead
<1>6. QED
  BY <1>1, <1>2, <1>4, <1>5 DEF Streams, Asked, Lost

LEMMA ReceiveEndIInv ==
  ASSUME IInv, ReceiveEnd
  PROVE  IInv'
<1> USE DEF IInv, client
<1>1. PICK n \in 1..Len(toUs) :
        /\ EndsInMark(n)
        /\ toUs' = SubSeq(toUs, n + 1, Len(toUs))
        /\ \/ \E k \in Roots(n) : Roots(n) = {k} /\ Judge(Received(n)[k])
           \/ /\ \A k \in Roots(n) : Roots(n) # {k}
              /\ Ends("error", request, 0) /\ UNCHANGED nonce
  BY DEF ReceiveEnd
<1>2. /\ receiving /\ receiving' = FALSE /\ chunks' = <<>>
      /\ UNCHANGED <<open, request, goodPassword, failed, toClient, client>>
  BY DEF ReceiveEnd
<1>3. toUs' \in Seq(Symbol) /\ Received(n) \in Seq(Symbol)
  BY <1>1, ChunkIsMoved
<1>4. command \in Kinds /\ request \in 1..MaxRequests
  BY <1>2 DEF Counted, TypeOK
\* Authorization goes on with its second request, or the command ends.
<1>5. \/ command' = "auth2" /\ command = "auth1" /\ UNCHANGED outcome /\ nonce' \in 0..MaxRequests
      \/ /\ command' = "none" /\ UNCHANGED nonce
         /\ outcome' \in [told : Outcomes, id : {request}, reply : 0..MaxRequests]
  <2>1. CASE \E k \in Roots(n) : Roots(n) = {k} /\ Judge(Received(n)[k])
    <3>1. PICK reply \in Symbol : Judge(reply)
      BY <1>3, <2>1, LenProperties, ElementOfSeq DEF Roots
    <3>2. Result(reply.content) = "next" => command = "auth1"
      BY <1>4 DEF Result, Kinds
    <3>3. Result(reply.content) # "next" => Result(reply.content) \in Outcomes
      BY <1>4 DEF Result, Kinds, Outcomes
    <3>4. reply.id \in 0..MaxRequests
      BY DEF Symbol
    <3>5. QED
      BY <3>1, <3>2, <3>3, <3>4 DEF Judge, Ends, NonceOf
  <2>2. CASE Ends("error", request, 0) /\ UNCHANGED nonce
    BY <2>2, ConnectionAssumption DEF Ends, Outcomes
  <2>3. QED
    BY <1>1, <2>1, <2>2
<1>6. TypeOK'
  <2>1. {open', goodPassword', receiving', failed', authorized'} \subseteq BOOLEAN
    BY <1>2, Zenon DEF TypeOK
  <2>2. /\ command' \in Kinds \cup {"none"} /\ nonce' \in 0..MaxRequests
        /\ outcome' \in [told : Outcomes, id : 0..MaxRequests, reply : 0..MaxRequests]
    BY <1>4, <1>5 DEF Kinds, TypeOK
  <2>3. chunks' \in Seq(Symbol)
    BY <1>2
  <2>4. QED
    BY <1>2, <1>3, <2>1, <2>2, <2>3 DEF TypeOK
<1>7. Counted'
  BY <1>2, <1>5 DEF Counted, TypeOK
<1>8. failed => GoodPasswordAccepted'
  BY <1>2 DEF GoodPasswordAccepted
<1>9. ASSUME ~failed
      PROVE  InStep' /\ GoodPasswordAccepted'
  <2>1. toClient = <<>> /\ toUs' = <<>> /\ Roots(n) = {1} /\ OwnAnswer(Received(n)[1])
    BY <1>1, <1>2, <1>9, AnswerIsOwn
  <2>2. PICK reply : reply = Received(n)[1]
    OBVIOUS
  <2>3. Judge(reply) /\ reply.id = request /\ MayAnswer(reply.content)
    BY <1>1, <2>1, <2>2 DEF OwnAnswer
  <2>4. Streams'
    BY <1>2, <2>1 DEF Streams
  <2>5. Authorizing /\ OwnReply /\ AuthorizedIsTrue
    BY <1>9 DEF InStep
  <2>6. CASE command = "auth1"
    <3>1. Result(reply.content) = "next" /\ issued = request
      BY <2>3, <2>6 DEF MayAnswer, Result
    <3>2. command' = "auth2" /\ nonce' = issued' /\ UNCHANGED outcome
      BY <1>2, <2>3, <3>1 DEF Judge, NonceOf
    <3>3. QED
      BY <1>2, <2>4, <2>5, <3>2
      DEF InStep, Authorizing, OwnReply, AuthorizedIsTrue, GoodPasswordAccepted
  <2>7. CASE command = "auth2"
    <3>1. \/ Result(reply.content) = "authorized" /\ authorized
          \/ Result(reply.content) = "auth_failed" /\ ~goodPassword
      <4>1. CASE reply.content = "authorized" /\ authorized
        BY <2>7, <4>1 DEF Result
      <4>2. CASE reply.content = "unauthorized" /\ ~goodPassword
        BY <2>7, <4>2 DEF Result
      <4>3. (reply.content = "authorized" /\ authorized) \/ (reply.content = "unauthorized" /\ ~goodPassword)
        BY <2>3, <2>7 DEF MayAnswer
      <4>4. QED
        BY <4>1, <4>2, <4>3
    <3>2. command' = "none" /\ outcome' = [told |-> Result(reply.content), id |-> request, reply |-> request]
      BY <2>3, <3>1 DEF Judge, Ends
    <3>3. QED
      BY <1>2, <2>4, <3>1, <3>2
      DEF InStep, Authorizing, OwnReply, AuthorizedIsTrue, GoodPasswordAccepted
  <2>8. CASE command \in {"cmd", "query"}
    <3>1. /\ Result(reply.content) \in {"success", "no_success", "error", "auth_failed"}
          /\ Result(reply.content) = "success" => request \in done
          /\ ~goodPassword
      BY <2>3, <2>5, <2>8 DEF MayAnswer, Result, Authorizing
    <3>2. command' = "none" /\ outcome' = [told |-> Result(reply.content), id |-> request, reply |-> request]
      BY <2>3, <3>1 DEF Judge, Ends
    <3>3. QED
      BY <1>2, <2>4, <3>1, <3>2
      DEF InStep, Authorizing, OwnReply, AuthorizedIsTrue, GoodPasswordAccepted
  <2>9. QED
    BY <1>4, <2>6, <2>7, <2>8 DEF Kinds
<1>10. QED
  BY <1>2, <1>6, <1>7, <1>8, <1>9

LEMMA WorkerStepIInv ==
  ASSUME IInv, WorkerStep
  PROVE  IInv'
BY SendIInv, SendFailsIInv, ReceivePartIInv, ReceiveEndIInv, ReceiveTimesOutIInv,
   ReceiveDisconnectedIInv DEF WorkerStep

LEMMA NextIInv == IInv /\ [Next]_vars => IInv'
<1> SUFFICES ASSUME IInv, [Next]_vars PROVE IInv'
  OBVIOUS
<1>1. CASE \E kind \in {"auth1", "cmd"}, good \in BOOLEAN : StartCommand(kind, good)
  BY <1>1, StartCommandIInv
<1>2. CASE WorkerStep
  BY <1>2, WorkerStepIInv
<1>3. CASE ClientAnswers \/ ClientCloses
  BY <1>3, ClientAnswersIInv, ClientClosesIInv
<1>4. CASE Exhausted \/ UNCHANGED vars
  BY <1>4, StutterIInv DEF Exhausted
<1>5. QED
  BY <1>1, <1>2, <1>3, <1>4 DEF Next

THEOREM SpecIInv == Spec => []IInv
<1>1. QED
  BY InitIInv, NextIInv, PTL DEF Spec

-----------------------------------------------------------------------------
(* The theorems.                                                           *)

\* Every reachable state of a connection is of its type.
THEOREM TypeCorrect == Spec => []TypeOK
<1>1. IInv => TypeOK
  BY DEF IInv
<1>2. QED
  BY <1>1, SpecIInv, PTL

\* As long as no exchange of a connection has failed, however long it is used and in
\* whatever chunks the replies come, a command is told to have succeeded, or the host
\* to be authorized, only if the BOINC client has said so to this very request.
THEOREM TruthUntilFailure == Spec => []TrueUntilFailure
<1>1. IInv => TrueUntilFailure
  BY DEF IInv, InStep, TrueUntilFailure
<1>2. QED
  BY <1>1, SpecIInv, PTL

\* As long as no exchange of a connection has failed, an authorization with the right
\* password is never told to have been refused: the two requests of its handshake meet
\* the same nonce.
THEOREM GoodPasswordIsNeverRefused == Spec => []GoodPasswordAccepted
<1>1. IInv => GoodPasswordAccepted
  BY DEF IInv
<1>2. QED
  BY <1>1, SpecIInv, PTL

-----------------------------------------------------------------------------
(* The inductive invariant.                                                *)

\* What is still to be sent of a command.
Plans ==
  {<<>>, <<"query">>, <<"private">>, <<"operation">>, <<"poll">>, <<"projects">>,
   <<"start", "poll">>, <<"query", "query">>, <<"query", "projects">>,
   <<"query", "query", "query">>}

Reading == {"host", "passwd", "version"}

StageInv ==
  /\ stage \in Reading \cup {"parsed", "ready", "authorizing", "executing", "exited"}
  /\ exit \in {"none", "success", "failure", "undefined"}
  /\ stage = "exited" <=> exit # "none"
  /\ plan \in Plans
  /\ stage \in {"parsed", "ready", "authorizing", "executing"} => plan # <<>>
  /\ answered \in Nat
  /\ stage \in Reading \cup {"parsed"} => answered = 0
  /\ {authed, failure} \subseteq BOOLEAN

\* A command is executed in two stages only; an exchange that failed ended it, and ends
\* the program next.
FirstFailureEnds ==
  /\ command # "none" => stage \in {"authorizing", "executing"} /\ ~failed
  /\ failed => /\ command = "none" /\ outcome.told = "error" /\ outcome.reply = 0
               /\ stage \in {"authorizing", "executing"} \/ exit = "failure"

Truth ==
  /\ authed => authorized
  /\ exit = "success" /\ answered > 0 /\ ~failure => outcome.told = "success" /\ outcome.id \in done

ProgramInv == StageInv /\ (user = "woinccmd" => FirstFailureEnds /\ Truth)

WoinccmdInv == IInv /\ ProgramInv

LEMMA WoinccmdInitInv == WoinccmdInit => WoinccmdInv
<1> SUFFICES ASSUME WoinccmdInit PROVE WoinccmdInv
  OBVIOUS
<1>1. IInv
  BY InitIInv DEF WoinccmdInit
<1>2. StageInv
  <2>1. {authed, failure} \subseteq BOOLEAN
    BY Zenon DEF WoinccmdInit
  <2>2. QED
    BY <2>1 DEF WoinccmdInit, StageInv, Plans, Reading
<1>3. FirstFailureEnds /\ Truth
  BY DEF WoinccmdInit, Init, FirstFailureEnds, Truth
<1>4. QED
  BY <1>1, <1>2, <1>3 DEF WoinccmdInv, ProgramInv

\* Steps of the connection: the truth of what was told stays, and an exchange that
\* fails ends its command.
LEMMA ConnectionStepInv ==
  ASSUME WoinccmdInv, UNCHANGED cliVars,
         WorkerStep \/ (stage \in {"authorizing", "executing"} /\ (ClientAnswers \/ ClientCloses))
  PROVE  WoinccmdInv'
<1> USE DEF WoinccmdInv
<1>1. IInv'
  BY WorkerStepIInv, ClientAnswersIInv, ClientClosesIInv
<1>2. StageInv'
  BY DEF ProgramInv, StageInv, cliVars, argumentVars
<1>3. ASSUME user = "woinccmd"
      PROVE  FirstFailureEnds' /\ Truth'
  <2>1. FirstFailureEnds /\ Truth
    BY <1>3 DEF ProgramInv
  <2>2. UNCHANGED <<stage, exit, authed, answered, failure>>
    BY DEF cliVars
  <2>3. CASE ClientAnswers
    <3>1. UNCHANGED worker /\ (authorized => authorized') /\ done \subseteq done'
      BY <2>3 DEF ClientAnswers
    <3>2. QED
      BY <2>1, <2>2, <3>1 DEF FirstFailureEnds, Truth, worker
  <2>4. CASE ClientCloses
    BY <2>1, <2>2, <2>4 DEF FirstFailureEnds, Truth, worker, client, ClientCloses
  <2>5. CASE WorkerStep
    <3>1. command # "none" /\ UNCHANGED client
      BY <2>5 DEF WorkerStep, Send, SendFails, Sending, ReceivePart, ReceiveEnd, ReceiveTimesOut,
                  ReceiveDisconnected, client, IInv, Counted
    <3>2. stage \in {"authorizing", "executing"} /\ ~failed /\ exit = "none"
      BY <2>1, <3>1 DEF FirstFailureEnds, ProgramInv, StageInv
    <3>3. Truth'
      BY <2>1, <2>2, <3>1, <3>2 DEF Truth, client
    <3>4. \/ UNCHANGED failed
          \/ failed' /\ command' = "none" /\ outcome'.told = "error" /\ outcome'.reply = 0
      <4>1. (\E id : Fails(id)) \/ UNCHANGED failed
        BY <2>5 DEF WorkerStep, Send, SendFails, ReceivePart, ReceiveEnd, ReceiveTimesOut,
                    ReceiveDisconnected
      <4>2. QED
        BY <4>1 DEF Fails, Ends
    <3>5. FirstFailureEnds'
      BY <2>2, <3>2, <3>4 DEF FirstFailureEnds
    <3>6. QED
      BY <3>3, <3>5
  <2>6. QED
    BY <2>3, <2>4, <2>5
<1>4. QED
  BY <1>1, <1>2, <1>3 DEF ProgramInv, cliVars

\* Every command has one of the plans, and what is left of it when a command of it was
\* executed is one.
LEMMA PlansOfCommands == \A c \in CommandNames : Commands[c].plan \in Plans \ {<<>>}
BY DEF Commands, CommandNames, Shape, Plans

LEMMA PlanGoesOn ==
  ASSUME NEW p \in Plans, p # <<>>
  PROVE  /\ Tail(p) \in Plans
         /\ Head(p) \in {"query", "private", "projects", "operation", "start", "poll"}
         /\ Head(p) = "start" => Tail(p) # <<>>
<1>1. CASE p \in {<<"query">>, <<"private">>, <<"operation">>, <<"poll">>, <<"projects">>}
  <2>1. PICK word \in {"query", "private", "operation", "poll", "projects"} : p = <<word>>
    BY <1>1
  <2>2. Tail(<<word>>) = <<>> /\ Head(<<word>>) = word
    OBVIOUS
  <2>3. QED
    BY <2>1, <2>2 DEF Plans
<1>2. CASE p = <<"start", "poll">>
  <2>1. Tail(p) = <<"poll">> /\ Head(p) = "start"
    BY <1>2
  <2>2. QED
    BY <2>1 DEF Plans
<1>3. CASE p = <<"query", "query">>
  <2>1. Tail(p) = <<"query">> /\ Head(p) = "query"
    BY <1>3
  <2>2. QED
    BY <2>1 DEF Plans
<1>4. CASE p = <<"query", "query", "query">>
  <2>1. Tail(p) = <<"query", "query">> /\ Head(p) = "query"
    BY <1>4
  <2>2. QED
    BY <2>1 DEF Plans
<1>5. CASE p = <<"query", "projects">>
  <2>1. Tail(p) = <<"projects">> /\ Head(p) = "query"
    BY <1>5
  <2>2. QED
    BY <2>1 DEF Plans
<1>6. QED
  BY <1>1, <1>2, <1>3, <1>4, <1>5 DEF Plans

\* main before the first command.
LEMMA ArgumentStepInv ==
  ASSUME WoinccmdInv, ReadHost \/ ReadPassword \/ ReadCommand \/ Connect
  PROVE  WoinccmdInv'
<1> USE DEF WoinccmdInv
<1>1. user = "woinccmd" /\ exit = "none" /\ UNCHANGED <<vars, user, authed, answered, failure>>
  BY DEF ReadHost, ReadPassword, ReadCommand, Connect, Running
<1>2. IInv'
  BY <1>1, StutterIInv
<1>3. stage \in Reading \cup {"parsed"}
  BY DEF ReadHost, ReadPassword, ReadCommand, Connect, Reading
<1>4. answered = 0 /\ command = "none" /\ ~failed /\ plan \in Plans
  BY <1>1, <1>3 DEF ProgramInv, StageInv, FirstFailureEnds, Reading
<1>5. \/ /\ stage' \in Reading /\ exit' = "none" /\ plan' \in Plans
      \/ /\ stage' \in {"parsed", "ready"} /\ exit' = "none" /\ plan' \in Plans \ {<<>>}
         /\ stage' = "ready" => stage = "parsed"
      \/ /\ stage' = "exited" /\ exit' \in {"success", "failure", "undefined"} /\ plan' \in Plans
  <2>1. CASE ReadHost
    BY <1>4, <2>1 DEF ReadHost, Goes, Exits, Reading
  <2>2. CASE ReadPassword
    BY <1>4, <2>2 DEF ReadPassword, Goes, Exits, Reading
  <2>3. CASE ReadCommand
    BY <1>4, <2>3, PlansOfCommands DEF ReadCommand, Goes, Exits, Reading
  <2>4. CASE Connect
    <3>1. plan # <<>>
      BY <2>4 DEF Connect, ProgramInv, StageInv
    <3>2. QED
      BY <1>4, <2>4, <3>1 DEF Connect, Goes, Exits
  <2>5. QED
    BY <2>1, <2>2, <2>3, <2>4
<1>6. StageInv'
  <2>1. {authed', failure'} \subseteq BOOLEAN
    BY <1>1, Zenon DEF ProgramInv, StageInv
  <2>2. QED
    BY <1>1, <1>4, <1>5, <2>1 DEF StageInv, Reading
<1>7. FirstFailureEnds' /\ Truth'
  BY <1>1, <1>4 DEF FirstFailureEnds, Truth, ProgramInv, vars, worker, client
<1>8. QED
  BY <1>2, <1>6, <1>7 DEF ProgramInv

LEMMA AuthorizeInv ==
  ASSUME WoinccmdInv, Authorize
  PROVE  WoinccmdInv'
<1> USE DEF WoinccmdInv
<1>1. /\ user = "woinccmd" /\ exit = "none" /\ stage = "ready"
      /\ UNCHANGED <<user, plan, authed, answered, failure>>
  BY DEF Authorize, Running
<1>2. ~failed /\ command = "none" /\ Truth /\ plan \in Plans /\ plan # <<>> /\ answered \in Nat
  BY <1>1 DEF ProgramInv, StageInv, FirstFailureEnds
<1>3. \/ stage' = "exited" /\ exit' = "failure" /\ UNCHANGED vars
      \/ stage' = "authorizing" /\ exit' = "none" /\ \E good \in BOOLEAN : StartCommand("auth1", good)
  BY DEF Authorize, Exits, Goes
<1>4. IInv'
  BY <1>3, StutterIInv, StartCommandIInv
<1>5. UNCHANGED <<failed, client, outcome>>
  BY <1>3 DEF StartCommand, vars, worker
<1>6. StageInv'
  <2>1. {authed', failure'} \subseteq BOOLEAN
    BY <1>1, Zenon DEF ProgramInv, StageInv
  <2>2. QED
    BY <1>1, <1>2, <1>3, <2>1 DEF StageInv, Reading
<1>7. FirstFailureEnds'
  BY <1>2, <1>3, <1>5 DEF FirstFailureEnds, vars, worker
<1>8. Truth'
  BY <1>1, <1>2, <1>3, <1>5 DEF Truth, client
<1>9. QED
  BY <1>4, <1>6, <1>7, <1>8 DEF ProgramInv

LEMMA ExecuteInv ==
  ASSUME WoinccmdInv, Execute
  PROVE  WoinccmdInv'
<1> USE DEF WoinccmdInv
<1>1. /\ user = "woinccmd" /\ exit = "none" /\ stage = "ready"
      /\ stage' = "executing" /\ exit' = "none"
      /\ UNCHANGED <<user, plan, authed, answered, failure>>
  BY DEF Execute, Running, Goes
<1>2. ~failed /\ command = "none" /\ Truth /\ plan \in Plans /\ plan # <<>> /\ answered \in Nat
  BY <1>1 DEF ProgramInv, StageInv, FirstFailureEnds
<1>3. PICK kind \in {"cmd", "query"} : StartCommand(kind, FALSE)
  BY DEF Execute
<1>4. IInv'
  BY <1>3, StartCommandIInv
<1>5. UNCHANGED <<failed, client, outcome>>
  BY <1>3 DEF StartCommand
<1>6. StageInv'
  <2>1. {authed', failure'} \subseteq BOOLEAN
    BY <1>1, Zenon DEF ProgramInv, StageInv
  <2>2. QED
    BY <1>1, <1>2, <2>1 DEF StageInv, Reading
<1>7. FirstFailureEnds'
  BY <1>1, <1>2, <1>5 DEF FirstFailureEnds
<1>8. Truth'
  BY <1>1, <1>2, <1>5 DEF Truth, client
<1>9. QED
  BY <1>4, <1>6, <1>7, <1>8 DEF ProgramInv

LEMMA AuthorizedInv ==
  ASSUME WoinccmdInv, Authorized
  PROVE  WoinccmdInv'
<1> USE DEF WoinccmdInv
<1>1. /\ user = "woinccmd" /\ exit = "none" /\ stage = "authorizing" /\ command = "none"
      /\ UNCHANGED <<vars, user, plan, answered, failure>>
  BY DEF Authorized, Running
<1>2. FirstFailureEnds /\ Truth /\ plan \in Plans /\ plan # <<>> /\ answered \in Nat
  BY <1>1 DEF ProgramInv, StageInv
<1>3. IInv'
  BY <1>1, StutterIInv
<1>4. UNCHANGED <<failed, outcome, command, authorized, done>>
  BY <1>1 DEF vars, worker, client
<1>5. \/ /\ outcome.told = "authorized" /\ authed' = TRUE /\ stage' = "ready" /\ exit' = "none"
      \/ UNCHANGED authed /\ stage' = "exited" /\ exit' = "failure"
  BY DEF Authorized, Goes, Exits
<1>6. StageInv'
  <2>1. {authed', failure'} \subseteq BOOLEAN
    BY <1>1, <1>5, Zenon DEF ProgramInv, StageInv
  <2>2. QED
    BY <1>1, <1>2, <1>5, <2>1 DEF StageInv, Reading
<1>7. outcome.told = "authorized" => authorized /\ ~failed
  BY <1>2 DEF IInv, InStep, AuthorizedIsTrue, FirstFailureEnds
<1>8. FirstFailureEnds'
  BY <1>1, <1>2, <1>4, <1>5, <1>7 DEF FirstFailureEnds
<1>9. Truth'
  BY <1>1, <1>2, <1>4, <1>5, <1>7 DEF Truth
<1>10. QED
  BY <1>3, <1>6, <1>8, <1>9 DEF ProgramInv

\* What main makes of a command that has ended.
LEMMA CommandStepInv ==
  ASSUME WoinccmdInv, CommandFailed \/ CommandExecuted \/ Polled
  PROVE  WoinccmdInv'
<1> USE DEF WoinccmdInv
<1>1. /\ user = "woinccmd" /\ exit = "none" /\ stage = "executing" /\ command = "none"
      /\ UNCHANGED <<vars, user, authed>>
  BY DEF CommandFailed, CommandExecuted, Polled, Running
<1>2. FirstFailureEnds /\ Truth /\ plan \in Plans /\ plan # <<>> /\ answered \in Nat
  BY <1>1 DEF ProgramInv, StageInv
<1>3. IInv'
  BY <1>1, StutterIInv
<1>4. UNCHANGED <<failed, outcome, command, authorized, done>>
  BY <1>1 DEF vars, worker, client
<1>5. ASSUME Proceed
      PROVE  /\ plan' \in Plans /\ answered' = answered + 1
             /\ \/ plan' # <<>> /\ stage' = "ready" /\ exit' = "none"
                \/ plan' = <<>> /\ stage' = "exited" /\ exit' \in {"success", "undefined"}
  BY <1>2, <1>5, PlanGoesOn DEF Proceed, Goes, Exits
<1>6. CASE CommandFailed \/ (Polled /\ outcome.told = "no_success")
  <2>1. /\ UNCHANGED <<plan, answered, failure>>
        /\ \/ stage' = "exited" /\ exit' = "failure"
           \/ outcome.told = "no_success" /\ stage' = "ready" /\ exit' = "none"
    BY <1>6 DEF CommandFailed, Polled, Exits, Goes
  <2>2. StageInv'
    <3>1. {authed', failure'} \subseteq BOOLEAN
      BY <1>1, <2>1, Zenon DEF ProgramInv, StageInv
    <3>2. QED
      BY <1>2, <2>1, <3>1 DEF StageInv, Reading
  <2>3. FirstFailureEnds' /\ Truth'
    BY <1>1, <1>2, <1>4, <2>1 DEF FirstFailureEnds, Truth
  <2>4. QED
    BY <1>3, <2>2, <2>3 DEF ProgramInv
<1>7. CASE CommandExecuted \/ (Polled /\ outcome.told = "success")
  <2>1. Proceed /\ outcome.told \in {"success", "no_success"}
    BY <1>7 DEF CommandExecuted, Polled
  <2>2. ~failed /\ (outcome.told = "success" => outcome.id \in done)
    BY <1>2, <2>1 DEF FirstFailureEnds, IInv, InStep, OwnReply
  <2>3. failure' \in BOOLEAN
    BY <1>7, Zenon DEF CommandExecuted, Polled, ProgramInv, StageInv
  <2>4. plan' = <<>> /\ ~failure' => outcome.told = "success"
    <3>1. CASE CommandExecuted
      <4>1. plan' = Tail(plan)
        BY <2>1 DEF Proceed
      <4>2. outcome.told = "no_success" => Head(plan) \in {"operation", "start"}
        BY <1>2, <3>1, PlanGoesOn DEF CommandExecuted, Queried, Public
      <4>3. QED
        BY <1>2, <2>1, <3>1, <4>1, <4>2, PlanGoesOn DEF CommandExecuted
    <3>2. QED
      BY <1>7, <3>1
  <2>5. StageInv'
    <3>1. {authed', failure'} \subseteq BOOLEAN
      BY <1>1, <2>3, Zenon DEF ProgramInv, StageInv
    <3>2. QED
      BY <1>2, <1>5, <2>1, <3>1 DEF StageInv, Reading
  <2>6. FirstFailureEnds'
    BY <1>1, <1>4, <2>2 DEF FirstFailureEnds
  <2>7. Truth'
    BY <1>1, <1>2, <1>4, <1>5, <2>1, <2>2, <2>4 DEF Truth
  <2>8. QED
    BY <1>3, <2>5, <2>6, <2>7 DEF ProgramInv
<1>8. QED
  BY <1>6, <1>7 DEF Polled

LEMMA WoinccmdNextInv == WoinccmdInv /\ [WoinccmdNext]_allVars => WoinccmdInv'
<1> SUFFICES ASSUME WoinccmdInv, [WoinccmdNext]_allVars PROVE WoinccmdInv'
  OBVIOUS
<1>1. ASSUME user = "worker", Next, UNCHANGED cliVars
      PROVE  WoinccmdInv'
  <2>1. IInv'
    BY <1>1, NextIInv DEF WoinccmdInv
  <2>2. StageInv' /\ user' = "worker"
    BY <1>1 DEF WoinccmdInv, ProgramInv, StageInv, cliVars
  <2>3. QED
    BY <2>1, <2>2 DEF WoinccmdInv, ProgramInv
<1>2. CASE user = "woinccmd" /\ UNCHANGED cliVars
           /\ (WorkerStep \/ (stage \in {"authorizing", "executing"} /\ (ClientAnswers \/ ClientCloses)))
  BY <1>2, ConnectionStepInv
<1>3. CASE MainStep
  BY <1>3, ArgumentStepInv, AuthorizeInv, ExecuteInv, AuthorizedInv, CommandStepInv DEF MainStep
<1>4. CASE ClientDetachesProject \/ Ended \/ UNCHANGED allVars
  <2>1. UNCHANGED <<vars, user, stage, exit, plan, answered, authed, failure>>
    BY <1>4 DEF ClientDetachesProject, Ended, allVars, cliVars, argumentVars
  <2>2. IInv'
    BY <2>1, StutterIInv DEF WoinccmdInv
  <2>3. ProgramInv'
    BY <2>1 DEF WoinccmdInv, ProgramInv, StageInv, FirstFailureEnds, Truth, vars, worker, client
  <2>4. QED
    BY <2>2, <2>3 DEF WoinccmdInv
<1>5. QED
  BY <1>1, <1>2, <1>3, <1>4 DEF WoinccmdNext

THEOREM WoinccmdSpecInv == WoinccmdSpec => []WoinccmdInv
<1>1. QED
  BY WoinccmdInitInv, WoinccmdNextInv, PTL DEF WoinccmdSpec

-----------------------------------------------------------------------------
(* The arguments.                                                          *)

\* A set of natural numbers that is not empty has a least one, and a greatest one if
\* it is bounded.
LEMMA LeastNatural ==
  ASSUME NEW T, T \subseteq Nat, T # {}
  PROVE  \E x \in T : \A y \in T : x <= y
<1> DEFINE R == OpToRel(<, Nat)
<1>1. IsWellFoundedOn(R, Nat)
  BY NatLessThanWellFounded
<1>2. \A x, y \in Nat : y < x => <<y, x>> \in R
  BY DEF OpToRel
<1> HIDE DEF R
<1>3. PICK x \in T : \A y \in T : ~(<<y, x>> \in R)
  BY <1>1, WFMin
<1>4. ASSUME NEW y \in T PROVE x <= y
  <2>1. x \in Nat /\ y \in Nat /\ ~(<<y, x>> \in R)
    BY <1>3
  <2>2. ~(y < x)
    BY ONLY <1>2, <2>1
  <2>3. QED
    BY <2>1, <2>2
<1>5. QED
  BY <1>4

LEMMA GreatestNatural ==
  ASSUME NEW n \in Nat, NEW T, T \subseteq 0..n, T # {}
  PROVE  \E x \in T : \A y \in T : y <= x
<1> DEFINE U == {k \in 0..n : n - k \in T}
<1>1. U \subseteq Nat /\ U # {}
  <2>1. PICK x \in T : TRUE
    OBVIOUS
  <2>2. x \in 0..n /\ n - x \in 0..n /\ n - (n - x) = x
    OBVIOUS
  <2>3. n - x \in U
    BY <2>1, <2>2
  <2>4. U \subseteq Nat
    OBVIOUS
  <2>5. QED
    BY <2>3, <2>4, Zenon
<1>2. PICK u \in U : \A v \in U : u <= v
  BY <1>1, LeastNatural
<1>3. u \in 0..n /\ n - u \in T
  OBVIOUS
<1>4. ASSUME NEW y \in T PROVE y <= n - u
  <2>1. y \in 0..n /\ n - y \in 0..n /\ n - (n - y) = y
    OBVIOUS
  <2>2. n - y \in U
    BY <2>1
  <2>3. u <= n - y
    BY <1>2, <2>2
  <2>4. QED
    BY <1>3, <2>1, <2>3
<1>5. QED
  BY <1>3, <1>4

\* FirstOf and LastOf find the first and the last place of a symbol.
LEMMA FirstAndLast ==
  ASSUME NEW S, NEW t \in Seq(S), NEW c
  PROVE  /\ FirstOf(t, c) \in 0..Len(t) /\ LastOf(t, c) \in 0..Len(t)
         /\ \A k \in 1..Len(t) : t[k] = c => FirstOf(t, c) \in 1..k /\ LastOf(t, c) \in k..Len(t)
         /\ FirstOf(t, c) # 0 => t[FirstOf(t, c)] = c
         /\ LastOf(t, c) # 0 => t[LastOf(t, c)] = c
<1> DEFINE I == {k \in 1..Len(t) : t[k] = c}
<1>1. /\ FirstOf(t, c) = IF I # {} THEN Min(I) ELSE 0
      /\ LastOf(t, c) = IF I # {} THEN Max(I) ELSE 0
  BY DEF FirstOf, LastOf, SelectInSeq, SelectLastInSeq
<1>2. Len(t) \in Nat /\ I \subseteq 1..Len(t)
  BY LenProperties
<1>3. \A k : k \in I <=> k \in 1..Len(t) /\ t[k] = c
  OBVIOUS
<1> HIDE DEF I
<1>4. CASE I = {}
  BY <1>1, <1>2, <1>3, <1>4
<1>5. CASE I # {}
  <2>1. I \subseteq Nat /\ I \subseteq 0..Len(t)
    BY <1>2
  <2>2. Min(I) \in I /\ \A y \in I : Min(I) <= y
    BY <1>5, <2>1, LeastNatural DEF Min
  <2>3. \E x \in I : \A y \in I : x >= y
    <3>1. PICK x \in I : \A y \in I : y <= x
      BY <1>2, <1>5, <2>1, GreatestNatural
    <3>2. QED
      BY <2>1, <3>1
  <2>4. Max(I) \in I /\ \A y \in I : y <= Max(I)
    <3>1. Max(I) \in I /\ \A y \in I : Max(I) >= y
      BY <2>3, Zenon DEF Max
    <3>2. QED
      BY <2>1, <3>1
  <2>5. PICK min, max : FirstOf(t, c) = min /\ LastOf(t, c) = max /\ min \in I /\ max \in I
                        /\ \A y \in I : min <= y /\ y <= max
    BY <1>1, <1>5, <2>2, <2>4
  <2>6. QED
    BY <1>2, <1>3, <2>5
<1>6. QED
  BY <1>4, <1>5

\* A text put together from its parts, letter by letter.
LEMMA JoinedAt ==
  ASSUME NEW S, NEW a \in Seq(S), NEW b \in Seq(S), NEW c \in S, NEW t, t = a \o <<c>> \o b
  PROVE  /\ t \in Seq(S) /\ Len(t) = Len(a) + 1 + Len(b)
         /\ t[Len(a) + 1] = c
         /\ \A k \in 1..Len(a) : t[k] = a[k]
         /\ \A k \in 1..Len(b) : t[Len(a) + 1 + k] = b[k]
<1>1. <<c>> \in Seq(S) /\ Len(<<c>>) = 1 /\ <<c>>[1] = c
  OBVIOUS
<1>2. Len(a) \in Nat /\ Len(b) \in Nat
  BY LenProperties
<1> DEFINE ac == a \o <<c>>
<1>3. /\ ac \in Seq(S) /\ Len(ac) = Len(a) + 1
      /\ \A k \in 1..(Len(a) + 1) : ac[k] = IF k <= Len(a) THEN a[k] ELSE <<c>>[k - Len(a)]
  BY <1>1, ConcatProperties
<1> HIDE DEF ac
<1>4. ac \in Seq(S) /\ b \in Seq(S)
  BY <1>3
<1>5. /\ ac \o b \in Seq(S) /\ Len(ac \o b) = Len(ac) + Len(b)
      /\ \A k \in 1..(Len(ac) + Len(b)) : (ac \o b)[k] = IF k <= Len(ac) THEN ac[k] ELSE b[k - Len(ac)]
  BY ONLY <1>4, ConcatProperties
<1>6. t = ac \o b
  BY DEF ac
<1>7. QED
  BY <1>1, <1>2, <1>3, <1>5, <1>6

LEMMA BracketedAt ==
  ASSUME NEW S, NEW a \in Seq(S), NEW b \in Seq(S), NEW p \in S, NEW q \in S, NEW r \in S,
         NEW t, t = <<p>> \o a \o <<q, r>> \o b
  PROVE  /\ t \in Seq(S) /\ Len(t) = Len(a) + 3 + Len(b)
         /\ t[1] = p /\ t[Len(a) + 2] = q /\ t[Len(a) + 3] = r
         /\ \A k \in 1..Len(a) : t[k + 1] = a[k]
         /\ \A k \in 1..Len(b) : t[Len(a) + 3 + k] = b[k]
<1>1. /\ <<p>> \in Seq(S) /\ Len(<<p>>) = 1 /\ <<p>>[1] = p
      /\ <<q, r>> \in Seq(S) /\ Len(<<q, r>>) = 2 /\ <<q, r>>[1] = q /\ <<q, r>>[2] = r
  OBVIOUS
<1>2. Len(a) \in Nat /\ Len(b) \in Nat
  BY LenProperties
<1> DEFINE x == <<p>> \o a
           y == x \o <<q, r>>
<1>3. /\ x \in Seq(S) /\ Len(x) = 1 + Len(a)
      /\ \A k \in 1..(1 + Len(a)) : x[k] = IF k <= 1 THEN <<p>>[k] ELSE a[k - 1]
  BY <1>1, ConcatProperties
<1> HIDE DEF x
<1>4. /\ y \in Seq(S) /\ Len(y) = Len(x) + 2
      /\ \A k \in 1..(Len(x) + 2) : y[k] = IF k <= Len(x) THEN x[k] ELSE <<q, r>>[k - Len(x)]
  BY <1>1, <1>3, ConcatProperties
<1> HIDE DEF y
<1>5. t = y \o b
  BY DEF x, y
<1>6. y \in Seq(S) /\ b \in Seq(S)
  BY <1>4
<1>7. /\ y \o b \in Seq(S) /\ Len(y \o b) = Len(y) + Len(b)
      /\ \A k \in 1..(Len(y) + Len(b)) : (y \o b)[k] = IF k <= Len(y) THEN y[k] ELSE b[k - Len(y)]
  BY ONLY <1>6, ConcatProperties
<1>8. Len(y) = Len(a) + 3
  BY <1>2, <1>3, <1>4
<1>9. y[1] = p /\ y[Len(a) + 2] = q /\ y[Len(a) + 3] = r
  BY <1>1, <1>2, <1>3, <1>4
<1>10. \A k \in 1..Len(a) : y[k + 1] = a[k]
  BY <1>2, <1>3, <1>4
<1>11. t[1] = p /\ t[Len(a) + 2] = q /\ t[Len(a) + 3] = r
  BY <1>2, <1>5, <1>7, <1>8, <1>9
<1>12. \A k \in 1..Len(a) : t[k + 1] = a[k]
  BY <1>2, <1>5, <1>7, <1>8, <1>10
<1>13. \A k \in 1..Len(b) : t[Len(a) + 3 + k] = b[k]
  BY <1>2, <1>5, <1>7, <1>8
<1>14. QED
  BY <1>5, <1>7, <1>8, <1>11, <1>12, <1>13

\* A part of a text, letter by letter.
LEMMA PartAt ==
  ASSUME NEW S, NEW t \in Seq(S), NEW i \in 1..(Len(t) + 1), NEW j \in 0..Len(t)
  PROVE  /\ SubSeq(t, i, j) \in Seq(S)
         /\ Len(SubSeq(t, i, j)) = IF i <= j THEN j - i + 1 ELSE 0
         /\ \A k \in 1..(j - i + 1) : SubSeq(t, i, j)[k] = t[i + k - 1]
<1>1. Len(t) \in Nat
  BY LenProperties
<1>2. \A k \in i..j : t[k] \in S
  BY <1>1, ElementOfSeq
<1>3. i \in Int /\ j \in Int
  BY <1>1
<1>4. QED
  BY <1>2, <1>3, SubSeqProperties

\* What was taken apart at one place, or at a bracket.
LEMMA TakenApart ==
  ASSUME NEW S, NEW t \in Seq(S), NEW c \in 1..Len(t)
  PROVE  /\ t = SubSeq(t, 1, c - 1) \o <<t[c]>> \o SubSeq(t, c + 1, Len(t))
         /\ t[1] = "[" /\ t[c] = "]" /\ c > 1 /\ c < Len(t) /\ t[c + 1] = ":" =>
              t = <<"[">> \o SubSeq(t, 2, c - 1) \o <<"]", ":">> \o SubSeq(t, c + 2, Len(t))
<1>1. Len(t) \in Nat /\ t[c] \in S
  BY LenProperties, ElementOfSeq
<1>2. t = SubSeq(t, 1, c - 1) \o <<t[c]>> \o SubSeq(t, c + 1, Len(t))
  <2>1. PICK a, b : a = SubSeq(t, 1, c - 1) /\ b = SubSeq(t, c + 1, Len(t))
    OBVIOUS
  <2>2. /\ a \in Seq(S) /\ Len(a) = c - 1
        /\ \A k \in 1..(c - 1) : a[k] = t[k]
    <3>1. 1 \in 1..(Len(t) + 1) /\ c - 1 \in 0..Len(t)
      BY <1>1
    <3>2. QED
      BY <1>1, <2>1, <3>1, PartAt
  <2>3. /\ b \in Seq(S) /\ Len(b) = Len(t) - c
        /\ \A k \in 1..(Len(t) - c) : b[k] = t[c + k]
    <3>1. c + 1 \in 1..(Len(t) + 1) /\ Len(t) \in 0..Len(t)
      BY <1>1
    <3>2. /\ b \in Seq(S) /\ Len(b) = IF c + 1 <= Len(t) THEN Len(t) - (c + 1) + 1 ELSE 0
          /\ \A k \in 1..(Len(t) - (c + 1) + 1) : b[k] = t[c + 1 + k - 1]
      BY <2>1, <3>1, PartAt
    <3>3. QED
      BY <1>1, <3>2
  <2>4. PICK u : u = a \o <<t[c]>> \o b
    OBVIOUS
  <2>5. /\ u \in Seq(S) /\ Len(u) = Len(a) + 1 + Len(b) /\ u[Len(a) + 1] = t[c]
        /\ \A k \in 1..Len(a) : u[k] = a[k]
        /\ \A k \in 1..Len(b) : u[Len(a) + 1 + k] = b[k]
    <3>1. a \in Seq(S) /\ b \in Seq(S) /\ t[c] \in S
      BY <1>1, <2>2, <2>3
    <3>2. QED
      BY ONLY <2>4, <3>1, JoinedAt
  <2>6. Len(u) = Len(t)
    BY <1>1, <2>2, <2>3, <2>5
  <2>7. ASSUME NEW k \in 1..Len(t) PROVE u[k] = t[k]
    <3>1. CASE k < c
      BY <2>2, <2>5, <3>1
    <3>2. CASE k = c
      BY <2>2, <2>5, <3>2
    <3>3. CASE k > c
      <4>1. k - c \in 1..(Len(t) - c) /\ c + (k - c) = k
        BY <1>1, <3>3
      <4>2. k - c \in 1..Len(b) /\ Len(a) + 1 + (k - c) = k
        BY <2>2, <2>3, <4>1
      <4>3. QED
        BY <2>3, <2>5, <4>1, <4>2
    <3>4. QED
      BY <3>1, <3>2, <3>3
  <2>8. u = t
    BY <2>5, <2>6, <2>7, SeqEqual
  <2>9. QED
    BY <2>1, <2>4, <2>8
<1>3. ASSUME t[1] = "[", t[c] = "]", c > 1, c < Len(t), t[c + 1] = ":"
      PROVE  t = <<"[">> \o SubSeq(t, 2, c - 1) \o <<"]", ":">> \o SubSeq(t, c + 2, Len(t))
  <2>1. PICK a, b : a = SubSeq(t, 2, c - 1) /\ b = SubSeq(t, c + 2, Len(t))
    OBVIOUS
  <2>2. /\ a \in Seq(S) /\ Len(a) = c - 2
        /\ \A k \in 1..(c - 2) : a[k] = t[k + 1]
    <3>1. 2 \in 1..(Len(t) + 1) /\ c - 1 \in 0..Len(t)
      BY <1>1, <1>3
    <3>2. /\ a \in Seq(S) /\ Len(a) = IF 2 <= c - 1 THEN c - 1 - 2 + 1 ELSE 0
          /\ \A k \in 1..(c - 1 - 2 + 1) : a[k] = t[2 + k - 1]
      BY <2>1, <3>1, PartAt
    <3>3. QED
      BY <1>1, <1>3, <3>2
  <2>3. /\ b \in Seq(S) /\ Len(b) = Len(t) - c - 1
        /\ \A k \in 1..(Len(t) - c - 1) : b[k] = t[c + 1 + k]
    <3>1. c + 2 \in 1..(Len(t) + 1) /\ Len(t) \in 0..Len(t)
      BY <1>1, <1>3
    <3>2. /\ b \in Seq(S) /\ Len(b) = IF c + 2 <= Len(t) THEN Len(t) - (c + 2) + 1 ELSE 0
          /\ \A k \in 1..(Len(t) - (c + 2) + 1) : b[k] = t[c + 2 + k - 1]
      BY <2>1, <3>1, PartAt
    <3>3. QED
      BY <1>1, <1>3, <3>2
  <2>4. PICK u : u = <<"[">> \o a \o <<"]", ":">> \o b
    OBVIOUS
  <2>5. /\ u \in Seq(S) /\ Len(u) = Len(a) + 3 + Len(b)
        /\ u[1] = "[" /\ u[Len(a) + 2] = "]" /\ u[Len(a) + 3] = ":"
        /\ \A k \in 1..Len(a) : u[k + 1] = a[k]
        /\ \A k \in 1..Len(b) : u[Len(a) + 3 + k] = b[k]
    <3>1. a \in Seq(S) /\ b \in Seq(S) /\ "[" \in S /\ "]" \in S /\ ":" \in S
      BY <1>1, <1>3, <2>2, <2>3, ElementOfSeq
    <3>2. QED
      BY ONLY <2>4, <3>1, BracketedAt
  <2>6. Len(u) = Len(t)
    BY <1>1, <2>2, <2>3, <2>5
  <2>7. ASSUME NEW k \in 1..Len(t) PROVE u[k] = t[k]
    <3>1. CASE k = 1
      BY <1>3, <2>5, <3>1
    <3>2. CASE k \in 2..(c - 1)
      <4>1. k - 1 \in 1..(c - 2) /\ (k - 1) + 1 = k
        BY <3>2
      <4>2. QED
        BY <2>2, <2>5, <4>1
    <3>3. CASE k = c \/ k = c + 1
      BY <1>3, <2>2, <2>5, <3>3
    <3>4. CASE k > c + 1
      <4>1. /\ k - (c + 1) \in 1..(Len(t) - c - 1) /\ c + 1 + (k - (c + 1)) = k
            /\ Len(a) + 3 + (k - (c + 1)) = k
        BY <1>1, <2>2, <3>4
      <4>2. QED
        BY <2>3, <2>5, <4>1
    <3>5. QED
      BY <3>1, <3>2, <3>3, <3>4
  <2>8. u = t
    BY <2>5, <2>6, <2>7, SeqEqual
  <2>9. QED
    BY <2>1, <2>4, <2>8
<1>4. QED
  BY <1>2, <1>3

\* One colon: the first is the last.
LEMMA OneColon ==
  ASSUME NEW t \in Seq(Letters)
  PROVE  Cardinality({k \in DOMAIN t : t[k] = ":"}) = 1 <=> FirstOf(t, ":") = LastOf(t, ":") /\ FirstOf(t, ":") # 0
<1>1. PICK first, last : first = FirstOf(t, ":") /\ last = LastOf(t, ":")
  OBVIOUS
<1>2. /\ first \in 0..Len(t) /\ last \in 0..Len(t)
      /\ \A k \in 1..Len(t) : t[k] = ":" => first \in 1..k /\ last \in k..Len(t)
      /\ first # 0 => t[first] = ":"
      /\ last # 0 => t[last] = ":"
  BY <1>1, FirstAndLast
<1>3. PICK C : C = {k \in DOMAIN t : t[k] = ":"}
  OBVIOUS
<1>4. DOMAIN t = 1..Len(t) /\ Len(t) \in Nat
  BY LenProperties
<1>5. \A k : k \in C <=> k \in 1..Len(t) /\ t[k] = ":"
  BY <1>3, <1>4
<1>6. IsFiniteSet(C)
  <2>1. IsFiniteSet(1..Len(t))
    BY <1>4, FS_Interval
  <2>2. C \in SUBSET (1..Len(t))
    BY <1>5
  <2>3. QED
    BY <2>1, <2>2, FS_Subset
<1>7. Cardinality(C) = 1 <=> \E k : C = {k}
  BY <1>6, FS_Singleton
<1>8. ASSUME NEW k, C = {k} PROVE first = last /\ first # 0
  <2>1. k \in 1..Len(t) /\ t[k] = ":"
    BY <1>5, <1>8
  <2>2. first \in 1..k /\ last \in k..Len(t)
    BY <1>2, <2>1
  <2>3. first \in C /\ last \in C
    BY <1>2, <1>4, <1>5, <2>1, <2>2
  <2>4. QED
    BY <1>8, <2>2, <2>3
<1>9. ASSUME first = last, first # 0 PROVE C = {first}
  <2>1. first \in C
    BY <1>2, <1>4, <1>5, <1>9
  <2>2. ASSUME NEW k \in C PROVE k = first
    BY <1>2, <1>4, <1>5, <1>9
  <2>3. QED
    BY <2>1, <2>2
<1>10. QED
  BY <1>1, <1>3, <1>7, <1>8, <1>9

\* What parse_host takes from a text is what is written there, but for a text that it
\* misreads.
LEMMA ParsedIsSaid ==
  ASSUME NEW t \in Seq(Letters), ParseHost(t).ok
  PROVE  Says(t, ParseHost(t)) \/ Misread(t)
<1>1. Len(t) \in Nat /\ (t # <<>> => Len(t) >= 1)
  BY EmptySeq, LenProperties
<1>2. ASSUME NEW address, NEW port, ParseHost(t) = WithPort(address, port)
      PROVE  IsPort(port) /\ ParseHost(t).host = address /\ ParseHost(t).port = port
  BY <1>2 DEF WithPort, Invalid, Valid
<1>3. CASE t # <<>> /\ t[1] = "["
  <2>1. PICK idx : idx = LastOf(t, "]")
    OBVIOUS
  <2>2. idx \notin {0, 2, Len(t)} /\ ~(idx < Len(t) /\ t[idx + 1] # ":")
    BY <1>3, <2>1 DEF ParseHost, BracketedHost, Invalid
  <2>3. idx \in 0..Len(t) /\ (idx # 0 => t[idx] = "]")
    BY <2>1, FirstAndLast
  <2>4. idx \in 3..(Len(t) - 1) /\ t[idx] = "]" /\ t[idx + 1] = ":"
    <3>1. idx # 1
      BY <1>3, <2>2, <2>3
    <3>2. QED
      BY <1>1, <2>2, <2>3, <3>1
  <2>5. CASE idx + 1 < Len(t)
    <3>1. PICK address, port : address = SubSeq(t, 2, idx - 1) /\ port = SubSeq(t, idx + 2, Len(t))
      OBVIOUS
    <3>2. ParseHost(t) = WithPort(address, port)
      BY <1>3, <2>1, <2>2, <2>5, <3>1 DEF ParseHost, BracketedHost
    <3>3. IsPort(port) /\ ParseHost(t).host = address /\ ParseHost(t).port = port
      BY <1>2, <3>2
    <3>4. t = <<"[">> \o address \o <<"]", ":">> \o port
      <4>1. idx \in 1..Len(t) /\ idx > 1 /\ idx < Len(t)
        BY <1>1, <2>4
      <4>2. QED
        BY <1>3, <2>4, <3>1, <4>1, TakenApart
    <3>5. address # <<>>
      <4>1. 2 \in 1..(Len(t) + 1) /\ idx - 1 \in 0..Len(t) /\ 2 <= idx - 1
        BY <1>1, <2>4
      <4>2. Len(address) = idx - 1 - 2 + 1
        BY <3>1, <4>1, PartAt
      <4>3. QED
        BY <2>4, <4>2, EmptySeq
    <3>6. QED
      BY <3>3, <3>4, <3>5 DEF Says
  <2>6. CASE idx + 1 = Len(t)
    <3>1. Len(t) > 3 /\ t[Len(t) - 1] = "]" /\ t[Len(t)] = ":"
      BY <1>1, <2>4, <2>6
    <3>2. QED
      BY <1>3, <3>1 DEF Misread
  <2>7. QED
    BY <1>1, <2>4, <2>5, <2>6
<1>4. CASE t = <<>>
  BY <1>4 DEF Misread
<1>5. CASE t # <<>> /\ t[1] # "["
  <2>1. PICK first, last : first = FirstOf(t, ":") /\ last = LastOf(t, ":")
    OBVIOUS
  <2>2. /\ first \in 0..Len(t) /\ last \in 0..Len(t)
        /\ \A k \in 1..Len(t) : t[k] = ":" => first \in 1..k /\ last \in k..Len(t)
        /\ first # 0 => t[first] = ":"
    BY <2>1, FirstAndLast
  <2>3. ParseHost(t) = PlainHost(t)
    BY <1>5 DEF ParseHost
  <2>4. CASE first = last /\ first = 1
    BY <2>1, <2>4 DEF Misread
  <2>5. CASE first = last /\ first > 1
    <3>1. PICK address, port : address = SubSeq(t, 1, first - 1) /\ port = SubSeq(t, first + 1, Len(t))
      OBVIOUS
    <3>2. ParseHost(t) = WithPort(address, port)
      <4>1. first # 0
        BY <2>2, <2>5
      <4>2. QED
        BY <2>1, <2>3, <2>5, <3>1, <4>1 DEF PlainHost
    <3>3. IsPort(port) /\ ParseHost(t).host = address /\ ParseHost(t).port = port
      BY <1>2, <3>2
    <3>4. first \in 1..Len(t) /\ t[first] = ":"
      BY <2>2, <2>5
    <3>5. t = address \o <<":">> \o port
      <4>1. t = SubSeq(t, 1, first - 1) \o <<t[first]>> \o SubSeq(t, first + 1, Len(t))
        BY <3>4, TakenApart
      <4>2. QED
        BY ONLY <3>1, <3>4, <4>1
    <3>6. /\ address \in Seq(Letters) /\ Len(address) = first - 1
          /\ \A k \in 1..(first - 1) : address[k] = t[k]
      <4>1. 1 \in 1..(Len(t) + 1) /\ first - 1 \in 0..Len(t) /\ 1 <= first - 1
        BY <1>1, <2>5, <3>4
      <4>2. /\ address \in Seq(Letters) /\ Len(address) = first - 1 - 1 + 1
            /\ \A k \in 1..(first - 1 - 1 + 1) : address[k] = t[1 + k - 1]
        BY <3>1, <4>1, PartAt
      <4>3. QED
        BY <3>4, <4>2
    <3>7. address # <<>>
      BY <2>5, <3>4, <3>6, EmptySeq
    <3>8. LastOf(address, ":") = 0
      <4>1. LastOf(address, ":") \in 0..Len(address) /\ (LastOf(address, ":") # 0 => address[LastOf(address, ":")] = ":")
        BY <3>6, FirstAndLast
      <4>2. ASSUME NEW k \in 1..(first - 1), t[k] = ":" PROVE FALSE
        BY <2>2, <3>4, <4>2
      <4>3. QED
        BY <3>4, <3>6, <4>1, <4>2
    <3>9. QED
      BY <1>5, <3>3, <3>5, <3>7, <3>8 DEF Says
  <2>6. CASE first # last \/ first = 0
    <3>1. ParseHost(t) = Valid(t, NoPort)
      BY <2>1, <2>3, <2>6 DEF PlainHost
    <3>2. Cardinality({k \in DOMAIN t : t[k] = ":"}) # 1
      BY <2>1, <2>6, OneColon
    <3>3. QED
      BY <1>5, <3>1, <3>2 DEF Says, Valid
  <2>7. QED
    BY <2>2, <2>4, <2>5, <2>6
<1>6. QED
  BY <1>3, <1>4, <1>5

\* A text that says something is not refused.
LEMMA SaidIsTaken ==
  ASSUME NEW t \in Seq(Letters), Meaningful(t)
  PROVE  ParseHost(t).ok
<1>1. Len(t) \in Nat /\ (Len(t) > 0 => t # <<>>)
  BY EmptySeq, LenProperties
<1>2. PICK i \in DOMAIN t, j \in DOMAIN t, k \in 1..(Len(t) + 1) :
        Says(t, Valid(SubSeq(t, i, j), SubSeq(t, k, Len(t))))
  BY DEF Meaningful
<1>3. PICK address, port : address = SubSeq(t, i, j) /\ port = SubSeq(t, k, Len(t))
  OBVIOUS
<1>4. /\ address # <<>>
      /\ \/ t = <<"[">> \o address \o <<"]", ":">> \o port /\ IsPort(port)
         \/ t = address \o <<":">> \o port /\ IsPort(port) /\ t[1] # "[" /\ LastOf(address, ":") = 0
         \/ t = address /\ t[1] # "[" /\ Cardinality({x \in DOMAIN t : t[x] = ":"}) # 1
  BY <1>2, <1>3 DEF Says, Valid
<1>5. address \in Seq(Letters) /\ port \in Seq(Letters)
  <2>1. i \in 1..(Len(t) + 1) /\ j \in 0..Len(t) /\ Len(t) \in 0..Len(t)
    BY <1>1, LenProperties
  <2>2. QED
    BY <1>3, <2>1, PartAt
<1>6. /\ Len(address) \in Nat /\ Len(address) > 0 /\ Len(port) \in Nat
  BY <1>4, <1>5, EmptySeq, LenProperties
<1>7. IsPort(port) => Len(port) > 0 /\ \A x \in 1..Len(port) : port[x] = "1"
  BY <1>5, <1>6, EmptySeq, LenProperties DEF IsPort
<1>8. \A h : WithPort(h, port).ok <=> IsPort(port)
  BY DEF WithPort, Valid, Invalid
<1>9. CASE t = <<"[">> \o address \o <<"]", ":">> \o port /\ IsPort(port)
  <2>1. PICK c : c = Len(address) + 2
    OBVIOUS
  <2>2. /\ Len(t) = Len(address) + 3 + Len(port) /\ t[1] = "["
        /\ t[c] = "]" /\ t[c + 1] = ":"
        /\ \A x \in 1..Len(port) : t[Len(address) + 3 + x] = port[x]
    <3>1. "[" \in Letters /\ "]" \in Letters /\ ":" \in Letters
      BY DEF Letters
    <3>2. /\ Len(t) = Len(address) + 3 + Len(port)
          /\ t[1] = "[" /\ t[Len(address) + 2] = "]" /\ t[Len(address) + 3] = ":"
          /\ \A x \in 1..Len(port) : t[Len(address) + 3 + x] = port[x]
      BY ONLY <1>5, <1>9, <3>1, BracketedAt
    <3>3. c + 1 = Len(address) + 3
      BY <1>6, <2>1
    <3>4. QED
      BY <2>1, <3>2, <3>3
  <2>3. c \in 3..(Len(t) - 2)
    BY <1>1, <1>6, <1>7, <1>9, <2>1, <2>2
  <2>4. ASSUME NEW x \in (c + 1)..Len(t) PROVE t[x] # "]"
    <3>1. CASE x = c + 1
      BY <2>2, <3>1
    <3>2. CASE x > c + 1
      <4>1. /\ x - (Len(address) + 3) \in 1..Len(port)
            /\ Len(address) + 3 + (x - (Len(address) + 3)) = x
        BY <1>6, <2>1, <2>2, <3>2
      <4>2. QED
        BY <1>7, <1>9, <2>2, <4>1
    <3>3. QED
      BY <1>6, <2>1, <3>1, <3>2
  <2>5. LastOf(t, "]") = c
    <3>1. /\ LastOf(t, "]") \in 0..Len(t) /\ (LastOf(t, "]") # 0 => t[LastOf(t, "]")] = "]")
          /\ \A x \in 1..Len(t) : t[x] = "]" => LastOf(t, "]") \in x..Len(t)
      BY FirstAndLast
    <3>2. LastOf(t, "]") \in c..Len(t)
      BY <1>1, <2>2, <2>3, <3>1
    <3>3. QED
      BY <1>1, <2>3, <2>4, <3>1, <3>2
  <2>6. SubSeq(t, c + 2, Len(t)) = port
    <3>1. c + 2 \in 1..(Len(t) + 1) /\ Len(t) \in 0..Len(t) /\ c + 2 <= Len(t)
      BY <1>1, <2>3
    <3>2. PICK p : p = SubSeq(t, c + 2, Len(t))
      OBVIOUS
    <3>3. /\ p \in Seq(Letters) /\ Len(p) = Len(t) - (c + 2) + 1
          /\ \A x \in 1..(Len(t) - (c + 2) + 1) : p[x] = t[c + 2 + x - 1]
      BY <3>1, <3>2, PartAt
    <3>4. Len(p) = Len(port)
      BY <1>1, <1>6, <2>1, <2>2, <3>3
    <3>5. ASSUME NEW x \in 1..Len(p) PROVE p[x] = port[x]
      <4>1. /\ x \in 1..(Len(t) - (c + 2) + 1) /\ x \in 1..Len(port)
            /\ c + 2 + x - 1 = Len(address) + 3 + x
        BY <1>6, <2>1, <3>3, <3>4
      <4>2. QED
        BY <2>2, <3>3, <4>1
    <3>6. QED
      BY <1>5, <3>2, <3>3, <3>4, <3>5, SeqEqual
  <2>7. BracketedHost(t) = WithPort(SubSeq(t, 2, c - 1), port)
    <3>1. c \notin {0, 2, Len(t)} /\ c + 1 < Len(t)
      BY <1>1, <2>3
    <3>2. QED
      BY <2>2, <2>5, <2>6, <3>1 DEF BracketedHost
  <2>8. ParseHost(t) = BracketedHost(t)
    BY <1>1, <2>2, <2>3 DEF ParseHost
  <2>9. QED
    BY <1>8, <1>9, <2>7, <2>8
<1>10. CASE t = address \o <<":">> \o port /\ IsPort(port) /\ t[1] # "[" /\ LastOf(address, ":") = 0
  <2>1. PICK c : c = Len(address) + 1
    OBVIOUS
  <2>2. /\ Len(t) = Len(address) + 1 + Len(port) /\ t[c] = ":"
        /\ \A x \in 1..Len(address) : t[x] = address[x]
        /\ \A x \in 1..Len(port) : t[Len(address) + 1 + x] = port[x]
    <3>1. ":" \in Letters
      BY DEF Letters
    <3>2. /\ Len(t) = Len(address) + 1 + Len(port) /\ t[Len(address) + 1] = ":"
          /\ \A x \in 1..Len(address) : t[x] = address[x]
          /\ \A x \in 1..Len(port) : t[Len(address) + 1 + x] = port[x]
      BY ONLY <1>5, <1>10, <3>1, JoinedAt
    <3>3. QED
      BY <2>1, <3>2
  <2>3. c \in 2..(Len(t) - 1)
    BY <1>1, <1>6, <1>7, <1>10, <2>1, <2>2
  <2>4. ASSUME NEW x \in 1..Len(t), t[x] = ":" PROVE x = c
    <3>1. CASE x \in 1..Len(address)
      <4>1. address[x] = ":"
        BY <2>2, <2>4, <3>1
      <4>2. LastOf(address, ":") \in x..Len(address)
        BY <1>5, <3>1, <4>1, FirstAndLast
      <4>3. QED
        BY <1>6, <1>10, <3>1, <4>2
    <3>2. CASE x > c
      <4>1. x - (Len(address) + 1) \in 1..Len(port) /\ Len(address) + 1 + (x - (Len(address) + 1)) = x
        BY <1>6, <2>1, <2>2, <3>2
      <4>2. QED
        BY <1>7, <1>10, <2>2, <2>4, <4>1
    <3>3. QED
      BY <1>6, <2>1, <3>1, <3>2
  <2>5. FirstOf(t, ":") = c /\ LastOf(t, ":") = c
    <3>1. PICK first, last : first = FirstOf(t, ":") /\ last = LastOf(t, ":")
      OBVIOUS
    <3>2. /\ first \in 0..Len(t) /\ last \in 0..Len(t)
          /\ \A x \in 1..Len(t) : t[x] = ":" => first \in 1..x /\ last \in x..Len(t)
          /\ first # 0 => t[first] = ":"
          /\ last # 0 => t[last] = ":"
      BY <3>1, FirstAndLast
    <3>3. first \in 1..c /\ last \in c..Len(t)
      BY <1>1, <2>2, <2>3, <3>2
    <3>4. first \in 1..Len(t) /\ last \in 1..Len(t) /\ t[first] = ":" /\ t[last] = ":"
      BY <1>1, <2>3, <3>2, <3>3
    <3>5. QED
      BY <2>4, <3>1, <3>4
  <2>6. SubSeq(t, c + 1, Len(t)) = port
    <3>1. c + 1 \in 1..(Len(t) + 1) /\ Len(t) \in 0..Len(t) /\ c + 1 <= Len(t)
      BY <1>1, <2>3
    <3>2. PICK p : p = SubSeq(t, c + 1, Len(t))
      OBVIOUS
    <3>3. /\ p \in Seq(Letters) /\ Len(p) = Len(t) - (c + 1) + 1
          /\ \A x \in 1..(Len(t) - (c + 1) + 1) : p[x] = t[c + 1 + x - 1]
      BY <3>1, <3>2, PartAt
    <3>4. Len(p) = Len(port)
      BY <1>1, <1>6, <2>1, <2>2, <3>3
    <3>5. ASSUME NEW x \in 1..Len(p) PROVE p[x] = port[x]
      <4>1. /\ x \in 1..(Len(t) - (c + 1) + 1) /\ x \in 1..Len(port)
            /\ c + 1 + x - 1 = Len(address) + 1 + x
        BY <1>6, <2>1, <3>3, <3>4
      <4>2. QED
        BY <2>2, <3>3, <4>1
    <3>6. QED
      BY <1>5, <3>2, <3>3, <3>4, <3>5, SeqEqual
  <2>7. PlainHost(t) = WithPort(SubSeq(t, 1, c - 1), port)
    <3>1. c # 0
      BY <2>3
    <3>2. QED
      BY <2>5, <2>6, <3>1 DEF PlainHost
  <2>8. ParseHost(t) = PlainHost(t)
    BY <1>10 DEF ParseHost
  <2>9. QED
    BY <1>8, <1>10, <2>7, <2>8
<1>11. CASE t = address /\ t[1] # "[" /\ Cardinality({x \in DOMAIN t : t[x] = ":"}) # 1
  <2>1. ParseHost(t) = Valid(t, NoPort)
    BY <1>11, OneColon DEF ParseHost, PlainHost
  <2>2. QED
    BY <2>1 DEF Valid
<1>12. QED
  BY <1>4, <1>9, <1>10, <1>11

\* The options before the command: whether line has a host, and then a password.
Before(h, p) ==
  /\ h = 2 <=> line[1] = "--host"
  /\ p = 2 <=> h < Len(line) /\ line[h + 1] = "--passwd"
  /\ h + p <= Len(line)

\* What main has read so far, and what it has made of it.
Reads ==
  /\ line[1] = "--host" \/ text = <<"h">>
  /\ stage \in {"host", "passwd", "version", "parsed", "exited"}
  /\ stage \in {"passwd", "version", "parsed"} => ParseHost(text).ok
  /\ stage = "host" => args = line
  /\ stage = "passwd" =>
       \E h \in {0, 2} : /\ h = 2 <=> line[1] = "--host"
                         /\ h <= Len(line) /\ args = SubSeq(line, h + 1, Len(line))
  /\ stage = "version" =>
       \E h, p \in {0, 2} : Before(h, p) /\ args = SubSeq(line, h + p + 1, Len(line))
  /\ stage = "parsed" => Documented(line) \/ WithoutDuration(line)
  /\ exit = "failure" => ~(Documented(line) /\ Meaningful(text))
  /\ exit = "undefined" => ~Documented(line) \/ Last(line) = "--get_statistics"

\* The exit status belongs to the stage; the arguments are gone once the client is used.
ArgumentsInv ==
  /\ line \in Seq(Words) /\ text \in Seq(Letters)
  /\ exit # "none" <=> stage = "exited"
  /\ user = "woinccmd" /\ line # <<>> => Reads

\* A documented line is read in one way only.
LEMMA DocumentedForm ==
  ASSUME line \in Seq(Words), Documented(line)
  PROVE  \E h, p \in {0, 2} : /\ Before(h, p) /\ h + p < Len(line)
                              /\ DocumentedCommand(SubSeq(line, h + p + 1, Len(line)))
<1>1. Len(line) \in Nat
  BY LenProperties
<1>2. PICK h \in {0, 2}, p \in {0, 2} :
        /\ h + p < Len(line)
        /\ h = 2 => line[1] = "--host"
        /\ p = 2 => line[h + 1] = "--passwd"
        /\ DocumentedCommand(SubSeq(line, h + p + 1, Len(line)))
  BY DEF Documented
<1>3. PICK rest : rest = SubSeq(line, h + p + 1, Len(line))
  OBVIOUS
<1>4. rest[1] = line[h + p + 1]
  <2>1. /\ h + p + 1 \in 1..(Len(line) + 1) /\ Len(line) \in 0..Len(line)
        /\ 1 \in 1..(Len(line) - (h + p + 1) + 1)
    BY <1>1, <1>2
  <2>2. rest[1] = line[h + p + 1 + 1 - 1]
    BY <1>3, <2>1, PartAt
  <2>3. QED
    BY <2>2
<1>5. rest[1] \notin {"--host", "--passwd"}
  BY <1>2, <1>3
  DEF DocumentedCommand, CommandNames, Queries, Operations, ModeOperations, Informing
<1>6. Before(h, p)
  BY <1>1, <1>2, <1>4, <1>5 DEF Before
<1>7. QED
  BY <1>2, <1>6

LEMMA OneWord ==
  ASSUME NEW S, NEW c \in S
  PROVE  <<c>> \in Seq(S) /\ Len(<<c>>) = 1 /\ <<c>>[1] = c
OBVIOUS

\* The words of a command are taken if they are documented, or a mode without its
\* duration, and only then.
LEMMA WordsAreRead ==
  ASSUME NEW rest \in Seq(Words), rest # <<>>, rest[1] \in CommandNames
  PROVE  LET parsed == ParseWords(rest[1], Tail(rest)) IN
         /\ parsed \in {"taken", "refused", "undefined"}
         /\ parsed = "taken" => DocumentedCommand(rest) \/ WithoutDuration(rest)
         /\ parsed = "refused" => ~DocumentedCommand(rest)
         /\ parsed = "undefined" => rest = <<"--get_statistics">>
<1>1. PICK c, words, needed, op, optional :
        /\ c = rest[1] /\ words = Tail(rest)
        /\ needed = Commands[c].words /\ op = Commands[c].op /\ optional = Commands[c].optional
  OBVIOUS
<1>2. /\ needed \in Nat /\ op \in 0..needed
      /\ optional = "op" => c = "--get_statistics" /\ needed = 0
      /\ c \in CommandNames /\ c \notin Informing
      /\ c \in DurationShown => needed = 1 /\ op = 1
  BY <1>1
  DEF Commands, Shape, CommandNames, Queries, Operations, ModeOperations, Informing, DurationShown
<1>3. /\ words \in Seq(Words) /\ Len(words) = Len(rest) - 1 /\ Len(words) \in Nat
      /\ Len(rest) \in Nat
      /\ \A k \in 1..Len(words) : words[k] = rest[k + 1]
  BY <1>1, HeadTailProperties, LenProperties
<1>4. DocumentedCommand(rest) <=>
        /\ Len(words) = needed \/ Len(words) = needed + 1
        /\ op > 0 => words[op] = "op"
        /\ Len(words) = needed + 1 => words[Len(words)] = optional
        /\ c \in DurationShown => Len(words) = needed + 1
  <2>1. DocumentedCommand(rest) <=>
          \E k \in {0, 1} : /\ Len(rest) = 1 + needed + k
                            /\ op > 0 => rest[1 + op] = "op"
                            /\ k = 1 => rest[Len(rest)] = optional
                            /\ c \in DurationShown => k = 1
    BY <1>1, <1>2 DEF DocumentedCommand
  <2>2. Len(words) >= needed /\ op > 0 => words[op] = rest[1 + op]
    BY <1>2, <1>3
  <2>3. Len(words) = needed + 1 => words[Len(words)] = rest[Len(rest)]
    BY <1>2, <1>3
  <2>4. QED
    BY <1>2, <1>3, <2>1, <2>2, <2>3
<1>5. PICK more : more = SubSeq(words, needed + 1, Len(words))
  OBVIOUS
<1>6. ASSUME Len(words) >= needed
      PROVE  /\ Len(more) = Len(words) - needed
             /\ more = <<>> <=> Len(words) = needed
             /\ Len(words) = needed + 1 => more[1] = words[Len(words)]
  <2>1. needed + 1 \in 1..(Len(words) + 1) /\ Len(words) \in 0..Len(words)
    BY <1>2, <1>3, <1>6
  <2>2. /\ more \in Seq(Words)
        /\ Len(more) = IF needed + 1 <= Len(words) THEN Len(words) - (needed + 1) + 1 ELSE 0
        /\ \A k \in 1..(Len(words) - (needed + 1) + 1) : more[k] = words[needed + 1 + k - 1]
    BY <1>3, <1>5, <2>1, PartAt
  <2>3. Len(more) = Len(words) - needed
    BY <1>2, <1>3, <1>6, <2>2
  <2>4. more = <<>> <=> Len(more) = 0
    BY <2>2, EmptySeq
  <2>5. QED
    BY <1>2, <1>3, <1>6, <2>2, <2>3, <2>4
<1>7. ParseWords(rest[1], Tail(rest)) =
        IF Len(words) < needed \/ (op > 0 /\ words[op] # "op") THEN "refused"
        ELSE IF more = <<>> THEN IF optional = "op" THEN "undefined" ELSE "taken"
        ELSE IF Len(more) = 1 /\ more[1] = optional THEN "taken"
        ELSE "refused"
  BY <1>1, <1>5 DEF ParseWords
<1>8. Len(words) = 0 => rest = <<c>>
  <2>1. ASSUME Len(words) = 0 PROVE rest = <<c>>
    <3>1. Len(rest) = 1
      BY <1>3, <2>1
    <3>2. c \in Words
      <4>1. 1 \in 1..Len(rest)
        BY <3>1
      <4>2. QED
        BY <1>1, <4>1, ElementOfSeq
    <3>3. <<c>> \in Seq(Words) /\ Len(<<c>>) = 1 /\ <<c>>[1] = c
      BY ONLY <3>2, OneWord
    <3>4. QED
      BY <1>1, <3>1, <3>3, SeqEqual
  <2>2. QED
    BY <2>1
<1>9. PICK parsed : parsed = ParseWords(rest[1], Tail(rest))
  OBVIOUS
<1>10. CASE Len(words) < needed
  BY <1>2, <1>3, <1>4, <1>7, <1>9, <1>10
<1>11. CASE Len(words) >= needed
  <2>1. /\ parsed \in {"taken", "refused", "undefined"}
        /\ parsed = "undefined" => Len(words) = 0 /\ c = "--get_statistics"
    BY <1>2, <1>3, <1>6, <1>7, <1>9, <1>11
  <2>2. Len(more) = 1 <=> Len(words) = needed + 1
    <3>1. Len(more) = Len(words) - needed /\ Len(words) \in Nat /\ needed \in Nat
      BY <1>2, <1>3, <1>6, <1>11
    <3>2. QED
      BY ONLY <3>1
  <2>3. parsed = "taken" => DocumentedCommand(rest) \/ WithoutDuration(rest)
    <3>1. ASSUME parsed = "taken", c \in DurationShown, Len(words) = 1
          PROVE  WithoutDuration(rest)
      <4>1. Len(rest) = 2 /\ rest[1] = c
        <5>1. Len(words) = Len(rest) - 1 /\ Len(rest) \in Nat
          BY <1>3
        <5>4. PICK l : l = Len(rest)
          OBVIOUS
        <5>5. l \in Nat /\ 1 = l - 1
          BY <5>1, <5>4, <3>1
        <5>6. l = 2
          BY ONLY <5>5
        <5>2. Len(rest) = 2
          BY ONLY <5>4, <5>6, Zenon
        <5>3. QED
          BY <5>2, <1>1, Zenon
      <4>4. rest[2] = words[1]
        BY <1>3, <3>1
      <4>2. words[1] = "op"
        BY <1>2, <1>7, <1>9, <3>1
      <4>3. QED
        BY <3>1, <4>1, <4>2, <4>4 DEF WithoutDuration, Last
    <3>2. QED
      BY <1>2, <1>3, <1>4, <1>6, <1>7, <1>9, <1>11, <2>2, <3>1
  <2>4. parsed = "refused" => ~DocumentedCommand(rest)
    BY <1>2, <1>3, <1>4, <1>6, <1>7, <1>9, <1>11, <2>2
  <2>5. QED
    BY <1>8, <1>9, <2>1, <2>3, <2>4
<1>12. QED
  BY <1>2, <1>3, <1>10, <1>11

\* The host of the lines that name another one nowhere.
LEMMA PlainTextIsMeaningful == Meaningful(<<"h">>)
<1>1. PICK t : t = <<"h">>
  OBVIOUS
<1>2. /\ t # <<>> /\ Len(t) = 1 /\ DOMAIN t = 1..1 /\ t[1] = "h"
      /\ SubSeq(t, 1, 1) = t /\ SubSeq(t, 2, 1) = <<>>
  <2>1. t # <<>> /\ Len(t) = 1 /\ DOMAIN t = 1..1 /\ t[1] = "h" /\ SubSeq(t, 2, 1) = <<>>
    BY <1>1
  <2>2. t \in Seq(Letters)
    BY <1>1 DEF Letters
  <2>3. QED
    BY <2>1, <2>2, SubSeqFull
<1>3. {k \in DOMAIN t : t[k] = ":"} = {}
  BY <1>2
<1>4. Cardinality({k \in DOMAIN t : t[k] = ":"}) # 1
  BY <1>3, FS_EmptySet
<1>5. Says(t, Valid(t, <<>>))
  BY <1>2, <1>4 DEF Says, Valid, NoPort
<1>6. 1 \in DOMAIN t /\ 2 \in 1..(Len(t) + 1)
  BY <1>2
<1>7. Says(t, Valid(SubSeq(t, 1, 1), SubSeq(t, 2, Len(t))))
  BY <1>2, <1>5
<1>8. QED
  BY <1>1, <1>6, <1>7 DEF Meaningful

LEMMA ArgumentsInit == WoinccmdInit => ArgumentsInv
<1> SUFFICES ASSUME WoinccmdInit PROVE ArgumentsInv
  OBVIOUS
<1>1. PICK h : h = "h"
  OBVIOUS
<1>2. h \in Letters
  BY <1>1 DEF Letters
<1>3. <<h>> \in Seq(Letters)
  BY ONLY <1>2, OneWord
<1>4. <<>> \in Seq(Words) /\ <<>> \in Seq(Letters)
  OBVIOUS
<1>5. HostLine \in Seq(Words) /\ HostLine[1] = "--host"
  BY DEF HostLine, Words, Options, CommandNames, Queries
<1>6. line \in Seq(Words) /\ text \in Seq(Letters)
  BY <1>1, <1>3, <1>4, <1>5, WoinccmdAssumption DEF WoinccmdInit
<1>7. user = "woinccmd" => line[1] = "--host" \/ text = <<"h">>
  BY <1>5 DEF WoinccmdInit
<1>8. exit = "none" /\ stage = "host" /\ args = line
  BY DEF WoinccmdInit
<1>9. QED
  BY <1>6, <1>7, <1>8 DEF ArgumentsInv, Reads

\* A host is read, or there is none.
LEMMA ReadHostArguments ==
  ASSUME ArgumentsInv, ReadHost
  PROVE  ArgumentsInv'
<1>1. /\ user = "woinccmd" /\ exit = "none" /\ stage = "host"
      /\ UNCHANGED <<user, line, text>>
  BY DEF ReadHost, Running
<1>2. line \in Seq(Words) /\ text \in Seq(Letters) /\ Len(line) \in Nat
  BY LenProperties DEF ArgumentsInv
<1>3. exit' # "none" <=> stage' = "exited"
  BY DEF ReadHost, Goes, Exits
<1>4. ASSUME line # <<>> PROVE Reads'
  <2>1. Reads /\ args = line /\ Len(line) >= 1
    BY <1>1, <1>2, <1>4, EmptySeq DEF ArgumentsInv, Reads
  <2>2. CASE line = <<"--host">>
    <3>1. stage' = "exited" /\ exit' = "failure"
      BY <2>1, <2>2 DEF ReadHost, Exits
    <3>2. ~Documented(line)
      <4>1. Len(line) = 1 /\ line[1] = "--host"
        BY <2>2
      <4>2. ASSUME Documented(line) PROVE FALSE
        BY <1>2, <4>1, <4>2, DocumentedForm DEF Before
      <4>3. QED
        BY <4>2
    <3>3. ~Documented(line)'
      BY <1>1, <3>2
    <3>4. QED
      BY <1>1, <2>1, <3>1, <3>3 DEF Reads
  <2>3. CASE line[1] # "--host"
    <3>1. stage' = "passwd" /\ exit' = "none" /\ args' = line
      BY <1>4, <2>1, <2>3 DEF ReadHost, Goes
    <3>2. ParseHost(text).ok
      <4>1. text = <<"h">>
        BY <2>1, <2>3 DEF Reads
      <4>2. Meaningful(text)
        BY <4>1, PlainTextIsMeaningful
      <4>3. QED
        BY <1>2, <4>2, SaidIsTaken
    <3>3. SubSeq(line, 1, Len(line)) = line
      BY <1>2, SubSeqFull
    <3>4. \E h \in {0, 2} : /\ h = 2 <=> line[1] = "--host"
                            /\ h <= Len(line) /\ args' = SubSeq(line, h + 1, Len(line))
      <4>1. 0 \in {0, 2} /\ ~(0 = 2) /\ 0 <= Len(line) /\ 0 + 1 = 1
        BY <1>2
      <4>2. QED
        BY <2>3, <3>1, <3>3, <4>1
    <3>5. QED
      BY <1>1, <2>1, <3>1, <3>2, <3>4 DEF Reads
  <2>4. CASE line[1] = "--host" /\ line # <<"--host">>
    <3>1. /\ args' = SubSeq(line, 3, Len(line))
          /\ \/ ParseHost(text).ok /\ stage' = "passwd" /\ exit' = "none"
             \/ ~ParseHost(text).ok /\ stage' = "exited" /\ exit' = "failure"
      BY <1>4, <2>1, <2>4 DEF ReadHost, Goes, Exits
    <3>2. Len(line) >= 2
      <4>1. ASSUME Len(line) = 1 PROVE line = <<"--host">>
        <5>1. line = <<line[1]>>
          <6>1. line[1] \in Words
            BY <1>2, <4>1, ElementOfSeq
          <6>2. PICK w : w = line[1]
            OBVIOUS
          <6>3. <<w>> \in Seq(Words) /\ Len(<<w>>) = 1 /\ <<w>>[1] = w
            BY ONLY <6>1, <6>2, OneWord
          <6>4. QED
            BY <1>2, <4>1, <6>2, <6>3, SeqEqual
        <5>2. QED
          BY <2>4, <5>1
      <4>2. Len(line) # 1
        BY <2>4, <4>1
      <4>3. Len(line) \in Nat /\ Len(line) >= 1 /\ Len(line) # 1
        BY <1>2, <2>1, <4>2
      <4>4. QED
        BY ONLY <4>3
    <3>3. ~ParseHost(text).ok => ~Meaningful(text)
      BY <1>2, SaidIsTaken
    <3>4. \E h \in {0, 2} : /\ h = 2 <=> line[1] = "--host"
                            /\ h <= Len(line) /\ args' = SubSeq(line, h + 1, Len(line))
      <4>1. 2 \in {0, 2} /\ 2 + 1 = 3
        OBVIOUS
      <4>2. QED
        BY <2>4, <3>1, <3>2, <4>1
    <3>5. QED
      BY <1>1, <2>1, <3>1, <3>3, <3>4 DEF Reads
  <2>5. QED
    BY <2>2, <2>3, <2>4
<1>5. QED
  BY <1>1, <1>2, <1>3, <1>4 DEF ArgumentsInv

\* What is left after some words of a line.
LEMMA RestAt ==
  ASSUME NEW S, NEW t \in Seq(S), NEW n \in Nat, n <= Len(t), NEW rest, rest = SubSeq(t, n + 1, Len(t))
  PROVE  /\ rest \in Seq(S) /\ Len(rest) = Len(t) - n
         /\ \A k \in 1..(Len(t) - n) : rest[k] = t[n + k]
<1>1. Len(t) \in Nat
  BY LenProperties
<1>2. n + 1 \in 1..(Len(t) + 1) /\ Len(t) \in 0..Len(t)
  BY <1>1
<1>3. /\ rest \in Seq(S)
      /\ Len(rest) = IF n + 1 <= Len(t) THEN Len(t) - (n + 1) + 1 ELSE 0
      /\ \A k \in 1..(Len(t) - (n + 1) + 1) : rest[k] = t[n + 1 + k - 1]
  BY <1>2, PartAt
<1>4. QED
  BY <1>1, <1>3

LEMMA RestOfLine ==
  ASSUME NEW S, NEW t \in Seq(S), NEW n \in Nat, n <= Len(t), NEW rest, rest = SubSeq(t, n + 1, Len(t))
  PROVE  /\ rest \in Seq(S) /\ Len(rest) = Len(t) - n /\ (rest = <<>> <=> n = Len(t))
         /\ n < Len(t) => rest[1] = t[n + 1]
<1>1. Len(t) \in Nat
  BY LenProperties
<1>2. /\ rest \in Seq(S) /\ Len(rest) = Len(t) - n
      /\ \A k \in 1..(Len(t) - n) : rest[k] = t[n + k]
  BY RestAt
<1>3. rest = <<>> <=> n = Len(t)
  <2>1. rest = <<>> <=> Len(rest) = 0
    BY <1>2, EmptySeq
  <2>2. QED
    BY <1>1, <1>2, <2>1
<1>4. n < Len(t) => rest[1] = t[n + 1]
  BY <1>1, <1>2
<1>5. QED
  BY <1>2, <1>3, <1>4

\* And two more.
LEMMA TwoWordsMore ==
  ASSUME NEW S, NEW t \in Seq(S), NEW n \in Nat, n + 2 <= Len(t), NEW rest, rest = SubSeq(t, n + 1, Len(t)),
         NEW a, a = SubSeq(rest, 3, Len(rest))
  PROVE  a = SubSeq(t, n + 3, Len(t))
<1>1. Len(t) \in Nat
  BY LenProperties
<1>2. /\ rest \in Seq(S) /\ Len(rest) = Len(t) - n
      /\ \A k \in 1..(Len(t) - n) : rest[k] = t[n + k]
  <2>1. n <= Len(t)
    BY <1>1
  <2>2. QED
    BY ONLY <2>1, t \in Seq(S), n \in Nat, rest = SubSeq(t, n + 1, Len(t)), RestAt
<1>3. PICK b : b = SubSeq(t, n + 3, Len(t))
  OBVIOUS
<1>4. /\ 3 \in 1..(Len(rest) + 1) /\ Len(rest) \in 0..Len(rest)
      /\ n + 3 \in 1..(Len(t) + 1) /\ Len(t) \in 0..Len(t)
  BY <1>1, <1>2
<1>5. /\ a \in Seq(S) /\ Len(a) = IF 3 <= Len(rest) THEN Len(rest) - 3 + 1 ELSE 0
      /\ \A k \in 1..(Len(rest) - 3 + 1) : a[k] = rest[3 + k - 1]
  BY <1>2, <1>3, <1>4, PartAt
<1>6. /\ b \in Seq(S) /\ Len(b) = IF n + 3 <= Len(t) THEN Len(t) - (n + 3) + 1 ELSE 0
      /\ \A k \in 1..(Len(t) - (n + 3) + 1) : b[k] = t[n + 3 + k - 1]
  BY <1>3, <1>4, PartAt
<1>7. Len(a) = Len(b) /\ Len(a) = Len(t) - n - 2
  BY <1>1, <1>2, <1>5, <1>6
<1>8. ASSUME NEW k \in 1..Len(a) PROVE a[k] = b[k]
  <2>1. /\ k \in 1..(Len(rest) - 3 + 1) /\ k \in 1..(Len(t) - (n + 3) + 1)
        /\ 3 + k - 1 = k + 2 /\ k + 2 \in 1..(Len(t) - n) /\ n + (k + 2) = n + 3 + k - 1
    BY <1>1, <1>2, <1>7
  <2>2. QED
    BY <1>2, <1>5, <1>6, <2>1
<1>9. QED
  BY <1>3, <1>5, <1>6, <1>7, <1>8, SeqEqual

\* A password is read, or there is none.
LEMMA ReadPasswordArguments ==
  ASSUME ArgumentsInv, ReadPassword
  PROVE  ArgumentsInv'
<1>1. /\ user = "woinccmd" /\ exit = "none" /\ stage = "passwd"
      /\ UNCHANGED <<user, line, text>>
  BY DEF ReadPassword, Running
<1>2. line \in Seq(Words) /\ text \in Seq(Letters) /\ Len(line) \in Nat
  BY LenProperties DEF ArgumentsInv
<1>3. exit' # "none" <=> stage' = "exited"
  BY DEF ReadPassword, Goes, Exits
<1>4. ASSUME line # <<>> PROVE Reads'
  <2>1. Reads
    BY <1>1, <1>4 DEF ArgumentsInv
  <2>2. PICK h \in {0, 2} : /\ h = 2 <=> line[1] = "--host"
                            /\ h <= Len(line) /\ args = SubSeq(line, h + 1, Len(line))
    BY <1>1, <2>1 DEF Reads
  <2>3. h \in Nat
    BY <2>2
  <2>4. /\ args \in Seq(Words) /\ Len(args) = Len(line) - h /\ (args = <<>> <=> h = Len(line))
        /\ h < Len(line) => args[1] = line[h + 1]
        /\ h + 2 <= Len(line) => SubSeq(args, 3, Len(args)) = SubSeq(line, h + 3, Len(line))
    <3>1. line \in Seq(Words) /\ h \in Nat /\ h <= Len(line) /\ args = SubSeq(line, h + 1, Len(line))
      BY <1>2, <2>2, <2>3
    <3>2. /\ args \in Seq(Words) /\ Len(args) = Len(line) - h /\ (args = <<>> <=> h = Len(line))
          /\ h < Len(line) => args[1] = line[h + 1]
      BY ONLY <3>1, RestOfLine
    <3>3. h + 2 <= Len(line) => SubSeq(args, 3, Len(args)) = SubSeq(line, h + 3, Len(line))
      <4>1. PICK a : a = SubSeq(args, 3, Len(args))
        OBVIOUS
      <4>2. ASSUME h + 2 <= Len(line) PROVE a = SubSeq(line, h + 3, Len(line))
        BY ONLY <3>1, <4>1, <4>2, TwoWordsMore
      <4>3. QED
        BY <4>1, <4>2
    <3>4. QED
      BY ONLY <3>2, <3>3
  <2>5. ASSUME Len(line) <= h + 1, h < Len(line) => line[h + 1] = "--passwd" PROVE ~Documented(line)
    <3>1. ASSUME Documented(line) PROVE FALSE
      <4>1. PICK g \in {0, 2}, p \in {0, 2} : Before(g, p) /\ g + p < Len(line)
        BY <1>2, <3>1, DocumentedForm
      <4>2. g = h
        BY <2>2, <4>1 DEF Before
      <4>3. QED
        BY <1>2, <2>3, <2>5, <4>1, <4>2 DEF Before
    <3>2. QED
      BY <3>1
  <2>6. CASE args = <<>>
    <3>1. stage' = "exited" /\ exit' = "undefined"
      BY <2>6 DEF ReadPassword, Exits
    <3>2. ~Documented(line)
      BY <1>2, <2>3, <2>4, <2>5, <2>6
    <3>3. ~Documented(line)'
      BY <1>1, <3>2
    <3>4. QED
      BY <1>1, <2>1, <3>1, <3>3 DEF Reads
  <2>7. CASE args # <<>> /\ args[1] # "--passwd"
    <3>1. stage' = "version" /\ exit' = "none" /\ args' = args
      BY <2>7 DEF ReadPassword, Goes
    <3>2. h < Len(line) /\ line[h + 1] # "--passwd" /\ h + 0 = h
      BY <1>2, <2>2, <2>3, <2>4, <2>7
    <3>3. Before(h, 0) /\ args' = SubSeq(line, h + 0 + 1, Len(line))
      BY <2>2, <3>1, <3>2 DEF Before
    <3>4. \E g, p \in {0, 2} : Before(g, p) /\ args' = SubSeq(line, g + p + 1, Len(line))
      <4>1. 0 \in {0, 2}
        OBVIOUS
      <4>2. QED
        BY <2>2, <3>3, <4>1
    <3>5. ParseHost(text).ok
      BY <1>1, <2>1 DEF Reads
    <3>6. QED
      BY <1>1, <2>1, <3>1, <3>4, <3>5 DEF Reads, Before
  <2>8. CASE args # <<>> /\ args[1] = "--passwd" /\ Len(args) = 1
    <3>1. stage' = "exited" /\ exit' = "failure"
      BY <2>8 DEF ReadPassword, Exits
    <3>2. Len(line) <= h + 1 /\ h < Len(line) /\ line[h + 1] = "--passwd"
      <4>1. Len(line) \in Nat /\ h \in Nat /\ Len(line) - h = 1
        BY <1>2, <2>3, <2>4, <2>8
      <4>2. Len(line) <= h + 1 /\ h < Len(line)
        BY ONLY <4>1
      <4>3. QED
        BY <2>4, <2>8, <4>2
    <3>3. ~Documented(line)'
      BY <1>1, <2>5, <3>2
    <3>4. QED
      BY <1>1, <2>1, <3>1, <3>3 DEF Reads
  <2>9. CASE args # <<>> /\ args[1] = "--passwd" /\ Len(args) # 1
    <3>1. stage' = "version" /\ exit' = "none" /\ args' = SubSeq(args, 3, Len(args))
      BY <2>9 DEF ReadPassword, Goes
    <3>2. h + 2 <= Len(line) /\ line[h + 1] = "--passwd"
      <4>1. h # Len(line) /\ Len(line) - h # 1
        BY <2>4, <2>9
      <4>2. h + 2 <= Len(line) /\ h < Len(line)
        BY <1>2, <2>2, <2>3, <4>1
      <4>3. QED
        BY <2>4, <2>9, <4>2
    <3>3. Before(h, 2)
      <4>1. h < Len(line)
        BY <1>2, <2>3, <3>2
      <4>2. QED
        BY <2>2, <3>2, <4>1 DEF Before
    <3>4. args' = SubSeq(line, h + 2 + 1, Len(line))
      <4>1. h + 3 = h + 2 + 1
        BY <2>3
      <4>2. QED
        BY <2>4, <3>1, <3>2, <4>1
    <3>5. \E g, p \in {0, 2} : Before(g, p) /\ args' = SubSeq(line, g + p + 1, Len(line))
      <4>1. 2 \in {0, 2}
        OBVIOUS
      <4>2. QED
        BY <2>2, <3>3, <3>4, <4>1
    <3>6. ParseHost(text).ok
      BY <1>1, <2>1 DEF Reads
    <3>7. QED
      BY <1>1, <2>1, <3>1, <3>5, <3>6 DEF Reads, Before
  <2>10. QED
    BY <2>6, <2>7, <2>8, <2>9
<1>5. QED
  BY <1>1, <1>2, <1>3, <1>4 DEF ArgumentsInv

\* The command is read.
LEMMA ReadCommandArguments ==
  ASSUME ArgumentsInv, ReadCommand
  PROVE  ArgumentsInv'
<1>1. /\ user = "woinccmd" /\ exit = "none" /\ stage = "version"
      /\ UNCHANGED <<user, line, text, args>>
  BY DEF ReadCommand, Running, argumentVars
<1>2. line \in Seq(Words) /\ text \in Seq(Letters) /\ Len(line) \in Nat
  BY LenProperties DEF ArgumentsInv
<1>3. /\ exit' # "none" <=> stage' = "exited"
      /\ stage' \in {"parsed", "exited"} /\ exit' \in {"none", "success", "failure", "undefined"}
  BY DEF ReadCommand, Goes, Exits
<1>4. ASSUME line # <<>> PROVE Reads'
  <2>1. Reads
    BY <1>1, <1>4 DEF ArgumentsInv
  <2>2. PICK h \in {0, 2}, p \in {0, 2} : Before(h, p) /\ args = SubSeq(line, h + p + 1, Len(line))
    BY <1>1, <2>1 DEF Reads
  <2>3. PICK n : n = h + p
    OBVIOUS
  <2>4. n \in Nat /\ n <= Len(line) /\ args = SubSeq(line, n + 1, Len(line))
    BY <2>2, <2>3 DEF Before
  <2>5. /\ args \in Seq(Words) /\ Len(args) = Len(line) - n /\ (args = <<>> <=> n = Len(line))
        /\ n < Len(line) => args[1] = line[n + 1]
    <3>1. line \in Seq(Words) /\ n \in Nat /\ n <= Len(line) /\ args = SubSeq(line, n + 1, Len(line))
      BY <1>2, <2>4
    <3>2. QED
      BY ONLY <3>1, RestOfLine
  <2>6. Documented(line) <=> args # <<>> /\ DocumentedCommand(args)
    <3>1. ASSUME Documented(line) PROVE args # <<>> /\ DocumentedCommand(args)
      <4>1. PICK g \in {0, 2}, q \in {0, 2} : /\ Before(g, q) /\ g + q < Len(line)
                                              /\ DocumentedCommand(SubSeq(line, g + q + 1, Len(line)))
        BY <1>2, <3>1, DocumentedForm
      <4>2. g = h /\ q = p
        BY <2>2, <4>1 DEF Before
      <4>3. QED
        BY <1>2, <2>2, <2>3, <2>4, <2>5, <4>1, <4>2
    <3>2. ASSUME args # <<>>, DocumentedCommand(args) PROVE Documented(line)
      <4>1. n < Len(line)
        BY <1>2, <2>4, <2>5, <3>2
      <4>2. QED
        BY <2>2, <2>3, <3>2, <4>1 DEF Documented, Before
    <3>3. QED
      BY <3>1, <3>2
  <2>7. /\ exit' = "none" => Documented(line) \/ WithoutDuration(line)
        /\ exit' = "failure" => ~Documented(line)
        /\ exit' = "undefined" => ~Documented(line) \/ Last(line) = "--get_statistics"
    <3>1. CASE args = <<>>
      BY <2>6, <3>1 DEF ReadCommand, Exits
    <3>2. CASE args # <<>> /\ args[1] \in Informing
      <4>1. args[1] \notin CommandNames
        BY <3>2 DEF CommandNames, Queries, Operations, ModeOperations, Informing
      <4>2. Len(args) # 1 => ~DocumentedCommand(args)
        BY <4>1 DEF DocumentedCommand
      <4>3. exit' = IF Len(args) = 1 THEN "success" ELSE "failure"
        BY <3>2 DEF ReadCommand, Exits
      <4>4. QED
        BY <2>6, <4>2, <4>3
    <3>3. CASE args # <<>> /\ args[1] \notin Informing /\ args[1] \notin CommandNames
      <4>1. ~DocumentedCommand(args)
        BY <3>3 DEF DocumentedCommand
      <4>2. exit' = "failure"
        BY <3>3 DEF ReadCommand, Exits
      <4>3. QED
        BY <2>6, <4>1, <4>2
    <3>4. CASE args # <<>> /\ args[1] \notin Informing /\ args[1] \in CommandNames
      <4>1. PICK parsed : parsed = ParseWords(args[1], Tail(args))
        OBVIOUS
      <4>2. /\ parsed \in {"taken", "refused", "undefined"}
            /\ parsed = "taken" => DocumentedCommand(args) \/ WithoutDuration(args)
            /\ parsed = "refused" => ~DocumentedCommand(args)
            /\ parsed = "undefined" => args = <<"--get_statistics">>
        BY <2>5, <3>4, <4>1, WordsAreRead
      <4>3. /\ parsed = "taken" => exit' = "none"
            /\ parsed = "refused" => exit' = "failure"
            /\ parsed = "undefined" => exit' = "undefined"
        BY <3>4, <4>1, <4>2 DEF ReadCommand, Goes, Exits
      <4>4. args = <<"--get_statistics">> => Last(line) = "--get_statistics"
        <5>1. SUFFICES ASSUME args = <<"--get_statistics">> PROVE Last(line) = "--get_statistics"
          OBVIOUS
        <5>2. Len(args) = 1 /\ args[1] = "--get_statistics"
          BY <5>1
        <5>3. n + 1 = Len(line) /\ n < Len(line)
          BY <1>2, <2>4, <2>5, <5>2
        <5>4. QED
          BY <2>5, <5>2, <5>3 DEF Last
      <4>5. WithoutDuration(args) => WithoutDuration(line)
        <5>1. SUFFICES ASSUME WithoutDuration(args) PROVE WithoutDuration(line)
          OBVIOUS
        <5>2. Len(args) \in Nat /\ Len(args) > 1 /\ Len(line) = n + Len(args)
          BY <1>2, <2>4, <2>5, <5>1, LenProperties DEF WithoutDuration
        <5>3. n + 1 \in 1..(Len(line) + 1) /\ Len(line) \in 0..Len(line)
          BY <1>2, <2>4, <5>2
        <5>4. \A k \in 1..(Len(line) - (n + 1) + 1) : args[k] = line[n + 1 + k - 1]
          <6>1. /\ n + 1 \in 1..(Len(line) + 1) /\ Len(line) \in 0..Len(line)
                /\ line \in Seq(Words) /\ args = SubSeq(line, n + 1, Len(line))
            BY <1>2, <2>4, <5>3
          <6>2. QED
            BY ONLY <6>1, PartAt
        <5>5. args[Len(args) - 1] = line[Len(line) - 1] /\ args[Len(args)] = line[Len(line)]
          <6>1. Len(line) - (n + 1) + 1 = Len(args)
            BY <1>2, <2>4, <5>2
          <6>2. args[Len(args) - 1] = line[n + 1 + (Len(args) - 1) - 1]
            <7>1. Len(args) - 1 \in 1..Len(args)
              BY ONLY <5>2
            <7>2. QED
              BY <5>4, <6>1, <7>1
          <6>3. args[Len(args)] = line[n + 1 + Len(args) - 1]
            BY <5>2, <5>4, <6>1
          <6>4. /\ n + 1 + (Len(args) - 1) - 1 = Len(line) - 1
                /\ n + 1 + Len(args) - 1 = Len(line)
            <7>1. PICK k, m : k = Len(args) /\ m = Len(line)
              OBVIOUS
            <7>2. n \in Nat /\ k \in Nat /\ m = n + k
              BY <2>4, <5>2, <7>1
            <7>3. n + 1 + (k - 1) - 1 = m - 1 /\ n + 1 + k - 1 = m
              BY ONLY <7>2
            <7>4. QED
              BY <7>1, <7>3
          <6>5. QED
            BY <6>2, <6>3, <6>4
        <5>6. QED
          <6>1. args[Len(args) - 1] \in DurationShown /\ args[Len(args)] = "op"
            BY <5>1 DEF WithoutDuration, Last
          <6>2. Len(line) > 1
            BY <5>2, <2>4
          <6>3. QED
            BY <6>1, <6>2, <5>5 DEF WithoutDuration, Last
      <4>6. QED
        BY <2>6, <3>4, <4>2, <4>3, <4>4, <4>5
    <3>5. QED
      BY <3>1, <3>2, <3>3, <3>4
  <2>8. ParseHost(text).ok
    BY <1>1, <2>1 DEF Reads
  <2>9. /\ (line[1] = "--host" \/ text = <<"h">>)'
        /\ stage' \in {"host", "passwd", "version", "parsed", "exited"}
        /\ (stage \in {"passwd", "version", "parsed"} => ParseHost(text).ok)'
        /\ stage' \notin {"host", "passwd", "version"}
        /\ (stage = "parsed" => Documented(line) \/ WithoutDuration(line))'
        /\ (exit = "failure" => ~(Documented(line) /\ Meaningful(text)))'
        /\ (exit = "undefined" => ~Documented(line) \/ Last(line) = "--get_statistics")'
    BY <1>1, <1>3, <2>1, <2>7, <2>8 DEF Reads
  <2>10. QED
    BY <2>9 DEF Reads
<1>5. QED
  BY <1>1, <1>2, <1>3, <1>4 DEF ArgumentsInv

LEMMA ArgumentsNext == ArgumentsInv /\ [WoinccmdNext]_allVars => ArgumentsInv'
<1> SUFFICES ASSUME ArgumentsInv, [WoinccmdNext]_allVars PROVE ArgumentsInv'
  OBVIOUS
<1>1. CASE UNCHANGED <<user, line, text, args, stage, exit>>
  BY <1>1 DEF ArgumentsInv, Reads, Before
<1>2. CASE ReadHost \/ ReadPassword \/ ReadCommand
  BY <1>2, ReadHostArguments, ReadPasswordArguments, ReadCommandArguments
<1>3. CASE Connect
  <2>1. line' = <<>> /\ text' = <<>> /\ (exit' # "none" <=> stage' = "exited")
    BY <1>3 DEF Connect, Goes, Exits
  <2>2. QED
    BY <2>1 DEF ArgumentsInv
<1>4. CASE Authorize \/ Execute \/ Authorized \/ CommandFailed \/ CommandExecuted \/ Polled
  <2>1. /\ user = "woinccmd" /\ stage \in {"ready", "authorizing", "executing"}
        /\ UNCHANGED <<user, line, text>>
    BY <1>4 DEF Authorize, Execute, Authorized, CommandFailed, CommandExecuted, Polled, Running,
                argumentVars
  <2>2. line = <<>>
    BY <2>1 DEF ArgumentsInv, Reads
  <2>3. exit' # "none" <=> stage' = "exited"
    BY <1>4 DEF Authorize, Execute, Authorized, CommandFailed, CommandExecuted, Polled, Proceed,
                Goes, Exits
  <2>4. QED
    BY <2>1, <2>2, <2>3 DEF ArgumentsInv
<1>5. QED
  BY <1>1, <1>2, <1>3, <1>4
  DEF WoinccmdNext, MainStep, ClientDetachesProject, Ended, allVars, cliVars, argumentVars

-----------------------------------------------------------------------------
(* The theorems.                                                           *)

\* For all command lines, whatever fails and whenever: woinccmd acts on no answer to an
\* earlier request, believes to be authorized only if it is, and when it ends well
\* without a word the BOINC client has executed its last command with success.
THEOREM WoinccmdIsTruthful == WoinccmdSpec => []WoinccmdTellsTheTruth
<1>1. WoinccmdInv => WoinccmdTellsTheTruth
  BY DEF WoinccmdInv, ProgramInv, FirstFailureEnds, Truth, IInv, InStep, OwnReply,
         WoinccmdTellsTheTruth
<1>2. QED
  BY <1>1, WoinccmdSpecInv, PTL

\* What the worker and woinccmd have in common, for the composition that the run checks.
THEOREM BothUsersAreToldTheTruth == WoinccmdSpec => [](TrueUntilFailure /\ GoodPasswordAccepted)
<1>1. WoinccmdInv => TrueUntilFailure /\ GoodPasswordAccepted
  BY DEF WoinccmdInv, IInv, InStep, TrueUntilFailure
<1>2. QED
  BY <1>1, WoinccmdSpecInv, PTL

\* For all command lines and all texts for the host: woinccmd takes what its usage text
\* shows and nothing else (but a mode without its duration), and takes from a host what is
\* written there.
THEOREM ArgumentsRead == WoinccmdSpec => []ArgumentsAreReadAsDocumented
<1>1. ArgumentsInv => ArgumentsAreReadAsDocumented
  <2>1. SUFFICES ASSUME ArgumentsInv, user = "woinccmd", line # <<>>
                 PROVE  /\ stage = "parsed" =>
                             /\ Documented(line) \/ WithoutDuration(line)
                             /\ Says(text, ParseHost(text)) \/ Misread(text)
                        /\ exit = "failure" => ~(Documented(line) /\ Meaningful(text))
                        /\ exit = "undefined" => ~Documented(line) \/ Last(line) = "--get_statistics"
    BY DEF ArgumentsAreReadAsDocumented
  <2>2. Reads /\ text \in Seq(Letters)
    BY <2>1 DEF ArgumentsInv
  <2>3. QED
    BY <2>2, ParsedIsSaid DEF Reads
<1>2. QED
  BY <1>1, ArgumentsInit, ArgumentsNext, PTL DEF WoinccmdSpec
=============================================================================
