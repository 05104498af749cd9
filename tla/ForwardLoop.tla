---------------------------- MODULE ForwardLoop ----------------------------
(* tlsproxy.py, _forward(): the requests of one intercepted client connection,   *)
(* each forwarded over an upstream connection of its own by the raw forwarder    *)
(* (forward.py), answered, recorded, and followed by another one or a close      *)
(* (http/connection.py).  Any wait may be cancelled and any peer may fail.       *)
EXTENDS Integers

CONSTANT MaxRequests  \* bound on the requests of the connection

ASSUME RequestsAssumption == MaxRequests \in Nat \ {0}

Versions == {10, 11}
Tokens == {"none", "close", "keep-alive"}  \* the Connection header

\* body: none; sent at once; held until 100 Continue.  expect: it asks for one.
Requests == {r \in [version : Versions, token : Tokens, body : {"none", "sent", "held"},
                    expect : BOOLEAN] : r.body = "held" => r.expect}
Responses == [status : {101, 200}, version : Versions, token : Tokens, eof : BOOLEAN]
\* What the transformer asks for: nothing, another body, another response, a drop
Transforms == {"none", "body", "drop"} \cup Tokens

VARIABLES pc,        \* "head", "dial", "expect", "body", "continued", "send", "relay", "over"
          n, req,    \* the request in progress
          unread,    \* its body is still to come on the client's stream
          upstream,  \* "none", "open"
          client,    \* the client's writer: "open", "closing"
          answers,   \* final responses the client got, or began to get, by request
          relayed,   \* the last response relayed to the client
          recorded,  \* by request: record_request() and record_exchange() calls, and those with a response
          failed     \* a peer or user code failed the task, or it was cancelled

vars == <<pc, n, req, unread, upstream, client, answers, relayed, recorded, failed>>

NoRequest == [version |-> 11, token |-> "none", body |-> "none", expect |-> FALSE]
NoResponse == [status |-> 200, version |-> 11, token |-> "none", eof |-> FALSE]
Unrecorded == [requests |-> 0, exchanges |-> 0, responses |-> 0]

Init == /\ pc = "head" /\ n = 0 /\ req = NoRequest /\ unread = FALSE
        /\ upstream = "none" /\ client = "open" /\ failed = FALSE
        /\ answers = [i \in 1..MaxRequests |-> 0] /\ relayed = NoResponse
        /\ recorded = [i \in 1..MaxRequests |-> Unrecorded]
-----------------------------------------------------------------------------
\* Persistence

ShouldClose(request, response) ==
  \/ response.status = 101 \/ response.token = "close"
  \/ response.version = 10 /\ response.token # "keep-alive"
  \/ request.version = 11 /\ request.token = "close"
  \/ request.version = 10 /\ request.token # "keep-alive"

AllowsKeepAlive(request, response) == ~response.eof /\ ~ShouldClose(request, response)

\* The response that the client really gets
Relayed(r, transform) ==
  CASE transform \in {"none", "drop"} -> r
    [] transform = "body" -> [r EXCEPT !.eof = FALSE]
    [] OTHER -> [status |-> 200, version |-> 11, token |-> transform, eof |-> FALSE]

\* The transformer sees final responses but not a protocol switch.
Outcomes(r) == IF r.status = 101 THEN {"none"} ELSE Transforms
-----------------------------------------------------------------------------
\* Recording and answering

RecordRequest == recorded' = [recorded EXCEPT ![n].requests = @ + 1]
\* Where the client waits, the request is recorded with its exchange.
RecordExchange(responses) ==
  recorded' = [recorded EXCEPT ![n] =
                 [requests |-> IF pc = "relay" THEN @.requests ELSE @.requests + 1,
                  exchanges |-> @.exchanges + 1, responses |-> @.responses + responses]]

Answer == answers' = [answers EXCEPT ![n] = @ + 1]

\* _send_and_close(), and the release of the upstream on the way out
Refuse == Answer /\ client' = "closing" /\ upstream' = "none" /\ pc' = "over"

\* The loop goes on, or closes the client, after an exchange.
After(keep, writer) ==
  /\ upstream' = "none"
  /\ pc' = IF keep /\ writer = "open" THEN "head" ELSE "over"
  /\ client' = IF keep THEN writer ELSE "closing"
-----------------------------------------------------------------------------
\* _forward()

NextHead(r) ==
  /\ pc = "head" /\ n < MaxRequests
  /\ n' = n + 1 /\ req' = r /\ unread' = (r.body # "none") /\ pc' = "dial"
  /\ UNCHANGED <<upstream, client, answers, relayed, recorded, failed>>

\* A clean end of the stream, or bytes that are no request
NoHead ==
  /\ pc = "head" /\ client' = "closing" /\ pc' = "over"
  /\ UNCHANGED <<n, req, unread, upstream, answers, relayed, recorded, failed>>

(* client_waiting: it asked for 100 Continue and nothing has come behind its     *)
(* head.  A body that is sent at once, or a next request, may or may not have.   *)
Dial ==
  /\ pc = "dial" /\ upstream' = "open"
  /\ pc' \in (IF req.expect THEN {"expect"} ELSE {})
             \cup (IF req.body = "held" THEN {} ELSE {"body"})
  /\ UNCHANGED <<n, req, unread, client, answers, relayed, recorded, failed>>

DialFails ==
  /\ pc = "dial" /\ Refuse /\ RecordExchange(0)
  /\ UNCHANGED <<n, req, unread, relayed, failed>>

\* The rest of the body arrives, and the request is recorded and sent.
Body ==
  /\ pc = "body" /\ unread' = FALSE /\ RecordRequest /\ pc' = "relay"
  /\ UNCHANGED <<n, req, upstream, client, answers, relayed, failed>>

\* It does not: the request is refused and not recorded.
BodyFails ==
  /\ pc = "body" /\ unread /\ Refuse
  /\ UNCHANGED <<n, req, unread, relayed, recorded, failed>>

\* Interim responses are relayed; 100 Continue lets a held body come.
Interim ==
  /\ pc \in {"relay", "expect", "waited"}
  /\ pc' \in IF pc = "expect" THEN {"expect", "continued"} ELSE {pc}
  /\ UNCHANGED <<n, req, unread, upstream, client, answers, relayed, recorded, failed>>

Continued ==
  /\ pc = "continued" /\ unread' = FALSE /\ pc' = "waited"
  /\ UNCHANGED <<n, req, upstream, client, answers, relayed, recorded, failed>>

ContinuedFails ==
  /\ pc = "continued" /\ unread /\ Refuse /\ RecordExchange(0)
  /\ UNCHANGED <<n, req, unread, relayed, failed>>

\* Mutant: the failure is not the end of the request.
NoFinalGoesOn ==
  /\ pc \in {"relay", "expect", "waited"} /\ Answer /\ RecordExchange(0)
  /\ UNCHANGED <<pc, n, req, unread, upstream, client, relayed, failed>>
\* The upstream ends, or what it sends is no response.
NoFinal ==
  /\ pc \in {"relay", "expect", "waited"} /\ Refuse /\ RecordExchange(0)
  /\ UNCHANGED <<n, req, unread, relayed, failed>>

\* Mutant: an early final response ends the request like any other.
ConsumedAlways == TRUE
\* request_body_consumed: a final response instead of 100 leaves a held body unread.
Consumed == pc = "expect" => req.body = "none"

\* The final response is transformed, relayed, recorded and judged.
Final(r, transform) ==
  LET sent == Relayed(r, transform)
      writer == IF transform = "drop" THEN "closing" ELSE client
  IN /\ pc \in {"relay", "expect", "waited"} /\ transform \in Outcomes(r)
     /\ Answer /\ relayed' = sent /\ RecordExchange(1)
     /\ After(Consumed /\ AllowsKeepAlive(req, sent), writer)
     /\ UNCHANGED <<n, req, unread, failed>>

(* A write or read fails, the transformer raises, or the task is cancelled: the  *)
(* upstream is released, the client closed; it may have got the response.        *)
Fails ==
  /\ pc # "over" /\ failed' = TRUE /\ pc' = "over" /\ client' = "closing" /\ upstream' = "none"
  /\ answers' = answers \/ (pc \in {"relay", "expect", "waited"} /\ Answer)
  /\ UNCHANGED <<n, req, unread, relayed, recorded>>
-----------------------------------------------------------------------------
Next == \/ \E r \in Requests : NextHead(r)
        \/ NoHead \/ Dial \/ DialFails \/ Body \/ BodyFails \/ Interim
        \/ Continued \/ ContinuedFails \/ NoFinal \/ Fails
        \/ \E r \in Responses, t \in Transforms : Final(r, t)

Spec == Init /\ [][Next]_vars
-----------------------------------------------------------------------------
(* In step: where the loop reads the next head, the last exchange left nothing   *)
(* behind.  Its body was read, its one final response came with a framing that   *)
(* shows its end, and neither side was told that the connection closes           *)
(* (tlsproxy.py:739-745, forward.py:175-195, http/connection.py:84-126).         *)
InStep == pc = "head" /\ n > 0 =>
  /\ ~unread /\ answers[n] = 1 /\ client = "open" /\ upstream = "none"
  /\ ~relayed.eof /\ relayed.status # 101 /\ "close" \notin {relayed.token, req.token}

(* One answer, one exchange: no request gets two final responses or two          *)
(* exchanges, and unless a peer, user code or a cancellation cut it short, each  *)
(* gets one response and as many exchanges as record_request() calls             *)
(* (tlsproxy.py:576-596, 629-695, 717-738).                                      *)
OneAnswerOneExchange ==
  /\ \A i \in 1..n : /\ answers[i] <= 1 /\ recorded[i].requests <= 1
                     /\ recorded[i].exchanges <= recorded[i].requests
                     /\ recorded[i].responses <= answers[i]
  /\ pc \in {"head", "over"} /\ ~failed => \A i \in 1..n :
       answers[i] = 1 /\ recorded[i].requests = recorded[i].exchanges
=============================================================================
