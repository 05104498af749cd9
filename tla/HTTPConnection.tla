--------------------------- MODULE HTTPConnection ---------------------------
(***************************************************************************)
(* One server-side connection of localstub                                 *)
(* (src/localstub/server/connection.py): the coroutine run() and the child *)
(* task _serve() it supervises, the client at the other end, and whoever   *)
(* shuts the connection down or cancels run().                             *)
(*                                                                         *)
(* An action is the code between two suspension points of run() or of the  *)
(* child.  shutdown() and a cancellation are synchronous calls that other  *)
(* tasks make while the child is suspended; the CancelledError they cause  *)
(* is delivered when the child next runs.  What the bytes say is a choice; *)
(* user code (handlers and middleware) may return, raise, or shut the      *)
(* server down, and lets a cancellation through.  run() may be cancelled   *)
(* at each of its own suspensions, so a second time while it waits for the *)
(* loop that it cancelled itself.                                          *)
(***************************************************************************)
EXTENDS Naturals

CONSTANTS
  None,          \* no event, no limit
  Policies,      \* the KeepAlivePolicy values pipeline.keep_alive() may return
  MaxServed      \* bound: requests the client starts

Timeouts == {"none", "zero", "positive"}

ASSUME ConnectionAssumption ==
  /\ None \notin Nat
  /\ Policies \subseteq [timeout : Timeouts, max : (Nat \ {0}) \cup {None},
                         reset : BOOLEAN]
  /\ Policies # {}
  /\ MaxServed \in Nat

VARIABLES
  parent,      \* where run() is
  child,       \* where _serve() is
  cancelled,   \* child.cancel() was called and is not delivered yet
  phase,       \* ConnectionState.phase
  completed,   \* ConnectionState.requests_completed
  event,       \* ConnectionState.closed
  policy,      \* _policy
  whole,       \* is_complete of the request being read
  final,       \* header middleware sent the final response
  answer,      \* what the head of the last final response says
  requests,    \* requests recorded
  exchanges,   \* exchanges recorded
  writer,      \* the client's transport
  published,   \* finalize() has recorded the event
  asked        \* shutdown() was called from outside the loop

readVars == <<phase, completed, whole, final, answer>>
vars == <<parent, child, cancelled, readVars, event, policy, requests,
          exchanges, writer, published, asked>>

Phases == {"idle", "request_headers", "request_body", "response",
           "response_body", "after_response"}
\* The request is counted from its message boundary on.
Counted == {"response", "response_body", "after_response"}

\* The suspension points of the child, by the part of a request it is in.
Reading  == {"deciding", "replying", "body", "cutting"}
Handling == {"responding", "writing", "sent", "delaying", "relaying",
             "dropping"}
Childs   == {"none", "started", "idle", "headers", "done"}
              \cup Reading \cup Handling

Event == [reason : {"client", "idle_timeout", "protocol_error", "shutdown",
                    "request_read", "error", "response_aborted",
                    "close_response", "max_requests", "connection_close"},
          phase : Phases, reset : BOOLEAN, completed : Nat]

ASSUME EventAssumption == None \notin Event

Init ==
  /\ parent = "new"
  /\ child = "none"
  /\ cancelled = FALSE
  /\ phase = "idle"
  /\ completed = 0
  /\ event = None
  /\ policy \in Policies
  /\ whole = FALSE
  /\ final = FALSE
  /\ answer = "none"
  /\ requests = 0
  /\ exchanges = 0
  /\ writer = "open"
  /\ published = FALSE
  /\ asked = FALSE
-----------------------------------------------------------------------------
(* Decisions and closes.                                                   *)

\* _decide: the first decision stands.
Decided(reason, ph, reset, n) ==
  IF event # None THEN event
  ELSE [reason |-> reason, phase |-> ph, reset |-> reset, completed |-> n]

\* Mutant: the reset is forgotten.
StartCloseGracefully(w, ev) ==
  CASE w \in {"aborted", "closed"} -> w
    [] ev.reason = "shutdown" -> "aborted"
    [] OTHER -> "closing"

\* _start_close: a reset and a shutdown do not wait for the peer.
StartClose(w, ev) ==
  CASE w \in {"aborted", "closed"} -> w
    [] ev.reset \/ ev.reason = "shutdown" -> "aborted"
    [] OTHER -> "closing"

\* The same, for a writer that is not closing already.
EnsureClose(w, ev) == IF w = "open" THEN StartClose(w, ev) ELSE w

Abort(w) == IF w = "closed" THEN w ELSE "aborted"

\* Mutant: a request complete at its headers is not counted.
BoundaryUncounted(complete) ==
  /\ completed' = completed
  /\ phase' = IF complete THEN "response" ELSE "request_body"

\* _track_boundary: the phase and the counter once the headers are read.
Boundary(complete) ==
  IF ~complete THEN /\ phase' = "request_body"
                    /\ completed' = completed
  ELSE /\ phase' = "response"
       /\ completed' = IF phase = "response" THEN completed ELSE completed + 1

\* Mutant: what the message heads say is ignored.
PolicyEventHeadless(n, wanted) ==
  LET spent == policy.max # None /\ n >= policy.max
      why   == IF spent THEN "max_requests" ELSE "idle_timeout"
  IN IF event # None \/ spent \/ policy.timeout = "zero"
     THEN Decided(why, "after_response", why = "idle_timeout" /\ policy.reset, n)
     ELSE None

\* _apply_close_policy after a response is written: the event that ends the
\* connection, or None if it is kept.
PolicyEvent(n, wanted) ==
  LET spent == policy.max # None /\ n >= policy.max
      why   == CASE spent -> "max_requests"
                 [] ~spent /\ policy.timeout = "zero" -> "idle_timeout"
                 [] OTHER -> "connection_close"
  IN IF event # None \/ spent \/ wanted \/ policy.timeout = "zero"
     THEN Decided(why, "after_response", why = "idle_timeout" /\ policy.reset, n)
     ELSE None

\* _should_close_after: what the head of a local response says.
SaysClose(wanted, n) ==
  IF wanted \/ (policy.max # None /\ n >= policy.max) THEN "close" ELSE "keep"

\* A relayed response says what upstream said.
Answers == {"none", "keep", "close", "relayed keep", "relayed close"}
Closes  == {"close", "relayed close"}

\* The loop stops with a decision, and the child with it.
Stop(reason, ph, reset) ==
  /\ event' = Decided(reason, ph, reset, completed)
  /\ writer' = EnsureClose(writer, event')
  /\ child' = "done"

\* A response whose result carries a close: record the exchange and end.
Closed ==
  /\ exchanges' = exchanges + 1
  /\ child' = "done"

\* The end of _handle_request, and the top of the loop when it goes on.
Answered(n) ==
  /\ event' = PolicyEvent(n, answer \in Closes)
  /\ exchanges' = exchanges + 1
  /\ IF event' = None
     THEN /\ child' = "idle"
          /\ phase' = "idle"
          /\ policy' \in Policies
          /\ writer' = writer
     ELSE /\ child' = "done"
          /\ phase' = "after_response"
          /\ policy' = policy
          /\ writer' = EnsureClose(writer, event')

\* Mutant: a request counted at its headers is counted again.
HandledTwice ==
  /\ requests' = requests + 1
  /\ completed' = completed + 1
  /\ IF final
     THEN Answered(completed')
     ELSE /\ child' = "responding"
          /\ phase' = "response"
          /\ UNCHANGED <<event, exchanges, policy, writer>>

\* _complete_reading at the message boundary, and the start of
\* _handle_request: header middleware may have answered already.
Handled ==
  /\ requests' = requests + 1
  /\ completed' = IF phase = "response" THEN completed ELSE completed + 1
  /\ IF final
     THEN Answered(completed')
     ELSE /\ child' = "responding"
          /\ phase' = "response"
          /\ UNCHANGED <<event, exchanges, policy, writer>>

\* _record_interrupted: the part of a request that was read is recorded,
\* with its exchange, before the loop ends.
Interrupted(reason, reset, complete) ==
  /\ requests' = requests + 1
  /\ exchanges' = exchanges + 1
  /\ Boundary(complete)
  /\ event' = Decided(reason, phase', reset, completed')
  /\ child' = "done"
-----------------------------------------------------------------------------
(* run(), and what is done to it.                                          *)

loopUnchanged == UNCHANGED <<readVars, policy, requests, exchanges>>

\* run() has returned, or raised its cancellation; once cancelled twice, it
\* has abandoned its child.
Ended == {"returned", "raised", "abandoned"}

\* finalize().
Finalize(w) ==
  /\ event' = Decided("error", phase, FALSE, completed)
  /\ writer' = EnsureClose(w, event')
  /\ published' = TRUE

Run ==
  /\ parent = "new"
  /\ event = None
  /\ parent' = "serving"
  /\ child' = "started"
  /\ UNCHANGED <<cancelled, event, writer, published, asked>>
  /\ loopUnchanged

\* Shut down before run(): the loop never starts.
RunAfterShutdown ==
  /\ parent = "new"
  /\ event # None
  /\ Finalize(writer)
  /\ parent' = "closing"
  /\ UNCHANGED <<child, cancelled, asked>>
  /\ loopUnchanged

\* Mutant: the decision replaces an earlier one.
Shutdown_Overwriting ==
  /\ parent \notin Ended
  /\ event' = [reason |-> "shutdown", phase |-> phase, reset |-> FALSE,
               completed |-> completed]
  /\ asked' = TRUE
  /\ cancelled' = (child \notin {"none", "done"})
  /\ writer' = IF child = "done" THEN Abort(writer) ELSE writer
  /\ UNCHANGED <<parent, child, published>>
  /\ loopUnchanged

\* shutdown(), called from outside the loop.
Shutdown ==
  /\ parent \notin Ended
  /\ event' = Decided("shutdown", phase, FALSE, completed)
  /\ asked' = TRUE
  /\ cancelled' = (child \notin {"none", "done"})
  /\ writer' = IF child = "done" THEN Abort(writer) ELSE writer
  /\ UNCHANGED <<parent, child, published>>
  /\ loopUnchanged

\* shutdown() from a handler or a middleware of this connection.
ShutdownFromInside ==
  /\ child \in {"deciding", "responding", "sent"}
  /\ ~cancelled
  /\ event' = Decided("shutdown", phase, FALSE, completed)
  /\ UNCHANGED <<parent, child, cancelled, writer, published, asked>>
  /\ loopUnchanged

\* run() is cancelled while it waits for the child.
CancelRun ==
  /\ parent = "serving"
  /\ parent' = "stopping"
  /\ event' = Decided("shutdown", phase, FALSE, completed)
  /\ cancelled' = (child # "done")
  /\ UNCHANGED <<child, writer, published, asked>>
  /\ loopUnchanged

\* Mutant: the event waits for the peer to close.
ChildEndedAfterClose ==
  /\ parent = "serving"
  /\ child = "done"
  /\ writer # "closing"
  /\ Finalize(writer)
  /\ parent' = "closing"
  /\ UNCHANGED <<child, cancelled, asked>>
  /\ loopUnchanged

ChildEnded ==
  /\ parent = "serving"
  /\ child = "done"
  /\ Finalize(writer)
  /\ parent' = "closing"
  /\ UNCHANGED <<child, cancelled, asked>>
  /\ loopUnchanged

\* Mutant: run() does not wait for the child it cancelled.
AbandonChild ==
  /\ parent = "stopping"
  /\ Finalize(Abort(writer))
  /\ parent' = "raising"
  /\ UNCHANGED <<child, cancelled, asked>>
  /\ loopUnchanged

\* Mutant: run() leaves the transport to the peer.
StopWithoutAbort ==
  /\ parent = "stopping"
  /\ child = "done"
  /\ Finalize(writer)
  /\ parent' = "raising"
  /\ UNCHANGED <<child, cancelled, asked>>
  /\ loopUnchanged

CancelledChildEnded ==
  /\ parent = "stopping"
  /\ child = "done"
  /\ Finalize(Abort(writer))
  /\ parent' = "raising"
  /\ UNCHANGED <<child, cancelled, asked>>
  /\ loopUnchanged

\* run() is cancelled again while it waits for the child it cancelled: it
\* waits no longer, and leaves without the abort.
CancelStopping ==
  /\ parent = "stopping"
  /\ Finalize(writer)
  /\ parent' = "abandoning"
  /\ UNCHANGED <<child, cancelled, asked>>
  /\ loopUnchanged

\* run() is cancelled while it waits for the transport.
CancelClosing ==
  /\ parent \in {"closing", "raising", "abandoning"}
  /\ writer' = Abort(writer)
  /\ parent' = IF parent = "abandoning" THEN "abandoned" ELSE "raised"
  /\ UNCHANGED <<child, cancelled, event, published, asked>>
  /\ loopUnchanged

RunEnds ==
  /\ parent \in {"closing", "raising", "abandoning"}
  /\ writer = "closed"
  /\ parent' = CASE parent = "closing"    -> "returned"
                 [] parent = "raising"    -> "raised"
                 [] parent = "abandoning" -> "abandoned"
  /\ UNCHANGED <<child, cancelled, event, writer, published, asked>>
  /\ loopUnchanged

\* A connection accepted while the server closes is finalized at once.
Refuse ==
  /\ parent = "new"
  /\ event' = Decided("shutdown", phase, FALSE, completed)
  /\ writer' = EnsureClose(writer, event')
  /\ published' = TRUE
  /\ parent' = "returned"
  /\ UNCHANGED <<child, cancelled, asked>>
  /\ loopUnchanged
-----------------------------------------------------------------------------
(* The child: from one request to the next.                                *)

\* A child that is to be cancelled does nothing else when it next runs.
Alive(pc) == child = pc /\ ~cancelled
childUnchanged == UNCHANGED <<parent, cancelled, published, asked>>

Begin ==
  /\ Alive("started")
  /\ child' = "idle"
  /\ phase' = "idle"
  /\ policy' \in Policies
  /\ UNCHANGED <<completed, whole, final, answer, event, requests, exchanges,
                 writer>>
  /\ childUnchanged

FirstByte ==
  /\ Alive("idle")
  /\ completed < MaxServed
  /\ child' = "headers"
  /\ phase' = "request_headers"
  /\ policy' \in Policies
  /\ whole' = FALSE
  /\ final' = FALSE
  /\ answer' = "none"
  /\ UNCHANGED <<completed, event, requests, exchanges, writer>>
  /\ childUnchanged

IdleTimer ==
  /\ Alive("idle")
  /\ policy.timeout = "positive"
  /\ completed > 0
  /\ Stop("idle_timeout", "idle", policy.reset)
  /\ UNCHANGED <<readVars, policy, requests, exchanges>>
  /\ childUnchanged

\* A read fails with a reset only once the transport is lost.
ReadFailsWith(reset) == reset => writer = "closed"

IdleGone ==
  /\ Alive("idle")
  /\ \E reset \in BOOLEAN : ReadFailsWith(reset) /\ Stop("client", "idle", reset)
  /\ UNCHANGED <<readVars, policy, requests, exchanges>>
  /\ childUnchanged
-----------------------------------------------------------------------------
(* The child: reading a request.                                           *)

\* A read that stops short: by bad bytes, by the end of the stream or by an
\* error.
StopsShort(ph) ==
  \/ Stop("protocol_error", ph, FALSE)
  \/ \E reset \in BOOLEAN : ReadFailsWith(reset) /\ Stop("client", ph, reset)

\* Nothing is recorded of a request whose headers never completed.
HeadersStop ==
  /\ Alive("headers")
  /\ StopsShort("request_headers")
  /\ UNCHANGED <<readVars, policy, requests, exchanges>>
  /\ childUnchanged

\* Mutant: the request is recorded without its exchange.
HeadersRejectedUnpaired ==
  /\ Alive("headers")
  /\ phase' = "request_body"
  /\ Stop("protocol_error", "request_body", FALSE)
  /\ requests' = requests + 1
  /\ UNCHANGED <<completed, whole, final, answer, policy, exchanges>>
  /\ childUnchanged

\* Rejected at the end of the headers, before header middleware.
HeadersRejected ==
  /\ Alive("headers")
  /\ phase' = "request_body"
  /\ Stop("protocol_error", "request_body", FALSE)
  /\ requests' = requests + 1
  /\ exchanges' = exchanges + 1
  /\ UNCHANGED <<completed, whole, final, answer, policy>>
  /\ childUnchanged

\* With no header middleware (it may be added between requests), a request
\* that ends with its headers is handled at once.
HeadersComplete ==
  /\ Alive("headers")
  /\ \E w, chain \in BOOLEAN :
       /\ whole' = w
       /\ IF w /\ ~chain
          THEN Handled
          ELSE /\ Boundary(w)
               /\ child' = IF chain THEN "deciding" ELSE "body"
               /\ UNCHANGED <<event, policy, requests, exchanges, writer>>
  /\ UNCHANGED <<final, answer>>
  /\ childUnchanged

\* _completed_with_current
CompletedWithCurrent ==
  IF phase = "response" THEN completed ELSE completed + 1

\* Mutant: the current request is not counted.
FinalSayUncounted(wanted) == SaysClose(wanted, completed)

\* What the head of a final response from header middleware says.
FinalSay(wanted) == SaysClose(wanted, CompletedWithCurrent)

HeaderSendInterim ==
  /\ Alive("deciding")
  /\ child' = "replying"
  /\ UNCHANGED <<readVars, event, policy, requests, exchanges, writer>>
  /\ childUnchanged

\* The response is filed even if the send does not finish.
HeaderSendFinal ==
  /\ Alive("deciding")
  /\ ~final
  /\ child' = "replying"
  /\ final' = TRUE
  /\ \E wanted \in BOOLEAN : answer' = FinalSay(wanted)
  /\ UNCHANGED <<phase, completed, whole, event, policy, requests, exchanges,
                 writer>>
  /\ childUnchanged

ReplySent ==
  /\ Alive("replying")
  /\ writer # "closed"
  /\ child' = "deciding"
  /\ UNCHANGED <<readVars, event, policy, requests, exchanges, writer>>
  /\ childUnchanged

\* The middleware may go on after a send that failed.
ReplyLost ==
  /\ Alive("replying")
  /\ writer = "closed"
  /\ child' = "deciding"
  /\ \E reset \in BOOLEAN : event' = Decided("client", phase, reset, completed)
  /\ UNCHANGED <<readVars, policy, requests, exchanges, writer>>
  /\ childUnchanged

HeaderAccepts ==
  /\ Alive("deciding")
  /\ IF whole
     THEN Handled
     ELSE /\ child' = "body"
          /\ UNCHANGED <<phase, completed, event, policy, requests, exchanges,
                         writer>>
  /\ UNCHANGED <<whole, final, answer>>
  /\ childUnchanged

\* CloseDuringRequest: read up to after_body_bytes more, then close.
HeaderFault ==
  /\ Alive("deciding")
  /\ child' = "cutting"
  /\ UNCHANGED <<readVars, event, policy, requests, exchanges, writer>>
  /\ childUnchanged

CutShort ==
  /\ Alive("cutting")
  /\ \E w, reset \in BOOLEAN :
       /\ whole => w
       /\ whole' = w
       /\ Interrupted("request_read", reset, w)
  /\ writer' = StartClose(writer, event')
  /\ UNCHANGED <<final, answer, policy>>
  /\ childUnchanged

\* Header middleware raises, also by sending a second final response.
HeaderRaises ==
  /\ Alive("deciding")
  /\ Interrupted("error", FALSE, whole)
  /\ UNCHANGED <<whole, final, answer, policy, writer>>
  /\ childUnchanged

BodyComplete ==
  /\ Alive("body")
  /\ whole' = TRUE
  /\ Handled
  /\ UNCHANGED <<final, answer>>
  /\ childUnchanged

BodyStops ==
  /\ Alive("body")
  /\ phase' = "request_body"
  /\ StopsShort("request_body")
  /\ requests' = requests + 1
  /\ exchanges' = exchanges + 1
  /\ UNCHANGED <<completed, whole, final, answer, policy>>
  /\ childUnchanged
-----------------------------------------------------------------------------
(* The child: responding.                                                  *)

handleUnchanged == UNCHANGED <<completed, whole, final, requests>>

\* The head of a local response is written, and its body begun.
RespondLocal ==
  /\ child \in {"responding", "relaying"}  \* a relay that fails answers 502
  /\ ~cancelled
  /\ child' = "writing"
  /\ phase' = "response_body"
  /\ \E wanted \in BOOLEAN : answer' = SaysClose(wanted, completed)
  /\ UNCHANGED <<event, policy, exchanges, writer>>
  /\ handleUnchanged
  /\ childUnchanged

\* Sender middleware still runs after the last byte.
WriteDone ==
  /\ Alive("writing")
  /\ writer # "closed"
  /\ child' = "sent"
  /\ phase' = "after_response"
  /\ UNCHANGED <<answer, event, policy, exchanges, writer>>
  /\ handleUnchanged
  /\ childUnchanged

Sent ==
  /\ Alive("sent")
  /\ Answered(completed)
  /\ UNCHANGED answer
  /\ handleUnchanged
  /\ childUnchanged

\* A transmission strategy stopped early.
WriteAborts ==
  /\ Alive("writing")
  /\ \E reset \in BOOLEAN :
       event' = Decided("response_aborted", "response_body", reset, completed)
  /\ writer' = StartClose(writer, event')
  /\ Closed
  /\ UNCHANGED <<phase, answer, policy>>
  /\ handleUnchanged
  /\ childUnchanged

\* The client is gone: the child leaves the writer to run().
SendLost ==
  /\ child \in {"writing", "relaying"}
  /\ ~cancelled
  /\ writer = "closed"
  /\ \E reset \in BOOLEAN : event' = Decided("client", phase, reset, completed)
  /\ Closed
  /\ UNCHANGED <<phase, answer, policy, writer>>
  /\ handleUnchanged
  /\ childUnchanged

\* A handler, a middleware, a transmission strategy or a relay raises.
HandlingRaises ==
  /\ child \in {"responding", "writing", "sent", "delaying", "relaying"}
  /\ ~cancelled
  /\ event' = Decided("error", phase, FALSE, completed)
  /\ Closed
  /\ UNCHANGED <<phase, answer, policy, writer>>
  /\ handleUnchanged
  /\ childUnchanged

\* CloseConnection, with a delay.
DelayClose ==
  /\ Alive("responding")
  /\ child' = "delaying"
  /\ UNCHANGED <<readVars, event, policy, requests, exchanges, writer>>
  /\ childUnchanged

CloseResponse ==
  /\ child \in {"responding", "delaying"}
  /\ ~cancelled
  /\ \E reset \in BOOLEAN :
       event' = Decided("close_response", "response", reset, completed)
  /\ writer' = StartClose(writer, event')
  /\ Closed
  /\ UNCHANGED <<phase, answer, policy>>
  /\ handleUnchanged
  /\ childUnchanged

Relay ==
  /\ Alive("responding")
  /\ child' = "relaying"
  /\ UNCHANGED <<readVars, event, policy, requests, exchanges, writer>>
  /\ childUnchanged

RelayWrite ==
  /\ Alive("relaying")
  /\ phase' = "response_body"
  /\ UNCHANGED <<child, answer, event, policy, exchanges, writer>>
  /\ handleUnchanged
  /\ childUnchanged

\* A shutdown decided during the relay closes instead.
RelayDone ==
  /\ Alive("relaying")
  /\ phase = "response_body"
  /\ \E wanted \in BOOLEAN :
       answer' = IF wanted \/ writer # "open" THEN "relayed close"
                                              ELSE "relayed keep"
  /\ IF event = None
     THEN child' = "sent" /\ phase' = "after_response" /\ exchanges' = exchanges
     ELSE Closed /\ phase' = phase
  /\ writer' = IF event = None THEN writer ELSE EnsureClose(writer, event)
  /\ UNCHANGED <<event, policy>>
  /\ handleUnchanged
  /\ childUnchanged

\* A response transformer drops the connection part way; the relay waits for
\* the transport inside the loop.
RelayDrops ==
  /\ Alive("relaying")
  /\ child' = "dropping"
  /\ phase' = "response_body"
  /\ \E reset \in BOOLEAN :
       event' = Decided("response_aborted", "response_body", reset, completed)
  /\ writer' = StartClose(writer, event')
  /\ UNCHANGED <<answer, policy, exchanges>>
  /\ handleUnchanged
  /\ childUnchanged

Dropped ==
  /\ Alive("dropping")
  /\ writer = "closed"
  /\ Closed
  /\ UNCHANGED <<phase, answer, event, policy, writer>>
  /\ handleUnchanged
  /\ childUnchanged
-----------------------------------------------------------------------------
(* The child: a cancellation is delivered.                                 *)

\* Between requests, and before the headers complete, nothing is recorded.
CancelDelivered ==
  /\ cancelled
  /\ cancelled' = FALSE
  /\ IF child \in Reading
     THEN Interrupted("shutdown", FALSE, whole)
     ELSE /\ event' = Decided("shutdown", phase, FALSE, completed)
          /\ child' = "done"
          /\ exchanges' = exchanges + (IF child \in Handling THEN 1 ELSE 0)
          /\ UNCHANGED <<phase, completed, requests>>
  /\ UNCHANGED <<parent, whole, final, answer, policy, writer, published, asked>>
-----------------------------------------------------------------------------
(* The client's transport.                                                 *)

transportUnchanged == UNCHANGED <<parent, child, cancelled, readVars, event,
                                  policy, requests, exchanges, published, asked>>

\* A graceful close is over when the peer has done its part.
PeerCloses ==
  /\ writer = "closing"
  /\ writer' = "closed"
  /\ transportUnchanged

AbortEnds ==
  /\ writer = "aborted"
  /\ writer' = "closed"
  /\ transportUnchanged

PeerVanishes ==
  /\ writer = "open"
  /\ writer' = "closed"
  /\ transportUnchanged

\* All is over.
Finished ==
  /\ parent \in Ended
  /\ child \in {"none", "done"}
  /\ writer = "closed"
  /\ UNCHANGED vars
-----------------------------------------------------------------------------
Parent ==
  \/ Run \/ RunAfterShutdown \/ Shutdown \/ CancelRun \/ ChildEnded
  \/ CancelledChildEnded \/ CancelStopping \/ CancelClosing \/ RunEnds \/ Refuse

Read ==
  \/ Begin \/ FirstByte \/ IdleTimer \/ IdleGone \/ HeadersStop
  \/ HeadersRejected \/ HeadersComplete \/ HeaderSendInterim
  \/ HeaderSendFinal \/ ReplySent \/ ReplyLost \/ HeaderAccepts
  \/ HeaderFault \/ CutShort \/ HeaderRaises \/ BodyComplete \/ BodyStops

Respond ==
  \/ ShutdownFromInside \/ RespondLocal \/ WriteDone \/ Sent \/ WriteAborts
  \/ SendLost \/ HandlingRaises \/ DelayClose \/ CloseResponse \/ Relay
  \/ RelayWrite \/ RelayDone \/ RelayDrops \/ Dropped

Transport == PeerCloses \/ AbortEnds \/ PeerVanishes

Next == Parent \/ Read \/ Respond \/ CancelDelivered \/ Transport \/ Finished

Spec == Init /\ [][Next]_vars

\* The event loop runs what is ready, and an aborted transport closes by
\* itself.  The peer, the handlers and the timers owe nothing.
Fairness ==
  /\ WF_vars(CancelDelivered)
  /\ WF_vars(ChildEnded)
  /\ WF_vars(CancelledChildEnded)
  /\ WF_vars(AbortEnds)
  /\ WF_vars(RunEnds)

FairSpec == Spec /\ Fairness
-----------------------------------------------------------------------------
(* Properties.                                                             *)

\* The shape of the state.  A cancellation is pending only for a child that
\* can receive it, and the counter is never ahead of the requests started.
TypeOK ==
  /\ parent \in {"new", "serving", "stopping", "closing", "raising",
                 "abandoning"} \cup Ended
  /\ child \in Childs
  /\ cancelled \in BOOLEAN
  /\ cancelled => child \notin {"none", "done"}
  /\ phase \in Phases
  /\ completed \in 0 .. MaxServed
  /\ event \in Event \cup {None}
  /\ policy \in Policies
  /\ whole \in BOOLEAN
  /\ final \in BOOLEAN
  /\ answer \in Answers
  /\ requests \in Nat
  /\ exchanges \in Nat
  /\ writer \in {"open", "closing", "aborted", "closed"}
  /\ published \in BOOLEAN
  /\ asked \in BOOLEAN

\* Whatever interrupts it, every recorded request has exactly one recorded
\* exchange, except the request being answered (_record_interrupted,
\* _record_failed_exchange, _complete_reading, _handle_request).
OneExchangePerRequest ==
  requests = exchanges + (IF child \in Handling THEN 1 ELSE 0)

\* run() publishes the event only once the loop is over, so nothing the
\* loop records comes after it.  The exception is a run() cancelled twice:
\* its loop may be left behind, but only to unwind (connection.py:563-571).
PublishedAfterLoop ==
  published =>
    \/ child \in {"none", "done"}
    \/ parent \in {"abandoning", "abandoned"} /\ cancelled

\* A published reset is never left to a graceful close.
EventTellsReset ==
  published /\ event.reset => writer \in {"aborted", "closed"}

\* A close that follows a response whose head did not announce it has one of
\* four causes: the server is shut down or user code fails once the head is
\* out, the keep-alive timeout is zero (_should_close_after never asks for
\* it), or the policy's last request was answered by upstream's own head.
\* The last request of a local response is announced, early or not.
AnnouncedClose ==
  event # None /\ event.phase = "after_response" /\ answer \notin Closes =>
    \/ event.reason \in {"shutdown", "error"}
    \/ event.reason = "idle_timeout" /\ policy.timeout = "zero"
    \/ event.reason = "max_requests" /\ answer = "relayed keep"

\* The first close decision is the one that stands, whoever races for it
\* (decide_close).
EventIsFinal == [][event # None => event' = event]_vars

\* The event counts each request that reached its message boundary once,
\* wherever the decision falls: those answered before, and the current one
\* from the response phase on.
EventCountsRequests ==
  [][event = None /\ event' # None =>
       event'.completed =
         exchanges + (IF event'.phase \in Counted THEN 1 ELSE 0)]_vars

\* No request is read once a close is decided or announced.
NoRequestAfterClose ==
  [][child = "idle" /\ child' = "headers" =>
       event = None /\ answer \notin Closes]_vars

\* A shutdown that interrupts the loop always leads to a published event,
\* whatever the peer does.
ShutdownPublishes == cancelled ~> published

\* A cancelled run() ends, whatever the peer does, unless a second
\* cancellation took it past the abort while a graceful close, begun before,
\* waits for the peer.
CancelledRunEnds ==
  parent = "stopping" ~>
    \/ parent \in {"raised", "abandoned"}
    \/ [](parent = "abandoning" /\ writer = "closing")

\* What shutdown() says of itself (connection.py:579-581): once the loop has
\* finished, the close is aborted rather than left waiting on the peer.
ShutdownNeverWaitsForPeer ==
  asked /\ child = "done" /\ parent = "closing" => writer # "closing"
=============================================================================
