------------------------ MODULE HTTPConnectionProofs ------------------------
(***************************************************************************)
(* Theorems about HTTPConnection for every set of policies and every       *)
(* number of requests.                                                     *)
(***************************************************************************)
EXTENDS HTTPConnection, TLAPS

\* run() publishes once, and has a child from its first step on unless it
\* was shut down before.  Once it is cancelled, the child is over or is to be
\* cancelled next, and a child left behind after the event was published is
\* one that a second cancellation abandoned.
ParentOK ==
  /\ parent = "new" => child = "none" /\ ~published
  /\ parent \in {"serving", "stopping", "abandoning", "abandoned"} => child # "none"
  /\ parent \in {"stopping", "abandoning", "abandoned"} => child = "done" \/ cancelled
  /\ published => child \in {"none", "done"} \/ parent \in {"abandoning", "abandoned"}

\* Where the child is fixes the phase it reports, and a request that is not
\* counted yet still has room below the bound.
PhaseOK ==
  /\ child \in {"none", "started", "idle"} => phase = "idle"
  /\ child = "headers" => phase = "request_headers" /\ completed < MaxServed
  /\ child \in Reading =>
       \/ whole /\ phase = "response"
       \/ ~whole /\ phase = "request_body" /\ completed < MaxServed
  /\ child = "body" => ~whole
  /\ child \in {"responding", "delaying"} => phase = "response"
  /\ child = "relaying" => phase \in {"response", "response_body"}
  /\ child \in {"writing", "dropping"} => phase = "response_body"
  /\ child = "sent" => phase = "after_response"

\* The counter is right at every instant a decision may be taken, and the
\* child never ends without one.
CountOK ==
  /\ child # "done" =>
       completed = exchanges + (IF phase \in Counted THEN 1 ELSE 0)
  /\ child \in {"dropping", "done"} => event # None

TypeInv == TypeOK /\ ParentOK /\ PhaseOK
Inv == TypeInv /\ CountOK /\ OneExchangePerRequest

Writers == {"open", "closing", "aborted", "closed"}
Reasons == {"client", "idle_timeout", "protocol_error", "shutdown",
            "request_read", "error", "response_aborted",
            "close_response", "max_requests", "connection_close"}

\* What a step may do to the decision.
DecisionOK ==
  /\ event # None => event' = event
  /\ event = None /\ event' # None =>
       event'.completed = exchanges + (IF event'.phase \in Counted THEN 1 ELSE 0)
\* What a step that decides makes of the event.
DecidedAt(ph, n) ==
  /\ event' \in Event /\ event' # None
  /\ event # None => event' = event
  /\ event = None => event'.phase = ph /\ event'.completed = n
-----------------------------------------------------------------------------
(* The helpers.                                                            *)

LEMMA DecidedIs ==
  ASSUME EventAssumption, TypeOK, NEW reason \in Reasons, NEW ph \in Phases,
         NEW reset \in BOOLEAN, NEW n \in Nat
  PROVE  /\ Decided(reason, ph, reset, n) \in Event
         /\ Decided(reason, ph, reset, n) # None
         /\ event # None => Decided(reason, ph, reset, n) = event
         /\ event = None => /\ Decided(reason, ph, reset, n).phase = ph
                            /\ Decided(reason, ph, reset, n).completed = n
BY DEF EventAssumption, Decided, Event, TypeOK, Reasons

LEMMA DecidedNow ==
  ASSUME ConnectionAssumption, EventAssumption, TypeOK, NEW reason \in Reasons,
         event' = Decided(reason, phase, FALSE, completed)
  PROVE  DecidedAt(phase, completed)
<1>1. phase \in Phases /\ completed \in Nat /\ event \in Event \cup {None}
  BY DEF TypeOK, ConnectionAssumption
<1> DEFINE b == FALSE
<1>2. b \in BOOLEAN /\ event' = Decided(reason, phase, b, completed)
  OBVIOUS
<1> HIDE DEF b
<1> DEFINE d == Decided(reason, phase, b, completed)
<1>3. d = Decided(reason, phase, b, completed) /\ event' = d
  BY <1>2
<1> HIDE DEF d
<1>4. /\ d \in Event /\ d # None
      /\ event # None => d = event
      /\ event = None => d.phase = phase /\ d.completed = completed
  BY <1>1, <1>2, <1>3, DecidedIs
<1> QED
  BY <1>3, <1>4 DEF DecidedAt

LEMMA WriterIs ==
  ASSUME NEW w \in Writers, NEW ev
  PROVE  /\ StartClose(w, ev) \in Writers
         /\ EnsureClose(w, ev) \in Writers
         /\ Abort(w) \in Writers
<1>1. StartClose(w, ev) \in Writers
  <2>1. CASE w \in {"aborted", "closed"}
    BY <2>1 DEF StartClose, Writers
  <2>2. CASE w \notin {"aborted", "closed"} /\ (ev.reset \/ ev.reason = "shutdown")
    BY <2>2 DEF StartClose, Writers
  <2>3. CASE w \notin {"aborted", "closed"} /\ ~(ev.reset \/ ev.reason = "shutdown")
    BY <2>3 DEF StartClose, Writers
  <2> QED
    BY <2>1, <2>2, <2>3
<1> QED
  BY <1>1 DEF EnsureClose, Abort, Writers

LEMMA StopIs ==
  ASSUME EventAssumption, TypeOK, NEW reason \in Reasons, NEW ph \in Phases,
         NEW reset \in BOOLEAN, Stop(reason, ph, reset)
  PROVE  /\ event' \in Event /\ event' # None
         /\ event # None => event' = event
         /\ event = None => event'.phase = ph /\ event'.completed = completed
         /\ writer' \in Writers
         /\ child' = "done"
<1>1. completed \in Nat /\ writer \in Writers
  BY DEF TypeOK, Writers
<1> QED
  BY <1>1, DecidedIs, WriterIs DEF Stop

LEMMA StopsShortIs ==
  ASSUME EventAssumption, TypeOK, NEW ph \in Phases, StopsShort(ph)
  PROVE  /\ event' \in Event /\ event' # None
         /\ event # None => event' = event
         /\ event = None => event'.phase = ph /\ event'.completed = completed
         /\ writer' \in Writers
         /\ child' = "done"
<1>1. {"protocol_error", "client"} \subseteq Reasons /\ FALSE \in BOOLEAN
  BY DEF Reasons
<1>2. CASE Stop("protocol_error", ph, FALSE)
  BY <1>1, <1>2, StopIs
<1>3. CASE \E reset \in BOOLEAN :
             ReadFailsWith(reset) /\ Stop("client", ph, reset)
  BY <1>1, <1>3, StopIs
<1> QED
  BY <1>2, <1>3 DEF StopsShort

LEMMA AnsweredIs ==
  ASSUME ConnectionAssumption, EventAssumption, TypeOK, NEW n \in Nat, Answered(n)
  PROVE  /\ \/ event' = None /\ child' = "idle" /\ phase' = "idle"
            \/ event' \in Event /\ event' # None /\ child' = "done"
                 /\ phase' = "after_response"
         /\ event # None => event' = event
         /\ event = None /\ event' # None =>
              event'.phase = "after_response" /\ event'.completed = n
         /\ exchanges' = exchanges + 1
         /\ policy' \in Policies
         /\ writer' \in Writers
<1> DEFINE wanted == answer \in Closes
           why == CASE policy.max # None /\ n >= policy.max -> "max_requests"
                    [] ~(policy.max # None /\ n >= policy.max)
                         /\ policy.timeout = "zero" -> "idle_timeout"
                    [] OTHER -> "connection_close"
           d == Decided(why, "after_response",
                        why = "idle_timeout" /\ policy.reset, n)
<1>1. why \in Reasons
  <2>1. CASE policy.max # None /\ n >= policy.max
    BY <2>1 DEF Reasons
  <2>2. CASE ~(policy.max # None /\ n >= policy.max) /\ policy.timeout = "zero"
    BY <2>2 DEF Reasons
  <2>3. CASE /\ ~(policy.max # None /\ n >= policy.max)
             /\ policy.timeout # "zero"
    BY <2>3 DEF Reasons
  <2> QED
    BY <2>1, <2>2, <2>3
<1>2. (why = "idle_timeout" /\ policy.reset) \in BOOLEAN
  OBVIOUS
<1>3. "after_response" \in Phases
  BY DEF Phases
<1>4. event' = IF \/ event # None \/ (policy.max # None /\ n >= policy.max)
                  \/ wanted \/ policy.timeout = "zero"
               THEN d ELSE None
  BY DEF Answered, PolicyEvent
<1> HIDE DEF why
<1> DEFINE b == why = "idle_timeout" /\ policy.reset
<1> HIDE DEF b
<1>5. /\ d \in Event /\ d # None
      /\ event # None => d = event
      /\ event = None => d.phase = "after_response" /\ d.completed = n
  <2>1. b \in BOOLEAN /\ d = Decided(why, "after_response", b, n)
    BY <1>2 DEF b
  <2> HIDE DEF d
  <2> QED
    BY <1>1, <1>3, <2>1, DecidedIs
<1> HIDE DEF d, wanted
<1>6. policy \in Policies /\ writer \in Writers
  BY DEF TypeOK, Writers
<1> QED
  BY <1>4, <1>5, <1>6, WriterIs DEF Answered

\* A request read to its end: the request is recorded and counted once, and
\* header middleware may have answered it.
LEMMA HandledIs ==
  ASSUME ConnectionAssumption, EventAssumption, Inv, Handled,
         child \in Reading \/ child = "headers"
  PROVE  /\ requests' = requests + 1
         /\ completed' \in 1 .. MaxServed /\ completed' = exchanges + 1
         /\ \/ event' = None /\ child' = "idle" /\ phase' = "idle"
                 /\ exchanges' = exchanges + 1
            \/ event' \in Event /\ event' # None /\ child' = "done"
                 /\ phase' = "after_response" /\ exchanges' = exchanges + 1
            \/ event' = event /\ child' = "responding" /\ phase' = "response"
                 /\ exchanges' = exchanges
         /\ DecisionOK
         /\ policy' \in Policies
         /\ writer' \in Writers
<1>1. /\ completed \in 0 .. MaxServed /\ exchanges \in Nat
      /\ MaxServed \in Nat /\ policy \in Policies /\ writer \in Writers
      /\ event \in Event \cup {None}
  BY DEF Inv, TypeInv, TypeOK, ConnectionAssumption, Writers
<1>2. \/ phase = "response" /\ completed = exchanges + 1
      \/ phase # "response" /\ completed = exchanges /\ completed < MaxServed
  BY <1>1 DEF Inv, TypeInv, PhaseOK, CountOK, Counted, Reading
<1>3. /\ requests' = requests + 1
      /\ completed' = IF phase = "response" THEN completed ELSE completed + 1
  BY DEF Handled
<1>4. completed' \in 1 .. MaxServed /\ completed' = exchanges + 1
  BY <1>1, <1>2, <1>3
<1>5. CASE final
  <2>1. Answered(completed')
    BY <1>5 DEF Handled
  <2>2. completed' \in Nat /\ TypeOK
    BY <1>4 DEF Inv, TypeInv
  <2> QED
    BY <1>3, <1>4, <2>1, <2>2, AnsweredIs DEF DecisionOK, Counted
<1>6. CASE ~final
  BY <1>1, <1>3, <1>4, <1>6 DEF Handled, DecisionOK
<1> QED
  BY <1>5, <1>6

\* A request whose read was stopped: recorded with its exchange, and
\* counted if it had reached its boundary.
LEMMA InterruptedIs ==
  ASSUME ConnectionAssumption, EventAssumption, Inv, child \in Reading,
         NEW reason \in Reasons, NEW reset \in BOOLEAN, NEW w \in BOOLEAN,
         whole => w, Interrupted(reason, reset, w)
  PROVE  /\ requests' = requests + 1
         /\ exchanges' = exchanges + 1
         /\ phase' \in Phases
         /\ completed' \in 0 .. MaxServed
         /\ event' \in Event /\ event' # None
         /\ DecisionOK
         /\ child' = "done"
<1>1. /\ completed \in 0 .. MaxServed /\ exchanges \in Nat
      /\ MaxServed \in Nat /\ TypeOK
  BY DEF Inv, TypeInv, TypeOK, ConnectionAssumption
<1>2. \/ phase = "response" /\ w /\ completed = exchanges + 1
      \/ phase = "request_body" /\ completed = exchanges /\ completed < MaxServed
  BY <1>1 DEF Inv, TypeInv, PhaseOK, CountOK, Counted, Reading
<1>3. /\ phase' = IF w THEN "response" ELSE "request_body"
      /\ completed' \in 0 .. MaxServed
      /\ completed' = exchanges + (IF w THEN 1 ELSE 0)
  BY <1>1, <1>2 DEF Interrupted, Boundary
<1>4. phase' \in Phases /\ completed' \in Nat
  BY <1>3 DEF Phases
<1>5. event' = Decided(reason, phase', reset, completed')
  BY DEF Interrupted
<1>6. /\ event' \in Event /\ event' # None
      /\ event # None => event' = event
      /\ event = None => event'.phase = phase' /\ event'.completed = completed'
  BY <1>1, <1>4, <1>5, DecidedIs
<1> QED
  BY <1>3, <1>4, <1>6 DEF Interrupted, DecisionOK, Counted
-----------------------------------------------------------------------------
(* Each part of the next-state relation.                                   *)

LEMMA ParentStep ==
  ASSUME ConnectionAssumption, EventAssumption, Inv, Parent
  PROVE  Inv' /\ DecisionOK
<1>t. /\ TypeOK
      /\ completed \in Nat /\ exchanges \in Nat /\ MaxServed \in Nat
      /\ writer \in Writers /\ phase \in Phases
  BY DEF Inv, TypeInv, TypeOK, ConnectionAssumption, Writers
<1>r. /\ "client" \in Reasons /\ "idle_timeout" \in Reasons
      /\ "protocol_error" \in Reasons /\ "shutdown" \in Reasons
      /\ "request_read" \in Reasons /\ "error" \in Reasons
      /\ "response_aborted" \in Reasons /\ "close_response" \in Reasons
      /\ "idle" \in Phases /\ "request_headers" \in Phases
      /\ "request_body" \in Phases /\ "response" \in Phases
      /\ "response_body" \in Phases
  BY DEF Reasons, Phases
<1>1. CASE Run
  BY <1>t, <1>1
  DEF Run, TypeOK, loopUnchanged, readVars, Inv, TypeInv, ParentOK, PhaseOK,
      CountOK, OneExchangePerRequest, DecisionOK, Reading, Handling, Childs
<1>2. CASE RunAfterShutdown
  <2>1. DecidedAt(phase, completed)
    BY <1>t, <1>r, <1>2, DecidedNow DEF RunAfterShutdown, Finalize
  <2>2. writer' \in Writers
    BY <1>t, <1>r, <1>2, WriterIs DEF RunAfterShutdown, Finalize
  <2> QED
    BY <1>t, <1>2, <2>1, <2>2
    DEF RunAfterShutdown, DecidedAt, TypeOK, Writers, loopUnchanged, readVars,
        Finalize, Inv, TypeInv, ParentOK, PhaseOK, CountOK,
        OneExchangePerRequest, DecisionOK, Ended
<1>3. CASE Shutdown
  <2>1. DecidedAt(phase, completed)
    BY <1>t, <1>r, <1>3, DecidedNow DEF Shutdown
  <2>2. writer' \in Writers
    BY <1>t, <1>r, <1>3, WriterIs DEF Shutdown
  <2>c. cancelled' \in BOOLEAN /\ (cancelled' => child \notin {"none", "done"})
    BY <1>t, <1>3, Zenon DEF Shutdown, TypeOK, Inv
  <2>a. TypeOK'
    BY <1>t, <1>3, <2>1, <2>2, <2>c
    DEF Shutdown, DecidedAt, loopUnchanged, readVars, TypeOK, Writers, Inv,
        PhaseOK
  <2>b. ParentOK'
    BY <1>t, <1>3, <2>1, <2>2, <2>c
    DEF Shutdown, loopUnchanged, Inv, TypeInv, ParentOK
  <2>d. PhaseOK'
    BY <1>t, <1>3, <2>1, <2>2, <2>c
    DEF Shutdown, loopUnchanged, readVars, Inv, TypeInv, PhaseOK
  <2>e. CountOK'
    BY <1>t, <1>3, <2>1, <2>2, <2>c
    DEF Shutdown, DecidedAt, loopUnchanged, readVars, Inv, CountOK
  <2>f. OneExchangePerRequest'
    BY <1>t, <1>3, <2>1, <2>2, <2>c
    DEF Shutdown, loopUnchanged, Inv, OneExchangePerRequest
  <2>g. DecisionOK
    BY <1>t, <1>3, <2>1, <2>2, <2>c
    DEF Shutdown, DecidedAt, loopUnchanged, Inv, CountOK, DecisionOK
  <2> QED
    BY <2>a, <2>b, <2>d, <2>e, <2>f, <2>g DEF Inv, TypeInv
<1>4. CASE CancelRun
  <2>1. DecidedAt(phase, completed)
    BY <1>t, <1>r, <1>4, DecidedNow DEF CancelRun
  <2>c. cancelled' \in BOOLEAN /\ (cancelled' => child \notin {"none", "done"})
    BY <1>t, <1>4, Zenon DEF CancelRun, ParentOK, TypeOK, Inv, TypeInv
  <2>a. TypeOK'
    BY <1>t, <1>4, <2>1, <2>c
    DEF CancelRun, DecidedAt, loopUnchanged, readVars, TypeOK, Inv, PhaseOK
  <2>b. ParentOK'
    BY <1>t, <1>4, <2>1, <2>c
    DEF CancelRun, loopUnchanged, Inv, TypeInv, ParentOK
  <2>d. PhaseOK'
    BY <1>t, <1>4, <2>1, <2>c
    DEF CancelRun, loopUnchanged, readVars, Inv, TypeInv, PhaseOK
  <2>e. CountOK'
    BY <1>t, <1>4, <2>1, <2>c
    DEF CancelRun, DecidedAt, loopUnchanged, readVars, Inv, CountOK
  <2>f. OneExchangePerRequest'
    BY <1>t, <1>4, <2>1, <2>c
    DEF CancelRun, loopUnchanged, Inv, OneExchangePerRequest
  <2>g. DecisionOK
    BY <1>t, <1>4, <2>1, <2>c
    DEF CancelRun, DecidedAt, loopUnchanged, Inv, CountOK, DecisionOK
  <2> QED
    BY <2>a, <2>b, <2>d, <2>e, <2>f, <2>g DEF Inv, TypeInv
<1>5. CASE ChildEnded
  <2>1. DecidedAt(phase, completed)
    BY <1>t, <1>r, <1>5, DecidedNow DEF ChildEnded, Finalize
  <2>2. writer' \in Writers
    BY <1>t, <1>r, <1>5, WriterIs DEF ChildEnded, Finalize
  <2> QED
    BY <1>t, <1>5, <2>1, <2>2
    DEF ChildEnded, DecidedAt, TypeOK, Writers, loopUnchanged, readVars,
        Finalize, Inv, TypeInv, ParentOK, PhaseOK, CountOK,
        OneExchangePerRequest, DecisionOK
<1>6. CASE CancelledChildEnded
  <2>1. DecidedAt(phase, completed)
    BY <1>t, <1>r, <1>6, DecidedNow DEF CancelledChildEnded, Finalize
  <2>2. writer' \in Writers
    BY <1>t, <1>r, <1>6, WriterIs DEF CancelledChildEnded, Finalize
  <2> QED
    BY <1>t, <1>6, <2>1, <2>2
    DEF CancelledChildEnded, DecidedAt, TypeOK, Writers, loopUnchanged,
        readVars, Finalize, Inv, TypeInv, ParentOK, PhaseOK, CountOK,
        OneExchangePerRequest, DecisionOK
<1>7. CASE CancelClosing
  <2>1. writer' \in Writers
    BY <1>t, <1>r, <1>7, WriterIs DEF CancelClosing
  <2> QED
    BY <1>t, <1>7, <2>1
    DEF CancelClosing, TypeOK, Writers, loopUnchanged, readVars, Inv, TypeInv,
        ParentOK, PhaseOK, CountOK, OneExchangePerRequest, DecisionOK, Ended
<1>8. CASE RunEnds
  <2>1. \/ parent = "closing" /\ parent' = "returned"
        \/ parent = "raising" /\ parent' = "raised"
        \/ parent = "abandoning" /\ parent' = "abandoned"
    BY <1>8 DEF RunEnds
  <2> QED
    BY <1>t, <1>8, <2>1
    DEF RunEnds, TypeOK, loopUnchanged, readVars, Inv, TypeInv, ParentOK, PhaseOK,
        CountOK, OneExchangePerRequest, DecisionOK, Ended
<1>9. CASE Refuse
  <2>1. DecidedAt(phase, completed)
    BY <1>t, <1>r, <1>9, DecidedNow DEF Refuse
  <2>2. writer' \in Writers
    BY <1>t, <1>r, <1>9, WriterIs DEF Refuse
  <2> QED
    BY <1>t, <1>9, <2>1, <2>2
    DEF Refuse, DecidedAt, TypeOK, Writers, loopUnchanged, readVars, Inv,
        TypeInv, ParentOK, PhaseOK, CountOK, OneExchangePerRequest, DecisionOK, Ended
<1>10. CASE CancelStopping
  <2>1. DecidedAt(phase, completed)
    BY <1>t, <1>r, <1>10, DecidedNow DEF CancelStopping, Finalize
  <2>2. writer' \in Writers
    BY <1>t, <1>r, <1>10, WriterIs DEF CancelStopping, Finalize
  <2> QED
    BY <1>t, <1>10, <2>1, <2>2
    DEF CancelStopping, DecidedAt, TypeOK, Writers, loopUnchanged, readVars,
        Finalize, Inv, TypeInv, ParentOK, PhaseOK, CountOK,
        OneExchangePerRequest, DecisionOK
<1> QED
  BY <1>1, <1>2, <1>3, <1>4, <1>5, <1>6, <1>7, <1>8, <1>9, <1>10 DEF Parent

LEMMA ReadStep ==
  ASSUME ConnectionAssumption, EventAssumption, Inv, Read
  PROVE  Inv' /\ DecisionOK
<1>t. /\ TypeOK
      /\ completed \in Nat /\ exchanges \in Nat /\ MaxServed \in Nat
      /\ writer \in Writers /\ phase \in Phases
  BY DEF Inv, TypeInv, TypeOK, ConnectionAssumption, Writers
<1>r. /\ "client" \in Reasons /\ "idle_timeout" \in Reasons
      /\ "protocol_error" \in Reasons /\ "shutdown" \in Reasons
      /\ "request_read" \in Reasons /\ "error" \in Reasons
      /\ "response_aborted" \in Reasons /\ "close_response" \in Reasons
      /\ "idle" \in Phases /\ "request_headers" \in Phases
      /\ "request_body" \in Phases /\ "response" \in Phases
      /\ "response_body" \in Phases
  BY DEF Reasons, Phases
<1>1. CASE Begin
  BY <1>t, <1>1
  DEF Begin, TypeOK, Alive, childUnchanged, Inv, TypeInv, ParentOK, PhaseOK,
      CountOK, OneExchangePerRequest, DecisionOK, Reading, Handling, Childs
<1>2. CASE FirstByte
  BY <1>t, <1>2
  DEF FirstByte, TypeOK, Phases, Alive, childUnchanged, Answers, Inv, TypeInv,
      ParentOK, PhaseOK, CountOK, OneExchangePerRequest, DecisionOK, Reading,
      Handling, Childs, Counted
<1>3. CASE IdleTimer
  <2>0. policy.reset \in BOOLEAN
    BY <1>t DEF TypeOK, ConnectionAssumption, Inv
  <2>1. DecidedAt("idle", completed)
    BY <1>t, <1>r, <1>3, <2>0, StopIs DEF IdleTimer, DecidedAt
  <2>2. writer' \in Writers
    BY <1>t, <1>r, <1>3, <2>0, StopIs DEF IdleTimer
  <2>3. child' = "done"
    BY <1>t, <1>r, <1>3, <2>0, StopIs DEF IdleTimer
  <2> QED
    BY <1>t, <1>3, <2>1, <2>2, <2>3
    DEF IdleTimer, DecidedAt, TypeOK, Writers, Alive, childUnchanged, readVars,
        Inv, TypeInv, ParentOK, PhaseOK, CountOK, OneExchangePerRequest,
        DecisionOK, Reading, Handling, Childs
<1>4. CASE IdleGone
  <2>1. DecidedAt("idle", completed)
    BY <1>t, <1>r, <1>4, StopIs DEF IdleGone, DecidedAt
  <2>2. writer' \in Writers
    BY <1>t, <1>r, <1>4, StopIs DEF IdleGone
  <2>3. child' = "done"
    BY <1>t, <1>r, <1>4, StopIs DEF IdleGone
  <2> QED
    BY <1>t, <1>4, <2>1, <2>2, <2>3
    DEF IdleGone, DecidedAt, TypeOK, Writers, Alive, childUnchanged, readVars,
        Inv, TypeInv, ParentOK, PhaseOK, CountOK, OneExchangePerRequest,
        DecisionOK, Reading, Handling, Childs
<1>5. CASE HeadersStop
  <2>1. DecidedAt("request_headers", completed)
    BY <1>t, <1>r, <1>5, StopsShortIs DEF HeadersStop, DecidedAt
  <2>2. writer' \in Writers
    BY <1>t, <1>r, <1>5, StopsShortIs DEF HeadersStop
  <2>3. child' = "done"
    BY <1>t, <1>r, <1>5, StopsShortIs DEF HeadersStop
  <2> QED
    BY <1>t, <1>5, <2>1, <2>2, <2>3
    DEF HeadersStop, DecidedAt, TypeOK, Writers, Alive, childUnchanged,
        readVars, Inv, TypeInv, ParentOK, PhaseOK, CountOK,
        OneExchangePerRequest, DecisionOK, Reading, Handling, Childs
<1>6. CASE HeadersRejected
  <2>1. DecidedAt("request_body", completed)
    BY <1>t, <1>r, <1>6, StopIs DEF HeadersRejected, DecidedAt
  <2>2. writer' \in Writers
    BY <1>t, <1>r, <1>6, StopIs DEF HeadersRejected
  <2>3. child' = "done"
    BY <1>t, <1>r, <1>6, StopIs DEF HeadersRejected
  <2> QED
    BY <1>t, <1>6, <2>1, <2>2, <2>3
    DEF HeadersRejected, DecidedAt, TypeOK, Phases, Writers, Alive,
        childUnchanged, Inv, TypeInv, ParentOK, PhaseOK, CountOK,
        OneExchangePerRequest, DecisionOK, Reading, Handling, Childs, Counted
<1>7. CASE HeadersComplete
  <2> PICK w \in BOOLEAN, chain \in BOOLEAN :
         /\ whole' = w
         /\ IF w /\ ~chain
            THEN Handled
            ELSE /\ Boundary(w)
                 /\ child' = IF chain THEN "deciding" ELSE "body"
                 /\ UNCHANGED <<event, policy, requests, exchanges, writer>>
    BY <1>7 DEF HeadersComplete
  <2>1. CASE w /\ ~chain
    <3>1. /\ requests' = requests + 1
        /\ completed' \in 1 .. MaxServed /\ completed' = exchanges + 1
        /\ \/ event' = None /\ child' = "idle" /\ phase' = "idle"
                /\ exchanges' = exchanges + 1
           \/ event' \in Event /\ event' # None /\ child' = "done"
                /\ phase' = "after_response" /\ exchanges' = exchanges + 1
           \/ event' = event /\ child' = "responding" /\ phase' = "response"
                /\ exchanges' = exchanges
        /\ DecisionOK
        /\ policy' \in Policies
        /\ writer' \in Writers
      BY <1>t, <1>7, <2>1, HandledIs DEF HeadersComplete, Alive
    <3> QED
      BY <1>t, <1>7, <3>1
      DEF HeadersComplete, TypeOK, Phases, Writers, Alive, childUnchanged, Inv,
          TypeInv, ParentOK, PhaseOK, CountOK, OneExchangePerRequest, Reading,
          Handling, Childs, Counted
  <2>2. CASE ~(w /\ ~chain)
    BY <1>t, <1>7, <2>2
    DEF HeadersComplete, Boundary, TypeOK, Phases, Alive, childUnchanged, Inv,
        TypeInv, ParentOK, PhaseOK, CountOK, OneExchangePerRequest, DecisionOK,
        Reading, Handling, Childs, Counted
  <2> QED
    BY <2>1, <2>2
<1>8. CASE HeaderSendInterim
  BY <1>t, <1>8
  DEF HeaderSendInterim, TypeOK, Alive, childUnchanged, readVars, Inv, TypeInv,
      ParentOK, PhaseOK, CountOK, OneExchangePerRequest, DecisionOK, Reading,
      Handling, Childs
<1>9. CASE HeaderSendFinal
  BY <1>t, <1>9
  DEF HeaderSendFinal, TypeOK, Alive, childUnchanged, FinalSay, SaysClose,
      Answers, Inv, TypeInv, ParentOK, PhaseOK, CountOK, OneExchangePerRequest,
      DecisionOK, Reading, Handling, Childs
<1>10. CASE ReplySent
  BY <1>t, <1>10
  DEF ReplySent, TypeOK, Alive, childUnchanged, readVars, Inv, TypeInv,
      ParentOK, PhaseOK, CountOK, OneExchangePerRequest, DecisionOK, Reading,
      Handling, Childs
<1>11. CASE ReplyLost
  <2>1. DecidedAt(phase, completed)
    BY <1>t, <1>r, <1>11, DecidedIs DEF ReplyLost, DecidedAt
  <2> QED
    BY <1>t, <1>11, <2>1
    DEF ReplyLost, DecidedAt, TypeOK, Alive, childUnchanged, readVars, Inv,
        TypeInv, ParentOK, PhaseOK, CountOK, OneExchangePerRequest, DecisionOK,
        Reading, Handling, Childs
<1>12. CASE HeaderAccepts
  <2>1. CASE whole
    <3>1. /\ requests' = requests + 1
        /\ completed' \in 1 .. MaxServed /\ completed' = exchanges + 1
        /\ \/ event' = None /\ child' = "idle" /\ phase' = "idle"
                /\ exchanges' = exchanges + 1
           \/ event' \in Event /\ event' # None /\ child' = "done"
                /\ phase' = "after_response" /\ exchanges' = exchanges + 1
           \/ event' = event /\ child' = "responding" /\ phase' = "response"
                /\ exchanges' = exchanges
        /\ DecisionOK
        /\ policy' \in Policies
        /\ writer' \in Writers
      BY <1>t, <1>12, <2>1, HandledIs DEF HeaderAccepts, Alive, Reading
    <3> QED
      BY <1>t, <1>12, <3>1
      DEF HeaderAccepts, TypeOK, Phases, Writers, Alive, childUnchanged, Inv,
          TypeInv, ParentOK, PhaseOK, CountOK, OneExchangePerRequest, Reading,
          Handling, Childs, Counted
  <2>2. CASE ~whole
    BY <1>t, <1>12, <2>2
    DEF HeaderAccepts, TypeOK, Alive, childUnchanged, Inv, TypeInv, ParentOK,
        PhaseOK, CountOK, OneExchangePerRequest, DecisionOK, Reading, Handling,
        Childs
  <2> QED
    BY <2>1, <2>2
<1>13. CASE HeaderFault
  BY <1>t, <1>13
  DEF HeaderFault, TypeOK, Alive, childUnchanged, readVars, Inv, TypeInv,
      ParentOK, PhaseOK, CountOK, OneExchangePerRequest, DecisionOK, Reading,
      Handling, Childs
<1>14. CASE CutShort
  <2>1. /\ requests' = requests + 1
        /\ exchanges' = exchanges + 1
        /\ phase' \in Phases
        /\ completed' \in 0 .. MaxServed
        /\ event' \in Event /\ event' # None
        /\ DecisionOK
        /\ child' = "done" /\ whole' \in BOOLEAN
    BY <1>t, <1>r, <1>14, InterruptedIs DEF CutShort, Alive, TypeOK, Reading
  <2>2. writer' \in Writers
    BY <1>t, <1>14, WriterIs DEF CutShort
  <2> QED
    BY <1>t, <1>14, <2>1, <2>2
    DEF CutShort, TypeOK, Writers, Alive, childUnchanged, Inv, TypeInv,
        ParentOK, PhaseOK, CountOK, OneExchangePerRequest, Reading, Handling,
        Childs
<1>15. CASE HeaderRaises
  <2>1. /\ requests' = requests + 1
        /\ exchanges' = exchanges + 1
        /\ phase' \in Phases
        /\ completed' \in 0 .. MaxServed
        /\ event' \in Event /\ event' # None
        /\ DecisionOK
        /\ child' = "done"
    BY <1>t, <1>r, <1>15, InterruptedIs
    DEF HeaderRaises, Alive, TypeOK, Reading
  <2> QED
    BY <1>t, <1>15, <2>1
    DEF HeaderRaises, TypeOK, Alive, childUnchanged, Inv, TypeInv, ParentOK,
        PhaseOK, CountOK, OneExchangePerRequest, Reading, Handling, Childs
<1>16. CASE BodyComplete
  <2>1. /\ requests' = requests + 1
        /\ completed' \in 1 .. MaxServed /\ completed' = exchanges + 1
        /\ \/ event' = None /\ child' = "idle" /\ phase' = "idle"
                /\ exchanges' = exchanges + 1
           \/ event' \in Event /\ event' # None /\ child' = "done"
                /\ phase' = "after_response" /\ exchanges' = exchanges + 1
           \/ event' = event /\ child' = "responding" /\ phase' = "response"
                /\ exchanges' = exchanges
        /\ DecisionOK
        /\ policy' \in Policies
        /\ writer' \in Writers
    BY <1>t, <1>r, <1>16, HandledIs DEF BodyComplete, Alive, Reading
  <2> QED
    BY <1>t, <1>16, <2>1
    DEF BodyComplete, TypeOK, Phases, Writers, Alive, childUnchanged, Inv,
        TypeInv, ParentOK, PhaseOK, CountOK, OneExchangePerRequest, Reading,
        Handling, Childs, Counted
<1>17. CASE BodyStops
  <2>1. DecidedAt("request_body", completed)
    BY <1>t, <1>r, <1>17, StopsShortIs DEF BodyStops, DecidedAt
  <2>2. writer' \in Writers
    BY <1>t, <1>r, <1>17, StopsShortIs DEF BodyStops
  <2>3. child' = "done"
    BY <1>t, <1>r, <1>17, StopsShortIs DEF BodyStops
  <2>a. TypeOK'
    BY <1>t, <1>17, <2>1, <2>2, <2>3
    DEF BodyStops, DecidedAt, Alive, childUnchanged, TypeOK, Phases, Writers,
        Inv, Childs
  <2>b. ParentOK'
    BY <1>t, <1>17, <2>1, <2>2, <2>3
    DEF BodyStops, Alive, childUnchanged, Inv, TypeInv, ParentOK
  <2>d. PhaseOK'
    BY <1>t, <1>17, <2>1, <2>2, <2>3 DEF BodyStops, Inv, PhaseOK, Reading
  <2>e. CountOK'
    BY <1>t, <1>17, <2>1, <2>2, <2>3 DEF BodyStops, DecidedAt, Inv, CountOK
  <2>f. OneExchangePerRequest'
    BY <1>t, <1>17, <2>1, <2>2, <2>3
    DEF BodyStops, Alive, Inv, OneExchangePerRequest, Handling
  <2>g. DecisionOK
    <3>1. completed = exchanges
      <4>1. child = "body"
        BY <1>t, <1>17 DEF BodyStops, Alive
      <4>2. completed = exchanges + (IF phase \in Counted THEN 1 ELSE 0)
        BY <4>1 DEF Inv, CountOK
      <4>3. phase = "request_body"
        BY <4>1 DEF Inv, TypeInv, PhaseOK, Reading
      <4> QED
        BY <1>t, <4>1, <4>2, <4>3 DEF Counted
    <3> QED
      BY <1>t, <2>1, <3>1 DEF DecidedAt, Inv, DecisionOK, Counted
  <2> QED
    BY <2>a, <2>b, <2>d, <2>e, <2>f, <2>g DEF Inv, TypeInv
<1> QED
  BY <1>1, <1>2, <1>3, <1>4, <1>5, <1>6, <1>7, <1>8, <1>9, <1>10, <1>11,
     <1>12, <1>13, <1>14, <1>15, <1>16, <1>17 DEF Read

LEMMA RespondStep ==
  ASSUME ConnectionAssumption, EventAssumption, Inv, Respond
  PROVE  Inv' /\ DecisionOK
<1>t. /\ TypeOK
      /\ completed \in Nat /\ exchanges \in Nat /\ MaxServed \in Nat
      /\ writer \in Writers /\ phase \in Phases
  BY DEF Inv, TypeInv, TypeOK, ConnectionAssumption, Writers
<1>r. /\ "client" \in Reasons /\ "idle_timeout" \in Reasons
      /\ "protocol_error" \in Reasons /\ "shutdown" \in Reasons
      /\ "request_read" \in Reasons /\ "error" \in Reasons
      /\ "response_aborted" \in Reasons /\ "close_response" \in Reasons
      /\ "idle" \in Phases /\ "request_headers" \in Phases
      /\ "request_body" \in Phases /\ "response" \in Phases
      /\ "response_body" \in Phases
  BY DEF Reasons, Phases
<1>1. CASE ShutdownFromInside
  <2>1. DecidedAt(phase, completed)
    BY <1>t, <1>r, <1>1, DecidedNow DEF ShutdownFromInside
  <2>a. TypeOK'
    BY <1>t, <1>1, <2>1
    DEF ShutdownFromInside, DecidedAt, readVars, loopUnchanged, TypeOK, Inv,
        PhaseOK
  <2>b. ParentOK'
    BY <1>t, <1>1, <2>1
    DEF ShutdownFromInside, loopUnchanged, Inv, TypeInv, ParentOK
  <2>d. PhaseOK'
    BY <1>t, <1>1, <2>1
    DEF ShutdownFromInside, readVars, loopUnchanged, Inv, TypeInv, PhaseOK
  <2>e. CountOK'
    BY <1>t, <1>1, <2>1
    DEF ShutdownFromInside, readVars, loopUnchanged, Inv, CountOK
  <2>f. OneExchangePerRequest'
    BY <1>t, <1>1, <2>1
    DEF ShutdownFromInside, loopUnchanged, Inv, OneExchangePerRequest
  <2>g. DecisionOK
    BY <1>t, <1>1, <2>1
    DEF ShutdownFromInside, DecidedAt, loopUnchanged, Inv, CountOK, DecisionOK
  <2> QED
    BY <2>a, <2>b, <2>d, <2>e, <2>f, <2>g DEF Inv, TypeInv
<1>2. CASE RespondLocal
  <2>a. TypeOK'
    BY <1>t, <1>2
    DEF RespondLocal, childUnchanged, handleUnchanged, SaysClose, Answers,
        TypeOK, Phases, Inv, Handling, Childs
  <2>b. ParentOK'
    BY <1>t, <1>2
    DEF RespondLocal, childUnchanged, SaysClose, Inv, TypeInv, ParentOK
  <2>d. PhaseOK'
    BY <1>t, <1>2 DEF RespondLocal, SaysClose, Inv, PhaseOK, Reading
  <2>e. CountOK'
    BY <1>t, <1>2
    DEF RespondLocal, handleUnchanged, SaysClose, Inv, TypeInv, PhaseOK,
        CountOK, Counted
  <2>f. OneExchangePerRequest'
    BY <1>t, <1>2
    DEF RespondLocal, handleUnchanged, SaysClose, Inv, OneExchangePerRequest,
        Handling
  <2>g. DecisionOK
    BY <1>t, <1>2 DEF RespondLocal, SaysClose, Inv, DecisionOK
  <2> QED
    BY <2>a, <2>b, <2>d, <2>e, <2>f, <2>g DEF Inv, TypeInv
<1>3. CASE WriteDone
  BY <1>t, <1>3
  DEF WriteDone, TypeOK, Phases, Alive, childUnchanged, handleUnchanged, Inv,
      TypeInv, ParentOK, PhaseOK, CountOK, OneExchangePerRequest, DecisionOK,
      Reading, Handling, Childs, Counted
<1>4. CASE Sent
  <2>1. /\ \/ event' = None /\ child' = "idle" /\ phase' = "idle"
           \/ event' \in Event /\ event' # None /\ child' = "done"
                /\ phase' = "after_response"
        /\ DecisionOK
        /\ exchanges' = exchanges + 1
        /\ policy' \in Policies
        /\ writer' \in Writers
    BY <1>t, <1>r, <1>4, AnsweredIs
    DEF Sent, Alive, DecisionOK, Inv, TypeInv, PhaseOK, CountOK
  <2> QED
    BY <1>t, <1>4, <2>1
    DEF Sent, TypeOK, Phases, Writers, Alive, childUnchanged, handleUnchanged,
        Inv, TypeInv, ParentOK, PhaseOK, CountOK, OneExchangePerRequest,
        Reading, Handling, Childs, Counted
<1>5. CASE WriteAborts
  <2>1. DecidedAt("response_body", completed)
    BY <1>t, <1>r, <1>5, DecidedIs DEF WriteAborts, DecidedAt
  <2>2. writer' \in Writers
    BY <1>t, <1>r, <1>5, WriterIs DEF WriteAborts
  <2> QED
    BY <1>t, <1>5, <2>1, <2>2
    DEF WriteAborts, DecidedAt, TypeOK, Writers, Alive, childUnchanged,
        handleUnchanged, Closed, Inv, TypeInv, ParentOK, PhaseOK, CountOK,
        OneExchangePerRequest, DecisionOK, Reading, Handling, Childs
<1>6. CASE SendLost
  <2>1. DecidedAt(phase, completed)
    BY <1>t, <1>r, <1>6, DecidedIs DEF SendLost, DecidedAt
  <2> QED
    BY <1>t, <1>6, <2>1
    DEF SendLost, DecidedAt, TypeOK, childUnchanged, handleUnchanged, Closed,
        Inv, TypeInv, ParentOK, PhaseOK, CountOK, OneExchangePerRequest,
        DecisionOK, Reading, Handling, Childs
<1>7. CASE HandlingRaises
  <2>1. DecidedAt(phase, completed)
    BY <1>t, <1>r, <1>7, DecidedNow DEF HandlingRaises
  <2>a. TypeOK'
    BY <1>t, <1>7, <2>1
    DEF HandlingRaises, DecidedAt, childUnchanged, handleUnchanged, Closed,
        TypeOK, Inv, TypeInv, PhaseOK, CountOK, Childs, Counted
  <2>b. ParentOK'
    BY <1>t, <1>7, <2>1
    DEF HandlingRaises, childUnchanged, Closed, Inv, TypeInv, ParentOK
  <2>d. PhaseOK'
    BY <1>t, <1>7, <2>1 DEF HandlingRaises, Closed, Inv, PhaseOK, Reading
  <2>e. CountOK'
    BY <1>t, <1>7, <2>1 DEF HandlingRaises, DecidedAt, Closed, Inv, CountOK
  <2>f. OneExchangePerRequest'
    BY <1>t, <1>7, <2>1
    DEF HandlingRaises, handleUnchanged, Closed, Inv, OneExchangePerRequest,
        Handling
  <2>g. DecisionOK
    BY <1>t, <1>7, <2>1
    DEF HandlingRaises, DecidedAt, Closed, Inv, CountOK, DecisionOK
  <2> QED
    BY <2>a, <2>b, <2>d, <2>e, <2>f, <2>g DEF Inv, TypeInv
<1>8. CASE DelayClose
  BY <1>t, <1>8
  DEF DelayClose, TypeOK, Alive, childUnchanged, readVars, Inv, TypeInv,
      ParentOK, PhaseOK, CountOK, OneExchangePerRequest, DecisionOK, Reading,
      Handling, Childs
<1>9. CASE CloseResponse
  <2>1. DecidedAt("response", completed)
    BY <1>t, <1>r, <1>9, DecidedIs DEF CloseResponse, DecidedAt
  <2>2. writer' \in Writers
    BY <1>t, <1>r, <1>9, WriterIs DEF CloseResponse
  <2> QED
    BY <1>t, <1>9, <2>1, <2>2
    DEF CloseResponse, DecidedAt, TypeOK, Writers, childUnchanged,
        handleUnchanged, Closed, Inv, TypeInv, ParentOK, PhaseOK, CountOK,
        OneExchangePerRequest, DecisionOK, Reading, Handling, Childs
<1>10. CASE Relay
  BY <1>t, <1>10
  DEF Relay, TypeOK, Alive, childUnchanged, readVars, Inv, TypeInv, ParentOK,
      PhaseOK, CountOK, OneExchangePerRequest, DecisionOK, Reading, Handling,
      Childs
<1>11. CASE RelayWrite
  BY <1>t, <1>11
  DEF RelayWrite, TypeOK, Phases, Alive, childUnchanged, handleUnchanged, Inv,
      TypeInv, ParentOK, PhaseOK, CountOK, OneExchangePerRequest, DecisionOK,
      Reading, Counted
<1>12. CASE RelayDone
  <2>1. writer' \in Writers
    BY <1>t, <1>r, <1>12, WriterIs DEF RelayDone
  <2>a. TypeOK'
    BY <1>t, <1>12, <2>1
    DEF RelayDone, Alive, childUnchanged, handleUnchanged, Closed, Answers,
        TypeOK, Phases, Writers, Inv, CountOK, Handling, Childs, Counted
  <2>b. ParentOK'
    BY <1>t, <1>12, <2>1
    DEF RelayDone, Alive, childUnchanged, Closed, Inv, TypeInv, ParentOK
  <2>d. PhaseOK'
    BY <1>t, <1>12, <2>1 DEF RelayDone, Closed, Inv, PhaseOK, Reading
  <2>e. CountOK'
    BY <1>t, <1>12, <2>1
    DEF RelayDone, handleUnchanged, Closed, Inv, CountOK, Counted
  <2>f. OneExchangePerRequest'
    <3>1. child = "relaying" /\ requests' = requests
      BY <1>12 DEF RelayDone, Alive, handleUnchanged
    <3>2. \/ child' = "sent" /\ exchanges' = exchanges
          \/ child' = "done" /\ exchanges' = exchanges + 1
      BY <1>12 DEF RelayDone, Closed
    <3> QED
      BY <1>t, <3>1, <3>2 DEF Inv, OneExchangePerRequest, Handling
  <2>g. DecisionOK
    BY <1>t, <1>12, <2>1 DEF RelayDone, Closed, Inv, DecisionOK
  <2> QED
    BY <2>a, <2>b, <2>d, <2>e, <2>f, <2>g DEF Inv, TypeInv
<1>13. CASE RelayDrops
  <2>1. DecidedAt("response_body", completed)
    BY <1>t, <1>r, <1>13, DecidedIs DEF RelayDrops, DecidedAt
  <2>2. writer' \in Writers
    BY <1>t, <1>r, <1>13, WriterIs DEF RelayDrops
  <2> QED
    BY <1>t, <1>13, <2>1, <2>2
    DEF RelayDrops, DecidedAt, TypeOK, Phases, Writers, Alive, childUnchanged,
        handleUnchanged, Inv, TypeInv, ParentOK, PhaseOK, CountOK,
        OneExchangePerRequest, DecisionOK, Reading, Handling, Childs, Counted
<1>14. CASE Dropped
  <2>a. TypeOK'
    BY <1>t, <1>14
    DEF Dropped, Alive, childUnchanged, handleUnchanged, Closed, TypeOK, Inv,
        Childs
  <2>b. ParentOK'
    BY <1>t, <1>14
    DEF Dropped, Alive, childUnchanged, Closed, Inv, TypeInv, ParentOK
  <2>d. PhaseOK'
    BY <1>t, <1>14 DEF Dropped, Closed, Inv, PhaseOK, Reading
  <2>e. CountOK'
    BY <1>t, <1>14 DEF Dropped, Alive, Closed, Inv, CountOK
  <2>f. OneExchangePerRequest'
    BY <1>t, <1>14
    DEF Dropped, Alive, handleUnchanged, Closed, Inv, OneExchangePerRequest,
        Handling
  <2>g. DecisionOK
    BY <1>t, <1>14 DEF Dropped, Closed, Inv, DecisionOK
  <2> QED
    BY <2>a, <2>b, <2>d, <2>e, <2>f, <2>g DEF Inv, TypeInv
<1> QED
  BY <1>1, <1>2, <1>3, <1>4, <1>5, <1>6, <1>7, <1>8, <1>9, <1>10, <1>11,
     <1>12, <1>13, <1>14 DEF Respond

LEMMA CancelStep ==
  ASSUME ConnectionAssumption, EventAssumption, Inv, CancelDelivered
  PROVE  Inv' /\ DecisionOK
<1>t. /\ TypeOK
      /\ completed \in Nat /\ exchanges \in Nat /\ MaxServed \in Nat
      /\ "shutdown" \in Reasons
  BY DEF Inv, TypeInv, TypeOK, ConnectionAssumption, Reasons
<1>c. /\ child \notin {"none", "done"}
      /\ cancelled' = FALSE
      /\ UNCHANGED <<parent, whole, final, answer, policy, writer, published,
                     asked>>
  BY <1>t DEF CancelDelivered, TypeOK
<1>1. CASE child \in Reading
  <2> DEFINE b == FALSE
  <2>1. b \in BOOLEAN /\ Interrupted("shutdown", b, whole)
    BY <1>1 DEF CancelDelivered
  <2>2. whole \in BOOLEAN
    BY <1>t DEF TypeOK
  <2> HIDE DEF b
  <2>3. /\ requests' = requests + 1
        /\ exchanges' = exchanges + 1
        /\ phase' \in Phases
        /\ completed' \in 0 .. MaxServed
        /\ event' \in Event /\ event' # None
        /\ DecisionOK
        /\ child' = "done"
    BY <1>t, <1>1, <2>1, <2>2, InterruptedIs
  <2>a. TypeOK'
    <3>1. requests' \in Nat /\ exchanges' \in Nat /\ child' \in Childs
      BY <1>t, <2>3 DEF TypeOK, Childs
    <3>2. cancelled' \in BOOLEAN /\ ~cancelled'
      BY <1>c
    <3> QED
      BY <1>t, <1>c, <2>3, <3>1, <3>2 DEF TypeOK
  <2>b. ParentOK'
    BY <1>t, <1>c, <1>1, <2>3 DEF ParentOK, Inv, TypeInv, TypeOK
  <2>c. PhaseOK'
    BY <1>t, <1>c, <1>1, <2>3 DEF PhaseOK, Inv, TypeOK, Reading
  <2>d. CountOK'
    BY <1>t, <1>c, <1>1, <2>3 DEF CountOK, Inv, TypeOK
  <2>e. OneExchangePerRequest'
    BY <1>t, <1>c, <1>1, <2>3
    DEF OneExchangePerRequest, Inv, TypeOK, Reading, Handling
  <2>f. DecisionOK
    BY <1>t, <1>c, <1>1, <2>3 DEF Inv
  <2> QED
    BY <2>a, <2>b, <2>c, <2>d, <2>e, <2>f DEF Inv, TypeInv
<1>2. CASE child \notin Reading
  <2>1. /\ event' = Decided("shutdown", phase, FALSE, completed)
        /\ child' = "done"
        /\ exchanges' = exchanges + (IF child \in Handling THEN 1 ELSE 0)
        /\ UNCHANGED <<phase, completed, requests>>
    BY <1>2 DEF CancelDelivered
  <2>2. DecidedAt(phase, completed)
    BY <1>t, <2>1, DecidedNow
  <2>a. TypeOK'
    BY <1>t, <1>c, <1>2, <2>1, <2>2
    DEF TypeOK, Inv, TypeInv, ParentOK, PhaseOK, CountOK, Handling, Childs,
        DecidedAt, Counted
  <2>b. ParentOK'
    BY <1>t, <1>c, <1>2, <2>1, <2>2 DEF ParentOK, Inv, TypeInv, TypeOK
  <2>c. PhaseOK'
    BY <1>t, <1>c, <1>2, <2>1, <2>2 DEF PhaseOK, Inv, TypeOK, Reading
  <2>d. CountOK'
    BY <1>t, <1>c, <1>2, <2>1, <2>2 DEF CountOK, Inv, TypeOK, DecidedAt
  <2>e. OneExchangePerRequest'
    BY <1>t, <1>c, <1>2, <2>1, <2>2
    DEF OneExchangePerRequest, Inv, TypeOK, Handling
  <2>f. DecisionOK
    BY <1>t, <1>c, <1>2, <2>1, <2>2 DEF DecisionOK, Inv, CountOK, DecidedAt
  <2> QED
    BY <2>a, <2>b, <2>c, <2>d, <2>e, <2>f DEF Inv, TypeInv
<1> QED
  BY <1>1, <1>2

LEMMA InvStep ==
  ASSUME ConnectionAssumption, EventAssumption, Inv, [Next]_vars
  PROVE  Inv' /\ DecisionOK
<1>1. CASE Transport \/ Finished \/ UNCHANGED vars
  <2>1. /\ UNCHANGED <<parent, child, cancelled, readVars, event, policy,
                       requests, exchanges, published, asked>>
        /\ writer' \in Writers
    BY <1>1 DEF Transport, PeerCloses, AbortEnds, PeerVanishes, transportUnchanged,
           Finished, vars, Writers, Inv, TypeInv, TypeOK
  <2> QED
    BY <2>1
    DEF readVars, Inv, TypeInv, TypeOK, ParentOK, PhaseOK, CountOK,
        OneExchangePerRequest, DecisionOK, Writers
<1> QED
  BY <1>1, ParentStep, ReadStep, RespondStep, CancelStep DEF Next

LEMMA InvAlways == Spec => []Inv
<1>1. Init => Inv
  <2> SUFFICES ASSUME Init
               PROVE  Inv
    OBVIOUS
  <2>1. TypeOK
    <3>1. completed \in 0 .. MaxServed
      BY ConnectionAssumption DEF ConnectionAssumption, Init
    <3>2. /\ published \in BOOLEAN /\ asked \in BOOLEAN /\ whole \in BOOLEAN
          /\ final \in BOOLEAN /\ cancelled \in BOOLEAN /\ ~cancelled
      BY DEF Init
    <3> QED
      BY <3>1, <3>2, ConnectionAssumption DEF Init, TypeOK, Childs, Phases, Answers
  <2>2. ParentOK /\ PhaseOK
    BY DEF Init, ParentOK, PhaseOK, Reading
  <2>3. CountOK /\ OneExchangePerRequest
    BY DEF Init, CountOK, OneExchangePerRequest, Handling, Counted
  <2> QED
    BY <2>1, <2>2, <2>3 DEF Inv, TypeInv
<1>2. Inv /\ [Next]_vars => Inv'
  BY ConnectionAssumption, EventAssumption, InvStep
<1> QED
  BY <1>1, <1>2, PTL DEF Spec
-----------------------------------------------------------------------------
(* The theorems.                                                           *)

\* Every variable keeps its type; a cancellation is never left pending for a
\* child that is over.
THEOREM TypeCorrect == Spec => []TypeOK
<1>1. Inv => TypeOK
  BY DEF Inv, TypeInv
<1> QED
  BY <1>1, InvAlways, PTL

\* Every recorded request gets exactly one recorded exchange, whatever
\* interrupts it: a cancellation, a fault, user code or the client.
THEOREM RecordingCorrect == Spec => []OneExchangePerRequest
<1>1. Inv => OneExchangePerRequest
  BY DEF Inv
<1> QED
  BY <1>1, InvAlways, PTL

\* run() publishes the close event only when its loop is over, or, once it
\* was cancelled twice, when the loop has nothing left to do but unwind.
THEOREM PublicationCorrect == Spec => []PublishedAfterLoop
<1>1. Inv => PublishedAfterLoop
  BY DEF Inv, TypeInv, ParentOK, PublishedAfterLoop
<1> QED
  BY <1>1, InvAlways, PTL

\* The first close decision stands.
THEOREM DecisionFinal == Spec => EventIsFinal
<1>1. Inv /\ [Next]_vars => [event # None => event' = event]_vars
  BY ConnectionAssumption, EventAssumption, InvStep DEF DecisionOK
<1> QED
  BY <1>1, InvAlways, PTL DEF Spec, EventIsFinal

\* The event counts the requests that reached their boundary, each once,
\* wherever the decision falls.
THEOREM EventCountCorrect == Spec => EventCountsRequests
<1>1. Inv /\ [Next]_vars =>
        [event = None /\ event' # None =>
           event'.completed =
             exchanges + (IF event'.phase \in Counted THEN 1 ELSE 0)]_vars
  BY ConnectionAssumption, EventAssumption, InvStep DEF DecisionOK
<1> QED
  BY <1>1, InvAlways, PTL DEF Spec, EventCountsRequests
-----------------------------------------------------------------------------
\* What the client and the event are told of a close.

\* A graceful close never has a reset decided behind it, and a published
\* connection is on its way to be closed.
ResetOK ==
  /\ writer = "closing" => event # None /\ ~event.reset
  /\ published => event # None /\ writer # "open"

\* The policy's last request has been answered.
Spent(n) == policy.max # None /\ n >= policy.max

\* The close of a response that ended, for the policy or by what was said.
ByPolicy(ev) ==
  ev # None /\ ev.phase = "after_response" /\ ev.reason \notin {"shutdown", "error"}

\* Only the end of a response decides for the policy or the heads, and ends
\* the loop; a loop that reads on has announced nothing; a head that
\* announces nothing is no answer to the policy's last request.
AnnounceOK ==
  /\ ByPolicy(event) => child = "done"
  /\ child \in {"started", "idle", "headers"} /\ event # None => cancelled
  /\ child \in {"none", "started", "idle"} => answer \notin Closes
  /\ child = "headers" => ~final
  /\ child \in Reading /\ final =>
       /\ answer \in {"keep", "close"}
       /\ answer = "keep" => ~Spent(CompletedWithCurrent)
  /\ child \in {"writing", "sent"} =>
       /\ answer # "none"
       /\ answer = "keep" => ~Spent(completed)

TellInv == ResetOK /\ AnnounceOK /\ AnnouncedClose

\* A decision for another reason than the policy or the heads.
DecidedElse ==
  /\ event' # None
  /\ event # None => event' = event
  /\ event = None => ~ByPolicy(event')

\* Every step of the connection keeps that: a head is written once its close
\* is known, and whatever decides later gives another reason.
LEMMA TellStep ==
  ASSUME ConnectionAssumption, EventAssumption, Inv, TellInv, Next
  PROVE  TellInv'
<1>t. TypeOK /\ writer \in Writers /\ None \notin Event
  BY DEF Inv, TypeInv, TypeOK, Writers, EventAssumption
<1>d. ASSUME NEW reason, NEW ph, NEW reset, NEW n,
             event' = Decided(reason, ph, reset, n),
             reason \in Reasons, ph \in Phases, reset \in BOOLEAN, n \in Nat,
             ph # "after_response" \/ reason \in {"shutdown", "error"}
      PROVE  DecidedElse
  <2>1. CASE event # None
    BY <1>d, <2>1 DEF Decided, DecidedElse
  <2>2. CASE event = None
    <3>1. event' = [reason |-> reason, phase |-> ph, reset |-> reset, completed |-> n]
      BY <1>d, <2>2 DEF Decided
    <3>2. event' \in Event
      BY <1>d, <3>1 DEF Event, Reasons
    <3> QED
      BY <1>d, <1>t, <2>2, <3>1, <3>2 DEF DecidedElse, ByPolicy
  <2> QED
    BY <2>1, <2>2
\* The writer after a step that decides: as it was, or closed accordingly.
<1>w. ASSUME DecidedElse \/ (event' # None /\ (event # None => event' = event)),
             writer' \in {writer, Abort(writer), StartClose(writer, event'),
                          EnsureClose(writer, event')},
             published' => published \/ writer' # "open"
      PROVE  ResetOK'
  <2>1. event' # None /\ (event # None => event' = event)
    BY <1>w DEF DecidedElse
  <2>2. writer' = "closing" => ~event'.reset
    BY <1>w, <2>1 DEF TellInv, ResetOK, Abort, StartClose, EnsureClose
  <2>3. published /\ writer # "open" => writer' # "open"
    BY <1>w DEF Abort, StartClose, EnsureClose
  <2> QED
    BY <1>w, <2>1, <2>2, <2>3 DEF TellInv, ResetOK
\* The child ends.
<1>e. ASSUME DecidedElse, child # "done", child' = "done", UNCHANGED <<answer, published>>,
             writer' \in {writer, StartClose(writer, event'), EnsureClose(writer, event')}
      PROVE  TellInv'
  <2>1. ResetOK'
    BY <1>e, <1>w
  <2>2. AnnounceOK' /\ AnnouncedClose'
    BY <1>e DEF DecidedElse, TellInv, AnnounceOK, AnnouncedClose, Reading, ByPolicy
  <2> QED
    BY <2>1, <2>2 DEF TellInv
\* The child stays where it is, and what it has read and said.
<1>p. ASSUME DecidedElse \/ event' = event, UNCHANGED <<child, readVars, policy>>,
             child \in {"started", "idle", "headers"} /\ event' # None => cancelled',
             ResetOK'
      PROVE  TellInv'
  <2>1. AnnounceOK'
    BY <1>p DEF DecidedElse, TellInv, AnnounceOK, ByPolicy, readVars, Spent,
           CompletedWithCurrent
  <2>2. AnnouncedClose'
    BY <1>p DEF DecidedElse, TellInv, AnnouncedClose, ByPolicy, readVars
  <2> QED
    BY <1>p, <2>1, <2>2 DEF TellInv
\* The child goes on, with nothing decided.
<1>m. ASSUME UNCHANGED <<event, writer, published, cancelled>>, AnnounceOK', child # "done"
      PROVE  TellInv'
  BY <1>m DEF TellInv, ResetOK, AnnounceOK, AnnouncedClose, ByPolicy
\* A response has been answered, and its head has said what the policy needs.
<1>a. ASSUME NEW n \in Nat, Answered(n), UNCHANGED <<answer, published>>, child # "done",
             answer \in Answers \ {"none"}, answer = "keep" => ~Spent(n)
      PROVE  TellInv'
  <2> DEFINE why == CASE Spent(n) -> "max_requests"
                      [] ~Spent(n) /\ policy.timeout = "zero" -> "idle_timeout"
                      [] OTHER -> "connection_close"
             d == Decided(why, "after_response", why = "idle_timeout" /\ policy.reset, n)
  <2>1. /\ event' = IF \/ event # None \/ Spent(n) \/ answer \in Closes
                       \/ policy.timeout = "zero"
                    THEN d ELSE None
        /\ IF event' = None THEN child' = "idle" /\ writer' = writer
           ELSE child' = "done" /\ policy' = policy /\ writer' = EnsureClose(writer, event')
    BY <1>a DEF Answered, PolicyEvent, Spent
  <2>2. CASE event # None
    <3>1. event' = event
      BY <2>1, <2>2 DEF Decided
    <3> QED
      BY <1>a, <1>e, <2>1, <2>2, <3>1 DEF DecidedElse
  <2>3. CASE event = None /\ ~(Spent(n) \/ answer \in Closes \/ policy.timeout = "zero")
    BY <1>a, <2>1, <2>3 DEF TellInv, ResetOK, AnnounceOK, AnnouncedClose, Reading, ByPolicy
  <2>4. CASE event = None /\ (Spent(n) \/ answer \in Closes \/ policy.timeout = "zero")
    <3>1. event' = d /\ d.reason = why /\ event' # None
      <4> DEFINE b == why = "idle_timeout" /\ policy.reset
      <4>1. d = [reason |-> why, phase |-> "after_response", reset |-> b, completed |-> n]
        BY <2>4 DEF Decided
      <4>2. why \in Reasons
        BY DEF Reasons
      <4>3. b \in BOOLEAN /\ "after_response" \in Phases
        BY DEF Phases
      <4> HIDE DEF why, b, d
      <4>4. d \in Event
        BY <1>a, <4>1, <4>2, <4>3 DEF Event, Reasons
      <4> QED
        BY <1>t, <2>1, <2>4, <4>1, <4>4
    <3>2. \/ answer \in Closes
          \/ why = "idle_timeout" /\ policy.timeout = "zero"
          \/ why = "max_requests" /\ answer = "relayed keep"
      BY <1>a, <2>4 DEF Answers, Closes
    <3> HIDE DEF why, d
    <3>4. AnnouncedClose' /\ AnnounceOK'
      BY <1>a, <2>1, <3>1, <3>2 DEF AnnouncedClose, AnnounceOK, Reading, ByPolicy
    <3>5. ResetOK'
      BY <1>a, <1>w, <2>1, <2>4, <3>1
    <3> QED
      BY <3>4, <3>5 DEF TellInv
  <2> QED
    BY <2>2, <2>3, <2>4
<1>h. ASSUME Handled, child \in Reading \/ child = "headers",
             UNCHANGED <<answer, final, published, cancelled>>
      PROVE  TellInv'
  <2>1. completed' = CompletedWithCurrent /\ completed' \in Nat
    <3>1. completed \in Nat
      BY <1>t DEF TypeOK, Inv, ConnectionAssumption
    <3> QED
      BY <1>h, <3>1 DEF Handled, CompletedWithCurrent
  <2>2. CASE final
    <3>1. child \in Reading /\ answer \in {"keep", "close"} /\ (answer = "keep" => ~Spent(completed'))
      BY <1>h, <2>1, <2>2 DEF TellInv, AnnounceOK
    <3>2. Answered(completed')
      BY <1>h, <2>2 DEF Handled
    <3> QED
      BY <1>a, <1>h, <2>1, <3>1, <3>2 DEF Answers, Reading
  <2>3. CASE ~final
    <3>1. child' = "responding" /\ UNCHANGED <<event, writer>> /\ child # "done"
      BY <1>h, <2>3 DEF Handled, Reading
    <3> QED
      BY <1>h, <1>m, <3>1 DEF TellInv, AnnounceOK, Reading, ByPolicy
  <2> QED
    BY <2>2, <2>3
<1>s. ASSUME NEW reason \in Reasons, NEW ph \in Phases \ {"after_response"},
             NEW reset \in BOOLEAN, Stop(reason, ph, reset), child # "done",
             UNCHANGED <<answer, published>>
      PROVE  TellInv'
  <2>1. completed \in Nat
    BY <1>t DEF TypeOK, ConnectionAssumption
  <2> QED
    BY <1>d, <1>e, <1>s, <2>1 DEF Stop
<1>i. ASSUME NEW reason \in Reasons, NEW reset \in BOOLEAN, NEW w \in BOOLEAN,
             Interrupted(reason, reset, w), child # "done", UNCHANGED <<answer, published>>,
             writer' \in {writer, StartClose(writer, event')}
      PROVE  TellInv'
  <2>1. phase' \in Phases \ {"after_response"} /\ completed' \in Nat
    BY <1>i, <1>t DEF TypeOK, ConnectionAssumption, Interrupted, Boundary, Phases
  <2> QED
    BY <1>d, <1>e, <1>i, <2>1 DEF Interrupted
<1>r. /\ {"client", "idle_timeout", "protocol_error", "shutdown", "request_read", "error",
          "response_aborted", "close_response"} \subseteq Reasons
      /\ {"idle", "request_headers", "request_body", "response", "response_body"}
           \subseteq Phases \ {"after_response"}
      /\ phase \in Phases /\ completed \in Nat /\ FALSE \in BOOLEAN
      /\ child = "dropping" => event # None
      /\ child \in {"replying", "writing", "relaying"} => phase # "after_response"
      /\ cancelled => child # "done"
      /\ parent = "new" => child = "none"
      /\ parent = "stopping" => child = "done" \/ cancelled
  BY <1>t DEF Reasons, Phases, TypeOK, ConnectionAssumption, Inv, TypeInv,
              CountOK, ParentOK, PhaseOK, Reading
\* run(), and what is done to it.
<1>f. ASSUME NEW w \in {writer, Abort(writer)}, Finalize(w),
             child \in {"none", "done"} \/ cancelled,
             UNCHANGED <<child, cancelled, readVars, policy>>
      PROVE  TellInv'
  <2>1. DecidedElse
    BY <1>d, <1>f, <1>r DEF Finalize
  <2>2. ResetOK'
    <3>1. writer' \in {writer, Abort(writer), StartClose(writer, event')} /\ writer' # "open"
      BY <1>f DEF Finalize, EnsureClose, StartClose, Abort
    <3> QED
      BY <1>w, <2>1, <3>1
  <2> QED
    BY <1>f, <1>p, <2>1, <2>2
<1>1. CASE Parent
  <2>1. CASE Run
    BY <1>m, <1>r, <2>1 DEF Run, TellInv, AnnounceOK, loopUnchanged, readVars, Reading
  <2>2. CASE RunAfterShutdown
    BY <1>f, <1>r, <2>2 DEF RunAfterShutdown, loopUnchanged
  <2>3. CASE Shutdown \/ CancelRun
    <3>1. DecidedElse
      BY <1>d, <1>r, <2>3 DEF Shutdown, CancelRun
    <3>2. ResetOK'
      BY <1>w, <2>3, <3>1 DEF Shutdown, CancelRun
    <3> QED
      BY <1>p, <2>3, <3>1, <3>2 DEF Shutdown, CancelRun, loopUnchanged
  <2>4. CASE ChildEnded \/ CancelledChildEnded
    BY <1>f, <2>4 DEF ChildEnded, CancelledChildEnded, loopUnchanged
  <2>7. CASE CancelStopping
    BY <1>f, <1>r, <2>7 DEF CancelStopping, loopUnchanged
  <2>5. CASE CancelClosing \/ RunEnds
    <3>1. ResetOK'
      BY <2>5 DEF CancelClosing, RunEnds, TellInv, ResetOK, Abort
    <3> QED
      BY <1>p, <2>5, <3>1 DEF CancelClosing, RunEnds, loopUnchanged, TellInv, AnnounceOK
  <2>6. CASE Refuse
    <3>1. DecidedElse
      BY <1>d, <1>r, <2>6 DEF Refuse
    <3>2. ResetOK'
      <4>1. writer' # "open"
        BY <2>6 DEF Refuse, EnsureClose, StartClose
      <4> QED
        BY <1>w, <2>6, <3>1, <4>1 DEF Refuse
    <3> QED
      BY <1>p, <1>r, <2>6, <3>1, <3>2 DEF Refuse, loopUnchanged
  <2> QED
    BY <1>1, <2>1, <2>2, <2>3, <2>4, <2>5, <2>6, <2>7 DEF Parent
<1>2. CASE Read
  <2>1. CASE Begin
    BY <1>m, <2>1 DEF Begin, Alive, childUnchanged, TellInv, AnnounceOK, Reading
  <2>2. CASE FirstByte
    BY <1>m, <2>2 DEF FirstByte, Alive, childUnchanged, TellInv, AnnounceOK, Reading
  <2>3. CASE IdleTimer
    <3>1. policy.reset \in BOOLEAN
      BY <1>t DEF TypeOK, ConnectionAssumption
    <3> QED
      BY <1>s, <1>r, <2>3, <3>1 DEF IdleTimer, Alive, childUnchanged, readVars
  <2>4. CASE IdleGone
    BY <1>s, <1>r, <2>4 DEF IdleGone, Alive, childUnchanged, readVars
  <2>5. CASE HeadersStop \/ BodyStops
    BY <1>s, <1>r, <2>5 DEF HeadersStop, BodyStops, StopsShort, Alive, childUnchanged,
       readVars
  <2>6. CASE HeadersRejected
    BY <1>s, <1>r, <2>6 DEF HeadersRejected, Alive, childUnchanged
  <2>7. CASE HeadersComplete
    <3>1. CASE Handled
      BY <1>h, <2>7, <3>1 DEF HeadersComplete, Alive, childUnchanged
    <3>2. CASE ~Handled
      <4>1. child = "headers" /\ child' \in {"deciding", "body"} /\ ~final'
            /\ UNCHANGED <<event, writer, published, cancelled>>
        BY <2>7, <3>2 DEF HeadersComplete, Alive, childUnchanged, TellInv, AnnounceOK
      <4> QED
        BY <1>m, <4>1 DEF TellInv, AnnounceOK, ByPolicy
    <3> QED
      BY <3>1, <3>2
  <2>8. CASE HeaderSendInterim \/ ReplySent \/ HeaderFault
    BY <1>m, <2>8 DEF HeaderSendInterim, ReplySent, HeaderFault, Alive, childUnchanged, readVars,
       TellInv, AnnounceOK, Reading, ByPolicy, Spent, CompletedWithCurrent
  <2>9. CASE HeaderSendFinal
    BY <1>m, <2>9 DEF HeaderSendFinal, Alive, childUnchanged, FinalSay, SaysClose,
       TellInv, AnnounceOK, Reading, ByPolicy, Spent, CompletedWithCurrent
  <2>10. CASE ReplyLost
    <3>1. DecidedElse
      BY <1>d, <1>r, <2>10 DEF ReplyLost, Alive
    <3>2. ResetOK'
      BY <1>w, <2>10, <3>1 DEF ReplyLost, childUnchanged
    <3>3. AnnounceOK' /\ AnnouncedClose'
      BY <2>10, <3>1 DEF ReplyLost, Alive, childUnchanged, readVars, DecidedElse, TellInv,
         AnnounceOK, AnnouncedClose, Reading, ByPolicy, Spent, CompletedWithCurrent
    <3> QED
      BY <3>2, <3>3 DEF TellInv
  <2>11. CASE HeaderAccepts
    <3>1. CASE whole
      BY <1>h, <2>11, <3>1 DEF HeaderAccepts, Alive, childUnchanged, Reading
    <3>2. CASE ~whole
      BY <1>m, <2>11, <3>2 DEF HeaderAccepts, Alive, childUnchanged, TellInv, AnnounceOK,
         Reading, ByPolicy, Spent, CompletedWithCurrent
    <3> QED
      BY <3>1, <3>2
  <2>12. CASE CutShort
    BY <1>i, <1>r, <2>12 DEF CutShort, Alive, childUnchanged
  <2>13. CASE HeaderRaises
    <3>1. whole \in BOOLEAN
      BY <1>t DEF TypeOK
    <3> QED
      BY <1>i, <1>r, <2>13, <3>1 DEF HeaderRaises, Alive, childUnchanged
  <2>14. CASE BodyComplete
    BY <1>h, <2>14 DEF BodyComplete, Alive, childUnchanged, Reading
  <2> QED
    BY <1>2, <2>1, <2>2, <2>3, <2>4, <2>5, <2>6, <2>7, <2>8, <2>9, <2>10, <2>11, <2>12,
       <2>13, <2>14 DEF Read
<1>3. CASE Respond
  <2>1. CASE ShutdownFromInside
    <3>1. DecidedElse
      BY <1>d, <1>r, <2>1 DEF ShutdownFromInside
    <3>2. ResetOK'
      BY <1>w, <2>1, <3>1 DEF ShutdownFromInside
    <3> QED
      BY <1>p, <2>1, <3>1, <3>2 DEF ShutdownFromInside, loopUnchanged
  <2>2. CASE RespondLocal
    BY <1>m, <2>2 DEF RespondLocal, handleUnchanged, childUnchanged, SaysClose, TellInv,
       AnnounceOK, Reading, ByPolicy, Spent
  <2>3. CASE WriteDone
    BY <1>m, <2>3 DEF WriteDone, Alive, handleUnchanged, childUnchanged, TellInv, AnnounceOK,
       Reading, ByPolicy, Spent
  <2>4. CASE Sent
    <3>1. child = "sent" /\ answer \in Answers \ {"none"} /\ (answer = "keep" => ~Spent(completed))
      BY <1>t, <2>4 DEF Sent, Alive, TellInv, AnnounceOK, TypeOK
    <3> QED
      BY <1>a, <1>r, <2>4, <3>1 DEF Sent, childUnchanged
  <2>5. CASE WriteAborts
    <3>1. DecidedElse
      BY <1>d, <1>r, <2>5 DEF WriteAborts
    <3> QED
      BY <1>e, <2>5, <3>1 DEF WriteAborts, Alive, Closed, childUnchanged
  <2>6. CASE SendLost
    <3>1. DecidedElse
      BY <1>d, <1>r, <2>6 DEF SendLost
    <3> QED
      BY <1>e, <2>6, <3>1 DEF SendLost, Closed, childUnchanged
  <2>7. CASE HandlingRaises
    <3>1. DecidedElse
      BY <1>d, <1>r, <2>7 DEF HandlingRaises
    <3> QED
      BY <1>e, <2>7, <3>1 DEF HandlingRaises, Closed, childUnchanged
  <2>8. CASE DelayClose \/ Relay
    BY <1>m, <2>8 DEF DelayClose, Relay, Alive, childUnchanged, readVars, TellInv, AnnounceOK,
       Reading, ByPolicy
  <2>9. CASE CloseResponse
    <3>1. DecidedElse
      BY <1>d, <1>r, <2>9 DEF CloseResponse
    <3> QED
      BY <1>e, <2>9, <3>1 DEF CloseResponse, Closed, childUnchanged
  <2>10. CASE RelayWrite
    BY <1>m, <2>10 DEF RelayWrite, Alive, handleUnchanged, childUnchanged, TellInv, AnnounceOK,
       Reading, ByPolicy
  <2>11. CASE RelayDone
    <3>1. CASE event = None
      BY <1>m, <2>11, <3>1 DEF RelayDone, Alive, handleUnchanged, childUnchanged, TellInv,
         AnnounceOK, Reading
    <3>2. CASE event # None
      <4>1. ResetOK'
        BY <1>w, <2>11, <3>2 DEF RelayDone, childUnchanged
      <4>2. AnnounceOK' /\ AnnouncedClose'
        BY <2>11, <3>2 DEF RelayDone, Closed, Alive, TellInv, AnnounceOK, AnnouncedClose,
           Reading, ByPolicy
      <4> QED
        BY <4>1, <4>2 DEF TellInv
    <3> QED
      BY <3>1, <3>2
  <2>12. CASE RelayDrops
    <3>1. DecidedElse
      BY <1>d, <1>r, <2>12 DEF RelayDrops
    <3>2. ResetOK'
      BY <1>w, <2>12, <3>1 DEF RelayDrops, childUnchanged
    <3>3. AnnounceOK' /\ AnnouncedClose'
      BY <2>12, <3>1 DEF RelayDrops, Alive, DecidedElse, TellInv, AnnounceOK, AnnouncedClose,
         Reading, ByPolicy
    <3> QED
      BY <3>2, <3>3 DEF TellInv
  <2>13. CASE Dropped
    BY <1>e, <1>r, <2>13 DEF Dropped, Alive, Closed, childUnchanged, DecidedElse
  <2> QED
    BY <1>3, <2>1, <2>2, <2>3, <2>4, <2>5, <2>6, <2>7, <2>8, <2>9, <2>10, <2>11, <2>12,
       <2>13 DEF Respond
<1>4. CASE CancelDelivered
  <2>1. CASE child \in Reading
    <3>1. whole \in BOOLEAN
      BY <1>t DEF TypeOK
    <3> QED
      BY <1>4, <1>i, <1>r, <2>1, <3>1 DEF CancelDelivered
  <2>2. CASE child \notin Reading
    <3>1. DecidedElse
      BY <1>4, <1>d, <1>r, <2>2 DEF CancelDelivered
    <3> QED
      BY <1>4, <1>e, <1>r, <2>2, <3>1 DEF CancelDelivered
  <2> QED
    BY <2>1, <2>2
<1>5. CASE Transport
  <2>1. ResetOK'
    BY <1>5 DEF Transport, PeerCloses, AbortEnds, PeerVanishes, transportUnchanged, TellInv, ResetOK
  <2>2. UNCHANGED <<child, cancelled, readVars, policy, event>>
    BY <1>5 DEF Transport, PeerCloses, AbortEnds, PeerVanishes, transportUnchanged
  <2>3. child \in {"started", "idle", "headers"} /\ event # None => cancelled
    BY DEF TellInv, AnnounceOK
  <2> QED
    BY <1>p, <2>1, <2>2, <2>3
<1>6. CASE Finished
  BY <1>6, <1>p DEF Finished, vars, TellInv, AnnounceOK, ResetOK
<1> QED
  BY <1>1, <1>2, <1>3, <1>4, <1>5, <1>6 DEF Next

\* It holds in every reachable state, beside the invariant above.
LEMMA TellAlways == Spec => [](Inv /\ TellInv)
<1>1. Init => TellInv
  BY DEF Init, TellInv, ResetOK, AnnounceOK, AnnouncedClose, Closes, Reading, ByPolicy
<1>2. Inv /\ TellInv /\ [Next]_vars => TellInv'
  <2> SUFFICES ASSUME Inv, TellInv, UNCHANGED vars
               PROVE  TellInv'
    BY ConnectionAssumption, EventAssumption, TellStep
  <2> QED
    BY DEF vars, readVars, TellInv, ResetOK, AnnounceOK, AnnouncedClose, Spent,
       CompletedWithCurrent
<1> QED
  BY <1>1, <1>2, InvAlways, PTL DEF Spec

\* A published reset is never left to a graceful close: whoever decided it,
\* and however finalize() and a cancellation interleave, the transport was
\* aborted by the time the event is out.
THEOREM ResetPublished == Spec => []EventTellsReset
<1>1. Inv /\ TellInv => EventTellsReset
  BY DEF Inv, TypeInv, TypeOK, TellInv, ResetOK, EventTellsReset
<1> QED
  BY <1>1, TellAlways, PTL

\* A close that follows a response whose head did not announce it comes from
\* shutdown() or failing user code, from a zero keep-alive timeout, or from
\* the policy's last request answered by a relayed head: for every policy and
\* any number of requests, the last request of a local response is announced.
THEOREM CloseAnnounced == Spec => []AnnouncedClose
<1>1. TellInv => AnnouncedClose
  BY DEF TellInv
<1> QED
  BY <1>1, TellAlways, PTL

\* No request is read once a close is decided or announced: the loop looks at
\* both between two requests.
THEOREM LoopStopsAtClose == Spec => NoRequestAfterClose
<1>1. Inv /\ TellInv /\ [Next]_vars =>
        [child = "idle" /\ child' = "headers" => event = None /\ answer \notin Closes]_vars
  <2> SUFFICES ASSUME TellInv, Next, child = "idle", child' = "headers"
               PROVE  event = None /\ answer \notin Closes
    OBVIOUS
  <2>1. ~Parent
    BY DEF Parent, Run, RunAfterShutdown, Shutdown, CancelRun, ChildEnded, CancelledChildEnded,
       CancelStopping, CancelClosing, RunEnds, Refuse
  <2>2. ~Respond
    BY DEF Respond, ShutdownFromInside, RespondLocal, WriteDone, Sent, WriteAborts, SendLost,
       HandlingRaises, DelayClose, CloseResponse, Relay, RelayWrite, RelayDone, RelayDrops,
       Dropped, Alive
  <2>3. ~(CancelDelivered \/ Transport \/ Finished)
    BY DEF CancelDelivered, Interrupted, Transport, PeerCloses, AbortEnds, PeerVanishes,
       transportUnchanged, Finished, vars
  <2>4. Read => ~cancelled
    BY DEF Read, Begin, FirstByte, IdleTimer, IdleGone, HeadersStop, HeadersRejected,
       HeadersComplete, HeaderSendInterim, HeaderSendFinal, ReplySent, ReplyLost, HeaderAccepts,
       HeaderFault, CutShort, HeaderRaises, BodyComplete, BodyStops, Alive
  <2> QED
    BY <2>1, <2>2, <2>3, <2>4 DEF Next, TellInv, AnnounceOK
<1> QED
  BY <1>1, TellAlways, PTL DEF Spec, NoRequestAfterClose
=============================================================================
