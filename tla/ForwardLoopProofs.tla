------------------------- MODULE ForwardLoopProofs -------------------------
(* Proofs about the relay loop of an intercepted connection: InStep and          *)
(* OneAnswerOneExchange, for any number of requests.                             *)
EXTENDS ForwardLoop, TLAPS

Count == [requests : Nat, exchanges : Nat, responses : Nat]
InProgress == {"dial", "expect", "body", "continued", "waited", "relay"}

Types == /\ pc \in {"head", "over"} \cup InProgress
         /\ n \in 0..MaxRequests /\ req \in Requests /\ relayed \in Responses
         /\ unread \in BOOLEAN /\ failed \in BOOLEAN
         /\ upstream \in {"none", "open"} /\ client \in {"open", "closing"}
         /\ answers \in [1..MaxRequests -> Nat]
         /\ recorded \in [1..MaxRequests -> Count]

\* What is known of a request not yet read, in progress, finished, or cut short
Untouched(i) == answers[i] = 0 /\ recorded[i] = Unrecorded
Pending(i) == /\ answers[i] = 0 /\ recorded[i].exchanges = 0 /\ recorded[i].responses = 0
              /\ recorded[i].requests = IF pc = "relay" THEN 1 ELSE 0
CutShort(i) == /\ answers[i] <= 1 /\ recorded[i].requests <= 1
               /\ recorded[i].exchanges <= recorded[i].requests
               /\ recorded[i].responses <= answers[i]
Finished(i) == CutShort(i) /\ answers[i] = 1 /\ recorded[i].requests = recorded[i].exchanges

Histories == \A i \in 1..MaxRequests : /\ i > n => Untouched(i)
                                       /\ i < n => Finished(i)
Current == /\ pc \in InProgress => n > 0 /\ Pending(n) /\ client = "open" /\ ~failed
           /\ pc = "head" => client = "open" /\ upstream = "none" /\ ~failed
           /\ pc = "head" /\ n > 0 => Finished(n)
           /\ pc = "over" /\ n > 0 => CutShort(n) /\ (~failed => Finished(n))
Bodies == /\ pc \in {"relay", "waited"} => ~unread
          /\ req.body = "none" => ~unread

(* The inductive invariant: finished requests before the current one, untouched  *)
(* ones after it, and what has happened to the current one by where the loop is. *)
IInv == Types /\ Histories /\ Current /\ Bodies /\ InStep
-----------------------------------------------------------------------------
(* record_exchange() counts for the current request only, and counts the         *)
(* request with it unless that was recorded before.                              *)
LEMMA RecordExchangeEffect ==
  ASSUME Types, n > 0, NEW k \in {0, 1}, RecordExchange(k)
  PROVE  /\ recorded' \in [1..MaxRequests -> Count]
         /\ recorded'[n].requests = recorded[n].requests + (IF pc = "relay" THEN 0 ELSE 1)
         /\ recorded'[n].exchanges = recorded[n].exchanges + 1
         /\ recorded'[n].responses = recorded[n].responses + k
         /\ \A i \in 1..MaxRequests : i # n => recorded'[i] = recorded[i]
<1>1. n \in 1..MaxRequests /\ recorded[n] \in Count
  BY DEF Types
<1> DEFINE entry == [requests |-> IF pc = "relay" THEN recorded[n].requests
                                  ELSE recorded[n].requests + 1,
                     exchanges |-> recorded[n].exchanges + 1,
                     responses |-> recorded[n].responses + k]
<1>2. recorded' = [recorded EXCEPT ![n] = entry]
  BY DEF RecordExchange
<1>3. entry \in Count
  BY <1>1 DEF Count
<1>4. /\ entry.requests = recorded[n].requests + (IF pc = "relay" THEN 0 ELSE 1)
      /\ entry.exchanges = recorded[n].exchanges + 1
      /\ entry.responses = recorded[n].responses + k
  BY <1>1 DEF Count
<1> HIDE DEF entry
<1> QED
  BY <1>1, <1>2, <1>3, <1>4, RequestsAssumption DEF Types

(* A final answer counts for the current request only.                           *)
LEMMA AnswerEffect ==
  ASSUME Types, n > 0, Answer
  PROVE  /\ answers' \in [1..MaxRequests -> Nat]
         /\ answers'[n] = answers[n] + 1
         /\ \A i \in 1..MaxRequests : i # n => answers'[i] = answers[i]
<1>1. n \in 1..MaxRequests /\ answers[n] \in Nat
  BY DEF Types
<1> QED
  BY <1>1, RequestsAssumption DEF Types, Answer

(* An end of the current request that answers it and records its exchange.       *)
LEMMA Ended ==
  ASSUME IInv, pc \in InProgress, NEW k \in {0, 1}, Answer, RecordExchange(k), n' = n
  PROVE  /\ Histories' /\ Finished(n)'
         /\ answers' \in [1..MaxRequests -> Nat] /\ recorded' \in [1..MaxRequests -> Count]
<1>1. n > 0 /\ n \in 1..MaxRequests /\ Pending(n) /\ Types
  BY DEF IInv, Current, Types
<1>2. Finished(n)'
  BY <1>1, RecordExchangeEffect, AnswerEffect DEF Pending, Finished, CutShort
<1>3. Histories'
  BY <1>1, RecordExchangeEffect, AnswerEffect
     DEF IInv, Histories, Untouched, Finished, CutShort
<1> QED  BY <1>1, <1>2, <1>3, RecordExchangeEffect, AnswerEffect

(* Every step keeps the invariant, one action at a time.                         *)
LEMMA NextInv == IInv /\ [Next]_vars => IInv'
<1> SUFFICES ASSUME IInv, [Next]_vars PROVE IInv'  OBVIOUS
<1> USE RequestsAssumption
<1>1. ASSUME NEW r \in Requests, NextHead(r) PROVE IInv'
  <2>1. Types'
    BY <1>1 DEF NextHead, IInv, Types, InProgress
  <2>2. Histories'
    BY <1>1 DEF NextHead, IInv, Types, Histories, Current, Untouched, Finished, CutShort
  <2>3. Current'
    BY <1>1 DEF NextHead, IInv, Types, Histories, Current, Untouched, Unrecorded, Pending,
       InProgress
  <2> QED  BY <1>1, <2>1, <2>2, <2>3 DEF NextHead, IInv, Bodies, InStep
<1>2. CASE NoHead
  <2>1. Types' /\ Histories'
    BY <1>2 DEF NoHead, IInv, Types, Histories, Untouched, Finished, CutShort
  <2>2. Current'
    BY <1>2 DEF NoHead, IInv, Current, InProgress, Finished, CutShort
  <2> QED  BY <1>2, <2>1, <2>2 DEF NoHead, IInv, Bodies, InStep
<1>3. CASE Dial \/ Interim \/ Continued
  <2>1. \/ pc \in InProgress \ {"relay"} /\ pc' \in InProgress \ {"relay"}
        \/ pc = "relay" /\ pc' = "relay"
    BY <1>3 DEF Dial, Interim, Continued, InProgress
  <2>2. Types' /\ Histories'
    BY <1>3, <2>1 DEF Dial, Interim, Continued, IInv, Types, Histories, Untouched, Finished,
       CutShort
  <2>3. Current'
    BY <1>3, <2>1 DEF Dial, Interim, Continued, IInv, Current, Pending, InProgress
  <2>4. Bodies' /\ InStep'
    BY <1>3, <2>1 DEF Dial, Interim, Continued, IInv, Bodies, InStep, InProgress
  <2> QED  BY <2>2, <2>3, <2>4 DEF IInv
<1>4. CASE Body
  <2>1. n \in 1..MaxRequests /\ Pending(n) /\ pc \in InProgress /\ recorded[n] \in Count
    BY <1>4 DEF Body, IInv, Types, Current, InProgress
  <2>2. /\ recorded' \in [1..MaxRequests -> Count]
        /\ recorded'[n].requests = recorded[n].requests + 1
        /\ recorded'[n].exchanges = recorded[n].exchanges
        /\ recorded'[n].responses = recorded[n].responses
        /\ \A i \in 1..MaxRequests : i # n => recorded'[i] = recorded[i]
    <3> DEFINE entry == [recorded[n] EXCEPT !.requests = @ + 1]
    <3>1. recorded' = [recorded EXCEPT ![n] = entry]
      BY <1>4 DEF Body, RecordRequest
    <3>2. /\ entry \in Count /\ entry.requests = recorded[n].requests + 1
          /\ entry.exchanges = recorded[n].exchanges /\ entry.responses = recorded[n].responses
      BY <2>1 DEF Count
    <3> HIDE DEF entry
    <3> QED  BY <2>1, <3>1, <3>2 DEF IInv, Types
  <2>3. Types'
    BY <1>4, <2>2 DEF Body, IInv, Types, InProgress
  <2>4. Histories'
    BY <1>4, <2>1, <2>2 DEF Body, IInv, Types, Histories, Untouched, Finished, CutShort
  <2>5. Current'
    BY <1>4, <2>1, <2>2 DEF Body, IInv, Current, Pending, InProgress
  <2> QED  BY <1>4, <2>3, <2>4, <2>5 DEF Body, IInv, Bodies, InStep
<1>5. CASE BodyFails
  <2>1. n \in 1..MaxRequests /\ n > 0 /\ Pending(n) /\ Types /\ Answer
    BY <1>5 DEF BodyFails, Refuse, IInv, Types, Current, InProgress
  <2>2. Finished(n)'
    BY <1>5, <2>1, AnswerEffect DEF BodyFails, Pending, Finished, CutShort
  <2>3. Types'
    BY <1>5, <2>1, AnswerEffect DEF BodyFails, Refuse, Types
  <2>4. Histories'
    BY <1>5, <2>1, AnswerEffect DEF BodyFails, IInv, Histories, Untouched, Finished, CutShort
  <2> QED
    BY <1>5, <2>2, <2>3, <2>4
    DEF BodyFails, Refuse, IInv, Current, Bodies, InStep, InProgress, Finished
<1>6. CASE DialFails \/ ContinuedFails \/ NoFinal
  <2>1. pc \in InProgress /\ Refuse /\ RecordExchange(0) /\ UNCHANGED <<n, req, unread, relayed, failed>>
    BY <1>6 DEF DialFails, ContinuedFails, NoFinal, InProgress
  <2>2. Histories' /\ Finished(n)' /\ Types'
    BY <2>1, Ended DEF Refuse, IInv, Types
  <2> QED
    BY <2>1, <2>2 DEF Refuse, IInv, Current, Bodies, InStep, InProgress, Finished
<1>7. ASSUME NEW r \in Responses, NEW t \in Transforms, Final(r, t) PROVE IInv'
  <2> DEFINE sent == Relayed(r, t)
  <2> DEFINE keep == Consumed /\ AllowsKeepAlive(req, sent)
  <2> DEFINE writer == IF t = "drop" THEN "closing" ELSE client
  <2>1. /\ pc \in {"relay", "expect", "waited"} /\ pc \in InProgress /\ Answer /\ RecordExchange(1)
        /\ relayed' = sent /\ UNCHANGED <<n, req, unread, failed>> /\ After(keep, writer)
    BY <1>7 DEF Final, InProgress
  <2>a. sent \in Responses
    <3>1. CASE t \in {"none", "drop"}
      BY <3>1 DEF Relayed
    <3>2. CASE t = "body"
      BY <3>2 DEF Relayed, Responses
    <3>3. CASE t \in Tokens
      <4>1. CASE t = "none"
        BY <4>1 DEF Relayed
      <4>2. CASE t # "none"
        BY <3>3, <4>2 DEF Relayed, Responses, Versions, Tokens
      <4> QED  BY <4>1, <4>2
    <3> QED  BY <3>1, <3>2, <3>3 DEF Transforms
  <2>2. sent \in Responses /\ req \in Requests /\ client = "open" /\ ~failed /\ n > 0
    BY <2>1, <2>a DEF IInv, Types, Current
  <2>3. Histories' /\ Finished(n)'
    BY <2>1, Ended
  <2>4. answers' \in [1..MaxRequests -> Nat] /\ recorded' \in [1..MaxRequests -> Count]
    BY <2>1, Ended
  <2> HIDE DEF sent
  <2>5. /\ pc' \in {"head", "over"} /\ upstream' = "none" /\ client' \in {"open", "closing"}
        /\ pc' = "head" => keep /\ client' = "open"
    BY <2>1, <2>2 DEF After
  <2>6. Types'
    BY <2>1, <2>2, <2>4, <2>5 DEF IInv, Types
  <2>7. pc' = "head" => ~unread /\ AllowsKeepAlive(req, sent)
    BY <2>1, <2>5 DEF Consumed, IInv, Bodies
  <2>b. AllowsKeepAlive(req, sent) =>
          ~sent.eof /\ sent.status # 101 /\ "close" \notin {sent.token, req.token}
    <3>1. req.version \in {10, 11}
      BY <2>2 DEF Requests, Versions
    <3> QED
      BY <3>1 DEF AllowsKeepAlive, ShouldClose
  <2>8. InStep'
    BY <2>1, <2>2, <2>3, <2>5, <2>7, <2>b DEF InStep, Finished
  <2>9. Current' /\ Bodies'
    BY <2>1, <2>2, <2>3, <2>5 DEF Current, IInv, Bodies, InProgress, Finished
  <2> QED  BY <2>3, <2>6, <2>8, <2>9 DEF IInv
<1>8. CASE Fails
  <2>1. /\ pc' = "over" /\ failed' /\ client' = "closing" /\ upstream' = "none"
        /\ UNCHANGED <<n, req, unread, relayed, recorded>>
    BY <1>8 DEF Fails
  <2>2. CASE answers' = answers
    <3>1. Types' /\ Histories'
      BY <2>1, <2>2 DEF IInv, Types, Histories, Untouched, Finished, CutShort
    <3>2. n > 0 => CutShort(n)'
      BY <1>8, <2>1, <2>2 DEF Fails, IInv, Types, Current, Pending, Finished, CutShort, InProgress
    <3> QED  BY <2>1, <3>1, <3>2 DEF IInv, Current, Bodies, InStep, InProgress
  <2>3. CASE pc \in {"relay", "expect", "waited"} /\ Answer
    <3>1. n \in 1..MaxRequests /\ n > 0 /\ Pending(n) /\ Types
      BY <2>3 DEF IInv, Types, Current, InProgress
    <3>2. Types'
      BY <2>1, <2>3, <3>1, AnswerEffect DEF Types
    <3>3. Histories' /\ CutShort(n)'
      BY <2>1, <2>3, <3>1, AnswerEffect
      DEF IInv, Histories, Untouched, Finished, CutShort, Pending
    <3> QED  BY <2>1, <3>2, <3>3 DEF IInv, Current, Bodies, InStep, InProgress
  <2> QED  BY <1>8, <2>2, <2>3 DEF Fails
<1>9. CASE UNCHANGED vars
  BY <1>9 DEF vars, IInv, Types, Histories, Current, Bodies, InStep, Untouched, Pending,
     Finished, CutShort, InProgress
<1> QED
  BY <1>1, <1>2, <1>3, <1>4, <1>5, <1>6, <1>7, <1>8, <1>9 DEF Next

(* The invariant holds in every reachable state.                                 *)
LEMMA Invariance == Spec => []IInv
<1>1. Init => IInv
  <2> SUFFICES ASSUME Init PROVE IInv  OBVIOUS
  <2>1. Types
    <3>1. NoRequest \in Requests /\ NoResponse \in Responses /\ Unrecorded \in Count
      BY DEF Requests, Responses, Versions, Tokens, NoRequest, NoResponse, Unrecorded, Count
    <3>2. answers \in [1..MaxRequests -> Nat] /\ recorded \in [1..MaxRequests -> Count]
      BY <3>1 DEF Init
    <3>3. pc \in {"head", "over"} /\ 0 \in 0..MaxRequests
      BY RequestsAssumption DEF Init
    <3> QED  BY <3>1, <3>2, <3>3 DEF Init, Types
  <2>2. Histories
    BY RequestsAssumption DEF Init, Histories, Untouched
  <2>3. Current /\ Bodies /\ InStep
    BY DEF Init, Current, Bodies, InStep, InProgress, NoRequest
  <2> QED  BY <2>1, <2>2, <2>3 DEF IInv
<1> QED  BY <1>1, NextInv, PTL DEF Spec
-----------------------------------------------------------------------------
(* The loop never reads the next head out of step: whatever was answered, early  *)
(* or not, transformed or not (tlsproxy.py _forward, _forward_one_request).      *)
THEOREM RelayInStep == Spec => []InStep
<1>1. IInv => InStep  BY DEF IInv
<1> QED  BY <1>1, Invariance, PTL

(* No request gets two answers or two exchanges, and unless something failed     *)
(* each gets one answer and its exchange if it was recorded.                     *)
THEOREM AnsweredOnce == Spec => []OneAnswerOneExchange
<1>1. IInv => OneAnswerOneExchange
  <2> SUFFICES ASSUME IInv PROVE OneAnswerOneExchange  OBVIOUS
  <2> USE RequestsAssumption
  <2>1. \A i \in 1..n : CutShort(i)
    <3> SUFFICES ASSUME NEW i \in 1..n PROVE CutShort(i)  OBVIOUS
    <3>1. i \in 1..MaxRequests
      BY DEF IInv, Types
    <3>2. CASE i < n
      BY <3>1, <3>2 DEF IInv, Histories, Finished
    <3>3. CASE i = n
      BY <3>1, <3>3 DEF IInv, Types, Current, Pending, Finished, CutShort
    <3> QED  BY <3>2, <3>3 DEF IInv, Types
  <2>2. pc \in {"head", "over"} /\ ~failed => \A i \in 1..n : Finished(i)
    BY DEF IInv, Types, Histories, Current
  <2> QED  BY <2>1, <2>2 DEF OneAnswerOneExchange, CutShort, Finished
<1> QED  BY <1>1, Invariance, PTL
=============================================================================
