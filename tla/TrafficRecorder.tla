--------------------------- MODULE TrafficRecorder ---------------------------
(* recording.py, TrafficRecorder: bounded histories, and the queues behind the  *)
(* next_*() calls, with one consumer for each queue.  The consumer of exchanges *)
(* is the command line's _process_traffic (cli.py), which polls until its       *)
(* source stops and then drains.  A request is its number; its response and its *)
(* exchange carry the same number.                                              *)
EXTENDS Integers, SequencesExt

CONSTANTS None, Sizes, Readers, Failing, MaxRequests, MaxClosed, MaxResets

ASSUME RecorderAssumption ==
  /\ Sizes \subseteq (Nat \ {0}) \cup {None}
  /\ Readers \subseteq {"requests", "responses", "closed"}  \* kinds a test waits for
  /\ MaxResets \in Nat

Kinds == {"requests", "responses", "exchanges", "closed"}
Gens == 0..MaxResets

VARIABLES bufferSize,     \* _buffer_size
          history,        \* requests, responses, exchanges, closed_connections
          last,           \* last_request, last_response, last_exchange, ...
          timestamps,     \* keys of _request_timestamps
          gen,            \* which set of queues is current: reset() makes new ones
          queue,          \* by generation and kind: the items and the dropped count
          consumer,       \* by kind: where its consumer is, on which queue
          arrived, inflight, recorded,  \* the traffic: requests, unanswered, exchanges
          stopped,        \* source_stopped
          emitted         \* what the command line has printed

vars == <<bufferSize, history, last, timestamps, gen, queue, consumer, arrived,
          inflight, recorded, stopped, emitted>>

EmptyQueue == [items |-> <<>>, dropped |-> 0]
Idle == [pc |-> "idle", gen |-> 0, item |-> 0]

Init == /\ bufferSize \in Sizes
        /\ history = [k \in Kinds |-> <<>>] /\ last = [k \in Kinds |-> 0]
        /\ timestamps = {} /\ gen = 0
        /\ queue = [g \in Gens |-> [k \in Kinds |-> EmptyQueue]]
        /\ consumer = [k \in Kinds |-> Idle]
        /\ arrived = 0 /\ inflight = {} /\ recorded = <<>>
        /\ stopped = FALSE /\ emitted = <<>>

Excess(s) == IF bufferSize = None \/ Len(s) <= bufferSize THEN 0 ELSE Len(s) - bufferSize
\* trim_history(): the newest bufferSize items
Trimmed(s) == SubSeq(s, Excess(s) + 1, Len(s))

\* BoundedRecordQueue.put(): a full queue gives up its oldest item
Put(q, item) == LET items == Append(q.items, item)
                IN [items |-> Trimmed(items), dropped |-> q.dropped + Excess(items)]

\* asyncio.Queue.put_nowait() wakes a getter of that queue.
Woken(c) == IF c.pc = "waiting" /\ c.gen = gen THEN [c EXCEPT !.pc = "woken"] ELSE c

Recorded(kinds, item) ==
  /\ history' = [k \in Kinds |-> IF k \in kinds THEN Trimmed(Append(history[k], item))
                                 ELSE history[k]]
  /\ last' = [k \in Kinds |-> IF k \in kinds THEN item ELSE last[k]]
  /\ queue' = [queue EXCEPT ![gen] = [k \in Kinds |->
                 IF k \in kinds THEN Put(@[k], item) ELSE @[k]]]
  /\ consumer' = [k \in Kinds |-> IF k \in kinds THEN Woken(consumer[k]) ELSE consumer[k]]
  /\ UNCHANGED <<bufferSize, gen, stopped, emitted>>

\* Mutant: the timestamps of evicted requests stay.
StampUntrimmed(r) == timestamps' = timestamps \cup {r}
Stamp(r) ==
  LET longer == Append(history["requests"], r)
  IN timestamps' = (timestamps \ ToSet(SubSeq(longer, 1, Excess(longer)))) \cup {r}

RecordRequest ==
  /\ ~stopped /\ arrived < MaxRequests
  /\ arrived' = arrived + 1 /\ inflight' = inflight \cup {arrived'}
  /\ Recorded({"requests"}, arrived') /\ Stamp(arrived')
  /\ UNCHANGED recorded

\* The exchange of a request, with its response unless it failed before one was sent
RecordExchange == \E r \in inflight :
  /\ ~stopped
  /\ Recorded({"exchanges"} \cup (IF r \in Failing THEN {} ELSE {"responses"}), r)
  /\ inflight' = inflight \ {r} /\ recorded' = Append(recorded, r)
  /\ UNCHANGED <<timestamps, arrived>>

RecordClosed ==
  /\ ~stopped /\ last["closed"] < MaxClosed
  /\ Recorded({"closed"}, last["closed"] + 1)
  /\ UNCHANGED <<timestamps, arrived, inflight, recorded>>

\* reset(): new lists and new queues; a consumer keeps the queue it waits on.
Reset ==
  /\ gen < MaxResets
  /\ gen' = gen + 1
  /\ history' = [k \in Kinds |-> <<>>] /\ last' = [k \in Kinds |-> 0] /\ timestamps' = {}
  /\ UNCHANGED <<bufferSize, queue, consumer, arrived, inflight, recorded, stopped, emitted>>

\* Mutant: the newest item is taken first.
TakesNewest(k, g, pc) ==
  /\ queue[g][k].items # <<>>
  /\ queue' = [queue EXCEPT ![g][k].items = Front(@)]
  /\ consumer' = [consumer EXCEPT ![k] = [pc |-> pc, gen |-> g, item |-> Last(queue[g][k].items)]]
  /\ last' = IF k \in {"requests", "responses"}
             THEN [last EXCEPT ![k] = Last(queue[g][k].items)] ELSE last

(* A consumer of kind k takes the oldest item of queue set g; last_request and  *)
(* last_response follow what is consumed.                                       *)
Takes(k, g, pc) ==
  /\ queue[g][k].items # <<>>
  /\ queue' = [queue EXCEPT ![g][k].items = Tail(@)]
  /\ consumer' = [consumer EXCEPT ![k] = [pc |-> pc, gen |-> g, item |-> Head(queue[g][k].items)]]
  /\ last' = IF k \in {"requests", "responses"}
             THEN [last EXCEPT ![k] = Head(queue[g][k].items)] ELSE last

Waits(k, g) ==
  /\ queue[g][k].items = <<>>
  /\ consumer' = [consumer EXCEPT ![k] = [pc |-> "waiting", gen |-> g, item |-> 0]]
  /\ UNCHANGED <<queue, last>>

Leaves(k, pc) ==
  consumer' = [consumer EXCEPT ![k] = [Idle EXCEPT !.pc = pc]] /\ UNCHANGED <<queue, last>>

traffic == <<bufferSize, history, timestamps, gen, arrived, inflight, recorded>>
Holding(k) == IF k = "exchanges" THEN "emit" ELSE "idle"

\* next_request(), next_response() or next_closed_connection() is called.
CallNext(k) ==
  /\ consumer[k].pc = "idle"
  /\ Takes(k, gen, "idle") \/ Waits(k, gen)
  /\ UNCHANGED <<traffic, stopped, emitted>>

\* The getter runs again and looks at the queue it waited on.
Resume(k) ==
  /\ consumer[k].pc = "woken"
  /\ Takes(k, consumer[k].gen, Holding(k)) \/ Waits(k, consumer[k].gen)
  /\ UNCHANGED <<traffic, stopped, emitted>>

\* wait_for() gives up, possibly after the getter was woken: the item stays queued.
Timeout(k) ==
  /\ consumer[k].pc \in {"waiting", "woken"}
  /\ Leaves(k, "idle")
  /\ UNCHANGED <<traffic, stopped, emitted>>

\* Mutant: the loop returns when the source has stopped.
PollUndrained ==
  /\ consumer["exchanges"].pc = "idle"
  /\ \/ ~stopped /\ (Takes("exchanges", gen, "emit") \/ Waits("exchanges", gen))
     \/ stopped /\ Leaves("exchanges", "done")
  /\ UNCHANGED <<traffic, stopped, emitted>>

\* Mutant: the drain waits for another exchange.
PollForever ==
  /\ consumer["exchanges"].pc = "idle"
  /\ Takes("exchanges", gen, "emit") \/ Waits("exchanges", gen)
  /\ UNCHANGED <<traffic, stopped, emitted>>

\* The loop of _process_traffic: poll, and once the source has stopped, drain.
Poll ==
  /\ consumer["exchanges"].pc = "idle"
  /\ \/ Takes("exchanges", gen, "emit")
     \/ ~stopped /\ Waits("exchanges", gen)
     \/ stopped /\ queue[gen]["exchanges"].items = <<>> /\ Leaves("exchanges", "done")
  /\ UNCHANGED <<traffic, stopped, emitted>>

\* _emit_exchange() returns, or raises (the output file fails) and ends the task.
Emit ==
  /\ consumer["exchanges"].pc = "emit"
  /\ \/ Leaves("exchanges", "idle") /\ emitted' = Append(emitted, consumer["exchanges"].item)
     \/ Leaves("exchanges", "failed") /\ UNCHANGED emitted
  /\ UNCHANGED <<traffic, stopped>>

\* The source has closed and records no more: source_stopped.set().
SourceStops == ~stopped /\ stopped' = TRUE
  /\ UNCHANGED <<traffic, last, queue, consumer, emitted>>

Ended == consumer["exchanges"].pc \in {"done", "failed"}
ProcessTraffic == Poll \/ Emit \/ Resume("exchanges") \/ Timeout("exchanges")

Next == RecordRequest \/ RecordExchange \/ RecordClosed \/ Reset \/ SourceStops
        \/ ProcessTraffic
        \/ \E k \in Readers : CallNext(k) \/ Resume(k) \/ Timeout(k)

Spec == Init /\ [][Next]_vars
(* The event loop runs the polling task, its timers fire, and writes to the     *)
(* output file return.                                                          *)
FairSpec == Spec /\ WF_vars(ProcessTraffic)
-----------------------------------------------------------------------------
(* The timestamps kept are those of the requests in the history, so that        *)
(* get_request_timestamp() answers for each of them and nothing accumulates on  *)
(* a long-lived server (recording.py:315-319, 369-383).                         *)
TimestampsMatchHistory == timestamps = ToSet(history["requests"])

Position(r) == CHOOSE i \in DOMAIN recorded : recorded[i] = r
Queued(g) == queue[g]["exchanges"].items
InHand == IF consumer["exchanges"].pc = "emit" THEN <<consumer["exchanges"].item>> ELSE <<>>

(* Every exchange recorded is printed, is in the command line's hands, is still  *)
(* queued, or was dropped and counted; when the command line returns, only what  *)
(* reset() threw away is still in a queue, whatever was recorded between its     *)
(* last poll and the end of the source (cli.py:421-432).                         *)
EveryExchangeOnce ==
  LET Dropped(g) == queue[g]["exchanges"].dropped
  IN /\ consumer["exchanges"].pc # "failed" =>
          Len(recorded) = Len(emitted \o InHand) + Dropped(gen) + Len(Queued(gen))
                          + FoldFunctionOnSet(+, 0, [g \in Gens |-> Dropped(g) + Len(Queued(g))],
                                              0..(gen - 1))
     /\ consumer["exchanges"].pc = "done" => Queued(gen) = <<>>

(* What is printed, what the command line has in its hands and what the current  *)
(* queue holds are exchanges in the order they were recorded, each of them once, *)
(* also when the consumer took one from a queue that reset() had replaced        *)
(* (recording.py:201-224, cli.py:421-432).                                         *)
PrintedInOrder ==
  LET out == emitted \o InHand \o Queued(gen)
  IN /\ ToSet(out) \subseteq ToSet(recorded)
     /\ \A i, j \in DOMAIN out : i < j => Position(out[i]) < Position(out[j])

(* Once its source has stopped, the command line comes to an end.               *)
TrafficEnds == stopped ~> Ended

(* A consumer is never left waiting while the item it asked for is there: core  *)
(* says of next_request() that it returns "the next request that hits this      *)
(* server" (core.py:870), with no exception for clear_requests().               *)
NoStrandedConsumer == \A k \in Readers :
  consumer[k].pc = "waiting" => queue[gen][k].items = <<>>
=============================================================================
