------------------------ MODULE TrafficRecorderProofs ------------------------
(* Proofs about the traffic recorder, for any buffer size and any traffic: its   *)
(* timestamps are those of the requests in its history, exchanges reach the      *)
(* output in the order they were recorded, and each of them is accounted for.    *)
EXTENDS TrafficRecorder, FiniteSetTheorems, WellFoundedInduction, TLAPS

Increasing(s) == \A i, j \in 1..Len(s) : i < j => s[i] < s[j]

(* Requests are numbered as they arrive, and the history holds them in order.    *)
HistoryInv ==
  /\ bufferSize \in Sizes /\ arrived \in Nat
  /\ history["requests"] \in Seq(1..arrived) /\ Increasing(history["requests"])
  /\ TimestampsMatchHistory
-----------------------------------------------------------------------------
(* Trimming an increasing sequence drops the members of the part cut off, and    *)
(* those alone.                                                                  *)
LEMMA TrimmedIsRest ==
  ASSUME NEW n \in Nat, NEW s \in Seq(1..n), Increasing(s), bufferSize \in Sizes
  PROVE  /\ Trimmed(s) \in Seq(1..n) /\ Increasing(Trimmed(s))
         /\ s # <<>> => s[Len(s)] \in ToSet(Trimmed(s))
         /\ ToSet(Trimmed(s)) = ToSet(s) \ ToSet(SubSeq(s, 1, Excess(s)))
<1> DEFINE e == Excess(s)
           t == SubSeq(s, e + 1, Len(s))
           cut == SubSeq(s, 1, e)
<1>1. e \in 0..Len(s) /\ (s # <<>> => e < Len(s))
  BY RecorderAssumption DEF Excess
<1> HIDE DEF e
<1>2. /\ t \in Seq(1..n) /\ Len(t) = Len(s) - e /\ \A i \in 1..Len(t) : t[i] = s[i + e]
      /\ cut \in Seq(1..n) /\ Len(cut) = e /\ \A i \in 1..e : cut[i] = s[i]
  BY <1>1
<1> HIDE DEF t, cut
<1>3. Increasing(t)
  <2> SUFFICES ASSUME NEW i \in 1..Len(t), NEW j \in 1..Len(t), i < j PROVE t[i] < t[j]
    BY DEF Increasing
  <2>1. i + e \in 1..Len(s) /\ j + e \in 1..Len(s) /\ i + e < j + e
    BY <1>1, <1>2
  <2>2. s[i + e] < s[j + e]
    BY <2>1 DEF Increasing
  <2> QED  BY <1>2, <2>2
<1>4. ToSet(t) = ToSet(s) \ ToSet(cut)
  <2>1. ASSUME NEW x \in ToSet(t) PROVE x \in ToSet(s) /\ x \notin ToSet(cut)
    <3>1. PICK i \in 1..Len(t) : x = t[i]
      BY <1>2, <2>1 DEF ToSet
    <3>2. i + e \in 1..Len(s) /\ x = s[i + e]
      BY <1>1, <1>2, <3>1
    <3>3. ASSUME NEW j \in 1..e PROVE cut[j] # x
      <4>1. j \in 1..Len(s) /\ j < i + e /\ cut[j] = s[j]
        BY <1>1, <1>2, <3>1
      <4>2. s[j] < s[i + e] /\ s[j] \in Nat /\ s[i + e] \in Nat
        BY <3>2, <4>1 DEF Increasing
      <4> QED  BY <3>2, <4>1, <4>2
    <3>4. x \in ToSet(s)
      BY <3>2 DEF ToSet
    <3>5. x \notin ToSet(cut)
      BY <1>2, <3>3 DEF ToSet
    <3> QED  BY <3>4, <3>5
  <2>2. ASSUME NEW x \in ToSet(s), x \notin ToSet(cut) PROVE x \in ToSet(t)
    <3>1. PICK i \in 1..Len(s) : x = s[i]
      BY <2>2 DEF ToSet
    <3>2. i \notin 1..e
      <4> SUFFICES ASSUME i \in 1..e PROVE x \in ToSet(cut)
        BY <2>2
      <4>1. i \in 1..Len(cut) /\ cut[i] = x
        BY <1>2, <3>1
      <4> QED  BY <1>2, <4>1 DEF ToSet
    <3>3. i - e \in 1..Len(t) /\ x = t[i - e]
      BY <1>1, <1>2, <3>1, <3>2
    <3> QED  BY <1>2, <3>3 DEF ToSet
  <2> QED  BY <2>1, <2>2
<1>5. ASSUME s # <<>> PROVE s[Len(s)] \in ToSet(t)
  <2>1. Len(t) \in 1..Len(t) /\ Len(t) + e = Len(s)
    BY <1>1, <1>2, <1>5
  <2>2. t[Len(t)] = s[Len(t) + e]
    BY <1>2, <2>1
  <2>3. DOMAIN t = 1..Len(t)
    BY <1>2
  <2> QED  BY <2>1, <2>2, <2>3 DEF ToSet
<1> QED  BY <1>2, <1>3, <1>4, <1>5 DEF Trimmed, e, t, cut

(* The timestamps kept are those of the requests in the history, whatever the    *)
(* size of the buffer (recording.py:315-319, 369-383).                           *)
THEOREM TimestampsKept == Spec => []TimestampsMatchHistory
<1>1. Init => HistoryInv
  BY DEF Init, HistoryInv, Increasing, TimestampsMatchHistory, ToSet, Kinds
<1>2. HistoryInv /\ [Next]_vars => HistoryInv'
  <2> SUFFICES ASSUME HistoryInv, [Next]_vars PROVE HistoryInv'  OBVIOUS
  <2> USE DEF HistoryInv
  <2> DEFINE h == history["requests"]
             Same == /\ bufferSize' = bufferSize /\ arrived' = arrived
                     /\ history'["requests"] = h /\ timestamps' = timestamps
  <2>1. CASE Same
    BY <2>1 DEF TimestampsMatchHistory
  <2>2. CASE Reset
    BY <2>2 DEF Reset, TimestampsMatchHistory, ToSet, Increasing, Kinds
  <2>3. CASE RecordRequest
    <3> DEFINE r == arrived + 1
               longer == Append(h, r)
               e == Excess(longer)
    <3>1. /\ arrived' = r /\ bufferSize' = bufferSize
          /\ history'["requests"] = Trimmed(longer)
          /\ timestamps' = (timestamps \ ToSet(SubSeq(longer, 1, e))) \cup {r}
      BY <2>3 DEF RecordRequest, Recorded, Stamp, Kinds
    <3>2. /\ longer \in Seq(1..r) /\ Len(longer) = Len(h) + 1 /\ longer[Len(longer)] = r
          /\ \A i \in 1..Len(h) : longer[i] = h[i] /\ h[i] < r
      OBVIOUS
    <3>3. Increasing(longer)
      BY <3>2 DEF Increasing
    <3>4. ToSet(longer) = ToSet(h) \cup {r}
      <4> HIDE DEF longer, r
      <4>1. DOMAIN longer = 1..(Len(h) + 1) /\ DOMAIN h = 1..Len(h) /\ Len(h) \in Nat
        BY <3>2
      <4>2. ASSUME NEW x \in ToSet(longer) PROVE x \in ToSet(h) \cup {r}
        BY <3>2, <4>1, <4>2 DEF ToSet
      <4>3. \A i \in DOMAIN h : i \in DOMAIN longer /\ longer[i] = h[i]
        BY <3>2, <4>1
      <4>4. ASSUME NEW x \in ToSet(h) PROVE x \in ToSet(longer)
        BY <4>3, <4>4 DEF ToSet
      <4>5. r \in ToSet(longer)
        BY <3>2, <4>1 DEF ToSet
      <4> QED  BY <4>2, <4>4, <4>5
    <3>r. r \in Nat /\ bufferSize \in Sizes
      OBVIOUS
    <3> HIDE DEF longer, r
    <3>5. /\ Trimmed(longer) \in Seq(1..r) /\ Increasing(Trimmed(longer))
          /\ r \in ToSet(Trimmed(longer))
          /\ ToSet(Trimmed(longer)) = ToSet(longer) \ ToSet(SubSeq(longer, 1, e))
      <4>1. longer # <<>>
        BY <3>2
      <4> QED  BY <3>r, <3>2, <3>3, <4>1, TrimmedIsRest
    <3>6. timestamps' = ToSet(Trimmed(longer))
      BY <3>1, <3>4, <3>5 DEF TimestampsMatchHistory
    <3> QED  BY <3>1, <3>5, <3>6 DEF TimestampsMatchHistory, r
  <2>4. CASE ~Reset /\ ~RecordRequest
    <3>1. Same
      BY <2>4 DEF Next, RecordExchange, RecordClosed, Recorded, SourceStops, ProcessTraffic, Poll,
         Emit, Resume, Timeout, CallNext, traffic, vars, Kinds
    <3> QED  BY <2>1, <3>1
  <2> QED  BY <2>2, <2>3, <2>4
<1>3. HistoryInv => TimestampsMatchHistory
  BY DEF HistoryInv
<1> QED  BY <1>1, <1>2, <1>3, PTL DEF Spec
-----------------------------------------------------------------------------
(* The order of the exchanges.  The command line may still take from the current *)
(* queue, from later ones, and, while it waits, from the one it waits on.        *)
Task == consumer["exchanges"]
Hand == IF Task.pc = "emit" THEN {Task.item} ELSE {}
Out == ToSet(emitted) \cup Hand
Place == IF Task.pc \in {"emit", "done", "failed"} THEN Task.pc ELSE "polling"
Lost(g) == queue[g]["exchanges"].dropped
MayTake(g) == g >= gen \/ (Task.pc \in {"waiting", "woken"} /\ g >= Task.gen)

Earlier(rec, a, b) == \E i, j \in 1..Len(rec) : i < j /\ rec[i] = a /\ rec[j] = b
InOrder(rec, s) == \A i, j \in 1..Len(s) : i < j => Earlier(rec, s[i], s[j])
AllEarlier(rec, S, T) == \A x \in S, y \in T : Earlier(rec, x, y)

Pcs == {"idle", "waiting", "woken", "emit", "done", "failed"}
RecorderTypes ==
  /\ bufferSize \in Sizes /\ gen \in Gens
  /\ queue \in [Gens -> [Kinds -> [items : Seq(Nat), dropped : Nat]]]
  /\ consumer \in [Kinds -> [pc : Pcs, gen : Gens, item : Nat]]
  /\ \A k \in Kinds : consumer[k].gen <= gen
  /\ last \in [Kinds -> Nat] /\ emitted \in Seq(Nat)
OrderTypes ==
  /\ RecorderTypes
  /\ arrived \in Nat /\ inflight \subseteq 1..arrived /\ recorded \in Seq(Nat)

(* No request has two exchanges; the queues and what was taken from them are in  *)
(* the order of recording, one queue after the other.                            *)
RecordedOnce ==
  /\ \A i, j \in 1..Len(recorded) : recorded[i] = recorded[j] => i = j
  /\ \A i \in 1..Len(recorded) : recorded[i] \in (1..arrived) \ inflight
QueuesInOrder ==
  /\ \A g \in Gens : /\ InOrder(recorded, Queued(g)) /\ ToSet(Queued(g)) \subseteq ToSet(recorded)
                     /\ g > gen => Queued(g) = <<>>
  /\ \A g, h \in Gens : g < h => AllEarlier(recorded, ToSet(Queued(g)), ToSet(Queued(h)))
OutInOrder ==
  /\ InOrder(recorded, emitted) /\ AllEarlier(recorded, ToSet(emitted), Hand)
  /\ Out \subseteq ToSet(recorded)
  /\ \A g \in Gens : MayTake(g) => AllEarlier(recorded, Out, ToSet(Queued(g)))

OrderInv == OrderTypes /\ RecordedOnce /\ QueuesInOrder /\ OutInOrder
-----------------------------------------------------------------------------
(* Trimming a sequence leaves an end of it, and so keeps its order.              *)
LEMMA TrimmedIsEnd ==
  ASSUME NEW s \in Seq(Nat), bufferSize \in Sizes
  PROVE  /\ Excess(s) \in 0..Len(s)
         /\ Trimmed(s) \in Seq(Nat) /\ Len(Trimmed(s)) = Len(s) - Excess(s)
         /\ \A i \in 1..Len(Trimmed(s)) : Trimmed(s)[i] = s[i + Excess(s)]
<1>1. Excess(s) \in 0..Len(s)
  BY RecorderAssumption DEF Excess
<1> DEFINE e == Excess(s)
<1> HIDE DEF e
<1>2. e \in 0..Len(s)
  BY <1>1 DEF e
<1>3. /\ SubSeq(s, e + 1, Len(s)) \in Seq(Nat) /\ Len(SubSeq(s, e + 1, Len(s))) = Len(s) - e
      /\ \A i \in 1..Len(SubSeq(s, e + 1, Len(s))) : SubSeq(s, e + 1, Len(s))[i] = s[i + e]
  BY <1>2
<1> QED  BY <1>2, <1>3 DEF Trimmed, e

(* What the four kinds of steps do to the exchanges: one is recorded, the        *)
(* command line takes one from a queue, prints it, or nothing moves.             *)
Records(r) ==
  /\ r \in inflight /\ inflight' = inflight \ {r} /\ recorded' = Append(recorded, r)
  /\ arrived' = arrived /\ gen' = gen /\ emitted' = emitted /\ Hand' = Hand
  /\ \A g \in Gens : MayTake(g)' => MayTake(g)
  /\ \A g \in Gens : Queued(g)' = IF g = gen THEN Trimmed(Append(Queued(g), r)) ELSE Queued(g)
  /\ \A g \in Gens : Lost(g)' = IF g = gen THEN Lost(g) + Excess(Append(Queued(g), r))
                                ELSE Lost(g)
  /\ ~stopped /\ stopped' = stopped /\ Place' = Place
Fetches(g) ==
  /\ MayTake(g) /\ g <= gen /\ Queued(g) # <<>> /\ Hand = {}
  /\ Hand' = {Head(Queued(g))} /\ Task'.pc = "emit" /\ gen' = gen
  /\ \A h \in Gens : Queued(h)' = IF h = g THEN Tail(Queued(g)) ELSE Queued(h)
  /\ \A h \in Gens : Lost(h)' = Lost(h)
  /\ Place = "polling" /\ Place' = "emit"
  /\ UNCHANGED <<arrived, recorded, inflight, emitted>>
Prints ==
  /\ Hand = {Task.item} /\ emitted' = Append(emitted, Task.item) /\ Hand' = {} /\ gen' = gen
  /\ \A g \in Gens : MayTake(g)' => MayTake(g)
  /\ \A g \in Gens : Queued(g)' = Queued(g)
  /\ \A g \in Gens : Lost(g)' = Lost(g)
  /\ Place = "emit" /\ Place' = "polling"
  /\ UNCHANGED <<arrived, recorded, inflight>>
Drained == Place = "polling" /\ Place' = "done" /\ stopped' /\ gen' = gen /\ Queued(gen) = <<>>
NothingMoves ==
  /\ gen' >= gen /\ emitted' = emitted /\ Hand' \subseteq Hand /\ recorded' = recorded
  /\ inflight' \subseteq inflight \cup {arrived + 1} /\ arrived' >= arrived
  /\ \A g \in Gens : MayTake(g)' => MayTake(g)
  /\ \A g \in Gens : Queued(g)' = Queued(g)
  /\ \A g \in Gens : Lost(g)' = Lost(g)
  /\ gen' \in {gen, gen + 1} /\ (stopped => stopped')
  /\ Place' = Place \/ Place' = "failed" \/ Drained

LEMMA OrderTypesKept == OrderTypes /\ [Next]_vars => OrderTypes'
<1> SUFFICES ASSUME OrderTypes, [Next]_vars PROVE OrderTypes'  OBVIOUS
<1> USE DEF OrderTypes
<1>r. ASSUME NEW kinds \in SUBSET Kinds, NEW item \in Nat, Recorded(kinds, item)
      PROVE  RecorderTypes'
  <2> USE DEF RecorderTypes
  <2>1. ASSUME NEW q \in [items : Seq(Nat), dropped : Nat]
        PROVE  Put(q, item) \in [items : Seq(Nat), dropped : Nat]
    <3> DEFINE items == Append(q.items, item)
    <3>1. items \in Seq(Nat)
      OBVIOUS
    <3>2. Trimmed(items) \in Seq(Nat) /\ Excess(items) \in Nat
      <4> HIDE DEF items
      <4> QED  BY <3>1, TrimmedIsEnd
    <3> QED  BY <3>2 DEF Put
  <2>2. queue' \in [Gens -> [Kinds -> [items : Seq(Nat), dropped : Nat]]]
    BY <1>r, <2>1 DEF Recorded
  <2>3. ASSUME NEW k \in Kinds
        PROVE  /\ Woken(consumer[k]) \in [pc : Pcs, gen : Gens, item : Nat]
               /\ Woken(consumer[k]).gen = consumer[k].gen
    BY DEF Woken, Pcs
  <2>4. /\ consumer' \in [Kinds -> [pc : Pcs, gen : Gens, item : Nat]]
        /\ \A k \in Kinds : consumer'[k].gen <= gen'
    BY <1>r, <2>3 DEF Recorded
  <2> QED  BY <1>r, <2>2, <2>4 DEF Recorded
<1>1. CASE RecordRequest
  <2>1. Recorded({"requests"}, arrived + 1) /\ arrived' = arrived + 1
    BY <1>1 DEF RecordRequest
  <2>2. {"requests"} \in SUBSET Kinds /\ arrived + 1 \in Nat
    BY DEF Kinds
  <2>3. RecorderTypes'
    BY <1>r, <2>1, <2>2
  <2> QED  BY <1>1, <2>3 DEF RecordRequest
<1>2. CASE RecordExchange
  <2>1. PICK r \in inflight :
          /\ Recorded({"exchanges"} \cup (IF r \in Failing THEN {} ELSE {"responses"}), r)
          /\ inflight' = inflight \ {r} /\ recorded' = Append(recorded, r) /\ arrived' = arrived
    BY <1>2 DEF RecordExchange
  <2>2. r \in Nat /\ r \in 1..arrived
        /\ {"exchanges"} \cup (IF r \in Failing THEN {} ELSE {"responses"}) \in SUBSET Kinds
    BY DEF Kinds
  <2>3. RecorderTypes'
    BY <1>r, <2>1, <2>2
  <2> QED  BY <2>1, <2>2, <2>3
<1>3. CASE RecordClosed
  <2> DEFINE n == last["closed"] + 1
  <2>1. Recorded({"closed"}, n)
    BY <1>3 DEF RecordClosed
  <2>2. {"closed"} \in SUBSET Kinds /\ n \in Nat
    <3>1. "closed" \in Kinds /\ last \in [Kinds -> Nat]
      BY DEF Kinds, RecorderTypes
    <3>2. last["closed"] \in Nat
      BY <3>1
    <3> QED  BY <3>1, <3>2
  <2> HIDE DEF n
  <2>3. RecorderTypes'
    BY <1>r, <2>1, <2>2
  <2> QED  BY <1>3, <2>3 DEF RecordClosed
<1>4. CASE Reset
  <2> USE DEF RecorderTypes
  <2>1. gen' \in Gens /\ gen' >= gen
    BY <1>4, RecorderAssumption DEF Reset, Gens
  <2>2. \A k \in Kinds : consumer'[k].gen <= gen'
    BY <1>4, RecorderAssumption DEF Reset, Gens
  <2>3. last' \in [Kinds -> Nat]
    BY <1>4 DEF Reset
  <2> QED  BY <1>4, <2>1, <2>2, <2>3 DEF Reset
<1>5. ASSUME NEW k \in Kinds, NEW g \in Gens, NEW pc \in Pcs, g <= gen,
             Takes(k, g, pc) \/ Waits(k, g) \/ Leaves(k, pc),
             UNCHANGED traffic, emitted' \in Seq(Nat)
      PROVE  OrderTypes'
  <2> USE DEF RecorderTypes
  <2> DEFINE Q == [items : Seq(Nat), dropped : Nat]
             C == [pc : Pcs, gen : Gens, item : Nat]
  <2>1. queue[g][k] \in Q
    OBVIOUS
  <2>2. CASE Takes(k, g, pc)
    <3>1. Head(queue[g][k].items) \in Nat /\ Tail(queue[g][k].items) \in Seq(Nat)
      BY <2>1, <2>2 DEF Takes
    <3>2. [queue[g][k] EXCEPT !.items = Tail(@)] \in Q
      BY <2>1, <3>1
    <3>3. queue' \in [Gens -> [Kinds -> Q]]
      BY <2>2, <3>2 DEF Takes
    <3>4. consumer' \in [Kinds -> C] /\ \A j \in Kinds : consumer'[j].gen <= gen
      BY <1>5, <2>2, <3>1 DEF Takes
    <3>5. last' \in [Kinds -> Nat]
      BY <2>2, <3>1 DEF Takes
    <3> QED  BY <1>5, <3>3, <3>4, <3>5 DEF traffic
  <2>3. CASE Waits(k, g)
    <3>1. [pc |-> "waiting", gen |-> g, item |-> 0] \in C
      BY DEF Pcs
    <3>2. consumer' \in [Kinds -> C] /\ \A j \in Kinds : consumer'[j].gen <= gen
      BY <1>5, <2>3, <3>1 DEF Waits
    <3> QED  BY <1>5, <2>3, <3>2 DEF Waits, traffic
  <2>4. CASE Leaves(k, pc)
    <3> DEFINE gone == [Idle EXCEPT !.pc = pc]
    <3>0. gone = [pc |-> pc, gen |-> 0, item |-> 0]
      <4> HIDE DEF OrderTypes, RecorderTypes
      <4> QED  BY DEF Idle
    <3>1. gone \in C /\ gone.gen <= gen
      <4> HIDE DEF gone
      <4>1. 0 \in Gens /\ 0 <= gen
        BY RecorderAssumption DEF Gens
      <4> QED  BY <3>0, <4>1
    <3>c. consumer' = [consumer EXCEPT ![k] = gone]
      BY <2>4 DEF Leaves
    <3> HIDE DEF gone
    <3>2. consumer' \in [Kinds -> C] /\ \A j \in Kinds : consumer'[j].gen <= gen
      BY <1>5, <3>1, <3>c
    <3>3. UNCHANGED <<queue, last>>
      BY <2>4 DEF Leaves
    <3> QED  BY <1>5, <3>2, <3>3 DEF traffic
  <2> QED  BY <1>5, <2>2, <2>3, <2>4
<1>6. ASSUME NEW k \in Kinds, CallNext(k) \/ Resume(k) \/ Timeout(k) PROVE OrderTypes'
  <2>1. /\ \E g \in Gens, pc \in Pcs :
             g <= gen /\ (Takes(k, g, pc) \/ Waits(k, g) \/ Leaves(k, pc))
        /\ UNCHANGED traffic /\ emitted' \in Seq(Nat)
    BY <1>6 DEF CallNext, Resume, Timeout, Holding, RecorderTypes, Pcs, Gens
  <2> QED  BY <1>5, <2>1
<1>7. CASE Poll
  <2>1. /\ \E g \in Gens, pc \in Pcs : g <= gen /\
             (Takes("exchanges", g, pc) \/ Waits("exchanges", g) \/ Leaves("exchanges", pc))
        /\ UNCHANGED traffic /\ emitted' \in Seq(Nat)
    BY <1>7 DEF Poll, RecorderTypes, Pcs, Gens
  <2> QED  BY <1>5, <2>1 DEF Kinds
<1>8. CASE Emit
  <2>1. /\ \E pc \in Pcs : Leaves("exchanges", pc)
        /\ UNCHANGED traffic
    BY <1>8 DEF Emit, Pcs
  <2>2. emitted' \in Seq(Nat)
    <3>1. consumer["exchanges"] \in [pc : Pcs, gen : Gens, item : Nat] /\ emitted \in Seq(Nat)
      BY DEF RecorderTypes, Kinds
    <3>2. consumer["exchanges"].item \in Nat
      BY <3>1
    <3>3. emitted' = emitted \/ emitted' = Append(emitted, consumer["exchanges"].item)
      BY <1>8 DEF Emit
    <3>4. PICK x \in Nat : emitted' = emitted \/ emitted' = Append(emitted, x)
      BY <3>2, <3>3
    <3>5. emitted \in Seq(Nat)
      BY <3>1
    <3> HIDE DEF OrderTypes
    <3> QED  BY <3>4, <3>5
  <2>3. gen \in Gens /\ gen <= gen /\ "exchanges" \in Kinds
    BY RecorderAssumption DEF RecorderTypes, Gens, Kinds
  <2> QED  BY <1>5, <2>1, <2>2, <2>3
<1>9. CASE SourceStops \/ UNCHANGED vars
  BY <1>9 DEF SourceStops, traffic, RecorderTypes, vars
<1> QED
  BY <1>1, <1>2, <1>3, <1>4, <1>6, <1>7, <1>8, <1>9, RecorderAssumption
  DEF Next, ProcessTraffic, Kinds

LEMMA StepKinds ==
  ASSUME OrderTypes, [Next]_vars
  PROVE  \/ \E r \in inflight : Records(r)
         \/ \E g \in Gens : Fetches(g)
         \/ Prints \/ NothingMoves
<1> DEFINE Q == [items : Seq(Nat), dropped : Nat]
           C == [pc : Pcs, gen : Gens, item : Nat]
<1>t. /\ queue \in [Gens -> [Kinds -> Q]] /\ consumer \in [Kinds -> C]
      /\ \A k \in Kinds : consumer[k].gen <= gen
      /\ gen \in Gens /\ gen \in Nat /\ Gens \subseteq Nat /\ "exchanges" \in Kinds
      /\ arrived \in Nat
  <2>1. gen \in Gens /\ \A g \in Gens : g \in Nat
    BY RecorderAssumption DEF OrderTypes, RecorderTypes, Gens
  <2> QED  BY <2>1 DEF OrderTypes, RecorderTypes, Kinds
<1>g. \A g \in Gens : queue[g]["exchanges"] \in Q
  BY <1>t
<1>c. Task \in C
  BY <1>t DEF Task
(* A record leaves the place of the command line, but for waking it up. *)
<1>r. ASSUME NEW kinds \in SUBSET Kinds, NEW item, Recorded(kinds, item)
      PROVE  /\ gen' = gen /\ emitted' = emitted /\ Hand' = Hand /\ Place' = Place
             /\ \A g \in Gens : MayTake(g)' => MayTake(g)
             /\ \A g \in Gens : Lost(g)' =
                  IF g = gen /\ "exchanges" \in kinds
                  THEN Lost(g) + Excess(Append(Queued(g), item)) ELSE Lost(g)
             /\ \A g \in Gens : Queued(g)' =
                  IF g = gen /\ "exchanges" \in kinds
                  THEN Trimmed(Append(Queued(g), item)) ELSE Queued(g)
  <2>1. Task' = Task \/ (Task.pc = "waiting" /\ Task' = [Task EXCEPT !.pc = "woken"])
    BY <1>r, <1>t DEF Recorded, Woken, Task
  <2>2. /\ Task'.gen = Task.gen /\ Task'.item = Task.item
        /\ Task'.pc = Task.pc \/ (Task.pc = "waiting" /\ Task'.pc = "woken")
    BY <2>1, <1>c
  <2>3. gen' = gen /\ emitted' = emitted
    BY <1>r DEF Recorded
  <2>4. \A g \in Gens : queue'[g]["exchanges"] =
          IF g = gen /\ "exchanges" \in kinds THEN Put(queue[g]["exchanges"], item)
          ELSE queue[g]["exchanges"]
    BY <1>r, <1>t DEF Recorded
  <2>5. \A g \in Gens : Put(queue[g]["exchanges"], item).items
                        = Trimmed(Append(queue[g]["exchanges"].items, item))
    BY DEF Put
  <2>6. \A g \in Gens : Put(queue[g]["exchanges"], item).dropped
                        = queue[g]["exchanges"].dropped
                          + Excess(Append(queue[g]["exchanges"].items, item))
    BY DEF Put
  <2>7. Place' = Place
    BY <2>2 DEF Place
  <2>8. \A g \in Gens : Lost(g)' =
          IF g = gen /\ "exchanges" \in kinds
          THEN Lost(g) + Excess(Append(Queued(g), item)) ELSE Lost(g)
    BY <2>4, <2>6 DEF Lost, Queued
  <2> QED  BY <2>2, <2>3, <2>4, <2>5, <2>7, <2>8 DEF Hand, MayTake, Queued
<1>1. CASE RecordRequest
  <2>1. Recorded({"requests"}, arrived + 1)
    BY <1>1 DEF RecordRequest
  <2>2. {"requests"} \in SUBSET Kinds /\ "exchanges" \notin {"requests"}
    BY DEF Kinds
  <2>3. /\ gen' = gen /\ emitted' = emitted /\ Hand' = Hand /\ Place' = Place
        /\ \A g \in Gens : MayTake(g)' => MayTake(g)
        /\ \A g \in Gens : Queued(g)' = Queued(g) /\ Lost(g)' = Lost(g)
    BY <1>r, <2>1, <2>2
  <2> QED  BY <1>1, <1>t, <2>3 DEF RecordRequest, Recorded, NothingMoves
<1>2. CASE RecordExchange
  <2> DEFINE kinds(r) == {"exchanges"} \cup (IF r \in Failing THEN {} ELSE {"responses"})
  <2>1. PICK r \in inflight :
          /\ Recorded(kinds(r), r)
          /\ inflight' = inflight \ {r} /\ recorded' = Append(recorded, r) /\ arrived' = arrived
          /\ ~stopped /\ stopped' = stopped
    BY <1>2 DEF RecordExchange, Recorded
  <2>2. kinds(r) \in SUBSET Kinds /\ "exchanges" \in kinds(r)
    BY DEF Kinds
  <2>3. /\ gen' = gen /\ emitted' = emitted /\ Hand' = Hand /\ Place' = Place
        /\ \A g \in Gens : MayTake(g)' => MayTake(g)
        /\ \A g \in Gens : Queued(g)' =
             IF g = gen THEN Trimmed(Append(Queued(g), r)) ELSE Queued(g)
        /\ \A g \in Gens : Lost(g)' =
             IF g = gen THEN Lost(g) + Excess(Append(Queued(g), r)) ELSE Lost(g)
    <3> HIDE DEF kinds
    <3> QED  BY <1>r, <2>1, <2>2
  <2> QED  BY <2>1, <2>3 DEF Records
<1>3. CASE RecordClosed
  <2>1. Recorded({"closed"}, last["closed"] + 1)
    BY <1>3 DEF RecordClosed
  <2>2. {"closed"} \in SUBSET Kinds /\ "exchanges" \notin {"closed"}
    BY DEF Kinds
  <2>3. /\ gen' = gen /\ emitted' = emitted /\ Hand' = Hand /\ Place' = Place
        /\ \A g \in Gens : MayTake(g)' => MayTake(g)
        /\ \A g \in Gens : Queued(g)' = Queued(g) /\ Lost(g)' = Lost(g)
    BY <1>r, <2>1, <2>2
  <2> QED  BY <1>3, <1>t, <2>3 DEF RecordClosed, Recorded, NothingMoves
<1>4. CASE Reset
  <2>1. /\ gen' = gen + 1
        /\ UNCHANGED <<queue, consumer, arrived, inflight, recorded, emitted, stopped>>
    BY <1>4 DEF Reset
  <2>2. \A g \in Gens : MayTake(g)' => MayTake(g)
    BY <1>t, <2>1 DEF MayTake, Task
  <2> QED  BY <1>t, <2>1, <2>2 DEF NothingMoves, Hand, Task, Queued, Place, Lost
<1>5. ASSUME NEW k \in {"requests", "responses", "closed"}, UNCHANGED traffic,
             emitted' = emitted, stopped' = stopped,
             NEW g \in Gens, NEW pc, Takes(k, g, pc) \/ Waits(k, g) \/ Leaves(k, pc)
      PROVE  NothingMoves
  <2>1. Task' = Task
    BY <1>5, <1>t DEF Takes, Waits, Leaves, Task
  <2>2. \A h \in Gens : queue'[h]["exchanges"] = queue[h]["exchanges"]
    <3>1. CASE Takes(k, g, pc)
      <4>1. queue' = [queue EXCEPT ![g][k].items = Tail(@)] /\ k # "exchanges"
        BY <3>1 DEF Takes
      <4> QED  BY <1>t, <4>1
    <3> QED  BY <1>5, <3>1 DEF Waits, Leaves
  <2> QED  BY <1>5, <1>t, <2>1, <2>2
           DEF NothingMoves, Hand, MayTake, Queued, traffic, Place, Lost
<1>6. ASSUME NEW g \in Gens, g <= gen, MayTake(g), Takes("exchanges", g, "emit"),
             Task.pc \in {"idle", "woken"}, UNCHANGED <<traffic, emitted>>
      PROVE  Fetches(g)
  <2>1. Task'.pc = "emit" /\ Task'.item = Head(Queued(g))
    BY <1>6, <1>t DEF Takes, Task, Queued
  <2>2. \A h \in Gens : queue'[h]["exchanges"].items =
          IF h = g THEN Tail(queue[g]["exchanges"].items) ELSE queue[h]["exchanges"].items
    BY <1>6, <1>t, <1>g DEF Takes
  <2>3. \A h \in Gens : queue'[h]["exchanges"].dropped = queue[h]["exchanges"].dropped
    BY <1>6, <1>t, <1>g DEF Takes
  <2> QED  BY <1>6, <2>1, <2>2, <2>3 DEF Fetches, Takes, Hand, Queued, traffic, Place, Lost
<1>7. ASSUME NEW g \in Gens, g <= gen, MayTake(g), Waits("exchanges", g),
             g = gen \/ (g = Task.gen /\ Task.pc = "woken"), Task.pc \in {"idle", "woken"},
             UNCHANGED <<traffic, stopped, emitted>>
      PROVE  NothingMoves
  <2>1. Task'.pc = "waiting" /\ Task'.gen = g
    BY <1>7, <1>t DEF Waits, Task
  <2>2. \A h \in Gens : MayTake(h)' => MayTake(h)
    BY <1>7, <1>t, <2>1 DEF MayTake, traffic
  <2> QED  BY <1>7, <1>t, <2>1, <2>2
           DEF NothingMoves, Waits, Hand, Queued, traffic, Place, Lost
<1>8. ASSUME NEW pc \in {"idle", "done", "failed"}, Leaves("exchanges", pc),
             pc = "idle" => Task.pc \in {"waiting", "woken"},
             pc = "done" => Task.pc = "idle" /\ stopped /\ Queued(gen) = <<>>,
             UNCHANGED <<traffic, stopped, emitted>>
      PROVE  NothingMoves
  <2>1. Task'.pc = pc
    BY <1>8, <1>t DEF Leaves, Task, Idle
  <2>2. Place' = Place \/ Place' = "failed" \/ Drained
    BY <1>8, <2>1 DEF Place, Drained, traffic
  <2> QED  BY <1>8, <1>t, <2>1, <2>2
           DEF NothingMoves, Leaves, Hand, MayTake, Queued, traffic, Lost
<1>9. CASE Poll
  <2>1. /\ Task.pc = "idle" /\ UNCHANGED <<traffic, stopped, emitted>>
        /\ \/ Takes("exchanges", gen, "emit") \/ Waits("exchanges", gen)
           \/ Leaves("exchanges", "done") /\ stopped /\ Queued(gen) = <<>>
    BY <1>9 DEF Poll, Task, Queued
  <2>2. MayTake(gen) /\ gen <= gen
    BY <1>t DEF MayTake
  <2>3. gen \in Gens
    BY <1>t
  <2> QED  BY <1>6, <1>7, <1>8, <2>1, <2>2, <2>3
<1>10. CASE Resume("exchanges")
  <2>1. PICK g \in Gens : g = Task.gen /\ g <= gen
    BY <1>t, <1>c DEF Task
  <2>2. /\ Task.pc = "woken" /\ UNCHANGED <<traffic, stopped, emitted>>
        /\ Takes("exchanges", g, "emit") \/ Waits("exchanges", g)
    BY <1>10, <2>1 DEF Resume, Task, Holding
  <2>3. MayTake(g)
    <3>1. g >= g
      BY <1>t
    <3> QED  BY <2>1, <2>2, <3>1 DEF MayTake
  <2> QED  BY <1>6, <1>7, <2>1, <2>2, <2>3
<1>11. CASE Timeout("exchanges")
  BY <1>8, <1>11 DEF Timeout, Task
<1>12. CASE Emit
  <2>1. CASE Leaves("exchanges", "failed") /\ UNCHANGED <<traffic, stopped, emitted>>
    BY <1>8, <2>1
  <2>2. CASE Leaves("exchanges", "idle") /\ emitted' = Append(emitted, Task.item)
    <3>1. Task'.pc = "idle"
      BY <2>2, <1>t DEF Leaves, Task, Idle
    <3> QED
      BY <1>12, <1>t, <2>2, <3>1
      DEF Prints, Emit, Leaves, Hand, MayTake, Queued, Task, traffic, Place, Lost
  <2> QED  BY <1>12, <2>1, <2>2 DEF Emit, Task
<1>13. ASSUME NEW k \in Readers, CallNext(k) \/ Resume(k) \/ Timeout(k) PROVE NothingMoves
  <2>1. k \in {"requests", "responses", "closed"} /\ k \in Kinds
    BY RecorderAssumption DEF Kinds
  <2>2. /\ UNCHANGED traffic /\ emitted' = emitted /\ stopped' = stopped
        /\ \E g \in Gens, pc \in Pcs : Takes(k, g, pc) \/ Waits(k, g) \/ Leaves(k, pc)
    BY <1>13, <1>t, <2>1 DEF CallNext, Resume, Timeout, Holding, Pcs
  <2> QED  BY <1>5, <2>1, <2>2
<1>14. CASE SourceStops \/ UNCHANGED vars
  BY <1>14, <1>t
  DEF SourceStops, traffic, vars, NothingMoves, Hand, Task, MayTake, Queued, Place, Lost
<1> QED
  BY <1>1, <1>2, <1>3, <1>4, <1>9, <1>10, <1>11, <1>12, <1>13, <1>14 DEF Next, ProcessTraffic

(* Order survives a step that records at most one more exchange. *)
LEMMA EarlierStays ==
  ASSUME OrderTypes, recorded' = recorded \/ \E r \in inflight : recorded' = Append(recorded, r)
  PROVE  /\ \A a, b : Earlier(recorded, a, b) => Earlier(recorded', a, b)
         /\ ToSet(recorded) \subseteq ToSet(recorded')
<1>1. CASE recorded' = recorded
  BY <1>1 DEF Earlier
<1>2. ASSUME NEW r \in inflight, recorded' = Append(recorded, r)
      PROVE  /\ \A a, b : Earlier(recorded, a, b) => Earlier(recorded', a, b)
             /\ ToSet(recorded) \subseteq ToSet(recorded')
  <2>1. recorded \in Seq(Nat) /\ r \in Nat
    BY DEF OrderTypes
  <2>2. /\ Len(recorded') = Len(recorded) + 1 /\ Len(recorded) \in Nat
        /\ \A i \in 1..Len(recorded) : i \in 1..Len(recorded') /\ recorded'[i] = recorded[i]
        /\ DOMAIN recorded = 1..Len(recorded) /\ DOMAIN recorded' = 1..Len(recorded')
    BY <1>2, <2>1
  <2>3. \A a, b : Earlier(recorded, a, b) => Earlier(recorded', a, b)
    BY <2>2 DEF Earlier
  <2>4. ToSet(recorded) \subseteq ToSet(recorded')
    BY <2>2 DEF ToSet
  <2> QED  BY <2>3, <2>4
<1> QED  BY <1>1, <1>2

(* What ToSet() says of the sequences the steps build. *)
LEMMA ToSetIs ==
  ASSUME NEW s \in Seq(Nat)
  PROVE  \A x : x \in ToSet(s) <=> \E i \in 1..Len(s) : s[i] = x
<1>1. DOMAIN s = 1..Len(s)
  OBVIOUS
<1> QED  BY <1>1 DEF ToSet

LEMMA ToSetAppend ==
  ASSUME NEW s \in Seq(Nat), NEW x \in Nat
  PROVE  ToSet(Append(s, x)) = ToSet(s) \cup {x}
<1>1. /\ Append(s, x) \in Seq(Nat) /\ Len(Append(s, x)) = Len(s) + 1 /\ Len(s) \in Nat
      /\ \A i \in 1..Len(s) : Append(s, x)[i] = s[i]
      /\ Append(s, x)[Len(s) + 1] = x
  OBVIOUS
<1> DEFINE t == Append(s, x)
<1> HIDE DEF t
<1>2. /\ t \in Seq(Nat) /\ Len(t) = Len(s) + 1 /\ t[Len(s) + 1] = x
      /\ \A i \in 1..Len(s) : t[i] = s[i]
  BY <1>1 DEF t
<1>3. \A y : y \in ToSet(t) <=> \E i \in 1..Len(t) : t[i] = y
  BY <1>2, ToSetIs
<1>4. \A y : y \in ToSet(s) <=> \E i \in 1..Len(s) : s[i] = y
  BY ToSetIs
<1>5. 1..Len(t) = 1..Len(s) \cup {Len(s) + 1}
  BY <1>1, <1>2
<1>6. ASSUME NEW y \in ToSet(t) PROVE y \in ToSet(s) \cup {x}
  <2>1. PICK i \in 1..Len(t) : t[i] = y
    BY <1>3, <1>6
  <2> QED  BY <1>2, <1>4, <1>5, <2>1
<1>7. ASSUME NEW y \in ToSet(s) PROVE y \in ToSet(t)
  <2>1. PICK i \in 1..Len(s) : s[i] = y
    BY <1>4, <1>7
  <2> QED  BY <1>2, <1>3, <1>5, <2>1
<1>8. x \in ToSet(t)
  BY <1>1, <1>2, <1>3
<1> QED  BY <1>6, <1>7, <1>8 DEF t

(* An end of a sequence has no more members, and their order. *)
LEMMA EndKeepsOrder ==
  ASSUME NEW rec, NEW s \in Seq(Nat), NEW t \in Seq(Nat), NEW e \in Nat,
         Len(t) = Len(s) - e, \A i \in 1..Len(t) : t[i] = s[i + e]
  PROVE  ToSet(t) \subseteq ToSet(s) /\ (InOrder(rec, s) => InOrder(rec, t))
<1>1. \A i \in 1..Len(t) : i + e \in 1..Len(s)
  OBVIOUS
<1>2. \A i, j \in 1..Len(t) : i < j => i + e < j + e
  OBVIOUS
<1>3. ASSUME NEW x \in ToSet(t) PROVE x \in ToSet(s)
  <2>1. PICK i \in 1..Len(t) : t[i] = x
    BY <1>3, ToSetIs
  <2>2. i + e \in 1..Len(s) /\ s[i + e] = x
    BY <1>1, <2>1
  <2> QED  BY <2>2, ToSetIs
<1>4. ASSUME InOrder(rec, s) PROVE InOrder(rec, t)
  <2> SUFFICES ASSUME NEW i \in 1..Len(t), NEW j \in 1..Len(t), i < j PROVE Earlier(rec, t[i], t[j])
    BY DEF InOrder
  <2> QED  BY <1>1, <1>2, <1>4 DEF InOrder
<1> QED  BY <1>3, <1>4

(* Order, in a longer record. *)
LEMMA OrderStays ==
  ASSUME NEW rec, NEW more, \A a, b : Earlier(rec, a, b) => Earlier(more, a, b)
  PROVE  /\ \A s : InOrder(rec, s) => InOrder(more, s)
         /\ \A S, T : AllEarlier(rec, S, T) => AllEarlier(more, S, T)
BY DEF InOrder, AllEarlier

LEMMA AppendInOrder ==
  ASSUME NEW rec, NEW s \in Seq(Nat), NEW x \in Nat, InOrder(rec, s),
         AllEarlier(rec, ToSet(s), {x})
  PROVE  InOrder(rec, Append(s, x))
<1>1. \A i \in 1..Len(s) : Earlier(rec, s[i], x)
  BY ToSetIs DEF AllEarlier
<1>2. /\ Append(s, x) \in Seq(Nat) /\ Len(Append(s, x)) = Len(s) + 1 /\ Len(s) \in Nat
      /\ Append(s, x)[Len(s) + 1] = x
      /\ \A i \in 1..Len(s) : Append(s, x)[i] = s[i]
  OBVIOUS
<1> DEFINE t == Append(s, x)
<1> HIDE DEF t
<1>3. /\ Len(t) = Len(s) + 1 /\ t[Len(s) + 1] = x /\ \A i \in 1..Len(s) : t[i] = s[i]
  BY <1>2 DEF t
<1>4. ASSUME NEW i \in 1..Len(t), NEW j \in 1..Len(t), i < j PROVE Earlier(rec, t[i], t[j])
  <2>1. i \in 1..Len(s) /\ (j \in 1..Len(s) \/ j = Len(s) + 1)
    BY <1>2, <1>3, <1>4
  <2> QED  BY <1>1, <1>3, <1>4, <2>1 DEF InOrder
<1> QED  BY <1>4 DEF InOrder, t

LEMMA GensNat == Gens \subseteq Nat
BY RecorderAssumption DEF Gens

LEMMA SequencesQueued ==
  ASSUME OrderTypes
  PROVE  \A g \in Gens : Queued(g) \in Seq(Nat)
<1>1. \A g \in Gens : queue[g]["exchanges"] \in [items : Seq(Nat), dropped : Nat]
  BY DEF OrderTypes, RecorderTypes, Kinds
<1> QED  BY <1>1 DEF Queued

LEMMA RecordsKeepOrder ==
  ASSUME OrderInv, OrderTypes', NEW r \in inflight, Records(r)
  PROVE  OrderInv'
<1> USE DEF OrderInv
<1>t. /\ recorded \in Seq(Nat) /\ recorded' \in Seq(Nat) /\ r \in Nat /\ gen \in Gens
      /\ \A g \in Gens : Queued(g) \in Seq(Nat)
      /\ bufferSize \in Sizes /\ Gens \subseteq Nat
  BY SequencesQueued, GensNat DEF OrderTypes, RecorderTypes
<1>d. /\ Len(recorded') = Len(recorded) + 1 /\ recorded'[Len(recorded')] = r
      /\ Len(recorded) \in Nat
      /\ \A i \in 1..Len(recorded) : i \in 1..Len(recorded') /\ recorded'[i] = recorded[i]
  BY <1>t DEF Records
<1>1. /\ \A a, b : Earlier(recorded, a, b) => Earlier(recorded', a, b)
      /\ ToSet(recorded') = ToSet(recorded) \cup {r}
  BY <1>t, EarlierStays, ToSetAppend DEF Records
<1>2. AllEarlier(recorded', ToSet(recorded), {r})
  <2> SUFFICES ASSUME NEW x \in ToSet(recorded) PROVE Earlier(recorded', x, r)
    BY DEF AllEarlier
  <2>1. PICK i \in 1..Len(recorded) : recorded[i] = x
    BY <1>t, ToSetIs
  <2>2. i < Len(recorded') /\ i \in 1..Len(recorded') /\ Len(recorded') \in 1..Len(recorded')
    BY <1>d
  <2> QED  BY <1>d, <2>1, <2>2 DEF Earlier
<1>3. RecordedOnce'
  <2>1. \A i \in 1..Len(recorded') : i \in 1..Len(recorded) \/ i = Len(recorded')
    BY <1>d
  <2>2. \A i \in 1..Len(recorded) : recorded[i] # r
    BY DEF RecordedOnce, Records
  <2>3. ASSUME NEW i \in 1..Len(recorded'), NEW j \in 1..Len(recorded'),
               recorded'[i] = recorded'[j]
        PROVE  i = j
    BY <1>d, <2>1, <2>2, <2>3 DEF RecordedOnce
  <2>4. inflight \subseteq 1..arrived
    BY DEF OrderTypes
  <2>5. \A i \in 1..Len(recorded') : recorded'[i] \in (1..arrived') \ inflight'
    BY <1>d, <2>1, <2>4 DEF RecordedOnce, Records
  <2> QED  BY <2>3, <2>5 DEF RecordedOnce
<1> DEFINE longer == Append(Queued(gen), r)
<1>4. longer \in Seq(Nat) /\ ToSet(longer) = ToSet(Queued(gen)) \cup {r}
  BY <1>t, ToSetAppend
<1>5. InOrder(recorded', longer)
  <2>1. AllEarlier(recorded', ToSet(Queued(gen)), {r})
    BY <1>t, <1>2 DEF QueuesInOrder, AllEarlier
  <2>2. InOrder(recorded', Queued(gen))
    BY <1>1, <1>t, OrderStays DEF QueuesInOrder
  <2> QED  BY <1>t, <2>1, <2>2, AppendInOrder
<1>6. /\ ToSet(Trimmed(longer)) \subseteq ToSet(Queued(gen)) \cup {r}
      /\ InOrder(recorded', Trimmed(longer))
  <2> HIDE DEF longer
  <2>1. /\ Excess(longer) \in Nat
        /\ Trimmed(longer) \in Seq(Nat) /\ Len(Trimmed(longer)) = Len(longer) - Excess(longer)
        /\ \A i \in 1..Len(Trimmed(longer)) : Trimmed(longer)[i] = longer[i + Excess(longer)]
    BY <1>t, <1>4, TrimmedIsEnd
  <2>2. ToSet(Trimmed(longer)) \subseteq ToSet(longer) /\ InOrder(recorded', Trimmed(longer))
    BY <1>4, <1>5, <2>1, EndKeepsOrder
  <2> QED  BY <1>4, <2>2
<1>7. ASSUME NEW g \in Gens
      PROVE  /\ ToSet(Queued(g)') \subseteq ToSet(Queued(g)) \cup (IF g = gen THEN {r} ELSE {})
             /\ InOrder(recorded', Queued(g)')
             /\ g # gen => Queued(g)' = Queued(g)
  BY <1>1, <1>6, OrderStays DEF Records, QueuesInOrder
<1>8. QueuesInOrder'
  <2>1. ASSUME NEW g \in Gens
        PROVE  /\ ToSet(Queued(g)') \subseteq ToSet(recorded')
               /\ g > gen' => Queued(g)' = <<>>
    BY <1>1, <1>7, <1>t DEF QueuesInOrder, Records
  <2>2. ASSUME NEW g \in Gens, NEW h \in Gens, g < h,
               NEW x \in ToSet(Queued(g)'), NEW y \in ToSet(Queued(h)')
        PROVE  Earlier(recorded', x, y)
    <3>1. h <= gen
      <4> SUFFICES ASSUME h > gen PROVE FALSE
        BY <1>t
      <4>1. Queued(h)' = <<>>
        BY <1>7, <1>t DEF QueuesInOrder
      <4> QED  BY <2>2, <4>1 DEF ToSet
    <3>2. x \in ToSet(Queued(g)) /\ x \in ToSet(recorded)
      BY <1>7, <1>t, <2>2, <3>1 DEF QueuesInOrder
    <3>3. CASE y \in ToSet(Queued(h))
      BY <1>1, <2>2, <3>2, <3>3 DEF QueuesInOrder, AllEarlier
    <3>4. CASE y = r
      BY <1>2, <3>2, <3>4 DEF AllEarlier
    <3> QED  BY <1>7, <2>2, <3>3, <3>4
  <2> QED  BY <1>7, <2>1, <2>2 DEF QueuesInOrder, AllEarlier
<1>9. OutInOrder'
  <2>1. emitted' = emitted /\ Hand' = Hand /\ Out' = Out
    BY DEF Records, Out
  <2>2. InOrder(recorded', emitted) /\ AllEarlier(recorded', ToSet(emitted), Hand)
    BY <1>1, OrderStays DEF OutInOrder
  <2>3. ASSUME NEW g \in Gens, MayTake(g)', NEW x \in Out, NEW y \in ToSet(Queued(g)')
        PROVE  Earlier(recorded', x, y)
    <3>1. MayTake(g)
      BY <2>3 DEF Records
    <3>2. CASE y \in ToSet(Queued(g))
      BY <1>1, <2>3, <3>1, <3>2 DEF OutInOrder, AllEarlier
    <3>3. CASE y = r
      BY <1>2, <2>3, <3>3 DEF OutInOrder, AllEarlier
    <3> QED  BY <1>7, <2>3, <3>2, <3>3
  <2> QED  BY <1>1, <2>1, <2>2, <2>3 DEF OutInOrder, AllEarlier
<1> QED  BY <1>3, <1>8, <1>9

(* Taking the oldest exchange of a queue that may still be taken from: what is   *)
(* left in it and in the later queues was recorded after it.                     *)
LEMMA FetchKeepsOrder ==
  ASSUME OrderInv, OrderTypes', NEW g \in Gens, Fetches(g)
  PROVE  OrderInv'
<1> USE DEF OrderInv
<1> DEFINE q == Queued(g)
           x == Head(q)
<1>t. /\ \A h \in Gens : Queued(h) \in Seq(Nat)
      /\ gen \in Nat /\ Gens \subseteq Nat /\ q \in Seq(Nat) /\ q # <<>>
  BY SequencesQueued, GensNat DEF OrderTypes, RecorderTypes, Fetches
<1>u. /\ recorded' = recorded /\ inflight' = inflight /\ arrived' = arrived
      /\ emitted' = emitted /\ gen' = gen /\ Hand = {} /\ Hand' = {x} /\ Task'.pc = "emit"
      /\ \A h \in Gens : Queued(h)' = IF h = g THEN Tail(q) ELSE Queued(h)
      /\ MayTake(g) /\ g <= gen
  BY DEF Fetches
<1>q. /\ Tail(q) \in Seq(Nat) /\ Len(Tail(q)) = Len(q) - 1 /\ x = q[1] /\ 1 \in 1..Len(q)
      /\ \A i \in 1..Len(Tail(q)) : Tail(q)[i] = q[i + 1]
  BY <1>t
<1> HIDE DEF q, x
<1>1. x \in ToSet(q)
  BY <1>q, <1>t, ToSetIs
<1>2. /\ ToSet(Tail(q)) \subseteq ToSet(q)
      /\ InOrder(recorded, q) => InOrder(recorded, Tail(q))
  BY <1>q, <1>t, EndKeepsOrder
<1>3. ASSUME NEW y \in ToSet(Tail(q)), InOrder(recorded, q) PROVE Earlier(recorded, x, y)
  <2>1. PICK i \in 1..Len(Tail(q)) : Tail(q)[i] = y
    BY <1>q, ToSetIs
  <2>2. i + 1 \in 1..Len(q) /\ 1 < i + 1 /\ q[i + 1] = y
    BY <1>q, <1>t, <2>1
  <2> QED  BY <1>3, <1>q, <2>2 DEF InOrder
<1>4. ASSUME NEW h \in Gens
      PROVE  ToSet(Queued(h)') \subseteq ToSet(Queued(h))
  BY <1>2, <1>u DEF q
<1>5. QueuesInOrder'
  <2>1. ASSUME NEW h \in Gens
        PROVE  /\ InOrder(recorded', Queued(h)') /\ ToSet(Queued(h)') \subseteq ToSet(recorded')
               /\ h > gen' => Queued(h)' = <<>>
    <3>1. h = g \/ Queued(h)' = Queued(h)
      BY <1>u
    <3>2. CASE h = g
      <4>1. ~(h > gen')
        BY <1>t, <1>u, <3>2
      <4> QED  BY <1>2, <1>u, <3>2, <4>1 DEF QueuesInOrder, q
    <3> QED  BY <1>u, <3>1, <3>2 DEF QueuesInOrder
  <2>2. ASSUME NEW h \in Gens, NEW k \in Gens, h < k
        PROVE  AllEarlier(recorded', ToSet(Queued(h)'), ToSet(Queued(k)'))
    BY <1>4, <1>u, <2>2 DEF QueuesInOrder, AllEarlier
  <2> QED  BY <2>1, <2>2 DEF QueuesInOrder
<1>6. OutInOrder'
  <2>1. Out = ToSet(emitted) /\ Out' = Out \cup {x}
    BY <1>u DEF Out
  <2>2. AllEarlier(recorded', ToSet(emitted'), Hand')
    BY <1>1, <1>u, <2>1 DEF OutInOrder, AllEarlier, q
  <2>3. x \in ToSet(recorded)
    BY <1>1 DEF QueuesInOrder, q
  <2>4. ASSUME NEW h \in Gens, MayTake(h)', NEW a \in Out', NEW b \in ToSet(Queued(h)')
        PROVE  Earlier(recorded', a, b)
    <3>1. h >= gen /\ h >= g /\ MayTake(h)
      BY <1>t, <1>u, <2>4 DEF MayTake
    <3>2. CASE a \in Out
      BY <1>4, <1>u, <2>4, <3>1, <3>2 DEF OutInOrder, AllEarlier
    <3>3. CASE a = x /\ h = g
      BY <1>3, <1>u, <2>4, <3>3 DEF QueuesInOrder, q
    <3>4. CASE a = x /\ h # g
      <4>1. g < h /\ Queued(h)' = Queued(h)
        BY <1>t, <1>u, <3>1, <3>4
      <4> QED  BY <1>1, <1>u, <2>4, <3>4, <4>1 DEF QueuesInOrder, AllEarlier, q
    <3> QED  BY <2>1, <2>4, <3>2, <3>3, <3>4
  <2> QED  BY <1>u, <2>1, <2>2, <2>3, <2>4 DEF OutInOrder, AllEarlier
<1>7. RecordedOnce'
  BY <1>u DEF RecordedOnce
<1> QED  BY <1>5, <1>6, <1>7

LEMMA PrintKeepsOrder ==
  ASSUME OrderInv, OrderTypes', Prints
  PROVE  OrderInv'
<1> USE DEF OrderInv
<1> DEFINE x == Task.item
<1>u. /\ recorded' = recorded /\ inflight' = inflight /\ arrived' = arrived /\ gen' = gen
      /\ emitted' = Append(emitted, x) /\ Hand = {x} /\ Hand' = {}
      /\ \A g \in Gens : Queued(g)' = Queued(g) /\ (MayTake(g)' => MayTake(g))
  BY DEF Prints
<1>t. emitted \in Seq(Nat) /\ x \in Nat
  BY DEF OrderTypes, RecorderTypes, Task, Kinds
<1> HIDE DEF x
<1>1. RecordedOnce' /\ QueuesInOrder'
  BY <1>u DEF RecordedOnce, QueuesInOrder
<1>2. InOrder(recorded', emitted')
  BY <1>u, <1>t, AppendInOrder DEF OutInOrder
<1>3. Out' = Out
  BY <1>u, <1>t, ToSetAppend DEF Out
<1> QED  BY <1>u, <1>1, <1>2, <1>3 DEF OutInOrder, AllEarlier

LEMMA RestKeepsOrder ==
  ASSUME OrderInv, OrderTypes', NothingMoves
  PROVE  OrderInv'
<1> USE DEF OrderInv
<1>t. gen \in Nat /\ gen' \in Nat /\ Gens \subseteq Nat /\ arrived \in Nat /\ arrived' \in Nat
  BY GensNat DEF OrderTypes, RecorderTypes
<1>u. /\ recorded' = recorded /\ emitted' = emitted /\ Hand' \subseteq Hand /\ gen' >= gen
      /\ inflight' \subseteq inflight \cup {arrived + 1} /\ arrived' >= arrived
      /\ \A g \in Gens : Queued(g)' = Queued(g) /\ (MayTake(g)' => MayTake(g))
  BY DEF NothingMoves
<1>1. RecordedOnce'
  BY <1>t, <1>u DEF RecordedOnce
<1>2. QueuesInOrder'
  <2>1. \A g \in Gens : g > gen' => g > gen
    BY <1>t, <1>u
  <2> QED  BY <1>u, <2>1 DEF QueuesInOrder
<1>3. OutInOrder'
  BY <1>u DEF OutInOrder, AllEarlier, Out
<1> QED  BY <1>1, <1>2, <1>3
-----------------------------------------------------------------------------
LEMMA InitOrder == Init => OrderInv
<1> SUFFICES ASSUME Init PROVE OrderInv  OBVIOUS
<1> USE DEF Init
<1>1. OrderTypes
  <2>1. 0 \in Gens
    BY RecorderAssumption DEF Gens
  <2>2. EmptyQueue \in [items : Seq(Nat), dropped : Nat]
    BY DEF EmptyQueue
  <2>3. Idle \in [pc : Pcs, gen : Gens, item : Nat] /\ Idle.gen <= 0
    BY <2>1 DEF Idle, Pcs
  <2>4. queue \in [Gens -> [Kinds -> [items : Seq(Nat), dropped : Nat]]]
    BY <2>2
  <2>5. /\ consumer \in [Kinds -> [pc : Pcs, gen : Gens, item : Nat]]
        /\ \A k \in Kinds : consumer[k].gen <= gen
    BY <2>3
  <2> QED  BY <2>1, <2>4, <2>5 DEF OrderTypes, RecorderTypes
<1>2. \A g \in Gens : Queued(g) = <<>>
  BY DEF Queued, Kinds, EmptyQueue
<1>3. Hand = {}
  BY DEF Hand, Task, Idle, Kinds
<1>4. RecordedOnce
  BY DEF RecordedOnce
<1>5. QueuesInOrder
  BY <1>2 DEF QueuesInOrder, InOrder, AllEarlier, ToSet
<1>6. OutInOrder
  BY <1>3 DEF OutInOrder, InOrder, AllEarlier, Out, ToSet
<1> QED  BY <1>1, <1>4, <1>5, <1>6 DEF OrderInv

LEMMA NextOrder == OrderInv /\ [Next]_vars => OrderInv'
<1> SUFFICES ASSUME OrderInv, [Next]_vars PROVE OrderInv'  OBVIOUS
<1>1. OrderTypes /\ OrderTypes'
  BY OrderTypesKept DEF OrderInv
<1> QED
  BY <1>1, StepKinds, RecordsKeepOrder, FetchKeepsOrder, PrintKeepsOrder, RestKeepsOrder

LEMMA OrderShows == OrderInv => PrintedInOrder
<1> SUFFICES ASSUME OrderInv PROVE PrintedInOrder  OBVIOUS
<1> USE DEF OrderInv
<1> DEFINE s == emitted \o InHand
           q == Queued(gen)
<1>1. /\ emitted \in Seq(Nat) /\ q \in Seq(Nat) /\ recorded \in Seq(Nat) /\ gen \in Gens
      /\ Task.item \in Nat
  BY SequencesQueued DEF OrderTypes, RecorderTypes, Task, Kinds
<1>2. s \in Seq(Nat) /\ ToSet(s) = Out /\ InOrder(recorded, s)
  <2>1. CASE Task.pc = "emit"
    <3> DEFINE x == Task.item
    <3>1. InHand = <<x>> /\ Hand = {x} /\ x \in Nat
      BY <1>1, <2>1 DEF InHand, Hand, Task
    <3> HIDE DEF x
    <3>2. s = Append(emitted, x)
      BY <1>1, <3>1
    <3>3. s \in Seq(Nat) /\ ToSet(s) = ToSet(emitted) \cup {x}
      <4> HIDE DEF s
      <4> QED  BY <1>1, <3>1, <3>2, ToSetAppend
    <3>4. InOrder(recorded, Append(emitted, x))
      BY <1>1, <3>1, AppendInOrder DEF OutInOrder
    <3> HIDE DEF s
    <3> QED  BY <3>1, <3>2, <3>3, <3>4 DEF Out
  <2>2. CASE Task.pc # "emit"
    <3>1. s = emitted /\ Hand = {}
      BY <1>1, <2>2 DEF InHand, Hand, Task
    <3> QED  BY <1>1, <3>1 DEF OutInOrder, Out
  <2> QED  BY <2>1, <2>2
<1>3. MayTake(gen)
  BY <1>1, GensNat DEF MayTake
<1>4. InOrder(recorded, q) /\ ToSet(q) \subseteq ToSet(recorded) /\ Out \subseteq ToSet(recorded)
      /\ AllEarlier(recorded, ToSet(s), ToSet(q))
  BY <1>1, <1>2, <1>3 DEF QueuesInOrder, OutInOrder
<1> HIDE DEF s, q
<1> DEFINE out == s \o q
<1>5. /\ DOMAIN out = 1..(Len(s) + Len(q)) /\ Len(s) \in Nat /\ Len(q) \in Nat
      /\ \A i \in 1..Len(s) : out[i] = s[i] /\ s[i] \in ToSet(s)
      /\ \A i \in 1..Len(q) : out[i + Len(s)] = q[i] /\ q[i] \in ToSet(q)
  <2>1. q \in Seq(Nat) /\ s \in Seq(Nat)
    BY <1>1, <1>2 DEF q
  <2>2. /\ \A i \in 1..Len(s) : s[i] \in ToSet(s)
        /\ \A i \in 1..Len(q) : q[i] \in ToSet(q)
    BY <2>1, ToSetIs
  <2> QED  BY <2>1, <2>2
<1>6. \A i \in DOMAIN out : i \in 1..Len(s) \/ (i - Len(s) \in 1..Len(q) /\ i > Len(s)
                                               /\ out[i] = q[i - Len(s)])
  BY <1>5
<1> HIDE DEF out
<1>7. ToSet(out) \subseteq ToSet(recorded)
  BY <1>2, <1>4, <1>5, <1>6 DEF ToSet
<1>8. ASSUME NEW i \in DOMAIN out, NEW j \in DOMAIN out, i < j
      PROVE  Earlier(recorded, out[i], out[j])
  <2>1. CASE i \in 1..Len(s) /\ j \in 1..Len(s)
    BY <1>2, <1>5, <1>8, <2>1 DEF InOrder
  <2>2. CASE i \in 1..Len(s) /\ j \notin 1..Len(s)
    BY <1>4, <1>5, <1>6, <2>2 DEF AllEarlier
  <2>3. CASE i \notin 1..Len(s)
    <3>1. i - Len(s) \in 1..Len(q) /\ out[i] = q[i - Len(s)] /\ i > Len(s)
      BY <1>6, <2>3
    <3>2. j - Len(s) \in 1..Len(q) /\ out[j] = q[j - Len(s)] /\ i - Len(s) < j - Len(s)
      BY <1>5, <1>6, <1>8, <3>1
    <3> QED  BY <1>4, <3>1, <3>2 DEF InOrder
  <2> QED  BY <2>1, <2>2, <2>3
<1>9. ASSUME NEW a, NEW b, Earlier(recorded, a, b) PROVE Position(a) < Position(b)
  <2>1. PICK i \in 1..Len(recorded), j \in 1..Len(recorded) :
          i < j /\ recorded[i] = a /\ recorded[j] = b
    BY <1>9 DEF Earlier
  <2>2. DOMAIN recorded = 1..Len(recorded)
    BY <1>1
  <2>3. Position(a) = i /\ Position(b) = j
    BY <2>1, <2>2 DEF Position, RecordedOnce
  <2> QED  BY <2>1, <2>3
<1>10. out = emitted \o InHand \o Queued(gen)
  BY DEF out, s, q
<1> QED  BY <1>7, <1>8, <1>9, <1>10 DEF PrintedInOrder

(* What is printed, in hand and queued is in the order of recording, each        *)
(* exchange once, whatever is reset and dropped (recording.py:201-224).          *)
THEOREM ExchangesInOrder == Spec => []PrintedInOrder
<1> QED  BY InitOrder, NextOrder, OrderShows, PTL DEF Spec
-----------------------------------------------------------------------------
(* Sums over finite sets, as the folds of the library define them: any element  *)
(* may be taken out first.                                                      *)
Pick(s) == CHOOSE x \in s : TRUE
Sums(g, f, D) == \A s \in D : g[s] = IF s = {} THEN 0 ELSE f[Pick(s)] + g[s \ {Pick(s)}]
IsSum(g, f, S) == g = [s \in SUBSET S |-> IF s = {} THEN 0 ELSE f[Pick(s)] + g[s \ {Pick(s)}]]
SumOf(f, S) == (CHOOSE g : IsSum(g, f, S))[S]

LEMMA FoldIs ==
  ASSUME NEW f, NEW S
  PROVE  FoldFunctionOnSet(+, 0, f, S) = SumOf(f, S)
BY DEF FoldFunctionOnSet, MapThenFoldSet, IsSum, SumOf, Pick

(* Induction: a set of numbers that has 0 and the successors of its members     *)
LEMMA Counted ==
  ASSUME NEW T \in SUBSET Nat, 0 \in T, \A n \in T : n + 1 \in T
  PROVE  T = Nat
<1> DEFINE R == OpToRel(<, Nat)
           U == Nat \ T
<1>1. IsWellFoundedOn(R, Nat)
  BY NatLessThanWellFounded
<1>2. \A x, y \in Nat : <<y, x>> \in R <=> y < x
  BY DEF OpToRel
<1> HIDE DEF R
<1> SUFFICES ASSUME U # {} PROVE FALSE
  OBVIOUS
<1>3. PICK m \in U : \A y \in U : ~ (<<y, m>> \in R)
  BY <1>1, WFMin
<1>4. m \in Nat \ {0} /\ m - 1 \in Nat
  OBVIOUS
<1>5. m - 1 \notin U
  <2>1. \A y \in U : ~(y < m)
    BY <1>2, <1>3
  <2>2. m - 1 < m
    BY <1>4
  <2> QED  BY <2>1, <2>2
<1>6. m - 1 + 1 \in T
  BY <1>4, <1>5
<1> QED  BY <1>4, <1>6

\* The subsets of S of at most n elements
Small(S, n) == {s \in SUBSET S : Cardinality(s) <= n}

LEMMA PickIs ==
  ASSUME NEW S, IsFiniteSet(S), NEW s \in SUBSET S, s # {}
  PROVE  /\ Pick(s) \in s /\ IsFiniteSet(s)
         /\ \A x \in s : /\ Cardinality(s) \in Nat \ {0} /\ s \ {x} \in SUBSET S
                         /\ Cardinality(s \ {x}) = Cardinality(s) - 1
<1>1. Pick(s) \in s
  BY DEF Pick
<1>2. IsFiniteSet(s) /\ Cardinality(s) \in Nat
  BY FS_Subset, FS_CardinalityType
<1>3. ASSUME NEW x \in s
      PROVE  /\ Cardinality(s) \in Nat \ {0} /\ s \ {x} \in SUBSET S
             /\ Cardinality(s \ {x}) = Cardinality(s) - 1
  BY <1>2, FS_RemoveElement, FS_EmptySet
<1> QED  BY <1>1, <1>2, <1>3

LEMMA SmallSets ==
  ASSUME NEW S, IsFiniteSet(S)
  PROVE  /\ \A s \in SUBSET S : IsFiniteSet(s) /\ Cardinality(s) \in Nat
         /\ \A s \in SUBSET S : Cardinality(s) = 0 <=> s = {}
         /\ Small(S, Cardinality(S)) = SUBSET S
<1>1. ASSUME NEW s \in SUBSET S
      PROVE  /\ IsFiniteSet(s) /\ Cardinality(s) \in Nat /\ Cardinality(s) <= Cardinality(S)
             /\ Cardinality(s) = 0 <=> s = {}
  BY FS_Subset, FS_CardinalityType, FS_EmptySet
<1> QED  BY <1>1 DEF Small

LEMMA SumExists ==
  ASSUME NEW S, IsFiniteSet(S), NEW f \in [S -> Int]
  PROVE  \E g \in [SUBSET S -> Int] : IsSum(g, f, S)
<1> DEFINE T == {n \in Nat : \E g \in [Small(S, n) -> Int] : Sums(g, f, Small(S, n))}
<1>1. 0 \in T
  <2>1. Small(S, 0) = {{}}
    <3>1. \A s \in SUBSET S : Cardinality(s) <= 0 <=> s = {}
      BY SmallSets
    <3> QED  BY <3>1 DEF Small
  <2> DEFINE g == [s \in Small(S, 0) |-> 0]
  <2>2. g \in [Small(S, 0) -> Int] /\ Sums(g, f, Small(S, 0))
    BY <2>1 DEF Sums
  <2> QED  BY <2>2
<1>2. ASSUME NEW n \in T PROVE n + 1 \in T
  <2>1. PICK g \in [Small(S, n) -> Int] : Sums(g, f, Small(S, n))
    OBVIOUS
  <2> DEFINE D == Small(S, n + 1)
             h == [s \in D |-> IF s = {} THEN 0 ELSE f[Pick(s)] + g[s \ {Pick(s)}]]
  <2>2. ASSUME NEW s \in D, s # {}
        PROVE  s \ {Pick(s)} \in Small(S, n) /\ Pick(s) \in S /\ s \ {Pick(s)} \in D
    <3>1. s \in SUBSET S /\ Cardinality(s) <= n + 1 /\ n \in Nat
      BY DEF Small
    <3>2. /\ Pick(s) \in s /\ Cardinality(s) \in Nat
          /\ s \ {Pick(s)} \in SUBSET S /\ Cardinality(s \ {Pick(s)}) = Cardinality(s) - 1
      BY <2>2, <3>1, PickIs
    <3> QED  BY <3>1, <3>2 DEF Small
  <2>3. h \in [D -> Int]
    BY <2>2
  <2>4. \A s \in Small(S, n) : s \in D /\ h[s] = g[s]
    <3>1. \A s \in Small(S, n) : s \in D
      BY SmallSets DEF Small
    <3> QED  BY <2>1, <3>1 DEF Sums
  <2>5. Sums(h, f, D)
    BY <2>2, <2>4 DEF Sums
  <2>6. \E k \in [D -> Int] : Sums(k, f, D)
    <3> HIDE DEF h, D
    <3> QED  BY <2>3, <2>5
  <2>7. n + 1 \in Nat
    OBVIOUS
  <2> QED  BY <2>6, <2>7
<1>3. T = Nat
  <2> HIDE DEF T
  <2>1. T \in SUBSET Nat
    BY DEF T
  <2> QED  BY <1>1, <1>2, <2>1, Counted
<1>4. Cardinality(S) \in T
  BY <1>3, FS_CardinalityType
<1>5. PICK g \in [SUBSET S -> Int] : Sums(g, f, SUBSET S)
  BY <1>4, SmallSets
<1>6. IsSum(g, f, S)
  BY <1>5 DEF Sums, IsSum
<1> QED  BY <1>6

(* A property of the empty set and of every set that has it without its pick    *)
LEMMA BySize ==
  ASSUME NEW S, IsFiniteSet(S), NEW P \in SUBSET SUBSET S, {} \in P,
         \A s \in SUBSET S :
           s # {} /\ (\A t \in SUBSET S : Cardinality(t) < Cardinality(s) => t \in P)
                               => s \in P
  PROVE  P = SUBSET S
<1> DEFINE T == {n \in Nat : Small(S, n) \subseteq P}
<1>1. 0 \in T
  <2>1. \A s \in SUBSET S : Cardinality(s) <= 0 => s = {}
    BY SmallSets
  <2>2. Small(S, 0) \subseteq {{}}
    BY <2>1 DEF Small
  <2> QED  BY <2>2
<1>2. ASSUME NEW n \in T PROVE n + 1 \in T
  <2>1. ASSUME NEW s \in Small(S, n + 1), s # {} PROVE s \in P
    <3>1. s \in SUBSET S /\ Cardinality(s) <= n + 1 /\ n \in Nat /\ Small(S, n) \subseteq P
      BY DEF Small
    <3>2. \A t \in SUBSET S : Cardinality(t) \in Nat /\ Cardinality(s) \in Nat
      BY <3>1, SmallSets
    <3>3. ASSUME NEW t \in SUBSET S, Cardinality(t) < Cardinality(s) PROVE t \in P
      <4>1. Cardinality(t) <= n
        BY <3>1, <3>2, <3>3
      <4> QED  BY <3>1, <4>1 DEF Small
    <3> QED  BY <2>1, <3>1, <3>3
  <2> QED  BY <2>1
<1>3. T = Nat
  <2> HIDE DEF T
  <2>1. T \in SUBSET Nat
    BY DEF T
  <2> QED  BY <1>1, <1>2, <2>1, Counted
<1>4. Cardinality(S) \in T
  BY <1>3, FS_CardinalityType
<1> QED  BY <1>4, SmallSets

LEMMA SumsAreInts ==
  ASSUME NEW S, IsFiniteSet(S), NEW f \in [S -> Int], NEW g, Sums(g, f, SUBSET S)
  PROVE  \A s \in SUBSET S : g[s] \in Int
<1> DEFINE P == {s \in SUBSET S : g[s] \in Int}
<1>1. {} \in P
  <2>1. {} \in SUBSET S
    OBVIOUS
  <2>2. g[{}] = 0
    BY <2>1 DEF Sums
  <2> QED  BY <2>1, <2>2
<1>2. ASSUME NEW s \in SUBSET S, s # {},
             \A t \in SUBSET S : Cardinality(t) < Cardinality(s) => t \in P
      PROVE  s \in P
  <2>1. Pick(s) \in S /\ s \ {Pick(s)} \in SUBSET S /\ Cardinality(s \ {Pick(s)}) < Cardinality(s)
    BY <1>2, PickIs
  <2>2. g[s \ {Pick(s)}] \in Int
    BY <1>2, <2>1
  <2>3. g[s] = f[Pick(s)] + g[s \ {Pick(s)}]
    BY <1>2 DEF Sums
  <2> QED  BY <2>1, <2>2, <2>3
<1>3. P = SUBSET S
  <2> HIDE DEF P
  <2>1. P \in SUBSET SUBSET S
    BY DEF P
  <2> QED  BY <1>1, <1>2, <2>1, BySize
<1> QED  BY <1>3

(* Any element may be taken out of a sum.                                       *)
TakesOut(g, f, S) == \A s \in SUBSET S : \A x \in s : g[s] = f[x] + g[s \ {x}]
LEMMA TakeOut ==
  ASSUME NEW S, IsFiniteSet(S), NEW f \in [S -> Int], NEW g, Sums(g, f, SUBSET S)
  PROVE  TakesOut(g, f, S)
<1> DEFINE P == {s \in SUBSET S : \A x \in s : g[s] = f[x] + g[s \ {x}]}
<1>1. {} \in P
  OBVIOUS
<1>2. ASSUME NEW s \in SUBSET S, s # {},
             \A t \in SUBSET S : Cardinality(t) < Cardinality(s) => t \in P
      PROVE  s \in P
  <2> SUFFICES ASSUME NEW x \in s PROVE g[s] = f[x] + g[s \ {x}]
    OBVIOUS
  <2>1. PICK p \in s : p = Pick(s)
    BY <1>2, PickIs
  <2>2. g[s] = f[p] + g[s \ {p}]
    BY <1>2, <2>1 DEF Sums
  <2>3. CASE x # p
    <3>1. /\ s \ {p} \in SUBSET S /\ Cardinality(s \ {p}) < Cardinality(s)
          /\ s \ {x} \in SUBSET S /\ Cardinality(s \ {x}) < Cardinality(s)
      BY <1>2, PickIs
    <3>2. g[s \ {p}] = f[x] + g[(s \ {p}) \ {x}]
      BY <1>2, <2>3, <3>1
    <3>3. g[s \ {x}] = f[p] + g[(s \ {x}) \ {p}]
      BY <1>2, <2>3, <3>1
    <3>4. (s \ {p}) \ {x} = (s \ {x}) \ {p} /\ (s \ {p}) \ {x} \in SUBSET S
      OBVIOUS
    <3>5. PICK a \in Int, b \in Int, r \in Int : a = f[x] /\ b = f[p] /\ r = g[(s \ {p}) \ {x}]
      BY <3>4, SumsAreInts
    <3>6. g[s \ {p}] = a + r /\ g[s \ {x}] = b + r
      BY <3>2, <3>3, <3>4, <3>5
    <3>7. g[s] = b + (a + r)
      BY <2>2, <3>5, <3>6
    <3>8. b + (a + r) = a + (b + r)
      OBVIOUS
    <3> QED  BY <3>5, <3>6, <3>7, <3>8
  <2> QED  BY <2>2, <2>3
<1>3. P = SUBSET S
  <2> HIDE DEF P
  <2>1. P \in SUBSET SUBSET S
    BY DEF P
  <2> QED  BY <1>1, <1>2, <2>1, BySize
<1> QED  BY <1>3 DEF TakesOut

(* A sum depends on the values summed, not on the set they are part of.         *)
SameOn(f, e, S) == \A x \in S : f[x] = e[x]
LEMMA SumsAgree ==
  ASSUME NEW S, NEW D, S \subseteq D, IsFiniteSet(D), NEW f, NEW g, NEW e, NEW h,
         Sums(g, f, SUBSET S), Sums(h, e, SUBSET D), SameOn(f, e, S)
  PROVE  g[S] = h[S]
<1>f. IsFiniteSet(S)
  BY FS_Subset
<1> DEFINE P == {s \in SUBSET S : g[s] = h[s]}
<1>1. {} \in P
  BY DEF Sums
<1>2. ASSUME NEW s \in SUBSET S, s # {},
             \A t \in SUBSET S : Cardinality(t) < Cardinality(s) => t \in P
      PROVE  s \in P
  <2>1. Pick(s) \in S /\ s \ {Pick(s)} \in SUBSET S /\ Cardinality(s \ {Pick(s)}) < Cardinality(s)
    BY <1>f, <1>2, PickIs
  <2>2. g[s \ {Pick(s)}] = h[s \ {Pick(s)}]
    BY <1>2, <2>1
  <2>3. g[s] = f[Pick(s)] + g[s \ {Pick(s)}] /\ h[s] = e[Pick(s)] + h[s \ {Pick(s)}]
    <3>1. s \in SUBSET D
      OBVIOUS
    <3> QED  BY <1>2, <3>1 DEF Sums
  <2> QED  BY <2>1, <2>2, <2>3 DEF SameOn
<1>3. P = SUBSET S
  <2> HIDE DEF P
  <2>1. P \in SUBSET SUBSET S
    BY DEF P
  <2> QED  BY <1>f, <1>1, <1>2, <2>1, BySize
<1> QED  BY <1>3

LEMMA SumIs ==
  ASSUME NEW S, IsFiniteSet(S), NEW f, \A x \in S : f[x] \in Int
  PROVE  \E g : Sums(g, f, SUBSET S) /\ SumOf(f, S) = g[S]
<1> DEFINE e == [x \in S |-> f[x]]
<1>1. PICK h \in [SUBSET S -> Int] : IsSum(h, e, S)
  BY SumExists
<1>2. IsSum(h, f, S)
  <2>1. \A s \in SUBSET S : s # {} => e[Pick(s)] = f[Pick(s)]
    BY PickIs
  <2> HIDE DEF e
  <2> QED  BY <1>1, <2>1 DEF IsSum
<1>3. PICK g : g = CHOOSE k : IsSum(k, f, S)
  OBVIOUS
<1>4. IsSum(g, f, S) /\ SumOf(f, S) = g[S]
  BY <1>2, <1>3 DEF SumOf
<1> QED  BY <1>4 DEF IsSum, Sums

(* What the sums of the invariant need                                          *)
LEMMA SumEmpty ==
  ASSUME NEW f
  PROVE  SumOf(f, {}) = 0
<1>1. PICK g : Sums(g, f, SUBSET {}) /\ SumOf(f, {}) = g[{}]
  BY SumIs, FS_EmptySet
<1> QED  BY <1>1 DEF Sums

LEMMA SumSame ==
  ASSUME NEW S, IsFiniteSet(S), NEW f, NEW e, \A x \in S : f[x] \in Int /\ e[x] = f[x]
  PROVE  SumOf(e, S) = SumOf(f, S)
<1>1. PICK g : Sums(g, f, SUBSET S) /\ SumOf(f, S) = g[S]
  BY SumIs
<1>2. PICK h : Sums(h, e, SUBSET S) /\ SumOf(e, S) = h[S]
  BY SumIs
<1>3. SameOn(f, e, S)
  BY DEF SameOn
<1>4. g[S] = h[S]
  BY <1>1, <1>2, <1>3, SumsAgree
<1> QED  BY <1>1, <1>2, <1>4

LEMMA SumPlus ==
  ASSUME NEW S, IsFiniteSet(S), NEW f, \A x \in S : f[x] \in Int, NEW a \in S
  PROVE  SumOf(f, S) = f[a] + SumOf(f, S \ {a}) /\ SumOf(f, S \ {a}) \in Int
<1> DEFINE D == S \ {a}
           c == [x \in S |-> f[x]]
<1>1. IsFiniteSet(D) /\ D \subseteq S /\ D \in SUBSET S /\ S \in SUBSET S
  BY FS_Subset
<1>2. PICK g : Sums(g, f, SUBSET S) /\ SumOf(f, S) = g[S]
  BY SumIs
<1>3. PICK h : Sums(h, f, SUBSET D) /\ SumOf(f, D) = h[D]
  BY <1>1, SumIs
<1>4. h[D] = g[D]
  <2> HIDE DEF D
  <2>1. SameOn(f, f, D)
    BY DEF SameOn
  <2> QED  BY <1>1, <1>2, <1>3, <2>1, SumsAgree
<1>5. Sums(g, c, SUBSET S)
  <2>1. \A s \in SUBSET S : s # {} => c[Pick(s)] = f[Pick(s)]
    BY PickIs
  <2> HIDE DEF c
  <2> QED  BY <1>2, <2>1 DEF Sums
<1>6. c \in [S -> Int]
  OBVIOUS
<1>7. g[S] = c[a] + g[S \ {a}] /\ g[D] \in Int
  <2> HIDE DEF c
  <2>1. TakesOut(g, c, S)
    BY <1>5, <1>6, TakeOut
  <2>2. \A s \in SUBSET S : g[s] \in Int
    BY <1>5, <1>6, SumsAreInts
  <2> QED  BY <1>1, <2>1, <2>2 DEF TakesOut
<1> QED  BY <1>2, <1>3, <1>4, <1>7
-----------------------------------------------------------------------------
(* The count of the exchanges.  Those owed by a queue were dropped by it or are  *)
(* still in it.                                                                  *)
Owed == [g \in Gens |-> Lost(g) + Len(Queued(g))]
Past(g) == 0..g
Taken == IF Place = "emit" THEN 1 ELSE 0
CountInv ==
  /\ \A g \in Gens : g > gen => Lost(g) = 0
  /\ Place = "done" => stopped /\ Queued(gen) = <<>>
  /\ Place # "failed" => Len(recorded) = Len(emitted) + Taken + SumOf(Owed, Past(gen))

LEMMA PastIs ==
  ASSUME NEW g \in Gens
  PROVE  /\ g \in Nat /\ IsFiniteSet(Past(g)) /\ Past(g) \subseteq Gens /\ g \in Past(g)
         /\ Past(g) \ {g} = 0..(g - 1)
         /\ \A h \in Gens : h \in Past(g) <=> h <= g
<1>1. g \in Nat /\ MaxResets \in Nat /\ g <= MaxResets
  BY RecorderAssumption DEF Gens
<1>2. IsFiniteSet(0..g)
  BY <1>1, FS_Interval
<1> QED  BY <1>1, <1>2 DEF Past, Gens

LEMMA OwedTypes ==
  ASSUME OrderTypes
  PROVE  /\ \A g \in Gens : /\ Lost(g) \in Nat /\ Queued(g) \in Seq(Nat)
                            /\ Owed[g] = Lost(g) + Len(Queued(g)) /\ Owed[g] \in Int
         /\ gen \in Gens /\ bufferSize \in Sizes /\ Len(recorded) \in Nat /\ Len(emitted) \in Nat
         /\ recorded \in Seq(Nat) /\ emitted \in Seq(Nat) /\ SumOf(Owed, Past(gen)) \in Int
<1>1. \A g \in Gens : queue[g]["exchanges"] \in [items : Seq(Nat), dropped : Nat]
  BY DEF OrderTypes, RecorderTypes, Kinds
<1>2. \A g \in Gens : Lost(g) \in Nat /\ Queued(g) \in Seq(Nat)
  BY <1>1 DEF Lost, Queued
<1>3. \A g \in Gens : Owed[g] = Lost(g) + Len(Queued(g)) /\ Owed[g] \in Int
  BY <1>2 DEF Owed
<1>4. /\ gen \in Gens /\ bufferSize \in Sizes /\ Len(recorded) \in Nat /\ Len(emitted) \in Nat
      /\ recorded \in Seq(Nat) /\ emitted \in Seq(Nat)
  BY DEF OrderTypes, RecorderTypes
<1>5. PICK S : S = Past(gen)
  OBVIOUS
<1>6. IsFiniteSet(S) /\ gen \in S /\ \A x \in S : Owed[x] \in Int
  BY <1>3, <1>4, <1>5, PastIs
<1>7. SumOf(Owed, S) = Owed[gen] + SumOf(Owed, S \ {gen}) /\ SumOf(Owed, S \ {gen}) \in Int
  BY <1>6, SumPlus
<1>8. SumOf(Owed, S) \in Int
  BY <1>6, <1>7
<1> QED  BY <1>2, <1>3, <1>4, <1>5, <1>8

(* A sum changes by what one of its terms changes by.                           *)
LEMMA SumMoves ==
  ASSUME NEW S, IsFiniteSet(S), NEW f, NEW e, NEW a \in S, NEW d \in Int,
         \A x \in S : f[x] \in Int, \A x \in S : e[x] = IF x = a THEN f[a] + d ELSE f[x]
  PROVE  SumOf(e, S) = SumOf(f, S) + d
<1>1. IsFiniteSet(S \ {a})
  BY FS_Subset
<1>2. SumOf(e, S \ {a}) = SumOf(f, S \ {a})
  <2>1. \A x \in S \ {a} : f[x] \in Int /\ e[x] = f[x]
    OBVIOUS
  <2> QED  BY <1>1, <2>1, SumSame
<1>3. SumOf(f, S) = f[a] + SumOf(f, S \ {a}) /\ SumOf(f, S \ {a}) \in Int
  BY SumPlus
<1>4. SumOf(e, S) = e[a] + SumOf(e, S \ {a})
  <2>1. \A x \in S : e[x] \in Int
    OBVIOUS
  <2> QED  BY <2>1, SumPlus
<1>5. e[a] = f[a] + d /\ f[a] \in Int
  OBVIOUS
<1> QED  BY <1>2, <1>3, <1>4, <1>5

(* So does the count of what the queues owe.                                     *)
LEMMA OwedMoves ==
  ASSUME OrderTypes, NEW g \in Past(gen), NEW e, NEW d \in Int,
         \A x \in Gens : e[x] = IF x = g THEN Owed[g] + d ELSE Owed[x]
  PROVE  SumOf(e, Past(gen)) = SumOf(Owed, Past(gen)) + d
<1>1. PICK S : S = Past(gen)
  OBVIOUS
<1>2. IsFiniteSet(S) /\ g \in S /\ S \subseteq Gens
  BY <1>1, PastIs, OwedTypes
<1>3. \A x \in S : Owed[x] \in Int /\ e[x] = IF x = g THEN Owed[g] + d ELSE Owed[x]
  BY <1>2, OwedTypes
<1>4. SumOf(e, S) = SumOf(Owed, S) + d
  BY <1>2, <1>3, SumMoves
<1> QED  BY <1>1, <1>4

LEMMA RecordsKeepCount ==
  ASSUME OrderInv, OrderTypes', CountInv, NEW r \in inflight, Records(r)
  PROVE  CountInv'
<1>t. OrderTypes /\ gen \in Gens /\ gen \in Nat /\ gen \in Past(gen) /\ r \in Nat
      /\ \A x \in Gens : Lost(x) \in Nat /\ Queued(x) \in Seq(Nat)
      /\ bufferSize \in Sizes /\ recorded \in Seq(Nat) /\ Len(recorded) \in Nat
      /\ Len(emitted) \in Nat /\ SumOf(Owed, Past(gen)) \in Int
  BY OwedTypes, PastIs DEF OrderInv, OrderTypes
<1>1. /\ gen' = gen /\ emitted' = emitted /\ recorded' = Append(recorded, r) /\ Place' = Place
      /\ ~stopped /\ Taken' = Taken /\ Taken \in Int
  BY DEF Records, Taken
<1>2. PICK longer : longer = Append(Queued(gen), r)
  OBVIOUS
<1>3. longer \in Seq(Nat) /\ Len(longer) = Len(Queued(gen)) + 1
  BY <1>t, <1>2
<1>4. Excess(longer) \in Nat /\ Len(Trimmed(longer)) = Len(longer) - Excess(longer)
  BY <1>t, <1>3, TrimmedIsEnd
<1>5. ASSUME NEW x \in Gens
      PROVE  Owed'[x] = IF x = gen THEN Owed[gen] + 1 ELSE Owed[x]
  <2>1. /\ Owed[x] = Lost(x) + Len(Queued(x)) /\ Owed[gen] = Lost(gen) + Len(Queued(gen))
        /\ Owed'[x] = Lost(x)' + Len(Queued(x)')
    BY <1>t DEF Owed
  <2>2. CASE x # gen
    BY <2>1, <2>2 DEF Records
  <2>3. CASE x = gen
    <3>1. Lost(x)' = Lost(x) + Excess(longer) /\ Queued(x)' = Trimmed(longer)
      BY <1>2, <2>3 DEF Records
    <3>2. PICK l \in Nat, q \in Nat, e \in Nat :
            l = Lost(x) /\ q = Len(Queued(x)) /\ e = Excess(longer)
      BY <1>t, <1>4
    <3> QED  BY <1>3, <1>4, <2>1, <2>3, <3>1, <3>2
  <2> QED  BY <2>2, <2>3
<1>6. SumOf(Owed', Past(gen)) = SumOf(Owed, Past(gen)) + 1
  <2>1. PICK e : e = Owed'
    OBVIOUS
  <2>2. \A x \in Gens : e[x] = IF x = gen THEN Owed[gen] + 1 ELSE Owed[x]
    BY <1>5, <2>1
  <2>3. OrderTypes /\ gen \in Past(gen) /\ 1 \in Int
    BY <1>t
  <2>4. SumOf(e, Past(gen)) = SumOf(Owed, Past(gen)) + 1
    BY <2>2, <2>3, OwedMoves
  <2> QED  BY <2>1, <2>4
<1>7. Len(recorded') = Len(recorded) + 1
  BY <1>t, <1>1
<1>8. \A g \in Gens : g > gen' => Lost(g)' = 0
  BY <1>t, <1>1, GensNat DEF Records, CountInv
<1>9. SumOf(Owed, Past(gen))' = SumOf(Owed, Past(gen)) + 1
  BY <1>1, <1>6
<1>10. Place' # "failed" =>
         Len(recorded') = Len(emitted') + Taken' + SumOf(Owed, Past(gen))'
  <2>1. PICK e \in Int, k \in Int, z \in Int :
          e = Len(emitted) /\ k = Taken /\ z = SumOf(Owed, Past(gen))
    BY <1>t, <1>1
  <2>2. Place # "failed" => Len(recorded) = e + k + z
    BY <2>1 DEF CountInv
  <2>3. Place' # "failed" => Len(recorded') = e + k + (z + 1)
    BY <1>1, <1>7, <2>1, <2>2
  <2>4. Len(emitted') = e /\ Taken' = k /\ SumOf(Owed, Past(gen))' = z + 1
    BY <1>1, <1>9, <2>1
  <2> QED  BY <2>3, <2>4
<1>11. Place' = "done" => stopped' /\ Queued(gen)' = <<>>
  BY <1>1 DEF CountInv
<1> QED  BY <1>8, <1>10, <1>11 DEF CountInv

LEMMA FetchKeepsCount ==
  ASSUME OrderInv, OrderTypes', CountInv, NEW g \in Gens, Fetches(g)
  PROVE  CountInv'
<1>t. OrderTypes /\ gen \in Gens /\ g \in Past(gen)
      /\ \A x \in Gens : Lost(x) \in Nat /\ Queued(x) \in Seq(Nat)
      /\ Len(recorded) \in Nat /\ Len(emitted) \in Nat /\ SumOf(Owed, Past(gen)) \in Int
  BY OwedTypes, PastIs DEF OrderInv, Fetches
<1>1. /\ gen' = gen /\ recorded' = recorded /\ emitted' = emitted
      /\ Place = "polling" /\ Place' = "emit" /\ Taken = 0 /\ Taken' = 1
  BY DEF Fetches, Taken
<1>2. ASSUME NEW x \in Gens
      PROVE  Owed'[x] = IF x = g THEN Owed[g] + (-1) ELSE Owed[x]
  <2>1. /\ Owed[x] = Lost(x) + Len(Queued(x)) /\ Owed'[x] = Lost(x)' + Len(Queued(x)')
        /\ Lost(x)' = Lost(x)
    BY DEF Owed, Fetches
  <2>2. CASE x # g
    BY <2>1, <2>2 DEF Fetches
  <2>3. CASE x = g
    <3>1. Queued(x)' = Tail(Queued(x)) /\ Queued(x) # <<>>
      BY <2>3 DEF Fetches
    <3>2. Len(Queued(x)') = Len(Queued(x)) - 1 /\ Len(Queued(x)) \in Nat /\ Lost(x) \in Nat
      BY <1>t, <3>1
    <3> QED  BY <2>1, <2>3, <3>2
  <2> QED  BY <2>2, <2>3
<1>3. SumOf(Owed', Past(gen)) = SumOf(Owed, Past(gen)) + (-1)
  BY <1>t, <1>2, OwedMoves
<1>4. \A h \in Gens : h > gen' => Lost(h)' = 0
  BY <1>1 DEF Fetches, CountInv
<1>5. SumOf(Owed, Past(gen))' = SumOf(Owed, Past(gen)) + (-1)
  BY <1>1, <1>3
<1> QED  BY <1>t, <1>1, <1>4, <1>5 DEF CountInv

LEMMA PrintKeepsCount ==
  ASSUME OrderInv, OrderTypes', CountInv, Prints
  PROVE  CountInv'
<1>t. OrderTypes /\ emitted \in Seq(Nat)
      /\ Len(recorded) \in Nat /\ Len(emitted) \in Nat /\ SumOf(Owed, Past(gen)) \in Int
  BY OwedTypes DEF OrderInv
<1>1. /\ gen' = gen /\ recorded' = recorded
      /\ Place = "emit" /\ Place' = "polling" /\ Taken = 1 /\ Taken' = 0
  BY DEF Prints, Taken
<1>2. Owed' = Owed
  BY DEF Owed, Prints
<1>3. \A g \in Gens : g > gen' => Lost(g)' = 0
  BY <1>1 DEF Prints, CountInv
<1>4. Len(emitted') = Len(emitted) + 1
  BY <1>t DEF Prints
<1>5. SumOf(Owed, Past(gen))' = SumOf(Owed, Past(gen))
  BY <1>1, <1>2
<1> QED  BY <1>t, <1>1, <1>3, <1>4, <1>5 DEF CountInv

LEMMA RestKeepsCount ==
  ASSUME OrderInv, OrderTypes', CountInv, NothingMoves
  PROVE  CountInv'
<1>t. OrderTypes /\ gen \in Gens /\ gen' \in Gens /\ gen \in Nat /\ Gens \subseteq Nat
      /\ Len(recorded) \in Nat /\ Len(emitted) \in Nat /\ SumOf(Owed, Past(gen)) \in Int
  BY OwedTypes, GensNat DEF OrderInv, OrderTypes, RecorderTypes
<1>1. /\ recorded' = recorded /\ emitted' = emitted /\ (stopped => stopped')
      /\ Place' = Place \/ Place' = "failed" \/ Drained
      /\ gen' = gen \/ gen' = gen + 1
  BY DEF NothingMoves
<1>2. \A g \in Gens : Queued(g)' = Queued(g) /\ Lost(g)' = Lost(g)
  BY DEF NothingMoves
<1>3. Owed' = Owed
  BY <1>2 DEF Owed
<1>4. \A g \in Gens : g > gen' => Lost(g)' = 0
  BY <1>t, <1>1, <1>2 DEF CountInv
(* The queue that reset() makes current has had nothing yet. *)
<1>5. ASSUME gen' = gen + 1 PROVE Lost(gen') = 0 /\ Queued(gen') = <<>>
  <2>1. gen' > gen
    BY <1>t, <1>5
  <2> QED  BY <1>t, <2>1 DEF CountInv, OrderInv, QueuesInOrder
<1>6. SumOf(Owed', Past(gen')) = SumOf(Owed, Past(gen))
  <2>1. CASE gen' = gen
    BY <1>3, <2>1
  <2>2. CASE gen' = gen + 1
    <3>1. PICK S, R : S = Past(gen') /\ R = Past(gen)
      OBVIOUS
    <3>2. IsFiniteSet(S) /\ gen' \in S /\ S \subseteq Gens
      BY <1>t, <3>1, PastIs
    <3>3. S \ {gen'} = R
      BY <1>t, <2>2, <3>1 DEF Past
    <3>4. \A x \in S : Owed[x] \in Int
      BY <1>t, <3>2, OwedTypes
    <3>5. SumOf(Owed, S) = Owed[gen'] + SumOf(Owed, R)
      BY <3>2, <3>3, <3>4, SumPlus
    <3>6. Owed[gen'] = 0
      BY <1>t, <1>5, <2>2 DEF Owed
    <3> QED  BY <1>t, <1>3, <3>1, <3>5, <3>6
  <2> QED  BY <1>1, <2>1, <2>2
<1>7. ASSUME Place' = "done" PROVE stopped' /\ Queued(gen)' = <<>>
  <2>1. Queued(gen)' = Queued(gen')
    BY <1>t, <1>2 DEF Queued
  <2>2. CASE Drained
    BY <2>1, <2>2 DEF Drained
  <2>3. CASE ~Drained
    <3>1. Place = "done" /\ stopped' /\ Queued(gen) = <<>>
      BY <1>1, <1>7, <2>3 DEF CountInv
    <3>2. CASE gen' = gen
      BY <2>1, <3>1, <3>2
    <3>3. CASE gen' = gen + 1
      BY <1>5, <2>1, <3>1, <3>3
    <3> QED  BY <1>1, <3>2, <3>3
  <2> QED  BY <2>2, <2>3
<1>8. Place' # "failed" => Taken' = Taken /\ Place # "failed"
  BY <1>1 DEF Taken, Drained
<1>9. SumOf(Owed, Past(gen))' = SumOf(Owed, Past(gen))
  BY <1>6
<1>10. Place' # "failed" =>
         Len(recorded') = Len(emitted') + Taken' + SumOf(Owed, Past(gen))'
  BY <1>1, <1>8, <1>9 DEF CountInv
<1> QED  BY <1>4, <1>7, <1>10 DEF CountInv

LEMMA InitCount == Init => CountInv
<1> SUFFICES ASSUME Init PROVE CountInv
  OBVIOUS
<1>1. /\ gen = 0 /\ recorded = <<>> /\ emitted = <<>>
      /\ \A g \in Gens : Lost(g) = 0 /\ Queued(g) = <<>>
      /\ Place = "polling" /\ Taken = 0
  BY DEF Init, Lost, Queued, Kinds, EmptyQueue, Place, Taken, Task, Idle
<1>2. OrderTypes /\ gen \in Gens
  BY InitOrder DEF OrderInv, OrderTypes, RecorderTypes
<1>3. SumOf(Owed, Past(gen)) = 0
  <2>1. PICK S : S = Past(gen)
    OBVIOUS
  <2>2. S \ {gen} = {}
    BY <1>1, <2>1 DEF Past
  <2>3. IsFiniteSet(S) /\ gen \in S /\ \A x \in S : Owed[x] \in Int
    BY <1>2, <2>1, OwedTypes, PastIs
  <2>4. Owed[gen] = 0
    BY <1>1, <1>2 DEF Owed
  <2>5. SumOf(Owed, S) = Owed[gen] + SumOf(Owed, {})
    BY <2>2, <2>3, SumPlus
  <2> QED  BY <2>1, <2>4, <2>5, SumEmpty
<1> QED  BY <1>1, <1>3 DEF CountInv

LEMMA CountShows == OrderInv /\ CountInv => EveryExchangeOnce
<1> SUFFICES ASSUME OrderInv, CountInv PROVE EveryExchangeOnce
  OBVIOUS
<1>t. OrderTypes /\ gen \in Gens /\ Lost(gen) \in Nat /\ Queued(gen) \in Seq(Nat)
      /\ Len(recorded) \in Nat /\ Len(emitted) \in Nat /\ Taken \in Nat
  BY OwedTypes DEF OrderInv, Taken
<1> DEFINE f == [g \in Gens |-> queue[g]["exchanges"].dropped + Len(Queued(g))]
<1>1. f = Owed
  BY DEF Owed, Lost
<1>2. FoldFunctionOnSet(+, 0, f, 0..(gen - 1)) = SumOf(f, 0..(gen - 1))
  BY FoldIs
<1>3. /\ SumOf(Owed, Past(gen)) = Lost(gen) + Len(Queued(gen)) + SumOf(Owed, 0..(gen - 1))
      /\ SumOf(Owed, 0..(gen - 1)) \in Int
  <2>1. PICK S, R : S = Past(gen) /\ R = 0..(gen - 1)
    OBVIOUS
  <2>2. IsFiniteSet(S) /\ gen \in S /\ S \ {gen} = R /\ \A x \in S : Owed[x] \in Int
    BY <1>t, <2>1, OwedTypes, PastIs
  <2>3. SumOf(Owed, S) = Owed[gen] + SumOf(Owed, R) /\ SumOf(Owed, R) \in Int
    BY <2>2, SumPlus
  <2> QED  BY <1>t, <2>1, <2>3 DEF Owed
<1>4. Len(emitted \o InHand) = Len(emitted) + Taken
  <2>1. emitted \in Seq(Nat) /\ InHand \in Seq(Nat) /\ Len(InHand) = Taken
    BY <1>t DEF OrderTypes, RecorderTypes, InHand, Taken, Place, Task, Kinds
  <2> QED  BY <2>1
<1>5. Task.pc # "failed" => Place # "failed"
  BY DEF Place
<1>6. Task.pc = "done" => Queued(gen) = <<>>
  BY DEF Place, CountInv
<1>7. ASSUME Task.pc # "failed"
      PROVE  Len(recorded) = Len(emitted \o InHand) + Lost(gen) + Len(Queued(gen))
                             + SumOf(f, 0..(gen - 1))
  <2>1. PICK e \in Int, k \in Int, l \in Int, q \in Int, z \in Int :
          /\ e = Len(emitted) /\ k = Taken /\ l = Lost(gen) /\ q = Len(Queued(gen))
          /\ z = SumOf(Owed, 0..(gen - 1))
    BY <1>t, <1>3
  <2>2. Len(recorded) = e + k + SumOf(Owed, Past(gen)) /\ SumOf(Owed, Past(gen)) = l + q + z
    BY <1>3, <1>5, <1>7, <2>1 DEF CountInv
  <2>3. Len(recorded) = (e + k) + l + q + z
    BY <2>2
  <2>4. Len(emitted \o InHand) = e + k /\ SumOf(f, 0..(gen - 1)) = z
    BY <1>1, <1>4, <2>1
  <2> HIDE DEF f
  <2> QED  BY <2>1, <2>3, <2>4
<1> HIDE DEF f
<1> QED  BY <1>2, <1>6, <1>7 DEF EveryExchangeOnce, Task, Lost, f

(* For every buffer size, any traffic and any number of resets: an exchange      *)
(* recorded is printed, in hand, queued, or dropped and counted, and the command *)
(* line returns with the current queue empty (cli.py:421-432).                   *)
THEOREM ExchangesAccounted == Spec => []EveryExchangeOnce
<1>1. OrderInv /\ CountInv /\ [Next]_vars => CountInv'
  <2> SUFFICES ASSUME OrderInv, CountInv, [Next]_vars PROVE CountInv'
    OBVIOUS
  <2>1. OrderTypes /\ OrderTypes'
    BY OrderTypesKept DEF OrderInv
  <2> QED
    BY <2>1, StepKinds, RecordsKeepCount, FetchKeepsCount, PrintKeepsCount, RestKeepsCount
<1> QED  BY <1>1, InitOrder, NextOrder, InitCount, CountShows, PTL DEF Spec
=============================================================================
