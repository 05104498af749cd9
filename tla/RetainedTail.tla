---------------------------- MODULE RetainedTail ----------------------------
(* What a bounded byte buffer promises: it is the newest bytes of a stream,    *)
(* at most `limit` of them, with the number of bytes it had to let go.          *)
EXTENDS Integers, Sequences

CONSTANT None
VARIABLES limit, tail, length, dropped

vars == <<limit, tail, length, dropped>>

Newest(s) == IF limit = None \/ Len(s) <= limit THEN s
             ELSE SubSeq(s, Len(s) - limit + 1, Len(s))

Init == tail = <<>> /\ length = 0 /\ dropped = 0

Extend(data) ==
  /\ tail' = Newest(tail \o data)
  /\ length' = Len(tail')
  /\ dropped' = dropped + Len(tail) + Len(data) - Len(tail')
  /\ UNCHANGED limit

Clear == tail' = <<>> /\ length' = 0 /\ UNCHANGED <<limit, dropped>>

Next(Writes) == Clear \/ \E data \in Writes : Extend(data)
=============================================================================
