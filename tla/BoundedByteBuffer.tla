-------------------------- MODULE BoundedByteBuffer --------------------------
(* recording.py, BoundedByteBuffer: the newest bytes of a recorded stream, kept *)
(* as whole chunks whose eviction is deferred.  A byte is its position in the   *)
(* stream, so a byte lost, repeated or out of place shows in the contents.      *)
EXTENDS Integers, SequencesExt

CONSTANTS None, Limits, CoalesceSizes, MaxWrite, MaxBytes

ASSUME BufferAssumption == /\ None \notin Nat
                           /\ Limits \subseteq (Nat \ {0}) \cup {None}
                           /\ CoalesceSizes \subseteq Nat \ {0}

VARIABLES maxsize, coalesceSize,   \* the constructor's arguments
          chunks, headOffset,      \* _chunks, _head_offset
          pending, size, dropped,  \* _pending, _size, _dropped
          written                  \* bytes the stream has carried (bounds the run)

vars == <<maxsize, coalesceSize, chunks, headOffset, pending, size, dropped, written>>

Init == /\ maxsize \in Limits /\ coalesceSize \in CoalesceSizes
        /\ chunks = <<>> /\ headOffset = 0 /\ pending = <<>>
        /\ size = 0 /\ dropped = 0 /\ written = 0

Total(cs) == Len(FlattenSeq(cs))
Drop(s, n) == SubSeq(s, n + 1, Len(s))

\* _overflow(): held bytes past maxsize
Overflow(held) == IF maxsize = None \/ held <= maxsize THEN 0 ELSE held - maxsize

\* _evict_excess() on buffer b: whole chunks, then a part of the head or of pending
Evict(b) ==
  LET excess == Overflow(b.size)
      Freed(k) == IF k = 0 THEN 0 ELSE Total(SubSeq(b.chunks, 1, k)) - b.head
      k == Max({i \in 0..Len(b.chunks) : Freed(i) <= excess})
      rest == excess - Freed(k)
      all == k = Len(b.chunks)
  IN IF excess = 0 THEN b
     ELSE [chunks |-> Drop(b.chunks, k),
           head |-> IF all THEN 0 ELSE IF k = 0 THEN b.head + rest ELSE rest,
           pending |-> IF all THEN Drop(b.pending, rest) ELSE b.pending,
           size |-> b.size - excess,
           dropped |-> b.dropped + excess]

Buffer == [chunks |-> chunks, head |-> headOffset, pending |-> pending,
           size |-> size, dropped |-> dropped]

\* _seal_pending(): the pending bytes become a chunk
Seal(b) == IF b.pending = <<>> THEN b
           ELSE [b EXCEPT !.chunks = Append(@, b.pending), !.pending = <<>>]

Becomes(b) == /\ chunks' = b.chunks /\ headOffset' = b.head /\ pending' = b.pending
              /\ size' = b.size /\ dropped' = b.dropped
              /\ UNCHANGED <<maxsize, coalesceSize>>

\* A write that fills the buffer by itself replaces everything.
Replaced(b, data) ==
  [chunks |-> <<Drop(data, Len(data) - maxsize)>>, head |-> 0, pending |-> <<>>,
   size |-> maxsize, dropped |-> b.dropped + b.size + Len(data) - maxsize]

\* A write of coalesce_size bytes or more is a chunk of its own.
Chunked(b, data) ==
  Evict([Seal([b EXCEPT !.size = @ + Len(data)]) EXCEPT !.chunks = Append(@, data)])

\* Mutant: a sealed chunk evicts nothing.
CoalescedUnevicted(b, data) ==
  LET joined == [b EXCEPT !.size = @ + Len(data), !.pending = @ \o data]
  IN IF Len(joined.pending) >= coalesceSize THEN Seal(joined) ELSE joined

\* A small write joins the pending bytes, sealed once there are enough of them.
Coalesced(b, data) ==
  LET joined == [b EXCEPT !.size = @ + Len(data), !.pending = @ \o data]
  IN IF Len(joined.pending) >= coalesceSize THEN Evict(Seal(joined)) ELSE joined

Extended(b, data) ==
  CASE maxsize # None /\ Len(data) >= maxsize -> Replaced(b, data)
    [] (maxsize = None \/ Len(data) < maxsize) /\ Len(data) >= coalesceSize -> Chunked(b, data)
    [] OTHER -> Coalesced(b, data)

Writes == {[i \in 1..n |-> written + i] : n \in 1..MaxWrite}

Extend == \E data \in Writes :
  /\ written + Len(data) <= MaxBytes
  /\ Becomes(Extended(Buffer, data))
  /\ written' = written + Len(data)

\* Mutant: the offset into the head chunk survives the chunk.
ClearKeepingOffset ==
  /\ Becomes([chunks |-> <<>>, head |-> headOffset, pending |-> <<>>, size |-> 0,
              dropped |-> dropped + Overflow(size)])
  /\ UNCHANGED written

Clear == Becomes([chunks |-> <<>>, head |-> 0, pending |-> <<>>, size |-> 0,
                  dropped |-> dropped + Overflow(size)])
         /\ UNCHANGED written

\* __bytes__(): evicts, then cuts the head chunk where its offset says
Sliced(b) == IF b.head = 0 THEN b
             ELSE [b EXCEPT !.chunks[1] = Drop(@, b.head), !.head = 0]
Read == Becomes(Sliced(Evict(Buffer))) /\ UNCHANGED written

Next == Extend \/ Clear \/ Read
Spec == Init /\ [][Next]_vars
-----------------------------------------------------------------------------
\* What bytes() would return, and what len() and dropped return, in this state
Contents == LET b == Sliced(Evict(Buffer)) IN FlattenSeq(Append(b.chunks, b.pending))
Length == size - Overflow(size)
Dropped == dropped + Overflow(size)

Promise == INSTANCE RetainedTail
          WITH limit <- maxsize, tail <- Contents, length <- Length, dropped <- Dropped

\* Each write is a write there, each clear a clear, and a read nothing.
Alike == /\ Extend => \E data \in Writes : Promise!Extend(data)
         /\ Clear => Promise!Clear
         /\ Read => UNCHANGED Promise!vars

(* However writes, reads and clears alternate, the contents, len() and dropped  *)
(* are those of a plain tail of the stream: deferring the eviction, the offset  *)
(* into the head chunk and the pending bytes never show (recording.py:39-168).  *)
KeepsTail == Promise!Init /\ [][Promise!Next(Writes)]_(Promise!vars) /\ [][Alike]_vars

(* The memory promise of the docstring (recording.py:50-56): fewer than         *)
(* coalesce_size bytes are held beyond maxsize, evicted head bytes are fewer     *)
(* than one chunk, and two neighbouring chunks hold coalesce_size bytes.         *)
HoldsLittleMore ==
  /\ maxsize # None => size < maxsize + coalesceSize
  /\ Total(chunks) - headOffset + Len(pending) = size
  /\ chunks # <<>> => headOffset < Len(chunks[1])
  /\ \A i \in 3..Len(chunks) :
       Len(chunks[i - 1]) + Len(chunks[i]) >= coalesceSize
=============================================================================
