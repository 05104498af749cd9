---------------------------- MODULE RequestParser ----------------------------
(* http/request.py, AsyncRequestParser, with the chunk scanner of framing.py and *)
(* the read-ahead of stream.py: the requests of one stream, read in pieces of    *)
(* any size.  A byte is its position in the stream; CRLF and the blank line that *)
(* ends a head are one symbol each.                                              *)
EXTENDS Integers, SequencesExt

CONSTANTS None,
          Scenarios,   \* streams: [bytes : a sequence of symbols, heads : one per request]
          Limits,      \* values of max_body_bytes and of max_body_kept
          MaxReads     \* values of max_read

(* Symbols: "h" in a head and "H" its end; a digit is a chunk size, "nl" a CRLF, *)
(* "d" a byte of data, "e" a chunk extension that httptools refuses though the   *)
(* scanner accepts it, "x" a byte no rule allows.                                *)
SizeOf == [s \in {"0", "1", "2", "3"} |-> CASE s = "0" -> 0 [] s = "1" -> 1 [] s = "2" -> 2 [] s = "3" -> 3]
Digits == DOMAIN SizeOf
Symbols == Digits \cup {"h", "H", "nl", "d", "e", "x"}

Heads == [framing : {"none", "length", "chunked", "refused"}, length : Nat, upgrade : BOOLEAN]

ASSUME ParserAssumption ==
  /\ MaxReads \subseteq Nat \ {0} /\ Limits \subseteq Nat \cup {None} /\ None \notin Nat
  /\ Scenarios \subseteq [bytes : Seq(Symbols), heads : Seq(Heads) \ {<<>>}]

VARIABLES stream,       \* the scenario
          unread, rest, \* bytes given back to the reader; bytes still to arrive
          buffer,       \* read and not yet attributed to the request
          lost,         \* read, and held by a call that was cancelled
          sink,         \* connection_wire: every byte attributed, to any request
          parser,       \* the state of AsyncRequestParser
          maxRead, budget, kept,  \* max_read, max_body_bytes, max_body_kept
          pc,           \* "head", "between", "length", "chunked", "over"
          outcomes      \* one for each request read on this stream

vars == <<stream, unread, rest, buffer, lost, sink, parser, maxRead, budget, kept, pc, outcomes>>

Sym(i) == stream.bytes[i]
Prefix(s, n) == SubSeq(s, 1, n)
From(s, n) == SubSeq(s, n + 1, Len(s))
At(buf, i) == IF i < Len(buf) THEN Sym(buf[i + 1]) ELSE "none"  \* i from 0

NewParser == [wire |-> <<>>, cut |-> FALSE, left |-> 0, fed |-> 0, counted |-> 0,
              body |-> <<>>, size |-> 0, heard |-> <<>>,
              parsed |-> FALSE, complete |-> FALSE]

Init == /\ stream \in Scenarios
        /\ unread = <<>> /\ rest = [i \in 1..Len(stream.bytes) |-> i]
        /\ buffer = <<>> /\ lost = <<>> /\ sink = <<>> /\ parser = NewParser
        /\ maxRead \in MaxReads /\ budget \in Limits /\ kept \in Limits
        /\ pc = "head" /\ outcomes = <<>>

Heading == stream.heads[Len(outcomes) + 1]    \* what the headers of this request say
-----------------------------------------------------------------------------
\* Framing: where the payloads of a chunked buffer are (scan_chunk_payloads)

Scan(payloads, partial, end, resume, left, bad) ==
  [payloads |-> payloads, partial |-> partial, end |-> end, resume |-> resume,
   left |-> left, bad |-> bad]

\* _scan_chunk_size_line: the chunk's size and where its data starts
SizeLine(buf, i) ==
  LET Line(n) == [is |-> "line", size |-> SizeOf[At(buf, i)], start |-> i + n]
      Bad(n) == [is |-> "bad", size |-> 0, start |-> i + n]
      incomplete == [is |-> "incomplete", size |-> 0, start |-> 0]
      then == At(buf, i + 1)
  IN CASE At(buf, i) = "none" -> incomplete
       [] At(buf, i) \notin Digits \cup {"none"} -> Bad(1)
       [] At(buf, i) \in Digits /\ then = "none" -> incomplete
       [] At(buf, i) \in Digits /\ then = "nl" -> Line(2)
       [] At(buf, i) \in Digits /\ then = "e" -> IF At(buf, i + 2) = "nl" THEN Line(3) ELSE incomplete
       [] At(buf, i) \in Digits /\ then \notin {"none", "nl", "e"} -> Bad(2)

\* One chunk whose line began at i; next is the scan from the boundary behind it.
Chunk(buf, i, size, start, next) ==
  LET end == start + size
  IN CASE size = 0 /\ At(buf, start) = "nl" -> Scan(<<>>, None, start + 1, start + 1, 0, None)
       [] size = 0 /\ At(buf, start) # "nl" -> Scan(<<>>, None, None, i, 0, None)
       [] size > 0 /\ end + 1 > Len(buf) ->
            Scan(<<>>, <<start, Min({end, Len(buf)})>>, None, i, Max({end - Len(buf), 0}), None)
       [] size > 0 /\ end + 1 <= Len(buf) /\ At(buf, end) # "nl" ->
            Scan(<<>>, None, None, i, 0, end + 1)
       [] OTHER -> [next EXCEPT !.payloads = <<<<start, end>>>> \o @]

ScanChunks(buf, left) ==
  LET Boundary[i \in 0..Len(buf)] ==
        LET line == SizeLine(buf, i)
        IN IF line.is = "line"
           THEN Chunk(buf, i, line.size, line.start, Boundary[line.start + line.size + 1])
           ELSE Scan(<<>>, None, None, i, 0, IF line.is = "bad" THEN line.start ELSE None)
  IN IF left > 0 THEN Chunk(buf, 0, left, 0, Boundary[left + 1]) ELSE Boundary[0]

\* The spans of data in a scan, the partial chunk's last
Spans(scan) == IF scan.partial = None THEN scan.payloads ELSE Append(scan.payloads, scan.partial)
Sizes(spans) == FoldSeq(LAMBDA span, n : n + span[2] - span[1], 0, spans)
Payload(buf, scan) == FlattenSeq([k \in DOMAIN Spans(scan) |->
                        SubSeq(buf, Spans(scan)[k][1] + 1, Spans(scan)[k][2])])

\* _chunk_limit_offset: where a number of payload bytes ends on the wire
LimitOffset(scan, allowed) ==
  LET Before(k) == Sizes(Prefix(scan.payloads, k - 1))
      reached == {k \in DOMAIN scan.payloads : Before(k + 1) >= allowed}
      k == Min(reached)
      more == k < Len(scan.payloads) \/ scan.partial # None
  IN IF allowed = 0 THEN IF Spans(scan) # <<>> THEN 0 ELSE None
     ELSE IF reached # {}
     THEN IF Before(k + 1) > allowed THEN scan.payloads[k][1] + allowed - Before(k)
          ELSE IF more THEN scan.payloads[k][2] + 1 ELSE None
     ELSE IF scan.partial # None /\ Sizes(Spans(scan)) >= allowed
     THEN scan.partial[1] + allowed - Sizes(scan.payloads)
     ELSE None
-----------------------------------------------------------------------------
\* Attribution of bytes to the request

\* keep_body: every payload byte counts, those within max_body_kept are kept
Keep(p, data) ==
  LET room == IF kept = None THEN Len(data) ELSE Max({kept - p.size, 0})
  IN [p EXCEPT !.size = @ + Len(data), !.body = @ \o Prefix(data, Min({room, Len(data)}))]

\* _extend_wire, _cut_wire: the wire keeps n of these bytes; once cut it keeps none
Attribute(p, data, n) ==
  LET keep == IF p.cut THEN 0 ELSE IF n = None THEN Len(data) ELSE Min({n, Len(data)})
  IN [p EXCEPT !.wire = @ \o Prefix(data, keep), !.cut = @ \/ keep < Len(data)]

\* _chunk_wire_keep: None unless one of the delivered payload bytes is past the limit
WireKeep(p, data, delivered) ==
  IF kept = None \/ p.size + delivered <= kept THEN None
  ELSE LimitOffset(ScanChunks(data, p.left), Max({kept - p.size, 0}))

\* Mutant: a size line whose data has not come is fed again with it.
FeedTwice(p, buf, n) == IF Heading.upgrade THEN p ELSE [p EXCEPT !.heard = @ \o Prefix(buf, n)]

\* httptools is fed buf up to n, never the same bytes twice.
Feed(p, buf, n) == IF Heading.upgrade THEN p
                   ELSE [p EXCEPT !.heard = @ \o From(Prefix(buf, n), p.fed)]

\* n bytes of a chunked buffer, accepted by the parser, are the request's.
Deliver(p, buf, n) ==
  LET data == Prefix(buf, n)
      payload == Payload(data, ScanChunks(data, p.left))
  IN Keep(Attribute(p, data, WireKeep(p, data, Len(payload))), payload)

\* Bytes the scanner accepts and httptools refuses; after an upgrade it is not fed.
Refused(data) == {i \in DOMAIN data : Sym(data[i]) = "e" /\ ~Heading.upgrade}

\* What a parse call reports, or a caller finds in a snapshot() after cancelling it
Outcome(p, stop, upto, received) == [p |-> p, stop |-> stop, upto |-> upto, received |-> received]

(* A parse call returns: n bytes of buf are attributed, the rest is given back,  *)
(* ahead of what the reader holds (unread_data).                                 *)
Returns(p, buf, n, stop, held) ==
  /\ sink' = sink \o Prefix(buf, n)
  /\ unread' = From(buf, n) \o held
  /\ buffer' = <<>> /\ parser' = p /\ pc' = "over"
  /\ outcomes' = Append(outcomes, Outcome(p, stop, Len(sink'), Len(sink) + Len(buf)))

\* _body_parse_error: fed up to guess, httptools refused; the error ends at its bad byte
BodyParseError(p, buf, guess, held) ==
  LET bad == Min(Refused(Prefix(buf, guess)))
  IN Returns(Deliver(Feed(p, buf, guess), buf, bad), buf, bad, "parse_error", held)

\* _finish_chunked_prefix: the body ends, or is left, n bytes into the buffer
FinishPrefix(p, buf, n, stop, complete, held) ==
  IF Refused(Prefix(buf, n)) # {} THEN BodyParseError(p, buf, n, held)
  ELSE Returns([Deliver(Feed(p, buf, n), buf, n) EXCEPT !.complete = complete], buf, n, stop, held)

\* _chunk_scan_error: a bad byte, which is fed too, unless the budget ends before it
ScanError(p, buf, bad, held) ==
  LET valid == ScanChunks(Prefix(buf, bad - 1), p.left)
      left == budget - p.counted
      limit == IF budget = None THEN None
               ELSE IF LimitOffset(valid, left) = None /\ Sizes(valid.payloads) = left
               THEN valid.resume ELSE LimitOffset(valid, left)
      accepted == Prefix(buf, Min({bad} \cup Refused(Prefix(buf, bad))) - 1)
      payload == Payload(accepted, ScanChunks(accepted, p.left))
      keep == WireKeep(p, Prefix(buf, bad - 1), Len(payload))
      q == Keep(Attribute(Feed(p, buf, bad), Prefix(buf, bad), keep), payload)
  IN IF limit # None THEN FinishPrefix(p, buf, limit, "complete", FALSE, held)
     ELSE Returns(q, buf, bad, "parse_error", held)


(* _chunk_delivery: whole chunks, and the data of a partial one; a size line     *)
(* waits for its first data byte but the parser checks it now.                   *)
Delivery(scan, n) ==
  LET whole == [length |-> scan.resume, feed |-> scan.resume, left |-> 0,
                payload |-> Sizes(scan.payloads)]
  IN IF scan.partial = None \/ scan.left = 0 THEN whole
     ELSE IF scan.partial[2] > scan.partial[1]
     THEN [length |-> n, feed |-> n, left |-> scan.left, payload |-> Sizes(Spans(scan))]
     ELSE [whole EXCEPT !.feed = n]

\* One round of _parse_chunked_body, up to its next read
ChunkRound(p, buf, held) ==
  LET scan == ScanChunks(buf, p.left)
      limit == IF budget = None THEN None ELSE LimitOffset(scan, budget - p.counted)
      d == Delivery(scan, Len(buf))
  IN IF scan.bad # None THEN ScanError(p, buf, scan.bad, held)
     ELSE IF limit # None THEN FinishPrefix(p, buf, limit, "complete", FALSE, held)
     ELSE IF scan.end # None THEN FinishPrefix(p, buf, scan.end, "complete", TRUE, held)
     ELSE IF Refused(Prefix(buf, d.feed)) # {} THEN BodyParseError(p, buf, d.feed, held)
     ELSE /\ parser' = IF d.feed = 0 THEN p
                       ELSE [Deliver(Feed(p, buf, d.feed), buf, d.length) EXCEPT
                               !.left = d.left, !.fed = d.feed - d.length, !.counted = @ + d.payload]
          /\ sink' = sink \o Prefix(buf, d.length) /\ buffer' = From(buf, d.length)
          /\ unread' = held /\ pc' = "chunked" /\ UNCHANGED outcomes

\* _deliver_length_body: bytes of a body whose length is known
DeliverLength(p, data) ==
  Keep(Attribute(p, data, IF kept = None THEN None ELSE Max({kept - p.size, 0})), data)

Target == IF budget = None THEN Heading.length ELSE Min({budget, Heading.length})

\* One piece of _parse_content_length_body; bytes past the target are given back.
LengthRound(p, buf, held) ==
  LET n == Min({Len(buf), Target - p.size})
      q == [DeliverLength(p, Prefix(buf, n)) EXCEPT !.complete = p.size + n = Heading.length]
  IN IF q.size = Target THEN Returns(q, buf, n, "complete", held)
     ELSE /\ parser' = q /\ sink' = sink \o buf /\ buffer' = <<>>
          /\ unread' = held /\ pc' = "length" /\ UNCHANGED outcomes

\* No body is declared, or the request is a CONNECT: the head ends the message.
CompleteAtHead == Heading.framing = "none"

\* One round of parse_headers; httptools refuses "x" at once, some heads at their end.
HeadRound(p, buf, held) ==
  LET ends == {i \in DOMAIN buf : Sym(buf[i]) = "H"}
      bad == {i \in DOMAIN buf : Sym(buf[i]) = "x" /\ \A j \in ends : i < j}
      end == Min(ends)
      q == [p EXCEPT !.wire = Prefix(buf, end), !.parsed = TRUE]
  IN IF bad # {}
     THEN Returns([p EXCEPT !.wire = Prefix(buf, Min(bad))], buf, Min(bad), "parse_error", held)
     ELSE IF ends = {}
     THEN buffer' = buf /\ unread' = held /\ UNCHANGED <<sink, parser, pc, outcomes>>
     ELSE IF Heading.framing = "refused" THEN Returns(q, buf, end, "parse_error", held)
     ELSE /\ parser' = [q EXCEPT !.complete = CompleteAtHead]
          /\ sink' = sink \o Prefix(buf, end) /\ buffer' = From(buf, end)
          /\ unread' = held /\ pc' = "between" /\ UNCHANGED outcomes
-----------------------------------------------------------------------------
setting == <<stream, maxRead, budget, kept>>
fixed == <<setting, lost>>

(* stream.read(): what was given back comes first, up to max bytes of it; the    *)
(* stream itself returns any number, even more than it was asked for.            *)
Reads(max) ==
  IF unread # <<>>
  THEN LET n == Min({max, Len(unread)})
       IN {[data |-> Prefix(unread, n), held |-> From(unread, n), rest |-> rest]}
  ELSE {[data |-> Prefix(rest, n), held |-> <<>>, rest |-> From(rest, n)] :
          n \in 1..Min({maxRead, Len(rest)})}

ReadHead == \E r \in Reads(maxRead) :
  /\ pc = "head" /\ HeadRound(parser, buffer \o r.data, r.held)
  /\ rest' = r.rest /\ UNCHANGED fixed

ReadChunked == \E r \in Reads(maxRead) :
  /\ pc = "chunked" /\ ChunkRound(parser, buffer \o r.data, r.held)
  /\ rest' = r.rest /\ UNCHANGED fixed

ReadLength ==
  /\ pc = "length"
  /\ \E r \in Reads(Min({maxRead, Target - parser.size})) :
       LengthRound(parser, r.data, r.held) /\ rest' = r.rest
  /\ UNCHANGED fixed

\* continue_parse_body, after the caller has seen the headers
Continue ==
  /\ pc = "between"
  /\ CASE parser.complete \/ budget = 0 -> Returns(parser, buffer, 0, "complete", unread)
       [] ~parser.complete /\ budget # 0 /\ Heading.framing = "chunked" ->
            ChunkRound(parser, buffer, unread)
       [] OTHER -> LengthRound(parser, buffer, unread)
  /\ UNCHANGED <<fixed, rest>>

\* A read finds the end of the stream, wherever that is, or raises.
StreamEnds == \E stop \in {"eof", "read_error"} :
  /\ unread = <<>> /\ (stop = "eof" => rest = <<>>)
  /\ \/ pc = "head" /\ Returns([parser EXCEPT !.wire = buffer], buffer, Len(buffer), stop, <<>>)
     \/ pc = "length" /\ Returns(parser, <<>>, 0, stop, <<>>)
     \/ pc = "chunked" /\ FinishPrefix(parser, buffer, Len(buffer), stop, FALSE, <<>>)
  /\ UNCHANGED <<fixed, rest>>

(* The caller is cancelled: a chunked body is finished as at the end of the      *)
(* stream, and snapshot() describes it; what parse_headers() has read, and what  *)
(* it returned to a caller that has not continued yet, is lost with their frames.*)
Cancel ==
  /\ \/ pc = "chunked" /\ FinishPrefix(parser, buffer, Len(buffer), "cancelled", FALSE, unread)
     \/ pc = "length" /\ Returns(parser, <<>>, 0, "cancelled", unread)
     \/ /\ pc \in {"head", "between"}
        /\ pc' = "over" /\ buffer' = <<>>
        /\ outcomes' = Append(outcomes, Outcome(parser, "cancelled", Len(sink), Len(sink)))
        /\ UNCHANGED <<unread, sink, parser>>
  /\ lost' = IF pc \in {"head", "between"} THEN buffer ELSE <<>>
  /\ UNCHANGED <<setting, rest>>

\* The next request on the stream, with a parser of its own
NextRequest ==
  /\ pc = "over" /\ parser.complete /\ Len(outcomes) < Len(stream.heads)
  /\ outcomes[Len(outcomes)].stop = "complete"
  /\ pc' = "head" /\ parser' = NewParser
  /\ UNCHANGED <<fixed, unread, rest, buffer, sink, outcomes>>

Next == ReadHead \/ ReadChunked \/ ReadLength \/ Continue \/ StreamEnds \/ Cancel \/ NextRequest
Spec == Init /\ [][Next]_vars
-----------------------------------------------------------------------------
(* Every byte is in one place and in stream order: attributed to a request, held *)
(* by the parser, given back, or still to come; and httptools is fed each byte   *)
(* of a chunked body at most once, on the error paths too (request.py:1174-1175, *)
(* 1346, 1390-1391, stream.py:41-104).  The one exception are the bytes held by  *)
(* a call that is cancelled before it has begun a body (request.py:745-752).     *)
LostToCancel == lost # <<>> => /\ buffer = <<>> /\ Last(outcomes).stop = "cancelled"
                               /\ Last(outcomes).p.size = 0 /\ Last(outcomes).p.heard = <<>>
EveryByteOnce ==
  /\ sink \o lost \o buffer \o unread \o rest = [i \in 1..Len(stream.bytes) |-> i]
  /\ LostToCancel
  /\ \A i \in 1..(Len(parser.heard) - 1) : parser.heard[i + 1] = parser.heard[i] + 1

Interval(a, b) == [i \in 1..(b - a) |-> a + i]
Positions(a, b, syms) == {i \in (a + 1)..b : Sym(i) \in syms}

=============================================================================
