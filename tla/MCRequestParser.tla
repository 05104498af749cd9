--------------------------- MODULE MCRequestParser ---------------------------
(* Chunked bodies of one and two chunks, ended, cut short, malformed or refused, *)
(* with and without an upgrade, and a length body before a pipelined request.    *)
EXTENDS RequestParser
Chunked(up) == [framing |-> "chunked", length |-> 0, upgrade |-> up]
Bare == [framing |-> "none", length |-> 0, upgrade |-> FALSE]
Refusing == [Bare EXCEPT !.framing = "refused"]
Long(n) == [framing |-> "length", length |-> n, upgrade |-> FALSE]
Body == <<"2", "nl", "d", "d", "nl", "1", "nl", "d", "nl">>
Ending == <<"0", "nl", "nl">>
MCScenarios ==
  {[bytes |-> <<"h", "H">> \o Body \o Ending \o <<"h", "H">>, heads |-> <<Chunked(FALSE), Bare>>],
   [bytes |-> <<"H", "3", "nl", "d", "d", "d", "nl", "x", "h">>, heads |-> <<Chunked(FALSE)>>],
   [bytes |-> <<"H">> \o Body \o <<"1", "e", "nl", "d">>, heads |-> <<Chunked(FALSE)>>],
   [bytes |-> <<"H">> \o Body \o <<"x", "H">>, heads |-> <<Chunked(FALSE)>>],
   [bytes |-> <<"H", "1", "nl", "d", "x">>, heads |-> <<Chunked(TRUE)>>],
   [bytes |-> <<"H", "1", "nl", "d", "nl", "1", "e", "nl", "d", "nl">> \o Ending, heads |-> <<Chunked(FALSE)>>],
   [bytes |-> <<"H", "1", "e", "nl", "d", "nl">> \o Ending, heads |-> <<Chunked(TRUE)>>],
   [bytes |-> <<"h", "H", "d", "d", "d", "h", "H", "d", "H">>, heads |-> <<Long(3), Long(1), Bare>>],
   [bytes |-> <<"h", "H", "h", "x", "H">>, heads |-> <<Bare, Bare>>],
   [bytes |-> <<"h", "H", "d">>, heads |-> <<Refusing>>]}
MCReads == {2, 20}
MCLimits == {None, 0, 1, 2, 3}
=============================================================================
