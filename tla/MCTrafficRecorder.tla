-------------------------- MODULE MCTrafficRecorder --------------------------
(* Buffers that hold one item or two; the exchange of request 2 has no response. *)
EXTENDS TrafficRecorder
MCReaders == {"requests"}
MCSizes == {1, 2}
=============================================================================
