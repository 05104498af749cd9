------------------------------ MODULE SlotPool ------------------------------
(***************************************************************************)
(* What the pool promises its callers, without tasks, locks or counters: a *)
(* transport is closed, idle, in transit inside the pool, or lent to one   *)
(* caller.  It is lent only while the pool is open; at most MaxPerOrigin   *)
(* transports of an origin are open and at most MaxIdle are idle; a shut   *)
(* pool keeps nothing idle.                                                *)
(***************************************************************************)
EXTENDS Integers, FiniteSets

CONSTANTS Callers, Origins, Conns, None, MaxPerOrigin, MaxIdle

VARIABLES place, accepting

vars == <<place, accepting>>

Closed      == [mode |-> "closed", origin |-> None, caller |-> None]
Idle(o)     == [mode |-> "idle", origin |-> o, caller |-> None]
Transit(o)  == [mode |-> "transit", origin |-> o, caller |-> None]
Lent(o, t)  == [mode |-> "lent", origin |-> o, caller |-> t]

OpenOf(o) == {c \in Conns : place[c].origin = o}
IdleSet   == {c \in Conns : place[c].mode = "idle"}

Init ==
  /\ place = [c \in Conns |-> Closed]
  /\ accepting = TRUE

\* The pool dials: a new transport of an origin that has room.
Open(o, c) ==
  /\ place[c] = Closed
  /\ Cardinality(OpenOf(o)) < MaxPerOrigin
  /\ place' = [place EXCEPT ![c] = Transit(o)]
  /\ UNCHANGED accepting

\* The pool picks one idle transport to examine, or none, and closes others.
Withdraw(dropped, picked) ==
  /\ dropped \cap picked = {}
  /\ dropped \cup picked # {}
  /\ \A c \in dropped : place[c].mode \in {"idle", "transit"}
  /\ \A c \in picked : place[c].mode = "idle"
  /\ place' = [c \in Conns |->
                 IF c \in dropped THEN Closed
                 ELSE IF c \in picked THEN Transit(place[c].origin)
                 ELSE place[c]]
  /\ UNCHANGED accepting

\* A caller gets a transport of the origin it asked for.
Lend(c, t) ==
  /\ accepting
  /\ place[c].mode = "transit"
  /\ place' = [place EXCEPT ![c] = Lent(@.origin, t)]
  /\ UNCHANGED accepting

\* The caller's transport is closed,
Discard(c, t) ==
  /\ place[c].mode = "lent"
  /\ place[c].caller = t
  /\ place' = [place EXCEPT ![c] = Closed]
  /\ UNCHANGED accepting

\* or goes back to its origin, at the expense of evicted ones.
PutBack(c, t, evicted) ==
  /\ accepting
  /\ place[c].mode = "lent"
  /\ place[c].caller = t
  /\ evicted \subseteq IdleSet
  /\ Cardinality(IdleSet \ evicted) < MaxIdle
  /\ place' = [d \in Conns |->
                 IF d = c THEN Idle(place[c].origin)
                 ELSE IF d \in evicted THEN Closed
                 ELSE place[d]]
  /\ UNCHANGED accepting

Shut ==
  /\ accepting
  /\ accepting' = FALSE
  /\ place' = [c \in Conns |-> IF c \in IdleSet THEN Closed ELSE place[c]]

Next ==
  \/ \E o \in Origins, c \in Conns : Open(o, c)
  \/ \E dropped \in SUBSET Conns, c \in Conns :
       Withdraw(dropped, {}) \/ Withdraw(dropped, {c})
  \/ \E c \in Conns, t \in Callers :
       \/ Lend(c, t)
       \/ Discard(c, t)
       \/ \E evicted \in SUBSET Conns : PutBack(c, t, evicted)
  \/ Shut

Spec == Init /\ [][Next]_vars
=============================================================================
