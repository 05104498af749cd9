--------------------------- MODULE ConnectionPool ---------------------------
(***************************************************************************)
(* The keep-alive pool of localstub's HTTP client                          *)
(* (src/localstub/http/clients/pool.py) together with the tasks that run   *)
(* AsyncioClient.send (src/localstub/http/clients/asyncio.py) on it.       *)
(*                                                                         *)
(* asyncio runs one task at a time and switches only at an await that      *)
(* suspends, so an action is the code from one suspension point to the     *)
(* next.  The pool's lock is held across a suspension in one place only,   *)
(* the probe of an idle connection: every other critical section is one    *)
(* action guarded by LockFree.  Cancellation (connect_timeout, or the      *)
(* caller's own) is delivered at a suspension point and is an action.      *)
(* The order in which asyncio serves the lock's queue is left open.        *)
(***************************************************************************)
EXTENDS Integers, Sequences, FiniteSets

CONSTANTS
  Tasks,          \* callers of send()
  Origins,        \* (scheme, host, port) triples
  Conns,          \* identities of upstream transports
  None,           \* no task, no connection, no timeout
  MaxPerOrigin,   \* max_connections_per_origin
  MaxIdle,        \* max_idle_connections, over all origins
  IdleTimeout,    \* idle_timeout
  MaxNow,         \* bound: the clock's last value
  MaxRequests     \* bound: calls of send() by each task

ASSUME PoolAssumption ==
  /\ IsFiniteSet(Tasks)
  /\ None \notin Tasks \cup Conns \cup Origins
  /\ MaxPerOrigin \in Nat \ {0}
  /\ MaxIdle \in Nat
  /\ IdleTimeout \in Nat \cup {None}
  /\ MaxNow \in Nat
  /\ MaxRequests \in Nat

VARIABLES
  pc,           \* where each task is in send()
  origin,       \* the origin each task asked for
  conn,         \* the transport in each task's hands
  keep,         \* the value of reusable at the task's release
  requests,     \* calls of send() made so far
  lock,         \* the task that holds the pool's lock across a suspension
  registered,   \* the keys of _origins
  idle,         \* _OriginState.idle, oldest first
  openCount,    \* _OriginState.open_count
  waiterCount,  \* _OriginState.waiter_count
  closed,       \* _closed
  drains,       \* transports whose drain task runs
  live,         \* transports opened and not closed
  since,        \* PooledConnection.idle_since
  input,        \* what reached a connection that is not in use
  closer,       \* where aclose() is
  pending,      \* the drains aclose() still waits for
  now           \* the pool's clock

taskVars  == <<pc, origin, conn, keep, requests>>
stateVars == <<registered, idle, openCount, waiterCount>>
wireVars  == <<drains, live, since, input>>
closeVars == <<closed, closer, pending>>
vars == <<taskVars, lock, stateVars, wireVars, closeVars, now>>

\* The suspension points of a task.  A task in SlotPcs has a slot of its
\* origin's open_count to its name.
SlotPcs == {"probing", "dialing", "dialed", "dial_failed", "holding",
            "releasing"}
WaitPcs == {"waiting", "woken", "unwaiting"}
Pcs     == SlotPcs \cup WaitPcs \cup {"none", "locking"}

SlotUsers(o) == {t \in Tasks : pc[t] \in SlotPcs /\ origin[t] = o}
Waiters(o)   == {t \in Tasks : pc[t] \in WaitPcs /\ origin[t] = o}
IdleConns(o) == {idle[o][i] : i \in 1..Len(idle[o])}
AllIdle      == UNION {IdleConns(o) : o \in Origins}
InHand       == {conn[t] : t \in Tasks} \ {None}
IdleCount    == Cardinality(UNION {{o} \X (1..Len(idle[o])) : o \in Origins})

LockFree == lock = None

Init ==
  /\ pc = [t \in Tasks |-> "none"]
  /\ origin = [t \in Tasks |-> None]
  /\ conn = [t \in Tasks |-> None]
  /\ keep = [t \in Tasks |-> FALSE]
  /\ requests = [t \in Tasks |-> 0]
  /\ lock = None
  /\ registered = {}
  /\ idle = [o \in Origins |-> <<>>]
  /\ openCount = [o \in Origins |-> 0]
  /\ waiterCount = [o \in Origins |-> 0]
  /\ closed = FALSE
  /\ drains = {}
  /\ live = {}
  /\ since = [c \in Conns |-> 0]
  /\ input = [c \in Conns |-> "clean"]
  /\ closer = "open"
  /\ pending = {}
  /\ now = 0
-----------------------------------------------------------------------------
(* Pieces of the critical sections.                                        *)

\* condition.notify_all() on every origin of os: each waiter of those
\* origins goes to reacquire the lock.
NotifyAll(os) ==
  [t \in Tasks |->
     IF pc[t] = "waiting" /\ origin[t] \in os THEN "woken" ELSE pc[t]]

\* Mutant: waiters do not keep an origin.
RetireEagerly(reg, os, open, waiters) == reg \ {o \in os : open[o] = 0}

\* _retire_origin for every origin of os, with the counters of the end of
\* the critical section.
Retire(reg, os, open, waiters) ==
  reg \ {o \in os : open[o] = 0 /\ waiters[o] = 0}

\* _close_writer for every transport of cs.
CloseWriters(cs) ==
  /\ live' = live \ cs
  /\ drains' = drains \cup cs

\* The number of entries at the old end of an idle stack that
\* _prune_expired closes: it stops at the first survivor.
ExpiredPrefix(o, k) ==
  /\ k <= Len(idle[o])
  /\ IdleTimeout = None => k = 0
  /\ IdleTimeout # None =>
       /\ \A i \in 1..k : now - since[idle[o][i]] > IdleTimeout
       /\ k < Len(idle[o]) => now - since[idle[o][k + 1]] <= IdleTimeout

Expired == {cut \in [Origins -> 0..Cardinality(Conns)] :
              \A o \in Origins : ExpiredPrefix(o, cut[o])}

\* Mutant: the probe suspends without polling the socket first.
StaleUnpolled(c) == FALSE

\* The two synchronous answers of the probe: is_closed() and the poll of
\* the socket and of the reader's buffer.
Stale(c) == input[c] = "pending"

\* Mutant: the cap is compared with <=.
UnderCapOrAtIt(count) == count <= MaxPerOrigin

\* acquire's test for a slot an origin has left.
UnderCap(count) == count < MaxPerOrigin

\* _checkout_idle and what acquire does with its answer, up to the next
\* suspension.  The stack, the counters and the registered origins are
\* given as the code above the call left them; gone are the transports it
\* closed and touched the origins it notified.
Checkout(t, o, stack, open, waiters, reg, gone, touched) ==
  \E k \in 0..Len(stack[o]) :
    /\ k > 0 => ~Stale(stack[o][k])
    /\ \A i \in (k + 1)..Len(stack[o]) : Stale(stack[o][i])
    /\ LET s     == stack[o]
           n     == Len(s) - k
           woken == NotifyAll(touched \cup {p \in {o} : n > 0})
       IN
       /\ CloseWriters(gone \cup {s[i] : i \in (k + 1)..Len(s)})
       /\ registered' = reg
       /\ \/ \* an idle connection: probe it, holding the lock
             /\ k > 0
             /\ idle' = [stack EXCEPT ![o] = SubSeq(s, 1, k - 1)]
             /\ openCount' = [open EXCEPT ![o] = @ - n]
             /\ waiterCount' = waiters
             /\ pc' = [woken EXCEPT ![t] = "probing"]
             /\ conn' = [conn EXCEPT ![t] = s[k]]
             /\ lock' = t
          \/ \* a free slot: reserve it and dial without the lock
             /\ k = 0
             /\ UnderCap(open[o] - n)
             /\ idle' = [stack EXCEPT ![o] = <<>>]
             /\ openCount' = [open EXCEPT ![o] = (@ - n) + 1]
             /\ waiterCount' = waiters
             /\ pc' = [woken EXCEPT ![t] = "dialing"]
             /\ conn' = [conn EXCEPT ![t] = None]
             /\ lock' = None
          \/ \* neither: wait on the origin's condition
             /\ k = 0
             /\ ~UnderCap(open[o] - n)
             /\ idle' = [stack EXCEPT ![o] = <<>>]
             /\ openCount' = [open EXCEPT ![o] = @ - n]
             /\ waiterCount' = [waiters EXCEPT ![o] = @ + 1]
             /\ pc' = [woken EXCEPT ![t] = "waiting"]
             /\ conn' = [conn EXCEPT ![t] = None]
             /\ lock' = None

\* The body of acquire's loop: prune every origin, then check out.
AcquireLoop(t, o, waiters) ==
  \E cut \in Expired :
    LET stack == [p \in Origins |->
                    SubSeq(idle[p], cut[p] + 1, Len(idle[p]))]
        open  == [p \in Origins |-> openCount[p] - cut[p]]
        gone  == UNION {{idle[p][i] : i \in 1..cut[p]} : p \in Origins}
        reg   == IF IdleTimeout = None THEN registered \cup {o}
                 ELSE Retire(registered \cup {o}, Origins \ {o}, open, waiters)
    IN Checkout(t, o, stack, open, waiters, reg, gone,
                {p \in Origins : cut[p] > 0})

\* A step of t that changes nothing but the point where t is suspended.
Move(t, from, to) ==
  /\ pc[t] \in from
  /\ pc' = [pc EXCEPT ![t] = to]
  /\ UNCHANGED <<origin, conn, keep, requests, lock, stateVars, wireVars,
                 closeVars, now>>
-----------------------------------------------------------------------------
(* acquire()                                                               *)

\* send() is called: acquire queues for the lock.
Start(t, o) ==
  /\ pc[t] = "none"
  /\ requests[t] < MaxRequests
  /\ pc' = [pc EXCEPT ![t] = "locking"]
  /\ origin' = [origin EXCEPT ![t] = o]
  /\ requests' = [requests EXCEPT ![t] = @ + 1]
  /\ UNCHANGED <<conn, keep, lock, stateVars, wireVars, closeVars, now>>

\* The lock is granted to a new acquirer.
Enter(t) ==
  /\ pc[t] = "locking"
  /\ LockFree
  /\ ~closed
  /\ AcquireLoop(t, origin[t], waiterCount)
  /\ UNCHANGED <<origin, keep, requests, since, input, closeVars, now>>

\* ... and finds the pool closed.
EnterClosed(t) ==
  /\ LockFree
  /\ closed
  /\ Move(t, {"locking"}, "none")

CancelLocking(t) == Move(t, {"locking"}, "none")

\* The suspended half of has_idle_bytes found nothing: hand it out.
ProbeClean(t) ==
  /\ pc[t] = "probing"
  /\ pc' = [pc EXCEPT ![t] = "holding"]
  /\ lock' = None
  /\ UNCHANGED <<origin, conn, keep, requests, stateVars, wireVars,
                 closeVars, now>>

\* ... or bytes or EOF came while it was suspended: close this one and go on
\* down the stack, still holding the lock.
ProbeStale(t) ==
  /\ pc[t] = "probing"
  /\ input[conn[t]] = "raced"
  /\ Checkout(t, origin[t], idle, [openCount EXCEPT ![origin[t]] = @ - 1],
              waiterCount, registered, {conn[t]}, {origin[t]})
  /\ UNCHANGED <<origin, keep, requests, since, input, closeVars, now>>

\* Mutant: without the except clause of _checkout_idle.
CancelProbeStranding(t) ==
  /\ pc[t] = "probing"
  /\ pc' = [pc EXCEPT ![t] = "none"]
  /\ conn' = [conn EXCEPT ![t] = None]
  /\ lock' = None
  /\ UNCHANGED <<origin, keep, requests, stateVars, wireVars, closeVars, now>>

\* Cancelled inside the probe: the popped connection is closed.
CancelProbe(t) ==
  /\ pc[t] = "probing"
  /\ openCount' = [openCount EXCEPT ![origin[t]] = @ - 1]
  /\ registered' = Retire(registered, {origin[t]}, openCount', waiterCount)
  /\ CloseWriters({conn[t]})
  /\ pc' = [NotifyAll({origin[t]}) EXCEPT ![t] = "none"]
  /\ conn' = [conn EXCEPT ![t] = None]
  /\ lock' = None
  /\ UNCHANGED <<origin, keep, requests, idle, waiterCount, since, input,
                 closeVars, now>>

\* A notified waiter has the lock again: it goes round the loop.
Resume(t) ==
  LET waiters == [waiterCount EXCEPT ![origin[t]] = @ - 1] IN
  /\ pc[t] = "woken"
  /\ LockFree
  /\ ~closed
  /\ AcquireLoop(t, origin[t], waiters)
  /\ UNCHANGED <<origin, keep, requests, since, input, closeVars, now>>

LeaveCondition(t) ==
  /\ LockFree
  /\ waiterCount' = [waiterCount EXCEPT ![origin[t]] = @ - 1]
  /\ registered' = Retire(registered, {origin[t]}, openCount, waiterCount')
  /\ pc' = [pc EXCEPT ![t] = "none"]
  /\ UNCHANGED <<origin, conn, keep, requests, lock, idle, openCount,
                 wireVars, closeVars, now>>

ResumeClosed(t) ==
  /\ pc[t] = "woken"
  /\ closed
  /\ LeaveCondition(t)

\* A cancelled waiter reacquires the lock before the cancellation
\* propagates out of condition.wait().
CancelWait(t) == Move(t, {"waiting", "woken"}, "unwaiting")

Unwait(t) ==
  /\ pc[t] = "unwaiting"
  /\ LeaveCondition(t)
-----------------------------------------------------------------------------
(* _dial()                                                                 *)

Fresh(c) == c \notin live \cup drains

\* The opener returned; whole says whether the parser could be made for it.
Opened(t, c, whole) ==
  /\ pc[t] = "dialing"
  /\ Fresh(c)
  /\ live' = live \cup {c}
  /\ input' = [input EXCEPT ![c] = "clean"]
  /\ conn' = [conn EXCEPT ![t] = c]
  /\ pc' = [pc EXCEPT ![t] = IF whole THEN "dialed" ELSE "dial_failed"]
  /\ UNCHANGED <<origin, keep, requests, lock, stateVars, drains, since,
                 closeVars, now>>

\* Mutant: the failure is swallowed and acquire returns no connection.
OpenFailsSilently(t) == Move(t, {"dialing"}, "dialed")

\* The opener raised, or was cancelled.
OpenFails(t) == Move(t, {"dialing"}, "dial_failed")

\* Mutant: _closed is not read again after the dial.
DialIgnoresClose(t) == LockFree /\ Move(t, {"dialed"}, "holding")

\* The second critical section of _dial.
DialSucceeds(t) == LockFree /\ ~closed /\ Move(t, {"dialed"}, "holding")

\* Mutant: the slot comes back, and no waiter is told.
DropSlotSilently(t) ==
  /\ LockFree
  /\ openCount' = [openCount EXCEPT ![origin[t]] = @ - 1]
  /\ registered' = Retire(registered, {origin[t]}, openCount', waiterCount)
  /\ CloseWriters({conn[t]} \ {None})
  /\ pc' = [pc EXCEPT ![t] = "none"]
  /\ conn' = [conn EXCEPT ![t] = None]
  /\ UNCHANGED <<origin, keep, requests, lock, idle, waiterCount, since,
                 input, closeVars, now>>

\* Give up the task's slot, and its transport if it has one.
DropSlot(t) ==
  /\ LockFree
  /\ openCount' = [openCount EXCEPT ![origin[t]] = @ - 1]
  /\ registered' = Retire(registered, {origin[t]}, openCount', waiterCount)
  /\ CloseWriters({conn[t]} \ {None})
  /\ pc' = [NotifyAll({origin[t]}) EXCEPT ![t] = "none"]
  /\ conn' = [conn EXCEPT ![t] = None]
  /\ UNCHANGED <<origin, keep, requests, lock, idle, waiterCount, since,
                 input, closeVars, now>>

DialFindsPoolClosed(t) ==
  /\ pc[t] = "dialed"
  /\ closed
  /\ DropSlot(t)

\* Cancelled while it queues for the lock with an open connection.
CancelDialed(t) == Move(t, {"dialed"}, "dial_failed")

\* Mutant: a dial that ends without a connection keeps its slot.
LeakSlot(t) ==
  /\ pc[t] = "dial_failed"
  /\ pc' = [pc EXCEPT ![t] = "none"]
  /\ conn' = [conn EXCEPT ![t] = None]
  /\ UNCHANGED <<origin, keep, requests, lock, stateVars, wireVars,
                 closeVars, now>>

\* The except clause of _dial; cancellation is deferred while it queues
\* for the lock.
CleanUpDial(t) ==
  /\ pc[t] = "dial_failed"
  /\ DropSlot(t)
-----------------------------------------------------------------------------
(* The exchange and release()                                              *)

\* send()'s try block ends, however it does; release queues for the lock,
\* deferring cancellation.
Finish(t) ==
  /\ pc[t] = "holding"
  /\ pc' = [pc EXCEPT ![t] = "releasing"]
  /\ \E reusable \in BOOLEAN : keep' = [keep EXCEPT ![t] = reusable]
  /\ UNCHANGED <<origin, conn, requests, lock, stateVars, wireVars,
                 closeVars, now>>

\* Mutant: _closed is not read at the release.
MayKeepAfterClose(t) == keep[t] /\ MaxIdle > 0

\* The connection goes back to the idle stack rather than being closed.
MayKeep(t) == keep[t] /\ ~closed /\ MaxIdle > 0

ReleaseClosing(t) ==
  /\ pc[t] = "releasing"
  /\ ~MayKeep(t)
  /\ DropSlot(t)

Keep(t, stack, open, reg, gone, touched) ==
  LET o == origin[t] IN
  /\ idle' = [stack EXCEPT ![o] = Append(@, conn[t])]
  /\ since' = [since EXCEPT ![conn[t]] = now]
  /\ input' = [input EXCEPT ![conn[t]] = "clean"]
  /\ openCount' = open
  /\ registered' = reg
  /\ CloseWriters(gone)
  /\ pc' = [NotifyAll(touched \cup {o}) EXCEPT ![t] = "none"]
  /\ conn' = [conn EXCEPT ![t] = None]
  /\ UNCHANGED <<origin, keep, requests, lock, waiterCount, closeVars, now>>

ReleaseKeeping(t) ==
  /\ pc[t] = "releasing"
  /\ LockFree
  /\ MayKeep(t)
  /\ IdleCount < MaxIdle
  /\ Keep(t, idle, openCount, registered, {}, {})

\* Mutant: max for min.
NewestStack(v) ==
  /\ idle[v] # <<>>
  /\ \A o \in Origins : idle[o] # <<>> =>
       since[idle[v][1]] >= since[idle[o][1]]

\* The origin whose oldest idle connection _evict_oldest_idle closes.
OldestStack(v) ==
  /\ idle[v] # <<>>
  /\ \A o \in Origins : idle[o] # <<>> =>
       since[idle[v][1]] <= since[idle[o][1]]

ReleaseEvicting(t) ==
  /\ pc[t] = "releasing"
  /\ LockFree
  /\ MayKeep(t)
  /\ IdleCount >= MaxIdle
  /\ \E v \in Origins :
       LET open == [openCount EXCEPT ![v] = @ - 1] IN
       /\ OldestStack(v)
       /\ Keep(t, [idle EXCEPT ![v] = Tail(@)], open,
               Retire(registered, {v} \ {origin[t]}, open, waiterCount),
               {idle[v][1]}, {v})
-----------------------------------------------------------------------------
(* aclose() and the drain tasks                                            *)

CallClose ==
  /\ closer = "open"
  /\ closer' = "locking"
  /\ UNCHANGED <<taskVars, lock, stateVars, wireVars, closed, pending, now>>

\* A cancellation is deferred until the pool is marked closed.
CancelClose ==
  /\ closer = "locking"
  /\ closer' = "locking_cancelled"
  /\ UNCHANGED <<taskVars, lock, stateVars, wireVars, closed, pending, now>>

\* Mutant: blocked acquirers are not woken.
CloseLeavingWaiters ==
  /\ closer \in {"locking", "locking_cancelled"}
  /\ LockFree
  /\ closed' = TRUE
  /\ idle' = [o \in Origins |-> <<>>]
  /\ openCount' = [o \in Origins |-> openCount[o] - Len(idle[o])]
  /\ registered' = Retire(registered, Origins, openCount', waiterCount)
  /\ CloseWriters(AllIdle)
  /\ pending' = IF closer = "locking" THEN drains' ELSE {}
  /\ closer' = IF closer = "locking" THEN "draining" ELSE "done"
  /\ UNCHANGED <<pc, origin, conn, keep, requests, lock, waiterCount, since,
                 input, now>>

\* The critical section of aclose().
Close ==
  /\ closer \in {"locking", "locking_cancelled"}
  /\ LockFree
  /\ closed' = TRUE
  /\ idle' = [o \in Origins |-> <<>>]
  /\ openCount' = [o \in Origins |-> openCount[o] - Len(idle[o])]
  /\ registered' = Retire(registered, Origins, openCount', waiterCount)
  /\ CloseWriters(AllIdle)
  /\ pc' = NotifyAll(Origins)
  /\ pending' = IF closer = "locking" THEN drains' ELSE {}
  /\ closer' = IF closer = "locking" THEN "draining" ELSE "done"
  /\ UNCHANGED <<origin, conn, keep, requests, lock, waiterCount, since,
                 input, now>>

Drained(c) ==
  /\ c \in drains
  /\ drains' = drains \ {c}
  /\ pending' = pending \ {c}
  /\ UNCHANGED <<taskVars, lock, stateVars, live, since, input, closed,
                 closer, now>>

CloseReturns ==
  /\ closer = "draining"
  /\ pending = {}
  /\ closer' = "done"
  /\ UNCHANGED <<taskVars, lock, stateVars, wireVars, closed, pending, now>>

CancelDraining ==
  /\ closer = "draining"
  /\ pending # {}
  /\ closer' = "done"
  /\ pending' = {}
  /\ UNCHANGED <<taskVars, lock, stateVars, wireVars, closed, now>>
-----------------------------------------------------------------------------
(* The environment                                                         *)

\* Bytes or EOF reach a connection that is idle or being probed.
PeerSpeaks(c) ==
  /\ input[c] = "clean"
  /\ \/ /\ c \in AllIdle
        /\ input' = [input EXCEPT ![c] = "pending"]
     \/ /\ \E t \in Tasks : pc[t] = "probing" /\ conn[t] = c
        /\ input' = [input EXCEPT ![c] = "raced"]
  /\ UNCHANGED <<taskVars, lock, stateVars, drains, live, since, closeVars,
                 now>>

Tick ==
  /\ now < MaxNow
  /\ now' = now + 1
  /\ UNCHANGED <<taskVars, lock, stateVars, wireVars, closeVars>>

\* Every caller has made its last call and nothing is left to do.
Finished ==
  /\ \A t \in Tasks : pc[t] = "none" /\ requests[t] = MaxRequests
  /\ closer = "done"
  /\ drains = {}
  /\ UNCHANGED vars
-----------------------------------------------------------------------------
\* What a task does once its turn comes, as opposed to what is done to it.
TaskStep(t) ==
  \/ Enter(t) \/ EnterClosed(t)
  \/ ProbeClean(t) \/ ProbeStale(t)
  \/ Resume(t) \/ ResumeClosed(t) \/ Unwait(t)
  \/ \E c \in Conns, whole \in BOOLEAN : Opened(t, c, whole)
  \/ OpenFails(t) \/ DialSucceeds(t) \/ DialFindsPoolClosed(t)
  \/ CleanUpDial(t)
  \/ Finish(t) \/ ReleaseClosing(t) \/ ReleaseKeeping(t) \/ ReleaseEvicting(t)

Cancel(t) ==
  CancelLocking(t) \/ CancelProbe(t) \/ CancelWait(t) \/ CancelDialed(t)

Next ==
  \/ \E t \in Tasks : TaskStep(t) \/ Cancel(t)
  \/ \E t \in Tasks, o \in Origins : Start(t, o)
  \/ CallClose \/ CancelClose \/ Close \/ CloseReturns \/ CancelDraining
  \/ \E c \in Conns : Drained(c) \/ PeerSpeaks(c)
  \/ Tick
  \/ Finished

Spec == Init /\ [][Next]_vars

\* The event loop runs every ready task, dials end (the opener succeeds or
\* fails, connect_timeout at the latest) and exchanges end (read_timeout).
\* Nothing bounds the close of a transport: no fairness for Drained.
Fairness ==
  /\ \A t \in Tasks : WF_vars(TaskStep(t))
  /\ WF_vars(Close) /\ WF_vars(CloseReturns)

FairSpec == Spec /\ Fairness
-----------------------------------------------------------------------------
TypeOK ==
  /\ pc \in [Tasks -> Pcs]
  /\ origin \in [Tasks -> Origins \cup {None}]
  /\ conn \in [Tasks -> Conns \cup {None}]
  /\ keep \in [Tasks -> BOOLEAN]
  /\ requests \in [Tasks -> 0..MaxRequests]
  /\ lock \in Tasks \cup {None}
  /\ registered \subseteq Origins
  /\ idle \in [Origins -> Seq(Conns)]
  /\ openCount \in [Origins -> Int]
  /\ waiterCount \in [Origins -> Int]
  /\ closed \in BOOLEAN
  /\ drains \subseteq Conns
  /\ live \subseteq Conns
  /\ since \in [Conns -> 0..MaxNow]
  /\ input \in [Conns -> {"clean", "pending", "raced"}]
  /\ closer \in {"open", "locking", "locking_cancelled", "draining", "done"}
  /\ pending \subseteq Conns
  /\ now \in 0..MaxNow

\* The counters that gate dialing and the retirement of an origin say how
\* many slots and waiters there are, through every cancellation and failed
\* dial: a leaked slot would shrink the origin's capacity for good, a slot
\* freed twice would let it grow.
SlotAccounting ==
  \A o \in Origins :
    /\ openCount[o] = Len(idle[o]) + Cardinality(SlotUsers(o))
    /\ waiterCount[o] = Cardinality(Waiters(o))

\* No origin has more open connections than max_connections_per_origin.
CapRespected ==
  \A o \in Origins :
    Cardinality((IdleConns(o) \cup {conn[t] : t \in SlotUsers(o)}) \ {None})
      <= MaxPerOrigin

\* Every open transport is idle in one place of one stack or in the hands of
\* one task, and both hold open transports only: nothing is handed out
\* twice, reused after its close, or left open with nobody to close it.
ExclusiveTransports ==
  /\ live = AllIdle \cup InHand
  /\ AllIdle \cap InHand = {}
  /\ \A s, t \in Tasks : conn[s] = conn[t] /\ conn[s] # None => s = t
  /\ \A o, p \in Origins :
       \A i \in 1..Len(idle[o]), j \in 1..Len(idle[p]) :
         idle[o][i] = idle[p][j] => o = p /\ i = j

\* An origin's bookkeeping exists exactly as long as a connection, a dial
\* or a waiter needs it.  Were it retired earlier, release() would raise
\* KeyError and two states of one origin could each fill the cap; later,
\* the dictionary would grow with every origin ever used.
RegisteredWhileUsed ==
  registered = {o \in Origins : openCount[o] > 0 \/ waiterCount[o] > 0}

\* A task sleeps on an origin's condition only while it has nothing to do
\* there: the pool is open, the origin at its cap, and no connection idle.
NoLostWakeup ==
  \A t \in Tasks : pc[t] = "waiting" =>
    /\ ~closed
    /\ openCount[origin[t]] >= MaxPerOrigin
    /\ idle[origin[t]] = <<>>

\* A connection evicted to make room for a fresher one is the oldest idle
\* connection of the whole pool.
EvictsOldest ==
  [][\A t \in Tasks : ReleaseEvicting(t) =>
       \A gone \in AllIdle \ AllIdle', kept \in AllIdle \cap AllIdle' :
         since[gone] <= since[kept]]_vars

\* Nobody starts an exchange on a connection that has had input from the
\* server since before its probe began.
NoDesyncedReuse ==
  \A t \in Tasks : pc[t] \in {"probing", "holding"} =>
    input[conn[t]] # "pending"

\* Where each transport is, as the pool's callers may know it.
Place ==
  LET holder(c) == CHOOSE t \in Tasks : conn[t] = c
      home(c)   == CHOOSE o \in Origins : c \in IdleConns(o)
  IN [c \in Conns |->
        IF c \in AllIdle THEN
          [mode |-> "idle", origin |-> home(c), caller |-> None]
        ELSE IF c \notin InHand THEN
          [mode |-> "closed", origin |-> None, caller |-> None]
        ELSE IF pc[holder(c)] \in {"holding", "releasing"} THEN
          [mode |-> "lent", origin |-> origin[holder(c)], caller |-> holder(c)]
        ELSE
          [mode |-> "transit", origin |-> origin[holder(c)], caller |-> None]]

Promise == INSTANCE SlotPool WITH
  Callers <- Tasks, place <- Place, accepting <- ~closed

\* The pool keeps the promise of SlotPool: only an open pool lends, to one
\* caller at a time, within both limits, and a closed one keeps nothing.
KeepsPromise == Promise!Spec

\* Every send() ends: no caller is stuck in the pool, whatever the others
\* do, are cancelled in or fail at.
RequestsEnd == \A t \in Tasks : pc[t] # "none" ~> pc[t] = "none"

\* aclose() returns unless a transport it waits for never finishes closing:
\* it holds back for neither the lock nor a caller (pool.py:254-284).  And
\* every connection of a closed pool gets closed, by aclose() or by the
\* caller that has it, whatever the peers do.
ClosePoolEnds ==
  /\ closer = "locking" ~> closer = "done" \/ \E c \in Conns : [](c \in pending)
  /\ closed ~> live = {} /\ registered = {}
=============================================================================
