----------------------- MODULE ConnectionPoolProofs -----------------------
(***************************************************************************)
(* Theorems about ConnectionPool for every number of tasks, origins and    *)
(* connections and every value of the limits.                              *)
(***************************************************************************)
EXTENDS ConnectionPool, TLAPS, FiniteSetTheorems, SequenceTheorems

\* A task's suspension point fixes whether it has a connection and whether
\* it has named an origin.
HandsOK ==
  \A t \in Tasks :
    /\ pc[t] \in {"probing", "dialed", "holding", "releasing"}
         => conn[t] \in Conns
    /\ pc[t] \notin SlotPcs \/ pc[t] = "dialing" => conn[t] = None
    /\ pc[t] # "none" => origin[t] \in Origins

\* The lock is held across a suspension by the probing task alone.
LockOK == \A t \in Tasks : lock = t <=> pc[t] = "probing"

\* Type correctness needs both: release pushes what the task holds, and a
\* critical section must not run under a probe.
TypeInv == TypeOK /\ HandsOK /\ LockOK

LEMMA SlicesAreSequences ==
  ASSUME NEW S, NEW s \in Seq(S), NEW m \in 1..(Len(s) + 1),
         NEW n \in (m - 1)..Len(s)
  PROVE  /\ SubSeq(s, m, n) \in Seq(S)
         /\ Len(SubSeq(s, m, n)) = (n - m) + 1
         /\ \A i \in 1..((n - m) + 1) : SubSeq(s, m, n)[i] = s[m + i - 1]
<1>1. \A i \in m..n : s[i] \in S
  OBVIOUS
<1>2. m \in Int /\ n \in Int
  OBVIOUS
<1>3. /\ SubSeq(s, m, n) \in Seq(S)
      /\ Len(SubSeq(s, m, n)) = IF m <= n THEN n - m + 1 ELSE 0
      /\ \A i \in 1..(n - m + 1) : SubSeq(s, m, n)[i] = s[m + i - 1]
  BY <1>1, <1>2, SubSeqProperties
<1> QED
  BY <1>2, <1>3

-----------------------------------------------------------------------------
(* Type correctness.                                                       *)

\* What an action needs to preserve the facts about tasks: it moves t, and
\* may wake others.
OnlyWakes(t) ==
  \A u \in Tasks \ {t} :
    /\ pc'[u] = pc[u] \/ (pc[u] = "waiting" /\ pc'[u] = "woken")
    /\ origin'[u] = origin[u]
    /\ conn'[u] = conn[u]

LEMMA NotifyWakes ==
  ASSUME TypeOK, NEW t \in Tasks, NEW os, NEW to \in Pcs
  PROVE  /\ [NotifyAll(os) EXCEPT ![t] = to] \in [Tasks -> Pcs]
         /\ [NotifyAll(os) EXCEPT ![t] = to][t] = to
         /\ \A u \in Tasks \ {t} :
              \/ [NotifyAll(os) EXCEPT ![t] = to][u] = pc[u]
              \/ /\ pc[u] = "waiting"
                 /\ [NotifyAll(os) EXCEPT ![t] = to][u] = "woken"
BY DEF TypeOK, NotifyAll, Pcs, WaitPcs

\* A checkout, whatever the code before it closed and counted.
LEMMA CheckoutType ==
  ASSUME PoolAssumption, TypeInv,
         NEW t \in Tasks, NEW o \in Origins, origin[t] = o, pc[t] # "none",
         NEW stack \in [Origins -> Seq(Conns)],
         NEW open \in [Origins -> Int], NEW waiters \in [Origins -> Int],
         NEW reg \in SUBSET Origins, NEW gone \in SUBSET Conns, NEW touched,
         lock = None \/ lock = t,
         Checkout(t, o, stack, open, waiters, reg, gone, touched),
         UNCHANGED <<origin, keep, requests, since, input, closeVars, now>>
  PROVE  TypeInv' /\ OnlyWakes(t)
<1>1. PICK k \in 0..Len(stack[o]) :
        LET s     == stack[o]
            n     == Len(s) - k
            woken == NotifyAll(touched \cup {p \in {o} : n > 0})
        IN
        /\ CloseWriters(gone \cup {s[i] : i \in (k + 1)..Len(s)})
        /\ registered' = reg
        /\ \/ /\ k > 0
              /\ idle' = [stack EXCEPT ![o] = SubSeq(s, 1, k - 1)]
              /\ openCount' = [open EXCEPT ![o] = @ - n]
              /\ waiterCount' = waiters
              /\ pc' = [woken EXCEPT ![t] = "probing"]
              /\ conn' = [conn EXCEPT ![t] = s[k]]
              /\ lock' = t
           \/ /\ idle' = [stack EXCEPT ![o] = <<>>]
              /\ openCount' = [open EXCEPT ![o] = (@ - n) + 1]
              /\ waiterCount' = waiters
              /\ pc' = [woken EXCEPT ![t] = "dialing"]
              /\ conn' = [conn EXCEPT ![t] = None]
              /\ lock' = None
           \/ /\ idle' = [stack EXCEPT ![o] = <<>>]
              /\ openCount' = [open EXCEPT ![o] = @ - n]
              /\ waiterCount' = [waiters EXCEPT ![o] = @ + 1]
              /\ pc' = [woken EXCEPT ![t] = "waiting"]
              /\ conn' = [conn EXCEPT ![t] = None]
              /\ lock' = None
  BY DEF Checkout
<1> DEFINE s     == stack[o]
           n     == Len(s) - k
           os    == touched \cup {p \in {o} : n > 0}
           woken == NotifyAll(os)
<1>2. s \in Seq(Conns) /\ Len(s) \in Nat /\ n \in Nat
  OBVIOUS
<1>3. {s[i] : i \in (k + 1)..Len(s)} \in SUBSET Conns
  BY <1>2
<1>4. live' \subseteq Conns /\ drains' \subseteq Conns
  BY <1>1, <1>3 DEF CloseWriters, TypeInv, TypeOK
<1>5. k > 0 => s[k] \in Conns
  BY <1>2
<1>6. PICK to \in {"probing", "dialing", "waiting"} :
        /\ pc' = [woken EXCEPT ![t] = to]
        /\ IF to = "probing"
           THEN lock' = t /\ \E c \in Conns : conn' = [conn EXCEPT ![t] = c]
           ELSE lock' = None /\ conn' = [conn EXCEPT ![t] = None]
  BY <1>1, <1>5
<1>7. /\ pc' \in [Tasks -> Pcs]
      /\ pc'[t] = to
      /\ \A u \in Tasks \ {t} :
           pc'[u] = pc[u] \/ (pc[u] = "waiting" /\ pc'[u] = "woken")
  <2>1. to \in Pcs
    BY DEF Pcs, SlotPcs, WaitPcs
  <2> HIDE DEF os
  <2> QED
    BY <1>6, <2>1, NotifyWakes DEF TypeInv
<1>8. idle' \in [Origins -> Seq(Conns)]
  <2>1. k > 0 => SubSeq(s, 1, k - 1) \in Seq(Conns)
    BY <1>2, SlicesAreSequences
  <2>2. <<>> \in Seq(Conns)
    OBVIOUS
  <2>3. \E x \in Seq(Conns) : idle' = [stack EXCEPT ![o] = x]
    <3>1. CASE k > 0 /\ idle' = [stack EXCEPT ![o] = SubSeq(s, 1, k - 1)]
      BY <2>1, <3>1
    <3>2. CASE idle' = [stack EXCEPT ![o] = <<>>]
      BY <2>2, <3>2
    <3> QED
      BY <1>1, <3>1, <3>2
  <2> QED
    BY <2>3
<1>9. openCount' \in [Origins -> Int] /\ waiterCount' \in [Origins -> Int]
  BY <1>1, <1>2
<1>10. conn' \in [Tasks -> Conns \cup {None}]
  BY <1>6 DEF TypeInv, TypeOK
<1>11. OnlyWakes(t)
  BY <1>6, <1>7 DEF OnlyWakes, TypeInv, TypeOK
<1>12. TypeOK'
  BY <1>1, <1>4, <1>6, <1>7, <1>8, <1>9, <1>10
  DEF TypeInv, TypeOK, closeVars
<1>13. IF to = "probing" THEN conn'[t] \in Conns ELSE conn'[t] = None
  BY <1>6 DEF TypeInv, TypeOK
<1>14. HandsOK'
  <2>1. origin'[t] \in Origins
    OBVIOUS
  <2>2. ASSUME NEW u \in Tasks \ {t}
        PROVE  /\ pc'[u] \in {"probing", "dialed", "holding", "releasing"}
                    => conn'[u] \in Conns
               /\ pc'[u] \notin SlotPcs \/ pc'[u] = "dialing"
                    => conn'[u] = None
               /\ pc'[u] # "none" => origin'[u] \in Origins
    BY <1>11 DEF OnlyWakes, TypeInv, HandsOK, SlotPcs
  <2> QED
    BY <1>7, <1>13, <2>1, <2>2 DEF HandsOK, SlotPcs
<1>15. LockOK'
  <2>1. \A u \in Tasks \ {t} : pc'[u] # "probing"
    BY <1>7 DEF TypeInv, LockOK, PoolAssumption
  <2> QED
    BY <1>6, <1>7, <2>1 DEF LockOK, PoolAssumption
<1> QED
  BY <1>11, <1>12, <1>14, <1>15 DEF TypeInv

\* What acquire's loop hands to the checkout after pruning.
LEMMA PruneType ==
  ASSUME PoolAssumption, TypeInv, NEW cut \in Expired,
         NEW stack, NEW open, NEW gone,
         stack = [p \in Origins |-> SubSeq(idle[p], cut[p] + 1, Len(idle[p]))],
         open = [p \in Origins |-> openCount[p] - cut[p]],
         gone = UNION {{idle[p][i] : i \in 1..cut[p]} : p \in Origins}
  PROVE  /\ stack \in [Origins -> Seq(Conns)]
         /\ \A p \in Origins : Len(stack[p]) = Len(idle[p]) - cut[p]
         /\ open \in [Origins -> Int]
         /\ gone \in SUBSET Conns
<1>1. /\ \A p \in Origins : cut[p] \in 0..Len(idle[p])
      /\ \A p \in Origins : idle[p] \in Seq(Conns) /\ Len(idle[p]) \in Nat
  <2>1. \A p \in Origins : cut[p] \in Nat /\ cut[p] <= Len(idle[p])
    <3>1. cut \in [Origins -> 0..Cardinality(Conns)]
      BY DEF Expired
    <3>2. \A p \in Origins : cut[p] <= Len(idle[p])
      BY DEF Expired, ExpiredPrefix
    <3> QED
      BY <3>1, <3>2
  <2> QED
    BY <2>1 DEF TypeInv, TypeOK
<1>2. ASSUME NEW p \in Origins
      PROVE  /\ SubSeq(idle[p], cut[p] + 1, Len(idle[p])) \in Seq(Conns)
             /\ Len(SubSeq(idle[p], cut[p] + 1, Len(idle[p])))
                  = Len(idle[p]) - cut[p]
  <2>1. /\ cut[p] + 1 \in 1..(Len(idle[p]) + 1)
        /\ Len(idle[p]) \in ((cut[p] + 1) - 1)..Len(idle[p])
    BY <1>1
  <2> QED
    BY <1>1, <2>1, SlicesAreSequences
<1>3. \A p \in Origins : \A i \in 1..cut[p] : idle[p][i] \in Conns
  BY <1>1
<1> QED
  BY <1>1, <1>2, <1>3 DEF TypeInv, TypeOK

LEMMA AcquireLoopType ==
  ASSUME PoolAssumption, TypeInv,
         NEW t \in Tasks, pc[t] # "none", LockFree,
         NEW waiters \in [Origins -> Int],
         AcquireLoop(t, origin[t], waiters),
         UNCHANGED <<origin, keep, requests, since, input, closeVars, now>>
  PROVE  TypeInv' /\ OnlyWakes(t)
<1>1. origin[t] \in Origins
  BY DEF TypeInv, HandsOK
<1>2. PICK cut \in Expired :
        LET stack == [p \in Origins |->
                        SubSeq(idle[p], cut[p] + 1, Len(idle[p]))]
            open  == [p \in Origins |-> openCount[p] - cut[p]]
            gone  == UNION {{idle[p][i] : i \in 1..cut[p]} : p \in Origins}
            reg   == IF IdleTimeout = None THEN registered \cup {origin[t]}
                     ELSE Retire(registered \cup {origin[t]},
                                 Origins \ {origin[t]}, open, waiters)
        IN Checkout(t, origin[t], stack, open, waiters, reg, gone,
                    {p \in Origins : cut[p] > 0})
  BY DEF AcquireLoop
<1> DEFINE stack == [p \in Origins |->
                       SubSeq(idle[p], cut[p] + 1, Len(idle[p]))]
           open  == [p \in Origins |-> openCount[p] - cut[p]]
           gone  == UNION {{idle[p][i] : i \in 1..cut[p]} : p \in Origins}
           reg   == IF IdleTimeout = None THEN registered \cup {origin[t]}
                    ELSE Retire(registered \cup {origin[t]},
                                Origins \ {origin[t]}, open, waiters)
           touched == {p \in Origins : cut[p] > 0}
<1>3. /\ stack \in [Origins -> Seq(Conns)]
      /\ open \in [Origins -> Int]
      /\ gone \in SUBSET Conns
  BY PruneType
<1>4. reg \in SUBSET Origins
  BY <1>1 DEF Retire, TypeInv, TypeOK
<1>5. Checkout(t, origin[t], stack, open, waiters, reg, gone, touched)
  BY <1>2
<1>6. lock = None \/ lock = t
  BY DEF LockFree
<1> HIDE DEF stack, open, gone, reg, touched
<1> QED
  BY <1>1, <1>3, <1>4, <1>5, <1>6, CheckoutType

\* Every step of a task keeps the types and moves no other task, but for
\* waking waiters.
LEMMA TaskStepType ==
  ASSUME PoolAssumption, TypeInv, NEW t \in Tasks, TaskStep(t) \/ Cancel(t)
  PROVE  TypeInv' /\ OnlyWakes(t)
<1> USE DEF TypeInv
<1>m. ASSUME NEW from \in SUBSET (Pcs \ {"probing", "none"}),
             NEW to \in Pcs \ {"probing"}, Move(t, from, to),
             \/ to = "none" /\ pc[t] = "locking"
             \/ to = "unwaiting" /\ pc[t] \in {"waiting", "woken"}
             \/ to = "dial_failed" /\ pc[t] \in {"dialing", "dialed"}
             \/ to = "holding" /\ pc[t] = "dialed"
      PROVE  TypeInv' /\ OnlyWakes(t)
  <2>1. /\ TypeOK'
        /\ pc' = [pc EXCEPT ![t] = to]
        /\ UNCHANGED <<origin, conn, lock>>
    BY <1>m DEF Move, TypeOK, taskVars, stateVars, wireVars, closeVars
  <2>2. HandsOK'
    BY <2>1, <1>m DEF TypeOK, HandsOK, SlotPcs
  <2>3. LockOK'
    BY <2>1, <1>m DEF TypeOK, LockOK, Move
  <2> QED
    BY <2>1, <2>2, <2>3 DEF OnlyWakes, TypeOK
<1>d. ASSUME pc[t] \in {"dialed", "dial_failed", "releasing"}, DropSlot(t)
      PROVE  TypeInv' /\ OnlyWakes(t)
  <2>1. /\ pc' \in [Tasks -> Pcs]
        /\ pc'[t] = "none"
        /\ \A u \in Tasks \ {t} :
             pc'[u] = pc[u] \/ (pc[u] = "waiting" /\ pc'[u] = "woken")
    <3>1. "none" \in Pcs
      BY DEF Pcs
    <3> QED
      BY <1>d, <3>1, NotifyWakes DEF DropSlot
  <2>2. TypeOK'
    <3>1. live' \subseteq Conns /\ drains' \subseteq Conns
      BY <1>d DEF DropSlot, CloseWriters, TypeOK
    <3>2. openCount' \in [Origins -> Int] /\ registered' \subseteq Origins
      <4>1. openCount' \in [Origins -> Int]
        BY <1>d DEF DropSlot, TypeOK, HandsOK
      <4>2. registered' = Retire(registered, {origin[t]}, openCount',
                                waiterCount)
        BY <1>d DEF DropSlot
      <4> QED
        BY <4>1, <4>2 DEF Retire, TypeOK
    <3> QED
      BY <1>d, <2>1, <3>1, <3>2 DEF DropSlot, TypeOK, closeVars
  <2>3. HandsOK'
    BY <1>d, <2>1 DEF DropSlot, TypeOK, HandsOK, SlotPcs
  <2>4. LockOK'
    BY <1>d, <2>1 DEF DropSlot, LockFree, TypeOK, LockOK
  <2> QED
    BY <1>d, <2>1, <2>2, <2>3, <2>4 DEF DropSlot, OnlyWakes, TypeOK
<1>k. ASSUME NEW stack \in [Origins -> Seq(Conns)],
             NEW open \in [Origins -> Int],
             NEW reg \in SUBSET Origins, NEW gone \in SUBSET Conns,
             NEW touched, pc[t] = "releasing", LockFree,
             Keep(t, stack, open, reg, gone, touched)
      PROVE  TypeInv' /\ OnlyWakes(t)
  <2>1. /\ pc' \in [Tasks -> Pcs]
        /\ pc'[t] = "none"
        /\ \A u \in Tasks \ {t} :
             pc'[u] = pc[u] \/ (pc[u] = "waiting" /\ pc'[u] = "woken")
    <3>1. "none" \in Pcs
      BY DEF Pcs
    <3> QED
      BY <1>k, <3>1, NotifyWakes DEF Keep
  <2>2. TypeOK'
    <3>1. origin[t] \in Origins /\ conn[t] \in Conns
      BY <1>k DEF HandsOK
    <3>2. Append(stack[origin[t]], conn[t]) \in Seq(Conns)
      BY <3>1
    <3>3. idle' \in [Origins -> Seq(Conns)]
      BY <1>k, <3>1, <3>2 DEF Keep
    <3> QED
      BY <1>k, <2>1, <3>1, <3>3
      DEF Keep, CloseWriters, TypeOK, closeVars
  <2>3. HandsOK'
    BY <1>k, <2>1 DEF Keep, TypeOK, HandsOK, SlotPcs
  <2>4. LockOK'
    BY <1>k, <2>1 DEF Keep, LockFree, TypeOK, LockOK
  <2> QED
    BY <1>k, <2>1, <2>2, <2>3, <2>4 DEF Keep, OnlyWakes, TypeOK
<1>1. CASE Enter(t)
  BY <1>1, AcquireLoopType DEF Enter, TypeOK
<1>2. CASE EnterClosed(t)
  BY <1>2, <1>m DEF EnterClosed, Move, Pcs, SlotPcs, WaitPcs
<1>3. CASE ProbeClean(t)
  <2>1. TypeOK' /\ OnlyWakes(t) /\ HandsOK'
    BY <1>3 DEF ProbeClean, TypeOK, HandsOK, OnlyWakes, Pcs, SlotPcs,
                stateVars, wireVars, closeVars
  <2>2. LockOK'
    BY <1>3 DEF ProbeClean, TypeOK, LockOK, PoolAssumption
  <2> QED
    BY <2>1, <2>2
<1>4. CASE ProbeStale(t)
  <2> DEFINE open == [openCount EXCEPT ![origin[t]] = @ - 1]
             gone == {conn[t]}
             touched == {origin[t]}
  <2>1. /\ origin[t] \in Origins /\ conn[t] \in Conns
        /\ pc[t] # "none" /\ lock = t
    BY <1>4 DEF ProbeStale, HandsOK, LockOK
  <2>2. open \in [Origins -> Int] /\ gone \in SUBSET Conns
    BY <2>1 DEF TypeOK
  <2>3. Checkout(t, origin[t], idle, open, waiterCount, registered, gone,
                 touched)
    BY <1>4 DEF ProbeStale
  <2> HIDE DEF open, gone, touched
  <2> QED
    BY <1>4, <2>1, <2>2, <2>3, CheckoutType DEF ProbeStale, TypeOK
<1>5. CASE CancelProbe(t)
  <2>1. /\ pc' \in [Tasks -> Pcs]
        /\ pc'[t] = "none"
        /\ \A u \in Tasks \ {t} :
             pc'[u] = pc[u] \/ (pc[u] = "waiting" /\ pc'[u] = "woken")
    <3>1. "none" \in Pcs
      BY DEF Pcs
    <3> QED
      BY <1>5, <3>1, NotifyWakes DEF CancelProbe
  <2>2. TypeOK'
    <3>1. conn[t] \in Conns
      BY <1>5 DEF CancelProbe, HandsOK
    <3>2. live' \subseteq Conns /\ drains' \subseteq Conns
      BY <1>5, <3>1 DEF CancelProbe, CloseWriters, TypeOK
    <3>3. openCount' \in [Origins -> Int] /\ registered' \subseteq Origins
      <4>1. openCount' \in [Origins -> Int]
        BY <1>5 DEF CancelProbe, TypeOK, HandsOK
      <4>2. registered' = Retire(registered, {origin[t]}, openCount',
                                waiterCount)
        BY <1>5 DEF CancelProbe
      <4> QED
        BY <4>1, <4>2 DEF Retire, TypeOK
    <3> QED
      BY <1>5, <2>1, <3>2, <3>3 DEF CancelProbe, TypeOK, closeVars
  <2>3. HandsOK'
    BY <1>5, <2>1 DEF CancelProbe, TypeOK, HandsOK, SlotPcs
  <2>4. LockOK'
    BY <1>5, <2>1 DEF CancelProbe, TypeOK, LockOK, PoolAssumption
  <2> QED
    BY <1>5, <2>1, <2>2, <2>3, <2>4 DEF CancelProbe, OnlyWakes, TypeOK
<1>6. CASE Resume(t)
  <2> DEFINE waiters == [waiterCount EXCEPT ![origin[t]] = @ - 1]
  <2>1. waiters \in [Origins -> Int]
    BY <1>6 DEF Resume, TypeOK, HandsOK
  <2>2. AcquireLoop(t, origin[t], waiters)
    BY <1>6 DEF Resume
  <2> HIDE DEF waiters
  <2> QED
    BY <1>6, <2>1, <2>2, AcquireLoopType DEF Resume
<1>w. ASSUME pc[t] \in {"woken", "unwaiting"}, LeaveCondition(t)
      PROVE  TypeInv' /\ OnlyWakes(t)
  <2>1. TypeOK' /\ OnlyWakes(t) /\ HandsOK'
    BY <1>w DEF LeaveCondition, Retire, TypeOK, HandsOK, OnlyWakes, Pcs,
                SlotPcs, wireVars, closeVars
  <2>2. LockOK'
    BY <1>w DEF LeaveCondition, TypeOK, LockOK, PoolAssumption
  <2> QED
    BY <2>1, <2>2
<1>7. CASE ResumeClosed(t)
  BY <1>7, <1>w DEF ResumeClosed
<1>8. CASE Unwait(t)
  BY <1>8, <1>w DEF Unwait
<1>9. ASSUME NEW c \in Conns, NEW whole \in BOOLEAN, Opened(t, c, whole)
      PROVE  TypeInv' /\ OnlyWakes(t)
  <2>1. TypeOK' /\ OnlyWakes(t) /\ HandsOK'
    BY <1>9 DEF Opened, TypeOK, HandsOK, OnlyWakes, Pcs, SlotPcs,
                stateVars, closeVars
  <2>2. LockOK'
    BY <1>9 DEF Opened, TypeOK, LockOK
  <2> QED
    BY <2>1, <2>2
<1>10. CASE OpenFails(t)
  BY <1>10, <1>m DEF OpenFails, Move, Pcs, SlotPcs, WaitPcs
<1>11. CASE DialSucceeds(t)
  BY <1>11, <1>m DEF DialSucceeds, Move, Pcs, SlotPcs, WaitPcs
<1>12. CASE DialFindsPoolClosed(t)
  BY <1>12, <1>d DEF DialFindsPoolClosed
<1>13. CASE CleanUpDial(t)
  BY <1>13, <1>d DEF CleanUpDial
<1>14. CASE Finish(t)
  <2>1. TypeOK' /\ OnlyWakes(t) /\ HandsOK'
    BY <1>14 DEF Finish, TypeOK, HandsOK, OnlyWakes, Pcs, SlotPcs,
                 stateVars, wireVars, closeVars
  <2>2. LockOK'
    BY <1>14 DEF Finish, TypeOK, LockOK
  <2> QED
    BY <2>1, <2>2
<1>15. CASE ReleaseClosing(t)
  BY <1>15, <1>d DEF ReleaseClosing
<1>16. CASE ReleaseKeeping(t)
  BY <1>16, <1>k DEF ReleaseKeeping, TypeOK
<1>17. CASE ReleaseEvicting(t)
  <2>1. PICK v \in Origins :
          LET open == [openCount EXCEPT ![v] = @ - 1] IN
          /\ OldestStack(v)
          /\ Keep(t, [idle EXCEPT ![v] = Tail(@)], open,
                  Retire(registered, {v} \ {origin[t]}, open, waiterCount),
                  {idle[v][1]}, {v})
    BY <1>17 DEF ReleaseEvicting
  <2> DEFINE open    == [openCount EXCEPT ![v] = @ - 1]
             stack   == [idle EXCEPT ![v] = Tail(@)]
             reg     == Retire(registered, {v} \ {origin[t]}, open, waiterCount)
             gone    == {idle[v][1]}
             touched == {v}
  <2>2. /\ idle[v] \in Seq(Conns) /\ idle[v] # <<>>
        /\ Tail(idle[v]) \in Seq(Conns) /\ idle[v][1] \in Conns
    BY <2>1, HeadTailProperties DEF OldestStack, TypeOK
  <2>3. stack \in [Origins -> Seq(Conns)] /\ gone \in SUBSET Conns
    BY <2>2 DEF TypeOK
  <2>4. open \in [Origins -> Int] /\ reg \in SUBSET Origins
    BY DEF TypeOK, Retire
  <2>5. Keep(t, stack, open, reg, gone, touched)
    BY <2>1
  <2> HIDE DEF open, stack, reg, gone, touched
  <2> QED
    BY <1>17, <1>k, <2>3, <2>4, <2>5 DEF ReleaseEvicting
<1>18. CASE CancelLocking(t)
  BY <1>18, <1>m DEF CancelLocking, Move, Pcs, SlotPcs, WaitPcs
<1>19. CASE CancelWait(t)
  BY <1>19, <1>m DEF CancelWait, Move, Pcs, SlotPcs, WaitPcs
<1>20. CASE CancelDialed(t)
  BY <1>20, <1>m DEF CancelDialed, Move, Pcs, SlotPcs, WaitPcs
<1> QED
  BY <1>1, <1>2, <1>3, <1>4, <1>5, <1>6, <1>7, <1>8, <1>9, <1>10, <1>11,
     <1>12, <1>13, <1>14, <1>15, <1>16, <1>17, <1>18, <1>19, <1>20
  DEF TaskStep, Cancel

\* The rest of the steps move no task, except that Start begins a request
\* and Close wakes every waiter.
LEMMA TypeInvStep ==
  ASSUME PoolAssumption, TypeInv, [Next]_vars
  PROVE  TypeInv'
<1>1. ASSUME NEW t \in Tasks, TaskStep(t) \/ Cancel(t)
      PROVE  TypeInv'
  BY <1>1, TaskStepType
<1>2. ASSUME NEW t \in Tasks, NEW o \in Origins, Start(t, o)
      PROVE  TypeInv'
  <2>1. TypeOK' /\ HandsOK'
    BY <1>2 DEF Start, TypeInv, TypeOK, HandsOK, Pcs, SlotPcs, PoolAssumption,
                stateVars, wireVars, closeVars
  <2>2. LockOK'
    BY <1>2 DEF Start, TypeInv, TypeOK, LockOK
  <2> QED
    BY <2>1, <2>2 DEF TypeInv
<1>3. CASE Close
  <2>1. /\ pc' \in [Tasks -> Pcs]
        /\ \A u \in Tasks :
             pc'[u] = pc[u] \/ (pc[u] = "waiting" /\ pc'[u] = "woken")
    BY <1>3 DEF Close, NotifyAll, TypeInv, TypeOK, Pcs, WaitPcs
  <2>2. AllIdle \subseteq Conns
    BY DEF AllIdle, IdleConns, TypeInv, TypeOK
  <2>3. live' \subseteq Conns /\ drains' \subseteq Conns
    BY <1>3, <2>2 DEF Close, CloseWriters, TypeInv, TypeOK
  <2>4. /\ idle' \in [Origins -> Seq(Conns)]
        /\ openCount' \in [Origins -> Int]
        /\ registered' \subseteq Origins
    <3>1. \A o \in Origins : Len(idle[o]) \in Int
      BY DEF TypeInv, TypeOK
    <3>2. <<>> \in Seq(Conns)
      OBVIOUS
    <3> QED
      BY <1>3, <3>1, <3>2 DEF Close, Retire, TypeInv, TypeOK
  <2>5. TypeOK'
    BY <1>3, <2>1, <2>3, <2>4 DEF Close, TypeInv, TypeOK
  <2>6. HandsOK'
    BY <1>3, <2>1 DEF Close, TypeInv, TypeOK, HandsOK, SlotPcs
  <2>7. LockOK'
    BY <1>3, <2>1 DEF Close, TypeInv, TypeOK, LockOK
  <2> QED
    BY <2>5, <2>6, <2>7 DEF TypeInv
<1>4. ASSUME UNCHANGED <<taskVars, lock, stateVars>>,
             live' = live, drains' \subseteq drains, since' = since,
             input' \in [Conns -> {"clean", "pending", "raced"}],
             closed' = closed, pending' \subseteq pending,
             closer' \in {"open", "locking", "locking_cancelled", "draining",
                          "done"},
             now' \in 0..MaxNow
      PROVE  TypeInv'
  BY <1>4 DEF TypeInv, TypeOK, HandsOK, LockOK, taskVars, stateVars
<1>5. CASE CallClose \/ CancelClose \/ CloseReturns \/ CancelDraining
  BY <1>5, <1>4
  DEF CallClose, CancelClose, CloseReturns, CancelDraining, TypeInv, TypeOK,
      wireVars
<1>6. ASSUME NEW c \in Conns, Drained(c) \/ PeerSpeaks(c)
      PROVE  TypeInv'
  BY <1>6, <1>4 DEF Drained, PeerSpeaks, TypeInv, TypeOK, closeVars
<1>7. CASE Tick
  BY <1>7, <1>4 DEF Tick, TypeInv, TypeOK, PoolAssumption, wireVars, closeVars
<1>8. CASE Finished \/ UNCHANGED vars
  BY <1>8, <1>4 DEF Finished, vars, TypeInv, TypeOK, wireVars, closeVars
<1> QED
  BY <1>1, <1>2, <1>3, <1>5, <1>6, <1>7, <1>8 DEF Next

LEMMA TypeInvInit == PoolAssumption /\ Init => TypeInv
<1> SUFFICES ASSUME PoolAssumption, Init
             PROVE  TypeInv
  OBVIOUS
<1>1. idle \in [Origins -> Seq(Conns)]
  <2>1. <<>> \in Seq(Conns)
    OBVIOUS
  <2> QED
    BY <2>1 DEF Init
<1>2. /\ requests \in [Tasks -> 0..MaxRequests]
      /\ since \in [Conns -> 0..MaxNow]
      /\ now \in 0..MaxNow
      /\ openCount \in [Origins -> Int]
      /\ waiterCount \in [Origins -> Int]
  BY DEF Init, PoolAssumption
<1>3. /\ pc \in [Tasks -> Pcs]
      /\ origin \in [Tasks -> Origins \cup {None}]
      /\ conn \in [Tasks -> Conns \cup {None}]
      /\ keep \in [Tasks -> BOOLEAN]
      /\ input \in [Conns -> {"clean", "pending", "raced"}]
  BY DEF Init, Pcs
<1>4. TypeOK
  BY <1>1, <1>2, <1>3 DEF Init, TypeOK
<1>5. HandsOK
  BY DEF Init, HandsOK, SlotPcs
<1>6. LockOK
  BY DEF Init, LockOK, PoolAssumption
<1> QED
  BY <1>4, <1>5, <1>6 DEF TypeInv

LEMMA TypeInvAlways == Spec => []TypeInv
<1>1. Init => TypeInv
  BY PoolAssumption, TypeInvInit
<1>2. TypeInv /\ [Next]_vars => TypeInv'
  BY PoolAssumption, TypeInvStep
<1> QED
  BY <1>1, <1>2, PTL DEF Spec

\* Every variable keeps its type, and with it release() never pushes
\* anything but an open connection of the caller onto an idle stack.
THEOREM TypeCorrect == Spec => []TypeOK
<1>1. TypeInv => TypeOK
  BY DEF TypeInv
<1> QED
  BY <1>1, TypeInvAlways, PTL
-----------------------------------------------------------------------------
(* The counters.                                                           *)

\* One if the task has a slot of the origin, or waits on its condition.
SlotOf(t, p) == IF pc[t] \in SlotPcs /\ origin[t] = p THEN 1 ELSE 0
WaitOf(t, p) == IF pc[t] \in WaitPcs /\ origin[t] = p THEN 1 ELSE 0

\* The counters agree with the tasks, no origin is over its cap, and the
\* dictionary holds the origins with a non-zero counter.  The three are
\* inductive together: a checkout reserves a slot because of the cap, and
\* an origin is retired because of its counters.
Accounting ==
  /\ SlotAccounting
  /\ \A p \in Origins : openCount[p] <= MaxPerOrigin
  /\ RegisteredWhileUsed

LEMMA FiniteUsers ==
  ASSUME PoolAssumption, NEW t \in Tasks, NEW p
  PROVE  /\ IsFiniteSet(SlotUsers(p)) /\ IsFiniteSet(Waiters(p))
         /\ Cardinality(SlotUsers(p)) \in Nat
         /\ Cardinality(Waiters(p)) \in Nat
         /\ Cardinality(SlotUsers(p)) >= SlotOf(t, p)
         /\ Cardinality(Waiters(p)) >= WaitOf(t, p)
<1>1. SlotUsers(p) \in SUBSET Tasks /\ Waiters(p) \in SUBSET Tasks
  BY DEF SlotUsers, Waiters
<1>2. IsFiniteSet(SlotUsers(p)) /\ IsFiniteSet(Waiters(p))
  BY <1>1, FS_Subset DEF PoolAssumption
<1>3. /\ Cardinality(SlotUsers(p)) \in Nat
      /\ Cardinality(Waiters(p)) \in Nat
  BY <1>2, FS_CardinalityType
<1>4. /\ t \in SlotUsers(p) => Cardinality(SlotUsers(p)) # 0
      /\ t \in Waiters(p) => Cardinality(Waiters(p)) # 0
  BY <1>2, FS_EmptySet
<1> QED
  BY <1>2, <1>3, <1>4 DEF SlotUsers, Waiters, SlotOf, WaitOf

\* A step of t moves the two numbers of an origin by what t gains or loses.
LEMMA CountStep ==
  ASSUME PoolAssumption, NEW t \in Tasks, OnlyWakes(t), NEW p
  PROVE  /\ Cardinality(SlotUsers(p)') =
              (Cardinality(SlotUsers(p)) - SlotOf(t, p)) + SlotOf(t, p)'
         /\ Cardinality(Waiters(p)') =
              (Cardinality(Waiters(p)) - WaitOf(t, p)) + WaitOf(t, p)'
<1>1. /\ SlotUsers(p)' \ {t} = SlotUsers(p) \ {t}
      /\ Waiters(p)' \ {t} = Waiters(p) \ {t}
  BY DEF OnlyWakes, SlotUsers, Waiters, SlotPcs, WaitPcs
<1>2. /\ t \in SlotUsers(p) <=> SlotOf(t, p) = 1
      /\ t \in Waiters(p) <=> WaitOf(t, p) = 1
      /\ t \in SlotUsers(p)' <=> SlotOf(t, p)' = 1
      /\ t \in Waiters(p)' <=> WaitOf(t, p)' = 1
      /\ SlotOf(t, p) \in {0, 1} /\ WaitOf(t, p) \in {0, 1}
      /\ SlotOf(t, p)' \in {0, 1} /\ WaitOf(t, p)' \in {0, 1}
  BY DEF SlotUsers, Waiters, SlotOf, WaitOf
<1>3. /\ SlotUsers(p) \in SUBSET Tasks /\ SlotUsers(p)' \in SUBSET Tasks
      /\ Waiters(p) \in SUBSET Tasks /\ Waiters(p)' \in SUBSET Tasks
  BY DEF SlotUsers, Waiters
<1>4. ASSUME NEW A \in SUBSET Tasks, NEW B \in SUBSET Tasks,
             NEW a, NEW b, a = 0 \/ a = 1, b = 0 \/ b = 1,
             A \ {t} = B \ {t}, t \in A <=> a = 1, t \in B <=> b = 1
      PROVE  Cardinality(B) = (Cardinality(A) - a) + b
  <2>1. IsFiniteSet(A) /\ IsFiniteSet(B)
    BY FS_Subset DEF PoolAssumption
  <2>2. /\ Cardinality(A \ {t}) =
             IF t \in A THEN Cardinality(A) - 1 ELSE Cardinality(A)
        /\ Cardinality(B \ {t}) =
             IF t \in B THEN Cardinality(B) - 1 ELSE Cardinality(B)
    BY <2>1, FS_RemoveElement
  <2>3. Cardinality(A) \in Nat /\ Cardinality(B) \in Nat
    BY <2>1, FS_CardinalityType
  <2>4. Cardinality(A \ {t}) = Cardinality(B \ {t})
    BY <1>4
  <2> QED
    BY <1>4, <2>2, <2>3, <2>4
<1>5. Cardinality(SlotUsers(p)') =
        (Cardinality(SlotUsers(p)) - SlotOf(t, p)) + SlotOf(t, p)'
  <2> DEFINE A == SlotUsers(p)
             B == SlotUsers(p)'
             a == SlotOf(t, p)
             b == SlotOf(t, p)'
  <2>1. /\ A \in SUBSET Tasks /\ B \in SUBSET Tasks
        /\ a = 0 \/ a = 1
        /\ b = 0 \/ b = 1
        /\ A \ {t} = B \ {t}
        /\ t \in A <=> a = 1
        /\ t \in B <=> b = 1
    BY <1>1, <1>2, <1>3
  <2> HIDE DEF A, B, a, b
  <2>2. Cardinality(B) = (Cardinality(A) - a) + b
    BY <1>4, <2>1
  <2> QED
    BY <2>2 DEF A, B, a, b
<1>6. Cardinality(Waiters(p)') =
        (Cardinality(Waiters(p)) - WaitOf(t, p)) + WaitOf(t, p)'
  <2> DEFINE A == Waiters(p)
             B == Waiters(p)'
             a == WaitOf(t, p)
             b == WaitOf(t, p)'
  <2>1. /\ A \in SUBSET Tasks /\ B \in SUBSET Tasks
        /\ a = 0 \/ a = 1
        /\ b = 0 \/ b = 1
        /\ A \ {t} = B \ {t}
        /\ t \in A <=> a = 1
        /\ t \in B <=> b = 1
    BY <1>1, <1>2, <1>3
  <2> HIDE DEF A, B, a, b
  <2>2. Cardinality(B) = (Cardinality(A) - a) + b
    BY <1>4, <2>1
  <2> QED
    BY <2>2 DEF A, B, a, b
<1> QED
  BY <1>5, <1>6

\* The equations a step of t must meet.
Balanced(t) ==
  \A p \in Origins :
    /\ openCount'[p] = openCount[p] + (Len(idle'[p]) - Len(idle[p]))
                       + (SlotOf(t, p)' - SlotOf(t, p))
    /\ waiterCount'[p] = waiterCount[p] + (WaitOf(t, p)' - WaitOf(t, p))

LEMMA CountsKept ==
  ASSUME PoolAssumption, TypeInv, TypeInv', Accounting,
         NEW t \in Tasks, OnlyWakes(t), Balanced(t)
  PROVE  /\ SlotAccounting'
         /\ \A p \in Origins : /\ openCount[p] \in Nat /\ openCount'[p] \in Nat
                              /\ waiterCount[p] \in Nat
                              /\ waiterCount'[p] \in Nat
<1> SUFFICES ASSUME NEW p \in Origins
             PROVE  /\ openCount'[p] = Len(idle'[p]) + Cardinality(SlotUsers(p)')
                    /\ waiterCount'[p] = Cardinality(Waiters(p)')
                    /\ openCount[p] \in Nat /\ openCount'[p] \in Nat
                    /\ waiterCount[p] \in Nat /\ waiterCount'[p] \in Nat
  BY DEF SlotAccounting
<1>1. Len(idle[p]) \in Nat /\ Len(idle'[p]) \in Nat
  BY DEF TypeInv, TypeOK
<1>2. /\ Cardinality(SlotUsers(p)) \in Nat /\ Cardinality(Waiters(p)) \in Nat
      /\ Cardinality(SlotUsers(p)) >= SlotOf(t, p)
      /\ Cardinality(Waiters(p)) >= WaitOf(t, p)
  BY FiniteUsers
<1>3. /\ SlotOf(t, p) \in Nat /\ SlotOf(t, p)' \in Nat
      /\ WaitOf(t, p) \in Nat /\ WaitOf(t, p)' \in Nat
  BY DEF SlotOf, WaitOf
<1>4. /\ openCount[p] = Len(idle[p]) + Cardinality(SlotUsers(p))
      /\ waiterCount[p] = Cardinality(Waiters(p))
  BY DEF Accounting, SlotAccounting
<1>5. /\ openCount'[p] = openCount[p] + (Len(idle'[p]) - Len(idle[p]))
                         + (SlotOf(t, p)' - SlotOf(t, p))
      /\ waiterCount'[p] = waiterCount[p] + (WaitOf(t, p)' - WaitOf(t, p))
  BY DEF Balanced
<1>6. /\ Cardinality(SlotUsers(p)') =
           (Cardinality(SlotUsers(p)) - SlotOf(t, p)) + SlotOf(t, p)'
      /\ Cardinality(Waiters(p)') =
           (Cardinality(Waiters(p)) - WaitOf(t, p)) + WaitOf(t, p)'
  BY CountStep
<1>7. ASSUME NEW i \in Nat, NEW j \in Nat, NEW u \in Nat, NEW a \in Nat,
             NEW b \in Nat, NEW v, NEW x, NEW y,
             u >= a, v = (u - a) + b, x = i + u, y = x + (j - i) + (b - a)
      PROVE  y = j + v /\ x \in Nat /\ y \in Nat
  BY <1>7
<1>8. openCount'[p] = Len(idle'[p]) + Cardinality(SlotUsers(p)')
        /\ openCount[p] \in Nat /\ openCount'[p] \in Nat
  <2> DEFINE i == Len(idle[p])
             j == Len(idle'[p])
             u == Cardinality(SlotUsers(p))
             v == Cardinality(SlotUsers(p)')
             a == SlotOf(t, p)
             b == SlotOf(t, p)'
             x == openCount[p]
             y == openCount'[p]
  <2>1. i \in Nat /\ j \in Nat /\ u \in Nat /\ a \in Nat /\ b \in Nat
    BY <1>1, <1>2, <1>3
  <2>2. u >= a /\ v = (u - a) + b
    BY <1>2, <1>6
  <2>3. x = i + u /\ y = x + (j - i) + (b - a)
    BY <1>4, <1>5
  <2> HIDE DEF i, j, u, v, a, b, x, y
  <2>4. y = j + v /\ x \in Nat /\ y \in Nat
    BY <2>1, <2>2, <2>3, <1>7
  <2> QED
    BY <2>4 DEF j, v, x, y
<1>9. waiterCount'[p] = Cardinality(Waiters(p)')
        /\ waiterCount[p] \in Nat /\ waiterCount'[p] \in Nat
  BY <1>2, <1>3, <1>4, <1>5, <1>6
<1> QED
  BY <1>8, <1>9

\* A step that leaves the counters and the task's kind of suspension alone.
LEMMA AccountingStutter ==
  ASSUME PoolAssumption, TypeInv, TypeInv', Accounting,
         NEW t \in Tasks, OnlyWakes(t),
         UNCHANGED <<registered, idle, openCount, waiterCount>>,
         \A p \in Origins : SlotOf(t, p)' = SlotOf(t, p)
                           /\ WaitOf(t, p)' = WaitOf(t, p)
  PROVE  Accounting'
<1>1. Balanced(t)
  <2>1. \A p \in Origins : Len(idle[p]) \in Nat
    BY DEF TypeInv, TypeOK
  <2>2. \A p \in Origins : SlotOf(t, p) \in Int /\ WaitOf(t, p) \in Int
    BY DEF SlotOf, WaitOf
  <2>3. \A p \in Origins : openCount[p] \in Int /\ waiterCount[p] \in Int
    BY DEF TypeInv, TypeOK
  <2> QED
    BY <2>1, <2>2, <2>3 DEF Balanced
<1>2. SlotAccounting'
  BY <1>1, CountsKept
<1> QED
  BY <1>2 DEF Accounting, RegisteredWhileUsed

\* A step that lowers counters of the origins of os and then retires them.
LEMMA AccountingRetire ==
  ASSUME PoolAssumption, TypeInv, TypeInv', Accounting,
         NEW t \in Tasks, OnlyWakes(t), Balanced(t), NEW os,
         registered' = Retire(registered, os, openCount', waiterCount'),
         \A p \in Origins : openCount'[p] <= openCount[p]
                           /\ waiterCount'[p] <= waiterCount[p],
         \A p \in Origins : p \notin os => openCount'[p] = openCount[p]
                                         /\ waiterCount'[p] = waiterCount[p]
  PROVE  Accounting'
<1>1. /\ SlotAccounting'
      /\ \A p \in Origins : /\ openCount[p] \in Nat /\ openCount'[p] \in Nat
                           /\ waiterCount[p] \in Nat /\ waiterCount'[p] \in Nat
  BY CountsKept
<1>2. ASSUME NEW p \in Origins
      PROVE  /\ openCount'[p] <= MaxPerOrigin
             /\ p \in registered' <=> openCount'[p] > 0 \/ waiterCount'[p] > 0
  <2>1. /\ openCount'[p] <= openCount[p] /\ waiterCount'[p] <= waiterCount[p]
        /\ openCount[p] \in Nat /\ openCount'[p] \in Nat
        /\ waiterCount[p] \in Nat /\ waiterCount'[p] \in Nat
    BY <1>1
  <2>2. /\ openCount[p] <= MaxPerOrigin
        /\ p \in registered <=> openCount[p] > 0 \/ waiterCount[p] > 0
    BY DEF Accounting, RegisteredWhileUsed
  <2>3. p \in registered' <=>
          p \in registered /\ ~(p \in os /\ openCount'[p] = 0 /\ waiterCount'[p] = 0)
    BY DEF Retire
  <2> QED
    BY <2>1, <2>2, <2>3 DEF PoolAssumption
<1>3. registered' = {o \in Origins : openCount'[o] > 0 \/ waiterCount'[o] > 0}
  BY <1>2 DEF TypeInv, TypeOK
<1> QED
  BY <1>1, <1>2, <1>3 DEF Accounting, RegisteredWhileUsed

LEMMA OriginTypes ==
  ASSUME TypeInv, NEW p \in Origins
  PROVE  /\ idle[p] \in Seq(Conns) /\ Len(idle[p]) \in Nat
         /\ openCount[p] \in Int /\ waiterCount[p] \in Int
BY DEF TypeInv, TypeOK

LEMMA StackTypes ==
  ASSUME NEW stack \in [Origins -> Seq(Conns)], NEW p \in Origins
  PROVE  stack[p] \in Seq(Conns) /\ Len(stack[p]) \in Nat
OBVIOUS

\* What the code above a checkout by t leaves behind: counters that are right
\* but for what t itself gives up, and no origin retired too early.
Credits(t, o, stack, open, waiters, reg) ==
  \A p \in Origins :
    /\ open[p] = openCount[p] + (Len(stack[p]) - Len(idle[p])) - SlotOf(t, p)
    /\ open[p] <= openCount[p]
    /\ waiters[p] = waiterCount[p] - WaitOf(t, p)
    /\ p \in reg <=> p = o \/ open[p] > 0 \/ waiters[p] > 0

LEMMA CheckoutAccounting ==
  ASSUME PoolAssumption, TypeInv, TypeInv', Accounting,
         NEW t \in Tasks, OnlyWakes(t),
         NEW o \in Origins, origin[t] = o, origin' = origin,
         NEW stack \in [Origins -> Seq(Conns)],
         NEW open \in [Origins -> Int], NEW waiters \in [Origins -> Int],
         NEW reg, NEW gone, NEW touched,
         Checkout(t, o, stack, open, waiters, reg, gone, touched),
         Credits(t, o, stack, open, waiters, reg)
  PROVE  Accounting'
<1> USE DEF Credits
<1>1. PICK k \in 0..Len(stack[o]) :
        LET s     == stack[o]
            n     == Len(s) - k
            woken == NotifyAll(touched \cup {p \in {o} : n > 0})
        IN
        /\ registered' = reg
        /\ \/ /\ k > 0
              /\ idle' = [stack EXCEPT ![o] = SubSeq(s, 1, k - 1)]
              /\ openCount' = [open EXCEPT ![o] = @ - n]
              /\ waiterCount' = waiters
              /\ pc' = [woken EXCEPT ![t] = "probing"]
           \/ /\ k = 0
              /\ open[o] - n < MaxPerOrigin
              /\ idle' = [stack EXCEPT ![o] = <<>>]
              /\ openCount' = [open EXCEPT ![o] = (@ - n) + 1]
              /\ waiterCount' = waiters
              /\ pc' = [woken EXCEPT ![t] = "dialing"]
           \/ /\ k = 0
              /\ idle' = [stack EXCEPT ![o] = <<>>]
              /\ openCount' = [open EXCEPT ![o] = @ - n]
              /\ waiterCount' = [waiters EXCEPT ![o] = @ + 1]
              /\ pc' = [woken EXCEPT ![t] = "waiting"]
  BY DEF Checkout, UnderCap
<1> DEFINE n     == Len(stack[o]) - k
           woken == NotifyAll(touched \cup {p \in {o} : n > 0})
<1>2. /\ \A p \in Origins : /\ stack[p] \in Seq(Conns)
                           /\ Len(stack[p]) \in Nat /\ Len(idle[p]) \in Nat
      /\ n \in Nat /\ k \in Nat /\ woken \in [Tasks -> Pcs]
  <2>1. woken \in [Tasks -> Pcs]
    BY DEF NotifyAll, TypeInv, TypeOK, Pcs, WaitPcs
  <2>2. \A p \in Origins : stack[p] \in Seq(Conns) /\ Len(stack[p]) \in Nat
    BY StackTypes
  <2>3. \A p \in Origins : Len(idle[p]) \in Nat
    BY OriginTypes
  <2>4. n \in Nat /\ k \in Nat
    BY <2>2
  <2> QED
    BY <2>1, <2>2, <2>3, <2>4
<1>3. ASSUME NEW p \in Origins
      PROVE  /\ SlotOf(t, p) \in Int /\ WaitOf(t, p) \in Int
             /\ openCount[p] \in Int /\ waiterCount[p] \in Int
             /\ Len(stack[p]) \in Int /\ Len(idle[p]) \in Int
             /\ open[p] = openCount[p] + (Len(stack[p]) - Len(idle[p]))
                          - SlotOf(t, p)
             /\ open[p] <= openCount[p]
             /\ waiters[p] = waiterCount[p] - WaitOf(t, p)
  <2>1. SlotOf(t, p) \in Int /\ WaitOf(t, p) \in Int
    BY DEF SlotOf, WaitOf
  <2>2. openCount[p] \in Int /\ waiterCount[p] \in Int
    BY OriginTypes
  <2> QED
    BY <1>2, <2>1, <2>2
<1>4. ASSUME NEW p \in Origins \ {o}
      PROVE  /\ openCount'[p] = open[p] /\ waiterCount'[p] = waiters[p]
             /\ idle'[p] = stack[p]
             /\ SlotOf(t, p)' = 0 /\ WaitOf(t, p)' = 0
  BY <1>1 DEF SlotOf, WaitOf
<1>5. \/ /\ openCount'[o] = open[o] - n /\ waiterCount'[o] = waiters[o]
         /\ Len(idle'[o]) = k - 1
         /\ SlotOf(t, o)' = 1 /\ WaitOf(t, o)' = 0
      \/ /\ openCount'[o] = (open[o] - n) + 1 /\ waiterCount'[o] = waiters[o]
         /\ openCount'[o] <= MaxPerOrigin
         /\ k = 0 /\ Len(idle'[o]) = 0
         /\ SlotOf(t, o)' = 1 /\ WaitOf(t, o)' = 0
      \/ /\ openCount'[o] = open[o] - n /\ waiterCount'[o] = waiters[o] + 1
         /\ k = 0 /\ Len(idle'[o]) = 0
         /\ SlotOf(t, o)' = 0 /\ WaitOf(t, o)' = 1
  <2>1. CASE /\ k > 0
             /\ idle' = [stack EXCEPT ![o] = SubSeq(stack[o], 1, k - 1)]
             /\ openCount' = [open EXCEPT ![o] = @ - n]
             /\ waiterCount' = waiters
             /\ pc' = [woken EXCEPT ![t] = "probing"]
    <3>1. Len(SubSeq(stack[o], 1, k - 1)) = k - 1
      BY <1>2, <2>1, SlicesAreSequences
    <3>2. pc'[t] = "probing"
      BY <1>2, <2>1
    <3> QED
      BY <1>2, <2>1, <3>1, <3>2 DEF SlotOf, WaitOf, SlotPcs, WaitPcs
  <2>2. CASE /\ k = 0
             /\ open[o] - n < MaxPerOrigin
             /\ idle' = [stack EXCEPT ![o] = <<>>]
             /\ openCount' = [open EXCEPT ![o] = (@ - n) + 1]
             /\ waiterCount' = waiters
             /\ pc' = [woken EXCEPT ![t] = "dialing"]
    <3>1. pc'[t] = "dialing"
      BY <1>2, <2>2
    <3> QED
      BY <1>2, <2>2, <3>1
      DEF SlotOf, WaitOf, SlotPcs, WaitPcs, PoolAssumption
  <2>3. CASE /\ k = 0
             /\ idle' = [stack EXCEPT ![o] = <<>>]
             /\ openCount' = [open EXCEPT ![o] = @ - n]
             /\ waiterCount' = [waiters EXCEPT ![o] = @ + 1]
             /\ pc' = [woken EXCEPT ![t] = "waiting"]
    <3>1. pc'[t] = "waiting"
      BY <1>2, <2>3
    <3> QED
      BY <1>2, <2>3, <3>1 DEF SlotOf, WaitOf, SlotPcs, WaitPcs
  <2> QED
    BY <1>1, <2>1, <2>2, <2>3
<1> HIDE DEF woken
<1>6. Balanced(t)
  <2>1. ASSUME NEW p \in Origins \ {o}
        PROVE  /\ openCount'[p] = openCount[p] + (Len(idle'[p]) - Len(idle[p]))
                                  + (SlotOf(t, p)' - SlotOf(t, p))
               /\ waiterCount'[p] = waiterCount[p]
                                    + (WaitOf(t, p)' - WaitOf(t, p))
    <3> DEFINE i == Len(stack[p])
               j == Len(idle[p])
               a == SlotOf(t, p)
               b == WaitOf(t, p)
               x == openCount[p]
               y == waiterCount[p]
    <3>1. /\ i \in Int /\ j \in Int /\ a \in Int /\ b \in Int
          /\ x \in Int /\ y \in Int
      BY <1>3
    <3>2. /\ openCount'[p] = x + (i - j) - a /\ waiterCount'[p] = y - b
          /\ Len(idle'[p]) = i
          /\ SlotOf(t, p)' = 0 /\ WaitOf(t, p)' = 0
      BY <1>3, <1>4
    <3> HIDE DEF i, j, a, b, x, y
    <3>3. /\ openCount'[p] = x + (i - j) + (0 - a)
          /\ waiterCount'[p] = y + (0 - b)
      BY <3>1, <3>2
    <3> QED
      BY <3>2, <3>3 DEF i, j, a, b, x, y
  <2>2. /\ openCount'[o] = openCount[o] + (Len(idle'[o]) - Len(idle[o]))
                           + (SlotOf(t, o)' - SlotOf(t, o))
        /\ waiterCount'[o] = waiterCount[o] + (WaitOf(t, o)' - WaitOf(t, o))
    <3> DEFINE i == Len(stack[o])
               j == Len(idle[o])
               l == Len(idle'[o])
               a == SlotOf(t, o)
               b == WaitOf(t, o)
               c == SlotOf(t, o)'
               d == WaitOf(t, o)'
               x == openCount[o]
               y == waiterCount[o]
               u == openCount'[o]
               v == waiterCount'[o]
    <3>1. /\ i \in Int /\ j \in Int /\ a \in Int /\ b \in Int
          /\ x \in Int /\ y \in Int /\ k \in Int
          /\ n = i - k /\ open[o] = x + (i - j) - a /\ waiters[o] = y - b
      BY <1>2, <1>3
    <3>2. \/ /\ u = open[o] - n /\ v = waiters[o]
             /\ l = k - 1 /\ c = 1 /\ d = 0
          \/ /\ u = (open[o] - n) + 1 /\ v = waiters[o]
             /\ k = 0 /\ l = 0 /\ c = 1 /\ d = 0
          \/ /\ u = open[o] - n /\ v = waiters[o] + 1
             /\ k = 0 /\ l = 0 /\ c = 0 /\ d = 1
      BY <1>5
    <3> HIDE DEF n, i, j, l, a, b, c, d, x, y, u, v
    <3>3. u = x + (l - j) + (c - a) /\ v = y + (d - b)
      BY <3>1, <3>2
    <3> QED
      BY <3>3 DEF j, l, a, b, c, d, x, y, u, v
  <2> QED
    BY <2>1, <2>2 DEF Balanced
<1>7. /\ SlotAccounting'
      /\ \A p \in Origins : /\ openCount[p] \in Nat /\ openCount'[p] \in Nat
                           /\ waiterCount[p] \in Nat /\ waiterCount'[p] \in Nat
  BY <1>6, CountsKept
<1>8. openCount'[o] > 0 \/ waiterCount'[o] > 0
  <2>1. CASE SlotOf(t, o)' = 1
    <3>1. openCount'[o] = Len(idle'[o]) + Cardinality(SlotUsers(o)')
      BY <1>7 DEF SlotAccounting
    <3>2. Cardinality(SlotUsers(o)') =
            (Cardinality(SlotUsers(o)) - SlotOf(t, o)) + 1
      BY <2>1, CountStep
    <3>3. /\ Cardinality(SlotUsers(o)) >= SlotOf(t, o)
          /\ Cardinality(SlotUsers(o)) \in Nat
      BY FiniteUsers
    <3>4. Len(idle'[o]) \in Nat
      BY DEF TypeInv, TypeOK
    <3> QED
      BY <1>3, <3>1, <3>2, <3>3, <3>4
  <2>2. CASE waiterCount'[o] = waiters[o] + 1
    <3>1. /\ Cardinality(Waiters(o)) >= WaitOf(t, o)
          /\ Cardinality(Waiters(o)) \in Nat
          /\ waiterCount[o] = Cardinality(Waiters(o))
      BY FiniteUsers DEF Accounting, SlotAccounting
    <3> QED
      BY <1>3, <2>2, <3>1
  <2> QED
    BY <1>5, <2>1, <2>2
<1>9. ASSUME NEW p \in Origins
      PROVE  openCount'[p] <= MaxPerOrigin
  <2>1. openCount[p] <= MaxPerOrigin /\ open[p] <= openCount[p]
    BY DEF Accounting
  <2>2. open[p] \in Int /\ openCount[p] \in Int /\ MaxPerOrigin \in Int
    BY <1>3 DEF PoolAssumption
  <2>3. CASE p # o
    BY <1>4, <2>1, <2>2, <2>3
  <2>4. CASE p = o
    <3>1. openCount'[o] <= MaxPerOrigin \/ openCount'[o] = open[o] - n
      BY <1>5
    <3>2. n \in Nat
      BY <1>2
    <3> HIDE DEF n
    <3> QED
      BY <2>1, <2>2, <2>4, <3>1, <3>2
  <2> QED
    BY <2>3, <2>4
<1>10. registered' = {p \in Origins : openCount'[p] > 0 \/ waiterCount'[p] > 0}
  <2>1. registered' = reg /\ registered' \subseteq Origins
    BY <1>1 DEF TypeInv, TypeOK
  <2> QED
    BY <1>4, <1>8, <2>1
<1> QED
  BY <1>7, <1>9, <1>10 DEF Accounting, RegisteredWhileUsed

LEMMA LoopAccounting ==
  ASSUME PoolAssumption, TypeInv, TypeInv', Accounting,
         NEW t \in Tasks, OnlyWakes(t), origin' = origin,
         pc[t] = "locking" \/ pc[t] = "woken",
         NEW waiters \in [Origins -> Int],
         \A p \in Origins : waiters[p] = waiterCount[p] - WaitOf(t, p),
         AcquireLoop(t, origin[t], waiters)
  PROVE  Accounting'
<1>1. origin[t] \in Origins /\ \A p \in Origins : SlotOf(t, p) = 0
  BY DEF TypeInv, HandsOK, SlotOf, SlotPcs
<1>2. PICK cut \in Expired :
        LET stack == [p \in Origins |->
                        SubSeq(idle[p], cut[p] + 1, Len(idle[p]))]
            open  == [p \in Origins |-> openCount[p] - cut[p]]
            gone  == UNION {{idle[p][i] : i \in 1..cut[p]} : p \in Origins}
            reg   == IF IdleTimeout = None THEN registered \cup {origin[t]}
                     ELSE Retire(registered \cup {origin[t]},
                                 Origins \ {origin[t]}, open, waiters)
        IN Checkout(t, origin[t], stack, open, waiters, reg, gone,
                    {p \in Origins : cut[p] > 0})
  BY DEF AcquireLoop
<1> DEFINE o     == origin[t]
           stack == [p \in Origins |->
                       SubSeq(idle[p], cut[p] + 1, Len(idle[p]))]
           open  == [p \in Origins |-> openCount[p] - cut[p]]
           gone  == UNION {{idle[p][i] : i \in 1..cut[p]} : p \in Origins}
           reg   == IF IdleTimeout = None THEN registered \cup {o}
                    ELSE Retire(registered \cup {o}, Origins \ {o}, open,
                                waiters)
           touched == {p \in Origins : cut[p] > 0}
<1>3. /\ stack \in [Origins -> Seq(Conns)]
      /\ open \in [Origins -> Int]
      /\ \A p \in Origins : Len(stack[p]) = Len(idle[p]) - cut[p]
  <2>1. /\ stack = [p \in Origins |->
                      SubSeq(idle[p], cut[p] + 1, Len(idle[p]))]
        /\ open = [p \in Origins |-> openCount[p] - cut[p]]
        /\ gone = UNION {{idle[p][i] : i \in 1..cut[p]} : p \in Origins}
    OBVIOUS
  <2> HIDE DEF stack, open, gone
  <2>2. stack \in [Origins -> Seq(Conns)] /\ open \in [Origins -> Int]
    BY <2>1, PruneType
  <2>3. \A p \in Origins : Len(stack[p]) = Len(idle[p]) - cut[p]
    BY ONLY PoolAssumption, TypeInv, cut \in Expired, <2>1, PruneType
  <2> QED
    BY <2>2, <2>3
<1>4. Checkout(t, o, stack, open, waiters, reg, gone, touched)
  BY <1>2
<1>5. ASSUME NEW p \in Origins
      PROVE  /\ cut[p] \in Nat
             /\ IdleTimeout = None => cut[p] = 0
             /\ open[p] = openCount[p] - cut[p]
  BY DEF Expired, ExpiredPrefix
<1>6. ASSUME NEW p \in Origins
      PROVE  /\ open[p] = openCount[p] + (Len(stack[p]) - Len(idle[p]))
                          - SlotOf(t, p)
             /\ open[p] <= openCount[p]
  <2> DEFINE i == Len(idle[p])
             j == Len(stack[p])
             x == openCount[p]
             n == cut[p]
  <2>1. i \in Int /\ x \in Int /\ n \in Nat
    BY <1>5, OriginTypes
  <2>2. open[p] = x - n /\ j = i - n
    BY <1>3, <1>5
  <2> HIDE DEF i, j, x, n, open
  <2>3. open[p] = x + (j - i) - 0 /\ open[p] <= x
    BY <2>1, <2>2
  <2> QED
    BY <1>1, <2>3 DEF i, j, x
<1>7. ASSUME NEW p \in Origins
      PROVE  p \in reg <=> p = o \/ open[p] > 0 \/ waiters[p] > 0
  <2>1. CASE p = o
    BY <1>1, <2>1 DEF Retire
  <2>2. CASE p # o
    <3>1. /\ waiters[p] = waiterCount[p]
          /\ waiterCount[p] \in Nat /\ Len(stack[p]) \in Nat
          /\ Cardinality(SlotUsers(p)) \in Nat
          /\ openCount[p] = Len(idle[p]) + Cardinality(SlotUsers(p))
      <4>1. waiters[p] = waiterCount[p]
        BY <2>2, OriginTypes DEF WaitOf
      <4>2. waiterCount[p] \in Nat /\ Cardinality(SlotUsers(p)) \in Nat
        BY FiniteUsers DEF Accounting, SlotAccounting
      <4>3. Len(stack[p]) \in Nat
        BY <1>3, StackTypes
      <4> QED
        BY <4>1, <4>2, <4>3 DEF Accounting, SlotAccounting
    <3>2. open[p] = Len(stack[p]) + Cardinality(SlotUsers(p))
      <4> DEFINE i == Len(idle[p])
                 n == cut[p]
      <4>1. i \in Nat /\ n \in Nat
        BY <1>5, OriginTypes
      <4>2. open[p] = openCount[p] - n /\ Len(stack[p]) = i - n
            /\ openCount[p] = i + Cardinality(SlotUsers(p))
        BY <1>3, <1>5, <3>1
      <4> HIDE DEF i, n, open, stack
      <4> QED
        BY <3>1, <4>1, <4>2
    <3>3. open[p] \in Nat
      <4> HIDE DEF open, stack
      <4> QED
        BY <3>1, <3>2
    <3>4. p \in registered <=> openCount[p] > 0 \/ waiterCount[p] > 0
      BY DEF Accounting, RegisteredWhileUsed
    <3>5. CASE IdleTimeout = None
      <4>1. open[p] = openCount[p]
        BY <1>5, <3>5, OriginTypes
      <4>2. p \in reg <=> p \in registered
        BY <2>2, <3>5
      <4> HIDE DEF open, reg
      <4> QED
        BY <2>2, <3>1, <3>4, <4>1, <4>2
    <3>6. CASE IdleTimeout # None
      <4>1. p \in reg <=>
              p \in registered /\ ~(open[p] = 0 /\ waiters[p] = 0)
        BY <2>2, <3>6 DEF Retire
      <4>2. open[p] <= openCount[p] /\ openCount[p] \in Int
        BY <1>6, OriginTypes
      <4> HIDE DEF open, reg
      <4> QED
        BY <2>2, <3>1, <3>3, <3>4, <4>1, <4>2
    <3> QED
      BY <3>5, <3>6
  <2> QED
    BY <2>1, <2>2
<1> HIDE DEF o, stack, open, gone, reg, touched
<1>8. o \in Origins /\ origin[t] = o
  BY <1>1 DEF o
<1>9. Credits(t, o, stack, open, waiters, reg)
  BY <1>6, <1>7 DEF Credits
<1>10. stack \in [Origins -> Seq(Conns)] /\ open \in [Origins -> Int]
  BY <1>3
<1> QED
  BY ONLY PoolAssumption, TypeInv, TypeInv', Accounting, OnlyWakes(t),
          t \in Tasks, waiters \in [Origins -> Int], origin' = origin,
          <1>4, <1>8, <1>9, <1>10, CheckoutAccounting

\* A task that leaves the pool with neither slot nor place in a queue.
LEMMA GiveUpAccounting ==
  ASSUME PoolAssumption, TypeInv, TypeInv', Accounting,
         NEW t \in Tasks, OnlyWakes(t), origin' = origin,
         pc[t] # "none", pc'[t] = "none", idle' = idle,
         registered' = Retire(registered, {origin[t]}, openCount', waiterCount'),
         \/ /\ pc[t] \in SlotPcs
            /\ openCount' = [openCount EXCEPT ![origin[t]] = @ - 1]
            /\ waiterCount' = waiterCount
         \/ /\ pc[t] \in WaitPcs
            /\ openCount' = openCount
            /\ waiterCount' = [waiterCount EXCEPT ![origin[t]] = @ - 1]
  PROVE  Accounting'
<1>1. origin[t] \in Origins
  BY DEF TypeInv, HandsOK
<1>2. ASSUME NEW p \in Origins
      PROVE  /\ openCount[p] \in Int /\ waiterCount[p] \in Int
             /\ SlotOf(t, p)' = 0 /\ WaitOf(t, p)' = 0
             /\ SlotOf(t, p) \in Int /\ WaitOf(t, p) \in Int
             /\ openCount'[p] = openCount[p] - SlotOf(t, p)
             /\ waiterCount'[p] = waiterCount[p] - WaitOf(t, p)
             /\ openCount'[p] <= openCount[p]
             /\ waiterCount'[p] <= waiterCount[p]
             /\ p # origin[t] => openCount'[p] = openCount[p]
                                /\ waiterCount'[p] = waiterCount[p]
  <2>1. SlotOf(t, p)' = 0 /\ WaitOf(t, p)' = 0
    BY DEF SlotOf, WaitOf, SlotPcs, WaitPcs
  <2>2. openCount[p] \in Int /\ waiterCount[p] \in Int
    BY OriginTypes
  <2>3. CASE pc[t] \in SlotPcs
    <3>1. /\ SlotOf(t, p) = IF p = origin[t] THEN 1 ELSE 0
          /\ WaitOf(t, p) = 0
      BY <2>3 DEF SlotOf, WaitOf, SlotPcs, WaitPcs
    <3>2. /\ openCount' = [openCount EXCEPT ![origin[t]] = @ - 1]
          /\ waiterCount' = waiterCount
      BY <2>3 DEF SlotPcs, WaitPcs
    <3> QED
      BY <1>1, <2>1, <2>2, <3>1, <3>2 DEF TypeInv, TypeOK
  <2>4. CASE pc[t] \in WaitPcs
    <3>1. /\ WaitOf(t, p) = IF p = origin[t] THEN 1 ELSE 0
          /\ SlotOf(t, p) = 0
      BY <2>4 DEF SlotOf, WaitOf, SlotPcs, WaitPcs
    <3>2. /\ waiterCount' = [waiterCount EXCEPT ![origin[t]] = @ - 1]
          /\ openCount' = openCount
      BY <2>4 DEF SlotPcs, WaitPcs
    <3> QED
      BY <1>1, <2>1, <2>2, <3>1, <3>2 DEF TypeInv, TypeOK
  <2> QED
    BY <2>3, <2>4
<1>3. Balanced(t)
  <2>1. ASSUME NEW p \in Origins
        PROVE  Len(idle'[p]) = Len(idle[p]) /\ Len(idle[p]) \in Int
    BY OriginTypes
  <2> QED
    BY <1>2, <2>1 DEF Balanced
<1> DEFINE os == {origin[t]}
<1>4. /\ registered' = Retire(registered, os, openCount', waiterCount')
      /\ \A p \in Origins : p \notin os => openCount'[p] = openCount[p]
                                      /\ waiterCount'[p] = waiterCount[p]
  BY <1>2
<1>5. \A p \in Origins : openCount'[p] <= openCount[p]
                        /\ waiterCount'[p] <= waiterCount[p]
  BY <1>2
<1> HIDE DEF os
<1> QED
  BY <1>3, <1>4, <1>5, AccountingRetire

\* What a release that keeps its connection does to the stacks: one gains an
\* entry, and v (unless it is None) loses one.
Swapped(t, v) ==
  \A p \in Origins :
    /\ Len(idle'[p]) = (Len(idle[p]) + (IF p = origin[t] THEN 1 ELSE 0))
                       - (IF p = v THEN 1 ELSE 0)
    /\ openCount'[p] = openCount[p] - (IF p = v THEN 1 ELSE 0)

LEMMA KeepAccounting ==
  ASSUME PoolAssumption, TypeInv, TypeInv', Accounting,
         NEW t \in Tasks, OnlyWakes(t), origin' = origin,
         pc[t] = "releasing", pc'[t] = "none", waiterCount' = waiterCount,
         NEW v, v = None \/ v \in Origins,
         v # None => idle[v] # <<>>,
         Swapped(t, v),
         registered' = Retire(registered, {v} \ {origin[t]}, openCount',
                              waiterCount)
  PROVE  Accounting'
<1> USE DEF Swapped
<1> DEFINE gain(p) == IF p = origin[t] THEN 1 ELSE 0
           loss(p) == IF p = v THEN 1 ELSE 0
<1>1. origin[t] \in Origins
  BY DEF TypeInv, HandsOK
<1>2. ASSUME NEW p \in Origins
      PROVE  /\ openCount[p] \in Int /\ waiterCount[p] \in Int
             /\ Len(idle[p]) \in Nat /\ Len(idle'[p]) \in Nat
             /\ gain(p) \in Nat /\ loss(p) \in Nat
  BY OriginTypes DEF TypeInv, TypeOK
<1>3. ASSUME NEW p \in Origins
      PROVE  /\ WaitOf(t, p) = 0 /\ WaitOf(t, p)' = 0
             /\ SlotOf(t, p) = gain(p) /\ SlotOf(t, p)' = 0
             /\ Len(idle'[p]) = (Len(idle[p]) + gain(p)) - loss(p)
             /\ openCount'[p] = openCount[p] - loss(p)
             /\ waiterCount'[p] = waiterCount[p]
  <2>1. WaitOf(t, p) = 0 /\ WaitOf(t, p)' = 0 /\ SlotOf(t, p)' = 0
    BY DEF SlotOf, WaitOf, SlotPcs, WaitPcs
  <2>2. SlotOf(t, p) = gain(p)
    BY DEF SlotOf, SlotPcs
  <2> QED
    BY <2>1, <2>2
<1> HIDE DEF gain, loss
<1>4. Balanced(t)
  <2>1. ASSUME NEW p \in Origins
        PROVE  /\ openCount'[p] = openCount[p]
                                  + (Len(idle'[p]) - Len(idle[p]))
                                  + (SlotOf(t, p)' - SlotOf(t, p))
               /\ waiterCount'[p] = waiterCount[p]
                                    + (WaitOf(t, p)' - WaitOf(t, p))
    <3> DEFINE i == Len(idle[p])
               x == openCount[p]
               y == waiterCount[p]
               g == gain(p)
               l == loss(p)
    <3>1. i \in Nat /\ x \in Int /\ y \in Int /\ g \in Nat /\ l \in Nat
      BY <1>2
    <3>2. /\ Len(idle'[p]) = (i + g) - l /\ openCount'[p] = x - l
          /\ waiterCount'[p] = y
          /\ WaitOf(t, p) = 0 /\ WaitOf(t, p)' = 0
          /\ SlotOf(t, p) = g /\ SlotOf(t, p)' = 0
      BY <1>3
    <3> HIDE DEF i, x, y, g, l
    <3>3. /\ x - l = x + (((i + g) - l) - i) + (0 - g)
          /\ y = y + (0 - 0)
      BY <3>1
    <3> QED
      BY <3>2, <3>3 DEF i, x, y, g, l
  <2> QED
    BY <2>1 DEF Balanced
<1>5. /\ SlotAccounting'
      /\ \A p \in Origins : openCount'[p] \in Nat
  BY <1>4, CountsKept
<1>6. openCount'[origin[t]] > 0
  <2> DEFINE p == origin[t]
  <2>1. openCount'[p] = Len(idle'[p]) + Cardinality(SlotUsers(p)')
    BY <1>1, <1>5 DEF SlotAccounting
  <2>2. Len(idle'[p]) > 0
    <3>1. gain(p) = 1 /\ (loss(p) = 0 \/ (loss(p) = 1 /\ v = p))
      BY DEF gain, loss
    <3>2. v = p => Len(idle[p]) > 0
      <4>1. idle[p] \in Seq(Conns)
        BY <1>1, OriginTypes
      <4> QED
        BY <1>1, <4>1 DEF TypeInv, TypeOK, PoolAssumption
    <3>3. /\ Len(idle'[p]) = (Len(idle[p]) + gain(p)) - loss(p)
          /\ Len(idle[p]) \in Nat
      BY <1>1, <1>2, <1>3
    <3> HIDE DEF p
    <3> QED
      BY ONLY <3>1, <3>2, <3>3
  <2>3. Cardinality(SlotUsers(p)') \in Nat
    <3>1. SlotUsers(p)' \in SUBSET Tasks
      BY DEF SlotUsers
    <3> QED
      BY <3>1, FS_Subset, FS_CardinalityType DEF PoolAssumption
  <2>4. Len(idle'[p]) \in Nat
    BY <1>1, <1>2
  <2> HIDE DEF p
  <2>5. openCount'[p] > 0
    BY ONLY <2>1, <2>2, <2>3, <2>4
  <2> QED
    BY <2>5 DEF p
<1> DEFINE os == {v}
<1>7. registered' = Retire(registered, os, openCount', waiterCount')
  BY <1>6 DEF Retire
<1>8. \A p \in Origins : /\ openCount'[p] <= openCount[p]
                        /\ waiterCount'[p] <= waiterCount[p]
  BY ONLY <1>2, <1>3
<1>9. \A p \in Origins : p \notin os => openCount'[p] = openCount[p]
                                    /\ waiterCount'[p] = waiterCount[p]
  <2>1. \A p \in Origins : p \notin os => loss(p) = 0
    BY DEF loss
  <2> HIDE DEF os
  <2> QED
    BY ONLY <1>2, <1>3, <2>1
<1> HIDE DEF os
<1> QED
  BY <1>4, <1>7, <1>8, <1>9, AccountingRetire

\* Every step of a task keeps the counters right.
LEMMA TaskStepAccounting ==
  ASSUME PoolAssumption, TypeInv, Accounting,
         NEW t \in Tasks, TaskStep(t) \/ Cancel(t)
  PROVE  Accounting'
<1>1. TypeInv' /\ OnlyWakes(t)
  BY TaskStepType
<1>2. \A u \in Tasks : pc[u] # "none" => origin[u] \in Origins
  BY DEF TypeInv, HandsOK
<1>3. ASSUME UNCHANGED <<origin, stateVars>>,
             \/ pc[t] \in SlotPcs /\ pc'[t] \in SlotPcs
             \/ pc[t] \in WaitPcs /\ pc'[t] \in WaitPcs
             \/ pc[t] = "locking" /\ pc'[t] = "none"
      PROVE  Accounting'
  <2>1. UNCHANGED <<registered, idle, openCount, waiterCount>>
    BY <1>3 DEF stateVars
  <2>2. \A p \in Origins : SlotOf(t, p)' = SlotOf(t, p)
                          /\ WaitOf(t, p)' = WaitOf(t, p)
    BY <1>3 DEF SlotOf, WaitOf, SlotPcs, WaitPcs
  <2> QED
    BY <1>1, <2>1, <2>2, AccountingStutter
<1>4. CASE Enter(t)
  <2>1. \A p \in Origins : waiterCount[p] = waiterCount[p] - WaitOf(t, p)
    BY <1>4, OriginTypes DEF Enter, WaitOf, WaitPcs
  <2>2. waiterCount \in [Origins -> Int]
    BY DEF TypeInv, TypeOK
  <2> QED
    BY <1>1, <1>4, <2>1, <2>2, LoopAccounting DEF Enter
<1>5. CASE Resume(t)
  <2> DEFINE waiters == [waiterCount EXCEPT ![origin[t]] = @ - 1]
  <2>1. /\ pc[t] = "woken" /\ origin' = origin
        /\ AcquireLoop(t, origin[t], waiters)
    BY <1>5 DEF Resume
  <2>2. waiters \in [Origins -> Int]
    BY <1>2, <2>1 DEF TypeInv, TypeOK
  <2>3. \A p \in Origins : waiters[p] = waiterCount[p] - WaitOf(t, p)
    BY <1>2, <2>1 DEF TypeInv, TypeOK, WaitOf, WaitPcs
  <2> HIDE DEF waiters
  <2> QED
    BY <1>1, <2>1, <2>2, <2>3, LoopAccounting
<1>6. CASE ProbeStale(t)
  <2> DEFINE o    == origin[t]
             open == [openCount EXCEPT ![o] = @ - 1]
             gone == {conn[t]}
             touched == {o}
  <2>1. /\ pc[t] = "probing" /\ origin' = origin
        /\ Checkout(t, o, idle, open, waiterCount, registered, gone, touched)
    BY <1>6 DEF ProbeStale
  <2>2. /\ o \in Origins /\ idle \in [Origins -> Seq(Conns)]
        /\ open \in [Origins -> Int] /\ waiterCount \in [Origins -> Int]
    BY <1>2, <2>1 DEF TypeInv, TypeOK
  <2>3. ASSUME NEW p \in Origins
        PROVE  /\ open[p] = openCount[p] + (Len(idle[p]) - Len(idle[p]))
                             - SlotOf(t, p)
               /\ open[p] <= openCount[p]
               /\ waiterCount[p] = waiterCount[p] - WaitOf(t, p)
               /\ p \in registered <=> \/ p = o \/ open[p] > 0
                                       \/ waiterCount[p] > 0
    <3>1. /\ SlotOf(t, p) = IF p = o THEN 1 ELSE 0
          /\ WaitOf(t, p) = 0
      BY <2>1 DEF SlotOf, WaitOf, SlotPcs, WaitPcs
    <3>2. /\ openCount[p] \in Int /\ waiterCount[p] \in Int
          /\ Len(idle[p]) \in Nat
          /\ open[p] = openCount[p] - IF p = o THEN 1 ELSE 0
      <4>1. /\ openCount[p] \in Int /\ waiterCount[p] \in Int
            /\ Len(idle[p]) \in Nat
        BY OriginTypes
      <4>2. openCount \in [Origins -> Int]
        BY DEF TypeInv, TypeOK
      <4>3. open[p] = IF p = o THEN openCount[p] - 1 ELSE openCount[p]
        BY <4>2
      <4> HIDE DEF open, o
      <4> QED
        BY <4>1, <4>3
    <3>3. p = o => openCount[p] > 0
      <4>1. Cardinality(SlotUsers(p)) >= SlotOf(t, p)
            /\ Cardinality(SlotUsers(p)) \in Nat
        BY FiniteUsers
      <4>2. openCount[p] = Len(idle[p]) + Cardinality(SlotUsers(p))
        BY DEF Accounting, SlotAccounting
      <4> QED
        BY <3>1, <3>2, <4>1, <4>2
    <3>4. p \in registered <=> openCount[p] > 0 \/ waiterCount[p] > 0
      BY DEF Accounting, RegisteredWhileUsed
    <3> HIDE DEF open, o
    <3> QED
      BY <3>1, <3>2, <3>3, <3>4
  <2>4. Credits(t, o, idle, open, waiterCount, registered)
    BY <2>3 DEF Credits
  <2>5. origin[t] = o
    OBVIOUS
  <2> HIDE DEF o, open, gone, touched
  <2> QED
    BY <1>1, <2>1, <2>2, <2>4, <2>5, CheckoutAccounting
<1>7. ASSUME pc[t] \in SlotPcs, DropSlot(t)
      PROVE  Accounting'
  <2>1. pc'[t] = "none"
    BY <1>7 DEF DropSlot, NotifyAll, TypeInv, TypeOK
  <2>2. pc[t] # "none"
    BY <1>7 DEF SlotPcs
  <2> QED
    BY <1>1, <1>7, <2>1, <2>2, GiveUpAccounting DEF DropSlot
<1>8. ASSUME pc[t] \in WaitPcs, LeaveCondition(t)
      PROVE  Accounting'
  <2>1. pc'[t] = "none"
    BY <1>8 DEF LeaveCondition, TypeInv, TypeOK
  <2>2. pc[t] # "none"
    BY <1>8 DEF WaitPcs
  <2> QED
    BY <1>1, <1>8, <2>1, <2>2, GiveUpAccounting DEF LeaveCondition
<1>9. CASE CancelProbe(t)
  <2>1. pc'[t] = "none" /\ pc[t] \in SlotPcs /\ pc[t] # "none"
    BY <1>9 DEF CancelProbe, NotifyAll, TypeInv, TypeOK, SlotPcs
  <2> QED
    BY <1>1, <1>9, <2>1, GiveUpAccounting DEF CancelProbe
<1>10. CASE ReleaseKeeping(t)
  <2>1. /\ pc[t] = "releasing" /\ origin' = origin
        /\ pc' = [NotifyAll({} \cup {origin[t]}) EXCEPT ![t] = "none"]
        /\ idle' = [idle EXCEPT ![origin[t]] = Append(@, conn[t])]
        /\ openCount' = openCount /\ waiterCount' = waiterCount
        /\ registered' = registered
    BY <1>10 DEF ReleaseKeeping, Keep
  <2>2. pc'[t] = "none"
    BY <2>1 DEF NotifyAll, TypeInv, TypeOK
  <2>3. ASSUME NEW p \in Origins
        PROVE  /\ Len(idle'[p]) = (Len(idle[p])
                                    + (IF p = origin[t] THEN 1 ELSE 0))
                                   - (IF p = None THEN 1 ELSE 0)
               /\ openCount'[p] = openCount[p] - (IF p = None THEN 1 ELSE 0)
    <3>1. p # None /\ idle[p] \in Seq(Conns) /\ openCount[p] \in Int
      BY OriginTypes DEF PoolAssumption
    <3> QED
      BY <2>1, <3>1 DEF TypeInv, TypeOK
  <2>4. registered' = Retire(registered, {None} \ {origin[t]}, openCount',
                             waiterCount)
    BY <2>1 DEF Retire, TypeInv, TypeOK, PoolAssumption
  <2>5. Swapped(t, None)
    BY <2>3 DEF Swapped
  <2> QED
    BY <1>1, <2>1, <2>2, <2>4, <2>5, KeepAccounting
<1>11. CASE ReleaseEvicting(t)
  <2>1. PICK v \in Origins :
          LET open == [openCount EXCEPT ![v] = @ - 1] IN
          /\ OldestStack(v)
          /\ Keep(t, [idle EXCEPT ![v] = Tail(@)], open,
                  Retire(registered, {v} \ {origin[t]}, open, waiterCount),
                  {idle[v][1]}, {v})
    BY <1>11 DEF ReleaseEvicting
  <2>2. /\ pc[t] = "releasing" /\ origin' = origin
        /\ pc' = [NotifyAll({v} \cup {origin[t]}) EXCEPT ![t] = "none"]
        /\ idle' = [[idle EXCEPT ![v] = Tail(@)]
                      EXCEPT ![origin[t]] = Append(@, conn[t])]
        /\ openCount' = [openCount EXCEPT ![v] = @ - 1]
        /\ waiterCount' = waiterCount
        /\ registered' = Retire(registered, {v} \ {origin[t]}, openCount',
                                waiterCount)
        /\ idle[v] # <<>>
    BY <1>11, <2>1 DEF ReleaseEvicting, Keep, OldestStack
  <2>3. pc'[t] = "none"
    BY <2>2 DEF NotifyAll, TypeInv, TypeOK
  <2>4. ASSUME NEW p \in Origins
        PROVE  /\ Len(idle'[p]) = (Len(idle[p])
                                    + (IF p = origin[t] THEN 1 ELSE 0))
                                   - (IF p = v THEN 1 ELSE 0)
               /\ openCount'[p] = openCount[p] - (IF p = v THEN 1 ELSE 0)
    <3>1. idle[v] \in Seq(Conns) /\ idle[p] \in Seq(Conns)
          /\ openCount[p] \in Int
      BY OriginTypes
    <3>2. Tail(idle[v]) \in Seq(Conns) /\ Len(Tail(idle[v])) = Len(idle[v]) - 1
      BY <2>2, <3>1
    <3> DEFINE stack == [idle EXCEPT ![v] = Tail(@)]
    <3>3. /\ stack[p] \in Seq(Conns) /\ Len(idle[p]) \in Nat
          /\ Len(stack[p]) = Len(idle[p]) - (IF p = v THEN 1 ELSE 0)
      BY <3>1, <3>2 DEF TypeInv, TypeOK
    <3>4. idle'[p] = IF p = origin[t] THEN Append(stack[p], conn[t])
                     ELSE stack[p]
      BY <2>2 DEF TypeInv, TypeOK
    <3>5. openCount'[p] = openCount[p] - (IF p = v THEN 1 ELSE 0)
      BY <2>2, <3>1 DEF TypeInv, TypeOK
    <3> HIDE DEF stack
    <3>6. Len(idle'[p]) = Len(stack[p]) + (IF p = origin[t] THEN 1 ELSE 0)
      <4> DEFINE s == stack[p]
      <4>1. s \in Seq(Conns) /\ conn[t] \in Conns
        BY <2>2, <3>3 DEF TypeInv, HandsOK
      <4> HIDE DEF s
      <4>2. Len(Append(s, conn[t])) = Len(s) + 1 /\ Len(s) \in Nat
        BY ONLY <4>1, AppendProperties
      <4>3. CASE p = origin[t]
        BY <3>4, <4>2, <4>3 DEF s
      <4>4. CASE p # origin[t]
        <5>1. idle'[p] = s
          BY <3>4, <4>4 DEF s
        <5>2. Len(idle'[p]) = Len(s) + 0
          BY <4>2, <5>1
        <5> QED
          BY <4>4, <5>2 DEF s
      <4> QED
        BY <4>3, <4>4
    <3> QED
      BY <3>3, <3>5, <3>6
  <2>5. Swapped(t, v)
    BY <2>4 DEF Swapped
  <2>6. /\ pc[t] = "releasing" /\ origin' = origin
        /\ waiterCount' = waiterCount /\ idle[v] # <<>>
        /\ registered' = Retire(registered, {v} \ {origin[t]}, openCount',
                                waiterCount)
    BY <2>2
  <2> QED
    BY <1>1, <2>3, <2>5, <2>6, KeepAccounting
<1>12. CASE ProbeClean(t)
  BY <1>3, <1>12 DEF ProbeClean, SlotPcs, TypeInv, TypeOK
<1>13. ASSUME NEW c \in Conns, NEW whole \in BOOLEAN, Opened(t, c, whole)
       PROVE  Accounting'
  BY <1>3, <1>13 DEF Opened, SlotPcs, TypeInv, TypeOK
<1>14. CASE Finish(t)
  BY <1>3, <1>14 DEF Finish, SlotPcs, TypeInv, TypeOK
<1>15. CASE EnterClosed(t) \/ CancelLocking(t)
  BY <1>3, <1>15 DEF EnterClosed, CancelLocking, Move, TypeInv, TypeOK
<1>16. CASE OpenFails(t) \/ DialSucceeds(t) \/ CancelDialed(t)
  BY <1>3, <1>16
  DEF OpenFails, DialSucceeds, CancelDialed, Move, SlotPcs, TypeInv, TypeOK
<1>17. CASE CancelWait(t)
  BY <1>3, <1>17 DEF CancelWait, Move, WaitPcs, TypeInv, TypeOK
<1>18. CASE DialFindsPoolClosed(t) \/ CleanUpDial(t) \/ ReleaseClosing(t)
  BY <1>7, <1>18 DEF DialFindsPoolClosed, CleanUpDial, ReleaseClosing, SlotPcs
<1>19. CASE ResumeClosed(t) \/ Unwait(t)
  BY <1>8, <1>19 DEF ResumeClosed, Unwait, WaitPcs
<1> QED
  BY <1>4, <1>5, <1>6, <1>9, <1>10, <1>11, <1>12, <1>13, <1>14, <1>15, <1>16,
     <1>17, <1>18, <1>19
  DEF TaskStep, Cancel

LEMMA AccountingStep ==
  ASSUME PoolAssumption, TypeInv, Accounting, [Next]_vars
  PROVE  Accounting'
<1>1. TypeInv'
  BY TypeInvStep
<1>2. ASSUME NEW t \in Tasks, TaskStep(t) \/ Cancel(t)
      PROVE  Accounting'
  BY <1>2, TaskStepAccounting
<1>3. ASSUME NEW t \in Tasks, NEW o \in Origins, Start(t, o)
      PROVE  Accounting'
  <2>1. OnlyWakes(t)
    BY <1>3 DEF Start, OnlyWakes, TypeInv, TypeOK
  <2>2. \A p \in Origins : SlotOf(t, p)' = SlotOf(t, p)
                          /\ WaitOf(t, p)' = WaitOf(t, p)
    BY <1>3 DEF Start, SlotOf, WaitOf, SlotPcs, WaitPcs, TypeInv, TypeOK
  <2>3. UNCHANGED <<registered, idle, openCount, waiterCount>>
    BY <1>3 DEF Start, stateVars
  <2> QED
    BY <1>1, <2>1, <2>2, <2>3, AccountingStutter
<1>4. CASE Close
  <2>1. ASSUME NEW p \in Origins
        PROVE  SlotUsers(p)' = SlotUsers(p) /\ Waiters(p)' = Waiters(p)
    BY <1>4 DEF Close, NotifyAll, SlotUsers, Waiters, SlotPcs, WaitPcs,
                TypeInv, TypeOK
  <2>2. ASSUME NEW p \in Origins
        PROVE  /\ openCount'[p] = Cardinality(SlotUsers(p)')
               /\ openCount'[p] \in Nat
               /\ openCount'[p] <= openCount[p]
               /\ waiterCount'[p] = waiterCount[p]
               /\ waiterCount[p] = Cardinality(Waiters(p)')
               /\ waiterCount[p] \in Nat
               /\ Len(idle'[p]) = 0
    <3>1. /\ Cardinality(SlotUsers(p)) \in Nat
          /\ Cardinality(Waiters(p)) \in Nat
      <4>1. SlotUsers(p) \in SUBSET Tasks /\ Waiters(p) \in SUBSET Tasks
        BY DEF SlotUsers, Waiters
      <4> QED
        BY <4>1, FS_Subset, FS_CardinalityType DEF PoolAssumption
    <3>2. /\ openCount[p] = Len(idle[p]) + Cardinality(SlotUsers(p))
          /\ waiterCount[p] = Cardinality(Waiters(p))
      BY DEF Accounting, SlotAccounting
    <3>3. Len(idle[p]) \in Nat
      BY OriginTypes
    <3>4. /\ openCount'[p] = openCount[p] - Len(idle[p])
          /\ waiterCount' = waiterCount
          /\ idle'[p] = <<>>
      BY <1>4 DEF Close
    <3> QED
      BY <2>1, <3>1, <3>2, <3>3, <3>4
  <2>3. SlotAccounting'
    BY <2>2 DEF SlotAccounting
  <2>4. \A p \in Origins : openCount'[p] <= MaxPerOrigin
    <3>1. \A p \in Origins : openCount[p] <= MaxPerOrigin /\ openCount[p] \in Int
      BY OriginTypes DEF Accounting
    <3> QED
      BY <2>2, <3>1 DEF PoolAssumption
  <2>5. RegisteredWhileUsed'
    <3>1. registered' = Retire(registered, Origins, openCount', waiterCount)
      BY <1>4 DEF Close
    <3>2. ASSUME NEW p \in Origins
          PROVE  p \in registered' <=> openCount'[p] > 0 \/ waiterCount'[p] > 0
      <4>1. p \in registered <=> openCount[p] > 0 \/ waiterCount[p] > 0
        BY DEF Accounting, RegisteredWhileUsed
      <4>2. p \in registered' <=>
              p \in registered /\ ~(openCount'[p] = 0 /\ waiterCount[p] = 0)
        BY <3>1 DEF Retire
      <4>3. openCount[p] \in Int
        BY OriginTypes
      <4> QED
        BY <2>2, <4>1, <4>2, <4>3
    <3>3. registered' \subseteq Origins
      BY <1>1 DEF TypeInv, TypeOK
    <3> QED
      BY <3>2, <3>3 DEF RegisteredWhileUsed
  <2> QED
    BY <2>3, <2>4, <2>5 DEF Accounting
<1>5. ASSUME UNCHANGED <<taskVars, stateVars>>
      PROVE  Accounting'
  BY <1>5 DEF Accounting, SlotAccounting, RegisteredWhileUsed, SlotUsers,
              Waiters, taskVars, stateVars
<1>6. CASE CallClose \/ CancelClose \/ CloseReturns \/ CancelDraining
  BY <1>5, <1>6 DEF CallClose, CancelClose, CloseReturns, CancelDraining
<1>7. ASSUME NEW c \in Conns, Drained(c) \/ PeerSpeaks(c)
      PROVE  Accounting'
  BY <1>5, <1>7 DEF Drained, PeerSpeaks
<1>8. CASE Tick \/ Finished \/ UNCHANGED vars
  BY <1>5, <1>8 DEF Tick, Finished, vars
<1> QED
  BY <1>2, <1>3, <1>4, <1>6, <1>7, <1>8 DEF Next

LEMMA AccountingAlways == Spec => [](TypeInv /\ Accounting)
<1>1. Init => TypeInv /\ Accounting
  <2> SUFFICES ASSUME Init
               PROVE  Accounting
    BY TypeInvInit, PoolAssumption
  <2>1. \A o \in Origins : SlotUsers(o) = {} /\ Waiters(o) = {}
    BY DEF Init, SlotUsers, Waiters, SlotPcs, WaitPcs
  <2>2. Cardinality({}) = 0
    BY FS_EmptySet
  <2>3. \A o \in Origins : openCount[o] = 0 /\ waiterCount[o] = 0
                           /\ Len(idle[o]) = 0
    BY DEF Init
  <2>4. SlotAccounting
    <3>1. \A o \in Origins : /\ Cardinality(SlotUsers(o)) = 0
                            /\ Cardinality(Waiters(o)) = 0
      BY <2>1, <2>2
    <3> QED
      BY <2>3, <3>1 DEF SlotAccounting
  <2>5. RegisteredWhileUsed
    BY <2>3 DEF Init, RegisteredWhileUsed
  <2> QED
    BY <2>3, <2>4, <2>5, PoolAssumption DEF Accounting, PoolAssumption
<1>2. TypeInv /\ Accounting /\ [Next]_vars => (TypeInv /\ Accounting)'
  BY PoolAssumption, TypeInvStep, AccountingStep
<1> QED
  BY <1>1, <1>2, PTL DEF Spec

\* The pool's counters say how many slots are taken and how many tasks wait,
\* through every cancellation, failed dial and eviction.
THEOREM CountersCorrect == Spec => []SlotAccounting
<1>1. TypeInv /\ Accounting => SlotAccounting
  BY DEF Accounting
<1> QED
  BY <1>1, AccountingAlways, PTL

\* _origins holds an origin exactly as long as a connection, a dial or a
\* waiter needs its state, so release() and the end of a dial always find it.
THEOREM RegistrationCorrect == Spec => []RegisteredWhileUsed
<1>1. TypeInv /\ Accounting => RegisteredWhileUsed
  BY DEF Accounting
<1> QED
  BY <1>1, AccountingAlways, PTL

\* No origin ever has more open connections than max_connections_per_origin.
THEOREM CapNeverExceeded == Spec => []CapRespected
<1>1. ASSUME TypeInv, Accounting
      PROVE  CapRespected
  <2> SUFFICES ASSUME NEW o \in Origins
               PROVE  Cardinality((IdleConns(o) \cup
                                   {conn[t] : t \in SlotUsers(o)}) \ {None})
                        <= MaxPerOrigin
    BY DEF CapRespected
  <2> DEFINE n    == Len(idle[o])
             used == SlotUsers(o)
             I    == IdleConns(o)
             H    == {conn[t] : t \in used}
  <2>1. n \in Nat /\ openCount[o] \in Int
    BY <1>1, OriginTypes
  <2>2. IsFiniteSet(used) /\ Cardinality(used) \in Nat
    <3>1. used \in SUBSET Tasks
      BY DEF SlotUsers
    <3> QED
      BY <3>1, FS_Subset, FS_CardinalityType, PoolAssumption
      DEF PoolAssumption
  <2>3. IsFiniteSet(1..n) /\ Cardinality(1..n) = n
    <3>1. 1 \in Int /\ n \in Int
      BY <2>1
    <3> HIDE DEF n
    <3>2. IsFiniteSet(1..n) /\ Cardinality(1..n) = IF 1 > n THEN 0 ELSE n - 1 + 1
      BY <3>1, FS_Interval
    <3>3. n \in Nat
      BY <2>1
    <3> QED
      BY <3>2, <3>3
  <2>4. IsFiniteSet(I) /\ Cardinality(I) <= n
    <3> DEFINE S == 1..n
               T == {idle[o][i] : i \in S}
               f == [i \in S |-> idle[o][i]]
    <3>1. f \in Surjection(S, T)
      BY DEF Surjection
    <3>2. IsFiniteSet(S) /\ Cardinality(S) = n
      BY <2>3
    <3>3. I = T
      BY DEF IdleConns
    <3> HIDE DEF S, T, f, n, I
    <3> QED
      BY <3>1, <3>2, <3>3, FS_Surjection
  <2>5. IsFiniteSet(H) /\ Cardinality(H) <= Cardinality(used)
    <3> DEFINE f == [t \in used |-> conn[t]]
    <3>1. f \in Surjection(used, H)
      BY DEF Surjection
    <3> HIDE DEF f, used, H
    <3> QED
      BY <2>2, <3>1, FS_Surjection
  <2> HIDE DEF I, H
  <2>6. /\ IsFiniteSet(I \cup H)
        /\ Cardinality(I \cup H) =
             Cardinality(I) + Cardinality(H) - Cardinality(I \cap H)
        /\ IsFiniteSet(I \cap H)
    BY <2>4, <2>5, FS_Union, FS_Intersection
  <2>7. Cardinality((I \cup H) \ {None}) <= Cardinality(I \cup H)
    BY <2>6, FS_Subset
  <2>8. /\ Cardinality(I) \in Nat /\ Cardinality(H) \in Nat
        /\ Cardinality(I \cap H) \in Nat
        /\ Cardinality((I \cup H) \ {None}) \in Nat
    <3>1. IsFiniteSet((I \cup H) \ {None})
      BY <2>6, FS_Subset
    <3> QED
      BY <2>4, <2>5, <2>6, <3>1, FS_CardinalityType
  <2>9. openCount[o] = n + Cardinality(used) /\ openCount[o] <= MaxPerOrigin
    BY <1>1 DEF Accounting, SlotAccounting
  <2>10. MaxPerOrigin \in Nat
    BY PoolAssumption DEF PoolAssumption
  <2> HIDE DEF n, used
  <2>11. Cardinality((I \cup H) \ {None}) <= MaxPerOrigin
    BY <2>1, <2>2, <2>4, <2>5, <2>6, <2>7, <2>8, <2>9, <2>10
  <2> QED
    BY <2>11 DEF I, H, used
<1>2. TypeInv /\ Accounting => CapRespected
  BY <1>1
<1> QED
  BY <1>2, AccountingAlways, PTL

-----------------------------------------------------------------------------
(***************************************************************************)
(* Who owns each transport, and what that decides: exclusive use, clean    *)
(* reuse, no lost wakeup, eviction in order.                               *)
(***************************************************************************)

\* Every transport of lv is in exactly one place: one position of one of the
\* stacks st, or one of the hands hd; and no place has a transport besides
\* those of lv.
Owned(st, hd, lv) ==
  /\ \A p \in Origins : \A i \in 1..Len(st[p]) : st[p][i] \in lv
  /\ \A t \in Tasks : hd[t] # None => hd[t] \in lv
  /\ \A c \in lv : \/ \E p \in Origins : \E i \in 1..Len(st[p]) : st[p][i] = c
                   \/ \E t \in Tasks : hd[t] = c
  /\ \A p \in Origins : \A i \in 1..Len(st[p]) :
       \A t \in Tasks : st[p][i] # hd[t]
  /\ \A s, t \in Tasks : hd[s] = hd[t] /\ hd[s] # None => s = t
  /\ \A o, p \in Origins : \A i \in 1..Len(st[o]), j \in 1..Len(st[p]) :
       st[o][i] = st[p][j] => o = p /\ i = j

\* Each stack has its oldest connection at the bottom.
Sorted(st, age) ==
  \A p \in Origins : \A i, j \in 1..Len(st[p]) :
    i <= j => age[st[p][i]] <= age[st[p][j]]

Stacks == [Origins -> Seq(Conns)]
Hands  == [Tasks -> Conns \cup {None}]

\* Each stack of small is the part of the stack of big that starts above its
\* first lo[p] entries.
Windows(big, small, lo) ==
  \A p \in Origins :
    /\ lo[p] \in Nat
    /\ lo[p] + Len(small[p]) <= Len(big[p])
    /\ \A i \in 1..Len(small[p]) : small[p][i] = big[p][i + lo[p]]

\* What a window leaves out.
Outside(big, small, lo) ==
  {c \in Conns : \E p \in Origins : \E i \in 1..Len(big[p]) :
                   /\ big[p][i] = c
                   /\ i <= lo[p] \/ i > lo[p] + Len(small[p])}

-----------------------------------------------------------------------------
\* What the critical sections do to the stacks and the hands.

\* Closing what lies outside a window of each stack leaves the rest owned and
\* in order.
LEMMA CutOwned ==
  ASSUME NEW big \in Stacks, NEW small \in Stacks, NEW lo,
         Windows(big, small, lo),
         NEW hd \in Hands, NEW lv \in SUBSET Conns, NEW age,
         Owned(big, hd, lv), Sorted(big, age)
  PROVE  Owned(small, hd, lv \ Outside(big, small, lo)) /\ Sorted(small, age)
<1>1. ASSUME NEW p \in Origins, NEW i \in 1..Len(small[p])
      PROVE  /\ i + lo[p] \in 1..Len(big[p])
             /\ small[p][i] = big[p][i + lo[p]]
             /\ i + lo[p] > lo[p] /\ i + lo[p] <= lo[p] + Len(small[p])
  <2>1. Len(small[p]) \in Nat /\ Len(big[p]) \in Nat
    BY DEF Stacks
  <2> QED
    BY <2>1 DEF Windows
<1>2. ASSUME NEW p \in Origins, NEW i \in 1..Len(big[p]),
             ~(i <= lo[p] \/ i > lo[p] + Len(small[p]))
      PROVE  \E j \in 1..Len(small[p]) : small[p][j] = big[p][i]
  <2>1. Len(small[p]) \in Nat /\ Len(big[p]) \in Nat /\ lo[p] \in Nat
    BY DEF Stacks, Windows
  <2>2. i - lo[p] \in 1..Len(small[p]) /\ (i - lo[p]) + lo[p] = i
    BY <1>2, <2>1
  <2> QED
    BY <1>1, <2>2
<1>3. \A p \in Origins : \A i \in 1..Len(small[p]) :
        small[p][i] \in lv \ Outside(big, small, lo)
  <2> SUFFICES ASSUME NEW p \in Origins, NEW i \in 1..Len(small[p]),
                      NEW q \in Origins, NEW j \in 1..Len(big[q]),
                      big[q][j] = small[p][i],
                      j <= lo[q] \/ j > lo[q] + Len(small[q])
               PROVE  FALSE
    BY <1>1 DEF Owned, Outside
  <2>1. q = p /\ j = i + lo[p]
    BY <1>1 DEF Owned
  <2> QED
    BY <1>1, <2>1 DEF Windows
<1>4. \A t \in Tasks : hd[t] # None => hd[t] \in lv \ Outside(big, small, lo)
  BY DEF Owned, Outside
<1>5. \A c \in lv \ Outside(big, small, lo) :
        \/ \E p \in Origins : \E i \in 1..Len(small[p]) : small[p][i] = c
        \/ \E t \in Tasks : hd[t] = c
  <2> SUFFICES ASSUME NEW c \in lv \ Outside(big, small, lo),
                      NEW p \in Origins, NEW i \in 1..Len(big[p]),
                      big[p][i] = c
               PROVE  \E j \in 1..Len(small[p]) : small[p][j] = c
    BY DEF Owned
  <2> QED
    BY <1>2 DEF Outside
<1>6. \A p \in Origins : \A i \in 1..Len(small[p]) :
        \A t \in Tasks : small[p][i] # hd[t]
  BY <1>1 DEF Owned
<1>7. \A o, p \in Origins :
        \A i \in 1..Len(small[o]), j \in 1..Len(small[p]) :
          small[o][i] = small[p][j] => o = p /\ i = j
  <2> SUFFICES ASSUME NEW o \in Origins, NEW p \in Origins,
                      NEW i \in 1..Len(small[o]), NEW j \in 1..Len(small[p]),
                      small[o][i] = small[p][j]
               PROVE  o = p /\ i = j
    OBVIOUS
  <2>1. /\ i + lo[o] \in 1..Len(big[o]) /\ j + lo[p] \in 1..Len(big[p])
        /\ big[o][i + lo[o]] = big[p][j + lo[p]]
    BY <1>1
  <2>2. o = p /\ i + lo[o] = j + lo[p]
    BY <2>1 DEF Owned
  <2> QED
    BY <2>2 DEF Windows
<1>8. Sorted(small, age)
  <2> SUFFICES ASSUME NEW p \in Origins, NEW i \in 1..Len(small[p]),
                      NEW j \in 1..Len(small[p]), i <= j
               PROVE  age[small[p][i]] <= age[small[p][j]]
    BY DEF Sorted
  <2>1. i + lo[p] <= j + lo[p]
    BY DEF Windows
  <2> QED
    BY <1>1, <2>1 DEF Sorted
<1> QED
  BY <1>3, <1>4, <1>5, <1>6, <1>7, <1>8 DEF Owned

\* The stacks of big are those of small with c on top of the one of o.
Topped(small, big, o, c) ==
  /\ Len(big[o]) = Len(small[o]) + 1
  /\ big[o][Len(small[o]) + 1] = c
  /\ \A i \in 1..Len(small[o]) : big[o][i] = small[o][i]
  /\ \A p \in Origins \ {o} : big[p] = small[p]

\* The hand of t ends up with c, no other changes.
Handed(hd, h2, t, c) ==
  h2[t] = c /\ \A u \in Tasks \ {t} : h2[u] = hd[u]

\* The top of a stack goes into an empty hand.
LEMMA TakeOwned ==
  ASSUME PoolAssumption,
         NEW big \in Stacks, NEW small \in Stacks, NEW o \in Origins, NEW c,
         NEW hd \in Hands, NEW h2, NEW t \in Tasks,
         Topped(small, big, o, c), hd[t] = None, Handed(hd, h2, t, c),
         NEW lv \in SUBSET Conns, NEW age,
         Owned(big, hd, lv), Sorted(big, age)
  PROVE  Owned(small, h2, lv) /\ Sorted(small, age)
<1> DEFINE n == Len(big[o])
<1>1. /\ Len(small[o]) \in Nat /\ n = Len(small[o]) + 1
      /\ n \in 1..Len(big[o]) /\ c = big[o][n] /\ c \in Conns /\ c # None
  BY DEF Stacks, Topped, PoolAssumption
<1>2. ASSUME NEW p \in Origins, NEW i \in 1..Len(small[p])
      PROVE  i \in 1..Len(big[p]) /\ small[p][i] = big[p][i] /\ (p = o => i # n)
  BY <1>1 DEF Topped
<1>3. ASSUME NEW p \in Origins, NEW i \in 1..Len(big[p]), ~(p = o /\ i = n)
      PROVE  i \in 1..Len(small[p]) /\ small[p][i] = big[p][i]
  BY <1>1, <1>3 DEF Topped
<1>4. h2[t] = c /\ \A u \in Tasks \ {t} : h2[u] = hd[u]
  BY DEF Handed
<1> HIDE DEF n
<1>5. \A p \in Origins : \A i \in 1..Len(small[p]) : small[p][i] \in lv
  BY <1>2 DEF Owned
<1>6. \A u \in Tasks : h2[u] # None => h2[u] \in lv
  BY <1>1, <1>4 DEF Owned
<1>7. \A d \in lv :
        \/ \E p \in Origins : \E i \in 1..Len(small[p]) : small[p][i] = d
        \/ \E u \in Tasks : h2[u] = d
  <2> SUFFICES ASSUME NEW d \in lv, d # c
               PROVE  \/ \E p \in Origins : \E i \in 1..Len(small[p]) :
                           small[p][i] = d
                      \/ \E u \in Tasks : h2[u] = d
    BY <1>4
  <2>1. CASE \E p \in Origins : \E i \in 1..Len(big[p]) : big[p][i] = d
    BY <1>1, <1>3, <2>1
  <2>2. CASE \E u \in Tasks : hd[u] = d
    <3>1. d # None
      BY DEF PoolAssumption
    <3> QED
      BY <1>4, <2>2, <3>1
  <2> QED
    BY <2>1, <2>2 DEF Owned
<1>8. \A p \in Origins : \A i \in 1..Len(small[p]) :
        \A u \in Tasks : small[p][i] # h2[u]
  <2> SUFFICES ASSUME NEW p \in Origins, NEW i \in 1..Len(small[p]),
                      NEW u \in Tasks, small[p][i] = h2[u]
               PROVE  FALSE
    OBVIOUS
  <2>1. CASE u = t
    <3>1. big[p][i] = big[o][n]
      BY <1>1, <1>2, <1>4, <2>1
    <3> QED
      BY <1>1, <1>2, <3>1 DEF Owned
  <2>2. CASE u # t
    BY <1>2, <1>4, <2>2 DEF Owned
  <2> QED
    BY <2>1, <2>2
<1>9. \A s, u \in Tasks : h2[s] = h2[u] /\ h2[s] # None => s = u
  <2>1. \A u \in Tasks : hd[u] # c
    BY <1>1 DEF Owned
  <2> QED
    BY <1>4, <2>1 DEF Owned
<1>10. \A q, p \in Origins :
         \A i \in 1..Len(small[q]), j \in 1..Len(small[p]) :
           small[q][i] = small[p][j] => q = p /\ i = j
  BY <1>2 DEF Owned
<1>11. Owned(small, h2, lv)
  BY <1>5, <1>6, <1>7, <1>8, <1>9, <1>10 DEF Owned
<1>12. Sorted(small, age)
  BY <1>2 DEF Sorted
<1> QED
  BY <1>11, <1>12

\* What a hand gives up is not live any more.
LEMMA DropOwned ==
  ASSUME PoolAssumption,
         NEW st \in Stacks, NEW hd \in Hands, NEW t \in Tasks,
         NEW lv \in SUBSET Conns, Owned(st, hd, lv),
         NEW h2, Handed(hd, h2, t, None)
  PROVE  Owned(st, h2, lv \ {hd[t]})
BY DEF Owned, Handed, Stacks, Hands, PoolAssumption

\* The transport in a hand goes on top of a stack and becomes the youngest.
LEMMA PushOwned ==
  ASSUME PoolAssumption,
         NEW st \in Stacks, NEW big \in Stacks, NEW o \in Origins,
         NEW hd \in Hands, NEW h2, NEW t \in Tasks, NEW c,
         hd[t] = c, c # None, Topped(st, big, o, c), Handed(hd, h2, t, None),
         NEW lv \in SUBSET Conns,
         NEW age \in [Conns -> Nat], NEW age2,
         \A d \in Conns : age2[d] = IF d = c THEN now ELSE age[d],
         \A d \in Conns : age[d] <= now, now \in Nat,
         Owned(st, hd, lv), Sorted(st, age)
  PROVE  Owned(big, h2, lv) /\ Sorted(big, age2)
<1> DEFINE n == Len(big[o])
<1>1. /\ Len(st[o]) \in Nat /\ n = Len(st[o]) + 1
      /\ n \in 1..Len(big[o]) /\ c \in Conns /\ c # None /\ big[o][n] = c
  BY DEF Stacks, Hands, Topped
<1>2. ASSUME NEW p \in Origins, NEW i \in 1..Len(big[p]), ~(p = o /\ i = n)
      PROVE  i \in 1..Len(st[p]) /\ big[p][i] = st[p][i]
  BY <1>1, <1>2 DEF Topped
<1>3. ASSUME NEW p \in Origins, NEW i \in 1..Len(st[p])
      PROVE  /\ i \in 1..Len(big[p]) /\ st[p][i] = big[p][i]
             /\ (p = o => i # n)
  BY <1>1 DEF Topped
<1>4. h2[t] = None /\ \A u \in Tasks \ {t} : h2[u] = hd[u] /\ hd[u] # c
  BY DEF Handed, Owned
<1>0. c \in lv /\ \A p \in Origins : \A i \in 1..Len(st[p]) : st[p][i] # c
  BY DEF Owned
<1> HIDE DEF n
<1>a. ASSUME NEW p \in Origins, NEW i \in 1..Len(big[p])
      PROVE  big[p][i] = c <=> p = o /\ i = n
  <2>1. CASE p = o /\ i = n
    BY <1>1, <2>1
  <2>2. CASE ~(p = o /\ i = n)
    BY <1>0, <1>2, <2>2
  <2> QED
    BY <2>1, <2>2
<1>5. \A p \in Origins : \A i \in 1..Len(big[p]) : big[p][i] \in lv
  <2> SUFFICES ASSUME NEW p \in Origins, NEW i \in 1..Len(big[p]),
                      big[p][i] # c
               PROVE  big[p][i] \in lv
    BY <1>0
  <2>1. i \in 1..Len(st[p]) /\ big[p][i] = st[p][i]
    BY <1>2, <1>a
  <2> QED
    BY <2>1 DEF Owned
<1>6. \A u \in Tasks : h2[u] # None => h2[u] \in lv
  BY <1>4 DEF Owned
<1>7. \A d \in lv :
        \/ \E p \in Origins : \E i \in 1..Len(big[p]) : big[p][i] = d
        \/ \E u \in Tasks : h2[u] = d
  <2> SUFFICES ASSUME NEW d \in lv, d # c
               PROVE  \/ \E p \in Origins : \E i \in 1..Len(big[p]) :
                           big[p][i] = d
                      \/ \E u \in Tasks : h2[u] = d
    BY <1>1
  <2>1. CASE \E p \in Origins : \E i \in 1..Len(st[p]) : st[p][i] = d
    BY <1>3, <2>1
  <2>2. CASE \E u \in Tasks : hd[u] = d
    BY <1>4, <2>2
  <2> QED
    BY <2>1, <2>2 DEF Owned
<1>8. \A p \in Origins : \A i \in 1..Len(big[p]) :
        \A u \in Tasks : big[p][i] # h2[u]
  <2> SUFFICES ASSUME NEW p \in Origins, NEW i \in 1..Len(big[p]),
                      NEW u \in Tasks, big[p][i] = h2[u]
               PROVE  FALSE
    OBVIOUS
  <2>1. big[p][i] # None
    BY DEF Stacks, PoolAssumption
  <2>2. u # t /\ h2[u] = hd[u] /\ hd[u] # c
    BY <1>4, <2>1
  <2> QED
    BY <1>1, <1>2, <2>2 DEF Owned
<1>9. \A s, u \in Tasks : h2[s] = h2[u] /\ h2[s] # None => s = u
  BY <1>4 DEF Owned
<1>10. \A q, p \in Origins :
         \A i \in 1..Len(big[q]), j \in 1..Len(big[p]) :
           big[q][i] = big[p][j] => q = p /\ i = j
  <2> SUFFICES ASSUME NEW q \in Origins, NEW p \in Origins,
                      NEW i \in 1..Len(big[q]), NEW j \in 1..Len(big[p]),
                      big[q][i] = big[p][j]
               PROVE  q = p /\ i = j
    OBVIOUS
  <2>1. CASE q = o /\ i = n
    BY <1>a, <2>1
  <2>2. CASE p = o /\ j = n
    BY <1>a, <2>2
  <2>3. CASE ~(q = o /\ i = n) /\ ~(p = o /\ j = n)
    BY <1>2, <2>3 DEF Owned
  <2> QED
    BY <2>1, <2>2, <2>3
<1>11. Owned(big, h2, lv)
  BY <1>5, <1>6, <1>7, <1>8, <1>9, <1>10 DEF Owned
<1>12. Sorted(big, age2)
  <2> SUFFICES ASSUME NEW p \in Origins, NEW i \in 1..Len(big[p]),
                      NEW j \in 1..Len(big[p]), i <= j
               PROVE  age2[big[p][i]] <= age2[big[p][j]]
    BY DEF Sorted
  <2>1. big[p][i] \in Conns /\ big[p][j] \in Conns
    BY DEF Stacks
  <2>2. \A d \in Conns : age2[d] = IF d = c THEN now ELSE age[d]
    OBVIOUS
  <2>3. \A d \in Conns : age2[d] <= now
    BY <2>2
  <2>4. CASE p = o /\ j = n
    BY <1>1, <2>1, <2>2, <2>3, <2>4
  <2>5. CASE ~(p = o /\ j = n)
    <3>1. ~(p = o /\ i = n)
      <4>1. CASE p = o
        BY <1>1, <2>5, <4>1 DEF n
      <4> QED
        BY <4>1
    <3>2. /\ i \in 1..Len(st[p]) /\ big[p][i] = st[p][i]
          /\ j \in 1..Len(st[p]) /\ big[p][j] = st[p][j]
      BY <1>2, <2>5, <3>1
    <3>3. age[st[p][i]] <= age[st[p][j]]
      BY <3>2 DEF Sorted
    <3> QED
      BY <1>0, <2>1, <2>2, <3>2, <3>3
  <2> QED
    BY <2>4, <2>5
<1> QED
  BY <1>11, <1>12

\* A dial puts a transport nobody has into an empty hand.
LEMMA OpenOwned ==
  ASSUME PoolAssumption,
         NEW st \in Stacks, NEW hd \in Hands, NEW t \in Tasks, hd[t] = None,
         NEW lv \in SUBSET Conns, NEW c \in Conns \ lv, Owned(st, hd, lv),
         NEW h2, Handed(hd, h2, t, c)
  PROVE  Owned(st, h2, lv \cup {c})
BY DEF Owned, Handed, Stacks, Hands, PoolAssumption
-----------------------------------------------------------------------------
\* A connection that is probed or handed out had its input read up to the
\* start of the probe, or was dialed for the request.
Clean ==
  \A t \in Tasks : pc[t] \in {"probing", "dialed", "holding"} =>
    input[conn[t]] # "pending"

\* aclose() does not run under a probe, which keeps the lock.
ProbeOpen == \A t \in Tasks : pc[t] = "probing" => ~closed

\* The inductive invariant.
Ownership ==
  /\ Owned(idle, conn, live)
  /\ Sorted(idle, since)
  /\ \A c \in Conns : since[c] <= now
  /\ Clean
  /\ ProbeOpen
  /\ NoLostWakeup

\* A critical section tells the waiters of each origin it closes a
\* connection of, or gives a slot back to.
Told(stack, open, touched) ==
  \A p \in Origins \ touched :
    open[p] = openCount[p] /\ Len(stack[p]) = Len(idle[p])

\* A checkout, whatever was pruned, evicted or given up before it in the same
\* critical section.
LEMMA CheckoutOwnership ==
  ASSUME PoolAssumption, TypeInv, TypeInv', Ownership,
         NEW t \in Tasks, OnlyWakes(t),
         NEW o \in Origins, origin[t] = o, pc[t] # "none", ~closed,
         NEW stack \in Stacks, NEW open \in [Origins -> Int],
         NEW waiters, NEW reg, NEW gone \in SUBSET Conns, NEW touched,
         Checkout(t, o, stack, open, waiters, reg, gone, touched),
         UNCHANGED <<origin, keep, requests, since, input, closeVars, now>>,
         Owned(stack, [conn EXCEPT ![t] = None], live \ gone),
         Sorted(stack, since),
         Told(stack, open, touched)
  PROVE  Ownership'
<1> DEFINE s  == stack[o]
           hd == [conn EXCEPT ![t] = None]
           lv == live \ gone
<1>1. PICK k \in 0..Len(s) :
        /\ k > 0 => ~Stale(s[k])
        /\ CloseWriters(gone \cup {s[i] : i \in (k + 1)..Len(s)})
        /\ \E woken :
           /\ woken = NotifyAll(touched \cup {p \in {o} : Len(s) - k > 0})
           /\ \/ /\ k > 0
                 /\ idle' = [stack EXCEPT ![o] = SubSeq(s, 1, k - 1)]
                 /\ openCount' = [open EXCEPT ![o] = @ - (Len(s) - k)]
                 /\ pc' = [woken EXCEPT ![t] = "probing"]
                 /\ conn' = [conn EXCEPT ![t] = s[k]]
              \/ /\ k = 0
                 /\ idle' = [stack EXCEPT ![o] = <<>>]
                 /\ openCount' = [open EXCEPT ![o] = (@ - (Len(s) - k)) + 1]
                 /\ pc' = [woken EXCEPT ![t] = "dialing"]
                 /\ conn' = [conn EXCEPT ![t] = None]
              \/ /\ k = 0
                 /\ ~UnderCap(open[o] - (Len(s) - k))
                 /\ idle' = [stack EXCEPT ![o] = <<>>]
                 /\ openCount' = [open EXCEPT ![o] = @ - (Len(s) - k)]
                 /\ pc' = [woken EXCEPT ![t] = "waiting"]
                 /\ conn' = [conn EXCEPT ![t] = None]
  BY DEF Checkout
<1>2. /\ s \in Seq(Conns) /\ Len(s) \in Nat /\ k \in Nat /\ k <= Len(s)
      /\ hd \in Hands /\ hd[t] = None /\ lv \in SUBSET Conns
  BY DEF Stacks, Hands, TypeInv, TypeOK
<1> DEFINE low == SubSeq(s, 1, k)
           mid == [stack EXCEPT ![o] = low]
           lo  == [p \in Origins |-> 0]
           out == {s[i] : i \in (k + 1)..Len(s)}
<1>3. /\ low \in Seq(Conns) /\ Len(low) = k
      /\ \A i \in 1..k : low[i] = s[i]
  BY <1>2, SlicesAreSequences
<1>4. /\ mid \in Stacks /\ mid[o] = low
      /\ \A p \in Origins \ {o} : mid[p] = stack[p]
  BY <1>3 DEF Stacks
<1> HIDE DEF low, mid
<1>5. Windows(stack, mid, lo)
  <2> SUFFICES ASSUME NEW p \in Origins
               PROVE  /\ lo[p] \in Nat
                      /\ lo[p] + Len(mid[p]) <= Len(stack[p])
                      /\ \A i \in 1..Len(mid[p]) :
                           mid[p][i] = stack[p][i + lo[p]]
    BY DEF Windows
  <2>1. lo[p] = 0 /\ Len(stack[p]) \in Nat
    BY DEF Stacks
  <2>2. Len(mid[p]) <= Len(stack[p]) /\ Len(mid[p]) \in Nat
    BY <1>2, <1>3, <1>4, <2>1
  <2>3. \A i \in 1..Len(mid[p]) : mid[p][i] = stack[p][i]
    BY <1>3, <1>4
  <2> HIDE DEF lo
  <2> QED
    BY <2>1, <2>2, <2>3
<1>6. Outside(stack, mid, lo) = out
  <2>1. ASSUME NEW p \in Origins, NEW i \in 1..Len(stack[p])
        PROVE  (i <= lo[p] \/ i > lo[p] + Len(mid[p])) <=> (p = o /\ i > k)
    BY <1>2, <1>3, <1>4 DEF Stacks
  <2>2. \A i \in 1..Len(s) : s[i] \in Conns
    BY <1>2
  <2> HIDE DEF lo
  <2> QED
    BY <1>2, <2>1, <2>2 DEF Outside
<1>8. live' = lv \ out
  BY <1>1 DEF CloseWriters
<1>7. Owned(mid, hd, live') /\ Sorted(mid, since)
  <2> HIDE DEF hd, lv, lo, out
  <2>1. Owned(stack, hd, lv)
    BY DEF hd, lv
  <2> QED
    BY <1>2, <1>4, <1>5, <1>6, <1>8, <2>1, CutOwned
<1>9. Owned(idle, conn, live)' /\ Sorted(idle, since)'
  <2>1. CASE conn' = [conn EXCEPT ![t] = s[k]] /\ k > 0
             /\ idle' = [stack EXCEPT ![o] = SubSeq(s, 1, k - 1)]
    <3>1. /\ SubSeq(s, 1, k - 1) \in Seq(Conns)
          /\ Len(SubSeq(s, 1, k - 1)) = k - 1
          /\ \A i \in 1..(k - 1) : SubSeq(s, 1, k - 1)[i] = s[i]
      BY <1>2, <2>1, SlicesAreSequences
    <3>2. /\ idle' \in Stacks
          /\ idle'[o] = SubSeq(s, 1, k - 1)
          /\ \A p \in Origins \ {o} : idle'[p] = mid[p]
      BY <1>4, <2>1, <3>1 DEF Stacks
    <3>3. Topped(idle', mid, o, s[k])
      BY <1>2, <1>3, <1>4, <2>1, <3>1, <3>2 DEF Topped
    <3>4. Handed(hd, conn', t, s[k])
      BY <2>1 DEF Handed, TypeInv, TypeOK
    <3> HIDE DEF hd, lv, out, s
    <3>5. live' \in SUBSET Conns
      BY DEF TypeInv, TypeOK
    <3>6. Owned(idle', conn', live') /\ Sorted(idle', since)
      BY <1>2, <1>4, <1>7, <3>2, <3>3, <3>4, <3>5, TakeOwned
    <3> QED
      BY <3>6
  <2>2. CASE conn' = hd /\ k = 0 /\ idle' = [stack EXCEPT ![o] = <<>>]
    <3>1. idle' = mid
      <4>1. low = <<>>
        BY <1>2, <1>3, <2>2
      <4> QED
        BY <2>2, <4>1 DEF mid
    <3> QED
      BY <1>7, <2>2, <3>1
  <2> QED
    BY <1>1, <2>1, <2>2
<1>10. /\ pc'[t] \in {"probing", "dialing", "waiting"}
       /\ pc'[t] = "probing" => ~Stale(conn'[t])
  BY <1>1 DEF NotifyAll, TypeInv, TypeOK
<1>11. Clean'
  BY <1>10 DEF Clean, OnlyWakes, Stale, Ownership
<1>12. ProbeOpen'
  BY DEF ProbeOpen, OnlyWakes, Ownership, closeVars
<1>13. NoLostWakeup'
  <2> SUFFICES ASSUME NEW u \in Tasks, pc'[u] = "waiting"
               PROVE  /\ openCount'[origin[u]] >= MaxPerOrigin
                      /\ idle'[origin[u]] = <<>>
    BY DEF NoLostWakeup, closeVars
  <2>1. CASE u = t
    BY <1>1, <1>2, <2>1 DEF UnderCap, NotifyAll, TypeInv, TypeOK, Stacks, PoolAssumption
  <2>2. CASE u # t
    <3> DEFINE p == origin[u]
    <3>1. /\ pc[u] = "waiting" /\ p \in Origins
          /\ openCount[p] >= MaxPerOrigin /\ idle[p] = <<>>
      BY <2>2 DEF OnlyWakes, Ownership, NoLostWakeup, TypeInv, HandsOK
    <3>2. p \notin touched /\ (p = o => Len(s) = k)
      <4> DEFINE os == touched \cup {q \in {o} : Len(s) - k > 0}
      <4>1. pc'[u] = NotifyAll(os)[u]
        BY <1>1, <2>2 DEF NotifyAll, TypeInv, TypeOK
      <4>2. p \notin os
        BY <3>1, <4>1 DEF NotifyAll
      <4> QED
        BY <1>2, <4>2
    <3>3. /\ open[p] = openCount[p] /\ Len(stack[p]) = 0
          /\ stack[p] = <<>>
      BY <3>1, <3>2 DEF Told, Stacks
    <3>4. CASE p = o
      BY <1>1, <1>2, <3>1, <3>2, <3>3, <3>4 DEF PoolAssumption, Stacks
    <3>5. CASE p # o
      BY <1>1, <1>2, <3>1, <3>3, <3>5 DEF PoolAssumption, Stacks
    <3> QED
      BY <3>4, <3>5
  <2> QED
    BY <2>1, <2>2
<1> QED
  BY <1>9, <1>11, <1>12, <1>13 DEF Ownership

\* A turn of acquire()'s loop: prune, then a checkout.
LEMMA LoopOwnership ==
  ASSUME PoolAssumption, TypeInv, TypeInv', Ownership,
         NEW t \in Tasks, OnlyWakes(t),
         pc[t] \in {"locking", "woken"}, ~closed,
         NEW waiters, AcquireLoop(t, origin[t], waiters),
         UNCHANGED <<origin, keep, requests, since, input, closeVars, now>>
  PROVE  Ownership'
<1>1. PICK cut \in Expired :
        LET stack == [p \in Origins |->
                        SubSeq(idle[p], cut[p] + 1, Len(idle[p]))]
            open  == [p \in Origins |-> openCount[p] - cut[p]]
            gone  == UNION {{idle[p][i] : i \in 1..cut[p]} : p \in Origins}
            reg   == IF IdleTimeout = None THEN registered \cup {origin[t]}
                     ELSE Retire(registered \cup {origin[t]},
                                 Origins \ {origin[t]}, open, waiters)
        IN Checkout(t, origin[t], stack, open, waiters, reg, gone,
                    {p \in Origins : cut[p] > 0})
  BY DEF AcquireLoop
<1> DEFINE stack == [p \in Origins |->
                       SubSeq(idle[p], cut[p] + 1, Len(idle[p]))]
           open  == [p \in Origins |-> openCount[p] - cut[p]]
           gone  == UNION {{idle[p][i] : i \in 1..cut[p]} : p \in Origins}
           reg   == IF IdleTimeout = None THEN registered \cup {origin[t]}
                    ELSE Retire(registered \cup {origin[t]},
                                Origins \ {origin[t]}, open, waiters)
           touched == {p \in Origins : cut[p] > 0}
<1>2. /\ stack \in Stacks
      /\ \A p \in Origins : Len(stack[p]) = Len(idle[p]) - cut[p]
      /\ open \in [Origins -> Int]
      /\ gone \in SUBSET Conns
  BY PruneType DEF Stacks
<1>3. /\ origin[t] \in Origins /\ pc[t] # "none" /\ conn[t] = None
      /\ idle \in Stacks /\ conn \in Hands /\ live \in SUBSET Conns
  BY DEF TypeInv, TypeOK, HandsOK, SlotPcs, Stacks, Hands
<1>4. \A p \in Origins : /\ cut[p] \in Nat /\ cut[p] <= Len(idle[p])
                         /\ Len(idle[p]) \in Nat
  <2>1. cut \in [Origins -> 0..Cardinality(Conns)]
    BY DEF Expired
  <2>2. \A p \in Origins : cut[p] <= Len(idle[p])
    BY DEF Expired, ExpiredPrefix
  <2> QED
    BY <1>3, <2>1, <2>2 DEF Stacks
<1>5. Windows(idle, stack, cut)
  <2> SUFFICES ASSUME NEW p \in Origins
               PROVE  /\ cut[p] \in Nat
                      /\ cut[p] + Len(stack[p]) <= Len(idle[p])
                      /\ \A i \in 1..Len(stack[p]) :
                           stack[p][i] = idle[p][i + cut[p]]
    BY DEF Windows
  <2> DEFINE s == idle[p]
             m == cut[p] + 1
  <2>1. /\ s \in Seq(Conns) /\ m \in 1..(Len(s) + 1)
        /\ Len(s) \in (m - 1)..Len(s)
    BY <1>3, <1>4 DEF Stacks
  <2>2. stack[p] = SubSeq(s, m, Len(s))
    OBVIOUS
  <2>3. /\ Len(SubSeq(s, m, Len(s))) = (Len(s) - m) + 1
        /\ \A i \in 1..((Len(s) - m) + 1) :
             SubSeq(s, m, Len(s))[i] = s[m + i - 1]
    <3> HIDE DEF s, m
    <3> QED
      BY <2>1, SlicesAreSequences
  <2> HIDE DEF stack
  <2>4. Len(stack[p]) = Len(s) - cut[p]
    BY <1>2
  <2>5. \A i \in 1..Len(stack[p]) : stack[p][i] = s[i + cut[p]]
    <3> SUFFICES ASSUME NEW i \in 1..Len(stack[p])
                 PROVE  stack[p][i] = s[i + cut[p]]
      OBVIOUS
    <3>1. stack[p][i] = s[m + i - 1] /\ m + i - 1 = i + cut[p]
      BY <1>4, <2>2, <2>3, <2>4
    <3> QED
      BY <3>1
  <2> QED
    BY <1>4, <2>4, <2>5
<1>6. Outside(idle, stack, cut) = gone
  <2>1. ASSUME NEW p \in Origins
        PROVE  \A i \in 1..Len(idle[p]) :
                 (i <= cut[p] \/ i > cut[p] + Len(stack[p])) <=> i <= cut[p]
    BY <1>2, <1>4
  <2>2. \A p \in Origins : \A i \in 1..Len(idle[p]) : idle[p][i] \in Conns
    BY <1>3 DEF Stacks
  <2>3. \A p \in Origins : \A i \in 1..cut[p] : i \in 1..Len(idle[p])
    BY <1>4
  <2> HIDE DEF stack
  <2>4. \A c \in Conns :
          c \in Outside(idle, stack, cut) <=>
            \E p \in Origins : \E i \in 1..Len(idle[p]) :
              idle[p][i] = c /\ i <= cut[p]
    BY <2>1 DEF Outside
  <2>5. \A c \in Conns :
          c \in gone <=> \E p \in Origins : \E i \in 1..cut[p] : idle[p][i] = c
    OBVIOUS
  <2>6. \A c \in Conns : c \in Outside(idle, stack, cut) <=> c \in gone
    <3> HIDE DEF gone
    <3> QED
      BY <1>4, <2>3, <2>4, <2>5
  <2>7. Outside(idle, stack, cut) \subseteq Conns
    BY DEF Outside
  <2> HIDE DEF gone
  <2> QED
    BY <1>2, <2>6, <2>7
<1> HIDE DEF stack, gone
<1>7. Owned(stack, conn, live \ gone) /\ Sorted(stack, since)
  <2>1. Owned(idle, conn, live) /\ Sorted(idle, since)
    BY DEF Ownership
  <2>2. Owned(stack, conn, live \ Outside(idle, stack, cut))
        /\ Sorted(stack, since)
    BY <1>2, <1>3, <1>5, <2>1, CutOwned
  <2> QED
    BY <1>6, <2>2
<1>8. conn = [conn EXCEPT ![t] = None]
  BY <1>3 DEF Hands
<1>9. Told(stack, open, touched)
  <2> SUFFICES ASSUME NEW p \in Origins, cut[p] = 0
               PROVE  open[p] = openCount[p] /\ Len(stack[p]) = Len(idle[p])
    BY <1>4 DEF Told
  <2>1. openCount[p] \in Int
    BY DEF TypeInv, TypeOK
  <2> QED
    BY <1>2, <1>4, <2>1
<1>10. Checkout(t, origin[t], stack, open, waiters, reg, gone, touched)
  BY <1>1 DEF stack, gone
<1> HIDE DEF open, reg, touched
<1>11. Owned(stack, [conn EXCEPT ![t] = None], live \ gone)
  BY <1>7, <1>8
<1> QED
  BY <1>2, <1>3, <1>7, <1>9, <1>10, <1>11, CheckoutOwnership

\* release() puts its connection on top of its origin's stack.
LEMMA KeepOwnership ==
  ASSUME PoolAssumption, TypeInv, TypeInv', Ownership,
         NEW t \in Tasks, OnlyWakes(t), pc[t] = "releasing",
         NEW stack \in Stacks, NEW open \in [Origins -> Int],
         NEW reg, NEW gone \in SUBSET Conns, NEW touched,
         Keep(t, stack, open, reg, gone, touched),
         Owned(stack, conn, live \ gone),
         Sorted(stack, since),
         Told(stack, open, touched)
  PROVE  Ownership'
<1> DEFINE o == origin[t]
           c == conn[t]
<1>1. /\ o \in Origins /\ c \in Conns /\ c # None
      /\ conn \in Hands /\ idle \in Stacks /\ now \in Nat
      /\ live' \in SUBSET Conns /\ since \in [Conns -> Nat]
  BY DEF TypeInv, TypeOK, HandsOK, Hands, Stacks, PoolAssumption
<1>2. /\ idle' = [stack EXCEPT ![o] = Append(@, c)]
      /\ since' = [since EXCEPT ![c] = now]
      /\ input' = [input EXCEPT ![c] = "clean"]
      /\ openCount' = open
      /\ live' = live \ gone
      /\ pc' = [NotifyAll(touched \cup {o}) EXCEPT ![t] = "none"]
      /\ conn' = [conn EXCEPT ![t] = None]
      /\ origin' = origin /\ closed' = closed /\ now' = now
  BY DEF Keep, CloseWriters, closeVars
<1>3. idle' \in Stacks
  BY DEF TypeInv, TypeOK, Stacks
<1>4. Topped(stack, idle', o, c)
  <2> DEFINE s == stack[o]
  <2>1. s \in Seq(Conns)
    BY <1>1 DEF Stacks
  <2>2. /\ idle'[o] = Append(s, c)
        /\ \A p \in Origins \ {o} : idle'[p] = stack[p]
    BY <1>1, <1>2 DEF Stacks
  <2> HIDE DEF s
  <2>3. /\ Len(Append(s, c)) = Len(s) + 1
        /\ Append(s, c)[Len(s) + 1] = c
        /\ \A i \in 1..Len(s) : Append(s, c)[i] = s[i]
    BY <1>1, <2>1, AppendProperties
  <2> QED
    BY <2>2, <2>3 DEF Topped, s
<1>5. Handed(conn, conn', t, None)
  BY <1>1, <1>2 DEF Handed, Hands
<1>6. \A d \in Conns : since[d] <= now
  BY DEF Ownership
<1>7. Owned(idle', conn', live') /\ Sorted(idle', since')
  <2>1. Owned(stack, conn, live')
    BY <1>2
  <2>2. /\ \A d \in Conns : since'[d] = IF d = c THEN now ELSE since[d]
        /\ conn[t] = c
    BY <1>1, <1>2
  <2> HIDE DEF o, c
  <2> QED
    BY <1>1, <1>3, <1>4, <1>5, <1>6, <2>1, <2>2, PushOwned
<1>8. \A d \in Conns : since'[d] <= now'
  BY <1>1, <1>2, <1>6
<1>9. pc'[t] = "none"
  BY <1>2 DEF NotifyAll, TypeInv, TypeOK
<1>10. Clean' /\ ProbeOpen'
  <2> SUFFICES ASSUME NEW u \in Tasks \ {t}
               PROVE  /\ pc'[u] \in {"probing", "dialed", "holding"} =>
                           input'[conn'[u]] # "pending"
                      /\ pc'[u] = "probing" => ~closed'
    BY <1>9 DEF Clean, ProbeOpen
  <2>1. \A d \in Conns : input'[d] = "clean" \/ input'[d] = input[d]
    BY <1>2 DEF TypeInv, TypeOK
  <2>2. pc[u] \in {"probing", "dialed", "holding"} => conn[u] \in Conns
    BY DEF TypeInv, HandsOK
  <2>3. /\ conn'[u] = conn[u]
        /\ pc'[u] \in {"probing", "dialed", "holding"} => pc'[u] = pc[u]
    BY DEF OnlyWakes
  <2>4. pc[u] \in {"probing", "dialed", "holding"} => input[conn[u]] # "pending"
    BY DEF Ownership, Clean
  <2>5. pc[u] = "probing" => ~closed
    BY DEF Ownership, ProbeOpen
  <2>6. pc'[u] \in {"probing", "dialed", "holding"} =>
          input'[conn'[u]] # "pending"
    <3> SUFFICES ASSUME pc'[u] \in {"probing", "dialed", "holding"}
                 PROVE  input'[conn[u]] # "pending"
      BY <2>3
    <3>1. conn[u] \in Conns /\ input[conn[u]] # "pending"
      BY <2>2, <2>3, <2>4
    <3> QED
      BY <2>1, <3>1
  <2> QED
    BY <1>2, <2>3, <2>5, <2>6
<1>11. NoLostWakeup'
  <2> SUFFICES ASSUME NEW u \in Tasks, pc'[u] = "waiting"
               PROVE  /\ ~closed
                      /\ openCount'[origin[u]] >= MaxPerOrigin
                      /\ idle'[origin[u]] = <<>>
    BY <1>2 DEF NoLostWakeup
  <2> DEFINE p == origin[u]
  <2>1. u # t /\ pc[u] = "waiting" /\ p \in Origins
    BY <1>9 DEF OnlyWakes, TypeInv, HandsOK
  <2>2. /\ ~closed /\ openCount[p] >= MaxPerOrigin /\ idle[p] = <<>>
    BY <2>1 DEF Ownership, NoLostWakeup
  <2>3. p \notin touched /\ p # o
    <3> DEFINE os == touched \cup {o}
    <3>1. pc'[u] = NotifyAll(os)[u]
      BY <1>2, <2>1 DEF NotifyAll, TypeInv, TypeOK
    <3>2. p \notin os
      BY <2>1, <3>1 DEF NotifyAll
    <3> QED
      BY <3>2
  <2>4. open[p] = openCount[p] /\ Len(stack[p]) = 0 /\ stack[p] \in Seq(Conns)
    BY <2>1, <2>2, <2>3 DEF Told, Stacks
  <2>5. stack[p] = <<>> /\ idle'[p] = stack[p]
    BY <1>2, <2>1, <2>3, <2>4 DEF Stacks
  <2> QED
    BY <1>2, <2>2, <2>4, <2>5
<1> QED
  BY <1>7, <1>8, <1>10, <1>11 DEF Ownership

\* Every step of a task keeps ownership, a cancellation at any await included.
LEMMA TaskOwnership ==
  ASSUME PoolAssumption, TypeInv, Ownership,
         NEW t \in Tasks, TaskStep(t) \/ Cancel(t)
  PROVE  Ownership'
<1>1. TypeInv' /\ OnlyWakes(t)
  BY TaskStepType
<1>2. /\ idle \in Stacks /\ conn \in Hands /\ live \in SUBSET Conns
      /\ None \notin live
  BY DEF TypeInv, TypeOK, Hands, Stacks, PoolAssumption
\* t moves within its request: only a probed or dialed connection is held.
<1>m. ASSUME UNCHANGED <<idle, conn, live, since, input, openCount, closed,
                         now, origin>>,
             pc'[t] \notin {"waiting", "probing", "dialed"},
             pc'[t] = "holding" => pc[t] \in {"probing", "dialed"}
      PROVE  Ownership'
  <2>1. Owned(idle, conn, live)' /\ Sorted(idle, since)'
        /\ \A c \in Conns : since'[c] <= now'
    BY <1>m DEF Ownership
  <2>2. Clean' /\ ProbeOpen'
    BY <1>1, <1>m DEF Ownership, Clean, ProbeOpen, OnlyWakes
  <2>3. NoLostWakeup'
    BY <1>1, <1>m DEF Ownership, NoLostWakeup, OnlyWakes
  <2> QED
    BY <2>1, <2>2, <2>3 DEF Ownership
\* t gives up its slot, and its connection if it has one.
<1>d. ASSUME pc[t] \in SlotPcs,
             UNCHANGED <<idle, since, input, closed, now, origin>>,
             openCount' = [openCount EXCEPT ![origin[t]] = @ - 1],
             live' = live \ {conn[t]},
             conn' = [conn EXCEPT ![t] = None],
             pc' = [NotifyAll({origin[t]}) EXCEPT ![t] = "none"]
      PROVE  Ownership'
  <2>1. Handed(conn, conn', t, None)
    BY <1>2, <1>d DEF Handed, Hands
  <2>2. Owned(idle, conn', live \ {conn[t]})
    BY <1>2, <2>1, DropOwned DEF Ownership
  <2>3. Owned(idle, conn, live)' /\ Sorted(idle, since)'
        /\ \A c \in Conns : since'[c] <= now'
    BY <1>d, <2>2 DEF Ownership
  <2>4. pc'[t] = "none"
    BY <1>d DEF NotifyAll, TypeInv, TypeOK
  <2>5. Clean' /\ ProbeOpen'
    <3> SUFFICES ASSUME NEW u \in Tasks \ {t}
                 PROVE  /\ pc'[u] \in {"probing", "dialed", "holding"} =>
                             input[conn'[u]] # "pending"
                        /\ pc'[u] = "probing" => ~closed
      BY <1>d, <2>4 DEF Clean, ProbeOpen
    <3> QED
      BY <1>1 DEF Ownership, Clean, ProbeOpen, OnlyWakes
  <2>6. NoLostWakeup'
    <3> SUFFICES ASSUME NEW u \in Tasks, pc'[u] = "waiting"
                 PROVE  /\ ~closed
                        /\ openCount'[origin[u]] >= MaxPerOrigin
                        /\ idle[origin[u]] = <<>>
      BY <1>d DEF NoLostWakeup
    <3>1. u # t /\ pc[u] = "waiting" /\ origin[u] \in Origins
      BY <1>1, <2>4 DEF OnlyWakes, TypeInv, HandsOK
    <3>2. pc'[u] = NotifyAll({origin[t]})[u]
      BY <1>d, <3>1 DEF NotifyAll, TypeInv, TypeOK
    <3>3. origin[u] # origin[t]
      BY <3>1, <3>2 DEF NotifyAll
    <3>4. openCount'[origin[u]] = openCount[origin[u]]
      BY <1>d, <3>1, <3>3 DEF TypeInv, TypeOK
    <3> QED
      BY <3>1, <3>4 DEF Ownership, NoLostWakeup
  <2> QED
    BY <2>3, <2>5, <2>6 DEF Ownership
<1>s. ASSUME pc[t] \in SlotPcs, DropSlot(t)
      PROVE  Ownership'
  <2>1. live \ ({conn[t]} \ {None}) = live \ {conn[t]}
    BY <1>2
  <2> QED
    BY <1>s, <1>d, <2>1 DEF DropSlot, CloseWriters, closeVars
<1>3. CASE Enter(t)
  BY <1>1, <1>3, LoopOwnership DEF Enter
<1>4. CASE Resume(t)
  <2> DEFINE waiters == [waiterCount EXCEPT ![origin[t]] = @ - 1]
  <2>1. AcquireLoop(t, origin[t], waiters)
    BY <1>4 DEF Resume
  <2> HIDE DEF waiters
  <2> QED
    BY <1>1, <1>4, <2>1, LoopOwnership DEF Resume
<1>5. CASE ProbeStale(t)
  <2> DEFINE open == [openCount EXCEPT ![origin[t]] = @ - 1]
             gone == {conn[t]}
             touched == {origin[t]}
             hd == [conn EXCEPT ![t] = None]
  <2>1. /\ origin[t] \in Origins /\ conn[t] \in Conns
        /\ pc[t] # "none" /\ ~closed
    BY <1>5 DEF ProbeStale, TypeInv, HandsOK, Ownership, ProbeOpen
  <2>2. open \in [Origins -> Int] /\ gone \in SUBSET Conns
    BY <2>1 DEF TypeInv, TypeOK
  <2>3. Handed(conn, hd, t, None)
    BY <1>2 DEF Handed, Hands
  <2>4. Told(idle, open, touched)
    BY DEF Told, TypeInv, TypeOK
  <2>5. Checkout(t, origin[t], idle, open, waiterCount, registered, gone,
                 touched)
    BY <1>5 DEF ProbeStale
  <2> HIDE DEF open, touched, hd
  <2>6. Owned(idle, hd, live \ gone) /\ Sorted(idle, since)
    BY <1>2, <2>3, DropOwned DEF Ownership
  <2> HIDE DEF gone
  <2>7. Owned(idle, [conn EXCEPT ![t] = None], live \ gone)
    BY <2>6 DEF hd
  <2>8. UNCHANGED <<origin, keep, requests, since, input, closeVars, now>>
    BY <1>5 DEF ProbeStale
  <2> QED
    BY <1>1, <1>2, <2>1, <2>2, <2>4, <2>5, <2>6, <2>7, <2>8, CheckoutOwnership
<1>6. CASE CancelProbe(t)
  BY <1>6, <1>d DEF CancelProbe, CloseWriters, SlotPcs, closeVars
<1>7. ASSUME NEW c \in Conns, NEW whole \in BOOLEAN, Opened(t, c, whole)
      PROVE  Ownership'
  <2>1. /\ conn[t] = None /\ c \in Conns \ live
    BY <1>7 DEF Opened, Fresh, TypeInv, HandsOK
  <2>2. Handed(conn, conn', t, c)
    BY <1>2, <1>7 DEF Opened, Handed, Hands
  <2>3. Owned(idle, conn', live \cup {c})
    BY <1>2, <2>1, <2>2, OpenOwned DEF Ownership
  <2>4. Owned(idle, conn, live)' /\ Sorted(idle, since)'
        /\ \A d \in Conns : since'[d] <= now'
    BY <1>7, <2>3 DEF Ownership, Opened, stateVars
  <2>5. /\ pc'[t] \in {"dialed", "dial_failed"}
        /\ conn'[t] = c /\ input'[c] = "clean"
        /\ \A d \in Conns : input'[d] = "clean" \/ input'[d] = input[d]
    BY <1>7 DEF Opened, TypeInv, TypeOK
  <2>6. Clean'
    <3> SUFFICES ASSUME NEW u \in Tasks \ {t},
                        pc'[u] \in {"probing", "dialed", "holding"}
                 PROVE  input'[conn'[u]] # "pending"
      BY <2>5 DEF Clean
    <3>1. conn'[u] = conn[u] /\ pc'[u] = pc[u]
      BY <1>1 DEF OnlyWakes
    <3>2. conn[u] \in Conns /\ input[conn[u]] # "pending"
      BY <3>1 DEF Ownership, Clean, TypeInv, HandsOK
    <3> QED
      BY <2>5, <3>1, <3>2
  <2>7. ProbeOpen' /\ NoLostWakeup'
    BY <1>1, <1>7, <2>5
    DEF Opened, Ownership, ProbeOpen, NoLostWakeup, OnlyWakes, stateVars,
        closeVars
  <2> QED
    BY <2>4, <2>6, <2>7 DEF Ownership
<1>8. CASE ReleaseKeeping(t)
  <2>1. Keep(t, idle, openCount, registered, {}, {}) /\ pc[t] = "releasing"
    BY <1>8 DEF ReleaseKeeping
  <2>2. /\ openCount \in [Origins -> Int] /\ {} \in SUBSET Conns
        /\ Told(idle, openCount, {})
    BY DEF Told, TypeInv, TypeOK
  <2>3. live \ {} = live
    OBVIOUS
  <2>4. Owned(idle, conn, live \ {}) /\ Sorted(idle, since)
    BY <2>3 DEF Ownership
  <2> QED
    BY <1>1, <1>2, <2>1, <2>2, <2>4, KeepOwnership
<1>9. CASE ReleaseEvicting(t)
  <2>1. PICK v \in Origins :
          LET open == [openCount EXCEPT ![v] = @ - 1] IN
          /\ OldestStack(v)
          /\ Keep(t, [idle EXCEPT ![v] = Tail(@)], open,
                  Retire(registered, {v} \ {origin[t]}, open, waiterCount),
                  {idle[v][1]}, {v})
    BY <1>9 DEF ReleaseEvicting
  <2> DEFINE s       == idle[v]
             open    == [openCount EXCEPT ![v] = @ - 1]
             stack   == [idle EXCEPT ![v] = Tail(@)]
             reg     == Retire(registered, {v} \ {origin[t]}, open, waiterCount)
             gone    == {s[1]}
             touched == {v}
             lo      == [p \in Origins |-> IF p = v THEN 1 ELSE 0]
  <2>2. /\ s \in Seq(Conns) /\ s # <<>> /\ Len(s) \in Nat \ {0}
        /\ s[1] \in Conns
    BY <1>2, <2>1 DEF OldestStack, Stacks
  <2>3. /\ Tail(s) \in Seq(Conns) /\ Len(Tail(s)) = Len(s) - 1
        /\ \A i \in 1..Len(Tail(s)) : Tail(s)[i] = s[i + 1]
    BY <2>2, HeadTailProperties
  <2>4. /\ stack \in Stacks /\ stack[v] = Tail(s)
        /\ \A p \in Origins \ {v} : stack[p] = idle[p]
    BY <1>2, <2>3 DEF Stacks
  <2>5. Keep(t, stack, open, reg, gone, touched)
    BY <2>1
  <2>6. open \in [Origins -> Int] /\ gone \in SUBSET Conns
    BY <2>2 DEF TypeInv, TypeOK
  <2>7. Told(stack, open, touched)
    BY <2>4 DEF Told, TypeInv, TypeOK
  <2> HIDE DEF stack, open, reg, touched
  <2>l. lo[v] = 1 /\ \A p \in Origins \ {v} : lo[p] = 0
    OBVIOUS
  <2>i. \A p \in Origins : Len(idle[p]) \in Nat
    BY <1>2 DEF Stacks
  <2> HIDE DEF lo
  <2>8. Windows(idle, stack, lo)
    <3> SUFFICES ASSUME NEW p \in Origins
                 PROVE  /\ lo[p] \in Nat
                        /\ lo[p] + Len(stack[p]) <= Len(idle[p])
                        /\ \A i \in 1..Len(stack[p]) :
                             stack[p][i] = idle[p][i + lo[p]]
      BY DEF Windows
    <3>1. CASE p = v
      <4>1. lo[p] = 1 /\ stack[p] = Tail(s) /\ idle[p] = s
        BY <2>4, <2>l, <3>1
      <4> HIDE DEF s
      <4> QED
        BY <2>2, <2>3, <4>1
    <3>2. CASE p # v
      <4>1. Len(idle[p]) \in Nat /\ lo[p] = 0 /\ stack[p] = idle[p]
        BY <2>4, <2>i, <2>l, <3>2
      <4> QED
        BY <4>1
    <3> QED
      BY <3>1, <3>2
  <2>9. Outside(idle, stack, lo) = gone
    <3>1. ASSUME NEW p \in Origins, NEW i \in 1..Len(idle[p])
          PROVE  (i <= lo[p] \/ i > lo[p] + Len(stack[p])) <=> p = v /\ i = 1
      <4>1. CASE p = v
        <5>1. lo[p] = 1 /\ stack[p] = Tail(s) /\ idle[p] = s
          BY <2>4, <2>l, <4>1
        <5> HIDE DEF s
        <5> QED
          BY <2>2, <2>3, <4>1, <5>1
      <4>2. CASE p # v
        <5>1. Len(idle[p]) \in Nat /\ lo[p] = 0 /\ stack[p] = idle[p]
          BY <2>4, <2>i, <2>l, <4>2
        <5> QED
          BY <4>2, <5>1
      <4> QED
        BY <4>1, <4>2
    <3>2. 1 \in 1..Len(idle[v])
      BY <2>2
    <3> QED
      BY <2>2, <3>1, <3>2 DEF Outside
  <2> HIDE DEF gone
  <2>10. Owned(stack, conn, live \ gone) /\ Sorted(stack, since)
    <3>1. Owned(idle, conn, live) /\ Sorted(idle, since)
      BY DEF Ownership
    <3>2. Owned(stack, conn, live \ Outside(idle, stack, lo))
          /\ Sorted(stack, since)
      BY <1>2, <2>4, <2>8, <3>1, CutOwned
    <3> QED
      BY <2>9, <3>2
  <2>11. pc[t] = "releasing"
    BY <1>9 DEF ReleaseEvicting
  <2> QED
    BY <1>1, <2>4, <2>5, <2>6, <2>7, <2>10, <2>11, KeepOwnership
<1>10. CASE ProbeClean(t)
  BY <1>10, <1>m DEF ProbeClean, TypeInv, TypeOK, stateVars, wireVars, closeVars
<1>11. CASE EnterClosed(t) \/ CancelLocking(t) \/ CancelWait(t)
            \/ OpenFails(t) \/ DialSucceeds(t) \/ CancelDialed(t)
  BY <1>11, <1>m
  DEF EnterClosed, CancelLocking, CancelWait, OpenFails, DialSucceeds,
      CancelDialed, Move, TypeInv, TypeOK, stateVars, wireVars, closeVars
<1>12. CASE ResumeClosed(t) \/ Unwait(t)
  BY <1>12, <1>m
  DEF ResumeClosed, Unwait, LeaveCondition, TypeInv, TypeOK, wireVars, closeVars
<1>13. CASE Finish(t)
  BY <1>13, <1>m DEF Finish, TypeInv, TypeOK, stateVars, wireVars, closeVars
<1>14. CASE DialFindsPoolClosed(t) \/ CleanUpDial(t) \/ ReleaseClosing(t)
  BY <1>14, <1>s DEF DialFindsPoolClosed, CleanUpDial, ReleaseClosing, SlotPcs
<1> QED
  BY <1>3, <1>4, <1>5, <1>6, <1>7, <1>8, <1>9, <1>10, <1>11, <1>12, <1>13,
     <1>14
  DEF TaskStep, Cancel

\* Ownership holds in every reachable state.
LEMMA OwnershipAlways == Spec => [](TypeInv /\ Ownership)
<1>1. Init => TypeInv /\ Ownership
  <2> SUFFICES ASSUME Init
               PROVE  Ownership
    BY TypeInvInit, PoolAssumption
  <2>1. Owned(idle, conn, live) /\ Sorted(idle, since)
    BY DEF Init, Owned, Sorted
  <2>2. Clean /\ ProbeOpen /\ NoLostWakeup /\ \A c \in Conns : since[c] <= now
    BY DEF Init, Clean, ProbeOpen, NoLostWakeup
  <2> QED
    BY <2>1, <2>2 DEF Ownership
<1>2. ASSUME TypeInv, Ownership, [Next]_vars
      PROVE  Ownership'
  <2>1. TypeInv'
    BY <1>2, TypeInvStep, PoolAssumption
  <2>2. ASSUME NEW t \in Tasks, TaskStep(t) \/ Cancel(t)
        PROVE  Ownership'
    BY <1>2, <2>2, TaskOwnership, PoolAssumption
  <2>3. ASSUME NEW t \in Tasks, NEW o \in Origins, Start(t, o)
        PROVE  Ownership'
    <3>1. /\ UNCHANGED <<idle, conn, live, since, input, openCount, closed, now>>
          /\ pc'[t] = "locking"
          /\ \A u \in Tasks \ {t} : pc'[u] = pc[u] /\ origin'[u] = origin[u]
      BY <1>2, <2>3
      DEF Start, TypeInv, TypeOK, stateVars, wireVars, closeVars
    <3>2. Owned(idle, conn, live)' /\ Sorted(idle, since)'
          /\ \A c \in Conns : since'[c] <= now'
      BY <1>2, <3>1 DEF Ownership
    <3>3. Clean' /\ ProbeOpen' /\ NoLostWakeup'
      BY <1>2, <3>1 DEF Ownership, Clean, ProbeOpen, NoLostWakeup
    <3> QED
      BY <3>2, <3>3 DEF Ownership
  <2>4. CASE Close
    <3> DEFINE lo == [p \in Origins |-> 0]
    <3>1. /\ idle \in Stacks /\ idle' \in Stacks /\ conn \in Hands
          /\ live \in SUBSET Conns
          /\ \A p \in Origins : idle'[p] = <<>> /\ Len(idle'[p]) = 0
      BY <1>2, <2>1, <2>4 DEF Close, TypeInv, TypeOK, Stacks, Hands
    <3>2. Windows(idle, idle', lo)
      <4>1. \A p \in Origins : Len(idle[p]) \in Nat /\ lo[p] = 0
        BY <3>1 DEF Stacks
      <4> HIDE DEF lo
      <4> SUFFICES ASSUME NEW p \in Origins
                   PROVE  /\ lo[p] \in Nat
                          /\ lo[p] + Len(idle'[p]) <= Len(idle[p])
                          /\ \A i \in 1..Len(idle'[p]) :
                               idle'[p][i] = idle[p][i + lo[p]]
        BY DEF Windows
      <4>2. Len(idle'[p]) = 0
        BY <3>1
      <4> QED
        BY <4>1, <4>2
    <3>3. Outside(idle, idle', lo) = AllIdle
      <4>1. \A p \in Origins : Len(idle[p]) \in Nat /\ lo[p] = 0
        BY <3>1 DEF Stacks
      <4>2. \A p \in Origins : \A i \in 1..Len(idle[p]) : idle[p][i] \in Conns
        BY <3>1 DEF Stacks
      <4> HIDE DEF lo
      <4> QED
        BY <3>1, <4>1, <4>2 DEF Outside, AllIdle, IdleConns
    <3> HIDE DEF lo
    <3>4. Owned(idle, conn, live)' /\ Sorted(idle, since)'
      <4>1. Owned(idle, conn, live) /\ Sorted(idle, since)
        BY <1>2 DEF Ownership
      <4>2. Owned(idle', conn, live \ Outside(idle, idle', lo))
            /\ Sorted(idle', since)
        BY <3>1, <3>2, <4>1, CutOwned
      <4> QED
        BY <2>4, <3>3, <4>2 DEF Close, CloseWriters
    <3>5. \A u \in Tasks :
            /\ pc'[u] # "waiting" /\ pc[u] # "probing"
            /\ pc'[u] \in {"probing", "dialed", "holding"} => pc'[u] = pc[u]
      <4>1. \A u \in Tasks : pc[u] # "probing"
        BY <1>2, <2>4, PoolAssumption
        DEF Close, LockFree, TypeInv, LockOK, PoolAssumption
      <4> QED
        BY <1>2, <2>4, <4>1 DEF Close, NotifyAll, TypeInv, HandsOK
    <3>6. Clean' /\ ProbeOpen' /\ NoLostWakeup'
      BY <1>2, <2>4, <3>5 DEF Close, Ownership, Clean, ProbeOpen, NoLostWakeup
    <3>7. \A c \in Conns : since'[c] <= now'
      BY <1>2, <2>4 DEF Close, Ownership
    <3> QED
      BY <3>4, <3>6, <3>7 DEF Ownership
  <2>5. ASSUME UNCHANGED <<taskVars, stateVars, live, since, input, closed, now>>
        PROVE  Ownership'
    BY <1>2, <2>5 DEF Ownership, Clean, ProbeOpen, NoLostWakeup, taskVars,
                      stateVars
  <2>6. CASE CallClose \/ CancelClose \/ CloseReturns \/ CancelDraining
    BY <2>5, <2>6
    DEF CallClose, CancelClose, CloseReturns, CancelDraining, wireVars
  <2>7. ASSUME NEW c \in Conns, Drained(c)
        PROVE  Ownership'
    BY <2>5, <2>7 DEF Drained
  <2>8. ASSUME NEW c \in Conns, PeerSpeaks(c)
        PROVE  Ownership'
    <3>1. UNCHANGED <<taskVars, stateVars, live, since, closed, now>>
      BY <2>8 DEF PeerSpeaks, closeVars
    <3>2. /\ Owned(idle, conn, live)' /\ Sorted(idle, since)'
          /\ ProbeOpen' /\ NoLostWakeup'
          /\ \A d \in Conns : since'[d] <= now'
      BY <1>2, <3>1
      DEF Ownership, ProbeOpen, NoLostWakeup, taskVars, stateVars
    <3>3. Clean'
      <4> SUFFICES ASSUME NEW u \in Tasks,
                          pc[u] \in {"probing", "dialed", "holding"}
                   PROVE  input'[conn[u]] # "pending"
        BY <3>1 DEF Clean, taskVars
      <4>1. conn[u] \in Conns /\ input[conn[u]] # "pending"
        BY <1>2 DEF Ownership, Clean, TypeInv, HandsOK
      <4>2. conn[u] \notin AllIdle
        BY <1>2 DEF Ownership, Owned, AllIdle, IdleConns
      <4>3. CASE conn[u] = c
        BY <1>2, <2>8, <4>1, <4>2, <4>3 DEF PeerSpeaks, TypeInv, TypeOK
      <4>4. CASE conn[u] # c
        BY <1>2, <2>8, <4>1, <4>4 DEF PeerSpeaks, TypeInv, TypeOK
      <4> QED
        BY <4>3, <4>4
    <3> QED
      BY <3>2, <3>3 DEF Ownership
  <2>9. CASE Tick
    <3>1. UNCHANGED <<taskVars, stateVars, live, since, input, closed>>
          /\ now' = now + 1
      BY <2>9 DEF Tick, wireVars, closeVars
    <3>2. \A c \in Conns : since[c] \in Int /\ since[c] <= now /\ now \in Int
      BY <1>2 DEF Ownership, TypeInv, TypeOK
    <3>3. \A c \in Conns : since'[c] <= now'
      BY <3>1, <3>2
    <3> QED
      BY <1>2, <3>1, <3>3
      DEF Ownership, Clean, ProbeOpen, NoLostWakeup, taskVars, stateVars
  <2>10. CASE Finished \/ UNCHANGED vars
    BY <2>5, <2>10 DEF Finished, vars, wireVars, closeVars
  <2> QED
    BY <1>2, <2>2, <2>3, <2>4, <2>6, <2>7, <2>8, <2>9, <2>10 DEF Next
<1>3. TypeInv /\ Ownership /\ [Next]_vars => (TypeInv /\ Ownership)'
  BY <1>2, TypeInvStep, PoolAssumption
<1> QED
  BY <1>1, <1>3, PTL DEF Spec

-----------------------------------------------------------------------------
\* Whatever is cancelled or fails at whichever await, an open transport is
\* idle in one place of one stack or in the hands of one task, never both
\* and never neither.
THEOREM TransportsExclusive == Spec => []ExclusiveTransports
<1>1. ASSUME TypeInv, Ownership
      PROVE  ExclusiveTransports
  <2>1. None \notin live
    BY <1>1, PoolAssumption DEF TypeInv, TypeOK, PoolAssumption
  <2>2. /\ \A c : c \in AllIdle <=>
               \E p \in Origins : \E i \in 1..Len(idle[p]) : idle[p][i] = c
        /\ \A c : c \in InHand <=> c # None /\ \E t \in Tasks : conn[t] = c
    BY DEF AllIdle, IdleConns, InHand
  <2>3. live = AllIdle \cup InHand
    BY <1>1, <2>1, <2>2 DEF Ownership, Owned
  <2>4. AllIdle \cap InHand = {}
    BY <1>1, <2>2 DEF Ownership, Owned
  <2> QED
    BY <1>1, <2>3, <2>4 DEF ExclusiveTransports, Ownership, Owned
<1>2. TypeInv /\ Ownership => ExclusiveTransports
  BY <1>1
<1> QED
  BY <1>2, OwnershipAlways, PTL

\* A request never starts on a connection that had input from the server
\* before its probe began: the probe is not passed over on any path from
\* the idle stack to the caller.
THEOREM ReuseInSync == Spec => []NoDesyncedReuse
<1>1. TypeInv /\ Ownership => NoDesyncedReuse
  BY DEF Ownership, Clean, NoDesyncedReuse
<1> QED
  BY <1>1, OwnershipAlways, PTL

\* No acquirer sleeps on its origin's condition while the pool is closed, a
\* slot is free, or a connection is idle: every critical section that
\* changes one of these tells the waiters.
THEOREM WaitersTold == Spec => []NoLostWakeup
<1>1. TypeInv /\ Ownership => NoLostWakeup
  BY DEF Ownership
<1> QED
  BY <1>1, OwnershipAlways, PTL

\* Eviction takes the oldest idle connection of the pool: the bottom of each
\* stack is its oldest, through every prune, checkout and release.
THEOREM EvictionInOrder == Spec => EvictsOldest
<1>1. ASSUME TypeInv, Ownership, [Next]_vars
      PROVE  \A t \in Tasks : ReleaseEvicting(t) =>
               \A gone \in AllIdle \ AllIdle', kept \in AllIdle \cap AllIdle' :
                 since[gone] <= since[kept]
  <2> SUFFICES ASSUME NEW t \in Tasks, ReleaseEvicting(t),
                      NEW gone \in AllIdle \ AllIdle',
                      NEW kept \in AllIdle \cap AllIdle'
               PROVE  since[gone] <= since[kept]
    OBVIOUS
  <2>1. PICK v \in Origins :
          /\ OldestStack(v)
          /\ idle' = [[idle EXCEPT ![v] = Tail(@)]
                        EXCEPT ![origin[t]] = Append(@, conn[t])]
    BY DEF ReleaseEvicting, Keep
  <2>2. idle \in Stacks /\ origin[t] \in Origins /\ conn[t] \in Conns
    BY <1>1 DEF ReleaseEvicting, TypeInv, TypeOK, HandsOK, Stacks
  <2>a. PICK p \in Origins : \E i \in 1..Len(idle[p]) : gone = idle[p][i]
    BY DEF AllIdle, IdleConns
  <2>3. PICK i \in 1..Len(idle[p]) : gone = idle[p][i]
    BY <2>a
  <2>b. PICK q \in Origins : \E j \in 1..Len(idle[q]) : kept = idle[q][j]
    BY DEF AllIdle, IdleConns
  <2>4. PICK j \in 1..Len(idle[q]) : kept = idle[q][j]
    BY <2>b
  <2>5. p = v /\ i = 1
    <3> DEFINE stack == [idle EXCEPT ![v] = Tail(@)]
               r     == stack[p]
    <3>1. idle[v] \in Seq(Conns) /\ idle[v] # <<>> /\ idle[p] \in Seq(Conns)
      BY <2>1, <2>2 DEF OldestStack, Stacks
    <3>2. /\ Tail(idle[v]) \in Seq(Conns)
          /\ Len(Tail(idle[v])) = Len(idle[v]) - 1
          /\ \A k \in 1..Len(Tail(idle[v])) : Tail(idle[v])[k] = idle[v][k + 1]
      BY <3>1, HeadTailProperties
    <3>3. r = IF p = v THEN Tail(idle[v]) ELSE idle[p]
      BY <2>2 DEF Stacks
    <3>4. r \in Seq(Conns) /\ Len(r) \in Nat
      BY <3>1, <3>2, <3>3
    <3>5. idle'[p] = IF p = origin[t] THEN Append(r, conn[t]) ELSE r
      BY <2>1, <2>2 DEF Stacks
    <3> HIDE DEF r
    <3>6. \A k \in 1..Len(r) : k \in 1..Len(idle'[p]) /\ idle'[p][k] = r[k]
      <4>1. /\ Len(Append(r, conn[t])) = Len(r) + 1
            /\ \A k \in 1..Len(r) : Append(r, conn[t])[k] = r[k]
        BY <2>2, <3>4, AppendProperties
      <4> QED
        BY <3>4, <3>5, <4>1
    <3>7. \A k \in 1..Len(r) : r[k] \in AllIdle'
      <4> SUFFICES ASSUME NEW k \in 1..Len(r)
                   PROVE  r[k] \in AllIdle'
        OBVIOUS
      <4>1. r[k] \in {idle'[p][m] : m \in 1..Len(idle'[p])}
        BY <3>6
      <4> QED
        BY <4>1 DEF AllIdle, IdleConns
    <3>8. \A k \in 1..Len(r) : r[k] # gone
      BY <3>7
    <3>9. CASE p # v
      BY <2>3, <3>3, <3>8, <3>9
    <3>10. CASE p = v /\ i # 1
      <4>1. i - 1 \in 1..Len(r) /\ r[i - 1] = idle[v][i]
        BY <3>1, <3>2, <3>3, <3>10
      <4> QED
        BY <2>3, <3>8, <3>10, <4>1
    <3> QED
      BY <3>9, <3>10
  <2>6. Len(idle[q]) \in Nat /\ idle[q] # <<>> /\ 1 \in 1..Len(idle[q])
    BY <2>2, <2>4 DEF Stacks
  <2>7. since[idle[v][1]] <= since[idle[q][1]]
    BY <2>1, <2>6 DEF OldestStack
  <2>8. since[idle[q][1]] <= since[idle[q][j]]
    BY <1>1, <2>4, <2>6 DEF Ownership, Sorted
  <2>9. /\ since[idle[v][1]] \in Int /\ since[idle[q][1]] \in Int
        /\ since[idle[q][j]] \in Int
    <3>1. \A c \in Conns : since[c] \in Int
      BY <1>1 DEF TypeInv, TypeOK
    <3>2. idle[v][1] \in Conns /\ idle[q][1] \in Conns /\ idle[q][j] \in Conns
      BY <2>2, <2>3, <2>4, <2>5, <2>6 DEF Stacks
    <3> QED
      BY <3>1, <3>2
  <2> QED
    BY <2>3, <2>4, <2>5, <2>7, <2>8, <2>9
<1>2. TypeInv /\ Ownership /\ [Next]_vars =>
        [\A t \in Tasks : ReleaseEvicting(t) =>
           \A gone \in AllIdle \ AllIdle', kept \in AllIdle \cap AllIdle' :
             since[gone] <= since[kept]]_vars
  BY <1>1
<1> QED
  BY <1>2, OwnershipAlways, PTL DEF Spec, EvictsOldest

-----------------------------------------------------------------------------
(***************************************************************************)
(* ConnectionPool implements SlotPool: each step of the pool is one step   *)
(* of what it promises, or none.                                           *)
(***************************************************************************)

\* A task at one of these has been given its transport by acquire().
LentPcs == {"holding", "releasing"}

InStack(st, p, c) == \E i \in 1..Len(st[p]) : st[p][i] = c

\* What is idle is on a stack.
LEMMA IdleOnStacks ==
  ASSUME TypeInv
  PROVE  /\ AllIdle \subseteq Conns
         /\ \A c : c \in AllIdle <=> \E p \in Origins : InStack(idle, p, c)
<1>1. idle \in [Origins -> Seq(Conns)]
  BY DEF TypeInv, TypeOK
<1>2. \A c : c \in AllIdle <=> \E p \in Origins : InStack(idle, p, c)
  BY DEF AllIdle, IdleConns, InStack
<1>3. \A p \in Origins, c \in AllIdle : InStack(idle, p, c) => c \in Conns
  BY <1>1 DEF InStack
<1> QED
  BY <1>2, <1>3

\* Where each transport is, read off the stacks and hands.
PlaceOK ==
  /\ Place = [c \in Conns |-> Place[c]]
  /\ \A p \in Origins, c \in Conns :
       InStack(idle, p, c) => Place[c] = Promise!Idle(p)
  /\ \A t \in Tasks : conn[t] # None =>
       Place[conn[t]] = IF pc[t] \in LentPcs THEN Promise!Lent(origin[t], t)
                        ELSE Promise!Transit(origin[t])
  /\ \A c \in Conns \ live : Place[c] = Promise!Closed

\* The idle limit, over all origins, and what closed stands for.
Room ==
  /\ IsFiniteSet(AllIdle)
  /\ Cardinality(AllIdle) <= MaxIdle
  /\ closed <=> closer \in {"draining", "done"}

\* SlotPool counts as the pool does.
LEMMA SameCardinality == \A S : Promise!Cardinality(S) = Cardinality(S)
BY DEF Promise!Cardinality, Cardinality

-----------------------------------------------------------------------------
\* The refinement mapping is well defined: its choices have one answer.
LEMMA PlaceFollows ==
  ASSUME PoolAssumption, TypeInv, Ownership
  PROVE  PlaceOK
<1> DEFINE holder(c) == CHOOSE t \in Tasks : conn[t] = c
           home(c)   == CHOOSE o \in Origins : c \in IdleConns(o)
           at(c) == IF c \in AllIdle THEN
                      [mode |-> "idle", origin |-> home(c), caller |-> None]
                    ELSE IF c \notin InHand THEN
                      [mode |-> "closed", origin |-> None, caller |-> None]
                    ELSE IF pc[holder(c)] \in {"holding", "releasing"} THEN
                      [mode |-> "lent", origin |-> origin[holder(c)], caller |-> holder(c)]
                    ELSE
                      [mode |-> "transit", origin |-> origin[holder(c)], caller |-> None]
<1>1. Place = [c \in Conns |-> at(c)]
  BY DEF Place
<1>2. Place = [c \in Conns |-> Place[c]] /\ \A c \in Conns : Place[c] = at(c)
  <2> HIDE DEF at
  <2> QED
    BY <1>1
<1>3. Owned(idle, conn, live)
  BY DEF Ownership
<1>4. /\ \A c, p : c \in IdleConns(p) <=> InStack(idle, p, c)
      /\ \A c : c \in AllIdle <=> \E p \in Origins : c \in IdleConns(p)
      /\ \A c : c \in InHand <=> c # None /\ \E t \in Tasks : conn[t] = c
  BY DEF IdleConns, InStack, AllIdle, InHand
<1>5. ASSUME NEW p \in Origins, NEW c \in Conns, InStack(idle, p, c)
      PROVE  Place[c] = Promise!Idle(p)
  <2>1. \A o \in Origins : c \in IdleConns(o) => o = p
    BY <1>3, <1>4, <1>5 DEF Owned, InStack
  <2>2. home(c) = p
    BY <1>4, <1>5, <2>1
  <2> QED
    BY <1>2, <1>4, <1>5, <2>2 DEF Promise!Idle
<1>6. ASSUME NEW t \in Tasks, conn[t] # None
      PROVE  Place[conn[t]] =
               IF pc[t] \in LentPcs THEN Promise!Lent(origin[t], t)
               ELSE Promise!Transit(origin[t])
  <2> DEFINE c == conn[t]
  <2>0. c \in Conns /\ c \in InHand
    BY <1>4, <1>6 DEF TypeInv, TypeOK
  <2>1. c \in Conns /\ c \in InHand /\ c \notin AllIdle
    BY <1>3, <1>4, <1>6, <2>0 DEF Owned, InStack
  <2>2. \A u \in Tasks : conn[u] = c => u = t
    BY <1>3, <1>6 DEF Owned
  <2>3. holder(c) = t
    BY <2>2
  <2> QED
    BY <1>2, <2>1, <2>3 DEF Promise!Lent, Promise!Transit, LentPcs
<1>7. ASSUME NEW c \in Conns \ live
      PROVE  Place[c] = Promise!Closed
  <2>1. c \notin AllIdle /\ c \notin InHand
    BY <1>3, <1>4 DEF Owned, InStack
  <2> QED
    BY <1>2, <2>1 DEF Promise!Closed
<1> QED
  BY <1>2, <1>5, <1>6, <1>7 DEF PlaceOK

\* Everything a transport's place depends on, for those a step leaves alone.
LEMMA SamePlace ==
  ASSUME PlaceOK, PlaceOK', NEW c \in Conns,
         \/ \E p \in Origins : InStack(idle, p, c) /\ InStack(idle', p, c)
         \/ \E u \in Tasks :
              /\ conn[u] = c /\ conn'[u] = c /\ c # None
              /\ origin'[u] = origin[u]
              /\ pc[u] \in LentPcs <=> pc'[u] \in LentPcs
         \/ c \notin live /\ c \notin live'
  PROVE  Place'[c] = Place[c]
BY DEF PlaceOK

\* The others' hands, as a step of t leaves them.
OthersStay(t) ==
  \A u \in Tasks \ {t} :
    /\ conn'[u] = conn[u]
    /\ origin'[u] = origin[u]
    /\ pc[u] \in LentPcs <=> pc'[u] \in LentPcs

LEMMA WakesStay ==
  ASSUME NEW t \in Tasks, OnlyWakes(t)
  PROVE  OthersStay(t)
BY DEF OnlyWakes, OthersStay, LentPcs

\* Stacks that lost entries and gained none.
Shrinks(before, after) ==
  \A p \in Origins, c \in Conns : InStack(after, p, c) => InStack(before, p, c)

\* A step that closes transports nobody was lent, and may pick one from its
\* origin's stack.
Withdrawing(t) ==
  /\ OthersStay(t)
  /\ origin'[t] = origin[t]
  /\ closed' = closed
  /\ Shrinks(idle, idle')
  /\ live' \subseteq live
  /\ conn[t] # None => pc[t] \notin LentPcs
  /\ conn'[t] # None =>
       /\ pc'[t] \notin LentPcs
       /\ \/ conn'[t] = conn[t]
          \/ InStack(idle, origin[t], conn'[t])

LEMMA WithdrawStep ==
  ASSUME PoolAssumption, TypeInv, TypeInv', Ownership, Ownership',
         PlaceOK, PlaceOK', NEW t \in Tasks, Withdrawing(t)
  PROVE  [Promise!Next]_(Promise!vars)
<1> DEFINE dropped == live \ live'
           picked  == IF conn'[t] \in {None, conn[t]} THEN {} ELSE {conn'[t]}
           after   == [c \in Conns |->
                         IF c \in dropped THEN Promise!Closed
                         ELSE IF c \in picked THEN Promise!Transit(Place[c].origin)
                         ELSE Place[c]]
<1>1. Owned(idle, conn, live) /\ Owned(idle', conn', live')
  BY DEF Ownership
<1>2. /\ live \subseteq Conns /\ live' \subseteq Conns
      /\ conn \in [Tasks -> Conns \cup {None}] /\ conn' \in [Tasks -> Conns \cup {None}]
      /\ None \notin Conns
      /\ pc[t] # "none" => origin[t] \in Origins
      /\ conn[t] # None => pc[t] # "none"
  BY DEF TypeInv, TypeOK, HandsOK, PoolAssumption, SlotPcs
<1>3. ASSUME NEW c \in live
      PROVE  \/ \E p \in Origins : InStack(idle, p, c)
             \/ \E u \in Tasks : conn[u] = c
  BY <1>1 DEF Owned, InStack
<1>4. ASSUME NEW c \in live'
      PROVE  \/ \E p \in Origins : InStack(idle', p, c)
             \/ \E u \in Tasks : conn'[u] = c
  BY <1>1 DEF Owned, InStack
<1>5. ASSUME NEW c \in picked
      PROVE  c \in live /\ c \in live' /\ Place[c] = Promise!Idle(origin[t])
             /\ Place'[c] = Promise!Transit(origin[t])
  <2>1. c = conn'[t] /\ c # None /\ c \in Conns /\ InStack(idle, origin[t], c)
    BY <1>2, <1>5 DEF Withdrawing
  <2>2. pc'[t] \notin LentPcs /\ origin'[t] = origin[t] /\ pc'[t] # "none"
    BY <2>1 DEF Withdrawing, TypeInv, HandsOK, SlotPcs
  <2>3. origin[t] \in Origins
    BY <2>2 DEF TypeInv, HandsOK
  <2>4. c \in live /\ c \in live'
    BY <1>1, <2>1, <2>3 DEF Owned, InStack
  <2>5. Place[c] = Promise!Idle(origin[t])
    BY <2>1, <2>3 DEF PlaceOK
  <2>6. Place'[c] = Promise!Transit(origin[t])
    BY <2>1, <2>2 DEF PlaceOK
  <2> QED
    BY <2>4, <2>5, <2>6
<1>6. ASSUME NEW c \in dropped
      PROVE  Place[c].mode \in {"idle", "transit"} /\ Place'[c] = Promise!Closed
  <2>1. CASE \E p \in Origins : InStack(idle, p, c)
    BY <1>2, <2>1 DEF PlaceOK, Promise!Idle
  <2>2. CASE \E u \in Tasks : conn[u] = c
    <3>1. PICK u \in Tasks : conn[u] = c
      BY <2>2
    <3>2. c # None /\ c \in live /\ c \notin live' /\ c \in Conns
      BY <1>2
    <3>3. u = t
      BY <1>1, <3>1, <3>2 DEF Owned, Withdrawing, OthersStay
    <3>4. Place[c] = Promise!Transit(origin[t])
      BY <3>1, <3>2, <3>3 DEF PlaceOK, Withdrawing
    <3> QED
      BY <3>2, <3>4 DEF PlaceOK, Promise!Transit
  <2>3. Place'[c] = Promise!Closed
    BY <1>2 DEF PlaceOK
  <2> QED
    BY <1>3, <2>1, <2>2, <2>3
<1>7. ASSUME NEW c \in Conns, c \notin dropped, c \notin picked
      PROVE  Place'[c] = Place[c]
  <2>1. CASE c \notin live'
    BY <1>7, <2>1, SamePlace
  <2>2. CASE \E p \in Origins : InStack(idle', p, c)
    BY <2>2, SamePlace DEF Withdrawing, Shrinks
  <2>3. CASE \E u \in Tasks : conn'[u] = c
    <3>1. PICK u \in Tasks : conn'[u] = c
      BY <2>3
    <3>2. conn[u] = c /\ origin'[u] = origin[u] /\ c # None
      BY <1>2, <1>7, <3>1 DEF Withdrawing, OthersStay
    <3>3. pc[u] \in LentPcs <=> pc'[u] \in LentPcs
      BY <3>1, <3>2 DEF Withdrawing, OthersStay
    <3> QED
      BY <3>1, <3>2, <3>3, SamePlace
  <2> QED
    BY <1>4, <2>1, <2>2, <2>3
<1>8. Place' = after
  <2>1. Place' = [c \in Conns |-> Place'[c]]
    BY DEF PlaceOK
  <2>2. \A c \in Conns : Place'[c] = after[c]
    <3> SUFFICES ASSUME NEW c \in Conns
                 PROVE  Place'[c] = after[c]
      OBVIOUS
    <3>1. CASE c \in dropped
      BY <1>6, <3>1
    <3>2. CASE c \notin dropped /\ c \in picked
      <4>1. Place[c].origin = origin[t]
        BY <1>5, <3>2 DEF Promise!Idle
      <4> QED
        BY <1>5, <3>2, <4>1
    <3>3. CASE c \notin dropped /\ c \notin picked
      BY <1>7, <3>3
    <3> QED
      BY <3>1, <3>2, <3>3
  <2> HIDE DEF after
  <2>3. after = [c \in Conns |-> after[c]]
    BY DEF after
  <2> QED
    BY <2>1, <2>2, <2>3
<1>9. (~closed)' = ~closed
  BY DEF Withdrawing
<1>10. CASE dropped \cup picked = {}
  <2>1. Place' = Place
    <3>1. \A c \in Conns : Place'[c] = Place[c]
      BY <1>7, <1>10
    <3>2. Place' = [c \in Conns |-> Place'[c]] /\ Place = [c \in Conns |-> Place[c]]
      BY DEF PlaceOK
    <3> QED
      BY <3>1, <3>2
  <2> QED
    BY <1>9, <2>1 DEF Promise!vars
<1>11. CASE dropped \cup picked # {}
  <2>1. dropped \cap picked = {}
    BY <1>5
  <2>2. \A c \in dropped : Place[c].mode \in {"idle", "transit"}
    BY <1>6
  <2>3. \A c \in picked : Place[c].mode = "idle"
    BY <1>5 DEF Promise!Idle
  <2>4. Promise!Withdraw(dropped, picked)
    <3> HIDE DEF dropped, picked
    <3> QED
      BY <1>8, <1>9, <1>11, <2>1, <2>2, <2>3 DEF Promise!Withdraw
  <2>5. dropped \in SUBSET Conns /\ \E c \in Conns : picked = {} \/ picked = {c}
    BY <1>2, <1>11
  <2> HIDE DEF dropped, picked
  <2>6. Promise!Next
    BY <2>4, <2>5 DEF Promise!Next
  <2> QED
    BY <2>6
<1> QED
  BY <1>10, <1>11

\* A step that changes no stack, no hand and nobody's claim on one.
Staying ==
  /\ UNCHANGED <<idle, conn, live, closed>>
  /\ \A u \in Tasks : conn[u] # None =>
       /\ origin'[u] = origin[u]
       /\ pc[u] \in LentPcs <=> pc'[u] \in LentPcs

LEMMA UnmovedStep ==
  ASSUME PoolAssumption, TypeInv, TypeInv', Ownership, Ownership',
         PlaceOK, PlaceOK', Staying
  PROVE  UNCHANGED Promise!vars
<1> USE DEF Staying
<1>1. ASSUME NEW c \in Conns
      PROVE  Place'[c] = Place[c]
  <2>1. \/ \E p \in Origins : InStack(idle, p, c)
        \/ c # None /\ \E u \in Tasks : conn[u] = c
        \/ c \notin live
    BY PoolAssumption DEF Ownership, Owned, InStack, PoolAssumption
  <2> QED
    BY <2>1, SamePlace
<1>2. Place' = [c \in Conns |-> Place'[c]] /\ Place = [c \in Conns |-> Place[c]]
  BY DEF PlaceOK
<1>3. Place' = Place
  BY <1>1, <1>2
<1> QED
  BY <1>3 DEF Promise!vars

\* What a step of t makes of the transport c in its hand before or after.
LEMMA OneMoves ==
  ASSUME PlaceOK, PlaceOK', NEW c \in Conns, NEW to,
         Place'[c] = to,
         \A d \in Conns \ {c} : Place'[d] = Place[d]
  PROVE  Place' = [Place EXCEPT ![c] = to]
<1> DEFINE after == [Place EXCEPT ![c] = to]
<1>1. Place' = [d \in Conns |-> Place'[d]] /\ Place = [d \in Conns |-> Place[d]]
  BY DEF PlaceOK
<1>2. after = [d \in Conns |-> IF d = c THEN to ELSE Place[d]]
  BY <1>1
<1> HIDE DEF after
<1>3. Place' = after
  BY <1>1, <1>2
<1> QED
  BY <1>3 DEF after

\* The probe is clean, or the dial found the pool open: the caller gets its
\* transport.
Lending(t) ==
  /\ OthersStay(t)
  /\ UNCHANGED <<idle, conn, origin, live, closed>>
  /\ ~closed
  /\ pc[t] \in {"probing", "dialed"}
  /\ pc'[t] = "holding"

LEMMA LendStep ==
  ASSUME PoolAssumption, TypeInv, TypeInv', Ownership, Ownership',
         PlaceOK, PlaceOK', NEW t \in Tasks, Lending(t)
  PROVE  Promise!Next
<1> USE DEF Lending
<1> DEFINE c == conn[t]
<1>1. c \in Conns /\ c # None
  BY DEF TypeInv, HandsOK, PoolAssumption
<1>2. Place[c] = Promise!Transit(origin[t]) /\ Place'[c] = Promise!Lent(origin[t], t)
  BY <1>1 DEF PlaceOK, LentPcs
<1>3. ASSUME NEW d \in Conns \ {c}
      PROVE  Place'[d] = Place[d]
  <2>1. \/ \E p \in Origins : InStack(idle, p, d)
        \/ d # None /\ \E u \in Tasks \ {t} : conn[u] = d
        \/ d \notin live
    BY PoolAssumption DEF Ownership, Owned, InStack, PoolAssumption
  <2> QED
    BY <2>1, SamePlace DEF OthersStay
<1> HIDE DEF c
<1>4. Place[c].mode = "transit" /\ Place[c].origin = origin[t]
  BY <1>2 DEF Promise!Transit
<1>5. Place' = [Place EXCEPT ![c] = Promise!Lent(origin[t], t)]
  BY <1>1, <1>2, <1>3, OneMoves
<1>6. Place' = [Place EXCEPT ![c] = Promise!Lent(@.origin, t)]
  BY <1>4, <1>5
<1>7. Promise!Lend(c, t)
  BY <1>4, <1>6 DEF Promise!Lend
<1> QED
  BY <1>1, <1>7 DEF Promise!Next

\* The opener returned a transport nobody knew.
Opening(t) ==
  /\ OthersStay(t)
  /\ UNCHANGED <<idle, origin, closed>>
  /\ pc[t] = "dialing"
  /\ pc'[t] \in {"dialed", "dial_failed"}
  /\ \E c \in Conns \ live :
       live' = live \cup {c} /\ conn' = [conn EXCEPT ![t] = c]

LEMMA OpenStep ==
  ASSUME PoolAssumption, TypeInv, TypeInv', Ownership, Ownership',
         PlaceOK, PlaceOK', CapRespected', NEW t \in Tasks, Opening(t)
  PROVE  Promise!Next
<1> USE DEF Opening
<1> PICK c \in Conns \ live :
      live' = live \cup {c} /\ conn' = [conn EXCEPT ![t] = c]
  OBVIOUS
<1> DEFINE o == origin[t]
           open == Promise!OpenOf(o)
           known == (IdleConns(o) \cup {conn[u] : u \in SlotUsers(o)}) \ {None}
<1>1. /\ o \in Origins /\ c # None /\ conn'[t] = c /\ o # None
      /\ conn[t] = None /\ \A u \in Tasks \ {t} : conn'[u] = conn[u]
  BY DEF TypeInv, TypeOK, HandsOK, PoolAssumption
<1>2. Place[c] = Promise!Closed /\ Place'[c] = Promise!Transit(o)
  BY <1>1 DEF PlaceOK, LentPcs
<1>3. ASSUME NEW d \in Conns \ {c}
      PROVE  Place'[d] = Place[d]
  <2>1. \/ \E p \in Origins : InStack(idle, p, d)
        \/ d # None /\ \E u \in Tasks \ {t} : conn[u] = d
        \/ d \notin live /\ d \notin live'
    BY <1>1 DEF Ownership, Owned, InStack, PoolAssumption
  <2> QED
    BY <1>1, <2>1, SamePlace DEF OthersStay
<1>4. Place' = [Place EXCEPT ![c] = Promise!Transit(o)]
  BY <1>1, <1>2, <1>3, OneMoves
<1>5. open \cup {c} \subseteq known'
  <2>1. c \in known'
    <3>1. t \in SlotUsers(o)'
      BY <1>1 DEF SlotUsers, SlotPcs
    <3> QED
      BY <1>1, <3>1
  <2>2. ASSUME NEW d \in open
        PROVE  d \in known'
    <3>1. d \in Conns /\ Place[d].origin = o /\ d # c /\ d # None
      BY <1>1, <1>2 DEF Promise!OpenOf, Promise!Closed, PoolAssumption
    <3>2. CASE \E p \in Origins : InStack(idle, p, d)
      <4>1. PICK p \in Origins : InStack(idle, p, d)
        BY <3>2
      <4>2. p = o
        BY <3>1, <4>1 DEF PlaceOK, Promise!Idle
      <4>3. d \in IdleConns(o)'
        BY <4>1, <4>2 DEF InStack, IdleConns
      <4> QED
        BY <3>1, <4>3
    <3>3. CASE \E u \in Tasks : conn[u] = d
      <4>1. PICK u \in Tasks : conn[u] = d
        BY <3>3
      <4>a. \/ Place[d] = Promise!Lent(origin[u], u)
            \/ Place[d] = Promise!Transit(origin[u])
        BY <3>1, <4>1 DEF PlaceOK
      <4>2. origin[u] = o
        BY <3>1, <4>a DEF Promise!Lent, Promise!Transit
      <4>3. u # t /\ conn'[u] = d
        BY <1>1, <3>1, <4>1
      <4>4. pc'[u] \in SlotPcs
        BY <3>1, <4>3 DEF TypeInv, HandsOK
      <4>5. u \in SlotUsers(o)'
        BY <4>2, <4>4 DEF SlotUsers
      <4> QED
        BY <3>1, <4>3, <4>5
    <3>4. CASE d \notin live
      BY <1>1, <3>1, <3>4 DEF PlaceOK, Promise!Closed
    <3> QED
      BY <3>2, <3>3, <3>4 DEF Ownership, Owned, InStack
  <2> QED
    BY <2>1, <2>2
<1>6. IsFiniteSet(known') /\ Cardinality(known') <= MaxPerOrigin
  <2>1. Cardinality(known') <= MaxPerOrigin
    BY <1>1 DEF CapRespected
  <2>2. Len(idle[o]) \in Nat
    BY <1>1 DEF TypeInv, TypeOK
  <2>3. IsFiniteSet(IdleConns(o)')
    <3> DEFINE S == 1..Len(idle[o])
               T == {idle[o][i] : i \in S}
               f == [i \in S |-> idle[o][i]]
    <3>1. f \in Surjection(S, T)
      BY DEF Surjection
    <3>2. IsFiniteSet(S)
      <4> DEFINE n == Len(idle[o])
      <4>1. 1 \in Int /\ n \in Int
        BY <2>2
      <4> HIDE DEF n
      <4>2. IsFiniteSet(1..n)
        BY <4>1, FS_Interval
      <4> QED
        BY <4>2 DEF n
    <3>3. IdleConns(o)' = T
      BY DEF IdleConns
    <3> HIDE DEF S, T, f, o
    <3> QED
      BY <3>1, <3>2, <3>3, FS_Surjection
  <2>4. IsFiniteSet({conn[u] : u \in SlotUsers(o)}')
    <3> DEFINE S == SlotUsers(o)'
               T == {conn'[u] : u \in S}
               f == [u \in S |-> conn'[u]]
    <3>1. f \in Surjection(S, T)
      BY DEF Surjection
    <3>2. S \in SUBSET Tasks
      BY DEF SlotUsers
    <3>3. IsFiniteSet(S)
      <4> HIDE DEF S
      <4> QED
        BY <3>2, FS_Subset, PoolAssumption DEF PoolAssumption
    <3> HIDE DEF S, f
    <3>4. IsFiniteSet(T)
      <4> HIDE DEF T
      <4> QED
        BY <3>1, <3>3, FS_Surjection
    <3> QED
      BY <3>4 DEF S
  <2> DEFINE A == IdleConns(o)'
             B == {conn[u] : u \in SlotUsers(o)}'
  <2>5. known' = (A \cup B) \ {None}
    OBVIOUS
  <2>6. IsFiniteSet((A \cup B) \ {None})
    <3> HIDE DEF A, B
    <3>1. IsFiniteSet(A) /\ IsFiniteSet(B)
      BY <2>3, <2>4 DEF A, B
    <3>2. IsFiniteSet(A \cup B)
      BY <3>1, FS_Union
    <3> QED
      BY <3>2, FS_Subset
  <2> QED
    BY <2>1, <2>5, <2>6
<1>7. c \notin open
  BY <1>1, <1>2 DEF Promise!OpenOf, Promise!Closed
<1> HIDE DEF known, open
<1>8. IsFiniteSet(open) /\ Cardinality(open) \in Nat
      /\ Cardinality(open) + 1 <= MaxPerOrigin
  <2>1. IsFiniteSet(open \cup {c}) /\ Cardinality(open \cup {c}) <= Cardinality(known')
    BY <1>5, <1>6, FS_Subset
  <2>2. IsFiniteSet(open) /\ open \in SUBSET (open \cup {c})
    BY <2>1, FS_Subset
  <2>3. Cardinality(open \cup {c}) = Cardinality(open) + 1
    BY <1>7, <2>2, FS_AddElement
  <2>4. Cardinality(open) \in Nat /\ Cardinality(known') \in Nat /\ MaxPerOrigin \in Nat
    BY <1>6, <2>2, FS_CardinalityType, PoolAssumption DEF PoolAssumption
  <2> QED
    BY <1>6, <2>1, <2>2, <2>3, <2>4
<1>9. Cardinality(open) < MaxPerOrigin
  BY <1>8, PoolAssumption DEF PoolAssumption
<1>10. Promise!Open(o, c)
  <2>1. (~closed)' = ~closed
    OBVIOUS
  <2> HIDE DEF Opening, o
  <2> QED
    BY <1>2, <1>4, <1>9, <2>1, SameCardinality DEF Promise!Open, open
<1> HIDE DEF o
<1> QED
  BY <1>1, <1>10 DEF Promise!Next

\* release() closes the transport of its caller.
Discarding(t) ==
  /\ OthersStay(t)
  /\ UNCHANGED <<idle, origin, closed>>
  /\ pc[t] = "releasing"
  /\ live' = live \ {conn[t]}
  /\ conn' = [conn EXCEPT ![t] = None]

LEMMA DiscardStep ==
  ASSUME PoolAssumption, TypeInv, TypeInv', Ownership, Ownership',
         PlaceOK, PlaceOK', NEW t \in Tasks, Discarding(t)
  PROVE  Promise!Next
<1> USE DEF Discarding
<1> DEFINE c == conn[t]
<1>1. /\ c \in Conns /\ c # None /\ conn'[t] = None
      /\ \A u \in Tasks \ {t} : conn'[u] = conn[u]
  BY DEF TypeInv, TypeOK, HandsOK, PoolAssumption
<1>2. Place[c] = Promise!Lent(origin[t], t) /\ Place'[c] = Promise!Closed
  BY <1>1 DEF PlaceOK, LentPcs
<1>3. ASSUME NEW d \in Conns \ {c}
      PROVE  Place'[d] = Place[d]
  <2>1. \/ \E p \in Origins : InStack(idle, p, d)
        \/ d # None /\ \E u \in Tasks \ {t} : conn[u] = d
        \/ d \notin live /\ d \notin live'
    BY <1>1, PoolAssumption DEF Ownership, Owned, InStack, PoolAssumption
  <2> QED
    BY <1>1, <2>1, SamePlace DEF OthersStay
<1> HIDE DEF c
<1>4. Place[c].mode = "lent" /\ Place[c].caller = t
  BY <1>2 DEF Promise!Lent
<1>5. Place' = [Place EXCEPT ![c] = Promise!Closed]
  BY <1>1, <1>2, <1>3, OneMoves
<1>6. Promise!Discard(c, t)
  BY <1>4, <1>5 DEF Promise!Discard
<1> QED
  BY <1>1, <1>6 DEF Promise!Next

\* The connections that are idle for the promise are those on the stacks.
LEMMA IdleSetIs ==
  ASSUME PoolAssumption, TypeInv, Ownership, PlaceOK
  PROVE  Promise!IdleSet = AllIdle
<1>1. ASSUME NEW c \in Conns
      PROVE  Place[c].mode = "idle" <=> c \in AllIdle
  <2>1. c \in AllIdle <=> \E p \in Origins : InStack(idle, p, c)
    BY IdleOnStacks
  <2>2. CASE \E p \in Origins : InStack(idle, p, c)
    BY <2>1, <2>2 DEF PlaceOK, Promise!Idle
  <2>3. CASE \E u \in Tasks : conn[u] = c
    <3>1. PICK u \in Tasks : conn[u] = c
      BY <2>3
    <3>a. \/ Place[c] = Promise!Lent(origin[u], u)
          \/ Place[c] = Promise!Transit(origin[u])
      BY <3>1, PoolAssumption DEF PlaceOK, PoolAssumption
    <3>2. Place[c].mode \in {"lent", "transit"}
      BY <3>a DEF Promise!Lent, Promise!Transit
    <3>3. c \notin AllIdle
      BY <2>1, <3>1 DEF Ownership, Owned, InStack
    <3> QED
      BY <3>2, <3>3
  <2>4. CASE c \notin live
    BY <2>1, <2>4 DEF PlaceOK, Promise!Closed, Ownership, Owned, InStack
  <2> QED
    BY <2>2, <2>3, <2>4 DEF Ownership, Owned, InStack
<1>2. AllIdle \subseteq Conns
  BY IdleOnStacks
<1> QED
  BY <1>1, <1>2 DEF Promise!IdleSet

\* release() keeps its caller's transport, and may have evicted others.
PuttingBack(t, gone) ==
  /\ OthersStay(t)
  /\ UNCHANGED <<origin, closed>>
  /\ ~closed
  /\ pc[t] = "releasing"
  /\ conn' = [conn EXCEPT ![t] = None]
  /\ gone \subseteq AllIdle
  /\ live' = live \ gone
  /\ \A p \in Origins, c \in Conns :
       InStack(idle', p, c) <=>
         \/ p = origin[t] /\ c = conn[t]
         \/ InStack(idle, p, c) /\ c \notin gone
  /\ Cardinality(AllIdle \ gone) < MaxIdle

LEMMA PutBackStep ==
  ASSUME PoolAssumption, TypeInv, TypeInv', Ownership, Ownership',
         PlaceOK, PlaceOK', NEW t \in Tasks, NEW gone, PuttingBack(t, gone)
  PROVE  Promise!Next
<1> USE DEF PuttingBack
<1> DEFINE c == conn[t]
           o == origin[t]
           after == [d \in Conns |->
                       IF d = c THEN Promise!Idle(Place[c].origin)
                       ELSE IF d \in gone THEN Promise!Closed
                       ELSE Place[d]]
<1>1. /\ c \in Conns /\ c # None /\ conn'[t] = None /\ o \in Origins
      /\ \A u \in Tasks \ {t} : conn'[u] = conn[u]
      /\ gone \subseteq Conns
  <2>1. AllIdle \subseteq Conns
    <3> HIDE DEF PuttingBack
    <3> QED
      BY IdleOnStacks
  <2>2. c \in Conns /\ o \in Origins /\ conn \in [Tasks -> Conns \cup {None}]
    BY DEF TypeInv, TypeOK, HandsOK
  <2> QED
    BY <2>1, <2>2, PoolAssumption DEF PoolAssumption
<1>2. Place[c] = Promise!Lent(o, t) /\ Place'[c] = Promise!Idle(o)
  BY <1>1 DEF PlaceOK, LentPcs
<1>3. Place[c].mode = "lent" /\ Place[c].caller = t /\ Place[c].origin = o
  BY <1>2 DEF Promise!Lent
<1>4. ASSUME NEW d \in Conns \ {c}
      PROVE  Place'[d] = IF d \in gone THEN Promise!Closed ELSE Place[d]
  <2>1. CASE d \in gone
    BY <2>1 DEF PlaceOK
  <2>2. CASE d \notin gone
    <3>1. \/ \E p \in Origins : InStack(idle, p, d)
          \/ d # None /\ \E u \in Tasks \ {t} : conn[u] = d
          \/ d \notin live /\ d \notin live'
      BY <1>1, PoolAssumption DEF Ownership, Owned, InStack, PoolAssumption
    <3>2. Place'[d] = Place[d]
      BY <1>1, <2>2, <3>1, SamePlace DEF OthersStay
    <3> QED
      BY <2>2, <3>2
  <2> QED
    BY <2>1, <2>2
<1>5. Place' = after
  <2>1. Place' = [d \in Conns |-> Place'[d]]
    BY DEF PlaceOK
  <2>2. \A d \in Conns : Place'[d] = after[d]
    BY <1>2, <1>3, <1>4
  <2> HIDE DEF after
  <2>3. after = [d \in Conns |-> after[d]]
    BY DEF after
  <2> QED
    BY <2>1, <2>2, <2>3
<1>6. gone \subseteq Promise!IdleSet /\ Cardinality(Promise!IdleSet \ gone) < MaxIdle
  BY IdleSetIs
<1>7. Promise!PutBack(c, t, gone)
  <2>1. ~closed /\ (~closed)' = ~closed
    OBVIOUS
  <2> HIDE DEF c, o, PuttingBack
  <2> QED
    BY <1>3, <1>5, <1>6, <2>1, SameCardinality DEF Promise!PutBack
<1> HIDE DEF c
<1>8. gone \in SUBSET Conns
  BY <1>1
<1> QED
  BY <1>1, <1>7, <1>8 DEF Promise!Next

\* aclose() closes what is idle and lends no more.
Shutting ==
  /\ UNCHANGED <<conn, origin>>
  /\ ~closed
  /\ closed'
  /\ \A u \in Tasks : pc[u] \in LentPcs <=> pc'[u] \in LentPcs
  /\ idle' = [o \in Origins |-> <<>>]
  /\ live' = live \ AllIdle

LEMMA ShutStep ==
  ASSUME PoolAssumption, TypeInv, TypeInv', Ownership, Ownership',
         PlaceOK, PlaceOK', Shutting
  PROVE  Promise!Next
<1> USE DEF Shutting
<1> DEFINE after == [c \in Conns |-> IF c \in AllIdle THEN Promise!Closed ELSE Place[c]]
<1>1. ASSUME NEW c \in Conns
      PROVE  Place'[c] = IF c \in AllIdle THEN Promise!Closed ELSE Place[c]
  <2>1. CASE c \in AllIdle
    BY <2>1 DEF PlaceOK
  <2>2. CASE c \notin AllIdle
    <3>1. \A p \in Origins : ~InStack(idle, p, c)
      BY <2>2 DEF AllIdle, IdleConns, InStack
    <3>2. \/ c # None /\ \E u \in Tasks : conn[u] = c
          \/ c \notin live /\ c \notin live'
      BY <3>1, PoolAssumption DEF Ownership, Owned, InStack, PoolAssumption
    <3> QED
      BY <2>2, <3>2, SamePlace
  <2> QED
    BY <2>1, <2>2
<1>2. Place' = after
  <2>1. Place' = [d \in Conns |-> Place'[d]]
    BY DEF PlaceOK
  <2>2. \A d \in Conns : Place'[d] = after[d]
    BY <1>1
  <2> HIDE DEF after
  <2>3. after = [d \in Conns |-> after[d]]
    BY DEF after
  <2> QED
    BY <2>1, <2>2, <2>3
<1>3. Promise!IdleSet = AllIdle
  BY IdleSetIs
<1>4. (~closed) /\ (~closed)' = FALSE
  OBVIOUS
<1>5. Promise!Shut
  BY <1>2, <1>3, <1>4 DEF Promise!Shut
<1> QED
  BY <1>5 DEF Promise!Next

-----------------------------------------------------------------------------
(* What the pool's own steps come to.                                      *)

\* A checkout takes from the stacks it is given, and never adds to them.
LEMMA CheckoutShrinks ==
  ASSUME PoolAssumption, TypeInv,
         NEW t \in Tasks, NEW o \in Origins,
         NEW stack \in Stacks, NEW open, NEW waiters, NEW reg, NEW gone, NEW touched,
         Checkout(t, o, stack, open, waiters, reg, gone, touched)
  PROVE  /\ Shrinks(stack, idle')
         /\ live' \subseteq live
         /\ conn'[t] # None =>
              pc'[t] = "probing" /\ InStack(stack, o, conn'[t])
<1> DEFINE s == stack[o]
<1>1. PICK k \in 0..Len(s) :
        /\ live' \subseteq live
        /\ \E woken :
           /\ \E os : woken = NotifyAll(os)
           /\ \/ /\ k > 0
                 /\ idle' = [stack EXCEPT ![o] = SubSeq(s, 1, k - 1)]
                 /\ pc' = [woken EXCEPT ![t] = "probing"]
                 /\ conn' = [conn EXCEPT ![t] = s[k]]
              \/ /\ idle' = [stack EXCEPT ![o] = <<>>]
                 /\ conn' = [conn EXCEPT ![t] = None]
  BY DEF Checkout, CloseWriters
<1>2. s \in Seq(Conns) /\ Len(s) \in Nat /\ conn \in [Tasks -> Conns \cup {None}]
  BY DEF Stacks, TypeInv, TypeOK
<1>3. CASE idle' = [stack EXCEPT ![o] = <<>>] /\ conn' = [conn EXCEPT ![t] = None]
  <2>1. /\ \A p \in Origins \ {o} : idle'[p] = stack[p]
        /\ idle'[o] = <<>> /\ Len(idle'[o]) = 0
    BY <1>3 DEF Stacks
  <2>2. Shrinks(stack, idle')
    BY <2>1 DEF Shrinks, InStack
  <2> QED
    BY <1>1, <1>2, <1>3, <2>2
<1>4. CASE k > 0 /\ conn' = [conn EXCEPT ![t] = s[k]]
           /\ idle' = [stack EXCEPT ![o] = SubSeq(s, 1, k - 1)]
           /\ \E os : pc' = [NotifyAll(os) EXCEPT ![t] = "probing"]
  <2>1. /\ Len(SubSeq(s, 1, k - 1)) = k - 1
        /\ \A i \in 1..(k - 1) : SubSeq(s, 1, k - 1)[i] = s[i]
    BY <1>2, <1>4, SlicesAreSequences
  <2>2. /\ \A p \in Origins \ {o} : idle'[p] = stack[p]
        /\ idle'[o] = SubSeq(s, 1, k - 1)
    BY <1>4 DEF Stacks
  <2>3. \A i \in 1..Len(idle'[o]) : i \in 1..Len(s) /\ idle'[o][i] = s[i]
    BY <1>2, <2>1, <2>2
  <2>4. Shrinks(stack, idle')
    BY <2>2, <2>3 DEF Shrinks, InStack
  <2>5. conn'[t] = s[k] /\ k \in 1..Len(s)
    BY <1>2, <1>4
  <2>6. pc'[t] = "probing"
    BY <1>4 DEF NotifyAll, TypeInv, TypeOK
  <2> QED
    BY <1>1, <2>4, <2>5, <2>6 DEF InStack
<1> QED
  BY <1>1, <1>3, <1>4

\* A turn of acquire()'s loop.
LEMMA LoopWithdraws ==
  ASSUME PoolAssumption, TypeInv, NEW t \in Tasks, OnlyWakes(t),
         pc[t] \in {"locking", "woken"},
         NEW waiters, AcquireLoop(t, origin[t], waiters),
         UNCHANGED <<origin, keep, requests, since, input, closeVars, now>>
  PROVE  Withdrawing(t)
<1>1. PICK cut \in Expired :
        \E open, reg, gone, touched :
          Checkout(t, origin[t],
                   [p \in Origins |-> SubSeq(idle[p], cut[p] + 1, Len(idle[p]))],
                   open, waiters, reg, gone, touched)
  BY DEF AcquireLoop
<1> DEFINE stack == [p \in Origins |-> SubSeq(idle[p], cut[p] + 1, Len(idle[p]))]
<1>2. /\ origin[t] \in Origins /\ conn[t] = None
      /\ idle \in [Origins -> Seq(Conns)]
  BY DEF TypeInv, TypeOK, HandsOK, SlotPcs
<1>3. ASSUME NEW p \in Origins
      PROVE  /\ stack[p] \in Seq(Conns)
             /\ \A i \in 1..Len(stack[p]) :
                  i + cut[p] \in 1..Len(idle[p]) /\ stack[p][i] = idle[p][i + cut[p]]
  <2> DEFINE s == idle[p]
             m == cut[p] + 1
  <2>1. s \in Seq(Conns) /\ cut[p] \in Nat /\ cut[p] <= Len(s)
    BY <1>2 DEF Expired, ExpiredPrefix
  <2>2. m \in 1..(Len(s) + 1) /\ Len(s) \in (m - 1)..Len(s) /\ Len(s) \in Nat
    BY <2>1
  <2>3. stack[p] = SubSeq(s, m, Len(s))
    OBVIOUS
  <2>4. /\ SubSeq(s, m, Len(s)) \in Seq(Conns)
        /\ Len(SubSeq(s, m, Len(s))) = (Len(s) - m) + 1
        /\ \A i \in 1..((Len(s) - m) + 1) : SubSeq(s, m, Len(s))[i] = s[m + i - 1]
    <3> HIDE DEF s, m
    <3> QED
      BY <2>1, <2>2, SlicesAreSequences
  <2> HIDE DEF stack
  <2>5. ASSUME NEW i \in 1..Len(stack[p])
        PROVE  i + cut[p] \in 1..Len(s) /\ stack[p][i] = s[i + cut[p]]
    <3>1. /\ i \in 1..((Len(s) - m) + 1) /\ m + i - 1 = i + cut[p]
      BY <2>1, <2>2, <2>3, <2>4
    <3>2. stack[p][i] = s[m + i - 1]
      BY <2>3, <2>4, <3>1
    <3>3. i + cut[p] \in 1..Len(s)
      <4>1. Len(s) \in Nat /\ cut[p] \in Nat /\ i \in Nat
            /\ 1 <= i /\ i <= Len(s) - cut[p]
        BY <2>1, <2>2, <3>1
      <4> QED
        BY <4>1
    <3> QED
      BY <3>1, <3>2, <3>3
  <2> QED
    BY <2>3, <2>4, <2>5
<1>4. stack \in Stacks
  BY <1>3 DEF Stacks
<1>5. Shrinks(idle, stack)
  <2> HIDE DEF stack
  <2> QED
    BY <1>3 DEF Shrinks, InStack
<1>6. PICK open, reg, gone, touched :
        Checkout(t, origin[t], stack, open, waiters, reg, gone, touched)
  BY <1>1
<1> HIDE DEF stack
<1>7. /\ Shrinks(stack, idle') /\ live' \subseteq live
      /\ conn'[t] # None => pc'[t] = "probing" /\ InStack(stack, origin[t], conn'[t])
  BY <1>2, <1>4, <1>6, CheckoutShrinks
<1>8. Shrinks(idle, idle')
  BY <1>5, <1>7 DEF Shrinks
<1>9. conn'[t] # None => conn'[t] \in Conns
  <2>1. \A i \in 1..Len(stack[origin[t]]) : stack[origin[t]][i] \in Conns
    BY <1>2, <1>4 DEF Stacks
  <2> QED
    BY <1>7, <2>1 DEF InStack
<1>10. conn'[t] # None => InStack(idle, origin[t], conn'[t]) /\ pc'[t] \notin LentPcs
  BY <1>2, <1>5, <1>7, <1>9 DEF Shrinks, LentPcs
<1> QED
  BY <1>2, <1>7, <1>8, <1>10, WakesStay DEF Withdrawing, closeVars

\* The pool counts stack entries; no connection is in two of them.
LEMMA IdleCountIs ==
  ASSUME PoolAssumption, TypeInv, Ownership, IsFiniteSet(AllIdle)
  PROVE  IdleCount = Cardinality(AllIdle)
<1> DEFINE slots == UNION {{o} \X (1..Len(idle[o])) : o \in Origins}
           f     == [x \in slots |-> idle[x[1]][x[2]]]
<1>1. \A x : x \in slots <=>
        \E o \in Origins : \E i \in 1..Len(idle[o]) : x = <<o, i>>
  OBVIOUS
<1>2. \A x \in slots : /\ x[1] \in Origins /\ x[2] \in 1..Len(idle[x[1]])
                       /\ x = <<x[1], x[2]>>
  BY <1>1
<1>3. \A c : c \in AllIdle <=>
        \E o \in Origins : \E i \in 1..Len(idle[o]) : idle[o][i] = c
  BY DEF AllIdle, IdleConns
<1> HIDE DEF slots
<1>4. f \in [slots -> AllIdle]
  BY <1>2, <1>3
<1>5. \A x, y \in slots : f[x] = f[y] => x = y
  <2> SUFFICES ASSUME NEW x \in slots, NEW y \in slots, f[x] = f[y]
               PROVE  x = y
    OBVIOUS
  <2>1. idle[x[1]][x[2]] = idle[y[1]][y[2]]
    OBVIOUS
  <2>2. x[1] = y[1] /\ x[2] = y[2]
    BY <1>2, <2>1 DEF Ownership, Owned
  <2> QED
    BY <1>2, <2>2
<1>6. \A c \in AllIdle : \E x \in slots : f[x] = c
  <2> SUFFICES ASSUME NEW c \in AllIdle
               PROVE  \E x \in slots : f[x] = c
    OBVIOUS
  <2>1. PICK o \in Origins : \E i \in 1..Len(idle[o]) : idle[o][i] = c
    BY <1>3
  <2>2. PICK i \in 1..Len(idle[o]) : idle[o][i] = c
    BY <2>1
  <2>3. <<o, i>> \in slots
    BY <1>1
  <2>4. f[<<o, i>>] = c
    BY <2>2, <2>3
  <2> QED
    BY <2>3, <2>4
<1> HIDE DEF f
<1>7. f \in Injection(slots, AllIdle) /\ f \in Surjection(slots, AllIdle)
  BY <1>4, <1>5, <1>6 DEF Injection, IsInjective, Surjection
<1>8. Cardinality(slots) = Cardinality(AllIdle)
  BY <1>7, FS_Injection
<1> QED
  BY <1>8 DEF IdleCount, slots

\* release() that keeps, after it made room in the stacks.
LEMMA KeepPutsBack ==
  ASSUME PoolAssumption, TypeInv, Ownership, Room,
         NEW t \in Tasks, OnlyWakes(t), pc[t] = "releasing", MayKeep(t),
         NEW stack \in Stacks, NEW open, NEW reg, NEW gone, NEW touched,
         Keep(t, stack, open, reg, gone, touched),
         gone \subseteq AllIdle,
         \A p \in Origins, c \in Conns :
           InStack(stack, p, c) <=> InStack(idle, p, c) /\ c \notin gone,
         Cardinality(AllIdle \ gone) < MaxIdle
  PROVE  PuttingBack(t, gone)
<1> DEFINE o == origin[t]
           x == conn[t]
<1>1. o \in Origins /\ x \in Conns
  BY DEF TypeInv, HandsOK
<1>2. /\ idle' = [stack EXCEPT ![o] = Append(@, x)]
      /\ live' = live \ gone
      /\ conn' = [conn EXCEPT ![t] = None]
      /\ UNCHANGED <<origin, closed>>
  BY DEF Keep, CloseWriters, closeVars
<1>3. /\ \A p \in Origins \ {o} : idle'[p] = stack[p]
      /\ idle'[o] = Append(stack[o], x)
      /\ stack[o] \in Seq(Conns) /\ Len(stack[o]) \in Nat
  BY <1>1, <1>2 DEF Stacks
<1>4. /\ Len(idle'[o]) = Len(stack[o]) + 1
      /\ idle'[o][Len(stack[o]) + 1] = x
      /\ \A i \in 1..Len(stack[o]) : idle'[o][i] = stack[o][i]
  <2> DEFINE s == stack[o]
  <2>1. s \in Seq(Conns) /\ idle'[o] = Append(s, x)
    BY <1>3
  <2>2. /\ Len(Append(s, x)) = Len(s) + 1 /\ Append(s, x)[Len(s) + 1] = x
        /\ \A i \in 1..Len(s) : Append(s, x)[i] = s[i]
    <3> HIDE DEF s, x, o
    <3>1. x \in Conns /\ s \in Seq(Conns)
      BY <1>1, <2>1
    <3> QED
      BY <3>1, AppendProperties
  <2> QED
    BY <2>1, <2>2
<1> HIDE DEF o, x
<1>5. \A c \in Conns : InStack(idle', o, c) <=> c = x \/ InStack(stack, o, c)
  <2>1. \A i \in 1..Len(idle'[o]) : i \in 1..Len(stack[o]) \/ i = Len(stack[o]) + 1
    BY <1>3, <1>4
  <2>2. \A i \in 1..Len(stack[o]) : i \in 1..Len(idle'[o])
    BY <1>3, <1>4
  <2>3. Len(stack[o]) + 1 \in 1..Len(idle'[o])
    BY <1>3, <1>4
  <2> QED
    BY <1>4, <2>1, <2>2, <2>3 DEF InStack
<1>6. \A p \in Origins \ {o}, c \in Conns :
        InStack(idle', p, c) <=> InStack(stack, p, c)
  BY <1>3 DEF InStack
<1>7. ASSUME NEW p \in Origins, NEW c \in Conns
      PROVE  InStack(idle', p, c) <=>
               \/ p = o /\ c = x
               \/ InStack(idle, p, c) /\ c \notin gone
  BY <1>5, <1>6
<1> QED
  BY <1>2, <1>7, WakesStay DEF PuttingBack, MayKeep, o, x

\* Evicting the bottom of a stack takes one connection off one stack.
LEMMA TailLacksFirst ==
  ASSUME TypeInv, Ownership, NEW v \in Origins, idle[v] # <<>>
  PROVE  /\ [idle EXCEPT ![v] = Tail(@)] \in Stacks
         /\ idle[v][1] \in AllIdle
         /\ \A p \in Origins, c \in Conns :
              InStack([idle EXCEPT ![v] = Tail(@)], p, c) <=>
                InStack(idle, p, c) /\ c # idle[v][1]
<1> DEFINE stack == [idle EXCEPT ![v] = Tail(@)]
           s == idle[v]
<1>1. idle \in Stacks /\ s \in Seq(Conns) /\ s # <<>> /\ Len(s) \in Nat \ {0}
  BY DEF TypeInv, TypeOK, Stacks
<1>2. /\ Tail(s) \in Seq(Conns) /\ Len(Tail(s)) = Len(s) - 1
      /\ \A i \in 1..(Len(s) - 1) : Tail(s)[i] = s[i + 1]
  <2> HIDE DEF s
  <2> QED
    BY <1>1
<1>3. /\ stack \in Stacks /\ stack[v] = Tail(s)
      /\ \A p \in Origins \ {v} : stack[p] = idle[p]
  BY <1>1, <1>2 DEF Stacks
<1>4. s[1] \in AllIdle
  BY <1>1 DEF AllIdle, IdleConns
<1>5. \A p \in Origins : \A i \in 1..Len(idle[p]) :
        idle[p][i] = s[1] <=> p = v /\ i = 1
  BY <1>1 DEF Ownership, Owned
<1> HIDE DEF stack
<1>6. ASSUME NEW c \in Conns
      PROVE  InStack(stack, v, c) <=> InStack(idle, v, c) /\ c # s[1]
  <2>1. ASSUME NEW i \in 1..Len(stack[v])
        PROVE  i + 1 \in 1..Len(s) /\ stack[v][i] = s[i + 1] /\ i + 1 # 1
    BY <1>1, <1>2, <1>3
  <2>2. ASSUME NEW i \in 1..Len(s), i # 1
        PROVE  i - 1 \in 1..Len(stack[v]) /\ stack[v][i - 1] = s[i]
    BY <1>1, <1>2, <1>3, <2>2
  <2> QED
    BY <1>5, <2>1, <2>2 DEF InStack
<1>7. ASSUME NEW p \in Origins \ {v}, NEW c \in Conns
      PROVE  InStack(stack, p, c) <=> InStack(idle, p, c) /\ c # s[1]
  BY <1>3, <1>5 DEF InStack
<1> QED
  BY <1>3, <1>4, <1>6, <1>7 DEF stack

\* Each step of a task does one thing to the transports.
TaskKind(t) ==
  \/ Withdrawing(t) \/ Lending(t) \/ Opening(t) \/ Discarding(t)
  \/ \E gone \in SUBSET Conns : PuttingBack(t, gone)
  \/ Staying

LEMMA TaskKinds ==
  ASSUME PoolAssumption, TypeInv, Ownership, Room,
         NEW t \in Tasks, TaskStep(t) \/ Cancel(t)
  PROVE  TaskKind(t)
<1>1. TypeInv' /\ OnlyWakes(t) /\ OthersStay(t)
  BY TaskStepType, WakesStay
<1>2. /\ pc \in [Tasks -> Pcs] /\ conn \in [Tasks -> Conns \cup {None}]
      /\ idle \in Stacks /\ None \notin live /\ live \subseteq Conns
  BY DEF TypeInv, TypeOK, Stacks, PoolAssumption
<1>m. ASSUME NEW from, NEW to, Move(t, from, to), pc[t] \notin LentPcs,
             to \notin LentPcs
      PROVE  Staying
  BY <1>2, <1>m
  DEF Move, Staying, stateVars, wireVars, closeVars
<1>d. ASSUME DropSlot(t)
      PROVE  /\ UNCHANGED <<idle, origin, closed>>
             /\ live' = live \ {conn[t]}
             /\ conn' = [conn EXCEPT ![t] = None]
  BY <1>2, <1>d DEF DropSlot, CloseWriters, closeVars
<1>g. ASSUME UNCHANGED <<idle, origin, closed>>, live' = live \ {conn[t]},
             conn' = [conn EXCEPT ![t] = None], pc[t] \notin LentPcs
      PROVE  Withdrawing(t)
  BY <1>1, <1>2, <1>g DEF Withdrawing, Shrinks
<1>3. CASE Enter(t)
  BY <1>1, <1>3, LoopWithdraws DEF Enter, TaskKind
<1>4. CASE Resume(t)
  <2> DEFINE waiters == [waiterCount EXCEPT ![origin[t]] = @ - 1]
  <2>1. AcquireLoop(t, origin[t], waiters)
    BY <1>4 DEF Resume
  <2> HIDE DEF waiters
  <2> QED
    BY <1>1, <1>4, <2>1, LoopWithdraws DEF Resume, TaskKind
<1>5. CASE ProbeStale(t)
  <2> DEFINE open == [openCount EXCEPT ![origin[t]] = @ - 1]
  <2>1. Checkout(t, origin[t], idle, open, waiterCount, registered, {conn[t]}, {origin[t]})
    BY <1>5 DEF ProbeStale
  <2>2. origin[t] \in Origins /\ pc[t] = "probing" /\ UNCHANGED <<origin, closed>>
    BY <1>5 DEF ProbeStale, TypeInv, HandsOK, closeVars
  <2> HIDE DEF open
  <2>3. /\ Shrinks(idle, idle') /\ live' \subseteq live
        /\ conn'[t] # None =>
             pc'[t] = "probing" /\ InStack(idle, origin[t], conn'[t])
    BY <1>2, <2>1, <2>2, CheckoutShrinks
  <2> QED
    BY <1>1, <2>2, <2>3 DEF Withdrawing, LentPcs, TaskKind
<1>6. CASE EnterClosed(t) \/ OpenFails(t) \/ CancelLocking(t)
           \/ CancelWait(t) \/ CancelDialed(t)
  <2>1. PICK from, to : /\ Move(t, from, to) /\ pc[t] \notin LentPcs
                        /\ to \notin LentPcs
    BY <1>6 DEF EnterClosed, OpenFails, CancelLocking, CancelWait, CancelDialed,
                Move, LentPcs
  <2> QED
    BY <1>m, <2>1 DEF TaskKind
<1>7. CASE ProbeClean(t) \/ DialSucceeds(t)
  <2>1. ~closed
    BY <1>7 DEF ProbeClean, DialSucceeds, Ownership, ProbeOpen
  <2>2. /\ UNCHANGED <<idle, conn, origin, live, closed>>
        /\ pc[t] \in {"probing", "dialed"} /\ pc'[t] = "holding"
    BY <1>2, <1>7 DEF ProbeClean, DialSucceeds, Move, stateVars, wireVars, closeVars
  <2> QED
    BY <1>1, <2>1, <2>2 DEF Lending, TaskKind
<1>8. CASE ResumeClosed(t) \/ Unwait(t)
  <2>1. LeaveCondition(t) /\ pc[t] \notin LentPcs
    BY <1>8 DEF ResumeClosed, Unwait, LentPcs
  <2>2. Staying
    BY <1>2, <2>1 DEF LeaveCondition, Staying, wireVars, closeVars, LentPcs
  <2> QED
    BY <2>2 DEF TaskKind
<1>9. CASE \E c \in Conns, whole \in BOOLEAN : Opened(t, c, whole)
  <2>1. PICK c \in Conns, whole \in BOOLEAN : Opened(t, c, whole)
    BY <1>9
  <2>2. Opening(t)
    BY <1>1, <1>2, <2>1 DEF Opened, Fresh, Opening, stateVars, closeVars
  <2> QED
    BY <2>2 DEF TaskKind
<1>10. CASE DialFindsPoolClosed(t) \/ CleanUpDial(t)
  BY <1>d, <1>g, <1>10
  DEF DialFindsPoolClosed, CleanUpDial, LentPcs, TaskKind
<1>11. CASE CancelProbe(t)
  <2>1. /\ UNCHANGED <<idle, origin, closed>> /\ live' = live \ {conn[t]}
        /\ conn' = [conn EXCEPT ![t] = None] /\ pc[t] \notin LentPcs
    BY <1>11 DEF CancelProbe, CloseWriters, closeVars, LentPcs
  <2> QED
    BY <1>g, <2>1 DEF TaskKind
<1>12. CASE Finish(t)
  <2>1. Staying
    BY <1>2, <1>12 DEF Finish, Staying, stateVars, wireVars, closeVars, LentPcs
  <2> QED
    BY <2>1 DEF TaskKind
<1>13. CASE ReleaseClosing(t)
  BY <1>1, <1>d, <1>13 DEF ReleaseClosing, Discarding, TaskKind
<1>14. CASE ReleaseKeeping(t)
  <2>1. IdleCount < MaxIdle /\ pc[t] = "releasing" /\ MayKeep(t)
        /\ Keep(t, idle, openCount, registered, {}, {})
    BY <1>14 DEF ReleaseKeeping
  <2>2. Cardinality(AllIdle \ {}) < MaxIdle
    <3>1. AllIdle \ {} = AllIdle
      OBVIOUS
    <3> QED
      BY <2>1, <3>1, IdleCountIs DEF Room
  <2>3. PuttingBack(t, {})
    BY <1>1, <1>2, <2>1, <2>2, KeepPutsBack
  <2> QED
    BY <2>3 DEF TaskKind
<1>15. CASE ReleaseEvicting(t)
  <2>1. PICK v \in Origins :
          /\ OldestStack(v)
          /\ \E open, reg :
               Keep(t, [idle EXCEPT ![v] = Tail(@)], open, reg, {idle[v][1]}, {v})
    BY <1>15 DEF ReleaseEvicting
  <2> DEFINE stack == [idle EXCEPT ![v] = Tail(@)]
             x == idle[v][1]
  <2>2. PICK open, reg : Keep(t, stack, open, reg, {x}, {v})
    BY <2>1
  <2>3. /\ pc[t] = "releasing" /\ MayKeep(t) /\ idle[v] # <<>>
    BY <1>15, <2>1 DEF ReleaseEvicting, OldestStack
  <2>4. /\ stack \in Stacks /\ x \in AllIdle
        /\ \A p \in Origins, c \in Conns :
             InStack(stack, p, c) <=> InStack(idle, p, c) /\ c # x
    BY <2>3, TailLacksFirst
  <2>5. x \in Conns
    BY <1>2, <2>3 DEF Stacks
  <2> HIDE DEF stack, x
  <2>6. Cardinality(AllIdle \ {x}) < MaxIdle
    <3>1. /\ IsFiniteSet(AllIdle) /\ Cardinality(AllIdle) \in Nat
          /\ Cardinality(AllIdle) <= MaxIdle
      BY FS_CardinalityType DEF Room
    <3>2. Cardinality(AllIdle \ {x}) = Cardinality(AllIdle) - 1
      BY <2>4, <3>1, FS_RemoveElement
    <3> QED
      BY <3>1, <3>2, PoolAssumption DEF PoolAssumption
  <2>7. PuttingBack(t, {x})
    BY <1>1, <2>2, <2>3, <2>4, <2>6, KeepPutsBack
  <2> QED
    BY <2>5, <2>7 DEF TaskKind
<1> QED
  BY <1>3, <1>4, <1>5, <1>6, <1>7, <1>8, <1>9, <1>10, <1>11, <1>12, <1>13, <1>14,
     <1>15
  DEF TaskStep, Cancel

-----------------------------------------------------------------------------
(* The other steps, the idle limit, and the refinement.                    *)

\* What the steps of nobody's request come to.
LEMMA OtherKinds ==
  ASSUME PoolAssumption, TypeInv, Room,
         \/ \E t \in Tasks, o \in Origins : Start(t, o)
         \/ CallClose \/ CancelClose \/ Close \/ CloseReturns \/ CancelDraining
         \/ \E c \in Conns : Drained(c) \/ PeerSpeaks(c)
         \/ Tick
         \/ UNCHANGED vars
  PROVE  /\ Staying \/ Shutting
         /\ closed' <=> closer' \in {"draining", "done"}
<1>1. CASE \E t \in Tasks, o \in Origins : Start(t, o)
  <2>1. PICK t \in Tasks, o \in Origins : Start(t, o)
    BY <1>1
  <2>2. pc \in [Tasks -> Pcs] /\ origin \in [Tasks -> Origins \cup {None}]
    BY DEF TypeInv, TypeOK
  <2>3. /\ conn[t] = None
        /\ \A u \in Tasks \ {t} : pc'[u] = pc[u] /\ origin'[u] = origin[u]
    BY <2>1, <2>2 DEF Start, TypeInv, HandsOK, SlotPcs
  <2>4. UNCHANGED <<idle, conn, live, closed, closer>>
    BY <2>1 DEF Start, stateVars, wireVars, closeVars
  <2> QED
    BY <2>3, <2>4 DEF Staying, Room
<1>2. CASE Close
  <2>1. /\ UNCHANGED <<conn, origin>> /\ closed' = TRUE
        /\ idle' = [o \in Origins |-> <<>>] /\ live' = live \ AllIdle
        /\ closer' \in {"draining", "done"} /\ ~closed
    BY <1>2 DEF Close, CloseWriters, Room
  <2>2. \A u \in Tasks : pc[u] \in LentPcs <=> pc'[u] \in LentPcs
    BY <1>2 DEF Close, NotifyAll, LentPcs
  <2> QED
    BY <2>1, <2>2 DEF Shutting
<1>3. CASE UNCHANGED <<taskVars, stateVars, live, closed>>
           /\ (closed' <=> closer' \in {"draining", "done"})
  BY <1>3 DEF Staying, taskVars, stateVars
<1>4. CASE CallClose \/ CancelClose \/ CloseReturns \/ CancelDraining
  BY <1>3, <1>4
  DEF CallClose, CancelClose, CloseReturns, CancelDraining, wireVars, Room
<1>5. CASE \E c \in Conns : Drained(c) \/ PeerSpeaks(c)
  BY <1>3, <1>5 DEF Drained, PeerSpeaks, closeVars, Room
<1>6. CASE Tick \/ UNCHANGED vars
  BY <1>3, <1>6 DEF Tick, vars, wireVars, closeVars, Room
<1> QED
  BY <1>1, <1>2, <1>4, <1>5, <1>6

\* A step is one of a task, or one of these.
LEMMA NextSplits ==
  ASSUME [Next]_vars
  PROVE  \/ \E t \in Tasks : TaskStep(t) \/ Cancel(t)
         \/ \E t \in Tasks, o \in Origins : Start(t, o)
         \/ CallClose \/ CancelClose \/ Close \/ CloseReturns \/ CancelDraining
         \/ \E c \in Conns : Drained(c) \/ PeerSpeaks(c)
         \/ Tick
         \/ UNCHANGED vars
BY DEF Next, Finished

\* No step puts more than MaxIdle connections on the stacks of all origins.
LEMMA RoomStep ==
  ASSUME PoolAssumption, TypeInv, TypeInv', Ownership, Ownership', Room,
         [Next]_vars
  PROVE  Room'
<1>1. /\ \A c : c \in AllIdle <=> \E p \in Origins : InStack(idle, p, c)
      /\ \A c : c \in AllIdle' <=> \E p \in Origins : InStack(idle', p, c)
      /\ AllIdle \subseteq Conns /\ AllIdle' \subseteq Conns
  <2>1. /\ \A c : c \in AllIdle <=> \E p \in Origins : InStack(idle, p, c)
        /\ AllIdle \subseteq Conns
    BY IdleOnStacks
  <2>2. \A c : c \in AllIdle' <=> \E p \in Origins : InStack(idle', p, c)
    BY DEF AllIdle, IdleConns, InStack
  <2>4. AllIdle' \subseteq Conns
    <3>1. idle' \in [Origins -> Seq(Conns)]
      BY DEF TypeInv, TypeOK
    <3> QED
      BY <2>2, <3>1 DEF InStack
  <2> QED
    BY <2>1, <2>2, <2>4
<1>2. MaxIdle \in Nat /\ IsFiniteSet(AllIdle) /\ Cardinality(AllIdle) \in Nat
      /\ Cardinality(AllIdle) <= MaxIdle
  BY PoolAssumption, FS_CardinalityType DEF Room, PoolAssumption
<1>3. ASSUME AllIdle' \subseteq AllIdle
      PROVE  IsFiniteSet(AllIdle') /\ Cardinality(AllIdle') <= MaxIdle
  <2>1. IsFiniteSet(AllIdle') /\ Cardinality(AllIdle') <= Cardinality(AllIdle)
    BY <1>2, <1>3, FS_Subset
  <2>2. Cardinality(AllIdle') \in Nat
    BY <2>1, FS_CardinalityType
  <2> QED
    BY <1>2, <2>1, <2>2
<1>4. ASSUME NEW t \in Tasks, NEW gone, PuttingBack(t, gone)
      PROVE  IsFiniteSet(AllIdle') /\ Cardinality(AllIdle') <= MaxIdle
  <2> DEFINE left == AllIdle \ gone
             x == conn[t]
  <2>1. AllIdle' \subseteq left \cup {x}
    BY <1>1, <1>4 DEF PuttingBack
  <2>2. IsFiniteSet(left) /\ Cardinality(left) < MaxIdle
    BY <1>2, <1>4, FS_Subset DEF PuttingBack
  <2> HIDE DEF left, x
  <2>3. /\ IsFiniteSet(left \cup {x})
        /\ Cardinality(left \cup {x}) =
             IF x \in left THEN Cardinality(left) ELSE Cardinality(left) + 1
    BY <2>2, FS_AddElement
  <2>4. IsFiniteSet(AllIdle') /\ Cardinality(AllIdle') <= Cardinality(left \cup {x})
    BY <2>1, <2>3, FS_Subset
  <2>5. /\ Cardinality(AllIdle') \in Nat /\ Cardinality(left) \in Nat
    BY <2>2, <2>4, FS_CardinalityType
  <2> QED
    BY <1>2, <2>2, <2>3, <2>4, <2>5
<1>5. ASSUME NEW t \in Tasks, TaskStep(t) \/ Cancel(t)
      PROVE  Room'
  <2>1. closed' = closed /\ closer' = closer
    BY <1>5
    DEF TaskStep, Cancel, Enter, EnterClosed, ProbeClean, ProbeStale, Resume,
        ResumeClosed, Unwait, LeaveCondition, Opened, OpenFails, DialSucceeds,
        DialFindsPoolClosed, CleanUpDial, DropSlot, Finish, ReleaseClosing,
        ReleaseKeeping, ReleaseEvicting, Keep, CancelLocking, CancelProbe,
        CancelWait, CancelDialed, Move, closeVars
  <2>2. IsFiniteSet(AllIdle') /\ Cardinality(AllIdle') <= MaxIdle
    <3>1. TaskKind(t)
      BY <1>5, TaskKinds
    <3>2. CASE Withdrawing(t)
      BY <1>1, <1>3, <3>2 DEF Withdrawing, Shrinks
    <3>3. CASE idle' = idle
      BY <1>1, <1>3, <3>3
    <3>4. CASE \E gone \in SUBSET Conns : PuttingBack(t, gone)
      BY <1>4, <3>4
    <3> QED
      BY <3>1, <3>2, <3>3, <3>4
      DEF TaskKind, Lending, Opening, Discarding, Staying
  <2> QED
    BY <2>1, <2>2 DEF Room
<1>6. ASSUME Staying \/ Shutting, closed' <=> closer' \in {"draining", "done"}
      PROVE  Room'
  <2>1. AllIdle' \subseteq AllIdle
    <3>1. CASE Staying
      BY <1>1, <3>1 DEF Staying
    <3>2. CASE Shutting
      <4>1. \A p \in Origins : idle'[p] = <<>>
        BY <3>2 DEF Shutting
      <4>2. \A c : \A p \in Origins : ~InStack(idle', p, c)
        BY <4>1 DEF InStack
      <4> QED
        BY <1>1, <4>2
    <3> QED
      BY <1>6, <3>1, <3>2
  <2> QED
    BY <1>3, <1>6, <2>1 DEF Room
<1> QED
  BY <1>5, <1>6, NextSplits, OtherKinds

LEMMA RoomAlways == Spec => []Room
<1>1. Init => Room
  <2> SUFFICES ASSUME Init
               PROVE  Room
    OBVIOUS
  <2>1. AllIdle = {}
    BY DEF Init, AllIdle, IdleConns
  <2> QED
    BY <2>1, FS_EmptySet, PoolAssumption DEF Init, Room, PoolAssumption
<1>2. TypeInv /\ TypeInv' /\ Ownership /\ Ownership' /\ Room /\ [Next]_vars => Room'
  BY PoolAssumption, RoomStep
<1> QED
  BY <1>1, <1>2, TypeInvAlways, OwnershipAlways, PTL DEF Spec

LEMMA PlaceAlways == Spec => []PlaceOK
<1>1. TypeInv /\ Ownership => PlaceOK
  BY PoolAssumption, PlaceFollows
<1> QED
  BY <1>1, TypeInvAlways, OwnershipAlways, PTL

\* Each step of the pool is a step of the promise, or none.
LEMMA StepKept ==
  ASSUME PoolAssumption, TypeInv, TypeInv', Ownership, Ownership', Room,
         PlaceOK, PlaceOK', CapRespected', [Next]_vars
  PROVE  [Promise!Next]_(Promise!vars)
<1>1. ASSUME Staying
      PROVE  [Promise!Next]_(Promise!vars)
  BY <1>1, UnmovedStep
<1>2. ASSUME NEW t \in Tasks, TaskStep(t) \/ Cancel(t)
      PROVE  [Promise!Next]_(Promise!vars)
  <2>1. TaskKind(t)
    BY <1>2, TaskKinds
  <2>2. CASE Withdrawing(t)
    BY <2>2, WithdrawStep
  <2>3. CASE Lending(t)
    BY <2>3, LendStep
  <2>4. CASE Opening(t)
    BY <2>4, OpenStep
  <2>5. CASE Discarding(t)
    BY <2>5, DiscardStep
  <2>6. CASE \E gone \in SUBSET Conns : PuttingBack(t, gone)
    BY <2>6, PutBackStep
  <2> QED
    BY <1>1, <2>1, <2>2, <2>3, <2>4, <2>5, <2>6 DEF TaskKind
<1>3. CASE Staying \/ Shutting
  BY <1>1, <1>3, ShutStep
<1> QED
  BY <1>2, <1>3, NextSplits, OtherKinds

\* The pool keeps its promise: whatever its tasks do, are cancelled in or fail
\* at, what its callers see is a pool that lends only while it is open, to
\* one caller at a time, within both limits, and keeps nothing once shut.
THEOREM PromiseKept == Spec => KeepsPromise
<1>1. Init /\ PlaceOK => Promise!Init
  <2> SUFFICES ASSUME Init, PlaceOK
               PROVE  Promise!Init
    OBVIOUS
  <2>2. \A c \in Conns : Place[c] = Promise!Closed
    BY DEF Init, PlaceOK
  <2>3. Place = [c \in Conns |-> Promise!Closed]
    BY <2>2 DEF PlaceOK
  <2> QED
    BY <2>3 DEF Init, Promise!Init
<1>2. /\ TypeInv /\ TypeInv' /\ Ownership /\ Ownership' /\ Room
      /\ PlaceOK /\ PlaceOK' /\ CapRespected' /\ [Next]_vars
      => [Promise!Next]_(Promise!vars)
  BY PoolAssumption, StepKept
<1> QED
  BY <1>1, <1>2, TypeInvAlways, OwnershipAlways, RoomAlways, PlaceAlways,
     CapNeverExceeded, PTL
  DEF Spec, KeepsPromise, Promise!Spec
=============================================================================
