-------------------------- MODULE TestServerProofs --------------------------
(* Proofs about the shutdown of the test server: NoUpstreamOutlivesServer and    *)
(* NoConnectionForgotten, for any connections, any handlers that call aclose()   *)
(* at once, and any number of restarts.                                          *)
EXTENDS TestServer, TLAPS

ConnType ==
  [of : Nat, table : {"absent", "socket", "tracked", "gone"},
   run : {"none", "queued", "waiting", "cancelling", "finalizing", "over"},
   child : {"none", "new", "serving", "calling", "done"},
   cancelRun : BOOLEAN, cancelChild : BOOLEAN, twice : BOOLEAN, decided : BOOLEAN,
   published : BOOLEAN, transport : {"none", "open", "closing", "closed"},
   upstream : {"none", "open", "releasing", "aborted", "closed"}]
CloserType ==
  [pc : {"idle", "drain", "gather", "unwinding", "finish", "wait_closed", "client", "upstreams",
         "returned", "raised"},
   of : Nat, cancelled : BOOLEAN, before : SUBSET Conns, waits : SUBSET Conns]

Types == /\ conn \in [Conns -> ConnType] /\ closer \in [Callers -> CloserType]
         /\ starts \in Nat /\ closing \in BOOLEAN

InLoop(r) == r.child \in {"new", "serving", "calling"}
Begun(r) == r.run \notin {"none", "queued"}

(* How the parts of one connection go together: the table has it as long as a    *)
(* task runs it, its loop runs inside run() unless run() was cancelled twice,    *)
(* and only a loop that serves holds an upstream.                                *)
Tidy(r) ==
  /\ r.table = "tracked" => r.run \notin {"none", "over"}
  /\ r.run \in {"queued", "waiting", "cancelling", "finalizing"} => r.table = "tracked"
  /\ r.run = "over" => r.table = "gone"
  /\ ~Begun(r) => ~r.cancelRun
  /\ r.run \in {"finalizing", "over"} => r.published
  /\ InLoop(r) => r.run \in {"waiting", "cancelling"} \/ (r.twice /\ Begun(r))
  /\ r.table = "absent" => r = NewConn
  /\ r.upstream = "open" => r.child \in {"serving", "calling"}

Stopped(r) == r.decided /\ ~InLoop(r)
Gone(r) == r.upstream \in {"none", "closed"}
Ended(r) == r.run = "over" /\ r.published
Active(a) == closer[a].pc \notin {"idle", "returned", "raised"}

(* What a call of aclose() knows of a connection it found, by where it is: k is  *)
(* its record, r the connection's.                                               *)
KnowsOf(k, c, r) ==
  /\ r.table # "absent" /\ r.decided
  /\ k.pc \in {"gather", "unwinding"} /\ c \in Accepted => c \in k.waits \/ Ended(r)
  /\ ~k.cancelled =>
       /\ k.pc = "finish" => c \in k.waits \/ Stopped(r) \/ r.twice
       /\ k.pc \in {"wait_closed", "client", "upstreams", "returned"} => Stopped(r) \/ r.twice
       /\ k.pc \in {"finish", "wait_closed", "client", "upstreams", "returned"}
          /\ k.of # 0 /\ c \in Accepted => Ended(r)
       /\ k.pc = "upstreams" =>
            Gone(r) \/ r.twice \/ (c \in k.waits /\ r.upstream = "aborted")
       /\ k.pc = "returned" => Gone(r) \/ r.twice

Knows(a) ==
  /\ closer[a].pc \in {"gather", "unwinding"} =>
       \A c \in closer[a].waits : c \in Accepted /\ Begun(conn[c])
  /\ closer[a].pc \in {"idle", "drain"} => closer[a].before = {}
  /\ closer[a].pc = "returned" => ~closer[a].cancelled
  /\ closer[a].pc = "unwinding" => closer[a].cancelled
  /\ \A c \in closer[a].before \ {a} : KnowsOf(closer[a], c, conn[c])

CallerBusy(a) == a \in Conns /\ Active(a) => conn[a].child = "calling"

IInv == /\ Types
        /\ \A c \in Conns : Tidy(conn[c])
        /\ \A a \in Callers : Knows(a) /\ CallerBusy(a)

(* What no step undoes of a connection the server has seen.                      *)
Later(old, new) ==
  /\ Begun(old) => Begun(new)
  /\ old.table # "absent" =>
       /\ new.table # "absent"
       /\ old.decided => new.decided
       /\ old.twice => new.twice
       /\ Ended(old) => Ended(new)
       /\ Stopped(old) =>
            /\ Stopped(new)
            /\ \/ new.upstream \in {old.upstream, "closed"}
               \/ old.upstream = "releasing" /\ new.upstream = "aborted"

(* A step of one connection's tasks, its peers or its owner.                     *)
ConnStep(c) == \/ Accept(c) \/ Attach(c) \/ HandOff(c) \/ Loop(c) \/ Relay(c) \/ Release(c)
               \/ UpstreamCloses(c) \/ ChildEnds(c) \/ TransportCloses(c) \/ CloseHanded(c)
-----------------------------------------------------------------------------
(* A call of aclose() that does not move loses nothing of what it knows.         *)
LEMMA StillKnows ==
  ASSUME NEW a \in Callers, Types, Knows(a), closer'[a] = closer[a],
         \A c \in Conns : Later(conn[c], conn'[c])
  PROVE  Knows(a)'
<1>1. closer[a].before \subseteq Conns /\ closer[a].waits \subseteq Conns
  BY DEF Types, CloserType
<1>2. ASSUME NEW c \in closer[a].before \ {a}
      PROVE  KnowsOf(closer[a], c, conn'[c])
  <2>1. KnowsOf(closer[a], c, conn[c]) /\ Later(conn[c], conn'[c])
    BY <1>1, <1>2 DEF Knows
  <2> QED  BY <2>1 DEF KnowsOf, Later, Gone
<1>3. ASSUME closer[a].pc \in {"gather", "unwinding"}, NEW c \in closer[a].waits
      PROVE  c \in Accepted /\ Begun(conn'[c])
  <2>1. c \in Accepted /\ Begun(conn[c]) /\ Later(conn[c], conn'[c])
    BY <1>1, <1>3 DEF Knows
  <2> QED  BY <2>1 DEF Later
<1> QED  BY <1>2, <1>3 DEF Knows

(* shutdown() of a tracked connection decides its close and moves none of its    *)
(* tasks.                                                                        *)
LEMMA ShutDownLater ==
  ASSUME NEW r \in ConnType, Tidy(r), r.table = "tracked", NEW inside \in BOOLEAN
  PROVE  LET q == ShutDown(r, inside)
         IN /\ q \in ConnType /\ Tidy(q) /\ Later(r, q) /\ q.decided
            /\ q.child = r.child /\ q.run = r.run /\ q.table = r.table
            /\ q.cancelRun = r.cancelRun
<1> DEFINE q == ShutDown(r, inside)
           decided == [r EXCEPT !.decided = TRUE]
<1>1. /\ q \in ConnType /\ q.decided
      /\ q.table = r.table /\ q.run = r.run /\ q.child = r.child
      /\ q.cancelRun = r.cancelRun /\ q.twice = r.twice
      /\ q.published = r.published /\ q.upstream = r.upstream
  <2>1. CASE q = decided
    BY <2>1 DEF ConnType
  <2>2. CASE q = [decided EXCEPT !.transport = "closed"]
    BY <2>2 DEF ConnType
  <2>3. CASE q = [decided EXCEPT !.cancelChild = TRUE]
    BY <2>3 DEF ConnType
  <2> QED  BY <2>1, <2>2, <2>3 DEF ShutDown
<1> HIDE DEF q
<1>2. Tidy(q) /\ Later(r, q)
  BY <1>1 DEF Tidy, Later, InLoop, Begun, Ended, Stopped
<1> QED  BY <1>1, <1>2 DEF q

(* A step of a connection changes that one alone, keeps it tidy, and neither     *)
(* goes back on what it came to nor moves a handler that is inside aclose().     *)
LEMMA ConnStepLater ==
  ASSUME NEW c \in Conns, conn[c] \in ConnType, Tidy(conn[c]), closing \in BOOLEAN, starts \in Nat,
         ConnStep(c)
  PROVE  /\ UNCHANGED others
         /\ \E r \in ConnType : /\ conn' = [conn EXCEPT ![c] = r]
                                /\ Tidy(r) /\ Later(conn[c], r)
                                /\ conn[c].child = "calling" => r.child = "calling"
<1> DEFINE old == conn[c]
           Good(r) == /\ r \in ConnType /\ Tidy(r) /\ Later(old, r)
                      /\ old.child = "calling" => r.child = "calling"
           Goal == /\ UNCHANGED others
                   /\ \E r \in ConnType : /\ conn' = [conn EXCEPT ![c] = r]
                                          /\ Tidy(r) /\ Later(old, r)
                                          /\ old.child = "calling" => r.child = "calling"
<1>0. old \in ConnType /\ Tidy(old)
  OBVIOUS
<1>1. ASSUME NEW r, Update(c, r), UNCHANGED others, Good(r)
      PROVE  Goal
  BY <1>1 DEF Update
<1>2. ASSUME NEW q \in ConnType
      PROVE  LET f == Finalized(q)
             IN /\ f \in ConnType /\ f.decided /\ f.published
                /\ f.table = q.table /\ f.run = q.run /\ f.child = q.child
                /\ f.cancelRun = q.cancelRun /\ f.cancelChild = q.cancelChild
                /\ f.twice = q.twice /\ f.upstream = q.upstream
  BY DEF Finalized, ConnType
<1>3. ASSUME NEW q \in ConnType
      PROVE  LET f == Entered(q)
             IN /\ f \in ConnType /\ f.table = q.table /\ f.cancelRun = q.cancelRun
                /\ f.twice = q.twice /\ f.upstream = q.upstream /\ f.decided = q.decided
                /\ \/ q.decided /\ f.run = "finalizing" /\ f.published /\ f.child = q.child
                   \/ ~q.decided /\ f.run = "waiting" /\ f.child = "new"
  <2> DEFINE g == Finalized(q)
             f1 == [g EXCEPT !.run = "finalizing"]
             f2 == [q EXCEPT !.run = "waiting", !.child = "new"]
  <2>1. CASE q.decided
    <3>1. Entered(q) = f1
      BY <2>1 DEF Entered
    <3>2. /\ g \in ConnType /\ g.decided /\ g.published /\ g.table = q.table
          /\ g.child = q.child /\ g.cancelRun = q.cancelRun /\ g.twice = q.twice
          /\ g.upstream = q.upstream
      BY <1>2
    <3> HIDE DEF g
    <3>3. /\ f1 \in ConnType /\ f1.decided /\ f1.published /\ f1.table = q.table
          /\ f1.child = q.child /\ f1.cancelRun = q.cancelRun /\ f1.twice = q.twice
          /\ f1.upstream = q.upstream /\ f1.run = "finalizing"
      BY <3>2 DEF ConnType
    <3> HIDE DEF f1
    <3> QED  BY <2>1, <3>1, <3>3
  <2>2. CASE ~q.decided
    <3>1. Entered(q) = f2
      BY <2>2 DEF Entered
    <3>2. /\ f2 \in ConnType /\ f2.decided = q.decided /\ f2.table = q.table
          /\ f2.child = "new" /\ f2.cancelRun = q.cancelRun /\ f2.twice = q.twice
          /\ f2.upstream = q.upstream /\ f2.run = "waiting"
      BY DEF ConnType
    <3> HIDE DEF f2
    <3> QED  BY <2>2, <3>1, <3>2
  <2> QED  BY <2>1, <2>2
<1>4. CASE Accept(c)
  <2> DEFINE r == [old EXCEPT !.of = starts, !.table = "socket", !.transport = "open"]
  <2>1. Update(c, r) /\ UNCHANGED others /\ old.table = "absent"
    BY <1>4 DEF Accept
  <2>2. Good(r)
    BY <1>0, <2>1 DEF NewConn, ConnType, Tidy, Later, InLoop, Begun, Stopped
  <2> QED  BY <1>1, <2>1, <2>2
<1>5. CASE Attach(c)
  <2> DEFINE f == Finalized(old)
             r1 == [f EXCEPT !.table = "gone", !.transport = "closed"]
             r2 == [old EXCEPT !.table = "tracked", !.run = "queued"]
  <2>1. old.table = "socket" /\ UNCHANGED others /\ (Update(c, r1) \/ Update(c, r2))
    BY <1>5 DEF Attach
  <2>2. Good(r1)
    <3>1. /\ f \in ConnType /\ f.decided /\ f.run = old.run /\ f.child = old.child
          /\ f.cancelRun = old.cancelRun /\ f.twice = old.twice /\ f.upstream = old.upstream
      BY <1>0, <1>2
    <3> HIDE DEF f
    <3> QED  BY <1>0, <2>1, <3>1 DEF ConnType, Tidy, Later, InLoop, Begun, Ended, Stopped
  <2>3. Good(r2)
    BY <1>0, <2>1 DEF ConnType, Tidy, Later, InLoop, Begun, Ended, Stopped
  <2> HIDE DEF r1, r2
  <2> QED  BY <1>1, <2>1, <2>2, <2>3
<1>6. CASE HandOff(c)
  <2> DEFINE q == [old EXCEPT !.table = "tracked", !.transport = "open", !.decided = closing]
  <2>1. Update(c, Entered(q)) /\ UNCHANGED others /\ old = NewConn
    BY <1>0, <1>6 DEF HandOff, Tidy
  <2>2. /\ q \in ConnType /\ q.table = "tracked" /\ q.cancelRun = FALSE
        /\ q.child = "none" /\ q.upstream = "none"
    <3>1. /\ old.table = "absent" /\ old.child = "none" /\ old.upstream = "none"
          /\ old.cancelRun = FALSE
      BY <2>1 DEF NewConn
    <3> QED  BY <1>0, <3>1, closing \in BOOLEAN DEF ConnType
  <2> HIDE DEF q
  <2>3. Good(Entered(q))
    BY <1>3, <2>1, <2>2 DEF NewConn, Tidy, Later, InLoop, Begun, Ended, Stopped
  <2> QED  BY <1>1, <2>1, <2>3
<1>7. CASE RunStarts(c)
  <2> DEFINE r == [old EXCEPT !.run = "over"]
  <2>1. UNCHANGED others /\ Update(c, Entered(old)) /\ old.run = "queued"
    BY <1>0, <1>7 DEF RunStarts, Tidy, Begun
  <2>2. Good(Entered(old))
    BY <1>0, <1>3, <2>1 DEF ConnType, Tidy, Later, InLoop, Begun, Ended, Stopped
  <2> QED  BY <1>1, <2>1, <2>2
<1>8. CASE ChildStarts(c) \/ ChildUnwinds(c) \/ ChildEnds(c)
  <2> DEFINE q == Released(old)
             r1 == [old EXCEPT !.child = "done"]
             r2 == [old EXCEPT !.child = "serving"]
             r3 == [old EXCEPT !.child = "done", !.decided = TRUE]
             r4 == [q EXCEPT !.child = "done"]
  <2>1. /\ UNCHANGED others
        /\ \/ old.child = "new" /\ (Update(c, r1) \/ Update(c, r2))
           \/ old.child = "serving" /\ old.upstream # "open" /\ Update(c, r3)
           \/ old.child = "serving" /\ Update(c, r4)
    BY <1>8 DEF ChildStarts, ChildUnwinds, ChildEnds
  <2>2. ASSUME old.child = "new" PROVE Good(r1) /\ Good(r2)
    BY <1>0, <2>2 DEF ConnType, Tidy, Later, InLoop, Begun, Ended, Stopped
  <2>3. ASSUME old.child = "serving", old.upstream # "open" PROVE Good(r3)
    BY <1>0, <2>3 DEF ConnType, Tidy, Later, InLoop, Begun, Ended, Stopped
  <2>4. ASSUME old.child = "serving" PROVE Good(r4)
    BY <1>0, <2>4 DEF Released, ConnType, Tidy, Later, InLoop, Begun, Ended, Stopped
  <2> HIDE DEF r1, r2, r3, r4
  <2> QED  BY <1>1, <2>1, <2>2, <2>3, <2>4
<1>9. CASE Relay(c) \/ Release(c) \/ UpstreamCloses(c) \/ TransportCloses(c)
  <2> DEFINE r1 == [old EXCEPT !.upstream = "open"]
             r2 == Released(old)
             r3 == [old EXCEPT !.upstream = "closed"]
             r4 == [old EXCEPT !.transport = "closed"]
  <2>1. /\ UNCHANGED others
        /\ \/ old.child = "serving" /\ (Update(c, r1) \/ Update(c, r2))
           \/ old.upstream \in {"releasing", "aborted"} /\ Update(c, r3)
           \/ old.transport = "closing" /\ Update(c, r4)
    BY <1>9 DEF Relay, Release, UpstreamCloses, TransportCloses
  <2>2. ASSUME old.child = "serving" PROVE Good(r1) /\ Good(r2)
    <3>1. old.table # "absent"
      BY <1>0, <2>2 DEF Tidy, NewConn
    <3>2. Good(r1)
      BY <1>0, <2>2, <3>1 DEF ConnType, Tidy, Later, InLoop, Begun, Ended, Stopped
    <3>3. Good(r2)
      BY <1>0, <2>2, <3>1 DEF Released, ConnType, Tidy, Later, InLoop, Begun, Ended, Stopped
    <3> QED  BY <3>2, <3>3
  <2>3. ASSUME old.upstream \in {"releasing", "aborted"} PROVE Good(r3)
    <3>1. old.table # "absent"
      BY <1>0, <2>3 DEF Tidy, NewConn
    <3> QED  BY <1>0, <2>3, <3>1 DEF ConnType, Tidy, Later, InLoop, Begun, Ended, Stopped
  <2>4. ASSUME old.transport = "closing" PROVE Good(r4)
    <3>1. old.table # "absent"
      BY <1>0, <2>4 DEF Tidy, NewConn
    <3> QED  BY <1>0, <2>4, <3>1 DEF ConnType, Tidy, Later, InLoop, Begun, Ended, Stopped
  <2> HIDE DEF r1, r2, r3, r4
  <2> QED  BY <1>1, <2>1, <2>2, <2>3, <2>4
<1>10. CASE RunResumes(c)
  <2> DEFINE f == Finalized(old)
             published == [f EXCEPT !.run = "finalizing"]
             childCancelled == old.cancelChild \/ old.child # "done"
             r1 == [old EXCEPT !.run = "cancelling", !.cancelRun = FALSE, !.decided = TRUE,
                               !.cancelChild = childCancelled]
             r2 == [published EXCEPT !.transport = "closed"]
             r3 == [published EXCEPT !.cancelRun = FALSE, !.twice = TRUE]
             r4 == [old EXCEPT !.run = "over", !.table = "gone", !.transport = "closed"]
  <2>1. /\ UNCHANGED others
        /\ \/ old.run \in {"waiting", "cancelling"} /\ old.child = "done" /\ Update(c, published)
           \/ old.run = "waiting" /\ Update(c, r1)
           \/ old.run = "cancelling" /\ old.child = "done" /\ Update(c, r2)
           \/ old.run = "cancelling" /\ Update(c, r3)
           \/ old.run = "finalizing" /\ Update(c, r4)
    BY <1>10 DEF RunResumes
  <2>2. /\ f \in ConnType /\ f.decided /\ f.published
        /\ f.table = old.table /\ f.run = old.run /\ f.child = old.child
        /\ f.cancelRun = old.cancelRun /\ f.cancelChild = old.cancelChild
        /\ f.twice = old.twice /\ f.upstream = old.upstream
    BY <1>0, <1>2
  <2> HIDE DEF f
  <2>3. ASSUME old.run \in {"waiting", "cancelling"}, old.child = "done" PROVE Good(published)
    BY <1>0, <2>2, <2>3 DEF ConnType, Tidy, Later, InLoop, Begun, Ended, Stopped
  <2>4. ASSUME old.run = "waiting" PROVE Good(r1)
    BY <1>0, <2>4 DEF ConnType, Tidy, Later, InLoop, Begun, Ended, Stopped
  <2>5. ASSUME old.run = "cancelling", old.child = "done" PROVE Good(r2)
    BY <1>0, <2>2, <2>5 DEF ConnType, Tidy, Later, InLoop, Begun, Ended, Stopped
  <2>6. ASSUME old.run = "cancelling" PROVE Good(r3)
    <3>1. /\ r3 \in ConnType /\ r3.run = "finalizing" /\ r3.published /\ r3.decided /\ r3.twice
          /\ r3.table = old.table /\ r3.child = old.child /\ r3.upstream = old.upstream
      BY <1>0, <2>2, <2>6 DEF ConnType
    <3> HIDE DEF r3
    <3> QED  BY <1>0, <2>6, <3>1 DEF Tidy, Later, InLoop, Begun, Ended, Stopped
  <2>7. ASSUME old.run = "finalizing" PROVE Good(r4)
    BY <1>0, <2>7 DEF ConnType, Tidy, Later, InLoop, Begun, Ended, Stopped
  <2> HIDE DEF published, r1, r2, r3, r4
  <2> QED  BY <1>1, <2>1, <2>3, <2>4, <2>5, <2>6, <2>7
<1>11. CASE CloseHanded(c)
  <2>1. Update(c, ShutDown(old, FALSE)) /\ UNCHANGED others /\ old.table = "tracked"
    BY <1>11 DEF CloseHanded
  <2>2. Good(ShutDown(old, FALSE))
    BY <1>0, <2>1, ShutDownLater
  <2> QED  BY <1>1, <2>1, <2>2
<1> QED
  BY <1>4, <1>5, <1>6, <1>7, <1>8, <1>9, <1>10, <1>11 DEF ConnStep, Loop

(* Every step of a call of aclose(), the cancellation of its task included,      *)
(* keeps the invariant.                                                          *)
LEMMA AcloseStepInv ==
  ASSUME IInv, NEW a \in Callers,
         Begin(a) \/ BeginWithout(a) \/ Aclose(a) \/ Interrupted(a)
  PROVE  IInv'
<1>0. /\ Types /\ Knows(a) /\ CallerBusy(a) /\ closer[a] \in CloserType
      /\ \A c \in Conns : conn[c] \in ConnType /\ Tidy(conn[c])
  BY DEF IInv, Types
<1>a. a # Admin => a \in Conns
  BY ServerAssumption DEF Callers
<1>b. Admin \notin Conns
  BY ServerAssumption
<1> DEFINE Moves(r) == r \in CloserType /\ Closer(a, r)
           \* What this step may make of a connection, its caller's loop apart
           Goes(c, q) == q \in ConnType /\ Tidy(q) /\ Later(conn[c], q)
           Stays(c, q) == Goes(c, q) /\ q.child = conn[c].child
<1>1. ASSUME NEW r, Moves(r)
      PROVE  /\ closer' \in [Callers -> CloserType] /\ closer'[a] = r
             /\ \A b \in Callers \ {a} : closer'[b] = closer[b]
  BY <1>0, <1>1 DEF Closer, Types
<1>2. \A c \in Conns : Stays(c, conn[c])
  BY <1>0 DEF Later
<1>3. ASSUME NEW r, Moves(r), starts' \in Nat, closing' \in BOOLEAN,
             conn' \in [Conns -> ConnType], \A c \in Conns : Goes(c, conn'[c]),
             \A c \in Conns \ {a} : conn'[c].child = conn[c].child,
             Knows(a)', CallerBusy(a)'
      PROVE  IInv'
  <2>1. Types'
    BY <1>1, <1>3 DEF Types
  <2>2. ASSUME NEW b \in Callers \ {a} PROVE Knows(b)' /\ CallerBusy(b)'
    <3>1. closer'[b] = closer[b]
      BY <1>1, <1>3
    <3>2. Knows(b)'
      BY <1>3, <3>1, StillKnows DEF IInv
    <3>3. CallerBusy(b)'
      BY <1>3, <3>1 DEF IInv, CallerBusy, Active
    <3> QED  BY <3>2, <3>3
  <2> QED  BY <1>3, <2>1, <2>2 DEF IInv
<1>4. ASSUME NEW c \in Conns
      PROVE  LET q == ShutDownAll(a)[c]
             IN /\ Stays(c, q) /\ q.table = conn[c].table /\ q.run = conn[c].run
                /\ q.cancelRun = conn[c].cancelRun
                /\ c \in Tracked => q.decided
  <2>1. CASE c \in Tracked
    <3>1. ShutDownAll(a)[c] = ShutDown(conn[c], c = a)
      BY <2>1 DEF ShutDownAll
    <3>2. (c = a) \in BOOLEAN /\ conn[c].table = "tracked"
      BY <2>1 DEF Tracked
    <3> DEFINE q == ShutDown(conn[c], c = a)
    <3>3. /\ q \in ConnType /\ Tidy(q) /\ Later(conn[c], q) /\ q.decided
          /\ q.child = conn[c].child /\ q.run = conn[c].run /\ q.table = conn[c].table
          /\ q.cancelRun = conn[c].cancelRun
      BY <1>0, <3>2, ShutDownLater
    <3> QED  BY <3>1, <3>3
  <2>2. CASE c \notin Tracked
    <3>1. ShutDownAll(a)[c] = conn[c]
      BY <2>2 DEF ShutDownAll
    <3> QED  BY <1>2, <2>2, <3>1
  <2> QED  BY <2>1, <2>2
<1>5. ASSUME NEW table \in [Conns -> ConnType], \A c \in Conns : Stays(c, table[c]),
             Calls(a), Calling(a, table)
      PROVE  /\ conn' \in [Conns -> ConnType] /\ \A c \in Conns : Goes(c, conn'[c])
             /\ \A c \in Conns \ {a} : conn'[c] = table[c]
             /\ a \in Conns => conn'[a].child = "calling"
  <2>1. CASE a = Admin
    BY <1>5, <1>b, <2>1 DEF Calling
  <2>2. CASE a # Admin
    <3> DEFINE q == [table[a] EXCEPT !.child = "calling"]
    <3>1. conn[a].child = "serving" /\ conn' = [table EXCEPT ![a].child = "calling"] /\ a \in Conns
      BY <1>5, <1>a, <2>2 DEF Calls, Calling
    <3>2. conn' = [table EXCEPT ![a] = q]
      BY <3>1
    <3>3. Goes(a, q) /\ q.child = "calling"
      <4>1. Stays(a, table[a])
        BY <1>5, <3>1
      <4>2. table[a].table # "absent"
        BY <3>1, <4>1 DEF Tidy, NewConn
      <4> QED  BY <3>1, <4>1, <4>2 DEF ConnType, Tidy, Later, InLoop, Begun, Ended, Stopped
    <3> HIDE DEF q
    <3> QED  BY <1>5, <3>1, <3>2, <3>3
  <2> QED  BY <2>1, <2>2
<1>6. ASSUME NEW r, r \in CloserType, Finally(a, r)
      PROVE  LET k == [r EXCEPT !.pc = "client", !.waits = {}]
             IN /\ Moves(k) /\ k.pc = "client" /\ k.of = r.of /\ k.cancelled = r.cancelled
                /\ k.before = r.before /\ k.waits = {}
                /\ starts' \in Nat /\ closing' \in BOOLEAN
  BY <1>0, <1>6 DEF Finally, CloserType, Types
<1> HIDE DEF Moves, Goes, Stays
<1>7. CASE Begin(a)
  <2> DEFINE k == [NewCloser EXCEPT !.pc = "drain", !.of = starts]
  <2>1. /\ Moves(k) /\ k.pc = "drain" /\ k.before = {} /\ k.waits = {}
        /\ starts' \in Nat /\ closing' \in BOOLEAN
    BY <1>0, <1>7 DEF Begin, NewCloser, CloserType, Types, Moves
  <2> HIDE DEF k
  <2>2. closer'[a] = k
    BY <1>1, <2>1
  <2>3. /\ conn' \in [Conns -> ConnType] /\ \A c \in Conns : Goes(c, conn'[c])
        /\ \A c \in Conns \ {a} : conn'[c] = conn[c]
        /\ a \in Conns => conn'[a].child = "calling"
    BY <1>0, <1>2, <1>5, <1>7 DEF Begin, Types
  <2>4. Knows(a)' /\ CallerBusy(a)'
    BY <2>1, <2>2, <2>3 DEF Knows, CallerBusy
  <2> QED  BY <1>3, <2>1, <2>3, <2>4
<1>8. CASE BeginWithout(a)
  <2> DEFINE k == [NewCloser EXCEPT !.pc = "finish", !.before = Tracked, !.waits = Others(a)]
  <2>1. /\ Moves(k) /\ k.pc = "finish" /\ k.before = Tracked /\ k.waits = Others(a)
        /\ k.of = 0
        /\ starts' \in Nat /\ closing' \in BOOLEAN
    BY <1>0, <1>8 DEF BeginWithout, NewCloser, CloserType, Types, Moves, Tracked, Others
  <2> HIDE DEF k
  <2>2. closer'[a] = k
    BY <1>1, <2>1
  <2>3. ShutDownAll(a) \in [Conns -> ConnType]
    BY <1>4 DEF Stays, Goes, ShutDownAll
  <2>4. /\ conn' \in [Conns -> ConnType] /\ \A c \in Conns : Goes(c, conn'[c])
        /\ \A c \in Conns \ {a} : conn'[c] = ShutDownAll(a)[c]
        /\ a \in Conns => conn'[a].child = "calling"
    BY <1>4, <1>5, <1>8, <2>3 DEF BeginWithout
  <2>5. ASSUME NEW c \in Tracked \ {a} PROVE KnowsOf(k, c, conn'[c])
    <3>1. /\ c \in Conns /\ conn[c].table = "tracked" /\ conn'[c] = ShutDownAll(a)[c]
          /\ conn'[c].decided /\ conn'[c].table = "tracked" /\ conn'[c].child = conn[c].child
      BY <1>4, <2>4, <2>5 DEF Tracked, Stays
    <3>2. c \in k.waits \/ Stopped(conn'[c])
      BY <2>1, <2>5, <3>1 DEF Others, Running, Stopped, InLoop
    <3> QED  BY <2>1, <3>1, <3>2 DEF KnowsOf
  <2>6. Knows(a)' /\ CallerBusy(a)'
    BY <2>1, <2>2, <2>4, <2>5 DEF Knows, CallerBusy
  <2>7. \A c \in Conns \ {a} : conn'[c].child = conn[c].child
    BY <1>4, <2>4 DEF Stays
  <2> QED  BY <1>3, <2>1, <2>4, <2>6, <2>7
<1>9. CASE CancelClients(a)
  <2> DEFINE tasks == ClientTasks \ {a}
             k == [closer[a] EXCEPT !.pc = "gather", !.before = Tracked, !.waits = tasks]
  <2>1. /\ Moves(k) /\ k.pc = "gather" /\ k.before = Tracked /\ k.waits = tasks
        /\ closer[a].pc = "drain" /\ Drained
        /\ starts' \in Nat /\ closing' \in BOOLEAN
        /\ conn' = [c \in Conns |-> IF c \in tasks
                                    THEN [ShutDownAll(a)[c] EXCEPT !.cancelRun = TRUE]
                                    ELSE ShutDownAll(a)[c]]
    BY <1>0, <1>9 DEF CancelClients, CloserType, Types, Moves, Tracked, ClientTasks, Conns
  <2> HIDE DEF k
  <2>2. closer'[a] = k
    BY <1>1, <2>1
  <2>3. \A c \in tasks : c \in Accepted /\ c \in Conns /\ Begun(conn[c])
    BY <2>1 DEF ClientTasks, Drained, Begun, Conns
  <2>4. ASSUME NEW c \in Conns
        PROVE  /\ Goes(c, conn'[c]) /\ conn'[c].child = conn[c].child
               /\ conn'[c].table = conn[c].table /\ conn'[c].run = conn[c].run
               /\ c \in Tracked => conn'[c].decided
    <3> DEFINE q == ShutDownAll(a)[c]
    <3>1. /\ q \in ConnType /\ Tidy(q) /\ Later(conn[c], q)
          /\ q.child = conn[c].child /\ q.table = conn[c].table /\ q.run = conn[c].run
          /\ c \in Tracked => q.decided
      BY <1>4 DEF Stays, Goes
    <3>2. conn'[c] = IF c \in tasks THEN [q EXCEPT !.cancelRun = TRUE] ELSE q
      BY <2>1
    <3> HIDE DEF q
    <3>3. CASE c \in tasks
      <4> DEFINE p == [q EXCEPT !.cancelRun = TRUE]
      <4>1. Begun(q) /\ q.table # "absent"
        BY <2>3, <3>1, <3>3 DEF Begun, Tidy, NewConn
      <4>2. /\ p \in ConnType /\ p.table = q.table /\ p.run = q.run /\ p.child = q.child
            /\ p.twice = q.twice /\ p.decided = q.decided /\ p.published = q.published
            /\ p.upstream = q.upstream
        BY <3>1 DEF ConnType
      <4> HIDE DEF p
      <4>3. Tidy(p) /\ Later(conn[c], p)
        BY <3>1, <4>1, <4>2 DEF Tidy, Later, InLoop, Begun, Ended, Stopped
      <4>4. conn'[c] = p
        BY <3>2, <3>3 DEF p
      <4> QED  BY <3>1, <4>2, <4>3, <4>4 DEF Goes
    <3>4. CASE c \notin tasks
      BY <3>1, <3>2, <3>4 DEF Goes
    <3> QED  BY <3>3, <3>4
  <2>5. ASSUME NEW c \in Tracked \ {a} PROVE KnowsOf(k, c, conn'[c])
    <3>1. /\ c \in Conns /\ conn[c].table = "tracked" /\ conn'[c].decided
          /\ conn'[c].table = "tracked"
      BY <2>4, <2>5 DEF Tracked
    <3>2. c \in Accepted => c \in k.waits
      BY <1>0, <2>1, <2>5, <3>1 DEF ClientTasks, Tidy
    <3> QED  BY <2>1, <3>1, <3>2 DEF KnowsOf
  <2>6. \A c \in k.waits : c \in Accepted /\ Begun(conn'[c])
    BY <2>1, <2>3, <2>4 DEF Begun
  <2>7. Knows(a)'
    BY <2>1, <2>2, <2>5, <2>6 DEF Knows
  <2>8. CallerBusy(a)'
    BY <1>0, <2>1, <2>4 DEF CallerBusy, Active
  <2>9. conn' \in [Conns -> ConnType]
    BY <2>1, <2>4 DEF Goes
  <2> QED  BY <1>3, <2>1, <2>4, <2>7, <2>8, <2>9
<1>10. CASE Gathered(a)
  <2> DEFINE k == [closer[a] EXCEPT !.pc = "finish", !.waits = Others(a)]
  <2>1. /\ Moves(k) /\ k.pc = "finish" /\ k.before = closer[a].before /\ k.waits = Others(a)
        /\ closer[a].pc = "gather" /\ closer[a].waits \cap ClientTasks = {}
        /\ starts' \in Nat /\ closing' \in BOOLEAN /\ conn' = conn
    BY <1>0, <1>10 DEF Gathered, CloserType, Types, Moves, Tracked, Others
  <2> HIDE DEF k
  <2>2. closer'[a] = k
    BY <1>1, <2>1
  <2>3. ASSUME NEW c \in closer[a].before \ {a} PROVE KnowsOf(k, c, conn[c])
    <3>1. c \in Conns /\ Tidy(conn[c]) /\ KnowsOf(closer[a], c, conn[c])
      BY <1>0, <2>3 DEF Knows, CloserType
    <3>2. c \in Accepted => Ended(conn[c])
      BY <1>0, <2>1, <3>1 DEF Knows, KnowsOf, ClientTasks, Ended, Tidy, Begun
    <3>3. c \in k.waits \/ Stopped(conn[c]) \/ conn[c].twice
      BY <2>1, <2>3, <3>1 DEF KnowsOf, Tidy, Others, Tracked, Running, Stopped, InLoop
    <3> QED  BY <2>1, <3>1, <3>2, <3>3 DEF KnowsOf
  <2>4. Knows(a)' /\ CallerBusy(a)'
    BY <1>0, <2>1, <2>2, <2>3 DEF Knows, CallerBusy, Active
  <2> QED  BY <1>0, <1>2, <1>3, <2>1, <2>4 DEF Stays, Types
<1>11. CASE Unwound(a)
  <2> DEFINE k == [closer[a] EXCEPT !.pc = "client", !.waits = {}]
  <2>1. /\ Moves(k) /\ k.pc = "client" /\ k.cancelled = closer[a].cancelled
        /\ k.before = closer[a].before /\ starts' \in Nat /\ closing' \in BOOLEAN
        /\ closer[a].pc = "unwinding" /\ conn' = conn
    BY <1>0, <1>6, <1>11 DEF Unwound
  <2> HIDE DEF k
  <2>2. closer'[a] = k
    BY <1>1, <2>1
  <2>3. Knows(a)' /\ CallerBusy(a)'
    BY <1>0, <2>1, <2>2 DEF Knows, KnowsOf, CallerBusy, Active
  <2> QED  BY <1>0, <1>2, <1>3, <2>1, <2>3 DEF Stays, Types
<1>12. CASE Finished(a)
  <2>1. PICK k \in CloserType :
          /\ Moves(k) /\ k.pc \in {"client", "wait_closed"} /\ k.cancelled = closer[a].cancelled
          /\ k.before = closer[a].before /\ k.of = closer[a].of
          /\ starts' \in Nat /\ closing' \in BOOLEAN
    <3>1. CASE closer[a].of # 0 /\ a \in ClientTasks
      BY <1>0, <1>6, <1>12, <3>1 DEF Finished, Finishing, Moves
    <3>2. CASE ~(closer[a].of # 0 /\ a \in ClientTasks)
      <4> DEFINE k == [closer[a] EXCEPT !.pc = IF closer[a].of = 0 THEN "client"
                                               ELSE "wait_closed", !.waits = {}]
      <4>1. /\ Closer(a, k) /\ starts' = starts /\ closing' = closing
        BY <1>12, <3>2 DEF Finished, Finishing
      <4>2. /\ k \in CloserType /\ k.pc \in {"client", "wait_closed"}
            /\ k.cancelled = closer[a].cancelled
            /\ k.before = closer[a].before /\ k.of = closer[a].of
        BY <1>0 DEF CloserType
      <4> HIDE DEF k
      <4> QED  BY <1>0, <4>1, <4>2 DEF Moves, Types
    <3> QED  BY <3>1, <3>2
  <2>2. /\ closer'[a] = k /\ conn' = conn /\ closer[a].pc = "finish"
        /\ \A c \in closer[a].waits : ~Running(c)
    BY <1>1, <1>12, <2>1 DEF Finished, Finishing
  <2>3. ASSUME NEW c \in closer[a].before \ {a} PROVE KnowsOf(k, c, conn[c])
    <3>1. KnowsOf(closer[a], c, conn[c])
      BY <1>0, <2>3 DEF Knows
    <3>2. k.cancelled \/ Stopped(conn[c]) \/ conn[c].twice
      BY <2>1, <2>2, <3>1 DEF KnowsOf, Running, Stopped, InLoop
    <3> QED  BY <2>1, <2>2, <3>1, <3>2 DEF KnowsOf
  <2>4. Knows(a)' /\ CallerBusy(a)'
    BY <1>0, <2>1, <2>2, <2>3 DEF Knows, CallerBusy, Active
  <2> QED  BY <1>0, <1>2, <1>3, <2>1, <2>2, <2>4 DEF Stays, Types
<1>13. CASE WaitedClosed(a)
  <2> DEFINE k == [closer[a] EXCEPT !.pc = "client", !.waits = {}]
  <2>1. /\ Moves(k) /\ k.pc = "client" /\ k.cancelled = closer[a].cancelled
        /\ k.before = closer[a].before /\ k.of = closer[a].of
        /\ starts' \in Nat /\ closing' \in BOOLEAN
        /\ closer[a].pc = "wait_closed" /\ conn' = conn
    BY <1>0, <1>6, <1>13 DEF WaitedClosed
  <2> HIDE DEF k
  <2>2. closer'[a] = k
    BY <1>1, <2>1
  <2>3. Knows(a)' /\ CallerBusy(a)'
    BY <1>0, <2>1, <2>2 DEF Knows, KnowsOf, CallerBusy, Active
  <2> QED  BY <1>0, <1>2, <1>3, <2>1, <2>3 DEF Stays, Types
<1>14. CASE AbortUpstreams(a)
  <2> DEFINE pending == {c \in Conns : conn[c].upstream \in {"releasing", "aborted"}}
             k == [closer[a] EXCEPT !.pc = "upstreams", !.waits = pending]
  <2>1. /\ Moves(k) /\ k.pc = "upstreams" /\ k.cancelled = closer[a].cancelled
        /\ k.before = closer[a].before /\ k.of = closer[a].of /\ k.waits = pending
        /\ closer[a].pc = "client" /\ starts' \in Nat /\ closing' \in BOOLEAN
        /\ conn' = [c \in Conns |-> IF c \in pending THEN [conn[c] EXCEPT !.upstream = "aborted"]
                                    ELSE conn[c]]
    BY <1>0, <1>14 DEF AbortUpstreams, CloserType, Types, Moves
  <2> HIDE DEF k
  <2>2. closer'[a] = k
    BY <1>1, <2>1
  <2>3. ASSUME NEW c \in Conns
        PROVE  /\ Goes(c, conn'[c]) /\ conn'[c].child = conn[c].child
               /\ conn'[c].table = conn[c].table /\ conn'[c].decided = conn[c].decided
               /\ conn'[c].twice = conn[c].twice
               /\ conn'[c].run = conn[c].run /\ conn'[c].published = conn[c].published
               /\ conn'[c].upstream = IF c \in pending THEN "aborted" ELSE conn[c].upstream
    <3>1. CASE c \in pending
      <4> DEFINE p == [conn[c] EXCEPT !.upstream = "aborted"]
      <4>1. conn'[c] = p /\ conn[c].upstream \in {"releasing", "aborted"}
        BY <2>1, <3>1
      <4>2. conn[c].table # "absent"
        BY <1>0, <4>1 DEF Tidy, NewConn
      <4>3. /\ p \in ConnType /\ p.child = conn[c].child
            /\ p.table = conn[c].table /\ p.decided = conn[c].decided
            /\ p.twice = conn[c].twice /\ p.cancelRun = conn[c].cancelRun
            /\ p.run = conn[c].run /\ p.published = conn[c].published /\ p.upstream = "aborted"
        BY <1>0 DEF ConnType
      <4> HIDE DEF p, pending
      <4>4. Tidy(p) /\ Later(conn[c], p)
        BY <1>0, <4>1, <4>2, <4>3 DEF Tidy, Later, InLoop, Begun, Ended, Stopped
      <4> QED  BY <3>1, <4>1, <4>3, <4>4 DEF Goes
    <3>2. CASE c \notin pending
      BY <1>2, <2>1, <3>2 DEF Stays
    <3> QED  BY <3>1, <3>2
  <2>4. ASSUME NEW c \in closer[a].before \ {a} PROVE KnowsOf(k, c, conn'[c])
    <3>1. c \in Conns /\ KnowsOf(closer[a], c, conn[c])
      BY <1>0, <2>4 DEF Knows, CloserType
    <3>2. Stopped(conn[c]) => conn[c].upstream # "open"
      BY <1>0, <3>1 DEF Stopped, Tidy, InLoop
    <3>3. conn[c].upstream \in {"none", "open", "releasing", "aborted", "closed"}
      BY <1>0, <3>1 DEF ConnType
    <3>4. k.cancelled \/ conn'[c].twice \/ Gone(conn'[c])
          \/ (c \in k.waits /\ conn'[c].upstream = "aborted")
      BY <2>1, <2>3, <3>1, <3>2, <3>3 DEF KnowsOf, Gone
    <3> QED  BY <2>1, <2>3, <3>1, <3>4 DEF KnowsOf, Stopped, InLoop, Ended
  <2>5. Knows(a)' /\ CallerBusy(a)'
    BY <1>0, <2>1, <2>2, <2>3, <2>4 DEF Knows, CallerBusy, Active
  <2>6. conn' \in [Conns -> ConnType]
    BY <2>1, <2>3 DEF Goes
  <2> QED  BY <1>3, <2>1, <2>3, <2>5, <2>6
<1>15. CASE Return(a)
  <2> DEFINE k == [closer[a] EXCEPT !.pc = IF closer[a].cancelled THEN "raised" ELSE "returned",
                                    !.waits = {}]
  <2>1. /\ Moves(k) /\ k.pc = (IF closer[a].cancelled THEN "raised" ELSE "returned")
        /\ k.cancelled = closer[a].cancelled
        /\ k.before = closer[a].before /\ k.of = closer[a].of
        /\ closer[a].pc = "upstreams" /\ starts' \in Nat /\ closing' \in BOOLEAN
        /\ \A c \in closer[a].waits : conn[c].upstream # "aborted"
    BY <1>0, <1>15 DEF Return, CloserType, Types, Moves
  <2> HIDE DEF k
  <2>2. closer'[a] = k
    BY <1>1, <2>1
  <2>3. /\ conn' \in [Conns -> ConnType] /\ \A c \in Conns : Goes(c, conn'[c])
        /\ \A c \in Conns \ {a} : conn'[c] = conn[c]
    <3>1. CASE a = Admin
      BY <1>0, <1>2, <1>15, <3>1 DEF Return, Stays, Types
    <3>2. CASE a # Admin
      <4> DEFINE p == [conn[a] EXCEPT !.child = "serving",
                                      !.cancelChild = @ \/ closer[a].cancelled]
      <4>1. a \in Conns /\ conn[a].child = "calling" /\ conn' = [conn EXCEPT ![a] = p]
        BY <1>0, <1>a, <1>15, <2>1, <3>2 DEF Return, Update, CallerBusy, Active
      <4>2. /\ p \in ConnType /\ p.child = "serving"
            /\ p.table = conn[a].table /\ p.decided = conn[a].decided
            /\ p.twice = conn[a].twice /\ p.cancelRun = conn[a].cancelRun
            /\ p.run = conn[a].run /\ p.published = conn[a].published
        BY <1>0, <4>1 DEF ConnType
      <4> HIDE DEF p
      <4>3. conn[a].table # "absent"
        BY <1>0, <4>1 DEF Tidy, NewConn
      <4>4. Goes(a, p)
        BY <1>0, <4>1, <4>2, <4>3 DEF Goes, Tidy, Later, InLoop, Begun, Ended, Stopped
      <4> QED  BY <1>0, <1>2, <4>1, <4>2, <4>4 DEF Stays, Types, Goes
    <3> QED  BY <3>1, <3>2
  <2>4. ASSUME NEW c \in closer[a].before \ {a} PROVE KnowsOf(k, c, conn'[c])
    <3>1. KnowsOf(closer[a], c, conn[c]) /\ conn'[c] = conn[c]
      BY <1>0, <2>3, <2>4 DEF Knows, CloserType
    <3> QED  BY <2>1, <2>4, <3>1 DEF KnowsOf
  <2>5. Knows(a)' /\ CallerBusy(a)'
    BY <2>1, <2>2, <2>4 DEF Knows, CallerBusy, Active
  <2> QED  BY <1>3, <2>1, <2>3, <2>5
<1>16. CASE Interrupted(a)
  <2> DEFINE r == [closer[a] EXCEPT !.cancelled = TRUE]
             delivered == IF a = Admin THEN conn ELSE [conn EXCEPT ![a].cancelChild = FALSE]
             cancelAlso == [c \in Conns |-> IF c \in r.waits \cap ClientTasks
                                           THEN [delivered[c] EXCEPT !.cancelRun = TRUE]
                                           ELSE delivered[c]]
             Delivers(table) ==
               /\ table \in [Conns -> ConnType]
               /\ \A c \in Conns : /\ Stays(c, table[c]) /\ table[c].run = conn[c].run
                                   /\ table[c].table = conn[c].table
                                   /\ table[c].decided = conn[c].decided
                                   /\ table[c].published = conn[c].published
  <2>1. /\ r \in CloserType /\ r.pc = closer[a].pc /\ r.cancelled = TRUE
        /\ r.before = closer[a].before /\ r.waits = closer[a].waits
    BY <1>0 DEF CloserType
  <2>2. Delivers(delivered)
    <3>1. CASE a = Admin
      BY <1>0, <1>2, <3>1 DEF Types
    <3>2. CASE a # Admin
      <4> DEFINE p == [conn[a] EXCEPT !.cancelChild = FALSE]
      <4>1. a \in Conns /\ conn[a].child = "calling"
        BY <1>a, <1>16, <3>2 DEF Interrupted
      <4>2. delivered = [conn EXCEPT ![a] = p]
        BY <3>2
      <4>3. /\ p \in ConnType /\ p.child = conn[a].child /\ p.upstream = conn[a].upstream
            /\ p.table = conn[a].table /\ p.decided = conn[a].decided
            /\ p.twice = conn[a].twice /\ p.cancelRun = conn[a].cancelRun
            /\ p.run = conn[a].run /\ p.published = conn[a].published
        BY <1>0, <4>1 DEF ConnType
      <4> HIDE DEF p
      <4>4. conn[a].table # "absent"
        BY <1>0, <4>1 DEF Tidy, NewConn
      <4>5. Stays(a, p)
        BY <1>0, <4>1, <4>3, <4>4 DEF Stays, Goes, Tidy, Later, InLoop, Begun, Ended, Stopped
      <4> HIDE DEF delivered
      <4> QED  BY <1>0, <1>2, <4>1, <4>2, <4>3, <4>5 DEF Types
    <3> QED  BY <3>1, <3>2
  <2> HIDE DEF r, delivered
  <2>3. CASE /\ r.pc \in {"client", "upstreams", "drain"} /\ conn' = delivered /\ Closer(a, r)
             /\ UNCHANGED <<server, closing, starts>>
    <3>1. Moves(r) /\ closer'[a] = r
      BY <1>1, <2>1, <2>3 DEF Moves
    <3>2. ASSUME NEW c \in closer[a].before \ {a} PROVE KnowsOf(r, c, conn'[c])
      <4>1. c \in Conns /\ KnowsOf(closer[a], c, conn[c])
        BY <1>0, <3>2 DEF Knows, CloserType
      <4> QED  BY <2>1, <2>2, <2>3, <4>1 DEF KnowsOf
    <3>3. Knows(a)' /\ CallerBusy(a)'
      BY <1>0, <2>1, <2>2, <2>3, <3>1, <3>2 DEF Knows, CallerBusy, Active, Stays
    <3> QED  BY <1>0, <1>3, <2>2, <2>3, <3>1, <3>3 DEF Types, Stays
  <2>4. CASE /\ r.pc \in {"gather", "unwinding"} /\ conn' = cancelAlso
             /\ Closer(a, [r EXCEPT !.pc = "unwinding"])
             /\ UNCHANGED <<server, closing, starts>>
    <3> DEFINE k == [r EXCEPT !.pc = "unwinding"]
    <3>1. /\ Moves(k) /\ k.pc = "unwinding" /\ k.cancelled = TRUE
          /\ k.before = closer[a].before /\ k.waits = closer[a].waits
      BY <2>1, <2>4 DEF Moves, CloserType
    <3> HIDE DEF k
    <3>2. closer'[a] = k
      BY <1>1, <3>1
    <3>3. ASSUME NEW c \in Conns
          PROVE  /\ Stays(c, conn'[c]) /\ conn'[c].run = conn[c].run
                 /\ conn'[c].table = conn[c].table
                 /\ conn'[c].decided = conn[c].decided
                 /\ conn'[c].published = conn[c].published
      <4> DEFINE q == delivered[c]
                 p == [q EXCEPT !.cancelRun = TRUE]
      <4>1. /\ q \in ConnType /\ Tidy(q) /\ Later(conn[c], q) /\ q.child = conn[c].child
            /\ q.run = conn[c].run /\ q.table = conn[c].table
            /\ q.decided = conn[c].decided /\ q.published = conn[c].published
        BY <2>2 DEF Stays, Goes
      <4> HIDE DEF q
      <4>2. CASE c \in r.waits \cap ClientTasks
        <5>1. Begun(q) /\ q.table # "absent" /\ conn'[c] = p
          BY <1>0, <2>1, <2>4, <4>1, <4>2 DEF Knows, Begun, Tidy, NewConn, q
        <5>2. /\ p \in ConnType /\ p.table = q.table /\ p.run = q.run /\ p.child = q.child
              /\ p.twice = q.twice /\ p.decided = q.decided /\ p.published = q.published
              /\ p.upstream = q.upstream
          BY <4>1 DEF ConnType
        <5> HIDE DEF p
        <5>3. Tidy(p) /\ Later(conn[c], p)
          BY <4>1, <5>1, <5>2 DEF Tidy, Later, InLoop, Begun, Ended, Stopped
        <5> QED  BY <4>1, <5>1, <5>2, <5>3 DEF Stays, Goes
      <4>3. CASE c \notin r.waits \cap ClientTasks
        <5>1. conn'[c] = q
          BY <2>4, <4>3 DEF q
        <5> QED  BY <4>1, <5>1 DEF Stays, Goes
      <4> QED  BY <4>2, <4>3
    <3>4. ASSUME NEW c \in closer[a].before \ {a} PROVE KnowsOf(k, c, conn'[c])
      <4>1. c \in Conns /\ KnowsOf(closer[a], c, conn[c])
        BY <1>0, <3>4 DEF Knows, CloserType
      <4> QED  BY <2>1, <2>4, <3>1, <3>3, <4>1 DEF KnowsOf, Ended
    <3>5. \A c \in k.waits : c \in Accepted /\ Begun(conn'[c])
      <4>1. \A c \in k.waits : c \in Accepted /\ c \in Conns /\ Begun(conn[c])
        BY <1>0, <2>1, <2>4, <3>1 DEF Knows, Conns
      <4> QED  BY <3>3, <4>1 DEF Begun
    <3>6. Knows(a)'
      BY <3>1, <3>2, <3>4, <3>5 DEF Knows
    <3>7. CallerBusy(a)'
      BY <1>0, <2>1, <2>4, <3>1, <3>3 DEF CallerBusy, Active, Stays
    <3>8. conn' \in [Conns -> ConnType]
      BY <2>4, <3>3 DEF Stays, Goes
    <3> QED  BY <1>0, <1>3, <2>4, <3>1, <3>3, <3>6, <3>7, <3>8 DEF Types, Stays
  <2>5. CASE /\ r.pc \in {"wait_closed", "finish", "drain"} /\ conn' = delivered
             /\ Finally(a, r)
    <3> DEFINE k == [r EXCEPT !.pc = "client", !.waits = {}]
    <3>1. /\ Moves(k) /\ k.pc = "client" /\ k.cancelled = TRUE
          /\ k.before = closer[a].before
          /\ starts' \in Nat /\ closing' \in BOOLEAN
      BY <1>6, <2>1, <2>5
    <3> HIDE DEF k
    <3>2. closer'[a] = k
      BY <1>1, <3>1
    <3>3. ASSUME NEW c \in closer[a].before \ {a} PROVE KnowsOf(k, c, conn'[c])
      <4>1. c \in Conns /\ KnowsOf(closer[a], c, conn[c])
        BY <1>0, <3>3 DEF Knows, CloserType
      <4> QED  BY <2>2, <2>5, <3>1, <4>1 DEF KnowsOf
    <3>4. Knows(a)' /\ CallerBusy(a)'
      BY <1>0, <2>1, <2>2, <2>5, <3>1, <3>2, <3>3 DEF Knows, CallerBusy, Active, Stays
    <3> QED  BY <1>3, <2>2, <2>5, <3>1, <3>4 DEF Stays
  <2>6. CASE /\ r.pc = "finish" /\ Closer(a, [r EXCEPT !.pc = "raised", !.waits = {}])
             /\ conn' = (IF a = Admin THEN conn ELSE [conn EXCEPT ![a].child = "serving"])
             /\ UNCHANGED <<server, closing, starts>>
    <3> DEFINE k == [r EXCEPT !.pc = "raised", !.waits = {}]
    <3>1. /\ Moves(k) /\ k.pc = "raised" /\ k.cancelled = TRUE /\ k.before = closer[a].before
      BY <2>1, <2>6 DEF Moves, CloserType
    <3> HIDE DEF k
    <3>2. closer'[a] = k
      BY <1>1, <3>1
    <3>3. /\ conn' \in [Conns -> ConnType] /\ \A c \in Conns : Goes(c, conn'[c])
          /\ \A c \in Conns \ {a} : conn'[c] = conn[c]
      <4>1. CASE a = Admin
        BY <1>0, <1>2, <2>6, <4>1 DEF Stays, Types
      <4>2. CASE a # Admin
        <5> DEFINE p == [conn[a] EXCEPT !.child = "serving"]
        <5>1. a \in Conns /\ conn[a].child = "calling" /\ conn' = [conn EXCEPT ![a] = p]
          BY <1>a, <1>16, <2>6, <4>2 DEF Interrupted
        <5>2. /\ p \in ConnType /\ p.child = "serving"
              /\ p.table = conn[a].table /\ p.decided = conn[a].decided
              /\ p.twice = conn[a].twice /\ p.cancelRun = conn[a].cancelRun
              /\ p.run = conn[a].run /\ p.published = conn[a].published
          BY <1>0, <5>1 DEF ConnType
        <5> HIDE DEF p
        <5>3. conn[a].table # "absent"
          BY <1>0, <5>1 DEF Tidy, NewConn
        <5>4. Goes(a, p)
          BY <1>0, <5>1, <5>2, <5>3 DEF Goes, Tidy, Later, InLoop, Begun, Ended, Stopped
        <5> QED  BY <1>0, <1>2, <5>1, <5>2, <5>4 DEF Stays, Types, Goes
      <4> QED  BY <4>1, <4>2
    <3>4. ASSUME NEW c \in closer[a].before \ {a} PROVE KnowsOf(k, c, conn'[c])
      <4>1. KnowsOf(closer[a], c, conn[c]) /\ conn'[c] = conn[c]
        BY <1>0, <3>3, <3>4 DEF Knows, CloserType
      <4> QED  BY <3>1, <4>1 DEF KnowsOf
    <3>5. Knows(a)' /\ CallerBusy(a)'
      BY <3>1, <3>2, <3>4 DEF Knows, CallerBusy, Active
    <3> QED  BY <1>0, <1>3, <2>6, <3>1, <3>3, <3>5 DEF Types
  <2> QED
    BY <1>16, <2>1, <2>3, <2>4, <2>5, <2>6 DEF Interrupted, r, delivered
<1> QED
  BY <1>7, <1>8, <1>9, <1>10, <1>11, <1>12, <1>13, <1>14, <1>15, <1>16 DEF Aclose

(* The invariant holds in every reachable state.                                 *)
LEMMA Invariance == Spec => []IInv
<1>1. Init => IInv
  <2> SUFFICES ASSUME Init PROVE IInv  OBVIOUS
  <2>1. Types
    <3>1. PICK crowd \in Crowds :
            conn = [c \in Conns |-> [NewConn EXCEPT !.table = IF c \in crowd THEN @ ELSE "gone"]]
      BY DEF Init
    <3>2. ASSUME NEW c \in Conns PROVE conn[c] \in ConnType
      BY <3>1 DEF NewConn, ConnType
    <3>3. conn \in [Conns -> ConnType]
      BY <3>1, <3>2
    <3>4. closer \in [Callers -> CloserType] /\ starts \in Nat /\ closing \in BOOLEAN
      BY DEF Init, NewCloser, CloserType
    <3> QED  BY <3>3, <3>4 DEF Types
  <2>2. \A c \in Conns : Tidy(conn[c])
    BY DEF Init, NewConn, Tidy, InLoop, Begun
  <2>3. \A a \in Callers : Knows(a) /\ CallerBusy(a)
    BY DEF Init, NewCloser, Knows, CallerBusy, Active
  <2> QED  BY <2>1, <2>2, <2>3 DEF IInv
<1>2. IInv /\ [Next]_vars => IInv'
  <2> SUFFICES ASSUME IInv, [Next]_vars PROVE IInv'  OBVIOUS
  <2>1. CASE Start \/ UNCHANGED vars
    <3>0. Types
      BY DEF IInv
    <3>1. conn' = conn /\ closer' = closer /\ Types'
      <4>1. CASE Start
        <5>1. conn' = conn /\ closer' = closer /\ closing' \in BOOLEAN
          BY <4>1 DEF Start
        <5>2. starts' \in Nat
          BY <3>0, <4>1 DEF Start, Types
        <5> QED  BY <3>0, <5>1, <5>2 DEF Types
      <4>2. CASE UNCHANGED vars
        BY <3>0, <4>2 DEF vars, Types
      <4> QED  BY <2>1, <4>1, <4>2
    <3>2. \A c \in Conns : Later(conn[c], conn'[c])
      BY <3>1 DEF Later
    <3>3. ASSUME NEW a \in Callers PROVE Knows(a)' /\ CallerBusy(a)'
      BY <3>1, <3>2, StillKnows DEF IInv, CallerBusy, Active
    <3> QED  BY <3>1, <3>3 DEF IInv
  <2>2. ASSUME NEW a \in Callers, Begin(a) \/ BeginWithout(a) \/ Aclose(a) \/ Interrupted(a)
        PROVE  IInv'
    BY <2>2, AcloseStepInv
  <2>3. ASSUME NEW c \in Conns, ConnStep(c) PROVE IInv'
    <3>0. conn[c] \in ConnType /\ Tidy(conn[c]) /\ closing \in BOOLEAN /\ starts \in Nat
      BY DEF IInv, Types
    <3>1. PICK r \in ConnType : /\ conn' = [conn EXCEPT ![c] = r]
                                /\ Tidy(r) /\ Later(conn[c], r)
                                /\ conn[c].child = "calling" => r.child = "calling"
      BY <2>3, <3>0, ConnStepLater
    <3>2. UNCHANGED others
      BY <2>3, <3>0, ConnStepLater
    <3>3. Types' /\ \A d \in Conns : Tidy(conn'[d])
      BY <3>1, <3>2 DEF IInv, Types, others
    <3>4. \A d \in Conns : /\ Later(conn[d], conn'[d])
                           /\ conn[d].child = "calling" => conn'[d].child = "calling"
      BY <3>1 DEF IInv, Types, Later
    <3>5. ASSUME NEW a \in Callers PROVE Knows(a)' /\ CallerBusy(a)'
      <4>1. Knows(a)'
        BY <3>2, <3>4, StillKnows DEF IInv, others
      <4>2. CallerBusy(a)'
        BY <3>2, <3>4 DEF IInv, CallerBusy, Active, others
      <4> QED  BY <4>1, <4>2
    <3> QED  BY <3>3, <3>5 DEF IInv
  <2> QED  BY <2>1, <2>2, <2>3 DEF Next, ConnStep
<1> QED  BY <1>1, <1>2, PTL DEF Spec
-----------------------------------------------------------------------------
(* Once aclose() has returned, every connection it found, its caller's apart,    *)
(* has let its upstream go, unless its run() was cancelled twice: for any        *)
(* connections, callers and restarts (core.py:734-754).                          *)
THEOREM ServerReleasesUpstreams == Spec => []NoUpstreamOutlivesServer
<1>1. IInv => NoUpstreamOutlivesServer
  BY DEF IInv, Knows, KnowsOf, Gone, Live, NoUpstreamOutlivesServer
<1> QED  BY <1>1, Invariance, PTL

(* Once aclose() has returned, every connection it found has decided its close   *)
(* and is out of its loop, and one the listener accepted has published its event *)
(* and has no task left (core.py:654-667, 1014-1035).                            *)
THEOREM ServerForgetsNone == Spec => []NoConnectionForgotten
<1>1. IInv => NoConnectionForgotten
  BY DEF IInv, Knows, KnowsOf, Stopped, InLoop, Ended, Running, NoConnectionForgotten
<1> QED  BY <1>1, Invariance, PTL
=============================================================================
