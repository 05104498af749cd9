--------------------------- MODULE TLSProxyProofs ---------------------------
(* Proofs about the shutdown of the intercept proxy: NothingOutlivesProxy, for   *)
(* any clients and any of them calling aclose() at once.                         *)
EXTENDS TLSProxy, TLAPS

Early == {"none", "socket", "queued", "connect", "upgrade"}
ClientType ==
  [task : Early \cup {"busy", "cancelling", "settling", "leaving", "over"},
   code : {"none", "running", "calling", "done"}, cancel : BOOLEAN, stop : BOOLEAN,
   twice : BOOLEAN, tracked : BOOLEAN, listed : SUBSET {"plain", "tls"}, upgraded : BOOLEAN,
   transport : {"none", "open", "closing", "closed"},
   upstream : {"none", "open", "releasing", "aborted", "closed"}]
CloserType ==
  [pc : {"idle", "drain", "grace", "gather", "unwinding", "writers", "upstreams"} \cup Ended,
   cancelled : BOOLEAN, before : SUBSET Clients, waits : SUBSET Clients,
   writers : SUBSET (Clients \X {"plain", "tls"})]

Types == /\ mode \in {"forward", "server"}
         /\ client \in [Clients -> ClientType] /\ closer \in [Callers -> CloserType]

(* The code of a client runs within its task, unless run() was cancelled twice;  *)
(* only a relay's code holds an upstream; a task that is over has nothing open.  *)
Tidy(r) == /\ r.task \in Early => r.code = "none"
           /\ r.task \notin {"busy", "cancelling"} => r.code \in {"none", "done"} \/ r.twice
           /\ mode = "forward" /\ r.code \in {"running", "calling"} => r.task = "busy"
           /\ r.upstream = "open" => mode = "forward" /\ r.code \in {"running", "calling"}
           /\ r.task = "over" => r.transport = "closed"

\* An upstream that nobody owns any more: gone, or going as aclose() made it
Gone(c) == client[c].upstream \in {"none", "closed"}
Active(a) == closer[a].pc \notin Ended \cup {"idle"}

(* What a call of aclose() knows of the clients it found, by where it is.  Its   *)
(* own caller is the one client whose task it does not end.                      *)
Knows(a) == \A c \in closer[a].before \ {a} :
  /\ closer[a].pc \in {"grace", "gather"} => c \in closer[a].waits \/ client[c].task = "over"
  /\ closer[a].pc \in {"writers", "upstreams", "returned", "raised"} => client[c].task = "over"
  /\ closer[a].pc = "upstreams" =>
       Gone(c) \/ (c \in closer[a].waits /\ client[c].upstream = "aborted")
  /\ closer[a].pc \in {"returned", "raised"} => Gone(c)
CallerInside(a) == a \in Clients /\ Active(a) => client[a].code = "calling"

IInv == /\ Types
        /\ \A c \in Clients : Tidy(client[c])
        /\ \A a \in Callers : Knows(a) /\ CallerInside(a)

(* What no step undoes: a task that is over stays over, and its upstream only    *)
(* goes on to its end.                                                           *)
Later(old, new) == old.task = "over" =>
  /\ new.task = "over"
  /\ \/ new.upstream \in {old.upstream, "closed"}
     \/ old.upstream = "releasing" /\ new.upstream = "aborted"

(* What the steps of aclose() leave of a client: its code may enter or leave     *)
(* aclose(), and the release of its upstream be aborted.                         *)
Kept(old, new) ==
  /\ new \in ClientType /\ new.task = old.task
  /\ \/ new.upstream = old.upstream
     \/ old.upstream = "releasing" /\ new.upstream = "aborted"
  /\ new.twice = old.twice /\ (old.transport = "closed" => new.transport = "closed")
  /\ new.code = old.code \/ {old.code, new.code} \subseteq {"running", "calling"}
-----------------------------------------------------------------------------
(* A call of aclose() that does not move loses nothing of what it knows.         *)
LEMMA StillKnows ==
  ASSUME NEW a \in Callers, Types, Knows(a), closer'[a] = closer[a],
         \A c \in Clients : Later(client[c], client'[c])
  PROVE  Knows(a)'
<1> SUFFICES ASSUME NEW c \in closer[a].before \ {a}
             PROVE
  /\ closer[a].pc \in {"grace", "gather"} => c \in closer[a].waits \/ client'[c].task = "over"
  /\ closer[a].pc \in {"writers", "upstreams", "returned", "raised"} => client'[c].task = "over"
  /\ closer[a].pc = "upstreams" =>
       \/ client'[c].upstream \in {"none", "closed"}
       \/ c \in closer[a].waits /\ client'[c].upstream = "aborted"
  /\ closer[a].pc \in {"returned", "raised"} => client'[c].upstream \in {"none", "closed"}
  BY DEF Knows, Gone
<1>1. c \in Clients
  BY DEF Types, CloserType
<1> QED
  BY <1>1 DEF Knows, Gone, Later

(* What the ways out of a task leave, field by field.                            *)
LEMMA Leaves ==
  ASSUME NEW r \in ClientType
  PROVE  /\ Over(r) \in ClientType /\ Over(r).task = "over" /\ Over(r).transport = "closed"
         /\ Over(r).upstream = r.upstream /\ Over(r).code = r.code /\ Over(r).twice = r.twice
         /\ Leaving(r) \in ClientType /\ Leaving(r).task = "leaving"
         /\ Leaving(r).upstream = r.upstream /\ Leaving(r).code = r.code
         /\ Leaving(r).twice = r.twice
         /\ CodeDone(r) \in ClientType /\ CodeDone(r).task = r.task
         /\ CodeDone(r).transport = r.transport /\ CodeDone(r).code = "done"
         /\ CodeDone(r).twice = r.twice
         /\ CodeDone(r).upstream = IF r.upstream = "open" THEN "releasing" ELSE r.upstream
<1>1. /\ Over(r) \in ClientType /\ Over(r).task = "over" /\ Over(r).transport = "closed"
      /\ Over(r).upstream = r.upstream /\ Over(r).code = r.code /\ Over(r).twice = r.twice
  BY DEF Over, ClientType
<1>2. /\ Leaving(r) \in ClientType /\ Leaving(r).task = "leaving"
      /\ Leaving(r).upstream = r.upstream /\ Leaving(r).code = r.code
      /\ Leaving(r).twice = r.twice
  BY DEF Leaving, Close, ClientType
<1>3. /\ CodeDone(r) \in ClientType /\ CodeDone(r).task = r.task
      /\ CodeDone(r).transport = r.transport /\ CodeDone(r).code = "done"
      /\ CodeDone(r).twice = r.twice
      /\ CodeDone(r).upstream = IF r.upstream = "open" THEN "releasing" ELSE r.upstream
  BY DEF CodeDone, Released, ClientType
<1> QED  BY <1>1, <1>2, <1>3

LEMMA KeptTidy ==
  ASSUME NEW r \in ClientType, NEW q, Tidy(r), Kept(r, q)
  PROVE  Tidy(q) /\ Later(r, q)
BY DEF Tidy, Kept, Later, ClientType, Early

(* A step of one client's own task, of its peer or of its upstream.              *)
ClientStep(c) == \/ Accept(c) \/ Refuse(c) \/ Upgrade(c) \/ HandshakeFails(c) \/ Upgraded(c)
                 \/ Relay(c) \/ Release(c) \/ UpstreamCloses(c) \/ RelayEnds(c) \/ ServedEnds(c)
                 \/ Task(c) \/ TransportCloses(c)

(* It changes one client, which it keeps tidy; it neither revives a task that is *)
(* over nor moves code that is inside aclose().                                  *)
Moved(c, r) == /\ r \in ClientType /\ client' = [client EXCEPT ![c] = r]
               /\ Tidy(r) /\ Later(client[c], r)
               /\ client[c].code = "calling" => r.code = "calling"

LEMMA ClientMoves ==
  ASSUME IInv, NEW c \in Clients, ClientStep(c)
  PROVE  UNCHANGED others /\ \E r : Moved(c, r)
<1>0. /\ client[c] \in ClientType /\ Tidy(client[c]) /\ mode \in {"forward", "server"}
      /\ client[c] = client[c]
  BY DEF IInv, Types
<1>1. UNCHANGED others
  BY DEF ClientStep, Task, Accept, Attach, TaskStarts, Refuse, Upgrade, HandshakeFails, Upgraded,
         Relay, Release, UpstreamCloses, RelayEnds, ServedEnds, RunResumes, Left, Cancelled,
         TransportCloses
<1> SUFFICES \E r : Moved(c, r)
  BY <1>1
<1>2. CASE Accept(c) \/ Attach(c) \/ TaskStarts(c)
  <2>1. CASE Accept(c)
    <3>1. Moved(c, [client[c] EXCEPT !.task = "socket", !.transport = "open"])
      BY <1>0, <2>1 DEF Accept, Update, ClientType, Early, Tidy, Later, Moved
    <3> QED  BY <3>1
  <2>2. CASE Attach(c) /\ closing
    <3>1. Moved(c, [client[c] EXCEPT !.task = "over", !.transport = "closed"])
      BY <1>0, <2>2 DEF Attach, Update, ClientType, Early, Tidy, Later, Moved
    <3> QED  BY <3>1
  <2>3. CASE Attach(c) /\ ~closing
    <3>1. Moved(c, [client[c] EXCEPT !.task = "queued", !.tracked = TRUE, !.listed = {"plain"}])
      BY <1>0, <2>3 DEF Attach, Update, ClientType, Early, Tidy, Later, Moved
    <3> QED  BY <3>1
  <2>4. CASE TaskStarts(c)
    <3>1. Moved(c, [client[c] EXCEPT !.task = "connect"])
      BY <1>0, <2>4 DEF TaskStarts, At, Update, ClientType, Early, Tidy, Later, Moved
    <3> QED  BY <3>1
  <2> QED  BY <1>2, <2>1, <2>2, <2>3, <2>4
<1>3. CASE Refuse(c)
  <2>1. Moved(c, Leaving(client[c]))
    BY <1>0, <1>3, Leaves DEF Refuse, At, Update, Early, Tidy, Later, Moved
  <2> QED  BY <2>1
<1>4. CASE Upgrade(c) \/ Upgraded(c)
  <2>1. CASE Upgrade(c)
    <3>1. Moved(c, [client[c] EXCEPT !.task = "upgrade", !.upgraded = TRUE, !.listed = {}])
      BY <1>0, <2>1 DEF Upgrade, At, Update, ClientType, Early, Tidy, Later, Moved
    <3> QED  BY <3>1
  <2>2. CASE Upgraded(c)
    <3>1. Moved(c, [client[c] EXCEPT !.task = "busy", !.code = "running",
                                     !.listed = @ \cup {"tls"}])
      BY <1>0, <2>2 DEF Upgraded, At, Update, ClientType, Early, Tidy, Later, Moved
    <3> QED  BY <3>1
  <2> QED  BY <1>4, <2>1, <2>2
<1>5. CASE HandshakeFails(c)
  <2>1. Moved(c, Over(client[c]))
    BY <1>0, <1>5, Leaves DEF HandshakeFails, At, Update, Early, Tidy, Later, Moved
  <2> QED  BY <2>1
<1>6. CASE Relay(c) \/ Release(c)
  BY <1>0, <1>6 DEF Relay, Release, Runs, Update, Released, ClientType, Early, Tidy, Later, Moved
<1>7. CASE UpstreamCloses(c) \/ TransportCloses(c)
  BY <1>0, <1>7
  DEF UpstreamCloses, TransportCloses, Update, Abort, ClientType, Early, Tidy, Later, Moved
<1>8. CASE RelayEnds(c)
  <2>1. CodeDone(client[c]) \in ClientType
    BY <1>0, Leaves
  <2>2. Moved(c, Leaving(CodeDone(client[c])))
    BY <1>0, <1>8, <2>1, Leaves DEF RelayEnds, Runs, Update, Early, Tidy, Later, Moved
  <2> QED  BY <2>2
<1>9. CASE ServedEnds(c)
  <2>1. Moved(c, CodeDone(client[c]))
    BY <1>0, <1>9, Leaves DEF ServedEnds, Update, ClientType, Early, Tidy, Later, Moved
  <2> QED  BY <2>1
<1>10. CASE RunResumes(c)
  <2> DEFINE r == client[c]
  <2> DEFINE settling == [Close(r) EXCEPT !.task = "settling", !.cancel = FALSE]
  <2>1. /\ settling \in ClientType /\ settling.task = "settling" /\ settling.code = r.code
        /\ settling.twice = r.twice /\ settling.upstream = r.upstream
    BY <1>0 DEF Close, ClientType
  <2>2. CASE r.task = "busy" /\ r.code = "done" /\ Update(c, settling)
    <3>1. Moved(c, settling)
      BY <1>0, <2>1, <2>2 DEF Update, Early, Tidy, Later, Moved
    <3> QED  BY <3>1
  <2>3. CASE /\ r.task = "busy"
             /\ Update(c, [r EXCEPT !.task = "cancelling", !.cancel = FALSE,
                                    !.stop = @ \/ r.code # "done"])
    <3> DEFINE q == [r EXCEPT !.task = "cancelling", !.cancel = FALSE,
                              !.stop = @ \/ r.code # "done"]
    <3>1. (r.stop \/ r.code # "done") \in BOOLEAN
      BY <1>0 DEF ClientType
    <3>2. /\ q \in ClientType /\ q.task = "cancelling" /\ q.code = r.code
          /\ q.twice = r.twice /\ q.upstream = r.upstream
      BY <1>0, <3>1 DEF ClientType
    <3>3. mode = "server"
      BY <1>10 DEF RunResumes
    <3> HIDE DEF q
    <3>4. Moved(c, q)
      BY <1>0, <2>3, <3>2, <3>3 DEF q, Update, Early, Tidy, Later, Moved
    <3> QED  BY <3>4
  <2>4. CASE r.task = "cancelling" /\ r.code = "done" /\ Update(c, Over(r))
    <3>1. Moved(c, Over(r))
      BY <1>0, <2>4, Leaves DEF Update, Early, Tidy, Later, Moved
    <3> QED  BY <3>1
  <2>5. CASE r.task = "cancelling" /\ Update(c, [settling EXCEPT !.twice = TRUE])
    <3> DEFINE q == [settling EXCEPT !.twice = TRUE]
    <3>1. /\ q \in ClientType /\ q.task = "settling" /\ q.code = r.code
          /\ q.twice = TRUE /\ q.upstream = r.upstream
      <4> HIDE DEF settling
      <4> QED  BY <2>1 DEF ClientType
    <3>2. mode = "server"
      BY <1>10 DEF RunResumes
    <3> HIDE DEF q
    <3>3. Moved(c, q)
      BY <1>0, <2>5, <3>1, <3>2 DEF q, Update, Early, Tidy, Later, Moved
    <3> QED  BY <3>3
  <2>6. CASE r.task = "settling" /\ Update(c, Leaving(r))
    <3>1. mode = "server"
      BY <1>10 DEF RunResumes
    <3>2. Moved(c, Leaving(r))
      BY <1>0, <2>6, <3>1, Leaves DEF Update, Early, Tidy, Later, Moved
    <3> QED  BY <3>2
  <2> QED  BY <1>10, <2>2, <2>3, <2>4, <2>5, <2>6 DEF RunResumes
<1>11. CASE Left(c)
  <2>1. Moved(c, Over(client[c]))
    BY <1>0, <1>11, Leaves DEF Left, At, Update, Early, Tidy, Later, Moved
  <2> QED  BY <2>1
<1>12. CASE Cancelled(c)
  <2>1. CASE /\ client[c].task \in {"queued", "connect", "upgrade", "settling", "leaving"}
             /\ Update(c, Over(client[c]))
    <3>1. Moved(c, Over(client[c]))
      BY <1>0, <2>1, Leaves DEF Update, Early, Tidy, Later, Moved
    <3> QED  BY <3>1
  <2>2. CASE /\ mode = "forward" /\ client[c].code = "running"
             /\ Update(c, Over(CodeDone(client[c])))
    <3>1. CodeDone(client[c]) \in ClientType
      BY <1>0, Leaves
    <3>2. Moved(c, Over(CodeDone(client[c])))
      BY <1>0, <2>2, <3>1, Leaves DEF Update, Early, Tidy, Later, Moved
    <3> QED  BY <3>2
  <2> QED  BY <1>12, <2>1, <2>2 DEF Cancelled
<1> QED
  BY <1>1, <1>2, <1>3, <1>4, <1>5, <1>6, <1>7, <1>8, <1>9, <1>10, <1>11, <1>12
  DEF ClientStep, Task

(* Such a step keeps the invariant, whatever calls of aclose() run.              *)
LEMMA ClientStepInv ==
  ASSUME IInv, NEW c \in Clients, ClientStep(c)
  PROVE  IInv'
<1>1. UNCHANGED <<mode, closer>>
  BY ClientMoves DEF others
<1>2. PICK r : Moved(c, r)
  BY ClientMoves
<1>3. Types' /\ \A d \in Clients : Tidy(client[d])'
  BY <1>1, <1>2 DEF IInv, Types, Moved, Tidy
<1>4. \A d \in Clients : /\ Later(client[d], client'[d])
                         /\ client[d].code = "calling" => client'[d].code = "calling"
  BY <1>2 DEF IInv, Types, Later, Moved
<1>5. ASSUME NEW a \in Callers PROVE Knows(a)' /\ CallerInside(a)'
  <2>1. Knows(a)'
    BY <1>1, <1>4, StillKnows DEF IInv
  <2>2. CallerInside(a)'
    BY <1>1, <1>4 DEF IInv, CallerInside, Active
  <2> QED  BY <2>1, <2>2
<1> QED  BY <1>3, <1>5 DEF IInv

(* One call of aclose() moves, and the clients with it: what has to be shown is  *)
(* the types, that every client stays tidy and goes on as it must, that the code *)
(* of every other caller stays inside, and what the moving call itself knows.    *)
LEMMA CloserStepInv ==
  ASSUME IInv, NEW a \in Callers, Types', UNCHANGED mode,
         \A b \in Callers \ {a} : closer'[b] = closer[b],
         \A c \in Clients : /\ Kept(client[c], client'[c])
                            /\ c # a => client'[c].code = client[c].code,
         Knows(a)', CallerInside(a)'
  PROVE  IInv'
<1>1. \A c \in Clients : Tidy(client'[c]) /\ Later(client[c], client'[c])
  BY KeptTidy DEF IInv, Types
<1>2. \A c \in Clients : Tidy(client[c])'
  BY <1>1 DEF Tidy
<1>3. ASSUME NEW b \in Callers \ {a} PROVE Knows(b)' /\ CallerInside(b)'
  <2>1. Knows(b)'
    BY <1>1, StillKnows DEF IInv
  <2>2. CallerInside(b)'
    BY DEF IInv, CallerInside, Active
  <2> QED  BY <2>1, <2>2
<1> QED  BY <1>2, <1>3 DEF IInv

LEMMA SelfKept ==
  ASSUME NEW r \in ClientType
  PROVE  /\ Kept(r, r)
         /\ \A b \in BOOLEAN : /\ Kept(r, [r EXCEPT !.cancel = b])
                               /\ Kept(r, [r EXCEPT !.stop = b])
         /\ Kept(r, Abort(r)) /\ Kept(r, Close(r))
         /\ Kept(r, [r EXCEPT !.tracked = FALSE, !.listed = {}])
BY DEF Kept, Abort, Close, ClientType

\* The code of a caller comes back from aclose(), as it went in.
LEMMA ResumedKept ==
  ASSUME NEW r \in ClientType, NEW b \in BOOLEAN, r.code = "calling"
  PROVE  Kept(r, Resumed(r, b))
<1>1. /\ (r.cancel \/ (b /\ mode = "forward")) \in BOOLEAN
      /\ (r.stop \/ (b /\ mode = "server")) \in BOOLEAN
  BY DEF ClientType
<1> QED  BY <1>1 DEF Kept, Resumed, ClientType

(* A cancellation is delivered: no client is moved by it.                        *)
LEMMA ConsumedKept ==
  ASSUME IInv, NEW a \in Callers
  PROVE  /\ Consumed(a) \in [Clients -> ClientType]
         /\ \A c \in Clients : /\ Kept(client[c], Consumed(a)[c])
                               /\ Consumed(a)[c].code = client[c].code
<1>1. client \in [Clients -> ClientType]
  BY DEF IInv, Types
<1>2. CASE a = Admin
  <2>1. Consumed(a) = client
    BY <1>2 DEF Consumed
  <2> QED  BY <1>1, <2>1, SelfKept
<1>3. CASE a # Admin
  <2> DEFINE q == IF mode = "forward" THEN [client[a] EXCEPT !.cancel = FALSE]
                  ELSE [client[a] EXCEPT !.stop = FALSE]
  <2>1. a \in Clients
    BY <1>3, ProxyAssumption DEF Callers
  <2>2. Consumed(a) = [client EXCEPT ![a] = q]
    BY <1>3, <1>1, <2>1 DEF Consumed
  <2>3. Kept(client[a], q) /\ q \in ClientType /\ q.code = client[a].code
    <3>1. client[a] \in ClientType
      BY <1>1, <2>1
    <3>2. /\ Kept(client[a], [client[a] EXCEPT !.cancel = FALSE])
          /\ Kept(client[a], [client[a] EXCEPT !.stop = FALSE])
      BY <3>1, SelfKept
    <3>3. q.code = client[a].code
      BY <3>1 DEF ClientType
    <3> QED  BY <3>2, <3>3 DEF Kept
  <2> HIDE DEF q
  <2> QED  BY <1>1, <2>1, <2>2, <2>3, SelfKept
<1> QED  BY <1>2, <1>3

(* Every step of a call of aclose() keeps the invariant.                         *)
LEMMA AcloseStepInv ==
  ASSUME IInv, NEW a \in Callers, Begin(a) \/ Shutdown(a) \/ Cancellation(a)
  PROVE  IInv'
<1>0. /\ Types /\ Knows(a) /\ CallerInside(a) /\ closer[a] \in CloserType
      /\ \A c \in Clients : client[c] \in ClientType /\ Tidy(client[c])
  BY DEF IInv, Types
<1> DEFINE Moves(r) == r \in CloserType /\ Closer(a, r)
<1>1. ASSUME NEW r, Moves(r)
      PROVE  /\ closer' \in [Callers -> CloserType] /\ closer'[a] = r
             /\ \A b \in Callers \ {a} : closer'[b] = closer[b]
  BY <1>0, <1>1 DEF Closer, Types
<1>2. \A c \in Clients : Kept(client[c], client[c])
  BY <1>0, SelfKept
<1>3. a \in Clients \/ (a = Admin /\ a \notin Clients)
  BY ProxyAssumption DEF Callers
<1>4. UNCHANGED mode
  BY DEF Begin, Shutdown, Cancellation, Drained, GraceEnds, Gathered, WritersClosed, Return,
         Interrupted, Unwinds, Abandoned
<1>5. CASE Begin(a)
  <2>1. Moves([NewCloser EXCEPT !.pc = "drain"])
    BY <1>5 DEF Begin, NewCloser, CloserType
  <2>2. ASSUME NEW c \in Clients
        PROVE  LET q == StopServed(a)[c]
               IN Kept(client[c], q) /\ q.code = client[c].code /\ q \in ClientType
    <3> DEFINE q == StopServed(a)[c]
    <3>1. \/ q = client[c] \/ q = Abort(client[c])
          \/ q = [client[c] EXCEPT !.stop = TRUE]
      BY DEF StopServed
    <3>2. Kept(client[c], q)
      BY <1>0, <3>1, SelfKept
    <3>3. q.code = client[c].code
      BY <1>0, <3>1 DEF Abort, ClientType
    <3> QED  BY <3>2, <3>3 DEF Kept
  <2>3. StopServed(a) \in [Clients -> ClientType]
    BY <2>2 DEF StopServed
  <2>4. /\ client' \in [Clients -> ClientType]
        /\ \A c \in Clients : /\ Kept(client[c], client'[c])
                              /\ c # a => client'[c].code = client[c].code
                              /\ c = a => client'[c].code = "calling"
    <3>1. CASE a = Admin
      <4>1. client' = StopServed(a) /\ a \notin Clients
        BY <1>3, <1>5, <3>1, ProxyAssumption DEF Begin
      <4> QED  BY <2>2, <2>3, <4>1
    <3>2. CASE a # Admin
      <4>1. /\ client' = [StopServed(a) EXCEPT ![a].code = "calling"]
            /\ a \in Clients /\ client[a].code = "running"
        BY <1>3, <1>5, <3>2 DEF Begin, Runs
      <4> DEFINE q == [StopServed(a)[a] EXCEPT !.code = "calling"]
      <4>2. q \in ClientType /\ q.code = "calling" /\ Kept(client[a], q)
        BY <2>2, <4>1 DEF ClientType, Kept
      <4>3. client' = [StopServed(a) EXCEPT ![a] = q]
        BY <2>3, <4>1
      <4> HIDE DEF q
      <4> QED  BY <2>2, <2>3, <4>1, <4>2, <4>3
    <3> QED  BY <3>1, <3>2
  <2>5. closer'[a].pc = "drain" /\ closer'[a].before = {}
    BY <1>1, <2>1 DEF NewCloser
  <2>6. Knows(a)'
    BY <2>5 DEF Knows
  <2>7. CallerInside(a)'
    BY <2>4 DEF CallerInside
  <2> QED  BY <1>0, <1>1, <1>4, <2>1, <2>4, <2>6, <2>7, CloserStepInv DEF Types
<1>6. CASE Drained(a)
  <2> DEFINE r == [closer[a] EXCEPT !.pc = "grace", !.before = Tasks, !.waits = Tasks \ Excluded(a)]
  <2>0. r.pc = "grace" /\ r.before = Tasks /\ r.waits = Tasks \ {a}
    BY <1>0 DEF CloserType, Excluded
  <2>1. Moves(r)
    BY <1>0, <1>6 DEF Drained, Tasks, CloserType
  <2> HIDE DEF r
  <2>2. closer'[a].pc = "grace" /\ closer'[a].before = Tasks /\ closer'[a].waits = Tasks \ {a}
    BY <1>1, <2>0, <2>1
  <2>3. Knows(a)'
    BY <2>2 DEF Knows
  <2>4. CallerInside(a)' /\ UNCHANGED client
    BY <1>0, <1>6 DEF Drained, CallerInside, Active, Ended
  <2> QED  BY <1>0, <1>1, <1>2, <1>4, <2>1, <2>3, <2>4, CloserStepInv DEF Types
<1>7. CASE Gathered(a)
  <2>1. /\ Moves([closer[a] EXCEPT !.pc = "writers"]) /\ UNCHANGED client
        /\ closer[a].pc = "gather" /\ Pending(a) = {}
    BY <1>0, <1>7 DEF Gathered, CloserType
  <2>2. closer'[a].pc = "writers" /\ closer'[a].before = closer[a].before
    BY <1>0, <1>1, <2>1 DEF CloserType
  <2>3. Knows(a)' /\ CallerInside(a)'
    BY <1>0, <2>1, <2>2 DEF Knows, CallerInside, Active, Pending, Ended
  <2> QED  BY <1>0, <1>1, <1>2, <1>4, <2>1, <2>3, CloserStepInv DEF Types
<1>8. CASE GraceEnds(a)
  <2> DEFINE found == {w \in Clients \X {"plain", "tls"} : w[2] \in client[w[1]].listed}
  <2> DEFINE r == [closer[a] EXCEPT !.pc = "gather", !.waits = Pending(a), !.writers = found]
  <2>0. r.pc = "gather" /\ r.before = closer[a].before /\ r.waits = Pending(a)
    BY <1>0 DEF CloserType
  <2>1. Moves(r) /\ closer[a].pc = "grace"
    BY <1>0, <1>8 DEF GraceEnds, Pending, CloserType
  <2> HIDE DEF r
  <2>2. /\ closer'[a].pc = "gather" /\ closer'[a].before = closer[a].before
        /\ closer'[a].waits = Pending(a)
    BY <1>1, <2>0, <2>1
  <2>3. ASSUME NEW c \in Clients
        PROVE  /\ client'[c] \in ClientType /\ Kept(client[c], client'[c])
               /\ client'[c].code = client[c].code
    <3> DEFINE closed == IF client[c].listed # {} THEN Close(client[c]) ELSE client[c]
    <3>1. closed \in ClientType /\ Kept(client[c], closed) /\ closed.code = client[c].code
      BY <1>0 DEF Close, ClientType, Kept
    <3>2. client'[c] = IF c \in Pending(a) THEN [closed EXCEPT !.cancel = TRUE] ELSE closed
      BY <1>8 DEF GraceEnds
    <3> HIDE DEF closed
    <3> QED  BY <3>1, <3>2 DEF ClientType, Kept
  <2>4. client' \in [Clients -> ClientType]
    BY <1>8, <2>3 DEF GraceEnds
  <2>5. Knows(a)'
    BY <1>0, <2>1, <2>2, <2>3 DEF Knows, Kept, Pending, CloserType
  <2>6. CallerInside(a)'
    BY <1>0, <2>1, <2>2, <2>3 DEF CallerInside, Active, Ended
  <2> QED  BY <1>0, <1>1, <1>4, <2>1, <2>3, <2>4, <2>5, <2>6, CloserStepInv DEF Types
<1>9. CASE WritersClosed(a)
  <2> DEFINE pending == {c \in Clients : client[c].upstream \in {"releasing", "aborted"}}
  <2> DEFINE r == [closer[a] EXCEPT !.pc = "upstreams", !.waits = pending]
  <2>0. r.pc = "upstreams" /\ r.before = closer[a].before /\ r.waits = pending
    BY <1>0 DEF CloserType
  <2>1. Moves(r) /\ closer[a].pc = "writers"
    BY <1>0, <1>9 DEF WritersClosed, CloserType
  <2> HIDE DEF r
  <2>2. /\ closer'[a].pc = "upstreams" /\ closer'[a].before = closer[a].before
        /\ closer'[a].waits = pending
    BY <1>1, <2>0, <2>1
  <2>3. /\ client' \in [Clients -> ClientType]
        /\ \A c \in Clients : /\ Kept(client[c], client'[c]) /\ client'[c].code = client[c].code
                              /\ client'[c].upstream = IF c \in pending THEN "aborted"
                                                       ELSE client[c].upstream
    BY <1>0, <1>9 DEF WritersClosed, ClientType, Kept
  <2>4. Knows(a)'
    BY <1>0, <2>1, <2>2, <2>3 DEF Knows, Gone, Kept, Tidy, CloserType, ClientType
  <2>5. CallerInside(a)'
    BY <1>0, <2>1, <2>2, <2>3 DEF CallerInside, Active, Ended
  <2> QED  BY <1>0, <1>1, <1>4, <2>1, <2>3, <2>4, <2>5, CloserStepInv DEF Types
<1>10. CASE Return(a)
  <2> DEFINE cleared == [c \in Clients |-> [client[c] EXCEPT !.tracked = FALSE, !.listed = {}]]
  <2> DEFINE r == [closer[a] EXCEPT !.pc = IF closer[a].cancelled THEN "raised" ELSE "returned"]
  <2>0. r.pc \in {"raised", "returned"} /\ r.before = closer[a].before
    BY <1>0 DEF CloserType
  <2>1. Moves(r) /\ closer[a].pc = "upstreams"
    BY <1>0, <1>10 DEF Return, CloserType, Ended
  <2> HIDE DEF r
  <2>2. /\ closer'[a].pc \in {"raised", "returned"} /\ closer'[a].before = closer[a].before
        /\ \A c \in closer[a].waits : client[c].upstream # "aborted"
    BY <1>1, <1>10, <2>0, <2>1 DEF Return
  <2>3. /\ cleared \in [Clients -> ClientType]
        /\ \A c \in Clients : /\ Kept(client[c], cleared[c]) /\ cleared[c].code = client[c].code
                              /\ cleared[c].upstream = client[c].upstream
    <3>1. ASSUME NEW c \in Clients
          PROVE  /\ Kept(client[c], cleared[c]) /\ cleared[c].code = client[c].code
                 /\ cleared[c].upstream = client[c].upstream
      <4>1. cleared[c] = [client[c] EXCEPT !.tracked = FALSE, !.listed = {}]
        OBVIOUS
      <4>2. Kept(client[c], cleared[c])
        BY <1>0, <4>1, SelfKept
      <4>3. cleared[c].code = client[c].code /\ cleared[c].upstream = client[c].upstream
        BY <1>0, <4>1 DEF ClientType
      <4> QED  BY <4>2, <4>3
    <3>2. cleared \in [Clients -> ClientType]
      BY <3>1 DEF Kept
    <3> QED  BY <3>1, <3>2
  <2>4. /\ client' \in [Clients -> ClientType]
        /\ \A c \in Clients : /\ Kept(client[c], client'[c])
                              /\ c # a => client'[c].code = client[c].code
                              /\ client'[c].upstream = client[c].upstream
    <3> HIDE DEF cleared
    <3>1. CASE a = Admin
      <4>1. client' = cleared
        BY <1>10, <3>1 DEF Return, cleared
      <4> QED  BY <2>3, <4>1
    <3>2. CASE a # Admin
      <4> DEFINE q == Resumed(cleared[a], closer[a].cancelled)
      <4>1. client' = [cleared EXCEPT ![a] = q] /\ a \in Clients
        BY <1>3, <1>10, <3>2 DEF Return, cleared
      <4>2. cleared[a].code = "calling" /\ closer[a].cancelled \in BOOLEAN
        BY <1>0, <2>1, <2>3, <4>1 DEF CallerInside, Active, CloserType, Ended
      <4>3. Kept(cleared[a], q) /\ q.upstream = cleared[a].upstream
        <5>1. Kept(cleared[a], q)
          BY <2>3, <4>1, <4>2, ResumedKept
        <5>2. q.upstream = cleared[a].upstream
          BY <2>3, <4>1 DEF Resumed, ClientType
        <5> QED  BY <5>1, <5>2
      <4> HIDE DEF q
      <4>4. Kept(client[a], q) /\ q.upstream = client[a].upstream /\ q \in ClientType
        BY <2>3, <4>1, <4>3 DEF Kept
      <4> QED  BY <2>3, <4>1, <4>4
    <3> QED  BY <3>1, <3>2
  <2>5. Knows(a)'
    BY <1>0, <2>1, <2>2, <2>4 DEF Knows, Gone, Kept, CloserType
  <2>6. CallerInside(a)'
    BY <2>2 DEF CallerInside, Active, Ended
  <2> QED  BY <1>0, <1>1, <1>4, <2>1, <2>4, <2>5, <2>6, CloserStepInv DEF Types
<1>11. CASE Interrupted(a)
  <2>1. Moves([closer[a] EXCEPT !.cancelled = TRUE]) /\ client' = Consumed(a)
    BY <1>0, <1>11 DEF Interrupted, CloserType
  <2>2. /\ closer'[a].pc = closer[a].pc /\ closer'[a].before = closer[a].before
        /\ closer'[a].waits = closer[a].waits
    BY <1>0, <1>1, <2>1 DEF CloserType
  <2>3. /\ client' \in [Clients -> ClientType]
        /\ \A c \in Clients : /\ Kept(client[c], client'[c]) /\ client'[c].code = client[c].code
                              /\ client'[c].upstream = client[c].upstream
    <3>1. /\ client' \in [Clients -> ClientType]
          /\ \A c \in Clients : /\ Kept(client[c], client'[c]) /\ client'[c].code = client[c].code
      BY <2>1, ConsumedKept
    <3>2. \A c \in Clients : client'[c].upstream = client[c].upstream
      BY <1>0, <2>1 DEF Consumed, Types, ClientType
    <3> QED  BY <3>1, <3>2
  <2>4. Knows(a)'
    BY <1>0, <2>2, <2>3 DEF Knows, Gone, Kept, CloserType
  <2>5. CallerInside(a)'
    BY <1>0, <2>2, <2>3 DEF CallerInside, Active
  <2> QED  BY <1>0, <1>1, <1>4, <2>1, <2>3, <2>4, <2>5, CloserStepInv DEF Types
<1>12. CASE Unwinds(a)
  <2>1. Moves([closer[a] EXCEPT !.pc = "unwinding"]) /\ closer[a].pc \in {"gather", "unwinding"}
    BY <1>0, <1>12 DEF Unwinds, CloserType
  <2>2. closer'[a].pc = "unwinding"
    BY <1>0, <1>1, <2>1 DEF CloserType
  <2>3. ASSUME NEW c \in Clients
        PROVE  /\ client'[c] \in ClientType /\ Kept(client[c], client'[c])
               /\ client'[c].code = client[c].code
    <3> DEFINE q == Consumed(a)[c]
    <3>1. q \in ClientType /\ Kept(client[c], q) /\ q.code = client[c].code
      BY ConsumedKept
    <3>2. client'[c] = IF c \in Pending(a) THEN [q EXCEPT !.cancel = TRUE] ELSE q
      BY <1>12 DEF Unwinds
    <3> HIDE DEF q
    <3> QED  BY <3>1, <3>2 DEF ClientType, Kept
  <2>4. client' \in [Clients -> ClientType]
    BY <1>12, <2>3 DEF Unwinds
  <2>5. Knows(a)'
    BY <2>2 DEF Knows
  <2>6. CallerInside(a)'
    BY <1>0, <2>1, <2>3 DEF CallerInside, Active, Ended
  <2> QED  BY <1>0, <1>1, <1>4, <2>1, <2>3, <2>4, <2>5, <2>6, CloserStepInv DEF Types
<1>13. CASE Abandoned(a)
  <2>1. Moves([closer[a] EXCEPT !.pc = "abandoned"]) /\ Active(a)
    BY <1>0, <1>13 DEF Abandoned, Delivered, Active, CloserType, Ended
  <2>2. closer'[a].pc = "abandoned"
    BY <1>0, <1>1, <2>1 DEF CloserType
  <2>3. /\ client' \in [Clients -> ClientType]
        /\ \A c \in Clients : /\ Kept(client[c], client'[c])
                              /\ c # a => client'[c].code = client[c].code
    <3>1. CASE a = Admin
      <4>1. client' = client
        BY <1>13, <3>1 DEF Abandoned
      <4> QED  BY <1>0, <1>2, <4>1 DEF Types
    <3>2. CASE a # Admin
      <4> DEFINE q == Resumed(client[a], TRUE)
      <4>1. client' = [client EXCEPT ![a] = q] /\ a \in Clients
        BY <1>3, <1>13, <3>2 DEF Abandoned
      <4>2. client[a].code = "calling"
        BY <1>0, <2>1, <4>1 DEF CallerInside
      <4>3. Kept(client[a], q) /\ q \in ClientType
        <5>1. Kept(client[a], q)
          BY <1>0, <4>1, <4>2, ResumedKept
        <5> QED  BY <5>1 DEF Kept
      <4> HIDE DEF q
      <4> QED  BY <1>0, <1>2, <4>1, <4>3 DEF Types
    <3> QED  BY <3>1, <3>2
  <2>4. Knows(a)'
    BY <2>2 DEF Knows
  <2>5. CallerInside(a)'
    BY <2>2 DEF CallerInside, Active, Ended
  <2> QED  BY <1>0, <1>1, <1>4, <2>1, <2>3, <2>4, <2>5, CloserStepInv DEF Types
<1> QED
  BY <1>5, <1>6, <1>7, <1>8, <1>9, <1>10, <1>11, <1>12, <1>13 DEF Shutdown, Cancellation

(* The invariant holds in every reachable state.                                 *)
LEMMA Invariance == Spec => []IInv
<1>1. Init => IInv
  <2> SUFFICES ASSUME Init PROVE IInv  OBVIOUS
  <2>1. Types
    BY DEF Init, Types, NewClient, NewCloser, ClientType, CloserType, Early
  <2>2. \A c \in Clients : Tidy(client[c])
    BY DEF Init, NewClient, Tidy
  <2>3. \A a \in Callers : Knows(a) /\ CallerInside(a)
    BY DEF Init, NewCloser, Knows, CallerInside, Active
  <2> QED  BY <2>1, <2>2, <2>3 DEF IInv
<1>2. IInv /\ [Next]_vars => IInv'
  <2> SUFFICES ASSUME IInv, [Next]_vars PROVE IInv'  OBVIOUS
  <2>1. CASE Start \/ UNCHANGED vars
    BY <2>1 DEF Start, vars, IInv, Types, Tidy, Knows, CallerInside, Active, Gone
  <2>2. ASSUME NEW a \in Callers, Begin(a) \/ Shutdown(a) \/ Cancellation(a) PROVE IInv'
    BY <2>2, AcloseStepInv
  <2>3. ASSUME NEW c \in Clients, ClientStep(c) PROVE IInv'
    BY <2>3, ClientStepInv
  <2> QED  BY <2>1, <2>2, <2>3 DEF Next, ClientStep
<1> QED  BY <1>1, <1>2, PTL DEF Spec
-----------------------------------------------------------------------------
(* Once a call of aclose() is over, the task of every client it found is over,   *)
(* with its relay or the loop that served it, its transport closed and its       *)
(* relay's upstream gone: for any number of clients, and also when several of    *)
(* them shut the proxy down at once.  Its own caller is the exception, a loop    *)
(* whose run() was cancelled twice, and a call that was itself cancelled twice   *)
(* (tlsproxy.py, aclose and _finish_close).                                      *)
THEOREM ProxyLeavesNothing == Spec => []NothingOutlivesProxy
<1>1. IInv => NothingOutlivesProxy
  BY DEF IInv, Types, Knows, Gone, Tidy, Live, NothingOutlivesProxy, CloserType
<1> QED  BY <1>1, Invariance, PTL
=============================================================================
