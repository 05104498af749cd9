------------------------------ MODULE TLSProxy ------------------------------
(* tlsproxy.py, AsyncTLSInterceptProxy: start(), the task of each client from    *)
(* CONNECT over the upgrade to a relay or to the test server, and aclose() with  *)
(* its grace period, called from outside, from clients' own code, or both.  What *)
(* a served conversation relays to belongs to the test server (TestServer).      *)
EXTENDS Integers, FiniteSets

CONSTANTS Clients,
          Inside,     \* the clients whose handler or transformer may call aclose()
          Admin,      \* the caller from outside
          MaxStarts   \* bound on start()

Callers == Inside \cup {Admin}

ASSUME ProxyAssumption == Inside \subseteq Clients /\ Admin \notin Clients /\ MaxStarts \in Nat

VARIABLES mode,     \* _default_mode: "forward" (relay) or "server" (hand to the test server)
          client,   \* by client: its task, its code, writers, transport and upstream
          listener, \* _listener: "down", "listening", "paused"
          closing,  \* _closing
          closer,   \* by caller: where its aclose() is
          starts

vars == <<mode, client, listener, closing, closer, starts>>

(* task: "none", "socket" (accepted, not attached), "queued", "connect",         *)
(* "upgrade", "busy" (relaying, or in the server's run()), "cancelling" (run()   *)
(* was cancelled and waits for its child), "settling" (run() waits for the       *)
(* transport), "leaving" (closes the active writer and waits), "over".           *)
(* code: the loop with the user's code, part of the task when it relays, run()'s *)
(* child when it is served: "none", "running", "calling" (inside aclose()),      *)
(* "done".  cancel, stop: the task, the child of run() is to be cancelled.       *)
(* twice: run() was cancelled again while cancelling.  listed: its writers in    *)
(* _client_writers.  tracked: its task is in _client_tasks.                      *)
NewClient == [task |-> "none", code |-> "none", cancel |-> FALSE, stop |-> FALSE, twice |-> FALSE,
              tracked |-> FALSE, listed |-> {}, upgraded |-> FALSE,
              transport |-> "none", upstream |-> "none"]
NewCloser == [pc |-> "idle", cancelled |-> FALSE, before |-> {}, waits |-> {}, writers |-> {}]

Init == /\ mode \in {"forward", "server"}
        /\ client = [c \in Clients |-> NewClient]
        /\ listener = "down" /\ closing = FALSE /\ starts = 0
        /\ closer = [a \in Callers |-> NewCloser]

Update(c, r) == client' = [client EXCEPT ![c] = r]
others == <<mode, listener, closing, closer, starts>>
-----------------------------------------------------------------------------
\* The listener and a client's task

(* Assumed: not while another call of aclose() still ends, it would clear both   *)
(* sets; nor after one gave up, whose clients would outlive their listener.      *)
Start ==
  /\ listener = "down" /\ starts < MaxStarts
  /\ \A a \in Callers : closer[a].pc \in {"idle", "returned", "raised"}
  /\ listener' = "listening" /\ closing' = FALSE /\ starts' = starts + 1
  /\ UNCHANGED <<mode, client, closer>>

Accept(c) ==
  /\ client[c].task = "none" /\ listener = "listening"
  /\ Update(c, [client[c] EXCEPT !.task = "socket", !.transport = "open"]) /\ UNCHANGED others

\* _client_connected()
Attach(c) ==
  /\ client[c].task = "socket"
  /\ Update(c, IF closing THEN [client[c] EXCEPT !.task = "over", !.transport = "closed"]
               ELSE [client[c] EXCEPT !.task = "queued", !.tracked = TRUE, !.listed = {"plain"}])
  /\ UNCHANGED others

Abort(r) == [r EXCEPT !.transport = "closed"]
Close(r) == [r EXCEPT !.transport = IF @ = "open" THEN "closing" ELSE @]
Leaving(r) == [Close(r) EXCEPT !.task = "leaving"]

\* The task is done: its finally and its done callback forget it.
Over(r) == [r EXCEPT !.task = "over", !.tracked = FALSE, !.listed = {}, !.transport = "closed"]

\* Where the task is, unless its next step is a cancellation
At(c, task) == client[c].task = task /\ ~client[c].cancel

TaskStarts(c) ==
  /\ At(c, "queued")
  /\ Update(c, [client[c] EXCEPT !.task = "connect"]) /\ UNCHANGED others

\* A refused target: the answer is sent and the plain writer closed.
Refuse(c) ==
  /\ At(c, "connect") /\ Update(c, Leaving(client[c])) /\ UNCHANGED others

\* start_tls() takes the transport from the plain writer.
Upgrade(c) ==
  /\ At(c, "connect")
  /\ Update(c, [client[c] EXCEPT !.task = "upgrade", !.upgraded = TRUE, !.listed = {}])
  /\ UNCHANGED others

HandshakeFails(c) ==
  /\ At(c, "upgrade") /\ Update(c, Over(client[c])) /\ UNCHANGED others

Upgraded(c) ==
  /\ At(c, "upgrade")
  /\ Update(c, [client[c] EXCEPT !.task = "busy", !.code = "running", !.listed = @ \cup {"tls"}])
  /\ UNCHANGED others

\* A cancellation is on its way to the code: of the task, or of run()'s child.
Struck(c) == IF mode = "forward" THEN client[c].cancel ELSE client[c].stop
Runs(c) == client[c].code = "running" /\ ~Struck(c)

\* The proxy's own relay connects its upstream, and releases it in a finally.
Relay(c) ==
  /\ mode = "forward" /\ Runs(c) /\ client[c].upstream = "none"
  /\ Update(c, [client[c] EXCEPT !.upstream = "open"]) /\ UNCHANGED others

Released(r) == [r EXCEPT !.upstream = IF @ = "open" THEN "releasing" ELSE @]

Release(c) ==
  /\ Runs(c) /\ client[c].upstream = "open"
  /\ Update(c, Released(client[c])) /\ UNCHANGED others

UpstreamCloses(c) ==
  /\ client[c].upstream \in {"releasing", "aborted"}
  /\ Update(c, [client[c] EXCEPT !.upstream = "closed"]) /\ UNCHANGED others

CodeDone(r) == [Released(r) EXCEPT !.code = "done"]

\* The relay loop ends by itself, and its task goes on to close the client.
RelayEnds(c) ==
  /\ mode = "forward" /\ Runs(c)
  /\ Update(c, Leaving(CodeDone(client[c]))) /\ UNCHANGED others

\* The served loop ends by itself, or unwinds, as long as its cleanup takes.
ServedEnds(c) ==
  /\ mode = "server" /\ client[c].code = "running"
  /\ Update(c, CodeDone(client[c])) /\ UNCHANGED others

(* run() resumes: its child is done, or run() is cancelled, the second time      *)
(* without waiting for the child; in the end it waits for the transport.         *)
RunResumes(c) ==
  LET r == client[c]
      settling == [Close(r) EXCEPT !.task = "settling", !.cancel = FALSE]
  IN /\ mode = "server" /\ UNCHANGED others
     /\ \/ /\ r.task = "busy" /\ ~r.cancel /\ r.code = "done"
           /\ Update(c, settling)
        \/ /\ r.task = "busy" /\ r.cancel
           /\ Update(c, [r EXCEPT !.task = "cancelling", !.cancel = FALSE,
                                  !.stop = @ \/ r.code # "done"])
        \/ /\ r.task = "cancelling" /\ ~r.cancel /\ r.code = "done"
           /\ Update(c, Over(r))
        \/ /\ r.task = "cancelling" /\ r.cancel
           /\ Update(c, [settling EXCEPT !.twice = TRUE])
        \/ /\ r.task = "settling" /\ ~r.cancel /\ r.transport = "closed"
           /\ Update(c, Leaving(r))

\* _close_and_wait() saw the active writer close.
Left(c) ==
  /\ At(c, "leaving") /\ client[c].transport = "closed"
  /\ Update(c, Over(client[c])) /\ UNCHANGED others

(* The task is cancelled anywhere else: the transport is aborted, whatever it    *)
(* waited for.  A relay unwinds, and its code may take its time.                 *)
Cancelled(c) ==
  /\ client[c].cancel /\ UNCHANGED others
  /\ \/ /\ client[c].task \in {"queued", "connect", "upgrade", "settling", "leaving"}
        /\ Update(c, Over(client[c]))
     \/ /\ mode = "forward" /\ client[c].code = "running"
        /\ Update(c, Over(CodeDone(client[c])))

\* The peer answers the TLS shutdown, or reads what is buffered.
TransportCloses(c) ==
  /\ client[c].transport = "closing"
  /\ Update(c, Abort(client[c])) /\ UNCHANGED others
-----------------------------------------------------------------------------
\* aclose()

Closer(a, r) == closer' = [closer EXCEPT ![a] = r]
Tasks == {c \in Clients : client[c].tracked}

(* close_http_connection() for each listed writer of a conversation the server   *)
(* knows, the caller's apart: its loop is interrupted, or its transport aborted. *)
StopServed(a) == [c \in Clients |->
  CASE \/ mode # "server" \/ "tls" \notin client[c].listed \/ c = a
       \/ client[c].task \notin {"busy", "cancelling", "settling"} -> client[c]
    [] client[c].code = "done" -> Abort(client[c])
    [] OTHER -> [client[c] EXCEPT !.stop = TRUE]]

Begin(a) ==
  /\ closer[a].pc = "idle" /\ listener # "down" /\ (a # Admin => Runs(a))
  /\ closing' = TRUE /\ listener' = "paused" /\ Closer(a, [NewCloser EXCEPT !.pc = "drain"])
  /\ client' = IF a = Admin THEN StopServed(a)
               ELSE [StopServed(a) EXCEPT ![a].code = "calling"]
  /\ UNCHANGED <<mode, starts>>

\* Mutant: current_task() is the loop of the conversation, not the client's task.
ExcludedNone(a) == {}
\* _CLIENT_TASK: the client's task on whose behalf aclose() runs
Excluded(a) == {a}

\* The accepted sockets are attached and their tasks begun (core.py:85-91 alike).
Drained(a) ==
  /\ closer[a].pc = "drain"
  /\ \A c \in Clients : client[c].task \notin {"socket", "queued"}
  /\ Closer(a, [closer[a] EXCEPT !.pc = "grace", !.before = Tasks, !.waits = Tasks \ Excluded(a)])
  /\ UNCHANGED <<mode, client, listener, closing, starts>>

\* Those of a call's tasks that are not over
Pending(a) == {c \in closer[a].waits : client[c].task # "over"}

\* The tasks have ended, or a second has passed: close, then cancel.
GraceEnds(a) ==
  LET closed(c) == IF client[c].listed # {} THEN Close(client[c]) ELSE client[c]
  IN /\ closer[a].pc = "grace"
     /\ client' = [c \in Clients |-> IF c \in Pending(a) THEN [closed(c) EXCEPT !.cancel = TRUE]
                                     ELSE closed(c)]
     /\ Closer(a, [closer[a] EXCEPT !.pc = "gather", !.waits = Pending(a), !.writers =
                     {w \in Clients \X {"plain", "tls"} : w[2] \in client[w[1]].listed}])
     /\ UNCHANGED <<mode, listener, closing, starts>>

\* Mutant: the cancelled tasks are not waited for.
GatheredUnwaited(a) ==
  /\ closer[a].pc = "gather" /\ Closer(a, [closer[a] EXCEPT !.pc = "writers"])
  /\ UNCHANGED <<mode, client, listener, closing, starts>>
Gathered(a) ==
  /\ closer[a].pc = "gather" /\ Pending(a) = {}
  /\ Closer(a, [closer[a] EXCEPT !.pc = "writers"])
  /\ UNCHANGED <<mode, client, listener, closing, starts>>

(* wait_closed() of each writer; a plain one whose transport was upgraded never  *)
(* sees it close.  Then the pending closes of the proxy's own relays are aborted.*)
WritersClosed(a) ==
  LET pending == {c \in Clients : client[c].upstream \in {"releasing", "aborted"}}
  IN /\ closer[a].pc = "writers"
     /\ \A w \in closer[a].writers : /\ client[w[1]].transport = "closed"
                                     /\ w[2] = "plain" => ~client[w[1]].upgraded
     /\ client' = [c \in Clients |-> IF c \in pending THEN [client[c] EXCEPT !.upstream = "aborted"]
                                     ELSE client[c]]
     /\ Closer(a, [closer[a] EXCEPT !.pc = "upstreams", !.waits = pending])
     /\ UNCHANGED <<mode, listener, closing, starts>>

\* The code goes on after aclose(); one that was cancelled meanwhile unwinds.
Resumed(r, struck) ==
  [r EXCEPT !.code = "running", !.cancel = @ \/ (struck /\ mode = "forward"),
            !.stop = @ \/ (struck /\ mode = "server")]

(* abort_pending_closes() and listener.wait_closed() are over: both sets are     *)
(* cleared, the listener is down, and the caller goes on.                        *)
Return(a) ==
  LET cleared == [c \in Clients |-> [client[c] EXCEPT !.tracked = FALSE, !.listed = {}]]
  IN /\ closer[a].pc = "upstreams"
     /\ \A c \in closer[a].waits : client[c].upstream # "aborted"
     /\ \A c \in Clients : client[c].transport \in {"none", "closed"}
     /\ client' = IF a = Admin THEN cleared
                  ELSE [cleared EXCEPT ![a] = Resumed(cleared[a], closer[a].cancelled)]
     /\ Closer(a, [closer[a] EXCEPT !.pc = IF closer[a].cancelled THEN "raised" ELSE "returned"])
     /\ listener' = "down" /\ closing' = FALSE /\ UNCHANGED <<mode, starts>>

Ended == {"returned", "raised", "abandoned"}
\* A cancellation reaches the task inside aclose().  Bound: the outside's only once.
Delivered(a) == /\ closer[a].pc \notin Ended \cup {"idle"}
                /\ IF a = Admin THEN ~closer[a].cancelled ELSE Struck(a)
Consumed(a) == IF a = Admin THEN client
               ELSE [client EXCEPT ![a] = IF mode = "forward" THEN [@ EXCEPT !.cancel = FALSE]
                                          ELSE [@ EXCEPT !.stop = FALSE]]

\* The first one: the shutdown is shielded from it and waited for.
Interrupted(a) ==
  /\ Delivered(a) /\ ~closer[a].cancelled
  /\ Closer(a, [closer[a] EXCEPT !.cancelled = TRUE]) /\ client' = Consumed(a)
  /\ UNCHANGED <<mode, listener, closing, starts>>

(* A second one cancels the shutdown itself: a gather cancels its tasks once     *)
(* more and waits for them; any other wait ends, and aclose() with it.           *)
Unwinds(a) ==
  /\ Delivered(a) /\ closer[a].cancelled /\ closer[a].pc \in {"gather", "unwinding"}
  /\ client' = [c \in Clients |-> IF c \in Pending(a) THEN [Consumed(a)[c] EXCEPT !.cancel = TRUE]
                                  ELSE Consumed(a)[c]]
  /\ Closer(a, [closer[a] EXCEPT !.pc = "unwinding"])
  /\ UNCHANGED <<mode, listener, closing, starts>>

Abandoned(a) ==
  /\ \/ /\ Delivered(a) /\ closer[a].cancelled /\ closer[a].pc \notin {"gather", "unwinding"}
     \/ closer[a].pc = "unwinding" /\ Pending(a) = {}
  /\ client' = IF a = Admin THEN client ELSE [client EXCEPT ![a] = Resumed(client[a], TRUE)]
  /\ Closer(a, [closer[a] EXCEPT !.pc = "abandoned"])
  /\ listener' = "down" /\ closing' = FALSE /\ UNCHANGED <<mode, starts>>
-----------------------------------------------------------------------------
\* What the loop runs whatever the peers do
Task(c) == Attach(c) \/ TaskStarts(c) \/ (client[c].stop /\ ServedEnds(c)) \/ RunResumes(c)
           \/ Left(c) \/ Cancelled(c) \/ (client[c].upstream = "aborted" /\ UpstreamCloses(c))
Shutdown(a) == Drained(a) \/ GraceEnds(a) \/ Gathered(a) \/ WritersClosed(a) \/ Return(a)
Cancellation(a) == Interrupted(a) \/ Unwinds(a) \/ Abandoned(a)

Next == \/ Start \/ \E a \in Callers : Begin(a) \/ Shutdown(a) \/ Cancellation(a)
        \/ \E c \in Clients : \/ Accept(c) \/ Refuse(c) \/ Upgrade(c) \/ HandshakeFails(c)
                              \/ Upgraded(c) \/ Relay(c) \/ Release(c) \/ UpstreamCloses(c)
                              \/ RelayEnds(c) \/ ServedEnds(c) \/ Task(c) \/ TransportCloses(c)

Spec == Init /\ [][Next]_vars

(* The loop runs what is ready, delivers a cancellation of a task that waits,    *)
(* and its timer expires; peers, users' handlers and upstreams owe nothing.      *)
FairSpec == Spec /\ \A c \in Clients : WF_vars(Task(c))
                 /\ \A a \in Callers : /\ WF_vars(Shutdown(a))
                                       /\ a # Admin => WF_vars(Cancellation(a))
-----------------------------------------------------------------------------
Live(c) == client[c].upstream \in {"open", "releasing", "aborted"}

(* Nothing outlives the proxy: once aclose() is over, the task of every client   *)
(* it found, its caller's apart, is over, with its relay or the loop that served *)
(* it, its transport closed and its relay's upstream gone.  The exceptions: a    *)
(* run() that was cancelled twice leaves its loop behind (connection.py:567), an *)
(* aclose() that was cancelled twice promises nothing (tlsproxy.py:350-394,      *)
(* forward.py:326-342).                                                          *)
NothingOutlivesProxy == \A a \in Callers, c \in Clients :
  closer[a].pc \in {"returned", "raised"} /\ c \in closer[a].before \ {a} =>
    /\ client[c].task = "over" /\ client[c].transport = "closed" /\ ~Live(c)
    /\ client[c].code \in {"none", "done"} \/ client[c].twice

(* aclose() ends, without a peer's help and from anywhere: it waits neither for  *)
(* the task it runs on behalf of nor for a writer that lost its transport        *)
(* (tlsproxy.py:345-394, 437-440).  Three waits may last, and are the exceptions:*)
(* for the transport of a client whose code is inside aclose(), and of a run()   *)
(* cancelled twice, which are closed but not aborted; and two clients whose code *)
(* is inside aclose() wait for each other, each shielded from the cancellation   *)
(* by the other (tlsproxy.py:347-351, 377-380).                                  *)
WaitsForPeer == \E c \in Clients :
  client[c].transport = "closing" /\ (client[c].twice \/ client[c].code = "calling")
Gathers(a) == closer[a].pc \in {"gather", "unwinding"}
WaitForEachOther == \E c, d \in Inside :
  c # d /\ Gathers(c) /\ Gathers(d) /\ c \in closer[d].waits /\ d \in closer[c].waits
ProxyCloseEnds == []<>~(WaitsForPeer \/ WaitForEachOther) =>
  \A a \in Callers : closer[a].pc # "idle" ~> closer[a].pc \in Ended
=============================================================================
