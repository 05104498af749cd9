----------------------------- MODULE TestServer -----------------------------
(* server/core.py, AsyncHTTPTestServer: start() and aclose() around connections  *)
(* that are accepted (a task of the server runs them) or handed in (a task of    *)
(* their owner does), relays and the upstreams they release (forward.py).        *)
(* aclose() may be called from outside, from inside a handler, or both at once.  *)
EXTENDS Integers, FiniteSets

CONSTANTS Accepted, Handed, \* the connections, by who runs them
          Admin,            \* the caller of aclose() from outside
          Handlers,         \* the connections whose handler may call it, too
          Relaying,         \* the connections whose requests are forwarded
          Crowds,           \* bound: sets of connections that come in one run
          MaxStarts         \* bound on start()

Conns == Accepted \cup Handed
Callers == Handlers \cup {Admin}

ASSUME ServerAssumption == /\ Accepted \cap Handed = {} /\ Admin \notin Conns
                           /\ Handlers \subseteq Conns /\ Crowds \subseteq SUBSET Conns
                           /\ MaxStarts \in Nat

VARIABLES conn,     \* by connection: its table entry, tasks, transport and upstream
          server,   \* _server: "down", "listening", "paused"
          closing,  \* _closing
          closer,   \* by caller: where its aclose() is and what it waits for
          starts

vars == <<conn, server, closing, closer, starts>>

(* run: "none", "queued" (task created), "waiting" for the child, "cancelling"   *)
(* (waits for it after a cancellation), "finalizing" (waits for the transport),  *)
(* "over".  child: "none", "new", "serving", "calling" (its handler is inside    *)
(* aclose()), "done".  twice: run() was cancelled again while cancelling.  of,   *)
(* here: the start whose listener accepted it; in closer: whose it closes; 0 for *)
(* none.                                                                         *)
NewConn == [of |-> 0, table |-> "absent", run |-> "none", child |-> "none", cancelRun |-> FALSE,
            cancelChild |-> FALSE, twice |-> FALSE, decided |-> FALSE, published |-> FALSE,
            transport |-> "none", upstream |-> "none"]
NewCloser == [pc |-> "idle", of |-> 0, cancelled |-> FALSE, before |-> {}, waits |-> {}]

Init == /\ \E crowd \in Crowds :
             conn = [c \in Conns |-> [NewConn EXCEPT !.table = IF c \in crowd THEN @ ELSE "gone"]]
        /\ server = "down" /\ closing = FALSE /\ starts = 0
        /\ closer = [a \in Callers |-> NewCloser]

Tracked == {c \in Conns : conn[c].table = "tracked"}                    \* _connections
ClientTasks == {c \in Accepted : conn[c].run \notin {"none", "over"}}   \* _client_tasks

Update(c, r) == conn' = [conn EXCEPT ![c] = r]
others == <<server, closing, closer, starts>>
-----------------------------------------------------------------------------
\* The listener and the connections

Start ==
  /\ server = "down" /\ starts < MaxStarts
  /\ server' = "listening" /\ closing' = FALSE /\ starts' = starts + 1
  /\ UNCHANGED <<conn, closer>>

\* The loop accepts a socket; its transport is attached some turns later.
Accept(c) ==
  /\ c \in Accepted /\ conn[c].table = "absent" /\ server = "listening"
  /\ Update(c, [conn[c] EXCEPT !.of = starts, !.table = "socket", !.transport = "open"])
  /\ UNCHANGED others

\* HTTPConnection.finalize(): publish once and close the transport
Finalized(r) == [r EXCEPT !.decided = TRUE, !.published = TRUE,
                          !.transport = IF @ = "open" THEN "closing" ELSE @]

\* _client_connected: refused when so late that aclose() has counted the tasks
Attach(c) ==
  /\ conn[c].table = "socket"
  /\ Update(c, IF closing
               THEN [Finalized(conn[c]) EXCEPT !.table = "gone", !.transport = "closed"]
               ELSE [conn[c] EXCEPT !.table = "tracked", !.run = "queued"])
  /\ UNCHANGED others

\* run() begins: a connection already shut down is only finalized.
Entered(r) == IF r.decided THEN [Finalized(r) EXCEPT !.run = "finalizing"]
              ELSE [r EXCEPT !.run = "waiting", !.child = "new"]

\* handle_http_connection() by the owner of the streams
HandOff(c) ==
  /\ c \in Handed /\ conn[c].table = "absent"
  /\ Update(c, Entered([conn[c] EXCEPT !.table = "tracked", !.transport = "open",
                                       !.decided = closing]))
  /\ UNCHANGED others

\* The task's first step; a task cancelled before it never enters run().
RunStarts(c) ==
  /\ conn[c].run = "queued"
  /\ Update(c, IF conn[c].cancelRun THEN [conn[c] EXCEPT !.run = "over"] ELSE Entered(conn[c]))
  /\ UNCHANGED others

ChildStarts(c) ==
  /\ conn[c].child = "new"
  /\ Update(c, IF conn[c].cancelChild THEN [conn[c] EXCEPT !.child = "done"]
               ELSE [conn[c] EXCEPT !.child = "serving"])
  /\ UNCHANGED others

\* A relay connects its upstream, and releases it in a finally.
Relay(c) ==
  /\ c \in Relaying /\ conn[c].upstream = "none"
  /\ conn[c].child = "serving" /\ ~conn[c].cancelChild
  /\ Update(c, [conn[c] EXCEPT !.upstream = "open"]) /\ UNCHANGED others

Released(r) == [r EXCEPT !.upstream = IF @ = "open" THEN "releasing" ELSE @]

Release(c) ==
  /\ conn[c].child = "serving" /\ conn[c].upstream = "open"
  /\ Update(c, Released(conn[c])) /\ UNCHANGED others

\* The upstream's peer answers the close, or the abort takes effect.
UpstreamCloses(c) ==
  /\ conn[c].upstream \in {"releasing", "aborted"}
  /\ Update(c, [conn[c] EXCEPT !.upstream = "closed"]) /\ UNCHANGED others

\* The loop ends by itself: the client, a policy or a decided close
ChildEnds(c) ==
  /\ conn[c].child = "serving" /\ conn[c].upstream # "open"
  /\ Update(c, [conn[c] EXCEPT !.child = "done", !.decided = TRUE]) /\ UNCHANGED others

\* A cancelled loop has unwound, however long its handler's cleanup took.
ChildUnwinds(c) ==
  /\ conn[c].child = "serving" /\ conn[c].cancelChild
  /\ Update(c, [Released(conn[c]) EXCEPT !.child = "done"]) /\ UNCHANGED others

\* run() resumes: the child is done, or run() itself is cancelled.
RunResumes(c) ==
  LET r == conn[c]
      published == [Finalized(r) EXCEPT !.run = "finalizing"]
      childCancelled == r.cancelChild \/ r.child # "done"
  IN /\ \/ /\ r.run = "waiting" /\ r.child = "done" /\ ~r.cancelRun
           /\ Update(c, published)
        \/ /\ r.run = "waiting" /\ r.cancelRun
           /\ Update(c, [r EXCEPT !.run = "cancelling", !.cancelRun = FALSE, !.decided = TRUE,
                                  !.cancelChild = childCancelled])
        \/ /\ r.run = "cancelling" /\ r.child = "done" /\ ~r.cancelRun
           /\ Update(c, [published EXCEPT !.transport = "closed"])
        \/ /\ r.run = "cancelling" /\ r.cancelRun
           /\ Update(c, [published EXCEPT !.cancelRun = FALSE, !.twice = TRUE])
        \/ /\ r.run = "finalizing" /\ (r.transport = "closed" \/ r.cancelRun)
           /\ Update(c, [r EXCEPT !.run = "over", !.table = "gone", !.transport = "closed"])
     /\ UNCHANGED others

\* The peer lets the transport close.
TransportCloses(c) ==
  /\ conn[c].transport = "closing"
  /\ Update(c, [conn[c] EXCEPT !.transport = "closed"]) /\ UNCHANGED others
-----------------------------------------------------------------------------
\* shutdown() of a connection, by a caller inside its loop or not
ShutDown(r, inside) ==
  LET decided == [r EXCEPT !.decided = TRUE]
  IN CASE inside \/ r.child = "none" -> decided
       [] ~inside /\ r.child = "done" -> [decided EXCEPT !.transport = "closed"]
       [] OTHER -> [decided EXCEPT !.cancelChild = TRUE]

\* close_http_connection(), by the owner of a handed-in connection
CloseHanded(c) ==
  /\ c \in Handed /\ conn[c].table = "tracked"
  /\ Update(c, ShutDown(conn[c], FALSE)) /\ UNCHANGED others

\* Each connection that is tracked; the calling handler's own is only decided.
ShutDownAll(a) == [c \in Conns |-> IF c \in Tracked THEN ShutDown(conn[c], c = a) ELSE conn[c]]

Closer(a, r) == closer' = [closer EXCEPT ![a] = r]
Running(c) == conn[c].child \in {"new", "serving", "calling"}
\* Mutant: the calling handler's loop is waited for, too.
OthersAndSelf(a) == {c \in Tracked : Running(c)}
Others(a) == {c \in Tracked \ {a} : Running(c)}

Calls(a) == closer[a].pc = "idle" /\ (a # Admin => conn[a].child = "serving")
Calling(a, table) == conn' = IF a = Admin THEN table ELSE [table EXCEPT ![a].child = "calling"]

\* aclose() is called with a listener: accepts are paused and drained first.
Begin(a) ==
  /\ Calls(a) /\ server # "down"
  /\ server' = "paused" /\ closing' = TRUE /\ UNCHANGED starts
  /\ Calling(a, conn) /\ Closer(a, [NewCloser EXCEPT !.pc = "drain", !.of = starts])

\* aclose() is called without one: connections handed in are shut down.
BeginWithout(a) ==
  /\ Calls(a) /\ server = "down"
  /\ Calling(a, ShutDownAll(a)) /\ UNCHANGED <<server, closing, starts>>
  /\ Closer(a, [NewCloser EXCEPT !.pc = "finish", !.before = Tracked, !.waits = Others(a)])

(* _drain_pending_accepts(): its turns outnumber those an accepted socket and    *)
(* then its task need to begin (core.py:85-91).                                  *)
Drained == \A c \in Accepted : conn[c].table # "socket" /\ conn[c].run # "queued"

\* server.close(), every connection shut down, every client task cancelled
CancelClients(a) ==
  LET tasks == ClientTasks \ {a}
  IN /\ closer[a].pc = "drain" /\ Drained
     /\ conn' = [c \in Conns |-> IF c \in tasks THEN [ShutDownAll(a)[c] EXCEPT !.cancelRun = TRUE]
                                 ELSE ShutDownAll(a)[c]]
     /\ Closer(a, [closer[a] EXCEPT !.pc = "gather", !.before = Tracked, !.waits = tasks])
     /\ UNCHANGED <<server, closing, starts>>

\* The finally: the server is down, and the owned client is closed first.
Finally(a, r) ==
  /\ Closer(a, [r EXCEPT !.pc = "client", !.waits = {}])
  /\ server' = IF r.of = starts THEN "down" ELSE server
  /\ closing' = FALSE /\ UNCHANGED starts

\* Mutant: the cancelled tasks are not waited for.
GatheredUnwaited(a) ==
  /\ closer[a].pc = "gather"
  /\ Closer(a, [closer[a] EXCEPT !.pc = "finish", !.waits = Others(a)])
  /\ UNCHANGED <<conn, server, closing, starts>>
\* gather(client_tasks), then the loops of handed-in connections
Gathered(a) ==
  /\ closer[a].pc = "gather" /\ closer[a].waits \cap ClientTasks = {}
  /\ Closer(a, [closer[a] EXCEPT !.pc = "finish", !.waits = Others(a)])
  /\ UNCHANGED <<conn, server, closing, starts>>

\* The gather was cancelled, and raises it once its tasks are over.
Unwound(a) ==
  /\ closer[a].pc = "unwinding" /\ closer[a].waits \cap ClientTasks = {}
  /\ Finally(a, closer[a]) /\ UNCHANGED conn

\* _wait_connections_finished(), then wait_closed() unless the caller is accepted
Finishing(a) ==
  /\ UNCHANGED conn
  /\ IF closer[a].of # 0 /\ a \in ClientTasks THEN Finally(a, closer[a])
     ELSE /\ Closer(a, [closer[a] EXCEPT !.pc = IF closer[a].of = 0 THEN "client"
                                               ELSE "wait_closed", !.waits = {}])
          /\ UNCHANGED <<server, closing, starts>>
\* Mutant: only the tasks the server started are waited for.
FinishedUnwaited(a) == closer[a].pc = "finish" /\ Finishing(a)
Finished(a) ==
  /\ closer[a].pc = "finish" /\ \A c \in closer[a].waits : ~Running(c)
  /\ Finishing(a)

WaitedClosed(a) ==
  /\ closer[a].pc = "wait_closed"
  /\ \A c \in Accepted : conn[c].of = closer[a].of => conn[c].transport = "closed"
  /\ Finally(a, closer[a]) /\ UNCHANGED conn

\* abort_pending_closes(): the closes pending once the owned client is closed
AbortUpstreams(a) ==
  LET pending == {c \in Conns : conn[c].upstream \in {"releasing", "aborted"}}
  IN /\ closer[a].pc = "client"
     /\ conn' = [c \in Conns |-> IF c \in pending THEN [conn[c] EXCEPT !.upstream = "aborted"]
                                 ELSE conn[c]]
     /\ Closer(a, [closer[a] EXCEPT !.pc = "upstreams", !.waits = pending])
     /\ UNCHANGED <<server, closing, starts>>

\* aclose() returns, or raises the cancellation it held; its handler goes on or unwinds.
Return(a) ==
  /\ closer[a].pc = "upstreams"
  /\ \A c \in closer[a].waits : conn[c].upstream # "aborted"
  /\ Closer(a, [closer[a] EXCEPT !.pc = IF closer[a].cancelled THEN "raised" ELSE "returned",
                              !.waits = {}])
  /\ IF a = Admin THEN UNCHANGED conn
     ELSE Update(a, [conn[a] EXCEPT !.child = "serving", !.cancelChild = @ \/ closer[a].cancelled])
  /\ UNCHANGED <<server, closing, starts>>

(* The task inside aclose() is cancelled: the drain goes on, once; a gather with *)
(* return_exceptions cancels what it waits for and goes on waiting; the other    *)
(* waits end, in the finally where there is one.                                 *)
Interrupted(a) ==
  LET r == [closer[a] EXCEPT !.cancelled = TRUE]
      delivered == IF a = Admin THEN conn ELSE [conn EXCEPT ![a].cancelChild = FALSE]
      cancelAlso == [c \in Conns |-> IF c \in r.waits \cap ClientTasks
                                    THEN [delivered[c] EXCEPT !.cancelRun = TRUE] ELSE delivered[c]]
  IN /\ IF a = Admin THEN ~closer[a].cancelled
        ELSE conn[a].child = "calling" /\ conn[a].cancelChild
     /\ \/ /\ r.pc \in {"client", "upstreams"} \/ (r.pc = "drain" /\ ~closer[a].cancelled)
           /\ conn' = delivered /\ Closer(a, r) /\ UNCHANGED <<server, closing, starts>>
        \/ /\ r.pc \in {"gather", "unwinding"}
           /\ conn' = cancelAlso /\ Closer(a, [r EXCEPT !.pc = "unwinding"])
           /\ UNCHANGED <<server, closing, starts>>
        \/ /\ \/ r.pc = "wait_closed" \/ (r.pc = "finish" /\ r.of # 0)
              \/ (r.pc = "drain" /\ closer[a].cancelled)
           /\ conn' = delivered /\ Finally(a, r)
        \/ /\ r.pc = "finish" /\ r.of = 0
           /\ Closer(a, [r EXCEPT !.pc = "raised", !.waits = {}])
           /\ conn' = IF a = Admin THEN conn ELSE [conn EXCEPT ![a].child = "serving"]
           /\ UNCHANGED <<server, closing, starts>>
-----------------------------------------------------------------------------
Loop(c) == RunStarts(c) \/ ChildStarts(c) \/ ChildUnwinds(c) \/ RunResumes(c)
           \/ (conn[c].upstream = "aborted" /\ UpstreamCloses(c))
Aclose(a) == CancelClients(a) \/ Gathered(a) \/ Unwound(a) \/ Finished(a) \/ WaitedClosed(a)
             \/ AbortUpstreams(a) \/ Return(a)

Next == \/ Start \/ \E a \in Callers : Begin(a) \/ BeginWithout(a) \/ Aclose(a) \/ Interrupted(a)
        \/ \E c \in Conns : \/ Accept(c) \/ Attach(c) \/ HandOff(c) \/ Loop(c) \/ Relay(c)
                            \/ Release(c) \/ UpstreamCloses(c) \/ ChildEnds(c)
                            \/ TransportCloses(c) \/ CloseHanded(c)

Spec == Init /\ [][Next]_vars

(* The event loop runs what is ready, sockets it accepted included.  Nothing is  *)
(* assumed of peers: no fairness for a transport or an upstream that closes.     *)
FairSpec == Spec /\ \A c \in Conns : WF_vars(Loop(c)) /\ WF_vars(Attach(c))
                 /\ \A a \in Callers : WF_vars(Aclose(a)) /\ (a # Admin => WF_vars(Interrupted(a)))
-----------------------------------------------------------------------------
Live(c) == conn[c].upstream \in {"open", "releasing", "aborted"}

(* No upstream outlives the server: once aclose() has returned, every connection *)
(* it found, its caller's apart, has let its upstream go; a run() that was       *)
(* cancelled twice is the exception (core.py:734-754).                           *)
NoUpstreamOutlivesServer == \A a \in Callers, c \in Conns :
  closer[a].pc = "returned" /\ c \in closer[a].before \ {a} /\ ~conn[c].twice => ~Live(c)

(* The same without the exception, as core.py:744-747 promises it: the release   *)
(* "must land before _close_upstreams() drains the pending closes, or the        *)
(* upstream transport outlives the server".                                      *)
EveryReleaseLands == \A a \in Callers, c \in Conns :
  closer[a].pc = "returned" /\ c \in closer[a].before \ {a} => ~Live(c)

(* No connection is forgotten: once aclose() has returned, each one it found,    *)
(* its caller's apart, has decided its close and is out of its loop, unless its  *)
(* run() was cancelled twice; and one the listener accepted has published its    *)
(* event, if the call closed a listener (core.py:654-667, 1014-1035).  The       *)
(* caller's own connection goes on until its handler's response is sent.         *)
NoConnectionForgotten == \A a \in Callers, c \in Conns :
  closer[a].pc = "returned" /\ c \in closer[a].before \ {a} =>
    /\ conn[c].decided
    /\ ~Running(c) \/ conn[c].twice
    /\ c \in Accepted /\ closer[a].of # 0 => conn[c].published /\ conn[c].run = "over"

(* aclose() ends, from wherever and however often it is called at once: it never *)
(* waits for the loop that runs it, nor for a peer, with two exceptions.  A run() *)
(* that was cancelled twice closes its transport without aborting it             *)
(* (core.py:756-767).  And a connection that joined after the call had shut down *)
(* those it found, by a start() or a hand-off after another call had cleared     *)
(* _closing, is waited for though nobody shut it down (core.py:700-721).         *)
WaitsForPeer(a) ==
  \/ \E c \in Conns : conn[c].twice /\ conn[c].transport = "closing"
  \/ \E c \in closer[a].waits \ closer[a].before : Running(c)
AcloseEnds == \A a \in Callers :
  []<>~WaitsForPeer(a) => (closer[a].pc # "idle" ~> closer[a].pc \in {"returned", "raised"})
=============================================================================
