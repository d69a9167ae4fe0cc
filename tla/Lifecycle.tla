------------------------------ MODULE Lifecycle ------------------------------
(***************************************************************************)
(* The process from its start to its end, and the event listener's connection *)
(* in it.  run opens the database, starts its loops, asks Protect for the       *)
(* cameras, starts the listener and serves; a signal cancels the context the     *)
(* loops and the listener share, a goroutine of run's then shuts the server       *)
(* down, and run returns as soon as ListenAndServe does.                          *)
(*                                                                         *)
(* Time matters to the listener only: the handshake, the backoff, and a dead         *)
(* connection it still reads from.  The listener sets no deadline and sends no pings:  *)
(* that such a connection breaks at all is the doing of the library and the kernel.   *)
(***************************************************************************)
EXTENDS Naturals, FiniteSets

CONSTANTS
  Loops,        \* goroutines started before Protect is asked for its cameras
  ProtectLoops, \* and after
  Requests,     \* HTTP requests
  MaxBackoff,   \* maxBackoff, in units of the first backoff
  Handshake,    \* HandshakeTimeout
  Keepalive,    \* within which TCP keepalive breaks a dead connection
  MaxConnections   \* bound on connections made

ASSUME LifecycleAssumption ==
  /\ Loops \cap ProtectLoops = {}
  /\ MaxBackoff \in Nat \ {0} /\ Handshake \in Nat /\ Keepalive \in Nat
  /\ MaxConnections \in Nat

VARIABLES
  main,        \* run: "starting", "listening", "serving", "closing", "returned", "exited"
  signalled,   \* is the context cancelled?
  db,          \* "open", "closed"
  shutdown,    \* its goroutine: "none", "waiting", "draining", "done"
  requests,    \* requests being handled
  loop,        \* each loop: "none", "running", "waiting", "ended"
  reachable,   \* can Protect be reached, and does it accept connections?
  listener,    \* "none", "dialing", "stalled", "reading", "deaf", "pausing", "ended"
  backoff,     \* Listen's backoff
  wait,        \* time left of the handshake, the pause, or a dead connection
  watchers,    \* goroutines that wait to close a connection
  away         \* how long Protect could be reached and was not listened to

httpVars  == << shutdown, requests >>
mainVars  == << main, signalled, db >>
listenVars == << listener, backoff, wait, watchers, away >>
vars == << mainVars, httpVars, loop, reachable, listenVars >>

Alive == main # "exited"

\* run up to the first camera refresh.
Init ==
  /\ main = "starting" /\ signalled = FALSE /\ db = "open"
  /\ shutdown = "none" /\ requests = {}
  /\ loop = [l \in Loops \cup ProtectLoops |-> IF l \in Loops THEN "running" ELSE "none"]
  /\ reachable \in BOOLEAN
  /\ listener = "none" /\ backoff = 1 /\ wait = 0 /\ watchers = 0 /\ away = 0

-----------------------------------------------------------------------------
(* run. *)

\* connectAndRead begins.
Dial == listener' = (IF reachable THEN "dialing" ELSE "stalled") /\ wait' = Handshake

\* The first camera refresh has been answered or has timed out: the rest is
\* started whether or not it succeeded.
StartRest ==
  /\ main = "starting"
  /\ main' = "listening" /\ shutdown' = "waiting"
  /\ loop' = [l \in DOMAIN loop |-> IF l \in ProtectLoops THEN "running" ELSE loop[l]]
  /\ Dial
  /\ UNCHANGED << signalled, db, requests, reachable, backoff, watchers, away >>

\* ListenAndServe; the port may be taken, and a server that has been shut down
\* does not start.
Listen ==
  /\ main = "listening"
  /\ \/ main' = "serving" /\ shutdown = "waiting"
     \/ main' = "closing"
  /\ UNCHANGED << signalled, db, httpVars, loop, reachable, listenVars >>

\* ListenAndServe returns once no request is being handled.
DrainedListenReturns ==
  /\ main = "serving" /\ shutdown \in {"draining", "done"} /\ requests = {}
  /\ main' = "closing"
  /\ UNCHANGED << signalled, db, httpVars, loop, reachable, listenVars >>

\* ListenAndServe returns when Shutdown begins, not when it ends.
ListenReturns ==
  /\ main = "serving" /\ shutdown \in {"draining", "done"}
  /\ main' = "closing"
  /\ UNCHANGED << signalled, db, httpVars, loop, reachable, listenVars >>

\* run's deferred calls: the signals are given back, the database is closed.
Return ==
  /\ main = "closing"
  /\ main' = "returned" /\ signalled' = TRUE /\ db' = "closed"
  /\ UNCHANGED << httpVars, loop, reachable, listenVars >>

\* main returns, or exits with an error.  Nothing waits for the goroutines.
Exit ==
  /\ main = "returned"
  /\ main' = "exited"
  /\ UNCHANGED << signalled, db, httpVars, loop, reachable, listenVars >>

Signal ==
  /\ Alive /\ ~signalled
  /\ signalled' = TRUE
  /\ UNCHANGED << main, db, httpVars, loop, reachable, listenVars >>

ShutdownBegins ==
  /\ Alive /\ shutdown = "waiting" /\ signalled
  /\ shutdown' = "draining"
  /\ UNCHANGED << mainVars, requests, loop, reachable, listenVars >>

\* The goroutine that drains the server also closes the database.
ShutdownCloses ==
  /\ Alive /\ shutdown = "draining"
  /\ shutdown' = "done" /\ db' = "closed"
  /\ UNCHANGED << main, signalled, requests, loop, reachable, listenVars >>

\* All requests are over, or ten seconds are.
ShutdownEnds ==
  /\ Alive /\ shutdown = "draining"
  /\ shutdown' = "done"
  /\ UNCHANGED << mainVars, requests, loop, reachable, listenVars >>

-----------------------------------------------------------------------------
(* Requests, and the loops of runPeriodically, Run and RunClassifier. *)

Accept(r) ==
  /\ main = "serving" /\ shutdown = "waiting" /\ r \notin requests
  /\ requests' = requests \cup {r}
  /\ UNCHANGED << mainVars, shutdown, loop, reachable, listenVars >>

Finish(r) ==
  /\ Alive /\ r \in requests
  /\ requests' = requests \ {r}
  /\ UNCHANGED << mainVars, shutdown, loop, reachable, listenVars >>

SetLoop(l, from, to) ==
  /\ Alive /\ loop[l] = from
  /\ loop' = [loop EXCEPT ![l] = to]
  /\ UNCHANGED << mainVars, httpVars, reachable, listenVars >>

Work(l)    == SetLoop(l, "running", "waiting")
Again(l)   == SetLoop(l, "waiting", "running")
EndLoop(l) == signalled /\ SetLoop(l, "waiting", "ended")

-----------------------------------------------------------------------------
(* Listen and connectAndRead. *)

listenerStep == Alive /\ UNCHANGED << mainVars, httpVars, loop, reachable >>

\* The goroutine that will close the connection outlives it.  A dial may meet a
\* console that has come back meanwhile.
Connected ==
  /\ listener \in {"dialing", "stalled"} /\ reachable /\ ~signalled
  /\ watchers < MaxConnections
  /\ listener' = "reading" /\ watchers' = watchers + 1
  /\ wait' = 0 /\ away' = 0
  /\ UNCHANGED backoff /\ listenerStep

\* The other end is gone, or has forgotten the connection, and has not said so:
\* ReadMessage waits on.
ConnectionDies ==
  /\ listener = "reading"
  /\ listener' = "deaf" /\ wait' = Keepalive
  /\ UNCHANGED << backoff, watchers, away >> /\ listenerStep

\* The dial fails or is cancelled, or reading fails: Protect closed the connection,
\* the kernel gave it up, or a watcher closed it.
Disconnected ==
  /\ \/ listener \in {"stalled", "reading", "deaf"}
     \/ listener = "dialing" /\ signalled
  /\ listener' = "pausing" /\ wait' = backoff
  /\ UNCHANGED << backoff, watchers, away >> /\ listenerStep

\* The backoff has no upper limit.
EndlessPauseEnds ==
  /\ listener = "pausing" /\ wait = 0
  /\ backoff' = 2 * backoff
  /\ Dial
  /\ UNCHANGED << watchers, away >> /\ listenerStep

\* The backoff is doubled after every connection, also one that worked.
PauseEnds ==
  /\ listener = "pausing" /\ wait = 0
  /\ backoff' = IF 2 * backoff > MaxBackoff THEN MaxBackoff ELSE 2 * backoff
  /\ Dial
  /\ UNCHANGED << watchers, away >> /\ listenerStep

EndListener ==
  /\ listener = "pausing" /\ signalled
  /\ listener' = "ended"
  /\ UNCHANGED << backoff, wait, watchers, away >> /\ listenerStep

\* A dial is stalled; a connection may live through it, or be dead (ConnectionDies).
ProtectGoes ==
  /\ Alive /\ reachable
  /\ reachable' = FALSE
  /\ listener' = IF listener = "dialing" THEN "stalled" ELSE listener
  /\ away' = 0
  /\ UNCHANGED << mainVars, httpVars, loop, backoff, wait, watchers >>

ProtectComes ==
  /\ Alive /\ ~reachable
  /\ reachable' = TRUE
  /\ UNCHANGED << mainVars, httpVars, loop, listenVars >>

\* Not listened to.
Waiting == listener \in {"dialing", "stalled", "deaf", "pausing"}

\* A second passes; not before what is due has happened, and a signal ends the
\* dial and the pause at once.
Tick ==
  /\ Waiting /\ wait > 0 /\ ~signalled
  /\ wait' = wait - 1
  /\ away' = IF reachable THEN away + 1 ELSE 0
  /\ UNCHANGED << listener, backoff, watchers >> /\ listenerStep

-----------------------------------------------------------------------------
Run == StartRest \/ Listen \/ ListenReturns \/ Return \/ Exit

Shutdown == ShutdownBegins \/ ShutdownEnds

Serve == \E r \in Requests : Accept(r) \/ Finish(r)

Periodic == \E l \in DOMAIN loop : Work(l) \/ Again(l) \/ EndLoop(l)

Listener == Connected \/ ConnectionDies \/ Disconnected \/ PauseEnds \/ EndListener

Next == Run \/ Signal \/ Shutdown \/ Serve \/ Periodic \/ Listener \/ ProtectGoes \/ ProtectComes \/ Tick

\* The camera request has a timeout; run and its shutdown goroutine go on.
\* Nothing is assumed of clients, loops and Protect.
Spec == Init /\ [][Next]_vars /\ WF_vars(Run) /\ WF_vars(ShutdownBegins)

-----------------------------------------------------------------------------
\* The variables keep their shape; the database is open until run has returned,
\* and the server is only drained after a signal and only served from after its
\* shutdown goroutine waits for one.
TypeOK ==
  /\ main \in {"starting", "listening", "serving", "closing", "returned", "exited"}
  /\ signalled \in BOOLEAN /\ reachable \in BOOLEAN
  /\ db = (IF main \in {"returned", "exited"} THEN "closed" ELSE "open")
  /\ shutdown \in {"none", "waiting", "draining", "done"}
  /\ shutdown = "none" <=> main = "starting"
  /\ shutdown \in {"draining", "done"} => signalled
  /\ requests \subseteq Requests
  /\ main \in {"starting", "listening"} => requests = {}
  /\ loop \in [Loops \cup ProtectLoops -> {"none", "running", "waiting", "ended"}]
  /\ listener \in {"none", "dialing", "stalled", "reading", "deaf", "pausing", "ended"}
  /\ backoff \in 1..MaxBackoff /\ wait \in Nat /\ away \in Nat
  /\ watchers \in 0..MaxConnections

\* A signal ends the process, whenever it comes, also before the server listens,
\* and however long requests, loops and Protect's answers take (run).
ExitsOnSignal == signalled ~> main = "exited"

\* Until a signal, events of a console that accepts connections are never missed for
\* longer than a dead connection stays undetected, or a dial begun before the console
\* came back lasts, and then the longest backoff and a handshake, however often the
\* console goes, comes, and drops connections with or without a word (Listen,
\* connectAndRead).  The time a dead connection is read from counts.
Unaware == IF Keepalive > Handshake THEN Keepalive ELSE Handshake

BackInTime == ~signalled => away <= Unaware + MaxBackoff + Handshake
=============================================================================
