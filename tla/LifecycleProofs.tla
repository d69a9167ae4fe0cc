--------------------------- MODULE LifecycleProofs ---------------------------
(***************************************************************************)
(* Proofs, for any loops, requests, backoffs and number of connections, of     *)
(* the shape of the process's state and of the listener's longest absence:      *)
(* see TypeOK and BackInTime in Lifecycle.                                    *)
(***************************************************************************)
EXTENDS Lifecycle, TLAPS

-----------------------------------------------------------------------------
(* The strengthening, by where the listener is: what it may have missed so far  *)
(* and may still wait add up to no more than what is left of the longest way     *)
(* from a dead connection, or a dial begun before Protect came back, to a dial    *)
(* that succeeds.  Before the listener is started nothing counts.                *)

Missed ==
  /\ ~reachable => away = 0
  /\ listener \in {"none", "reading"} => away = 0
  /\ listener = "stalled" => away + wait <= Handshake
  /\ listener = "deaf" => away + wait <= Keepalive
  /\ listener = "pausing" => away + wait <= Unaware + MaxBackoff
  /\ listener = "dialing" => away + wait <= Unaware + MaxBackoff + Handshake /\ wait <= Handshake
  /\ listener # "ended"
  /\ main = "starting" => listener = "none"

IInv == TypeOK /\ (~signalled => Missed)

\* The part of TypeOK that the listener's steps can disturb, and the rest.
ListenerOK ==
  /\ listener \in {"none", "dialing", "stalled", "reading", "deaf", "pausing", "ended"}
  /\ backoff \in 1..MaxBackoff /\ wait \in Nat /\ away \in Nat
  /\ watchers \in 0..MaxConnections

ProcessOK ==
  /\ main \in {"starting", "listening", "serving", "closing", "returned", "exited"}
  /\ db = (IF main \in {"returned", "exited"} THEN "closed" ELSE "open")
  /\ shutdown \in {"none", "waiting", "draining", "done"}
  /\ shutdown = "none" <=> main = "starting"
  /\ requests \subseteq Requests
  /\ main \in {"starting", "listening"} => requests = {}

SignalOK ==
  /\ signalled \in BOOLEAN /\ reachable \in BOOLEAN
  /\ shutdown \in {"draining", "done"} => signalled

LoopOK == loop \in [Loops \cup ProtectLoops -> {"none", "running", "waiting", "ended"}]

LEMMA TypeParts == TypeOK <=> ListenerOK /\ ProcessOK /\ SignalOK /\ LoopOK
BY Zenon DEF TypeOK, ListenerOK, ProcessOK, SignalOK, LoopOK

LEMMA InitIInv == Init => IInv
<1> SUFFICES ASSUME Init PROVE IInv
  OBVIOUS
<1>1. ListenerOK
  BY LifecycleAssumption DEF Init, ListenerOK
<1>2. ProcessOK /\ LoopOK
  BY DEF Init, ProcessOK, LoopOK
<1>3. SignalOK
  BY DEF Init, SignalOK
<1>4. Missed
  BY DEF Init, Missed
<1> QED
  BY <1>1, <1>2, <1>3, <1>4, TypeParts DEF IInv

-----------------------------------------------------------------------------
(* What the actions leave to one part of the state. *)

\* A step of the listener's, and what the console does to it.
ListenerSide == Listener \/ ProtectGoes \/ ProtectComes \/ Tick

LEMMA ListenerSideFrame ==
  ListenerSide => UNCHANGED << main, signalled, db, shutdown, requests, loop >>
BY DEF ListenerSide, Listener, Connected, ConnectionDies, Disconnected, PauseEnds, EndListener, ProtectGoes,
       ProtectComes, Tick, listenerStep, mainVars, httpVars

\* All other steps but one, the start of the listener.
ProcessSide ==
  \/ Listen \/ ListenReturns \/ Return \/ Exit \/ Signal \/ Shutdown \/ Serve \/ Periodic
  \/ UNCHANGED vars

LEMMA ProcessSideFrame ==
  ProcessSide => UNCHANGED << reachable, listener, backoff, wait, watchers, away >>
BY DEF ProcessSide, Listen, ListenReturns, Return, Exit, Signal, Shutdown, ShutdownBegins,
       ShutdownEnds, Serve, Accept, Finish, Periodic, Work, Again, EndLoop, SetLoop, vars, listenVars

LEMMA NextSides == [Next]_vars <=> StartRest \/ ProcessSide \/ ListenerSide
BY Zenon DEF Next, Run, ProcessSide, ListenerSide

-----------------------------------------------------------------------------
(* Types. *)

LEMMA LoopKept == LoopOK /\ [Next]_vars => LoopOK'
<1> SUFFICES ASSUME LoopOK, [Next]_vars PROVE LoopOK'
  OBVIOUS
<1>1. CASE StartRest
  BY <1>1 DEF StartRest, LoopOK
<1>2. CASE Periodic
  BY <1>2 DEF Periodic, Work, Again, EndLoop, SetLoop, LoopOK
<1>3. CASE Listen \/ ListenReturns \/ Return \/ Exit \/ Signal \/ Shutdown \/ Serve
  BY <1>3 DEF Listen, ListenReturns, Return, Exit, Signal, Shutdown, ShutdownBegins,
              ShutdownEnds, Serve, Accept, Finish, LoopOK
<1>4. CASE ListenerSide \/ UNCHANGED vars
  BY <1>4, ListenerSideFrame DEF vars, LoopOK
<1> QED
  BY <1>1, <1>2, <1>3, <1>4 DEF Next, Run, ListenerSide

LEMMA ProcessKept == ProcessOK /\ [Next]_vars => ProcessOK'
<1> SUFFICES ASSUME ProcessOK, [Next]_vars PROVE ProcessOK'
  OBVIOUS
<1>1. CASE StartRest \/ Listen \/ ListenReturns \/ Return \/ Exit
  BY <1>1 DEF StartRest, Listen, ListenReturns, Return, Exit, ProcessOK, httpVars
<1>2. CASE Signal \/ Shutdown
  BY <1>2 DEF Signal, Shutdown, ShutdownBegins, ShutdownEnds, ProcessOK, httpVars, mainVars
<1>3. CASE Serve
  BY <1>3 DEF Serve, Accept, Finish, ProcessOK, mainVars
<1>4. CASE Periodic \/ ListenerSide \/ UNCHANGED vars
  BY <1>4, ListenerSideFrame
     DEF Periodic, Work, Again, EndLoop, SetLoop, vars, mainVars, httpVars, ProcessOK
<1> QED
  BY <1>1, <1>2, <1>3, <1>4 DEF Next, Run, ListenerSide

LEMMA SignalKept == SignalOK /\ [Next]_vars => SignalOK' /\ (signalled => signalled')
<1> SUFFICES ASSUME SignalOK, [Next]_vars PROVE SignalOK' /\ (signalled => signalled')
  OBVIOUS
<1>1. CASE StartRest \/ Listen \/ ListenReturns \/ Return \/ Exit
  BY <1>1 DEF StartRest, Listen, ListenReturns, Return, Exit, SignalOK, httpVars
<1>2. CASE Signal \/ Shutdown
  BY <1>2 DEF Signal, Shutdown, ShutdownBegins, ShutdownEnds, SignalOK, httpVars, mainVars
<1>3. CASE Serve \/ Periodic \/ UNCHANGED vars
  BY <1>3 DEF Serve, Accept, Finish, Periodic, Work, Again, EndLoop, SetLoop, vars,
              mainVars, httpVars, SignalOK
<1>4. CASE ListenerSide
  <2>1. reachable' \in BOOLEAN
    BY Zenon, <1>4 DEF ListenerSide, Listener, Connected, ConnectionDies, Disconnected, PauseEnds,
                EndListener, ProtectGoes, ProtectComes, Tick, listenerStep, SignalOK
  <2> QED
    BY Zenon, <1>4, <2>1, ListenerSideFrame DEF SignalOK
<1> QED
  BY <1>1, <1>2, <1>3, <1>4 DEF Next, Run, ListenerSide

LEMMA ListenerKept == ListenerOK /\ [Next]_vars => ListenerOK'
<1> SUFFICES ASSUME ListenerOK, [Next]_vars PROVE ListenerOK'
  OBVIOUS
<1> USE LifecycleAssumption
<1>1. CASE StartRest
  BY <1>1 DEF StartRest, Dial, ListenerOK
<1>2. CASE ProcessSide
  BY <1>2, ProcessSideFrame DEF ListenerOK
<1>3. CASE Connected \/ ConnectionDies \/ Disconnected
  BY <1>3 DEF Connected, ConnectionDies, Disconnected, ListenerOK
<1>4. CASE PauseEnds
  BY <1>4 DEF PauseEnds, Dial, ListenerOK
<1>5. CASE EndListener \/ ProtectGoes \/ ProtectComes
  BY <1>5 DEF EndListener, ProtectGoes, ProtectComes, listenVars, ListenerOK
<1>6. CASE Tick
  BY <1>6 DEF Tick, ListenerOK
<1> QED
  BY <1>1, <1>2, <1>3, <1>4, <1>5, <1>6, NextSides DEF ListenerSide, Listener

LEMMA NextTypeOK == TypeOK /\ [Next]_vars => TypeOK'
<1> SUFFICES ASSUME TypeOK, [Next]_vars PROVE TypeOK'
  OBVIOUS
<1>1. ListenerOK' /\ ProcessOK' /\ SignalOK' /\ LoopOK'
  BY TypeParts, ListenerKept, ProcessKept, SignalKept, LoopKept
<1> QED
  BY Zenon, <1>1 DEF TypeOK, ListenerOK, ProcessOK, SignalOK, LoopOK

-----------------------------------------------------------------------------
(* The listener's absence. *)

LEMMA UnawareIsNat == Unaware \in Nat /\ Handshake <= Unaware /\ Keepalive <= Unaware
BY LifecycleAssumption DEF Unaware

LEMMA NextMissed ==
  ASSUME ListenerOK, SignalOK, Missed, ~signalled', [Next]_vars
  PROVE  Missed'
<1> USE LifecycleAssumption
<1>1. ~signalled
  BY SignalKept
<1>2. CASE StartRest
  <2>1. /\ main = "starting" /\ main' = "listening"
        /\ listener' \in {"dialing", "stalled"} /\ wait' = Handshake /\ away' = away
    BY <1>2 DEF StartRest, Dial
  <2>2. ~reachable' => away' = 0
    BY Zenon, <1>2, <2>1 DEF StartRest, Missed
  <2>3. away' = 0
    BY <2>1 DEF Missed
  <2> QED
    BY <2>1, <2>2, <2>3, UnawareIsNat DEF Missed
<1>3. ASSUME StartRest \/ ProcessSide \/ ListenerSide PROVE main' = "starting" => main = "starting"
  BY <1>3, ListenerSideFrame
     DEF StartRest, ProcessSide, Listen, ListenReturns, Return, Exit, Signal, Shutdown,
         ShutdownBegins, ShutdownEnds, Serve, Accept, Finish, Periodic, Work, Again, EndLoop,
         SetLoop, vars, mainVars
<1>4. CASE ProcessSide
  BY <1>3, <1>4, ProcessSideFrame DEF Missed
<1>5. CASE Connected
  <2>1. listener' = "reading" /\ away' = 0 /\ main' = main /\ main # "starting"
    BY <1>5 DEF Connected, listenerStep, mainVars, Missed
  <2> QED
    BY <2>1 DEF Missed
<1>6. CASE Disconnected
  <2>1. /\ listener \in {"dialing", "stalled", "reading", "deaf"} /\ (listener = "dialing" => signalled)
        /\ listener' = "pausing" /\ wait' = backoff
        /\ UNCHANGED << main, reachable, away >>
    BY <1>6 DEF Disconnected, listenerStep, mainVars
  <2>2. away <= Unaware
    BY <1>1, <2>1 DEF ListenerOK, Missed, Unaware
  <2>3. away' + wait' <= Unaware + MaxBackoff
    BY <2>1, <2>2, UnawareIsNat DEF ListenerOK
  <2> QED
    BY <2>1, <2>3 DEF Missed
<1>7. CASE ConnectionDies
  <2>1. /\ listener = "reading" /\ listener' = "deaf" /\ wait' = Keepalive
        /\ UNCHANGED << main, reachable, away >>
    BY <1>7 DEF ConnectionDies, listenerStep, mainVars
  <2> QED
    BY <2>1 DEF Missed
<1>8. CASE PauseEnds
  BY <1>8, UnawareIsNat DEF PauseEnds, Dial, listenerStep, mainVars, ListenerOK, Missed
<1>9. CASE EndListener
  BY <1>1, <1>9 DEF EndListener
<1>10. CASE ProtectGoes
  <2>1. /\ away' = 0 /\ UNCHANGED << main, backoff, wait >>
        /\ listener' = (IF listener = "dialing" THEN "stalled" ELSE listener)
    BY <1>10 DEF ProtectGoes, mainVars
  <2>2. listener = "dialing" => wait <= Handshake
    BY DEF Missed
  <2> QED
    BY <2>1, <2>2, UnawareIsNat DEF ListenerOK, Missed
<1>11. CASE ProtectComes
  <2>1. reachable' /\ UNCHANGED << main, listener, wait, away >>
    BY <1>11 DEF ProtectComes, mainVars, listenVars
  <2> QED
    BY <2>1 DEF Missed
<1>12. CASE Tick
  BY <1>12, UnawareIsNat DEF Tick, Waiting, listenerStep, mainVars, ListenerOK, Missed
<1> QED
  BY <1>2, <1>4, <1>5, <1>6, <1>7, <1>8, <1>9, <1>10, <1>11, <1>12, NextSides DEF ListenerSide, Listener

LEMMA NextIInv == IInv /\ [Next]_vars => IInv'
<1> SUFFICES ASSUME IInv, [Next]_vars PROVE IInv'
  OBVIOUS
<1>1. TypeOK' /\ ListenerOK /\ SignalOK
  BY NextTypeOK, TypeParts DEF IInv
<1>2. ~signalled' => Missed'
  BY <1>1, NextMissed, SignalKept DEF IInv
<1> QED
  BY <1>1, <1>2 DEF IInv

LEMMA MissedBound == IInv => BackInTime
BY LifecycleAssumption, TypeParts, UnawareIsNat DEF IInv, ListenerOK, Missed, BackInTime

-----------------------------------------------------------------------------
(* The variables keep their shape; in particular the database is open until run  *)
(* has returned, whichever of run, its shutdown goroutine and a signal is first   *)
(* (TypeOK; run).                                                              *)
THEOREM TypeCorrect == Spec => []TypeOK
BY InitIInv, NextIInv, PTL DEF Spec, IInv

(* Events of a console that accepts connections are never missed for longer than  *)
(* it takes to notice a dead connection, or the rest of a dial, and then the        *)
(* longest backoff and a handshake (BackInTime; Listen).                            *)
THEOREM ListenerReturns == Spec => []BackInTime
BY InitIInv, NextIInv, MissedBound, PTL DEF Spec
=============================================================================
