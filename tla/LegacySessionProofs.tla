------------------------- MODULE LegacySessionProofs -------------------------
(***************************************************************************)
(* Proofs, for any session lives that leave the client its margin, that a     *)
(* session's age costs no backfill: see OneFailureEach in LegacySession.      *)
(***************************************************************************)
EXTENDS LegacySession, TLAPS

-----------------------------------------------------------------------------
(* The strengthening.  Either a session ended early, and the backfill it may   *)
(* cost has not failed yet, or the session the client trusts outlives the      *)
(* trust, by the period that may change under a backfill.                      *)

Excused == failed < kills + faults

SessionOutlivesTrust ==
  /\ pc = "token" => life > Refresh /\ (life = Refresh + 1 => late)
  /\ pc = "request" => ours /\ life > left /\ (left = 0 => late)
  /\ pc \in {"idle", "check"} /\ left > 0 => ours /\ life > left

IInv == TypeOK /\ OneFailureEach /\ (Excused \/ SessionOutlivesTrust)

\* The two kinds of variables, apart.
Flags == ours \in BOOLEAN /\ due \in BOOLEAN /\ late \in BOOLEAN

Numbers ==
  /\ left \in 0..Refresh /\ life \in 0..Life
  /\ pc \in {"idle", "check", "token", "request"}
  /\ kills \in Nat /\ faults \in Nat /\ failed \in Nat
  /\ pc = "token" => left = 0

LEMMA TypeParts == TypeOK <=> Flags /\ Numbers
BY Zenon DEF TypeOK, Flags, Numbers

LEMMA InitIInv == Init => IInv
<1> SUFFICES ASSUME Init PROVE IInv
  OBVIOUS
<1>1. Flags
  BY Zenon DEF Init, Flags
<1>2. Numbers
  BY LegacyAssumption, SMT DEF Init, Numbers
<1>3. OneFailureEach /\ SessionOutlivesTrust
  BY SMT DEF Init, OneFailureEach, SessionOutlivesTrust
<1> QED
  BY <1>1, <1>2, <1>3, TypeParts DEF IInv

-----------------------------------------------------------------------------
(* Types. *)

LEMMA FailCounts ==
  Numbers /\ Fail => failed' \in Nat /\ failed' <= failed + 1 /\ pc' = "idle" /\ late' = FALSE
BY LegacyAssumption DEF Numbers, Fail

LEMMA FlagsKept == Flags /\ [Next]_vars => Flags'
BY Zenon DEF Flags, Next, vars, Tick, Kill, Begin, Backfill, BeginIdle, StillFresh, LoginAnswered,
             LoginDone, Fetched, Unauthorized, LoginFails, TokenMissing, RequestFails, Fault, Fail

LEMMA NumbersKept == Numbers /\ [Next]_vars => Numbers'
<1> SUFFICES ASSUME Numbers, [Next]_vars PROVE Numbers'
  OBVIOUS
<1> USE LegacyAssumption
<1>1. CASE Tick
  <2>1. left' \in 0..Refresh /\ life' \in 0..Life /\ (left = 0 => left' = 0)
    BY <1>1 DEF Tick, Numbers, Less
  <2> QED
    BY <1>1, <2>1 DEF Tick, Numbers
<1>2. CASE Kill \/ BeginIdle \/ Begin \/ StillFresh
  BY <1>2 DEF Kill, BeginIdle, Begin, StillFresh, Numbers
<1>3. CASE LoginAnswered \/ LoginDone \/ Fetched
  BY <1>3 DEF LoginAnswered, LoginDone, Fetched, Numbers
<1>4. CASE LoginFails \/ TokenMissing \/ RequestFails
  <2>1. Fail /\ faults' = faults + 1 /\ UNCHANGED << left, life, kills >>
    BY <1>4 DEF LoginFails, TokenMissing, RequestFails, Fault
  <2> QED
    BY <2>1, FailCounts DEF Numbers
<1>5. CASE Unauthorized
  <2>1. Fail /\ left' = 0 /\ UNCHANGED << life, kills, faults >>
    BY <1>5 DEF Unauthorized
  <2> QED
    BY <2>1, FailCounts DEF Numbers
<1>6. CASE UNCHANGED vars
  BY <1>6 DEF vars, Numbers
<1> QED
  BY <1>1, <1>2, <1>3, <1>4, <1>5, <1>6 DEF Next, Backfill

LEMMA NextTypeOK == TypeOK /\ [Next]_vars => TypeOK'
BY FlagsKept, NumbersKept, TypeParts DEF TypeOK, Flags, Numbers

-----------------------------------------------------------------------------
(* The inductive step. *)

LEMMA NextIInv == IInv /\ [Next]_vars => IInv'
<1> SUFFICES ASSUME IInv, [Next]_vars PROVE IInv'
  OBVIOUS
<1> USE LegacyAssumption
<1>1. TypeOK /\ TypeOK' /\ Numbers /\ Numbers'
  BY NextTypeOK DEF IInv, TypeOK, Numbers
<1>2. ASSUME UNCHANGED << kills, faults, failed >>, SessionOutlivesTrust => SessionOutlivesTrust'
      PROVE  IInv'
  BY <1>1, <1>2 DEF IInv, OneFailureEach, Excused
<1>3. CASE Tick
  <2>1. ASSUME SessionOutlivesTrust PROVE SessionOutlivesTrust'
    <3>1. (pc # "idle" => ~late /\ late') /\ UNCHANGED << pc, ours >>
      BY Zenon, <1>3 DEF Tick
    <3>2. left' = Less(left) /\ life' = Less(life)
      BY <1>3 DEF Tick
    <3> QED
      BY <1>1, <2>1, <3>1, <3>2 DEF Numbers, SessionOutlivesTrust, Less
  <2> QED
    BY <1>2, <1>3, <2>1 DEF Tick
<1>4. CASE Kill
  BY <1>1, <1>4 DEF Kill, TypeOK, IInv, OneFailureEach, Excused
<1>5. CASE BeginIdle \/ Begin \/ StillFresh
  BY <1>1, <1>2, <1>5 DEF BeginIdle, Begin, StillFresh, TypeOK, SessionOutlivesTrust
<1>6. CASE LoginAnswered \/ LoginDone \/ Fetched
  BY <1>1, <1>2, <1>6 DEF LoginAnswered, LoginDone, Fetched, TypeOK, SessionOutlivesTrust
<1>7. CASE LoginFails \/ TokenMissing \/ RequestFails
  <2>1. faults' = faults + 1 /\ kills' = kills /\ pc' = "idle" /\ failed' <= failed + 1
    BY <1>1, <1>7, FailCounts DEF LoginFails, TokenMissing, RequestFails, Fault
  <2>2. UNCHANGED << left, ours, life >>
    BY <1>7 DEF LoginFails, TokenMissing, RequestFails
  <2>3. SessionOutlivesTrust => SessionOutlivesTrust'
    BY <1>1, <1>7, <2>1, <2>2
       DEF LoginFails, TokenMissing, RequestFails, Numbers, SessionOutlivesTrust
  <2> QED
    BY <1>1, <2>1, <2>3 DEF IInv, Numbers, OneFailureEach, Excused
<1>8. CASE Unauthorized
  <2>1. Excused
    BY <1>1, <1>8 DEF Unauthorized, Accepted, IInv, SessionOutlivesTrust, TypeOK
  <2>2. /\ failed' <= failed + 1 /\ UNCHANGED << kills, faults >>
        /\ pc' = "idle" /\ left' = 0
    BY <1>1, <1>8, FailCounts DEF Unauthorized
  <2> QED
    BY <1>1, <2>1, <2>2 DEF IInv, Numbers, OneFailureEach, Excused, SessionOutlivesTrust
<1>9. CASE UNCHANGED vars
  BY <1>1, <1>2, <1>9 DEF vars, SessionOutlivesTrust
<1> QED
  BY <1>3, <1>4, <1>5, <1>6, <1>7, <1>8, <1>9 DEF Next, Backfill

-----------------------------------------------------------------------------
(* The variables keep their shape, and no login leaves the client waiting for  *)
(* a token while it trusts a session (TypeOK; ensureLoggedIn).                  *)
THEOREM TypeCorrect == Spec => []TypeOK
BY InitIInv, NextIInv, PTL DEF Spec, IInv

(* A backfill only fails where a session ended early or a request failed for a  *)
(* reason of its own, once for each (OneFailureEach; ensureLoggedIn, Events).    *)
THEOREM SessionsAgeUnnoticed == Spec => []OneFailureEach
BY InitIInv, NextIInv, PTL DEF Spec, IInv
=============================================================================
