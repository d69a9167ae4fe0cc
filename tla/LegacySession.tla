---------------------------- MODULE LegacySession ----------------------------
(***************************************************************************)
(* The session the backfill keeps with Protect's own web API.  The client    *)
(* logs in, trusts the session for Refresh periods, and forgets it at once    *)
(* when a request is answered 401.  Protect ends a session when its life is    *)
(* over, or earlier (a console restart, a password change).                   *)
(*                                                                         *)
(* A step is one request, split where Protect's side and the client's side     *)
(* of it are apart in time.  The unit of time is the backfill's period; a       *)
(* backfill takes less than one (each request has a timeout of 30 s).           *)
(***************************************************************************)
EXTENDS Naturals

CONSTANTS
  Refresh,     \* the client trusts a session this long: 90 minutes
  Life,        \* Protect keeps a session this long: about two hours
  MaxKills,    \* bound on sessions Protect ends early
  MaxFaults    \* bound on requests that fail for a reason of their own

\* Half an hour between the two.
ASSUME LegacyAssumption ==
  /\ Refresh \in Nat \ {0} /\ Life \in Nat /\ Refresh + 2 <= Life
  /\ MaxKills \in Nat /\ MaxFaults \in Nat

VARIABLES
  left,     \* LegacyClient.expiry, as the time left until then
  ours,     \* is LegacyClient.csrf the token of the session in the cookie jar?
  life,     \* what is left of the life of that session; 0: there is none
  pc,       \* Backfill: "idle", "check", "token", "request"
  due,      \* has the backfill's ticker fired?
  late,     \* has the period changed since the backfill began?
  kills, faults,
  failed    \* backfills that failed

vars == << left, ours, life, pc, due, late, kills, faults, failed >>

\* runPeriodically calls the first time at once.
Init ==
  /\ left = 0 /\ ours = FALSE /\ life = 0
  /\ pc = "idle" /\ due = TRUE /\ late = FALSE
  /\ kills = 0 /\ faults = 0 /\ failed = 0

Less(n) == IF n = 0 THEN 0 ELSE n - 1

\* The ticker fires once a period.
Tick ==
  /\ IF pc = "idle" THEN ~due ELSE ~late
  /\ left' = Less(left) /\ life' = Less(life)
  /\ due' = TRUE /\ late' = (pc # "idle")
  /\ UNCHANGED << ours, pc, kills, faults, failed >>

Kill ==
  /\ life > 0 /\ kills < MaxKills
  /\ kills' = kills + 1 /\ life' = 0
  /\ UNCHANGED << left, ours, pc, due, late, faults, failed >>

\* Counted as far as one more than there can be reasons for.
Fail ==
  /\ pc' = "idle" /\ late' = FALSE
  /\ failed' = IF failed > MaxKills + MaxFaults THEN failed ELSE failed + 1

Fault ==
  /\ faults < MaxFaults /\ faults' = faults + 1
  /\ Fail

\* EarliestNonProtectClipStart finds nothing to fetch for.
BeginIdle ==
  /\ pc = "idle" /\ due
  /\ due' = FALSE
  /\ UNCHANGED << left, ours, life, pc, late, kills, faults, failed >>

Begin ==
  /\ pc = "idle" /\ due
  /\ due' = FALSE /\ pc' = "check"
  /\ UNCHANGED << left, ours, life, late, kills, faults, failed >>

-----------------------------------------------------------------------------
(* ensureLoggedIn. *)

StillFresh ==
  /\ pc = "check" /\ left > 0
  /\ pc' = "request"
  /\ UNCHANGED << left, ours, life, due, late, kills, faults, failed >>

\* The request fails or is refused.
LoginFails ==
  /\ pc = "check" /\ left = 0
  /\ Fault
  /\ UNCHANGED << left, ours, life, due, kills >>

\* The client's trust begins with Protect's answer.
EarlyLoginAnswered ==
  /\ pc = "check" /\ left = 0
  /\ life' = Life /\ ours' = FALSE
  /\ left' = Refresh
  /\ pc' = "token"
  /\ UNCHANGED << due, late, kills, faults, failed >>

\* Protect answers 200 and begins a session; its cookie is in the jar before
\* the headers are looked at.
LoginAnswered ==
  /\ pc = "check" /\ left = 0
  /\ life' = Life /\ ours' = FALSE
  /\ pc' = "token"
  /\ UNCHANGED << left, due, late, kills, faults, failed >>

\* The token is left as it was.
TokenlessLoginDone ==
  /\ pc = "token"
  /\ left' = Refresh
  /\ pc' = "request"
  /\ UNCHANGED << ours, life, due, late, kills, faults, failed >>

\* The answer carries a token.
LoginDone ==
  /\ pc = "token"
  /\ ours' = TRUE /\ left' = Refresh
  /\ pc' = "request"
  /\ UNCHANGED << life, due, late, kills, faults, failed >>

TokenMissing ==
  /\ pc = "token"
  /\ Fault
  /\ UNCHANGED << left, ours, life, due, kills >>

-----------------------------------------------------------------------------
(* Events. *)

Accepted == life > 0 /\ ours

Fetched ==
  /\ pc = "request" /\ Accepted
  /\ pc' = "idle" /\ late' = FALSE
  /\ UNCHANGED << left, ours, life, due, kills, faults, failed >>

\* No answer, another status, or a body that cannot be decoded.
RequestFails ==
  /\ pc = "request"
  /\ Fault
  /\ UNCHANGED << left, ours, life, due, kills >>

\* A 401 is an error like any other.
TrustingUnauthorized ==
  /\ pc = "request" /\ ~Accepted
  /\ Fail
  /\ UNCHANGED << left, ours, life, due, kills, faults >>

Unauthorized ==
  /\ pc = "request" /\ ~Accepted
  /\ left' = 0
  /\ Fail
  /\ UNCHANGED << ours, life, due, kills, faults >>

Backfill ==
  \/ BeginIdle \/ StillFresh \/ LoginAnswered \/ LoginDone \/ Fetched \/ Unauthorized
  \/ LoginFails \/ TokenMissing \/ RequestFails

Next == Tick \/ Kill \/ Begin \/ Backfill

\* Time passes, and a backfill that has begun goes on: each request has a
\* timeout.  Failures need not happen.
FairSpec ==
  /\ Init /\ [][Next]_vars
  /\ WF_vars(Tick)
  /\ WF_vars(StillFresh \/ LoginAnswered \/ LoginDone \/ Fetched \/ Unauthorized)

Spec == Init /\ [][Next]_vars

-----------------------------------------------------------------------------
\* The variables keep their shape; the client is never left waiting for a token
\* it already trusts.
TypeOK ==
  /\ left \in 0..Refresh /\ life \in 0..Life /\ ours \in BOOLEAN
  /\ pc \in {"idle", "check", "token", "request"}
  /\ due \in BOOLEAN /\ late \in BOOLEAN
  /\ kills \in Nat /\ faults \in Nat /\ failed \in Nat
  /\ pc = "token" => left = 0

\* A session that Protect ends early, and a request that fails, cost one
\* backfill each: a session's age never does (ensureLoggedIn refreshes "a bit
\* early rather than race it"), no request goes out with the token of another
\* session, and a 401 is not repeated (Events forces "a fresh login on the next
\* call rather than keep failing until expiry").
OneFailureEach == failed <= kills + faults

\* While backfills keep finding something to fetch, fetching keeps succeeding.
FetchesAgain == []<><<Begin>>_vars => []<><<Fetched>>_vars
=============================================================================
