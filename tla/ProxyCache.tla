------------------------------ MODULE ProxyCache ------------------------------
(***************************************************************************)
(* What the streamer promises of its proxies, with files, locks, ffmpeg and    *)
(* the cleaner left out.  A proxy is made for a request that waits for it,      *)
(* where there is none, and then sent to that request whatever else happens;    *)
(* all others get the proxy there is, and an error only where there is none.    *)
(* Only a proxy that has become stale goes, and a restart loses none.           *)
(***************************************************************************)
CONSTANTS
  Clips,
  Requests,
  NoClip       \* nothing is asked for

VARIABLES
  proxies,     \* clips that have a whole proxy
  stale,       \* those whose proxy may be removed
  asked,       \* [Requests -> clip]
  answered,    \* [Requests -> "none", "whole" or "error"]
  made         \* requests whose own proxy has not been sent to them yet

cacheVars == << proxies, stale, asked, answered, made >>

Init ==
  /\ proxies = {} /\ stale = {} /\ made = {}
  /\ asked = [r \in Requests |-> NoClip]
  /\ answered = [r \in Requests |-> "none"]

Ask(r) ==
  /\ asked[r] = NoClip
  /\ \E c \in Clips : asked' = [asked EXCEPT ![r] = c]
  /\ UNCHANGED << proxies, stale, answered, made >>

Waits(r) == asked[r] # NoClip /\ answered[r] = "none"

Make(r) ==
  /\ Waits(r) /\ asked[r] \notin proxies
  /\ proxies' = proxies \cup {asked[r]} /\ made' = made \cup {r}
  /\ UNCHANGED << stale, asked, answered >>

Serve(r) ==
  /\ Waits(r) /\ asked[r] \in proxies
  /\ answered' = [answered EXCEPT ![r] = "whole"] /\ made' = made \ {r}
  /\ UNCHANGED << proxies, stale, asked >>

Refuse(r) ==
  /\ Waits(r) /\ asked[r] \notin proxies
  /\ answered' = [answered EXCEPT ![r] = "error"]
  /\ UNCHANGED << proxies, stale, asked, made >>

Leave(r) ==
  /\ answered[r] # "none"
  /\ asked' = [asked EXCEPT ![r] = NoClip]
  /\ answered' = [answered EXCEPT ![r] = "none"]
  /\ UNCHANGED << proxies, stale, made >>

\* Nothing is stale before it has been sent once.
GrowStale(c) ==
  /\ c \in proxies \ stale /\ \A r \in made : asked[r] # c
  /\ stale' = stale \cup {c}
  /\ UNCHANGED << proxies, asked, answered, made >>

Evict(c) ==
  /\ c \in stale
  /\ proxies' = proxies \ {c} /\ stale' = stale \ {c}
  /\ UNCHANGED << asked, answered, made >>

Restart ==
  /\ asked' = [r \in Requests |-> NoClip]
  /\ answered' = [r \in Requests |-> "none"]
  /\ made' = {}
  /\ UNCHANGED << proxies, stale >>

Next ==
  \/ \E r \in Requests : Ask(r) \/ Make(r) \/ Serve(r) \/ Refuse(r) \/ Leave(r)
  \/ \E c \in Clips : GrowStale(c) \/ Evict(c)
  \/ Restart

Spec == Init /\ [][Next]_cacheVars
=============================================================================
