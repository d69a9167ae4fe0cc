-------------------------------- MODULE Stream --------------------------------
(***************************************************************************)
(* The proxy cache.  HTTP requests for a clip are served from a transcoded  *)
(* copy in the cache directory; on a miss one request transcodes it, under  *)
(* a lock of the clip's own, into a temporary file that is then renamed.    *)
(* CleanCache, on a timer, removes files older than a TTL, and the process  *)
(* may die at any moment and come back to whatever the directory holds.     *)
(*                                                                         *)
(* A step is one call on the file system.  Time is left out: a file merely   *)
(* becomes "old": not modified for a TTL.                                    *)
(***************************************************************************)
EXTENDS Naturals, FiniteSets

CONSTANTS
  Clips,
  Requests,    \* requests served at the same time
  NoClip,      \* a request slot not in use
  Nobody,      \* the lock is free
  NoFile,
  MaxCrashes   \* bound on crashes

ASSUME StreamAssumption ==
  /\ NoClip \notin Clips
  /\ Nobody \notin Requests
  /\ NoFile \notin [full : BOOLEAN, old : BOOLEAN]
  /\ MaxCrashes \in Nat

VARIABLES
  file,      \* the cache directory: [Names -> file]
  pc,        \* where each request is in ServeProxy
  clip,      \* the clip each request is for
  answer,    \* what each request has been answered with
  lock,      \* Streamer.locks: [Clips -> Requests \cup {Nobody}]
  listed,    \* CleanCache: directory entries still to be examined
  doomed,    \* CleanCache: found old, not yet removed: at most one
  crashes

requestVars == << pc, clip, answer, lock >>
cleanerVars == << listed, doomed >>
vars == << file, requestVars, cleanerVars, crashes >>

Names    == Clips \X {"proxy", "tmp"}
Proxy(r) == << clip[r], "proxy" >>
Tmp(r)   == << clip[r], "tmp" >>
Files    == [full : BOOLEAN, old : BOOLEAN]
Present  == {n \in Names : file[n] # NoFile}

Written(full) == [full |-> full, old |-> FALSE]

Init ==
  /\ file = [n \in Names |-> NoFile]
  /\ pc = [r \in Requests |-> "idle"]
  /\ clip = [r \in Requests |-> NoClip]
  /\ answer = [r \in Requests |-> "none"]
  /\ lock = [c \in Clips |-> Nobody]
  /\ listed = {} /\ doomed = {}
  /\ crashes = 0

-----------------------------------------------------------------------------
(* ServeProxy, one request. *)

Goto(r, where)     == pc' = [pc EXCEPT ![r] = where]
Answer(r, what)    == answer' = [answer EXCEPT ![r] = what]
Unlock(r)          == lock' = [lock EXCEPT ![clip[r]] = Nobody]

Arrive(r) ==
  /\ pc[r] = "idle"
  /\ \E c \in Clips : clip' = [clip EXCEPT ![r] = c]
  /\ Goto(r, "look")
  /\ UNCHANGED << file, answer, lock, cleanerVars, crashes >>

\* serveCached on a hit: the open file is sent, whatever happens to its name.
serveCached(r, sending) ==
  /\ Proxy(r) \in Present
  /\ Answer(r, IF file[Proxy(r)].full THEN "whole" ELSE "broken")
  /\ Goto(r, sending)
  /\ UNCHANGED << file, lock, clip, cleanerVars, crashes >>

Look(r) ==
  /\ pc[r] = "look"
  /\ \/ serveCached(r, "sending")
     \/ /\ Proxy(r) \notin Present /\ Goto(r, "wait")
        /\ UNCHANGED << file, answer, lock, clip, cleanerVars, crashes >>

\* A transcode that nothing serializes.
UnguardedLock(r) ==
  /\ pc[r] = "wait"
  /\ lock' = [lock EXCEPT ![clip[r]] = r]
  /\ Goto(r, "lookAgain")
  /\ UNCHANGED << file, answer, clip, cleanerVars, crashes >>

Lock(r) ==
  /\ pc[r] = "wait" /\ lock[clip[r]] = Nobody
  /\ lock' = [lock EXCEPT ![clip[r]] = r]
  /\ Goto(r, "lookAgain")
  /\ UNCHANGED << file, answer, clip, cleanerVars, crashes >>

\* The cache is not looked at again once the lock is held.
NoLookAgain(r) ==
  /\ pc[r] = "lookAgain"
  /\ Goto(r, "start")
  /\ UNCHANGED << file, answer, lock, clip, cleanerVars, crashes >>

LookAgain(r) ==
  /\ pc[r] = "lookAgain"
  /\ \/ serveCached(r, "sendingLocked")
     \/ /\ Proxy(r) \notin Present /\ Goto(r, "start")
        /\ UNCHANGED << file, answer, lock, clip, cleanerVars, crashes >>

\* ffmpeg -y creates the temporary file, or truncates what a crash left there.
StartEncode(r) ==
  /\ pc[r] = "start"
  /\ file' = [file EXCEPT ![Tmp(r)] = Written(FALSE)]
  /\ Goto(r, "encode")
  /\ UNCHANGED << answer, lock, clip, cleanerVars, crashes >>

\* ffmpeg ends: well, with an error, or killed after transcodeTimeout.  It
\* writes to the file it opened, so a name removed meanwhile does not return.
EndEncode(r) ==
  /\ pc[r] = "encode"
  /\ \/ /\ Goto(r, "promote")
        /\ file' = IF Tmp(r) \in Present
                   THEN [file EXCEPT ![Tmp(r)] = Written(TRUE)] ELSE file
     \/ Goto(r, "sweepFailed") /\ UNCHANGED file
  /\ UNCHANGED << answer, lock, clip, cleanerVars, crashes >>

\* The rename; it fails when the temporary file is gone.
Promote(r) ==
  /\ pc[r] = "promote"
  /\ \/ /\ Tmp(r) \in Present
        /\ file' = [file EXCEPT ![Proxy(r)] = file[Tmp(r)], ![Tmp(r)] = NoFile]
        /\ Goto(r, "sweep")
     \/ Tmp(r) \notin Present /\ Goto(r, "sweepFailed") /\ UNCHANGED file
  /\ UNCHANGED << answer, lock, clip, cleanerVars, crashes >>

\* transcode's deferred Remove(tmp); a failed transcode is answered with a 500.
Sweep(r) ==
  /\ pc[r] \in {"sweep", "sweepFailed"}
  /\ file' = [file EXCEPT ![Tmp(r)] = NoFile]
  /\ IF pc[r] = "sweep" THEN Goto(r, "lookLast") /\ UNCHANGED answer
                        ELSE Goto(r, "sendingLocked") /\ Answer(r, "error")
  /\ UNCHANGED << lock, clip, cleanerVars, crashes >>

\* The last serveCached; a miss is not checked and leaves the response empty.
LookLast(r) ==
  /\ pc[r] = "lookLast"
  /\ \/ serveCached(r, "sendingLocked")
     \/ /\ Proxy(r) \notin Present
        /\ Answer(r, "empty") /\ Goto(r, "sendingLocked")
        /\ UNCHANGED << file, lock, clip, cleanerVars, crashes >>

\* An early return that skips the Unlock.
LeakingSent(r) ==
  /\ \/ pc[r] = "sending" /\ UNCHANGED lock
     \/ pc[r] = "sendingLocked" /\ answer[r] # "error" /\ Unlock(r)
     \/ pc[r] = "sendingLocked" /\ answer[r] = "error" /\ UNCHANGED lock
  /\ Goto(r, "idle") /\ Answer(r, "none")
  /\ clip' = [clip EXCEPT ![r] = NoClip]
  /\ UNCHANGED << file, cleanerVars, crashes >>

\* The client has taken the whole body, or is gone.  Only now does the deferred
\* Unlock of a request that took the lock run.
Sent(r) ==
  /\ \/ pc[r] = "sending" /\ UNCHANGED lock
     \/ pc[r] = "sendingLocked" /\ Unlock(r)
  /\ Goto(r, "idle") /\ Answer(r, "none")
  /\ clip' = [clip EXCEPT ![r] = NoClip]
  /\ UNCHANGED << file, cleanerVars, crashes >>

-----------------------------------------------------------------------------
(* CleanCache: list the directory, then examine and remove entry by entry. *)

\* A cleaner that takes only finished proxies into account.
ListProxiesOnly ==
  /\ listed = {} /\ doomed = {}
  /\ listed' = {n \in Present : n[2] = "proxy"}
  /\ UNCHANGED << file, requestVars, doomed, crashes >>

ListCache ==
  /\ listed = {} /\ doomed = {}
  /\ listed' = Present
  /\ UNCHANGED << file, requestVars, doomed, crashes >>

\* Every file is taken for an old one.
ExamineAgeless(n) ==
  /\ n \in listed /\ doomed = {}
  /\ listed' = listed \ {n}
  /\ doomed' = {n} \cap Present
  /\ UNCHANGED << file, requestVars, crashes >>

\* Entries examined without waiting for the removal of the one before.
ConcurrentExamine(n) ==
  /\ n \in listed
  /\ listed' = listed \ {n}
  /\ doomed' = doomed \cup {m \in {n} \cap Present : file[m].old}
  /\ UNCHANGED << file, requestVars, crashes >>

Examine(n) ==
  /\ n \in listed /\ doomed = {}
  /\ listed' = listed \ {n}
  /\ doomed' = {m \in {n} \cap Present : file[m].old}
  /\ UNCHANGED << file, requestVars, crashes >>

Remove(n) ==
  /\ n \in doomed
  /\ doomed' = {}
  /\ file' = [file EXCEPT ![n] = NoFile]
  /\ UNCHANGED << requestVars, listed, crashes >>

CleanCache ==
  \/ ListCache
  \/ \E n \in listed : Examine(n)
  \/ \E n \in doomed : Remove(n)

-----------------------------------------------------------------------------
(* External: the passing of a TTL (14 days by default).  transcode takes at  *)
(* most transcodeTimeout, and the calls after it no time to speak of, so no  *)
(* file ages between the start of its transcode and the answer made from it. *)
InUse(n) ==
  \E r \in Requests :
    \/ n = Tmp(r) /\ pc[r] \in {"encode", "promote"}
    \/ n = Proxy(r) /\ pc[r] \in {"sweep", "lookLast"}

Age(n) ==
  /\ n \in Present /\ ~file[n].old /\ ~InUse(n)
  /\ file' = [file EXCEPT ![n].old = TRUE]
  /\ UNCHANGED << requestVars, cleanerVars, crashes >>

\* The process dies, its ffmpeg with it.
Crash ==
  /\ crashes < MaxCrashes
  /\ crashes' = crashes + 1
  /\ pc' = [r \in Requests |-> "idle"]
  /\ clip' = [r \in Requests |-> NoClip]
  /\ answer' = [r \in Requests |-> "none"]
  /\ lock' = [c \in Clips |-> Nobody]
  /\ listed' = {} /\ doomed' = {}
  /\ UNCHANGED file

ServeProxy(r) ==
  \/ Look(r) \/ Lock(r) \/ LookAgain(r)
  \/ StartEncode(r) \/ EndEncode(r) \/ Promote(r) \/ Sweep(r) \/ LookLast(r)

Next ==
  \/ \E r \in Requests : Arrive(r) \/ ServeProxy(r) \/ Sent(r)
  \/ CleanCache
  \/ \E n \in Names : Age(n)
  \/ Crash

Spec == Init /\ [][Next]_vars

(* Request goroutines and the cleaner are scheduled; ffmpeg ends, at the      *)
(* latest by transcodeTimeout; sync.Mutex hands the lock to every waiter in   *)
(* the end.  Clients take what they are sent, or go away.                     *)
Fairness ==
  /\ \A r \in Requests : WF_vars(ServeProxy(r)) /\ SF_vars(Lock(r)) /\ WF_vars(Sent(r))
  /\ WF_vars(CleanCache)
  /\ \A n \in Names : WF_vars(Age(n))

FairSpec == Spec /\ Fairness

-----------------------------------------------------------------------------
PCs == {"idle", "look", "wait", "lookAgain", "start", "encode", "promote",
        "sweep", "sweepFailed", "lookLast", "sending", "sendingLocked"}

TypeOK ==
  /\ file \in [Names -> Files \cup {NoFile}]
  /\ pc \in [Requests -> PCs]
  /\ clip \in [Requests -> Clips \cup {NoClip}]
  /\ \A r \in Requests : clip[r] = NoClip <=> pc[r] = "idle"
  /\ answer \in [Requests -> {"none", "whole", "broken", "error", "empty"}]
  /\ lock \in [Clips -> Requests \cup {Nobody}]
  /\ listed \subseteq Names /\ doomed \subseteq Names
  /\ \A m, n \in doomed : m = n
  /\ crashes \in 0 .. MaxCrashes

(* Nothing but a complete transcode is ever visible under a proxy's name,     *)
(* whatever a crash, a failed or killed ffmpeg, the cleaner or a concurrent    *)
(* request for the same clip leaves behind (transcode's temporary file and    *)
(* rename, under ServeProxy's lock).                                          *)
ProxiesComplete == \A c \in Clips : << c, "proxy" >> \in Present => file[<< c, "proxy" >>].full

(* So no viewer is ever sent part of a transcode, and one whose request did    *)
(* transcode is never sent an empty response (ServeProxy ignores the result    *)
(* of its last serveCached).  CacheRefined, below, implies it: ProxyCache has   *)
(* no such answers.                                                            *)
AnswersWhole == \A r \in Requests : answer[r] \notin {"broken", "empty"}

(* A transcode only starts when the clip has no proxy: waiting for the lock    *)
(* and then transcoding once more what another request has just finished is    *)
(* what the second serveCached is there to prevent.                           *)
EncodesOnlyMisses ==
  \A r \in Requests :
    pc[r] \in {"start", "encode", "promote"} => Proxy(r) \notin Present

(* The cache directory, the locks and the cleaner implement ProxyCache: a       *)
(* proxy only appears where there is none, for a request that gets it; a       *)
(* request is refused only while its clip has none (no waiter is, for another's   *)
(* failure, once a proxy is there); none goes that was modified within the TTL,   *)
(* even if it replaced the old file the cleaner had listed; and a crash costs     *)
(* none (ServeProxy, transcode, CleanCache).                                  *)
Whole      == {c \in Clips : << c, "proxy" >> \in Present /\ file[<< c, "proxy" >>].full}
OldProxies == {c \in Whole : file[<< c, "proxy" >>].old}
Makers     == {r \in Requests : pc[r] \in {"sweep", "lookLast"}}

Cache == INSTANCE ProxyCache WITH
           proxies  <- Whole,
           stale    <- OldProxies,
           asked    <- clip,
           answered <- answer,
           made     <- Makers

CacheRefined == Cache!Spec

-----------------------------------------------------------------------------
(* Liveness, under FairSpec. *)

(* Every request is answered, and its lock released, if clients take their     *)
(* answers: no order of hits, misses, failed transcodes and waiters leaves    *)
(* a request behind (ServeProxy).                                             *)
EveryRequestEnds == \A r \in Requests : pc[r] = "look" ~> pc[r] = "idle"

(* What a crash leaves in the cache directory is reclaimed, even if no one     *)
(* asks for that clip again (CleanCache).                                     *)
LeftoversReclaimed == \A c \in Clips : << c, "tmp" >> \in Present ~> << c, "tmp" >> \notin Present
=============================================================================
