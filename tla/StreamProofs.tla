----------------------------- MODULE StreamProofs -----------------------------
(***************************************************************************)
(* Proofs, for any clips, requests and crashes, that the proxy cache only    *)
(* holds and serves whole transcodes, each made on a miss, that no lock is     *)
(* leaked, and that it implements ProxyCache: see ProxiesComplete,            *)
(* AnswersWhole, EncodesOnlyMisses and CacheRefined in Stream.                *)
(***************************************************************************)
EXTENDS Stream, TLAPS

-----------------------------------------------------------------------------
(* The strengthening.  The lock makes the steps from the second look at the   *)
(* cache on exclusive; so a transcode's files change only by its own steps,   *)
(* but for the cleaner, and that only takes a proxy it found old.             *)

Locked == {"lookAgain", "start", "encode", "promote", "sweep", "sweepFailed",
           "lookLast", "sendingLocked"}

LockHeld == \A r \in Requests : pc[r] \in Locked => lock[clip[r]] = r

OutputWhole ==
  \A r \in Requests :
    pc[r] = "promote" => file[Tmp(r)] \in {Written(TRUE), NoFile}

ProxyFresh ==
  \A r \in Requests : pc[r] \in {"sweep", "lookLast"} => file[Proxy(r)] = Written(TRUE)

DoomedOld ==
  \A c \in Clips :
    << c, "proxy" >> \in doomed =>
      << c, "proxy" >> \in Present /\ file[<< c, "proxy" >>].old

IInv ==
  /\ TypeOK /\ LockHeld /\ EncodesOnlyMisses /\ OutputWhole /\ ProxyFresh
  /\ ProxiesComplete /\ DoomedOld /\ AnswersWhole

-----------------------------------------------------------------------------
(* Lemmas. *)

\* The names of a request's files are names, and different.
LEMMA NamesOfRequests ==
  ASSUME TypeOK, NEW r \in Requests, pc[r] # "idle"
  PROVE  /\ clip[r] \in Clips
         /\ Proxy(r) \in Names /\ Tmp(r) \in Names /\ Proxy(r) # Tmp(r)
BY DEF TypeOK, Proxy, Tmp, Names

\* Two requests in the locked part of ServeProxy are for different clips.
LEMMA LockExcludes ==
  ASSUME TypeOK, LockHeld, NEW r \in Requests, NEW q \in Requests, q # r,
         pc[r] \in Locked, pc[q] \in Locked
  PROVE  clip[q] # clip[r]
BY DEF LockHeld

LEMMA InitIInv == Init => IInv
BY StreamAssumption
   DEF Init, IInv, TypeOK, LockHeld, EncodesOnlyMisses, OutputWhole, ProxyFresh,
       ProxiesComplete, DoomedOld, AnswersWhole, Names, Files, PCs, Locked, Present

LEMMA NextTypeOK == TypeOK /\ [Next]_vars => TypeOK'
<1> SUFFICES ASSUME TypeOK, [Next]_vars PROVE TypeOK'
  OBVIOUS
<1> USE StreamAssumption DEF requestVars, cleanerVars, Goto, Answer, Unlock
<1>1. ASSUME NEW r \in Requests, Arrive(r) PROVE TypeOK'
  <2>1. pc' = [pc EXCEPT ![r] = "look"] /\ \E c \in Clips : clip' = [clip EXCEPT ![r] = c]
    BY <1>1 DEF Arrive
  <2>2. \A q \in Requests : clip'[q] = NoClip <=> pc'[q] = "idle"
    BY <2>1 DEF TypeOK, PCs
  <2> QED
    BY <1>1, <2>2 DEF Arrive, TypeOK, PCs
<1>2. ASSUME NEW r \in Requests, Look(r) PROVE TypeOK'
  BY <1>2 DEF Look, serveCached, TypeOK, PCs
<1>3. ASSUME NEW r \in Requests, Lock(r) PROVE TypeOK'
  BY <1>3 DEF Lock, TypeOK, PCs
<1>4. ASSUME NEW r \in Requests, LookAgain(r) PROVE TypeOK'
  BY <1>4 DEF LookAgain, serveCached, TypeOK, PCs
<1>5. ASSUME NEW r \in Requests, StartEncode(r) PROVE TypeOK'
  BY <1>5 DEF StartEncode, TypeOK, PCs, Written, Files
<1>6. ASSUME NEW r \in Requests, EndEncode(r) PROVE TypeOK'
  <2>1. file' = file \/ file' = [file EXCEPT ![Tmp(r)] = Written(TRUE)]
    BY <1>6 DEF EndEncode
  <2>2. file' \in [Names -> Files \cup {NoFile}]
    <3>1. Written(TRUE) \in Files
      BY DEF Written, Files
    <3> QED
      BY <2>1, <3>1 DEF TypeOK
  <2>3. \E where \in {"promote", "sweepFailed"} : pc' = [pc EXCEPT ![r] = where]
    BY <1>6 DEF EndEncode
  <2> QED
    BY <1>6, <2>2, <2>3 DEF EndEncode, TypeOK, PCs
<1>7. ASSUME NEW r \in Requests, Promote(r) PROVE TypeOK'
  BY <1>7, NamesOfRequests DEF Promote, TypeOK, PCs
<1>8. ASSUME NEW r \in Requests, Sweep(r) PROVE TypeOK'
  BY <1>8 DEF Sweep, TypeOK, PCs
<1>9. ASSUME NEW r \in Requests, LookLast(r) PROVE TypeOK'
  BY <1>9 DEF LookLast, serveCached, TypeOK, PCs
<1>10. ASSUME NEW r \in Requests, Sent(r) PROVE TypeOK'
  <2>1. pc' = [pc EXCEPT ![r] = "idle"] /\ clip' = [clip EXCEPT ![r] = NoClip]
    BY <1>10 DEF Sent
  <2>2. \A q \in Requests : clip'[q] = NoClip <=> pc'[q] = "idle"
    BY <2>1 DEF TypeOK, PCs
  <2>3. answer' = [answer EXCEPT ![r] = "none"] /\ (lock' = lock \/ lock' = [lock EXCEPT ![clip[r]] = Nobody])
    BY <1>10 DEF Sent
  <2> QED
    BY <1>10, <2>1, <2>2, <2>3 DEF Sent, TypeOK, PCs
<1>11. CASE CleanCache
  BY <1>11 DEF CleanCache, ListCache, Examine, Remove, TypeOK, Present
<1>12. ASSUME NEW n \in Names, Age(n) PROVE TypeOK'
  BY <1>12 DEF Age, TypeOK, Present, Files
<1>13. CASE Crash
  BY <1>13 DEF Crash, TypeOK, PCs
<1>14. CASE UNCHANGED vars
  BY <1>14 DEF vars, TypeOK
<1> QED
  BY <1>1, <1>2, <1>3, <1>4, <1>5, <1>6, <1>7, <1>8, <1>9, <1>10, <1>11, <1>12, <1>13, <1>14
     DEF Next, ServeProxy

-----------------------------------------------------------------------------
(* The invariant is inductive.  A request's step either leaves the directory  *)
(* alone (QuietStep) or works on its own clip's files under the lock          *)
(* (WorkStep); each lemma says what is left to show for the request itself.   *)

LEMMA QuietStep ==
  ASSUME IInv, TypeOK', NEW r \in Requests, file' = file, doomed' = doomed,
         \A q \in Requests : q # r => /\ pc'[q] = pc[q] /\ clip'[q] = clip[q]
                                      /\ answer'[q] = answer[q]
                                      /\ pc[q] \in Locked => lock'[clip[q]] = q,
         pc'[r] \in Locked => lock'[clip'[r]] = r,
         pc'[r] \notin {"encode", "promote", "sweep", "lookLast"},
         pc'[r] = "start" => Proxy(r)' \notin Present,
         answer'[r] \notin {"broken", "empty"}
  PROVE  IInv'
<1>1. LockHeld'
  BY DEF IInv, LockHeld
<1>2. EncodesOnlyMisses'
  BY DEF IInv, EncodesOnlyMisses, Proxy, Present
<1>3. OutputWhole' /\ ProxyFresh'
  BY DEF IInv, OutputWhole, ProxyFresh, Tmp, Proxy, Written
<1>4. ProxiesComplete' /\ DoomedOld'
  BY DEF IInv, ProxiesComplete, DoomedOld, Present
<1>5. AnswersWhole'
  BY DEF IInv, AnswersWhole
<1> QED
  BY <1>1, <1>2, <1>3, <1>4, <1>5 DEF IInv

LEMMA WorkStep ==
  ASSUME IInv, TypeOK', NEW r \in Requests, doomed' = doomed, lock' = lock, clip' = clip,
         pc[r] \in Locked, pc'[r] \in Locked,
         \A q \in Requests : q # r => pc'[q] = pc[q] /\ answer'[q] = answer[q],
         \A n \in Names : n \notin {Proxy(r), Tmp(r)} => file'[n] = file[n],
         pc'[r] \in {"start", "encode", "promote"} => file'[Proxy(r)] = NoFile,
         pc'[r] = "promote" => file'[Tmp(r)] \in {Written(TRUE), NoFile},
         pc'[r] \in {"sweep", "lookLast"} => file'[Proxy(r)] = Written(TRUE),
         file'[Proxy(r)] \in {file[Proxy(r)], Written(TRUE)},
         Proxy(r) \in doomed => file'[Proxy(r)] = file[Proxy(r)],
         answer'[r] \notin {"broken", "empty"}
  PROVE  IInv'
<1>1. LockHeld'
  BY DEF IInv, LockHeld
<1>2. clip[r] \in Clips /\ Proxy(r)' = Proxy(r) /\ Tmp(r)' = Tmp(r)
  BY DEF IInv, TypeOK, Locked, Proxy, Tmp
<1>3. ASSUME NEW q \in Requests, q # r, pc[q] \in Locked
      PROVE  /\ Proxy(q)' = Proxy(q) /\ Tmp(q)' = Tmp(q)
             /\ file'[Proxy(q)] = file[Proxy(q)] /\ file'[Tmp(q)] = file[Tmp(q)]
  <2>1. clip[q] # clip[r] /\ clip[q] \in Clips
    BY <1>3, LockExcludes DEF IInv, TypeOK, Locked
  <2>2. Proxy(q) \in Names /\ Tmp(q) \in Names
    BY <2>1 DEF Proxy, Tmp, Names
  <2>3. {Proxy(q), Tmp(q)} \cap {Proxy(r), Tmp(r)} = {}
    BY <2>1 DEF Proxy, Tmp
  <2> QED
    BY <2>2, <2>3 DEF Proxy, Tmp
<1>4. \A q \in Requests : pc[q] \in {"start", "encode", "promote", "sweep", "lookLast"}
                            => pc[q] \in Locked
  BY DEF Locked
<1>5. \A q \in Requests : q # r => pc'[q] = pc[q]
  OBVIOUS
<1>6. EncodesOnlyMisses'
  <2>1. \A q \in Requests : pc[q] \in {"start", "encode", "promote"} => Proxy(q) \notin Present
    BY DEF IInv, EncodesOnlyMisses
  <2> QED
    BY <1>2, <1>3, <1>4, <1>5, <2>1 DEF EncodesOnlyMisses, Present
<1>7. OutputWhole'
  <2>1. \A q \in Requests : pc[q] = "promote" => file[Tmp(q)] \in {Written(TRUE), NoFile}
    BY DEF IInv, OutputWhole
  <2>2. Written(TRUE)' = Written(TRUE)
    BY DEF Written
  <2> QED
    BY <1>2, <1>3, <1>4, <1>5, <2>1, <2>2 DEF OutputWhole
<1>8. ProxyFresh'
  <2>1. \A q \in Requests : pc[q] \in {"sweep", "lookLast"} => file[Proxy(q)] = Written(TRUE)
    BY DEF IInv, ProxyFresh
  <2>2. Written(TRUE)' = Written(TRUE)
    BY DEF Written
  <2> QED
    BY <1>2, <1>3, <1>4, <1>5, <2>1, <2>2 DEF ProxyFresh
<1>9. ASSUME NEW c \in Clips
      PROVE  /\ << c, "proxy" >> \in Names
             /\ << c, "proxy" >> # Proxy(r) => file'[<< c, "proxy" >>] = file[<< c, "proxy" >>]
  BY <1>2 DEF Names, Proxy, Tmp
<1>10. Written(TRUE).full
  BY DEF Written
<1>11. ProxiesComplete'
  BY <1>9, <1>10 DEF IInv, ProxiesComplete, Present
<1>12. DoomedOld'
  BY <1>9 DEF IInv, DoomedOld, Present
<1>13. AnswersWhole'
  BY DEF IInv, AnswersWhole
<1> QED
  BY <1>1, <1>6, <1>7, <1>8, <1>11, <1>12, <1>13 DEF IInv

LEMMA NextIInv == IInv /\ [Next]_vars => IInv'
<1> SUFFICES ASSUME IInv, [Next]_vars PROVE IInv'
  OBVIOUS
<1> USE DEF requestVars, cleanerVars, Goto, Answer, Unlock
<1>1. TypeOK /\ TypeOK'
  BY NextTypeOK DEF IInv
<1>2. \A r \in Requests : /\ answer[r] \notin {"broken", "empty"}
                          /\ pc[r] \in Locked => lock[clip[r]] = r
  BY DEF IInv, AnswersWhole, LockHeld
<1>3. \A r \in Requests : pc[r] # "idle" /\ Proxy(r) \in Present => file[Proxy(r)].full
  BY <1>1 DEF IInv, ProxiesComplete, TypeOK, Proxy
<1>4. ASSUME NEW r \in Requests, Arrive(r) PROVE IInv'
  BY <1>1, <1>2, <1>4, QuietStep DEF Arrive, TypeOK, Locked
<1>5. ASSUME NEW r \in Requests, Look(r) PROVE IInv'
  BY <1>1, <1>2, <1>3, <1>5, QuietStep DEF Look, serveCached, TypeOK, Locked
<1>6. ASSUME NEW r \in Requests, Lock(r) PROVE IInv'
  <2>1. clip[r] \in Clips /\ lock[clip[r]] = Nobody
    BY <1>1, <1>6 DEF Lock, TypeOK
  <2>2. \A q \in Requests : q # r /\ pc[q] \in Locked => lock'[clip[q]] = q
    BY <1>1, <1>2, <1>6, <2>1, StreamAssumption DEF Lock, TypeOK, Locked
  <2> QED
    BY <1>1, <1>2, <1>6, <2>1, <2>2, QuietStep DEF Lock, TypeOK, Locked
<1>7. ASSUME NEW r \in Requests, LookAgain(r) PROVE IInv'
  BY <1>1, <1>2, <1>3, <1>7, QuietStep DEF LookAgain, serveCached, TypeOK, Locked, Proxy, Present
<1>8. ASSUME NEW r \in Requests, StartEncode(r) PROVE IInv'
  <2>1. Proxy(r) \in Names /\ Proxy(r) # Tmp(r) /\ file[Proxy(r)] = NoFile
    BY <1>1, <1>8, NamesOfRequests DEF StartEncode, IInv, EncodesOnlyMisses, Present
  <2>2. file' = [file EXCEPT ![Tmp(r)] = Written(FALSE)]
    BY <1>8 DEF StartEncode
  <2> QED
    BY <1>1, <1>2, <1>8, <2>1, <2>2, WorkStep DEF StartEncode, TypeOK, Locked
<1>9. ASSUME NEW r \in Requests, EndEncode(r) PROVE IInv'
  <2>1. /\ Proxy(r) \in Names /\ Tmp(r) \in Names
        /\ Proxy(r) # Tmp(r) /\ file[Proxy(r)] = NoFile
    BY <1>1, <1>9, NamesOfRequests DEF EndEncode, IInv, EncodesOnlyMisses, Present
  <2>2. \/ file' = [file EXCEPT ![Tmp(r)] = Written(TRUE)]
        \/ file' = file /\ (pc'[r] = "promote" => file[Tmp(r)] = NoFile)
    BY <1>1, <1>9, <2>1 DEF EndEncode, TypeOK, Present
  <2>3. \A n \in Names : n # Tmp(r) => file'[n] = file[n]
    BY <1>1, <2>2 DEF TypeOK
  <2>4. file'[Tmp(r)] = Written(TRUE) \/ (pc'[r] = "promote" => file'[Tmp(r)] = NoFile)
    BY <1>1, <2>1, <2>2 DEF TypeOK
  <2>5. pc' = [pc EXCEPT ![r] = "promote"] \/ pc' = [pc EXCEPT ![r] = "sweepFailed"]
    BY <1>9 DEF EndEncode
  <2> QED
    <3>1. /\ pc'[r] \in {"promote", "sweepFailed"} /\ UNCHANGED << clip, lock, doomed, answer >>
          /\ \A q \in Requests : q # r => pc'[q] = pc[q]
      BY <1>1, <1>9, <2>5 DEF EndEncode, TypeOK
    <3>2. pc[r] \in Locked /\ pc'[r] \in Locked
      BY <1>9, <3>1 DEF EndEncode, Locked
    <3>3. file'[Proxy(r)] = NoFile
      BY <2>1, <2>3
    <3> QED
      BY <1>1, <1>2, <2>1, <2>3, <2>4, <3>1, <3>2, <3>3, WorkStep
<1>10. ASSUME NEW r \in Requests, Promote(r) PROVE IInv'
  <2>1. /\ Proxy(r) \in Names /\ Tmp(r) \in Names
        /\ Proxy(r) # Tmp(r) /\ file[Proxy(r)] = NoFile
    BY <1>1, <1>10, NamesOfRequests DEF Promote, IInv, EncodesOnlyMisses, Present
  <2>2. Tmp(r) \in Present => file[Tmp(r)] = Written(TRUE)
    BY <1>10 DEF Promote, IInv, OutputWhole, Present
  <2>3. Proxy(r) \notin doomed
    BY <1>1, <1>10, <2>1 DEF Promote, IInv, DoomedOld, TypeOK, Proxy, Present
  <2>4. CASE Tmp(r) \in Present
    <3>1. /\ file' = [file EXCEPT ![Proxy(r)] = file[Tmp(r)], ![Tmp(r)] = NoFile]
          /\ pc' = [pc EXCEPT ![r] = "sweep"]
      BY <1>10, <2>4 DEF Promote
    <3>2. file'[Proxy(r)] = Written(TRUE)
      BY <1>1, <2>1, <2>2, <2>4, <3>1 DEF TypeOK
    <3>3. \A n \in Names : n \notin {Proxy(r), Tmp(r)} => file'[n] = file[n]
      BY <1>1, <3>1 DEF TypeOK
    <3>4. /\ pc'[r] = "sweep" /\ UNCHANGED << clip, lock, doomed, answer >>
          /\ \A q \in Requests : q # r => pc'[q] = pc[q]
      BY <1>1, <1>10, <3>1 DEF Promote, TypeOK
    <3>5. pc[r] \in Locked /\ pc'[r] \in Locked
      BY <1>10, <3>4 DEF Promote, Locked
    <3> QED
      BY <1>1, <1>2, <2>3, <3>2, <3>3, <3>4, <3>5, WorkStep
  <2>5. CASE Tmp(r) \notin Present
    <3>1. file' = file /\ pc' = [pc EXCEPT ![r] = "sweepFailed"]
      BY <1>10, <2>5 DEF Promote
    <3>2. /\ pc'[r] = "sweepFailed" /\ UNCHANGED << clip, lock, doomed, answer >>
          /\ \A q \in Requests : q # r => pc'[q] = pc[q]
      BY <1>1, <1>10, <3>1 DEF Promote, TypeOK
    <3>3. pc[r] \in Locked /\ pc'[r] \in Locked
      BY <1>10, <3>2 DEF Promote, Locked
    <3> QED
      BY <1>1, <1>2, <3>1, <3>2, <3>3, WorkStep
  <2> QED
    BY <2>4, <2>5
<1>11. ASSUME NEW r \in Requests, Sweep(r) PROVE IInv'
  <2>1. Proxy(r) \in Names /\ Proxy(r) # Tmp(r)
    BY <1>1, <1>11, NamesOfRequests DEF Sweep
  <2>2. \A n \in Names : n # Tmp(r) => file'[n] = file[n]
    BY <1>1, <1>11 DEF Sweep, TypeOK
  <2>3. pc[r] = "sweep" => file[Proxy(r)] = Written(TRUE)
    BY DEF IInv, ProxyFresh
  <2>4. \/ pc[r] = "sweep" /\ pc' = [pc EXCEPT ![r] = "lookLast"] /\ answer' = answer
        \/ pc' = [pc EXCEPT ![r] = "sendingLocked"] /\ answer' = [answer EXCEPT ![r] = "error"]
    BY <1>11 DEF Sweep
  <2> QED
    <3>1. UNCHANGED << clip, lock, doomed >> /\ pc[r] \in Locked
      BY <1>11 DEF Sweep, Locked
    <3>2. /\ pc'[r] \in {"lookLast", "sendingLocked"} /\ pc'[r] \in Locked
          /\ answer'[r] \notin {"broken", "empty"}
          /\ \A q \in Requests : q # r => pc'[q] = pc[q] /\ answer'[q] = answer[q]
      BY <1>1, <1>2, <2>4 DEF TypeOK, Locked
    <3>3. pc'[r] = "lookLast" => file[Proxy(r)] = Written(TRUE)
      BY <1>1, <2>3, <2>4 DEF TypeOK
    <3>4. file'[Proxy(r)] = file[Proxy(r)] /\ \A n \in Names : n \notin {Proxy(r), Tmp(r)} => file'[n] = file[n]
      BY <2>1, <2>2
    <3> QED
      BY <1>1, <3>1, <3>2, <3>3, <3>4, WorkStep
<1>12. ASSUME NEW r \in Requests, LookLast(r) PROVE IInv'
  <2>1. file[Proxy(r)] = Written(TRUE) /\ Written(TRUE).full /\ Written(TRUE) # NoFile
    <3>1. Written(TRUE) \in Files /\ Written(TRUE).full
      BY DEF Written, Files
    <3>2. file[Proxy(r)] = Written(TRUE)
      BY <1>12 DEF LookLast, IInv, ProxyFresh
    <3> QED
      BY <3>1, <3>2, StreamAssumption DEF Files
  <2>2. Proxy(r) \in Present
    BY <1>1, <1>12, <2>1, NamesOfRequests DEF LookLast, Present
  <2>3. /\ pc' = [pc EXCEPT ![r] = "sendingLocked"] /\ answer' = [answer EXCEPT ![r] = "whole"]
        /\ UNCHANGED << file, lock, clip, doomed >>
    BY <1>12, <2>1, <2>2 DEF LookLast, serveCached
  <2> QED
    BY <1>1, <1>2, <1>12, <2>3, QuietStep DEF LookLast, TypeOK, Locked
<1>13. ASSUME NEW r \in Requests, Sent(r) PROVE IInv'
  <2>1. \A q \in Requests : q # r /\ pc[q] \in Locked => lock'[clip[q]] = q
    <3>1. CASE lock' = lock
      BY <1>2, <3>1
    <3>2. CASE pc[r] = "sendingLocked" /\ lock' = [lock EXCEPT ![clip[r]] = Nobody]
      BY <1>1, <1>2, <3>2, LockExcludes DEF TypeOK, Locked, IInv
    <3> QED
      BY <1>13, <3>1, <3>2 DEF Sent
  <2> QED
    BY <1>1, <1>2, <1>13, <2>1, QuietStep DEF Sent, TypeOK, Locked
<1>14. CASE ListCache \/ (\E n \in listed : Examine(n))
  <2>1. UNCHANGED << file, requestVars >> /\ \A n \in doomed' : n \in Present /\ (n \in doomed \/ file[n].old)
    BY <1>1, <1>14 DEF ListCache, Examine, TypeOK
  <2> QED
    BY <1>1, <2>1 DEF IInv, LockHeld, EncodesOnlyMisses, OutputWhole, ProxyFresh, ProxiesComplete,
                      DoomedOld, AnswersWhole, Present, Proxy, Tmp, Written
<1>15. ASSUME NEW n \in doomed, Remove(n) PROVE IInv'
  <2>1. n \in Names /\ doomed' = {} /\ UNCHANGED requestVars /\ file'[n] = NoFile
        /\ \A m \in Names : m # n => file'[m] = file[m]
    BY <1>1, <1>15 DEF Remove, TypeOK
  <2>2. ASSUME NEW r \in Requests, pc[r] \in {"sweep", "lookLast"} PROVE file'[Proxy(r)] = file[Proxy(r)]
    <3>1. file[Proxy(r)] = Written(TRUE) /\ ~ Written(TRUE).old
      BY <2>2 DEF IInv, ProxyFresh, Written
    <3>2. Proxy(r) \in Names /\ clip[r] \in Clips
      BY <1>1, <2>2, NamesOfRequests
    <3>3. Proxy(r) # n
      BY <3>1, <3>2 DEF IInv, DoomedOld, Proxy
    <3> QED
      BY <2>1, <3>2, <3>3
  <2>3. ProxyFresh'
    BY <2>1, <2>2 DEF IInv, ProxyFresh, Proxy, Written
  <2>4. OutputWhole'
    <3>1. \A r \in Requests : pc[r] = "promote" => Tmp(r) \in Names
      BY <1>1, NamesOfRequests
    <3> QED
      BY <2>1, <3>1 DEF IInv, OutputWhole, Tmp, Written
  <2>5. EncodesOnlyMisses' /\ ProxiesComplete' /\ DoomedOld'
    BY <2>1 DEF IInv, EncodesOnlyMisses, ProxiesComplete, DoomedOld, Present, Proxy
  <2> QED
    BY <1>1, <2>1, <2>3, <2>4, <2>5 DEF IInv, LockHeld, AnswersWhole
<1>16. ASSUME NEW n \in Names, Age(n) PROVE IInv'
  <2>1. /\ n \in Present /\ ~InUse(n) /\ UNCHANGED << requestVars, cleanerVars >>
        /\ file' = [file EXCEPT ![n].old = TRUE]
    BY <1>16 DEF Age
  <2>2. \A m \in Names : m # n => file'[m] = file[m]
    BY <1>1, <2>1 DEF TypeOK
  <2>3. file'[n] # NoFile /\ file'[n].full = file[n].full /\ file'[n].old
    <3>1. file[n] \in Files /\ file'[n] = [file[n] EXCEPT !.old = TRUE]
      BY <1>1, <2>1 DEF TypeOK, Present
    <3>2. file'[n] \in Files /\ file'[n].full = file[n].full /\ file'[n].old
      BY <3>1 DEF Files
    <3> QED
      BY <3>2, StreamAssumption DEF Files
  <2>4. ProxyFresh'
    <3>1. \A r \in Requests : pc[r] \in {"sweep", "lookLast"} => Proxy(r) # n /\ Proxy(r) \in Names
      BY <1>1, <2>1, NamesOfRequests DEF InUse
    <3> QED
      BY <2>1, <2>2, <3>1 DEF IInv, ProxyFresh, Proxy, Written
  <2>5. OutputWhole'
    <3>1. \A r \in Requests : pc[r] = "promote" => Tmp(r) # n /\ Tmp(r) \in Names
      BY <1>1, <2>1, NamesOfRequests DEF InUse
    <3> QED
      BY <2>1, <2>2, <3>1 DEF IInv, OutputWhole, Tmp, Written
  <2>6. EncodesOnlyMisses' /\ ProxiesComplete' /\ DoomedOld'
    BY <2>1, <2>2, <2>3 DEF IInv, EncodesOnlyMisses, ProxiesComplete, DoomedOld, Present, Proxy
  <2> QED
    BY <1>1, <2>1, <2>4, <2>5, <2>6 DEF IInv, LockHeld, AnswersWhole
<1>17. CASE Crash
  BY <1>1, <1>17 DEF Crash, IInv, LockHeld, EncodesOnlyMisses, OutputWhole, ProxyFresh,
                     ProxiesComplete, DoomedOld, AnswersWhole, Present, Locked
<1>18. CASE UNCHANGED vars
  BY <1>1, <1>18 DEF vars, IInv, LockHeld, EncodesOnlyMisses, OutputWhole, ProxyFresh,
                     ProxiesComplete, DoomedOld, AnswersWhole, Present, Proxy, Tmp, Written
<1> QED
  BY <1>4, <1>5, <1>6, <1>7, <1>8, <1>9, <1>10, <1>11, <1>12, <1>13, <1>14, <1>15, <1>16, <1>17, <1>18
     DEF Next, ServeProxy, CleanCache

-----------------------------------------------------------------------------
(* The variables keep their shape; the cleaner is about to remove at most one    *)
(* file at a time (TypeOK; CleanCache).                                        *)
THEOREM TypeCorrect == Spec => []TypeOK
BY InitIInv, NextIInv, PTL DEF Spec, IInv

(* Only whole transcodes ever have a proxy's name (ProxiesComplete).           *)
THEOREM CacheHoldsWholeProxies == Spec => []ProxiesComplete
BY InitIInv, NextIInv, PTL DEF Spec, IInv

(* No viewer is sent part of a transcode, or nothing (AnswersWhole).           *)
THEOREM ViewersGetWholeProxies == Spec => []AnswersWhole
BY InitIInv, NextIInv, PTL DEF Spec, IInv

(* No request transcodes a clip that has a proxy (EncodesOnlyMisses).           *)
THEOREM TranscodesAreMisses == Spec => []EncodesOnlyMisses
BY InitIInv, NextIInv, PTL DEF Spec, IInv

-----------------------------------------------------------------------------
(* No lock is leaked: who holds one is between the Lock and the deferred Unlock  *)
(* of a request for that clip.  EveryRequestEnds needs it: a waiter waits for a   *)
(* request that still runs.                                                      *)

LocksInUse ==
  \A c \in Clips : lock[c] # Nobody => pc[lock[c]] \in Locked /\ clip[lock[c]] = c

LEMMA NextLocksInUse == TypeOK /\ LockHeld /\ LocksInUse /\ [Next]_vars => LocksInUse'
<1> SUFFICES ASSUME TypeOK, LockHeld, LocksInUse, [Next]_vars PROVE LocksInUse'
  OBVIOUS
<1> USE StreamAssumption DEF Goto, Answer
<1>1. ASSUME NEW r \in Requests, NEW where,
             pc[r] \in Locked => where \in Locked,
             Goto(r, where), UNCHANGED << lock, clip >>
      PROVE  LocksInUse'
  BY <1>1 DEF TypeOK, LocksInUse
<1>2. ASSUME NEW r \in Requests, Arrive(r) PROVE LocksInUse'
  <2>1. PICK c \in Clips : clip' = [clip EXCEPT ![r] = c]
    BY <1>2 DEF Arrive
  <2>2. pc[r] \notin Locked /\ pc' = [pc EXCEPT ![r] = "look"] /\ lock' = lock
    BY <1>2 DEF Arrive, Locked
  <2>3. \A q \in Requests : pc[q] \in Locked => pc'[q] = pc[q] /\ clip'[q] = clip[q]
    BY <2>1, <2>2 DEF TypeOK
  <2> QED
    BY <2>2, <2>3 DEF TypeOK, LocksInUse
<1>3. ASSUME NEW r \in Requests, Look(r) PROVE LocksInUse'
  BY <1>1, <1>3 DEF Look, serveCached, Locked
<1>4. ASSUME NEW r \in Requests, Lock(r) PROVE LocksInUse'
  <2>1. /\ pc[r] = "wait" /\ lock[clip[r]] = Nobody /\ clip' = clip
        /\ lock' = [lock EXCEPT ![clip[r]] = r] /\ pc' = [pc EXCEPT ![r] = "lookAgain"]
    BY <1>4 DEF Lock
  <2>2. clip[r] \in Clips /\ pc[r] \notin Locked /\ "lookAgain" \in Locked
    BY <2>1 DEF TypeOK, Locked
  <2>3. SUFFICES ASSUME NEW c \in Clips, lock'[c] # Nobody
                 PROVE  pc'[lock'[c]] \in Locked /\ clip[lock'[c]] = c
    BY <2>1 DEF LocksInUse
  <2>4. CASE c = clip[r]
    BY <2>1, <2>2, <2>4 DEF TypeOK
  <2>5. CASE c # clip[r]
    <3>1. lock'[c] = lock[c] /\ lock[c] \in Requests
      BY <2>1, <2>3, <2>5 DEF TypeOK
    <3>2. pc[lock[c]] \in Locked /\ clip[lock[c]] = c
      BY <2>3, <3>1 DEF LocksInUse
    <3> QED
      BY <2>1, <2>2, <3>1, <3>2 DEF TypeOK
  <2> QED
    BY <2>4, <2>5
<1>5. ASSUME NEW r \in Requests, LookAgain(r) \/ LookLast(r) PROVE LocksInUse'
  BY <1>1, <1>5 DEF LookAgain, LookLast, serveCached, Locked
<1>6. ASSUME NEW r \in Requests, StartEncode(r) \/ EndEncode(r) PROVE LocksInUse'
  BY <1>1, <1>6 DEF StartEncode, EndEncode, Locked
<1>7. ASSUME NEW r \in Requests, Promote(r) \/ Sweep(r) PROVE LocksInUse'
  BY <1>1, <1>7 DEF Promote, Sweep, Locked
<1>8. ASSUME NEW r \in Requests, Sent(r) PROVE LocksInUse'
  <2>1. pc' = [pc EXCEPT ![r] = "idle"] /\ clip' = [clip EXCEPT ![r] = NoClip]
    BY <1>8 DEF Sent
  <2>2. \A q \in Requests : q # r => pc'[q] = pc[q] /\ clip'[q] = clip[q]
    BY <2>1 DEF TypeOK
  <2>3. CASE pc[r] = "sending" /\ UNCHANGED lock
    <3>1. \A c \in Clips : lock[c] # Nobody => lock[c] # r
      BY <2>3 DEF LocksInUse, Locked
    <3> QED
      BY <2>2, <2>3, <3>1 DEF TypeOK, LocksInUse
  <2>4. CASE pc[r] = "sendingLocked" /\ Unlock(r)
    <3>1. clip[r] \in Clips /\ lock' = [lock EXCEPT ![clip[r]] = Nobody]
      BY <2>4 DEF TypeOK, Unlock
    <3>2. \A c \in Clips : lock'[c] # Nobody => lock'[c] = lock[c] /\ lock[c] # r
      BY <3>1 DEF TypeOK, LocksInUse
    <3> QED
      BY <2>2, <3>2 DEF TypeOK, LocksInUse
  <2> QED
    BY <1>8, <2>3, <2>4 DEF Sent
<1>9. CASE UNCHANGED requestVars
  BY <1>9 DEF requestVars, LocksInUse
<1>10. CASE Crash
  BY <1>10 DEF Crash, LocksInUse
<1> QED
  BY <1>2, <1>3, <1>4, <1>5, <1>6, <1>7, <1>8, <1>9, <1>10
     DEF Next, ServeProxy, CleanCache, ListCache, Examine, Remove, Age, requestVars, vars

(* Whoever holds a clip's lock is a request for it that has still to release     *)
(* it, also after an error, a hit or a lost client (ServeProxy's defer).         *)
THEOREM NoLockLeaked == Spec => []LocksInUse
<1>1. Init => LocksInUse
  BY DEF Init, LocksInUse
<1>2. IInv => TypeOK /\ LockHeld
  BY DEF IInv
<1> QED
  BY <1>1, <1>2, InitIInv, NextIInv, NextLocksInUse, PTL DEF Spec

-----------------------------------------------------------------------------
(* The refinement of ProxyCache.  Besides the invariant above: an answer is     *)
(* given at the end, and a request that is about to be refused still holds the    *)
(* lock of a clip without a proxy.                                             *)

AnsweredLast == \A r \in Requests : answer[r] # "none" <=> pc[r] \in {"sending", "sendingLocked"}

FailedMiss == \A r \in Requests : pc[r] = "sweepFailed" => Proxy(r) \notin Present

RInv == IInv /\ AnsweredLast /\ FailedMiss

LEMMA InitRInv == Init => RInv
BY InitIInv DEF Init, RInv, AnsweredLast, FailedMiss

LEMMA NextAnsweredLast == TypeOK /\ AnsweredLast /\ [Next]_vars => AnsweredLast'
<1> SUFFICES ASSUME TypeOK, AnsweredLast, [Next]_vars PROVE AnsweredLast'
  OBVIOUS
<1> USE DEF Goto, Answer
<1>1. ASSUME NEW r \in Requests, NEW where, where \notin {"sending", "sendingLocked"},
             pc[r] \notin {"sending", "sendingLocked"}, Goto(r, where), answer' = answer
      PROVE  AnsweredLast'
  BY <1>1 DEF TypeOK, AnsweredLast
<1>2. ASSUME NEW r \in Requests, NEW where \in {"sending", "sendingLocked"}, NEW what,
             what # "none", Goto(r, where), Answer(r, what)
      PROVE  AnsweredLast'
  BY <1>2 DEF TypeOK, AnsweredLast
<1>3. ASSUME NEW r \in Requests, Arrive(r) \/ Lock(r) \/ StartEncode(r) PROVE AnsweredLast'
  BY <1>1, <1>3 DEF Arrive, Lock, StartEncode
<1>4. ASSUME NEW r \in Requests, Look(r) \/ LookAgain(r) \/ LookLast(r) PROVE AnsweredLast'
  BY <1>1, <1>2, <1>4 DEF Look, LookAgain, LookLast, serveCached
<1>5. ASSUME NEW r \in Requests, EndEncode(r) \/ Promote(r) PROVE AnsweredLast'
  BY <1>1, <1>5 DEF EndEncode, Promote
<1>6. ASSUME NEW r \in Requests, Sweep(r) PROVE AnsweredLast'
  BY <1>1, <1>2, <1>6 DEF Sweep
<1>7. ASSUME NEW r \in Requests, Sent(r) PROVE AnsweredLast'
  BY <1>7 DEF Sent, TypeOK, AnsweredLast
<1>8. CASE UNCHANGED << pc, answer >>
  BY <1>8 DEF AnsweredLast
<1>9. CASE Crash
  BY <1>9 DEF Crash, AnsweredLast
<1> QED
  BY <1>3, <1>4, <1>5, <1>6, <1>7, <1>8, <1>9
     DEF Next, ServeProxy, CleanCache, ListCache, Examine, Remove, Age, requestVars, vars

\* A proxy appears by the rename, and under the lock of its clip.
LEMMA ProxiesAppear ==
  ASSUME IInv, [Next]_vars, NEW c \in Clips,
         << c, "proxy" >> \notin Present, << c, "proxy" >> \in Present'
  PROVE  \E r \in Requests : Promote(r) /\ pc[r] = "promote" /\ clip[r] = c
<1> DEFINE n == << c, "proxy" >>
<1>1. TypeOK /\ n \in Names /\ file[n] = NoFile /\ file'[n] # NoFile
  BY DEF IInv, Names, Present
<1>2. file' # file
  BY <1>1
<1>3. ASSUME NEW r \in Requests, StartEncode(r) \/ EndEncode(r) \/ Sweep(r) PROVE FALSE
  <2>1. Tmp(r) # n
    BY DEF Tmp
  <2>2. \A m \in Names : m # Tmp(r) => file'[m] = file[m]
    BY <1>1, <1>3 DEF StartEncode, EndEncode, Sweep, TypeOK
  <2> QED
    BY <1>1, <2>1, <2>2
<1>4. ASSUME NEW r \in Requests, Promote(r) PROVE pc[r] = "promote" /\ clip[r] = c
  <2>1. pc[r] = "promote" /\ file' = [file EXCEPT ![Proxy(r)] = file[Tmp(r)], ![Tmp(r)] = NoFile]
    BY <1>2, <1>4 DEF Promote
  <2>2. \A m \in Names : m \notin {Proxy(r), Tmp(r)} => file'[m] = file[m]
    BY <1>1, <2>1 DEF TypeOK
  <2>3. n = Proxy(r)
    BY <1>1, <2>2 DEF Tmp
  <2> QED
    BY <2>1, <2>3 DEF Proxy
<1>5. ASSUME NEW m \in doomed, Remove(m) PROVE FALSE
  BY <1>1, <1>5 DEF Remove, TypeOK
<1>6. ASSUME NEW m \in Names, Age(m) PROVE FALSE
  <2>1. m \in Present /\ file' = [file EXCEPT ![m].old = TRUE]
    BY <1>6 DEF Age
  <2>2. m # n
    BY <1>1, <2>1 DEF Present
  <2> QED
    BY <1>1, <2>1, <2>2 DEF TypeOK
<1> HIDE DEF n
<1> QED
  BY <1>2, <1>3, <1>4, <1>5, <1>6
     DEF Next, vars, ServeProxy, Arrive, Look, serveCached, Lock, LookAgain, LookLast, Sent,
         CleanCache, ListCache, Examine, Crash

LEMMA NextFailedMiss == RInv /\ [Next]_vars => FailedMiss'
<1> SUFFICES ASSUME RInv, [Next]_vars, NEW q \in Requests, pc'[q] = "sweepFailed"
             PROVE  Proxy(q)' \notin Present'
  BY DEF FailedMiss
<1>1. IInv /\ TypeOK /\ LockHeld
  BY DEF RInv, IInv
<1>2. /\ pc[q] \in {"encode", "promote", "sweepFailed"} /\ clip'[q] = clip[q]
      /\ \A r \in Requests : pc[r] = "promote" /\ Promote(r) /\ r = q => Tmp(r) \notin Present
  <2> USE DEF Goto
  <2>1. ASSUME NEW r \in Requests, ServeProxy(r)
        PROVE  /\ clip' = clip /\ \E where : pc' = [pc EXCEPT ![r] = where]
               /\ pc'[r] = "sweepFailed" => pc[r] \in {"encode", "promote"}
    <3>1. clip' = clip /\ \E where : pc' = [pc EXCEPT ![r] = where]
      BY <2>1 DEF ServeProxy, Look, serveCached, Lock, LookAgain, StartEncode, EndEncode,
                  Promote, Sweep, LookLast
    <3>2. pc'[r] = "sweepFailed" => pc[r] \in {"encode", "promote"}
      BY <1>1, <2>1 DEF ServeProxy, Look, serveCached, Lock, LookAgain, StartEncode, EndEncode,
                        Promote, Sweep, LookLast, TypeOK
    <3> QED
      BY <3>1, <3>2
  <2>2. ASSUME NEW r \in Requests, Arrive(r) \/ Sent(r)
        PROVE  r # q /\ clip'[q] = clip[q] /\ pc'[q] = pc[q]
    BY <1>1, <2>2 DEF Arrive, Sent, TypeOK
  <2>3. CASE UNCHANGED requestVars
    BY <1>1, <2>3 DEF requestVars, Promote, TypeOK
  <2>4. ~Crash
    BY DEF Crash
  <2>5. \A r \in Requests : pc[r] = "promote" /\ Promote(r) /\ r = q => Tmp(r) \notin Present
    BY <1>1 DEF Promote, TypeOK
  <2> QED
    BY <1>1, <2>1, <2>2, <2>3, <2>4, <2>5
       DEF Next, CleanCache, ListCache, Examine, Remove, Age, vars, requestVars, TypeOK
<1>3. clip[q] \in Clips /\ pc[q] \in Locked /\ Proxy(q)' = Proxy(q)
  BY <1>1, <1>2 DEF TypeOK, Locked, Proxy
<1>4. Proxy(q) \notin Present
  BY <1>1, <1>2 DEF RInv, IInv, EncodesOnlyMisses, FailedMiss
<1>5. SUFFICES ASSUME Proxy(q) \in Present' PROVE FALSE
  BY <1>3
<1>6. PICK r \in Requests : Promote(r) /\ pc[r] = "promote" /\ clip[r] = clip[q]
  BY <1>1, <1>3, <1>4, <1>5, ProxiesAppear DEF Proxy
<1>7. r = q
  BY <1>1, <1>3, <1>6, LockExcludes DEF Locked
<1>8. Tmp(q) \notin Present
  BY <1>2, <1>6, <1>7
<1>9. file' = file
  BY <1>6, <1>7, <1>8 DEF Promote
<1> QED
  BY <1>4, <1>5, <1>9 DEF Present

LEMMA NextRInv == RInv /\ [Next]_vars => RInv'
BY NextIInv, NextAnsweredLast, NextFailedMiss DEF RInv, IInv

-----------------------------------------------------------------------------
(* The step simulation. *)

LEMMA InitCacheRefines == Init => Cache!Init
<1> SUFFICES ASSUME Init PROVE Cache!Init
  OBVIOUS
<1>1. Present = {}
  BY DEF Init, Present
<1>2. Whole = {} /\ OldProxies = {}
  BY <1>1 DEF Whole, OldProxies
<1>3. Makers = {}
  BY DEF Init, Makers
<1> QED
  BY <1>2, <1>3 DEF Init, Cache!Init

\* Under the invariant every proxy is whole.
LEMMA WholeProxies ==
  ASSUME IInv, NEW r \in Requests, pc[r] # "idle"
  PROVE  clip[r] \in Whole <=> Proxy(r) \in Present
<1>1. clip[r] \in Clips
  BY DEF IInv, TypeOK
<1> QED
  BY <1>1 DEF IInv, ProxiesComplete, Whole, Proxy

\* A step that leaves proxies as they are.
LEMMA SameProxies ==
  ASSUME \A c \in Clips : file'[<< c, "proxy" >>] = file[<< c, "proxy" >>]
  PROVE  Whole' = Whole /\ OldProxies' = OldProxies
<1>1. \A c \in Clips : << c, "proxy" >> \in Names
  BY DEF Names
<1>2. Whole' = Whole
  BY <1>1 DEF Whole, Present
<1> QED
  BY <1>2 DEF OldProxies, Whole

\* A step of a request that writes to its temporary file at most.
LEMMA TmpOnly ==
  ASSUME TypeOK, NEW r \in Requests, \A n \in Names : n # Tmp(r) => file'[n] = file[n]
  PROVE  Whole' = Whole /\ OldProxies' = OldProxies
<1>1. \A c \in Clips : << c, "proxy" >> \in Names /\ << c, "proxy" >> # Tmp(r)
  BY DEF Names, Tmp
<1> QED
  BY <1>1, SameProxies

LEMMA MakersOf ==
  ASSUME TypeOK, NEW r \in Requests, NEW where, pc' = [pc EXCEPT ![r] = where]
  PROVE  Makers' = IF where \in {"sweep", "lookLast"} THEN Makers \cup {r} ELSE Makers \ {r}
BY DEF TypeOK, Makers

\* A hit is an answer, whichever of the three looks it is.
LEMMA HitServes ==
  ASSUME RInv, NEW r \in Requests, NEW sending \in {"sending", "sendingLocked"},
         pc[r] \in {"look", "lookAgain", "lookLast"}, serveCached(r, sending)
  PROVE  Cache!Serve(r)
<1> USE DEF Goto, Answer
<1>1. TypeOK /\ IInv /\ clip[r] # NoClip /\ answer[r] = "none"
  BY DEF RInv, IInv, TypeOK, AnsweredLast
<1>2. clip[r] \in Whole
  BY <1>1, WholeProxies DEF serveCached
<1>3. answer' = [answer EXCEPT ![r] = "whole"]
  BY <1>2 DEF serveCached, Whole, Proxy
<1>4. Makers' = Makers \ {r}
  BY <1>1, MakersOf DEF serveCached
<1>5. Whole' = Whole /\ OldProxies' = OldProxies /\ clip' = clip
  BY SameProxies DEF serveCached
<1> QED
  BY <1>1, <1>2, <1>3, <1>4, <1>5 DEF Cache!Serve, Cache!Waits

\* A request that looks, waits or works moves, and nothing is seen of it.
LEMMA Unseen ==
  ASSUME TypeOK, NEW r \in Requests, NEW where, Goto(r, where),
         where \in {"sweep", "lookLast"} <=> pc[r] \in {"sweep", "lookLast"},
         Whole' = Whole, OldProxies' = OldProxies, clip' = clip, answer' = answer
  PROVE  UNCHANGED Cache!cacheVars
<1>1. Makers' = Makers
  BY MakersOf DEF Goto, Makers
<1> QED
  BY <1>1 DEF Cache!cacheVars

LEMMA PromoteRefines ==
  ASSUME RInv, NEW r \in Requests, Promote(r), Tmp(r) \in Present
  PROVE  Cache!Make(r)
<1>1. TypeOK /\ IInv
  BY DEF RInv, IInv
<1>2. /\ file' = [file EXCEPT ![Proxy(r)] = file[Tmp(r)], ![Tmp(r)] = NoFile]
      /\ pc[r] = "promote" /\ pc' = [pc EXCEPT ![r] = "sweep"] /\ UNCHANGED << clip, answer >>
  BY DEF Promote, Goto
<1>3. /\ clip[r] \in Clips /\ clip[r] # NoClip /\ answer[r] = "none"
      /\ Proxy(r) \in Names /\ Tmp(r) \in Names /\ Proxy(r) # Tmp(r)
  BY <1>1, <1>2, NamesOfRequests, StreamAssumption DEF RInv, AnsweredLast, TypeOK
<1>4. clip[r] \notin Whole
  BY <1>1, <1>2, WholeProxies DEF IInv, EncodesOnlyMisses
<1>5. file'[Proxy(r)] = Written(TRUE)
  <2>1. file[Tmp(r)] = Written(TRUE)
    BY <1>1, <1>2 DEF IInv, OutputWhole, Present
  <2> QED
    BY <1>1, <1>2, <1>3, <2>1 DEF TypeOK
<1>6. \A n \in Names : n \notin {Proxy(r), Tmp(r)} => file'[n] = file[n]
  BY <1>1, <1>2 DEF TypeOK
<1>7. \A c \in Clips : c # clip[r] => /\ << c, "proxy" >> \in Names
                                      /\ file'[<< c, "proxy" >>] = file[<< c, "proxy" >>]
  BY <1>6 DEF Names, Proxy, Tmp
<1>8. /\ << clip[r], "proxy" >> \in Names
      /\ file'[<< clip[r], "proxy" >>] = Written(TRUE)
  BY <1>3, <1>5 DEF Proxy
<1>9. Written(TRUE) # NoFile /\ Written(TRUE).full /\ ~Written(TRUE).old
  <2>1. Written(TRUE) \in Files /\ Written(TRUE).full /\ ~Written(TRUE).old
    BY DEF Written, Files
  <2> QED
    BY <2>1, StreamAssumption DEF Files
<1>10. Whole' = Whole \cup {clip[r]}
  BY <1>3, <1>7, <1>8, <1>9 DEF Whole, Present
<1>11. OldProxies' = OldProxies
  BY <1>4, <1>7, <1>8, <1>9, <1>10 DEF OldProxies, Whole
<1>12. Makers' = Makers \cup {r}
  BY <1>1, <1>2, MakersOf
<1> QED
  BY <1>2, <1>3, <1>4, <1>10, <1>11, <1>12 DEF Cache!Make, Cache!Waits

LEMMA RemoveRefines ==
  ASSUME RInv, NEW n \in doomed, Remove(n)
  PROVE  (\E c \in Clips : Cache!Evict(c)) \/ UNCHANGED Cache!cacheVars
<1>1. TypeOK /\ IInv
  BY DEF RInv, IInv
<1>2. PICK c \in Clips, kind \in {"proxy", "tmp"} : n = << c, kind >>
  BY <1>1 DEF TypeOK, Names
<1>3. /\ file'[n] = NoFile /\ UNCHANGED requestVars
      /\ \A m \in Names : m # n => file'[m] = file[m]
  BY <1>1 DEF Remove, TypeOK
<1>4. UNCHANGED << clip, answer >> /\ Makers' = Makers
  BY <1>3 DEF requestVars, Makers
<1>5. CASE kind = "tmp"
  <2>1. \A d \in Clips : file'[<< d, "proxy" >>] = file[<< d, "proxy" >>]
    BY <1>2, <1>3, <1>5 DEF Names
  <2> QED
    BY <1>4, <2>1, SameProxies DEF Cache!cacheVars
<1>6. CASE kind = "proxy"
  <2>1. c \in OldProxies
    BY <1>1, <1>2, <1>6 DEF IInv, DoomedOld, ProxiesComplete, OldProxies, Whole
  <2>2. \A d \in Clips : d # c => /\ << d, "proxy" >> \in Names
                                  /\ file'[<< d, "proxy" >>] = file[<< d, "proxy" >>]
    BY <1>2, <1>3, <1>6 DEF Names
  <2>3. file'[<< c, "proxy" >>] = NoFile
    BY <1>2, <1>3, <1>6
  <2>4. Whole' = Whole \ {c}
    BY <2>2, <2>3 DEF Whole, Present
  <2>5. OldProxies' = OldProxies \ {c}
    BY <2>2, <2>4 DEF OldProxies, Whole
  <2> QED
    BY <1>4, <2>1, <2>4, <2>5 DEF Cache!Evict
<1> QED
  BY <1>5, <1>6

LEMMA AgeRefines ==
  ASSUME RInv, NEW n \in Names, Age(n)
  PROVE  (\E c \in Clips : Cache!GrowStale(c)) \/ UNCHANGED Cache!cacheVars
<1>1. TypeOK /\ IInv
  BY DEF RInv, IInv
<1>2. PICK c \in Clips, kind \in {"proxy", "tmp"} : n = << c, kind >>
  BY DEF Names
<1>3. /\ n \in Present /\ ~file[n].old /\ ~InUse(n) /\ UNCHANGED requestVars
      /\ file' = [file EXCEPT ![n].old = TRUE]
  BY DEF Age
<1>4. \A m \in Names : m # n => file'[m] = file[m]
  BY <1>1, <1>3 DEF TypeOK
<1>5. UNCHANGED << clip, answer >> /\ Makers' = Makers
  BY <1>3 DEF requestVars, Makers
<1>6. CASE kind = "tmp"
  <2>1. \A d \in Clips : file'[<< d, "proxy" >>] = file[<< d, "proxy" >>]
    BY <1>2, <1>4, <1>6 DEF Names
  <2> QED
    BY <1>5, <2>1, SameProxies DEF Cache!cacheVars
<1>7. CASE kind = "proxy"
  <2>1. c \in Whole \ OldProxies
    BY <1>1, <1>2, <1>3, <1>7 DEF IInv, ProxiesComplete, Whole, OldProxies
  <2>2. \A r \in Makers : clip[r] # c
    BY <1>2, <1>3, <1>7 DEF InUse, Makers, Proxy
  <2>3. \A d \in Clips : d # c => /\ << d, "proxy" >> \in Names
                                  /\ file'[<< d, "proxy" >>] = file[<< d, "proxy" >>]
    BY <1>2, <1>4, <1>7 DEF Names
  <2>4. file'[n] # NoFile /\ file'[n].full = file[n].full /\ file'[n].old
    <3>1. file[n] \in Files /\ file'[n] = [file[n] EXCEPT !.old = TRUE]
      BY <1>1, <1>3 DEF TypeOK, Present
    <3>2. file'[n] \in Files /\ file'[n].full = file[n].full /\ file'[n].old
      BY <3>1 DEF Files
    <3> QED
      BY <3>2, StreamAssumption DEF Files
  <2>5. Whole' = Whole
    BY <1>2, <1>3, <1>7, <2>3, <2>4 DEF Whole, Present
  <2>6. OldProxies' = OldProxies \cup {c}
    BY <1>2, <1>7, <2>1, <2>3, <2>4, <2>5 DEF OldProxies, Whole
  <2> QED
    BY <1>5, <2>1, <2>2, <2>5, <2>6 DEF Cache!GrowStale
<1> QED
  BY <1>6, <1>7

LEMMA CacheStepRefines == RInv /\ [Next]_vars => [Cache!Next]_(Cache!cacheVars)
<1> SUFFICES ASSUME RInv, [Next]_vars PROVE Cache!Next \/ UNCHANGED Cache!cacheVars
  OBVIOUS
<1>1. TypeOK /\ IInv
  BY DEF RInv, IInv
<1>2. ASSUME file' = file PROVE Whole' = Whole /\ OldProxies' = OldProxies
  BY <1>2, SameProxies
<1>3. ASSUME NEW r \in Requests, Arrive(r) PROVE Cache!Ask(r)
  <2>1. clip[r] = NoClip /\ pc' = [pc EXCEPT ![r] = "look"] /\ pc[r] = "idle"
    BY <1>1, <1>3 DEF Arrive, TypeOK, Goto
  <2>2. Makers' = Makers
    BY <1>1, <2>1, MakersOf DEF Makers
  <2> QED
    BY <1>2, <1>3, <2>1, <2>2 DEF Arrive, Cache!Ask
<1>4. ASSUME NEW r \in Requests, Look(r) \/ LookAgain(r)
      PROVE  Cache!Serve(r) \/ UNCHANGED Cache!cacheVars
  <2>1. CASE serveCached(r, "sending") \/ serveCached(r, "sendingLocked")
    BY <1>4, <2>1, HitServes DEF Look, LookAgain
  <2>2. CASE (Goto(r, "wait") \/ Goto(r, "start")) /\ UNCHANGED << file, answer, clip >>
    BY <1>1, <1>2, <1>4, <2>2, Unseen DEF Look, LookAgain
  <2> QED
    BY <1>4, <2>1, <2>2 DEF Look, LookAgain
<1>5. ASSUME NEW r \in Requests, Lock(r) PROVE UNCHANGED Cache!cacheVars
  BY <1>1, <1>2, <1>5, Unseen DEF Lock
<1>6. ASSUME NEW r \in Requests, StartEncode(r) \/ EndEncode(r) PROVE UNCHANGED Cache!cacheVars
  <2>1. \A n \in Names : n # Tmp(r) => file'[n] = file[n]
    BY <1>1, <1>6 DEF StartEncode, EndEncode, TypeOK
  <2>2. Whole' = Whole /\ OldProxies' = OldProxies
    BY <1>1, <2>1, TmpOnly
  <2>3. /\ pc[r] \notin {"sweep", "lookLast"} /\ UNCHANGED << clip, answer >>
        /\ Goto(r, "encode") \/ Goto(r, "promote") \/ Goto(r, "sweepFailed")
    BY <1>6 DEF StartEncode, EndEncode
  <2> QED
    BY <1>1, <2>2, <2>3, Unseen
<1>7. ASSUME NEW r \in Requests, Promote(r) PROVE Cache!Make(r) \/ UNCHANGED Cache!cacheVars
  <2>1. CASE Tmp(r) \notin Present
    BY <1>1, <1>2, <1>7, <2>1, Unseen DEF Promote
  <2> QED
    BY <1>7, <2>1, PromoteRefines
<1>8. ASSUME NEW r \in Requests, Sweep(r) PROVE Cache!Refuse(r) \/ UNCHANGED Cache!cacheVars
  <2>1. \A n \in Names : n # Tmp(r) => file'[n] = file[n]
    BY <1>1, <1>8 DEF Sweep, TypeOK
  <2>2. Whole' = Whole /\ OldProxies' = OldProxies
    BY <1>1, <2>1, TmpOnly
  <2>3. CASE pc[r] = "sweep"
    BY <1>1, <1>8, <2>2, <2>3, Unseen DEF Sweep
  <2>4. CASE pc[r] = "sweepFailed"
    <3>1. /\ pc' = [pc EXCEPT ![r] = "sendingLocked"]
          /\ answer' = [answer EXCEPT ![r] = "error"] /\ clip' = clip
      BY <1>8, <2>4 DEF Sweep, Goto, Answer
    <3>2. clip[r] # NoClip /\ answer[r] = "none" /\ clip[r] \notin Whole
      BY <1>1, <2>4, WholeProxies DEF RInv, AnsweredLast, FailedMiss, TypeOK
    <3>3. Makers' = Makers
      BY <1>1, <2>4, <3>1, MakersOf DEF Makers
    <3> QED
      BY <2>2, <3>1, <3>2, <3>3 DEF Cache!Refuse, Cache!Waits
  <2> QED
    BY <1>8, <2>3, <2>4 DEF Sweep
<1>9. ASSUME NEW r \in Requests, LookLast(r) PROVE Cache!Serve(r)
  <2>1. Proxy(r) \in Present
    <3>1. Written(TRUE) \in Files /\ file[Proxy(r)] = Written(TRUE)
      BY <1>9 DEF LookLast, RInv, IInv, ProxyFresh, Written, Files
    <3>2. Proxy(r) \in Names
      BY <1>1, <1>9, NamesOfRequests DEF LookLast
    <3> QED
      BY <3>1, <3>2, StreamAssumption DEF Present, Files
  <2> QED
    BY <1>9, <2>1, HitServes DEF LookLast
<1>10. ASSUME NEW r \in Requests, Sent(r) PROVE Cache!Leave(r)
  <2>1. /\ pc[r] \in {"sending", "sendingLocked"} /\ pc' = [pc EXCEPT ![r] = "idle"]
        /\ answer' = [answer EXCEPT ![r] = "none"] /\ clip' = [clip EXCEPT ![r] = NoClip]
    BY <1>10 DEF Sent, Goto, Answer
  <2>2. answer[r] # "none" /\ Makers' = Makers
    BY <1>1, <2>1, MakersOf DEF RInv, AnsweredLast, Makers
  <2>3. Whole' = Whole /\ OldProxies' = OldProxies
    BY <1>2, <1>10 DEF Sent
  <2> QED
    BY <2>1, <2>2, <2>3 DEF Cache!Leave
<1>11. ASSUME UNCHANGED << file, requestVars >> PROVE UNCHANGED Cache!cacheVars
  BY <1>2, <1>11 DEF Cache!cacheVars, requestVars, Makers
<1>12. CASE Crash
  <2>1. Makers' = {} /\ Whole' = Whole /\ OldProxies' = OldProxies
    BY <1>2, <1>12 DEF Crash, Makers
  <2> QED
    BY <1>12, <2>1 DEF Crash, Cache!Restart, Cache!Next
<1>13. CASE UNCHANGED vars
  BY <1>11, <1>13 DEF vars
<1>14. ASSUME CleanCache PROVE Cache!Next \/ UNCHANGED Cache!cacheVars
  BY <1>11, <1>14, RemoveRefines DEF CleanCache, ListCache, Examine, Cache!Next
<1>15. ASSUME NEW n \in Names, Age(n) PROVE Cache!Next \/ UNCHANGED Cache!cacheVars
  BY <1>15, AgeRefines DEF Cache!Next
<1> QED
  BY <1>3, <1>4, <1>5, <1>6, <1>7, <1>8, <1>9, <1>10, <1>12, <1>13, <1>14, <1>15
     DEF Next, ServeProxy, Cache!Next

(* The cache directory, the locks and the cleaner implement ProxyCache            *)
(* (CacheRefined): a proxy is made where there is none and sent to the request     *)
(* that made it, errors are for clips without one, and only an old one goes.       *)
THEOREM StreamImplementsCache == Spec => CacheRefined
<1>1. Spec => []RInv
  BY InitRInv, NextRInv, PTL DEF Spec
<1>2. Spec => Cache!Init /\ [][Cache!Next]_(Cache!cacheVars)
  BY <1>1, InitCacheRefines, CacheStepRefines, PTL DEF Spec
<1> QED
  BY <1>2 DEF CacheRefined, Cache!Spec
=============================================================================
