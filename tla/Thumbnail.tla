------------------------------ MODULE Thumbnail ------------------------------
(***************************************************************************)
(* Thumbnails.  RunPending, on a timer, takes the newest clips that have no *)
(* thumbnail, a batch at a time, lets ffmpeg write each one to a temporary   *)
(* file, renames it, and only then sets thumbnail_ready; it goes on until    *)
(* no clip is left.  handleThumbnail serves the file of a clip that is       *)
(* flagged ready.  The indexer adds clips all the while, and the process     *)
(* may die between any two steps.                                            *)
(***************************************************************************)
EXTENDS Naturals, Sequences, FiniteSets, SequencesExt, FiniteSetsExt

CONSTANTS
  Clips,        \* clips, numbered by start time: a larger number is newer
  Unreadable,   \* clips ffmpeg never gets a frame from
  Batch,        \* the limit RunPending passes to ClipsWithoutThumbnail
  MaxFaults     \* bound on transient failures and crashes

ASSUME ThumbnailAssumption ==
  /\ Clips \subseteq Nat /\ IsFiniteSet(Clips)
  /\ Unreadable \subseteq Clips
  /\ Batch \in Nat \ {0}
  /\ MaxFaults \in Nat

VARIABLES
  indexed,   \* rows in table clips
  ready,     \* rows with thumbnail_ready = 1
  jpg,       \* clips whose thumbnail file exists, complete
  tmp,       \* clips with a temporary file: [Clips -> "none", "partial", "whole"]
  pc,        \* RunPending: "off", "query", "clip", "encode", "rename", "mark"
  batch,     \* RunPending: clips of the batch still to do, newest first
  faults

vars == << indexed, ready, jpg, tmp, pc, batch, faults >>

Init ==
  /\ indexed = {} /\ ready = {} /\ jpg = {}
  /\ tmp = [c \in Clips |-> "none"]
  /\ pc = "off" /\ batch = << >>
  /\ faults = 0

Fault == faults < MaxFaults /\ faults' = faults + 1

IndexClip(c) ==
  /\ c \notin indexed
  /\ indexed' = indexed \cup {c}
  /\ UNCHANGED << ready, jpg, tmp, pc, batch, faults >>

RunPending ==
  /\ pc = "off"
  /\ pc' = "query"
  /\ UNCHANGED << indexed, ready, jpg, tmp, batch, faults >>

\* ORDER BY start_ts DESC: the listings of S the database may return.
NewestFirst(S) == {s \in SetToSeqs(S) : \A i, j \in DOMAIN s : i < j => s[i] > s[j]}

AtMost(limit, s) == SubSeq(s, 1, IF limit < Len(s) THEN limit ELSE Len(s))

\* The query without its LIMIT.
Unlimited(limit) == NewestFirst(indexed \ ready)

\* The query without its thumbnail_ready = 0 condition.
EveryClip(limit) == {AtMost(limit, s) : s \in NewestFirst(indexed)}

ClipsWithoutThumbnail(limit) == {AtMost(limit, s) : s \in NewestFirst(indexed \ ready)}

\* A failed query, or an empty result, ends the run.
Query ==
  /\ pc = "query"
  /\ \/ /\ batch' \in ClipsWithoutThumbnail(Batch)
        /\ pc' = IF batch' = << >> THEN "off" ELSE "clip"
        /\ UNCHANGED faults
     \/ Fault /\ pc' = "off" /\ UNCHANGED batch
  /\ UNCHANGED << indexed, ready, jpg, tmp >>

\* The loop header: the next clip of the batch, or another query.
NextClip ==
  /\ pc = "clip"
  /\ pc' = IF batch = << >> THEN "query" ELSE "encode"
  /\ UNCHANGED << indexed, ready, jpg, tmp, batch, faults >>

Skip == pc' = "clip" /\ batch' = Tail(batch)

\* The first clip that fails ends the run.
EncodeOrGiveUp ==
  /\ pc = "encode"
  /\ LET c == Head(batch)
     IN  \/ /\ c \notin Unreadable
            /\ tmp' = [tmp EXCEPT ![c] = "whole"]
            /\ pc' = "rename" /\ UNCHANGED << batch, faults >>
         \/ /\ c \in Unreadable
            /\ tmp' = [tmp EXCEPT ![c] = "none"]
            /\ pc' = "off" /\ batch' = << >> /\ UNCHANGED faults
         \/ Fault /\ tmp' = tmp /\ Skip
  /\ UNCHANGED << indexed, ready, jpg >>

\* ffmpeg writes the temporary file, over what a crash left of it.
Encode ==
  /\ pc = "encode"
  /\ LET c == Head(batch)
     IN  \/ /\ c \notin Unreadable
            /\ tmp' = [tmp EXCEPT ![c] = "whole"]
            /\ pc' = "rename" /\ UNCHANGED << batch, faults >>
         \/ /\ c \in Unreadable
            /\ tmp' = [tmp EXCEPT ![c] = "none"]
            /\ Skip /\ UNCHANGED faults
         \/ Fault /\ tmp' \in {tmp, [tmp EXCEPT ![c] = "none"]} /\ Skip
  /\ UNCHANGED << indexed, ready, jpg >>

\* A rename whose error is not looked at.
UncheckedRename ==
  /\ pc = "rename"
  /\ \/ /\ tmp' = [tmp EXCEPT ![Head(batch)] = "none"]
        /\ jpg' = jpg \cup {Head(batch)}
        /\ UNCHANGED faults
     \/ Fault /\ UNCHANGED << tmp, jpg >>
  /\ pc' = "mark"
  /\ UNCHANGED << indexed, ready, batch >>

Rename ==
  /\ pc = "rename"
  /\ \/ /\ tmp' = [tmp EXCEPT ![Head(batch)] = "none"]
        /\ jpg' = jpg \cup {Head(batch)}
        /\ pc' = "mark" /\ UNCHANGED << batch, faults >>
     \/ Fault /\ Skip /\ UNCHANGED << tmp, jpg >>
  /\ UNCHANGED << indexed, ready >>

MarkThumbnailReady ==
  /\ pc = "mark"
  /\ \/ ready' = ready \cup {Head(batch)} /\ UNCHANGED faults
     \/ Fault /\ UNCHANGED ready
  /\ Skip
  /\ UNCHANGED << indexed, jpg, tmp >>

\* The process dies; an ffmpeg it was waiting for leaves part of its output.
Crash ==
  /\ Fault
  /\ \/ UNCHANGED tmp
     \/ pc = "encode" /\ tmp' = [tmp EXCEPT ![Head(batch)] = "partial"]
  /\ pc' = "off" /\ batch' = << >>
  /\ UNCHANGED << indexed, ready, jpg >>

Generate == Query \/ NextClip \/ Encode \/ Rename \/ MarkThumbnailReady

Next ==
  \/ \E c \in Clips : IndexClip(c)
  \/ RunPending
  \/ Generate
  \/ Crash

Spec == Init /\ [][Next]_vars

(* The timer keeps calling RunPending and the goroutine keeps running; every  *)
(* ffmpeg ends, at the latest by genTimeout.  Failures other than those of     *)
(* unreadable clips are transient.                                            *)
FairSpec == Spec /\ WF_vars(RunPending) /\ WF_vars(Generate)

-----------------------------------------------------------------------------
TypeOK ==
  /\ indexed \subseteq Clips /\ ready \subseteq indexed /\ jpg \subseteq indexed
  /\ tmp \in [Clips -> {"none", "partial", "whole"}]
  /\ pc \in {"off", "query", "clip", "encode", "rename", "mark"}
  /\ batch \in Seq(indexed) /\ Len(batch) <= Batch
  /\ faults \in 0 .. MaxFaults

(* A clip flagged ready has a complete thumbnail to serve, also after a crash  *)
(* between the rename and the flag (generate, MarkThumbnailReady).            *)
ReadyHasFile == ready \subseteq jpg

(* A thumbnail is not made twice for a clip that is flagged ready, although    *)
(* the batch was listed long before its last clip is reached (RunPending).     *)
NotMadeTwice == pc \in {"encode", "rename"} => Head(batch) \notin ready

(* Every readable clip gets its thumbnail in the end (RunPending "generates    *)
(* thumbnails for any clip that doesn't have one yet").                       *)
EveryClipGetsThumbnail == \A c \in Clips \ Unreadable : c \in indexed ~> c \in ready
=============================================================================
