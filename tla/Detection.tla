------------------------------ MODULE Detection ------------------------------
(***************************************************************************)
(* The pure functions that turn a Protect detection into a clip label:     *)
(* the headline type of a multi-label detection, the plate or face name    *)
(* that goes with it, the filter applied to a WebSocket message, and the   *)
(* guess made from a clip's duration when no detection is known.           *)
(*                                                                         *)
(* Types are the strings Protect uses; a type list is a sequence of them.  *)
(***************************************************************************)
EXTENDS Naturals, Sequences, SequencesExt

typePriority ==
  [licensePlate |-> 0, face |-> 1, person |-> 2, vehicle |-> 3, animal |-> 4]

\* Anything the table does not know ranks below everything it does know.
Rank(t) ==
  IF t \in DOMAIN typePriority THEN typePriority[t]
                               ELSE Cardinality(DOMAIN typePriority)

\* The empty string: nothing picked yet, and what is returned for no labels.
NoType == ""

\* The loop body as it was before priorities existed: the first entry wins.
FirstWins(best, t) == IF best = NoType THEN t ELSE best

MoreSpecific(best, t) ==
  IF best = NoType \/ Rank(t) < Rank(best) THEN t ELSE best

PickPrimaryType(types) ==
  LET best[i \in 0..Len(types)] ==
        IF i = 0 THEN NoType ELSE MoreSpecific(best[i - 1], types[i])
  IN  best[Len(types)]

-----------------------------------------------------------------------------
(* A plate reading sits on the thumbnail of the vehicle, not on a thumbnail *)
(* of its own.                                                              *)
WantedThumbnail(primary) ==
  CASE primary \in {"licensePlate", "vehicle"} -> "vehicle"
    [] primary = "face"                        -> "face"
    [] OTHER                                   -> ""

\* A lookup that forgets to check the thumbnail's type.
AnyThumbnailDetail(primary, thumbnails) ==
  LET named == SelectSeq(thumbnails, LAMBDA th : th.name # "" \/ th.matchedName # "")
  IN  IF named = << >> THEN "" ELSE Head(named).name

Named(th) == th.name # "" \/ th.matchedName # ""

pickDetail(primary, thumbnails) ==
  LET want  == WantedThumbnail(primary)
      named == {i \in DOMAIN thumbnails : thumbnails[i].type = want /\ Named(thumbnails[i])}
      first == thumbnails[CHOOSE i \in named : \A j \in named : i <= j]
  IN  IF want = "" \/ named = {} THEN ""
      ELSE IF first.name # "" THEN first.name ELSE first.matchedName

-----------------------------------------------------------------------------
(* What the two are for. *)

\* The headline is one of the labels and no label is more specific; among labels
\* the table does not know, the first listed stands.
IsHeadline(headline, types) ==
  \E i \in DOMAIN types :
    /\ headline = types[i]
    /\ \A j \in DOMAIN types : Rank(types[i]) <= Rank(types[j])
    /\ \A j \in 1 .. i - 1 : Rank(types[i]) < Rank(types[j])

\* The detail is a name from a thumbnail of the kind the headline is about, the
\* first that has one, and there is none only where no such thumbnail is.
IsDetail(detail, headline, thumbnails) ==
  LET Apt(i) == /\ Named(thumbnails[i])
                /\ \/ headline = "face" /\ thumbnails[i].type = "face"
                   \/ headline \in {"licensePlate", "vehicle"} /\ thumbnails[i].type = "vehicle"
  IN  \/ detail = "" /\ \A i \in DOMAIN thumbnails : ~ Apt(i)
      \/ \E i \in DOMAIN thumbnails :
           /\ Apt(i) /\ \A j \in 1 .. i - 1 : ~ Apt(j)
           /\ detail \in {thumbnails[i].name, thumbnails[i].matchedName} \ {""}

-----------------------------------------------------------------------------
(* What the listener makes of one message: the type list it will store, or *)
(* << >> when the message is not a usable event.                            *)
EventTypes(item) ==
  IF item.smartDetectTypes # << >> THEN item.smartDetectTypes
  ELSE IF item.type # "" THEN << item.type >> ELSE << >>

extractOK(item) ==
  /\ item.modelKey = "event" /\ item.device # "" /\ item.start # 0
  /\ PickPrimaryType(EventTypes(item)) # NoType

\* Historical events that are kept: attributed to a camera and classified.
HistoryKeeps(item) == item.device # "" /\ item.smartDetectTypes # << >>

-----------------------------------------------------------------------------
heuristicType(duration, shortMax, longMin) ==
  CASE duration >= longMin                         -> "continuous"
    [] duration < longMin /\ duration <= shortMax  -> "motion"
    [] OTHER                                       -> "unknown"
=============================================================================
