----------------------------- MODULE MCFunctions -----------------------------
(***************************************************************************)
(* The pure functions against what they are for.  Their inputs are built up   *)
(* a piece at a time, in every order: a detection's labels and thumbnails, as   *)
(* Protect adds them, a camera's name, the hours of a clip.                      *)
(***************************************************************************)
EXTENDS Detection, ClipName

CONSTANTS
  Types,       \* detection types, some of them unknown to typePriority
  MaxTypes,    \* bound on a detection's labels
  MaxThumbs,   \* bound on its thumbnails
  Characters,  \* of camera names
  MaxName,     \* bound on a name's length
  FirstHours,  \* hours clips start at
  MaxHours,    \* bound on a clip's length
  Offsets      \* offsets from UTC

\* A clip's times are in the years whose leap years ClipName knows; the clocks go
\* forward an hour at most.
ASSUME InputsAssumption ==
  /\ NoType \notin Types
  /\ FirstHours \subseteq Int /\ MaxHours \in Nat /\ Offsets \subseteq Int
  /\ \A t \in FirstHours, o \in Offsets :
       24 * NewYear(2025) <= t + o /\ t + MaxHours + o + 1 < 24 * NewYear(2100)

VARIABLES types, thumbnails, name, clip

inputs == << types, thumbnails, name, clip >>

MCSmall == {"a", "b", "1"}

MCCapitals == [A |-> "a", B |-> "b"]

\* The days around a change of the clocks, the end of a year and a leap day.
MCFirstHours ==
  UNION {24 * d - 24..24 * d + 24 : d \in {Day(2026, 3, 29), Day(2026, 12, 31), Day(2028, 2, 28)}}

MCOffsets == {-8, 0, 1, 13}

Thumbnails ==
  [type : {"vehicle", "face", "person"}, name : {"", "N"}, matchedName : {"", "M"}]

NoClip == [start |-> 0, end |-> 0, offset |-> 0]

NoInput == types = << >> /\ thumbnails = << >> /\ name = << >> /\ clip = NoClip

AddType ==
  /\ Len(types) < MaxTypes
  /\ \E t \in Types : types' = Append(types, t)
  /\ UNCHANGED << thumbnails, name, clip >>

AddThumbnail ==
  /\ Len(thumbnails) < MaxThumbs
  /\ \E th \in Thumbnails : thumbnails' = Append(thumbnails, th)
  /\ UNCHANGED << types, name, clip >>

AddCharacter ==
  /\ Len(name) < MaxName
  /\ \E r \in Characters : name' = Append(name, r)
  /\ UNCHANGED << types, thumbnails, clip >>

\* The clocks may be changed while the clip is recorded.
Record ==
  /\ clip = NoClip
  /\ \E t \in FirstHours, n \in 0..MaxHours, o \in Offsets :
       clip' = [start |-> t, end |-> t + n, offset |-> o]
  /\ UNCHANGED << types, thumbnails, name >>

Detect == name = << >> /\ clip = NoClip /\ (AddType \/ AddThumbnail)

NameCamera == types = << >> /\ thumbnails = << >> /\ clip = NoClip /\ AddCharacter

NameClip == types = << >> /\ thumbnails = << >> /\ name = << >> /\ Record

AddInput == Detect \/ NameCamera \/ NameClip

InputsSpec == NoInput /\ [][AddInput]_inputs

(* The headline is one of the labels and no label is more specific; among    *)
(* labels the table does not know, the first listed stands (PickPrimaryType). *)
HeadlineMostSpecific == types # << >> => IsHeadline(PickPrimaryType(types), types)

(* The detail is a name from a thumbnail of the kind the headline is about,   *)
(* the first that has one; a person, an animal or an unknown type gets none,  *)
(* even when a face or plate was read in the same detection (pickDetail).     *)
DetailFromHeadline ==
  LET headline == PickPrimaryType(types)
  IN  IsDetail(pickDetail(headline, thumbnails), headline, thumbnails)

(* The two instants Protect wrote into a clip's name are read back from it,   *)
(* across midnight and noon, the ends of months and years, a leap day, and    *)
(* when the clocks were changed in between (parseTimestamp).                 *)
TimesSurvive ==
  clip # NoClip => \A o \in {clip.offset, clip.offset + 1} :
    Parse([start |-> Timestamp(clip.start, clip.offset), end |-> Timestamp(clip.end, o)])
      = [start |-> clip.start, end |-> clip.end]

(* A camera has one key, whether its name is taken from a file's name, where  *)
(* the export has dropped characters, or from Protect's camera list           *)
(* (NormalizeCameraName: "so names can be compared across the mangled filename *)
(* form and the real name").                                                  *)
KeysAgree == NormalizeCameraName(TrimSpace(Exported(name))) = NormalizeCameraName(name)
=============================================================================
