------------------------------ MODULE ClipName ------------------------------
(***************************************************************************)
(* What the indexer reads from a clip's file name: the two instants Protect    *)
(* wrote there in local time, and the key under which the clip's camera meets    *)
(* the camera of an event.                                                     *)
(*                                                                         *)
(* An instant counts hours since 2026 began in UTC; minutes and seconds are       *)
(* copied as they are.  A camera's name is a sequence of characters.               *)
(***************************************************************************)
EXTENDS Integers, Sequences, SequencesExt

CONSTANTS
  Small,      \* the letters and digits a key is made of
  Capitals,   \* [capital letters -> the small ones]
  NonASCII    \* characters the export drops

\* No letter is a small one of two alphabets: what is not ASCII is dropped first.
ASSUME AlphabetAssumption ==
  /\ Capitals \in [DOMAIN Capitals -> Small] /\ DOMAIN Capitals \cap Small = {}
  /\ NonASCII \cap (Small \cup DOMAIN Capitals) = {}
  /\ " " \notin Small \cup DOMAIN Capitals

\* The years in which every fourth is a leap year and the clips are recorded.
Years == 2025..2099

Leap(y) == y % 4 = 0

DaysIn(y, m) ==
  IF m = 2 THEN (IF Leap(y) THEN 29 ELSE 28)
  ELSE IF m \in {4, 6, 9, 11} THEN 30 ELSE 31

\* Days of the year before a month.
DaysBefore(y, m) ==
  << 0, 31, 59, 90, 120, 151, 181, 212, 243, 273, 304, 334 >>[m]
    + IF m > 2 /\ Leap(y) THEN 1 ELSE 0

\* The day's number, as time.Date has it.
NewYear(y) == 365 * (y - 2026) + ((y - 2025) \div 4)

Day(y, m, d) == NewYear(y) + DaysBefore(y, m) + d - 1

MonthOf(n) ==
  CHOOSE c \in Years \X (1..12) : n - Day(c[1], c[2], 1) \in 0..DaysIn(c[1], c[2]) - 1

-----------------------------------------------------------------------------
(* What Protect writes, at an offset of whole hours from UTC. *)

Timestamp(t, offset) ==
  LET local == t + offset
      hour  == local % 24
      month == MonthOf(local \div 24)
  IN  [year |-> month[1], month |-> month[2],
       day  |-> local \div 24 - Day(month[1], month[2], 1) + 1,
       hour |-> IF hour % 12 = 0 THEN 12 ELSE hour % 12,
       ampm |-> IF hour < 12 THEN "am" ELSE "pm", offset |-> offset]

\* 12 o'clock is taken for the hour 12, whichever half of the day it is in.
NoonIsNoon(g) == g.hour + (IF g.ampm = "pm" THEN 12 ELSE 0)

Hour24(g) == (g.hour % 12) + (IF g.ampm = "pm" THEN 12 ELSE 0)

parseTimestamp(g) == 24 * Day(g.year, g.month, g.day) + Hour24(g) - g.offset

\* Each end has its date and its offset; neither is derived from the other.
Parse(name) == [start |-> parseTimestamp(name.start), end |-> parseTimestamp(name.end)]

-----------------------------------------------------------------------------
(* Camera names. *)

\* What is left of s without the characters that are not in R.
Keep(s, R) ==
  LET kept[i \in 0..Len(s)] ==
        IF i = 0 THEN << >>
        ELSE IF s[i] \in R THEN Append(kept[i - 1], s[i]) ELSE kept[i - 1]
  IN  kept[Len(s)]

\* The export drops every character that is not ASCII.
Exported(name) == Keep(name, ToSet(name) \ NonASCII)

\* Parse: the pattern wants a character before the date, the spaces around go.
TrimSpace(name) ==
  LET kept == {i \in DOMAIN name : name[i] # " "}
  IN  IF kept = {} THEN << >>
      ELSE SubSeq(name, CHOOSE i \in kept : \A j \in kept : i <= j,
                        CHOOSE i \in kept : \A j \in kept : j <= i)

Lower(r) == IF r \in DOMAIN Capitals THEN Capitals[r] ELSE r

LowerCase(name) == [i \in DOMAIN name |-> Lower(name[i])]

\* Letters that are not ASCII are letters too.
LettersKept(name) == Keep(LowerCase(name), Small \cup NonASCII)

NormalizeCameraName(name) == Keep(LowerCase(name), Small)
=============================================================================
