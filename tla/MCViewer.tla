----------------------------- MODULE MCViewer -----------------------------
(* Two clips of two cameras on two days, and a third, of the second the newer one
   starts in, for the client that pages. *)
EXTENDS Viewer

CONSTANTS c1, c2, c3

MCClips    == {c1, c2, c3}
MCStartOf  == [c \in Clips |-> IF c = c1 THEN 1 ELSE 2]
MCCameraOf == [c \in Clips |-> IF c = c2 THEN "b" ELSE "a"]
MCDayOf    == [c \in Clips |-> IF c = c1 THEN 1 ELSE 2]

\* Bound: the page's fetches are followed only while the third clip is not there.
TwoClipsFetched == fetches = 0 \/ c3 \notin Indexed
=============================================================================
