---------------------------- MODULE MCCorrelation ----------------------------
(***************************************************************************)
(* Small instances of Correlation.  One unit of time stands for the scale   *)
(* of Tolerance and Grace alike: only their order matters.                  *)
(***************************************************************************)
EXTENDS Correlation

CONSTANTS p1, p2, e1, e2, camA

\* Two clips of camera "a" too far apart to share an event that has ended, ...
OneCamera ==
  (p1 :> [key |-> "a", start |-> 1, end |-> 2]) @@
  (p2 :> [key |-> "a", start |-> 4, end |-> 5])

\* ... and a longer clip of a second camera nothing is detected on.
TwoCameras ==
  (p1 :> [key |-> "a", start |-> 1, end |-> 2]) @@
  (p2 :> [key |-> "b", start |-> 0, end |-> 3])

Thumb(type, name, match) == [type |-> type, name |-> name, matchedName |-> match]

(* e1 is added unclassified, refined to a vehicle with a plate while it     *)
(* lasts, and ends as a licensePlate; e2 starts later on the same camera.   *)
Detections ==
  (e1 :> [camera |-> camA, start |-> 1, type |-> "smartDetectZone",
          stages |-> <<
            [at |-> 1, types |-> << >>, end |-> NoEnd, thumbnails |-> << >>],
            [at |-> 1, types |-> << "vehicle" >>, end |-> NoEnd,
             thumbnails |-> << Thumb("vehicle", "ABC", "") >>],
            [at |-> 2, types |-> << "vehicle", "licensePlate" >>, end |-> 2,
             thumbnails |-> << Thumb("face", "Ann", ""), Thumb("vehicle", "", "ABC") >>] >>]) @@
  (e2 :> [camera |-> camA, start |-> 2, type |-> "smartDetectZone",
          stages |-> <<
            [at |-> 2, types |-> << "person" >>, end |-> 3, thumbnails |-> << >>] >>])

Directory == (camA :> "a")
=============================================================================
