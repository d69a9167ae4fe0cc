------------------------------ MODULE ClipLabels ------------------------------
(***************************************************************************)
(* What the correlator promises about the labels on the clips, with the    *)
(* database tables, the goroutines and the network left out.  A clip        *)
(* appears unlabelled.  It then gets one label: one that the detections     *)
(* known by then justify or, once it is due, a guess.  Only a Correcting    *)
(* system (one that has a backfill) ever changes a label it has given.      *)
(***************************************************************************)
CONSTANTS
  Clips,
  Absent,      \* the clip has not been seen
  Fresh,       \* the label of a clip that has just been indexed
  Guess,       \* [Clips -> label]: the guess made from the clip alone
  Correcting   \* may a label be replaced?

VARIABLES
  label,       \* [Clips -> label]
  justified,   \* pairs <<clip, label>> that some detection justifies
  due          \* clips whose grace period has passed

labelVars == << label, justified, due >>

Init ==
  /\ label = [p \in Clips |-> Absent]
  /\ justified = {}

\* Detections and time only add to what is known.
Learn ==
  /\ label' = label
  /\ justified \subseteq justified'
  /\ due \subseteq due'

Appear(p) ==
  /\ label[p] = Absent
  /\ label' = [label EXCEPT ![p] = Fresh]
  /\ UNCHANGED << justified, due >>

Open(p) == label[p] = Fresh \/ (Correcting /\ label[p] # Absent)

Match(p) ==
  /\ Open(p)
  /\ \E j \in justified : j[1] = p /\ label' = [label EXCEPT ![p] = j[2]]
  /\ UNCHANGED << justified, due >>

Settle(p) ==
  /\ Open(p) /\ p \in due
  /\ label' = [label EXCEPT ![p] = Guess[p]]
  /\ UNCHANGED << justified, due >>

Next == Learn \/ \E p \in Clips : Appear(p) \/ Match(p) \/ Settle(p)

Spec == Init /\ [][Next]_labelVars
=============================================================================
