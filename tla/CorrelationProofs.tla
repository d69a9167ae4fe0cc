-------------------------- MODULE CorrelationProofs --------------------------
(***************************************************************************)
(* Proofs about Correlation, for any clips, events, cameras and bounds: that *)
(* a label on a clip is always one the code may justify (ClipsExplained);     *)
(* that the clips table implements ClipLabels (LabelsRefined); that without a   *)
(* backfill no event is reopened in the table (EndNeverLost); and, for any       *)
(* inputs, that the pure functions are what they are for: the headline and the detail of a detection, the times    *)
(* in a clip's name and the key of a camera's (MCFunctions).                  *)
(***************************************************************************)
EXTENDS Correlation, MCFunctions, Integers, FiniteSetTheorems, SequenceTheorems, TLAPS

-----------------------------------------------------------------------------
(* Every variable keeps its shape. *)

LEMMA InitTypeOK == Init => TypeOK
<1> SUFFICES ASSUME Init PROVE TypeOK
  OBVIOUS
<1> USE ConfigAssumption DEF Init
<1>1. \A e \in Events : stage[e] \in 0 .. Len(EventInfo[e].stages)
  OBVIOUS
<1>2. wire \in Seq(Message)
  OBVIOUS
<1>3. bWindow \in [from : Nat, to : Nat]
  OBVIOUS
<1>4. \A held \in {listener, cHeld, bHeld} : \A x, y \in held : x = y
  OBVIOUS
<1>5. now \in 0 .. MaxTime /\ faults \in 0 .. MaxFaults
  OBVIOUS
<1> QED
  BY <1>1, <1>2, <1>3, <1>4, <1>5 DEF TypeOK

LEMMA InsertEventDomain ==
  ASSUME DOMAIN events = Events, NEW e \in Events, NEW row, InsertEvent(e, row)
  PROVE  DOMAIN events' = Events
BY DEF InsertEvent

LEMMA SetClipDomain ==
  ASSUME DOMAIN clips = Clips, NEW p, NEW label, SetClipClassification(p, label)
  PROVE  DOMAIN clips' = Clips
BY DEF SetClipClassification

LEMMA NextTypeOK == TypeOK /\ [Next]_vars => TypeOK'
<1> SUFFICES ASSUME TypeOK, [Next]_vars PROVE TypeOK'
  OBVIOUS
<1> USE ConfigAssumption DEF protectVars, listenerVars, classifierVars, backfillVars
<1>1. CASE Tick
  BY <1>1 DEF Tick, TypeOK, Message, Stages
<1>2. ASSUME NEW e \in Events, Advance(e) PROVE TypeOK'
  <2>1. wire' \in Seq(Message)
    <3>1. [event |-> e, stage |-> stage[e] + 1] \in Message
      BY <1>2 DEF Advance, TypeOK, Message, Stages
    <3> QED
      BY <1>2, <3>1 DEF Advance, TypeOK
  <2>2. \A f \in Events : stage'[f] \in 0 .. Len(EventInfo[f].stages)
    BY <1>2 DEF Advance, TypeOK
  <2> QED
    BY <1>2, <2>1, <2>2 DEF Advance, TypeOK
<1>3. ASSUME NEW p \in Clips, IndexClip(p) PROVE TypeOK'
  BY <1>3 DEF IndexClip, UpsertClip, TypeOK, Message, Stages
<1>4. CASE RefreshCameraDirectory
  BY <1>4 DEF RefreshCameraDirectory, TypeOK, Message, Stages
<1>5. CASE Listen
  <2>1. CASE Connect
    BY <2>1 DEF Connect, TypeOK, Message, Stages
  <2>2. CASE ReadMessage
    <3>1. Head(wire) \in Message /\ wire' \in Seq(Message)
      BY <2>2 DEF ReadMessage, TypeOK
    <3> QED
      BY <2>2, <3>1 DEF ReadMessage, TypeOK, Message, Stages
  <2>3. ASSUME NEW m \in listener, OnEventRefresh(m) PROVE TypeOK'
    BY <2>3 DEF OnEventRefresh, Fault, TypeOK, Message, Stages
  <2>4. ASSUME NEW m \in listener, OnEventStore(m) PROVE TypeOK'
    <3>1. m.event \in Events
      BY DEF TypeOK, Message
    <3>2. DOMAIN events' = Events
      BY <2>4, <3>1, InsertEventDomain DEF OnEventStore, TypeOK
    <3> QED
      BY <2>4, <3>2 DEF OnEventStore, Fault, TypeOK, Message, Stages
  <2> QED
    BY <1>5, <2>1, <2>2, <2>3, <2>4 DEF Listen
<1>6. CASE Disconnect
  <2>1. wire' \in Seq(Message)
    BY <1>6 DEF Disconnect
  <2>2. faults' \in 0 .. MaxFaults
    BY <1>6 DEF Disconnect, Fault, TypeOK
  <2> QED
    BY <1>6, <2>1, <2>2 DEF Disconnect, TypeOK
<1>7. CASE Classify
  <2>1. CASE ClassifyList
    BY <2>1 DEF ClassifyList, Unclassified, TypeOK, Message, Stages
  <2>2. ASSUME NEW p \in cTodo, ClassifyFind(p) PROVE TypeOK'
    BY <2>2 DEF ClassifyFind, Fault, TypeOK, Message, Stages
  <2>3. ASSUME NEW d \in cHeld, ClassifyMatched(d) PROVE TypeOK'
    <3>1. DOMAIN clips' = Clips
      BY <2>3, SetClipDomain DEF ClassifyMatched, TypeOK
    <3> QED
      BY <2>3, <3>1 DEF ClassifyMatched, Fault, TypeOK, Message, Stages
  <2>4. ASSUME NEW d \in cHeld, ClassifyDefer(d) PROVE TypeOK'
    BY <2>4 DEF ClassifyDefer, TypeOK, Message, Stages
  <2>5. ASSUME NEW d \in cHeld, ClassifyGuess(d) PROVE TypeOK'
    <3>1. DOMAIN clips' = Clips
      BY <2>5, SetClipDomain DEF ClassifyGuess, TypeOK
    <3> QED
      BY <2>5, <3>1 DEF ClassifyGuess, Fault, TypeOK, Message, Stages
  <2> QED
    BY <1>7, <2>1, <2>2, <2>3, <2>4, <2>5 DEF Classify
<1>8. CASE Backfill
  <2>1. CASE BackfillBegin
    <3>1. bWindow' \in [from : Nat, to : Nat]
      BY <2>1 DEF BackfillBegin, NonProtect, TypeOK
    <3> QED
      BY <2>1, <3>1 DEF BackfillBegin, TypeOK, Message, Stages
  <2>2. CASE BackfillFetch
    <3>1. History \subseteq Message
      BY DEF History, TypeOK, Message, Stages
    <3>2. bFetched' \subseteq Message
      BY <2>2, <3>1 DEF BackfillFetch, TypeOK
    <3> QED
      BY <2>2, <3>2 DEF BackfillFetch, Fault, TypeOK, Message, Stages
  <2>3. CASE BackfillRefresh
    BY <2>3 DEF BackfillRefresh, Fault, TypeOK, Message, Stages
  <2>4. ASSUME NEW m \in bFetched, BackfillStore(m) PROVE TypeOK'
    <3>1. m.event \in Events
      BY DEF TypeOK, Message
    <3>2. DOMAIN events' = Events
      BY <2>4, <3>1, InsertEventDomain DEF BackfillStore, TypeOK
    <3> QED
      BY <2>4, <3>2 DEF BackfillStore, Fault, TypeOK, Message, Stages
  <2>5. CASE ReclassifyList
    BY <2>5 DEF ReclassifyList, Listed, Fault, TypeOK, Message, Stages
  <2>6. ASSUME NEW d \in bTodo, ReclassifyFind(d) PROVE TypeOK'
    BY <2>6 DEF ReclassifyFind, Fault, TypeOK, Message, Stages
  <2>7. ASSUME NEW d \in bHeld, ReclassifySet(d) PROVE TypeOK'
    <3>1. DOMAIN clips' = Clips
      BY <2>7, SetClipDomain DEF ReclassifySet, TypeOK
    <3> QED
      BY <2>7, <3>1 DEF ReclassifySet, Fault, TypeOK, Message, Stages
  <2> QED
    BY <1>8, <2>1, <2>2, <2>3, <2>4, <2>5, <2>6, <2>7 DEF Backfill
<1>9. CASE Restart
  <2>1. wire' \in Seq(Message)
    BY <1>9 DEF Restart
  <2>2. bWindow' \in [from : Nat, to : Nat]
    BY <1>9 DEF Restart
  <2>3. now' \in 0 .. MaxTime /\ faults' \in 0 .. MaxFaults
    BY <1>9 DEF Restart, Fault, TypeOK
  <2>4. \A e \in Events : stage'[e] \in 0 .. Len(EventInfo[e].stages)
    BY <1>9 DEF Restart, TypeOK
  <2>5. \A held \in {listener', cHeld', bHeld'} : \A x, y \in held : x = y
    BY <1>9 DEF Restart
  <2>6. DOMAIN stage' = Events /\ DOMAIN clips' = Clips /\ DOMAIN events' = Events
    BY <1>9 DEF Restart, TypeOK
  <2> QED
    BY <1>9, <2>1, <2>2, <2>3, <2>4, <2>5, <2>6 DEF Restart, TypeOK
<1>10. CASE UNCHANGED vars
  BY <1>10 DEF vars, TypeOK, Message, Stages
<1> QED
  BY <1>1, <1>2, <1>3, <1>4, <1>5, <1>6, <1>7, <1>8, <1>9, <1>10 DEF Next

(* Type correctness of the correlator, its tables and their users, for every  *)
(* configuration: shapes are kept and no activity ever works on two things.   *)
THEOREM TypeCorrect == Spec => []TypeOK
BY InitTypeOK, NextTypeOK, PTL DEF Spec

-----------------------------------------------------------------------------
(* Why labels are justified.  A label passes through five places on its way *)
(* to a clip: the socket, OnEvent or a fetched history, a row of events, a   *)
(* lookup's result, the row of clips.  The invariant says of each place that *)
(* what is in it was said by Protect, and by the camera the row names.       *)

KeysReal == \A c \in Cameras : cameraKey[c] \in {KeyOf[c], NoKey}

MessagesReal ==
  /\ \A i \in 1 .. Len(wire) : wire[i].stage <= stage[wire[i].event]
  /\ \A m \in listener \cup bFetched : m.stage <= stage[m.event]

RowsReal == \A e \in Events : events[e] # NoRow => events[e] \in Said(e)

HeldReal ==
  /\ \A d \in cHeld : d.label # NoRow => Explained(d.clip, d.label)
  /\ \A d \in bHeld : Explained(d.clip, d.label)

LabelsReal ==
  \A p \in Clips :
    \/ clips[p] \in {NoRow, NewClip}
    \/ clips[p] = HeuristicLabel(p) /\ now >= ClipInfo[p].end + Grace
    \/ Explained(p, clips[p])

IInv == TypeOK /\ KeysReal /\ MessagesReal /\ RowsReal /\ HeldReal /\ LabelsReal

-----------------------------------------------------------------------------
(* Lemmas on the operators. *)

\* Putting a record's own key and start into it changes nothing.
LEMMA SameFields ==
  ASSUME NEW e, NEW j, NEW key, NEW reading, NEW row, row = EventRow(e, j, key, reading)
  PROVE  /\ row = [f \in DOMAIN row |-> row[f]]
         /\ row.key = key /\ row.start = EventInfo[e].start
BY DEF EventRow

\* The lookup's condition is the one a label has to meet.
LEMMA OverlapsCovers ==
  ASSUME NEW p \in Clips, NEW e \in Events, NEW row \in Said(e), Overlaps(row, p), TypeOK
  PROVE  Covers(row, p)
<1> USE ConfigAssumption
<1>1. PICK k \in 1 .. stage[e] : \E reading : row = EventRow(e, k, KeyOf[EventInfo[e].camera], reading)
  BY DEF Said, SaidAt, LiveRow, HistoryRow
<1>2. PICK reading : row = EventRow(e, k, KeyOf[EventInfo[e].camera], reading)
  BY <1>1
<1>3. k \in Stages(e)
  BY DEF TypeOK, Stages
<1>4. row.start \in Nat /\ row.end \in Nat \cup {NoEnd}
  BY <1>2, <1>3 DEF EventRow
<1> QED
  BY <1>4 DEF Overlaps, Covers

\* Protect takes nothing back.
LEMMA SaidGrows ==
  ASSUME TypeOK, TypeOK', \A e \in Events : stage[e] <= stage'[e]
  PROVE  /\ \A e \in Events : Said(e) \subseteq Said(e)'
         /\ \A p, label : Explained(p, label) => Explained(p, label)'
<1>1. \A e \in Events : Said(e) \subseteq Said(e)'
  <2> TAKE e \in Events
  <2>1. stage[e] \in Nat /\ stage'[e] \in Nat /\ stage[e] <= stage'[e]
    BY ConfigAssumption DEF TypeOK
  <2>2. 1 .. stage[e] \subseteq 1 .. stage'[e]
    BY <2>1
  <2> QED
    BY <2>2 DEF Said
<1>2. \A p, label : Explained(p, label) => Explained(p, label)'
  BY <1>1 DEF Explained, Covers
<1> QED
  BY <1>1, <1>2

-----------------------------------------------------------------------------
(* The invariant is inductive. *)

LEMMA StageGrows ==
  ASSUME TypeOK, [Next]_vars
  PROVE  \A e \in Events : stage[e] <= stage'[e]
<1>1. ASSUME NEW f \in Events, Advance(f) PROVE \A e \in Events : stage[e] <= stage'[e]
  BY <1>1, ConfigAssumption DEF Advance, TypeOK
<1>2. CASE stage' = stage
  BY <1>2, ConfigAssumption DEF TypeOK
<1>3. (\E f \in Events : Advance(f)) \/ stage' = stage
  BY DEF Next, Tick, IndexClip, RefreshCameraDirectory, Listen, Connect, ReadMessage,
         OnEventRefresh, OnEventStore, Disconnect, Classify, ClassifyList, ClassifyFind,
         ClassifyMatched, ClassifyDefer, ClassifyGuess, Backfill, BackfillBegin,
         BackfillFetch, BackfillRefresh, BackfillStore, ReclassifyList, ReclassifyFind,
         ReclassifySet, Restart, vars, protectVars
<1> QED
  BY <1>1, <1>2, <1>3

\* What an action leaves alone stays justified.
LEMMA Frame ==
  ASSUME IInv, TypeOK', \A e \in Events : stage[e] <= stage'[e]
  PROVE  /\ cameraKey' = cameraKey => KeysReal'
         /\ (wire' = wire /\ listener' \subseteq listener /\ bFetched' \subseteq bFetched)
              => MessagesReal'
         /\ events' = events => RowsReal'
         /\ (cHeld' \subseteq cHeld /\ bHeld' \subseteq bHeld) => HeldReal'
         /\ (clips' = clips /\ now <= now') => LabelsReal'
<1> USE DEF IInv
<1>1. cameraKey' = cameraKey => KeysReal'
  BY DEF KeysReal
<1>2. (wire' = wire /\ listener' \subseteq listener /\ bFetched' \subseteq bFetched)
         => MessagesReal'
  <2> SUFFICES ASSUME wire' = wire, listener' \subseteq listener, bFetched' \subseteq bFetched
               PROVE  MessagesReal'
    OBVIOUS
  <2>1. \A m \in Message : m.event \in Events /\ m.stage \in Nat
    BY DEF Message
  <2>2. \A e \in Events : stage[e] \in Nat /\ stage'[e] \in Nat
    BY ConfigAssumption DEF TypeOK
  <2>3. ASSUME NEW i \in 1 .. Len(wire') PROVE wire'[i].stage <= stage'[wire'[i].event]
    <3>1. wire[i] \in Message /\ wire[i].stage <= stage[wire[i].event]
      BY DEF TypeOK, MessagesReal
    <3> QED
      BY <2>1, <2>2, <3>1
  <2>4. ASSUME NEW m \in listener' \cup bFetched' PROVE m.stage <= stage'[m.event]
    <3>1. m \in Message /\ m.stage <= stage[m.event]
      BY DEF TypeOK, MessagesReal
    <3> QED
      BY <2>1, <2>2, <3>1
  <2> QED
    BY <2>3, <2>4 DEF MessagesReal
<1>3. events' = events => RowsReal'
  BY SaidGrows DEF RowsReal
<1>4. (cHeld' \subseteq cHeld /\ bHeld' \subseteq bHeld) => HeldReal'
  BY SaidGrows DEF HeldReal, Explained, Covers
<1>5. (clips' = clips /\ now <= now') => LabelsReal'
  <2> SUFFICES ASSUME clips' = clips, now <= now', NEW p \in Clips
               PROVE  \/ clips'[p] \in {NoRow, NewClip}
                      \/ clips'[p] = HeuristicLabel(p) /\ now' >= ClipInfo[p].end + Grace
                      \/ Explained(p, clips[p])'
    BY DEF LabelsReal
  <2>1. CASE clips[p] = HeuristicLabel(p) /\ now >= ClipInfo[p].end + Grace
    BY <2>1, ConfigAssumption DEF TypeOK
  <2>2. CASE Explained(p, clips[p])
    BY <2>2, SaidGrows DEF Explained, Covers
  <2> QED
    BY <2>1, <2>2 DEF LabelsReal
<1> QED
  BY <1>1, <1>2, <1>3, <1>4, <1>5

\* A row inserted with a key the directory gives is what Protect said.
LEMMA InsertKeepsRows ==
  ASSUME IInv, NEW e \in Events, NEW k \in 1 .. stage[e], stage' = stage, KnownCamera(e),
         NEW reading \in {LiveReading[e][k], HistoryReading[e][k]},
         InsertEvent(e, EventRow(e, k, lookupCameraKey(e), reading))
  PROVE  RowsReal'
<1> DEFINE key == KeyOf[EventInfo[e].camera]
           row == EventRow(e, k, key, reading)
<1>1. lookupCameraKey(e) = key
  BY ConfigAssumption DEF IInv, KeysReal, KnownCamera, lookupCameraKey
<1>2. row \in Said(e)
  BY DEF Said, SaidAt, LiveRow, HistoryRow
<1>3. events'[e] = row
  <2>1. CASE events[e] = NoRow
    BY <1>1, <2>1 DEF InsertEvent, IInv, TypeOK
  <2>2. CASE events[e] # NoRow
    <3>0. PICK j \in 1 .. stage[e] : \E old : events[e] = EventRow(e, j, key, old)
      BY <2>2 DEF IInv, RowsReal, Said, SaidAt, LiveRow, HistoryRow
    <3>1. PICK old : events[e] = EventRow(e, j, key, old)
      BY <3>0
    <3>2. events[e].key = key /\ events[e].start = EventInfo[e].start
      BY <3>1, SameFields
    <3>3. events'[e] = [row EXCEPT !.key = events[e].key, !.start = events[e].start]
      BY <1>1, <2>2 DEF InsertEvent, IInv, TypeOK
    <3>4. row = [f \in DOMAIN row |-> row[f]] /\ row.key = key /\ row.start = EventInfo[e].start
      BY SameFields
    <3> HIDE DEF row
    <3> QED
      BY <3>2, <3>3, <3>4
  <2> QED
    BY <2>1, <2>2
<1>4. \A f \in Events : f # e => events'[f] = events[f]
  BY DEF InsertEvent, IInv, TypeOK
<1>5. \A f \in Events : Said(f)' = Said(f)
  BY DEF Said
<1> HIDE DEF row
<1> QED
  BY <1>2, <1>3, <1>4, <1>5 DEF RowsReal, IInv

\* A lookup's result explains the label made of it.
LEMMA FoundExplains ==
  ASSUME IInv, NEW p \in Clips, NEW e \in FindOverlappingEvent(p)
  PROVE  Explained(p, ProtectLabel(events[e]))
<1>1. e \in Events /\ events[e] \in Said(e) /\ Overlaps(events[e], p)
  BY DEF FindOverlappingEvent, Matching, IInv, RowsReal
<1>2. Covers(events[e], p)
  BY <1>1, OverlapsCovers DEF IInv
<1> QED
  BY <1>1, <1>2 DEF Explained

\* Writing a justified label keeps the labels justified.
LEMMA SetKeepsLabels ==
  ASSUME IInv, NEW p \in Clips, NEW label, stage' = stage, now' = now,
         SetClipClassification(p, label),
         \/ label = HeuristicLabel(p) /\ now >= ClipInfo[p].end + Grace
         \/ Explained(p, label)
  PROVE  LabelsReal'
<1>1. \A q \in Clips : clips'[q] = IF q = p THEN label ELSE clips[q]
  BY DEF SetClipClassification, IInv, TypeOK
<1>2. \A q, l : Explained(q, l) => Explained(q, l)'
  BY DEF Explained, Covers, Said
<1> SUFFICES ASSUME NEW q \in Clips
             PROVE  \/ clips'[q] \in {NoRow, NewClip}
                    \/ clips'[q] = HeuristicLabel(q) /\ now' >= ClipInfo[q].end + Grace
                    \/ Explained(q, clips[q])'
  BY DEF LabelsReal
<1>3. CASE q = p
  BY <1>1, <1>2, <1>3 DEF Explained, Covers
<1>4. CASE q # p
  BY <1>1, <1>2, <1>4 DEF IInv, LabelsReal, Explained, Covers
<1> QED
  BY <1>3, <1>4

LEMMA InitIInv == Init => IInv
<1> SUFFICES ASSUME Init PROVE IInv
  OBVIOUS
<1>1. TypeOK
  BY InitTypeOK
<1>2. KeysReal /\ MessagesReal /\ RowsReal /\ HeldReal /\ LabelsReal
  BY DEF Init, KeysReal, MessagesReal, RowsReal, HeldReal, LabelsReal
<1> QED
  BY <1>1, <1>2 DEF IInv

LEMMA ListenIInv == ASSUME IInv, TypeOK', [Next]_vars, Listen PROVE IInv'
<1> USE ConfigAssumption DEF protectVars, listenerVars, classifierVars, backfillVars
<1>1. \A e \in Events : stage[e] <= stage'[e]
  BY StageGrows DEF IInv
<1>2. CASE Connect
  BY <1>1, <1>2, Frame DEF Connect, IInv, TypeOK
<1>3. CASE ReadMessage
  <2>1. MessagesReal'
    <3>1. /\ Head(wire) = wire[1] /\ 1 \in 1 .. Len(wire)
          /\ Len(wire') = Len(wire) - 1
          /\ \A i \in 1 .. Len(wire') : wire'[i] = wire[i + 1] /\ i + 1 \in 1 .. Len(wire)
      BY <1>3 DEF ReadMessage, IInv, TypeOK
    <3>2. \A i \in 1 .. Len(wire') : wire'[i].stage <= stage'[wire'[i].event]
      BY <1>3, <3>1 DEF ReadMessage, IInv, MessagesReal
    <3>3. \A m \in listener' : m = wire[1]
      BY <1>3, <3>1 DEF ReadMessage
    <3>4. \A m \in listener' \cup bFetched' : m.stage <= stage'[m.event]
      BY <1>3, <3>1, <3>3 DEF ReadMessage, IInv, MessagesReal
    <3> QED
      BY <3>2, <3>4 DEF MessagesReal
  <2> QED
    BY <1>1, <1>3, <2>1, Frame DEF ReadMessage, IInv, TypeOK
<1>4. ASSUME NEW m \in listener, OnEventRefresh(m) PROVE IInv'
  <2>1. KeysReal'
    BY <1>4 DEF OnEventRefresh, IInv, KeysReal
  <2>2. listener' \subseteq listener
    BY <1>4 DEF OnEventRefresh
  <2> QED
    BY <1>1, <1>4, <2>1, <2>2, Frame DEF OnEventRefresh, IInv, TypeOK
<1>5. ASSUME NEW m \in listener, OnEventStore(m) PROVE IInv'
  <2>1. RowsReal'
    <3>1. CASE InsertEvent(m.event, LiveRow(m.event, m.stage, lookupCameraKey(m.event)))
      <4>1. m.event \in Events /\ m.stage \in 1 .. stage[m.event]
        BY DEF IInv, TypeOK, MessagesReal, Message, Stages
      <4> QED
        BY <1>5, <3>1, <4>1, InsertKeepsRows DEF OnEventStore, LiveRow
    <3>2. CASE events' = events
      BY <1>1, <3>2, Frame DEF IInv
    <3> QED
      BY <1>5, <3>1, <3>2 DEF OnEventStore
  <2> QED
    BY <1>1, <1>5, <2>1, Frame DEF OnEventStore, IInv, TypeOK
<1> QED
  BY <1>2, <1>3, <1>4, <1>5 DEF Listen

LEMMA ClassifyIInv == ASSUME IInv, TypeOK', [Next]_vars, Classify PROVE IInv'
<1> USE ConfigAssumption DEF protectVars, listenerVars, classifierVars, backfillVars
<1>1. \A e \in Events : stage[e] <= stage'[e]
  BY StageGrows DEF IInv
<1>2. CASE ClassifyList
  BY <1>1, <1>2, Frame DEF ClassifyList, IInv, TypeOK
<1>3. ASSUME NEW p \in cTodo, ClassifyFind(p) PROVE IInv'
  <2>1. p \in Clips
    BY DEF IInv, TypeOK
  <2>2. \A e \in Events : Said(e)' = Said(e)
    BY <1>3 DEF ClassifyFind, Said
  <2>3. \A d \in cHeld' : d.label # NoRow => Explained(d.clip, d.label)
    BY <1>3, <2>1, FoundExplains DEF ClassifyFind, IInv, HeldReal
  <2>4. HeldReal'
    BY <1>3, <2>2, <2>3 DEF ClassifyFind, IInv, HeldReal, Explained, Covers
  <2> QED
    BY <1>1, <1>3, <2>4, Frame DEF ClassifyFind, IInv, TypeOK
<1>4. ASSUME NEW d \in cHeld, ClassifyMatched(d) PROVE IInv'
  <2>1. d.clip \in Clips /\ Explained(d.clip, d.label)
    BY <1>4 DEF ClassifyMatched, IInv, TypeOK, HeldReal
  <2>2. LabelsReal'
    BY <1>1, <1>4, <2>1, SetKeepsLabels, Frame DEF ClassifyMatched, IInv, TypeOK
  <2> QED
    BY <1>1, <1>4, <2>2, Frame DEF ClassifyMatched, IInv
<1>5. ASSUME NEW d \in cHeld, ClassifyDefer(d) PROVE IInv'
  BY <1>1, <1>5, Frame DEF ClassifyDefer, IInv, TypeOK
<1>6. ASSUME NEW d \in cHeld, ClassifyGuess(d) PROVE IInv'
  <2>1. d.clip \in Clips /\ now >= ClipInfo[d.clip].end + Grace
    BY <1>6 DEF ClassifyGuess, IInv, TypeOK
  <2>2. LabelsReal'
    BY <1>1, <1>6, <2>1, SetKeepsLabels, Frame DEF ClassifyGuess, IInv, TypeOK
  <2> QED
    BY <1>1, <1>6, <2>2, Frame DEF ClassifyGuess, IInv
<1> QED
  BY <1>2, <1>3, <1>4, <1>5, <1>6 DEF Classify

LEMMA BackfillIInv == ASSUME IInv, TypeOK', [Next]_vars, Backfill PROVE IInv'
<1> USE ConfigAssumption DEF protectVars, listenerVars, classifierVars, backfillVars
<1>1. \A e \in Events : stage[e] <= stage'[e]
  BY StageGrows DEF IInv
<1>2. CASE BackfillBegin
  BY <1>1, <1>2, Frame DEF BackfillBegin, IInv, TypeOK
<1>3. CASE BackfillFetch
  <2>1. \A m \in bFetched' : m \in bFetched \/ m.stage = stage[m.event]
    BY <1>3 DEF BackfillFetch, History
  <2>2. MessagesReal'
    <3>1. \A m \in Message : m.event \in Events /\ m.stage \in Nat
      BY DEF Message
    <3>2. bFetched' \subseteq Message /\ wire' = wire /\ listener' = listener /\ stage' = stage
      BY <1>3 DEF BackfillFetch, TypeOK
    <3>3. \A m \in bFetched' : m.stage <= stage[m.event]
      BY <2>1, <3>1, <3>2 DEF IInv, MessagesReal
    <3> QED
      BY <3>2, <3>3 DEF IInv, MessagesReal
  <2> QED
    BY <1>1, <1>3, <2>2, Frame DEF BackfillFetch, IInv, TypeOK
<1>4. CASE BackfillRefresh
  <2>1. KeysReal'
    BY <1>4 DEF BackfillRefresh, IInv, KeysReal
  <2> QED
    BY <1>1, <1>4, <2>1, Frame DEF BackfillRefresh, IInv, TypeOK
<1>5. ASSUME NEW m \in bFetched, BackfillStore(m) PROVE IInv'
  <2>1. RowsReal'
    <3>1. CASE /\ KnownCamera(m.event)
               /\ InsertEvent(m.event, HistoryRow(m.event, m.stage, lookupCameraKey(m.event)))
      <4>1. m.event \in Events /\ m.stage \in 1 .. stage[m.event]
        BY DEF IInv, TypeOK, MessagesReal, Message, Stages
      <4> QED
        BY <1>5, <3>1, <4>1, InsertKeepsRows DEF BackfillStore, HistoryRow
    <3>2. CASE events' = events
      BY <1>1, <3>2, Frame DEF IInv
    <3> QED
      BY <1>5, <3>1, <3>2 DEF BackfillStore
  <2> QED
    BY <1>1, <1>5, <2>1, Frame DEF BackfillStore, IInv, TypeOK
<1>6. CASE ReclassifyList
  BY <1>1, <1>6, Frame DEF ReclassifyList, IInv, TypeOK
<1>7. ASSUME NEW d \in bTodo, ReclassifyFind(d) PROVE IInv'
  <2>1. d.clip \in Clips
    BY DEF IInv, TypeOK
  <2>2. \A e \in Events : Said(e)' = Said(e)
    BY <1>7 DEF ReclassifyFind, Said
  <2>3. \A h \in bHeld' : Explained(h.clip, h.label)
    BY <1>7, <2>1, FoundExplains DEF ReclassifyFind, IInv, HeldReal
  <2>4. HeldReal'
    BY <1>7, <2>2, <2>3 DEF ReclassifyFind, IInv, HeldReal, Explained, Covers
  <2> QED
    BY <1>1, <1>7, <2>4, Frame DEF ReclassifyFind, IInv, TypeOK
<1>8. ASSUME NEW d \in bHeld, ReclassifySet(d) PROVE IInv'
  <2>1. d.clip \in Clips /\ Explained(d.clip, d.label)
    BY DEF IInv, TypeOK, HeldReal
  <2>2. LabelsReal'
    BY <1>1, <1>8, <2>1, SetKeepsLabels, Frame DEF ReclassifySet, IInv, TypeOK
  <2> QED
    BY <1>1, <1>8, <2>2, Frame DEF ReclassifySet, IInv
<1> QED
  BY <1>2, <1>3, <1>4, <1>5, <1>6, <1>7, <1>8 DEF Backfill

LEMMA NextIInv == IInv /\ [Next]_vars => IInv'
<1> SUFFICES ASSUME IInv, [Next]_vars PROVE IInv'
  OBVIOUS
<1> USE ConfigAssumption DEF protectVars, listenerVars, classifierVars, backfillVars
<1>1. TypeOK' /\ \A e \in Events : stage[e] <= stage'[e]
  BY NextTypeOK, StageGrows DEF IInv
<1>2. CASE Tick
  BY <1>1, <1>2, Frame DEF Tick, IInv, TypeOK
<1>3. ASSUME NEW e \in Events, Advance(e) PROVE IInv'
  <2>1. MessagesReal'
    <3>1. \A m \in Message : m.event \in Events /\ m.stage \in Nat
      BY DEF Message
    <3>2. \A f \in Events : stage[f] \in Nat /\ stage'[f] \in Nat
      BY <1>1 DEF IInv, TypeOK
    <3>3. /\ wire \in Seq(Message) /\ wire' \in Seq(Message)
          /\ \A i \in 1 .. Len(wire) : wire[i].stage <= stage[wire[i].event]
      BY <1>1 DEF IInv, TypeOK, MessagesReal
    <3>4. \A i \in 1 .. Len(wire') :
            \/ i \in 1 .. Len(wire) /\ wire'[i] = wire[i]
            \/ wire'[i] = [event |-> e, stage |-> stage[e] + 1]
      BY <1>3, <3>3 DEF Advance
    <3>5. ASSUME NEW i \in 1 .. Len(wire') PROVE wire'[i].stage <= stage'[wire'[i].event]
      <4>1. CASE i \in 1 .. Len(wire) /\ wire'[i] = wire[i]
        BY <1>1, <3>1, <3>2, <3>3, <4>1
      <4>2. CASE wire'[i] = [event |-> e, stage |-> stage[e] + 1]
        BY <1>3, <3>2, <4>2 DEF Advance, IInv, TypeOK
      <4> QED
        BY <3>4, <4>1, <4>2
    <3>6. ASSUME NEW m \in listener' \cup bFetched' PROVE m.stage <= stage'[m.event]
      <4>1. m \in Message /\ m.stage <= stage[m.event]
        BY <1>3 DEF Advance, IInv, TypeOK, MessagesReal
      <4> QED
        BY <1>1, <3>1, <3>2, <4>1
    <3> QED
      BY <3>5, <3>6 DEF MessagesReal
  <2> QED
    BY <1>1, <1>3, <2>1, Frame DEF Advance, IInv, TypeOK
<1>4. ASSUME NEW p \in Clips, IndexClip(p) PROVE IInv'
  <2>1. \A q \in Clips : clips'[q] = clips[q] \/ clips'[q] = NewClip
    BY <1>4 DEF IndexClip, UpsertClip, IInv, TypeOK
  <2>2. \A e \in Events : Said(e)' = Said(e)
    BY <1>4 DEF IndexClip, Said
  <2>3. now' = now
    BY <1>4 DEF IndexClip
  <2>4. LabelsReal'
    BY <2>1, <2>2, <2>3 DEF IInv, LabelsReal, Explained, Covers
  <2> QED
    BY <1>1, <1>4, <2>4, Frame DEF IndexClip, IInv
<1>5. CASE RefreshCameraDirectory
  <2>1. KeysReal'
    BY <1>5 DEF RefreshCameraDirectory, IInv, KeysReal
  <2> QED
    BY <1>1, <1>5, <2>1, Frame DEF RefreshCameraDirectory, IInv, TypeOK
<1>6. CASE Listen
  BY <1>1, <1>6, ListenIInv
<1>7. CASE Disconnect
  <2>1. MessagesReal'
    BY <1>7 DEF Disconnect, IInv, MessagesReal
  <2> QED
    BY <1>1, <1>7, <2>1, Frame DEF Disconnect, IInv, TypeOK
<1>8. CASE Classify
  BY <1>1, <1>8, ClassifyIInv
<1>9. CASE Backfill
  BY <1>1, <1>9, BackfillIInv
<1>10. CASE Restart
  <2>1. KeysReal'
    BY <1>10 DEF Restart, KeysReal
  <2>2. MessagesReal'
    BY <1>10 DEF Restart, MessagesReal
  <2> QED
    BY <1>1, <1>10, <2>1, <2>2, Frame DEF Restart, IInv, TypeOK
<1>11. CASE UNCHANGED vars
  BY <1>1, <1>11, Frame DEF vars, IInv, TypeOK
<1> QED
  BY <1>2, <1>3, <1>4, <1>5, <1>6, <1>7, <1>8, <1>9, <1>10, <1>11 DEF Next

LEMMA IInvSafe == IInv => ClipsExplained
<1> SUFFICES ASSUME IInv, NEW p \in Listed
             PROVE  clips[p].source = "protect" => Explained(p, clips[p])
  BY DEF ClipsExplained
<1>1. p \in Clips /\ clips[p] # NoRow
  BY DEF Listed
<1>2. NewClip.source = "unknown" /\ HeuristicLabel(p).source = "heuristic"
  BY DEF NewClip, HeuristicLabel
<1>3. \A row : ProtectLabel(row).source = "protect"
  BY DEF ProtectLabel
<1>4. Explained(p, clips[p]) => clips[p].source = "protect"
  BY <1>3 DEF Explained
<1> QED
  BY <1>1, <1>2, <1>4 DEF IInv, LabelsReal

(* Every Protect label on a clip is what Protect said, at one moment, of one   *)
(* detection on the clip's camera that overlapped it (ClipsExplained).        *)
THEOREM LabelsExplained == Spec => []ClipsExplained
<1>1. Spec => []IInv
  BY InitIInv, NextIInv, PTL DEF Spec
<1> QED
  BY <1>1, IInvSafe, PTL

-----------------------------------------------------------------------------
(* Correlation implements ClipLabels.  New is what the classifier and the        *)
(* backfill may rely on for the clips they have listed or looked up but not yet  *)
(* written.                                                                    *)

(* A clip in hand is in the table.  Without a backfill nobody else labels a   *)
(* clip, so one the classifier has in hand is still as the indexer left it.  *)
InHand ==
  /\ \A p \in cTodo : clips[p] # NoRow
  /\ \A d \in cHeld : clips[d.clip] # NoRow /\ d.clip \notin cTodo
  /\ \A d \in bTodo \cup bHeld : clips[d.clip] # NoRow

Undisturbed ==
  /\ bPhase = "check" /\ bTodo = {} /\ bHeld = {}
  /\ \A p \in cTodo : clips[p] = NewClip
  /\ \A d \in cHeld : clips[d.clip] = NewClip

WInv == IInv /\ InHand /\ (~LegacyEnabled => Undisturbed)

-----------------------------------------------------------------------------
(* Lemmas. *)

\* A justified label is a label.
LEMMA ExplainedIsLabel ==
  ASSUME IInv, NEW p, NEW label, Explained(p, label)
  PROVE  label # NoRow
<1>1. PICK e \in Events : \E row \in Said(e) : label = ProtectLabel(row)
  BY DEF Explained
<1>2. PICK row \in Said(e) : label = ProtectLabel(row)
  BY <1>1
<1>3. PICK k \in 1 .. stage[e] :
        row \in {LiveRow(e, k, KeyOf[EventInfo[e].camera]),
                 HistoryRow(e, k, KeyOf[EventInfo[e].camera])}
  BY <1>2 DEF Said, SaidAt
<1>4. k \in Stages(e)
  BY ConfigAssumption DEF IInv, TypeOK, Stages
<1> QED
  BY <1>2, <1>3, <1>4, NoRowAssumption

\* What the classifier lists is as the indexer left it.
LEMMA UnclassifiedIsNew ==
  ASSUME IInv, NEW p \in Unclassified
  PROVE  p \in Clips /\ clips[p] = NewClip
<1>1. p \in Clips /\ clips[p] # NoRow /\ clips[p].source = "unknown"
  BY DEF Unclassified
<1>2. HeuristicLabel(p).source = "heuristic"
  BY DEF HeuristicLabel
<1>3. \A row : ProtectLabel(row).source = "protect"
  BY DEF ProtectLabel
<1>4. Explained(p, clips[p]) => clips[p].source = "protect"
  BY <1>3 DEF Explained
<1> QED
  BY <1>1, <1>2, <1>4 DEF IInv, LabelsReal

\* A write of a label to a clip whose label changes no one else's hand.
LEMMA WriteKeepsRows ==
  ASSUME IInv, NEW p \in Clips, NEW label, label # NoRow, SetClipClassification(p, label)
  PROVE  /\ \A q \in Clips : clips[q] # NoRow => clips'[q] # NoRow
         /\ \A q \in Clips : q # p => clips'[q] = clips[q]
         /\ clips'[p] = label
BY DEF SetClipClassification, IInv, TypeOK

\* Rows stay, and no hand but an emptied one changes: then nothing is disturbed.
LEMMA WFrame ==
  ASSUME WInv, TypeOK', IInv',
         \A q \in Clips : clips[q] # NoRow => clips'[q] = clips[q],
         cTodo' \subseteq cTodo, cHeld' \subseteq cHeld,
         bPhase' = bPhase \/ LegacyEnabled \/ bPhase' = "check",
         bTodo' \subseteq bTodo, bHeld' \subseteq bHeld
  PROVE  WInv'
<1>1. \A p \in cTodo : p \in Clips /\ clips[p] # NoRow
  BY DEF WInv, InHand, IInv, TypeOK
<1>2. \A d \in cHeld \cup bTodo \cup bHeld : d.clip \in Clips /\ clips[d.clip] # NoRow
  BY DEF WInv, InHand, IInv, TypeOK
<1>3. InHand'
  BY <1>1, <1>2 DEF WInv, InHand
<1>4. ASSUME ~LegacyEnabled PROVE Undisturbed'
  BY <1>1, <1>2, <1>4 DEF WInv, Undisturbed
<1> QED
  BY <1>3, <1>4 DEF WInv

LEMMA InitWInv == Init => WInv
BY InitIInv DEF Init, WInv, InHand, Undisturbed

-----------------------------------------------------------------------------
(* The invariant is inductive. *)

LEMMA ClassifyWInv == ASSUME WInv, TypeOK', IInv', Classify PROVE WInv'
<1> USE DEF listenerVars, backfillVars, protectVars
<1>1. CASE ClassifyList
  <2>1. \A p \in cTodo' : p \in Clips /\ clips'[p] = NewClip
    BY <1>1, UnclassifiedIsNew DEF ClassifyList, WInv
  <2>2. InHand'
    BY <1>1, <2>1, NoRowAssumption DEF ClassifyList, WInv, InHand
  <2>3. ~LegacyEnabled => Undisturbed'
    BY <1>1, <2>1 DEF ClassifyList, WInv, Undisturbed
  <2> QED
    BY <2>2, <2>3 DEF WInv
<1>2. ASSUME NEW p \in cTodo, ClassifyFind(p) PROVE WInv'
  <2>1. /\ clips[p] # NoRow
        /\ \A d \in cHeld' : d.clip = p
        /\ cTodo' = cTodo \ {p}
        /\ UNCHANGED << clips, backfillVars >>
    BY <1>2 DEF ClassifyFind, WInv, InHand
  <2>2. InHand'
    BY <2>1 DEF WInv, InHand
  <2>3. ~LegacyEnabled => Undisturbed'
    BY <1>2, <2>1 DEF WInv, Undisturbed
  <2> QED
    BY <2>2, <2>3 DEF WInv
<1>3. ASSUME NEW d \in cHeld, ClassifyMatched(d) \/ ClassifyGuess(d) PROVE WInv'
  <2>1. CASE clips' = clips
    BY <1>3, <2>1, WFrame DEF ClassifyMatched, ClassifyGuess
  <2>2. ASSUME NEW label, label # NoRow, SetClipClassification(d.clip, label) PROVE WInv'
    <3>1. d.clip \in Clips /\ d.clip \notin cTodo
      BY DEF WInv, InHand, IInv, TypeOK
    <3>2. \A q \in Clips : (clips[q] # NoRow => clips'[q] # NoRow) /\ (q # d.clip => clips'[q] = clips[q])
      BY <2>2, <3>1, WriteKeepsRows DEF WInv
    <3>3. cHeld' = {} /\ cTodo' = cTodo /\ UNCHANGED backfillVars
      BY <1>3 DEF ClassifyMatched, ClassifyGuess
    <3>4. cTodo \subseteq Clips /\ \A h \in bTodo \cup bHeld : h.clip \in Clips
      BY DEF WInv, IInv, TypeOK
    <3>5. InHand'
      BY <3>2, <3>3, <3>4 DEF WInv, InHand
    <3>6. ~LegacyEnabled => Undisturbed'
      BY <3>1, <3>2, <3>3, <3>4 DEF WInv, Undisturbed
    <3> QED
      BY <3>5, <3>6 DEF WInv
  <2>3. HeuristicLabel(d.clip) # NoRow
    BY NoRowAssumption DEF WInv, IInv, TypeOK
  <2> QED
    BY <1>3, <2>1, <2>2, <2>3 DEF ClassifyMatched, ClassifyGuess
<1>4. ASSUME NEW d \in cHeld, ClassifyDefer(d) PROVE WInv'
  BY <1>4, WFrame DEF ClassifyDefer
<1> QED
  BY <1>1, <1>2, <1>3, <1>4 DEF Classify

LEMMA BackfillWInv == ASSUME WInv, TypeOK', IInv', Backfill PROVE WInv'
<1> USE DEF listenerVars, classifierVars, protectVars
<1>1. LegacyEnabled
  BY DEF Backfill, BackfillBegin, BackfillFetch, BackfillRefresh, BackfillStore,
         ReclassifyList, ReclassifyFind, ReclassifySet, WInv, Undisturbed
<1>2. SUFFICES InHand'
  BY <1>1 DEF WInv
<1>3. CASE UNCHANGED << clips, classifierVars, bTodo, bHeld >>
  BY <1>3 DEF WInv, InHand
<1>4. CASE ReclassifyList
  BY <1>4 DEF ReclassifyList, WInv, InHand, Listed
<1>5. ASSUME NEW d \in bTodo, ReclassifyFind(d) PROVE InHand'
  <2>1. bTodo' \subseteq bTodo /\ \A h \in bHeld' : h.clip = d.clip
    BY <1>5 DEF ReclassifyFind, WInv, IInv, TypeOK
  <2> QED
    BY <1>5, <2>1 DEF ReclassifyFind, WInv, InHand
<1>6. ASSUME NEW d \in bHeld, ReclassifySet(d) PROVE InHand'
  <2>1. CASE clips' = clips
    BY <1>6, <2>1 DEF ReclassifySet, WInv, InHand
  <2>2. CASE SetClipClassification(d.clip, d.label)
    <3>1. d.clip \in Clips /\ d.label # NoRow
      BY ExplainedIsLabel DEF WInv, IInv, TypeOK, HeldReal
    <3>2. \A q \in Clips : clips[q] # NoRow => clips'[q] # NoRow
      BY <2>2, <3>1, WriteKeepsRows DEF WInv
    <3>3. cTodo \subseteq Clips /\ \A h \in cHeld \cup bTodo : h.clip \in Clips
      BY DEF WInv, IInv, TypeOK
    <3> QED
      BY <1>6, <3>2, <3>3 DEF ReclassifySet, WInv, InHand
  <2> QED
    BY <1>6, <2>1, <2>2 DEF ReclassifySet
<1> QED
  BY <1>3, <1>4, <1>5, <1>6 DEF Backfill, BackfillBegin, BackfillFetch, BackfillRefresh, BackfillStore

LEMMA NextWInv == WInv /\ [Next]_vars => WInv'
<1> SUFFICES ASSUME WInv, [Next]_vars PROVE WInv'
  OBVIOUS
<1>1. TypeOK' /\ IInv'
  BY NextIInv DEF WInv, IInv
<1>2. CASE UNCHANGED << clips, classifierVars, backfillVars >>
  BY <1>1, <1>2, WFrame DEF classifierVars, backfillVars
<1>3. ASSUME NEW p \in Clips, IndexClip(p) PROVE WInv'
  <2>1. \A q \in Clips : clips[q] # NoRow => clips'[q] = clips[q]
    BY <1>3 DEF IndexClip, UpsertClip, WInv, IInv, TypeOK
  <2> QED
    BY <1>1, <1>3, <2>1, WFrame DEF IndexClip, classifierVars, backfillVars
<1>4. CASE Classify
  BY <1>1, <1>4, ClassifyWInv
<1>5. CASE Backfill
  BY <1>1, <1>5, BackfillWInv
<1>6. CASE Restart
  BY <1>1, <1>6, WFrame DEF Restart
<1>7. CASE Tick \/ (\E e \in Events : Advance(e)) \/ RefreshCameraDirectory \/ Listen \/ Disconnect
  BY <1>2, <1>7 DEF Tick, Advance, RefreshCameraDirectory, Listen, Connect, ReadMessage,
                    OnEventRefresh, OnEventStore, Disconnect
<1> QED
  BY <1>2, <1>3, <1>4, <1>5, <1>6, <1>7 DEF Next, vars

-----------------------------------------------------------------------------
(* Every step is one of ClipLabels. *)

\* What justifies a label, and that a clip is due, is never taken back.
LEMMA KnowledgeGrows ==
  ASSUME WInv, [Next]_vars
  PROVE  Justified \subseteq Justified' /\ Due \subseteq Due'
<1>1. TypeOK /\ TypeOK' /\ \A e \in Events : stage[e] <= stage'[e]
  BY NextTypeOK, StageGrows DEF WInv, IInv
<1>2. now \in Nat /\ now' \in Nat /\ now <= now'
  <2>1. now' = now \/ now' = now + 1
    BY DEF Next, Tick, Advance, IndexClip, RefreshCameraDirectory, Listen, Connect,
           ReadMessage, OnEventRefresh, OnEventStore, Disconnect, Classify, ClassifyList,
           ClassifyFind, ClassifyMatched, ClassifyDefer, ClassifyGuess, Backfill,
           BackfillBegin, BackfillFetch, BackfillRefresh, BackfillStore, ReclassifyList,
           ReclassifyFind, ReclassifySet, Restart, vars
  <2> QED
    BY <1>1, <2>1, ConfigAssumption DEF TypeOK
<1>3. \A e \in Events : 1 .. stage[e] \subseteq 1 .. stage'[e]
  BY <1>1, ConfigAssumption DEF TypeOK
<1>4. Justified \subseteq Justified'
  <2>1. Evidence' = Evidence
    BY DEF Evidence, SaidAt, Covers
  <2>2. ASSUME NEW p \in Clips PROVE Known(p) \subseteq Known(p)'
    <3>1. ASSUME NEW e \in Events
          PROVE  UNION {Evidence[p][e][k] : k \in 1 .. stage[e]}
                   \subseteq UNION {Evidence[p][e][k] : k \in 1 .. stage'[e]}
      BY <1>3
    <3> QED
      BY <2>1, <3>1 DEF Known
  <2> QED
    BY <2>2 DEF Justified
<1>5. Due \subseteq Due'
  BY <1>2, ConfigAssumption DEF Due
<1> QED
  BY <1>4, <1>5

\* A write of a justified label, or of a guess that is due, to an open clip.
LEMMA WriteRefines ==
  ASSUME WInv, NEW p \in Clips, NEW label, SetClipClassification(p, label),
         now' = now, stage' = stage,
         clips[p] = NewClip \/ (LegacyEnabled /\ clips[p] # NoRow),
         Explained(p, label) \/ (label = HeuristicLabel(p) /\ p \in Due)
  PROVE  Labels!Next
<1>1. clips' = [clips EXCEPT ![p] = label]
  BY DEF SetClipClassification
<1>2. UNCHANGED << Justified, Due >>
  BY DEF Justified, Known, Evidence, SaidAt, Covers, Due
<1>3. Labels!Open(p)
  BY DEF Labels!Open
<1>4. CASE Explained(p, label)
  <2>1. << p, label >> \in Justified
    <3>1. PICK e \in Events : \E row \in Said(e) : Covers(row, p) /\ label = ProtectLabel(row)
      BY <1>4 DEF Explained
    <3>2. PICK k \in 1 .. stage[e] : \E row \in SaidAt(e, k) : Covers(row, p) /\ label = ProtectLabel(row)
      BY <3>1 DEF Said
    <3>3. k \in Stages(e)
      BY ConfigAssumption DEF WInv, IInv, TypeOK, Stages
    <3>4. << p, label >> \in Evidence[p][e][k]
      BY <3>2, <3>3 DEF Evidence
    <3> QED
      BY <3>4 DEF Justified, Known
  <2>2. Labels!Match(p)
    BY <1>1, <1>2, <1>3, <2>1 DEF Labels!Match
  <2> QED
    BY <2>2 DEF Labels!Next
<1>5. CASE label = HeuristicLabel(p) /\ p \in Due
  <2>1. Labels!Settle(p)
    BY <1>1, <1>2, <1>3, <1>5 DEF Labels!Settle
  <2> QED
    BY <2>1 DEF Labels!Next
<1> QED
  BY <1>4, <1>5

LEMMA StepRefines == WInv /\ [Next]_vars => [Labels!Next]_(Labels!labelVars)
<1> SUFFICES ASSUME WInv, [Next]_vars PROVE Labels!Next
  OBVIOUS
<1>1. ASSUME clips' = clips PROVE Labels!Next
  BY <1>1, KnowledgeGrows DEF Labels!Next, Labels!Learn
<1>2. ASSUME NEW p \in Clips, IndexClip(p) PROVE Labels!Next
  <2>1. CASE clips[p] = NoRow
    <3>1. clips' = [clips EXCEPT ![p] = NewClip]
      BY <1>2, <2>1 DEF IndexClip, UpsertClip
    <3>2. UNCHANGED << Justified, Due >>
      BY <1>2 DEF IndexClip, protectVars, Justified, Known, Evidence, SaidAt, Covers, Due
    <3> QED
      BY <2>1, <3>1, <3>2 DEF Labels!Next, Labels!Appear
  <2>2. CASE clips[p] # NoRow
    BY <1>1, <1>2, <2>2 DEF IndexClip, UpsertClip
  <2> QED
    BY <2>1, <2>2
<1>3. ASSUME NEW d \in cHeld, ClassifyMatched(d) \/ ClassifyGuess(d) PROVE Labels!Next
  <2>1. d.clip \in Clips /\ clips[d.clip] # NoRow /\ (~LegacyEnabled => clips[d.clip] = NewClip)
    BY DEF WInv, InHand, Undisturbed, IInv, TypeOK
  <2>2. now' = now /\ stage' = stage
    BY <1>3 DEF ClassifyMatched, ClassifyGuess, protectVars
  <2>3. CASE clips' = clips
    BY <1>1, <2>3
  <2>4. CASE d.label # NoRow /\ SetClipClassification(d.clip, d.label)
    <3>1. Explained(d.clip, d.label)
      BY <2>4 DEF WInv, IInv, HeldReal
    <3> QED
      BY <2>1, <2>2, <2>4, <3>1, WriteRefines
  <2>5. CASE now >= ClipInfo[d.clip].end + Grace /\ SetClipClassification(d.clip, HeuristicLabel(d.clip))
    BY <2>1, <2>2, <2>5, WriteRefines DEF Due
  <2> QED
    BY <1>3, <2>3, <2>4, <2>5 DEF ClassifyMatched, ClassifyGuess
<1>4. ASSUME NEW d \in bHeld, ReclassifySet(d) PROVE Labels!Next
  <2>1. LegacyEnabled /\ d.clip \in Clips /\ clips[d.clip] # NoRow /\ Explained(d.clip, d.label)
    BY DEF WInv, InHand, Undisturbed, IInv, TypeOK, HeldReal
  <2>2. now' = now /\ stage' = stage
    BY <1>4 DEF ReclassifySet, protectVars
  <2>3. CASE clips' = clips
    BY <1>1, <2>3
  <2>4. CASE SetClipClassification(d.clip, d.label)
    BY <2>1, <2>2, <2>4, WriteRefines
  <2> QED
    BY <1>4, <2>3, <2>4 DEF ReclassifySet
<1> QED
  BY <1>1, <1>2, <1>3, <1>4
     DEF Next, Tick, Advance, RefreshCameraDirectory, Listen, Connect, ReadMessage,
         OnEventRefresh, OnEventStore, Disconnect, Classify, ClassifyList, ClassifyFind,
         ClassifyDefer, Backfill, BackfillBegin, BackfillFetch, BackfillRefresh,
         BackfillStore, ReclassifyList, ReclassifyFind, Restart, vars

LEMMA InitRefines == Init => Labels!Init
<1> SUFFICES ASSUME Init PROVE Labels!Init
  OBVIOUS
<1>1. \A e \in Events : 1 .. stage[e] = {}
  BY DEF Init
<1>2. Justified = {}
  BY <1>1 DEF Justified, Known
<1> QED
  BY <1>2 DEF Init, Labels!Init

(* The clips table implements ClipLabels (LabelsRefined): whatever the        *)
(* activities interleave, lose or repeat, a label is only ever a justified    *)
(* one or a due guess, and is replaced only where a backfill exists.          *)
THEOREM ClipsImplementLabels == Spec => LabelsRefined
<1>1. Spec => []WInv
  BY InitWInv, NextWInv, PTL DEF Spec
<1>2. Spec => Labels!Init /\ [][Labels!Next]_(Labels!labelVars)
  BY <1>1, InitRefines, StepRefines, PTL DEF Spec
<1> QED
  BY <1>2 DEF LabelsRefined, Labels!Spec

-----------------------------------------------------------------------------
(* Without a backfill a stored end is never lost.                                *)

-----------------------------------------------------------------------------
(* What is supposed of Protect, which the code does not control: an event that  *)
(* has ended stays ended.                                                      *)

Ended(e, k) == Snapshot(e, k).end # NoEnd

EndsStay ==
  \A e \in Events : \A j, k \in Stages(e) : j <= k /\ Ended(e, j) => Ended(e, k)

-----------------------------------------------------------------------------
(* The strengthening: messages of one event are in the order Protect sent them,  *)
(* from the row over OnEvent to the socket.                                     *)

WireOrdered ==
  \A i, j \in 1 .. Len(wire) :
    i < j /\ wire[i].event = wire[j].event => wire[i].stage <= wire[j].stage

ListenerFirst ==
  \A m \in listener : \A i \in 1 .. Len(wire) :
    m.event = wire[i].event => m.stage <= wire[i].stage

Closed(e) == events[e] # NoRow /\ events[e].end # NoEnd

ClosedStays ==
  /\ \A m \in listener : Closed(m.event) => Ended(m.event, m.stage)
  /\ \A i \in 1 .. Len(wire) : Closed(wire[i].event) => Ended(wire[i].event, wire[i].stage)

OInv == WireOrdered /\ ListenerFirst /\ ClosedStays

LEMMA InitOInv == Init => OInv
BY DEF Init, OInv, WireOrdered, ListenerFirst, ClosedStays

-----------------------------------------------------------------------------
(* Lemmas. *)

\* Every message is of a stage Protect has reached.
LEMMA MessagesAre ==
  ASSUME IInv
  PROVE  /\ \A m \in listener : /\ m.event \in Events /\ m.stage \in Stages(m.event)
                                /\ m.stage <= stage[m.event]
         /\ \A i \in 1 .. Len(wire) : /\ wire[i] \in Message
                                      /\ wire[i].event \in Events
                                      /\ wire[i].stage \in Stages(wire[i].event)
                                      /\ wire[i].stage <= stage[wire[i].event]
         /\ \A e \in Events : stage[e] \in Nat /\ \A k \in Stages(e) : k \in Nat
BY ConfigAssumption DEF IInv, TypeOK, MessagesReal, Message, Stages

\* A row with an end has the end of a stage Protect has reached.
LEMMA ClosedBy ==
  ASSUME IInv, NEW e \in Events, Closed(e)
  PROVE  \E k \in 1 .. stage[e] : k \in Stages(e) /\ Ended(e, k)
<1>1. events[e] \in Said(e)
  BY DEF IInv, RowsReal, Closed
<1>2. PICK k \in 1 .. stage[e] : \E reading : events[e] = EventRow(e, k, KeyOf[EventInfo[e].camera], reading)
  BY <1>1 DEF Said, SaidAt, LiveRow, HistoryRow
<1>3. PICK reading : events[e] = EventRow(e, k, KeyOf[EventInfo[e].camera], reading)
  BY <1>2
<1>4. events[e].end = Snapshot(e, k).end
  BY <1>3 DEF EventRow
<1>5. k \in Stages(e)
  BY ConfigAssumption DEF IInv, TypeOK, Stages
<1> QED
  BY <1>4, <1>5 DEF Closed, Ended

\* The row written has the end of the message's stage.
LEMMA InsertedEnd ==
  ASSUME TypeOK, NEW e \in Events, NEW k, NEW key, InsertEvent(e, LiveRow(e, k, key))
  PROVE  /\ events'[e].end = Snapshot(e, k).end
         /\ \A f \in Events : f # e => events'[f] = events[f]
<1> DEFINE row == LiveRow(e, k, key)
<1>1. row.end = Snapshot(e, k).end
  BY DEF LiveRow, EventRow
<1>2. [row EXCEPT !.key = events[e].key, !.start = events[e].start].end = Snapshot(e, k).end
  BY DEF LiveRow, EventRow
<1>3. events'[e] \in {row, [row EXCEPT !.key = events[e].key, !.start = events[e].start]}
  BY DEF InsertEvent, TypeOK
<1>4. \A f \in Events : f # e => events'[f] = events[f]
  BY DEF InsertEvent, TypeOK
<1> HIDE DEF row
<1> QED
  BY <1>1, <1>2, <1>3, <1>4

\* Without a backfill configured nothing of it runs.
LEMMA NoBackfill ==
  ASSUME WInv, ~LegacyEnabled
  PROVE  ~Backfill
BY DEF Backfill, BackfillBegin, BackfillFetch, BackfillRefresh, BackfillStore,
       ReclassifyList, ReclassifyFind, ReclassifySet, WInv, Undisturbed

\* What leaves rows and messages where they are, or takes messages away.
LEMMA OFrame ==
  ASSUME OInv, events' = events, listener' \subseteq listener, wire' \in {wire, << >>}
  PROVE  OInv'
BY DEF OInv, WireOrdered, ListenerFirst, ClosedStays, Closed

-----------------------------------------------------------------------------
(* The inductive step, one lemma for each way a message takes. *)

\* Protect sends a stage later than all it has sent.
LEMMA AdvanceOInv ==
  ASSUME IInv, OInv, EndsStay, NEW e \in Events, Advance(e)
  PROVE  OInv'
<1>1. UNCHANGED << events, listener >>
  BY DEF Advance, listenerVars
<1>2. CASE wire' = wire
  BY <1>1, <1>2, OFrame
<1>3. CASE wire' = Append(wire, [event |-> e, stage |-> stage[e] + 1])
  <2> DEFINE k == stage[e] + 1
             last == Len(wire) + 1
  <2>1. /\ Len(wire') = last /\ Len(wire) \in Nat
        /\ \A i \in 1 .. Len(wire) : wire'[i] = wire[i]
        /\ wire'[last].event = e /\ wire'[last].stage = k
    <3>1. wire \in Seq(Message)
      BY DEF IInv, TypeOK
    <3> QED
      BY <1>3, <3>1
  <2>2. k \in Stages(e) /\ stage[e] \in Nat
    BY ConfigAssumption DEF Advance, IInv, TypeOK, Stages
  <2>3. \A i \in 1 .. Len(wire') : i \in 1 .. Len(wire) \/ i = last
    BY <2>1
  <2>4. WireOrdered'
    <3> SUFFICES ASSUME NEW i \in 1 .. Len(wire'), NEW j \in 1 .. Len(wire'), i < j,
                        wire'[i].event = wire'[j].event
                 PROVE  wire'[i].stage <= wire'[j].stage
      BY DEF WireOrdered
    <3>1. i \in 1 .. Len(wire)
      BY <2>1
    <3>2. CASE j = last
      <4>1. wire[i].event = e /\ wire[i].stage <= stage[e] /\ wire[i].stage \in Nat
        BY <2>1, <3>1, <3>2, MessagesAre
      <4> QED
        BY <2>1, <2>2, <3>1, <3>2, <4>1
    <3>3. CASE j \in 1 .. Len(wire)
      BY <2>1, <3>1, <3>3 DEF OInv, WireOrdered
    <3> QED
      BY <2>3, <3>2, <3>3
  <2>5. ListenerFirst'
    <3> SUFFICES ASSUME NEW m \in listener, NEW i \in 1 .. Len(wire'), m.event = wire'[i].event
                 PROVE  m.stage <= wire'[i].stage
      BY <1>1 DEF ListenerFirst
    <3>1. CASE i = last
      <4>1. m.event = e /\ m.stage <= stage[e] /\ m.stage \in Nat
        BY <2>1, <3>1, MessagesAre
      <4> QED
        BY <2>1, <2>2, <3>1, <4>1
    <3>2. CASE i \in 1 .. Len(wire)
      BY <2>1, <3>2 DEF OInv, ListenerFirst
    <3> QED
      BY <2>3, <3>1, <3>2
  <2>6. ASSUME Closed(e) PROVE Ended(e, k)
    <3>1. PICK j \in 1 .. stage[e] : j \in Stages(e) /\ Ended(e, j)
      BY <2>6, ClosedBy
    <3>2. j <= k
      BY <2>2, <3>1
    <3> QED
      BY <2>2, <3>1, <3>2 DEF EndsStay
  <2>7. ClosedStays'
    BY <1>1, <2>1, <2>3, <2>6 DEF OInv, ClosedStays, Closed, Ended
  <2> QED
    BY <2>4, <2>5, <2>7 DEF OInv
<1> QED
  BY <1>2, <1>3 DEF Advance

\* The oldest message of the socket goes to OnEvent, which has none.
LEMMA ReadOInv == ASSUME IInv, OInv, ReadMessage PROVE OInv'
<1>1. /\ 1 \in 1 .. Len(wire)
      /\ Len(wire) \in Nat /\ Len(wire') = Len(wire) - 1
      /\ \A i \in 1 .. Len(wire') : wire'[i] = wire[i + 1] /\ i + 1 \in 1 .. Len(wire)
      /\ \A m \in listener' : m = wire[1]
      /\ events' = events
  <2>1. wire \in Seq(Message) /\ wire # << >> /\ wire' = Tail(wire)
    BY DEF ReadMessage, IInv, TypeOK
  <2>2. Head(wire) = wire[1]
    BY <2>1
  <2>3. \A m \in listener' : m = wire[1]
    BY <2>2 DEF ReadMessage
  <2> QED
    BY <2>1, <2>3 DEF ReadMessage
<1>2. WireOrdered'
  <2> SUFFICES ASSUME NEW i \in 1 .. Len(wire'), NEW j \in 1 .. Len(wire'), i < j,
                      wire'[i].event = wire'[j].event
               PROVE  wire'[i].stage <= wire'[j].stage
    BY DEF WireOrdered
  <2>1. i + 1 < j + 1
    BY <1>1
  <2> QED
    BY <1>1, <2>1 DEF OInv, WireOrdered
<1>3. ListenerFirst'
  <2> SUFFICES ASSUME NEW m \in listener', NEW i \in 1 .. Len(wire'), m.event = wire'[i].event
               PROVE  m.stage <= wire'[i].stage
    BY DEF ListenerFirst
  <2>1. 1 < i + 1 /\ m = wire[1] /\ wire'[i] = wire[i + 1] /\ i + 1 \in 1 .. Len(wire)
    BY <1>1
  <2> QED
    BY <1>1, <2>1 DEF OInv, WireOrdered
<1>4. ClosedStays'
  BY <1>1 DEF OInv, ClosedStays, Closed, Ended
<1> QED
  BY <1>2, <1>3, <1>4 DEF OInv

\* What is stored is not older than what was, and nothing on its way is older.
LEMMA StoreOInv ==
  ASSUME IInv, OInv, EndsStay, NEW m \in listener, OnEventStore(m)
  PROVE  /\ OInv'
         /\ \A e \in Events : Closed(e) => events'[e].end # NoEnd
<1>1. wire' = wire /\ listener' = {}
  BY DEF OnEventStore, protectVars, IInv, TypeOK
<1>2. m.event \in Events /\ m.stage \in Stages(m.event)
  BY MessagesAre
<1>3. CASE events' = events
  BY <1>1, <1>3, OFrame DEF Closed
<1>4. CASE InsertEvent(m.event, LiveRow(m.event, m.stage, lookupCameraKey(m.event)))
  <2>1. /\ events'[m.event].end = Snapshot(m.event, m.stage).end
        /\ \A e \in Events : e # m.event => events'[e] = events[e]
    BY <1>2, <1>4, InsertedEnd DEF IInv
  <2>2. Closed(m.event) => Ended(m.event, m.stage)
    BY DEF OInv, ClosedStays
  <2>3. \A e \in Events : Closed(e) => events'[e].end # NoEnd
    BY <2>1, <2>2 DEF Closed, Ended
  <2>4. ASSUME NEW i \in 1 .. Len(wire), events'[wire[i].event].end # NoEnd,
               events'[wire[i].event] # NoRow
        PROVE  Ended(wire[i].event, wire[i].stage)
    <3>1. wire[i].event \in Events /\ wire[i].stage \in Stages(wire[i].event)
      BY MessagesAre
    <3>2. CASE wire[i].event = m.event
      <4>1. m.stage <= wire[i].stage /\ Ended(m.event, m.stage)
        BY <2>1, <2>4, <3>2 DEF OInv, ListenerFirst, Ended
      <4> QED
        BY <1>2, <3>1, <3>2, <4>1 DEF EndsStay
    <3>3. CASE wire[i].event # m.event
      BY <2>1, <2>4, <3>1, <3>3 DEF OInv, ClosedStays, Closed
    <3> QED
      BY <3>2, <3>3
  <2>5. ClosedStays'
    BY <1>1, <2>4 DEF ClosedStays, Closed, Ended
  <2>6. WireOrdered' /\ ListenerFirst'
    BY <1>1 DEF OInv, WireOrdered, ListenerFirst
  <2> QED
    BY <2>3, <2>5, <2>6 DEF OInv
<1> QED
  BY <1>3, <1>4 DEF OnEventStore

LEMMA NextOInv ==
  ASSUME ~LegacyEnabled, EndsStay, WInv, OInv, [Next]_vars
  PROVE  /\ OInv'
         /\ \A e \in Events : Closed(e) => events'[e].end # NoEnd
<1> USE DEF WInv
<1>1. ASSUME events' = events, OInv' PROVE OInv' /\ \A e \in Events : Closed(e) => events'[e].end # NoEnd
  BY <1>1 DEF Closed
<1>2. ASSUME NEW e \in Events, Advance(e) PROVE OInv' /\ events' = events
  BY <1>2, AdvanceOInv DEF Advance
<1>3. CASE ReadMessage
  BY <1>1, <1>3, ReadOInv DEF ReadMessage
<1>4. ASSUME NEW m \in listener, OnEventRefresh(m) PROVE OInv' /\ events' = events
  BY <1>4, OFrame DEF OnEventRefresh, protectVars
<1>5. ASSUME NEW m \in listener, OnEventStore(m)
      PROVE  OInv' /\ \A e \in Events : Closed(e) => events'[e].end # NoEnd
  BY <1>5, StoreOInv
<1>6. CASE Connect \/ Disconnect \/ Restart
  BY <1>1, <1>6, OFrame DEF Connect, Disconnect, Restart, listenerVars
<1>7. CASE Tick \/ (\E p \in Clips : IndexClip(p)) \/ RefreshCameraDirectory \/ UNCHANGED vars
  BY <1>1, <1>7, OFrame
     DEF Tick, IndexClip, RefreshCameraDirectory, vars, protectVars, listenerVars
<1>8. CASE Classify
  BY <1>1, <1>8, OFrame
     DEF Classify, ClassifyList, ClassifyFind, ClassifyMatched, ClassifyDefer, ClassifyGuess,
         protectVars, listenerVars
<1>9. ~Backfill
  BY NoBackfill
<1> QED
  BY <1>1, <1>2, <1>3, <1>4, <1>5, <1>6, <1>7, <1>8, <1>9 DEF Next, Listen

-----------------------------------------------------------------------------
(* Without a backfill, and if Protect does not itself reopen an event, a stored   *)
(* end is never lost (EndNeverLost; readLoop, OnEvent, InsertEvent).             *)
THEOREM LiveEndsKept == ASSUME ~LegacyEnabled, EndsStay PROVE Spec => EndNeverLost
<1>1. WInv /\ OInv /\ [Next]_vars => WInv' /\ OInv'
  BY NextWInv, NextOInv
<1>2. WInv /\ OInv /\ [Next]_vars =>
        [\A e \in Events :
           (events[e] # NoRow /\ events[e].end # NoEnd) => events'[e].end # NoEnd]_vars
  BY NextOInv DEF Closed
<1> QED
  BY InitWInv, InitOInv, <1>1, <1>2, PTL DEF Spec, EndNeverLost

-----------------------------------------------------------------------------
(* What the headline and the detail of a detection are, for any labels and any    *)
(* thumbnails.  A statement about every prefix of a list is proved by looking at   *)
(* the shortest prefix it would fail for.                                        *)

LEMMA LeastNatural ==
  ASSUME NEW T \in SUBSET Nat, T # {}
  PROVE  \E n \in T : \A m \in T : n <= m
<1> DEFINE R == {p \in Nat \X Nat : p[1] < p[2]}
<1>1. IsWellFoundedOn(R, Nat)
  BY NatLessThanWellFounded DEF OpToRel
<1>2. \A x, y \in Nat : << x, y >> \in R <=> x < y
  OBVIOUS
<1> HIDE DEF R
<1>3. PICK x \in T : \A y \in T : ~ (<< y, x >> \in R)
  BY <1>1, WFMin
<1>4. SUFFICES ASSUME NEW m \in T PROVE x <= m
  OBVIOUS
<1>5. x \in Nat /\ m \in Nat /\ ~(m < x)
  BY <1>2, <1>3
<1> QED
  BY <1>5

LEMMA RankIsNatural == \A t : Rank(t) \in Nat
<1>1. DOMAIN typePriority = {"licensePlate", "face", "person", "vehicle", "animal"}
  BY DEF typePriority
<1>2. IsFiniteSet({"licensePlate", "face", "person", "vehicle", "animal"})
  <2>1. IsFiniteSet({"licensePlate"})
    BY FS_Singleton
  <2>2. IsFiniteSet({"licensePlate"} \cup {"face"})
    BY <2>1, FS_AddElement
  <2>3. IsFiniteSet({"licensePlate"} \cup {"face"} \cup {"person"})
    BY <2>2, FS_AddElement
  <2>4. IsFiniteSet({"licensePlate"} \cup {"face"} \cup {"person"} \cup {"vehicle"})
    BY <2>3, FS_AddElement
  <2>5. IsFiniteSet({"licensePlate"} \cup {"face"} \cup {"person"} \cup {"vehicle"} \cup {"animal"})
    BY <2>4, FS_AddElement
  <2>6. {"licensePlate"} \cup {"face"} \cup {"person"} \cup {"vehicle"} \cup {"animal"}
          = {"licensePlate", "face", "person", "vehicle", "animal"}
    OBVIOUS
  <2> QED
    BY <2>5, <2>6
<1>3. Cardinality(DOMAIN typePriority) \in Nat
  BY <1>1, <1>2, FS_CardinalityType
<1>4. \A t \in DOMAIN typePriority : typePriority[t] \in Nat
  BY DEF typePriority
<1> QED
  BY <1>3, <1>4 DEF Rank

\* best[i] is what the loop has after the first i labels, for each i up to n.
Follows(best, labels, n) ==
  best = [i \in 0 .. n |-> IF i = 0 THEN NoType ELSE MoreSpecific(best[i - 1], labels[i])]

LEMMA LoopRuns ==
  ASSUME NEW S, NEW labels \in Seq(S), NEW n \in 0 .. Len(labels)
  PROVE  \E best : Follows(best, labels, n)
<1> DEFINE T == {m \in 0 .. Len(labels) : ~ \E best : Follows(best, labels, m)}
<1>1. SUFFICES ASSUME T # {} PROVE FALSE
  OBVIOUS
<1>2. PICK m \in T : \A k \in T : m <= k
  <2>1. T \in SUBSET Nat
    OBVIOUS
  <2> QED
    BY <1>1, <2>1, LeastNatural
<1>3. m \in 0 .. Len(labels) /\ ~ \E best : Follows(best, labels, m)
  OBVIOUS
<1>4. m # 0
  <2> DEFINE f == [i \in 0 .. 0 |-> NoType]
  <2>1. Follows(f, labels, 0)
    BY DEF Follows
  <2> QED
    BY <1>3, <2>1
<1>5. PICK f : Follows(f, labels, m - 1)
  <2>1. m - 1 \in 0 .. Len(labels) /\ m - 1 < m
    BY <1>3, <1>4
  <2>2. m - 1 \notin T
    BY <1>2, <1>3, <2>1
  <2> QED
    BY <2>1, <2>2
<1> DEFINE g == [i \in 0 .. m |-> IF i = m THEN MoreSpecific(f[m - 1], labels[m]) ELSE f[i]]
<1>6. Follows(g, labels, m)
  <2>1. \A i \in 0 .. m : g[i] = IF i = 0 THEN NoType ELSE MoreSpecific(g[i - 1], labels[i])
    <3> SUFFICES ASSUME NEW i \in 0 .. m
                 PROVE  g[i] = IF i = 0 THEN NoType ELSE MoreSpecific(g[i - 1], labels[i])
      OBVIOUS
    <3>1. i # 0 => g[i - 1] = f[i - 1]
      BY <1>3
    <3>2. CASE i = m
      BY <1>4, <3>1, <3>2
    <3>3. CASE i # m
      <4>1. i \in 0 .. m - 1
        BY <1>3, <3>3
      <4>2. f[i] = IF i = 0 THEN NoType ELSE MoreSpecific(f[i - 1], labels[i])
        BY <1>5, <4>1 DEF Follows
      <4> QED
        BY <3>1, <3>3, <4>2
    <3> QED
      BY <3>2, <3>3
  <2> HIDE DEF g
  <2>2. g = [i \in 0 .. m |-> g[i]]
    BY DEF g
  <2> QED
    BY <2>1, <2>2 DEF Follows
<1> QED
  BY <1>3, <1>6

LEMMA PickPrimaryTypeRuns ==
  ASSUME NEW S, NEW labels \in Seq(S)
  PROVE  \E best : Follows(best, labels, Len(labels)) /\ PickPrimaryType(labels) = best[Len(labels)]
<1> DEFINE F == CHOOSE best : best = [i \in 0 .. Len(labels) |->
                  IF i = 0 THEN NoType ELSE MoreSpecific(best[i - 1], labels[i])]
<1>1. PickPrimaryType(labels) = F[Len(labels)]
  BY DEF PickPrimaryType
<1>2. Len(labels) \in 0 .. Len(labels)
  OBVIOUS
<1>3. \E best : best = [i \in 0 .. Len(labels) |->
                  IF i = 0 THEN NoType ELSE MoreSpecific(best[i - 1], labels[i])]
  BY <1>2, LoopRuns DEF Follows
<1>4. F = [i \in 0 .. Len(labels) |-> IF i = 0 THEN NoType ELSE MoreSpecific(F[i - 1], labels[i])]
  BY <1>3, Zenon
<1> HIDE DEF F
<1> QED
  BY <1>1, <1>4 DEF Follows

\* The loop's invariant: the best so far is the headline of what it has seen.
HeadlineOf(label, labels, n) ==
  /\ label # NoType
  /\ \E i \in 1 .. n :
       /\ label = labels[i]
       /\ \A j \in 1 .. n : Rank(labels[i]) <= Rank(labels[j])
       /\ \A j \in 1 .. i - 1 : Rank(labels[i]) < Rank(labels[j])

LEMMA LoopStep ==
  ASSUME NEW S, NoType \notin S, NEW labels \in Seq(S), NEW n \in 1 .. Len(labels), NEW label,
         n = 1 => label = NoType, n > 1 => HeadlineOf(label, labels, n - 1)
  PROVE  HeadlineOf(MoreSpecific(label, labels[n]), labels, n)
<1>1. n \in Nat /\ labels[n] # NoType
  OBVIOUS
<1>2. CASE n = 1
  <2>1. MoreSpecific(label, labels[n]) = labels[1]
    BY <1>2 DEF MoreSpecific
  <2>2. Rank(labels[1]) <= Rank(labels[1])
    BY RankIsNatural
  <2> QED
    BY <1>1, <1>2, <2>1, <2>2 DEF HeadlineOf
<1>3. CASE n > 1
  <2>1. PICK i \in 1 .. n - 1 :
          /\ label = labels[i]
          /\ \A j \in 1 .. n - 1 : Rank(labels[i]) <= Rank(labels[j])
          /\ \A j \in 1 .. i - 1 : Rank(labels[i]) < Rank(labels[j])
    BY <1>3 DEF HeadlineOf
  <2>2. label # NoType
    BY <1>3 DEF HeadlineOf
  <2>3. \A j \in 1 .. n : j \in 1 .. n - 1 \/ j = n
    BY <1>1
  <2>4. CASE Rank(labels[n]) < Rank(label)
    <3>1. MoreSpecific(label, labels[n]) = labels[n]
      BY <2>4 DEF MoreSpecific
    <3>2. \A j \in 1 .. n - 1 : Rank(labels[n]) < Rank(labels[j])
      BY <2>1, <2>4, RankIsNatural
    <3>3. \A j \in 1 .. n : Rank(labels[n]) <= Rank(labels[j])
      BY <2>3, <3>2, RankIsNatural
    <3> QED
      BY <1>1, <3>1, <3>2, <3>3 DEF HeadlineOf
  <2>5. CASE ~(Rank(labels[n]) < Rank(label))
    <3>1. MoreSpecific(label, labels[n]) = label
      BY <2>2, <2>5 DEF MoreSpecific
    <3>2. Rank(labels[i]) <= Rank(labels[n])
      BY <2>1, <2>5, RankIsNatural
    <3>3. i \in 1 .. n /\ \A j \in 1 .. n : Rank(labels[i]) <= Rank(labels[j])
      BY <1>1, <2>1, <2>3, <3>2
    <3> QED
      BY <2>1, <2>2, <3>1, <3>3 DEF HeadlineOf
  <2> QED
    BY <2>4, <2>5
<1> QED
  BY <1>1, <1>2, <1>3

(* However many labels a detection has, its headline is the first of those than  *)
(* which none is more specific (PickPrimaryType).                               *)
THEOREM HeadlineIsMostSpecific ==
  ASSUME NEW S, NoType \notin S, NEW labels \in Seq(S), labels # << >>
  PROVE  IsHeadline(PickPrimaryType(labels), labels)
<1>1. PICK best : Follows(best, labels, Len(labels)) /\ PickPrimaryType(labels) = best[Len(labels)]
  BY PickPrimaryTypeRuns
<1> DEFINE T == {n \in 1 .. Len(labels) : ~HeadlineOf(best[n], labels, n)}
<1>2. T = {}
  <2>1. SUFFICES ASSUME T # {} PROVE FALSE
    OBVIOUS
  <2>2. PICK n \in T : \A k \in T : n <= k
    <3>1. T \in SUBSET Nat
      OBVIOUS
    <3> QED
      BY <2>1, <3>1, LeastNatural
  <2>3. n \in 1 .. Len(labels) /\ ~HeadlineOf(best[n], labels, n)
    OBVIOUS
  <2>4. best[n] = MoreSpecific(best[n - 1], labels[n]) /\ best[0] = NoType
    BY <1>1, <2>3 DEF Follows
  <2>5. n > 1 => HeadlineOf(best[n - 1], labels, n - 1)
    <3> SUFFICES ASSUME n > 1 PROVE HeadlineOf(best[n - 1], labels, n - 1)
      OBVIOUS
    <3>1. n - 1 \in 1 .. Len(labels) /\ ~(n <= n - 1)
      BY <2>3
    <3> QED
      BY <2>2, <3>1
  <2>6. n = 1 => best[n - 1] = NoType
    BY <2>4
  <2> HIDE DEF T
  <2> QED
    BY <2>3, <2>4, <2>5, <2>6, LoopStep
<1>3. Len(labels) \in 1 .. Len(labels) /\ DOMAIN labels = 1 .. Len(labels)
  OBVIOUS
<1>4. HeadlineOf(best[Len(labels)], labels, Len(labels))
  BY <1>2, <1>3
<1> QED
  BY <1>1, <1>3, <1>4 DEF HeadlineOf, IsHeadline

(* Whatever thumbnails a detection has, its detail is a name from the first of   *)
(* the headline's kind that has one (pickDetail).                               *)
THEOREM DetailIsOfHeadline ==
  ASSUME NEW S, NEW ths \in Seq(S), NEW headline
  PROVE  IsDetail(pickDetail(headline, ths), headline, ths)
<1> DEFINE want == WantedThumbnail(headline)
           named == {i \in DOMAIN ths : ths[i].type = want /\ Named(ths[i])}
           Apt(i) == /\ Named(ths[i])
                     /\ \/ headline = "face" /\ ths[i].type = "face"
                        \/ headline \in {"licensePlate", "vehicle"} /\ ths[i].type = "vehicle"
<1>1. /\ headline = "face" => want = "face"
      /\ headline \in {"licensePlate", "vehicle"} => want = "vehicle"
      /\ headline \notin {"face", "licensePlate", "vehicle"} => want = ""
  BY DEF WantedThumbnail
<1>2. want # "" => \A i \in DOMAIN ths : i \in named <=> Apt(i)
  BY <1>1
<1>3. want = "" => \A i \in DOMAIN ths : ~Apt(i)
  BY <1>1
<1>4. CASE want = "" \/ named = {}
  <2>1. pickDetail(headline, ths) = ""
    BY <1>4 DEF pickDetail
  <2>2. \A i \in DOMAIN ths : ~Apt(i)
    BY <1>2, <1>3, <1>4
  <2> QED
    BY <2>1, <2>2 DEF IsDetail
<1>5. CASE want # "" /\ named # {}
  <2> DEFINE k == CHOOSE i \in named : \A j \in named : i <= j
             first == ths[k]
  <2>1. named \in SUBSET Nat
    OBVIOUS
  <2>2. k \in named /\ \A j \in named : k <= j
    BY <1>5, <2>1, LeastNatural
  <2>3. pickDetail(headline, ths) = IF first.name # "" THEN first.name ELSE first.matchedName
    BY <1>5 DEF pickDetail
  <2> HIDE DEF k
  <2>4. k \in DOMAIN ths /\ k \in Nat /\ Named(first) /\ Apt(k)
    BY <1>2, <1>5, <2>1, <2>2
  <2>5. \A j \in 1 .. k - 1 : ~Apt(j)
    <3> SUFFICES ASSUME NEW j \in 1 .. k - 1, Apt(j) PROVE FALSE
      OBVIOUS
    <3>1. j \in DOMAIN ths /\ ~(k <= j)
      BY <2>4
    <3> QED
      BY <1>2, <1>5, <2>2, <3>1
  <2>6. pickDetail(headline, ths) \in {first.name, first.matchedName} \ {""}
    BY <2>3, <2>4 DEF Named
  <2> QED
    BY <2>4, <2>5, <2>6 DEF IsDetail
<1> QED
  BY <1>4, <1>5

-----------------------------------------------------------------------------
(* The times in a clip's name.  Every day of the calendar is in some month.       *)

LEMMA MonthIsInteger ==
  ASSUME NEW y, y \in Int, NEW m, m \in 1 .. 12
  PROVE  DaysBefore(y, m) \in Nat /\ DaysIn(y, m) \in Nat /\ DaysBefore(y, 1) = 0
<1>1. DaysBefore(y, m) \in Nat
  BY DEF DaysBefore
<1>2. DaysIn(y, m) \in Nat
  BY DEF DaysIn
<1> QED
  BY <1>1, <1>2 DEF DaysBefore

LEMMA YearFollows ==
  ASSUME NEW y, y \in Int
  PROVE  NewYear(y) \in Int /\ NewYear(y + 1) = NewYear(y) + (IF Leap(y) THEN 366 ELSE 365)
<1>1. PICK a \in Int : a = ((y - 2025) \div 4)
  OBVIOUS
<1>2. ((y + 1 - 2025) \div 4) = a + (IF y % 4 = 0 THEN 1 ELSE 0)
  BY <1>1
<1>3. PICK b \in Int : b = 365 * (y - 2026)
  OBVIOUS
<1>5. 365 * (y + 1 - 2026) = b + 365
  BY <1>3
<1>4. NewYear(y) = b + a
  BY ONLY <1>1, <1>3 DEF NewYear
<1>6. NewYear(y + 1) = (b + 365) + (a + (IF y % 4 = 0 THEN 1 ELSE 0))
  BY <1>1, <1>2, <1>3, <1>5 DEF NewYear
<1> QED
  BY <1>4, <1>6 DEF Leap

\* A year's days are those of its months.
LEMMA MonthOfYear ==
  ASSUME NEW y, y \in Int, NEW r \in 0 .. (IF Leap(y) THEN 365 ELSE 364)
  PROVE  \E m \in 1 .. 12 : r - DaysBefore(y, m) \in 0 .. DaysIn(y, m) - 1
<1> DEFINE Holds(m) == r - DaysBefore(y, m) \in 0 .. DaysIn(y, m) - 1
<1>1. r \in Int /\ r < 31 => Holds(1)
  BY DEF DaysBefore, DaysIn
<1> DEFINE x == IF Leap(y) THEN 1 ELSE 0
<1>2. r >= 31 /\ r < 59 + x => Holds(2)
  BY DEF DaysBefore, DaysIn
<1>3. r >= 59 + x /\ r < 90 + x => Holds(3)
  BY DEF DaysBefore, DaysIn
<1>4. r >= 90 + x /\ r < 120 + x => Holds(4)
  BY DEF DaysBefore, DaysIn
<1>5. r >= 120 + x /\ r < 151 + x => Holds(5)
  BY DEF DaysBefore, DaysIn
<1>6. r >= 151 + x /\ r < 181 + x => Holds(6)
  BY DEF DaysBefore, DaysIn
<1>7. r >= 181 + x /\ r < 212 + x => Holds(7)
  BY DEF DaysBefore, DaysIn
<1>8. r >= 212 + x /\ r < 243 + x => Holds(8)
  BY DEF DaysBefore, DaysIn
<1>9. r >= 243 + x /\ r < 273 + x => Holds(9)
  BY DEF DaysBefore, DaysIn
<1>10. r >= 273 + x /\ r < 304 + x => Holds(10)
  BY DEF DaysBefore, DaysIn
<1>11. r >= 304 + x /\ r < 334 + x => Holds(11)
  BY DEF DaysBefore, DaysIn
<1>12. r >= 334 + x => Holds(12)
  BY DEF DaysBefore, DaysIn
<1> HIDE DEF Holds
<1>13. \E m \in 1 .. 12 : Holds(m)
  BY <1>1, <1>2, <1>3, <1>4, <1>5, <1>6, <1>7, <1>8, <1>9, <1>10, <1>11, <1>12
<1> QED
  BY <1>13 DEF Holds

LEMMA MonthExists ==
  ASSUME NEW n \in Int, NewYear(2025) <= n, n < NewYear(2100)
  PROVE  \E y \in Years, m \in 1 .. 12 :
           MonthOf(n) = << y, m >> /\ n - Day(y, m, 1) \in 0 .. DaysIn(y, m) - 1
<1> DEFINE T == {y \in Years : n < NewYear(y + 1)}
<1>1. PICK y \in T : \A z \in T : y <= z
  <2>1. 2099 \in T /\ T \in SUBSET Nat
    BY DEF Years
  <2> HIDE DEF T
  <2> QED
    BY <2>1, LeastNatural
<1>2. y \in Years /\ y \in Int /\ n < NewYear(y + 1)
  BY DEF Years
<1>3. NewYear(y) <= n
  <2>1. CASE y = 2025
    BY <2>1
  <2>2. CASE y # 2025
    <3>1. y - 1 \in Years /\ ~(y <= y - 1) /\ (y - 1) + 1 = y
      BY <1>2, <2>2 DEF Years
    <3>2. ~(n < NewYear(y))
      BY <1>1, <3>1
    <3> QED
      BY <1>2, <3>2, YearFollows
  <2> QED
    BY <2>1, <2>2
<1>4. n - NewYear(y) \in 0 .. (IF Leap(y) THEN 365 ELSE 364)
  <2>1. NewYear(y) \in Int /\ NewYear(y + 1) = NewYear(y) + (IF Leap(y) THEN 366 ELSE 365)
    BY <1>2, YearFollows
  <2> QED
    BY <1>2, <1>3, <2>1
<1>5. PICK m \in 1 .. 12 : (n - NewYear(y)) - DaysBefore(y, m) \in 0 .. DaysIn(y, m) - 1
  BY <1>2, <1>4, MonthOfYear
<1>6. n - Day(y, m, 1) = (n - NewYear(y)) - DaysBefore(y, m)
  <2>1. y \in Int
    BY <1>2
  <2>2. NewYear(y) \in Int
    BY <2>1, YearFollows
  <2>3. DaysBefore(y, m) \in Nat
    BY <2>1, MonthIsInteger
  <2> QED
    BY <2>2, <2>3 DEF Day
<1>7. << y, m >> \in Years \X (1 .. 12) /\ n - Day(y, m, 1) \in 0 .. DaysIn(y, m) - 1
  BY <1>2, <1>5, <1>6
<1>8. \E c \in Years \X (1 .. 12) : n - Day(c[1], c[2], 1) \in 0 .. DaysIn(c[1], c[2]) - 1
  BY <1>7
<1> DEFINE c == MonthOf(n)
<1>9. c \in Years \X (1 .. 12) /\ n - Day(c[1], c[2], 1) \in 0 .. DaysIn(c[1], c[2]) - 1
  BY <1>8 DEF MonthOf
<1> HIDE DEF c
<1>10. c = << c[1], c[2] >> /\ c[1] \in Years /\ c[2] \in 1 .. 12
  BY <1>9
<1> QED
  BY <1>9, <1>10 DEF c

\* The twelve hours of each half of the day are told apart.
LEMMA HourReadBack ==
  ASSUME NEW t \in Int, NEW o \in Int
  PROVE  Hour24(Timestamp(t, o)) = (t + o) % 24
<1> DEFINE h == (t + o) % 24
<1>1. h \in 0 .. 23
  OBVIOUS
<1>2. /\ Timestamp(t, o).hour = IF h % 12 = 0 THEN 12 ELSE h % 12
      /\ Timestamp(t, o).ampm = IF h < 12 THEN "am" ELSE "pm"
  BY DEF Timestamp
<1> HIDE DEF h
<1>3. (IF h % 12 = 0 THEN 12 ELSE h % 12) % 12 = h % 12
  BY <1>1
<1>4. (h % 12) + (IF h < 12 THEN 0 ELSE 12) = h
  BY <1>1
<1> QED
  BY <1>2, <1>3, <1>4 DEF Hour24, h

LEMMA InstantReadBack ==
  ASSUME NEW t \in Int, NEW o \in Int,
         24 * NewYear(2025) <= t + o, t + o < 24 * NewYear(2100)
  PROVE  parseTimestamp(Timestamp(t, o)) = t
<1> DEFINE local == t + o
           n == local \div 24
           g == Timestamp(t, o)
<1>1. n \in Int /\ local = 24 * n + (local % 24) /\ local % 24 \in 0 .. 23
  OBVIOUS
<1>2. NewYear(2025) <= n /\ n < NewYear(2100)
  <2>1. NewYear(2025) \in Int /\ NewYear(2100) \in Int
    BY YearFollows
  <2> QED
    BY <1>1, <2>1
<1> HIDE DEF n
<1>3. PICK y \in Years, m \in 1 .. 12 : MonthOf(n) = << y, m >>
  BY <1>1, <1>2, MonthExists
<1> DEFINE first == Day(y, m, 1)
<1>4. g.year = y /\ g.month = m /\ g.day = n - first + 1 /\ g.offset = o
  BY <1>3 DEF Timestamp, n
<1> HIDE DEF g
<1>5. Day(y, m, n - first + 1) = n /\ first \in Int
  <2>1. y \in Int
    BY DEF Years
  <2>2. NewYear(y) \in Int
    BY <2>1, YearFollows
  <2>3. DaysBefore(y, m) \in Nat
    BY <2>1, MonthIsInteger
  <2> QED
    BY <1>1, <2>2, <2>3 DEF Day
<1> HIDE DEF first
<1>6. Hour24(g) = local % 24
  BY HourReadBack DEF g
<1>7. parseTimestamp(g) = (24 * n + (local % 24)) - o
  <2>1. Day(g.year, g.month, g.day) = n
    BY <1>4, <1>5
  <2> QED
    BY <1>1, <1>4, <1>6, <2>1 DEF parseTimestamp
<1>8. (24 * n + (local % 24)) - o = t
  BY <1>1
<1> QED
  BY <1>7, <1>8 DEF g

-----------------------------------------------------------------------------
(* The key of a camera's name.  A statement about the prefixes of a list is the   *)
(* set of the lengths it holds for.                                            *)

LEMMA PrefixInduction ==
  ASSUME NEW n, n \in Nat, NEW T, 0 \in T, \A i \in 1 .. n : i - 1 \in T => i \in T
  PROVE  \A i \in 0 .. n : i \in T
<1> DEFINE F == {i \in 0 .. n : i \notin T}
<1>1. SUFFICES ASSUME F # {} PROVE FALSE
  OBVIOUS
<1>2. PICK i \in F : \A j \in F : i <= j
  <2>1. F \in SUBSET Nat
    OBVIOUS
  <2> HIDE DEF F
  <2> QED
    BY <1>1, <2>1, LeastNatural
<1>3. i \in 1 .. n /\ i \notin T
  OBVIOUS
<1>4. i - 1 \in T
  <2>1. i - 1 \in 0 .. n /\ ~(i <= i - 1)
    BY <1>3
  <2> QED
    BY <1>2, <2>1
<1> QED
  BY <1>3, <1>4

\* f[i] is what Keep has of the first i characters, for each i up to n.
Kept(f, s, R, n) ==
  /\ f[0] = << >>
  /\ \A i \in 1 .. n : f[i] = IF s[i] \in R THEN Append(f[i - 1], s[i]) ELSE f[i - 1]

KeepLoop(f, s, R, n) ==
  f = [i \in 0 .. n |-> IF i = 0 THEN << >>
                        ELSE IF s[i] \in R THEN Append(f[i - 1], s[i]) ELSE f[i - 1]]

LEMMA LoopIsKept ==
  ASSUME NEW R, NEW s, NEW n, n \in Nat, NEW f, KeepLoop(f, s, R, n)
  PROVE  Kept(f, s, R, n)
<1>1. \A i \in 0 .. n : f[i] = IF i = 0 THEN << >>
                               ELSE IF s[i] \in R THEN Append(f[i - 1], s[i]) ELSE f[i - 1]
  BY DEF KeepLoop
<1>2. f[0] = << >>
  <2>1. 0 \in 0 .. n
    OBVIOUS
  <2> QED
    BY <1>1, <2>1, Zenon
<1>3. ASSUME NEW i \in 1 .. n
      PROVE  f[i] = IF s[i] \in R THEN Append(f[i - 1], s[i]) ELSE f[i - 1]
  <2>1. i \in 0 .. n /\ i # 0
    OBVIOUS
  <2> QED
    BY <1>1, <2>1
<1> QED
  BY <1>2, <1>3 DEF Kept

LEMMA LoopKeeps ==
  ASSUME NEW R, NEW s, NEW n, n \in Nat
  PROVE  \E f : KeepLoop(f, s, R, n)
<1> DEFINE T == {i \in 0 .. n : \E f : KeepLoop(f, s, R, i)}
<1>1. 0 \in T
  <2> DEFINE f == [i \in 0 .. 0 |-> << >>]
  <2>1. KeepLoop(f, s, R, 0)
    BY DEF KeepLoop
  <2> QED
    BY <2>1
<1>2. ASSUME NEW k \in 1 .. n, k - 1 \in T PROVE k \in T
  <2>1. PICK f : KeepLoop(f, s, R, k - 1)
    BY <1>2
  <2> DEFINE g == [i \in 0 .. k |-> IF i < k THEN f[i]
                                    ELSE IF s[k] \in R THEN Append(f[k - 1], s[k]) ELSE f[k - 1]]
  <2>2. \A i \in 0 .. k - 1 : g[i] = f[i]
    OBVIOUS
  <2>3. g[k] = IF s[k] \in R THEN Append(f[k - 1], s[k]) ELSE f[k - 1]
    OBVIOUS
  <2>4. g = [i \in 0 .. k |-> g[i]]
    OBVIOUS
  <2> HIDE DEF g
  <2>5. \A i \in 0 .. k : g[i] = IF i = 0 THEN << >>
                                 ELSE IF s[i] \in R THEN Append(g[i - 1], s[i]) ELSE g[i - 1]
    <3> SUFFICES ASSUME NEW i \in 0 .. k
                 PROVE  g[i] = IF i = 0 THEN << >>
                               ELSE IF s[i] \in R THEN Append(g[i - 1], s[i]) ELSE g[i - 1]
      OBVIOUS
    <3>1. f[0] = << >> /\ \A j \in 1 .. k - 1 :
            f[j] = IF s[j] \in R THEN Append(f[j - 1], s[j]) ELSE f[j - 1]
      <4>1. k - 1 \in Nat
        OBVIOUS
      <4>2. Kept(f, s, R, k - 1)
        BY <2>1, <4>1, LoopIsKept
      <4> QED
        BY <4>2 DEF Kept
    <3>2. i = 0 \/ i \in 1 .. k - 1 \/ i = k
      OBVIOUS
    <3>3. i > 0 => i - 1 \in 0 .. k - 1
      OBVIOUS
    <3> QED
      BY <2>2, <2>3, <3>1, <3>2, <3>3
  <2>6. KeepLoop(g, s, R, k)
    BY <2>4, <2>5 DEF KeepLoop
  <2> QED
    BY <2>6
<1> HIDE DEF T
<1>3. n \in T
  BY <1>1, <1>2, PrefixInduction
<1> QED
  BY <1>3 DEF T

LEMMA KeepRuns ==
  ASSUME NEW R, NEW S, NEW s \in Seq(S)
  PROVE  \E f : Kept(f, s, R, Len(s)) /\ Keep(s, R) = f[Len(s)]
<1> DEFINE F == CHOOSE f : f = [i \in 0 .. Len(s) |-> IF i = 0 THEN << >>
                  ELSE IF s[i] \in R THEN Append(f[i - 1], s[i]) ELSE f[i - 1]]
<1>1. Keep(s, R) = F[Len(s)]
  BY DEF Keep
<1>2. \E f : f = [i \in 0 .. Len(s) |-> IF i = 0 THEN << >>
                  ELSE IF s[i] \in R THEN Append(f[i - 1], s[i]) ELSE f[i - 1]]
  <2>1. Len(s) \in Nat
    OBVIOUS
  <2>2. \E f : KeepLoop(f, s, R, Len(s))
    BY <2>1, LoopKeeps
  <2> QED
    BY <2>2 DEF KeepLoop
<1>3. F = [i \in 0 .. Len(s) |-> IF i = 0 THEN << >>
                  ELSE IF s[i] \in R THEN Append(F[i - 1], s[i]) ELSE F[i - 1]]
  BY <1>2, Zenon
<1> HIDE DEF F
<1>4. Kept(F, s, R, Len(s))
  <2>1. Len(s) \in Nat
    OBVIOUS
  <2>2. KeepLoop(F, s, R, Len(s))
    BY <1>3, Zenon DEF KeepLoop
  <2> QED
    BY <2>1, <2>2, LoopIsKept
<1> QED
  BY <1>1, <1>4

\* Two lists that begin alike are filtered alike as far as that.
LEMMA KeptAgrees ==
  ASSUME NEW R, NEW s, NEW t, NEW n, n \in Nat, NEW k, k \in Nat, n <= k,
         NEW f, Kept(f, s, R, n), NEW g, Kept(g, t, R, k),
         \A i \in 1 .. n : s[i] = t[i]
  PROVE  f[n] = g[n]
<1> DEFINE T == {i \in 0 .. n : f[i] = g[i]}
<1>1. 0 \in T
  <2>1. f[0] = << >>
    BY DEF Kept
  <2>2. g[0] = << >>
    BY DEF Kept
  <2> QED
    BY <2>1, <2>2
<1>2. ASSUME NEW i \in 1 .. n, i - 1 \in T PROVE i \in T
  <2>1. f[i] = IF s[i] \in R THEN Append(f[i - 1], s[i]) ELSE f[i - 1]
    BY DEF Kept
  <2>2. i \in 1 .. k
    OBVIOUS
  <2>3. g[i] = IF t[i] \in R THEN Append(g[i - 1], t[i]) ELSE g[i - 1]
    BY <2>2 DEF Kept
  <2> QED
    BY <1>2, <2>1, <2>3
<1> HIDE DEF T
<1>3. n \in T
  BY <1>1, <1>2, PrefixInduction
<1> QED
  BY <1>3 DEF T

LEMMA KeepAppend ==
  ASSUME NEW R, NEW S, NEW s \in Seq(S), NEW x \in S
  PROVE  Keep(Append(s, x), R) = IF x \in R THEN Append(Keep(s, R), x) ELSE Keep(s, R)
<1> DEFINE t == Append(s, x)
           n == Len(s)
<1>1. /\ t \in Seq(S) /\ Len(t) = n + 1 /\ t[n + 1] = x /\ n \in Nat
      /\ \A i \in 1 .. n : s[i] = t[i]
  OBVIOUS
<1>2. PICK f : Kept(f, s, R, n) /\ Keep(s, R) = f[n]
  BY KeepRuns
<1> HIDE DEF t, n
<1>3. PICK g : Kept(g, t, R, n + 1) /\ Keep(t, R) = g[n + 1]
  BY <1>1, KeepRuns
<1>4. n + 1 \in Nat /\ n <= n + 1 /\ n + 1 \in 1 .. n + 1 /\ (n + 1) - 1 = n
  BY <1>1
<1>5. f[n] = g[n]
  BY <1>1, <1>2, <1>3, <1>4, KeptAgrees
<1>6. g[n + 1] = IF t[n + 1] \in R THEN Append(g[n], t[n + 1]) ELSE g[n]
  <2>1. \A i \in 1 .. n + 1 : g[i] = IF t[i] \in R THEN Append(g[i - 1], t[i]) ELSE g[i - 1]
    BY <1>3 DEF Kept
  <2> QED
    BY <1>4, <2>1
<1> QED
  BY <1>1, <1>2, <1>3, <1>5, <1>6 DEF t

\* One more character, one more letter of the key at most.
LEMMA KeyAppend ==
  ASSUME NEW S, NEW s \in Seq(S), NEW x \in S
  PROVE  NormalizeCameraName(Append(s, x))
           = IF Lower(x) \in Small THEN Append(NormalizeCameraName(s), Lower(x))
             ELSE NormalizeCameraName(s)
<1> DEFINE L == {Lower(r) : r \in S}
<1>1. LowerCase(s) \in Seq(L) /\ Lower(x) \in L
  <2>1. \A i \in 1 .. Len(s) : Lower(s[i]) \in L
    OBVIOUS
  <2>2. Lower(x) \in L
    OBVIOUS
  <2> HIDE DEF L
  <2> QED
    BY <2>1, <2>2 DEF LowerCase
<1>2. LowerCase(Append(s, x)) = Append(LowerCase(s), Lower(x))
  <2> DEFINE t == Append(s, x)
             u == Append(LowerCase(s), Lower(x))
             n == Len(s)
  <2>1. n \in Nat /\ Len(t) = n + 1 /\ t[n + 1] = x /\ \A i \in 1 .. n : t[i] = s[i]
    OBVIOUS
  <2>2. LowerCase(s) \in Seq(L) /\ Len(LowerCase(s)) = n /\ \A i \in 1 .. n : LowerCase(s)[i] = Lower(s[i])
    BY <1>1 DEF LowerCase
  <2>3. DOMAIN t = 1 .. n + 1
    OBVIOUS
  <2>4. u = [i \in 1 .. n + 1 |-> IF i = n + 1 THEN Lower(x) ELSE LowerCase(s)[i]]
    <3>1. /\ u \in Seq(L) /\ Len(u) = n + 1
          /\ \A i \in 1 .. n : u[i] = LowerCase(s)[i]
          /\ u[n + 1] = Lower(x)
      BY <1>1, <2>2, AppendProperties
    <3> HIDE DEF u, n
    <3>2. u = [i \in 1 .. n + 1 |-> u[i]]
      BY <3>1
    <3>3. \A i \in 1 .. n + 1 : u[i] = IF i = n + 1 THEN Lower(x) ELSE LowerCase(s)[i]
      BY <2>1, <3>1
    <3> QED
      BY <3>2, <3>3
  <2> HIDE DEF t, n
  <2>5. LowerCase(t) = [i \in 1 .. n + 1 |-> Lower(t[i])]
    BY <2>3 DEF LowerCase
  <2>6. \A i \in 1 .. n + 1 : Lower(t[i]) = IF i = n + 1 THEN Lower(x) ELSE LowerCase(s)[i]
    BY <2>1, <2>2
  <2> HIDE DEF u
  <2>7. LowerCase(t) = u
    BY <2>4, <2>5, <2>6
  <2> QED
    BY <2>7 DEF t, u
<1> HIDE DEF L
<1> QED
  BY <1>1, <1>2, KeepAppend DEF NormalizeCameraName

LEMMA NoName == NormalizeCameraName(<< >>) = << >>
<1>1. LowerCase(<< >>) = << >>
  BY DEF LowerCase
<1>2. << >> \in Seq({}) /\ Len(<< >>) = 0
  OBVIOUS
<1>3. PICK f : Kept(f, << >>, Small, 0) /\ Keep(<< >>, Small) = f[0]
  BY <1>2, KeepRuns
<1>4. f[0] = << >>
  BY <1>3 DEF Kept
<1> QED
  BY <1>1, <1>3, <1>4 DEF NormalizeCameraName

\* What a filter keeps of a list is a list of the same elements.
LEMMA KeptIsList ==
  ASSUME NEW R, NEW S, NEW s \in Seq(S), NEW f, Kept(f, s, R, Len(s))
  PROVE  \A i \in 0 .. Len(s) : f[i] \in Seq(S)
<1> DEFINE T == {i \in 0 .. Len(s) : f[i] \in Seq(S)}
<1>1. /\ f[0] = << >>
      /\ \A i \in 1 .. Len(s) : f[i] = IF s[i] \in R THEN Append(f[i - 1], s[i]) ELSE f[i - 1]
  BY DEF Kept
<1>2. 0 \in T
  <2>1. 0 \in 0 .. Len(s) /\ << >> \in Seq(S)
    OBVIOUS
  <2> QED
    BY <1>1, <2>1
<1>3. ASSUME NEW i \in 1 .. Len(s), i - 1 \in T PROVE i \in T
  <2>1. i \in 0 .. Len(s) /\ s[i] \in S
    OBVIOUS
  <2>2. f[i - 1] \in Seq(S)
    BY <1>3
  <2>3. f[i] \in Seq(S)
    <3>1. f[i] = IF s[i] \in R THEN Append(f[i - 1], s[i]) ELSE f[i - 1]
      BY <1>1
    <3>2. Append(f[i - 1], s[i]) \in Seq(S)
      BY <2>1, <2>2
    <3> QED
      BY <2>2, <3>1, <3>2
  <2> QED
    BY <2>1, <2>3
<1> HIDE DEF T
<1>4. \A i \in 0 .. Len(s) : i \in T
  <2>1. Len(s) \in Nat
    OBVIOUS
  <2> QED
    BY <1>2, <1>3, <2>1, PrefixInduction
<1> QED
  BY <1>4 DEF T

\* The export drops nothing a key is made of.
LEMMA KeyOfExported ==
  ASSUME NEW S, NEW s \in Seq(S)
  PROVE  Exported(s) \in Seq(S) /\ NormalizeCameraName(Exported(s)) = NormalizeCameraName(s)
<1> DEFINE R == ToSet(s) \ NonASCII
           n == Len(s)
           Key(t) == NormalizeCameraName(t)
           T == {i \in 0 .. n : Key(SubSeq(s, 1, i)) = Key(Keep(SubSeq(s, 1, i), R))}
<1>1. n \in Nat /\ \A i \in 0 .. n : SubSeq(s, 1, i) \in Seq(S)
  OBVIOUS
<1>2. 0 \in T
  <2>1. SubSeq(s, 1, 0) = << >>
    OBVIOUS
  <2>2. Keep(<< >>, R) = << >>
    <3>1. << >> \in Seq({}) /\ Len(<< >>) = 0
      OBVIOUS
    <3>2. PICK f : Kept(f, << >>, R, 0) /\ Keep(<< >>, R) = f[0]
      BY <3>1, KeepRuns
    <3> QED
      BY <3>2 DEF Kept
  <2>3. 0 \in 0 .. n
    BY <1>1
  <2> HIDE DEF R, Key
  <2> QED
    BY <2>1, <2>2, <2>3
<1>3. ASSUME NEW i \in 1 .. n, i - 1 \in T PROVE i \in T
  <2> DEFINE p == SubSeq(s, 1, i - 1)
             x == s[i]
  <2>0. i \in 0 .. n
    OBVIOUS
  <2>1. p \in Seq(S) /\ x \in S /\ SubSeq(s, 1, i) = Append(p, x)
    OBVIOUS
  <2>2. Key(p) = Key(Keep(p, R))
    BY <1>3
  <2>3. Keep(p, R) \in Seq(S)
    <3>1. PICK f : Kept(f, p, R, Len(p)) /\ Keep(p, R) = f[Len(p)]
      BY <2>1, KeepRuns
    <3>2. Len(p) \in 0 .. Len(p)
      BY <2>1
    <3> HIDE DEF p
    <3> QED
      BY <2>1, <3>1, <3>2, KeptIsList
  <2>4. x \in ToSet(s)
    BY DEF ToSet
  <2> HIDE DEF p, x
  <2>5. Keep(Append(p, x), R) = IF x \in R THEN Append(Keep(p, R), x) ELSE Keep(p, R)
    BY <2>1, KeepAppend
  <2>6. CASE x \in R
    <3>1. Key(Append(Keep(p, R), x)) = Key(Append(p, x))
      BY <2>1, <2>2, <2>3, KeyAppend
    <3>2. Keep(SubSeq(s, 1, i), R) = Append(Keep(p, R), x)
      BY <2>1, <2>5, <2>6
    <3> QED
      BY <2>0, <2>1, <3>1, <3>2
  <2>7. CASE x \notin R
    <3>1. Lower(x) \notin Small
      BY <2>4, <2>7, AlphabetAssumption DEF Lower
    <3>2. Key(Append(p, x)) = Key(p)
      BY <2>1, <3>1, KeyAppend
    <3>3. Keep(SubSeq(s, 1, i), R) = Keep(p, R)
      BY <2>1, <2>5, <2>7
    <3> QED
      BY <2>0, <2>1, <2>2, <3>2, <3>3
  <2> QED
    BY <2>6, <2>7
<1> HIDE DEF T
<1>4. n \in T
  BY <1>1, <1>2, <1>3, PrefixInduction
<1>5. SubSeq(s, 1, n) = s
  OBVIOUS
<1>6. Keep(s, R) \in Seq(S)
  <2>1. PICK f : Kept(f, s, R, Len(s)) /\ Keep(s, R) = f[Len(s)]
    BY KeepRuns
  <2>2. Len(s) \in 0 .. Len(s)
    BY <1>1
  <2> QED
    BY <2>1, <2>2, KeptIsList
<1> QED
  BY <1>4, <1>5, <1>6 DEF T, Exported

\* Spaces around a name leave no trace in its key.
LEMMA KeyOfSpaces ==
  ASSUME NEW S, NEW s \in Seq(S), \A i \in 1 .. Len(s) : Lower(s[i]) \notin Small
  PROVE  NormalizeCameraName(s) = << >>
<1> DEFINE n == Len(s)
           T == {i \in 0 .. n : NormalizeCameraName(SubSeq(s, 1, i)) = << >>}
<1>1. n \in Nat
  OBVIOUS
<1>2. 0 \in T
  <2>1. SubSeq(s, 1, 0) = << >> /\ 0 \in 0 .. n
    OBVIOUS
  <2> QED
    BY <2>1, NoName
<1>3. ASSUME NEW i \in 1 .. n, i - 1 \in T PROVE i \in T
  <2> DEFINE p == SubSeq(s, 1, i - 1)
  <2>1. p \in Seq(S) /\ s[i] \in S /\ SubSeq(s, 1, i) = Append(p, s[i])
    OBVIOUS
  <2>2. NormalizeCameraName(p) = << >> /\ i \in 0 .. n
    BY <1>3
  <2> HIDE DEF p
  <2>3. NormalizeCameraName(Append(p, s[i])) = << >>
    BY <1>1, <2>1, <2>2, KeyAppend
  <2> QED
    BY <2>1, <2>2, <2>3
<1> HIDE DEF T
<1>4. n \in T
  BY <1>1, <1>2, <1>3, PrefixInduction
<1>5. SubSeq(s, 1, n) = s
  OBVIOUS
<1> QED
  BY <1>4, <1>5 DEF T

LEMMA KeyOfMiddle ==
  ASSUME NEW S, NEW s \in Seq(S), NEW a \in 1 .. Len(s), NEW b \in a .. Len(s),
         \A i \in 1 .. Len(s) : (i < a \/ b < i) => Lower(s[i]) \notin Small
  PROVE  NormalizeCameraName(SubSeq(s, a, b)) = NormalizeCameraName(s)
<1> DEFINE n == Len(s)
           Key(t) == NormalizeCameraName(t)
           From(i) == SubSeq(s, a, i)
           Upto(i) == SubSeq(s, 1, i)
           T == {i \in 0 .. n : i >= a - 1 => Key(From(i)) = Key(Upto(i))}
           U == {i \in 0 .. n : i >= b => Key(Upto(i)) = Key(Upto(b))}
<1>1. n \in Nat
  OBVIOUS
<1>2. \A i \in 0 .. n : Upto(i) \in Seq(S) /\ From(i) \in Seq(S)
  OBVIOUS
<1>3. \A i \in 1 .. n : s[i] \in S /\ Upto(i) = Append(Upto(i - 1), s[i])
  OBVIOUS
<1>4. \A i \in a .. n : From(i) = Append(From(i - 1), s[i])
  OBVIOUS
<1>5. Key(From(a - 1)) = Key(Upto(a - 1))
  <2>1. From(a - 1) = << >>
    OBVIOUS
  <2>2. Upto(a - 1) \in Seq(S) /\ Len(Upto(a - 1)) = a - 1
    OBVIOUS
  <2>3. \A i \in 1 .. a - 1 : Lower(Upto(a - 1)[i]) \notin Small
    OBVIOUS
  <2> QED
    BY <2>1, <2>2, <2>3, KeyOfSpaces, NoName
<1> HIDE DEF From, Upto, Key
<1>6. 0 \in T
  <2>1. 0 >= a - 1 => a - 1 = 0
    OBVIOUS
  <2>2. 0 \in 0 .. n
    BY <1>1
  <2> QED
    BY <1>5, <2>1, <2>2
<1>7. ASSUME NEW i \in 1 .. n, i - 1 \in T PROVE i \in T
  <2>1. i \in 0 .. n /\ i - 1 \in 0 .. n
    OBVIOUS
  <2>2. CASE i < a - 1
    BY <2>1, <2>2
  <2>3. CASE i = a - 1
    BY <1>5, <2>1, <2>3
  <2>4. CASE i >= a
    <3>1. Key(From(i - 1)) = Key(Upto(i - 1))
      BY <1>7, <2>4
    <3>2. From(i - 1) \in Seq(S) /\ Upto(i - 1) \in Seq(S) /\ s[i] \in S
      BY <1>2, <1>3, <2>1
    <3>3. Key(Append(From(i - 1), s[i])) = Key(Append(Upto(i - 1), s[i]))
      BY <3>1, <3>2, KeyAppend DEF Key
    <3>4. i \in a .. n
      BY <2>4
    <3> QED
      BY <1>3, <1>4, <2>1, <3>3, <3>4
  <2> QED
    BY <2>2, <2>3, <2>4
<1>8. 0 \in U
  <2>1. ~(0 >= b) /\ 0 \in 0 .. n
    BY <1>1
  <2> QED
    BY <2>1
<1>9. ASSUME NEW i \in 1 .. n, i - 1 \in U PROVE i \in U
  <2>1. i \in 0 .. n /\ i - 1 \in 0 .. n
    OBVIOUS
  <2>2. CASE i < b
    BY <2>1, <2>2
  <2>3. CASE i = b
    BY <2>1, <2>3
  <2>4. CASE i > b
    <3>1. Key(Upto(i - 1)) = Key(Upto(b)) /\ Lower(s[i]) \notin Small
      BY <1>9, <2>4
    <3>2. Upto(i - 1) \in Seq(S) /\ s[i] \in S
      BY <1>2, <1>3, <2>1
    <3>3. Key(Append(Upto(i - 1), s[i])) = Key(Upto(i - 1))
      BY <3>1, <3>2, KeyAppend DEF Key
    <3> QED
      BY <1>3, <2>1, <3>1, <3>3
  <2> QED
    BY <2>2, <2>3, <2>4
<1> HIDE DEF T, U
<1>10. b \in T /\ n \in U
  <2>1. \A i \in 0 .. n : i \in T
    BY <1>1, <1>6, <1>7, PrefixInduction
  <2>2. \A i \in 0 .. n : i \in U
    BY <1>1, <1>8, <1>9, PrefixInduction
  <2> QED
    BY <1>1, <2>1, <2>2
<1>11. Upto(n) = s
  BY DEF Upto
<1>12. Key(From(b)) = Key(Upto(b)) /\ Key(Upto(n)) = Key(Upto(b))
  BY <1>1, <1>10 DEF T, U
<1> QED
  BY <1>11, <1>12 DEF Key, From

\* A set of numbers up to n that has one has a largest.
LEMMA LargestExists ==
  ASSUME NEW n, n \in Nat, NEW D, D \subseteq 1 .. n, D # {}
  PROVE  \E i \in D : \A j \in D : j <= i
<1> DEFINE T == {n - i : i \in D}
<1>1. T \in SUBSET Nat /\ T # {}
  <2>1. \A i \in D : i \in 1 .. n
    OBVIOUS
  <2>2. \A i \in D : n - i \in Nat
    BY <2>1
  <2> HIDE DEF T
  <2>3. \A k \in T : k \in Nat
    BY <2>2 DEF T
  <2>4. T # {}
    BY DEF T
  <2> QED
    BY <2>3, <2>4
<1> HIDE DEF T
<1>2. PICK k \in T : \A l \in T : k <= l
  BY <1>1, LeastNatural
<1>3. PICK i \in D : k = n - i
  BY <1>2 DEF T
<1>4. \A j \in D : n - i <= n - j
  BY <1>2, <1>3 DEF T
<1>5. \A j \in D : j \in Int
  OBVIOUS
<1> QED
  BY <1>3, <1>4, <1>5

LEMMA KeyOfTrimmed ==
  ASSUME NEW S, NEW s \in Seq(S)
  PROVE  NormalizeCameraName(TrimSpace(s)) = NormalizeCameraName(s)
<1> DEFINE kept == {i \in DOMAIN s : s[i] # " "}
           a == CHOOSE i \in kept : \A j \in kept : i <= j
           b == CHOOSE i \in kept : \A j \in kept : j <= i
<1>0. Lower(" ") \notin Small
  BY AlphabetAssumption DEF Lower
<1>1. DOMAIN s = 1 .. Len(s) /\ Len(s) \in Nat
  OBVIOUS
<1>2. CASE kept = {}
  <2>1. TrimSpace(s) = << >>
    BY <1>2 DEF TrimSpace
  <2>2. \A i \in 1 .. Len(s) : Lower(s[i]) \notin Small
    BY <1>1, <1>2, <1>0
  <2> QED
    BY <2>1, <2>2, KeyOfSpaces, NoName
<1>3. CASE kept # {}
  <2>1. TrimSpace(s) = SubSeq(s, a, b)
    BY <1>3 DEF TrimSpace
  <2>2. kept \in SUBSET (1 .. Len(s)) /\ kept \in SUBSET Nat
    <3>1. \A i \in kept : i \in 1 .. Len(s)
      BY <1>1
    <3> HIDE DEF kept
    <3>2. \A i \in kept : i \in Nat
      BY <1>1, <3>1
    <3> QED
      BY <3>1, <3>2
  <2>3. \A i \in 1 .. Len(s) : i \notin kept => Lower(s[i]) \notin Small
    BY <1>0, <1>1
  <2> HIDE DEF kept
  <2>4. a \in kept /\ \A j \in kept : a <= j
    BY <1>3, <2>2, LeastNatural
  <2>5. b \in kept /\ \A j \in kept : j <= b
    BY <1>1, <1>3, <2>2, LargestExists
  <2> HIDE DEF a, b
  <2>6. a \in 1 .. Len(s) /\ b \in a .. Len(s)
    BY <2>2, <2>4, <2>5
  <2>7. \A i \in 1 .. Len(s) : (i < a \/ b < i) => Lower(s[i]) \notin Small
    <3> SUFFICES ASSUME NEW i \in 1 .. Len(s), i < a \/ b < i PROVE i \notin kept
      BY <2>3
    <3> QED
      BY <2>4, <2>5, <2>6
  <2> QED
    BY <2>1, <2>6, <2>7, KeyOfMiddle
<1> QED
  BY <1>2, <1>3

-----------------------------------------------------------------------------
(* Inputs that are built up stay lists of what they are built from, and a clip   *)
(* lies in the years there are.                                                 *)

InRange(c) ==
  /\ c.start \in Int /\ c.end \in Int /\ c.offset \in Int
  /\ 24 * NewYear(2025) <= c.start + c.offset /\ c.start + c.offset + 1 < 24 * NewYear(2100)
  /\ 24 * NewYear(2025) <= c.end + c.offset /\ c.end + c.offset + 1 < 24 * NewYear(2100)

InputsInv ==
  /\ types \in Seq(Types) /\ thumbnails \in Seq(Thumbnails) /\ name \in Seq(Characters)
  /\ clip = NoClip \/ InRange(clip)

LEMMA NoInputInv == NoInput => InputsInv
BY DEF NoInput, InputsInv

LEMMA RecordedInRange == Record => InRange(clip')
<1> SUFFICES ASSUME Record PROVE InRange(clip')
  OBVIOUS
<1>1. PICK t \in FirstHours, n \in 0 .. MaxHours, o \in Offsets :
        clip' = [start |-> t, end |-> t + n, offset |-> o]
  BY DEF Record
<1>2. t \in Int /\ o \in Int /\ n \in 0 .. MaxHours /\ MaxHours \in Nat
  BY InputsAssumption
<1> DEFINE low == 24 * NewYear(2025)
           high == 24 * NewYear(2100)
<1>3. low <= t + o /\ t + MaxHours + o + 1 < high
  BY InputsAssumption
<1>4. low \in Int /\ high \in Int
  BY DEF NewYear
<1>5. clip'.start = t /\ clip'.end = t + n /\ clip'.offset = o
  BY <1>1
<1> HIDE DEF low, high
<1>6. /\ low <= t + o /\ t + o + 1 < high
      /\ low <= t + n + o /\ t + n + o + 1 < high
  BY <1>2, <1>3, <1>4
<1> QED
  BY <1>2, <1>5, <1>6 DEF InRange, low, high

LEMMA AddInputInv == InputsInv /\ [AddInput]_inputs => InputsInv'
<1> SUFFICES ASSUME InputsInv, [AddInput]_inputs PROVE InputsInv'
  OBVIOUS
<1>1. CASE AddType
  BY <1>1 DEF AddType, InputsInv
<1>2. CASE AddThumbnail
  BY <1>2 DEF AddThumbnail, InputsInv
<1>3. CASE AddCharacter
  BY <1>3 DEF AddCharacter, InputsInv
<1>4. CASE Record
  <2>1. UNCHANGED << types, thumbnails, name >>
    BY <1>4 DEF Record
  <2> QED
    BY <1>4, <2>1, RecordedInRange DEF InputsInv
<1>5. CASE UNCHANGED inputs
  BY <1>5 DEF inputs, InputsInv
<1> QED
  BY <1>1, <1>2, <1>3, <1>4, <1>5 DEF AddInput, Detect, NameCamera, NameClip

LEMMA InputsBuilt == InputsSpec => []InputsInv
BY NoInputInv, AddInputInv, PTL DEF InputsSpec

(* Whatever labels a detection collects, its headline is the first of those than  *)
(* which none is more specific (HeadlineMostSpecific; PickPrimaryType).          *)
THEOREM HeadlinesRight == InputsSpec => []HeadlineMostSpecific
<1>1. InputsInv => HeadlineMostSpecific
  BY HeadlineIsMostSpecific, InputsAssumption DEF InputsInv, HeadlineMostSpecific
<1> QED
  BY <1>1, InputsBuilt, PTL

(* Whatever thumbnails it collects besides, its detail is a name from the first   *)
(* of the headline's kind that has one (DetailFromHeadline; pickDetail).          *)
THEOREM DetailsRight == InputsSpec => []DetailFromHeadline
<1>1. InputsInv => DetailFromHeadline
  BY DetailIsOfHeadline DEF InputsInv, DetailFromHeadline
<1> QED
  BY <1>1, InputsBuilt, PTL

(* Every instant of the years 2025 to 2099 is read back from the local time       *)
(* Protect writes it in, also when the clocks change between a clip's two ends     *)
(* (TimesSurvive; parseTimestamp).                                              *)
THEOREM TimesReadBack == InputsSpec => []TimesSurvive
<1>1. ASSUME InputsInv, clip # NoClip, NEW o \in {clip.offset, clip.offset + 1}
      PROVE  Parse([start |-> Timestamp(clip.start, clip.offset), end |-> Timestamp(clip.end, o)])
               = [start |-> clip.start, end |-> clip.end]
  <2> DEFINE low == 24 * NewYear(2025)
             high == 24 * NewYear(2100)
  <2>1. /\ clip.start \in Int /\ clip.end \in Int /\ clip.offset \in Int
        /\ low <= clip.start + clip.offset /\ clip.start + clip.offset + 1 < high
        /\ low <= clip.end + clip.offset /\ clip.end + clip.offset + 1 < high
    BY <1>1 DEF InputsInv, InRange
  <2>2. low \in Int /\ high \in Int
    BY DEF NewYear
  <2> HIDE DEF low, high
  <2>3. o \in Int /\ low <= clip.end + o /\ clip.end + o < high /\ clip.start + clip.offset < high
    BY <2>1, <2>2
  <2>4. parseTimestamp(Timestamp(clip.start, clip.offset)) = clip.start
    BY <2>1, <2>3, InstantReadBack DEF low, high
  <2>5. parseTimestamp(Timestamp(clip.end, o)) = clip.end
    BY <2>1, <2>3, InstantReadBack DEF low, high
  <2> QED
    BY <2>4, <2>5 DEF Parse
<1>2. InputsInv => TimesSurvive
  BY <1>1 DEF TimesSurvive
<1> QED
  BY <1>2, InputsBuilt, PTL

(* A camera whose name has lost its characters that are not ASCII, and the  *)
(* spaces around it, still has the key of its full name, whatever the name         *)
(* (KeysAgree; NormalizeCameraName).                                            *)
THEOREM KeysMatch == InputsSpec => []KeysAgree
<1>1. InputsInv => KeysAgree
  BY KeyOfExported, KeyOfTrimmed DEF InputsInv, KeysAgree
<1> QED
  BY <1>1, InputsBuilt, PTL
=============================================================================
