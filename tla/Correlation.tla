----------------------------- MODULE Correlation -----------------------------
(***************************************************************************)
(* How a clip gets its label.  Five activities share one SQLite database:  *)
(*                                                                         *)
(*   indexer     upserts a row in "clips" for every exported file;         *)
(*   listener    reads Protect's event WebSocket and upserts "events";     *)
(*   classifier  lists the unclassified clips, looks each one up in        *)
(*               "events", and writes a label or, after a grace period, a  *)
(*               guess;                                                    *)
(*   backfill    fetches Protect's history, upserts "events", and labels   *)
(*               every clip again;                                         *)
(*   directory   refreshes the camera id -> camera key map both need.      *)
(*                                                                         *)
(* The database has one connection and every statement is its own          *)
(* transaction, so a step here is one statement (or one network call), and *)
(* the activities interleave between statements.                           *)
(***************************************************************************)
EXTENDS Detection, FiniteSets

CONSTANTS
  Clips,          \* exported clip files
  Events,         \* Protect event ids
  Cameras,        \* Protect camera ids
  ClipInfo,       \* [Clips -> [key, start, end]]: what the file name says
  EventInfo,      \* [Events -> [camera, start, type, stages]]: see Snapshot
  KeyOf,          \* [Cameras -> keys]: normalized name, NoKey for an id not listed
  Tolerance,      \* overlapTolerance
  Grace,          \* gracePeriod
  ShortMax,       \* shortClipMaxDuration
  LongMin,        \* longClipMinDuration
  LegacyEnabled,  \* are PROTECT_USER / PROTECT_PASSWORD configured?
  MaxTime,        \* bound on the clock
  MaxFaults,      \* bound on failed calls, disconnects and restarts
  NoRow,          \* no such row in the table
  NoKey,          \* camera id not in the directory
  NoEnd           \* SQL NULL in events.end_ts

Stages(e) == 1 .. Len(EventInfo[e].stages)

(* Protect refines an event in stages; stage k of e, reached no earlier     *)
(* than "at", is what Protect knows of it from then on: its types, its end, *)
(* and the thumbnails only the history API exposes.                         *)
Snapshot(e, k) == EventInfo[e].stages[k]

ASSUME ConfigAssumption ==
  /\ \A p \in Clips : /\ ClipInfo[p].start \in Nat
                      /\ ClipInfo[p].end \in Nat
  /\ \A e \in Events : /\ EventInfo[e].camera \in Cameras
                       /\ EventInfo[e].start \in Nat
                       /\ Len(EventInfo[e].stages) \in Nat
                       /\ \A k \in Stages(e) : Snapshot(e, k).end \in Nat \cup {NoEnd}
  /\ DOMAIN KeyOf = Cameras
  /\ Tolerance \in Nat /\ Grace \in Nat
  /\ MaxTime \in Nat /\ MaxFaults \in Nat
  /\ LegacyEnabled \in BOOLEAN
  /\ NoEnd \notin Nat

VARIABLES
  now,        \* the clock
  stage,      \* [Events -> 0..]: how far Protect has come with each event
  clips,      \* table clips: [Clips -> label \cup {NoRow}]
  events,     \* table events: [Events -> row \cup {NoRow}]
  cameraKey,  \* Correlator.cameraKey
  connected,  \* is the event WebSocket up?
  wire,       \* messages sent by Protect, not yet read
  listener,   \* messages OnEvent is working on: at most one
  cTodo,      \* classifyOnce: clips listed and not yet looked up
  cHeld,      \* classifyOnce: looked up, label not yet written: at most one
  bPhase,     \* Backfill: "fetch", "refresh", "store", "check"
  bWindow,    \* Backfill: from and to
  bFetched,   \* Backfill: fetched and not yet stored
  bTodo,      \* reclassifyAllClips: rows listed and not yet looked up
  bHeld,      \* reclassifyAllClips: looked up, not yet written: at most one
  faults      \* faults so far

protectVars    == << stage, connected, wire >>
listenerVars   == << listener >>
classifierVars == << cTodo, cHeld >>
backfillVars   == << bPhase, bWindow, bFetched, bTodo, bHeld >>
vars == << now, protectVars, clips, events, cameraKey, listenerVars,
           classifierVars, backfillVars, faults >>

-----------------------------------------------------------------------------
(* Rows and labels. *)

NewClip == [source |-> "unknown", type |-> "unknown", detail |-> "", types |-> << >>]

\* A guess stored without its source, which leaves the clip unclassified.
SourcelessHeuristicLabel(p) ==
  LET guess == heuristicType(ClipInfo[p].end - ClipInfo[p].start, ShortMax, LongMin)
  IN  [source |-> "unknown", type |-> guess, detail |-> "", types |-> << guess >>]

HeuristicLabel(p) ==
  LET guess == heuristicType(ClipInfo[p].end - ClipInfo[p].start, ShortMax, LongMin)
  IN  [source |-> "heuristic", type |-> guess, detail |-> "", types |-> << guess >>]

ProtectLabel(row) ==
  [source |-> "protect", type |-> row.type, detail |-> row.detail, types |-> row.types]

\* The WebSocket item for stage k of event e.
Item(e, k) ==
  [modelKey |-> "event", device |-> EventInfo[e].camera, type |-> EventInfo[e].type,
   smartDetectTypes |-> Snapshot(e, k).types, start |-> EventInfo[e].start]

\* What extractEvent makes of a live message: it has no metadata, so no detail.
LiveReading ==
  [e \in Events |-> [k \in Stages(e) |->
    LET types == EventTypes(Item(e, k))
    IN  [type |-> PickPrimaryType(types), detail |-> "", types |-> types]]]

\* What LegacyClient.Events makes of a historical event.
HistoryReading ==
  [e \in Events |-> [k \in Stages(e) |->
    LET types   == Snapshot(e, k).types
        primary == PickPrimaryType(types)
    IN  [type |-> primary, detail |-> pickDetail(primary, Snapshot(e, k).thumbnails),
         types |-> types]]]

EventRow(e, k, key, reading) ==
  [key |-> key, type |-> reading.type, detail |-> reading.detail, types |-> reading.types,
   start |-> EventInfo[e].start, end |-> Snapshot(e, k).end]

LiveRow(e, k, key)    == EventRow(e, k, key, LiveReading[e][k])
HistoryRow(e, k, key) == EventRow(e, k, key, HistoryReading[e][k])

\* No label is taken for the absence of a row.
ASSUME NoRowAssumption ==
  /\ NewClip # NoRow
  /\ \A p \in Clips : HeuristicLabel(p) # NoRow
  /\ \A e \in Events : \A k \in Stages(e) :
       LET key == KeyOf[EventInfo[e].camera]
       IN  NoRow \notin {ProtectLabel(LiveRow(e, k, key)), ProtectLabel(HistoryRow(e, k, key))}

-----------------------------------------------------------------------------
(* The statements of package db. *)

\* An upsert that also resets the label of a clip it already knows.
ResettingUpsertClip(p) == clips' = [clips EXCEPT ![p] = NewClip]

\* ON CONFLICT only size, mtime and indexed_at change, which no label depends on.
UpsertClip(p) ==
  clips' = IF clips[p] = NoRow THEN [clips EXCEPT ![p] = NewClip] ELSE clips

\* An UPDATE that forgets the event_types column.
PartialSetClipClassification(p, label) ==
  clips' = [clips EXCEPT ![p] = [label EXCEPT !.types = clips[p].types]]

SetClipClassification(p, label) == clips' = [clips EXCEPT ![p] = label]

\* An UPDATE, which stores nothing where there is no row yet.
UpdateEvent(e, row) ==
  events' = [events EXCEPT ![e] =
               IF events[e] = NoRow THEN NoRow
               ELSE [row EXCEPT !.key = events[e].key, !.start = events[e].start]]

\* ON CONFLICT every column but start_ts, camera_id and camera_key is replaced.
InsertEvent(e, row) ==
  events' = [events EXCEPT ![e] =
               IF events[e] = NoRow THEN row
               ELSE [row EXCEPT !.key = events[e].key, !.start = events[e].start]]

Unclassified == {p \in Clips : clips[p] # NoRow /\ clips[p].source = "unknown"}

NonProtect   == {p \in Clips : clips[p] # NoRow /\ clips[p].source # "protect"}
Listed       == {p \in Clips : clips[p] # NoRow}

\* Time alone decides; the camera is not compared.
CameraBlindOverlaps(row, p) ==
  /\ row.start <= ClipInfo[p].end + Tolerance
  /\ row.end = NoEnd \/ row.end + Tolerance >= ClipInfo[p].start

Overlaps(row, p) ==
  /\ row.key = ClipInfo[p].key
  /\ row.start <= ClipInfo[p].end + Tolerance
  /\ row.end = NoEnd \/ row.end + Tolerance >= ClipInfo[p].start

Matching(p) == {e \in Events : events[e] # NoRow /\ Overlaps(events[e], p)}

\* ORDER BY start_ts DESC LIMIT 1: a latest-starting match, whichever of a tie.
FindOverlappingEvent(p) ==
  {e \in Matching(p) : \A f \in Matching(p) : events[f].start <= events[e].start}

-----------------------------------------------------------------------------
Init ==
  /\ now = 0
  /\ stage = [e \in Events |-> 0]
  /\ clips = [p \in Clips |-> NoRow]
  /\ events = [e \in Events |-> NoRow]
  /\ cameraKey = [c \in Cameras |-> NoKey]
  /\ connected = FALSE
  /\ wire = << >>
  /\ listener = {}
  /\ cTodo = {} /\ cHeld = {}
  /\ bPhase = "check" /\ bWindow = [from |-> 0, to |-> 0]
  /\ bFetched = {} /\ bTodo = {} /\ bHeld = {}
  /\ faults = 0

Fault == faults < MaxFaults /\ faults' = faults + 1

Tick ==
  /\ now < MaxTime
  /\ now' = now + 1
  /\ UNCHANGED << protectVars, clips, events, cameraKey, listenerVars,
                  classifierVars, backfillVars, faults >>

-----------------------------------------------------------------------------
(* Protect, outside this program: it refines its events and pushes each new *)
(* stage to whoever is subscribed at that moment.                           *)

Advance(e) ==
  /\ stage[e] < Len(EventInfo[e].stages)
  /\ Snapshot(e, stage[e] + 1).at <= now
  /\ stage' = [stage EXCEPT ![e] = stage[e] + 1]
  /\ wire' = IF connected
             THEN Append(wire, [event |-> e, stage |-> stage[e] + 1])
             ELSE wire
  /\ UNCHANGED << now, clips, events, cameraKey, connected, listenerVars,
                  classifierVars, backfillVars, faults >>

-----------------------------------------------------------------------------
(* The indexer finds a finished file on the share, again on every scan. *)

IndexClip(p) ==
  /\ ClipInfo[p].end <= now
  /\ UpsertClip(p)
  /\ UNCHANGED << now, protectVars, events, cameraKey, listenerVars,
                  classifierVars, backfillVars, faults >>

-----------------------------------------------------------------------------
(* The camera directory, refreshed periodically. *)

RefreshCameraDirectory ==
  /\ cameraKey' = KeyOf
  /\ UNCHANGED << now, protectVars, clips, events, listenerVars,
                  classifierVars, backfillVars, faults >>

-----------------------------------------------------------------------------
(* The WebSocket listener. *)

Connect ==
  /\ ~connected
  /\ connected' = TRUE
  /\ UNCHANGED << now, stage, wire, clips, events, cameraKey, listenerVars,
                  classifierVars, backfillVars, faults >>

\* Whatever the socket still held is lost; Protect does not send it again.
Disconnect ==
  /\ connected
  /\ Fault
  /\ connected' = FALSE
  /\ wire' = << >>
  /\ UNCHANGED << now, stage, clips, events, cameraKey, listenerVars,
                  classifierVars, backfillVars >>

\* Messages handled concurrently: the next is read while OnEvent still runs.
ConcurrentReadMessage ==
  /\ wire # << >>
  /\ wire' = Tail(wire)
  /\ listener' = listener \cup {m \in {Head(wire)} : extractOK(Item(m.event, m.stage))}
  /\ UNCHANGED << now, stage, connected, clips, events, cameraKey,
                  classifierVars, backfillVars, faults >>

\* The next message is read only when OnEvent has returned.
ReadMessage ==
  /\ wire # << >> /\ listener = {}
  /\ wire' = Tail(wire)
  /\ listener' = {m \in {Head(wire)} : extractOK(Item(m.event, m.stage))}
  /\ UNCHANGED << now, stage, connected, clips, events, cameraKey,
                  classifierVars, backfillVars, faults >>

lookupCameraKey(e) == cameraKey[EventInfo[e].camera]
KnownCamera(e)     == lookupCameraKey(e) # NoKey

\* An unknown camera id: refresh the directory, and drop the event if that
\* failed or the id is still unknown.
OnEventRefresh(m) ==
  /\ m \in listener /\ ~KnownCamera(m.event)
  /\ \/ cameraKey' = KeyOf /\ UNCHANGED faults
     \/ Fault /\ UNCHANGED cameraKey
  /\ listener' = IF cameraKey'[EventInfo[m.event].camera] = NoKey THEN listener \ {m} ELSE listener
  /\ UNCHANGED << now, protectVars, clips, events, classifierVars, backfillVars >>

OnEventStore(m) ==
  /\ m \in listener /\ KnownCamera(m.event)
  /\ listener' = listener \ {m}
  /\ \/ InsertEvent(m.event, LiveRow(m.event, m.stage, lookupCameraKey(m.event))) /\ UNCHANGED faults
     \/ Fault /\ UNCHANGED events
  /\ UNCHANGED << now, protectVars, clips, cameraKey, classifierVars, backfillVars >>

-----------------------------------------------------------------------------
(* The classifier: list, then for each clip look up, then write. *)

ClassifyList ==
  /\ cTodo = {} /\ cHeld = {}
  /\ cTodo' = Unclassified
  /\ UNCHANGED << now, protectVars, clips, events, cameraKey, listenerVars,
                  cHeld, backfillVars, faults >>

\* A lookup that fails taken for one that finds nothing.
FailureFindsNothing(p) ==
  /\ p \in cTodo /\ cHeld = {}
  /\ cTodo' = cTodo \ {p}
  /\ \/ /\ \E e \in FindOverlappingEvent(p) :
             cHeld' = {[clip |-> p, label |-> ProtectLabel(events[e])]}
        /\ UNCHANGED faults
     \/ /\ (Matching(p) = {} /\ UNCHANGED faults) \/ Fault
        /\ cHeld' = {[clip |-> p, label |-> NoRow]}
  /\ UNCHANGED << now, protectVars, clips, events, cameraKey, listenerVars,
                  backfillVars >>

\* A held label of NoRow says that no overlapping event was found.
ClassifyFind(p) ==
  /\ p \in cTodo /\ cHeld = {}
  /\ cTodo' = cTodo \ {p}
  /\ \/ /\ \E e \in FindOverlappingEvent(p) :
             cHeld' = {[clip |-> p, label |-> ProtectLabel(events[e])]}
        /\ UNCHANGED faults
     \/ /\ Matching(p) = {}
        /\ cHeld' = {[clip |-> p, label |-> NoRow]}
        /\ UNCHANGED faults
     \/ Fault /\ UNCHANGED cHeld
  /\ UNCHANGED << now, protectVars, clips, events, cameraKey, listenerVars,
                  backfillVars >>

ClassifyMatched(d) ==
  /\ d \in cHeld /\ d.label # NoRow
  /\ cHeld' = {}
  /\ \/ SetClipClassification(d.clip, d.label) /\ UNCHANGED faults
     \/ Fault /\ UNCHANGED clips
  /\ UNCHANGED << now, protectVars, events, cameraKey, listenerVars, cTodo,
                  backfillVars >>

ClassifyDefer(d) ==
  /\ d \in cHeld /\ d.label = NoRow
  /\ now < ClipInfo[d.clip].end + Grace
  /\ cHeld' = {}
  /\ UNCHANGED << now, protectVars, clips, events, cameraKey, listenerVars,
                  cTodo, backfillVars, faults >>

ClassifyGuess(d) ==
  /\ d \in cHeld /\ d.label = NoRow
  /\ now >= ClipInfo[d.clip].end + Grace
  /\ cHeld' = {}
  /\ \/ SetClipClassification(d.clip, HeuristicLabel(d.clip)) /\ UNCHANGED faults
     \/ Fault /\ UNCHANGED clips
  /\ UNCHANGED << now, protectVars, events, cameraKey, listenerVars, cTodo,
                  backfillVars >>

-----------------------------------------------------------------------------
(* Backfill: window, fetch, refresh the directory, store, reclassify. *)

BackfillIdle == bPhase = "check" /\ bTodo = {} /\ bHeld = {}

\* With every clip already protect-sourced there is nothing to do.
BackfillBegin ==
  /\ LegacyEnabled /\ BackfillIdle
  /\ \E p \in NonProtect :
       /\ \A q \in NonProtect : ClipInfo[p].start <= ClipInfo[q].start
       /\ bWindow' = [from |-> ClipInfo[p].start, to |-> now]
  /\ bPhase' = "fetch"
  /\ UNCHANGED << now, protectVars, clips, events, cameraKey, listenerVars,
                  classifierVars, bFetched, bTodo, bHeld, faults >>

(* External: the history API returns what Protect knows now of the events   *)
(* that overlap the window; the client keeps the classified ones.           *)
History ==
  {m \in [event : Events, stage : UNION {Stages(e) : e \in Events}] :
     /\ m.stage = stage[m.event]
     /\ EventInfo[m.event].start <= bWindow.to
     /\ Snapshot(m.event, m.stage).end = NoEnd
          \/ Snapshot(m.event, m.stage).end >= bWindow.from}

\* A failed fetch ends the run.
BackfillFetch ==
  /\ bPhase = "fetch"
  /\ \/ /\ bFetched' = {m \in History : HistoryKeeps(Item(m.event, m.stage))}
        /\ bPhase' = "refresh"
        /\ UNCHANGED faults
     \/ Fault /\ bPhase' = "check" /\ UNCHANGED bFetched
  /\ UNCHANGED << now, protectVars, clips, events, cameraKey, listenerVars,
                  classifierVars, bWindow, bTodo, bHeld >>

\* A failed refresh is only logged.
BackfillRefresh ==
  /\ bPhase = "refresh"
  /\ bPhase' = "store"
  /\ \/ cameraKey' = KeyOf /\ UNCHANGED faults
     \/ Fault /\ UNCHANGED cameraKey
  /\ UNCHANGED << now, protectVars, clips, events, listenerVars,
                  classifierVars, bWindow, bFetched, bTodo, bHeld >>

BackfillStore(m) ==
  /\ bPhase = "store" /\ m \in bFetched
  /\ bFetched' = bFetched \ {m}
  /\ \/ /\ KnownCamera(m.event)
        /\ InsertEvent(m.event, HistoryRow(m.event, m.stage, lookupCameraKey(m.event)))
        /\ UNCHANGED faults
     \/ ~KnownCamera(m.event) /\ UNCHANGED << events, faults >>
     \/ Fault /\ UNCHANGED events
  /\ UNCHANGED << now, protectVars, clips, cameraKey, listenerVars,
                  classifierVars, bPhase, bWindow, bTodo, bHeld >>

ReclassifyList ==
  /\ bPhase = "store" /\ bFetched = {}
  /\ bPhase' = "check"
  /\ \/ bTodo' = {[clip |-> p, row |-> clips[p]] : p \in Listed} /\ UNCHANGED faults
     \/ Fault /\ UNCHANGED bTodo
  /\ UNCHANGED << now, protectVars, clips, events, cameraKey, listenerVars,
                  classifierVars, bWindow, bFetched, bHeld >>

\* Newest first; a clip with no overlapping event, or whose listed row already
\* says what was found, is left alone.
ReclassifyFind(d) ==
  /\ d \in bTodo /\ bHeld = {}
  /\ \A other \in bTodo : ClipInfo[other.clip].start <= ClipInfo[d.clip].start
  /\ bTodo' = bTodo \ {d}
  /\ \/ /\ \E e \in FindOverlappingEvent(d.clip) :
             bHeld' = {h \in {[clip |-> d.clip, label |-> ProtectLabel(events[e])]} :
                         h.label # d.row}
        /\ UNCHANGED faults
     \/ Matching(d.clip) = {} /\ UNCHANGED << bHeld, faults >>
     \/ Fault /\ UNCHANGED bHeld
  /\ UNCHANGED << now, protectVars, clips, events, cameraKey, listenerVars,
                  classifierVars, bPhase, bWindow, bFetched >>

ReclassifySet(d) ==
  /\ d \in bHeld
  /\ bHeld' = {}
  /\ \/ SetClipClassification(d.clip, d.label) /\ UNCHANGED faults
     \/ Fault /\ UNCHANGED clips
  /\ UNCHANGED << now, protectVars, events, cameraKey, listenerVars,
                  classifierVars, bPhase, bWindow, bFetched, bTodo >>

-----------------------------------------------------------------------------
\* The process dies; the database survives, everything in memory does not.
Restart ==
  /\ Fault
  /\ cameraKey' = [c \in Cameras |-> NoKey]
  /\ connected' = FALSE /\ wire' = << >> /\ listener' = {}
  /\ cTodo' = {} /\ cHeld' = {}
  /\ bPhase' = "check" /\ bWindow' = [from |-> 0, to |-> 0]
  /\ bFetched' = {} /\ bTodo' = {} /\ bHeld' = {}
  /\ UNCHANGED << now, stage, clips, events >>

Listen ==
  \/ Connect \/ ReadMessage
  \/ \E m \in listener : OnEventRefresh(m) \/ OnEventStore(m)

Classify ==
  \/ ClassifyList
  \/ \E p \in cTodo : ClassifyFind(p)
  \/ \E d \in cHeld : ClassifyMatched(d) \/ ClassifyDefer(d) \/ ClassifyGuess(d)

Backfill ==
  \/ BackfillBegin \/ BackfillFetch \/ BackfillRefresh
  \/ \E m \in bFetched : BackfillStore(m)
  \/ ReclassifyList
  \/ \E d \in bTodo : ReclassifyFind(d)
  \/ \E d \in bHeld : ReclassifySet(d)

Next ==
  \/ Tick
  \/ \E e \in Events : Advance(e)
  \/ \E p \in Clips : IndexClip(p)
  \/ RefreshCameraDirectory
  \/ Listen
  \/ Disconnect
  \/ Classify
  \/ Backfill
  \/ Restart

Spec == Init /\ [][Next]_vars

(* Every activity is a goroutine that keeps being scheduled, and time       *)
(* passes.  A call may fail, but not for ever: faults is bounded.           *)
Fairness ==
  /\ WF_vars(Tick)
  /\ \A p \in Clips : WF_vars(IndexClip(p))
  /\ WF_vars(RefreshCameraDirectory)
  /\ WF_vars(Listen)
  /\ WF_vars(Classify)
  /\ WF_vars(Backfill)

FairSpec == Spec /\ Fairness

-----------------------------------------------------------------------------
(* Type invariant: every variable has its shape, and each activity works on *)
(* at most one message or clip at a time.  What the rows and labels may      *)
(* contain is the subject of ClipsExplained.                                *)
Message == {m \in [event : Events, stage : Nat] : m.stage \in Stages(m.event)}

TypeOK ==
  /\ now \in 0 .. MaxTime
  /\ \A e \in Events : stage[e] \in 0 .. Len(EventInfo[e].stages)
  /\ DOMAIN stage = Events /\ DOMAIN clips = Clips /\ DOMAIN events = Events
  /\ DOMAIN cameraKey = Cameras
  /\ connected \in BOOLEAN
  /\ wire \in Seq(Message)
  /\ listener \subseteq Message /\ bFetched \subseteq Message
  /\ \A held \in {listener, cHeld, bHeld} : \A x, y \in held : x = y
  /\ cTodo \subseteq Clips
  /\ \A d \in cHeld \cup bTodo \cup bHeld : d.clip \in Clips
  /\ bPhase \in {"fetch", "refresh", "store", "check"}
  /\ bWindow \in [from : Nat, to : Nat]
  /\ faults \in 0 .. MaxFaults

-----------------------------------------------------------------------------
(* Safety. *)

\* What Protect has said of e so far, through either API.
SaidAt(e, k) ==
  LET key == KeyOf[EventInfo[e].camera]
  IN  {LiveRow(e, k, key), HistoryRow(e, k, key)}

Said(e) == UNION {SaidAt(e, k) : k \in 1 .. stage[e]}

\* The row's camera is the clip's, and neither is over before the other begins.
Covers(row, p) ==
  /\ row.key = ClipInfo[p].key
  /\ ~ (ClipInfo[p].end + Tolerance < row.start)
  /\ ~ (row.end # NoEnd /\ row.end + Tolerance < ClipInfo[p].start)

Explained(p, label) ==
  \E e \in Events : \E row \in Said(e) : Covers(row, p) /\ label = ProtectLabel(row)

(* Every Protect label on a clip is, as a whole, what Protect said at some   *)
(* one moment of one detection on the clip's own camera that overlapped the *)
(* clip as it then stood: the headline, detail and type list never mix two   *)
(* events, two stages or the two APIs, although the label is read in one     *)
(* statement and written in another and rows are updated column by column    *)
(* (InsertEvent, classifyOnce, reclassifyAllClips).                          *)
ClipsExplained ==
  \A p \in Listed : clips[p].source = "protect" => Explained(p, clips[p])

(* Once a stored event has an end it keeps one: a later row never reopens it, *)
(* which would let it match every later clip of its camera (InsertEvent).     *)
EndNeverLost ==
  [][\A e \in Events :
       (events[e] # NoRow /\ events[e].end # NoEnd) => events'[e].end # NoEnd]_vars

(* The clips table implements ClipLabels: a label, once given, is replaced    *)
(* only where a backfill exists, only by a label some detection justifies or  *)
(* by the clip's own guess after its grace period; indexing a file again      *)
(* never touches it (UpsertClip "never overwrites an event_type that a later  *)
(* correlation pass has set").                                                *)
Evidence ==
  [p \in Clips |-> [e \in Events |-> [k \in Stages(e) |->
    {<< p, ProtectLabel(row) >> : row \in {row \in SaidAt(e, k) : Covers(row, p)}}]]]

Known(p)  == UNION {UNION {Evidence[p][e][k] : k \in 1 .. stage[e]} : e \in Events}
Justified == UNION {Known(p) : p \in Clips}
Due       == {p \in Clips : now >= ClipInfo[p].end + Grace}

Labels == INSTANCE ClipLabels WITH
            label      <- clips,
            justified  <- Justified,
            due        <- Due,
            Absent     <- NoRow,
            Fresh      <- NewClip,
            Guess      <- [p \in Clips |-> HeuristicLabel(p)],
            Correcting <- LegacyEnabled

LabelsRefined == Labels!Spec

-----------------------------------------------------------------------------
(* Liveness, under FairSpec. *)

(* Every indexed clip is eventually classified, for good, one way or the      *)
(* other: no interleaving or bounded run of failures leaves it "unknown"      *)
(* (classifyOnce).  MaxTime must lie beyond every grace period.               *)
EventuallyClassified ==
  \A p \in Clips : (p \in Listed) ~> [](p \in Listed /\ clips[p].source # "unknown")

(* A clip that a stored event covers while the classifier does not have it in *)
(* hand is given a Protect label, or the events move away from it: only an     *)
(* event that is stored between the lookup and the write, or later, can come    *)
(* too late against a guess, which without a backfill is final; no failed        *)
(* lookup or write, restart or disconnect on the way makes it lose as well       *)
(* (classifyOnce).                                                            *)
InHandOfClassifier(p) == \E d \in cHeld : d.clip = p

MatchBeatsGuess ==
  \A p \in Clips :
    (/\ p \in Listed /\ clips[p].source = "unknown"
     /\ Matching(p) # {} /\ ~InHandOfClassifier(p))
      ~> (p \in Listed /\ (clips[p].source = "protect" \/ Matching(p) = {}))

\* Protect's last word on some event is classified and covers the clip.
Deserves(p) ==
  \E e \in Events :
    LET last == Snapshot(e, Len(EventInfo[e].stages))
    IN  /\ Stages(e) # {} /\ stage[e] = Len(EventInfo[e].stages)
        /\ HistoryKeeps(Item(e, stage[e]))
        /\ KeyOf[EventInfo[e].camera] = ClipInfo[p].key
        /\ EventInfo[e].start <= ClipInfo[p].end
        /\ last.end = NoEnd \/ last.end >= ClipInfo[p].start

(* With backfill configured, a clip covered by a detection Protect still      *)
(* remembers ends up Protect-labelled for good, even if the live message was  *)
(* lost, arrived after the guess, or the classifier overwrote the match       *)
(* (Backfill).                                                                *)
BackfillWins ==
  \A p \in Clips : (p \in Listed /\ Deserves(p))
                     ~> [](p \in Listed /\ clips[p].source = "protect")
=============================================================================
