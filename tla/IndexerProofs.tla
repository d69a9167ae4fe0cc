---------------------------- MODULE IndexerProofs ----------------------------
(***************************************************************************)
(* Proofs, for any files, folders, delays and faults, of the shape of the      *)
(* indexer's state, that the age check tells finished files from others, that  *)
(* every file is indexed in time, and that no day folder is overlooked: see       *)
(* TypeOK, RowsWhole, IndexedInTime and FoldersWatched in Indexer.               *)
(***************************************************************************)
EXTENDS Indexer, TLAPS

-----------------------------------------------------------------------------
(* Frames: what most actions leave alone. *)

ShareSide == Protect \/ Tick

LEMMA ShareFrame ==
  ShareSide => UNCHANGED << rows, warned, watched, scan, began, dirs, entries, held, faults,
                            alarm, rings, tickAt, ticked >>
BY DEF ShareSide, Protect, CreateFolder, WriteFile, RemoveFile, Tick, tableVars, timerVars,
       scanVars, watchVars

IndexerSide == TickerFires \/ DebounceFires \/ Loop \/ ScanOnce \/ SetUp \/ Restart

LEMMA IndexerFrame == IndexerSide => UNCHANGED << now, shareVars >>
BY DEF IndexerSide, TickerFires, DebounceFires, Loop, ReceiveTick, ReceiveDebounce, ReceiveNotice,
       NoticesLost, ScanOnce, ReadRoot, ReadRootFails, ReadFolder, Examine, UpsertClip, ScanDone,
       SetUp, WatchRoot, ListFolders, AddFolder, AllAdded, Restart

TableSide ==
  \/ ShareSide \/ TickerFires \/ DebounceFires \/ Loop
  \/ ReadRoot \/ ReadRootFails \/ ScanDone \/ SetUp

LEMMA TableFrame == TableSide => UNCHANGED << rows, warned, held >>
BY ShareFrame
   DEF TableSide, TickerFires, DebounceFires, Loop, ReceiveTick, ReceiveDebounce, ReceiveNotice,
       NoticesLost, ReadRoot, ReadRootFails, ScanDone, StartScan, tableVars, scanVars,
       SetUp, WatchRoot, ListFolders, AddFolder, AllAdded

LEMMA NextSides ==
  [Next]_vars <=> \/ ShareSide \/ IndexerSide \/ UNCHANGED vars
BY Zenon DEF Next, Clock, ShareSide, IndexerSide

-----------------------------------------------------------------------------
(* Types, by component of the state. *)

ShareOK ==
  /\ now \in Nat
  /\ folders \subseteq Folders /\ gone \subseteq Files /\ paused \subseteq Files
  /\ file \in [Files -> Stat]

Held == [file : Files \ Unparseable, info : Stat]

TableOK ==
  /\ rows \in [Files -> Stat \cup {NoRow}]
  /\ warned \subseteq Unparseable
  /\ held \in Held \cup {Nothing}
  /\ \A f \in Unparseable : rows[f] = NoRow

WatchOK ==
  /\ watched \subseteq Folders \cup {Root} /\ notices \subseteq Folders \cup Files
  /\ missed \subseteq Folders

TimerOK ==
  /\ faults \in Nat
  /\ alarm \in Nat \cup {Never} /\ tickAt \in Nat \cup {Never}
  /\ rings \in Nat

ScanOK ==
  /\ scan \in {"off", "start", "walk", "watch", "list", "add"} /\ began \in Nat
  /\ dirs \subseteq Folders /\ entries \subseteq Files
  /\ scan # "walk" => entries = {} /\ held = Nothing
  /\ scan \notin {"walk", "add"} => dirs = {}

LEMMA TypeParts ==
  TypeOK <=> ShareOK /\ TableOK /\ WatchOK /\ TimerOK /\ ScanOK /\ ticked \in BOOLEAN
BY Zenon DEF TypeOK, ShareOK, TableOK, WatchOK, TimerOK, ScanOK, Held

LEMMA InitTypeOK == Init => TypeOK
<1> SUFFICES ASSUME Init PROVE TypeOK
  OBVIOUS
<1>1. ShareOK
  BY IndexerAssumption DEF Init, ShareOK, Stat
<1>2. TableOK
  BY IndexerAssumption DEF Init, TableOK
<1>3. WatchOK /\ TimerOK /\ ScanOK
  BY DEF Init, WatchOK, TimerOK, ScanOK
<1>4. ticked \in BOOLEAN
  BY Zenon DEF Init
<1> QED
  BY Zenon, <1>1, <1>2, <1>3, <1>4, TypeParts

LEMMA ShareKept == ShareOK /\ [Next]_vars => ShareOK'
<1> SUFFICES ASSUME ShareOK, [Next]_vars PROVE ShareOK'
  OBVIOUS
<1>1. ASSUME NEW d \in Folders, CreateFolder(d) PROVE ShareOK'
  BY <1>1 DEF CreateFolder, ShareOK
<1>2. ASSUME NEW f \in Files, WriteFile(f) PROVE ShareOK'
  <2>1. /\ UNCHANGED << now, folders, gone, paused >> /\ file[f].size # Full
        /\ file' = [file EXCEPT ![f] = [size |-> file[f].size + 1, mtime |-> now]]
    BY <1>2 DEF WriteFile, Complete
  <2>2. [size |-> file[f].size + 1, mtime |-> now] \in Stat
    <3>1. file[f].size \in 0..Full /\ now \in Nat
      BY DEF ShareOK, Stat
    <3> QED
      BY <2>1, <3>1, IndexerAssumption DEF Stat
  <2> QED
    BY <2>1, <2>2 DEF ShareOK
<1>3. ASSUME NEW f \in Files, RemoveFile(f) PROVE ShareOK'
  BY <1>3 DEF RemoveFile, ShareOK
<1>4. CASE Tick
  BY <1>4 DEF Tick, ShareOK
<1>5. CASE IndexerSide \/ UNCHANGED vars
  BY <1>5, IndexerFrame DEF vars, shareVars, ShareOK
<1> QED
  BY <1>1, <1>2, <1>3, <1>4, <1>5, NextSides DEF ShareSide, Protect

LEMMA TableKept == ShareOK /\ TableOK /\ ScanOK /\ [Next]_vars => TableOK'
<1> SUFFICES ASSUME ShareOK, TableOK, ScanOK, [Next]_vars PROVE TableOK'
  OBVIOUS
<1>1. CASE TableSide \/ UNCHANGED vars
  BY <1>1, TableFrame DEF vars, tableVars, scanVars, TableOK
<1>2. ASSUME NEW d \in dirs, ReadFolder(d) PROVE TableOK'
  BY <1>2 DEF ReadFolder, tableVars, TableOK
<1>3. ASSUME NEW f \in entries, Examine(f) PROVE TableOK'
  <2>1. f \in Files /\ file[f] \in Stat
    BY DEF ScanOK, ShareOK
  <2>2. held' = held \/ (f \notin Unparseable /\ held' = [file |-> f, info |-> file[f]])
    BY <1>3 DEF Examine
  <2>3. rows' = rows /\ warned' \subseteq Unparseable
    BY <1>3 DEF Examine, TableOK
  <2> QED
    BY <2>1, <2>2, <2>3 DEF TableOK, Held
<1>4. CASE UpsertClip
  <2>1. /\ held # Nothing /\ held' = Nothing /\ warned' = warned
        /\ rows' = rows \/ rows' = [rows EXCEPT ![held.file] = held.info]
    BY <1>4 DEF UpsertClip
  <2>2. held.file \in Files \ Unparseable /\ held.info \in Stat
    BY <2>1 DEF TableOK, Held
  <2>3. rows \in [Files -> Stat \cup {NoRow}] /\ \A f \in Unparseable : rows[f] = NoRow
    BY DEF TableOK
  <2>4. rows' \in [Files -> Stat \cup {NoRow}]
    BY <2>1, <2>2, <2>3
  <2>5. \A f \in Unparseable : rows'[f] = NoRow
    BY <2>1, <2>2, <2>3, IndexerAssumption
  <2> QED
    BY <2>1, <2>4, <2>5 DEF TableOK
<1>5. CASE Restart
  BY <1>5 DEF Restart, Fresh, TableOK
<1> QED
  BY <1>1, <1>2, <1>3, <1>4, <1>5, NextSides DEF TableSide, IndexerSide, ScanOnce

LEMMA WatchKept == ShareOK /\ WatchOK /\ ScanOK /\ [Next]_vars => WatchOK'
<1> SUFFICES ASSUME ShareOK, WatchOK, ScanOK, [Next]_vars PROVE WatchOK'
  OBVIOUS
<1>1. ASSUME NEW d \in Folders, CreateFolder(d) PROVE WatchOK'
  BY <1>1 DEF CreateFolder, Notify, WatchOK
<1>2. ASSUME NEW f \in Files, WriteFile(f) PROVE WatchOK'
  BY <1>2 DEF WriteFile, Notify, WatchOK
<1>3. CASE (\E f \in Files : RemoveFile(f)) \/ Tick \/ TickerFires \/ DebounceFires \/ UNCHANGED vars
  BY <1>3 DEF RemoveFile, Tick, TickerFires, DebounceFires, vars, watchVars, WatchOK
<1>4. CASE Loop
  BY <1>4 DEF Loop, ReceiveTick, ReceiveDebounce, ReceiveNotice, NoticesLost, watchVars, WatchOK
<1>5. CASE SetUp
  BY <1>5 DEF SetUp, WatchRoot, ListFolders, AddFolder, AllAdded, watchVars, ShareOK, ScanOK, WatchOK
<1>6. CASE ScanOnce
  BY <1>6 DEF ScanOnce, ReadRoot, ReadRootFails, ReadFolder, Examine, UpsertClip, ScanDone,
              watchVars, WatchOK
<1>7. CASE Restart
  BY <1>7 DEF Restart, Fresh, WatchOK
<1> QED
  BY <1>1, <1>2, <1>3, <1>4, <1>5, <1>6, <1>7 DEF Next, Protect, Clock

LEMMA FaultCounts == TimerOK /\ Fault => faults' \in Nat
BY DEF TimerOK, Fault

LEMMA TimerKept == ShareOK /\ TimerOK /\ [Next]_vars => TimerOK'
<1> SUFFICES ASSUME ShareOK, TimerOK, [Next]_vars PROVE TimerOK'
  OBVIOUS
<1> USE IndexerAssumption
<1>1. CASE ShareSide \/ UNCHANGED vars
  BY <1>1, ShareFrame DEF vars, timerVars, TimerOK
<1>2. CASE TickerFires \/ DebounceFires
  BY <1>2 DEF TickerFires, DebounceFires, ShareOK, TimerOK
<1>3. CASE Loop
  <2>1. faults' = faults \/ Fault
    BY <1>3 DEF Loop, ReceiveTick, ReceiveDebounce, ReceiveNotice, NoticesLost
  <2>2. UNCHANGED timerVars \/ (UNCHANGED tickAt /\ rings' \in Nat /\ alarm' \in Nat \cup {Never})
    BY <1>3 DEF Loop, ReceiveTick, ReceiveDebounce, ReceiveNotice, NoticesLost, ShareOK, TimerOK
  <2> QED
    BY <2>1, <2>2, FaultCounts DEF timerVars, TimerOK
<1>4. CASE SetUp
  <2>1. UNCHANGED << now, alarm, rings >> /\ (tickAt' = tickAt \/ tickAt' = now + Interval)
    BY <1>4 DEF SetUp, WatchRoot, ListFolders, AddFolder, AllAdded, StartTicker, Setting, timerVars
  <2>2. faults' \in Nat
    BY <1>4, FaultCounts DEF SetUp, WatchRoot, ListFolders, AddFolder, AllAdded, TimerOK
  <2> QED
    BY <2>1, <2>2 DEF ShareOK, TimerOK
<1>5. CASE ScanOnce
  <2>1. UNCHANGED timerVars /\ (faults' = faults \/ Fault)
    BY <1>5 DEF ScanOnce, ReadRoot, ReadRootFails, ReadFolder, Examine, UpsertClip, ScanDone
  <2> QED
    BY <2>1, FaultCounts DEF timerVars, TimerOK
<1>6. CASE Restart
  BY <1>6, FaultCounts DEF Restart, Fresh, TimerOK
<1> QED
  BY <1>1, <1>2, <1>3, <1>4, <1>5, <1>6, NextSides DEF IndexerSide

LEMMA TickedKept == ticked \in BOOLEAN /\ [Next]_vars => ticked' \in BOOLEAN
<1> SUFFICES ASSUME ticked \in BOOLEAN, [Next]_vars PROVE ticked' \in BOOLEAN
  OBVIOUS
<1>1. CASE ShareSide \/ UNCHANGED vars
  BY Zenon, <1>1, ShareFrame DEF vars, timerVars
<1>2. CASE TickerFires \/ DebounceFires \/ Loop \/ Restart
  BY Zenon, <1>2 DEF TickerFires, DebounceFires, Loop, ReceiveTick, ReceiveDebounce, ReceiveNotice,
                     NoticesLost, timerVars, Restart, Fresh
<1>3. CASE ScanOnce \/ SetUp
  BY Zenon, <1>3 DEF ScanOnce, ReadRoot, ReadRootFails, ReadFolder, Examine, UpsertClip, ScanDone,
                     SetUp, WatchRoot, ListFolders, AddFolder, AllAdded, StartTicker, Setting, timerVars
<1> QED
  BY Zenon, <1>1, <1>2, <1>3, NextSides DEF IndexerSide

LEMMA ScanKept == ShareOK /\ TableOK /\ ScanOK /\ [Next]_vars => ScanOK'
<1> SUFFICES ASSUME ShareOK, TableOK, ScanOK, [Next]_vars PROVE ScanOK'
  OBVIOUS
<1>1. CASE ShareSide \/ UNCHANGED vars
  BY <1>1, ShareFrame DEF vars, scanVars, ScanOK
<1>2. CASE TickerFires \/ DebounceFires \/ (\E n \in notices : ReceiveNotice(n)) \/ NoticesLost
  BY <1>2 DEF TickerFires, DebounceFires, ReceiveNotice, NoticesLost, scanVars, ScanOK
<1>3. CASE ReceiveTick \/ ReceiveDebounce
  BY <1>3 DEF ReceiveTick, ReceiveDebounce, Idle, StartScan, ShareOK, ScanOK
<1>4. CASE ReadRoot
  BY <1>4 DEF ReadRoot, ShareOK, ScanOK
<1>5. CASE ReadRootFails \/ ScanDone
  BY <1>5 DEF ReadRootFails, ScanDone, ScanEnds, ScanOK
<1>6. ASSUME NEW d \in dirs, ReadFolder(d) PROVE ScanOK'
  BY <1>6 DEF ReadFolder, ScanOK
<1>7. ASSUME NEW f \in entries, Examine(f) PROVE ScanOK'
  BY <1>7 DEF Examine, ScanOK
<1>8. CASE UpsertClip
  BY <1>8 DEF UpsertClip, ScanOK
<1>9. CASE SetUp
  BY <1>9 DEF SetUp, WatchRoot, ListFolders, AddFolder, AllAdded, StartTicker, Setting, ShareOK, ScanOK
<1>10. CASE Restart
  BY <1>10 DEF Restart, Fresh, ShareOK, ScanOK
<1> QED
  BY <1>1, <1>2, <1>3, <1>4, <1>5, <1>6, <1>7, <1>8, <1>9, <1>10, NextSides
     DEF IndexerSide, Loop, ScanOnce

LEMMA NextTypeOK == TypeOK /\ [Next]_vars => TypeOK'
<1> SUFFICES ASSUME TypeOK, [Next]_vars PROVE TypeOK'
  OBVIOUS
<1>1. ShareOK' /\ TableOK' /\ WatchOK' /\ TimerOK' /\ ScanOK' /\ ticked' \in BOOLEAN
  BY Zenon, TypeParts, ShareKept, TableKept, WatchKept, TimerKept, ScanKept, TickedKept
<1> QED
  BY Zenon, <1>1 DEF TypeOK, ShareOK, TableOK, WatchOK, TimerOK, ScanOK, Held

-----------------------------------------------------------------------------
(* Rows describe finished files, or paused ones.  The strengthening: a file old  *)
(* enough to be trusted is finished or has been paused, and so is what a scan     *)
(* holds.                                                                    *)

OldIsPaused ==
  \A f \in Files :
    Exists(f) /\ ~Complete(f) /\ now >= file[f].mtime + MinAge => f \in paused

HeldWhole == held # Nothing /\ held.info.size < Full => held.file \in paused

WholeInv == OldIsPaused /\ HeldWhole /\ RowsWhole

LEMMA InitWhole == Init => WholeInv
BY DEF Init, WholeInv, OldIsPaused, HeldWhole, RowsWhole, Exists

LEMMA OldKept == ShareOK /\ OldIsPaused /\ [Next]_vars => OldIsPaused'
<1> SUFFICES ASSUME ShareOK, OldIsPaused, [Next]_vars PROVE OldIsPaused'
  OBVIOUS
<1>1. ASSUME NEW f \in Files, WriteFile(f) PROVE OldIsPaused'
  <2>1. /\ UNCHANGED << now, gone, paused >>
        /\ file' = [file EXCEPT ![f] = [size |-> file[f].size + 1, mtime |-> now]]
    BY <1>1 DEF WriteFile
  <2>2. file'[f].mtime = now /\ \A g \in Files \ {f} : file'[g] = file[g]
    BY <2>1 DEF ShareOK
  <2>3. now < now + MinAge
    BY IndexerAssumption DEF ShareOK
  <2>4. ~(now' >= file'[f].mtime + MinAge)
    BY <2>1, <2>2, <2>3, IndexerAssumption DEF ShareOK
  <2> QED
    BY <2>1, <2>2, <2>4 DEF OldIsPaused, Exists, Complete
<1>2. CASE (\E d \in Folders : CreateFolder(d)) \/ (\E f \in Files : RemoveFile(f))
  BY <1>2 DEF CreateFolder, RemoveFile, OldIsPaused, Exists, Complete
<1>3. CASE Tick
  BY <1>3 DEF Tick, OldIsPaused, Exists, Complete
<1>4. CASE IndexerSide \/ UNCHANGED vars
  BY <1>4, IndexerFrame DEF vars, shareVars, OldIsPaused, Exists, Complete
<1> QED
  BY <1>1, <1>2, <1>3, <1>4, NextSides DEF ShareSide, Protect

LEMMA PausedGrows == [Next]_vars => paused \subseteq paused'
BY NextSides, IndexerFrame
   DEF ShareSide, Protect, CreateFolder, WriteFile, RemoveFile, Tick, vars, shareVars

LEMMA NextWhole == TypeOK /\ WholeInv /\ [Next]_vars => WholeInv'
<1> SUFFICES ASSUME TypeOK, WholeInv, [Next]_vars PROVE WholeInv'
  OBVIOUS
<1>1. ShareOK /\ TableOK /\ ScanOK /\ OldIsPaused' /\ paused \subseteq paused'
  BY TypeParts, OldKept, PausedGrows DEF WholeInv
<1>2. ASSUME UNCHANGED << rows, held >> PROVE WholeInv'
  BY <1>1, <1>2 DEF WholeInv, HeldWhole, RowsWhole
<1>3. CASE TableSide \/ UNCHANGED vars \/ (\E d \in dirs : ReadFolder(d))
  BY <1>2, <1>3, TableFrame DEF vars, tableVars, scanVars, ReadFolder
<1>4. ASSUME NEW f \in entries, Examine(f) PROVE WholeInv'
  <2>1. rows' = rows /\ f \in Files /\ file[f].size \in 0..Full
        /\ file[f].mtime \in Nat /\ now \in Nat
    BY <1>1, <1>4 DEF Examine, ScanOK, ShareOK, Stat
  <2>2. CASE held' = held
    BY <1>2, <2>1, <2>2
  <2>3. CASE held' # held
    <3>1. held' = [file |-> f, info |-> file[f]] /\ Exists(f) /\ ~Young(f)
      BY <1>4, <2>3 DEF Examine
    <3>2. now >= file[f].mtime + MinAge
      BY <2>1, <3>1, IndexerAssumption DEF Young
    <3>3. file[f].size < Full => f \in paused
      BY <2>1, <3>1, <3>2, IndexerAssumption DEF WholeInv, OldIsPaused, Complete
    <3> QED
      BY <1>1, <2>1, <3>1, <3>3 DEF WholeInv, HeldWhole, RowsWhole
  <2> QED
    BY <2>2, <2>3
<1>5. CASE UpsertClip
  <2>1. /\ held # Nothing /\ held' = Nothing
        /\ rows' = rows \/ rows' = [rows EXCEPT ![held.file] = held.info]
    BY <1>5 DEF UpsertClip
  <2>2. HeldWhole'
    BY <2>1 DEF HeldWhole
  <2>3. \A f \in Files : rows'[f] = rows[f] \/ (f = held.file /\ rows'[f] = held.info)
    BY <1>1, <2>1 DEF TableOK
  <2>4. RowsWhole'
    BY <1>1, <2>1, <2>3 DEF WholeInv, HeldWhole, RowsWhole
  <2> QED
    BY <1>1, <2>2, <2>4 DEF WholeInv
<1>6. CASE Restart
  BY <1>1, <1>6 DEF Restart, Fresh, shareVars, WholeInv, HeldWhole, RowsWhole
<1> QED
  BY <1>3, <1>4, <1>5, <1>6, NextSides DEF TableSide, IndexerSide, ScanOnce

-----------------------------------------------------------------------------
(* Watched folders.  The strengthening: with the root watched and its folders      *)
(* listed, a folder that is not watched yet is among those listed, or has been     *)
(* reported and not received, or is one a call has failed for.                    *)

Reported ==
  Root \in watched /\ scan # "list"
    => folders \subseteq watched \cup notices \cup missed \cup (IF scan = "add" THEN dirs ELSE {})

LEMMA InitReported == Init => Reported
BY DEF Init, Reported

LEMMA NextReported == TypeOK /\ Reported /\ [Next]_vars => Reported'
<1> SUFFICES ASSUME TypeOK, Reported, [Next]_vars PROVE Reported'
  OBVIOUS
<1>1. ASSUME NEW d \in Folders, CreateFolder(d) PROVE Reported'
  BY <1>1 DEF CreateFolder, Notify, scanVars, Reported
<1>2. ASSUME NEW f \in Files, WriteFile(f) PROVE Reported'
  BY <1>2 DEF WriteFile, Notify, scanVars, Reported
<1>3. CASE (\E f \in Files : RemoveFile(f)) \/ Tick \/ TickerFires \/ DebounceFires \/ UNCHANGED vars
  BY <1>3 DEF RemoveFile, Tick, TickerFires, DebounceFires, vars, shareVars, watchVars, scanVars, Reported
<1>4. CASE ReceiveTick \/ ReceiveDebounce
  BY <1>4 DEF ReceiveTick, ReceiveDebounce, Idle, StartScan, shareVars, watchVars, Reported
<1>5. ASSUME NEW n \in notices, ReceiveNotice(n) PROVE Reported'
  BY <1>5, IndexerAssumption DEF ReceiveNotice, Idle, shareVars, scanVars, Reported, TypeOK
<1>6. CASE NoticesLost
  BY <1>6 DEF NoticesLost, shareVars, scanVars, Reported, TypeOK
<1>7. CASE ScanOnce
  <2>1. /\ UNCHANGED << shareVars, watchVars >> /\ scan \in {"start", "walk"}
        /\ scan' \in {"off", "start", "walk", "watch"}
    BY <1>7 DEF ScanOnce, ReadRoot, ReadRootFails, ReadFolder, Examine, UpsertClip, ScanDone,
                ScanEnds, TypeOK
  <2> QED
    BY <2>1 DEF shareVars, watchVars, Reported
<1>8. CASE WatchRoot \/ AllAdded
  BY <1>8 DEF WatchRoot, AllAdded, StartTicker, Setting, shareVars, watchVars, Reported
<1>9. CASE ListFolders
  BY <1>9 DEF ListFolders, StartTicker, Setting, shareVars, Reported
<1>10. ASSUME NEW d \in dirs, AddFolder(d) PROVE Reported'
  <2>1. scan = "add" /\ scan' = "add" /\ folders' = folders /\ notices' = notices /\ dirs' = dirs \ {d}
    BY <1>10 DEF AddFolder, shareVars
  <2>2. watched \cup missed \cup {d} \subseteq watched' \cup missed'
    BY <1>10 DEF AddFolder
  <2>3. Root \in watched' => Root \in watched
    BY <1>10, IndexerAssumption DEF AddFolder, TypeOK
  <2> QED
    BY <2>1, <2>2, <2>3 DEF Reported
<1>11. CASE Restart
  BY <1>11, IndexerAssumption DEF Restart, Fresh, Reported
<1> QED
  BY <1>1, <1>2, <1>3, <1>4, <1>5, <1>6, <1>7, <1>8, <1>9, <1>10, <1>11
     DEF Next, Protect, Clock, Loop, SetUp

-----------------------------------------------------------------------------
(* Files are indexed in time.  First, what the clock may not outrun: a scan, a    *)
(* timer, and a file's own last write.                                         *)

ScanShort == scan # "off" => began <= now /\ now <= began + ScanTime

TickNear ==
  /\ scan = "off" => tickAt # Never
  /\ scan \in {"watch", "list", "add"} => tickAt = Never
  /\ tickAt # Never => now <= tickAt /\ tickAt <= now + Interval

WrittenBefore ==
  \A f \in Files : file[f].size > 0 => FolderOf[f] \in folders /\ file[f].mtime <= now

ClockInv == ScanShort /\ TickNear /\ WrittenBefore

LEMMA InitClock == Init => ClockInv
BY IndexerAssumption DEF Init, ClockInv, ScanShort, TickNear, WrittenBefore

LEMMA ScanShortKept == TypeOK /\ ScanShort /\ [Next]_vars => ScanShort'
<1> SUFFICES ASSUME TypeOK, ScanShort, [Next]_vars PROVE ScanShort'
  OBVIOUS
<1>1. now \in Nat /\ began \in Nat /\ ScanTime \in Nat
  BY IndexerAssumption DEF TypeOK
<1>2. CASE Tick
  BY <1>1, <1>2 DEF Tick, scanVars, ScanShort
<1>3. CASE Protect \/ UNCHANGED vars \/ TickerFires \/ DebounceFires
  BY <1>3 DEF Protect, CreateFolder, WriteFile, RemoveFile, TickerFires, DebounceFires, vars,
              scanVars, ScanShort
<1>4. CASE Loop
  BY <1>1, <1>4 DEF Loop, ReceiveTick, ReceiveDebounce, ReceiveNotice, NoticesLost, StartScan,
                    scanVars, ScanShort
<1>5. CASE ScanOnce \/ SetUp
  <2>1. scan # "off" /\ UNCHANGED << now, began >>
    BY <1>5 DEF ScanOnce, ReadRoot, ReadRootFails, ReadFolder, Examine, UpsertClip, ScanDone,
                SetUp, WatchRoot, ListFolders, AddFolder, AllAdded, TypeOK
  <2> QED
    BY <2>1 DEF ScanShort
<1>6. CASE Restart
  BY <1>1, <1>6 DEF Restart, Fresh, ScanShort
<1> QED
  BY <1>2, <1>3, <1>4, <1>5, <1>6 DEF Next, Clock

LEMMA TickNearKept == TypeOK /\ TickNear /\ [Next]_vars => TickNear'
<1> SUFFICES ASSUME TypeOK, TickNear, [Next]_vars PROVE TickNear'
  OBVIOUS
<1>1. now \in Nat /\ Interval \in Nat \ {0} /\ tickAt \in Nat \cup {Never} /\ Never \notin Nat
  BY IndexerAssumption DEF TypeOK
<1>2. CASE Tick
  BY <1>1, <1>2 DEF Tick, timerVars, scanVars, TickNear
<1>3. CASE Protect \/ UNCHANGED vars \/ DebounceFires
  BY <1>3 DEF Protect, CreateFolder, WriteFile, RemoveFile, DebounceFires, vars,
              timerVars, scanVars, TickNear
<1>4. CASE TickerFires
  BY <1>1, <1>4 DEF TickerFires, scanVars, TickNear
<1>5. CASE Loop
  BY <1>5 DEF Loop, ReceiveTick, ReceiveDebounce, ReceiveNotice, NoticesLost, Idle, StartScan,
              timerVars, scanVars, TickNear
<1>6. CASE ReadRootFails \/ ScanDone
  BY <1>1, <1>6 DEF ReadRootFails, ScanDone, ScanEnds, timerVars, TickNear
<1>7. CASE ReadRoot \/ (\E d \in dirs : ReadFolder(d)) \/ (\E f \in entries : Examine(f)) \/ UpsertClip
  BY <1>7 DEF ReadRoot, ReadFolder, Examine, UpsertClip, timerVars, TypeOK, TickNear
<1>8. CASE SetUp
  BY <1>1, <1>8 DEF SetUp, WatchRoot, ListFolders, AddFolder, AllAdded, StartTicker, Setting,
                    timerVars, TickNear
<1>9. CASE Restart
  BY <1>9 DEF Restart, Fresh, TickNear
<1> QED
  BY <1>2, <1>3, <1>4, <1>5, <1>6, <1>7, <1>8, <1>9 DEF Next, Clock, ScanOnce

LEMMA WrittenBeforeKept == TypeOK /\ WrittenBefore /\ [Next]_vars => WrittenBefore'
<1> SUFFICES ASSUME TypeOK, WrittenBefore, [Next]_vars PROVE WrittenBefore'
  OBVIOUS
<1>1. ShareOK
  BY TypeParts
<1>2. ASSUME NEW f \in Files, WriteFile(f) PROVE WrittenBefore'
  <2>1. /\ UNCHANGED << now, folders >> /\ FolderOf[f] \in folders
        /\ file' = [file EXCEPT ![f] = [size |-> file[f].size + 1, mtime |-> now]]
    BY <1>2 DEF WriteFile
  <2>2. file'[f].mtime = now /\ \A g \in Files \ {f} : file'[g] = file[g]
    BY <1>1, <2>1 DEF ShareOK
  <2> QED
    BY <1>1, <2>1, <2>2 DEF ShareOK, WrittenBefore
<1>3. CASE (\E d \in Folders : CreateFolder(d)) \/ (\E f \in Files : RemoveFile(f))
  BY <1>3 DEF CreateFolder, RemoveFile, WrittenBefore
<1>4. CASE Tick
  <2>1. UNCHANGED << folders, file >> /\ now' = now + 1
    BY <1>4 DEF Tick
  <2>2. \A f \in Files : file[f].mtime \in Nat
    BY <1>1 DEF ShareOK, Stat
  <2> QED
    BY <1>1, <2>1, <2>2 DEF ShareOK, WrittenBefore
<1>5. CASE IndexerSide \/ UNCHANGED vars
  BY <1>5, IndexerFrame DEF vars, shareVars, WrittenBefore
<1> QED
  BY <1>2, <1>3, <1>4, <1>5, NextSides DEF ShareSide, Protect

LEMMA NextClock == TypeOK /\ ClockInv /\ [Next]_vars => ClockInv'
BY ScanShortKept, TickNearKept, WrittenBeforeKept DEF ClockInv

-----------------------------------------------------------------------------
(* Then, where a file that is not in the table stands: the scan in progress will  *)
(* come to it, or the next one starts soon enough.                               *)

Trusted(f) == file[f].mtime + MinAge

Extra == faults * (Interval + ScanTime)

\* The latest the scan that indexes f starts.
StartBy(f) == Trusted(f) + Interval + ScanTime + Extra

Settled(f) == rows[f] = file[f] /\ (held # Nothing /\ held.file = f => held.info = file[f])

Ahead(f) ==
  \/ scan = "start"
  \/ scan = "walk" /\ \/ FolderOf[f] \in dirs \/ f \in entries
                      \/ held = [file |-> f, info |-> file[f]]

InScan(f) == Ahead(f) /\ Trusted(f) <= began /\ began <= StartBy(f)

AwaitedIdle(f) == scan = "off" /\ (tickAt <= StartBy(f) \/ (ticked = TRUE /\ now <= StartBy(f)))

\* Before the first scan of a process and the setting up have ended there is no ticker.
AwaitedFirst(f) ==
  scan # "off" /\ tickAt = Never /\ began + ScanTime + Interval <= StartBy(f)

AwaitedBusy(f) ==
  /\ scan # "off" /\ tickAt # Never
  /\ began + ScanTime <= StartBy(f) /\ (ticked = TRUE \/ tickAt <= StartBy(f))

Awaited(f) == AwaitedIdle(f) \/ AwaitedFirst(f) \/ AwaitedBusy(f)

Due == \A f \in Files \ Unparseable : Exists(f) => Settled(f) \/ InScan(f) \/ Awaited(f)

LEMMA Numbers ==
  ASSUME TypeOK, NEW f \in Files
  PROVE  /\ now \in Nat /\ began \in Nat /\ ScanTime \in Nat /\ Interval \in Nat /\ MinAge \in Nat
         /\ tickAt \in Nat \cup {Never} /\ Never \notin Nat
         /\ Trusted(f) \in Nat /\ Extra \in Nat
         /\ StartBy(f) \in Nat /\ Trusted(f) + Interval + ScanTime <= StartBy(f)
<1>1. file[f].mtime \in Nat /\ faults \in Nat
  BY DEF TypeOK, Stat
<1>2. Extra \in Nat
  BY <1>1, IndexerAssumption DEF Extra
<1> QED
  BY <1>1, <1>2, IndexerAssumption DEF TypeOK, Trusted, StartBy

\* A file left alone keeps its due time; a fault puts it off.
LEMMA StartByKept ==
  ASSUME TypeOK, NEW f \in Files, file'[f] = file[f]
  PROVE  /\ Trusted(f)' = Trusted(f)
         /\ UNCHANGED faults => StartBy(f)' = StartBy(f)
         /\ Fault => StartBy(f)' = StartBy(f) + Interval + ScanTime
<1>1. faults \in Nat /\ Interval + ScanTime \in Nat
  BY IndexerAssumption DEF TypeOK
<1>2. UNCHANGED faults => Extra' = Extra
  BY DEF Extra
<1>3. Fault => Extra' = Extra + Interval + ScanTime
  <2> SUFFICES ASSUME Fault PROVE Extra' = Extra + Interval + ScanTime
    OBVIOUS
  <2> DEFINE n == Interval + ScanTime
  <2>1. faults' = faults + 1 /\ Interval \in Nat /\ ScanTime \in Nat
    BY IndexerAssumption DEF Fault
  <2>2. (faults + 1) * n = faults * n + n
    BY <1>1
  <2> QED
    BY <2>1, <2>2, <1>1 DEF Extra
<1>4. Trusted(f)' = Trusted(f)
  BY DEF Trusted
<1> QED
  BY <1>2, <1>3, <1>4, Numbers DEF StartBy

LEMMA StartByGrows ==
  ASSUME TypeOK, NEW f \in Files, file'[f] = file[f], Fault \/ UNCHANGED faults
  PROVE  Trusted(f)' = Trusted(f) /\ StartBy(f)' \in Nat /\ StartBy(f) <= StartBy(f)'
BY StartByKept, Numbers, IndexerAssumption

\* A file that is not settled is not overdue by more than a scan.
LEMMA NotOverdue ==
  ASSUME TypeOK, ClockInv, NEW f \in Files, InScan(f) \/ Awaited(f)
  PROVE  now <= StartBy(f) + ScanTime
<1> USE Numbers
<1>1. CASE InScan(f)
  <2>1. scan # "off"
    BY <1>1 DEF InScan, Ahead
  <2> QED
    BY <1>1, <2>1 DEF InScan, ClockInv, ScanShort
<1>2. CASE AwaitedIdle(f)
  BY <1>2 DEF AwaitedIdle, ClockInv, TickNear
<1>3. CASE AwaitedFirst(f) \/ AwaitedBusy(f)
  BY <1>3 DEF AwaitedFirst, AwaitedBusy, ClockInv, ScanShort
<1> QED
  BY <1>1, <1>2, <1>3 DEF Awaited

Promised(f) == Settled(f) \/ InScan(f) \/ Awaited(f)

\* Only Protect unsettles a file.
LEMMA SettledKept ==
  ASSUME TypeOK, NEW f \in Files, Settled(f), [Next]_vars, file'[f] = file[f]
  PROVE  Settled(f)'
<1>1. ASSUME UNCHANGED << rows, held >> PROVE Settled(f)'
  BY <1>1 DEF Settled
<1>2. CASE TableSide \/ UNCHANGED vars \/ (\E d \in dirs : ReadFolder(d))
  BY <1>1, <1>2, TableFrame DEF vars, tableVars, scanVars, ReadFolder
<1>3. ASSUME NEW g \in entries, Examine(g) PROVE Settled(f)'
  BY <1>3 DEF Examine, Settled
<1>4. CASE UpsertClip
  BY <1>4 DEF UpsertClip, Settled, TypeOK
<1>5. CASE Restart
  BY <1>5 DEF Restart, Fresh, Settled
<1> QED
  BY <1>2, <1>3, <1>4, <1>5, NextSides DEF TableSide, IndexerSide, ScanOnce

\* Awaited depends on the clock, the timers, and whether a scan is in progress.
LEMMA AwaitedFrame ==
  ASSUME TypeOK, NEW f \in Files, Awaited(f), file'[f] = file[f],
         UNCHANGED << now, tickAt, ticked, began, faults >>, (scan = "off") <=> (scan' = "off")
  PROVE  Awaited(f)'
BY StartByKept DEF Awaited, AwaitedIdle, AwaitedFirst, AwaitedBusy

\* Protect's steps, and time, change nothing for the files they leave alone.
LEMMA ShareKeepsPromise ==
  ASSUME TypeOK, NEW f \in Files, InScan(f) \/ Awaited(f), ShareSide, file'[f] = file[f]
  PROVE  Promised(f)'
<1>1. /\ UNCHANGED << scan, began, dirs, entries, held, faults, tickAt, ticked >>
      /\ Trusted(f)' = Trusted(f) /\ StartBy(f)' = StartBy(f)
  BY ShareFrame, StartByKept
<1>2. InScan(f) => InScan(f)'
  BY <1>1 DEF InScan, Ahead
<1>3. AwaitedFirst(f) \/ AwaitedBusy(f) => Awaited(f)'
  BY <1>1 DEF Awaited, AwaitedFirst, AwaitedBusy
<1>4. CASE Tick /\ AwaitedIdle(f)
  <2>1. ticked # TRUE
    BY <1>4 DEF Tick, AwaitedIdle, Receivable
  <2> QED
    BY <1>1, <1>4, <2>1 DEF AwaitedIdle, Awaited, Promised
<1>5. CASE Protect /\ AwaitedIdle(f)
  <2>1. now' = now
    BY <1>5 DEF Protect, CreateFolder, WriteFile, RemoveFile
  <2> QED
    BY <1>1, <1>5, <2>1 DEF AwaitedIdle, Awaited, Promised
<1> QED
  BY <1>2, <1>3, <1>4, <1>5 DEF ShareSide, Awaited, Promised

LEMMA TimersKeepPromise ==
  ASSUME TypeOK, ClockInv, NEW f \in Files, InScan(f) \/ Awaited(f), file'[f] = file[f],
         TickerFires \/ DebounceFires \/ (\E n \in notices : ReceiveNotice(n)) \/ NoticesLost
  PROVE  Promised(f)'
<1> USE Numbers
<1>0. Fault \/ UNCHANGED faults
  BY DEF TickerFires, DebounceFires, ReceiveNotice, NoticesLost
<1>1. /\ UNCHANGED << now, scan, began, dirs, entries, held >>
      /\ \/ UNCHANGED << tickAt, ticked >>
         \/ tickAt = now /\ tickAt' = now + Interval /\ ticked' = TRUE
      /\ Trusted(f)' = Trusted(f) /\ StartBy(f)' \in Nat /\ StartBy(f) <= StartBy(f)'
  BY <1>0, StartByGrows DEF TickerFires, DebounceFires, ReceiveNotice, NoticesLost, timerVars, scanVars
<1>2. InScan(f) => InScan(f)'
  BY <1>1 DEF InScan, Ahead
<1>3. AwaitedIdle(f) => Awaited(f)'
  BY <1>1 DEF ClockInv, TickNear, AwaitedIdle, Awaited
<1>4. AwaitedFirst(f) => Awaited(f)'
  BY <1>1 DEF AwaitedFirst, Awaited
<1>5. AwaitedBusy(f) => Awaited(f)'
  BY <1>1 DEF AwaitedBusy, Awaited
<1> QED
  BY <1>2, <1>3, <1>4, <1>5 DEF Awaited, Promised

\* A scan that starts once a file is trusted is one that comes to it.
LEMMA StartKeepsPromise ==
  ASSUME TypeOK, ClockInv, NEW f \in Files, InScan(f) \/ Awaited(f), file'[f] = file[f],
         ReceiveTick \/ ReceiveDebounce
  PROVE  Promised(f)'
<1> USE Numbers
<1>1. /\ scan = "off" /\ scan' = "start" /\ began' = now /\ UNCHANGED << now, tickAt, faults >>
      /\ Trusted(f)' = Trusted(f) /\ StartBy(f)' = StartBy(f)
  BY StartByKept DEF ReceiveTick, ReceiveDebounce, Idle, StartScan
<1>2. now <= StartBy(f)
  BY <1>1 DEF InScan, Ahead, Awaited, AwaitedIdle, AwaitedFirst, AwaitedBusy, ClockInv, TickNear
<1>3. CASE Trusted(f) <= now
  BY <1>1, <1>2, <1>3 DEF InScan, Ahead, Promised
<1>4. CASE now < Trusted(f)
  BY <1>1, <1>4 DEF ClockInv, TickNear, AwaitedBusy, Awaited, Promised
<1> QED
  BY <1>3, <1>4

LEMMA WalkKeepsPromise ==
  ASSUME TypeOK, ClockInv, NEW f \in Files \ Unparseable, Exists(f), InScan(f) \/ Awaited(f),
         file'[f] = file[f],
         ReadRoot \/ (\E d \in dirs : ReadFolder(d)) \/ (\E g \in entries : Examine(g)) \/ UpsertClip,
         UNCHANGED faults
  PROVE  Promised(f)'
<1> USE Numbers
<1>1. /\ UNCHANGED << now, tickAt, ticked, began >> /\ scan' # "off" /\ scan # "off"
      /\ Trusted(f)' = Trusted(f) /\ StartBy(f)' = StartBy(f)
  BY StartByKept DEF ReadRoot, ReadFolder, Examine, UpsertClip, timerVars, TypeOK
<1>2. Awaited(f) => Awaited(f)'
  BY <1>1, AwaitedFrame
<1>3. CASE InScan(f)
  <2>1. Ahead(f)' \/ Settled(f)'
    <3>1. CASE ReadRoot
      BY <3>1 DEF ReadRoot, Ahead, ClockInv, WrittenBefore, Exists
    <3>2. ASSUME NEW d \in dirs, ReadFolder(d) PROVE Ahead(f)'
      <4>1. /\ scan = "walk" /\ scan' = "walk" /\ dirs' = dirs \ {d} /\ entries = {}
            /\ held = Nothing /\ held' = held
            /\ entries' = {g \in Files : FolderOf[g] = d /\ Exists(g)}
        BY <3>2 DEF ReadFolder, Fault, TypeOK
      <4>2. held # [file |-> f, info |-> file[f]]
        BY <4>1, IndexerAssumption DEF TypeOK, Stat
      <4> QED
        BY <1>3, <3>2, <4>1, <4>2 DEF InScan, Ahead
    <3>3. ASSUME NEW g \in entries, Examine(g) PROVE Ahead(f)'
      <4>1. /\ scan = "walk" /\ scan' = "walk" /\ dirs' = dirs /\ held = Nothing
            /\ entries' = entries \ {g}
            /\ g = f /\ ~Young(f) => held' = [file |-> f, info |-> file[f]]
        BY <3>3 DEF Examine, TypeOK
      <4>2. held # [file |-> f, info |-> file[f]]
        BY <4>1, IndexerAssumption DEF TypeOK, Stat
      <4>3. ~Young(f)
        BY <1>3, <4>1 DEF InScan, ClockInv, ScanShort, Young, Trusted
      <4> QED
        BY <1>3, <4>1, <4>2, <4>3 DEF InScan, Ahead
    <3>4. CASE UpsertClip
      <4>1. /\ scan = "walk" /\ UNCHANGED << scan, dirs, entries >> /\ held' = Nothing
            /\ rows' = [rows EXCEPT ![held.file] = held.info]
        BY <3>4 DEF UpsertClip, Fault, TypeOK
      <4>2. CASE held = [file |-> f, info |-> file[f]]
        BY <4>1, <4>2 DEF Settled, TypeOK
      <4> QED
        BY <1>3, <4>1, <4>2 DEF InScan, Ahead
    <3> QED
      BY <3>1, <3>2, <3>3, <3>4
  <2> QED
    BY <1>1, <1>3, <2>1 DEF InScan, Promised
<1> QED
  BY <1>2, <1>3 DEF Promised

LEMMA EndKeepsPromise ==
  ASSUME TypeOK, ClockInv, NEW f \in Files, InScan(f) \/ Awaited(f), file'[f] = file[f], ScanDone
  PROVE  Promised(f)'
<1> USE Numbers
<1>1. /\ scan = "walk" /\ scan' = (IF tickAt = Never THEN "watch" ELSE "off")
      /\ dirs = {} /\ entries = {} /\ held = Nothing
      /\ UNCHANGED << now, tickAt, ticked, began, faults >>
      /\ Trusted(f)' = Trusted(f) /\ StartBy(f)' = StartBy(f)
  BY StartByKept DEF ScanDone, ScanEnds, timerVars
<1>2. ~Ahead(f)
  BY <1>1, IndexerAssumption DEF Ahead, TypeOK, Stat
<1>3. AwaitedFirst(f) => Awaited(f)'
  BY <1>1 DEF AwaitedFirst, Awaited
<1>4. AwaitedBusy(f) => Awaited(f)'
  BY <1>1 DEF AwaitedBusy, Awaited, AwaitedIdle, ClockInv, ScanShort
<1> QED
  BY <1>1, <1>2, <1>3, <1>4 DEF InScan, Awaited, AwaitedIdle, Promised

\* While the watcher is set up every file waits for the ticker.
LEMMA SetUpKeepsPromise ==
  ASSUME TypeOK, ClockInv, NEW f \in Files, InScan(f) \/ Awaited(f), file'[f] = file[f], SetUp
  PROVE  Promised(f)'
<1> USE Numbers
<1>1. scan \in {"watch", "list", "add"} /\ UNCHANGED << now, began >> /\ (Fault \/ UNCHANGED faults)
  BY DEF SetUp, WatchRoot, ListFolders, AddFolder, AllAdded
<1>2. \/ scan' = "off" /\ tickAt' = now + Interval
      \/ scan' # "off" /\ tickAt' = tickAt
  BY <1>1 DEF SetUp, WatchRoot, ListFolders, AddFolder, AllAdded, StartTicker, Setting, timerVars
<1>3. AwaitedFirst(f)
  BY <1>1 DEF InScan, Ahead, Awaited, AwaitedIdle, AwaitedBusy, ClockInv, TickNear
<1>4. StartBy(f)' \in Nat /\ StartBy(f) <= StartBy(f)'
  BY <1>1, StartByGrows
<1>5. now <= began + ScanTime
  BY <1>1 DEF ClockInv, ScanShort
<1> QED
  BY <1>1, <1>2, <1>3, <1>4, <1>5 DEF AwaitedFirst, AwaitedIdle, Awaited, Promised

\* What a failed call loses is made up for by the extra time the fault allows.
LEMMA FaultKeepsPromise ==
  ASSUME TypeOK, ClockInv, NEW f \in Files, InScan(f) \/ Awaited(f), file'[f] = file[f], Fault,
         \/ ReadRootFails \/ (\E d \in dirs : ReadFolder(d)) \/ UpsertClip \/ Restart
  PROVE  Promised(f)'
<1> USE Numbers
<1>1. /\ now' = now /\ Trusted(f)' = Trusted(f)
      /\ StartBy(f)' = StartBy(f) + Interval + ScanTime /\ now <= StartBy(f) + ScanTime
  BY StartByKept, NotOverdue DEF ReadRootFails, ReadFolder, UpsertClip, Restart
<1>2. CASE ReadRootFails
  <2>1. /\ scan = "start" /\ UNCHANGED << tickAt, ticked, began >>
        /\ scan' = IF tickAt = Never THEN "watch" ELSE "off"
    BY <1>2 DEF ReadRootFails, ScanEnds, timerVars
  <2>2. began <= StartBy(f)
    BY <2>1 DEF InScan, Awaited, AwaitedIdle, AwaitedFirst, AwaitedBusy
  <2>3. CASE tickAt = Never
    BY <1>1, <2>1, <2>2, <2>3 DEF AwaitedFirst, Awaited, Promised
  <2>4. CASE tickAt # Never
    BY <1>1, <2>1, <2>4 DEF ClockInv, TickNear, AwaitedIdle, Awaited, Promised
  <2> QED
    BY <2>3, <2>4
<1>3. CASE (\E d \in dirs : ReadFolder(d)) \/ UpsertClip
  <2>1. scan # "off" /\ UNCHANGED << scan, began, tickAt, ticked >>
    BY <1>3 DEF ReadFolder, UpsertClip, timerVars, TypeOK
  <2>2. began <= StartBy(f)
    BY <2>1 DEF InScan, Awaited, AwaitedIdle, AwaitedFirst, AwaitedBusy
  <2>3. CASE tickAt = Never
    BY <1>1, <2>1, <2>2, <2>3 DEF AwaitedFirst, Awaited, Promised
  <2>4. CASE tickAt # Never
    BY <1>1, <2>1, <2>2, <2>4 DEF ClockInv, ScanShort, TickNear, AwaitedBusy, Awaited, Promised
  <2> QED
    BY <2>3, <2>4
<1>4. CASE Restart
  <2>1. scan' = "start" /\ began' = now /\ tickAt' = Never
    BY <1>4 DEF Restart, Fresh
  <2>2. CASE Trusted(f) <= now
    BY <1>1, <2>1, <2>2 DEF InScan, Ahead, Promised
  <2>3. CASE now < Trusted(f)
    BY <1>1, <2>1, <2>3 DEF AwaitedFirst, Awaited, Promised
  <2> QED
    BY <2>2, <2>3
<1> QED
  BY <1>2, <1>3, <1>4

\* Whoever writes a file makes it young again.
LEMMA WriteKeepsPromise ==
  ASSUME TypeOK, ClockInv, NEW f \in Files, WriteFile(f)
  PROVE  Promised(f)'
<1> USE IndexerAssumption
<1>1. Trusted(f)' = now + MinAge /\ UNCHANGED << now, scan, began, tickAt, ticked, faults >>
  BY DEF WriteFile, Trusted, TypeOK, timerVars, scanVars
<1>2. StartBy(f)' = now + MinAge + Interval + ScanTime + Extra
  BY <1>1 DEF StartBy, Extra
<1>3. CASE scan = "off"
  BY <1>1, <1>2, <1>3, Numbers DEF ClockInv, TickNear, AwaitedIdle, Awaited, Promised
<1>4. CASE scan # "off" /\ tickAt = Never
  BY <1>1, <1>2, <1>4, Numbers DEF ClockInv, ScanShort, AwaitedFirst, Awaited, Promised
<1>5. CASE scan # "off" /\ tickAt # Never
  BY <1>1, <1>2, <1>5, Numbers DEF ClockInv, ScanShort, TickNear, AwaitedBusy, Awaited, Promised
<1> QED
  BY <1>3, <1>4, <1>5

LEMMA NextDue == TypeOK /\ ClockInv /\ Due /\ [Next]_vars => Due'
<1> SUFFICES ASSUME TypeOK, ClockInv, Due, [Next]_vars, NEW f \in Files \ Unparseable, Exists(f)'
             PROVE  Promised(f)'
  BY DEF Due, Promised
<1>1. CASE WriteFile(f)
  BY <1>1, WriteKeepsPromise
<1>2. CASE ~WriteFile(f)
  <2>1. file'[f] = file[f] /\ Exists(f)
    <3>1. ASSUME NEW g \in Files \ {f}, WriteFile(g) PROVE file'[f] = file[f] /\ Exists(f)
      BY <3>1 DEF WriteFile, Exists
    <3>2. ASSUME ~\E g \in Files : WriteFile(g) PROVE file'[f] = file[f] /\ Exists(f)
      BY <3>2, NextSides, IndexerFrame
         DEF ShareSide, Protect, CreateFolder, RemoveFile, Tick, vars, shareVars, Exists
    <3> QED
      BY <1>2, <3>1, <3>2
  <2>2. Promised(f)
    BY <2>1 DEF Due, Promised
  <2>3. CASE Settled(f)
    BY <2>1, <2>3, SettledKept DEF Promised
  <2>4. CASE InScan(f) \/ Awaited(f)
    <3>1. CASE ShareSide
      BY <2>1, <2>4, <3>1, ShareKeepsPromise
    <3>2. CASE TickerFires \/ DebounceFires \/ (\E n \in notices : ReceiveNotice(n)) \/ NoticesLost
      BY <2>1, <2>4, <3>2, TimersKeepPromise
    <3>3. CASE ReceiveTick \/ ReceiveDebounce
      BY <2>1, <2>4, <3>3, StartKeepsPromise
    <3>4. CASE /\ \/ ReadRoot \/ (\E d \in dirs : ReadFolder(d))
                  \/ (\E g \in entries : Examine(g)) \/ UpsertClip
               /\ UNCHANGED faults
      BY <2>1, <2>4, <3>4, WalkKeepsPromise
    <3>5. CASE ScanDone
      BY <2>1, <2>4, <3>5, EndKeepsPromise
    <3>6. CASE /\ ReadRootFails \/ (\E d \in dirs : ReadFolder(d)) \/ UpsertClip \/ Restart
               /\ Fault
      BY <2>1, <2>4, <3>6, FaultKeepsPromise
    <3>7. CASE UNCHANGED vars
      <4>1. InScan(f) => InScan(f)'
        BY <2>1, <3>7, StartByKept DEF vars, scanVars, InScan, Ahead
      <4>2. Awaited(f) => Awaited(f)'
        BY <2>1, <3>7, AwaitedFrame DEF vars, scanVars, timerVars
      <4> QED
        BY <2>4, <4>1, <4>2 DEF Promised
    <3>8. ASSUME NEW d \in dirs, ReadFolder(d) PROVE Fault \/ UNCHANGED faults
      BY <3>8 DEF ReadFolder
    <3>9. UpsertClip => Fault \/ UNCHANGED faults
      BY DEF UpsertClip
    <3>10. ReadRoot \/ (\E g \in entries : Examine(g)) => UNCHANGED faults
      BY DEF ReadRoot, Examine
    <3>11. ReadRootFails \/ Restart => Fault
      BY DEF ReadRootFails, Restart
    <3>12. CASE SetUp
      BY <2>1, <2>4, <3>12, SetUpKeepsPromise
    <3> QED
      BY <3>1, <3>2, <3>3, <3>4, <3>5, <3>6, <3>7, <3>8, <3>9, <3>10, <3>11, <3>12, NextSides
         DEF IndexerSide, Loop, ScanOnce
  <2> QED
    BY <2>2, <2>3, <2>4 DEF Promised
<1> QED
  BY <1>1, <1>2

LEMMA DueInTime == TypeOK /\ ClockInv /\ Due => IndexedInTime
<1> SUFFICES ASSUME TypeOK, ClockInv, Due, NEW f \in Files \ Unparseable,
                    Exists(f), now > file[f].mtime + Delay
             PROVE  rows[f] = file[f]
  BY DEF IndexedInTime
<1>1. InScan(f) \/ Awaited(f) => now <= StartBy(f) + ScanTime
  BY NotOverdue
<1>2. StartBy(f) + ScanTime = file[f].mtime + Delay
  BY IndexerAssumption DEF StartBy, Trusted, Extra, Delay, TypeOK, Stat
<1>3. file[f].mtime + Delay \in Nat
  BY <1>2, Numbers
<1>4. Settled(f)
  BY <1>1, <1>2, <1>3, Numbers DEF Due
<1> QED
  BY <1>4 DEF Settled

-----------------------------------------------------------------------------
(* The variables keep their shape, and no unparseable file gets a row (TypeOK;   *)
(* scanOnce).                                                               *)
THEOREM TypeCorrect == Spec => []TypeOK
BY InitTypeOK, NextTypeOK, PTL DEF Spec

(* Only a file Protect paused on for MinAge is ever indexed unfinished           *)
(* (RowsWhole; scanOnce's age check).                                          *)
THEOREM UnfinishedOnlyIfPaused == Spec => []RowsWhole
<1>1. WholeInv => RowsWhole
  BY DEF WholeInv
<1> QED
  BY InitTypeOK, NextTypeOK, InitWhole, NextWhole, <1>1, PTL DEF Spec

(* With a watcher set up and nothing left to receive, every day folder is watched  *)
(* but those a call has failed for, whenever it was created (FoldersWatched;       *)
(* watchTree, Run).                                                           *)
THEOREM NoFolderOverlooked == Spec => []FoldersWatched
<1>1. Reported => FoldersWatched
  BY DEF Reported, FoldersWatched
<1> QED
  BY InitTypeOK, NextTypeOK, InitReported, NextReported, <1>1, PTL DEF Spec

(* However scans, timers, writes, failures and restarts interleave, a file is      *)
(* indexed as it is on disk within Delay of its last write (IndexedInTime; Run,    *)
(* scanOnce).                                                               *)
THEOREM FilesIndexedInTime == Spec => []IndexedInTime
<1>1. Init => Due
  BY DEF Init, Due, Exists
<1> QED
  BY InitTypeOK, NextTypeOK, InitClock, NextClock, <1>1, NextDue, DueInTime, PTL DEF Spec
=============================================================================
