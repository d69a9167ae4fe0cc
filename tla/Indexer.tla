------------------------------- MODULE Indexer -------------------------------
(***************************************************************************)
(* The indexer.  One goroutine selects on a ticker, on fsnotify and on a    *)
(* debounce timer, and scans the export tree: it lists the day folders,     *)
(* lists each one's files, and upserts a row for every file that has been    *)
(* left alone for MinAge.  Protect writes new files all the while, old ones  *)
(* are removed by its retention, and the process may restart.                *)
(*                                                                         *)
(* A step is one call on the file system or the database, or one case of     *)
(* the select.  The clock is discrete.  It does not move past a timer that   *)
(* is due or a loop that has something to receive, and a scan takes at most  *)
(* ScanTime.                                                                *)
(***************************************************************************)
EXTENDS Naturals, FiniteSets

CONSTANTS
  Files,          \* clip files, each with a name of its own
  Folders,        \* day folders
  FolderOf,       \* [Files -> Folders]
  Unparseable,    \* files whose names filenameparse.Parse rejects
  Full,           \* a file's size when Protect has finished it
  MinAge,         \* minAge
  Debounce,       \* the quiet period after fsnotify events
  Interval,       \* INDEX_INTERVAL
  ScanTime,       \* the longest a scan takes, the first with the setting up after it
  MaxTime,        \* bound on the clock
  ExportEnd,      \* bound: Protect writes nothing after this
  MaxFaults,      \* bound on failed calls and restarts
  Root,           \* the export's root directory
  NoRow, Never, Nothing

ASSUME IndexerAssumption ==
  /\ FolderOf \in [Files -> Folders] /\ Unparseable \subseteq Files
  /\ Full \in Nat \ {0}
  /\ MinAge \in Nat \ {0} /\ Debounce \in Nat /\ ScanTime \in Nat
  /\ Interval \in Nat \ {0}                  \* NewTicker panics otherwise
  /\ MaxTime \in Nat /\ MaxFaults \in Nat /\ ExportEnd \in Nat
  /\ Root \notin Folders
  /\ NoRow \notin [size : Nat, mtime : Nat]
  /\ Never \notin Nat /\ Nothing \notin [file : Files, info : [size : Nat, mtime : Nat]]

VARIABLES
  now,
  folders,    \* day folders that exist
  file,       \* [Files -> [size, mtime]]; size 0: not there yet
  gone,       \* files that have been removed
  paused,     \* files Protect left unfinished for MinAge or longer at some time
  rows,       \* table clips: [Files -> [size, mtime] or NoRow]
  warned,     \* Indexer.warnedUnparseable
  watched,    \* directories fsnotify watches
  notices,    \* fsnotify events not yet received: new folders, written files
  missed,     \* history: folders this process failed to list, look at or watch
  alarm,      \* when the debounce timer fires, or Never
  rings,      \* timer callbacks blocked on sending to debounceC
  tickAt,     \* when the ticker fires next
  ticked,     \* is there a tick in the ticker's channel?
  scan,       \* scanOnce: "off", "start", "walk"; setting up: "watch", "list", "add"
  began,      \* when the scan began
  dirs,       \* scanOnce, watchTree: folders listed and not yet read or added
  entries,    \* scanOnce: files listed and not yet examined
  held,       \* scanOnce: the clip about to be upserted, or Nothing
  faults

shareVars == << folders, file, gone, paused >>
timerVars == << alarm, rings, tickAt, ticked >>
watchVars == << watched, notices, missed >>
scanVars  == << scan, began, dirs, entries, held >>
tableVars == << rows, warned >>
vars == << now, shareVars, tableVars, watchVars, timerVars, scanVars, faults >>

Exists(f)   == file[f].size > 0 /\ f \notin gone
Complete(f) == file[f].size = Full
Fault       == faults < MaxFaults /\ faults' = faults + 1

\* Run scans at once; the watcher and the ticker are only set up afterwards.
Fresh ==
  /\ scan' = "start" /\ began' = now
  /\ dirs' = {} /\ entries' = {} /\ held' = Nothing
  /\ watched' = {} /\ notices' = {} /\ missed' = {}
  /\ alarm' = Never /\ rings' = 0 /\ tickAt' = Never /\ ticked' = FALSE
  /\ warned' = {}

Init ==
  /\ now = 0
  /\ folders = {} /\ gone = {} /\ paused = {}
  /\ file = [f \in Files |-> [size |-> 0, mtime |-> 0]]
  /\ rows = [f \in Files |-> NoRow] /\ warned = {}
  /\ watched = {} /\ notices = {} /\ missed = {}
  /\ alarm = Never /\ rings = 0 /\ tickAt = Never /\ ticked = FALSE
  /\ scan = "start" /\ began = 0 /\ dirs = {} /\ entries = {} /\ held = Nothing
  /\ faults = 0

-----------------------------------------------------------------------------
(* Protect, and whoever else changes the share. *)

Notify(dir, what) == notices' = IF dir \in watched THEN notices \cup {what} ELSE notices

CreateFolder(d) ==
  /\ d \notin folders /\ now <= ExportEnd
  /\ folders' = folders \cup {d}
  /\ Notify(Root, d)
  /\ UNCHANGED << now, file, gone, paused, tableVars, watched, missed, timerVars, scanVars, faults >>

WriteFile(f) ==
  /\ FolderOf[f] \in folders /\ f \notin gone
  /\ ~Complete(f) /\ now <= ExportEnd
  /\ file' = [file EXCEPT ![f] = [size |-> file[f].size + 1, mtime |-> now]]
  /\ Notify(FolderOf[f], f)
  /\ UNCHANGED << now, folders, gone, paused, tableVars, watched, missed, timerVars, scanVars, faults >>

\* Retention; fsnotify's Remove is not among the events the loop reacts to.
RemoveFile(f) ==
  /\ Exists(f) /\ Complete(f)
  /\ gone' = gone \cup {f}
  /\ UNCHANGED << now, folders, file, paused, tableVars, watchVars, timerVars, scanVars, faults >>

-----------------------------------------------------------------------------
(* Time and the timers. *)

Receivable == ticked \/ rings > 0 \/ notices # {}

Tick ==
  /\ now < MaxTime
  /\ now \notin {alarm, tickAt}
  /\ IF scan = "off" THEN ~Receivable ELSE now < began + ScanTime
  /\ now' = now + 1
  /\ paused' = paused \cup {f \in Files : /\ Exists(f) /\ ~Complete(f)
                                          /\ now + 1 >= file[f].mtime + MinAge}
  /\ UNCHANGED << folders, file, gone, tableVars, watchVars, timerVars, scanVars, faults >>

\* The channel of a time.Ticker holds one tick.
TickerFires ==
  /\ tickAt = now
  /\ tickAt' = now + Interval
  /\ ticked' = TRUE
  /\ UNCHANGED << now, shareVars, tableVars, watchVars, alarm, rings, scanVars, faults >>

\* The callback blocks until the loop receives from debounceC.
DebounceFires ==
  /\ alarm = now
  /\ alarm' = Never
  /\ rings' = rings + 1
  /\ UNCHANGED << now, shareVars, tableVars, watchVars, tickAt, ticked, scanVars, faults >>

-----------------------------------------------------------------------------
(* The select loop. *)

Idle == scan = "off"

StartScan == scan' = "start" /\ began' = now /\ UNCHANGED << dirs, entries, held >>

\* The scan in a goroutine of its own, whether or not one is running.
ConcurrentReceiveTick ==
  /\ ticked
  /\ ticked' = FALSE
  /\ StartScan
  /\ UNCHANGED << now, shareVars, tableVars, watchVars, alarm, rings, tickAt, faults >>

ReceiveTick ==
  /\ Idle /\ ticked
  /\ ticked' = FALSE
  /\ StartScan
  /\ UNCHANGED << now, shareVars, tableVars, watchVars, alarm, rings, tickAt, faults >>

ReceiveDebounce ==
  /\ Idle /\ rings > 0
  /\ rings' = rings - 1
  /\ StartScan
  /\ UNCHANGED << now, shareVars, tableVars, watchVars, alarm, tickAt, ticked, faults >>

\* The watcher.Add of new folders left out.
ReceiveUnwatched(n) ==
  /\ Idle /\ n \in notices
  /\ notices' = notices \ {n}
  /\ alarm' = now + Debounce
  /\ UNCHANGED << now, shareVars, tableVars, watched, missed, rings, tickAt, ticked, scanVars, faults >>

\* A new folder is watched from here on, unless Stat or Add fails; what was
\* written to it before this has gone unnoticed.
ReceiveNotice(n) ==
  /\ Idle /\ n \in notices
  /\ notices' = notices \ {n}
  /\ \/ watched' = watched \cup ({n} \cap Folders) /\ UNCHANGED << missed, faults >>
     \/ /\ n \in Folders /\ Fault
        /\ missed' = missed \cup {n} /\ UNCHANGED watched
  /\ alarm' = now + Debounce
  /\ UNCHANGED << now, shareVars, tableVars, rings, tickAt, ticked, scanVars >>

\* The kernel's queue overflows: events are lost, and the loop only logs it.
NoticesLost ==
  /\ Fault
  /\ \E lost \in SUBSET notices :
       /\ lost # {}
       /\ notices' = notices \ lost
       /\ missed' = missed \cup (lost \cap Folders)
  /\ UNCHANGED << now, shareVars, tableVars, watched, timerVars, scanVars >>

-----------------------------------------------------------------------------
(* scanOnce. *)

\* The first scan of a process is followed by the setting up of watcher and ticker.
ScanEnds == scan' = IF tickAt = Never THEN "watch" ELSE "off"

ReadRoot ==
  /\ scan = "start"
  /\ scan' = "walk" /\ dirs' = folders
  /\ UNCHANGED << now, shareVars, tableVars, watchVars, timerVars, began, entries, held, faults >>

ReadRootFails ==
  /\ scan = "start"
  /\ Fault
  /\ ScanEnds
  /\ UNCHANGED << now, shareVars, tableVars, watchVars, timerVars, began, dirs, entries, held >>

\* A folder that cannot be read is passed over.
ReadFolder(d) ==
  /\ scan = "walk" /\ entries = {} /\ held = Nothing /\ d \in dirs
  /\ dirs' = dirs \ {d}
  /\ \/ entries' = {f \in Files : FolderOf[f] = d /\ Exists(f)} /\ UNCHANGED faults
     \/ Fault /\ UNCHANGED entries
  /\ UNCHANGED << now, shareVars, tableVars, watchVars, timerVars, scan, began, held >>

\* The age check with the debounce period in place of minAge.
HastyYoung(f) == now < file[f].mtime + Debounce

Young(f) == now < file[f].mtime + MinAge

\* Info, the age check and Parse; a file may have been removed since it was listed.
Examine(f) ==
  /\ f \in entries /\ held = Nothing
  /\ entries' = entries \ {f}
  /\ IF ~Exists(f) \/ Young(f) \/ f \in Unparseable
     THEN UNCHANGED held
     ELSE held' = [file |-> f, info |-> file[f]]
  /\ UNCHANGED << now, shareVars, rows, watchVars, timerVars, scan, began, dirs, faults >>
  /\ warned' = IF Exists(f) /\ ~Young(f) THEN warned \cup ({f} \cap Unparseable) ELSE warned

\* Known files are left as they are.
InsertOnly ==
  /\ held # Nothing
  /\ held' = Nothing
  /\ rows' = IF rows[held.file] = NoRow THEN [rows EXCEPT ![held.file] = held.info] ELSE rows
  /\ UNCHANGED << now, shareVars, warned, watchVars, timerVars, scan, began, dirs, entries, faults >>

\* Size and mtime are what Info said; the file may have changed since.
UpsertClip ==
  /\ held # Nothing
  /\ held' = Nothing
  /\ \/ rows' = [rows EXCEPT ![held.file] = held.info] /\ UNCHANGED faults
     \/ Fault /\ UNCHANGED rows
  /\ UNCHANGED << now, shareVars, warned, watchVars, timerVars, scan, began, dirs, entries >>

ScanDone ==
  /\ scan = "walk" /\ dirs = {} /\ entries = {} /\ held = Nothing
  /\ ScanEnds
  /\ UNCHANGED << now, shareVars, tableVars, watchVars, timerVars, began, dirs, entries, held, faults >>

-----------------------------------------------------------------------------
(* Run after the first scan: NewWatcher, watchTree call by call, NewTicker.     *)

StartTicker ==
  /\ tickAt' = now + Interval /\ scan' = "off"
  /\ UNCHANGED << alarm, rings, ticked >>

Setting(step) == scan' = step /\ UNCHANGED timerVars

\* Without a watcher, or with one that has not got the root, the scans are left
\* to the ticker.
WatchRoot ==
  /\ scan = "watch"
  /\ \/ watched' = {Root} /\ Setting("list") /\ UNCHANGED faults
     \/ Fault /\ StartTicker /\ UNCHANGED watched
  /\ UNCHANGED << now, shareVars, tableVars, notices, missed, began, dirs, entries, held >>

\* If the root cannot be read, it alone is watched.
ListFolders ==
  /\ scan = "list"
  /\ \/ dirs' = folders /\ Setting("add") /\ UNCHANGED << missed, faults >>
     \/ /\ Fault /\ StartTicker /\ UNCHANGED dirs
        /\ missed' = missed \cup (folders \ notices)
  /\ UNCHANGED << now, shareVars, tableVars, watched, notices, began, entries, held >>

\* A folder that cannot be watched is passed over.
AddFolder(d) ==
  /\ scan = "add" /\ d \in dirs
  /\ dirs' = dirs \ {d}
  /\ \/ watched' = watched \cup {d} /\ UNCHANGED << missed, faults >>
     \/ Fault /\ missed' = missed \cup {d} /\ UNCHANGED watched
  /\ UNCHANGED << now, shareVars, tableVars, notices, timerVars, scan, began, entries, held >>

AllAdded ==
  /\ scan = "add" /\ dirs = {}
  /\ StartTicker
  /\ UNCHANGED << now, shareVars, tableVars, watchVars, began, dirs, entries, held, faults >>

\* The process dies and starts again; the table and the share remain.
Restart ==
  /\ Fault
  /\ Fresh
  /\ UNCHANGED << now, shareVars, rows >>

Protect ==
  \/ \E d \in Folders : CreateFolder(d)
  \/ \E f \in Files : WriteFile(f) \/ RemoveFile(f)

Clock == Tick \/ TickerFires \/ DebounceFires

Loop ==
  \/ ReceiveTick \/ ReceiveDebounce
  \/ \E n \in notices : ReceiveNotice(n)
  \/ NoticesLost

SetUp ==
  \/ WatchRoot \/ ListFolders
  \/ \E d \in dirs : AddFolder(d)
  \/ AllAdded

ScanOnce ==
  \/ ReadRoot \/ ReadRootFails
  \/ \E d \in dirs : ReadFolder(d)
  \/ \E f \in entries : Examine(f)
  \/ UpsertClip \/ ScanDone

Next == Protect \/ Clock \/ Loop \/ ScanOnce \/ SetUp \/ Restart

Spec == Init /\ [][Next]_vars

-----------------------------------------------------------------------------
Stat == [size : 0..Full, mtime : Nat]

\* The variables keep their shape; files are examined, and a clip is held, only
\* in a scan; an unparseable file never gets a row.
TypeOK ==
  /\ now \in Nat /\ faults \in Nat
  /\ folders \subseteq Folders /\ gone \subseteq Files /\ paused \subseteq Files
  /\ file \in [Files -> Stat]
  /\ rows \in [Files -> Stat \cup {NoRow}]
  /\ warned \subseteq Unparseable
  /\ watched \subseteq Folders \cup {Root} /\ notices \subseteq Folders \cup Files
  /\ missed \subseteq Folders
  /\ alarm \in Nat \cup {Never} /\ tickAt \in Nat \cup {Never}
  /\ rings \in Nat /\ ticked \in BOOLEAN
  /\ scan \in {"off", "start", "walk", "watch", "list", "add"} /\ began \in Nat
  /\ dirs \subseteq Folders /\ entries \subseteq Files
  /\ held \in [file : Files \ Unparseable, info : Stat] \cup {Nothing}
  /\ scan # "walk" => entries = {} /\ held = Nothing
  /\ scan \notin {"walk", "add"} => dirs = {}
  /\ \A f \in Unparseable : rows[f] = NoRow

\* A row that describes an unfinished file, which the page would list and play,
\* exists only if Protect paused for MinAge while writing it: the age check of
\* scanOnce tells finished files from files being written.
RowsWhole ==
  \A f \in Files : rows[f] # NoRow /\ rows[f].size < Full => f \in paused

\* However fsnotify, the debounce timer and the ticker interleave, a file is in
\* the table, as it is on disk, at most an interval and two scans after it is
\* old enough to be trusted, and another interval and scan for each failed call
\* or restart meanwhile (Run's select, scanOnce).
Delay == MinAge + Interval + 2 * ScanTime + faults * (Interval + ScanTime)

IndexedInTime ==
  \A f \in Files \ Unparseable :
    Exists(f) /\ now > file[f].mtime + Delay => rows[f] = file[f]

\* With a watcher set up, whatever Protect creates between its calls, no day
\* folder stays unwatched but one a call has failed for: once the loop has
\* received what fsnotify reported, it watches all others, those there at the
\* start and those created since (watchTree and the loop's watcher.Add).
FoldersWatched ==
  Root \in watched /\ scan \notin {"list", "add"} /\ notices = {}
    => folders \subseteq watched \cup missed
=============================================================================
