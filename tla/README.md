# Verification of unifi-protect-backup-viewer

TLA+ models, TLC runs and TLAPS proofs about the clip viewer in `src/`: a Go
server that indexes the clips a UniFi Protect NVR exports to a share, labels them
with what Protect detected, and serves them, transcoded, to a browser.

## The system

| Component | State | Operations | Hard behaviour | Correct when |
|---|---|---|---|---|
| Correlator, classifier (`correlate.go`) | camera directory in memory; otherwise the database | `OnEvent`, `RefreshCameraDirectory`, `classifyOnce` each minute, `Backfill` every 15 min | four goroutines interleave between SQL statements; lookups go stale before they are written | every label is justified; a clip is labelled in the end; the better source wins |
| Database (`db.go`) | tables `clips`, `events`; one connection | upserts, label updates, lookups, listings | upserts from several sources on one row; old rows overwrite newer ones | an upsert never loses what a better-informed writer stored |
| Event listener (`events.go`) | the WebSocket | `Listen`, `extractEvent` | lost messages, reconnects, events refined in stages | messages in order; unusable ones dropped |
| Legacy client (`legacy.go`) | session token, expiry | `Events`, `ensureLoggedIn`, `pickDetail` | expiry, invalidated sessions | history filtered and reduced like live events; a dead session costs one backfill |
| Detection types (`smartdetect.go`) | none | `PickPrimaryType` | several types at once, in any order | the most specific type is the headline |
| Indexer (`indexer.go`) | remembered warnings, timers, watched folders | scan, fsnotify with debounce, ticker | files still being written, folders appearing, deleted files | every finished file is indexed, as it is, in bounded time |
| File names (`parse.go`) | none | `Parse`, `NormalizeCameraName` | midnight, time zones, stripped characters | the clip's instants are read back; a camera has one key |
| Integration client (`client.go`) | none | one HTTP GET for the camera list | timeout | camera ids and names |
| Streamer (`stream.go`) | cache directory, lock per clip | `ServeProxy`, `transcode`, `CleanCache`, `ServeOriginal` | concurrent requests, crash during ffmpeg, cleaner beside both | only whole proxies served, made once, reclaimed |
| Thumbnails (`thumbnail.go`) | thumbnail files, `thumbnail_ready` | `RunPending`, `generate` | crash between file and flag, clips that always fail | flag implies file; every clip gets one |
| HTTP API (`api.go`) | none | list, thumbnail, stream, download | paging over a growing list | pages and filters complete; links keep working |
| Authentication (`auth.go`) | none (signed cookie) | login, logout, session check | expiry, restarts, removed users, field separators | whoever logged in and still exists is served, and nobody else |
| Configuration (`config.go`) | the environment | `Load`, `parseAuthUsers` | malformed values | no start without users and a secret |
| Lifecycle (`main.go`) | goroutines | start, `runPeriodically`, shutdown | signals at any time, requests and loops in progress | a signal always ends the process |
| Frontend (`app.js`, `login.js`) | menus, filters, list, open clip | fetch, choose, open, navigate, log in and out | responses out of order, errors in place of lists | what is shown matches the filters |

Interaction: indexer -> `clips` <- classifier, backfill; listener, backfill ->
`events` <- classifier, backfill; API -> streamer and thumbnail files. Components
share the database and the file system and call each other nowhere else, except
that the listener calls `OnEvent`, the backfill calls the legacy client, and all
share the context a signal cancels.

## Modules

| Module | Models | Role |
|---|---|---|
| `Detection` | the headline and the detail of a detection | operators |
| `ClipName` | times and camera keys in file names | operators |
| `MCFunctions` | inputs of both, built up piece by piece | compares the functions with what they are for |
| `Correlation` | indexer upserts, listener, classifier, backfill, directory, both tables | the core |
| `ClipLabels` | abstract: what a label may do | refined by `Correlation` |
| `MCCorrelation` | instances of `Correlation` | |
| `Indexer`, `MCIndexer` | the select loop with its timers and watcher, the scan, Protect's writing | when files get into the table |
| `LegacySession` | login, token, trust, expiry | run directly from its cfg |
| `Stream`, `MCStream` | `ServeProxy`, `transcode`, `CleanCache`, crash | the proxy cache |
| `ProxyCache` | abstract: when proxies are made, sent and removed | refined by `Stream` |
| `Thumbnail` | `RunPending`, `generate`, crash | run directly from its cfg |
| `Viewer`, `MCViewer` | listing and lookup, the page's fetches, list and player, a paging client | readers of a changing table |
| `Session`, `MCSession` | `Load`'s checks, login, cookie, gate, logout, the browser | access across restarts |
| `Lifecycle` | `run`, signals, shutdown, the listener's connection | run directly from its cfg |
| `CorrelationProofs`, `StreamProofs`, `IndexerProofs`, `LegacySessionProofs`, `LifecycleProofs`, `ThumbnailProofs`, `SessionProofs`, `ViewerProofs` | TLAPS proofs | see Proofs |

A few operators in these modules are variants of the one after them, with a
plausible mistake (`InsertOnly` before `UpsertClip`): no specification uses them;
they stand for the code the properties guard against, and each property has been
seen to fail with one of them in place.

### Correlation

One step is one SQL statement or network call. The database has a single
connection and no statement spans two steps of a caller, so statements are atomic
and activities interleave between them. `clips[p]` holds the label columns of a
row; `events[e]` the columns a lookup reads. The remaining variables are local
variables of the goroutines: `listener` is the message `OnEvent` works on, `cTodo`
and `cHeld` the rest of `UnclassifiedClips`' result and the label about to be
written, `bFetched`, `bTodo`, `bHeld` their counterparts in `Backfill` and
`reclassifyAllClips`. The label a lookup found is kept in `cHeld` or `bHeld` and is
therefore stale, possibly, when it is written: this is the behaviour the module is
about.

Protect is external. An event goes through `stages`; each has types, an end
(`NoEnd` while it lasts) and thumbnails. `Advance` makes the next stage known and
puts it on the `wire` of a connected listener; `History` returns the current
stage. A row of `events` is `EventRow` of some stage, read through the live
(`LiveReading`) or the history API (`HistoryReading`).

Times are small integers. Only `now >= end + Grace`, the overlap test with its
`Tolerance` and the duration limits look at them. Size, mtime, raw JSON and
received_at columns are left out: no label depends on them. The SQL `ORDER BY
start_ts DESC LIMIT 1` is a choice among the latest-starting matches.

`Restart` drops everything but the tables. A failed statement or request is a
fault and takes the branch the code takes on `err != nil`. A failed listing
(`UnclassifiedClips`, `EarliestNonProtectClipStart`) only ends the pass, which is
a stuttering step. The camera directory's contents do not change while the model
runs, only whether it has been loaded.

### Stream

`pc` follows a request for `clip[r]` through `ServeProxy`; every call on the cache
directory is a step. A file is whole or not, and `old` (not modified for a TTL) or
not. An open file survives the removal of its name. The lock is released when the body has
been sent, as the deferred `Unlock` does. `Age` assumes that a transcode (at most
10 minutes) and the three calls after it do not take a TTL (14 days by default), and
`Crash` that ffmpeg dies with the process, as in the container the project ships.

`ProxyCache` is what is left without files, locks and pcs: which clips have a whole
proxy, which of those are stale, what each request asked for and got, and whose own
proxy is still to be sent. Its requests are the slots of `Stream`; `Make` is the
rename, `Evict` the cleaner's removal, all else but `Serve`, `Refuse` and the
requests' coming and going happens unseen.

### Thumbnail

Clips are numbered by start time, so "newest first" is descending order.
`NewestFirst` and `AtMost` say what a listing is, as a set of sequences (here of one).
`Unreadable` clips are those ffmpeg never gets a frame from, such as clips whose
file is gone (the indexer keeps their rows); other failures are faults.

### Indexer

One step is a call on the file system or the database, a timer, or one case of
`Run`'s select. `scan` is the pc of `scanOnce`; `dirs`, `entries` and `held` are
what it has listed and not yet handled, and so possibly stale. `notices` are
fsnotify's events in its channel, `alarm` and `rings` the debounce timer and its
callbacks blocked on the channel, `ticked` the ticker's one-place channel. A new
folder is watched when its event is received; what was written to it before that
is not reported. The watcher is set up by `watchTree`'s calls one by one, with
Protect at work between them; each can fail, as can the `Stat` and the `Add` of a new
folder, and events can be lost with the kernel's queue. `missed` is a history variable:
the folders any of this has happened to in this process. `paused` is a history variable: files Protect stopped writing
to for `MinAge` before they were complete. A row holds the size and mtime that
`Info` returned; the name's parts are in `ClipName`, the labels in `Correlation`.

### LegacySession

`left` is what is left of the client's `expiry`, `life` of the session's at Protect;
a unit is the backfill's period, so that at most one boundary falls into a backfill.
The login has two steps, since Protect's session begins when it answers and the
client's trust when it has the headers. `Kill` is Protect ending a session early.

### Viewer

`rows` is the part of `clips` the page sees: ids, and the types a filter looks at.
Each of the two menus is asked for, answered and loaded in steps of its own, or fails;
`init` fetches a list only when both are there, while the chips can be used before.
A fetch is three steps: `fetchClips` puts the request on its way (`asked`), `Query`
answers it from the table as it is then, or with the error object that `handleListClips`
sends when its query fails, `Arrive` puts the answer on the screen: `list` may be
`Failure`, which has no cards (`Cards`) and no length to stop `Navigate`. Requests and
answers overtake one another, and `Lose` is a request no usable answer comes to. The
answer is any `Window` of any `NewestFirst` listing of what matches: the query orders by
start time only, so clips of one second come in any order, and in another for the next
query. `Choose` is any of the menus and chips; `list`, `modal` and `playing` are
`state.clips`, `state.modalIndex` and what the player was given. Another client pages
with limit and offset.

### Session

The environment, which the operator may change at any time, is read when the
process starts. The cookie is in the browser; `verify`, `valid`, `Public` and `LetIn`
are the gate. The two scripts act as the browser: a 401 leads to `/login`, a
successful login to `/`. A user name is the sequence of its parts between `|`. `login` is
a history variable: who logged in last in this browser, under which secret and how long
ago. It is what `Entitled` judges a request by, which the gate cannot see.

### Lifecycle

`main` follows `run` from its first goroutines to the process's exit; `shutdown`
is the goroutine that waits for the signal. Requests, loops and the listener end
with the process, wherever they are. Time only passes for the listener: `wait` is
what is left of a handshake, a pause or a dead connection's undetected life, `away` a
history variable, the time Protect has been reachable without being listened to. A
listener is `"deaf"` when its connection has died without a word: `connectAndRead` sets
no deadline and sends no ping, so it reads on until the kernel gives up (`Keepalive`,
external: Go's dialer switches TCP keepalive on by default), and that time counts as
`away`.

### ClipName

An instant is a number of hours. `Timestamp` is what Protect writes of it at an
offset; `parseTimestamp` is what the code reads. `Exported` is what the export
leaves of a camera's name (external), `TrimSpace` what the pattern takes of it. The
years are those clips can come from in which every fourth is a leap year, 2025 to
2099; the alphabet is a parameter, in which no character the export drops is a letter
of a key (`NormalizeCameraName` drops those above 127 before it looks for letters).
Lists are filtered by `Keep`, a recursive function, so that a proof can follow it.

## Runs

| Run | Shows |
|---|---|
| `live` | no backfill: every indexed clip is classified in the end, a label is given once and never changed (`ClipLabels` with `Correcting = FALSE`), rows only move forward, each activity handles one thing at a time; a clip whose match is stored before the classifier looks gets it, in spite of failed statements and restarts (`MatchBeatsGuess`) |
| `backfill` | every label is a single thing Protect said of an overlapping detection on the clip's camera; a clip that a detection covers ends up Protect-labelled, for good; on the way its label only changes as `ClipLabels` with `Correcting = TRUE` allows |
| `functions` | headline and detail against their definition; a clip's instants survive being written into its name and read back; a camera has one key whichever way its name comes |
| `stream` | only whole proxies are visible and sent; no transcode on a hit; no empty answer; a proxy is made where there is none, goes only when it is old, and survives a crash (`ProxyCache`); every request ends; leftovers of a crash are reclaimed |
| `thumbnail` | `thumbnail_ready` implies the file, across crashes; no thumbnail made twice; every readable clip gets a thumbnail while fewer than a batch are unreadable |
| `indexer` | a row describes an unfinished file only if Protect paused on it; every finished file is in the table, as it is on disk, within a bound; no folder stays unwatched but one a call has failed for |
| `viewer` | links of an old list lead to the clips they show; the answer to the last fetch is for the filters on the screen, whichever menus and answers fail (a day may be shown as chosen before its list is fetched, and for good when the cameras do not load); a client that pages misses no clip, though the list grows, unless another clip starts in the same second |
| `session` | a request is served only for a login that still counts: not too old, not logged out, of a user the process has, under its secret, across restarts, and for every such login if no name contains `\|`; no browser is sent in circles |
| `legacy_session` | a session ended early costs one backfill, a session's age none; fetching goes on |
| `lifecycle` | a signal ends the process, whenever it comes; a reachable console goes unheard for a bounded time only, dead connections included |

Two runs show a comment of the source that the code does not live up to:

* `end_lost`. A backfill that fetched an event while it was open stores it after the
  listener has stored its end, and reopens it; `db.go:341-342` says the row has the
  latest known type and detail.
* `separator`. A user whose name contains `|`, which `parseAuthUsers` accepts, can log in
  and is refused from then on, since `verify` cuts the cookie at its first `|`
  (`auth.go:137`); `auth.go:2-3` says that every configured user has full access.

### Observations

Seen while modelling. The models do what the code does here, unless an entry is about
something a model leaves out (see Not modelled).

Labels:

* A live update without metadata erases the plate or name a backfill stored
  (`db.go:358`); the next backfill brings it back to the row.
* A guess decided on earlier overwrites a match the backfill made meanwhile
  (`correlate.go:239`); the next backfill repairs it (`BackfillWins`). An event stored
  between the classifier's lookup and its guess comes too late as well, and without a
  backfill for good.
* The backfill's window starts at the earliest clip, a match tolerates an event
  that ended a little earlier: such an event is never fetched (`correlate.go:121`).
* A label given while an event was open stays when the event turns out to have
  ended before the clip began: `reclassifyAllClips` leaves a clip alone when nothing
  overlaps (`correlate.go:180`).
* `extractEvent` stores an event without `smartDetectTypes` under its raw type, where
  its comment (`events.go:120-123`) says such an event is skipped. The first stage
  of `Correlation`'s `e1` is such an event.
* `PruneOldEvents` is never called: an event whose end was lost keeps matching.

Files:

* The scan fsnotify triggers comes 10 s after the last write and finds the file too
  young; it is the ticker that indexes it (`indexer.go:84`).
* A file Protect pauses on for 30 s is indexed unfinished, corrected by a later
  scan; a proxy made meanwhile is not made again.
* Failures of `ReadDir`, `Add` and `Stat` while the watcher is set up or a folder appears
  are ignored (`indexer.go:106-107`, `126`, `131`), as are fsnotify's errors: such a
  folder is not watched until the process restarts, and only the ticker finds its files.
* Rows of deleted files stay (`indexer.go:168`). Their thumbnails fail again and again.
* When a batch of the newest clips is unreadable, all others wait for ever, and with
  one such clip `RunPending` never returns; it queries and retries without a pause
  (`thumbnail.go:40-41`).
* `CleanCache` goes by modification time, where its comment (`stream.go:165`) says
  last access: a proxy watched daily is transcoded again after a TTL.
* The cleaner may remove the temporary file of a transcode that has just begun to
  reuse an old one's name; the transcode then fails (`stream.go:181`).
* The clip's lock is held while the body is sent (`stream.go:108`), so a waiter waits
  for another client's download, not only for the transcode.
* Offsets that are not whole hours, and names made only of characters the export
  drops, do not parse; names that differ only in dropped characters share a key.
* An interval of `0s` panics `NewTicker`; values that do not parse silently become the
  default.

Viewers:

* An older answer that arrives after a newer one stays on the screen (`app.js:94`). An
  error answer takes the place of the list (`app.js:101`): the grid is empty, without a
  message, and in an open player prev and next move the index without end.
* When the list under an open player is replaced, prev and next go on from the old index
  in the new list (`app.js:185`).
* The menus are loaded only once. When the cameras fail to load, the day menu stands at
  the newest day while no list has been fetched (`app.js:222`).
* The page never asks for more than the newest 200 clips of a filter (`api.go:152`); a
  limit out of range silently becomes 200.
* With a type filter, clips that are relabelled while a client pages shift the list
  under it, and others are missed.
* Clips of different cameras often start in the same second, and their order is left
  open (`db.go:264`): from one page to the next two of them may change places, and one
  be missed.
* A password change does not end the sessions of that user.
* `/assets/` is served without a session, although the comment of `Routes` lists it
  among what needs one.

Process:

* `ListenAndServe` returns when `Shutdown` begins and nothing waits for it to end:
  requests in progress get no grace period, and the database is closed under them
  (`main.go:124`).
* The server listens only after the camera request has been answered or has timed
  out.
* A connection that dies without a word goes unnoticed until TCP keepalive ends it
  (`events.go:106`); events of that time are only had from a backfill.
* The backoff is doubled after every connection and never reset, and each connection
  leaves a goroutine behind until shutdown (`events.go:77`, `events.go:100`).

### Bounds

`MaxTime` of `Correlation` ends the clock after the last grace period that matters (in
`backfill` the second clip, of another camera, is listed when the first one's has passed,
and is never guessed). One event
has all three kinds of stage (unclassified, open, ended with a plate); the second
event of `live` overlaps the same clip and starts later, so the choice of a match and
the interleaving of two events' messages happen. Two clips are the least that make the
backfill window differ from a clip's start and let one pass hold stale data for
the second clip while it handles the first. The number of faults is bounded
(`MaxFaults`, `MaxCrashes`): one is enough for a loss or a restart at every point;
`thumbnail` takes two, so that a crash also meets what an earlier failure left.

`Stream` needs two requests, each for either of two clips: for the same clip they
compete for the lock; for different clips they leave the cleaner, which never finds
a clip's proxy beside its temporary file, more than one old file to work through
while they change the directory under it. `Thumbnail` uses batches
of two instead of twenty: what matters is whether the unreadable clips fill a batch.

`Indexer` has a file that parses and one that does not, in folders of their own, so
that one folder can be there at the start and the other appear later. A file takes
two writes. Protect writes until `ExportEnd`, and `MaxTime` leaves room for a fault
after that and for the whole of the bound `IndexedInTime` states, with that fault
counted in.

`Viewer` has either the page or the paging client in a behaviour, since neither changes
what the other sees. Two fetches are enough for answers out of order, two clips of
different cameras and days for a list that does not match, and an index of three for an
open player to leave the list there is. The client that pages has a third clip, of the
second of another, for pages that shift and for ties; the state constraint
`TwoClipsFetched` ends a behaviour where it appears while the page is fetching.
`Session`'s environments are every combination of five lists of users (a password
changed, a user removed, another one added, whose name has a separator in `separator` and
none in `session`, a malformed list, no users) and three secrets.
`LegacySession` counts failures up to one more than there can be
reasons for. `Lifecycle` lets the listener connect four times, which is enough to
reach the longest backoff and connect again after it; its keepalive is longer than its
handshake, as in the program.

`functions` takes up to three types out of seven (two that the table does not know),
two thumbnails, names of four out of six characters, and clips of up to three hours
that begin in any hour of the two days around a change of the clocks, the end of
the year and a leap day.

Deadlock is not checked where the bounds let a model stop (`Correlation`, `Stream`,
`Thumbnail`, `Indexer`), where there is nothing left to build (`functions`) or where
the process has exited (`Lifecycle`); it is checked in `viewer`, `session` and
`legacy_session`.

### Fairness

`FairSpec` in `Correlation`: the goroutines (listener, classifier, backfill,
directory) are timers or loops that keep running; the clock advances; a file that
exists is scanned again and again. Protect need not make progress: `Advance` has
no fairness, and `BackfillWins` supposes instead that the final stage was reached.
In `Stream`: requests and the cleaner are scheduled, ffmpeg ends within its
timeout, files age, Go's mutex hands the lock to every waiter (strong fairness of
`Lock`), and clients take what they are sent or go away. In `Thumbnail`: the timer
and the goroutine run, ffmpeg ends. In `LegacySession`: time passes, and a backfill
that has begun goes on, since every request has a timeout. In `Session`: a request is
answered, or fails where there is no process. In `Lifecycle`: `run` goes on, for the
camera request has a timeout, and the shutdown goroutine is scheduled; nothing is
assumed of clients, loops or Protect. `Indexer` and `Viewer` assume none: what is said
of time in `Indexer` is safety, as `Tick` waits for timers that are due and for a loop
that has something to receive.

## Proofs

All theorems hold for every value of the constants that satisfies the named
assumptions (`ConfigAssumption`, `NoRowAssumption`, `StreamAssumption`,
`IndexerAssumption`, `LegacyAssumption`, `LifecycleAssumption`,
`ThumbnailAssumption`, `SessionAssumption`, `ViewerAssumption`, `AlphabetAssumption`,
`InputsAssumption`): any number of clips, events, stages, cameras, requests, files,
delays, users and faults, and inputs of any length.

`CorrelationProofs`:

* `TypeCorrect`: `Spec => []TypeOK`, from `TypeOK` alone, one step per action.
* `LabelsExplained`: `Spec => []ClipsExplained`.

The last rests on an inductive invariant, `IInv`. `ClipsExplained` is not
inductive, since it says nothing of a label on its way to a clip. `IInv` follows it
backwards: labels held by the classifier and the backfill are explained
(`HeldReal`), for the rows they were read from are rows Protect's statements
produce (`RowsReal`), for messages and fetched events never run ahead of Protect
(`MessagesReal`) and the directory never gives a wrong key (`KeysReal`). The key
lemmas are `SaidGrows` (what Protect said stays said, so stale data stays
explained), `InsertKeepsRows` (the column-wise upsert yields the new row, as key
and start never differ) and `OverlapsCovers`. `Frame` states once what an action
that leaves a place alone preserves.

On the refinement, in the same module:

* `ClipsImplementLabels`: `Spec => LabelsRefined`, the refinement of `ClipLabels`.

Here `IInv` is joined with what holds of a clip between being listed or looked up
and being written: it is in the table (`InHand`) and, without a backfill, still as
the indexer left it (`Undisturbed`). Then every write is a `Match` or a `Settle` of
`ClipLabels` (`WriteRefines`), and all other steps a `Learn` or `Appear`.

On the order of an event's messages, in the same module:

* `LiveEndsKept`: without a backfill, `Spec => EndNeverLost`, supposing that Protect
  does not itself reopen an event (`EndsStay`, a condition on the events' stages that
  the code cannot control and every configuration here meets). With a backfill the
  run `end_lost` refutes it.

Messages of one event are in the order Protect sent them, on the socket
(`WireOrdered`) and from there to `OnEvent` (`ListenerFirst`); so once a row has an
end, everything still on the way to it has one too (`ClosedStays`). `ClosedStays`
alone is not inductive: a store closes a row while older messages could still be
queued behind it, which the two orders exclude.

`StreamProofs`:

* `TypeCorrect`, and `CacheHoldsWholeProxies`, `ViewersGetWholeProxies`,
  `TranscodesAreMisses`: the invariants `ProxiesComplete`, `AnswersWhole` (which the
  run checks as part of `CacheRefined`), `EncodesOnlyMisses`.

Their inductive invariant says that the lock is held where the code believes so
(`LockHeld`), that what is about to be renamed is whole or gone (`OutputWhole`),
that a proxy just renamed is still there when it is opened (`ProxyFresh`), and why
the cleaner cannot have taken it: it only removes a proxy it found old, and such a
proxy is there until then (`DoomedOld`). `QuietStep` and `WorkStep` reduce each
action to what it does for its own request.

* `NoLockLeaked`: whoever holds a clip's lock is a request for that clip that has still
  to release it (`LocksInUse`), the safety half of `EveryRequestEnds`.
* `StreamImplementsCache`: `Spec => CacheRefined`, the refinement of `ProxyCache`.

Two facts join that invariant: an answer is given last (`AnsweredLast`), and a request
whose transcode failed holds the lock of a clip that still has no proxy (`FailedMiss`),
since a proxy appears only by a rename under the clip's lock (`ProxiesAppear`). Then
the rename is a `Make` (`PromoteRefines`), a hit a `Serve`, whichever of the three
looks it is (`HitServes`), the error a `Refuse`, the removal of a proxy an `Evict`, as
the cleaner only has in hand what is still old (`RemoveRefines`).

`IndexerProofs`:

* `TypeCorrect`, `UnfinishedOnlyIfPaused` (`RowsWhole`), `NoFolderOverlooked`
  (`FoldersWatched`), `FilesIndexedInTime` (`IndexedInTime`).

`RowsWhole` needs that a file old enough to be trusted is finished or has been paused
(`OldIsPaused`), which the clock maintains, and that the clip a scan holds is such a
file (`HeldWhole`), though the file may have gone on growing since it was examined.
`FoldersWatched` needs that a folder which is not watched has been reported and not
received, or missed, and that while the watcher is being set up it is still to be listed
or to be added (`Reported`): the root is watched before it is read, so a folder that the
listing does not show is reported.

`IndexedInTime` follows from two invariants. `ClockInv` says what the clock may not
outrun: a scan takes no longer than `ScanTime` (`ScanShort`), the ticker is never
further off than its interval (`TickNear`), and a file was last written in the past
(`WrittenBefore`). `Due` says of each file that it is settled in the table, or that the
scan in progress is still to come to it and began when it was old enough (`InScan`), or
that the next scan starts by `StartBy` (`Awaited`): because the ticker is near enough,
or has ticked already, or because the first scan of a process ends in time for the
ticker to be set up. Each failed call or restart moves `StartBy` by an interval and a
scan. The lemmas `...KeepsPromise` say so for one kind of step each.

`LegacySessionProofs`:

* `TypeCorrect`, `SessionsAgeUnnoticed` (`OneFailureEach`).

Either a session that ended early has not cost its backfill yet (`Excused`), or the
session outlives the client's trust in it (`SessionOutlivesTrust`), by the one period
that may begin while a backfill runs; the assumption `Refresh + 2 <= Life` is used
where the session begins before the trust in it does.

`LifecycleProofs`:

* `TypeCorrect`, `ListenerReturns` (`BackInTime`).

`Missed` bounds, for each place the listener can be in, what it has missed and may
still wait together; a dial that Protect left under the listener, or a dead connection
while Protect is back, is the worst place to start from. That the kernel ends a dead
connection within `Keepalive` is assumed, and the bound says what follows.

`ThumbnailProofs`:

* `TypeCorrect`, `ReadyClipsHaveThumbnails` (`ReadyHasFile`), `NoThumbnailTwice`
  (`NotMadeTwice`).

What is about to be flagged has its file (`FileMade`), and a file is never removed.
A clip is not made twice because a batch lists each clip once and what is left of it
is not flagged (`BatchFresh`): only the first clip of the batch is ever flagged, and
leaves the batch with that.

* `UnreadableDoNotStarve` (`BatchAdvances`): while fewer clips than a batch holds are
  unreadable, a query that succeeds lists a readable clip, if one is left.

This is the progress `EveryClipGetsThumbnail` rests on, by the pigeonhole principle
(`ListingReaches`); Observations says what happens with more unreadable clips.

`SessionProofs`:

* `TypeCorrect`, `OnlyUsersLetIn` (`UsersOnly`), and `UsersLetIn` (`FullAccess`) for names
  without the separator.

The heart is `ParsedUsers`: `parseAuthUsers` returns each name in the list with the
last of its passwords, proved for every prefix of the list (`Agree`). `TypeOK` says it
of a running process. The other two also need that the browser's cookie is the one its
login was given, as old as the login and signed under the login's secret, through every
restart and edit in between (`CookieIsLogin`), and that the name read from a cookie is the
name it was signed for, which is where the separator comes in.

`ViewerProofs`:

* `TypeCorrect`, `LinksKeepTheirClips` (`LinksResolve`), `LastAnswerMatches`
  (`SettledListMatches`), `PagingIsComplete` (`PagesMissNothing`).

The first three are parts of `PageInv`. The page's links are safe since no step loses
a row or changes its id (`KeepsRows`: upserts and label updates keep both) and only an
answer brings new links (`NoNewLinks`), which resolve when it is given. The list
matches since whatever is under way for the last fetch carries the filter there is
now, as far as the menus have come (`LatestIsCurrent`): a choice and its fetch are one
step, and only `loadDays` changes the filter without one. Paging is complete since
the number of clips in front of a clip never falls (`PlacesGrow`), and the client has
passed no more than that number (`NonePassed`); a page that shows none of the clips it
still lacks would have to be empty (`PlaceOf`). A clip that ties with no other has that
place in every order the query leaves open.

The pure functions, in `CorrelationProofs` too:

* `HeadlinesRight` (`HeadlineMostSpecific`), `DetailsRight` (`DetailFromHeadline`),
  `TimesReadBack` (`TimesSurvive`), `KeysMatch` (`KeysAgree`).

`InputsInv` says what the inputs built so far are lists of, and that a clip lies in the
years the calendar covers; the rest is about the functions alone. `HeadlineIsMostSpecific`
(labels are supposed to be no empty strings) and `DetailIsOfHeadline` say that
`PickPrimaryType` and `pickDetail` return the `IsHeadline` and the `IsDetail` of any
lists. `InstantReadBack` says that `parseTimestamp` undoes `Timestamp`: `Day` grows by one
from each day of a month to the next, `MonthExists` finds a month for every day (a year's
days are those of its months, and a year begins where the one before it ends), and
`HourReadBack` tells the hours of the two halves of the day apart. `KeyOfExported` and
`KeyOfTrimmed` say that the key does not see what the export and the pattern take away:
a character adds to the key what it adds after any other prefix (`KeyAppend`), so two
lists that differ in characters a key is not made of have one key, prefix by prefix.

Facts about a recursive function (`parseAuthUsers`, `PickPrimaryType`, `Keep`) are proved
for a shortest prefix they would fail for, which `LeastNatural` provides, or from the
set of lengths of prefixes they hold for (`PrefixInduction`), since the
library's induction theorems take an operator as a parameter, which the provers do
not instantiate. Listings are sets of sequences described by what they contain and
how they are ordered, since a sort is opaque to the provers; `QueriesHaveAnswers`, in
`ThumbnailProofs`, says that there always is one.

Model-checked only:

* Liveness, which is out of the prover's reach: `EventuallyClassified`, `MatchBeatsGuess`,
  `BackfillWins`, `EveryRequestEnds`, `LeftoversReclaimed`, `EveryClipGetsThumbnail`,
  `NavigationEnds`, `FetchesAgain`, `ExitsOnSignal`.

## Not modelled

* `PruneOldEvents`, which nothing calls, the schema and its creation.
* `hashpw`, `ServeOriginal`, the health check and the download, which keep no state.
* `client.go` beyond its outcome (an input of `Correlation`, a wait of `Lifecycle`), and
  the parsing of JSON bodies; a body that cannot be decoded is a fault.
* Configuration variables other than `AUTH_USERS` and `SESSION_SECRET`: they are the
  constants of the modules they matter to.
* A camera renamed while the program runs: in `Correlation` the directory is loaded
  or not, and its contents stay the same.
* Layout, wording, logging, byte ranges of a response, and what ffmpeg does to a clip.

## What is left to do

In order of what it would add:

1. Camera renames in `Correlation`: clips keep the key of their file name, events that
   of the directory, and a rename separates the two.
2. A composition of `Indexer` and `Thumbnail`: a removed file becomes unreadable while
   its thumbnail is being made.
