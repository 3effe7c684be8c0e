# Nipah! Anime: a verification project in TLA+

Nipah! Anime is a desktop application (Go, Wails): a React front-end calls the
methods of one `App` value (`src/app.go`), every call on a goroutine of its own.
The methods share managers, caches and one SQLite database. The models here are
about that Go code: what its goroutines, callbacks, files, rows and timers do to
each other. The front-end appears only as a caller that may call anything in any
order.

## 1. Inventory

| Component | Code | State | Operations | Hard behaviour |
|---|---|---|---|---|
| Download manager | `backend/download/manager.go`, `app.go` 560–660, 3840–3920 | map of active downloads and their cancel channels; one goroutine each; the target file | StartDownload, CancelDownload, RemoveDownload; OnProgress, OnComplete, OnFailed | cancellation polled between reads; callbacks that are unconditional UPDATEs; one file shared by two downloads; quit in the middle |
| Downloads table | `backend/db/downloads.go`, `db.go` | one row per download | one statement per call | the row and the file change in separate steps |
| Local library | `backend/library/manager.go` | tables anime, episodes, manga, chapters; one connection | scan, import of a finished download, repair, views | overlapping scans move and renumber each other's rows; cursors keep the connection |
| Metadata gateway | `backend/metadata/manager.go` 1716–2193 | calls in flight, fresh and stale cache, next turn, cooldown, failure counter, degraded mode | requestBytes, shouldUseJikanFallback | shared answers, retries, 429 back-off, a mode switched by failures |
| Readers of metadata | `backend/metadata/manager.go` 256–1065, `jikan.go`, `catalog_requests.go`, `anilist_manga.go` | none between calls | search, home, entry, page of the catalog, match of a folder | several requests of two services, each of which may fail, under a mode that changes |
| Player | `backend/player/manager.go` | mpv process, one IPC connection, playback state | OpenEpisode, event loop, end of playback | two sessions over one connection field; end reported twice |
| Online playback | `app.go` 1738–2514, `db/watch_history.go` | the current context, the history rows | open, progress, finalize | context read, released, written again; progress of an old session |
| List sync outbox | `listsync.go`, `db/remote_sync.go` | local entries, one outbox row per entry, action and pair of ids | save and attempt, retry, passive tracking, pull | overlapping calls on one row, retries of old payloads, crash between save and enqueue |
| Runtime caches, snapshots | `backend/cache`, `app.go` 157–271, `app_anilist_cache.go` | memory cache, persisted snapshots | remember, background refresh | late refreshes, expired copies renewed |
| Source access sessions | `extensions/sourceaccess`, `extensions/animepahe/browser.go` | cookies per source, solve in flight, a shared file | ensure, invalidate, persist | entry replaced during a solve, waiters, file read-modify-write |
| OAuth login | `backend/auth/oauth.go`, `anilist.go`, `app.go` | listener, one-shot result | start, callback, wait, close | callback against timeout |
| Manga identity | `manga_identity.go`, `db/online_manga.go` | which AniList entry a source's manga is, the reading history | verify, resolve, promote, complete | a lookup that fails beside one that succeeds |
| Manga match | `manga_identity.go` 880–1620 | answers of searches and matches, kept for minutes | ResolveMangaSourceForAniList | "not found" after some questions could not be asked; calls that share half an answer |
| Streams and candidates | `app.go` 1260–1740, `integrated_playback_candidates.go` | streams of an episode, hot and stale | fetch, order, open or probe | a source that fails, candidates that do not play |
| Resident window | `resident_window.go` | bounds, quit flag | close, restore, quit | in Wails, not here |
| Torrent streamer, media server, transcoder, updater | `backend/torrent`, `backend/server`, `backend/transcode`, `updater.go` | little of their own | | |
| Scrapers | `backend/extensions/*`, `app.go` SearchOnline | lists, inventories, browsers and searches shared between calls | search, chapters, pages | flights that others join, a browser reset under its users |
| Streams of a source | `animeflv`, `animeav1`, `animekai`, `animeninja`, `jkanime`, `animegg` under `backend/extensions` | the cache of resolvers, the server that worked last, a browser per session | resolvers, GetStreamSources | servers asked at once, answers that come late, pages that lead to pages |

The properties that make them correct, in short. Downloads: the map matches the
goroutines, a recorded outcome is final, a completed row has its file, no half
file stays behind. Gateway: one request per key at a time, nobody is handed an
answer older than one already seen, turns and back-offs are respected, every
call returns. Playback: progress belongs to the episode that was played, a
session ends once. List sync: a change that was saved reaches the remote list or
stays queued. Library: what was watched stays watched, episodes keep apart. Caches:
results are not replaced by blanks. Sessions and loads: one loads for all, nobody
waits for ever.

`PROJECT.json` lists every component with its status and every hazard at its
line.

## 2. Modules

| Module | Models | Abstract specification | Proofs |
|---|---|---|---|
| `Downloads` | manager, table, files, import | `DownloadJob` | `DownloadsProofs` |
| `MetadataGateway` | requests for metadata | `ReadThrough` | `MetadataGatewayProofs` |
| `MetadataReads` | what readers make of those requests | | `StreamsProofs`, over `Streams` |
| `ListSync` | local list, outbox, remote list | | `ListSyncProofs` |
| `Playback` | mpv sessions, playback context, history | | `PlaybackProofs` |
| `Library` | scans, imports, repair, views | | `LibraryProofs` |
| `Snapshots`, `MangaIdentity`, `OnlineStreams` | what the application keeps while it runs | | `RuntimeProofs`, over `Runtime` |
| `SourceSession` | solved challenges and their file | | `SourcesProofs` |
| `AnimePahe`, `M440`, `MangaFire`, `WeebCentral`, `OnlineSearch` | loads that calls share | | `SourcesProofs`, over `SharedLoads` |
| `Resolvers`, `AnimeFLV`, `AnimeAV1`, `AnimeKai`, `AnimeNinja`, `JKAnime`, `AnimeGG` | from an episode to its streams | | `StreamsProofs`, over `Streams` |
| `MangaMatch`, over `MangaTitles` | the manga of a source that is an AniList entry | | `StreamsProofs`, over `Streams` |
| `OAuthLogin` | a login | | `ListSyncProofs` |

`Downloads` composes the manager with the table, the file system and the
importer, `Playback` the player with the history, `ListSync` the list with the
outbox and AniList, because the hazards lie between them. `Runtime`, `SharedLoads`
and `Streams` instantiate components that touch no state of each other side by
side, so that their theorems and runs are of one module. The runs `runtime`,
`sources` and `ends` do the same for TLC: a behaviour is about one part, chosen
in its first state.

## 3. Downloads

### Model and code

| Model | Code |
|---|---|
| `active`, `cancel`, `panicked` | `Manager.active`, the channel of each entry; closing a closed channel |
| `pc[id]` | the worker goroutine in `downloadFile` and `downloadHLSFileV2` |
| `row`, `saved` | the status and `file_path` columns of `downloads` |
| `file`, `linked` | what is at the target path; which workers hold a handle on it |
| `starting`, `cancelling`, `removing` | application calls that are between their two steps |
| `importer`, `library` | the goroutine OnComplete spawns; the indexed files |
| `InsertDownload`, `Start` | `StartDownload`: the INSERT, then `Manager.Start` |
| `Cancel`, `MarkCancelled` | `CancelDownload`: close the channel, then the UPDATE |
| `RemoveFile`, `RemoveDownload` | `RemoveDownload`: `os.Remove`, then the DELETE |
| `Resolve` … `Unwind` | the worker, one action per step between which others may run |
| `ImportLookup`, `ImportStat`, `ImportIndex` | the goroutine: `GetDownloadByID`; `os.Stat`; and, when AniList and the others have said which anime it is, the INSERT |
| `Complete`, `Fail`, `Report` | the callbacks set in `ensureDownloader` |
| `Exit` | the process ends; nothing resumes downloads at the next start |

The database has one connection, so a statement is one step. File contents are
`absent`, `partial`, `mixed` (two writers) or `whole`. Directory, file name, key
and playlist parsing are data: a target path per download and the outcome of
`Resolve` and `RequestHLS`. `DownloadJob` is the abstract worker: it runs once,
makes at most one closing callback, and stops without one only when it was asked
to or the process ended.

### Runs

* `downloads` (MCDownloads.cfg): two downloads whose target is the same file,
  one exit. Until the second is started the first has the file to itself, so
  both the exclusive and the shared case occur. Checked: the type invariant;
  `CancelIsSafe` (a registered id has a goroutine and an open channel, a
  goroutine is registered or was told to stop, no channel is closed twice);
  `CompletedIsWhole`, `NoOrphanPartial` (rows and files); `OutcomeIsFinal`,
  `LibraryIndexesWhole` (steps); `JobSpec` (refinement).
* the part "download" of `ends` (section 10): a cancelled worker returns, also
  from a stream without end.
* `downloads_active` and `downloads_cleanup` are expected to fail; see Findings.

Bounds: one file and two downloads are the smallest instance in which two
workers write one path; no action involves three downloads. Identifiers are
AUTOINCREMENT and so are used once. At most one CancelDownload and one
RemoveDownload of an id are under way at a time, and one exit. Only the POSIX
file system is run (`Posix = TRUE`): elsewhere an open file cannot be removed and
`NoOrphanPartial` is not promised.

### Proofs (DownloadsProofs)

For any set of ids and paths, and any number of exits:

* `CancelIsSafeHolds`, `OutcomeIsFinalHolds`, `TypeCorrect`, and `Refinement`
  (`Spec => JobSpec`) from `ManagerInvariant`: a worker's position, its
  registration, its channel and the callback it has made agree. An id that was
  never started has no entry, no channel and no callback; a worker that has not
  settled has made none; an outcome in the row comes from the one callback of
  its worker.
* `NoOrphanPartialHolds`, where an open file can be removed (`Posix`): a partial
  file has an owner, a worker that writes it or is about to remove it. The
  theorem carries the assumption because the code does: on Windows `os.Remove` of
  an open file fails.
* `CompletedIsWholeHolds` and `LibraryIndexesWholeHolds` from the invariant about
  files. The importer looks at a file and inserts its row after requests that may
  take minutes, so the second says two things: with anything but a finished file
  it does not go on, and what it then lists is still that file or one the user
  has removed meanwhile (which stays listed, see Findings). The invariant: a worker
  that reports completion reports it last, with a whole file in place; a path nobody
  has started on is absent; and a path that one download alone uses is touched by no
  other worker's step (`SoleHolder`, `OtherFiles`).
  Without the last, two downloads of an episode mix one file, which is why both
  properties exempt shared paths.

## 4. Metadata gateway

### Model and code

| Model | Code (`backend/metadata/manager.go`) |
|---|---|
| a request `r`, `key[r]`, `pc[r]`, `attempt[r]` | one invocation of `requestBytes`, its cache key, its position and loop counter |
| `inFlight`, `leader` | `Manager.active` and the call a follower waits for |
| `fresh`, `stale` | the two cache entries of a key |
| `nextTurn`, `cooldownEnd` | `nextAniListRequest`, `aniListCooldownEnd` |
| `mode`, `degradedUntil`, `degradedAt`, `since`, `count` | `aniListMode` and the fields next to it |
| `Call`, `Lookup`, `Begin`, `Follow` | the way in: cache, `beginRequest`, the wait of a follower |
| `ReserveTurn`, `Answered` | `reserveAniListTurn`, the sleep, `performMetadataRequest` |
| `Fail`, `Limited`, `Reject`, `Succeed` | the outcomes of one attempt |
| `StoreFresh`, `StoreStale`, `Recover`, `Publish` | the way out with an answer |
| `Settle`, `Fallback` | the way out without one |
| `Divert` | SearchAniList and the catalog home asking Jikan instead |
| `Forget`, `Tick` | cache expiry and eviction; the clock |

A body is the number of the answer among those fetched for its key, so "older"
and "newer" mean something. The variables below "History" in the module
(`fetched`, `given`, `floor`, `turns`, `penalty`, `blips`) are read by
properties only.

`ReadThrough` is what callers are promised: an answer is an error or a body that
was fetched, and never older than a body some caller had been given before the
call was made. It says nothing of freshness beyond that: caches may be old.

Abstractions. Sleeps between attempts have no length, so any interleaving the
code can show is there and more. A cache write takes effect at once or, for a new
entry, is dropped: the library buffers new entries and may drop them. The two
lock sections that clear the cooldown and note the recovery, and the read of the
clock before a lock section, are one step with it. A leader that panics is not
modelled.

### Runs

* `gateway` (MCMetadataGateway.cfg): three requests over two AniList queries, so
  two may share a key while a third disturbs pacing and mode; one attempt each;
  turns 2 apart, back-off 3, window and cooldown 2. The delays are different
  from one another and longer than a tick, so that a cooldown can end before,
  within or after a turn. Past `MaxTime` the clock moves only while a request
  waits for its turn. Checked: `SingleFlight`, `TurnsSpaced`, `PenaltyIsServed`
  (a turn given after a 429 is not inside its back-off although a success lifts
  the cooldown), `FallbackNeedsBurst` (readers go to Jikan only after enough
  failures in the window with no answer between), `ReadThroughSpec` (refinement).
* the part "requests" of `ends` (section 10): every call returns.

Three requests are what the hardest case needs: a leader, a follower, and a
request whose answer or failure arrives between them.

### MetadataReads

Above the gateway a reader makes several requests and puts one answer together. In
`MetadataReads` a request is answered or lost in one step, whatever the gateway does
to it, and `Turn` lets the gateway be degraded or recover at any moment.

| Model | Code (`backend/metadata`) |
|---|---|
| `SearchAniList`, `SearchAnimeViaJikan` | `manager.go` 1022–1065, `jikan.go` 257–354: Jikan instead of a degraded AniList, found out before or by asking |
| `GetAniListAnimeCatalogHome`, `GetAnimeCatalogHomeViaJikan`, `Shift`, `Normalized` | `manager.go` 681–915, `jikan.go` 817–945: the shelves, one request for all or one for each, and their seasons |
| `GetAnimeByID`, `GetAniListMangaByID`, `Get…ViaJikan`, `Merged`, `Limited` | `manager.go` 150–201 and 378–534, `anilist_manga.go` 266–385, `jikan.go` 356–779: an entry, and what Jikan adds in three requests or two |
| `GetAnimeEnrichmentByID` | `manager.go` 536–640 |
| `DiscoverAnime`, `DiscoverManga`, `Page` | `manager.go` 917–1019, `anilist_manga.go` 708–807, `catalog_requests.go`: a request for each genre, the union sorted and cut |
| `MatchAnime`, `Chosen` | `manager.go` 256–375: a request for each name of a folder, the best that fits |

`says` is the set of fields a service knows; what a field says is left out, so
"whose word is it" is what is checked. `replies` is history: what was answered for
each name. Recommendations are not told apart, the season of a home is always said,
and scores of a match are data (`Grade`, `MediaGrade` in `Streams`).
`NothingIsLeftUntried`, `ChoicesAreRight` of section 9 have a conjunct for these
readers:

* a search or a home fails only if Jikan was asked and failed, or AniList failed while
  the gateway was not degraded, or its answer cannot be read, which the code tries
  nowhere else; `lost` notes, with each request that was lost, the mode it was lost in.
  An entry that AniList knows is shown whatever Jikan does; a home, a page and a match
  are answered from every shelf, genre and name;
* the last season of a home is the one before the season it shows; AniList's word stands, what Jikan knows fills the blanks, and main characters are
  not cut before others; a page of several genres is the best of all that was listed,
  and the last only if nothing is left out; a match is one of the best of what was
  listed for any name, and there is none only if nothing is graded 55: an item of the
  folder's season that would do with 40 is lost behind a better one of another season
  that does not do (`manager.go` 297–302).

They are checked in the part "reads" of `runtime` (section 9): wishes of up to three
names of which two differ, so that a name may come twice; four entries, one without an
id; pages of two and casts of two, so that both are cut; two genre shelves; the
seasons at both ends of a year and one between, with the year said or not. What is
proved of them is in section 9.

### Proofs (MetadataGatewayProofs)

For any sets of requests and keys, any delays and numbers of attempts that meet
`ConstantsAssumption`:

* `TypeCorrect`: with `AttemptsLeft`, the loop counter is below its bound wherever
  another attempt may follow.
* `SingleFlightHolds`, `TurnsSpacedHolds`, `PenaltyIsServedHolds` from
  `FlightInvariant`. `MapIsHonest` (the map holds exactly the leaders, one per
  key) is what makes `SingleFlight` inductive; `NextTurnIsLast` (the next turn is
  past every turn given and every back-off imposed) makes the other two: the
  cooldown may be cleared at any moment, and it is `nextAniListRequest`, which only
  grows, that keeps the promise.
* `ImplementsRegister`: `Spec => ReadThroughSpec`, from `AgeInvariant`. Its parts:
  a cache entry is the last answer fetched, except while that answer is being
  stored (`CachesAreCurrent`); a leader that was answered holds the last answer
  (`BodiesAreCurrent`); a follower's leader is under way or has returned something
  the follower may return (`FollowersAreServed`). Single flight is what they rest
  on: with two leaders on a key, the older answer could be stored last.

* `FallbackNeedsBurstHolds`, from `BurstInv`: each request has noted one failure of
  the burst at most, and the counter counts no failure twice and none from before
  the last answer. That a set of noted failures is at least as large as the
  counter needs the cardinality lemmas of the library.

The assumption `DegradeCooldown >= Window` is the code's (8 minutes, 45 seconds);
it and the other constraints are evaluated by every run.

## 5. List sync

### Model and code

| Model | Code |
|---|---|
| `local[e]` | the row of an entry in `anime_list` or `manga_list` |
| `outbox`, `nextId` | `remote_list_sync_queue`; `age` is how long ago `updated_at` is |
| `remote[e]` | the entry in the user's list on AniList |
| `pc`, `draft`, `jobs` | a thread in a list operation or in RetryRemoteListSync: where it is, the change in its hands, the jobs it still has to send |
| `Add`, `Edit`, `Reread` | AddToAnimeList; UpdateAnimeListStatus, -Progress, -Score, which save and then read back |
| `Track`, `WriteBack` | ensurePassiveAnimeTracked: read, then write the whole row; WriteBack is also the completion in UpdateAnimeListProgress |
| `ReadToRemove`, `Remove`, `Clear` | RemoveFromAnimeList, ClearAnimeList |
| `Pull`, `Store` | SyncAniListLists, one entry at a time |
| `Enqueue` | enqueueRemoteSyncJob: INSERT ... ON CONFLICT DO UPDATE |
| `Retry` | ListRemoteListSyncJobs and the loop of RetryRemoteListSync |
| `Attempt`, `Apply`, `Fail`, `Drop`, `Note` | executeRemoteSyncJob and what its caller does with the result |
| `NextSecond`, `Crash` | the clock of `updated_at`; the end of the process |

The manga operations have the same shape and the model is of one media type at a
time; the two share no row. Contents of an entry are the number of the change that
wrote them, 0 for "not in the list", so that "older" means something; a payload
is the version it carries, 0 for a deletion. Ages are kept dense: only their order
matters to `ORDER BY`.

A request may fail before AniList carried it out (`Fail` from `sent`: no token,
no network, an error) or after (`Fail` from `applied`: the answer is lost). A
request is not carried out after its client gave up on it. A deletion's query and
mutation are one step: the query decides.

Left out: statements that fail, changes made while no account is connected (the
code does not queue them), a stored token without a user id (its deletions succeed
without a request), the episode marks saved along with an entry, and `status`
and `retry_count`, which select nothing: every row is listed for retry.

`wanted` and `tangled` are history. `wanted[e]` is the version the user last asked
AniList to have. `tangled` holds the entries about which the code promises less:

* two threads worked on it at once (`Overlap`). Each may then delete or send what
  the other has replaced; `ReportedQueuedIsQueued` shows one outcome.
* it had a row under another key when a change was queued. An upsert that failed
  stays queued beside a later delete, and the next retry, in the order of
  `updated_at`, may bring the entry back; so may an upsert under an older
  MyAnimeList id. Nothing in the code drops such rows.
* the process ended between the save and the enqueue.

An entry stays tangled for the rest of a behaviour.

### Runs

* `listsync` (MCListSync.cfg): one entry, one thread of list operations, one of
  retries, two possible MyAnimeList ids (so two upsert keys and two delete keys),
  three changes, retries of two rows. Checked: the type invariant;
  `SavedChangesArrive` (what AniList lacks is in the outbox, or in the hands of a
  thread about to queue it); `OnlyTheWantedIsSent`.
* the part "outbox" of `ends` (section 10): two entries and a limit of one row, so a
  row that keeps failing competes with the other; `EveryRowIsTried`.
* `listsync_reported` is expected to fail; see Findings.

Bounds: the properties speak of one entry, and entries meet only in the order of
the outbox, which `ends` runs. Two threads are enough for every
overlap. Three changes let an add, an edit and a removal follow each other with a
retry between any two of them. The theorems need none of these bounds.

### Proofs (ListSyncProofs)

For any entries, ids, threads and limit:

* `TypeCorrect`. Its part on the outbox (ids unique, below `nextId`, one row for a
  key) is inductive with the types.
* `SerialInvariant`, the inductive invariant. Ids stand for one key, in the table
  and in the hands of threads (`IdsAgree`). For an entry that is not tangled: one
  thread at a time is busy with it (`Alone`); it has at most one row, and whoever
  holds a job for it holds a copy of that row (`Held`); the row carries what is
  wanted, and what AniList lacks is in it, unless a thread has a saved change to
  queue, which is then the wanted one (`Settled`). `Held` is what makes a deletion
  by id safe: the row that `Drop` deletes still holds the payload that was sent.
* `SavedChangesNotLost` and `NothingStaleIsSent` follow from it.

## 6. Playback

### Model and code

| Model | Code |
|---|---|
| `pc[s]`, `video`, `api`, `try`, `saved` | an opening: `player.Manager.OpenEpisode` and the application call around it, later its watcher goroutine; the stream in hand and the row it resumes from |
| `mpv`, `path` | the mpv processes; whose socket is at `ipcPath()` |
| `conn`, `peer`, `closed`, `observed` | `Manager.conn`, shared by all sessions |
| `loop`, `reading` | the event loop of a session and the connection it reads |
| `state`, `once` | `Manager.State`; `endedOnce` of each session |
| `ctx`, `task` | `App.onlinePlayback`; a call that copies, changes and saves it |
| `history`, `library` | the rows of watch_history and of episodes |
| `OpenOnline`, `OpenLocal`, `SetCurrentOnlinePlayback`, `RecordStart`, `NextCandidate` | `StreamEpisode`, `OpenOnlineEpisode`, the integrated player's start, `PlayEpisode` |
| `Launch`, `WaitForSocket`, `ConnectIPC`, `WaitForStableStartup` | the steps of `OpenEpisode`, with their failures |
| `Listen`, `Exit` | the mpv process |
| `BeginLoop`, `TimePos`, `OtherProperty`, `EndFile`, `EndLoop` | `runEventLoop`: the messages, and the end of the connection |
| `Observe`, `SeeExit`, `ClearState`, `Finish`, `Return` | the watcher: observe, `cmd.Wait`, clear, the end callback |
| `ReadPlayback`, `StorePlayback`, `SavePlayback`, `ClearPlayback`, `ClosePlayback` | `updateCurrentOnlinePlaybackProgress`, `persistOnlinePlaybackContext` and `finalizeCurrentOnlinePlayback`, one action per lock section or statement |
| `UiCall`, `MarkOnlineWatched`, `MarkLocal`, `ReadThumbnail`, `Shutdown` | calls of the front-end; the picture writer; the way out |

Every video is `Length` long, in units; `Tail` stands for 90 seconds. `ended`,
`heard`, `edited` and `mixed` are history. `mixed` says that two openings or two
calls that report positions have overlapped: the current playback is one field,
copied, changed and written back without a lock held throughout, and a late
report of one episode can be stored under another.

### Run

`playback` (MCPlayback.cfg), four plans: one opening through every call, with every
position, and shutdown; the integrated player with menus and pictures; two mpv at
once; an mpv of a file while the integrated player reports. Checked:
`EndReportedOnce`; `NoStrayPlayer`; `CompletedIsReached`; `LastPositionIsKept`;
`EveryEndIsReported` under fairness.

Two sessions are enough: the socket, the connection and the state are single
fields, and what a session does to another goes through them. `Length = 2` has a
beginning, a middle and an end. `Tail` is 0 and there is one candidate; the
theorems hold for any. Fairness: goroutines run; `EndLoop` is strongly fair, since
what is left in a socket's buffer is finite and each message read delays the end
once. Users, mpv and shutdown owe nothing, so the system may stop and deadlock is
not checked.

### Proofs (PlaybackProofs)

For any sessions, videos, numbers of candidates, lengths and plans:

* `EndReportedOnceHolds` and `NoStrayPlayerHolds` from `PlayerInvariant`: the end of
  a session has been reported exactly when its `once` has fired; a process that
  runs is of the candidate its session is at, and the session is at a place where
  somebody waits for it. `GivesUp`, `MovesOn` and `Finishing` say it of the three
  kinds of step.
* `TypeCorrect`, with what the rows and the calls in hand bear: every episode is in
  the table it is written to.
* `CompletedIsReachedHolds` from `DataInvariant`. The property speaks of rows; what
  is inductive speaks of whatever is on its way to a row: a task that is done
  bears a position near the end (`TasksTellTheTruth`), and a completed row holds one
  (`RowsTellTheTruth`). It holds however calls overlap.
* `LastPositionIsKeptHolds` from `PositionInvariant`: while nothing has been mixed, at
  most one owner reports, the context is of its episode, and the state, the
  context, the task and the row hold in turn what was heard last.

The attempt to prove the last showed that an earlier statement was too strong: a
call of the integrated player that comes late, while an mpv session is at work, can
lose that session's last position. `mixed` notes it now. A plan in which it
happens is too large for the run; the theorem covers every plan.

What the model shows besides, for a reader of the code: the end of an older session
deactivates the state of a newer one; opening a completed episode un-completes
it; a library episode is marked watched with progress 0 when its mpv exits, however
early; the context stays set when the mpv of `OpenOnlineEpisode` fails.

## 7. What the application keeps: library, snapshots, identities, streams

### Library

| Model | Code (`backend/library/manager.go`) |
|---|---|
| `anime`, `episodes`, `manga`, `chapters` | the tables; `episodes[f]` by path, its key |
| `conn` | the task whose open cursor keeps the only connection |
| `job` | a task: the scan, import, repair or view, its place, what it has read |
| `Begin`, `Walk`, `Lookup`, `FindExisting`, `PromoteRoot`, `Insert`, `UpsertEpisode` | Scan and ImportDownloadedAnime, file by file |
| `ApplyDefaults`, `WriteNumber`, `Normalized`, `Finish` | applyDownloadedAnimeDefaults; normalizeAnimeEpisodeNumbers, after a scan, an import or a repair |
| `Repair` | RepairAnimeLibraryState, at startup and before anything else (`app.go:304`) |
| `Enrich`, `EnrichUnmatchedAnime`, `EnrichUnmatchedManga`, `Row`, `SaveBlurhash`, `EndRows` | the views, which write while they read |
| `DeleteAnime`, `MarkWatched`, `Restart` | the menus; the end of the process |

A file's name is `Parsed` (a number), `Hints` (titles) and `Dir`; a search for a title
is `Match`. The queries of one lookup are a step, so are the two statements of an
insertion and of a change of path. The Spanish title is left out.

`WatchedIsKept`: what was watched stays watched unless its entry is deleted, however
tasks move its episode. `NotAllOneNumber`: when no task is at work, the
episodes of a show whose numbering was settled do not all have one number; that two
of three share one is let be by the code (`shouldRenumber`), and by the property. An
earlier form, without "settled", held on two videos and is false on three: a scan
with another root moves one episode away, and a stale write of an overlapping scan
can give two episodes one number. `unsettled` notes the shows for which the code
does not promise it.

Proofs (LibraryProofs), for any files, titles, folders and tasks that satisfy
`LibraryAssumption`: `TypeCorrect` (tables, tasks and keys are typed, each id is
given once); `WatchedIsKeptHolds`; `NotAllOneNumberHolds`. The inductive
invariant of the last has three parts: a show that is settled has episodes of more
than one number, or a task that holds exactly the writes that will put them in their
places; what a task has seen holds only while it may be acted on; the repair is
first. It was checked by TLC on 20 264 and on 3 669 386 states before it was proved.

### Snapshots

One key of the runtime cache: `store` (the copy in memory, the stale copy, the row
in settings), `window` of the row, `job` of each caller and background refresh, and
five policies (`Kinds`): `rememberJSONWithStale`, manga chapters, persistent
snapshots, persistent searches, AniList details (`app.go` 157–271,
`app_anilist_cache.go`). `ReadFresh` … `Keep`, `Return` are its steps; `Expire`, `Age`,
`Restart` what happens to the copies.

`ResultsSurviveMisses`: a caller is not handed a blank or an error when, all the
call long, there was a stale copy with results to fall back on, and for the kinds
in which a blank is a miss none gets into the stale copy or the table. Proved
(`ResultsSurviveMissesHolds`) from an invariant of two parts: writes that a job has
left carry only values worth keeping, and a copy that is noted as kept serves the
call from its beginning. A copy that expires or goes with the process protects no
call, and neither does one that comes while the call is under way.

Left out: entries in the format of older versions; the delay with which ristretto
shows a write counts as a dropped write. Seen on the way: a refresh that fails saves
the stale copy as fresh for another window; a background refresh may overwrite a
newer copy; an empty miss in memory hides a good row for 15 seconds.

### MangaIdentity

`mapping` and `recent` (online_manga_source_map), `memory` (answers kept in the
cache), `history` (online_manga_history), `job`. `Resolve` begins
resolveOnlineMangaIdentity, alone or for a chapter that is opened; `Verify` is the
write at the end of ResolveMangaSourceForAniList; `ReadCurrent`, `LoadMeta`,
`ReadAny`, `MatchTitles`, `Store`, `Remember`, `Answer`, `Promote` are their steps;
`MarkCompleted` is MarkMangaChapterCompleted. How titles compare is the outcome of
`MatchTitles`; the choice among hits is not modelled.

`MangaKnowledgeIsKept`: a verified mapping, of whatever version of the matching rules,
is taken away only by a lookup that had looked into the table before it was verified
(`blind` notes them), so one of an older version never is; and a completed chapter
stays completed. Proved (`MangaKnowledgeIsKeptHolds`): a call that has read a verified
mapping carries it until it stores, so it cannot store a blank, and whoever has read
none is noted when the mapping is verified. The blind lookup is real: of two
overlapping lookups of one manga, the unresolved one can blank what the other has just
found, and the run reaches it.

### OnlineStreams

`hot`, `stale` (streams of a source's episode), `pc`, `streams`, `failed`, `played`
of a caller. `ReadHot`, `GetStreamSources`, `KeepHot`, `KeepStale`, `FallBack`
fetch; `Playable`, `AudioRank`, `Score`, `Better`, `Sorted`, `Candidates` are
filterPlayableAnimeStreams, the ordering and the cut at four; `TryNext` opens or
probes one.

`BestIsPlayed`: what is opened was offered, and nothing the viewer prefers was passed
over unless it was tried and failed, or lay beyond the limit. Proved
(`BestIsPlayedHolds`) for any offers and limit. `Arrangement` says that arranging a
finite set along a strict order lists each member once in that order (ranks are a
bijection); `WeakOrder` that `Better` is such an order once ties are broken;
`CandidateOrder` and `CandidateCount` that what is cut off is no better than what is
kept. The invariant: streams that are kept and handed on are playable and distinct,
and only candidates are tried.

### Runs

* `runtime` (MCRuntime.cfg): a part for each of the above, and those of section 9.
  Library: two videos whose names say the same number, the second in a folder that
  says nothing, one archive; two entries; one restart, after which an import is not
  made again. Five sets of calls: repair, scan and import; two scans; repair, scan
  and a view of the list, or of one entry; repair, a scan and the view of the manga.
  Snapshots: all kinds, two callers, one refresher, three calls, or two and a
  restart. Manga: one manga, one entry, one chapter, two calls. Streams: two
  sources, five offers, three wishes, a limit of two (four in the code) and three
  calls.
* `library_blocked`, `streams_stale` are expected to fail; see Findings.

## 8. Sources

### SourceSession

| Model | Code (`extensions/sourceaccess/sourceaccess.go`) |
|---|---|
| `pc`, `calls`, `attempt`, `found`, `awaits` | one call of FetchBytes |
| `sessionMu`, `sessions`, `closed` | the lock, the entries and their channels |
| `file`, `writing`, `corrupt` | the file all sources share |
| `ValidSession`, `LoadPersistedSession`, `Install` | validSession, which reads the file without the lock |
| `StartSolve`, `EnsureSession`, `Woken` | one browser, the others wait |
| `Solved`, `CloseWaitCh`, `BeginWrite`, `EndWrite` | the end of a solve: the channel closed; the file read, changed and written |
| `Panic` | the close of nil or of a closed channel (430): net/http recovers under the image proxy (`server/server.go:338`), the lock is given back and the process goes on; elsewhere it ends |
| `Expire`, `Restart` | time; a crash, also in the middle of a write |

`OneSolve`: one browser per source; it holds the source's entry, and the channel it
will close is open. `SessionsSurviveRestart`: when nothing is being written, a live
session in memory is in the file. Both proved (SourcesProofs) for any threads, sources
and plans. The first rests on: who solves is named by the entry, no two solves share
a channel (`ChannelsAreKnown`), and a channel is closed by its solve alone; the second
on who reads and writes the file holding the lock from the one to the other.

`displaced` and `unsaved` note what is exempt. validSession reads the file without the
lock and may put an old session over an entry that is being solved. That solve is
displaced: it closes nil and panics, or it closes the channel of a solve that has begun
since, which is displaced in turn. Who waits for a channel that its solve no longer
finds is `Stranded` and never returns, while the process goes on. `OneSolve` says that
nobody else is harmed, and that nobody panics who was not displaced; `EveryCallReturns`
that every call returns but those stranded. A crash in a write leaves a file that is
not JSON, after which nothing is persisted.

### AnimePahe, M440, MangaFire (`SharedLoads`)

| Model | Code |
|---|---|
| AnimePahe: `activeBase`, `cached`, `kept`, `inflight`, `stage`, `bases`, `queries`, `fetch` | mirrors in turn, cookies per mirror in memory and in the file, the solve others wait for, the pages of a call (`animepahe/extension.go`, `browser.go`) |
| M440: `chapters`, `rendered`, `required`, `flight`, `shared`, `leased`, `timer`, `firing` | the caches, the flight per manga, the shared browser and its lease (`m440/extension.go`) |
| MangaFire: `inventory`, `file`, `loader`, `pages`, `owner` | the inventory and the pages of a chapter, loaded by one (`mangafire/extension.go`) |

Proved (SourcesProofs):

* `RefusedNotResentHolds`: cookies a mirror has refused to a fetch are not sent again
  by it. Cookies of one solve belong to one mirror (`JarsApart`), a fetch that waits
  waits for the solver that is named, and what was refused is stored nowhere until
  that fetch has solved anew.
* `EpisodesAreWholeHolds`: a list has all its pages, all from one mirror, because a
  change of mirror drops the pages in hand.
* `WaitersShareHolds`. MangaFire: one actor loads at a time, and who waited for a
  successful load finds what it stored; the lock names who loads (`LoadersAreNamed`),
  and what a loader has loaded is kept while somebody still has to look
  (`LoadsAreKept`). WeebCentral: one loads the list of a series, the one the flight names,
  and nobody waits for a load that is over. OnlineSearch: a goroutine that sends finds
  room although its search has given up on it (`SendersHave`, `Unused`: who sends has
  an answer, and a search that was not begun has no goroutine).
* `ListsAreWholeHolds` (M440): one flight per manga, so that a list which lands comes
  from a load that found it whole; a teaser is neither answered nor cached.

M440 leaves out what the browser does, the second looks at its cache after a page
was fetched, and the unused branches Partial and Hydrating; the three stores of a
rendered list are one step. Another call's reset closes a browser in use, and a
process is left behind if Connect fails after the launch. In MangaFire partial
inventories replace whole ones; time does not pass between a wake-up and the look
that follows; SaveInventory may fail. AnimePahe assumes that its file can be
written and that its context is not cancelled.

### WeebCentral, OnlineSearch

WeebCentral: a page that shows a slice must not pass for the list of chapters. The
list is held against the leader's slice only; a page that shows nothing accepts any
list. OnlineSearch: SearchOnline asks every source in a goroutine of its own and
gives up on the slow; the late goroutine ends all the same, since its channel has
room, and keeps what it got.

### Run

`sources` (MCSources.cfg), six parts. Sessions: one or two sources, two calls of one
thread beside one of the other, or one call of each of three (`Crowd`), one of which
solves, one waits and one brings a session from the file; of three none is answered
429, and there is a session in the file. The process may end once where there are two
calls in all, and by a panic anywhere. AnimePahe: a list of two pages beside a search, two mirrors, two solved
challenges, one fetch at a time. M440: one manga beside either of two, three names
for browsers. MangaFire: three calls, the asynchronous refresh, one restart.
WeebCentral: 40 chapters. OnlineSearch: all sources beside one. Checked beside the
properties above: `SliceIsNotList` and `EveryCallReturns`. Two threads are a leader
and a follower; where an entry may be replaced, a third is who replaces it. The calls
are bounded, so that "every call returns" is "in the end none is under way". Strong
fairness: a mutex of Go passes to the goroutine that has waited long (a millisecond).

## 9. From an episode to its streams, from an entry to its manga

Sources differ in how they find the streams of an episode; what they share is that
they try several places, some at once, and stop early. The question for all of
them is the same: when one says there is nothing, had it tried what it may? The
modules are instantiated side by side in `Streams` and share no state: what a chase
finds is an outcome to a source.

| Module | Models |
|---|---|
| `Resolvers` | `ResolvePlayable` and `Resolve` (`animeflv/resolvers.go`): pages that lead to pages, at most four deep; `cached`, what calls share; what a page shows, wraps or loads is data |
| `AnimeFLV` | the sort of the embeds, with the note of the one that last worked, which other calls change meanwhile (`preferred`, `i`, `j`, `later`), the pool of three, the rest in turn |
| `AnimeAV1` | both audios of an episode, a pool, the slow embeds only where an audio is missing |
| `AnimeKai` | a browser per session and the goroutine that listens to its requests (`shown`, `captured`), the servers in turn, ten seconds (`late`) |
| `AnimeNinja` | servers, frames of the page, frames in a browser; five seconds |
| `JKAnime` | the number of episodes from hints that contradict each other, embeds until two streams are found, the links of a download and their exchange sort |
| `AnimeGG` | embeds or editions, the session of a browser and the merging of its streams with those in hand |
| `MetadataReads` | section 4 |
| `MangaMatch`, `MangaTitles` | `ResolveMangaSourceForAniList` for one source: the table, the names of the entry one after another, the variants of each name, the verification of the hits, what calls keep for each other; the scores of titles |

In `MangaTitles` a title is a sequence of words and a word one of letters; the
scores are those of the code on such titles, without the grades 82 and 68, which
never decide.

* `AnswersAreBehind` (`Resolvers`): what a chase answers was behind the embed it was
  given and is no page that the program knows, also when it comes from the cache.
* `NothingIsLeftUntried`: a call that fails has tried every embed, server, frame or
  edition it may, whatever other calls do to what it reads; and a search for a
  manga is not answered with "no results" unless the source said so.
* `ChoicesAreRight`: an episode of AnimeAV1 with two audios keeps both where both were
  found; the number of episodes of JKAnime is the planned one only where none that is
  listed says less, and its links are ranked when they are answered; AnimeGG offers
  every stream it has found once, at least as good as it was found (a gated one may
  give way to one with a session), and no other edition; the match that is kept for
  an entry was found to be it and, of what the call accepted, is the best or has the
  entry's very title. For the readers of metadata, see section 4.

### Run

These are parts of `runtime`. Resolvers: three calls over twelve URLs, among them a
cycle, a tracker and a page that is no known page. AnimeFLV: two calls of four embeds
in all, a pool of two. AnimeKai, AnimeNinja: up to three servers of which two are
asked. JKAnime: lists of up to two pages, five items. AnimeGG: two embeds, two streams.
MangaMatch: four manga, two entries, a budget of two names (six in the code), a second
call that begins beside the first and whose searches do not fail; only a match is
forgotten meanwhile. The bounds on numbers of servers and names are reached, so that
what lies beyond them is left out as in the code.

### Proofs (StreamsProofs)

`AnswersAreBehindHolds`, `NothingIsLeftUntriedHolds` and `ChoicesAreRightHolds`, for any
pages, embeds, entries and bounds under the assumptions of the modules. Their
invariants, each checked by TLC before:

* `RsInv`: where a call is can be reached from its embed, in no more steps than it
  has gone; and what the cache holds for an embed is behind it.
* `FlvInv`: a call's embeds are those of its page in some order, even in the middle
  of an exchange whose comparison read a note that has changed since (`SwapArranges`);
  every embed before the one to try has failed.
* `KaiInv`, `NinInv`, `JkInv`: the places before the one a call is at have been tried or
  are those it may not try; the exchange sort of JKAnime has what it has passed in
  order.
* `AvInv`: the fast candidates are all tried before the slow ones, and the call ends
  when all were tried or no audio is missing; what it selects is the best of each
  audio among what was found.
* `GgInv`: a stream that was found is covered by one in hand or one of the session, with
  a quality and headers no worse, and no two in hand have one address. `MergeKeeps`
  says that of merging two such sets.
* `MmInv`: the answers heard are those for the names before the one in hand; each hit
  worth a look is still in hand or was turned down, as long as there is no match; the
  best is at least what was accepted, or has a trusted title; what is kept was found
  to belong together, or asked.

* `MrInv`: the names not left to ask are those that were answered, and what was
  found is what was answered for them (`MrTyped`); a reader is where its code can be
  (`MrPlaces`); a home is made by one service, by Jikan only of all shelves
  (`MrHome`); what an entry is made of (`MrEntry`); and a page or a match is made
  when nothing is left to ask (`MrPages`). That the entries shown are ahead of those
  cut is counting: who is behind has more ahead of it (`MrAhead`), and as long as
  one is cut a whole page is ahead of it (`MrBest`). There is a best match: one with
  the least number of better ones has none (`MrSomeBest`), by the well-foundedness
  of the numbers.

`MangaMatchAssumption` says that the queries made of an entry's names are a sequence of
titles, and that the variants of a query begin with it. Both follow from the
definitions by induction over the titles, which is out of the provers' reach; TLC
evaluates them.

Seen on the way. The note of AnimeFLV keeps the address of one episode's embed, so
that another episode seldom has it. AnimeKai captures what the watch page plays while
a server's embed is meant, and gives it that server's audio; a watch session that
polls to its end makes the call late, and its servers are never asked. JKAnime's
" - N" in a title is taken from the last number. AnimeGG may replace a stream that has
the cookie it needs by one with a better label and no cookie. The first variant of a
query has the query's own place in the cache, so that for up to 20 seconds another
call may read "no results" although the later variants were not asked yet. In the
match, a base title before a colon is trusted for a spin-off too, and the bonus for
the year makes a confidence above 1 that a trusted title then replaces.

Left out: the extraction of addresses from pages, the browser itself, panics on
texts that are too short in the resolvers of streamtape and JKPlayer (that of JKAnime's
page, where a mark stands within 300 bytes of the end, is `JKAnime!Panic`:
`jkanime/extension.go:722`),
the chapters of a match, recommendations and SearchMangaGlobal.

## 10. What must end

`ends` (MCEnds.cfg) has four parts: a download (one id, one exit), the outbox (two
entries, a limit of one row, two changes), metadata requests (two calls, a key of
AniList and one of another service, two attempts) and logins.

`OAuthLogin`: `port` (who has the listener), `channel` and `told` (the one-shot
result, sendOnce), `login`, `token`; `Start` is StartCallbackServer, `Page` the
callback, the steps of a login WaitForCode, the exchange and the deferred Close. Two
logins, three pages: a page may reach a later login than the one it belongs to.

* `CancelStopsWorker`: a worker that was told to stop does. The scheduler runs what
  can run; network calls return by assumption (the client has no timeout, which is
  listed as a hazard).
* `EveryRowIsTried`: no row of the outbox starves while the user keeps pressing retry
  and the app is not closed for ever in between: that is its premise, not a
  fairness.
* `CallsEnd`: a metadata request returns, as a leader or a follower (clients have a
  timeout, sleeps end); a login ends and frees the port (its timer fires, and the
  client of the exchange has a timeout of 30 seconds).

Fairness is weak, of each goroutine and the clock. Deadlock is not checked: the
parts may all have ended.

## 11. What is proved, model-checked, not modelled

Proved, for every value of the constants under the named assumptions: every safety
and action property of the runs, and both refinements, except those below.

Only model-checked:

* liveness (`EveryEndIsReported`, `EveryCallReturns`, `CancelStopsWorker`,
  `EveryRowIsTried`, `CallsEnd`): TLAPS proves no fairness argument;
* WeebCentral's half of `SliceIsNotList`: whether the longest run of a slice
  exposes it depends on which slices a page shows. M440's half is proved.

The typing of every component is a theorem (`TypeCorrect` of each; `SourcesTypeCorrect`,
`RuntimeTypeCorrect` and `LoginTypeCorrect` of the composed ones), so the composed runs
do not check it again.

Left to do: the episode marks and the list that a finished session changes, as one
composition of `Playback` and `ListSync`; the chapters of a manga that was matched;
WeebCentral's half of `SliceIsNotList` from a condition on what pages show.

The map covers the control of the parts above, about three tenths of the lines of
the repository's implementation. Most of the rest is parsing of third-party pages,
queries and formats, which keeps no state: the scrapers' extraction, the texts of
the Jikan and AniList queries and the fields of their answers. The readers of
MangaDex, of the home of manga and of trends ask one service, one request after
another, keep nothing, and are not modelled.
Also not modelled: the resident window (its state is in Wails, which is not part of
the repository), the torrent wrapper, the media server and the transcoder (stateless
or third-party state), the updater (one sequential actor), migrations (once, before
anything else), logging, notifications, and the front-end beyond its calls.

## 12. Findings

* `downloads_active` — `GetActiveDownloads` "returns downloads currently in
  progress" (`app.go:3876`). A worker that read before it saw its cancellation
  reports progress after CancelDownload wrote `cancelled`; the row says
  `downloading` for ever and no goroutine works on it.
* `downloads_cleanup` — "Clean up partial file" (`download/manager.go:240`). An HLS
  worker that fails before it created anything removes the target all the same,
  and with it the finished file of an earlier download of the episode.
* `listsync_reported` — "Some changes could not be synced and were queued for
  retry." (`frontend/src/pages/MyLists.jsx:186`). Two overlapping calls for one
  entry share a row. The first, once answered, deletes it by id, with the payload
  the second has put in it; if the second then fails, its change is in no row.
* `library_blocked` — "runAutoScan rescans all previously known library paths on
  startup" (`app.go:885`). GetAnimeList saves a blurhash while its rows hold the only
  connection (`library/manager.go:692`, 813 for manga; `db.go:40`). The UPDATE waits
  for ever, and with it every later statement, the scan's included.
* `streams_stale` — the tests expect no stale copy for AnimePahe
  (`app_desktop_playback_test.go:122-129`). The code makes that exception for
  animegg-en only (`app.go:1301`).

Seen on the way, with no run of their own: a download that is removed while its
file is being imported is listed in the library without its file
(`library/manager.go:145`, 215: nothing looks again after the lookups);
a session that is read from the file while its source is being solved replaces the
entry, the solve then closes nil or another's channel and panics, and under the image
proxy the callers that wait for it wait for ever (`sourceaccess.go:428–430`, 416);
two tests name functions the code no
longer has (`app_animepahe_timeout_test.go:144`, cachedAnimeSearchWithTimeout;
`app_desktop_playback_test.go:54`, openOnlineEpisodeWithCandidateOpener);
GetMangaByID and the chapter list scan NULL columns into plain values, so such manga
are "not found" and such chapters skipped (`library/manager.go` 828–885);
MarkMangaChapterCompleted before the row exists is lost (`app.go:2743`);
a manga is verified by asking AniList for the names of the entry that is wanted
first, of which six fit (`manga_identity.go:253`, 545), so that with six names the
manga's own title is not asked and any hit is verified with full confidence, where a
test has "expected source wording to remain available" (`manga_identity_test.go:73`);
the resolvers of AnimeFLV are commented as "fastest win" and the first in the order
of preference wins (`animeflv/extension.go:252`);
a catalog page of several genres is to "show all matching anime"
(`metadata/manager.go:918`), but what the cut at 36 leaves out of page one is not on page
two either, which is made of the second pages of the genres; metadata of an entry that
is at hand is looked for under `anilist:anime:id:%d` and `anilist:manga:id:%d`
(`app_anilist_cache.go:355`, 380, `app.go:2163`, 2191), while it is kept under
`…:id:v2:%d` and `…:id:v3:%d` (`app.go:986`, `app_anilist_cache.go:416`); Jikan's
recommendations are fetched for an entry of AniList, which does not use them, and
their failure discards what Jikan said before (`metadata/jikan.go:376`).

## 13. Running

    tlc -config MCDownloads.cfg MCDownloads
    tlc -config MCDownloadsActive.cfg MCDownloads        # expected to fail
    tlc -config MCDownloadsCleanup.cfg MCDownloads       # expected to fail
    tlc -config MCMetadataGateway.cfg MCMetadataGateway
    tlc -config MCListSync.cfg MCListSync
    tlc -config MCListSyncReported.cfg MCListSync        # expected to fail
    tlc -config MCPlayback.cfg MCPlayback
    tlc -config MCSources.cfg MCSources
    tlc -config MCRuntime.cfg MCRuntime
    tlc -config MCRuntimeStale.cfg MCRuntime             # expected to fail
    tlc -config MCLibrary.cfg MCLibrary                  # expected to fail
    tlc -config MCEnds.cfg MCEnds

    tlapm DownloadsProofs.tla
    tlapm MetadataGatewayProofs.tla
    tlapm ListSyncProofs.tla
    tlapm PlaybackProofs.tla
    tlapm LibraryProofs.tla
    tlapm RuntimeProofs.tla
    tlapm SourcesProofs.tla
    tlapm StreamsProofs.tla

With two workers the runs take one to four minutes each, the proofs up to sixteen.
