# MediaForgeTool: verification project

MediaForgeTool is a single-process FastAPI server that downloads media with
yt-dlp and ffmpeg. A request creates a *job* row in SQLite and puts the job's id
into a bounded in-memory queue; worker tasks take ids from the queue and run each
job in a thread; a cleanup task removes old files. Playlists are imported,
matched to candidates by a search, and queued as jobs. A page of plain JavaScript
drives it all.

This directory holds TLA+ modules that model the job subsystem, the cleanup service,
playlists from the upload of a file to the queueing of its tracks, the rate limiter,
the choice of formats and segments, the state of the page, and the backup of the storage; the TLC configurations
that check them; and theorems checked by TLAPS. Paths below are relative to `src/`.

## 1. Inventory

| Component | Source | State | Operations |
|---|---|---|---|
| Job model | `app/models/job.py`, `app/db/` | `download_jobs` table: status, output path, expiry, counters | short sessions: `get`, assign, `commit` |
| Job submission | `app/services/job_submission.py` | none | `submit`: insert a queued row, then `enqueue`, or fail the row |
| Job requests | `app/api/routes/jobs.py` | none (request threads) | create, resume, pause, delete, clear; list, get, file, inspect only read |
| Job runner | `app/services/job_runner.py` | `queue`, worker tasks, one monitor thread per run, a `ProgressReporter` per run | `start`, recovery, `stop`, `enqueue`, `_process_job`, `_monitor_temp_download` |
| Job storage | `app/services/storage_service.py` | `temp_dir/<job>`, `storage_dir/<job>` | make, publish, remove |
| Cleanup service | `app/services/cleanup_service.py` | cleanup task | first pass inside `start`, then one per interval |
| Lifespan | `app/main.py` | phase of the process | runner start, cleanup start, serve, cleanup stop, runner stop |
| Rate limiter | `app/services/rate_limiter.py` | event times per client, lock | `check` |
| Media resolution | `app/services/media_resolution.py` | candidates and status of a track | `resolve_track`, `_replace_candidates` |
| Playlist queue | `app/services/playlist_queue.py` | queue items with a unique idempotency key | `submit_candidate` |
| Playlist requests | `app/api/routes/playlists.py` | none | import, edit, resolve and queue, one by one or in batches |
| Playlist import | `app/services/playlist_import/`, `track_normalizer.py` | none | detection, parsing, deduplication, limits |
| Media downloader | `app/services/media_downloader.py` | none | `inspect`, `fetch`: two selections of formats around calls of yt-dlp |
| Media search | `app/services/media_search/` | none | calls to the outside |
| Browser client | `app/static/app.js` | job and status in the panel, pending timer, selected and displayed playlist | submission, polling, pause, resume, delete; loading of playlists |
| Storage backup | `scripts/storage_backup.py` | a private copy of the storage, the archive | `create` beside the running server, `restore` beside a stopped one |
| Development server | `scripts/dev_server.py` | a pid file | start, stop |

**Interaction.** The components share the database, the queue and the
directories, and no lock. A request thread submits by committing a row and then
putting its id in the queue. A worker thread reads the row, commits
`extracting`, and from then on only *reports*: each report loads the row,
decides, and commits. A pause is a commit of `paused` by a request thread, which
the running worker notices at its next report or after the download. A monitor
thread calls the same `_progress` as the worker. A deletion removes directories
and then the row. Cleanup reads the protected ids, then walks the directories,
then expires rows. The page learns of all this by polling: several polls may be under
way, each shows its answer when it arrives, and all share one variable for their timer.

**What is hard here.** All of it is check-then-act over three stores. SQLAlchemy
adds two rules that decide many outcomes: a commit writes only the attributes
that differ from the values *loaded*, so a stale "no change" writes nothing; and
an UPDATE of a row that is gone raises `StaleDataError`, in places where nothing
catches it (a DELETE of such a row only warns). A crash loses the queue and all threads, and keeps rows
and files.

**What makes each component correct.**

- *Runner and requests*: no queued job is forgotten; no job is left in a running
  status without a run; a run ends; interrupted jobs are at rest and keep their
  data; a worker task survives; completed and paused are not overwritten; active
  jobs are not deleted; a deletion leaves no file behind.
- *Cleanup*: data of unfinished jobs stays; a completed row has its file unless
  somebody is removing it; outputs expire in the end.
- *Rate limiter*: at most `limit` accepted calls in any window, nobody refused without as many, and a
  `Retry-After` that is long enough.
- *Resolution*: candidates that were queued survive a new search, ranks stay
  unique, no track stays `searching`.
- *Playlist queue*: one job per idempotency key, also with concurrent requests and
  crashes; a batch reports what it did.
- *Import*: every row becomes a track or an issue, limits are respected, and a refused
  file stores nothing.
- *Downloader*: what the page was offered can be downloaded and the other way round, and the
  suggested segments are accepted and cover the medium.
- *Backup*: an archive has the file of every job its database calls completed, and a restore leaves what
  the archive holds and nothing else.
- *Page*: the panel does not freeze on an active status, and requests go to the
  playlist whose tracks are displayed.

The full list of hazards, each at its line, is `hazards` in `PROJECT.json`.

## 2. Plan

| Step | Modules | Content | State |
|---|---|---|---|
| 1 | `JobState`, `JobRunner`, `JobsApi`, `JobSystem`, `MCJobSystem` | the job subsystem across restarts | done |
| 2 | `Cleanup`, `Retention`, `MCRetention` | cleanup beside the job subsystem, with crashes and deletions that fail half way | done |
| 3 | `JobSystemProofs` | types, tickets, interrupted jobs and their data; runs, workers and deletions | done |
| 4 | `Playlists`, `MCPlaylists` | searches, edits and batches on tracks; candidates, queue items and the jobs behind them; crashes | done |
| 5 | `PlaylistsProofs` | types, recorded jobs, bounded duplicates | done |
| 6 | `RateLimiter`, `RateLimiterProofs` | the sliding window with the clock read outside the lock: what it bounds, whom it turns away, what it tells them | done |
| 7 | `ImportPromise`, `Uploads`, `Import`, `ImportProofs` | what an import promises; the importers line by line, shown to implement it | done |
| 8 | `Downloader`, `DownloaderProofs` | what inspection offers against what a download selects | done |
| 9 | `Page`, `PageProofs` | the panel that follows a job, and the review of playlists | done |
| 10 | `MCIntake`, `MCLive` | small instances of 6 to 9 and 12 in one run, and of what must happen in the end | done |
| 11 | `Library` | what rows and files promise each other as seen from outside, implemented by `Retention` under a refinement mapping | done |
| 12 | `Backup`, `BackupProofs` | the scripts beside any server that behaves as `Library` says | done |
| 13 | `RetentionProofs` | cleanup beside the job subsystem, and that `Retention` implements `Library`, for every instance | done |

Parameters are constants with named assumptions, there is one action per
transaction or per system call, and no RECURSIVE operator, so that each module can be
proved about. What is open after the plan: the life of the jobs behind the queue items
of `Playlists`, and the composition of `Page` with `JobSystem` in place of the three
statuses the page sees.

## 3. Modules and how they correspond to the code

**`JobState`** declares what is shared. `status`, `output` and `created` are the
table (ids are numbered in the order of `created_at`, the order `start` selects
by); `queue` is the `asyncio.Queue`; `temp` and `out` say what the two
directories of a job hold; `app` is the phase of the process (`down`,
`recovering` inside `start`, `up`, `stopping`); `todo` are the ids `start` has
still to put back. `Flushed(j, seen, new)` is the commit: it writes nothing when
the session loaded `new`.

**`JobRunner`** has one program counter per worker thread (`wpc`), with one
action per database access or file operation of `_process_job`, in the code's
order: `Take`, `LoadJob`, `Claim`, `Prepare`; the download with `ReportFetch` /
`SaveProgress`, `Download`, `FetchReturns`, `FetchFails`; `CheckPaused`,
`ReportLast` / `SaveLast`; `PublishFile`, `MoveFile`, `Reload`, `Complete`; the
handlers `Raise` / `WriteFailed` / `ClearFailed` and `LoadToPause` /
`WritePaused`; finally `JoinMonitor`, `Preserve`, `Remove`. `wseen` is the status
the current session loaded, `wlast` is `ProgressReporter.last_status`, and
`wdying` records an exception raised outside the `try` or inside a handler: it
passes through `finally` and ends the worker task (`dead`). The monitor of a
worker's run is `mpc`, `mjob`, `mseen`. `Start`, `Recover`, `Serve`, `Stop`,
`Exit`, `Crash` are the life of the process.

**`JobsApi`** has one program counter per request thread. Each handler is a begin
(load and guard) and a commit; `Submit` and `ResumeCommit` are followed by
`Enqueue` and perhaps `Reject`; a deletion removes the files of each chosen job
(`RemoveFiles`) and then commits (`DeleteCommit`). `put_nowait` is called from these
threads although `asyncio.Queue` belongs to the event loop, so it is two steps: the test
of the size in `Enqueue`, and `Put`. `WakeWorker` is the call of `get` that a put makes
return; a worker that looked and found the queue empty, but has not registered
its future yet, is missed by it and stays `asleep` until the next put.
`DeleteFails` is the exception `_directory_size` raises when a file it has listed
vanishes before it asks for its size: the request ends, and removed files stay removed.

**`JobSystem`** composes the two, adds fairness, and states the properties.
`WalkFails` says when `DeleteFails` can happen: while a worker removes, moves or
publishes in a directory of a job that is being deleted.

**`Cleanup`** is one pass of `cleanup_now` in steps: `SweepBegin` reads the
protected ids, `Visit` / `Stat` / `RemoveStale` walk the directories,
`SelectExpired` / `RemoveOutput` / `CommitExpired` expire outputs. `_loop` has no
except clause, so a failing step leaves `sweep = "dead"` until the next start.
Age is two sets: `stale` directories and `due` jobs. **`Retention`** composes it
with `JobSystem`: any step that changes a temporary directory makes it fresh, a
completion renews the expiry, the server is up only after the first pass, and a
deletion may meet the pass in a directory (`CleanupFails`). The history variable `cut`
remembers the completed jobs whose deletion removed files and was never committed.

**`Playlists`** has one program counter (`upc`) for each thread that works on tracks:
a request, or a thread of the pool `resolve_tracks_batch` starts. A search is
`MarkSearching` (the first commit), `Refresh`, then `SearchReturns` or
`SearchFails`, and `Replace`, the transaction that deletes the candidates read
without queue items (`drop`), inserts what is not among those read with
(`keep`), and settles the status. SQLite holds its write lock from the first
flush to the commit, so the transaction is one step, and a violated unique
constraint (`Clash`) or a refused transition undoes all of it. An edit is
`EditBegin` and `EditCommit`. `queue_candidate` and `queue_tracks_batch` work
through `plan`: `Lookup` (candidate and idempotency key), `Submit`
(`JobSubmissionService.submit`, which succeeds, is refused, or finds the queue
full and ends the batch), `Record` (the second commit). `useen` is the status
the session loaded, as in `JobState`. `Crash` loses every thread between any two of these steps, and the jobs
committed by then are taken up at the next start. `accepted` counts the jobs
submitted for each candidate and `lost` those a crash left without queue item; both exist
for the properties only.

**`RateLimiter`** is `check`: `ReadClock` before the lock, `Check` with everything under
it (`_prune_stale_keys`, the popleft loop, the decision and `retry_after_seconds`), and
`Tick`. `admitted` (the times of all admitted calls) and `promised` (what the last refused
caller was told) are history variables.

**`Uploads`** defines the files that may come and what a file says; **`Import`** is the
request: `Open` (the checks, in their order), one `CsvRow` or `TextLine` per line, `Finish`
with the only commit, and `Breaks` for the exceptions nothing catches (`csv.Error` on the header, a failing
commit). **`ImportPromise`** states the outcome without reading line by line: refused
for a true reason, or failed, with nothing stored; or created with the first line of each song as
tracks and all other lines as issues. `KeepsPromise` is the refinement.

**`Downloader`** has `Inspect`, which offers resolutions and segments, and the stages of a
download: `Submit` (the segment check of `create_job`), `EnforceDuration`, `Download`
(what yt-dlp selects by the filter expression of `_download_options`), `FinalFile`. The two
selections are written in the code in different languages, which is what its
properties compare. A format has an extension, two codecs that are each named, `"none"` or not given, a height
and two sizes; `Formats` are those that may occur. Inspection takes an mp4 whose video codec
is not given for one without video, yt-dlp does not; and a single format may come as the info itself, without
the list inspection reads (`listed`). `Disputed` names every cause for which what was offered is not what is
downloaded, and `OfferIsKept` claims the causes are exactly these.

**`Page`** is the part of `app.js` that keeps state across an `await`. `startPolling` is cut
at its awaits: `Polling` (clear the timer, send the request), `ServerReads`, `PollShows`,
`PollAgain` (`loadHistory` has returned, the timer is set), `TimerFires`, and
`PollRejects`. `Submitted` follows one `JobCreated` per URL; `PauseClicked`, `ResumeClicked` and
`DeleteClicked` are a click with the server's decision, `Paused`, `Resumed` and `Deleted` the answer. `asked` counts
the requests under way: the panel disables its button meanwhile (`app.js:1163`, `:1181`), the rows of the history
do not (`:2012`), so there may be several of one kind, for one job or more. The
review is `Choose`, `LoadAgain`, `Imported`, `ListShown`, and the answers `Loaded` and
`LoadFails`.

**`Library`** is the promise of `Retention` in terms of one item at a time: its row, its final file, and whether
it is being removed. A row is completed only with its file, loses it only after somebody decided to remove
it, and goes last; once deleted it never comes back. `KeepsLibrary` is the refinement, with `LifeOf` as the mapping;
`Overwritten` is there because of finding 2: a pause decided before the completion may be committed
after it.

**`Backup`** is `storage_backup.py` around that library. `create_backup` is `Snapshot` (one read transaction of SQLite's
backup interface), `ListOutputs` and `CopyItem` (`copytree`, which lists first, goes on after an error, and
raises at the end: `CopyFails`), `WriteArchive` and `WriteEnds`. `restore_backup` is `Restore`, `ExtractFails` or `Extract`,
`RemovePiece` (`rmtree`) and `RestorePiece` (`copytree`), both in any order, and `RestoreEnds`. Meanwhile the server takes
the steps of `Library` (`ServerStep`), except during a restore. `Interrupt` ends a script at any point. An
archive that was being written is then torn, and a restore refuses it before it touches the storage; but an exception
between two members makes `tarfile` close an archive that reads as a shorter one without an error (`WriteIsCut`).
Its members are in alphabetical order, `jobs` before `mediaforgetool.db`, so it has no database yet (`CopyInCut`).
`dropped` (items given up while the archive was made) and `excused` (items whose file a restore need not have brought back)
are history variables. The guard of `--force` is not told apart: with the option a restore always goes on.

**`MCIntake`** puts the limiter, the import, inspection with download, the two parts of the page, and the backup
into one run: a variable `part` chooses which of them a behaviour is of, and the others rest. They
share no state, so nothing is lost by that, and every property is checked in all
of its part's states. **`MCLive`** does the same for liveness with the job system and the panel.

### Abstractions

- Progress counters, metadata, error codes and messages are left out. The second
  commit of `_progress`, which writes only counters, is merged into the first; the
  exception it can raise on a deleted row is covered by the steps after it, which
  may all fail.
- An exception and the load at the start of `_fail` are one step: what raises reads
  nothing that another thread could change in between. `session.refresh` and the
  test of the queue's size are one step.
- The monitor's own read of the row and the read in `_progress` are one step.
- A worker has one slot for a monitor. A monitor that outlived `join(timeout=1)` is
  waited for before the next run starts; it can still write during all of
  `preserve`, `remove`, `load` and `claim` of the next job.
- The downloader is external: while a run fetches, it may report, write data,
  return or raise at any time. `JobTimeout` is one of the ways to raise.
- A directory Cleanup visits is any that exists when it is visited; the code takes
  the listing first, so the model visits a superset.
- Hours pass (`HoursPass`) only while no request is under way, no monitor is between
  its read and its commit, and no worker is at work on the job, its download apart,
  because the retentions are an hour at least (`app/core/config.py`) and all other
  steps take seconds.
- `Stop` waits until requests are answered, as the server does before it leaves
  `lifespan`; threads of workers run on, and `Exit` waits for them.

- `Playlists`: one provider, one format with its options for each candidate (so one
  idempotency key per candidate), and media ids that are present and differ within
  a search. Metadata is left out; an edit of a track with queue items then changes
  nothing. Reads in one request with nothing in between that another thread could
  change back are one step: candidates and items are read together, because items
  are never deleted and ids never reused. A job that was committed before a crash counts as
  accepted, since the next start takes it up or fails it.
- `RateLimiter`: a thread that has read the clock has the lock within `MaxSkew` ticks; the
  properties say what that costs. Time is in ticks, `TicksPerSecond` of them to a second,
  so that the rounding of the answer can be seen.
- `Import`: a line is the song it names (its `duplicate_key`), `broken`, or `blank`. How a
  cell is decoded, cleaned and folded into a key is left out. `csv.DictReader` skips blank lines
  itself, so a CSV file has none and its rows are numbered as the code does, by row. A text line
  without artist or title never reaches `normalize`, so text has one reason for
  a broken line. An empty importer key is replaced by the default before the handler sees it.
- `Downloader`: mp4 only. What yt-dlp takes for a video, a sound or both, and that `best` falls back on what there is
  when no format is complete, are modelled from how its selectors are used. A medium does not change
  between inspection and download. An inspection that fails changes nothing and is no step.
  Durations are whole seconds, to which the code truncates them.
- `Page`: the server answers for a job that is active, ended (any status of
  `terminalStates`, paused among them) or gone. A click and the server's decision are one step, and a
  refused request changes nothing. An ended answer ends the poll at once, since the
  `loadHistory` after it changes nothing modelled. A call whose timer is cleared is idle
  again. The list of a batch, the form with inspection and segment markers, the
  history and all rendering are left out.

## 4. Runs

Every action fires in the passing runs.

| Run | Instance | Properties | Question |
|---|---|---|---|
| `requests` | 1 job, queue 1, 1 worker with monitor, 2 clients, crash and mkdir faults; submit, resume, pause, delete (2,168,492 states) | `TypeOK`, `QueuedHasTicket`, `ExtractingHasWorker`, `InterruptedIsQuiet`, `InterruptedTempKept` | does every interleaving of two requests with a run, across restarts, leave each job with somebody responsible for it? |
| `no_resume` | 2 jobs, queue 1, 2 workers, 1 monitor, 1 client, crashes; submit, pause, delete (799,341 states) | `QueuedHasTicket`, `SoleRunner`, `WorkersSurvive`, `DeletedLeavesNothing` | without resume, is there one run per job, does no worker die, does a deletion leave nothing, and are the queued rows that do not fit at start-up failed? |
| `retention` | 2 jobs, queue 1, 1 worker, 1 client, crash and mkdir faults, cleanup; submit, pause, clear (585,671 states) | `RetentionTypeOK`, `FileUnlessRemoved`, `ActiveTempKept`, `KeepsLibrary` | do cleanup, deletions that may fail half way, and crashes keep files and rows consistent, and is that all a user can see? |
| `liveness` | 1 job, queue 1, 1 worker, 1 client, mkdir faults, all four requests; a page with 1 job, 2 polls, 2 requests of a kind (26,229 states) | `QueuedIsServed`, `RunsEnd`, `PanelSettles` | is a queued job taken up, does a run end, and does the panel notice? |
| `playlists` | 1 track, 2 media, 2 threads, searches of up to 2, batches of up to 2, crashes, unhandled exceptions; search, edit, queue (2,036,693 states) | `PlaylistsTypeOK`, `ItemsHaveJobs`, `SubmittedIsRecorded`, `DuplicatesBounded` | do queue items and jobs agree whatever searches, edits, batches and crashes do beside each other? |
| `intake` | limiter: 2 threads, 2 clients, 2 calls in 4 ticks; import: 2 songs, 4 lines, 3 tracks; media: every list of up to 3 of 25 formats, listed or not, and 2 resolutions, or one format and up to 7 seconds in pieces of 3; page: 2 jobs, 2 polls, a request of each kind for each job, 2 playlists, 2 loads; backup: 1 item (1,142,451 states) | `LimiterTypeOK`, `WindowBound`, `RefusalsAreDue`, `RetryIsHonest`; `ImportTypeOK`, `LinesAccounted`, `KeepsPromise`; `OfferIsKept`, `NothingHidden`, `SuggestionsServe`; `PageTypeOK`, `PanelWatched`, `ReviewAgrees`; `BackupTypeOK`, `ArchiveServes`, `LibraryKept`, `RestoreIsWhole` | does the limiter limit, and nobody without cause, does an import account for its file, when is what is offered what is downloaded, what is downloaded without being offered, does the page watch and address the right thing, and do backups and restores keep the library? |
| `late_monitor` | 1 job, 1 worker with monitor | `CompletedStays` (violated) | finding 1 |
| `late_pause` | 1 job, 1 worker, 1 client; submit, pause | `PauseSticks` (violated) | finding 2 |
| `clear_race` | 1 job, 1 worker, 2 clients; submit, resume, clear | `ClearSkipsActive` (violated) | finding 3 |
| `cleanup_ends` | 1 job, 1 worker, 1 client, cleanup; submit | `OutputsExpire` (violated) | finding 4 |
| `double_queue` | 1 track, 2 threads; search, queue | `OneJobPerKey` (violated) | finding 5 |
| `search_stuck` | 1 track, 2 media, 1 thread; search, queue | `SearchingHasSearcher` (violated) | finding 6 |

**Bounds.** `MaxJobs` bounds how many rows are ever created: jobs meet only in the
queue and among the workers, so one job is enough for what happens to *a* job,
and two with a queue of one for the full queue at submission and at start-up.
`Clients` bounds how many requests are open at once; each may be repeated without
limit, as may restarts. The queue may hold `Cardinality(Clients) - 1` tickets more than its size,
because so many threads may pass the test together. `Monitored` names the workers whose
monitor acts. `Requests` and `Faults` select what a run exercises and where a property
is only claimed without resume requests. Clients are symmetric in the safety runs, the jobs of the page in `intake`, and workers
where all or none are monitored; no symmetry is used in `no_resume`, in
the violated runs and where liveness is checked.

`MaxCandidates` bounds the ids candidate rows get, and so how many searches may
start (`RoomForSearch`); four leave room for two searches of two results at once, or
one after the other. `MaxResults` and `MaxBatch` are two, for a rank above 0 and for
a batch whose first choice fails. `MaxLost` is one job of a candidate that crashes leave without
queue item. Tracks interact only through a batch that fails, which one track
shows as well. Requests are repeated without limit.

`intake`: `Limit` 2 in a window of 2 seconds of 2 ticks, a skew of one tick and 5 ticks in all let
events get out of order, expire and be pruned early. `MaxLines` 4 against 3 tracks reaches the limit with
and without blank, broken and repeated lines. `MaxPolls` and `MaxLoads` are two, so that one call clears another's
timer and an older answer comes last. `MaxAsked` bounds the requests of one kind for one job: one in `intake`, where
all kinds for both jobs are answered in any order, two in `liveness`. One item is enough for the backup's properties, each about one item and the
database: what items have in common is the script, which one item interrupts or fails as well (with two, the
run is longer than is practical), and `BackupProofs` covers any number.
`MaxFormats` 3 allows a better, a worse and an audio format; an mp4 has any pair of codecs that
may be downloaded, a height given or not, and sizes below, at and above the limit, exact or estimated. `MaxDuration` 7
against pieces of 3 leaves a short last piece. Formats and lengths do not meet in the code, so a medium has
several formats or any length; `DownloaderProofs` proves them together.

**Fairness.** `WF(WorkerStep)`, `WF(MonitorStep)` and `WF(FinishStep)`: threads
are scheduled and finish what they accepted. `SF(FetchEnds)`: a download ends,
however often it reports; socket timeouts and `JobTimeout` see to that. In `Retention`
the cleanup task is fair as well. In `MCLive` the steps of a poll and the answers to requests are fair
(`PageFairness`): `fetch` resolves or rejects, and timers fire. Nothing makes a client
send a request, the process crash, a poll fail, or time pass. `QueuedIsServed` is claimed while a worker
is left that is neither dead nor asleep. Deadlock is not checked in `intake`, where each part comes
to its end, nor in `liveness`, where a page may have nothing left to click.

**Refinements.** `KeepsPromise`
(`Import` implements `ImportPromise`) is checked as a property of `intake` and proved. `KeepsLibrary`
(`Retention` implements `Library`) is checked in `retention`, without resume requests, proved, and connects the job subsystem to
`Backup`, which assumes of the server no more than `Library`. It is as strong as it
looks: without `Overwritten`, or with a file removed before its item is condemned, TLC refutes it.
`Spacing` is the window less twice the skew: one tick more, and TLC finds a behaviour in which a
pruning forgets an event early and the call that profits carries an old time.

### Findings

1. `late_monitor`: `_progress` in the monitor thread loads a running row, the worker
   commits `completed`, the monitor commits `downloading` (`job_runner.py:298`). A
   finished job shows as downloading until the next start marks it interrupted.
2. `late_pause`: a pause accepted between a worker's load and its commit is
   overwritten (`job_runner.py:365`, also `:298`), although the documents under
   `_bmad-output` promise that a paused job stays paused.
3. `clear_race`: a job resumed while a deletion removes its files is deleted in
   the commit (`jobs.py:156`), although `README.md:412` says that clear skips active jobs.
4. `cleanup_ends`: a directory removed under the pass raises in `stat()`
   (`cleanup_service.py:93`), or a deleted row in the commit (`:61`), and the task
   ends (`:77`); nothing expires until the next start.

5. `double_queue`: two requests look the idempotency key up before either has written
   its queue item, and submit a job each (`playlist_queue.py:45`); the unique constraint
   refuses the second item only after its job runs. `DuplicatesBounded` is what
   remains true.
6. `search_stuck`: a user who queued the second candidate of a track searches again;
   the new result gets rank `0 + len(kept)`, which the kept candidate has
   (`media_resolution.py:135`). The request ends with an `IntegrityError`, the track
   stays `searching`, and every repetition with such results does the same.

Seen while modelling, without a run of their own:

- `README.md:355` has inspection return "the available presets"; a format whose size is
  exactly the limit, whose estimate is not below it, or that has no m4a sound beside it may be offered and then
  not be found (`media_downloader.py:402` against the filter at `:200`). `OfferIsKept` says when. The other way round,
  an mp4 whose video codec is not given (`:407`), or a single format that comes in no list (`:138`), is downloaded
  but not offered, and the page lists only what was offered (`app.js:541`). `NothingHidden` says that nothing else is hidden.
- A ticket may be in the queue while every worker sleeps (`asleep`), until another ticket
  comes. The event loop wakes up for other reasons often enough that this is hard to see.
- In the page, an old poll may show its job in the panel after a newer one was submitted, a
  "paused" answer that arrives late stays until something else is shown, and a late
  inspection may describe an address that was changed meanwhile. No document promises otherwise,
  and no property is claimed.
- `LibraryKept` has to except a restore that is interrupted: it removes the old storage before it copies the new one
  (`storage_backup.py:52`), and completed rows may come back without their files. An archive that was cut between two members is
  restored without an error, with no database in it.
- `FileUnlessRemoved` has to except `cut`: a deletion that raises, or is cut off by a crash, leaves
  completed rows without their file, for good.

## 5. Theorems

Every theorem is of the form `Spec => []Property`, or `Spec => Promise!Spec` for a refinement, for every value of
the constants that satisfies the named assumptions; TLC evaluates the assumptions in the runs.

**`JobSystemProofs`**: every number of jobs, workers and clients, every queue size, and
every choice of `Requests` and `Faults`. Assumes `JobStateAssumption`, `WorkersAssumption` and
`ClientsAssumption` (positive bounds, known fault and request names).

- **`TypeCorrect`**: `TypeOK`. One lemma per group of actions; the sets of
  statuses and program counters stay folded, and membership lemmas
  (`StatusMembers`, `WorkerMembers`, ...) stand for their contents. The bound of the queue is not
  inductive by itself: `QueueInv` counts the threads that are about to put (`Putting`), whose
  number with the tickets stays below `MaxQueueSize + Cardinality(Clients)`.
- **`TicketsKept`**: `QueuedHasTicket`. The property is not inductive. A
  request in `reject` counts only while its commit will really write, that is when
  it did not load `failed`; a worker in `claim` must have loaded `queued`, or its
  commit might leave the row queued with the ticket gone; and in `recovering` the
  jobs without ticket must be those in `todo`. `TicketInv` is the conjunction of
  these. `LaterStepKeepsTickets` settles all steps after a claim and the monitors at
  once: they commit no `queued` and touch no ticket.
- **`InterruptedAtRest`**: `InterruptedIsQuiet`. `QuietInv` adds that nothing
  runs before the server is up, that start-up lists only queued jobs, that a resume
  was decided on a resumable status (so that its commit does change the row), and
  that no request is about to enqueue an interrupted job. Only `Start` makes a job
  interrupted, and only the commit that ends the status makes it busy again.

- **`InterruptedDataStay`**: `InterruptedTempKept`, an action property, from the same
  invariant. `TempRemovers` lists who removes a directory: a run, of its own job, or a
  request that chose the job. No such step writes a row, and an interrupted job
  has no run, so that no `finally` of an earlier process or run can come late.
- **`RunningHasRun`**: `ExtractingHasWorker`, under the same assumptions: a job that says extracting or processing
  while the server is up has a worker whose commits will still replace that status, or one that died
  creating its directory. Downloading is left out, because finding 1 breaks it.
- **`OneRunEach`** (`SoleRunner`), **`NobodyDies`** (`WorkersSurvive`) and **`DeletedIsGone`**
  (`DeletedLeavesNothing`): for systems in which `"resume"` is not in `Requests`, the second also without
  the `mkdir` fault. All three rest on `OnceInv`: a job is in one place (`InOnePlace`: one ticket, one
  request, one entry of `todo`, or one worker), a job at rest is in none (`AtRest`), and a deleted one is
  gone from all and has no output (`Gone`). That it has no temporary directory either is `TempGone`: only a run that
  has not come to its end writes to one (`TempWriters`), and a request deletes no row whose directories it did
  not remove before (`RowDeleters`).

**`PlaylistsProofs`**: every number of tracks, media and threads and every bound,
assuming `PlaylistsAssumption` (finitely many threads, natural bounds).

- **`TypeCorrect`**: `PlaylistsTypeOK`. `TypeInv` adds that searches under
  way have room for their ids, that a thread in a batch has a choice left, that choices
  are ids given out already, and that a search keeps finitely many rows (for ranks
  to be numbers), which follows from ids telling rows apart.
- **`JobsAreRecorded`** and **`DuplicatesAreConcurrent`**: `SubmittedIsRecorded` and
  `DuplicatesBounded` follow from one counting invariant. While a candidate is open
  (not queued, and stored or not made yet), its jobs are at most those a crash lost and the threads about to
  record one (`OpenIsCounted`); once it is settled it never opens again, and its
  jobs and the threads about to submit one are together at most all threads and the lost ones
  (`JobsAreFew`). `StepKinds` reduces every step to one of six kinds first.
- **`ItemsAreJobs`**: `ItemsHaveJobs`, from `JobsInv`: a thread about to record a
  choice has a job for it.

**`RateLimiterProofs`**: every number of threads and clients, every limit, window, resolution and skew
(`LimiterAssumption`).

- **`EventsAreBounded`**: `LimiterTypeOK`, with the bound on the events kept.
- **`WindowIsBound`** (`WindowBound`) and **`RefusalsDue`** (`RefusalsAreDue`, an action property): `KeyInv` says that
  the events of a key are the last of those admitted (`Suffix`), and that whatever was
  forgotten is older than the window by the clock, give or take the skew (`Forgotten`). Pruning by the last event
  alone is right up to the skew because the times of a key are nearly in order.
- **`RetryWorks`**: `RetryIsHonest`, from `PromiseInv`: a promise lies at or after the moment
  the oldest event of the refused caller leaves the window.

**`ImportProofs`**: every file, limit and set of songs (`UploadsAssumption`).

- **`ImportsAreTyped`**, **`NoLineIsLost`** (`LinesAccounted`) and **`ImportIsHonest`** (`KeepsPromise`, a
  refinement). `ImportInv` says that a file is read only after all checks passed (`OpenedRightly`), that
  nothing is collected before (`NothingRead`), that `seen` are the songs of the lines read
  (`SeenKept`) and `counted` their number (`CountKept`).

**`PageProofs`**: every number of jobs, calls, loads and playlists (`PageAssumption`).

- **`PageTypeCorrect`**: `PageTypeOK`. `PanelInv` adds that a call under way and a request are for
  a job that exists (`CallsAreKnown`, `RequestsAreKnown`), so that the server has an answer; `ReviewTyped`
  that an import under way has selected its playlist.
- **`PanelIsWatched`** (`PanelWatched`: as long as the panel shows an active job some call of `startPolling`, of that job
  or of another, is under way or has a timer, unless a poll failed) and **`ReviewIsSelected`** (`ReviewAgrees`) are inductive on these types: every
  step of a poll loses it, shows an ended job, or leaves a call that is not idle
  (`PollStepWatches`), whichever timer it clears on the way.

**`BackupProofs`**: any set of items (`ItemsAssumption`: none of them is the database).

- **`BackupTypeCorrect`**: `BackupTypeOK`, with `ArchiveThere`: a restore has an archive, and one past extraction a whole one.
- **`ArchivesServe`** (`ArchiveServes`): `CopySound` says of each item the copied database calls completed that it is copied,
  given up, or still to be copied and there. `ItemSteps` reads off `Library` that no step takes the file of
  an item that is completed and stays so.
- **`RestoresAreWhole`** (`RestoreIsWhole`) and **`LibraryIsKept`** (`LibraryKept`): `RemoveSound` and `RestoreSound` say in the middle of
  a restore which pieces are there, `RowsInDatabase` that rows are only where a database is, also in an archive.
  What a restore brings back is consistent because its archive serves.

**`RetentionProofs`** extends `JobSystemProofs` by the cleanup service: every number of jobs, workers,
monitors and clients, and every choice of `Faults`, under the same assumptions. `retention` has one worker
without a monitor, so that late monitors beside the cleanup are covered by the proof alone. It was the attempt
to prove `KeepsLibrary` for them that showed that hours could pass in the middle of a
report, which TLC confirmed; `HoursPass` now excludes it.

- **`RetentionTypeCorrect`**: `RetentionTypeOK`, whatever requests there are, with the bound of the queue.
- **`CompletedHasFile`** (`FileUnlessRemoved`), **`CleanupSparesActive`** (`ActiveTempKept`, an action property)
  and **`RowsAndFilesKept`** (`KeepsLibrary`, a refinement): for systems in which `"resume"` is not in
  `Requests`, as in the run. The assumption is needed: with two workers TLC refutes `FileUnlessRemoved` by a
  job that is paused while it publishes and resumed at once; the first run then commits `completed`, and the
  second, which was started by the resume, unlinks the file when it publishes its own
  (`storage_service.py:41`); what refutes `ActiveTempKept` is told in section 6. All three follow from `SweptInv`, which has four parts, each of which needs those before it.
  - `RunInv`: the invariants of `JobSystemProofs` hold beside the cleanup too, and monitors write
    for the run of their worker only (`MonitorsFollow`, `ClaimInv`), so that no late report makes a settled
    row run again unnoticed.
  - `ExpiryInv`: what is due is at rest (`Untouched`), so that what the pass marks expired at its end is what
    it emptied before, although rows may be deleted in between.
  - `FileInv`: a completed row has its file or a reason not to (`Excused`), and a run that is about to
    commit `completed` has just published.
  - `TempInv`: a stale directory is `Shielded`, that is of a job that needs no data and that nobody is
    about to write as if it did, when the pass did not protect the job at its beginning (`StaleInv`), and so from
    the read of its age to its removal (`EntryInv`).

  For the refinement `Allowed` says field by field what `Library` allows an item; `StepKinds` divides the
  steps into those of the job subsystem, of its end and of the cleanup, and each status an item may have is a lemma
  (`NewFollows`, `OpenFollows`, `CompletedFollows`, `PastFollows`).

**`DownloaderProofs`**: any number of formats, any sizes, resolutions, limits and durations
(`DownloaderAssumption`); the two parts that `intake` checks apart, formats and lengths, are proved together.

- **`OffersAreKept`** (`OfferIsKept`) and **`OffersAreComplete`** (`NothingHidden`): the filters handed to yt-dlp are
  stricter than the test of inspection (`FilterIsStricter`) and let through what is not `Disputed`
  (`UndisputedPasses`); what is offered without a dispute is then what is selected, as a video with a sound
  (`VideoOfferSelected`) or as one complete format (`CombinedOfferSelected`). `DownloadInv` says
  that an offer is what inspection makes of the medium, that what is picked is what is selected,
  and that each error has its reason.
- **`SuggestionsAreServed`** (`SuggestionsServe`): the piece that holds a second begins at the last multiple of
  the limit (`HoldsOnce`), and two multiples are at least the limit apart (`Multiples`).

**Checked by TLC and not proved**: the liveness properties `QueuedIsServed`, `RunsEnd` and `PanelSettles`, which
need fairness and ENABLED and are out of the prover's reach. Every other property of a
passing run is a theorem. The six properties that the code violates are not claimed.

## 6. What is not modelled

- SQLite's "database is locked" error, a full disk other than in `publish_file`
  and `mkdir`, and a database that was edited by hand.
- Two processes on one database: the README documents a single process.
- Schema migrations of `init_db`, HTTP middleware (request ids, headers, trusted hosts, the body limit), input
  validation and the URL guard, the scoring of search results: no state that interacts
  with the above, code whose result a unit test sees directly.
- The queries (`list`, `get`, the file of a job) and what they show of counters and
  metadata.
- Audio and thumbnails in `media_downloader.py`, and how a size estimate is computed.
- The page's batch list, form, segment markers, history list and rendering.
- The development server, a convenience around a pid file; a restore beside a running server, which `README.md:295`
  excludes; two scripts at once.
- What an interrupted restore leaves: rows and files in any combination, which only another restore repairs.
  `LibraryKept` excuses them (`excused`).
- A track left `searching` by a crash stays so, since nothing at start-up resets it;
  `search_stuck` shows the same end without a crash.
- An edit during a search: the search may settle the track with candidates for its
  old metadata (`routes/playlists.py:428`); the code promises nothing there.
- `ActiveTempKept` is claimed without resume requests: a job failed by a full queue
  keeps its old data, is not protected when a pass begins, and loses it if it is
  resumed and paused during the pass. A paused job also loses its data when the
  pause comes between the two halves of `finally` (`job_runner.py:243`); it then
  starts from the beginning.
