# A verification project for SoundCloud Desktop

TLA+ models of the parts of this repository where processes, requests, retries and crashes
interleave, the TLC runs that check them on small instances, and TLAPS proofs of what matters
most. Paths below are those of the repository (`src/` in `PROJECT.json`).

Contents: [1 Inventory](#1-inventory) · [2 Modules](#2-modules-and-how-they-follow-the-code)
· [3 Runs](#3-runs) · [4 Fairness](#4-fairness) · [5 Proofs](#5-proofs)
· [6 What the models show of the code](#6-what-the-models-show-of-the-code)
· [7 Abstractions and limits](#7-abstractions-and-limits) · [8 Not modelled, and what is left](#8-not-modelled-and-what-is-left)

## 1 Inventory

The system is a desktop client (`desktop/`, Tauri: a Rust host and a TypeScript UI), a backend
(`backend/`, Rust, Postgres, Redis, NATS), a streaming service (`streaming/`), a storage
service (`storage/`), and a Python worker for embeddings (`worker/`).

| Component | State | Operations | Talks to | What is hard |
|---|---|---|---|---|
| **sync_queue** `backend/src/modules/sync_queue/service.rs` | table `sync_queue`: one row per (user, action_type, target_urn) with payload, retry_count, next_run_at, locked_at, dead | `enqueue`, `flush` (claim, dedup, attempt, settle), `heal`, retention, admin flush and purge | request handlers, SoundCloud through `actions/`, the mirrors | enqueue is two statements and runs against rows that are being sent; leases; flushes dropped after 30 s; parked rows |
| **likes and follows** `sync_queue/mirror.rs`, `actions/{like,unlike,follow,unfollow}*`, `likes/`, `me/` | mirror tables `user_likes_tracks`, `user_likes_playlists`, `user_followings`: wanted_state, progress | `set_wanted`, `clear_wanted`, the attempts' confirmation, heal | sync_queue | an answer that comes after the user changed their mind; opposite actions that overtake each other |
| **cold_refresh** `cold_refresh/service.rs` | the mirrors again | pull of likes and followings page by page, upsert, guards, `delete_orphans` | SoundCloud's listings, the mirrors, the outbox | it reads SoundCloud and writes minutes later; it deletes what it did not see; listings are late or cut short |
| **playlists** `playlists/{service,repository}.rs`, `actions/playlist_sync.rs`, `cold_refresh/service.rs:refresh_playlist_tracks` | `playlist_tracks`, `tracks_synced_at`, `desired_rev`, `synced_rev`; a refresh lock in Redis | edits (add, remove, move, order, merge), seeding, refresh, push, heal; create, delete, sharing | sync_queue, SoundCloud | refresh against edit, snapshot in two statements, truncated paginations |
| **work substrate** `work/{mod,scheduler}.rs`, `enrich/source.rs` and the other `WorkSource`s | rows with attempts, locked_at, status; an in-memory buffer and a kick channel | claim batch, kick, run, on_success, on_failure | enrichment, crawling | attempts counted at the claim; buffered items outlive their lease; kicks dropped at a full channel |
| **indexing pipeline** `indexing/service.rs`, `transcode/service.rs` | rows of `tracks`: storage_state, index_state, attempts, quality; in-flight cache, rejection cache | kick, trigger and probe, events of storage and worker, rejection and strikes, reap | streaming, storage, NATS, Qdrant, worker | redelivered and lost events, late answers, a cache whose idle time is renewed by being read |
| **streaming** `streaming/src/{routes,services,db,cleanup}` | table `cdn_tracks` | serve, upload to storage, upgrade, cleanup | SoundCloud, storage | a record written before and after the upload; concurrent uploads of a track |
| **storage** `storage/src/{routes,pipeline,bus}` | S3 or local files; a lock per file name | gate, transcode, commit, publish, delete | NATS, S3 | what is published must be what was committed |
| **auth** `auth/{service,link_service,reaper}.rs`, `sc/` channels | sessions, login and link requests, mutexes in a cache, the failure cache in Redis | login and its background task, renewal, link claim, logout, reaper | SoundCloud OAuth | a refresh token works once; get-then-insert of locks; linked sessions; checks before awaits |
| **track cache** `desktop/src-tauri/src/track_cache/state.rs` | directories incoming, audio, liked with metadata; `active`, result slots, `transcoding` | `ensure_cached`, transcode, delayed removal, bulk likes, export, quota, deletion, recovery | streaming service, ffmpeg, the player | coalesced downloads, a transcode that races a reader, a crash between two file operations |
| **player and audio engine** `desktop/src/lib/{audio,audioPreview}.ts`, `desktop/src-tauri/src/audio_player/` | the player store, `loadGen`, the rodio player and its source position, the output device, the preview player | load, play, pause, stop, seek, rate, A-B loop, device switch, tick, monitor, hover preview | track cache, the operating system's devices | an older load that answers last; rebuilds of the player on three threads; end-of-track told twice or never |
| **lyrics** `lyrics/{service,transcribe}.rs` | the row of `lyrics_cache`, `tracks.transcribe_state`, an in-flight map of mutexes | search and save, enqueue of a transcription, answers, reaps, embedding | aggregators, JetStream, worker, Qdrant | claims and modes read apart, saves that race answers, answers twice |
| others | — | discovery, wanted tracks, artist crawl; cache; SoundCloud client; recommendations, search, discover, collab; worker; UI | — | section 8 |

What makes the parts correct:

- *sync_queue*: an action does not disappear unsent. One flush does not run two actions of a
  target. A parked row blocks nobody. What failed comes back.
- *likes and follows*: what the mirror says the user wants is what the user last said;
  SoundCloud ends with that; nothing stays "in progress" for ever. *cold_refresh*: a pull loses
  nothing the user wants and deletes only what is gone from SoundCloud, and what is changed on
  the website reaches the mirror.
- *playlists*: a refresh does not destroy an edit; `synced_rev` tells the truth; every edit
  reaches SoundCloud.
- *work substrate*: no item is run twice at a time, none is forgotten, each ends in a terminal
  state.
- *indexing, streaming, storage*: a rejection is neither swallowed uncounted nor does it leave
  the track untriggered; the quality in the row is the stored file's; a record of an upload
  does not stay "pending"; a track ends indexed, refused or banned, and an index entry has its
  vectors.
- *auth*: a session keeps a grant that SoundCloud accepts, acts only for its user, is told to
  sign in again only when its grant is dead, and a finished login stays finished.
- *track cache*: a path handed to the player stays readable, a liked track's clean file stays
  in the liked directory, each request is answered, the raw file goes at last.
- *player*: what sounds is what is shown; positions survive a rebuild; sound comes back after a
  device is lost; the end of a track is told.
- *lyrics*: a listener is shown the stored words; the vector belongs to them; a settled
  transcription stays settled, and each track settles.

**The core of the program's promise** is the outbox. A user's change is made locally first
("local first"), answered at once, and sent to SoundCloud later by `flush`, at least once, in
an order and with retries of its own. A request handler writes a desired state (mirror row, or
playlist list and `desired_rev`) in one statement or transaction, then calls
`SyncQueueService::enqueue`. `main.rs:run_periodic` starts `flush` and `heal` ticks; each runs
one call at a time under `BG_WORK_TIMEOUT`. `flush` calls `actions::execute`, which calls
SoundCloud and then writes the desired state's progress. `heal` reads the desired states and
enqueues what is pending without a row; a refresh reads SoundCloud and writes the mirror. The
tables are the only shared state: nothing else is locked between two statements, except the
playlist's advisory lock within a transaction.

**The second chain** is that of a track's file. The backend kicks the streaming service, which
fetches the file and uploads it to storage; storage commits it and publishes an event; the
backend marks the row and asks the worker for vectors; the worker answers. Lyrics hang on the
same event. The desktop fetches the file through the streaming service into its track cache,
and the engine plays the cached file.

`hazards` in `PROJECT.json` lists what in this code a test hardly reaches, at its line, with
the property that covers it, or the reason why none does.

## 2 Modules and how they follow the code

```
SyncQueue ─ SyncQueueProofs           Uploads ─ IndexPipeline ─ implements ─ TrackLife
 ├─ LikeSync ─ Reconcile                         └ IndexPipelineProofs (of both)
 │              └ LikeSyncProofs      Sessions ─ Logins ─ LoginsProofs
 └─ PlaylistSync ─ PlaylistSyncProofs
     └ (EXTENDS TrackLists)           HoverPreview ─ AudioEngine ┬ DesktopProofs
                                      TrackCache ────────────────┘
WorkPool ─ WorkPoolProofs             Lyrics ─ LyricsProofs
```

Modules to the right EXTEND those to the left; `MC<Module>` holds the instance a run checks.
`SyncQueue` is the outbox's statements, with what an attempt does left open (it returns Ok or
an error); `LikeSync`, `Reconcile` and `PlaylistSync` fill it in. They are written as steps of
it: each of their actions conjoins an action of `SyncQueue` or leaves its variables alone. So
they behave as it does by construction, which no run checks; the proof modules only note it as
a lemma, so that what is proved of the outbox holds of likes, refreshes and playlists. The
project's refinement is `TrackLife`, the abstract specification of the indexing pipeline: four
variables instead of ten, no messages and no caches, and another set of actions.

**One action is one SQL statement, one file operation, or one return of an awaited call.**
Whatever the code allows to run between two of them is a step that may come between two
actions.

### SyncQueue

| Model | Code |
|---|---|
| `queue[<<action, target>>]` | the row under the unique key; target stands for (user_id, target_urn) |
| `lockedBy`, `live` | `locked_at` is set, and by whose claim; `live` while it is within `LOCK_TIMEOUT`. `lockedBy` compares like the timestamp does: `delete_if_unchanged` asks for the very `locked_at` the claim wrote, and an id plus the worker's claim stands for that |
| `jobs` | rows a flush has claimed, copied: `picked` (claimed), `running` (survived the dedup), `ok`/`failed` (`execute_one` returned) |
| `calls` | `enqueue` between its two statements |
| `BeginEnqueue`, `CancelInverse`, `InsertRow`, `DropCall` | `enqueue` (108-146): the cancelling DELETE of the opposite row if nobody has claimed it, and only otherwise the INSERT … ON CONFLICT DO UPDATE, which clears `locked_at` and `retry_count`, keeps an old payload if the new one is NULL, and leaves `dead` |
| `Claim`, `Dedup` | `claim_batch` (232-267): UPDATE … RETURNING, then one row per target is kept and the others released |
| `AttemptOk`, `AttemptFails`, `DeleteIfUnchanged`, `ExternalBackoff`, `RetryBackoff`, `ParkDead`, `SettleFails` | `flush` and `record_failure` (152-344), the statement's own failure included |
| `WorkerLost`, `LeaseExpires` | the 30-second drop by `run_periodic`, a crash; five minutes later the lease is void |
| `Heal`, `DeleteOldDead` | `heal` (203-230) and its SQL |
| `AdminFlush`, `AdminPurge` | `admin/sync_queue.rs` |

### LikeSync

`mirror` is one of the three mirror tables (they share the code); `sc` is what SoundCloud has.
`RequestLike` is `set_wanted` and the start of enqueue; `RequestUnlike` and `WriteUnlike` are
the two statements of `clear_wanted`. `ScAnswers` is SoundCloud's change, `Confirm` the
conditional UPDATE or DELETE of `like_track.rs` / `unlike_track.rs`, and `AnswerLost` what lies
between them when the process, the network or the statement fails. `HealMirror` is
`heal_likes_tracks.sql` and its two siblings.

### Reconcile

`refresh_collection` over the mirror of `LikeSync`. `listed` is what SoundCloud's listing
shows, which follows SoundCloud at once, or later with "lag". A refresh takes its cut-off
(`old`: the rows whose `synced_at` and `created_at` lie before it), then alternates `FetchPage`
and `UpsertMirror` (`ahead` is what the pages to come may still show: a target liked after the
page was read is not on it), decides with `GuardOrphans` (complete, not empty, and not less
than half of the confirmed rows), and ends with `DeleteOrphans`. `Steady` likes are never
touched by anyone; they give the listing pages and the guard something to count. `WebChanges`
is the user on SoundCloud's website. All of `LikeSync`'s actions go on meanwhile.

### PlaylistSync and TrackLists

`tracks`, `seeded`, `desired_rev`, `synced_rev` are the columns; `sc` is SoundCloud's list;
`locked` is the refresh lock in Redis (which nobody releases: it expires). A request is `lock →
fetch → guard → replace → mutate`, the steps of `refresh_playlist_tracks` and `mutate_desired`;
a plain read ends after `replace`. `pushes` are `playlist_sync` attempts: the revision is read,
then the list, then SoundCloud takes it, then `MarkSynced`. `edited` is a history variable, the
list the last edit produced; no action reads it. `TrackLists` has the closures the repository
passes to `mutate_desired` and the result of a broken-off pagination.

### WorkPool

The work substrate with its first source, enrichment. It shares no state with the outbox.

| Model | Code |
|---|---|
| `rows[t]` | a row of `tracks`: `enrich_state` ("absent": not ingested yet), `enrich_attempts`, and `enrich_locked_at` as "none", "live" (within `LEASE_TIMEOUT`) or "expired" |
| `buffer`, `slots`, `idle` | the loop of `scheduler.rs`: the claimed items, the items that hold a permit, and whether the loop is in its `select!` |
| `kicks` | the channel of `Kicker`, with `KICK_BUFFER` places; a set, because a track is new only once |
| `holds` of an item | a history field: `enrich_locked_at` is still what the item's claim wrote. The code never looks at it; of the actions only `LeaseExpires` does, to say what "late" means |
| `Ingest` | `ingest_track_from_sc`: the upsert, and `try_send`, which drops the kick when the channel is full |
| `Refill`, `Dispatch`, `Tick`, `ReceiveKick` | `spawn` (53-94): a permit, then a batch when the buffer is empty, then one item; when there is none, a tick or a kick. `Taken` is the claim's UPDATE: attempts + 1 and the lease |
| `Enriched` | `persist::apply`, one transaction: `finalize_track`, and `repoint_uploader_tracks`, which makes other finished tracks wait again |
| `RunFails`, `WriteFailure` | `run()` returns an error; `on_failure` writes dead or failed by the row's id |
| `GivenUp` | the run reaches the timeout, or the terminal write fails: the permit is released and the row is left |
| `Crash`, `LeaseExpires`, `Retry` | buffer, permits and kicks are gone, the rows stay; the admin's two resets |

### Uploads, IndexPipeline and TrackLife

| Model | Code |
|---|---|
| `file`, `Commit`, `StoreFails`, `DiesUnpublished` | storage's pipeline under its lock per file name: the gate, the transcode, the commit |
| `cdn`, `InsertRecord`, `RecordAccepted`, `RecordRefused` | `streaming/src/db/postgres.rs` and the upload of `services`: the record is "pending" while the upload runs |
| `AcceptKick`, `ServeMissing`, `Play`, `StartUpgrade`, `DeleteFile`, `DeleteRecord` | streaming's routes and its cleanup |
| `rows[t]` | storage_state, index_state, attempts, quality, hq_pending, s3 of a row of `tracks` |
| `trig`, `inflight` | the task of `TranscodeTriggerService` and its cache; its time is counted in reaps |
| `Kick`, `Probe`, `MarkProbed`, `PostAccepted`, `PostFindsFile`, `TriggerFails` | a trigger: the cache, the probe of storage, what it writes, the POST |
| `events` | messages of storage and worker, each with the step its handler has reached |
| `ReadRow`, `MarkStored`, `PublishIndex`, `BanLong`, `SwallowRejection`, `TakeRejection`, `Strike`, `NoteStrike`, `UpsertVectors`, `MarkIndexed`, `Nak` | the handlers of `indexing/service.rs` and of the worker; a rejection looks into the dedup cache, counts, and notes, each a step, and each may fail and come again |
| `Reap`, `Restart`, `LoseEvent`, `DedupExpires` | `reap`, a restart of the backend, a lost event, the 240 s of the rejection cache, which a message that comes again may outlive |

`TrackLife` forgets messages, caches, uploads and retries; `Life` in `IndexPipeline` is the
mapping: `Stage` of a row, its strikes capped, the vectors, and which rows are indexed.

### Sessions and Logins

`sessions` are rows with a token (access and refresh token of one answer are one) and an age;
`live` are the tokens SoundCloud accepts, where using a refresh token kills it. A request
`Open`s a session, `GetLock`/`InsertLock` are the two halves of `get_or_create_lock`, `Reread`
is the look at the row under the lock, `Granted`, `Refused`, `NotReached` and `AnswerLost` are
what a channel (direct, proxy, relay) gives, `Save` is the UPDATE and `Verdict` the failure
cache. `Claim`, `Copy`, `MarkClaimed` are the link claim's three statements. `Logins` adds
`Initiate`, `Callback` (the conditional UPDATE), and the background task: `Exchange`,
`SaveSession`, `Complete`, with the retry by another app.

### TrackCache

One track. `disk` is the file and the metadata in each of three directories: it alone survives
a `Restart`. `Win`, `Join`, `Register`, `Check`, `Sleep`, `Wake` are the coalescing of
`ensure_cached` (the waiter registers for the notification before it checks again), `Land` and
`Stamp` the rename of the download and the write of its metadata, `StoreResult`, `Notify`,
`Leave` the end of the winner. `Open`, `Commit`, `Judge` are the transcode, with
`TooShort`/`Discard` for a file shorter than the API says; `TimerFires` is the removal of the
raw file after its grace; a request's path is "handed" until `PlayerReads`
(`audio.ts:loadCachedFile`, which resolves the path again once when the file has vanished).
`StartLikes`, `LikeLooks`, `LikeAsks`, `CancelLikes` are the bulk caching; `ExportCopies`,
`RemoveCached`, `EnforceLimit`, `Recover` the rest.

### HoverPreview and AudioEngine

`HoverPreview` has the controller of `audioPreview.ts` (active and pending track, timer,
generation), its starts (cache → decode → answer) and the engine's second player. `AudioEngine`
has `audio.ts` (`ui`, `loads`; `Follows` and `Skips` are its subscription to the store, the
second for a track the user dislikes), the player store (`shown`), the rodio player (`player`:
source position and rodio's time), the engine's state (`engine`: bytes, anchor, rate, loop),
the audio-output thread with its command queue (`output`), and three threads that rebuild the
player (`jobs`): main (seek, device switch), tick (reload, A-B loop, stall) and monitor
(default output changed). `commit_loaded_track` writes the player, the bytes, the anchor,
`has_track` and the flags one after the other (`CommitPlayer`, `CommitState`), and a reload may
read between them: one that reads before the anchor is written takes a position that is not the
new track's. A rebuild is `Captured` → `Reopened` (for a switch) → `Jump` (the new player is
built) → `Install`, and other threads run between.

### Lyrics

One track. `row` is its row of `lyrics_cache` (the words, the words that have time stamps, and
whether it is embedded), `state` its transcribe_state, `req` the calls of `ensure_lyrics`
(read, mutex, search, save), `enq` those of `enqueue_transcribe` (find audio, read the mode,
claim, publish), `jobs` and `answers` what is under way in JetStream. `Disable`, `Align`,
`InsertSelfGen`, `MarkDone` are the ways an answer is persisted: an align too sets `synced_lrc`
to whisper's own words, since the worker gives the plain text to whisper as a prompt only
(`worker/src/handlers/transcribe.py:142`); `ReapWhisper`, `ReapEmbeds` and `GrowsStale` the
reaps; `Embed`, `UpsertVector`, `MarkEmbedded` the vector.

## 3 Runs

Every run has deadlock checking on, and every run is expected to pass. What may go wrong in a
behaviour is chosen in its initial state from a set of *scenes* (`Scenes`, `FaultMixes`,
`Starts`; `Faults` of PlaylistSync and WorkPool is one scene for the whole run). An action that
shows a fault is enabled only in a scene that has it, so that one run covers many combinations
of few faults each, and a property can say which faults it excepts. What it excepts is a
behaviour of the code that breaks it; section 6 lists those.

| Run | Instance | Holds | States |
|---|---|---|---|
| `sync_queue` | outbox alone; a pair of opposite actions and one with payloads, one target, one flusher, one request at a time | `LeasedRowUntouched`, `RowsLeaveSafely` | 73,564 |
| `like_sync_faults` | one target, *every* fault of the outbox and the likes | `AnswerIsCurrent`, `IntentIsTheUsers`, `MirrorSettles` | 36,522 |
| `reconcile` | one target and three likes nobody touches, pages of two, seven scenes | `PullLosesNothing`, `OrphansOnly`, `MirrorConverges` | 175,721 |
| `playlist_sync` | two tracks, two requests at a time, every fault but a stale refresh and edits on the website | `SyncedIsDelivered` | 610,508 |
| `playlist_sync_faults` | one track, two requests, those two as well | `PendingIsKept`, `MarksWhatWasSent`, `EditsSettle` | 80,384 |
| `work_pool` | two tracks, two permits; failures, timeouts, lost writes, crashes, resets | `OneRunPerTrack`, `DeadIsSpent`, `TracksEnd`, `FailureKeepsLease` | 9,407 |
| `index_pipeline` | one track, six mixes of faults | `QualityIsTrue`, `NoStuckRecord`, `ImplementsTrackLife` | 1,912,852 |
| `index_settles` | the same under fairness, two mixes | `TracksSettle` | 139,672 |
| `logins` | two users, three sessions, two requests, one login; ten starts | `KeepsGrant`, `ActsForItsUser`, `ReauthIsTrue`, `FinishedForGood` | 568,923 |
| `track_cache` | one track, two callers, six scenes | `HandedPathLives`, `LikedBoundKept`, `RequestsAnswered`, `RawIsDropped` | 281,958 |
| `lyrics` | one track, two requests, two enqueuers, five scenes | `ShownIsStored`, `VectorMatches`, `SettledForGood`, `LyricsSettle` | 542,816 |
| `audio` | two tracks, fifteen scenes | `PreviewMatches`, `PlaysAsShown`, `PositionIsExact`, `SoundComesBack`, `EndIsTold` | 480,330 |

Each property has a mutant in the module it guards (marked `(mutant)`, not used by the
specification): a plausible bug under which TLC finds the property violated.

**Bounds and why they are enough.**

- *Outbox.* `MaxRetries` 1 or 2 instead of 5: the code only compares `retry_count + 1` with it;
  2 gives both branches, 1 is used where only parking is the question. `Ids`: an id that no row
  and no job remembers is as good as a new one, since ids are only compared; `FreshId` picks
  one with CHOOSE among symmetric values, and an insert waits while every id is taken. The
  likes and the playlists never wait; in `sync_queue` five ids make an insert wait only when
  three rows were purged while a flush had them in hand: with six, TLC finds 73 620 states and
  the same results. One `Worker`: the backend as deployed has one flushing process, and
  `run_periodic` never overlaps its own calls. The theorems hold for any number (except
  `AnswersCurrent`, which says so). One target: every rule of the claim is about rows of the
  same target.
- *Reconcile.* Three steady likes and pages of two (instead of 200) give a listing of two pages
  that may end on the limit or short of it, be cut anywhere, and fall under or stay above the
  half that the guard asks for. The run's three steady likes are one choice of which listings a
  refresh may delete by, and `MirrorConverges` names that condition itself (`Conclusive`): it
  was also checked with none, one and two, where the listing may be empty or end with a full
  page, and holds. One refresh at a time; safety was also explored with two ({overlap, race,
  lag, cut}: 949,783 states; {web, lag, cut}: 108,530; {web, race, overlap, fail, exhaust, lag}
  with one: 1.56 million).
- *Playlists.* `MaxRev` 2: an edit that overtakes an edit. Lists of at most two different
  tracks tell order, loss and truncation apart. Two `Callers`: a refresh and an edit, or two
  edits; a caller that has finished begins again.
- *WorkPool.* Two tracks and two permits (two runs at a time, and a kick beside a batch), a
  channel with one place, so that the second track's kick is dropped, and `MaxAttempts` 3: a
  first attempt, one that is neither first nor last, and the last. Batches have any size up to
  all tracks.
- *IndexPipeline.* One track: no statement, cache entry or message concerns two. One upload at
  a time except with "overlap" (a second one), two messages under way, `MaxStrikes` 2 (a first
  strike and the last), `IdleReaps` 1. The mixes pair faults that touch the same rows; faults
  that touch nothing in common are in different mixes.
- *Logins.* Two requests are what a lock excludes; a third session row is the copy a link
  makes, or one that takes an id. Three serials per user: the token in the row, the one being
  granted, and one more in another request's hand; a serial nobody holds is used again. Two
  channels: a first that fails and a last.
- *TrackCache.* Two callers: a winner and one that waits. One truncated retry instead of two,
  two removals pending, one restart.
- *Lyrics.* One text of each kind the code tells apart (synced, plain, more than 30 bytes but
  less than 30 characters, just 30 characters, short) and whisper's; one fault per behaviour
  (safety also with two: 1.47 million states).
- *AudioEngine.* Two tracks of length 4 with rates 1 and 2, so that source time and rodio's
  time differ; two device events; two loads; queues of two commands. The scenes pair what acts
  on the same state: seeks, rates and loops with one another and with devices, skipped tracks
  with ends and devices, and ends with seeks, failed loads and devices that die or go mute.

## 4 Fairness

Safety is checked and proved without fairness.

*Likes, playlists* (`FairLikeSpec`, `FairPlaylistSpec`):

- *weak* fairness of settling a job, of lease expiry and of `HealMirror` / `HealPlaylist`: a
  timer or a tick, always taken when it stays enabled. The heal tick is started again every
  time by `run_periodic`, whatever the previous one returned;
- *strong* fairness of a claim that includes the target, of the dedup, and of each step of a
  successful attempt: a flush can be dropped, a statement can fail and SoundCloud can refuse,
  again and again, but not always at the same place for ever. This is the meaning of
  "eventually SoundCloud answers"; without it a service that refuses a target for ever refutes
  any liveness. Claims are ordered by `next_run_at`, whose backoff is capped, so a row comes to
  the front again.

No fairness of users, requests, admins or `DropRequest`: a request may stop anywhere, and
`MirrorSettles` and `EditsSettle` hold because heal looks at the tables. *Reconcile*
(`FairReconcileSpec`) adds that requests are carried out, that SoundCloud's listing catches up,
that a refresh reads on, and that one starts again and again when every row is old: a user who
comes back after the cooldown. `MirrorConverges` is conditional: from some time on the user and
the website leave the likes alone, and no listing is cut. Then the mirror comes to have every
like that SoundCloud has. That it has no *other* is promised only for listings a refresh may
delete by (`Conclusive`): an empty one (`cold_refresh/service.rs:359`), one that ends with a
full page (581) and one of less than half of the mirror (729) leave what is gone in the mirror
for as long as they last.

*WorkPool*: weak fairness of the tick, the claim, the dispatch, of a permit (its item ends in
some way or fails: `run()` is bounded by a timeout) and of the expiry of a lease, and strong
fairness of a batch that includes a given track. The last is more than the code promises under
endless arrivals of more urgent tracks (ORDER BY index_priority); it says that they pause from
time to time. Kicks and ingests are not fair, and nothing keeps an admin from resetting a track
again and again: `TracksEnd` excepts that.

*IndexPipeline*: timers fire and messages are handled (weak); a trigger's POST, a handler and a
reap that takes the track succeed if tried for ever (strong); the backend does not restart for
ever (`<>[][~Restart]`), since each restart forgets the caches.

*TrackCache*: each request goes on (downloads have timeouts), a player opens what it was given,
the transcode runs, recovery runs, each timer fires. Users and the acquisition of ffmpeg owe
nothing. *Lyrics*: queues, timers and reaps run, what was spawned goes on, a claim grows stale
when nothing is on its way; uploads and requests owe nothing, and failures are bounded by
`MaxFaults`. *AudioEngine*: tasks, threads and the event listener of the webview run; listeners
and devices owe nothing. *Logins* has no liveness: its promise is that nobody has to sign in
again without need, which is safety.

## 5 Proofs

Assumptions: the named ASSUMEs of the modules (`InverseAssumption`, `KindAssumption`,
`RetryAssumption`, `NobodyAssumption`, `NullAssumption`; `LikeAssumption`, `RefreshAssumption`,
…; TLC evaluates all of them in the runs). Nothing bounds the sets (the targets of `Reconcile`
are finite, because it counts them, but of any number): the theorems hold for any number of
actions, targets, processes, requests, tracks, revisions and retries.

**SyncQueueProofs.** `TypeCorrect`, and `IInv`, the inductive invariant of the outbox: types,
`JobsDistinct` (two jobs of a worker are different rows), `PhasesAgree` (the rows of a flush
pass the dedup together), `BatchSerial`, `DeadRowsHoldNoLease` and `LeasedRowUntouched`. Why
the strengthening: `LeasedRowUntouched` survives another claim by the same worker only if that
worker has no job left of the same key, `BatchSerial` survives the dedup only if no row of the
batch is already running, and the claim copies a row that is not dead. From it: `LeaseSafety`,
`BatchSerialised` (one flush does not run two actions of a target), `DeadNoLease` (a parked row
is in nobody's hand), and the action property `RowsLeave`: the row that `delete_if_unchanged`
removes is the one whose payload was sent, because every statement that changes a row's payload
also clears `locked_at`.

**LikeSyncProofs.** `LikeTypeCorrect`, with `AckedRunning` (an answered attempt is a running
job). `LikesLeaveSafely`: what `RowsLeave` proves of the outbox holds of the likes, whose steps
are written as its steps (`LikesAreSyncQueue`). `IntentKept`: no answer, heal or retry changes
what the user wants (`IntentIsTheUsers`): the conditions on `wanted_state` in the attempts'
UPDATE and DELETE carry the proof. `AnswersCurrent`, for one flushing process: `BatchSerial` of
the outbox is used to exclude a second running attempt of the target.

`NoWishLost`: if no request, flush or answer is dropped, and no two requests of a target nor a
request and an attempt overlap (`Spared`), then nothing is lost for good (`NoPermanentLoss`),
however SoundCloud refuses, an admin purges and heal runs. `Core` is inductive:

- `RequestsAlone`: one request of a target at a time, and none while an attempt is under way;
- `AskedFits`, `RowsFit`, `JobsFit`: what is being enqueued, waits or is tried is what the
  mirror wants; a row that is not has a request that is about to cancel it, and can, because
  nobody has claimed it;
- `MirrorAgrees`: a wish not in progress is what SoundCloud has; one in progress is the
  opposite, until SoundCloud's answer is on its way to the mirror. So `set_wanted` and
  `clear_wanted` may take `progress` for "SoundCloud has not got it".

The proof attempt corrected the model twice. `clear_wanted` deletes by what it has read, so two
*requests* of one target that overlap (a double click) lose a wish as a request and an attempt
do; "overlap" is now the fault for both. And the listing's "first page" was the one before any
like that nobody touches had been read, while the code's is the one without a cursor (`First`).

*Refreshes*, in the same module. `ReconcileLeavesSafely` is the same with refreshes, late
listings and the website. `PendingWishes`: no step of a refresh changes a mirror row whose
progress is pending from wanted to unwanted or back; it rests on the condition of
`batch_upsert_mirror` and on the `progress` test of `delete_orphans`.

`PullsLoseNothing` is `PullLosesNothing` for any number of targets, requests, flushes and
refreshes. Its invariant is `Core` (of LikeSync, above) and `ListingInv`: without the website,
lag and races the listing is what SoundCloud has (`listed = sc`), and each refresh
`ReadsTruly`: what it has seen is liked, what is liked and not seen is on the pages to come,
and a listing that passes for complete has shown every like, or less than half of those that
nobody touches, which the guard of `delete_orphans` refuses. So a refresh finds no orphan
(`NoOrphan`), and `batch_upsert_mirror` changes only rows that SoundCloud's answer is about to
change in the same way (`UpsertConfirms`).

`OnlyOrphansGo` is the action property `OrphansOnly`: what `delete_orphans` takes, SoundCloud
does not have and nothing is bringing there. It holds with the website *or* with races, with
lag, cuts, overlaps, lost answers and any number of refreshes at a time. `PullsLoseNothing`
could compare the listing with SoundCloud; here they differ, so the invariant speaks of one
refresh and one row. `Spares` says of each row a refresh may still delete, and that is wanted
and not in progress: no action for it is on its way, and if SoundCloud has the like then the
listing shows it and the refresh has seen it, will see it, or will be refused by the guard
(`InSight`). Two summaries carry it. `CarriedOver`: no statement of the outbox but `enqueue`
and `heal` brings an action on its way. `LikeStays`: a step of the likes that does not touch
the row (`created_at` or `synced_at = now()`, which takes it out of the refresh's reach) leaves
no row at rest that was not, and makes SoundCloud like it only through an action that was on
its way. `Spares` does not survive a change on the website *during* a refresh, nor an action
that SoundCloud refused for longer than the grace period: the two exceptions of the property.
The lemma on a page (`PageReads`) was stated for what SoundCloud has; it now speaks of any set
the listing shows and serves both theorems.

**PlaylistSyncProofs.** `PlaylistTypeCorrect`, `PlaylistsLeaveSafely`, `SyncedDelivered`, and
`PInv`, the inductive invariant of the desired state:

- `RevisionsOrdered`: `synced_rev` and every revision an attempt has read are at most
  `desired_rev`, so an edit takes a revision nobody has read;
- `PendingIsKept`: while an edit is pending the table holds it;
- `SnapshotIsCurrent`: an attempt that read the current revision *of a pending edit* has read
  the edit's list. "Of a pending edit" is needed: `desired_snapshot` reads the revision and the
  list in two statements, and when the edit has been marked meanwhile by another attempt, a
  refresh may replace the list between the two.

`PInv` is inductive; from it `PendingKept` and `MarksSent` (the mark is given to the current
revision and only when its list is what SoundCloud has taken). For `MarksSent` the case of an
attempt whose revision is current and *not* pending leaves `synced_rev` as it is.

`SyncedDelivered` is `SyncedIsDelivered` for lists edited here alone, refreshes that do not
overlap an edit, and one flushing process (`OneSide`). Its invariant adds `PushesDeliver` (an
attempt that read an old revision leaves its edit pending; one that read the current revision
sends that edit, and what SoundCloud has taken of it, it still has) and `ReadsAgree` (what a
refresh has read is the list of the last edit or its first pages). A truncated answer that is
not shorter than the list is the list (`TruncatedIsShorter`), which is why the length test of
the refresh is enough here. `BatchSerial` of SyncQueue makes the pushes of a playlist come one
after the other.

**WorkPoolProofs.** `WorkTypeCorrect` and `LeaseCounted` (a locked row has been counted) hold
with every fault. `OneRun`, `DeadSpent` and `LeaseSafe` assume `Calm`: no item outlives its
lease ("late"), no admin resets a track in hand ("clobber"). The inductive invariant is `HInv`
with `IdleIsEmpty`. `HandsHold`, that each item in hand has the live lease and the count of its
row, is what makes a claim unable to take a track in hand (`TakesFree`) and `on_failure`'s
decision right. `IdleIsEmpty`, that the loop waits only with an empty buffer, is what makes a
kick's item the only one there.

**IndexPipelineProofs.** `IndexTypeCorrect` is type correctness. Most of the module then says
once, for each variable, which steps change it and how (`EventMoves`, `UploadMoves`,
`RecordMoves`, `RowMoves`, `FileMoves`, `DedupMoves`): an event only goes on, an upload begins,
moves on or leaves, a row is stored, lost, retried, struck, banned or marked. The invariants
follow from these summaries and not from the forty actions one by one.

- `IndexingImplementsTrackLife`, for any number of tracks, strikes and reaps, and with every
  fault: the initial states map to those of `TrackLife`, and every step to one of its steps or
  a stutter. It needs `MarksFollow`: a message that will mark a track as indexed is sent only
  after its vectors are stored. What is proved of `TrackLife` once is carried over by it:
  `IndexedAndRefused` (an indexed track has its vectors, a refused one has spent its strikes;
  both are facts of the pipeline's own rows by `RowsKept`) and `BansLast` (nothing brings back
  the file of a track that is too long).
- `RecordsSettle`. `RecordsAwaited` says that a pending record has the upload that will settle
  it under way, and it needs `OneUpload` (uploads of a track come one after the other).
- `QualityTold`. `QualityKnown` says of every stored file that either an event which tells its
  quality is on its way, or an upload which will publish one has still to do so, or the row
  already says it.

**LoginsProofs.** `LoginTypeCorrect`, with `RequestOK` (a request under way names its session,
one that sends or copies has a row) and `ClaimOK` (a task is the only one of its login, whose
row is in processing or deleted). `LoginsEndOnce`: a task writes only a login in processing,
hence none that has ended. Four invariants of the sessions, each kept by the actions of both
modules:

- `RenewedOnceAtATime`: `MutexInv` says that, without "race", a request which waits, sends or
  saves has the mutex that the map has for its session, and that of each session one request
  holds it;
- `SessionsActForTheirUser`: `OwnerInv` adds that every row a request has read is of the user
  its token names, and that what is being renewed is for the user the session still names;
- `GrantsKept`: `GrantInv` adds that a grant which has been renewed and is still to be written
  works, and that no token is known to two sessions, nor to a session and the renewal of
  another. It rests on `MutexInv`: nobody else renews between the read under the mutex and the
  write;
- `ReauthOnlyOfTheDead`: `ReauthInv` adds that what a request sends is what the session has,
  and that a grant renewed but not yet written is not remembered as refused. The proof attempt
  showed that this fails when the reaper frees an id whose failure is remembered and a link
  takes the same id. Ids are random UUIDs, so `FreeIds` leaves out the ids that a failure or a
  request still names.

Proving also sharpened two properties that no run had refuted, because none had both
conditions: with listeners' uploads *and* overlapping ones, the second upload finds the record
of the first and its own stays pending (`NoStuckRecord` now excepts "overlap"); and the local
backend keeps an equal file but publishes the new quality (`QualityIsTrue` is of S3).

**LyricsProofs.** `LyricsInv`, for any number of texts, listeners, jobs and faults, is the
shapes (`ShapeInv`: a search that saves has a text, what is claimed has a mode) and `OneText`:
a row without a text is the empty row, and everything that holds or carries a text (what a
listener was shown, the results in the mutexes, the queue of embeddings, vectors on their way)
fits the row (`Follow`). It holds because the row's words never change once there are some:
each INSERT writes only where there is no row (a listener's save fails beside one,
`insert_self_gen_lyrics.sql` does nothing), and what an INSERT did not write is neither shown
nor embedded. The words with time stamps do change, once: an align writes whisper's own into a
row that has none. So `Fits`, of what was shown and the row, is not equality: the words are the
row's, and the timed words are the row's or there were none yet and those of the row are
whisper's. A listener before an align and one after it do see different timed words, and
`ShownIsStored` says that this is the only difference there is. The vector is of the plain
words, which an align leaves. From it `LyricsTypeCorrect`, `OneTextShown`, `OneTextEmbedded`
and, as an action property, `SettledLasts`. `NoTextAssumption` says that the sign for "no text"
is no text.

**DesktopProofs.** Three parts, one per window on the desktop.

- *The hover preview* (`PreviewIsActive`). `PreviewInv`: generations tell the starts apart
  (`GensInOrder`), the newest start may still be heard (`NewestMay`), a start that waits for
  its answer has been played or came too late (`AnswerIsKnown`), and what is heard is active or
  has an answer under way (`HeardIsKept`). `NewestMay` is the part that needs `GuardPreview`,
  the store's subscription: every change of what is shown ends the newest start.
- *The track cache* (`CacheTypeCorrect`, `HandedPathsLive`, `LikedBoundIsKept`). `Genuine`: in
  a behaviour without short downloads no file is short. `HandedKept`: a removal is pending only
  beside a clean file, and waits for whoever was handed the raw one; a slot that says "ok" has
  a file. `BoundKept`: the bulk run is the only request, it downloads only what it has not
  found, a transcode keeps its raw file, and it ends in the directory that file is bound for.
- *The player* (`PlayerInductive`, `PlayerAsShown`, `PositionExact`). `PlayInv` has nine parts:
  shapes (`PlayShape`); one load at a time, of the track that is shown (`OneLoad`); no player
  before a load has built one and nothing to rebuild it from before it has committed
  (`LoadIsAlone`); the player is of the bytes, and of the track shown when audio.ts has one;
  when audio.ts has none, it has come to its end or has been let go for a disliked track
  (`TracksAgree`); what is heard, loaded *or being rebuilt* is paused when the store says so
  (`PausedAsShown`); a rebuild is of the bytes there are (`JobsAgree`); an end is told once
  (`EndOnce`); without events of the devices the stream stays (`Quiet`); the position told is
  the one played, once a load has set the anchor (`Exact`). A rebuild on another thread keeps
  these because what it captured cannot have changed when it installs: the listener waits for
  it ("hurry" excepted), a load rebuilds only when no rebuild is under way, and an end that is
  told leaves all threads free. The arithmetic of rates is in three lemmas (`PositionFacts`,
  `Halved`, `Played`); it needs a track of even length, since a player at rate 2 halves and
  doubles positions (`AudioAssumption`).

The proof of the player sharpened `PlaysAsShown`: a pause during a load ("early") beside a
rebuild that had captured the player before the pause is undone when the rebuild installs. No
scene had both, so no run had refuted it; `Undisturbed` now excepts the pair (section 6).

**Model-checked only**: liveness, because fairness and ENABLED are out of the prover's reach
(`MirrorSettles`, `MirrorConverges`, `EditsSettle`, `TracksEnd`, `TracksSettle`,
`RequestsAnswered`, `RawIsDropped`, `LyricsSettle`, `SoundComesBack`, `EndIsTold`), and what
the folds of `TrackLists` compute, because induction over data is (the proofs use that an edit
of a list in `Lists` is in `Lists`, `ListAssumption`, and what SubSeq does to a list that is
cut). Every other property of a run is stated by a theorem. Type correctness is proved for
SyncQueue, LikeSync, PlaylistSync, WorkPool, IndexPipeline, Logins, Lyrics, TrackCache and
HoverPreview (in `PreviewInv`), and for the player where `Undisturbed` holds (`PlayShape`).

## 6 What the models show of the code

Each of these was met while modelling. The properties except the behaviour by a fault of its
own (named where there is one): put the fault into a scene and drop the exception from the
property, and TLC shows it.

**Outbox and likes.** Like, unlike, like while the first like is on its way ("overlap"):
`clear_wanted` takes `progress = true` for "not sent yet" and deletes the mirror row, `enqueue`
cancels an opposite row that nobody has claimed, and SoundCloud and the mirror differ until a
refresh pulls the likes (`NoPermanentLoss`; `heal`'s comment: "makes permanent loss
impossible"). Two requests of one target that overlap can do the same: `clear_wanted` writes by
what its SELECT has read. `set_wanted` on a row that waits for an unlike writes `progress =
false`; if the like it enqueues is parked, no heal statement sees it. ON CONFLICT does not
clear `dead`: an action enqueued again after it was parked is never run, unless its type has a
heal statement. `flush`'s doc (`service.rs:151`) says that at MAX_RETRIES the row is deleted
with a warning, the code parks it; `enqueue`'s (107) that a second enqueue is a no-op (DO
NOTHING), the code refreshes the row; the dedup's (247) that the earliest row of a target
survives, but RETURNING has no order.

**Refreshing likes.** A page read before an unlike and written after it inserts the row again,
or clears the progress of a like made again, whose parked action then leaves the row to
`delete_orphans` ("race"). The last like removed on the website is never deleted (an empty
listing is not trusted), nor is any when the number of likes is a multiple of the page limit
(the listing counts as incomplete) until the number changes. A listing that is cut silently by
less than half deletes what it lacks. The client's `access` filter on its own likes
(`me/handlers.rs:57-60`) makes a partial listing look complete. A track that appears on two
pages of one batch makes the single INSERT … ON CONFLICT fail. The refresh lock (60 s) is
shorter than a long refresh, and MAX(synced_at) is renewed by each confirmed like, so an active
user's likes are pulled rarely.

**Playlists.** The refresh fetches outside the advisory lock; if the edit made meanwhile is
also *synced* before the refresh replaces the list, nothing is pending and the old list comes
back ("stale"). A refresh lock that somebody holds makes `refresh_playlist_tracks` return Ok
without a list, the edit starts from nothing, and `playlist_sync` sends that over SoundCloud's
list ("unseeded").

**Work substrate.** The timeout of a run counts from its dispatch, the lease from the claim. An
item that waits in the buffer (a batch is four times the number of permits) may start after its
lease; its failure then clears the lease of the track's next claim ("late"), which is what
`dispatch` takes care to avoid after a timeout. Attempts are counted at the claim and only
`on_failure` writes "dead": a process that dies, or a run that times out, in its last attempt
leaves a row that no claim takes and nobody marks (`work/mod.rs:11` promises a terminal state).

**Indexing.** `insert_cdn_track` keeps the old id on conflict but returns a fresh one, so the
record stays "pending" ("again"; so does a second upload that overlaps a listener's). The
in-flight cache is renewed by each reap that asks it (`transcode/service.rs:71`, against the
comment at 50-52), so a track whose upload died silently is not kicked again while reaps ask
("silent"). One rejection may be two strikes: its UPDATE commits and the reply is lost, so that
the message is NAKed with nothing in the dedup cache; two deliveries look into the cache before
either notes; or the message comes again after the cache's 240 s (`bus/nats.rs:416-417`: 120 s,
five times). So a track may be refused after two rejections, and no property says otherwise.
`reap_failed_retry` leads to `mark_missing`, which turns 'failed' into 'missing', and no reap
selects that. A second rejection within 240 s is swallowed before `invalidate_inflight`
("hasty", "listen"). An sq event over stored hq sets quality sq. `s3_verified_at` never
expires. `mark_indexed` has no guard against too_long, and `mark_missing` races
`mark_storage_done`. The local backend keeps an equal file but publishes the new quality.

**Auth.** A link is claimed twice by overlapping claims (`link_service.rs:110`), and linked
sessions share a refresh token (:145), so the first renewal ends the other's grant.
`get_or_create_lock` (`service.rs:931`) lets two requests hold two mutexes and renew twice: a
false "reauth" ("race"). A login of another user that comes between a renewal's read and write
leaves the session with the other user's tokens ("switch"). The remembered "reauth" is not
cleared by signing in again. A renewal whose answer was lost is sent again on the next channel,
and the 400 it gets there counts as a dead grant (`service.rs:200-202`). The last channel's
error wins. Cleanup deletes a login that is being processed.

**Track cache.** A crash between the rename of the transcode and the write of its metadata
keeps a truncated file for ever (the check at 1063 never fires for it; comment 137-138). A
discarded short file takes raw and clean away without grace. A like coalesced onto a play's
download ends in the audio directory, where the quota may take it (doc 1976-1979). A recovery
or queued transcode, or the quota, that runs between the rename of a download and its metadata
reads the old metadata ("early"). A play's late stamp takes a liked destination back.
`clear_cache` wipes raw files bound for liked. An old removal timer takes the raw file of a
newer download (comment 1345-1347). `promote_to_liked` copies non-atomically when it cannot
rename. A cancel before the reset of its flag is lost. A panic in the winner leaves the active
entry for ever.

**Player.** `load_file` has no generation check and Strategy 1 of `loadTrack` returns without a
stop for a stale load (`audio.ts:358`): of two overlapping loads the older may be installed
last and sound under the newer track ("hurry" with "overlap"). `prev()` with an empty queue
stops without bumping `loadGen`. Toggling during a load starts a second one. Play, pause and
stop use try_lock and are lost while tick holds the lock ("busy"). A pause during a reload is
undone by the installed player (`device.rs:91-97`); so is a pause during a load ("early") when
a loop or a device change has captured the player before it. An "ended" on its way when the
listener clicks next skips twice; a reload after the end tells it again (so nothing is promised
about an end being told once when devices change; without them `EndOnce` proves it). A disliked
track is skipped without stopping the player (`audio.ts:585-596`): the last track sounds on
while another is shown or loaded, and when the queue has no other it plays to its end;
`PlaysAsShown` excepts that state. The skip calls `next()` within the subscription, and a
second time when the track before it had shown a transport, because clearing that is itself a
change of the store that finds the same disliked track. An A-B-loop or seek rebuild that races
a load installs the old bytes. A change of rate during a reload makes the position inexact.
While the autopilot has nothing yet, any change of the store loads the old track again. A
hover's pending track is forgotten when an earlier start answers.

**Lyrics.** The mode is read before the claim: a "full" job that finds an aggregator's plain
row ends done without synchronising it. `insert_lyrics_cache` has no ON CONFLICT, so a
concurrent save is an error to the listener. The invalidation after 5 s may drop a newer mutex.
Pending may grow stale while its job is still queued: two jobs. Rust counts bytes, SQL and
Python characters: texts of more than 30 bytes and less than 30 characters are sent to the
worker and skipped there; one of just 30 characters is embedded, but if its embedding is lost,
no reap takes it (`> 30`) and only a listener's request sends it again. A restart loses the
spawned `after_found`, which the reaps make good. `mark_transcribe_done` may overwrite
"disabled" of a track that is too long. Reaps ordered by created_at starve behind rows that
never progress.

## 7 Abstractions and limits

- `next_run_at`, ORDER BY and LIMIT: a claim may take any set of the rows its other conditions
  allow. Safety results therefore hold for every backoff and batch size.
- Claim and heal are atomic. Under READ COMMITTED two claims of two *processes* could each miss
  the other's uncommitted lease; with one flushing process this cannot happen. A heal statement
  and an enqueue of the same key read different snapshots; what could come of that, beyond a
  heal of a row whose flush is running, is not modelled.
- A flush that is dropped does not change SoundCloud any more after it is dropped. A request
  whose bytes are already on the wire could still take effect: that is an attempt that was
  answered and lost (`AnswerLost`, `WorkerLost` after `ScAnswers`), except for one that arrives
  after a *later* attempt; the lease of five minutes makes that practically impossible and it
  is not modelled.
- The heal statements look only at rows that are 15 minutes old. `LikeSync` lets heal come at
  any time ("heal_race"), or only when no request is under way; a playlist's heal at any time.
- Each Like/Unlike pair is checked by itself: the pairs share no state but the table, whose
  rules never relate two targets or two pairs.
- Reconcile assumes that listings lag, requests and outbox delays are shorter than
  `ORPHAN_GRACE_SEC` (300 s) for the rows it calls old (unless SoundCloud refuses: "fail"),
  that the listing is newest first, and that a cut that nobody notices loses more than half. A
  visitor's refresh deletes nothing and is one without old rows. When a refresh may start
  (MAX(synced_at), the lock) is left open.
- `fetch_all_pages` of a playlist reads SoundCloud at one moment, or a prefix of it. The two
  reads of `ensure_desired_seeded` are one; the seeding of the refresh lock in Redis expires at
  any time.
- A playlist's metadata upsert and `needs_meta` are left out. So are create, delete and
  sharing: the playlists of the model exist throughout. (`delete` commits locally before it
  enqueues, `playlists/service.rs:424`.)
- WorkPool: `enrich_next_run_at`, ORDER BY and LIMIT are abstracted like the outbox's; a kick
  may take a done track at any time (the code: after a day). The co-play recomputation after
  the commit of `persist::apply` belongs to `Enriched`, although it still holds the permit. A
  shutdown is a crash: nothing is written back. One process: two schedulers over one table
  would differ only by SKIP LOCKED.
- IndexPipeline: storage commits a file in one step (it holds a lock per name). Time is counted
  in reaps. An answer of the worker always brings the vectors: the code marks a row without
  them when the payload lacks one or the id is not a number, but the worker sends both in every
  answer (`worker/src/handlers/audio.py:184-196`) and the ids are normalised before they are
  published.
- Sessions: access and refresh token of an answer are one; a grant is renewed by any channel or
  none; the failure cache expires at any time. A refusal means that the grant is dead or was
  used before its answer was lost; the code takes any 400 or 401 for that (`sc/errors.rs:44`),
  one of another cause included. The cache of mutexes forgets one when nobody has used it for a
  while; that it may also evict one in use, at its capacity of 8192, is left out: it is the
  event "race" by another way.
- Logins: the UPDATE that completes a login succeeds or fails. One that commits while its reply
  is lost is followed by `mark_request_failed`, which writes by the id and would turn
  "completed" into "failed"; that is left out of `FinishedForGood`.
- TrackCache: one download is one step with an outcome (its sources write temp files of their
  own and meet in one rename). The grace of a removal (30 s) is longer than the gap between
  handing a path out and opening it, and between a lookup and the lock. `enforce_limit` looks
  at a file and deletes it in one step (`state.rs:2260-2318`).
- AudioEngine: commands that are not async run on the main thread in order. The windows in
  which the end (1.2 s) and stalls (4 s) are suppressed outlast a rebuild, the stall cooldown
  (10 s) a reconnect and its reload, and a track is longer than the answer of a load. A device
  can be opened in the end (the code panics otherwise), rodio's `try_seek` returns. A reload
  between the bytes and the anchor of a load reads the position of the track before, taken to
  lie within the new one. Two loads under way at a time need a listener in a hurry, which
  `PlaysAsShown` sets aside: an `audio_load_file` that is late installs its track over the
  newer one, and no property covers that. `next()` goes to any other track. Left out:
  `load_url` (the front end does not use it), the delay of `maybeHealEarlyEnd`, volume,
  equaliser, normalisation, media keys, timelines of lyrics and comments (`timing.rs`).
- Lyrics: the search of the aggregators, its ranking and the detection of the language are one
  step with an outcome.


## 8 Not modelled, and what is left

- **Discovery, wanted tracks, artist crawl**
  (`enrich/{wanted_resolver,artist_crawl,sc_account_scan}.rs`, `discovery/`): claim, resolve
  and link of wanted tracks, with a second path that has no lease (`run_for_artist`), and the
  crawl that fills the table. The next module to write.
- **Playlist lifecycle**: create, delete, sharing, the refresh of owned playlists. A delete
  commits locally before it is enqueued; a refresh that read SoundCloud earlier inserts the row
  again or overwrites the sharing; a create whose answer is lost is sent again and makes a
  second playlist.
- **Other entities of cold_refresh**, the store of the player's queue, streaming's choice among
  its sources, `timing.rs`.
- **Caches, SoundCloud client, byte proxying**: pure lookups and I/O; what matters of them (an
  expired lock, a lost answer, a channel that fails) is part of the modules that use them.
- **Recommendations, search, discover, collab, the worker's models**: computation over data
  without a protocol of its own; ranking and vectors are out of TLC's reach.
- **User interface**: rendering; what acts on the player is in AudioEngine.

What would deepen the project: the modules named above, and `MirrorConverges` with two
refreshes at a time.
