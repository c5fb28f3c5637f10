# vodstack in TLA+

TLA+ models of vodstack, the video-on-demand back end in this repository: what
is modelled, what TLC checks, what TLAPS proves. File and line references are to
the repository (`src/...`).

- [1. The system](#1-the-system)
- [2. Plan](#2-plan)
- [3. The life of a video](#3-the-life-of-a-video)
- [4. Extra codecs](#4-extra-codecs)
- [5. Webhooks](#5-webhooks)
- [6. Jobs of a finished video](#6-jobs-of-a-finished-video)
- [7. Beside the videos: folders, viewers, quotas, analytics, settings](#7-beside-the-videos-folders-viewers-quotas-analytics-settings)
- [8. Plans and texts](#8-plans-and-texts)
- [9. Runs](#9-runs)
- [10. Proofs](#10-proofs)
- [11. What is not modelled](#11-what-is-not-modelled)

## 1. The system

Two processes share three stores. `cmd/api` serves HTTP; `cmd/worker` consumes
tasks. PostgreSQL holds the rows, MinIO the files, Redis (through asynq, a
library) the tasks. Nothing spans two stores in one transaction, so every
handler is a sequence of calls that others interleave with.

| Component | State it keeps | Operations | Interacts with | What is hard |
|---|---|---|---|---|
| Video row (`internal/video`, `internal/db/db.go`) | `videos.status`, `deleted_at`, metadata | create, `SetUploaded`, `SetStatus`, `SetFinished`, `SetFailed`, `SoftDelete`, `Restore`, `PurgeVideo` | written by API and worker by id, with no look at the status they overwrite | interleaved writers, rows that disappear under them |
| API handlers (`internal/httpapi`) | none | create, upload URL, complete, tus and admin upload, fetch, play, delete, restore, purge | rows, bucket, queue, webhooks | each is several steps; a request may end between two |
| Task queue (`internal/queue`) | one asynq task per id `transcode:<video>`, `codecs:<video>`, ... | `Enqueue*`, `enqueueIdempotent`, `CancelVideoTasks` | API produces, worker consumes | a live task absorbs an enqueue, an archived one must not |
| Transcode worker (`internal/worker/worker.go`) | scratch files | `handleTranscode`, `process` | reads raw, writes `hls/<id>/`, writes the status | retry, crash, lease expiry, deadline, cancellation half way |
| Trash sweep (`worker.go`, `cmd/worker/main.go`) | none | `PurgeExpiredTrash`, hourly | removes files and rows | acts on a list that goes stale |
| Object store (`internal/storage`) | `raw/<id>/source`, `hls/<id>/...` | put, `UploadDir`, `RemovePrefix`, presigned PUT | | many objects, no atomic replacement |
| Codec backfill and operations (`av1.go`, `admin_platform.go`) | `encode_settings.codecs`, `video_operations`, merged masters | add a codec, encode, rebuild the master | queue, rows, bucket | read-modify-write of settings, rows left `queued`, stale ladders |
| Encryption (`encrypt.go`, `security.go`, `keys.go`) | `content_keys` | re-encode with a key, save it, serve it | bucket, rows | segments and key are stored apart |
| Webhooks (`internal/webhooks`, `worker/webhook.go`) | endpoints, deliveries | dispatch, deliver, mark | every event source | row and task written apart, at-least-once |
| Folders (`db/folders.go`) | a parent per folder | create, move, delete | videos | a check and an update with no lock |
| Posters, captions, search index, AI content | thumbnails, tracks, chunks | one task type each | bucket, rows | replacement while others read |
| Ladder planning (`internal/transcode`, `internal/encoding`, `video/editspec.go`) | none | choose rungs, merge masters, normalise settings | worker | boundaries of arithmetic |
| Tokens, rate limit | signed URLs, a visitor table | sign, verify, reap | edge | expiry boundaries |
| Viewer progress | position, watched, completed | upsert | beacons | late and reordered beacons |
| Search (`internal/search`, `db/search.go`) | chunks | chunk, fuse ranks | captions | boundaries |
| Library settings | one JSON document per library, a watermark image | read, change, write; put and remove the image | uploads snapshot the document, not the image | lost updates, an image replaced or gone |
| Analytics (`db/analytics.go`) | playback events | insert, roll up, prune | beacons, purged videos | rollups that disagree |
| Migrations, pages, web UI, SDK, deployment, load test | | | | see section 11 |

What makes each correct, in a sentence: a *finished* video has a whole ladder
of one encode; work that the row says is under way is under way; nothing writes
a row that is gone; a trashed video keeps its files; an extra codec that the
master lists exists and is of the same source; an operation row ends; every
encrypted segment has its key; an event that is told as delivered was accepted,
and one that is pending is worked at; folders stay in their library and tangle
only when moves race; a video is encoded by the settings it was created with, and
those name a watermark only if there is one; what counts as watched never goes
back; the rollups of the same events agree.

## 2. Plan

In order of importance, with what became of it. A module is written so that it
can be proved about: parameters are CONSTANTS with named assumptions, one
action per operation, no RECURSIVE operator.

| | Module | Models | Proofs |
|---|---|---|---|
| 1 | `VideoLifecycle` | upload, transcode, trash, restore, purge, sweep | `VideoLifecycleProofs` |
| 2 | `CodecBackfill`, implementing `CodecCatalog` | codec settings, operation rows, the backfill task, the merged master | `CodecBackfillProofs` |
| 3 | `JobQueue` | the calls inside `enqueueIdempotent`, tasks, handlers, rows of the advanced operations | with 4 |
| 4 | `VideoJobs`, extending `JobQueue` | encryption and its keys, posters, captions, search index, chapters, beside a transcode | `VideoJobsProofs`, `VideoJobsSafety` |
| 5 | `WebhookDelivery`, implementing `DeliveryPromise` | endpoints, dispatch, delivery rows, posts and retries | `WebhookDeliveryProofs` |
| 6 | `FolderTree` | creates, moves and deletes of folders, moves of videos | `LibraryProofs` |
| 7 | `ViewerProgress` | viewer tokens, progress beacons, retention | `LibraryProofs` |
| 8 | `RateLimit` | the token bucket and its reaper | `LibraryProofs` |
| 9 | `LibrarySettings` | the encoding defaults, the watermark, a video's copy and its encodes | `LibraryProofs` |
| 10 | `Library` | the folders, progress and settings of a library together (6, 7 and 9) | `LibraryProofs` |
| 11 | `EncodePlan`, `MasterPlaylist` | the pure parts of an encode: rungs, edits, audio, previews; the merge of masters | `PlanProofs`, on `DataLemmas` |
| 12 | `Transcript`, `PlaybackAnalytics` | cues, chunks, chapters; rollups | `PlanProofs`; `LibraryProofs` |

All of it is there. Left for later: captions in two languages, which are two
tracks, a purge beside the jobs of section 6, and rank fusion.

## 3. The life of a video

`VideoLifecycle.tla`. One record or value per video of:

| Variable | Stands for |
|---|---|
| `presence` | the row: not yet created, live, trashed (`deleted_at` set), purged |
| `status` | `videos.status`, `NoRow` without a row |
| `raw` | which file is stored as `raw/<id>/source` |
| `hls` | which source the variants and the master under `hls/<id>/` were encoded from; `Mixed` while some objects are replaced |
| `task` | the asynq task `transcode:<id>`: none, waiting (asynq's pending and retry), active, archived; attempts used; whether the payload has a source URL |
| `run` | the handler working on it: the call it makes next, the source it read, whether its context has ended, what it will return |
| `cancels` | cancellations published and not delivered |
| `req` | per request, the handler's next call |
| `sweep` | what the purge loop does with the video |
| `scar` | history only: `disturbed` or `wiped`, see below |

Every call on a store is one action. A request walks through
`lookup, stat, put, mark, enqueue` (complete, admin and tus upload, fetch) or
`trash/restore/cancel/rmHls/rmRaw/drop` (delete, restore, purge); the worker's
handler through the calls of `process` in their order. Early returns are the
branches of these steps: a lookup of a trashed row, a missing object, a row
update that hits no row (`ErrNotFound`), an error of any call, the test of
`ctx.Err()` in `handleTranscode`. The upload is three steps: some variants
replaced, all variants replaced, master replaced, which is the order of
`filepath.Walk`. Encoding, probing, scratch files and settings are inside one
step, whose failures `RunError` stands for. The calls to `Dispatch` change no
state of this module; only the one that follows the upload is kept, since a
property is about it.

asynq is external and is modelled by what the code relies on (version 0.25.1):
a task id is held from the enqueue until success or until the archived task is
deleted; a failed attempt is retried until `MaxRetry` and then archived; a
published cancellation reaches whatever handler runs when it arrives; no
`Timeout` option is set, so a default deadline ends the context; a dead
worker's task stays leased until the lease expires, then counts as a failed
attempt; a shutdown puts the task back. Once the context has ended asynq may
count the attempt as failed whatever the handler returns (`RunSettle`). Retry
delays are left out: a waiting task may start at once, or late.

`scar` records what the code cannot repair, so that properties can say "unless".
A video is *disturbed* by a request abandoned half way, by an enqueue absorbed
by an active task, by a handler's context ending or its worker stopping, by a
task skipped because the row was trashed, and by a failure status that could
not be written. It is *wiped* once a purge or sweep starts removing its objects.

Simplifications that matter. One worker process sweeps at a time. A handler
whose context has ended makes no more successful calls; asynq does not wait for
it before it retries, but the code's calls all take the context, so the overlap
touches scratch files only. Which trashed videos are past retention is left
open, so the sweep may list any of them.

## 4. Extra codecs

`CodecBackfill.tla`, for one video: its rows, task and objects are keyed by the
video's id, and nothing here runs over several.

| Variable | Stands for |
|---|---|
| `raw`, `h264` | the number of the source stored as `raw/<id>/source`, and of the one the H.264 ladder was encoded from |
| `master`, `pristine` | `master.m3u8` and `master_h264.m3u8`: the source of the H.264 variants they were written with, and the extra codecs merged in |
| `ladder` | per codec the source of the ladder under `hls/<id>/<codec>/`, 0 while its own master playlist is not there |
| `codecs` | `encode_settings.codecs` without h264 |
| `op` | `video_operations` of the codecs |
| `main` | the main transcode, by the steps that write any of this |
| `task`, `run` | the asynq task `codecs:<id>` and `handleCodecBackfill`: its next call, the codecs it read, those still to come, the source it downloaded, the playlist it holds |
| `req` | `generateCodec`, per request |
| `slip`, `lost` | history: a backfill missed the pristine master; a row was left at `running` by a crash or a lost write |

A request goes through lookup, read and write of the settings (`AddVideoCodec`
is not one statement), row, enqueue. The handler reads the settings, downloads
the source, looks for the pristine master and captures it, gives each codec its
turn (present already; or row `running`, encode and upload, row `done` or
`failed`), rebuilds the master in its hands and publishes it. An error that the
code ignores loses the write and goes on; a read of the bucket that fails for
whatever reason counts as "not there", as the code has it. After an error the
deferred finalizer of `trackOp` writes the row with a context of its own, so it
writes it even after a deadline. What asynq does is as in section 3.

`CodecCatalog.tla` is what a player may rely on: once there is a master there
always is one, every extra codec it lists has a complete ladder, and a complete
ladder stays. `KeepsCatalog` says that `CodecBackfill` implements it, with a
ladder complete once its master playlist, the last object uploaded, is there.

Abstractions. Encoding and uploading a codec is one step: nothing reads
`hls/<id>/<codec>/` before its master playlist is there. The exception is a
second encode over a ladder that is there, after a failed read took it for
absent: while it uploads, segments of both encodes lie mixed, which the model
leaves out. A retranscode is coarse: its source changes only as it
starts, and its own failures after the encode are those of `VideoLifecycle`.
Purge, which removes everything under `hls/<id>/`, and the
cancellation that precedes it are left to `VideoLifecycle`.

## 5. Webhooks

`WebhookDelivery.tla`, for one library. A delivery is a pair of an event and an
endpoint, since `Dispatch` writes one row for each.

| Variable | Stands for |
|---|---|
| `endpoint` | the row of `webhook_endpoints`: not registered yet, there, deleted |
| `dispatch` | `Dispatch` of an event: the endpoints it listed and has not come to, the one it has a row for and no task |
| `row`, `attempts` | `webhook_deliveries.status` and `.attempts`; `gone` with the endpoint (foreign key) |
| `task`, `hand` | the asynq task and the step of `handleWebhookDeliver` |
| `accepted` | what the endpoints have answered 2xx to, known to them alone |
| `posts` | history: posts made, those after the endpoint was deleted, those the row does not count, and the faults that met the delivery (`cut`) |

Dispatch lists, then for each endpoint inserts the row and enqueues the task;
each call may fail, the errors are logged and the loop goes on. The handler
loads row and endpoint, posts, marks the row and returns; a row that is gone
skips the retries. A 2xx may be lost on its way back, a worker may stop at any
step, an endpoint may be deleted between any two.

`DeliveryPromise.tla` is what a reader of the table may conclude: a delivery is
owed once recorded; "delivered" is said only of one the endpoint accepted; a
deleted endpoint's deliveries never come back. `KeepsPromise` is the
refinement, with `told <- row`. It promises neither at-most-once (a post may be
repeated) nor that a recorded event is delivered: an enqueue that fails leaves
a `pending` row that nothing looks at again. `cut` names these cases, so that
`PendingHasTask` and `EveryPostCounted` can exempt them and nothing else.

## 6. Jobs of a finished video

`JobQueue.tla` is `internal/queue` and `trackOp` call by call, for the jobs of
one video: `op` (`video_operations.status` per kind), `task` and `hand` per job,
and `enq`, the state of a call of `enqueueIdempotent`, which requests and
handlers (an auto-caption chains two jobs) make alike. Section 3 takes that
function for one step; here it is `Enqueue` (conflict?), `GetTaskInfo`,
`DeleteTask`, `Enqueue` again, and between them the task may end, be archived,
or be replaced by another request's. `slips` is history: the kinds whose row a
fault, or an enqueue absorbed by a handler past its last word, has left to no one.

A job is a task id, and `KindOf` says whose row it writes. The code has ids with
a language and without (`queue.go:243`, `queue.go:270`): an auto-caption in `de` is
`caption:<id>:de`, one that detects the language `caption:<id>`; the index chained
to a caption is `searchidx:<id>:<lang>`, the admin's reindex `searchidx:<id>`. Two
tasks of one kind share a row and run side by side, each with a last word of its
own.

`VideoJobs.tla` extends it with what the handlers and the admin's own edits do.

| Variable | Stands for |
|---|---|
| `ladder`, `key` | the key that the playlists under `hls/<id>/` name and the one their encrypted segments were made with; the newest row of `content_keys` |
| `thumbnail`, `posters` | `videos.thumbnail_file` and the custom poster objects |
| `caption`, `index` | the captions row and the version of the track stored; the version that the search chunks are of |
| `chapters` | `videos.chapters` and `chapters.vtt` |
| `edit` | an edit by the API alone, half way: upload of a poster, chapters, caption upload and removal |
| `main` | a transcode beside them |
| `shown`, `crossed` | histories: posters that were the thumbnail once; what two writers, or a fault between two writes, may have left half and half, until one has written the whole of it |

Keys, poster names and texts are numbers drawn once; what is compared is
whether two places hold the same. `wants` settles in the first state what may be
asked for or chained, since kinds that share no state need not be interleaved:
encryption with a transcode; posters by frame and by upload with a transcode;
captions, uploaded tracks, the index job of the captions and that of the admin;
two caption tasks and their index; captions and chapters by model and by hand.
The index or the content job is chained where it is in `wants`: where the library
has search on, or a language model.

Some transcripts (`Silent`) have no cue. Then the index is only cleared, and the
error of that call is ignored (`search_index.go:60-63`): the job says "done" over
an old index (`ClearFails`). With cues, the same error fails the attempt. A video
is `Ready` for a job once its transcode runs the encoder, as `IsReady` has it, so
that jobs are asked for while a transcode goes on.

`IndexFollowsCaption` says that a stored track is indexed once its index job is
done with. `crossed` names what the code does not repair until the track is
indexed the next time: tracks put or removed by hand, which nothing indexes; a
caption job cut off before it chained, a lost enqueue, an enqueue absorbed by an
attempt that had read the old track; an older index that the other task writes
over a newer one; the clearing that failed unseen.

Simplifications. The upload of an encrypted ladder is two steps, playlists and
segments, the order of `filepath.Walk` inside a variant; between variants both
repeat. The video is not deleted meanwhile. An attempt whose worker stopped does
nothing more.

## 7. Beside the videos: folders, viewers, quotas, analytics, settings

`FolderTree.tla`: `parent` (`folders.parent_id`), `folderOf`
(`videos.folder_id`) and the requests, statement by statement. A move checks its
target, walks up from it one query at a time and writes; nothing locks. Two moves
can therefore tangle the tree, each past its walk when the other writes:
`OnlyOvertakenMovesTangle` says that nothing else can, and `overtaken` is the
history that says so. Deleting cascades by foreign key. Ids are drawn once.

`ViewerProgress.tla`: minted tokens, one row per library, viewer and video,
`heard` (history: the beacons merged, each with the duration it met). A beacon
may arrive at any time, twice or never, with any token ever minted. Time is in
days; a token is the fact that it was minted, a signature being what nobody else
can make.

`RateLimit.tla`: one bucket, its reaper, ticks; as history the requests let
through up to the end of each tick, so that a stretch of time is a difference of
two of them. `RefillAssumption` says that the
idle time refills a bucket; without it dropping a bucket would forgive a debt.
With the code's half hour it holds of every setting whose burst is at most 1800
times its rate per second (by default 40 and 20).

`PlaybackAnalytics.tla`: the events, purged videos, retention, and each rollup
as the set comprehension its SQL is. Its property relates the rollups to one
another. Four things keep them from agreeing to the letter, and the property says
by how much:

- A ranking stops after ten videos (`LIMIT 10`, `analytics.go:292`) or thirty
  countries (`analytics.go:202`): `TopLimit`, `CountryLimit`. SQL and `sort.Slice`
  order equals in any way, so a ranking is the set of the answers there may be
  (`FirstRows`), and what is said holds of each. It adds up to the starts unless
  it is full of videos that were started.
- The estimate of the bytes is cut to a whole number (`analytics.go:131`), once for
  the library and once for each video: a second of a video takes a number of
  `ByteParts` of a byte, and the sums differ by less than one byte a video. That
  floating point rounds is left out.
- A position may lie before the start, for a beacon may carry any number. It
  counts no bytes (`GREATEST`), is no sample of the heatmap, and counts as watch
  time all the same: only without one does no country claim more watch time than
  the video has.
- What was watched of a purged video is in the countries and not in the total.

Positions are whole numbers, and the queries of one rollup are read as of one
moment.

`LibrarySettings.tla`:

| Variable | Stands for |
|---|---|
| `library` | `libraries.encoding_config`: the rungs (one value for all that the form alone changes), whether it names a watermark, whether it is on |
| `image` | the object `library/<id>/watermark.png` |
| `editor` | a page of the form, an upload or a removal of the watermark: its next call and the row in its hands; as history whether another has written since it began |
| `slip` | history: the row names an image that is gone, and it was an overtaken request that saved it or a removal cut off between object and row; over when an image is put or the name is dropped |
| `settings`, `created` | `videos.encode_settings`; as history the defaults it was created with |
| `ladder` | per video and build (H.264, encrypted, each codec), the rungs and the picture the last encode shows; asked for, failed, or never built |

Each handler is its calls: the form reads, and saves all it was shown with one
thing changed; an upload puts the object, reads the row, writes it; a removal
reads, removes, writes. A video copies the row in one statement. What makes an
encode fail for other reasons is in section 3; here it fails only when
`prepareWatermark` does not find the image. The form's request may carry any
watermark key (`encoding_settings.go:44`); the model sends back what the page was
shown, with one thing changed.

`NamedImageExists` is about the requests as such: no order of the calls of one of
them, and no failed call, leaves a row that names no image. What the code lets
happen is exempted: `slip`, and a removal on its way to the row. Those rows are
real, and every encode of a video created under one fails.

A video keeps the settings and not the image. `SnapshotDecides` says what it can
rely on all the same: its rungs, and whether there is a watermark. It cannot rely
on which picture that is: `src/internal/worker/av1.go:66` reapplies the watermark
"for visual parity with the H.264 ladder", and an image replaced between a
transcode and a backfill gives two ladders of one video two pictures. Nor can it
rely on there being one: `src/internal/encoding/config.go:85` treats "a watermark
with no image" as disabled, which `NormalizeConfig` does for an empty key only,
and a removed image makes every later encode of the video fail
(`src/internal/worker/worker.go:343`). Both are
behaviours of the model: `PutWatermark` or `RemoveWatermark`, then `Build`.

## 8. Plans and texts

`EncodePlan.tla` follows one video from the request that creates it (its edit
validated, normalised and kept) through the four builds that read its source:
the main ladder, the MP4 fallback, an extra codec, the encrypted ladder. A rung
is its height; times are half seconds; crops are quarters of the frame; a file
is the sequence of half seconds of the source it holds, so that "cut first,
encode then" and "seek while encoding" can be compared. What is kept of a source
is a set of half seconds, and a build shows it if its file holds these and no
others, in order; what a chain of filters does to frame and direction is followed
filter by filter. The rungs are chosen from the height of the source
(`worker.go:199`), and the filters crop and turn before they scale
(`transcode.go:558`): a rung may be an enlargement of a frame that was cropped or
laid on its side (`Enlarges`), although `transcode.go:37-38` and `206-207` say that
nothing is ever upscaled. `LadderFitsSource` exempts these by name (`Reshaped`),
and the smallest rung, which a source below it gets; it says that no other frame
is enlarged, nor any of the encrypted ladder, which has no edit.

Settings with unknown
rungs, sources below the smallest rung, segments out of order or past the end,
crops that leave odd pixels are among the inputs. Segments that reach past the
source are checked for everything but the durations and what is shown
(`WithinSource`): the code does not clip them. A crop that leaves less than two
pixels makes ffmpeg fail and is left out.

`MasterPlaylist.tla` folds the ladders of extra codecs into a base. A stream line
belongs to the address below it: the one written with an address is the first
above it since the address before (`Heads`), as the loop in `writeVariants` pairs
them. `PlaylistAssumption` says what ffmpeg writes: one header on top, and in a
ladder a stream line above each address. `Transcript.tla` goes from caption lines
to cues and chunks and from proposed chapters to the chapter track: its two loops
take a line or a cue at a time (`ReadLine`, `Gather`), and a stable sort is the
order in which each chapter has as many before it as its place says (`InTurn`). In
these the state is one computation, taken in the steps the code takes, and the
properties are what its callers rely on.

## 9. Runs

`MCVideoLifecycle.tla` and its five configurations. One video is enough: the
stores are keyed by id and the only step over several videos, the sweep, treats
its entries one after the other and independently. Two sources tell an old
ladder from a new one. `MaxRetry = 1` has a first, a retried and an archived
attempt (the code's 3 adds more of the second kind). A request is served once,
so `Requests` bounds the operations of a behaviour: two give every pair of
handlers, three requests run through too, in ten times the time, and show
nothing more. Deadlock is not checked: requests are finite, so the
system comes to rest.

| Run | Instance | Shows |
|---|---|---|
| `faults` | 2 requests of all kinds, 2 sources, all faults | `TypeOK`; `FinishedIsPublished`; `EncodedEventIsTrue`; `OnlyDisturbedVideosStall`; and the two invariants these rest on, `UploadInOrder` and `WorkAccountedFor` |
| `live` | 2 requests, 1 source, fairness, no crashes | `UploadsSettle`, `PurgedWorkDrains` |
| `play` | 1 request, no faults | violation of `ReadyIsPublished` |
| `stranded` | 2 completions, no faults | violation of `UploadedIsEnqueued` |
| `restore` | complete, delete, restore, no faults | violation of `RestoredKeepsItsFiles` |
| `codecs` | 2 codecs, 1 request, 1 source, all faults | `TypeOK`, `PristineIsPure`, `DoneIsUploaded`, `RunningIsRunning`, `KeepsCatalog` |
| `queued` | 2 codecs, 1 request, 1 source, no faults | violation of `QueuedHasTask` |
| `onesource` | 2 codecs, 1 request, 2 sources, no faults | violation of `PublishedFromOneSource` |
| `webhooks` | 1 event, 3 endpoints of which 2 subscribe, 1 retry, 1 fault, fairness | `TypeOK`, `EveryPostCounted`, `DeletedEndpointLeftAlone`, `PendingHasTask`, `KeepsPromise`, `DeliveriesSettle` |
| `jobs` | a job of each kind, a second one of captions and of the index, 2 requests at a time, 1 fault, 1 transcode, fairness | `TypeOK`, `RowsAwaitSomeone`, `KeyOpensLadder`, `PosterExists`, `IndexFollowsCaption`, `ChaptersAgree`, `RowsSettle` |
| `library` | everything of sections 7 and 8 | `TypesOK` (`TreeTypeOK`, `ProgressTypeOK`, `SettingsTypeOK`); folders: `StaysInLibrary`, `OnlyOvertakenMovesTangle`; settings: `NamedImageExists`; viewers: `MergedInAnyOrder`, `ResumesWithinWatched`, `ProgressIsAttributed`; `WithinLimit`; `AnalyticsAddUp`; `LadderFitsSource`, `EditIsHonoured`, `EverySecondHasOneTile`; `MergeKeepsVariants`; `TranscriptIsCovered` |
| `encrypted` | the inputs of `library`'s encodes | violation of `EncryptedLadderMatches` |

Distinct states: `faults` 252,568, `live` 93,652, `codecs` 1,091,518, `webhooks`
290,751, `jobs` 410,473, `library` 281,323.

The instance of `codecs`: two codecs, so that one is present, failed or lost
while the other is encoded, and the settings of a new video hold any of them;
one request, since the main transcode enqueues and writes rows too and is the
second actor; one source, since none of the properties compares sources;
`MaxRetry = 0`, since retranscodes and the request enqueue an archived task
again and so give any number of attempts. The instance with one codec, two
sources and one retry (318,181 states) was checked as well and shows nothing
more. The theorems hold for all of them.

The instance of `webhooks`: of three endpoints one asks for every type, one for
the event's and one for another; one fault of any kind at any call; `MaxRetry = 1`
has a first, a last and an archived attempt.

The instance of `jobs`: two requests may be in `enqueueIdempotent` at once, with a
chaining handler beside them as a third caller, and one fault may hit any call;
with one retry there is a first, a last and an archived attempt, and a request
beside it that revives it. The second caption and index jobs have no retry: one
failure archives them. The code retries these jobs once or twice. The
second number drawn (`Silent`), where a caption job draws it, is a transcript
without a cue, so that one of two captions may be silent and the other not.

`library` composes modules that share no state: its first state (`focus`) settles
which of them moves, so that the run explores the sum of their states and not
their product. Three folders and two requests are the least with which a move
is overtaken and a cycle runs through a folder between. Two positions and two
tokens tell late from early and one library from another. The rate limit's ticks
span more than two idle times. The encodes' inputs cover each order of rung,
height, edit and audio that a branch of the code tells apart, and the lengths
around 200 and 300 seconds at which the spacing of the previews changes. The
settings have two editors, who begin anew as often as they like: that gives every
overlap of form, upload and removal. One image, one choice of rungs and one video
are enough for `NamedImageExists`, which compares none of them. The rollups have two
videos of different size and length, two page loads of one browser, positions
before the start, in a video and past its end, a quarter of a byte as the part,
and rankings that stop after one row.

Folders take each other's place, and so do, together, the two requests, the two
editors and the two page loads (`Symmetry`): no property names one of them.

Fairness (`FairSpec`): for `VideoLifecycle`, weak fairness of each handler's next step, since asynq
workers poll for ever and every call returns, and of each request that has
arrived. Clients, faults and the ticker owe nothing. `RunProgress` is left out
of the fair part: it repeats while ffmpeg runs. `live` has no crash fault: a
worker that crashes for ever makes no progress, and its lease expiry is a step
of Redis, not of the handler. The liveness properties exempt disturbed videos;
`PurgedWorkDrains` does not.

For `WebhookDelivery`: a dispatch that has begun goes on, and each task is worked
at, by a worker or by the recoverer of expired leases, which poll for ever.
Nobody owes an event, an endpoint or an answer of 2xx. For `VideoJobs` one weak
fairness of all progress together (`Progress`): as long as some request or
handler can go on, one of them does. That is less than every process gives, and
enough because requests, retries and faults are bounded.

What the violations show:

- **play.** `IsReady` includes status 3, so `/play` names `master.m3u8` while
  nothing is uploaded; the worker's package comment says a partial encode is
  never referenced by `/play`. On a first upload the URL is a 404, on a
  re-upload it is the old video.
- **stranded.** A client that completes twice (a retry, or a second file) while
  the first task is between its last row update and its end: the second call
  writes status 1, its enqueue is absorbed, and status 1 stays for ever.
- **restore.** The sweep lists a trashed video, an admin restores it, the sweep
  removes its files and then its row.
- **queued.** A request for a codec while a backfill runs that has the codec
  behind it (or never read it): the row is set to `queued`, the enqueue is
  absorbed, and the running handler never comes back to that row.
- **onesource.** A backfill reads the old master, the retranscode of a new
  source publishes, the backfill keeps and publishes the old one: the master
  refers to the old encode. Without any race the same follows for good, as the
  old pristine master is never captured again and the old codec ladders count
  as present.
- **encrypted.** The encrypted ladder is built from the raw source with the
  video's settings, and without its edit: what a trim or a crop took away is back.

## 10. Proofs

Every theorem holds for all values of the constants that satisfy the module's
named assumptions. Eight modules hold them; before a proof, TLC checked its
inductive invariant on the instance of the run.

`VideoLifecycleProofs.tla`, for any sets of videos, requests and sources, any
faults and any retry limit:

- `TypeCorrect`: `TypeOK` is inductive. Its last conjunct, that a status exists
  exactly where a row does, is the part with content: no writer, from either
  process, revives or invents a row. One lemma per family of actions.
- `PublicationSafe`: `FinishedIsPublished` needs to know that a handler in the
  middle of its upload has already overwritten status 4 (`Replacing`), that the
  variants and then the master it uploaded are still there when it comes to
  write status 4, and that a handler past its download has a source.
  `UploadInOrder` says that; the conjunction is inductive (`Sound`).
- `EncodedEventSafe`: the action property, from the same invariant.
- `StallSafe`: `OnlyDisturbedVideosStall` needs `WorkAccountedFor`: the task is
  active exactly while its handler runs, and a status in progress after the
  handler's last row update belongs to a request that is about to enqueue.
  The two together are inductive (`Accounted`).

The assumptions: `Kinds` and `Faults` are subsets of what the model knows,
`MaxRetry` is a natural number, no source is called `none` or `mixed`.

`CodecBackfillProofs.tla`, for any codecs, requests, faults, uploads and
retries:

- `CodecTypesCorrect`: `TypeOK`, which needs that the handler is at a codec only
  while there is one left (`TurnTaken`).
- `CatalogKept`: `Spec => KeepsCatalog`, the implementation. A step completes one
  ladder, publishes one master, or stutters (`StepKeepsCatalog`). For that every
  playlist in the bucket and the one in the handler's hands must list complete
  ladders only (`Listed`), and an upload must come from a source (`Sourced`):
  no task, request or attempt exists before there is one.
- `PristinePure`: `PristineIsPure` is not inductive. `Pure` adds that a master
  with extra codecs implies a pristine one, and that a handler past the capture
  has it or carries a plain playlist.
- `DoneUploaded`, from `Rows`: between upload and row the ladder is there.
- `RunningTrue`: `RunningIsRunning` is inductive, given `TurnTaken`.

`WebhookDeliveryProofs.tla`, for any endpoints, events, retries and faults:
`DeliveryTypesCorrect`, `PostsAreCounted`, `DeletedEndpointSpared`,
`PendingIsWorkedAt`, and `PromiseKept`, which is the refinement
`Spec => KeepsPromise`. The invariant `Inv` has a conjunct per delivery (`Kept`):
what the row may say at each step of dispatch and handler, that a task is leased
while its handler runs, that a row says "delivered" or a handler holds an "ok"
only of what was accepted, and the accounts of posts, rows, retries and faults. `Single`: a
dispatch holds one row without a task at a time.

`VideoJobsProofs.tla`, for any requests, faults, retries, transcodes and wishes, and
any number of caption and index tasks that share a row:

- `RowsAreAwaited`: `QueueInv` says who is on the way to a row that waits, and
  at which call of `enqueueIdempotent` a caller still counts: one about to inspect
  a task that has said its last word does (the history will name it), one about
  to enqueue again behind an archived task does not. A row is awaited by any task
  of its kind: the last word of one does not speak for another.
- `KeyFound`: `Keyed` follows the handler: what it holds is in the playlists
  (or a transcode has put a plain ladder over them), then in the segments, then
  in the key row, and "done" is written only behind all three.

`VideoJobsSafety.tla`, for the same constants:

- `JobsTyped`: `TypeOK`, with the ranges of every counter.
- `ChaptersMatch`: `ChaptersAgree`. Between row and file the two differ;
  `ChaptersInv` says that then one writer at most is under way (`OneWriter`) and
  that it carries what the row says, unless two writers crossed, which the
  property exempts.
- `PosterStays`: `PosterExists`. `PosterInv`: a name drawn for an image is that
  of one task or request only (`Owned`); what the row points at, or a request is to
  remove, has been pointed at, and an image about to be pointed at is there (`Remembered`);
  and, unless two requests crossed, the image pointed at is there and no removal
  under way is of it (`Uncrossed`).
- `IndexIsFollowed`: `IndexFollowsCaption`. `IndexInv`: unless crossed, the index is
  of the track of now, or a caption job is about to chain, or an enqueue of the
  index job is under way, or its task waits, is archived, or runs and will still
  read the track or has read the one of now (`TaskWill`).

`JobsAssumption` says that captions and the index alone have several tasks; keys,
posters and content have one task id each in the code.

`LibraryProofs.tla`, for any folders, libraries, videos, requests, viewers,
positions, lengths, editors, images, codecs, choices, limits, refills and events:

- `TreeTypesCorrect`; `LibraryKept`: `StaysInLibrary`, whose inductive invariant
  `TreeInv` adds what a request has checked and still relies on (`Reliable`):
  its target is of its library, an id drawn for an insert is nobody else's, and
  a walk that no move overtook has left behind a set of folders without the one
  that is moved, closed towards the root but for where it stands (`Climbing`).
- `TanglesOnlyOvertaken`: from the same invariant. Folders that hang in one
  another (`Knot`) after a write would need the moved folder among them, and the
  way up from its target, which the walk has closed, does not have it.
- `ProgressTypesCorrect`; `MergeCommutes` and `ResumeIsWatched`, by an invariant
  per row that says what it is the sum of (`Sums`, `Resumes`); and
  `ProgressAttributed`.
- `SettingsTypesCorrect`, `NamedImageFound`, `SnapshotRules`, `OnlyOvertakenUndo`.
  The invariant adds what a request that nobody overtook knows (`Informed`: the
  row in its hands is the library's, and the image it put is there) and that a
  video's row differs from that of its creation in the codecs only
  (`KeepsSnapshot`). `SnapshotDecides` and `OnlyOvertakenSavesUndo`, the
  statements of the last two, are proved and belong to no run; TLC found them true with two
  images and two choices of rungs before they were proved.
- `LimitHolds`: `WithinLimit`. `LimitInv` adds `Funded`: what was let through in
  every stretch of time, together with what the bucket would still let through,
  fits the burst and the refill of that stretch. The property alone is not
  inductive, because it says nothing of the tokens left. The proof rests on
  `RefillAssumption`: a bucket idle long enough to be reaped has had time to fill
  up (`Burst <= Refill * IdleTicks`); without it `reapLocked` would give tokens away.
- `RollupsAddUp`: `AnalyticsAddUp`. The invariant says only that the events are
  finitely many rows of their schema; the rest is arithmetic of groups
  (`SumGrouped`, `CountGrouped`, `CountUnion`, `SumInjects`): a play of a video is the
  same group in the rollup of all (`OwnPlays`), and a session seen from a country
  is a play that reached at least as far (`CountryWatch`), which a purged video
  breaks because only the plays join the videos. `SumFloors` bounds what is lost
  when each of several sums is cut to a whole number. A ranking that leaves out
  starts is full, and of videos that were started (`ListedStarts`).
- `LibraryTyped`: `TypesOK` of `Library.tla`: folders, progress and settings side by
  side.

`DataLemmas.tla` and `PlanProofs.tla` are about data. The library's induction
theorems take an operator as a parameter, which no installed prover can
instantiate; `SetInduction` says the same of a *set* of numbers (one that has 0
and the successor of each of its members is `Nat`), and the step to "for
every length" is a set comprehension. From it follow facts about sequences
built one element at a time, recursive functions, `FlattenSeq`, the
members a filter keeps, sums of integers over finite sets and their floors, and so on. On these rest, for any
source, ladder, plan, bytes, caption track and proposal:

- `LadderFits`, `EditHonoured`, `TilesCover`: the three properties of
  `EncodePlan`. The invariant `EncodeInv` says that each build is the function of
  what was asked; the rest is about the functions.
- `MergeKeeps`: `MergeKeepsVariants`. `MasterInv`: the codecs left are
  a suffix of the order, and the property itself is inductive: `CopyBaseBody`
  keeps every variant of the playlist it copies but those of the codec, and
  `WriteVariants` adds that codec's.
- `TranscriptCovered`: `TranscriptIsCovered`. A loop is a function of the lines or
  cues read so far, and each has its invariant. `ReadTo`: a cue is open exactly
  while a timing stands above with no blank line between (`OpenBy`), and what
  has been read is the lines spoken so far, in order. `GatheredTo`: the window
  starts at the timing of its first line, ends at that of its last, has not reached
  the length asked for, and with the chunks before it holds what was read. The
  chapters are sorted because the rank of a proposal among the kept ones
  (`Before`) grows along the order of `sort.SliceStable`, so that every rank is
  taken once (`NthBegins`).

What is only model-checked: liveness (`UploadsSettle`, `PurgedWorkDrains`,
`DeliveriesSettle`, `RowsSettle`). Fairness is beyond TLAPS here. Every other
property of a passing run is stated by a theorem.

## 11. What is not modelled

- ffmpeg itself, the wording of its command lines and where in the frame the
  watermark goes. What it is asked to cut, turn, scale and map is in `EncodePlan`.
- The settings of the player and of the language model: one row each, read and
  written whole; nothing modelled depends on them.
- Schema migrations: DDL that runs alone, under a lock, before the service starts.
- Pages, web UI, SDK, deployment, load test: presentation and configuration.
- Search by vector and rank fusion: SQL and arithmetic over embeddings. The
  clients of language, speech and embedding models: stateless HTTP. Signatures,
  AES and password hashing are what nobody else can make.
- The playback token's lifetime: one line of arithmetic. `parseRange` of the
  analytics pages turns an unknown range into its default, and only the windows
  themselves are modelled.
- asynq, PostgreSQL and MinIO, but for the guarantees the code relies on.

No property covers the following, and the hazard list says why: tasks archived
after a crash, a default deadline taken for a cancellation, a request that ends
before its enqueue, objects put back after a purge, a task skipped before a
restore. In `VideoLifecycle` these are the scars that its invariants exempt, and
nothing in the code repairs them.
