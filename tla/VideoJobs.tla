-------------------------------- MODULE VideoJobs --------------------------------
(***************************************************************************)
(* What the jobs of a finished video do to it: encryption of its ladder, a   *)
(* poster from a frame, captions and what is made of them (search index,     *)
(* chapters), beside the admin's own edits of posters, captions and chapters *)
(* and a transcode of the same video. Each effect is one call on MinIO or    *)
(* Postgres. Keys, names and texts are numbers, each drawn once; 0 is none.   *)
(* What may happen to one video is drawn at the start; the video stays.       *)
(***************************************************************************)
EXTENDS JobQueue

CONSTANTS
  IndexJob,      (* searchidx:<id>:<lang>, chained to the captions; an      *)
                 (* index job without a language is another                 *)
  ContentJob,    (* aicontent:<id>                                          *)
  Silent,        (* the numbers of transcripts without a cue                *)
  Wishes,        (* bound: what may be asked for in one behaviour, each a   *)
                 (* set of jobs and of "upload", "chapters", "track" and    *)
                 (* "transcode"; search is enabled where the index job is   *)
                 (* in it, and a language model where the content job is    *)
  MaxTranscodes  (* bound                                                   *)

ASSUME JobsAssumption ==
  /\ KindOf \in [Jobs -> {"encrypt", "poster", "caption", "search_index", "ai_content"}]
  /\ IndexJob \in Jobs /\ KindOf[IndexJob] = "search_index"
  /\ ContentJob \in Jobs /\ KindOf[ContentJob] = "ai_content"
  /\ \A i, j \in Jobs :
       KindOf[i] = KindOf[j] /\ KindOf[i] \in {"encrypt", "poster", "ai_content"} => i = j
  /\ MaxTranscodes \in Nat

VARIABLES
  drawn,         (* the last number drawn                                   *)
  ladder,        (* the key a playlist of the ladder names, 0 when plain,    *)
                 (* and the key of the encrypted segments, .ts beside .m4s  *)
  key,           (* the newest row of content_keys                          *)
  thumbnail,     (* videos.thumbnail_file, 0 for poster.jpg                 *)
  posters,       (* custom poster objects                                   *)
  main,          (* the transcode: its step, and how many there were        *)
  caption,       (* the captions row, and the version of the track it names *)
  index,         (* the version of the track in the search index            *)
  chapters,      (* videos.chapters and chapters.vtt                        *)
  edit,          (* per request: an edit that the API makes by itself       *)
  wants,         (* the member of Wishes that this behaviour is about       *)
  shown,         (* history: the posters that were the thumbnail once       *)
  crossed        (* history: what two writers, or a fault, may have left    *)
                 (* half and half                                           *)

contentVars == <<drawn, ladder, key, thumbnail, posters, main, caption, index,
                 chapters, edit, wants, shown, crossed>>

vars == <<queueVars, contentVars>>

NoEdit == [at |-> "idle", new |-> 0, old |-> 0]

IsKind(j, kind) == j \in Jobs /\ KindOf[j] = kind

(* A step of a body leaves the queue alone, and one that goes on its faults.  *)
Body(j, kind, at) ==
  /\ IsKind(j, kind) /\ hand[j].at = at
  /\ UNCHANGED <<op, task, asks, slips>>

Goes(j, at) == Step(j, at) /\ UNCHANGED <<enq, faults>>

Holds(j, at, got) ==
  /\ hand' = [hand EXCEPT ![j].at = at, ![j].got = got]
  /\ UNCHANGED <<enq, faults>>

Fresh == drawn + 1

-----------------------------------------------------------------------------
(* encrypt *)

(* A key of its own for every attempt, and the encode with it.                *)
BuildEncrypted(j) ==
  /\ Body(j, "encrypt", "begin")
  /\ Holds(j, "playlists", Fresh)
  /\ drawn' = Fresh
  /\ UNCHANGED <<ladder, key, thumbnail, posters, main, caption, index, chapters,
                 edit, wants, shown, crossed>>

(* UploadDir walks a variant in order: its playlist, then its segments.       *)
UploadPlaylists(j) ==
  /\ Body(j, "encrypt", "playlists")
  /\ Goes(j, "segments")
  /\ ladder' = [ladder EXCEPT !.playlist = hand[j].got]
  /\ UNCHANGED <<drawn, key, thumbnail, posters, main, caption, index, chapters,
                 edit, wants, shown, crossed>>

UploadSegments(j) ==
  /\ Body(j, "encrypt", "segments")
  /\ Goes(j, "save")
  /\ ladder' = [ladder EXCEPT !.segments = hand[j].got]
  /\ UNCHANGED <<drawn, key, thumbnail, posters, main, caption, index, chapters,
                 edit, wants, shown, crossed>>

(* SaveContentKey whose error is not looked at.                               *)
SaveErrorIgnored(j) ==
  /\ Body(j, "encrypt", "save")
  /\ \/ key' = hand[j].got /\ Goes(j, "end")
     \/ Fault /\ Step(j, "end") /\ UNCHANGED <<key, enq>>
  /\ UNCHANGED <<drawn, ladder, thumbnail, posters, main, caption, index, chapters,
                 edit, wants, shown, crossed>>

SaveContentKey(j) ==
  /\ Body(j, "encrypt", "save")
  /\ Goes(j, "end")
  /\ key' = hand[j].got
  /\ UNCHANGED <<drawn, ladder, thumbnail, posters, main, caption, index, chapters,
                 edit, wants, shown, crossed>>

Encrypt(j) ==
  BuildEncrypted(j) \/ UploadPlaylists(j) \/ UploadSegments(j) \/ SaveContentKey(j)

-----------------------------------------------------------------------------
(* poster *)

(* A frame that is grabbed once more, for a poster that was shown already.    *)
GrabFrame(j) ==
  /\ Body(j, "poster", "begin")
  /\ Goes(j, "upload")
  /\ crossed' = IF task[j].arg \in shown THEN crossed \cup {"poster"} ELSE crossed
  /\ UNCHANGED <<drawn, ladder, key, thumbnail, posters, main, caption, index,
                 chapters, edit, wants, shown>>

UploadFrame(j) ==
  /\ Body(j, "poster", "upload")
  /\ Goes(j, "thumbnail")
  /\ posters' = posters \cup {task[j].arg}
  /\ UNCHANGED <<drawn, ladder, key, thumbnail, main, caption, index, chapters,
                 edit, wants, shown, crossed>>

SetThumbnail(j) ==
  /\ Body(j, "poster", "thumbnail")
  /\ Goes(j, "end")
  /\ thumbnail' = task[j].arg
  /\ shown' = shown \cup {task[j].arg}
  /\ UNCHANGED <<drawn, ladder, key, posters, main, caption, index, chapters,
                 edit, wants, crossed>>

PosterFrame(j) == GrabFrame(j) \/ UploadFrame(j) \/ SetThumbnail(j)

-----------------------------------------------------------------------------
(* caption *)

Transcribe(j) ==
  /\ Body(j, "caption", "begin")
  /\ Holds(j, "store", Fresh)
  /\ drawn' = Fresh
  /\ UNCHANGED <<ladder, key, thumbnail, posters, main, caption, index, chapters,
                 edit, wants, shown, crossed>>

StoreVTT(j) ==
  /\ Body(j, "caption", "store")
  /\ Goes(j, "record")
  /\ caption' = [caption EXCEPT !.vtt = hand[j].got]
  /\ UNCHANGED <<drawn, ladder, key, thumbnail, posters, main, index, chapters,
                 edit, wants, shown, crossed>>

(* AddCaption that ends the job.                                              *)
RecordOnly(j) ==
  /\ Body(j, "caption", "record")
  /\ Goes(j, "end")
  /\ caption' = [caption EXCEPT !.row = TRUE]
  /\ UNCHANGED <<drawn, ladder, key, thumbnail, posters, main, index, chapters,
                 edit, wants, shown, crossed>>

AddCaption(j) ==
  /\ Body(j, "caption", "record")
  /\ Goes(j, "chainIndex")
  /\ caption' = [caption EXCEPT !.row = TRUE]
  /\ UNCHANGED <<drawn, ladder, key, thumbnail, posters, main, index, chapters,
                 edit, wants, shown, crossed>>

(* The chained jobs are enqueued one after the other, best effort, where the  *)
(* library has search enabled and a language model configured.               *)
Chain(j, at, job, next) ==
  /\ Body(j, "caption", at)
  /\ enq[j].at = "idle"
  /\ Step(j, next)
  /\ enq' = IF job \in wants
            THEN [enq EXCEPT ![j] = [at |-> "enqueue", job |-> job, arg |-> 0]]
            ELSE enq
  /\ UNCHANGED <<faults, contentVars>>

Chained(j) ==
  /\ Body(j, "caption", "chained")
  /\ enq[j].at = "idle"
  /\ Goes(j, "end")
  /\ UNCHANGED contentVars

AutoCaption(j) ==
  \/ Transcribe(j) \/ StoreVTT(j) \/ AddCaption(j)
  \/ Chain(j, "chainIndex", IndexJob, "chainContent")
  \/ Chain(j, "chainContent", ContentJob, "chained")
  \/ Chained(j)

-----------------------------------------------------------------------------
(* search_index and ai_content *)

(* ListCaptions: without a track there is nothing to do, now or on a retry.   *)
FindTrack(j) ==
  /\ \/ Body(j, "search_index", "begin")
     \/ Body(j, "ai_content", "begin")
  /\ IF caption.row THEN Step(j, "read") ELSE Skips(j)
  /\ UNCHANGED <<enq, faults, contentVars>>

(* The object may be gone when the row is still being read.                   *)
ReadTrack(j) ==
  /\ \/ Body(j, "search_index", "read")
     \/ Body(j, "ai_content", "read")
  /\ IF caption.vtt # 0
     THEN hand' = [hand EXCEPT ![j].got = caption.vtt,
                               ![j].at = IF IsKind(j, "search_index")
                                         THEN "replace" ELSE "generate"]
     ELSE Fails(j)
  /\ UNCHANGED <<enq, faults, contentVars>>

(* One transaction: the chunks of the track are deleted and inserted, if it    *)
(* has any. To overwrite the index of the track of now with that of another is *)
(* a crossing, which ends with the next index of the track of now.            *)
ReplaceSearchChunks(j) ==
  /\ Body(j, "search_index", "replace")
  /\ Goes(j, "end")
  /\ index' = hand[j].got
  /\ crossed' = IF index' = caption.vtt THEN crossed \ {"index"}
                ELSE IF index = caption.vtt THEN crossed \cup {"index"} ELSE crossed
  /\ UNCHANGED <<drawn, ladder, key, thumbnail, posters, main, caption, chapters,
                 edit, wants, shown>>

(* Without a cue there is only the old index to clear, best effort.           *)
ClearFails(j) ==
  /\ Body(j, "search_index", "replace")
  /\ hand[j].got \in Silent
  /\ Fault
  /\ Step(j, "end")
  /\ crossed' = crossed \cup {"index"}
  /\ UNCHANGED <<enq, drawn, ladder, key, thumbnail, posters, main, caption, index,
                 chapters, edit, wants, shown>>

(* Somebody has written the row of the chapters and not yet the file.         *)
ChaptersOpen ==
  \/ \E j \in Jobs : hand[j].at = "file"
  \/ \E r \in Askers : edit[r].at = "chaptersFile"

WriteChapters(n) ==
  /\ chapters' = [chapters EXCEPT !.row = n]
  /\ crossed' = IF ChaptersOpen THEN crossed \cup {"chapters"}
                ELSE crossed \ {"chapters"}

(* GenerateChapters that leaves the file to the next edit.                    *)
RowOnly(j) ==
  /\ Body(j, "ai_content", "generate")
  /\ Goes(j, "end")
  /\ drawn' = Fresh
  /\ WriteChapters(Fresh)
  /\ UNCHANGED <<ladder, key, thumbnail, posters, main, caption, index, edit, wants, shown>>

(* The LLM finds chapters, or none, or is not asked for any; without a cue     *)
(* there is nothing to ask it.                                                *)
GenerateChapters(j) ==
  /\ Body(j, "ai_content", "generate")
  /\ \/ /\ hand[j].got \in Silent /\ Skips(j)
        /\ UNCHANGED <<enq, faults, drawn, chapters, crossed>>
     \/ /\ hand[j].got \notin Silent /\ Holds(j, "file", Fresh)
        /\ drawn' = Fresh
        /\ WriteChapters(Fresh)
     \/ /\ hand[j].got \notin Silent /\ Goes(j, "end")
        /\ UNCHANGED <<drawn, chapters, crossed>>
  /\ UNCHANGED <<ladder, key, thumbnail, posters, main, caption, index, edit, wants, shown>>

StoreChapters(j) ==
  /\ Body(j, "ai_content", "file")
  /\ Goes(j, "end")
  /\ chapters' = [chapters EXCEPT !.file = hand[j].got]
  /\ UNCHANGED <<drawn, ladder, key, thumbnail, posters, main, caption, index, edit,
                 wants, shown, crossed>>

FromCaptions(j) ==
  \/ FindTrack(j) \/ ReadTrack(j) \/ ReplaceSearchChunks(j) \/ ClearFails(j)
  \/ GenerateChapters(j) \/ StoreChapters(j)

-----------------------------------------------------------------------------
(* What an attempt that ends there leaves half done: chapters without their    *)
(* file, a track that nobody is told to index.                                *)
LeftHalf(at) ==
  CASE at = "file" -> {"chapters"}
    [] at \in {"record", "chainIndex"} -> {"index"}
    [] OTHER -> {}

(* A call of a body fails; the error ends the attempt.                        *)
BodyFails(j) ==
  /\ hand[j].at \in {"begin", "playlists", "segments", "save", "upload", "thumbnail",
                     "store", "record", "read", "replace", "generate", "file"}
  /\ Fault
  /\ ~(hand[j].at = "replace" /\ hand[j].got \in Silent)
  /\ Fails(j)
  /\ crossed' = crossed \cup LeftHalf(hand[j].at)
  /\ UNCHANGED <<op, task, enq, asks, slips, drawn, ladder, key, thumbnail,
                 posters, main, caption, index, chapters, edit, wants, shown>>

Stops(j) ==
  /\ WorkerStops(j)
  /\ crossed' = crossed \cup LeftHalf(hand[j].at)
       \cup (IF enq[j].at # "idle" /\ enq[j].job = IndexJob THEN {"index"} ELSE {})
  /\ UNCHANGED <<drawn, ladder, key, thumbnail, posters, main, caption, index,
                 chapters, edit, wants, shown>>

Work(j) ==
  Encrypt(j) \/ PosterFrame(j) \/ AutoCaption(j) \/ FromCaptions(j)

-----------------------------------------------------------------------------
(* Requests *)

Idle(r) == enq[r].at = "idle" /\ edit[r].at = "idle"

(* IsReady: finished, or transcoding once more.                               *)
Ready == main.at # "prepare"

AsksFor(r, kind, arg) ==
  /\ Idle(r)
  /\ \E j \in Jobs \cap wants : KindOf[j] = kind /\ Ask(r, j, arg)
  /\ UNCHANGED <<ladder, key, thumbnail, posters, main, caption, index, chapters, edit,
                 wants, shown, crossed>>

AskEncrypt(r) == Ready /\ AsksFor(r, "encrypt", 0) /\ UNCHANGED drawn

AskCaption(r) == Ready /\ AsksFor(r, "caption", 0) /\ UNCHANGED drawn

(* The poster has its name before there is a frame.                           *)
AskPoster(r) == Ready /\ AsksFor(r, "poster", Fresh) /\ drawn' = Fresh

(* With a language or without, ready or not.                                  *)
AskReindex(r) == AsksFor(r, "search_index", 0) /\ UNCHANGED drawn

AskContent(r) == AsksFor(r, "ai_content", 0) /\ UNCHANGED drawn

AskForJob(r) ==
  AskEncrypt(r) \/ AskCaption(r) \/ AskPoster(r) \/ AskReindex(r) \/ AskContent(r)

(* An edit that the API makes by itself, call by call.                        *)
StartsEdit(r, wish, at, new) ==
  /\ wish \in wants
  /\ Idle(r) /\ asks < MaxAsks
  /\ asks' = asks + 1
  /\ drawn' = Fresh
  /\ edit' = [edit EXCEPT ![r] = [at |-> at, new |-> new, old |-> thumbnail]]
  /\ UNCHANGED <<op, task, hand, enq, slips, ladder, key, main, index, wants>>

GoesOn(r, at, next) ==
  /\ edit[r].at = at
  /\ edit' = [edit EXCEPT ![r] = IF next = "idle" THEN NoEdit ELSE [@ EXCEPT !.at = next]]
  /\ UNCHANGED <<queueVars, drawn, ladder, key, main, index, wants>>

(* The old custom poster is removed as soon as the new one is stored.         *)
PutAndRemove(r) ==
  /\ StartsEdit(r, "upload", "thumbnail", Fresh)
  /\ posters' = (posters \cup {Fresh}) \ {thumbnail}
  /\ UNCHANGED <<faults, thumbnail, caption, chapters, shown, crossed>>

PutPoster(r) ==
  /\ StartsEdit(r, "upload", "thumbnail", Fresh)
  /\ posters' = posters \cup {Fresh}
  /\ UNCHANGED <<faults, thumbnail, caption, chapters, shown, crossed>>

ShowPoster(r) ==
  /\ GoesOn(r, "thumbnail", "remove")
  /\ thumbnail' = edit[r].new
  /\ shown' = shown \cup {edit[r].new}
  /\ UNCHANGED <<posters, caption, chapters, crossed>>

RemoveOldCustomPoster(r) ==
  /\ GoesOn(r, "remove", "idle")
  /\ posters' = posters \ {edit[r].old}
  /\ UNCHANGED <<thumbnail, caption, chapters, shown, crossed>>

(* No chapters at all: the row is cleared and the file removed, and neither   *)
(* error is looked at.                                                       *)
SetChapters(r) ==
  \E new \in {0, Fresh} :
    /\ StartsEdit(r, "chapters", "chaptersFile", new)
    /\ \/ WriteChapters(new) /\ UNCHANGED faults
       \/ /\ new = 0 /\ Fault
          /\ crossed' = crossed \cup {"chapters"}
          /\ UNCHANGED chapters
    /\ UNCHANGED <<thumbnail, posters, caption, shown>>

PutChapters(r) ==
  /\ GoesOn(r, "chaptersFile", "idle")
  /\ chapters' = [chapters EXCEPT !.file = edit[r].new]
  /\ UNCHANGED <<thumbnail, posters, caption, shown, crossed>>

UploadCaption(r) ==
  /\ StartsEdit(r, "track", "captionRow", 0)
  /\ caption' = [caption EXCEPT !.vtt = Fresh]
  /\ crossed' = crossed \cup {"index"}
  /\ UNCHANGED <<faults, thumbnail, posters, chapters, shown>>

RecordCaption(r) ==
  /\ GoesOn(r, "captionRow", "idle")
  /\ caption' = [caption EXCEPT !.row = TRUE]
  /\ UNCHANGED <<thumbnail, posters, chapters, shown, crossed>>

DeleteCaption(r) ==
  /\ caption.row
  /\ StartsEdit(r, "track", "captionFile", 0)
  /\ caption' = [caption EXCEPT !.row = FALSE]
  /\ UNCHANGED <<faults, thumbnail, posters, chapters, shown, crossed>>

RemoveTrack(r) ==
  /\ GoesOn(r, "captionFile", "idle")
  /\ caption' = [caption EXCEPT !.vtt = 0]
  /\ crossed' = crossed \cup {"index"}
  /\ UNCHANGED <<thumbnail, posters, chapters, shown>>

(* A call of an edit fails, or the API stops: the rest of it is not done.      *)
EditFails(r) ==
  /\ edit[r].at # "idle"
  /\ Fault
  /\ edit' = [edit EXCEPT ![r] = NoEdit]
  /\ crossed' = IF edit[r].at = "chaptersFile" THEN crossed \cup {"chapters"} ELSE crossed
  /\ UNCHANGED <<op, task, hand, enq, asks, slips, drawn, ladder, key, thumbnail,
                 posters, main, caption, index, chapters, wants, shown>>

Edit(r) ==
  \/ PutPoster(r) \/ ShowPoster(r) \/ RemoveOldCustomPoster(r)
  \/ SetChapters(r) \/ PutChapters(r)
  \/ UploadCaption(r) \/ RecordCaption(r) \/ DeleteCaption(r) \/ RemoveTrack(r)
  \/ EditFails(r)

-----------------------------------------------------------------------------
(* The video is transcoded anew, not ready until the encoder runs: the plain   *)
(* ladder over whatever is there, and the poster that the transcode made.     *)
Transcodes(at, next) ==
  /\ main.at = at
  /\ main' = [main EXCEPT !.at = next]
  /\ UNCHANGED <<queueVars, drawn, key, posters, caption, index, chapters, edit, wants,
                 shown, crossed>>

StartTranscode ==
  /\ "transcode" \in wants /\ main.count < MaxTranscodes
  /\ main.at = "idle"
  /\ main' = [at |-> "prepare", count |-> main.count + 1]
  /\ UNCHANGED <<queueVars, drawn, ladder, key, thumbnail, posters, caption, index,
                 chapters, edit, wants, shown, crossed>>

SetTranscoding == Transcodes("prepare", "upload") /\ UNCHANGED <<ladder, thumbnail>>

UploadLadder ==
  /\ Transcodes("upload", "finish")
  /\ ladder' = [ladder EXCEPT !.playlist = 0]
  /\ UNCHANGED thumbnail

SetFinished ==
  /\ Transcodes("finish", "idle")
  /\ thumbnail' = 0
  /\ UNCHANGED ladder

Transcode == StartTranscode \/ SetTranscoding \/ UploadLadder \/ SetFinished

-----------------------------------------------------------------------------
Init ==
  /\ QueueInit
  /\ drawn = 0
  /\ ladder = [playlist |-> 0, segments |-> 0]
  /\ key = 0 /\ thumbnail = 0 /\ posters = {}
  /\ main = [at |-> "idle", count |-> 0]
  /\ caption = [row |-> FALSE, vtt |-> 0]
  /\ index = 0
  /\ chapters = [row |-> 0, file |-> 0]
  /\ edit = [r \in Askers |-> NoEdit]
  /\ wants \in Wishes
  /\ shown = {} /\ crossed = {}

(* An enqueue of the index job ends, the index is not of the track of now, and *)
(* no attempt of the job is left that will still read the track.              *)
MissesTrack(a) ==
  /\ enq[a].job = IndexJob /\ enq[a].at # "idle" /\ enq'[a].at = "idle"
  /\ index # caption.vtt
  /\ task'[IndexJob].state # "waiting"
  /\ ~(task'[IndexJob].state = "active" /\ hand[IndexJob].at \in {"idle", "begin", "read"})

Misses ==
  /\ crossed' = IF \E a \in Askers \cup Jobs : MissesTrack(a)
                THEN crossed \cup {"index"} ELSE crossed
  /\ UNCHANGED <<drawn, ladder, key, thumbnail, posters, main, caption, index,
                 chapters, edit, wants, shown>>

Queue == QueueStep /\ Misses

Next ==
  \/ Queue
  \/ \E j \in Jobs : Work(j) \/ BodyFails(j) \/ Stops(j)
  \/ \E r \in Askers : AskForJob(r) \/ Edit(r)
  \/ Transcode

(* As long as a request or a handler can go on, one of them does: less than    *)
(* every process gives, and enough where requests and retries are bounded.    *)
Progress ==
  \/ \E a \in Askers \cup Jobs : EnqueueIdempotent(a) /\ Misses
  \/ \E r \in Askers : SetQueued(r) /\ Misses
  \/ \E j \in Jobs : (Begin(j) \/ Finish(j) \/ Return(j) \/ LeaseExpires(j)) /\ Misses
  \/ \E j \in Jobs : Work(j)

Spec == Init /\ [][Next]_vars

FairSpec == Spec /\ WF_vars(Progress)

-----------------------------------------------------------------------------
(* Properties *)

(* The types of the queue's state (QueueTypeOK), of the ladder, posters,       *)
(* captions and chapters, and of the edits under way.                         *)
TypeOK ==
  /\ QueueTypeOK
  /\ LET Drawn == 0..drawn IN
     /\ ladder \in [playlist : Drawn, segments : Drawn]
     /\ key \in Drawn /\ thumbnail \in Drawn /\ index \in Drawn
     /\ posters \cup shown \subseteq 1..drawn
     /\ caption \in [row : BOOLEAN, vtt : Drawn]
     /\ chapters \in [row : Drawn, file : Drawn]
  /\ main.at \in {"idle", "prepare", "upload", "finish"} /\ main.count \in 0..MaxTranscodes
  /\ wants \in Wishes
  /\ crossed \subseteq {"poster", "chapters", "index"}

Working(k) == \E j \in Jobs : KindOf[j] = k /\ hand[j].at # "idle"

Settled(k) == op[k] = "done" /\ k \notin slips /\ ~Working(k)

(* Once the row says that the video is encrypted, its playlists and segments  *)
(* name the key that the key endpoint hands out, unless a transcode has put a *)
(* plain ladder over them: whatever attempts failed half way before           *)
(* (worker/encrypt.go: handleEncrypt, keys.go: handleKey).                    *)
KeyOpensLadder ==
  "encrypt" \in Kinds /\ Settled("encrypt")
    => ladder.playlist = 0 \/ (ladder.playlist = ladder.segments /\ ladder.segments = key)

(* The poster that the row names is there, although every upload removes the  *)
(* one it has replaced; but for a frame grabbed a second time for a poster    *)
(* that was shown before (httpapi/poster.go: removeOldCustomPoster,           *)
(* worker/poster.go: handlePosterFrame).                                      *)
PosterExists == thumbnail = 0 \/ thumbnail \in posters \/ "poster" \in crossed

(* A track that a caption job has stored is indexed: from the moment its index *)
(* job is enqueued, and when no task of that job is left, failed ones included, *)
(* the search index is that of the track, whatever index and caption jobs run  *)
(* beside. But for a track that an admin has put or removed by hand, a caption *)
(* job cut off before it chained, an enqueue that was lost or that an attempt  *)
(* absorbed which had read the old track, an older index written over by the   *)
(* other index job, and a clearing that failed unseen: until the track is      *)
(* indexed the next time (worker/caption.go: handleAutoCaption,                *)
(* worker/search_index.go: handleBuildSearchIndex).                            *)
IndexFollowsCaption ==
  /\ IndexJob \in wants /\ "index" \notin crossed
  /\ task[IndexJob].state = "none"
  /\ \A a \in Askers \cup Jobs : enq[a].job = IndexJob => enq[a].at = "idle"
  /\ \A j \in Jobs : hand[j].at \notin {"record", "chainIndex"}
  => index = caption.vtt

(* The chapters of the row and of chapters.vtt are the same when nobody is     *)
(* between the two, unless two writers were there at once or a call failed     *)
(* (admin.go: adminSetChapters, worker/ai_content.go: handleGenerateAIContent). *)
ChaptersAgree ==
  ~ChaptersOpen /\ "chapters" \notin crossed => chapters.row = chapters.file

(* Once requests cease for a while, no row says "queued" or "running" any     *)
(* more: whatever was asked for has been run to its end, unless a fault or an  *)
(* enqueue that came too late has left its row to no one (queue.go:           *)
(* enqueueIdempotent, worker.go: trackOp).                                    *)
RowsSettle ==
  []<>(\A k \in Kinds : op[k] \in {"queued", "running"} => k \in slips)
=============================================================================
