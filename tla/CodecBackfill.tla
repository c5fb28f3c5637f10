---------------------------- MODULE CodecBackfill ----------------------------
(***************************************************************************)
(* Extra codecs of a video: the admin's "produce AV1/HEVC/VP9", the backfill *)
(* task that encodes them on the bulk lane, the operation rows that tell the *)
(* admin how far it is, and the master playlist that lists what there is.   *)
(* All handlers work on one video, as tasks and rows are kept per video; the *)
(* main transcode, the subject of VideoLifecycle, appears by the steps that *)
(* write what the backfill reads.                                           *)
(***************************************************************************)
EXTENDS Naturals, FiniteSets

CONSTANTS
  Codecs,      (* the codecs beyond H.264: av1, hevc, vp9                   *)
  Requests,    (* HTTP requests, each served once                           *)
  Faults,      (* what may go wrong in this instance, a subset of AllFaults *)
  MaxUploads,  (* how many source files clients upload                      *)
  MaxRetry     (* asynq.MaxRetry of the backfill task (2 in the code)       *)

(* "abandon": a request ends half way; "crash": a worker dies; "infra": a     *)
(* call of a handler on the database, the bucket or the queue fails, be it    *)
(* that the handler's context has ended.                                      *)
AllFaults == {"abandon", "crash", "infra"}

ASSUME FaultsAssumption == Faults \subseteq AllFaults
ASSUME BoundsAssumption == MaxUploads \in Nat \ {0} /\ MaxRetry \in Nat

Infra == "infra" \in Faults

VARIABLES
  raw,       (* the source stored as raw/<id>/source; sources are numbered  *)
             (* in the order of their upload, 0 for none                    *)
  h264,      (* the source of the H.264 ladder, 0 for none                  *)
  master,    (* master.m3u8                                                 *)
  pristine,  (* master_h264.m3u8                                            *)
  ladder,    (* per codec, the source of its ladder, 0 for none             *)
  codecs,    (* encode_settings.codecs of the video, h264 left out          *)
  op,        (* video_operations, per codec                                 *)
  main,      (* the main transcode                                          *)
  task,      (* the asynq task "codecs:<id>"                                *)
  run,       (* the backfill's handler                                      *)
  req,       (* the API's handlers                                          *)
  slip,      (* history: whether a backfill missed the pristine master      *)
  lost       (* history: the codecs whose row says "running" because the    *)
             (* write that should have followed was lost                    *)

vars == <<raw, h264, master, pristine, ladder, codecs, op, main, task, run, req,
          slip, lost>>

-----------------------------------------------------------------------------
(* A playlist: the source of the H.264 ladder it was written with, and the    *)
(* extra codecs merged into it.                                               *)
NoPlaylist == [base |-> 0, extra |-> {}]

Stored(playlist) == playlist.base # 0

NoTask  == [state |-> "none", retried |-> 0]
NewTask == [state |-> "waiting", retried |-> 0]

TaskLive == task.state \in {"waiting", "active"}

(* enqueueIdempotent: only a live task absorbs the call. *)
Enqueued(t) == IF t.state \in {"none", "archived"} THEN NewTask ELSE t

(* AfterFailure with one retry too many. *)
RetriedOnceMore(t) ==
  IF t.retried <= MaxRetry
  THEN [state |-> "waiting", retried |-> t.retried + 1]
  ELSE [t EXCEPT !.state = "archived"]

(* What asynq does with an attempt that did not succeed. *)
AfterFailure(t) ==
  IF t.retried < MaxRetry
  THEN [state |-> "waiting", retried |-> t.retried + 1]
  ELSE [t EXCEPT !.state = "archived"]

IdleRun == [at |-> "idle", codecs |-> {}, todo |-> {}, src |-> 0,
            read |-> NoPlaylist, ok |-> FALSE]

Unserved == [at |-> "idle"]
Served   == [at |-> "done"]

(* A video inherits extra codecs from its library's settings. *)
Init ==
  /\ raw = 0
  /\ h264 = 0
  /\ master = NoPlaylist
  /\ pristine = NoPlaylist
  /\ ladder = [c \in Codecs |-> 0]
  /\ codecs \in SUBSET Codecs
  /\ op = [c \in Codecs |-> "none"]
  /\ main = [at |-> "idle", codecs |-> {}]
  /\ task = NoTask
  /\ run = IdleRun
  /\ req = [r \in Requests |-> Unserved]
  /\ slip = FALSE
  /\ lost = {}

files == <<raw, h264, master, pristine, ladder>>

-----------------------------------------------------------------------------
(* The main transcode. *)

(* A client completes an upload, of a new file or of the one that is there,   *)
(* or asynq retries, perhaps after a crash, and the transcode gets as far as  *)
(* the encode (status 3); it has read the encode settings on its way.         *)
MainStart ==
  /\ main.at \in {"idle", "finished", "failed"} \/ "crash" \in Faults
  /\ \E n \in {raw, raw + 1} : n \in 1 .. MaxUploads /\ raw' = n
  /\ main' = [at |-> "encoding", codecs |-> codecs]
  /\ UNCHANGED <<h264, master, pristine, ladder, codecs, op, task, run, req,
                 slip, lost>>

(* The encode fails for the source's sake (status 5). *)
MainFail ==
  /\ main.at = "encoding"
  /\ main' = [at |-> "failed", codecs |-> {}]
  /\ UNCHANGED <<files, codecs, op, task, run, req, slip, lost>>

(* UploadDir replaces the ladder and master.m3u8 and touches nothing else     *)
(* under hls/<id>/; SetFinished follows.                                      *)
MainPublish ==
  /\ main.at = "encoding"
  /\ h264' = raw
  /\ master' = [base |-> raw, extra |-> {}]
  /\ main' = [main EXCEPT !.at = IF main.codecs = {} THEN "finished" ELSE "rows"]
  /\ UNCHANGED <<raw, pristine, ladder, codecs, op, task, run, req, slip, lost>>

(* The rows of the codecs that the settings asked for when they were read; an *)
(* error is ignored, as is one of the enqueue.                                *)
MainRows ==
  /\ main.at = "rows"
  /\ \E written \in SUBSET main.codecs :
       /\ written = main.codecs \/ Infra
       /\ op' = [c \in Codecs |-> IF c \in written THEN "queued" ELSE op[c]]
       /\ lost' = lost \ written
  /\ main' = [main EXCEPT !.at = "enqueue"]
  /\ UNCHANGED <<files, codecs, task, run, req, slip>>

MainEnqueue ==
  /\ main.at = "enqueue"
  /\ task' = Enqueued(task) \/ (Infra /\ UNCHANGED task)
  /\ main' = [at |-> "finished", codecs |-> {}]
  /\ UNCHANGED <<files, codecs, op, run, req, slip, lost>>

Main == MainFail \/ MainPublish \/ MainRows \/ MainEnqueue

-----------------------------------------------------------------------------
(* The API: generateCodec.  at names a request's next call. *)

(* Status 3 or 4. *)
IsReady == main.at \in {"encoding", "rows", "enqueue", "finished"}

(* The lookup and the test of the status. *)
Ask(r, c) ==
  /\ req[r] = Unserved
  /\ IsReady
  /\ req' = [req EXCEPT ![r] = [at |-> "read", codec |-> c, read |-> {}]]
  /\ UNCHANGED <<files, codecs, op, main, task, run, slip, lost>>

(* AddVideoCodec reads the settings of the video. *)
AskRead(r) ==
  /\ req[r].at = "read"
  /\ req' = [req EXCEPT ![r].at = "write", ![r].read = codecs]
  /\ UNCHANGED <<files, codecs, op, main, task, run, slip, lost>>

(* ... and writes them back, with the codec in. *)
AskWrite(r) ==
  /\ req[r].at = "write"
  /\ codecs' = req[r].read \cup {req[r].codec}
  /\ req' = [req EXCEPT ![r].at = "row", ![r].read = {}]
  /\ UNCHANGED <<files, op, main, task, run, slip, lost>>

(* SetOperationStatus, whose error is ignored. *)
AskRow(r) ==
  /\ req[r].at = "row"
  /\ \/ /\ op' = [op EXCEPT ![req[r].codec] = "queued"]
        /\ lost' = lost \ {req[r].codec}
     \/ Infra /\ UNCHANGED <<op, lost>>
  /\ req' = [req EXCEPT ![r].at = "enqueue"]
  /\ UNCHANGED <<files, codecs, main, task, run, slip>>

(* EnqueueCodecBackfill. *)
AskEnqueue(r) ==
  /\ req[r].at = "enqueue"
  /\ task' = Enqueued(task)
  /\ req' = [req EXCEPT ![r] = Served]
  /\ UNCHANGED <<files, codecs, op, main, run, slip, lost>>

(* Any of these calls fails, or the client is gone. *)
AskAbandon(r) ==
  /\ "abandon" \in Faults
  /\ req[r] \notin {Unserved, Served}
  /\ req' = [req EXCEPT ![r] = Served]
  /\ UNCHANGED <<files, codecs, op, main, task, run, slip, lost>>

Asked(r) == AskRead(r) \/ AskWrite(r) \/ AskRow(r) \/ AskEnqueue(r)

-----------------------------------------------------------------------------
(* The worker: handleCodecBackfill.  run.at is what the handler does next.    *)

others == <<raw, h264, codecs, main, req>>

Return(ok) == run' = [IdleRun EXCEPT !.at = "return", !.ok = ok]

StartRun ==
  /\ task.state = "waiting"
  /\ run.at = "idle"
  /\ task' = [task EXCEPT !.state = "active"]
  /\ run' = [IdleRun EXCEPT !.at = "settings"]
  /\ UNCHANGED <<others, master, pristine, ladder, op, slip, lost>>

(* GetEncodeSettings; with no extra codec there is nothing to do. *)
RunSettings ==
  /\ run.at = "settings"
  /\ IF codecs = {}
     THEN Return(TRUE)
     ELSE run' = [run EXCEPT !.at = "source", !.codecs = codecs, !.todo = codecs]
  /\ UNCHANGED <<others, task, master, pristine, ladder, op, slip, lost>>

(* The download, and the probe and edit, of the source that is there now. *)
RunSource ==
  /\ run.at = "source"
  /\ run' = [run EXCEPT !.at = "capture", !.src = raw]
  /\ UNCHANGED <<others, task, master, pristine, ladder, op, slip, lost>>

(* RunCapture with no look at whether there is a pristine copy. *)
CaptureAgain ==
  /\ run.at = "capture"
  /\ Stored(master)
  /\ run' = [run EXCEPT !.at = "keep", !.read = master]
  /\ UNCHANGED <<others, task, master, pristine, ladder, op, slip, lost>>

(* Is there a pristine master?  A read that fails for another reason counts   *)
(* as "no"; then the present master is read, to be kept as the pristine one.  *)
RunCapture ==
  /\ run.at = "capture"
  /\ \/ /\ Stored(pristine)
        /\ run' = [run EXCEPT !.at = "next"]
        /\ UNCHANGED slip
     \/ /\ ~Stored(pristine) \/ Infra
        /\ \/ /\ Stored(master)
              /\ run' = [run EXCEPT !.at = "keep", !.read = master]
           \/ /\ ~Stored(master) \/ Infra
              /\ run' = [run EXCEPT !.at = "next"]
        /\ slip' = (slip \/ Stored(pristine) \/ run'.at = "next")
  /\ UNCHANGED <<others, task, master, pristine, ladder, op, lost>>

(* PutBytes of master_h264.m3u8, whose error is ignored. *)
RunKeep ==
  /\ run.at = "keep"
  /\ run' = [run EXCEPT !.at = "next", !.read = NoPlaylist]
  /\ \/ pristine' = run.read /\ UNCHANGED slip
     \/ Infra /\ slip' = TRUE /\ UNCHANGED pristine
  /\ UNCHANGED <<others, task, master, ladder, op, lost>>

RowsRunning == {c \in Codecs : op[c] = "running"}

(* A row is written, or the write is lost: nobody looks at its error. *)
WriteRow(c, state) ==
  \/ op' = [op EXCEPT ![c] = state] /\ lost' = lost \ {c}
  \/ Infra /\ lost' = lost \cup ({c} \cap RowsRunning) /\ UNCHANGED op

(* The codec whose turn it is, in the one fixed order of AllCodecs. *)
Turn == CHOOSE c \in run.todo : TRUE

(* The codec's master playlist is there already, and the codec is left out. *)
RunPresent ==
  /\ run.at = "next"
  /\ run.todo # {}
  /\ ladder[Turn] # 0
  /\ run' = [run EXCEPT !.todo = @ \ {Turn}]
  /\ UNCHANGED <<others, task, master, pristine, ladder, op, slip, lost>>

(* It is not, or the read fails: trackOp, and the encode begins. *)
RunEncode ==
  /\ run.at = "next"
  /\ run.todo # {}
  /\ ladder[Turn] = 0 \/ Infra
  /\ run' = [run EXCEPT !.at = "encode"]
  /\ WriteRow(Turn, "running")
  /\ UNCHANGED <<others, task, master, pristine, ladder, slip>>

(* RunUploaded without a look at UploadDir's error. *)
UploadErrorIgnored ==
  /\ run.at = "encode"
  /\ ladder' \in {ladder, [ladder EXCEPT ![Turn] = run.src]}
  /\ run' = [run EXCEPT !.at = "done"]
  /\ UNCHANGED <<others, task, master, pristine, op, slip, lost>>

(* BuildCodec and UploadDir succeed: the ladder is there, its own master      *)
(* playlist, the mark of its presence, uploaded last.                         *)
RunUploaded ==
  /\ run.at = "encode"
  /\ ladder' = [ladder EXCEPT ![Turn] = run.src]
  /\ run' = [run EXCEPT !.at = "done"]
  /\ UNCHANGED <<others, task, master, pristine, op, slip, lost>>

RunDone ==
  /\ run.at = "done"
  /\ WriteRow(Turn, "done")
  /\ run' = [run EXCEPT !.at = "next", !.todo = @ \ {Turn}]
  /\ UNCHANGED <<others, task, master, pristine, ladder, slip>>

(* RunFailed without its row. *)
FailedUntold ==
  /\ run.at = "encode"
  /\ Return(FALSE)
  /\ UNCHANGED <<others, task, master, pristine, ladder, op, slip, lost>>

(* The encode fails, or the upload half way, before that mark. *)
RunFailed ==
  /\ run.at = "encode"
  /\ WriteRow(Turn, "failed")
  /\ Return(FALSE)
  /\ UNCHANGED <<others, task, master, pristine, ladder, slip>>

(* RunRebuild that lists the codecs of the settings as they are by then. *)
RebuildFromSettings ==
  /\ run.at = "next"
  /\ run.todo = {}
  /\ Stored(pristine)
  /\ run' = [run EXCEPT !.at = "publish", !.src = 0,
                        !.read = [pristine EXCEPT !.extra = @ \cup codecs]]
  /\ UNCHANGED <<others, task, master, pristine, ladder, op, slip, lost>>

(* rebuildCombinedMaster: the pristine master, or for want of one the present *)
(* master, plus each codec whose own master playlist can be read.             *)
RunRebuild ==
  /\ run.at = "next"
  /\ run.todo = {}
  /\ \E base \in {pristine, master} :
       \E found \in SUBSET {c \in run.codecs : ladder[c] # 0} :
         /\ Stored(base)
         /\ base = pristine \/ ~Stored(pristine) \/ Infra
         /\ found = {c \in run.codecs : ladder[c] # 0} \/ Infra
         /\ run' = [run EXCEPT !.at = "publish", !.src = 0,
                               !.read = [base EXCEPT !.extra = @ \cup found]]
  /\ UNCHANGED <<others, task, master, pristine, ladder, op, slip, lost>>

RunPublish ==
  /\ run.at = "publish"
  /\ master' = run.read
  /\ Return(TRUE)
  /\ UNCHANGED <<others, task, pristine, ladder, op, slip, lost>>

(* An error before or after the codecs' turns; it tells no row.  The probe    *)
(* and the edit may fail for the source's sake, and there may be no master.   *)
RunError ==
  /\ \/ run.at = "source"
     \/ run.at = "next" /\ run.todo = {} /\ ~Stored(pristine) /\ ~Stored(master)
     \/ Infra /\ run.at \in {"settings", "publish"}
     \/ Infra /\ run.at = "next" /\ run.todo = {}
  /\ Return(FALSE)
  /\ UNCHANGED <<others, task, master, pristine, ladder, op, slip, lost>>

RunSettle ==
  /\ run.at = "return"
  /\ run' = IdleRun
  /\ task' = IF run.ok THEN NoTask ELSE AfterFailure(task)
  /\ UNCHANGED <<others, master, pristine, ladder, op, slip, lost>>

Run ==
  \/ StartRun
  \/ RunSettings
  \/ RunSource
  \/ RunCapture
  \/ RunKeep
  \/ RunPresent
  \/ RunEncode
  \/ RunUploaded
  \/ RunDone
  \/ RunFailed
  \/ RunRebuild
  \/ RunPublish
  \/ RunError
  \/ RunSettle

(* The worker dies or is shut down; a row it was about to finish stays. *)
WorkerStop ==
  /\ "crash" \in Faults
  /\ run.at # "idle"
  /\ run' = IdleRun
  /\ UNCHANGED task \/ task' = [task EXCEPT !.state = "waiting"]
  /\ lost' = lost \cup {c \in RowsRunning :
                          run.at \in {"encode", "done"} /\ c = Turn}
  /\ UNCHANGED <<others, master, pristine, ladder, op, slip>>

LeaseExpires ==
  /\ task.state = "active"
  /\ run.at = "idle"
  /\ task' = AfterFailure(task)
  /\ UNCHANGED <<others, master, pristine, ladder, op, run, slip, lost>>

-----------------------------------------------------------------------------
Next ==
  \/ MainStart
  \/ Main
  \/ \E r \in Requests :
       \/ \E c \in Codecs : Ask(r, c)
       \/ Asked(r)
       \/ AskAbandon(r)
  \/ Run
  \/ WorkerStop
  \/ LeaseExpires

Spec == Init /\ [][Next]_vars

-----------------------------------------------------------------------------
(* Properties *)

Sources == 0 .. MaxUploads

Playlists == [base : Sources, extra : SUBSET Codecs]

Tasks == [state : {"none", "waiting", "active", "archived"}, retried : 0 .. MaxRetry]

Attempts ==
  [at : {"idle", "settings", "source", "capture", "keep", "next", "encode",
         "done", "publish", "return"},
   codecs : SUBSET Codecs, todo : SUBSET Codecs, src : Sources,
   read : Playlists, ok : BOOLEAN]

Asks == [at : {"read", "write", "row", "enqueue"}, codec : Codecs,
         read : SUBSET Codecs]

TypeOK ==
  /\ raw \in Sources
  /\ h264 \in Sources
  /\ master \in Playlists
  /\ pristine \in Playlists
  /\ ladder \in [Codecs -> Sources]
  /\ codecs \in SUBSET Codecs
  /\ op \in [Codecs -> {"none", "queued", "running", "done", "failed"}]
  /\ main \in [at : {"idle", "encoding", "failed", "rows", "enqueue", "finished"},
               codecs : SUBSET Codecs]
  /\ task \in Tasks
  /\ run \in Attempts
  /\ req \in [Requests -> {Unserved, Served} \cup Asks]
  /\ slip \in BOOLEAN
  /\ lost \in SUBSET Codecs

(* The backfill, with whatever requests, transcodes and faults around it,     *)
(* keeps the promise of CodecCatalog: the published master lists complete     *)
(* ladders only, also when it is merged from an old or wrong base.            *)
Catalog == INSTANCE CodecCatalog
  WITH complete <- {c \in Codecs : ladder[c] # 0},
       listed <- master.extra,
       playable <- Stored(master)

KeepsCatalog == Catalog!Spec

(* master_h264.m3u8 holds the H.264 variants and nothing else, unless a       *)
(* backfill ran while there was no master at all, or a read of the bucket     *)
(* failed for another reason than absence, or the copy could not be written.  *)
PristineIsPure == ~slip => pristine.extra = {}

(* A row that says "done" has its ladder in the bucket, whatever the number   *)
(* of attempts and of requests for the same codec.                            *)
DoneIsUploaded == \A c \in Codecs : op[c] = "done" => ladder[c] # 0

(* A row says "running" only while the handler is at that codec, as it is     *)
(* given its end by the deferred finalizer on every way out: a crash or a     *)
(* lost write apart, nothing leaves a row "running".                          *)
RunningIsRunning ==
  \A c \in Codecs :
    op[c] = "running" /\ c \notin lost
      => run.at \in {"encode", "done"} /\ Turn = c

(* What the comment in generateCodec says of writing "queued" before the      *)
(* enqueue, that no row is stranded: a queued row has a task that will run,   *)
(* or the request or transcode that wrote it is about to enqueue one.         *)
QueuedHasTask ==
  \A c \in Codecs :
    op[c] = "queued" =>
      \/ TaskLive
      \/ main.at = "enqueue"
      \/ \E r \in Requests : req[r].at = "enqueue"

(* What handleCodecBackfill says of the renditions, that they share geometry  *)
(* and timing: once all work on the video is over, what its master lists was  *)
(* encoded from one source, the H.264 ladder's.                               *)
PublishedFromOneSource ==
  /\ main.at = "finished"
  /\ ~TaskLive
  /\ \A r \in Requests : req[r] \in {Unserved, Served}
  => /\ master.base = h264
     /\ \A c \in master.extra : ladder[c] = h264
=============================================================================
