--------------------------- MODULE VideoLifecycle ---------------------------
(***************************************************************************)
(* The life of a video: the API handlers that create, feed, trash, restore  *)
(* and purge it, the asynq task that transcodes it, the worker's handler    *)
(* for that task, and the hourly trash sweep.  They share three stores: the *)
(* videos table (presence, status), the bucket (raw, hls) and the task      *)
(* queue (task).  Every call on a store is one step, so the handlers        *)
(* interleave wherever the code lets them.                                  *)
(*                                                                          *)
(* asynq is an external library; its task life is modelled from how the     *)
(* code uses it: a task ID is held from the enqueue until the task succeeds *)
(* or its archived corpse is deleted, a failed attempt is retried until     *)
(* MaxRetry is used up and then archived, a worker that dies leaves its     *)
(* task leased until the lease expires.                                     *)
(***************************************************************************)
EXTENDS Naturals, FiniteSets

CONSTANTS
  Videos,      (* video ids                                                *)
  Requests,    (* HTTP requests; each is served once, so |Requests| bounds *)
               (* how many operations a behaviour holds                    *)
  Kinds,       (* the handlers that requests may call                      *)
  Faults,      (* what may go wrong in this instance, a subset of AllFaults *)
  Sources,     (* the different files a client may upload as the source    *)
  MaxRetry     (* asynq.MaxRetry of the transcode task (3 in the code)     *)

AllKinds == {"complete", "upload", "fetch", "delete", "restore", "purge"}

(* "abandon": a request ends half way (API crash, closed connection, Redis  *)
(* error); "crash": the worker process dies or is shut down; "timeout": the *)
(* task's context ends for no request's sake (asynq's own deadline);        *)
(* "infra": a database or bucket call of the worker, or the removal of      *)
(* objects, fails.                                                          *)
AllFaults == {"abandon", "crash", "timeout", "infra"}

ASSUME KindsAssumption == Kinds \subseteq AllKinds
ASSUME FaultsAssumption == Faults \subseteq AllFaults
ASSUME MaxRetryAssumption == MaxRetry \in Nat

None == "none"

(* What is stored while some objects of a ladder are replaced and others not. *)
Mixed == "mixed"

ASSUME SourcesAssumption == {None, Mixed} \cap Sources = {}

VARIABLES
  presence,  (* whether the row exists and whether deleted_at is set       *)
  status,    (* videos.status, NoRow when there is no row                  *)
  raw,       (* the file stored as raw/<id>/source                         *)
  hls,       (* the ladder under hls/<id>/: the source its variants and    *)
             (* its master playlist were encoded from                      *)
  task,      (* the asynq task "transcode:<id>"                            *)
  run,       (* the worker's handler of that task                          *)
  cancels,   (* cancellations published and not yet delivered to a worker  *)
  req,       (* the API's handlers                                         *)
  sweep,     (* what PurgeExpiredTrash does with the video                 *)
  scar       (* history: what has befallen the video's processing so far   *)

vars == <<presence, status, raw, hls, task, run, cancels, req, sweep, scar>>

-----------------------------------------------------------------------------
(* The video's status, internal/video/status.go. *)

StatusCreated     == 0
StatusUploaded    == 1
StatusProcessing  == 2
StatusTranscoding == 3
StatusFinished    == 4
StatusFailed      == 5
NoRow             == 6

(* playResponse hands out the HLS URL exactly when this holds. *)
IsReady(s) == s \in {StatusTranscoding, StatusFinished}

InProgress(s) == s \in {StatusUploaded, StatusProcessing, StatusTranscoding}

Exists(v) == presence[v] \in {"live", "trashed"}

(* WriteStatus with an upsert in place of the update. *)
UpsertStatus(v, s) == status' = [status EXCEPT ![v] = s]

(* A row update by id alone: no row, no effect, and it does not look at      *)
(* deleted_at or at the status it overwrites.                                *)
WriteStatus(v, s) ==
  status' = IF Exists(v) THEN [status EXCEPT ![v] = s] ELSE status

-----------------------------------------------------------------------------
(* The asynq task.  "waiting" stands for asynq's pending and retry states.   *)

NoTask == [state |-> "none", retried |-> 0, url |-> FALSE]

NewTask(url) == [state |-> "waiting", retried |-> 0, url |-> url]

TaskLive(v) == task[v].state \in {"waiting", "active"}

(* Enqueued without the corpse's deletion. *)
EnqueuedOverCorpse(t, url) == IF t.state = "none" THEN NewTask(url) ELSE t

(* enqueueIdempotent: an archived corpse is deleted and replaced, a live     *)
(* task absorbs the call, payload and all.                                   *)
Enqueued(t, url) ==
  IF t.state \in {"none", "archived"} THEN NewTask(url) ELSE t

(* What asynq does with an attempt that did not succeed. *)
AfterFailure(t) ==
  IF t.retried < MaxRetry
  THEN [t EXCEPT !.state = "waiting", !.retried = @ + 1]
  ELSE [t EXCEPT !.state = "archived"]

-----------------------------------------------------------------------------
NoLadder == [variants |-> None, master |-> None]

Published(v) == hls[v].master # None /\ hls[v].variants = hls[v].master

(* ended: the handler's context is done, so each call it makes from here on   *)
(* fails.  ok: what the handler returns.                                      *)
IdleRun == [at |-> "idle", src |-> None, ended |-> FALSE, ok |-> FALSE]

(* A request not yet made, and one answered. *)
Unserved == [at |-> "idle"]
Served   == [at |-> "done"]

Serving(r) == req[r] \notin {Unserved, Served}

(* The ways a video can be disturbed, each named where it happens, or have   *)
(* its objects removed.                                                      *)
Disturbed(v) == [scar EXCEPT ![v] = IF @ = "wiped" THEN @ ELSE "disturbed"]
Wiped(v) == [scar EXCEPT ![v] = "wiped"]

Init ==
  /\ presence = [v \in Videos |-> "new"]
  /\ status = [v \in Videos |-> NoRow]
  /\ raw = [v \in Videos |-> None]
  /\ hls = [v \in Videos |-> NoLadder]
  /\ task = [v \in Videos |-> NoTask]
  /\ run = [v \in Videos |-> IdleRun]
  /\ cancels = {}
  /\ req = [r \in Requests |-> Unserved]
  /\ sweep = [v \in Videos |-> "none"]
  /\ scar = [v \in Videos |-> "none"]

-----------------------------------------------------------------------------
(* The API.  A request is a sequence of calls; at names the next one.        *)

(* Request r, at step a for v, goes on to step b. *)
Step(r, v, a, b) ==
  /\ Serving(r)
  /\ req[r].at = a
  /\ req[r].v = v
  /\ req' = [req EXCEPT ![r] = IF b = "done" THEN Served ELSE [@ EXCEPT !.at = b]]

(* handleCreateVideo, adminCreateVideo: the id is a fresh UUID, known to no   *)
(* one before the answer.                                                     *)
Create(v) ==
  /\ presence[v] = "new"
  /\ presence' = [presence EXCEPT ![v] = "live"]
  /\ status' = [status EXCEPT ![v] = StatusCreated]
  /\ UNCHANGED <<raw, hls, task, run, cancels, req, sweep, scar>>

(* A client PUTs its file at the presigned URL that handleUploadURL gave it.  *)
(* The URL outlives the row: the bucket does not look at it.                  *)
ClientPut(v) ==
  /\ presence[v] # "new"
  /\ \E n \in Sources : raw' = [raw EXCEPT ![v] = n]
  /\ UNCHANGED <<presence, status, hls, task, run, cancels, req, sweep, scar>>

FirstStep(kind) ==
  CASE kind \in {"complete", "upload", "fetch"} -> "lookup"
    [] kind = "delete" -> "trash"
    [] kind = "restore" -> "restore"
    [] kind = "purge" -> "cancel"

(* Nobody knows the id of a video that was never created. *)
Receive(r, kind, v) ==
  /\ req[r] = Unserved
  /\ presence[v] # "new"
  /\ req' = [req EXCEPT ![r] = [at |-> FirstStep(kind), kind |-> kind, v |-> v]]
  /\ UNCHANGED <<presence, status, raw, hls, task, run, cancels, sweep, scar>>

AfterLookup(kind) ==
  CASE kind = "complete" -> "stat"
    [] kind = "upload" -> "put"
    [] OTHER -> "mark"

(* GetVideo, which hides trashed rows. *)
ReqLookup(r, v) ==
  /\ Step(r, v, "lookup",
          IF presence[v] = "live" THEN AfterLookup(req[r].kind) ELSE "done")
  /\ UNCHANGED <<presence, status, raw, hls, task, run, cancels, sweep, scar>>

(* handleComplete checks that the client's object is there. *)
ReqStat(r, v) ==
  /\ Step(r, v, "stat", IF raw[v] # None THEN "mark" ELSE "done")
  /\ UNCHANGED <<presence, status, raw, hls, task, run, cancels, sweep, scar>>

(* adminUploadSource's PutStream; tusPreFinish's UploadFile, whose lookup was *)
(* made when the upload began.                                                *)
ReqPut(r, v) ==
  /\ Step(r, v, "put", "mark")
  /\ \E n \in Sources : raw' = [raw EXCEPT ![v] = n]
  /\ UNCHANGED <<presence, status, hls, task, run, cancels, sweep, scar>>

(* SetUploaded, which fails when the row is gone; a fetch ignores the result  *)
(* of its SetStatus.                                                          *)
ReqMark(r, v) ==
  /\ Step(r, v, "mark",
          IF Exists(v) \/ req[r].kind = "fetch" THEN "enqueue" ELSE "done")
  /\ WriteStatus(v, StatusUploaded)
  /\ UNCHANGED <<presence, raw, hls, task, run, cancels, sweep, scar>>

(* EnqueueTranscode.  An active task that absorbs the call may have read the  *)
(* source, or even written its last status, before this request's upload.     *)
ReqEnqueue(r, v) ==
  /\ Step(r, v, "enqueue", "done")
  /\ task' = [task EXCEPT ![v] = Enqueued(@, req[r].kind = "fetch")]
  /\ scar' = IF task[v].state = "active" THEN Disturbed(v) ELSE scar
  /\ UNCHANGED <<presence, status, raw, hls, run, cancels, sweep>>

(* SoftDelete. *)
ReqTrash(r, v) ==
  /\ Step(r, v, "trash", IF presence[v] = "live" THEN "cancel" ELSE "done")
  /\ presence' = IF presence[v] = "live"
                 THEN [presence EXCEPT ![v] = "trashed"] ELSE presence
  /\ UNCHANGED <<status, raw, hls, task, run, cancels, sweep, scar>>

(* CancelVideoTasks publishes a cancellation; it does not touch a task that   *)
(* is waiting, and nothing waits for the worker to act on it.                 *)
ReqCancel(r, v) ==
  /\ Step(r, v, "cancel", IF req[r].kind = "purge" THEN "rmHls" ELSE "done")
  /\ cancels' = cancels \cup {v}
  /\ UNCHANGED <<presence, status, raw, hls, task, run, sweep, scar>>

(* Restore brings the row back and starts nothing. *)
ReqRestore(r, v) ==
  /\ Step(r, v, "restore", "done")
  /\ presence' = IF presence[v] = "trashed"
                 THEN [presence EXCEPT ![v] = "live"] ELSE presence
  /\ UNCHANGED <<status, raw, hls, task, run, cancels, sweep, scar>>

(* RemovePrefix, whose error every caller ignores. *)
RemoveHls(v) ==
  \/ hls' = [hls EXCEPT ![v] = NoLadder]
  \/ "infra" \in Faults /\ UNCHANGED hls

RemoveRaw(v) ==
  \/ raw' = [raw EXCEPT ![v] = None]
  \/ "infra" \in Faults /\ UNCHANGED raw

(* adminPurge removes the ladder, then the source, then the row, of a live    *)
(* video as well as of a trashed one.                                         *)
ReqRemoveHls(r, v) ==
  /\ Step(r, v, "rmHls", "rmRaw")
  /\ RemoveHls(v)
  /\ scar' = Wiped(v)
  /\ UNCHANGED <<presence, status, raw, task, run, cancels, sweep>>

ReqRemoveRaw(r, v) ==
  /\ Step(r, v, "rmRaw", "drop")
  /\ RemoveRaw(v)
  /\ UNCHANGED <<presence, status, hls, task, run, cancels, sweep, scar>>

(* PurgeVideo. *)
DropRow(v) ==
  /\ presence' = IF Exists(v) THEN [presence EXCEPT ![v] = "purged"] ELSE presence
  /\ status' = [status EXCEPT ![v] = NoRow]

ReqDrop(r, v) ==
  /\ Step(r, v, "drop", "done")
  /\ DropRow(v)
  /\ UNCHANGED <<raw, hls, task, run, cancels, sweep, scar>>

(* The request ends where it is: its later calls are never made. *)
ReqAbandon(r, v) ==
  /\ "abandon" \in Faults
  /\ Serving(r)
  /\ req[r].v = v
  /\ req' = [req EXCEPT ![r] = Served]
  /\ scar' = Disturbed(v)
  /\ UNCHANGED <<presence, status, raw, hls, task, run, cancels, sweep>>

Request(r, v) ==
  \/ ReqLookup(r, v)
  \/ ReqStat(r, v)
  \/ ReqPut(r, v)
  \/ ReqMark(r, v)
  \/ ReqEnqueue(r, v)
  \/ ReqTrash(r, v)
  \/ ReqCancel(r, v)
  \/ ReqRestore(r, v)
  \/ ReqRemoveHls(r, v)
  \/ ReqRemoveRaw(r, v)
  \/ ReqDrop(r, v)

-----------------------------------------------------------------------------
(* The worker.  run[v].at is the call of handleTranscode and process that     *)
(* comes next.                                                                *)

apiVars == <<presence, req>>

Goto(v, at) == run' = [run EXCEPT ![v].at = at]

(* asynq starts the handler.  The task is the only one with its ID, so one    *)
(* handler at most works on a video.                                          *)
StartRun(v) ==
  /\ task[v].state = "waiting"
  /\ run[v].at = "idle"
  /\ task' = [task EXCEPT ![v].state = "active"]
  /\ run' = [run EXCEPT ![v] = [IdleRun EXCEPT !.at = "lookup"]]
  /\ UNCHANGED <<apiVars, status, raw, hls, cancels, sweep, scar>>

(* The call at a returns without error, and the handler goes on to b. *)
Call(v, a, b) == run[v].at = a /\ ~run[v].ended /\ Goto(v, b)

(* RunSkip that puts the task back to wait for the row. *)
SkipForNow(v) ==
  /\ run[v].at = "lookup"
  /\ presence[v] # "live"
  /\ run' = [run EXCEPT ![v] = IdleRun]
  /\ task' = [task EXCEPT ![v].state = "waiting"]
  /\ UNCHANGED <<apiVars, status, raw, hls, cancels, sweep, scar>>

(* GetVideo finds no row, or a trashed one: the handler returns without error *)
(* and the task is done with.                                                 *)
RunSkip(v) ==
  /\ run[v].at = "lookup"
  /\ ~run[v].ended
  /\ presence[v] # "live"
  /\ run' = [run EXCEPT ![v].at = "return", ![v].ok = TRUE]
  /\ scar' = Disturbed(v)
  /\ UNCHANGED <<apiVars, status, raw, hls, task, cancels, sweep>>

(* GetVideo.  Only "not found" is looked at: any other error lets the handler *)
(* go on, one for a context that is done included.                            *)
RunLookup(v) ==
  /\ run[v].at = "lookup"
  /\ presence[v] = "live" \/ run[v].ended \/ "infra" \in Faults
  /\ Goto(v, "processing")
  /\ UNCHANGED <<apiVars, status, raw, hls, task, cancels, sweep, scar>>

(* A call that updates the row, and fails when there is none. *)
RowCall(v, a, b, s) ==
  /\ Call(v, a, IF Exists(v) THEN b ELSE "error")
  /\ WriteStatus(v, s)
  /\ UNCHANGED <<apiVars, raw, hls, task, cancels, sweep, scar>>

RunProcessing(v) == RowCall(v, "processing", "source", StatusProcessing)

(* The source comes out of the bucket, or from the URL into the bucket. *)
RunDownload(v) ==
  /\ ~task[v].url
  /\ run[v].at = "source"
  /\ ~run[v].ended
  /\ run' = [run EXCEPT ![v].at = IF raw[v] = None THEN "error" ELSE "transcoding",
                        ![v].src = raw[v]]
  /\ UNCHANGED <<apiVars, status, raw, hls, task, cancels, sweep, scar>>

RunFetch(v) ==
  /\ task[v].url
  /\ run[v].at = "source"
  /\ ~run[v].ended
  /\ \E n \in Sources :
       /\ raw' = [raw EXCEPT ![v] = n]
       /\ run' = [run EXCEPT ![v].at = "fetched", ![v].src = n]
  /\ UNCHANGED <<apiVars, status, hls, task, cancels, sweep, scar>>

RunFetched(v) == RowCall(v, "fetched", "resume", StatusUploaded)

(* Back to processing after SetUploaded; the result is ignored. *)
RunResume(v) ==
  /\ run[v].at = "resume"
  /\ Goto(v, "transcoding")
  /\ IF run[v].ended THEN UNCHANGED status ELSE WriteStatus(v, StatusProcessing)
  /\ UNCHANGED <<apiVars, raw, hls, task, cancels, sweep, scar>>

(* Probe, settings, watermark and edit come before this update; RunError      *)
(* stands for their failures.                                                 *)
RunTranscoding(v) == RowCall(v, "transcoding", "encoding", StatusTranscoding)

(* onProgress rewrites status 3 while ffmpeg runs; its errors are ignored. *)
RunProgress(v) ==
  /\ run[v].at = "encoding"
  /\ ~run[v].ended
  /\ WriteStatus(v, StatusTranscoding)
  /\ UNCHANGED <<apiVars, raw, hls, task, run, cancels, sweep, scar>>

(* RunEncoded with SetFinished before UploadDir. *)
MarkBeforeUpload(v) ==
  /\ Call(v, "encoding", "finish")
  /\ UNCHANGED <<apiVars, status, raw, hls, task, cancels, sweep, scar>>

(* BuildHLS returns: the ladder is complete on scratch. *)
RunEncoded(v) ==
  /\ Call(v, "encoding", "variants")
  /\ UNCHANGED <<apiVars, status, raw, hls, task, cancels, sweep, scar>>

(* UploadDir walks the tree in lexical order, object by object: the variants' *)
(* directories come before master.m3u8.                                       *)
RunUploadFirst(v) ==
  /\ Call(v, "variants", "segments")
  /\ hls' = [hls EXCEPT ![v].variants = Mixed]
  /\ UNCHANGED <<apiVars, status, raw, task, cancels, sweep, scar>>

(* RunUploadVariants with a walk that ends early and reports success. *)
UploadPartOfTree(v) ==
  /\ Call(v, "segments", "finish")
  /\ hls' = [hls EXCEPT ![v].variants = run[v].src]
  /\ UNCHANGED <<apiVars, status, raw, task, cancels, sweep, scar>>

RunUploadVariants(v) ==
  /\ Call(v, "segments", "master")
  /\ hls' = [hls EXCEPT ![v].variants = run[v].src]
  /\ UNCHANGED <<apiVars, status, raw, task, cancels, sweep, scar>>

RunUploadMaster(v) ==
  /\ Call(v, "master", "finish")
  /\ hls' = [hls EXCEPT ![v].master = run[v].src]
  /\ UNCHANGED <<apiVars, status, raw, task, cancels, sweep, scar>>

RunFinish(v) == RowCall(v, "finish", "announce", StatusFinished)

(* The encoded event; a Dispatch that fails is only logged. *)
RunAnnounce(v) ==
  /\ run[v].at = "announce"
  /\ run' = [run EXCEPT ![v].at = "return", ![v].ok = TRUE]
  /\ UNCHANGED <<apiVars, status, raw, hls, task, cancels, sweep, scar>>

(* The calls that can make process return an error: all of them once the      *)
(* context is done or infrastructure fails, the download, the probe and       *)
(* ffmpeg for the source's sake.                                              *)
Fallible == {"processing", "source", "fetched", "transcoding", "encoding",
             "variants", "segments", "master", "finish"}

RunError(v) ==
  /\ run[v].at \in Fallible
  /\ \/ run[v].ended
     \/ "infra" \in Faults
     \/ run[v].at \in {"source", "transcoding", "encoding"}
  /\ Goto(v, "error")
  /\ UNCHANGED <<apiVars, status, raw, hls, task, cancels, sweep, scar>>

(* RunGiveUp without the look at ctx.Err(). *)
GiveUpUnasked(v) ==
  /\ run[v].at = "error"
  /\ run' = [run EXCEPT ![v].at = "return", ![v].ok = TRUE]
  /\ UNCHANGED <<apiVars, status, raw, hls, task, cancels, sweep, scar>>

(* handleTranscode after an error: silent when the context is done, else the  *)
(* video is marked failed, whatever becomes of that write.                    *)
RunGiveUp(v) ==
  /\ run[v].at = "error"
  /\ run[v].ended
  /\ run' = [run EXCEPT ![v].at = "return", ![v].ok = TRUE]
  /\ UNCHANGED <<apiVars, status, raw, hls, task, cancels, sweep, scar>>

RunSetFailed(v) ==
  /\ Call(v, "error", "return")
  /\ WriteStatus(v, StatusFailed)
  /\ UNCHANGED <<apiVars, raw, hls, task, cancels, sweep, scar>>

RunSetFailedLost(v) ==
  /\ Call(v, "error", "return")
  /\ "infra" \in Faults
  /\ scar' = Disturbed(v)
  /\ UNCHANGED <<apiVars, status, raw, hls, task, cancels, sweep>>

(* The handler has returned and asynq settles the task.  Once the context is  *)
(* done, asynq may also count the attempt as failed whatever was returned.    *)
RunSettle(v) ==
  /\ run[v].at = "return"
  /\ run' = [run EXCEPT ![v] = IdleRun]
  /\ \/ /\ run[v].ok
        /\ task' = [task EXCEPT ![v] = NoTask]
     \/ /\ ~run[v].ok \/ run[v].ended
        /\ task' = [task EXCEPT ![v] = AfterFailure(@)]
  /\ UNCHANGED <<apiVars, status, raw, hls, cancels, sweep, scar>>

Run(v) ==
  \/ StartRun(v)
  \/ RunLookup(v)
  \/ RunSkip(v)
  \/ RunProcessing(v)
  \/ RunDownload(v)
  \/ RunFetch(v)
  \/ RunFetched(v)
  \/ RunResume(v)
  \/ RunTranscoding(v)
  \/ RunEncoded(v)
  \/ RunUploadFirst(v)
  \/ RunUploadVariants(v)
  \/ RunUploadMaster(v)
  \/ RunFinish(v)
  \/ RunAnnounce(v)
  \/ RunError(v)
  \/ RunGiveUp(v)
  \/ RunSetFailed(v)
  \/ RunSetFailedLost(v)
  \/ RunSettle(v)

-----------------------------------------------------------------------------
(* What happens to the worker. *)

EndContext(v) ==
  /\ run' = IF run[v].at = "idle" THEN run ELSE [run EXCEPT ![v].ended = TRUE]
  /\ scar' = IF run[v].at = "idle" THEN scar ELSE Disturbed(v)
  /\ UNCHANGED <<apiVars, status, raw, hls, task, sweep>>

(* A published cancellation reaches the worker and ends the context of the    *)
(* handler that runs now, if one does.                                        *)
DeliverCancel(v) ==
  /\ v \in cancels
  /\ cancels' = cancels \ {v}
  /\ EndContext(v)

(* No Timeout option is set, so asynq's default deadline bounds the handler. *)
TimeOut(v) ==
  /\ "timeout" \in Faults
  /\ run[v].at # "idle"
  /\ ~run[v].ended
  /\ EndContext(v)
  /\ UNCHANGED cancels

(* The process dies and its task stays leased, or it shuts down and asynq     *)
(* puts the task back.                                                        *)
WorkerStop(v) ==
  /\ "crash" \in Faults
  /\ run[v].at # "idle"
  /\ run' = [run EXCEPT ![v] = IdleRun]
  /\ \/ UNCHANGED task
     \/ task' = [task EXCEPT ![v].state = "waiting"]
  /\ scar' = Disturbed(v)
  /\ UNCHANGED <<apiVars, status, raw, hls, cancels, sweep>>

(* The lease of a dead worker's task runs out. *)
LeaseExpires(v) ==
  /\ task[v].state = "active"
  /\ run[v].at = "idle"
  /\ task' = [task EXCEPT ![v] = AfterFailure(@)]
  /\ UNCHANGED <<apiVars, status, raw, hls, run, cancels, sweep, scar>>

-----------------------------------------------------------------------------
(* PurgeExpiredTrash: list, then for each entry the ladder, the source, the   *)
(* row.  The listed videos are not looked at again.  Which trashed videos are *)
(* past the retention window is left open.                                    *)

sweepOnly == <<presence, status, task, run, cancels, req>>

SweepList ==
  /\ \A v \in Videos : sweep[v] = "none"
  /\ \E expired \in SUBSET {v \in Videos : presence[v] = "trashed"} :
       /\ expired # {}
       /\ sweep' = [v \in Videos |-> IF v \in expired THEN "listed" ELSE "none"]
  /\ UNCHANGED <<sweepOnly, raw, hls, scar>>

(* One entry after the other. *)
SweepHls(v) ==
  /\ sweep[v] = "listed"
  /\ \A w \in Videos : sweep[w] \in {"none", "listed"}
  /\ sweep' = [sweep EXCEPT ![v] = "raw"]
  /\ RemoveHls(v)
  /\ scar' = Wiped(v)
  /\ UNCHANGED <<sweepOnly, raw>>

SweepRaw(v) ==
  /\ sweep[v] = "raw"
  /\ sweep' = [sweep EXCEPT ![v] = "row"]
  /\ RemoveRaw(v)
  /\ UNCHANGED <<sweepOnly, hls, scar>>

SweepRow(v) ==
  /\ sweep[v] = "row"
  /\ sweep' = [sweep EXCEPT ![v] = "none"]
  /\ DropRow(v)
  /\ UNCHANGED <<raw, hls, task, run, cancels, req, scar>>

(* The worker stops, or PurgeVideo fails, and the entry is left half done. *)
SweepStop(v) ==
  /\ "crash" \in Faults \/ "infra" \in Faults
  /\ sweep[v] # "none"
  /\ sweep' = [sweep EXCEPT ![v] = "none"]
  /\ UNCHANGED <<sweepOnly, raw, hls, scar>>

Sweep(v) == SweepHls(v) \/ SweepRaw(v) \/ SweepRow(v)

-----------------------------------------------------------------------------
Next ==
  \/ \E v \in Videos :
       \/ Create(v)
       \/ ClientPut(v)
       \/ Run(v)
       \/ RunProgress(v)
       \/ DeliverCancel(v)
       \/ TimeOut(v)
       \/ WorkerStop(v)
       \/ LeaseExpires(v)
       \/ Sweep(v)
       \/ SweepStop(v)
  \/ \E r \in Requests, v \in Videos :
       \/ \E kind \in Kinds : Receive(r, kind, v)
       \/ Request(r, v)
       \/ ReqAbandon(r, v)
  \/ SweepList

Spec == Init /\ [][Next]_vars

(* The worker keeps taking tasks and a handler, once called, goes on: ffmpeg  *)
(* and every call end.  A request that has arrived is served to its end.      *)
(* Clients, faults and the sweep's ticker promise nothing.                    *)
Fairness ==
  /\ \A v \in Videos : WF_vars(Run(v))
  /\ \A r \in Requests : WF_vars(\E v \in Videos : Request(r, v))

FairSpec == Spec /\ Fairness

-----------------------------------------------------------------------------
(* Properties *)

Steps == {"lookup", "stat", "put", "mark", "enqueue", "trash",
          "cancel", "restore", "rmHls", "rmRaw", "drop"}

Places == {"idle", "lookup", "processing", "source", "fetched", "resume",
           "transcoding", "encoding", "variants", "segments", "master",
           "finish", "announce", "error", "return"}

Ladders == [variants : Sources \cup {None, Mixed}, master : Sources \cup {None}]

Tasks == [state : {"none", "waiting", "active", "archived"},
          retried : 0 .. MaxRetry, url : BOOLEAN]

Handlers == [at : Places, src : Sources \cup {None}, ended : BOOLEAN,
             ok : BOOLEAN]

Calls == [at : Steps, kind : AllKinds, v : Videos]

(* Every variable has its type, and a status exists exactly where a row does: *)
(* no update by id, from whichever side, revives or invents a row.            *)
TypeOK ==
  /\ presence \in [Videos -> {"new", "live", "trashed", "purged"}]
  /\ status \in [Videos -> StatusCreated .. NoRow]
  /\ raw \in [Videos -> Sources \cup {None}]
  /\ hls \in [Videos -> Ladders]
  /\ task \in [Videos -> Tasks]
  /\ run \in [Videos -> Handlers]
  /\ cancels \in SUBSET Videos
  /\ req \in [Requests -> {Unserved, Served} \cup Calls]
  /\ sweep \in [Videos -> {"none", "listed", "raw", "row"}]
  /\ scar \in [Videos -> {"none", "disturbed", "wiped"}]
  /\ \A v \in Videos : Exists(v) <=> status[v] # NoRow

(* A finished video has its whole ladder in the bucket, variants and master   *)
(* of one encode: status 4 is written only behind a complete upload, and no   *)
(* later attempt, crash, cancellation or re-upload leaves it over a ladder    *)
(* half replaced.  A video whose objects a purge or sweep removes is excepted. *)
FinishedIsPublished ==
  \A v \in Videos :
    status[v] = StatusFinished /\ scar[v] # "wiped" => Published(v)

(* What FinishedIsPublished rests on.  A handler past its source has one; the *)
(* status is not "finished" from the row update before the encode to the one   *)
(* after the upload, the only stretch in which the ladder is half replaced;    *)
(* and what the handler has uploaded stays as it is, since no other handler    *)
(* runs on the video.                                                          *)
AfterSource == {"fetched", "resume", "transcoding", "encoding", "variants",
                "segments", "master", "finish"}

Replacing == {"encoding", "variants", "segments", "master", "finish"}

UploadInOrder ==
  \A v \in Videos :
    /\ run[v].at \in AfterSource => run[v].src \in Sources
    /\ run[v].at \in Replacing => status[v] # StatusFinished
    /\ scar[v] # "wiped" =>
         /\ run[v].at \in {"master", "finish"} => hls[v].variants = run[v].src
         /\ run[v].at = "finish" => hls[v].master = run[v].src
         /\ run[v].at = "announce" => Published(v)

(* A request that will yet enqueue the transcode of v. *)
WillEnqueue(v) ==
  \E r \in Requests : Serving(r) /\ req[r].v = v /\ req[r].at = "enqueue"

(* A live video whose status says work is under way has a task that will do   *)
(* it or a request about to enqueue one, unless it has been disturbed (Disturbed, *)
(* Wiped): nothing else strands a video in "uploaded" or "transcoding".       *)
OnlyDisturbedVideosStall ==
  \A v \in Videos :
    /\ presence[v] = "live"
    /\ InProgress(status[v])
    /\ scar[v] = "none"
    => TaskLive(v) \/ WillEnqueue(v)

(* What OnlyDisturbedVideosStall rests on, trashed videos included: the task   *)
(* is leased exactly while its handler runs, and a handler that has written    *)
(* its verdict leaves a status in progress only to a request that came after.  *)
WorkAccountedFor ==
  \A v \in Videos :
    scar[v] = "none" =>
      /\ run[v].at # "idle" <=> task[v].state = "active"
      /\ ~run[v].ended
      /\ /\ InProgress(status[v])
         /\ run[v].at \in {"announce", "return"} \/ ~TaskLive(v)
         => WillEnqueue(v)

(* When subscribers are told that a video is encoded, its ladder is complete  *)
(* in the bucket, whatever has happened to its row since.                     *)
EncodedEventIsTrue ==
  [][\A v \in Videos :
       RunAnnounce(v) /\ ~run[v].ended /\ scar[v] # "wiped" => Published(v)]_vars

(* An undisturbed upload ends: the video is finished or failed, or somebody   *)
(* trashed or purged it.                                                      *)
UploadsSettle ==
  \A v \in Videos :
    InProgress(status[v]) /\ scar[v] = "none"
      ~> \/ status[v] \in {StatusFinished, StatusFailed}
         \/ presence[v] # "live"
         \/ scar[v] # "none"

(* A task left over for a purged video goes away: it is skipped, or fails its *)
(* way to the archive, and is not retried for ever.                           *)
PurgedWorkDrains ==
  \A v \in Videos : presence[v] = "purged" ~> ~TaskLive(v)

(* What the worker's package comment says of /play, which gates on IsReady:   *)
(* it never refers to a ladder that is not in the bucket.                     *)
ReadyIsPublished ==
  \A v \in Videos :
    presence[v] = "live" /\ IsReady(status[v]) /\ scar[v] # "wiped"
      => Published(v)

(* What the comment on StatusUploaded says: an uploaded video has its         *)
(* transcode enqueued, or the request that does so is still being served.     *)
UploadedIsEnqueued ==
  \A v \in Videos :
    presence[v] = "live" /\ status[v] = StatusUploaded
      => TaskLive(v) \/ WillEnqueue(v)

(* What the comment on adminDeleteVideo says: the files of a trashed video    *)
(* are kept until the worker purges it, so a finished video that is live      *)
(* again has its ladder, as long as nobody asked for a purge.                 *)
RestoredKeepsItsFiles ==
  \A v \in Videos :
    presence[v] = "live" /\ status[v] = StatusFinished => Published(v)
=============================================================================
