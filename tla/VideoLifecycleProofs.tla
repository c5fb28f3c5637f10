------------------------ MODULE VideoLifecycleProofs ------------------------
(* Proofs about VideoLifecycle for any number of videos, requests, sources   *)
(* and retries, and any choice of handlers and faults.                       *)
EXTENDS VideoLifecycle, TLAPS

-----------------------------------------------------------------------------
(* Type correctness. *)

(* The initial state is typed. *)
LEMMA InitTyped == Init => TypeOK
  BY MaxRetryAssumption DEF Init, TypeOK, NoLadder, NoTask, IdleRun,
       Ladders, Tasks, Handlers, Unserved, Served, NoRow, StatusCreated, Exists,
       Places

(* A step of a request keeps req typed. *)
LEMMA StepTyped ==
  ASSUME TypeOK, NEW r \in Requests, NEW v \in Videos, NEW a,
         NEW b \in Steps \cup {"done"}, Step(r, v, a, b)
  PROVE  req' \in [Requests -> {Unserved, Served} \cup Calls]
<1>1. req[r] \in Calls
  BY DEF TypeOK, Step, Serving
<1>2. b # "done" => [req[r] EXCEPT !.at = b] \in Calls
  BY <1>1 DEF Calls
<1> QED BY <1>2 DEF TypeOK, Step

(* Moving a handler on, with or without its result, keeps run typed. *)
LEMMA HandlerTyped ==
  ASSUME NEW h \in Handlers, NEW b \in Places, NEW n \in Sources \cup {None}
  PROVE  /\ [h EXCEPT !.at = b] \in Handlers
         /\ [h EXCEPT !.at = b, !.ok = TRUE] \in Handlers
         /\ [h EXCEPT !.at = b, !.src = n] \in Handlers
         /\ [h EXCEPT !.ended = TRUE] \in Handlers
         /\ IdleRun \in Handlers
         /\ [IdleRun EXCEPT !.at = b] \in Handlers
  BY DEF Handlers, IdleRun, Places

LEMMA GotoTyped ==
  ASSUME TypeOK, NEW v \in Videos, NEW b \in Places, Goto(v, b)
  PROVE  run' \in [Videos -> Handlers]
  BY HandlerTyped DEF TypeOK, Goto

LEMMA ReturnTyped ==
  ASSUME TypeOK, NEW v \in Videos,
         run' = [run EXCEPT ![v].at = "return", ![v].ok = TRUE]
  PROVE  run' \in [Videos -> Handlers]
  BY HandlerTyped DEF TypeOK, Places

(* Writing one entry of a ladder keeps hls typed. *)
LEMMA LadderTyped ==
  ASSUME NEW h \in Ladders, NEW n \in Sources \cup {None}
  PROVE  /\ [h EXCEPT !.variants = n] \in Ladders
         /\ [h EXCEPT !.variants = Mixed] \in Ladders
         /\ [h EXCEPT !.master = n] \in Ladders
  BY DEF Ladders

(* Updating one row, which must exist, keeps status and presence together. *)
LEMMA WriteTyped ==
  ASSUME TypeOK, NEW v \in Videos, NEW s \in StatusCreated .. StatusFailed,
         WriteStatus(v, s), UNCHANGED presence
  PROVE  /\ status' \in [Videos -> StatusCreated .. NoRow]
         /\ \A w \in Videos : Exists(w)' <=> status'[w] # NoRow
  BY DEF TypeOK, WriteStatus, Exists, StatusCreated, StatusFailed, NoRow

(* The removal of a prefix keeps the bucket typed. *)
LEMMA RemovalTyped ==
  ASSUME TypeOK, NEW v \in Videos
  PROVE  /\ RemoveHls(v) => hls' \in [Videos -> Ladders]
         /\ RemoveRaw(v) => raw' \in [Videos -> Sources \cup {None}]
<1>1. NoLadder \in Ladders
  BY DEF NoLadder, Ladders
<1> QED BY <1>1 DEF TypeOK, RemoveHls, RemoveRaw

(* What asynq makes of a task is a task. *)
LEMMA TaskTyped ==
  ASSUME NEW t \in Tasks
  PROVE  /\ AfterFailure(t) \in Tasks
         /\ \A url \in BOOLEAN : Enqueued(t, url) \in Tasks
         /\ NoTask \in Tasks
         /\ [t EXCEPT !.state = "waiting"] \in Tasks
         /\ [t EXCEPT !.state = "active"] \in Tasks
<1>1. t.retried \in 0 .. MaxRetry
  BY DEF Tasks
<1>2. t.retried < MaxRetry => t.retried + 1 \in 0 .. MaxRetry
  BY <1>1, MaxRetryAssumption
<1>3. AfterFailure(t) \in Tasks
  BY <1>2 DEF AfterFailure, Tasks
<1>4. 0 \in 0 .. MaxRetry
  BY MaxRetryAssumption
<1>5. \A url \in BOOLEAN : NewTask(url) \in Tasks
  BY <1>4 DEF NewTask, Tasks
<1>6. NoTask \in Tasks
  BY <1>4 DEF NoTask, Tasks
<1>7. /\ [t EXCEPT !.state = "waiting"] \in Tasks
      /\ [t EXCEPT !.state = "active"] \in Tasks
  BY DEF Tasks
<1> QED BY <1>3, <1>5, <1>6, <1>7 DEF Enqueued

(* Every call a request makes preserves the types. *)
LEMMA RequestTyped ==
  ASSUME TypeOK, NEW r \in Requests, NEW v \in Videos, Request(r, v)
  PROVE  TypeOK'
<1> USE DEF Exists, Steps
<1>1. CASE ReqLookup(r, v)
  BY <1>1, StepTyped DEF TypeOK, ReqLookup, AfterLookup
<1>2. CASE ReqStat(r, v)
  BY <1>2, StepTyped DEF TypeOK, ReqStat
<1>3. CASE ReqPut(r, v)
  BY <1>3, StepTyped DEF TypeOK, ReqPut
<1>4. CASE ReqMark(r, v)
  <2>1. WriteStatus(v, StatusUploaded) /\ UNCHANGED presence
    BY <1>4 DEF ReqMark
  <2>2. StatusUploaded \in StatusCreated .. StatusFailed
    BY DEF StatusUploaded, StatusCreated, StatusFailed
  <2> QED BY <1>4, <2>1, <2>2, StepTyped, WriteTyped DEF TypeOK, ReqMark
<1>5. CASE ReqEnqueue(r, v)
  BY <1>5, StepTyped, TaskTyped DEF TypeOK, ReqEnqueue, Disturbed
<1>6. CASE ReqTrash(r, v)
  BY <1>6, StepTyped DEF TypeOK, ReqTrash
<1>7. CASE ReqCancel(r, v)
  BY <1>7, StepTyped DEF TypeOK, ReqCancel
<1>8. CASE ReqRestore(r, v)
  BY <1>8, StepTyped DEF TypeOK, ReqRestore
<1>9. CASE ReqRemoveHls(r, v)
  BY <1>9, StepTyped, RemovalTyped DEF TypeOK, ReqRemoveHls, Wiped
<1>10. CASE ReqRemoveRaw(r, v)
  BY <1>10, StepTyped, RemovalTyped DEF TypeOK, ReqRemoveRaw
<1>11. CASE ReqDrop(r, v)
  BY <1>11, StepTyped DEF TypeOK, ReqDrop, DropRow, NoRow, StatusCreated
<1> QED BY <1>1, <1>2, <1>3, <1>4, <1>5, <1>6, <1>7, <1>8, <1>9, <1>10, <1>11
       DEF Request

(* So does every call the worker's handler makes. *)
LEMMA RunTyped ==
  ASSUME TypeOK, NEW v \in Videos, Run(v)
  PROVE  TypeOK'
<1> USE DEF Exists, apiVars, Places
<1>1. CASE StartRun(v)
  BY <1>1, HandlerTyped, TaskTyped DEF TypeOK, StartRun
<1>2. CASE RunLookup(v)
  BY <1>2, GotoTyped DEF TypeOK, RunLookup
<1>3. CASE RunSkip(v)
  BY <1>3, ReturnTyped DEF TypeOK, RunSkip, Disturbed
<1>4. CASE RunDownload(v)
  BY <1>4, HandlerTyped DEF TypeOK, RunDownload
<1>5. CASE RunFetch(v)
  <2>1. PICK n \in Sources :
          /\ raw' = [raw EXCEPT ![v] = n]
          /\ run' = [run EXCEPT ![v].at = "fetched", ![v].src = n]
    BY <1>5 DEF RunFetch
  <2>2. run' \in [Videos -> Handlers]
    BY <2>1, HandlerTyped DEF TypeOK
  <2> QED BY <1>5, <2>1, <2>2 DEF TypeOK, RunFetch
<1>6. ASSUME NEW a, NEW b \in Places, NEW s \in StatusCreated .. StatusFailed,
             RowCall(v, a, b, s)
      PROVE  TypeOK'
  BY <1>6, GotoTyped, WriteTyped DEF TypeOK, RowCall, Call
<1>7. CASE RunProcessing(v) \/ RunFetched(v) \/ RunTranscoding(v) \/ RunFinish(v)
  BY <1>6, <1>7 DEF RunProcessing, RunFetched, RunTranscoding, RunFinish,
       StatusCreated, StatusUploaded, StatusProcessing, StatusTranscoding,
       StatusFinished, StatusFailed
<1>8. CASE RunResume(v)
  <2>1. StatusProcessing \in StatusCreated .. StatusFailed
    BY DEF StatusProcessing, StatusCreated, StatusFailed
  <2> QED BY <1>8, <2>1, GotoTyped, WriteTyped DEF TypeOK, RunResume
<1>9. CASE RunEncoded(v)
  BY <1>9, GotoTyped DEF TypeOK, RunEncoded, Call
<1>10. CASE RunUploadFirst(v)
  BY <1>10, GotoTyped, LadderTyped DEF TypeOK, RunUploadFirst, Call
<1>11. CASE RunUploadVariants(v) \/ RunUploadMaster(v)
  <2>1. run[v].src \in Sources \cup {None}
    BY DEF TypeOK, Handlers
  <2>2. CASE RunUploadVariants(v)
    <3>1. hls' \in [Videos -> Ladders]
      BY <2>1, <2>2, LadderTyped DEF TypeOK, RunUploadVariants
    <3> QED BY <2>2, <3>1, GotoTyped DEF TypeOK, RunUploadVariants, Call
  <2>3. CASE RunUploadMaster(v)
    <3>1. hls' \in [Videos -> Ladders]
      BY <2>1, <2>3, LadderTyped DEF TypeOK, RunUploadMaster
    <3> QED BY <2>3, <3>1, GotoTyped DEF TypeOK, RunUploadMaster, Call
  <2> QED BY <1>11, <2>2, <2>3
<1>12. CASE RunAnnounce(v)
  BY <1>12, ReturnTyped DEF TypeOK, RunAnnounce
<1>13. CASE RunError(v)
  BY <1>13, GotoTyped DEF TypeOK, RunError
<1>14. CASE RunGiveUp(v)
  BY <1>14, ReturnTyped DEF TypeOK, RunGiveUp
<1>15. CASE RunSetFailed(v)
  <2>1. StatusFailed \in StatusCreated .. StatusFailed
    BY DEF StatusCreated, StatusFailed
  <2> QED BY <1>15, <2>1, GotoTyped, WriteTyped DEF TypeOK, RunSetFailed, Call
<1>16. CASE RunSetFailedLost(v)
  BY <1>16, GotoTyped DEF TypeOK, RunSetFailedLost, Call, Disturbed
<1>17. CASE RunSettle(v)
  <2>1. run' \in [Videos -> Handlers]
    BY <1>17, HandlerTyped DEF TypeOK, RunSettle
  <2>2. task' \in [Videos -> Tasks]
    <3>1. /\ task \in [Videos -> Tasks]
          /\ AfterFailure(task[v]) \in Tasks
          /\ NoTask \in Tasks
      BY TaskTyped DEF TypeOK
    <3>2. \/ task' = [task EXCEPT ![v] = NoTask]
          \/ task' = [task EXCEPT ![v] = AfterFailure(task[v])]
      BY <1>17, <3>1 DEF RunSettle
    <3> QED BY <3>1, <3>2
  <2> QED BY <1>17, <2>1, <2>2 DEF TypeOK, RunSettle
<1> QED BY <1>1, <1>2, <1>3, <1>4, <1>5, <1>7, <1>8, <1>9, <1>10, <1>11, <1>12,
       <1>13, <1>14, <1>15, <1>16, <1>17 DEF Run

(* And everything else: clients, faults and the trash sweep. *)
LEMMA OtherTyped ==
  ASSUME TypeOK, NEW v \in Videos,
         \/ Create(v) \/ ClientPut(v) \/ RunProgress(v) \/ DeliverCancel(v)
         \/ TimeOut(v) \/ WorkerStop(v) \/ LeaseExpires(v) \/ Sweep(v)
         \/ SweepStop(v)
  PROVE  TypeOK'
<1> USE DEF Exists, apiVars, sweepOnly, Places
<1>1. CASE Create(v)
  BY <1>1 DEF TypeOK, Create, StatusCreated, NoRow
<1>2. CASE ClientPut(v)
  BY <1>2 DEF TypeOK, ClientPut
<1>3. CASE RunProgress(v)
  <2>1. StatusTranscoding \in StatusCreated .. StatusFailed
    BY DEF StatusTranscoding, StatusCreated, StatusFailed
  <2> QED BY <1>3, <2>1, WriteTyped DEF TypeOK, RunProgress
<1>4. ASSUME EndContext(v), cancels' \in SUBSET Videos
      PROVE  TypeOK'
  BY <1>4, HandlerTyped DEF TypeOK, EndContext, Disturbed
<1>5. CASE DeliverCancel(v)
  BY <1>4, <1>5 DEF TypeOK, DeliverCancel
<1>6. CASE TimeOut(v)
  BY <1>4, <1>6 DEF TypeOK, TimeOut
<1>7. CASE WorkerStop(v)
  <2>1. run' \in [Videos -> Handlers]
    BY <1>7, HandlerTyped DEF TypeOK, WorkerStop
  <2>2. task' \in [Videos -> Tasks]
    <3>1. /\ task \in [Videos -> Tasks]
          /\ [task[v] EXCEPT !.state = "waiting"] \in Tasks
      BY TaskTyped DEF TypeOK
    <3>2. \/ task' = task
          \/ task' = [task EXCEPT ![v] = [task[v] EXCEPT !.state = "waiting"]]
      BY <1>7, <3>1 DEF WorkerStop
    <3> QED BY <3>1, <3>2
  <2> QED BY <1>7, <2>1, <2>2 DEF TypeOK, WorkerStop, Disturbed
<1>8. CASE LeaseExpires(v)
  BY <1>8, TaskTyped DEF TypeOK, LeaseExpires
<1>9. CASE SweepHls(v)
  BY <1>9, RemovalTyped DEF TypeOK, SweepHls, Wiped
<1>10. CASE SweepRaw(v)
  BY <1>10, RemovalTyped DEF TypeOK, SweepRaw
<1>11. CASE SweepRow(v)
  BY <1>11 DEF TypeOK, SweepRow, DropRow, StatusCreated, NoRow
<1>12. CASE SweepStop(v)
  BY <1>12 DEF TypeOK, SweepStop
<1> QED BY <1>1, <1>2, <1>3, <1>5, <1>6, <1>7, <1>8, <1>9, <1>10, <1>11, <1>12
       DEF Sweep

(* Receiving a request and giving one up. *)
LEMMA ArrivalTyped ==
  ASSUME TypeOK, NEW r \in Requests, NEW v \in Videos,
         \/ \E kind \in Kinds : Receive(r, kind, v)
         \/ ReqAbandon(r, v)
  PROVE  TypeOK'
<1>1. ASSUME NEW kind \in Kinds, Receive(r, kind, v)
      PROVE  TypeOK'
  <2>1. kind \in AllKinds
    BY KindsAssumption
  <2>2. FirstStep(kind) \in Steps
    BY <2>1 DEF FirstStep, AllKinds, Steps
  <2>3. [at |-> FirstStep(kind), kind |-> kind, v |-> v] \in Calls
    BY <2>1, <2>2 DEF Calls
  <2> QED BY <1>1, <2>3 DEF TypeOK, Receive, Exists
<1>2. CASE ReqAbandon(r, v)
  BY <1>2 DEF TypeOK, ReqAbandon, Disturbed, Exists
<1> QED BY <1>1, <1>2

(* Every variable keeps its type, and a status exists exactly where a row     *)
(* does, in every behaviour.                                                  *)
THEOREM TypeCorrect == Spec => []TypeOK
<1>1. TypeOK /\ [Next]_vars => TypeOK'
  <2> SUFFICES ASSUME TypeOK, [Next]_vars PROVE TypeOK'
    OBVIOUS
  <2>1. CASE SweepList
    BY <2>1 DEF TypeOK, SweepList, sweepOnly, Exists
  <2>2. CASE UNCHANGED vars
    BY <2>2 DEF TypeOK, vars, Exists
  <2> QED BY <2>1, <2>2, RequestTyped, RunTyped, OtherTyped, ArrivalTyped DEF Next
<1> QED BY <1>1, InitTyped, PTL DEF Spec

-----------------------------------------------------------------------------
(* Safety: what a finished video's ladder is, when the encoded event is sent, *)
(* and which videos may be stranded.                                         *)
(* UploadInOrder and FinishedIsPublished speak of each video by itself.      *)
Sound(v) ==
  /\ run[v].at \in AfterSource => run[v].src \in Sources
  /\ run[v].at \in Replacing => status[v] # StatusFinished
  /\ scar[v] # "wiped" =>
       /\ run[v].at \in {"master", "finish"} => hls[v].variants = run[v].src
       /\ run[v].at = "finish" => hls[v].master = run[v].src
       /\ run[v].at = "announce" => Published(v)
       /\ status[v] = StatusFinished => Published(v)

LEMMA SoundIsBoth ==
  (\A v \in Videos : Sound(v)) <=> UploadInOrder /\ FinishedIsPublished
  BY DEF Sound, UploadInOrder, FinishedIsPublished

(* A step that leaves v's handler and ladder alone keeps v sound, provided    *)
(* that it does not finish the video and does not forget that it was wiped.   *)
LEMMA QuietStep ==
  ASSUME NEW v \in Videos, Sound(v),
         run'[v].at = run[v].at, run'[v].src = run[v].src,
         status'[v] = status[v] \/ status'[v] # StatusFinished,
         scar[v] = "wiped" => scar'[v] = "wiped",
         hls'[v] = hls[v] \/ scar'[v] = "wiped"
  PROVE  Sound(v)'
  BY DEF Sound, Published

(* So does a step that takes the handler to where nothing is claimed of it.   *)
LEMMA UnclaimedStep ==
  ASSUME NEW v \in Videos, Sound(v),
         run'[v].at \in {"idle", "lookup", "processing", "source", "error", "return"},
         status'[v] = status[v] \/ status'[v] # StatusFinished,
         scar[v] = "wiped" => scar'[v] = "wiped",
         hls'[v] = hls[v]
  PROVE  Sound(v)'
  BY DEF Sound, Published, AfterSource, Replacing

(* The requests' steps are quiet. *)
LEMMA RequestSound ==
  ASSUME TypeOK, NEW r \in Requests, NEW v \in Videos, NEW w \in Videos, Sound(w),
         Request(r, v) \/ ReqAbandon(r, v)
  PROVE  Sound(w)'
<1>1. CASE ReqLookup(r, v) \/ ReqStat(r, v) \/ ReqPut(r, v) \/ ReqTrash(r, v)
           \/ ReqCancel(r, v) \/ ReqRestore(r, v) \/ ReqRemoveRaw(r, v)
  BY <1>1, QuietStep DEF ReqLookup, ReqStat, ReqPut, ReqTrash, ReqCancel,
       ReqRestore, ReqRemoveRaw
<1>2. CASE ReqMark(r, v) \/ ReqDrop(r, v)
  BY <1>2, QuietStep DEF TypeOK, ReqMark, ReqDrop, DropRow, WriteStatus,
       StatusUploaded, StatusFinished, NoRow
<1>3. CASE ReqEnqueue(r, v) \/ ReqAbandon(r, v) \/ ReqRemoveHls(r, v)
  BY <1>3, QuietStep DEF TypeOK, ReqEnqueue, ReqAbandon, ReqRemoveHls, RemoveHls,
       Disturbed, Wiped
<1> QED BY <1>1, <1>2, <1>3 DEF Request

(* The handler of v changes nothing of another video's. *)
LEMMA RunIsLocal ==
  ASSUME TypeOK, NEW v \in Videos, NEW w \in Videos \ {v}, Run(v)
  PROVE  /\ run'[w] = run[w] /\ hls'[w] = hls[w]
         /\ scar'[w] = scar[w] /\ status'[w] = status[w]
         /\ task'[w] = task[w]
<1> USE DEF Goto, Call, RowCall, WriteStatus, Disturbed, TypeOK
<1>1. CASE StartRun(v) \/ RunLookup(v) \/ RunSkip(v) \/ RunDownload(v)
           \/ RunFetch(v) \/ RunSettle(v)
  BY <1>1 DEF StartRun, RunLookup, RunSkip, RunDownload, RunFetch, RunSettle
<1>2. CASE RunProcessing(v) \/ RunFetched(v) \/ RunResume(v) \/ RunTranscoding(v)
           \/ RunFinish(v) \/ RunSetFailed(v)
  BY <1>2 DEF RunProcessing, RunFetched, RunResume, RunTranscoding, RunFinish,
       RunSetFailed
<1>3. CASE RunEncoded(v) \/ RunUploadFirst(v) \/ RunUploadVariants(v)
           \/ RunUploadMaster(v)
  BY <1>3 DEF RunEncoded, RunUploadFirst, RunUploadVariants, RunUploadMaster
<1>4. CASE RunAnnounce(v) \/ RunError(v) \/ RunGiveUp(v) \/ RunSetFailedLost(v)
  BY <1>4 DEF RunAnnounce, RunError, RunGiveUp, RunSetFailedLost
<1> QED BY <1>1, <1>2, <1>3, <1>4 DEF Run

(* The handler keeps its own video sound. *)
LEMMA RunSound ==
  ASSUME TypeOK, NEW v \in Videos, Sound(v), Run(v)
  PROVE  Sound(v)'
<1> USE DEF Goto, Call, TypeOK, Handlers
<1>1. CASE StartRun(v) \/ RunLookup(v) \/ RunSkip(v) \/ RunSettle(v)
  BY <1>1, UnclaimedStep DEF StartRun, RunLookup, RunSkip, RunSettle, IdleRun,
       Disturbed
<1>2. CASE RunAnnounce(v) \/ RunError(v) \/ RunGiveUp(v) \/ RunSetFailedLost(v)
  BY <1>2, UnclaimedStep DEF RunAnnounce, RunError, RunGiveUp, RunSetFailedLost,
       Disturbed
<1>3. CASE RunProcessing(v) \/ RunSetFailed(v)
  BY <1>3, UnclaimedStep DEF RunProcessing, RunSetFailed, RowCall, WriteStatus,
       StatusProcessing, StatusFailed, StatusFinished
<1>4. CASE RunDownload(v) \/ RunFetch(v)
  BY <1>4 DEF Sound, Published, RunDownload, RunFetch, AfterSource, Replacing
<1>5. CASE RunFetched(v) \/ RunResume(v)
  BY <1>5 DEF Sound, Published, RunFetched, RunResume, RowCall, WriteStatus,
       AfterSource, Replacing, StatusUploaded, StatusProcessing, StatusFinished
<1>6. CASE RunTranscoding(v)
  BY <1>6 DEF Sound, Published, RunTranscoding, RowCall, WriteStatus, AfterSource,
       Replacing, StatusTranscoding, StatusFinished
<1>7. CASE RunEncoded(v)
  BY <1>7 DEF Sound, Published, RunEncoded, AfterSource, Replacing
<1>8. CASE RunUploadFirst(v)
  BY <1>8 DEF Sound, RunUploadFirst, AfterSource, Replacing
<1>9. CASE RunUploadVariants(v)
  BY <1>9 DEF Sound, RunUploadVariants, AfterSource, Replacing, Ladders
<1>10. CASE RunUploadMaster(v)
  BY <1>10 DEF Sound, RunUploadMaster, AfterSource, Replacing, Ladders
<1>11. CASE RunFinish(v)
  BY <1>11, SourcesAssumption
     DEF Sound, Published, RunFinish, RowCall, WriteStatus, AfterSource, Replacing
<1> QED BY <1>1, <1>2, <1>3, <1>4, <1>5, <1>6, <1>7, <1>8, <1>9, <1>10, <1>11
       DEF Run

(* Clients, faults and the trash sweep keep every video sound. *)
LEMMA OtherSound ==
  ASSUME TypeOK, NEW v \in Videos, NEW w \in Videos, Sound(w),
         \/ Create(v) \/ ClientPut(v) \/ RunProgress(v) \/ DeliverCancel(v)
         \/ TimeOut(v) \/ WorkerStop(v) \/ LeaseExpires(v) \/ Sweep(v)
         \/ SweepStop(v)
  PROVE  Sound(w)'
<1> USE DEF TypeOK, sweepOnly
<1>1. CASE Create(v) \/ ClientPut(v) \/ RunProgress(v)
  BY <1>1, QuietStep DEF Create, ClientPut, RunProgress, WriteStatus,
       StatusCreated, StatusTranscoding, StatusFinished
<1>2. CASE DeliverCancel(v) \/ TimeOut(v)
  <2>1. EndContext(v)
    BY <1>2 DEF DeliverCancel, TimeOut
  <2>2. run'[w].at = run[w].at /\ run'[w].src = run[w].src
    BY <2>1 DEF EndContext, Handlers
  <2> QED BY <2>1, <2>2, QuietStep DEF EndContext, Disturbed
<1>3. CASE LeaseExpires(v) \/ SweepStop(v) \/ SweepRaw(v)
  BY <1>3, QuietStep DEF LeaseExpires, SweepStop, SweepRaw
<1>4. CASE SweepHls(v) \/ SweepRow(v)
  BY <1>4, QuietStep DEF SweepHls, SweepRow, RemoveHls, DropRow, Wiped, NoRow,
       StatusFinished
<1>5. CASE WorkerStop(v)
  <2>1. CASE w = v
    BY <1>5, <2>1, UnclaimedStep DEF WorkerStop, IdleRun, Disturbed
  <2>2. CASE w # v
    BY <1>5, <2>2, QuietStep DEF WorkerStop, Disturbed
  <2> QED BY <2>1, <2>2
<1> QED BY <1>1, <1>2, <1>3, <1>4, <1>5 DEF Sweep

(* Whatever happens, a video that nobody has wiped and whose status is        *)
(* "finished" has variants and master of one encode in the bucket; and the     *)
(* worker uploads them in the order that this takes.                           *)
THEOREM PublicationSafe == Spec => [](FinishedIsPublished /\ UploadInOrder)
<1> DEFINE Inv == \A v \in Videos : Sound(v)
<1>1. Init => Inv
  BY DEF Init, Sound, IdleRun, AfterSource, Replacing, NoRow, StatusFinished
<1>2. TypeOK /\ Inv /\ [Next]_vars => Inv'
  <2> SUFFICES ASSUME TypeOK, Inv, [Next]_vars, NEW w \in Videos PROVE Sound(w)'
    OBVIOUS
  <2>1. ASSUME NEW v \in Videos, Run(v) PROVE Sound(w)'
    BY <2>1, RunSound, RunIsLocal, QuietStep
  <2>2. ASSUME NEW r \in Requests, NEW v \in Videos, NEW kind \in Kinds,
               Receive(r, kind, v)
        PROVE  Sound(w)'
    BY <2>2, QuietStep DEF Receive
  <2>3. CASE SweepList \/ UNCHANGED vars
    BY <2>3, QuietStep DEF SweepList, sweepOnly, vars
  <2> QED BY <2>1, <2>2, <2>3, RequestSound, OtherSound DEF Next
<1>3. Inv => FinishedIsPublished /\ UploadInOrder
  BY SoundIsBoth
<1> QED BY <1>1, <1>2, <1>3, TypeCorrect, PTL DEF Spec

(* The encoded event tells the truth: it is sent with the ladder complete.    *)
THEOREM EncodedEventSafe == Spec => EncodedEventIsTrue
<1>1. UploadInOrder =>
        [\A v \in Videos :
           RunAnnounce(v) /\ ~run[v].ended /\ scar[v] # "wiped" => Published(v)]_vars
  BY DEF UploadInOrder, RunAnnounce
<1>2. Spec => []UploadInOrder
  BY PublicationSafe, PTL
<1> QED BY <1>1, <1>2, PTL DEF EncodedEventIsTrue

-----------------------------------------------------------------------------
(* WorkAccountedFor, video by video. *)
Accounted(v) ==
  scar[v] = "none" =>
    /\ run[v].at # "idle" <=> task[v].state = "active"
    /\ ~run[v].ended
    /\ /\ InProgress(status[v])
       /\ run[v].at \in {"announce", "return"} \/ ~TaskLive(v)
       => WillEnqueue(v)

(* A step that leaves v's handler, task and status alone, and makes no         *)
(* request forget that it will enqueue, keeps v accounted for.                 *)
LEMMA IdleStep ==
  ASSUME NEW v \in Videos, Accounted(v),
         run'[v] = run[v], task'[v] = task[v],
         status'[v] = status[v] \/ ~InProgress(status'[v]),
         scar[v] # "none" => scar'[v] # "none",
         WillEnqueue(v) => WillEnqueue(v)'
  PROVE  Accounted(v)'
  BY DEF Accounted, TaskLive, InProgress

(* A request's step keeps every other request's place. *)
LEMMA StepKeepsOthers ==
  ASSUME TypeOK, NEW r \in Requests, NEW v \in Videos, NEW a, NEW b,
         Step(r, v, a, b), NEW w \in Videos, WillEnqueue(w),
         a # "enqueue" \/ w # v
  PROVE  WillEnqueue(w)'
<1>1. PICK q \in Requests : Serving(q) /\ req[q].v = w /\ req[q].at = "enqueue"
  BY DEF WillEnqueue
<1>2. q # r
  BY <1>1 DEF Step
<1>3. req'[q] = req[q]
  BY <1>2 DEF Step, TypeOK
<1> QED BY <1>1, <1>3 DEF WillEnqueue, Serving

(* The requests keep every video accounted for. *)
LEMMA RequestAccounted ==
  ASSUME TypeOK, NEW r \in Requests, NEW v \in Videos, NEW w \in Videos,
         Accounted(w), Request(r, v)
  PROVE  Accounted(w)'
<1>1. CASE ReqLookup(r, v) \/ ReqStat(r, v) \/ ReqPut(r, v) \/ ReqTrash(r, v)
           \/ ReqCancel(r, v) \/ ReqRestore(r, v) \/ ReqRemoveRaw(r, v)
  BY <1>1, StepKeepsOthers, IdleStep
     DEF ReqLookup, ReqStat, ReqPut, ReqTrash, ReqCancel, ReqRestore, ReqRemoveRaw
<1>2. CASE ReqRemoveHls(r, v)
  BY <1>2, StepKeepsOthers, IdleStep DEF ReqRemoveHls, Wiped, TypeOK
<1>3. CASE ReqDrop(r, v)
  BY <1>3, StepKeepsOthers, IdleStep
     DEF ReqDrop, DropRow, TypeOK, InProgress, NoRow, StatusUploaded,
         StatusProcessing, StatusTranscoding
<1>4. CASE ReqMark(r, v)
  <2>1. WillEnqueue(w) => WillEnqueue(w)'
    BY <1>4, StepKeepsOthers DEF ReqMark
  <2>2. CASE status'[w] = status[w]
    BY <1>4, <2>1, <2>2, IdleStep DEF ReqMark
  <2>3. CASE status'[w] # status[w]
    <3>1. w = v /\ Exists(v)
      BY <1>4, <2>3 DEF ReqMark, WriteStatus, TypeOK
    <3>2. req[r].v = v /\ Serving(r)
      BY <1>4 DEF ReqMark, Step
    <3>3. req[r] \in Calls
      BY <3>2 DEF TypeOK, Serving
    <3>4. req'[r] = [req[r] EXCEPT !.at = "enqueue"]
      BY <1>4, <3>1 DEF ReqMark, Step, TypeOK
    <3>5. req'[r].v = v /\ req'[r].at = "enqueue"
      BY <3>2, <3>3, <3>4 DEF Calls
    <3>6. WillEnqueue(w)'
      BY <3>1, <3>5 DEF WillEnqueue, Serving, Unserved, Served
    <3> QED BY <1>4, <3>6 DEF ReqMark, Accounted
  <2> QED BY <2>2, <2>3
<1>5. CASE ReqEnqueue(r, v)
  <2>1. CASE w # v
    BY <1>5, <2>1, StepKeepsOthers, IdleStep DEF ReqEnqueue, Disturbed, TypeOK
  <2>2. CASE w = v /\ task[v].state = "active"
    BY <1>5, <2>2 DEF ReqEnqueue, Accounted, Disturbed, TypeOK
  <2>3. CASE w = v /\ task[v].state # "active"
    <3>1. task'[v].state = "waiting"
      BY <1>5, <2>3 DEF ReqEnqueue, Enqueued, NewTask, TypeOK, Tasks
    <3> QED BY <1>5, <2>3, <3>1 DEF ReqEnqueue, Accounted, TaskLive
  <2> QED BY <2>1, <2>2, <2>3
<1> QED BY <1>1, <1>2, <1>3, <1>4, <1>5 DEF Request

(* The handler keeps its own video accounted for: what it starts it ends with *)
(* a verdict, or leaves to a retry.                                           *)
LEMMA RunAccounted ==
  ASSUME TypeOK, NEW v \in Videos, Accounted(v), Run(v)
  PROVE  Accounted(v)'
<1>1. run'[v].at \in Places /\ task[v] \in Tasks /\ run[v] \in Handlers
  BY RunTyped DEF TypeOK, Handlers
<1>2. WillEnqueue(v)' <=> WillEnqueue(v)
  BY DEF WillEnqueue, Serving, Run, StartRun, RunLookup, RunSkip, RunProcessing,
     RunDownload, RunFetch, RunFetched, RunResume, RunTranscoding, RunEncoded,
     RunUploadFirst, RunUploadVariants, RunUploadMaster, RunFinish, RunAnnounce,
     RunError, RunGiveUp, RunSetFailed, RunSetFailedLost, RunSettle, RowCall,
     apiVars
<1> USE <1>1, <1>2 DEF Accounted, TaskLive, Goto, Call, TypeOK, Handlers
<1>3. CASE StartRun(v)
  BY <1>3 DEF StartRun, IdleRun, Tasks
<1>4. CASE RunSkip(v) \/ RunSetFailedLost(v)
  BY <1>4 DEF RunSkip, RunSetFailedLost, Disturbed
<1>5. CASE RunLookup(v) \/ RunDownload(v) \/ RunFetch(v) \/ RunError(v)
           \/ RunEncoded(v) \/ RunUploadFirst(v) \/ RunUploadVariants(v)
           \/ RunUploadMaster(v)
  BY <1>5 DEF RunLookup, RunDownload, RunFetch, RunError, RunEncoded,
       RunUploadFirst, RunUploadVariants, RunUploadMaster, Fallible
<1>6. CASE RunProcessing(v) \/ RunFetched(v) \/ RunResume(v) \/ RunTranscoding(v)
  BY <1>6 DEF RunProcessing, RunFetched, RunResume, RunTranscoding, RowCall
<1>7. CASE RunFinish(v)
  BY <1>7 DEF RunFinish, RowCall, WriteStatus, InProgress, StatusUploaded,
       StatusProcessing, StatusTranscoding, StatusFinished
<1>8. CASE RunAnnounce(v) \/ RunGiveUp(v)
  BY <1>8 DEF RunAnnounce, RunGiveUp
<1>9. CASE RunSetFailed(v)
  BY <1>9 DEF RunSetFailed, WriteStatus, InProgress, StatusUploaded, Exists,
       StatusProcessing, StatusTranscoding, StatusFailed, NoRow
<1>10. CASE RunSettle(v)
  <2>1. task'[v].state \in {"none", "waiting", "archived"}
    <3>1. AfterFailure(task[v]).state \in {"waiting", "archived"}
      BY DEF AfterFailure, Tasks
    <3>2. \/ task' = [task EXCEPT ![v] = NoTask]
          \/ task' = [task EXCEPT ![v] = AfterFailure(task[v])]
      BY <1>10 DEF RunSettle
    <3> QED BY <3>1, <3>2 DEF NoTask
  <2> QED BY <1>10, <2>1 DEF RunSettle, IdleRun
<1> QED BY <1>3, <1>4, <1>5, <1>6, <1>7, <1>8, <1>9, <1>10 DEF Run

(* Clients, faults and the trash sweep keep every video accounted for. *)
LEMMA OtherAccounted ==
  ASSUME TypeOK, NEW v \in Videos, NEW w \in Videos, Accounted(w),
         \/ Create(v) \/ ClientPut(v) \/ RunProgress(v) \/ DeliverCancel(v)
         \/ TimeOut(v) \/ WorkerStop(v) \/ LeaseExpires(v) \/ Sweep(v)
         \/ SweepStop(v)
  PROVE  Accounted(w)'
<1>1. WillEnqueue(w)' <=> WillEnqueue(w)
  BY DEF WillEnqueue, Serving, Create, ClientPut, RunProgress, DeliverCancel,
     TimeOut, WorkerStop, LeaseExpires, Sweep, SweepHls, SweepRaw, SweepRow,
     SweepStop, EndContext, apiVars, sweepOnly
<1> USE <1>1 DEF TypeOK, sweepOnly
<1>2. CASE Create(v) \/ SweepRow(v)
  BY <1>2, IdleStep DEF Create, SweepRow, DropRow, InProgress, NoRow,
       StatusCreated, StatusUploaded, StatusProcessing, StatusTranscoding
<1>3. CASE ClientPut(v) \/ SweepRaw(v) \/ SweepStop(v)
  BY <1>3, IdleStep DEF ClientPut, SweepRaw, SweepStop
<1>4. CASE SweepHls(v)
  BY <1>4, IdleStep DEF SweepHls, Wiped
<1>5. CASE RunProgress(v)
  BY <1>5 DEF RunProgress, Accounted, TaskLive, WriteStatus
<1>6. CASE DeliverCancel(v) \/ TimeOut(v)
  BY <1>6, IdleStep DEF DeliverCancel, TimeOut, EndContext, Disturbed, Accounted
<1>7. CASE WorkerStop(v)
  BY <1>7, IdleStep DEF WorkerStop, Disturbed, Accounted
<1>8. CASE LeaseExpires(v)
  BY <1>8, IdleStep DEF LeaseExpires, Accounted
<1> QED BY <1>2, <1>3, <1>4, <1>5, <1>6, <1>7, <1>8 DEF Sweep

(* A request that arrives or is given up strands nothing undisturbed. *)
LEMMA ArrivalAccounted ==
  ASSUME TypeOK, NEW r \in Requests, NEW v \in Videos, NEW w \in Videos,
         Accounted(w),
         ReqAbandon(r, v) \/ \E kind \in Kinds : Receive(r, kind, v)
  PROVE  Accounted(w)'
<1>1. CASE ReqAbandon(r, v)
  <2>1. CASE w = v
    BY <1>1, <2>1 DEF ReqAbandon, Accounted, Disturbed, TypeOK
  <2>2. CASE w # v
    <3>1. WillEnqueue(w) => WillEnqueue(w)'
      BY <1>1, <2>2 DEF ReqAbandon, WillEnqueue, Serving, TypeOK
    <3> QED BY <1>1, <2>2, <3>1, IdleStep DEF ReqAbandon, Disturbed, TypeOK
  <2> QED BY <2>1, <2>2
<1>2. ASSUME NEW kind \in Kinds, Receive(r, kind, v)
      PROVE  Accounted(w)'
  <2>1. WillEnqueue(w) => WillEnqueue(w)'
    BY <1>2 DEF Receive, WillEnqueue, Serving, TypeOK
  <2> QED BY <1>2, <2>1, IdleStep DEF Receive
<1> QED BY <1>1, <1>2

(* Only a video that has been disturbed can be live, in progress, and without *)
(* a task or a request that will see it to its end.                            *)
THEOREM StallSafe == Spec => [](OnlyDisturbedVideosStall /\ WorkAccountedFor)
<1> DEFINE Inv == \A v \in Videos : Accounted(v)
<1>1. Init => Inv
  BY DEF Init, Accounted, IdleRun, NoTask, InProgress, NoRow, StatusUploaded,
     StatusProcessing, StatusTranscoding
<1>2. TypeOK /\ Inv /\ [Next]_vars => Inv'
  <2> SUFFICES ASSUME TypeOK, Inv, [Next]_vars, NEW w \in Videos
               PROVE  Accounted(w)'
    OBVIOUS
  <2>1. ASSUME NEW v \in Videos, Run(v) PROVE Accounted(w)'
    <3>1. CASE w = v
      BY <2>1, <3>1, RunAccounted
    <3>2. CASE w # v
      <4>1. UNCHANGED req
        BY <2>1 DEF Run, StartRun, RunLookup, RunSkip, RunProcessing,
           RunDownload, RunFetch, RunFetched, RunResume, RunTranscoding,
           RunEncoded, RunUploadFirst, RunUploadVariants, RunUploadMaster,
           RunFinish, RunAnnounce, RunError, RunGiveUp, RunSetFailed,
           RunSetFailedLost, RunSettle, RowCall, apiVars
      <4> QED BY <2>1, <3>2, <4>1, RunIsLocal, IdleStep DEF WillEnqueue, Serving
    <3> QED BY <3>1, <3>2
  <2>2. CASE SweepList \/ UNCHANGED vars
    BY <2>2, IdleStep DEF SweepList, sweepOnly, vars, WillEnqueue, Serving
  <2> QED BY <2>1, <2>2, RequestAccounted, OtherAccounted, ArrivalAccounted
          DEF Next
<1>3. Inv => OnlyDisturbedVideosStall /\ WorkAccountedFor
  BY DEF Accounted, OnlyDisturbedVideosStall, WorkAccountedFor
<1> QED BY <1>1, <1>2, <1>3, TypeCorrect, PTL DEF Spec

(* A handler that replaces a ladder has taken the status off "finished", and    *)
(* what it has put up stays (worker: process; storage: UploadDir).            *)
THEOREM UploadOrdered == Spec => []UploadInOrder
  BY PublicationSafe, PTL

(* A live video in progress has a task, a request about to enqueue one, or a   *)
(* recorded reason why not (httpapi: handleComplete; worker: handleTranscode). *)
THEOREM WorkAccounted == Spec => []WorkAccountedFor
  BY StallSafe, PTL

=============================================================================
