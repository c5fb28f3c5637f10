---------------------------- MODULE VideoJobsSafety ----------------------------
(***************************************************************************)
(* More proofs about VideoJobs: its types, and what the jobs and the edits   *)
(* of a video leave of its poster, its chapters and its search index, where   *)
(* the captions and the index have any number of tasks.                       *)
(***************************************************************************)
EXTENDS VideoJobsProofs

(* A step of the queue leaves the contents alone, but for what it has to tell  *)
(* about the index.                                                           *)
LEMMA MissesStay ==
  ASSUME Misses
  PROVE  /\ ContentsStay
         /\ crossed \subseteq crossed' /\ crossed' \subseteq crossed \cup {"index"}
  BY DEF Misses, ContentsStay

(* What the steps of the body of a job, an edit or a request are to the rest. *)
BodyStep(j) == Work(j) \/ BodyFails(j)

EnqueueStep(a) == EnqueueIdempotent(a) \/ (a \in Askers /\ RequestStops(a))

-----------------------------------------------------------------------------
(* What a step may do to the queue's records. *)

(* A task keeps its argument for as long as it is there. *)
TasksStay ==
  \A j \in Jobs : task'[j].state # "none" =>
    task[j].state # "none" /\ task'[j].arg = task[j].arg

(* An enqueue keeps its job and its argument for as long as it is under way. *)
EnqsStay ==
  \A a \in Enqueuers : enq'[a].at # "idle" =>
    enq[a].at # "idle" /\ enq'[a].job = enq[a].job /\ enq'[a].arg = enq[a].arg

LEMMA TaskForms ==
  ASSUME NEW t \in Tasks, NEW state \in {"none", "waiting", "active", "archived"}
  PROVE  /\ [t EXCEPT !.state = state].state = state
         /\ [t EXCEPT !.state = state].arg = t.arg
         /\ [t EXCEPT !.state = state].retried = t.retried
         /\ [t EXCEPT !.state = state, !.retried = @ + 1].state = state
         /\ [t EXCEPT !.state = state, !.retried = @ + 1].arg = t.arg
         /\ [t EXCEPT !.state = state, !.retried = @ + 1].retried = t.retried + 1
<1>1. PICK u \in Tasks : u = [t EXCEPT !.state = state]
  BY DEF Tasks
<1>2. u.state = state /\ u.arg = t.arg /\ u.retried = t.retried
  BY <1>1 DEF Tasks
<1>3. [t EXCEPT !.state = state, !.retried = @ + 1] = [u EXCEPT !.retried = t.retried + 1]
  BY <1>1, Zenon
<1>4. /\ [u EXCEPT !.retried = t.retried + 1].state = u.state
      /\ [u EXCEPT !.retried = t.retried + 1].arg = u.arg
      /\ [u EXCEPT !.retried = t.retried + 1].retried = t.retried + 1
  BY DEF Tasks
<1> QED BY <1>1, <1>2, <1>3, <1>4

LEMMA FailureForms ==
  ASSUME Shape, NEW j \in Jobs
  PROVE  /\ AfterFailure(j).arg = task[j].arg
         /\ AfterFailure(j).state \in {"waiting", "archived"}
         /\ task[j].retried \in 0..RetriesOf[j] => AfterFailure(j).retried \in 0..RetriesOf[j]
<1>1. PICK t \in Tasks : t = task[j]
  BY DEF Shape
<1>2. t.retried \in Nat /\ RetriesOf[j] \in Nat
  BY QueueAssumption DEF Tasks
<1>3. CASE t.retried < RetriesOf[j]
  <2>1. AfterFailure(j) = [t EXCEPT !.state = "waiting", !.retried = @ + 1]
    BY <1>1, <1>3, Zenon DEF AfterFailure
  <2>2. PICK u : u = [t EXCEPT !.state = "waiting", !.retried = @ + 1]
    OBVIOUS
  <2>3. u.state = "waiting" /\ u.arg = t.arg /\ u.retried = t.retried + 1
    BY <2>2, TaskForms, Zenon
  <2> QED BY <1>1, <1>2, <1>3, <2>1, <2>2, <2>3
<1>4. CASE ~(t.retried < RetriesOf[j])
  <2>1. AfterFailure(j) = [t EXCEPT !.state = "archived"]
    BY <1>1, <1>4, Zenon DEF AfterFailure
  <2> QED BY <1>1, <1>2, <2>1, TaskForms
<1> QED BY <1>3, <1>4

(* What an attempt's beginning and end do to the task and the handler.        *)
LEMMA AttemptTask ==
  ASSUME Shape, HandsLeased, NEW j \in Jobs, AttemptOn(j)
  PROVE  /\ \A i \in Jobs : i # j => task'[i] = task[i]
         /\ \/ task'[j] = task[j]
            \/ task'[j] = NoTask
            \/ task'[j] = AfterFailure(j) /\ task[j].state # "none"
            \/ \E state \in {"active", "waiting", "archived"} :
                 task'[j] = [task[j] EXCEPT !.state = state] /\ task[j].state # "none"
<1>1. \A i \in Jobs : i # j => task'[i] = task[i]
  BY DEF Shape, AttemptOn, Begin, Finish, Return, LeaseExpires, Stops, WorkerStops
<1>2. CASE Begin(j)
  <2>1. task' = [task EXCEPT ![j] = [task[j] EXCEPT !.state = "active"]]
    BY <1>2, Zenon DEF Begin
  <2> QED BY <1>2, <2>1 DEF Shape, Begin
<1>3. CASE Finish(j)
  BY <1>3 DEF Finish
<1>4. CASE Return(j)
  <2>1. hand[j].out \in {"done", "error", "skip"} /\ task[j].state = "active"
    BY <1>4 DEF Shape, Hands, HandsLeased, Return
  <2>2. CASE hand[j].out = "done"
    BY <1>4, <2>2 DEF Shape, Return
  <2>3. CASE hand[j].out = "error"
    <3>1. task' = [task EXCEPT ![j] = AfterFailure(j)]
      BY <1>4, <2>3 DEF Return
    <3> QED BY <2>1, <3>1 DEF Shape
  <2>4. CASE hand[j].out = "skip"
    <3>1. task' = [task EXCEPT ![j] = [task[j] EXCEPT !.state = "archived"]]
      BY <1>4, <2>4 DEF Return
    <3> QED BY <2>1, <3>1 DEF Shape
  <2> QED BY <2>1, <2>2, <2>3, <2>4
<1>5. CASE LeaseExpires(j)
  BY <1>5 DEF Shape, LeaseExpires
<1>6. CASE Stops(j)
  <2>1. task[j].state = "active"
    BY <1>6 DEF Stops, WorkerStops, HandsLeased
  <2>2. \/ task' = task
        \/ task' = [task EXCEPT ![j] = [task[j] EXCEPT !.state = "waiting"]]
    BY <1>6, Zenon DEF Stops, WorkerStops
  <2> QED BY <2>1, <2>2 DEF Shape
<1> QED BY <1>1, <1>2, <1>3, <1>4, <1>5, <1>6 DEF AttemptOn

Retries == \A j \in Jobs : task[j].retried \in 0..RetriesOf[j]

LEMMA AttemptEffect ==
  ASSUME Shape, HandsLeased, NEW j \in Jobs, AttemptOn(j)
  PROVE  TasksStay /\ EnqsStay /\ HandsLeased' /\ (Retries => Retries')
<1>1. /\ \A i \in Jobs : i # j => task'[i] = task[i]
      /\ \/ task'[j] = task[j]
         \/ task'[j] = NoTask
         \/ task'[j] = AfterFailure(j) /\ task[j].state # "none"
         \/ \E state \in {"active", "waiting", "archived"} :
              task'[j] = [task[j] EXCEPT !.state = state] /\ task[j].state # "none"
  BY AttemptTask
<1>2. /\ task'[j].state # "none" => task[j].state # "none" /\ task'[j].arg = task[j].arg
      /\ task[j].retried \in 0..RetriesOf[j] => task'[j].retried \in 0..RetriesOf[j]
  <2>1. task[j] \in Tasks /\ RetriesOf[j] \in Nat
    BY QueueAssumption DEF Shape
  <2>2. CASE task'[j] = task[j]
    BY <2>2
  <2>3. CASE task'[j] = NoTask
    BY <2>1, <2>3 DEF NoTask
  <2>4. CASE task'[j] = AfterFailure(j) /\ task[j].state # "none"
    BY <2>4, FailureForms
  <2>5. ASSUME NEW state \in {"active", "waiting", "archived"}, task[j].state # "none",
               task'[j] = [task[j] EXCEPT !.state = state]
        PROVE  /\ task'[j].arg = task[j].arg
               /\ task[j].retried \in 0..RetriesOf[j] => task'[j].retried \in 0..RetriesOf[j]
    BY <2>1, <2>5, TaskForms
  <2> QED BY <1>1, <2>2, <2>3, <2>4, <2>5
<1>3. EnqsStay
  <2>1. CASE Stops(j)
    <3>1. enq'[j].at = "idle" /\ \A b \in Enqueuers : b # j => enq'[b] = enq[b]
      BY <2>1, EnqForms DEF Stops, WorkerStops, Enqueuers
    <3> QED BY <3>1 DEF EnqsStay
  <2>2. CASE enq' = enq
    BY <2>2 DEF EnqsStay
  <2> QED BY <2>1, <2>2 DEF AttemptOn, Begin, Finish, Return, LeaseExpires
<1>4. HandsLeased'
  <2>1. \A i \in Jobs : i # j => hand'[i] = hand[i]
    BY DEF Shape, AttemptOn, Begin, Finish, Return, LeaseExpires, Stops, WorkerStops, Step
  <2>2. hand'[j].at # "idle" => task'[j].state = "active"
    <3>1. CASE Begin(j)
      <4>1. task' = [task EXCEPT ![j] = [task[j] EXCEPT !.state = "active"]]
        BY <3>1, Zenon DEF Begin
      <4>2. [task[j] EXCEPT !.state = "active"].state = "active"
        BY TaskForms DEF Shape
      <4> QED BY <4>1, <4>2 DEF Shape
    <3>2. CASE Finish(j)
      BY <3>2 DEF Finish, HandsLeased
    <3>3. CASE Return(j) \/ Stops(j)
      BY <3>3 DEF Shape, Return, Stops, WorkerStops, IdleHand
    <3>4. CASE LeaseExpires(j)
      BY <3>4 DEF LeaseExpires
    <3> QED BY <3>1, <3>2, <3>3, <3>4 DEF AttemptOn
  <2> QED BY <1>1, <2>1, <2>2 DEF HandsLeased
<1>5. TasksStay /\ (Retries => Retries')
  BY <1>1, <1>2 DEF TasksStay, Retries
<1> QED BY <1>3, <1>4, <1>5

(* An enqueue that submits, or a call of one that adds nothing.               *)
Submits(a) ==
  /\ Submit(a) /\ task[enq[a].job].state = "none"
  /\ enq[a].at # "idle" /\ enq'[a].at = "idle"

LEMMA EnqueueEffect ==
  ASSUME Shape, HandsLeased, NEW a \in Enqueuers, EnqueueStep(a), Misses
  PROVE  /\ EnqsStay /\ HandsLeased' /\ (Retries => Retries')
         /\ TasksStay \/ Submits(a)
         /\ hand' = hand /\ asks' = asks
<1>1. /\ \A b \in Enqueuers : b # a => enq'[b] = enq[b]
      /\ hand' = hand
      /\ \A i \in Jobs : i # enq[a].job => task'[i] = task[i]
  BY MissesStay, EnqueueShape DEF EnqueueStep
<1>2. enq[a] \in Enqs /\ enq[a].job \in Jobs
  BY DEF Shape, Enqs
<1>3. \/ task' = task
      \/ task[enq[a].job].state # "active" /\ task' = [task EXCEPT ![enq[a].job] = NoTask]
      \/ Submit(a) /\ task[enq[a].job].state = "none"
  BY DEF EnqueueStep, EnqueueIdempotent, Enqueue, Inspect, Delete, Again, RequestStops,
     GiveUp, Absorb
<1>4. enq[a].at # "idle" /\ asks' = asks
  BY DEF EnqueueStep, EnqueueIdempotent, Enqueue, Inspect, Delete, Again, RequestStops
<1>5. Leave(a) \/ \E at \in {"inspect", "delete", "again"} : Proceed(a, at)
  BY DEF EnqueueStep, EnqueueIdempotent, Enqueue, Inspect, Delete, Again, RequestStops,
     GiveUp, Absorb, Submit
<1>6. EnqsStay
  BY <1>1, <1>4, <1>5, EnqForms DEF EnqsStay
<1>7. Submit(a) => enq'[a].at = "idle"
  BY EnqForms DEF Submit
<1>8. TasksStay \/ Submits(a)
  BY <1>2, <1>3, <1>4, <1>7 DEF TasksStay, Submits, Shape, NoTask
<1>9. Retries => Retries'
  <2>1. task' = task \/ task'[enq[a].job] \in {NoTask, NewTask(enq[a].arg)}
    BY <1>2, <1>3 DEF Submit, Shape
  <2>2. NoTask.retried = 0 /\ NewTask(enq[a].arg).retried = 0
    BY DEF NoTask, NewTask
  <2> QED BY <1>1, <1>2, <2>1, <2>2, QueueAssumption DEF Retries
<1>10. HandsLeased'
  BY <1>1, <1>2, <1>3 DEF HandsLeased, Submit, Shape
<1> QED BY <1>1, <1>4, <1>6, <1>8, <1>9, <1>10

LEMMA SetQueuedEffect ==
  ASSUME Shape, NEW r \in Askers, SetQueued(r), Misses
  PROVE  /\ Shape' /\ EnqsStay
         /\ UNCHANGED <<task, hand, asks, slips>>
         /\ enq[r].at = "row" /\ enq'[r].at = "enqueue" /\ enq'[r].job = enq[r].job
         /\ \A b \in Enqueuers : b # r => enq'[b] = enq[b]
         /\ op' = op \/ op' = [op EXCEPT ![KindOf[enq[r].job]] = "queued"]
         /\ faults' = faults \/ Fault
<1>1. r \in Enqueuers /\ Proceed(r, "enqueue") /\ enq[r].at = "row"
  BY DEF SetQueued, Enqueuers
<1>2. /\ enq' \in [Enqueuers -> Enqs] /\ enq'[r].at = "enqueue"
      /\ enq'[r].job = enq[r].job /\ enq'[r].arg = enq[r].arg
      /\ \A b \in Enqueuers : b # r => enq'[b] = enq[b]
  BY <1>1, EnqForms
<1>3. KindOf[enq[r].job] \in Kinds
  BY <1>1 DEF Shape, Enqs, Kinds
<1>4. /\ UNCHANGED <<task, hand, asks, slips>>
      /\ op' = op \/ op' = [op EXCEPT ![KindOf[enq[r].job]] = "queued"]
      /\ faults' = faults \/ Fault
  BY DEF SetQueued
<1>5. Shape'
  BY <1>2, <1>3, <1>4 DEF Shape, Misses, Enqueuers
<1> QED BY <1>1, <1>2, <1>4, <1>5 DEF EnqsStay
-----------------------------------------------------------------------------
(* What a step in the body of a job may do to its handler. *)

(* The handler holds what it held, what it has just read, or a fresh number.  *)
MovesOn(j) ==
  /\ hand' \in [Jobs -> Hands]
  /\ \A i \in Jobs : i # j => hand'[i] = hand[i]
  /\ hand[j].at \notin {"idle", "end", "ack"}
  /\ hand'[j].at \notin {"idle", "begin", "ack"}
  /\ \/ hand'[j].got \in {hand[j].got, caption.vtt}
     \/ hand'[j].got = Fresh /\ drawn' = Fresh
  /\ \/ hand'[j].out = hand[j].out
     \/ hand'[j].at = "end" /\ hand'[j].out # "done"
  /\ drawn' \in {drawn, Fresh}
  /\ faults' = faults \/ Fault
  /\ UNCHANGED <<op, task, asks, slips>>

Chains(j) ==
  /\ hand[j].at \in {"chainIndex", "chainContent"} /\ enq[j].at = "idle"
  /\ \E i \in {IndexJob, ContentJob} :
       enq' = [enq EXCEPT ![j] = [at |-> "enqueue", job |-> i, arg |-> 0]]

LEMMA StepMoves ==
  ASSUME Shape, NEW j \in Jobs, NEW at \in HandSteps \ {"idle", "begin", "ack"},
         hand[j].at \notin {"idle", "end", "ack"},
         \/ Step(j, at)
         \/ Holds(j, at, Fresh) /\ drawn' = Fresh
         \/ Fails(j) \/ Skips(j),
         drawn' \in {drawn, Fresh}, faults' = faults \/ Fault,
         UNCHANGED <<op, task, asks, slips>>
  PROVE  MovesOn(j)
<1>1. Fresh \in Nat
  BY DEF Shape, Fresh
<1> QED BY <1>1, HandForms DEF MovesOn

LEMMA EncryptMoves ==
  ASSUME Shape, NEW j \in Jobs, Encrypt(j)
  PROVE  MovesOn(j) /\ enq' = enq
<1>1. /\ hand[j].at \in {"begin", "playlists", "segments", "save"}
      /\ UNCHANGED <<op, task, asks, slips>>
  BY DEF Encrypt, BuildEncrypted, UploadPlaylists, UploadSegments, SaveContentKey, Body
<1>2. \/ \E at \in {"segments", "save", "end"} : Step(j, at)
      \/ Holds(j, "playlists", Fresh) /\ drawn' = Fresh
  BY DEF Encrypt, BuildEncrypted, UploadPlaylists, UploadSegments, SaveContentKey, Goes
<1>3. drawn' \in {drawn, Fresh} /\ faults' = faults /\ enq' = enq
  BY DEF Encrypt, BuildEncrypted, UploadPlaylists, UploadSegments, SaveContentKey, Goes,
     Holds
<1>4. {"playlists", "segments", "save", "end"} \subseteq HandSteps \ {"idle", "begin", "ack"}
  BY DEF HandSteps
<1>5. MovesOn(j)
  BY <1>1, <1>2, <1>3, <1>4, StepMoves
<1> QED BY <1>3, <1>5

LEMMA PosterMoves ==
  ASSUME Shape, NEW j \in Jobs, PosterFrame(j)
  PROVE  MovesOn(j) /\ enq' = enq
<1>1. /\ hand[j].at \in {"begin", "upload", "thumbnail"}
      /\ UNCHANGED <<op, task, asks, slips>>
  BY DEF PosterFrame, GrabFrame, UploadFrame, SetThumbnail, Body
<1>2. \E at \in {"upload", "thumbnail", "end"} : Step(j, at)
  BY DEF PosterFrame, GrabFrame, UploadFrame, SetThumbnail, Goes
<1>3. drawn' = drawn /\ faults' = faults /\ enq' = enq
  BY DEF PosterFrame, GrabFrame, UploadFrame, SetThumbnail, Goes
<1>4. {"upload", "thumbnail", "end"} \subseteq HandSteps \ {"idle", "begin", "ack"}
  BY DEF HandSteps
<1>5. MovesOn(j)
  BY <1>1, <1>2, <1>3, <1>4, StepMoves
<1> QED BY <1>3, <1>5

LEMMA CaptionMoves ==
  ASSUME Shape, NEW j \in Jobs, AutoCaption(j)
  PROVE  MovesOn(j) /\ (enq' = enq \/ Chains(j))
<1> DEFINE later == {"store", "record", "chainIndex", "chainContent", "chained", "end"}
<1>1. /\ hand[j].at \in {"begin", "store", "record", "chainIndex", "chainContent", "chained"}
      /\ UNCHANGED <<op, task, asks, slips>>
  BY DEF AutoCaption, Transcribe, StoreVTT, AddCaption, Chain, Chained, Body
<1>2. (\E at \in later : Step(j, at)) \/ (Holds(j, "store", Fresh) /\ drawn' = Fresh)
  BY DEF AutoCaption, Transcribe, StoreVTT, AddCaption, Chain, Chained, Goes
<1>3. drawn' \in {drawn, Fresh} /\ faults' = faults
  BY DEF AutoCaption, Transcribe, StoreVTT, AddCaption, Chain, Chained, Goes, Holds,
     contentVars
<1>4. enq' = enq \/ Chains(j)
  BY DEF AutoCaption, Transcribe, StoreVTT, AddCaption, Chain, Chained, Goes, Holds,
     Chains, Body
<1>5. later \subseteq HandSteps \ {"idle", "begin", "ack"}
  BY DEF HandSteps
<1>6. "store" \in later
  OBVIOUS
<1> HIDE DEF later
<1>7. MovesOn(j)
  BY <1>1, <1>2, <1>3, <1>5, <1>6, StepMoves
<1> QED BY <1>4, <1>7

LEMMA ReadForms ==
  ASSUME Shape, NEW j \in Jobs, ReadTrack(j), caption.vtt # 0
  PROVE  /\ hand' \in [Jobs -> Hands]
         /\ \A i \in Jobs : i # j => hand'[i] = hand[i]
         /\ hand'[j].at = IF KindOf[j] = "search_index" THEN "replace" ELSE "generate"
         /\ hand'[j].got = caption.vtt /\ hand'[j].out = hand[j].out
<1>1. PICK at \in {"replace", "generate"} :
        at = IF IsKind(j, "search_index") THEN "replace" ELSE "generate"
  OBVIOUS
<1>2. PICK n \in Nat : n = caption.vtt
  BY TrackForms DEF Shape
<1>3. PICK h \in Hands : h = hand[j]
  BY DEF Shape
<1>4. hand' = [hand EXCEPT ![j].got = n, ![j].at = at]
  BY <1>1, <1>2, Zenon DEF ReadTrack
<1>5. PICK g \in Hands : g = [h EXCEPT !.got = n, !.at = at]
  BY DEF Hands, HandSteps
<1>6. g.got = n /\ g.at = at /\ g.out = h.out
  BY <1>5 DEF Hands
<1>7. hand' = [hand EXCEPT ![j] = g]
  BY <1>3, <1>4, <1>5 DEF Shape
<1> QED BY <1>1, <1>2, <1>3, <1>6, <1>7 DEF Shape, IsKind

LEMMA FromCaptionsMoves ==
  ASSUME Shape, NEW j \in Jobs, FromCaptions(j)
  PROVE  MovesOn(j) /\ enq' = enq
<1>1. /\ hand[j].at \in {"begin", "read", "replace", "generate", "file"}
      /\ UNCHANGED <<op, task, asks, slips>>
  BY DEF FromCaptions, FindTrack, ReadTrack, ReplaceSearchChunks, ClearFails,
     GenerateChapters, StoreChapters, Body
<1>2. drawn' \in {drawn, Fresh} /\ (faults' = faults \/ Fault) /\ enq' = enq
  BY DEF FromCaptions, FindTrack, ReadTrack, ReplaceSearchChunks, ClearFails,
     GenerateChapters, StoreChapters, contentVars, Goes, Holds
<1>3. CASE ReadTrack(j) /\ caption.vtt # 0
  BY <1>1, <1>2, <1>3, ReadForms DEF MovesOn
<1>4. CASE ~(ReadTrack(j) /\ caption.vtt # 0)
  <2>1. \/ \E at \in {"read", "end"} : Step(j, at)
        \/ Holds(j, "file", Fresh) /\ drawn' = Fresh
        \/ Fails(j) \/ Skips(j)
    BY <1>4 DEF FromCaptions, FindTrack, ReadTrack, ReplaceSearchChunks,
       ClearFails, GenerateChapters, StoreChapters, Goes
  <2>2. {"read", "end", "file"} \subseteq HandSteps \ {"idle", "begin", "ack"}
    BY DEF HandSteps
  <2> QED BY <1>1, <1>2, <2>1, <2>2, StepMoves
<1> QED BY <1>2, <1>3, <1>4

LEMMA FailureMoves ==
  ASSUME Shape, NEW j \in Jobs, BodyFails(j)
  PROVE  MovesOn(j) /\ enq' = enq
<1>1. /\ hand[j].at \notin {"idle", "end", "ack"} /\ Fails(j) /\ Fault
      /\ UNCHANGED <<op, task, asks, slips, drawn, enq>>
  BY DEF BodyFails
<1>2. "end" \in HandSteps \ {"idle", "begin", "ack"}
  BY DEF HandSteps
<1> QED BY <1>1, <1>2, StepMoves

LEMMA BodyMoves ==
  ASSUME Shape, NEW j \in Jobs, BodyStep(j)
  PROVE  MovesOn(j) /\ (enq' = enq \/ Chains(j))
  BY EncryptMoves, PosterMoves, CaptionMoves, FromCaptionsMoves, FailureMoves
     DEF BodyStep, Work
-----------------------------------------------------------------------------
(* Requests, edits and transcodes. *)

LEMMA AskMoves ==
  ASSUME Shape, NEW r \in Askers, AskForJob(r)
  PROVE  \E j \in Jobs, arg \in {0, Fresh} :
           /\ enq[r].at = "idle" /\ edit[r].at = "idle"
           /\ enq' = [enq EXCEPT ![r] = [at |-> "row", job |-> j, arg |-> arg]]
           /\ asks < MaxAsks /\ asks' = asks + 1
           /\ KindOf[j] = "poster" <=> arg = Fresh
           /\ drawn' = IF arg = 0 THEN drawn ELSE Fresh
           /\ UNCHANGED <<op, task, hand, faults, slips, ladder, key, thumbnail,
                          posters, main, caption, index, chapters, edit, wants, shown,
                          crossed>>
<1>1. Fresh # 0
  BY DEF Shape, Fresh
<1>2. ASSUME NEW kind, NEW arg, AsksFor(r, kind, arg)
      PROVE  \E j \in Jobs :
               /\ enq[r].at = "idle" /\ edit[r].at = "idle"
               /\ enq' = [enq EXCEPT ![r] = [at |-> "row", job |-> j, arg |-> arg]]
               /\ KindOf[j] = kind
               /\ asks < MaxAsks /\ asks' = asks + 1
               /\ UNCHANGED <<op, task, hand, faults, slips, ladder, key,
                              thumbnail, posters, main, caption, index, chapters, edit,
                              wants, shown, crossed>>
  BY <1>2 DEF AsksFor, Ask, Idle
<1>3. CASE AskPoster(r)
  BY <1>1, <1>2, <1>3 DEF AskPoster
<1>4. CASE AskEncrypt(r)
  BY <1>1, <1>2, <1>4 DEF AskEncrypt
<1>5. CASE AskCaption(r)
  BY <1>1, <1>2, <1>5 DEF AskCaption
<1>6. CASE AskReindex(r)
  BY <1>1, <1>2, <1>6 DEF AskReindex
<1>7. CASE AskContent(r)
  BY <1>1, <1>2, <1>7 DEF AskContent
<1> QED BY <1>3, <1>4, <1>5, <1>6, <1>7 DEF AskForJob

EditSteps == {"idle", "thumbnail", "remove", "chaptersFile", "captionRow", "captionFile"}

Edits == [at : EditSteps, new : Nat, old : Nat]

(* The forms in which an edit starts, goes on and ends.                       *)
LEMMA EditForms ==
  ASSUME edit \in [Askers -> Edits], Shape, thumbnail \in Nat, NEW r \in Askers,
         NEW at \in EditSteps, NEW next \in EditSteps, NEW new \in Nat, NEW wish
  PROVE  /\ StartsEdit(r, wish, at, new) =>
              /\ edit' \in [Askers -> Edits]
              /\ \A q \in Askers : q # r => edit'[q] = edit[q]
              /\ edit[r].at = "idle"
              /\ edit'[r].at = at /\ edit'[r].new = new /\ edit'[r].old = thumbnail
         /\ GoesOn(r, at, next) =>
              /\ edit' \in [Askers -> Edits]
              /\ \A q \in Askers : q # r => edit'[q] = edit[q]
              /\ edit[r].at = at /\ edit'[r].at = next
              /\ next # "idle" => edit'[r].new = edit[r].new /\ edit'[r].old = edit[r].old
              /\ next = "idle" => edit'[r].new = 0 /\ edit'[r].old = 0
         /\ EditFails(r) =>
              /\ edit' \in [Askers -> Edits]
              /\ \A q \in Askers : q # r => edit'[q] = edit[q]
              /\ edit'[r].at = "idle" /\ edit'[r].new = 0 /\ edit'[r].old = 0
<1>1. PICK e \in Edits : e = edit[r]
  OBVIOUS
<1>2. PICK f \in Edits : f = [e EXCEPT !.at = next]
  BY DEF Edits
<1>3. f.at = next /\ f.new = e.new /\ f.old = e.old
  BY <1>2 DEF Edits
<1>4. NoEdit \in Edits /\ NoEdit.at = "idle" /\ NoEdit.new = 0 /\ NoEdit.old = 0
  BY DEF NoEdit, Edits, EditSteps
<1>5. ASSUME NEW g \in Edits, edit' = [edit EXCEPT ![r] = g]
      PROVE  /\ edit' \in [Askers -> Edits] /\ edit'[r] = g
             /\ \A q \in Askers : q # r => edit'[q] = edit[q]
  BY <1>5
<1>6. ASSUME StartsEdit(r, wish, at, new)
      PROVE  /\ edit' \in [Askers -> Edits]
             /\ \A q \in Askers : q # r => edit'[q] = edit[q]
             /\ edit[r].at = "idle"
             /\ edit'[r].at = at /\ edit'[r].new = new /\ edit'[r].old = thumbnail
  <2>1. PICK g \in Edits : g = [at |-> at, new |-> new, old |-> thumbnail]
    BY DEF Edits
  <2>2. g.at = at /\ g.new = new /\ g.old = thumbnail
    BY <2>1
  <2>3. edit' = [edit EXCEPT ![r] = g] /\ edit[r].at = "idle"
    BY <1>6, <2>1 DEF StartsEdit, Idle
  <2> QED BY <1>5, <2>2, <2>3
<1>7. ASSUME GoesOn(r, at, next)
      PROVE  /\ edit' \in [Askers -> Edits]
             /\ \A q \in Askers : q # r => edit'[q] = edit[q]
             /\ edit[r].at = at /\ edit'[r].at = next
             /\ next # "idle" => edit'[r].new = edit[r].new /\ edit'[r].old = edit[r].old
             /\ next = "idle" => edit'[r].new = 0 /\ edit'[r].old = 0
  <2>1. edit[r].at = at
    BY <1>7 DEF GoesOn
  <2>2. CASE next = "idle"
    <3>1. edit' = [edit EXCEPT ![r] = NoEdit]
      BY <1>7, <2>2 DEF GoesOn
    <3> QED BY <1>4, <1>5, <2>1, <2>2, <3>1
  <2>3. CASE next # "idle"
    <3>1. edit' = [edit EXCEPT ![r] = f]
      BY <1>1, <1>2, <1>7, <2>3, Zenon DEF GoesOn
    <3>2. /\ edit' \in [Askers -> Edits] /\ edit'[r] = f
          /\ \A q \in Askers : q # r => edit'[q] = edit[q]
      BY <1>5, <3>1
    <3> QED BY <1>1, <1>3, <2>1, <2>3, <3>2
  <2> QED BY <2>2, <2>3
<1>8. ASSUME EditFails(r)
      PROVE  /\ edit' \in [Askers -> Edits]
             /\ \A q \in Askers : q # r => edit'[q] = edit[q]
             /\ edit'[r].at = "idle" /\ edit'[r].new = 0 /\ edit'[r].old = 0
  BY <1>4, <1>5, <1>8 DEF EditFails
<1> QED BY <1>6, <1>7, <1>8
-----------------------------------------------------------------------------
(* The types, with the numbers that handlers, tasks, enqueues and edits hold. *)

(* A poster has a name from its request on; 0 is the one a transcode made.    *)
PosterNamed ==
  /\ \A j \in Jobs : KindOf[j] = "poster" /\ task[j].state # "none" => task[j].arg # 0
  /\ \A a \in Enqueuers :
       enq[a].at # "idle" /\ KindOf[enq[a].job] = "poster" => enq[a].arg # 0

Held ==
  /\ \A j \in Jobs : hand[j].got <= drawn /\ (task[j].state # "none" => task[j].arg <= drawn)
  /\ \A a \in Enqueuers : enq[a].at # "idle" => enq[a].arg <= drawn

Contents ==
  /\ drawn \in Nat
  /\ ladder \in [playlist : 0..drawn, segments : 0..drawn]
  /\ key \in 0..drawn /\ thumbnail \in 0..drawn /\ index \in 0..drawn
  /\ posters \subseteq 1..drawn /\ shown \subseteq 1..drawn
  /\ caption \in [row : BOOLEAN, vtt : 0..drawn]
  /\ chapters \in [row : 0..drawn, file : 0..drawn]
  /\ edit \in [Askers -> Edits]
  /\ \A r \in Askers : /\ edit[r].new <= drawn /\ edit[r].old <= drawn
                       /\ edit[r].at = "thumbnail" => edit[r].new # 0
  /\ main.at \in {"idle", "prepare", "upload", "finish"} /\ main.count \in 0..MaxTranscodes
  /\ wants \in Wishes
  /\ crossed \subseteq {"poster", "chapters", "index"}

QueueCounts ==
  /\ asks \in 0..MaxAsks /\ faults \in 0..MaxFaults
  /\ slips \subseteq Kinds

TypeInv ==
  Shape /\ HandsLeased /\ Retries /\ QueueCounts /\ Held /\ PosterNamed /\ Contents

LEMMA ContentsRest ==
  ASSUME Contents, drawn' \in {drawn, Fresh},
         UNCHANGED <<ladder, key, thumbnail, posters, main, caption, index, chapters,
                     edit, wants, shown>>,
         crossed' \subseteq crossed \cup {"poster", "chapters", "index"}
  PROVE  Contents'
<1>1. drawn' \in Nat /\ 0..drawn \subseteq 0..drawn' /\ 1..drawn \subseteq 1..drawn'
  BY DEF Contents, Fresh
<1>2. ladder' \in [playlist : 0..drawn', segments : 0..drawn']
  BY <1>1 DEF Contents
<1>3. caption' \in [row : BOOLEAN, vtt : 0..drawn']
  BY <1>1 DEF Contents
<1>4. chapters' \in [row : 0..drawn', file : 0..drawn']
  BY <1>1 DEF Contents
<1>5. \A r \in Askers : edit'[r].new <= drawn' /\ edit'[r].old <= drawn'
  BY DEF Contents, Fresh, Edits
<1> QED BY <1>1, <1>2, <1>3, <1>4, <1>5 DEF Contents

LEMMA MissesContents ==
  ASSUME Contents, Misses
  PROVE  Contents'
  BY MissesStay, ContentsRest DEF ContentsStay

LEMMA EncryptContents ==
  ASSUME TypeInv, NEW j \in Jobs, Encrypt(j)
  PROVE  Contents'
<1>1. hand[j].got \in 0..drawn
  BY DEF TypeInv, Shape, Hands, Held
<1>2. CASE BuildEncrypted(j)
  BY <1>2, ContentsRest DEF TypeInv, BuildEncrypted
<1>3. CASE UploadPlaylists(j) \/ UploadSegments(j) \/ SaveContentKey(j)
  BY <1>1, <1>3 DEF TypeInv, Contents, UploadPlaylists, UploadSegments, SaveContentKey
<1> QED BY <1>2, <1>3 DEF Encrypt

LEMMA PosterContents ==
  ASSUME TypeInv, NEW j \in Jobs, PosterFrame(j)
  PROVE  Contents'
<1>1. CASE GrabFrame(j)
  BY <1>1, ContentsRest DEF TypeInv, GrabFrame
<1>2. CASE UploadFrame(j) \/ SetThumbnail(j)
  <2>1. KindOf[j] = "poster" /\ hand[j].at # "idle"
    BY <1>2 DEF UploadFrame, SetThumbnail, Body, IsKind
  <2>2. PICK n \in 1..drawn : n = task[j].arg
    BY <2>1 DEF TypeInv, Shape, Tasks, HandsLeased, PosterNamed, Held
  <2>3. /\ posters' \in {posters, posters \cup {n}} /\ shown' \in {shown, shown \cup {n}}
        /\ thumbnail' \in {thumbnail, n}
        /\ UNCHANGED <<drawn, ladder, key, main, caption, index, chapters, edit, wants,
                       crossed>>
    BY <1>2, <2>2 DEF UploadFrame, SetThumbnail
  <2>4. /\ posters' \subseteq 1..drawn /\ shown' \subseteq 1..drawn
        /\ thumbnail' \in 0..drawn
    BY <2>3 DEF TypeInv, Contents
  <2> QED BY <2>3, <2>4 DEF TypeInv, Contents
<1> QED BY <1>1, <1>2 DEF PosterFrame

LEMMA CaptionContents ==
  ASSUME TypeInv, NEW j \in Jobs, AutoCaption(j)
  PROVE  Contents'
<1>1. hand[j].got \in 0..drawn
  BY DEF TypeInv, Shape, Hands, Held
<1>2. CASE Transcribe(j)
  BY <1>2, ContentsRest DEF TypeInv, Transcribe
<1>3. CASE StoreVTT(j) \/ AddCaption(j)
  BY <1>1, <1>3 DEF TypeInv, Contents, StoreVTT, AddCaption
<1>4. CASE UNCHANGED contentVars
  BY <1>4, ContentsRest DEF TypeInv, contentVars
<1> QED BY <1>2, <1>3, <1>4 DEF AutoCaption, Chain, Chained

LEMMA FromCaptionsContents ==
  ASSUME TypeInv, NEW j \in Jobs, FromCaptions(j)
  PROVE  Contents'
<1>1. hand[j].got \in 0..drawn
  BY DEF TypeInv, Shape, Hands, Held
<1>2. CASE FindTrack(j) \/ ReadTrack(j) \/ ClearFails(j)
  BY <1>2, ContentsRest DEF TypeInv, FindTrack, ReadTrack, ClearFails, contentVars
<1>3. CASE ReplaceSearchChunks(j) \/ StoreChapters(j)
  BY <1>1, <1>3 DEF TypeInv, Contents, ReplaceSearchChunks, StoreChapters
<1>4. CASE GenerateChapters(j) /\ drawn' = drawn /\ UNCHANGED <<chapters, crossed>>
  BY <1>4, ContentsRest DEF TypeInv, GenerateChapters
<1>5. CASE GenerateChapters(j) /\ drawn' = Fresh /\ WriteChapters(Fresh)
  <2>1. /\ drawn' \in Nat /\ 0..drawn \subseteq 0..drawn' /\ 1..drawn \subseteq 1..drawn'
        /\ drawn' \in 0..drawn'
    BY <1>5 DEF TypeInv, Contents, Fresh
  <2>2. chapters' \in [row : 0..drawn', file : 0..drawn']
    BY <1>5, <2>1 DEF TypeInv, Contents, WriteChapters
  <2>3. crossed' \subseteq {"poster", "chapters", "index"}
    BY <1>5 DEF TypeInv, Contents, WriteChapters
  <2>4. UNCHANGED <<ladder, key, thumbnail, posters, main, caption, index, edit, wants,
                    shown>>
    BY <1>5 DEF GenerateChapters
  <2>5. ladder' \in [playlist : 0..drawn', segments : 0..drawn']
    BY <2>1, <2>4 DEF TypeInv, Contents
  <2>6. caption' \in [row : BOOLEAN, vtt : 0..drawn']
    BY <2>1, <2>4 DEF TypeInv, Contents
  <2>7. \A r \in Askers : edit'[r].new <= drawn' /\ edit'[r].old <= drawn'
    BY <1>5, <2>4 DEF TypeInv, Contents, Fresh, Edits
  <2> QED BY <2>1, <2>2, <2>3, <2>4, <2>5, <2>6, <2>7 DEF TypeInv, Contents
<1> QED
  BY <1>2, <1>3, <1>4, <1>5 DEF FromCaptions, GenerateChapters

LEMMA BodyContents ==
  ASSUME TypeInv, NEW j \in Jobs, BodyStep(j)
  PROVE  Contents'
<1>1. CASE BodyFails(j)
  BY <1>1, ContentsRest DEF TypeInv, BodyFails, LeftHalf
<1> QED
  BY <1>1, EncryptContents, PosterContents, CaptionContents, FromCaptionsContents
     DEF BodyStep, Work

LEMMA EditMoves ==
  ASSUME TypeInv, NEW r \in Askers, Edit(r)
  PROVE  /\ drawn' \in {drawn, Fresh} /\ edit' \in [Askers -> Edits]
         /\ \A q \in Askers : q # r => edit'[q] = edit[q]
         /\ edit'[r].new <= drawn' /\ edit'[r].old <= drawn'
         /\ edit'[r].at = "thumbnail" => edit'[r].new # 0
         /\ UNCHANGED <<op, task, hand, enq, slips, ladder, key, main, index, wants>>
         /\ asks' = asks \/ (asks < MaxAsks /\ asks' = asks + 1)
         /\ faults' = faults \/ Fault
<1>1. /\ edit \in [Askers -> Edits] /\ Shape /\ thumbnail \in Nat /\ thumbnail <= drawn
      /\ drawn \in Nat /\ Fresh \in Nat /\ Fresh = drawn + 1
      /\ edit[r].new \in 0..drawn /\ edit[r].old \in 0..drawn
  BY DEF TypeInv, Contents, Fresh, Edits
<1>2. ASSUME NEW wish, NEW at \in EditSteps, NEW new \in {0, Fresh},
             StartsEdit(r, wish, at, new), at = "thumbnail" => new # 0,
             faults' = faults \/ Fault
      PROVE  /\ drawn' \in {drawn, Fresh} /\ edit' \in [Askers -> Edits]
             /\ \A q \in Askers : q # r => edit'[q] = edit[q]
             /\ edit'[r].new <= drawn' /\ edit'[r].old <= drawn'
             /\ edit'[r].at = "thumbnail" => edit'[r].new # 0
             /\ UNCHANGED <<op, task, hand, enq, slips, ladder, key, main, index,
                            wants>>
             /\ asks' = asks \/ (asks < MaxAsks /\ asks' = asks + 1)
             /\ faults' = faults \/ Fault
  <2>1. new \in Nat
    BY <1>1
  <2>2. /\ edit' \in [Askers -> Edits]
        /\ \A q \in Askers : q # r => edit'[q] = edit[q]
        /\ edit'[r].at = at /\ edit'[r].new = new /\ edit'[r].old = thumbnail
    BY <1>1, <1>2, <2>1, EditForms
  <2>3. drawn' = Fresh
    BY <1>2 DEF StartsEdit
  <2> QED BY <1>1, <1>2, <2>2, <2>3 DEF StartsEdit
<1>3. ASSUME NEW at \in EditSteps, NEW next \in EditSteps \ {"thumbnail"},
             GoesOn(r, at, next)
      PROVE  /\ drawn' \in {drawn, Fresh} /\ edit' \in [Askers -> Edits]
             /\ \A q \in Askers : q # r => edit'[q] = edit[q]
             /\ edit'[r].new <= drawn' /\ edit'[r].old <= drawn'
             /\ edit'[r].at = "thumbnail" => edit'[r].new # 0
             /\ UNCHANGED <<op, task, hand, enq, slips, ladder, key, main, index,
                            wants>>
             /\ asks' = asks \/ (asks < MaxAsks /\ asks' = asks + 1)
             /\ faults' = faults \/ Fault
  <2>1. 0 \in Nat /\ next \in EditSteps
    OBVIOUS
  <2>2. /\ edit' \in [Askers -> Edits]
        /\ \A q \in Askers : q # r => edit'[q] = edit[q]
        /\ edit'[r].at = next
        /\ edit'[r].new \in {0, edit[r].new} /\ edit'[r].old \in {0, edit[r].old}
    BY <1>1, <1>3, <2>1, EditForms
  <2>3. /\ drawn' = drawn
        /\ UNCHANGED <<op, task, hand, enq, asks, faults, slips, ladder, key, main,
                       index, wants>>
    BY <1>3 DEF GoesOn, queueVars
  <2> QED BY <1>1, <2>2, <2>3
<1>4. Fresh \in {0, Fresh} /\ 0 \in {0, Fresh} /\ Fresh # 0
  BY <1>1
<1>5. EditSteps = {"idle", "thumbnail", "remove", "chaptersFile", "captionRow", "captionFile"}
  BY DEF EditSteps
<1>6. CASE PutPoster(r)
  <2>1. StartsEdit(r, "upload", "thumbnail", Fresh) /\ faults' = faults
    BY <1>6 DEF PutPoster
  <2> QED BY <1>2, <1>4, <1>5, <2>1
<1>7. CASE ShowPoster(r)
  <2>1. GoesOn(r, "thumbnail", "remove")
    BY <1>7 DEF ShowPoster
  <2> QED BY <1>3, <1>5, <2>1
<1>8. CASE RemoveOldCustomPoster(r)
  <2>1. GoesOn(r, "remove", "idle")
    BY <1>8 DEF RemoveOldCustomPoster
  <2> QED BY <1>3, <1>5, <2>1
<1>9. CASE SetChapters(r)
  <2>1. PICK new \in {0, Fresh} : StartsEdit(r, "chapters", "chaptersFile", new)
    BY <1>9 DEF SetChapters
  <2>2. faults' = faults \/ Fault
    BY <1>9 DEF SetChapters
  <2> QED BY <1>2, <1>5, <2>1, <2>2
<1>10. CASE PutChapters(r)
  <2>1. GoesOn(r, "chaptersFile", "idle")
    BY <1>10 DEF PutChapters
  <2> QED BY <1>3, <1>5, <2>1
<1>11. CASE UploadCaption(r)
  <2>1. StartsEdit(r, "track", "captionRow", 0) /\ faults' = faults
    BY <1>11 DEF UploadCaption
  <2> QED BY <1>2, <1>4, <1>5, <2>1
<1>12. CASE RecordCaption(r)
  <2>1. GoesOn(r, "captionRow", "idle")
    BY <1>12 DEF RecordCaption
  <2> QED BY <1>3, <1>5, <2>1
<1>13. CASE DeleteCaption(r)
  <2>1. StartsEdit(r, "track", "captionFile", 0) /\ faults' = faults
    BY <1>13 DEF DeleteCaption
  <2> QED BY <1>2, <1>4, <1>5, <2>1
<1>14. CASE RemoveTrack(r)
  <2>1. GoesOn(r, "captionFile", "idle")
    BY <1>14 DEF RemoveTrack
  <2> QED BY <1>3, <1>5, <2>1
<1>15. CASE EditFails(r)
  <2>1. 0 \in Nat /\ "idle" \in EditSteps
    BY <1>5
  <2>2. /\ edit' \in [Askers -> Edits]
        /\ \A q \in Askers : q # r => edit'[q] = edit[q]
        /\ edit'[r].at = "idle" /\ edit'[r].new = 0 /\ edit'[r].old = 0
    BY <1>1, <1>15, <2>1, EditForms
  <2>3. /\ drawn' = drawn /\ Fault
        /\ UNCHANGED <<op, task, hand, enq, asks, slips, ladder, key, main, index,
                       wants>>
    BY <1>15 DEF EditFails
  <2> QED BY <1>1, <2>2, <2>3
<1> QED
  BY <1>6, <1>7, <1>8, <1>9, <1>10, <1>11, <1>12, <1>13, <1>14, <1>15 DEF Edit

LEMMA EditContents ==
  ASSUME TypeInv, NEW r \in Askers, Edit(r)
  PROVE  Contents'
<1>1. /\ drawn' \in {drawn, Fresh} /\ edit' \in [Askers -> Edits]
      /\ \A q \in Askers : q # r => edit'[q] = edit[q]
      /\ edit'[r].new <= drawn' /\ edit'[r].old <= drawn'
      /\ edit'[r].at = "thumbnail" => edit'[r].new # 0
      /\ UNCHANGED <<ladder, key, main, index, wants>>
  BY EditMoves
<1>2. /\ drawn' \in Nat /\ 0..drawn \subseteq 0..drawn' /\ 1..drawn \subseteq 1..drawn'
  BY <1>1 DEF TypeInv, Contents, Fresh
<1>3. PICK new \in 0..drawn, old \in 0..drawn : new = edit[r].new /\ old = edit[r].old
  BY DEF TypeInv, Contents, Edits
<1>4. \A q \in Askers : /\ edit'[q].new <= drawn' /\ edit'[q].old <= drawn'
                        /\ edit'[q].at = "thumbnail" => edit'[q].new # 0
  BY <1>1 DEF TypeInv, Contents, Edits, Fresh
<1>5. \/ posters' \in {posters, posters \ {old}}
      \/ posters' = posters \cup {Fresh} /\ drawn' = Fresh
  BY <1>3 DEF Edit, PutPoster, ShowPoster, RemoveOldCustomPoster, SetChapters,
     PutChapters, UploadCaption, RecordCaption, DeleteCaption, RemoveTrack, EditFails,
     StartsEdit, GoesOn
<1>6. posters' \subseteq 1..drawn'
  <2>1. posters \subseteq 1..drawn' /\ Fresh \in 1..Fresh
    BY <1>2 DEF TypeInv, Contents, Fresh
  <2> QED BY <1>5, <2>1
<1>7. CASE UNCHANGED <<thumbnail, shown>>
  <2>1. thumbnail' \in 0..drawn' /\ shown' \subseteq 1..drawn'
    BY <1>2, <1>7 DEF TypeInv, Contents
  <2>2. caption' \in [row : BOOLEAN, vtt : 0..drawn']
    <3>1. PICK n \in 0..drawn' : n = Fresh \/ n = 0
      BY <1>2
    <3>2. \/ caption' = caption
          \/ drawn' = Fresh /\ caption' = [caption EXCEPT !.vtt = Fresh]
          \/ caption' = [caption EXCEPT !.vtt = 0]
          \/ caption' = [caption EXCEPT !.row = TRUE]
          \/ caption' = [caption EXCEPT !.row = FALSE]
      BY Zenon DEF Edit, PutPoster, ShowPoster, RemoveOldCustomPoster, SetChapters,
         PutChapters, UploadCaption, RecordCaption, DeleteCaption, RemoveTrack, EditFails,
         StartsEdit
    <3>3. drawn' = Fresh => Fresh \in 0..drawn'
      BY <1>2
    <3>4. caption \in [row : BOOLEAN, vtt : 0..drawn'] /\ 0 \in 0..drawn'
      BY <1>2 DEF TypeInv, Contents
    <3> QED BY <3>2, <3>3, <3>4
  <2>3. chapters' \in [row : 0..drawn', file : 0..drawn']
    <3>1. \/ chapters' = chapters
          \/ /\ drawn' = Fresh
             /\ chapters' = [chapters EXCEPT !.row = 0] \/ chapters' = [chapters EXCEPT !.row = Fresh]
          \/ chapters' = [chapters EXCEPT !.file = new]
      BY <1>3 DEF Edit, PutPoster, ShowPoster, RemoveOldCustomPoster, SetChapters,
         PutChapters, UploadCaption, RecordCaption, DeleteCaption, RemoveTrack, EditFails,
         StartsEdit, WriteChapters
    <3>2. /\ chapters \in [row : 0..drawn', file : 0..drawn'] /\ 0 \in 0..drawn'
          /\ new \in 0..drawn' /\ (drawn' = Fresh => Fresh \in 0..drawn')
      BY <1>2 DEF TypeInv, Contents
    <3> QED BY <3>1, <3>2
  <2>4. crossed' \subseteq {"poster", "chapters", "index"}
    BY DEF TypeInv, Contents, Edit, PutPoster, ShowPoster, RemoveOldCustomPoster,
       SetChapters, PutChapters, UploadCaption, RecordCaption, DeleteCaption, RemoveTrack,
       EditFails, WriteChapters
  <2>5. /\ ladder' \in [playlist : 0..drawn', segments : 0..drawn']
        /\ key' \in 0..drawn' /\ index' \in 0..drawn'
    BY <1>1, <1>2 DEF TypeInv, Contents
  <2> QED BY <1>1, <1>2, <1>4, <1>6, <2>1, <2>2, <2>3, <2>4, <2>5 DEF TypeInv, Contents
<1>8. CASE ShowPoster(r)
  <2>1. new \in 1..drawn
    BY <1>3, <1>8 DEF ShowPoster, GoesOn, TypeInv, Contents
  <2>2. /\ thumbnail' = new /\ shown' = shown \cup {new} /\ drawn' = drawn
        /\ UNCHANGED <<posters, caption, chapters, crossed>>
    BY <1>3, <1>8 DEF ShowPoster, GoesOn
  <2>3. thumbnail' \in 0..drawn /\ shown' \subseteq 1..drawn
    BY <2>1, <2>2 DEF TypeInv, Contents
  <2> QED BY <1>1, <1>4, <2>2, <2>3 DEF TypeInv, Contents
<1> QED
  BY <1>7, <1>8 DEF Edit, PutPoster, RemoveOldCustomPoster, SetChapters, PutChapters,
     UploadCaption, RecordCaption, DeleteCaption, RemoveTrack, EditFails

LEMMA TranscodeContents ==
  ASSUME TypeInv, Transcode \/ UNCHANGED contentVars
  PROVE  Contents'
<1>1. CASE StartTranscode
  BY <1>1, JobsAssumption DEF TypeInv, Contents, StartTranscode
<1>2. CASE SetTranscoding
  BY <1>2 DEF TypeInv, Contents, SetTranscoding, Transcodes
<1>5. CASE UploadLadder
  <2>1. drawn \in Nat /\ 0 \in 0..drawn /\ ladder \in [playlist : 0..drawn, segments : 0..drawn]
    BY DEF TypeInv, Contents
  <2>2. ladder' \in [playlist : 0..drawn, segments : 0..drawn]
    BY <1>5, <2>1 DEF UploadLadder
  <2> QED BY <1>5, <2>2 DEF TypeInv, Contents, UploadLadder, Transcodes
<1>3. CASE SetFinished
  BY <1>3 DEF TypeInv, Contents, SetFinished, Transcodes
<1>4. CASE UNCHANGED contentVars
  BY <1>4, ContentsRest DEF TypeInv, contentVars
<1> QED BY <1>1, <1>2, <1>3, <1>4, <1>5 DEF Transcode

(* A step of the queue, of a body or of a request, as far as what is held.    *)
LEMMA HeldRest ==
  ASSUME TypeInv, TasksStay, EnqsStay, drawn' \in {drawn, Fresh},
         \A j \in Jobs : \/ hand'[j].got \in {hand[j].got, caption.vtt, 0}
                         \/ hand'[j].got = Fresh /\ drawn' = Fresh
  PROVE  Held' /\ PosterNamed'
<1>1. drawn \in Nat /\ caption.vtt \in 0..drawn /\ Fresh = drawn + 1
  BY DEF TypeInv, Contents, Fresh
<1>2. ASSUME NEW j \in Jobs
      PROVE  /\ hand'[j].got <= drawn'
             /\ task'[j].state # "none" => task'[j].arg <= drawn'
             /\ KindOf[j] = "poster" /\ task'[j].state # "none" => task'[j].arg # 0
  <2>1. hand[j].got \in 0..drawn /\ task[j].arg \in Nat
    BY <1>1 DEF TypeInv, Shape, Hands, Tasks, Held
  <2>2. hand'[j].got <= drawn'
    BY <1>1, <2>1
  <2> QED BY <1>1, <2>1, <2>2 DEF TypeInv, Held, PosterNamed, TasksStay
<1>3. ASSUME NEW a \in Enqueuers, enq'[a].at # "idle"
      PROVE  /\ enq'[a].arg <= drawn'
             /\ KindOf[enq'[a].job] = "poster" => enq'[a].arg # 0
  <2>1. enq[a].arg \in Nat
    BY DEF TypeInv, Shape, Enqs
  <2> QED BY <1>1, <1>3, <2>1 DEF TypeInv, Held, PosterNamed, EnqsStay
<1> QED BY <1>2, <1>3 DEF Held, PosterNamed

LEMMA EnqueueTyped ==
  ASSUME TypeInv, NEW a \in Enqueuers, EnqueueStep(a), Misses
  PROVE  TypeInv'
<1>1. /\ EnqsStay /\ HandsLeased' /\ Retries'
      /\ TasksStay \/ Submits(a)
      /\ hand' = hand /\ asks' = asks
  BY EnqueueEffect DEF TypeInv
<1>2. Shape'
  BY MissesStay, EnqueueShape DEF TypeInv, EnqueueStep
<1>3. enq[a] \in Enqs /\ enq[a].job \in Jobs /\ KindOf[enq[a].job] \in Kinds
  BY DEF TypeInv, Shape, Enqs, Kinds
<1>4. /\ slips' \subseteq slips \cup {KindOf[enq[a].job]}
      /\ faults' = faults \/ Fault
  BY DEF EnqueueStep, EnqueueIdempotent, Enqueue, Inspect, Delete, Again, RequestStops,
     GiveUp, Absorb, Submit
<1>5. QueueCounts'
  BY <1>1, <1>3, <1>4, QueueAssumption DEF TypeInv, QueueCounts, Fault
<1>6. Contents'
  BY MissesContents DEF TypeInv
<1>7. drawn' = drawn
  BY DEF Misses
<1>8. Held' /\ PosterNamed'
  <2>1. CASE TasksStay
    BY <1>1, <1>7, <2>1, HeldRest
  <2>2. CASE Submits(a)
    <3>1. PICK j \in Jobs : j = enq[a].job
      BY <1>3
    <3>2. /\ task' = [task EXCEPT ![j] = NewTask(enq[a].arg)]
          /\ enq[a].at # "idle" /\ enq'[a].at = "idle"
      BY <2>2, <3>1 DEF Submits, Submit
    <3>3. /\ task'[j].arg = enq[a].arg /\ \A i \in Jobs : i # j => task'[i] = task[i]
      BY <3>2 DEF TypeInv, Shape, NewTask
    <3>4. /\ enq[a].arg <= drawn /\ (KindOf[j] = "poster" => enq[a].arg # 0)
      BY <3>1, <3>2 DEF TypeInv, Held, PosterNamed
    <3>5. \A i \in Jobs : /\ hand'[i].got <= drawn'
                          /\ task'[i].state # "none" => task'[i].arg <= drawn'
                          /\ KindOf[i] = "poster" /\ task'[i].state # "none" => task'[i].arg # 0
      BY <1>1, <1>7, <3>3, <3>4 DEF TypeInv, Held, PosterNamed
    <3>6. \A b \in Enqueuers : enq'[b].at # "idle" =>
             /\ enq'[b].arg <= drawn'
             /\ KindOf[enq'[b].job] = "poster" => enq'[b].arg # 0
      BY <1>1, <1>7 DEF TypeInv, Held, PosterNamed, EnqsStay
    <3> QED BY <3>5, <3>6 DEF Held, PosterNamed
  <2> QED BY <1>1, <2>1, <2>2
<1> QED BY <1>1, <1>2, <1>5, <1>6, <1>8 DEF TypeInv

LEMMA SetQueuedTyped ==
  ASSUME TypeInv, NEW r \in Askers, SetQueued(r), Misses
  PROVE  TypeInv'
<1>1. /\ Shape' /\ EnqsStay
      /\ UNCHANGED <<task, hand, asks, slips>>
      /\ faults' = faults \/ Fault
  BY SetQueuedEffect DEF TypeInv
<1>2. TasksStay /\ HandsLeased' /\ Retries'
  BY <1>1 DEF TypeInv, TasksStay, HandsLeased, Retries
<1>3. QueueCounts'
  BY <1>1, QueueAssumption DEF TypeInv, QueueCounts, Fault
<1>4. Held' /\ PosterNamed'
  BY <1>1, <1>2, HeldRest DEF Misses
<1>5. Contents'
  BY MissesContents DEF TypeInv
<1> QED BY <1>1, <1>2, <1>3, <1>4, <1>5 DEF TypeInv

LEMMA AttemptTyped ==
  ASSUME TypeInv, NEW j \in Jobs, AttemptOn(j)
  PROVE  TypeInv'
<1>1. /\ Shape' /\ TasksStay /\ EnqsStay /\ HandsLeased' /\ Retries'
  BY AttemptShape, AttemptEffect DEF TypeInv
<1>2. KindOf[j] \in Kinds /\ enq[j] \in Enqs /\ KindOf[enq[j].job] \in Kinds
  BY DEF TypeInv, Shape, Kinds, Enqs, Enqueuers
<1>3. /\ slips' \subseteq slips \cup {KindOf[j], KindOf[enq[j].job]}
      /\ asks' = asks
      /\ faults' = faults \/ Fault
  BY DEF AttemptOn, Begin, Finish, Return, LeaseExpires, Stops, WorkerStops
<1>4. QueueCounts'
  BY <1>2, <1>3, QueueAssumption DEF TypeInv, QueueCounts, Fault
<1>5. \A i \in Jobs : hand'[i].got \in {hand[i].got, 0}
  <2>1. \A i \in Jobs : i # j => hand'[i] = hand[i]
    BY DEF TypeInv, Shape, AttemptOn, Begin, Finish, Return, LeaseExpires, Stops,
       WorkerStops, Step
  <2>2. hand'[j].got \in {hand[j].got, 0}
    <3>1. CASE Finish(j)
      <4>1. Step(j, "ack") /\ "ack" \in HandSteps /\ 0 \in Nat
        BY <3>1 DEF Finish, HandSteps
      <4> QED BY <4>1, HandForms DEF TypeInv
    <3>2. CASE ~Finish(j)
      BY <3>2 DEF TypeInv, Shape, AttemptOn, Begin, Return, LeaseExpires, Stops,
         WorkerStops, IdleHand
    <3> QED BY <3>1, <3>2
  <2> QED BY <2>1, <2>2
<1>6. drawn' = drawn
  BY DEF AttemptOn, Stops, Misses
<1>7. Held' /\ PosterNamed'
  BY <1>1, <1>5, <1>6, HeldRest
<1>8. Contents'
  <2>1. CASE Misses
    BY <2>1, MissesContents DEF TypeInv
  <2>2. CASE Stops(j)
    BY <2>2, ContentsRest DEF TypeInv, Stops, LeftHalf
  <2> QED BY <2>1, <2>2 DEF AttemptOn
<1> QED BY <1>1, <1>4, <1>7, <1>8 DEF TypeInv

LEMMA AsideShape ==
  ASSUME Shape, Aside
  PROVE  Shape'
  BY DEF Shape, Aside, Enqueuers

LEMMA BodyTyped ==
  ASSUME TypeInv, NEW j \in Jobs, BodyStep(j)
  PROVE  TypeInv'
<1>1. MovesOn(j) /\ (enq' = enq \/ Chains(j))
  BY BodyMoves DEF TypeInv
<1>2. Shape'
  BY EncryptAside, PosterAside, CaptionAside, FromCaptionsAside, FailureAside, AsideShape
     DEF TypeInv, BodyStep, Work
<1>3. HandsLeased' /\ Retries' /\ TasksStay
  BY <1>1 DEF TypeInv, MovesOn, HandsLeased, Retries, TasksStay
<1>4. QueueCounts'
  BY <1>1, QueueAssumption DEF TypeInv, QueueCounts, MovesOn, Fault
<1>5. /\ drawn' \in {drawn, Fresh}
      /\ \A i \in Jobs : \/ hand'[i].got \in {hand[i].got, caption.vtt, 0}
                         \/ hand'[i].got = Fresh /\ drawn' = Fresh
  BY <1>1 DEF MovesOn
<1>6. Held' /\ PosterNamed'
  <2>1. CASE enq' = enq
    <3>1. EnqsStay
      BY <2>1 DEF EnqsStay
    <3> QED BY <1>3, <1>5, <3>1, HeldRest
  <2>2. CASE Chains(j)
    <3>1. PICK i \in {IndexJob, ContentJob} :
            enq' = [enq EXCEPT ![j] = [at |-> "enqueue", job |-> i, arg |-> 0]]
      BY <2>2 DEF Chains
    <3>2. /\ enq'[j].job = i /\ enq'[j].arg = 0 /\ KindOf[i] # "poster"
          /\ \A b \in Enqueuers : b # j => enq'[b] = enq[b]
      BY <3>1, JobsAssumption DEF TypeInv, Shape, Enqueuers
    <3>3. drawn \in Nat /\ caption.vtt \in 0..drawn /\ Fresh = drawn + 1
      BY DEF TypeInv, Contents, Fresh
    <3>4. ASSUME NEW k \in Jobs
          PROVE  /\ hand'[k].got <= drawn'
                 /\ task'[k].state # "none" => task'[k].arg <= drawn'
                 /\ KindOf[k] = "poster" /\ task'[k].state # "none" => task'[k].arg # 0
      <4>1. hand[k].got \in 0..drawn /\ task[k].arg \in Nat /\ task' = task
        BY <1>1, <3>3 DEF TypeInv, Shape, Hands, Tasks, Held, MovesOn
      <4>2. hand'[k].got <= drawn'
        BY <1>5, <3>3, <4>1
      <4> QED BY <1>5, <3>3, <4>1, <4>2 DEF TypeInv, Held, PosterNamed
    <3>5. ASSUME NEW b \in Enqueuers, enq'[b].at # "idle"
          PROVE  /\ enq'[b].arg <= drawn'
                 /\ KindOf[enq'[b].job] = "poster" => enq'[b].arg # 0
      <4>1. CASE b = j
        BY <1>5, <3>2, <3>3, <4>1
      <4>2. CASE b # j
        <5>1. enq'[b] = enq[b] /\ enq[b].arg \in Nat
          BY <3>2, <4>2 DEF TypeInv, Shape, Enqs
        <5> QED BY <1>5, <3>3, <3>5, <5>1 DEF TypeInv, Held, PosterNamed
      <4> QED BY <4>1, <4>2
    <3> QED BY <3>4, <3>5 DEF Held, PosterNamed
  <2> QED BY <1>1, <2>1, <2>2
<1>7. Contents'
  BY BodyContents
<1> QED BY <1>2, <1>3, <1>4, <1>6, <1>7 DEF TypeInv

LEMMA AskTyped ==
  ASSUME TypeInv, NEW r \in Askers, AskForJob(r)
  PROVE  TypeInv'
<1>1. PICK j \in Jobs, arg \in {0, Fresh} :
        /\ enq' = [enq EXCEPT ![r] = [at |-> "row", job |-> j, arg |-> arg]]
        /\ asks < MaxAsks /\ asks' = asks + 1
        /\ KindOf[j] = "poster" <=> arg = Fresh
        /\ drawn' = IF arg = 0 THEN drawn ELSE Fresh
        /\ UNCHANGED <<op, task, hand, faults, slips, ladder, key, thumbnail,
                       posters, main, caption, index, chapters, edit, wants, shown, crossed>>
  BY AskMoves DEF TypeInv
<1>2. Shape'
  BY AskAside, AsideShape DEF TypeInv
<1>3. HandsLeased' /\ Retries'
  BY <1>1 DEF TypeInv, HandsLeased, Retries
<1>4. QueueCounts'
  BY <1>1, QueueAssumption DEF TypeInv, QueueCounts
<1>5. drawn \in Nat /\ Fresh = drawn + 1 /\ drawn' \in {drawn, Fresh} /\ arg \in 0..drawn'
  BY <1>1 DEF TypeInv, Contents, Fresh
<1>6. Held' /\ PosterNamed'
  <2>1. /\ enq'[r].job = j /\ enq'[r].arg = arg
        /\ \A b \in Enqueuers : b # r => enq'[b] = enq[b]
    BY <1>1 DEF TypeInv, Shape, Enqueuers
  <2>2. ASSUME NEW k \in Jobs
        PROVE  /\ hand'[k].got <= drawn'
               /\ task'[k].state # "none" => task'[k].arg <= drawn'
               /\ KindOf[k] = "poster" /\ task'[k].state # "none" => task'[k].arg # 0
    <3>1. hand[k].got \in Nat /\ task[k].arg \in Nat
      BY DEF TypeInv, Shape, Hands, Tasks
    <3> QED BY <1>1, <1>5, <3>1 DEF TypeInv, Held, PosterNamed
  <2>3. ASSUME NEW b \in Enqueuers, enq'[b].at # "idle"
        PROVE  /\ enq'[b].arg <= drawn'
               /\ KindOf[enq'[b].job] = "poster" => enq'[b].arg # 0
    <3>1. CASE b = r
      BY <1>1, <1>5, <2>1, <3>1
    <3>2. CASE b # r
      <4>1. enq'[b] = enq[b] /\ enq[b].arg \in Nat
        BY <2>1, <3>2 DEF TypeInv, Shape, Enqs
      <4> QED BY <1>5, <2>3, <4>1 DEF TypeInv, Held, PosterNamed
    <3> QED BY <3>1, <3>2
  <2> QED BY <2>2, <2>3 DEF Held, PosterNamed
<1>7. Contents'
  BY <1>1, <1>5, ContentsRest DEF TypeInv
<1> QED BY <1>2, <1>3, <1>4, <1>6, <1>7 DEF TypeInv

LEMMA EditTyped ==
  ASSUME TypeInv, NEW r \in Askers, Edit(r)
  PROVE  TypeInv'
<1>1. /\ drawn' \in {drawn, Fresh}
      /\ UNCHANGED <<op, task, hand, enq, slips>>
      /\ asks' = asks \/ (asks < MaxAsks /\ asks' = asks + 1)
      /\ faults' = faults \/ Fault
  BY EditMoves
<1>2. Shape'
  BY EditAside, AsideShape DEF TypeInv
<1>3. HandsLeased' /\ Retries' /\ TasksStay /\ EnqsStay
  BY <1>1 DEF TypeInv, HandsLeased, Retries, TasksStay, EnqsStay
<1>4. QueueCounts'
  BY <1>1, QueueAssumption DEF TypeInv, QueueCounts, Fault
<1>5. Held' /\ PosterNamed'
  BY <1>1, <1>3, HeldRest
<1> QED BY <1>2, <1>3, <1>4, <1>5, EditContents DEF TypeInv

LEMMA OutsideTyped ==
  ASSUME TypeInv, Transcode \/ UNCHANGED vars
  PROVE  TypeInv'
<1>1. UNCHANGED <<op, task, hand, enq, asks, faults, slips, drawn>>
  BY DEF Transcode, StartTranscode, SetTranscoding, UploadLadder, SetFinished, Transcodes, queueVars, vars,
     contentVars
<1>2. Shape'
  BY TranscodeAside, AsideShape DEF TypeInv
<1>3. HandsLeased' /\ Retries' /\ TasksStay /\ EnqsStay /\ QueueCounts'
  BY <1>1 DEF TypeInv, HandsLeased, Retries, TasksStay, EnqsStay, QueueCounts
<1>4. Held' /\ PosterNamed'
  BY <1>1, <1>3, HeldRest
<1>5. Contents'
  BY TranscodeContents DEF vars
<1> QED BY <1>2, <1>3, <1>4, <1>5 DEF TypeInv

(* What a step of the video's jobs can be. *)
LEMMA Steps ==
  ASSUME [Next]_vars
  PROVE  \/ \E a \in Enqueuers : EnqueueStep(a) /\ Misses
         \/ \E r \in Askers : SetQueued(r) /\ Misses
         \/ \E j \in Jobs : AttemptOn(j)
         \/ \E j \in Jobs : BodyStep(j)
         \/ \E r \in Askers : AskForJob(r)
         \/ \E r \in Askers : Edit(r)
         \/ Transcode \/ UNCHANGED vars
  BY DEF Next, Queue, QueueStep, EnqueueStep, AttemptOn, BodyStep, Enqueuers

LEMMA InitTypes == Init => TypeInv
<1> SUFFICES ASSUME Init PROVE TypeInv
  OBVIOUS
<1>1. Shape
  BY InitQueue DEF QueueInv
<1>2. /\ \A j \in Jobs : /\ hand[j].at = "idle" /\ hand[j].got = 0
                         /\ task[j].state = "none" /\ task[j].retried = 0
      /\ \A a \in Enqueuers : enq[a].at = "idle"
      /\ asks = 0 /\ faults = 0 /\ slips = {} /\ drawn = 0
  BY DEF Init, QueueInit, IdleHand, NoTask, IdleEnq, Enqueuers
<1>3. HandsLeased /\ Retries /\ QueueCounts
  BY <1>2, QueueAssumption DEF HandsLeased, Retries, QueueCounts
<1>4. Held /\ PosterNamed
  BY <1>2 DEF Held, PosterNamed
<1>5. NoEdit \in Edits /\ NoEdit.new = 0 /\ NoEdit.old = 0 /\ NoEdit.at = "idle"
  BY DEF NoEdit, Edits, EditSteps
<1>6. Contents
  BY <1>5, JobsAssumption DEF Init, Contents
<1> QED BY <1>1, <1>3, <1>4, <1>6 DEF TypeInv

LEMMA TypesKept == TypeInv /\ [Next]_vars => TypeInv'
  BY Steps, EnqueueTyped, SetQueuedTyped, AttemptTyped, BodyTyped, AskTyped, EditTyped,
     OutsideTyped

(* Rows, tasks, handlers and enqueues, the ladder, posters, captions, chapters *)
(* and edits have their types, no task is tried more often than its retries    *)
(* allow, and every number in use is one that was drawn.                      *)
THEOREM JobsTyped == Spec => []TypeOK
<1>1. TypeInv => TypeOK
  <2> SUFFICES ASSUME TypeInv PROVE TypeOK
    OBVIOUS
  <2>1. QueueTypeOK
    BY DEF TypeInv, Shape, Tasks, Hands, Enqs, Retries, QueueCounts, QueueTypeOK, Enqueuers
  <2> QED BY <2>1 DEF TypeInv, Contents, TypeOK
<1> QED BY <1>1, InitTypes, TypesKept, PTL DEF Spec
-----------------------------------------------------------------------------
(* The chapters: one writer at a time holds what the row says, or the two are  *)
(* known to have crossed.                                                    *)

InFile(j) == hand[j].at = "file"
InEdit(r) == edit[r].at = "chaptersFile"

OneWriter ==
  /\ \A i, j \in Jobs : InFile(i) /\ InFile(j) => i = j
  /\ \A q, r \in Askers : InEdit(q) /\ InEdit(r) => q = r
  /\ \A j \in Jobs, r \in Askers : ~(InFile(j) /\ InEdit(r))

ChaptersInv ==
  "chapters" \notin crossed =>
    /\ OneWriter
    /\ \A j \in Jobs : InFile(j) => hand[j].got = chapters.row
    /\ \A r \in Askers : InEdit(r) => edit[r].new = chapters.row
    /\ ~ChaptersOpen => chapters.row = chapters.file

(* A step that neither writes chapters nor begins to.                         *)
LEMMA ChaptersRest ==
  ASSUME ChaptersInv, chapters' = chapters,
         "chapters" \in crossed => "chapters" \in crossed',
         \A j \in Jobs : /\ InFile(j)' <=> InFile(j)
                         /\ InFile(j) => hand'[j].got = hand[j].got,
         \A r \in Askers : /\ InEdit(r)' <=> InEdit(r)
                           /\ InEdit(r) => edit'[r].new = edit[r].new
  PROVE  ChaptersInv'
<1> SUFFICES ASSUME "chapters" \notin crossed'
             PROVE  /\ OneWriter'
                    /\ \A j \in Jobs : InFile(j)' => hand'[j].got = chapters'.row
                    /\ \A r \in Askers : InEdit(r)' => edit'[r].new = chapters'.row
                    /\ ~ChaptersOpen' => chapters'.row = chapters'.file
  BY DEF ChaptersInv
<1>1. ChaptersOpen' <=> ChaptersOpen
  BY DEF ChaptersOpen, InFile, InEdit
<1> QED BY <1>1 DEF ChaptersInv, OneWriter

(* A writer that opens the chapters when they are closed.                     *)
LEMMA ChaptersOpened ==
  ASSUME TypeInv, ChaptersInv, NEW n \in Nat, WriteChapters(n),
         \/ /\ edit' = edit
            /\ \E j \in Jobs : /\ InFile(j)' /\ hand'[j].got = n
                               /\ \A i \in Jobs : i # j => hand'[i] = hand[i]
         \/ /\ hand' = hand
            /\ \E r \in Askers : /\ InEdit(r)' /\ edit'[r].new = n
                                 /\ \A q \in Askers : q # r => edit'[q] = edit[q]
  PROVE  ChaptersInv'
<1> SUFFICES ASSUME "chapters" \notin crossed'
             PROVE  /\ OneWriter'
                    /\ \A j \in Jobs : InFile(j)' => hand'[j].got = chapters'.row
                    /\ \A r \in Askers : InEdit(r)' => edit'[r].new = chapters'.row
                    /\ ChaptersOpen'
  BY DEF ChaptersInv
<1>1. ~ChaptersOpen
  BY DEF WriteChapters
<1>2. /\ \A j \in Jobs : ~InFile(j)
      /\ \A r \in Askers : ~InEdit(r)
  BY <1>1 DEF ChaptersOpen, InFile, InEdit
<1>3. chapters'.row = n
  BY DEF WriteChapters, TypeInv, Contents
<1>4. ASSUME NEW j \in Jobs, edit' = edit, InFile(j)', hand'[j].got = n,
             \A i \in Jobs : i # j => hand'[i] = hand[i]
      PROVE  /\ OneWriter'
             /\ \A i \in Jobs : InFile(i)' => hand'[i].got = chapters'.row
             /\ \A r \in Askers : InEdit(r)' => edit'[r].new = chapters'.row
             /\ ChaptersOpen'
  BY <1>2, <1>3, <1>4 DEF OneWriter, InFile, InEdit, ChaptersOpen
<1>5. ASSUME NEW r \in Askers, hand' = hand, InEdit(r)', edit'[r].new = n,
             \A q \in Askers : q # r => edit'[q] = edit[q]
      PROVE  /\ OneWriter'
             /\ \A i \in Jobs : InFile(i)' => hand'[i].got = chapters'.row
             /\ \A q \in Askers : InEdit(q)' => edit'[q].new = chapters'.row
             /\ ChaptersOpen'
  BY <1>2, <1>3, <1>5 DEF OneWriter, InFile, InEdit, ChaptersOpen
<1> QED BY <1>4, <1>5

(* A writer that puts the file and goes.                                     *)
LEMMA ChaptersClosed ==
  ASSUME TypeInv, ChaptersInv, crossed' = crossed, NEW n \in Nat,
         chapters' = [chapters EXCEPT !.file = n],
         \/ /\ edit' = edit
            /\ \E j \in Jobs : /\ InFile(j) /\ hand[j].got = n /\ ~InFile(j)'
                               /\ \A i \in Jobs : i # j => hand'[i] = hand[i]
         \/ /\ hand' = hand
            /\ \E r \in Askers : /\ InEdit(r) /\ edit[r].new = n /\ ~InEdit(r)'
                                 /\ \A q \in Askers : q # r => edit'[q] = edit[q]
  PROVE  ChaptersInv'
<1> SUFFICES ASSUME "chapters" \notin crossed
             PROVE  /\ OneWriter'
                    /\ \A j \in Jobs : InFile(j)' => hand'[j].got = chapters'.row
                    /\ \A r \in Askers : InEdit(r)' => edit'[r].new = chapters'.row
                    /\ chapters'.row = chapters'.file
  BY DEF ChaptersInv
<1>1. chapters'.row = chapters.row /\ chapters'.file = n
  BY DEF TypeInv, Contents
<1>2. /\ OneWriter
      /\ \A j \in Jobs : InFile(j) => hand[j].got = chapters.row
      /\ \A r \in Askers : InEdit(r) => edit[r].new = chapters.row
  BY DEF ChaptersInv
<1>3. ASSUME NEW j \in Jobs, edit' = edit, InFile(j), hand[j].got = n, ~InFile(j)',
             \A i \in Jobs : i # j => hand'[i] = hand[i]
      PROVE  /\ \A i \in Jobs : ~InFile(i)'
             /\ \A r \in Askers : ~InEdit(r)'
             /\ chapters.row = n
  BY <1>2, <1>3 DEF OneWriter, InFile, InEdit
<1>4. ASSUME NEW r \in Askers, hand' = hand, InEdit(r), edit[r].new = n, ~InEdit(r)',
             \A q \in Askers : q # r => edit'[q] = edit[q]
      PROVE  /\ \A i \in Jobs : ~InFile(i)'
             /\ \A q \in Askers : ~InEdit(q)'
             /\ chapters.row = n
  BY <1>2, <1>4 DEF OneWriter, InFile, InEdit
<1>5. /\ \A i \in Jobs : ~InFile(i)'
      /\ \A q \in Askers : ~InEdit(q)'
      /\ chapters.row = n
  BY <1>3, <1>4
<1> QED BY <1>1, <1>5 DEF OneWriter

LEMMA FromCaptionsChapters ==
  ASSUME TypeInv, ChaptersInv, NEW j \in Jobs, FromCaptions(j)
  PROVE  ChaptersInv'
<1>1. /\ \A i \in Jobs : i # j => hand'[i] = hand[i]
      /\ edit' = edit
  BY FromCaptionsMoves DEF TypeInv, MovesOn, FromCaptions, FindTrack, ReadTrack,
     ReplaceSearchChunks, ClearFails, GenerateChapters, StoreChapters, contentVars
<1>2. Shape /\ Fresh \in Nat /\ 0 \in Nat
      /\ {"read", "end", "file"} \subseteq HandSteps
  BY DEF TypeInv, Shape, Fresh, HandSteps
<1>3. ASSUME hand[j].at # "file", hand'[j].at # "file", chapters' = chapters,
             "chapters" \in crossed => "chapters" \in crossed'
      PROVE  ChaptersInv'
  BY <1>1, <1>3, ChaptersRest DEF InFile, InEdit
<1>4. CASE FindTrack(j)
  <2>1. Step(j, "read") \/ Skips(j)
    BY <1>4 DEF FindTrack
  <2>2. hand'[j].at \in {"read", "end"}
    BY <1>2, <2>1, HandForms
  <2> QED BY <1>3, <1>4, <2>2 DEF FindTrack, Body, contentVars
<1>5. CASE ReadTrack(j)
  <2>1. hand'[j].at \in {"replace", "generate", "end"}
    <3>1. CASE caption.vtt = 0
      BY <1>2, <1>5, <3>1, HandForms DEF ReadTrack
    <3>2. CASE caption.vtt # 0
      BY <1>2, <1>5, <3>2, ReadForms
    <3> QED BY <3>1, <3>2
  <2>2. hand[j].at = "read" /\ UNCHANGED contentVars
    BY <1>5 DEF ReadTrack, Body
  <2> QED BY <1>3, <2>1, <2>2 DEF contentVars
<1>6. CASE ReplaceSearchChunks(j) \/ ClearFails(j)
  <2>1. hand'[j].at = "end"
    BY <1>2, <1>6, HandForms DEF ReplaceSearchChunks, ClearFails, Goes
  <2> QED BY <1>3, <1>6, <2>1 DEF ReplaceSearchChunks, ClearFails, Body
<1>7. CASE GenerateChapters(j)
  <2>1. CASE Holds(j, "file", Fresh) /\ WriteChapters(Fresh)
    <3>1. hand'[j].at = "file" /\ hand'[j].got = Fresh
      BY <1>2, <2>1, HandForms
    <3> QED BY <1>1, <1>2, <2>1, <3>1, ChaptersOpened DEF InFile
  <2>2. CASE (Goes(j, "end") \/ Skips(j)) /\ UNCHANGED <<chapters, crossed>>
    <3>1. hand'[j].at = "end"
      BY <1>2, <2>2, HandForms DEF Goes
    <3> QED BY <1>3, <1>7, <2>2, <3>1 DEF GenerateChapters, Body
  <2> QED BY <1>7, <2>1, <2>2 DEF GenerateChapters
<1>8. CASE StoreChapters(j)
  <2>1. hand[j].at = "file" /\ hand'[j].at = "end"
    BY <1>2, <1>8, HandForms DEF StoreChapters, Goes, Body
  <2>2. hand[j].got \in Nat
    BY DEF TypeInv, Shape, Hands
  <2>3. /\ chapters' = [chapters EXCEPT !.file = hand[j].got] /\ crossed' = crossed
    BY <1>8 DEF StoreChapters
  <2> QED BY <1>1, <2>1, <2>2, <2>3, ChaptersClosed DEF InFile
<1> QED BY <1>4, <1>5, <1>6, <1>7, <1>8 DEF FromCaptions

LEMMA BodyChapters ==
  ASSUME TypeInv, ChaptersInv, NEW j \in Jobs, BodyStep(j)
  PROVE  ChaptersInv'
<1>1. /\ \A i \in Jobs : i # j => hand'[i] = hand[i]
  BY BodyMoves DEF TypeInv, MovesOn
<1>2. Shape /\ Fresh \in Nat /\ 0 \in Nat
  BY DEF TypeInv, Shape, Fresh, HandSteps
<1>3. CASE Encrypt(j) \/ PosterFrame(j) \/ AutoCaption(j)
  <2>1. hand[j].at # "file" /\ edit' = edit /\ chapters' = chapters
        /\ ("chapters" \in crossed => "chapters" \in crossed')
    BY <1>3 DEF Encrypt, BuildEncrypted, UploadPlaylists, UploadSegments, SaveContentKey,
       PosterFrame, GrabFrame, UploadFrame, SetThumbnail, AutoCaption, Transcribe,
       StoreVTT, AddCaption, Chain, Chained, Body, contentVars
  <2>2. hand'[j].at # "file"
    <3>1. \/ \E at \in HandSteps \ {"file"} : Step(j, at)
          \/ \E at \in HandSteps \ {"file"} : Holds(j, at, Fresh)
      <4>1. {"segments", "save", "end", "playlists", "upload", "thumbnail", "store",
             "record", "chainIndex", "chainContent", "chained"} \subseteq HandSteps \ {"file"}
        BY DEF HandSteps
      <4> QED
        BY <1>3, <4>1 DEF Encrypt, BuildEncrypted, UploadPlaylists, UploadSegments,
           SaveContentKey, PosterFrame, GrabFrame, UploadFrame, SetThumbnail, AutoCaption,
           Transcribe, StoreVTT, AddCaption, Chain, Chained, Goes
    <3> QED BY <1>2, <3>1, HandForms
  <2> QED BY <1>1, <2>1, <2>2, ChaptersRest DEF InFile, InEdit
<1>4. CASE BodyFails(j)
  <2>1. hand'[j].at = "end" /\ edit' = edit /\ chapters' = chapters
    <3>1. "end" \in HandSteps /\ Fails(j)
      BY <1>4 DEF HandSteps, BodyFails
    <3> QED BY <1>2, <1>4, <3>1, HandForms DEF BodyFails
  <2>2. CASE hand[j].at = "file"
    BY <1>4, <2>2 DEF BodyFails, LeftHalf, ChaptersInv
  <2>3. CASE hand[j].at # "file"
    <3>1. crossed \subseteq crossed'
      BY <1>4, <2>3 DEF BodyFails
    <3> QED BY <1>1, <2>1, <2>3, <3>1, ChaptersRest DEF InFile, InEdit
  <2> QED BY <2>2, <2>3
<1> QED BY <1>3, <1>4, FromCaptionsChapters DEF BodyStep, Work

(* The ends of an attempt, for its handler. *)
LEMMA AttemptHand ==
  ASSUME Shape, HandsLeased, NEW j \in Jobs, AttemptOn(j)
  PROVE  /\ \A i \in Jobs : i # j => hand'[i] = hand[i]
         /\ Begin(j) => /\ hand[j].at = "idle" /\ hand'[j].at = "begin"
                        /\ hand'[j].out = "done"
         /\ Finish(j) => /\ hand[j].at = "end" /\ hand'[j].at = "ack"
                         /\ hand'[j].out = hand[j].out
         /\ Return(j) => hand[j].at = "ack" /\ hand'[j].at = "idle"
         /\ LeaseExpires(j) => hand[j].at = "idle" /\ hand' = hand
         /\ Stops(j) => hand[j].at # "idle" /\ hand'[j].at = "idle"
<1>1. \A i \in Jobs : i # j => hand'[i] = hand[i]
  BY DEF Shape, AttemptOn, Begin, Finish, Return, LeaseExpires, Stops, WorkerStops, Step
<1>2. Begin(j) => /\ hand[j].at = "idle" /\ hand'[j].at = "begin"
                  /\ hand'[j].out = "done"
  BY DEF Shape, HandsLeased, Begin, IdleHand
<1>3. Finish(j) => /\ hand[j].at = "end" /\ hand'[j].at = "ack"
                   /\ hand'[j].out = hand[j].out
  <2>1. "ack" \in HandSteps /\ 0 \in Nat
    BY DEF HandSteps
  <2> QED BY <2>1, HandForms DEF Finish
<1>4. Return(j) => hand[j].at = "ack" /\ hand'[j].at = "idle"
  BY DEF Shape, Return, IdleHand
<1>5. LeaseExpires(j) => hand[j].at = "idle" /\ hand' = hand
  BY DEF LeaseExpires
<1>6. Stops(j) => hand[j].at # "idle" /\ hand'[j].at = "idle"
  BY DEF Shape, Stops, WorkerStops, IdleHand
<1> QED BY <1>1, <1>2, <1>3, <1>4, <1>5, <1>6

LEMMA AttemptChapters ==
  ASSUME TypeInv, ChaptersInv, NEW j \in Jobs, AttemptOn(j)
  PROVE  ChaptersInv'
<1>1. \A i \in Jobs : i # j => hand'[i] = hand[i]
  BY AttemptHand DEF TypeInv
<1>2. edit' = edit /\ chapters' = chapters
  BY DEF AttemptOn, Stops, Misses
<1>3. CASE Stops(j) /\ hand[j].at = "file"
  BY <1>3 DEF Stops, LeftHalf, ChaptersInv
<1>4. CASE ~(Stops(j) /\ hand[j].at = "file")
  <2>1. crossed \subseteq crossed'
    BY MissesStay DEF AttemptOn, Stops
  <2>2. InFile(j)' <=> InFile(j)
    BY <1>4, AttemptHand DEF TypeInv, AttemptOn, InFile
  <2>3. InFile(j) => hand'[j].got = hand[j].got
    BY <1>4, AttemptHand DEF TypeInv, AttemptOn, InFile
  <2> QED BY <1>1, <1>2, <2>1, <2>2, <2>3, ChaptersRest DEF InFile, InEdit
<1> QED BY <1>3, <1>4

LEMMA EditChapters ==
  ASSUME TypeInv, ChaptersInv, NEW r \in Askers, Edit(r)
  PROVE  ChaptersInv'
<1>1. /\ hand' = hand /\ \A q \in Askers : q # r => edit'[q] = edit[q]
  BY EditMoves
<1>2. /\ edit \in [Askers -> Edits] /\ Shape /\ thumbnail \in Nat /\ Fresh \in Nat
      /\ 0 \in Nat
      /\ EditSteps = {"idle", "thumbnail", "remove", "chaptersFile", "captionRow",
                      "captionFile"}
  BY DEF TypeInv, Contents, Fresh, EditSteps
<1>3. ASSUME ~InEdit(r), ~InEdit(r)', chapters' = chapters,
             "chapters" \in crossed => "chapters" \in crossed'
      PROVE  ChaptersInv'
  BY <1>1, <1>3, ChaptersRest DEF InFile, InEdit
<1>4. ASSUME NEW at \in EditSteps \ {"chaptersFile"}, NEW wish, NEW new \in {0, Fresh},
             StartsEdit(r, wish, at, new)
      PROVE  ~InEdit(r) /\ ~InEdit(r)'
  <2>1. new \in Nat /\ at \in EditSteps
    BY <1>2
  <2>2. edit[r].at = "idle" /\ edit'[r].at = at
    BY <1>2, <1>4, <2>1, EditForms
  <2> QED BY <2>2 DEF InEdit
<1>5. ASSUME NEW at \in EditSteps \ {"chaptersFile"}, NEW next \in EditSteps \ {"chaptersFile"},
             GoesOn(r, at, next)
      PROVE  ~InEdit(r) /\ ~InEdit(r)'
  <2>1. at \in EditSteps /\ next \in EditSteps
    OBVIOUS
  <2>2. edit[r].at = at /\ edit'[r].at = next
    BY <1>2, <1>5, <2>1, EditForms
  <2> QED BY <2>2 DEF InEdit
<1>6. CASE PutPoster(r)
  <2>1. StartsEdit(r, "upload", "thumbnail", Fresh) /\ UNCHANGED <<chapters, crossed>>
    BY <1>6 DEF PutPoster
  <2> QED BY <1>2, <1>3, <1>4, <2>1
<1>7. CASE ShowPoster(r)
  <2>1. GoesOn(r, "thumbnail", "remove") /\ UNCHANGED <<chapters, crossed>>
    BY <1>7 DEF ShowPoster
  <2> QED BY <1>2, <1>3, <1>5, <2>1
<1>8. CASE RemoveOldCustomPoster(r)
  <2>1. GoesOn(r, "remove", "idle") /\ UNCHANGED <<chapters, crossed>>
    BY <1>8 DEF RemoveOldCustomPoster
  <2> QED BY <1>2, <1>3, <1>5, <2>1
<1>9. CASE UploadCaption(r)
  <2>1. StartsEdit(r, "track", "captionRow", 0) /\ chapters' = chapters
        /\ crossed' = crossed \cup {"index"}
    BY <1>9 DEF UploadCaption
  <2> QED BY <1>2, <1>3, <1>4, <2>1
<1>10. CASE RecordCaption(r)
  <2>1. GoesOn(r, "captionRow", "idle") /\ chapters' = chapters /\ crossed' = crossed
    BY <1>10 DEF RecordCaption
  <2> QED BY <1>2, <1>3, <1>5, <2>1
<1>11. CASE DeleteCaption(r)
  <2>1. StartsEdit(r, "track", "captionFile", 0) /\ chapters' = chapters
        /\ crossed' = crossed
    BY <1>11 DEF DeleteCaption
  <2> QED BY <1>2, <1>3, <1>4, <2>1
<1>12. CASE RemoveTrack(r)
  <2>1. GoesOn(r, "captionFile", "idle") /\ chapters' = chapters
        /\ crossed' = crossed \cup {"index"}
    BY <1>12 DEF RemoveTrack
  <2> QED BY <1>2, <1>3, <1>5, <2>1
<1>13. CASE SetChapters(r)
  <2>1. PICK new \in {0, Fresh} :
          /\ StartsEdit(r, "chapters", "chaptersFile", new)
          /\ WriteChapters(new) \/ "chapters" \in crossed'
    BY <1>13 DEF SetChapters
  <2>2. new \in Nat
    BY <1>2
  <2>3. edit'[r].at = "chaptersFile" /\ edit'[r].new = new
    BY <1>2, <2>1, <2>2, EditForms
  <2>4. CASE WriteChapters(new)
    BY <1>1, <2>2, <2>3, <2>4, ChaptersOpened DEF InEdit
  <2>5. CASE "chapters" \in crossed'
    BY <2>5 DEF ChaptersInv
  <2> QED BY <2>1, <2>4, <2>5
<1>14. CASE PutChapters(r)
  <2>1. /\ GoesOn(r, "chaptersFile", "idle") /\ crossed' = crossed
        /\ chapters' = [chapters EXCEPT !.file = edit[r].new]
    BY <1>14 DEF PutChapters
  <2>2. edit[r].at = "chaptersFile" /\ edit'[r].at = "idle"
    BY <1>2, <2>1, EditForms
  <2>3. edit[r].new \in Nat
    BY <1>2 DEF Edits
  <2> QED BY <1>1, <2>1, <2>2, <2>3, ChaptersClosed DEF InEdit
<1>15. CASE EditFails(r)
  <2>1. edit'[r].at = "idle"
    BY <1>2, <1>15, EditForms
  <2>2. CASE InEdit(r)
    BY <1>15, <2>2 DEF EditFails, InEdit, ChaptersInv
  <2>3. CASE ~InEdit(r)
    BY <1>3, <1>15, <2>1, <2>3 DEF EditFails, InEdit
  <2> QED BY <2>2, <2>3
<1> QED
  BY <1>6, <1>7, <1>8, <1>9, <1>10, <1>11, <1>12, <1>13, <1>14, <1>15 DEF Edit

LEMMA ChaptersKept == TypeInv /\ ChaptersInv /\ [Next]_vars => ChaptersInv'
<1> SUFFICES ASSUME TypeInv, ChaptersInv, [Next]_vars
             PROVE  ChaptersInv'
  OBVIOUS
<1>1. CASE UNCHANGED <<hand, edit, chapters>> /\ crossed \subseteq crossed'
  BY <1>1, ChaptersRest DEF InFile, InEdit
<1>2. ASSUME NEW a \in Enqueuers, EnqueueStep(a), Misses
      PROVE  ChaptersInv'
  BY <1>1, <1>2, EnqueueEffect, MissesStay DEF TypeInv, ContentsStay
<1>3. ASSUME NEW r \in Askers, SetQueued(r), Misses
      PROVE  ChaptersInv'
  BY <1>1, <1>3, MissesStay DEF SetQueued, ContentsStay
<1>4. ASSUME NEW r \in Askers, AskForJob(r)
      PROVE  ChaptersInv'
  BY <1>1, <1>4, AskMoves DEF TypeInv
<1>5. CASE Transcode \/ UNCHANGED vars
  BY <1>1, <1>5 DEF Transcode, StartTranscode, SetTranscoding, UploadLadder, SetFinished, Transcodes,
     queueVars, contentVars, vars
<1> QED BY <1>2, <1>3, <1>4, <1>5, Steps, AttemptChapters, BodyChapters, EditChapters

(* The chapters of the row and of chapters.vtt are the same when nobody is     *)
(* between the two, unless two writers were there at once or a call failed     *)
(* (admin.go: adminSetChapters, worker/ai_content.go: handleGenerateAIContent): *)
(* a single writer holds what the row says, and puts that into the file.      *)
THEOREM ChaptersMatch == Spec => []ChaptersAgree
<1> DEFINE I == TypeInv /\ ChaptersInv
<1>1. I => ChaptersAgree
  BY DEF ChaptersInv, ChaptersAgree
<1>2. Init => I
  <2>1. Init => ChaptersInv
    BY DEF Init, QueueInit, IdleHand, NoEdit, ChaptersInv, OneWriter, InFile, InEdit
  <2> QED BY <2>1, InitTypes
<1>3. I /\ [Next]_vars => I'
  BY TypesKept, ChaptersKept
<1> QED BY <1>1, <1>2, <1>3, PTL DEF Spec
-----------------------------------------------------------------------------
(* The poster. A number drawn for a poster has one owner at a time, an enqueue, *)
(* then a task, or an edit; and whoever will remove an old poster knows one    *)
(* that was shown and is not shown now.                                       *)

Posted(j) == KindOf[j] = "poster" /\ task[j].state # "none"
Asking(a) == enq[a].at # "idle" /\ KindOf[enq[a].job] = "poster"
Putting(r) == edit[r].at = "thumbnail"
Removing(r) == edit[r].at = "remove"
Grabbed(j) == KindOf[j] = "poster" /\ hand[j].at \in {"upload", "thumbnail"}

Owned ==
  /\ \A i, j \in Jobs : Posted(i) /\ Posted(j) /\ i # j => task[i].arg # task[j].arg
  /\ \A a, b \in Enqueuers : Asking(a) /\ Asking(b) /\ a # b => enq[a].arg # enq[b].arg
  /\ \A q, r \in Askers : Putting(q) /\ Putting(r) /\ q # r => edit[q].new # edit[r].new
  /\ \A j \in Jobs, a \in Enqueuers : Posted(j) /\ Asking(a) => task[j].arg # enq[a].arg
  /\ \A j \in Jobs, r \in Askers : Posted(j) /\ Putting(r) => task[j].arg # edit[r].new
  /\ \A a \in Enqueuers, r \in Askers : Asking(a) /\ Putting(r) => enq[a].arg # edit[r].new
  /\ \A a \in Enqueuers : Asking(a) => enq[a].arg \notin shown
  /\ \A r \in Askers : Putting(r) => edit[r].new \notin shown

Remembered ==
  /\ thumbnail \in shown \cup {0}
  /\ \A r \in Askers : Putting(r) \/ Removing(r) => edit[r].old \in shown \cup {0}
  /\ \A r \in Askers : Putting(r) => edit[r].new \in posters

Uncrossed ==
  /\ thumbnail = 0 \/ thumbnail \in posters
  /\ \A r \in Askers : Removing(r) /\ edit[r].old = thumbnail => thumbnail = 0
  /\ \A j \in Jobs : Grabbed(j) => /\ task[j].arg \notin shown
                                   /\ hand[j].at = "thumbnail" => task[j].arg \in posters

PosterInv == Owned /\ Remembered /\ ("poster" \notin crossed => Uncrossed)

(* Steps that bring no new owner. *)
OwnersStay ==
  /\ \A j \in Jobs : Posted(j)' => Posted(j) /\ task'[j].arg = task[j].arg
  /\ \A a \in Enqueuers : Asking(a)' => Asking(a) /\ enq'[a].arg = enq[a].arg
  /\ \A r \in Askers : Putting(r)' => /\ Putting(r) /\ edit'[r].new = edit[r].new
                                      /\ edit'[r].old = edit[r].old

LEMMA OwnedRest ==
  ASSUME Owned, OwnersStay, NEW S, shown' = shown \cup S,
         \A a \in Enqueuers : Asking(a)' => enq[a].arg \notin S,
         \A r \in Askers : Putting(r)' => edit[r].new \notin S
  PROVE  Owned'
  BY DEF Owned, OwnersStay

LEMMA OwnedStays ==
  ASSUME Owned, OwnersStay, shown' = shown
  PROVE  Owned'
  BY DEF Owned, OwnersStay

(* Steps that no poster, and no one who is about to touch one, is part of.    *)
LEMMA PosterRest ==
  ASSUME TypeInv, TypeInv', PosterInv, OwnersStay, UNCHANGED <<posters, shown>>,
         thumbnail' = thumbnail \/ thumbnail' = 0,
         "poster" \in crossed => "poster" \in crossed',
         \A r \in Askers : Removing(r)' => Removing(r) /\ edit'[r].old = edit[r].old,
         \A j \in Jobs : Grabbed(j)' => /\ Grabbed(j)
                                        /\ hand'[j].at = "thumbnail" => hand[j].at = "thumbnail"
  PROVE  PosterInv'
<1>1. Owned'
  BY OwnedStays DEF PosterInv
<1>2. Remembered'
  BY DEF PosterInv, Remembered, OwnersStay
<1>3. ASSUME "poster" \notin crossed' PROVE Uncrossed'
  <2>1. Uncrossed
    BY <1>3 DEF PosterInv
  <2>2. ASSUME NEW j \in Jobs, Grabbed(j)'
        PROVE  /\ task'[j].arg \notin shown'
               /\ hand'[j].at = "thumbnail" => task'[j].arg \in posters'
    <3>1. Posted(j)'
      BY <2>2 DEF TypeInv, HandsLeased, Grabbed, Posted
    <3>2. task'[j].arg = task[j].arg
      BY <3>1 DEF OwnersStay
    <3>3. task[j].arg \notin shown /\ (hand[j].at = "thumbnail" => task[j].arg \in posters)
      BY <2>1, <2>2 DEF Uncrossed
    <3> QED BY <2>2, <3>2, <3>3
  <2> QED BY <2>1, <2>2 DEF Uncrossed
<1> QED BY <1>1, <1>2, <1>3 DEF PosterInv

LEMMA BodyOwners ==
  ASSUME TypeInv, NEW j \in Jobs, BodyStep(j)
  PROVE  OwnersStay /\ UNCHANGED <<task, edit>>
<1>1. MovesOn(j) /\ (enq' = enq \/ Chains(j))
  BY BodyMoves DEF TypeInv
<1>2. edit' = edit
  BY DEF BodyStep, Work, BodyFails, Encrypt, BuildEncrypted, UploadPlaylists,
     UploadSegments, SaveContentKey, PosterFrame, GrabFrame, UploadFrame, SetThumbnail,
     AutoCaption, Transcribe, StoreVTT, AddCaption, Chain, Chained, FromCaptions,
     FindTrack, ReadTrack, ReplaceSearchChunks, ClearFails, GenerateChapters,
     StoreChapters, contentVars
<1>3. task' = task
  BY <1>1 DEF MovesOn
<1>4. \A a \in Enqueuers : Asking(a)' => Asking(a) /\ enq'[a].arg = enq[a].arg
  <2>1. CASE enq' = enq
    BY <2>1 DEF Asking
  <2>2. CASE Chains(j)
    <3>1. PICK i \in {IndexJob, ContentJob} :
            enq' = [enq EXCEPT ![j] = [at |-> "enqueue", job |-> i, arg |-> 0]]
      BY <2>2 DEF Chains
    <3>2. /\ enq'[j].job = i /\ KindOf[i] # "poster"
          /\ \A b \in Enqueuers : b # j => enq'[b] = enq[b]
      BY <3>1, JobsAssumption DEF TypeInv, Shape, Enqueuers
    <3> QED BY <3>2 DEF Asking
  <2> QED BY <1>1, <2>1, <2>2
<1> QED BY <1>2, <1>3, <1>4 DEF OwnersStay, Posted, Putting

LEMMA PosterFramePosters ==
  ASSUME TypeInv, TypeInv', PosterInv, NEW j \in Jobs, PosterFrame(j)
  PROVE  PosterInv'
<1>1. OwnersStay /\ UNCHANGED <<task, edit>>
  BY BodyOwners DEF BodyStep, Work
<1>2. \A i \in Jobs : i # j => hand'[i] = hand[i]
  BY PosterMoves DEF TypeInv, MovesOn
<1>3. KindOf[j] = "poster" /\ hand[j].at # "idle"
  BY DEF PosterFrame, GrabFrame, UploadFrame, SetThumbnail, Body, IsKind
<1>4. PICK n \in 1..drawn : n = task[j].arg
  BY <1>3 DEF TypeInv, Shape, Tasks, HandsLeased, PosterNamed, Held
<1>5. Posted(j)
  BY <1>3 DEF TypeInv, HandsLeased, Posted
<1>6. Shape /\ 0 \in Nat /\ {"upload", "thumbnail", "end"} \subseteq HandSteps
  BY DEF TypeInv, HandSteps
<1>7. CASE GrabFrame(j)
  <2>1. hand'[j].at = "upload"
    BY <1>6, <1>7, HandForms DEF GrabFrame, Goes
  <2>2. UNCHANGED <<posters, shown, thumbnail>>
        /\ crossed' = IF n \in shown THEN crossed \cup {"poster"} ELSE crossed
    BY <1>4, <1>7 DEF GrabFrame
  <2>3. Owned'
    BY <1>1, <2>2, OwnedStays DEF PosterInv
  <2>4. Remembered'
    BY <1>1, <2>2 DEF PosterInv, Remembered, Putting, Removing
  <2>5. ASSUME "poster" \notin crossed' PROVE Uncrossed'
    <3>1. n \notin shown /\ Uncrossed
      BY <2>2, <2>5 DEF PosterInv
    <3>2. ASSUME NEW i \in Jobs, Grabbed(i)'
          PROVE  /\ task'[i].arg \notin shown'
                 /\ hand'[i].at = "thumbnail" => task'[i].arg \in posters'
      <4>1. CASE i = j
        BY <1>1, <1>4, <2>1, <2>2, <3>1, <4>1
      <4>2. CASE i # j
        <5>1. Grabbed(i) /\ hand'[i] = hand[i]
          BY <1>2, <3>2, <4>2 DEF Grabbed
        <5> QED BY <1>1, <2>2, <3>1, <5>1 DEF Uncrossed
      <4> QED BY <4>1, <4>2
    <3> QED BY <1>1, <2>2, <3>1, <3>2 DEF Uncrossed, Removing
  <2> QED BY <2>3, <2>4, <2>5 DEF PosterInv
<1>8. CASE UploadFrame(j)
  <2>1. hand'[j].at = "thumbnail" /\ Grabbed(j)
    BY <1>3, <1>6, <1>8, HandForms DEF UploadFrame, Goes, Body, Grabbed
  <2>2. UNCHANGED <<shown, thumbnail, crossed>> /\ posters' = posters \cup {n}
    BY <1>4, <1>8 DEF UploadFrame
  <2>3. Owned'
    BY <1>1, <2>2, OwnedStays DEF PosterInv
  <2>4. Remembered'
    BY <1>1, <2>2 DEF PosterInv, Remembered, Putting, Removing
  <2>5. ASSUME Uncrossed PROVE Uncrossed'
    <3>1. ASSUME NEW i \in Jobs, Grabbed(i)'
          PROVE  task'[i].arg \notin shown' /\ (hand'[i].at = "thumbnail" => task'[i].arg \in posters')
      <4>1. CASE i = j
        BY <1>1, <1>4, <2>1, <2>2, <2>5, <4>1 DEF Uncrossed
      <4>2. CASE i # j
        <5>1. Grabbed(i) /\ hand'[i] = hand[i]
          BY <1>2, <3>1, <4>2 DEF Grabbed
        <5> QED BY <1>1, <2>2, <2>5, <5>1 DEF Uncrossed
      <4> QED BY <4>1, <4>2
    <3> QED BY <1>1, <2>2, <2>5, <3>1 DEF Uncrossed, Removing
  <2> QED BY <2>2, <2>3, <2>4, <2>5 DEF PosterInv
<1>9. CASE SetThumbnail(j)
  <2>1. /\ hand'[j].at = "end" /\ Grabbed(j) /\ hand[j].at = "thumbnail" /\ ~Grabbed(j)'
    BY <1>3, <1>6, <1>9, HandForms DEF SetThumbnail, Goes, Body, Grabbed
  <2>2. UNCHANGED <<posters, crossed>> /\ thumbnail' = n /\ shown' = shown \cup {n}
    BY <1>4, <1>9 DEF SetThumbnail
  <2>3. Owned'
    <3>1. \A a \in Enqueuers : Asking(a)' => enq[a].arg \notin {n}
      BY <1>1, <1>4, <1>5 DEF PosterInv, Owned, OwnersStay
    <3>2. \A r \in Askers : Putting(r)' => edit[r].new \notin {n}
      BY <1>1, <1>4, <1>5 DEF PosterInv, Owned, OwnersStay
    <3> QED BY <1>1, <2>2, <3>1, <3>2, OwnedRest DEF PosterInv
  <2>4. Remembered'
    BY <1>1, <2>2 DEF PosterInv, Remembered, Putting, Removing
  <2>5. ASSUME Uncrossed PROVE Uncrossed'
    <3>1. n \notin shown /\ n \in posters /\ n # 0
      BY <1>4, <2>1, <2>5 DEF Uncrossed
    <3>2. \A r \in Askers : Removing(r)' => edit'[r].old # n
      BY <1>1, <3>1 DEF PosterInv, Remembered, Removing
    <3>3. ASSUME NEW i \in Jobs, Grabbed(i)'
          PROVE  /\ task'[i].arg \notin shown'
                 /\ hand'[i].at = "thumbnail" => task'[i].arg \in posters'
      <4>1. i # j /\ Grabbed(i) /\ hand'[i] = hand[i]
        BY <1>2, <2>1, <3>3 DEF Grabbed
      <4>2. Posted(i)
        BY <4>1 DEF TypeInv, HandsLeased, Grabbed, Posted
      <4>3. task[i].arg # n
        BY <1>4, <1>5, <4>1, <4>2 DEF PosterInv, Owned
      <4> QED BY <1>1, <2>2, <2>5, <4>1, <4>3 DEF Uncrossed
    <3> QED BY <2>2, <3>1, <3>2, <3>3 DEF Uncrossed
  <2> QED BY <2>2, <2>3, <2>4, <2>5 DEF PosterInv
<1> QED BY <1>7, <1>8, <1>9 DEF PosterFrame

LEMMA BodyPosters ==
  ASSUME TypeInv, TypeInv', PosterInv, NEW j \in Jobs, BodyStep(j)
  PROVE  PosterInv'
<1>1. CASE PosterFrame(j)
  BY <1>1, PosterFramePosters
<1>2. CASE ~PosterFrame(j)
  <2>1. OwnersStay /\ edit' = edit
    BY BodyOwners
  <2>2. UNCHANGED <<posters, shown, thumbnail>>
        /\ ("poster" \in crossed => "poster" \in crossed')
    BY <1>2 DEF BodyStep, Work, BodyFails, Encrypt, BuildEncrypted, UploadPlaylists,
       UploadSegments, SaveContentKey, AutoCaption, Transcribe, StoreVTT, AddCaption, Chain,
       Chained, FromCaptions, FindTrack, ReadTrack, ReplaceSearchChunks, ClearFails,
       GenerateChapters, StoreChapters, WriteChapters, contentVars
  <2>3. MovesOn(j)
    BY BodyMoves DEF TypeInv
  <2>4. ~Grabbed(j)'
    <3>1. CASE BodyFails(j)
      <4>1. Fails(j) /\ "end" \in HandSteps /\ 0 \in Nat
        BY <3>1 DEF BodyFails, HandSteps
      <4>2. hand'[j].at = "end"
        BY <4>1, HandForms DEF TypeInv
      <4> QED BY <4>2 DEF Grabbed
    <3>2. CASE ~BodyFails(j)
      <4>1. KindOf[j] # "poster"
        BY <1>2, <3>2 DEF BodyStep, Work, Encrypt, BuildEncrypted, UploadPlaylists,
           UploadSegments, SaveContentKey, AutoCaption, Transcribe, StoreVTT, AddCaption,
           Chain, Chained, FromCaptions, FindTrack, ReadTrack, ReplaceSearchChunks,
           ClearFails, GenerateChapters, StoreChapters, Body, IsKind
      <4> QED BY <4>1 DEF Grabbed
    <3> QED BY <3>1, <3>2
  <2>5. \A i \in Jobs : Grabbed(i)' => Grabbed(i) /\ hand'[i] = hand[i]
    BY <2>3, <2>4 DEF MovesOn, Grabbed
  <2> QED BY <2>1, <2>2, <2>5, PosterRest DEF Removing
<1> QED BY <1>1, <1>2

(* A queue that has its tasks and enqueues keep their arguments. *)
LEMMA QueuePosters ==
  ASSUME TypeInv, TypeInv', PosterInv, TasksStay, EnqsStay,
         UNCHANGED <<edit, posters, shown>>,
         thumbnail' = thumbnail \/ thumbnail' = 0,
         "poster" \in crossed => "poster" \in crossed',
         \A j \in Jobs : Grabbed(j)' => hand'[j] = hand[j]
  PROVE  PosterInv'
<1>1. OwnersStay
  BY DEF OwnersStay, TasksStay, EnqsStay, Posted, Asking, Putting
<1>2. \A j \in Jobs : Grabbed(j)' => Grabbed(j) /\ hand'[j] = hand[j]
  BY DEF Grabbed
<1> QED BY <1>1, <1>2, PosterRest DEF Removing

(* The argument goes from the enqueue to the task. *)
LEMMA SubmitPosters ==
  ASSUME TypeInv, TypeInv', PosterInv, NEW a \in Enqueuers, Submits(a), EnqsStay,
         hand' = hand, Misses
  PROVE  PosterInv'
<1>1. UNCHANGED <<edit, posters, shown, thumbnail>>
      /\ ("poster" \notin crossed' => "poster" \notin crossed)
  BY MissesStay DEF ContentsStay
<1>2. PICK j \in Jobs : j = enq[a].job
  BY DEF TypeInv, Shape, Enqs
<1>3. /\ task[j].state = "none" /\ task' = [task EXCEPT ![j] = NewTask(enq[a].arg)]
      /\ enq[a].at # "idle" /\ enq'[a].at = "idle"
  BY <1>2 DEF Submits, Submit
<1>4. task'[j].arg = enq[a].arg /\ \A i \in Jobs : i # j => task'[i] = task[i]
  BY <1>3 DEF TypeInv, Shape, NewTask
<1>5. \A b \in Enqueuers : Asking(b)' => Asking(b) /\ enq'[b].arg = enq[b].arg /\ b # a
  BY <1>3 DEF EnqsStay, Asking
<1>6. KindOf[j] = "poster" => Asking(a)
  BY <1>2, <1>3 DEF Asking
<1>7. Owned'
  <2>1. \A i \in Jobs : i # j /\ Posted(i)' => Posted(i)
    BY <1>4 DEF Posted
  <2>2. Posted(j)' => KindOf[j] = "poster"
    BY DEF Posted
  <2>3. \A r \in Askers : Putting(r)' <=> Putting(r)
    BY <1>1 DEF Putting
  <2>4. \A i, k \in Jobs : Posted(i)' /\ Posted(k)' /\ i # k => task'[i].arg # task'[k].arg
    BY <1>4, <1>6, <2>1, <2>2 DEF PosterInv, Owned
  <2>5. \A i \in Jobs, b \in Enqueuers : Posted(i)' /\ Asking(b)' => task'[i].arg # enq'[b].arg
    BY <1>4, <1>5, <1>6, <2>1, <2>2 DEF PosterInv, Owned
  <2>6. \A i \in Jobs, r \in Askers : Posted(i)' /\ Putting(r)' => task'[i].arg # edit'[r].new
    BY <1>1, <1>4, <1>6, <2>1, <2>2, <2>3 DEF PosterInv, Owned
  <2> QED BY <1>1, <1>5, <2>3, <2>4, <2>5, <2>6 DEF PosterInv, Owned
<1>8. Remembered'
  BY <1>1 DEF PosterInv, Remembered, Putting, Removing
<1>9. ASSUME Uncrossed PROVE Uncrossed'
  <2>1. ASSUME NEW i \in Jobs, Grabbed(i)'
        PROVE  i # j /\ Grabbed(i)
    BY <1>3, <2>1 DEF TypeInv, HandsLeased, Grabbed
  <2> QED BY <1>1, <1>4, <1>9, <2>1 DEF Uncrossed, Removing
<1> QED BY <1>1, <1>7, <1>8, <1>9 DEF PosterInv

LEMMA EnqueuePosters ==
  ASSUME TypeInv, TypeInv', PosterInv, NEW a \in Enqueuers, EnqueueStep(a),
         Misses
  PROVE  PosterInv'
<1>1. EnqsStay /\ (TasksStay \/ Submits(a)) /\ hand' = hand
  BY EnqueueEffect DEF TypeInv
<1>2. CASE TasksStay
  BY <1>1, <1>2, QueuePosters, MissesStay DEF ContentsStay
<1>3. CASE Submits(a)
  BY <1>1, <1>3, SubmitPosters
<1> QED BY <1>1, <1>2, <1>3

LEMMA AttemptPosters ==
  ASSUME TypeInv, TypeInv', PosterInv, NEW j \in Jobs, AttemptOn(j)
  PROVE  PosterInv'
<1>1. TasksStay /\ EnqsStay
  BY AttemptEffect DEF TypeInv
<1>2. \A i \in Jobs : Grabbed(i)' => hand'[i] = hand[i]
  BY AttemptHand DEF TypeInv, AttemptOn, Grabbed
<1>3. UNCHANGED <<edit, posters, shown, thumbnail>>
      /\ ("poster" \in crossed => "poster" \in crossed')
  BY MissesStay DEF AttemptOn, Stops, ContentsStay
<1> QED BY <1>1, <1>2, <1>3, QueuePosters

LEMMA AskPosters ==
  ASSUME TypeInv, TypeInv', PosterInv, NEW r \in Askers, AskForJob(r)
  PROVE  PosterInv'
<1>1. PICK j \in Jobs, arg \in {0, Fresh} :
        /\ enq' = [enq EXCEPT ![r] = [at |-> "row", job |-> j, arg |-> arg]]
        /\ KindOf[j] = "poster" <=> arg = Fresh
        /\ UNCHANGED <<task, hand, thumbnail, posters, edit, shown, crossed>>
  BY AskMoves DEF TypeInv
<1>2. /\ enq'[r].job = j /\ enq'[r].arg = arg
      /\ \A b \in Enqueuers : b # r => enq'[b] = enq[b]
  BY <1>1 DEF TypeInv, Shape, Enqueuers
<1>3. r \in Enqueuers /\ drawn \in Nat /\ Fresh = drawn + 1
  BY DEF TypeInv, Contents, Fresh, Enqueuers
<1>4. /\ \A i \in Jobs : Posted(i) => task[i].arg # Fresh
      /\ \A b \in Enqueuers : Asking(b) => enq[b].arg # Fresh
      /\ \A q \in Askers : edit[q].new # Fresh
      /\ Fresh \notin shown
  <2>1. \A i \in Jobs : Posted(i) => task[i].arg <= drawn
    BY DEF Posted, TypeInv, Held
  <2>2. \A b \in Enqueuers : Asking(b) => enq[b].arg <= drawn
    BY DEF Asking, TypeInv, Held
  <2>3. \A q \in Askers : edit[q].new <= drawn
    BY DEF TypeInv, Contents
  <2>4. Fresh \notin shown
    BY <1>3 DEF TypeInv, Contents
  <2> QED BY <1>3, <2>1, <2>2, <2>3, <2>4
<1>5. /\ \A i \in Jobs : Posted(i)' <=> Posted(i)
      /\ \A q \in Askers : Putting(q)' <=> Putting(q)
      /\ \A b \in Enqueuers : b # r => (Asking(b)' <=> Asking(b))
      /\ Asking(r)' => enq'[r].arg = Fresh
  BY <1>1, <1>2 DEF Posted, Putting, Asking
<1>6. Owned'
  <2>1. \A a, b \in Enqueuers : Asking(a)' /\ Asking(b)' /\ a # b => enq'[a].arg # enq'[b].arg
    BY <1>2, <1>4, <1>5 DEF PosterInv, Owned
  <2>2. \A i \in Jobs, b \in Enqueuers : Posted(i)' /\ Asking(b)' => task'[i].arg # enq'[b].arg
    BY <1>1, <1>2, <1>4, <1>5 DEF PosterInv, Owned
  <2>3. \A b \in Enqueuers, q \in Askers : Asking(b)' /\ Putting(q)' => enq'[b].arg # edit'[q].new
    BY <1>1, <1>2, <1>4, <1>5 DEF PosterInv, Owned
  <2>4. \A b \in Enqueuers : Asking(b)' => enq'[b].arg \notin shown'
    BY <1>1, <1>2, <1>4, <1>5 DEF PosterInv, Owned
  <2> QED BY <1>1, <1>5, <2>1, <2>2, <2>3, <2>4 DEF PosterInv, Owned
<1>7. Remembered' /\ (Uncrossed => Uncrossed')
  BY <1>1 DEF PosterInv, Remembered, Uncrossed, Putting, Removing, Grabbed
<1> QED BY <1>1, <1>6, <1>7 DEF PosterInv

LEMMA PutPosters ==
  ASSUME TypeInv, PosterInv, NEW r \in Askers, PutPoster(r)
  PROVE  PosterInv'
<1>1. /\ UNCHANGED <<task, enq, hand>> /\ \A q \in Askers : q # r => edit'[q] = edit[q]
  BY EditMoves DEF Edit
<1>2. /\ edit[r].at = "idle" /\ edit'[r].at = "thumbnail" /\ edit'[r].new = Fresh
      /\ edit'[r].old = thumbnail
  <2>1. /\ StartsEdit(r, "upload", "thumbnail", Fresh)
        /\ edit \in [Askers -> Edits] /\ Shape /\ thumbnail \in Nat /\ Fresh \in Nat
        /\ "thumbnail" \in EditSteps
    BY DEF PutPoster, TypeInv, Contents, Fresh, EditSteps
  <2> QED BY <2>1, EditForms
<1>3. posters' = posters \cup {Fresh} /\ UNCHANGED <<thumbnail, shown, crossed>>
  BY DEF PutPoster
<1>4. /\ \A i \in Jobs : Posted(i) => task[i].arg # Fresh
      /\ \A b \in Enqueuers : Asking(b) => enq[b].arg # Fresh
      /\ \A q \in Askers : edit[q].new # Fresh
      /\ Fresh \notin shown
  <2>1. drawn \in Nat /\ Fresh = drawn + 1
    BY DEF TypeInv, Contents, Fresh
  <2>2. \A i \in Jobs : Posted(i) => task[i].arg <= drawn
    BY DEF Posted, TypeInv, Held
  <2>3. \A b \in Enqueuers : Asking(b) => enq[b].arg <= drawn
    BY DEF Asking, TypeInv, Held
  <2>4. \A q \in Askers : edit[q].new <= drawn
    BY DEF TypeInv, Contents
  <2>5. Fresh \notin shown
    BY <2>1 DEF TypeInv, Contents
  <2> QED BY <2>1, <2>2, <2>3, <2>4, <2>5
<1>5. /\ \A i \in Jobs : (Posted(i)' <=> Posted(i)) /\ (Grabbed(i)' <=> Grabbed(i))
      /\ \A b \in Enqueuers : Asking(b)' <=> Asking(b)
      /\ \A q \in Askers : q # r => /\ Putting(q)' <=> Putting(q)
                                    /\ Removing(q)' <=> Removing(q)
      /\ Putting(r)' /\ ~Removing(r)'
  BY <1>1, <1>2 DEF Posted, Grabbed, Asking, Putting, Removing
<1>6. Owned'
  BY <1>1, <1>2, <1>3, <1>4, <1>5 DEF PosterInv, Owned
<1>7. Remembered'
  BY <1>1, <1>2, <1>3, <1>5 DEF PosterInv, Remembered
<1>8. Uncrossed => Uncrossed'
  BY <1>1, <1>3, <1>5 DEF Uncrossed
<1> QED BY <1>3, <1>6, <1>7, <1>8 DEF PosterInv

LEMMA ShowPosters ==
  ASSUME TypeInv, PosterInv, NEW r \in Askers, ShowPoster(r)
  PROVE  PosterInv'
<1>1. /\ UNCHANGED <<task, enq, hand>> /\ \A q \in Askers : q # r => edit'[q] = edit[q]
  BY EditMoves DEF Edit
<1>2. /\ edit[r].at = "thumbnail" /\ edit'[r].at = "remove"
      /\ edit'[r].new = edit[r].new /\ edit'[r].old = edit[r].old
  <2>1. /\ GoesOn(r, "thumbnail", "remove")
        /\ edit \in [Askers -> Edits] /\ Shape /\ thumbnail \in Nat /\ 0 \in Nat
        /\ "thumbnail" \in EditSteps /\ "remove" \in EditSteps
    BY DEF ShowPoster, TypeInv, Contents, EditSteps
  <2> QED BY <2>1, EditForms
<1>3. PICK n \in 1..drawn : n = edit[r].new
  BY <1>2 DEF TypeInv, Contents, Edits
<1>4. /\ thumbnail' = n /\ shown' = shown \cup {n} /\ UNCHANGED <<posters, crossed>>
  BY <1>3 DEF ShowPoster
<1>5. /\ \A i \in Jobs : (Posted(i)' <=> Posted(i)) /\ (Grabbed(i)' <=> Grabbed(i))
      /\ \A b \in Enqueuers : Asking(b)' <=> Asking(b)
      /\ \A q \in Askers : q # r => /\ Putting(q)' <=> Putting(q)
                                    /\ Removing(q)' <=> Removing(q)
      /\ Putting(r) /\ ~Putting(r)' /\ Removing(r)'
  BY <1>1, <1>2 DEF Posted, Grabbed, Asking, Putting, Removing
<1>6. Owned'
  <2>1. OwnersStay
    BY <1>1, <1>5 DEF OwnersStay
  <2>2. \A a \in Enqueuers : Asking(a)' => enq[a].arg \notin {n}
    BY <1>3, <1>5 DEF PosterInv, Owned
  <2>3. \A q \in Askers : Putting(q)' => edit[q].new \notin {n}
    BY <1>3, <1>5 DEF PosterInv, Owned
  <2> QED BY <1>4, <2>1, <2>2, <2>3, OwnedRest DEF PosterInv
<1>7. Remembered'
  BY <1>1, <1>2, <1>4, <1>5 DEF PosterInv, Remembered
<1>8. ASSUME Uncrossed PROVE Uncrossed'
  <2>1. n \in posters /\ n \notin shown
    BY <1>3, <1>5 DEF PosterInv, Owned, Remembered
  <2>2. \A q \in Askers : Removing(q)' => edit'[q].old # n
    BY <1>1, <1>2, <1>3, <1>5, <2>1 DEF PosterInv, Remembered
  <2>3. ASSUME NEW i \in Jobs, Grabbed(i)'
        PROVE  /\ task'[i].arg \notin shown'
               /\ hand'[i].at = "thumbnail" => task'[i].arg \in posters'
    <3>1. Grabbed(i) /\ Posted(i)
      BY <1>5, <2>3 DEF TypeInv, HandsLeased, Grabbed, Posted
    <3>2. task[i].arg # n
      BY <1>3, <1>5, <3>1 DEF PosterInv, Owned
    <3> QED BY <1>1, <1>4, <1>8, <3>1, <3>2 DEF Uncrossed
  <2> QED BY <1>4, <2>1, <2>2, <2>3 DEF Uncrossed
<1> QED BY <1>4, <1>6, <1>7, <1>8 DEF PosterInv

LEMMA RemovePosters ==
  ASSUME TypeInv, PosterInv, NEW r \in Askers, RemoveOldCustomPoster(r)
  PROVE  PosterInv'
<1>1. /\ UNCHANGED <<task, enq, hand>> /\ \A q \in Askers : q # r => edit'[q] = edit[q]
  BY EditMoves DEF Edit
<1>2. /\ edit[r].at = "remove" /\ edit'[r].at = "idle"
  <2>1. /\ GoesOn(r, "remove", "idle")
        /\ edit \in [Askers -> Edits] /\ Shape /\ thumbnail \in Nat /\ 0 \in Nat
        /\ "idle" \in EditSteps /\ "remove" \in EditSteps
    BY DEF RemoveOldCustomPoster, TypeInv, Contents, EditSteps
  <2> QED BY <2>1, EditForms
<1>3. PICK n \in Nat : n = edit[r].old
  BY DEF TypeInv, Contents, Edits
<1>4. /\ posters' = posters \ {n} /\ UNCHANGED <<thumbnail, shown, crossed>>
  BY <1>3 DEF RemoveOldCustomPoster
<1>5. /\ \A i \in Jobs : (Posted(i)' <=> Posted(i)) /\ (Grabbed(i)' <=> Grabbed(i))
      /\ \A b \in Enqueuers : Asking(b)' <=> Asking(b)
      /\ \A q \in Askers : q # r => /\ Putting(q)' <=> Putting(q)
                                    /\ Removing(q)' <=> Removing(q)
      /\ Removing(r) /\ ~Putting(r)' /\ ~Removing(r)'
  BY <1>1, <1>2 DEF Posted, Grabbed, Asking, Putting, Removing
<1>6. n \in shown \cup {0}
  BY <1>3, <1>5 DEF PosterInv, Remembered
<1>7. Owned'
  <2>1. OwnersStay
    BY <1>1, <1>5 DEF OwnersStay
  <2> QED BY <1>4, <2>1, OwnedStays DEF PosterInv
<1>8. Remembered'
  <2>1. ASSUME NEW q \in Askers, Putting(q)'
        PROVE  edit'[q].new \in posters'
    <3>1. Putting(q) /\ edit'[q] = edit[q]
      BY <1>1, <1>5, <2>1
    <3>2. edit[q].new \in posters /\ edit[q].new \notin shown /\ edit[q].new # 0
      BY <3>1 DEF PosterInv, Owned, Remembered, TypeInv, Contents, Putting
    <3> QED BY <1>4, <1>6, <3>1, <3>2
  <2> QED BY <1>1, <1>4, <1>5, <2>1 DEF PosterInv, Remembered
<1>9. ASSUME Uncrossed PROVE Uncrossed'
  <2>1. thumbnail' = 0 \/ thumbnail' \in posters'
    BY <1>3, <1>4, <1>5, <1>9 DEF Uncrossed
  <2>2. ASSUME NEW i \in Jobs, Grabbed(i)'
        PROVE  /\ task'[i].arg \notin shown'
               /\ hand'[i].at = "thumbnail" => task'[i].arg \in posters'
    <3>1. Grabbed(i) /\ Posted(i)
      BY <1>5, <2>2 DEF TypeInv, HandsLeased, Grabbed, Posted
    <3>2. task[i].arg # 0 /\ task[i].arg \notin shown
      BY <1>9, <3>1 DEF Uncrossed, TypeInv, PosterNamed, Posted
    <3> QED BY <1>1, <1>4, <1>6, <1>9, <3>1, <3>2 DEF Uncrossed
  <2> QED BY <1>1, <1>4, <1>5, <1>9, <2>1, <2>2 DEF Uncrossed
<1> QED BY <1>4, <1>7, <1>8, <1>9 DEF PosterInv

(* Edits of chapters and tracks, and whatever is given up.                    *)
LEMMA EditPosters ==
  ASSUME TypeInv, TypeInv', PosterInv, NEW r \in Askers, Edit(r)
  PROVE  PosterInv'
<1>1. /\ UNCHANGED <<task, enq, hand>> /\ \A q \in Askers : q # r => edit'[q] = edit[q]
  BY EditMoves
<1>2. /\ edit \in [Askers -> Edits] /\ Shape /\ thumbnail \in Nat /\ Fresh \in Nat /\ 0 \in Nat
      /\ EditSteps = {"idle", "thumbnail", "remove", "chaptersFile", "captionRow",
                      "captionFile"}
  BY DEF TypeInv, Contents, Fresh, EditSteps
<1>3. CASE ~(PutPoster(r) \/ ShowPoster(r) \/ RemoveOldCustomPoster(r))
  <2>1. edit'[r].at \notin {"thumbnail", "remove"}
    <3>1. CASE EditFails(r)
      BY <1>2, <3>1, EditForms
    <3>2. CASE PutChapters(r) \/ RecordCaption(r) \/ RemoveTrack(r)
      <4>1. PICK at \in {"chaptersFile", "captionRow", "captionFile"} : GoesOn(r, at, "idle")
        BY <3>2 DEF PutChapters, RecordCaption, RemoveTrack
      <4>2. at \in EditSteps /\ "idle" \in EditSteps
        BY <1>2
      <4> QED BY <1>2, <4>1, <4>2, EditForms
    <3>3. CASE SetChapters(r) \/ UploadCaption(r) \/ DeleteCaption(r)
      <4>1. PICK wish \in {"chapters", "track"},
                 at \in {"chaptersFile", "captionRow", "captionFile"}, new \in {0, Fresh} :
              StartsEdit(r, wish, at, new)
        BY <3>3 DEF SetChapters, UploadCaption, DeleteCaption
      <4>2. at \in EditSteps /\ new \in Nat
        BY <1>2, <4>1
      <4>3. edit'[r].at = at
        BY <1>2, <4>1, <4>2, EditForms
      <4> QED BY <4>3
    <3> QED BY <1>3, <3>1, <3>2, <3>3 DEF Edit
  <2>2. /\ UNCHANGED <<posters, shown, thumbnail>>
        /\ "poster" \in crossed => "poster" \in crossed'
    BY <1>3 DEF Edit, SetChapters, PutChapters, UploadCaption, RecordCaption,
       DeleteCaption, RemoveTrack, EditFails, WriteChapters
  <2>3. OwnersStay
    BY <1>1, <2>1 DEF OwnersStay, Posted, Asking, Putting
  <2>4. \A q \in Askers : Removing(q)' => Removing(q) /\ edit'[q].old = edit[q].old
    BY <1>1, <2>1 DEF Removing
  <2>5. \A j \in Jobs : Grabbed(j)' => Grabbed(j) /\ hand'[j] = hand[j]
    BY <1>1 DEF Grabbed
  <2> QED BY <2>2, <2>3, <2>4, <2>5, PosterRest
<1> QED BY <1>3, PutPosters, ShowPosters, RemovePosters

LEMMA PosterKept == TypeInv /\ PosterInv /\ [Next]_vars => PosterInv'
<1> SUFFICES ASSUME TypeInv, PosterInv, [Next]_vars
             PROVE  PosterInv'
  OBVIOUS
<1>1. TypeInv'
  BY TypesKept
<1>2. ASSUME NEW r \in Askers, SetQueued(r), Misses
      PROVE  PosterInv'
  <2>1. EnqsStay /\ UNCHANGED <<task, hand>>
    BY <1>2, SetQueuedEffect DEF TypeInv
  <2>2. TasksStay
    BY <2>1 DEF TasksStay
  <2> QED BY <1>1, <1>2, <2>1, <2>2, QueuePosters, MissesStay DEF ContentsStay
<1>3. CASE Transcode \/ UNCHANGED vars
  <2>1. /\ UNCHANGED <<task, enq, hand, edit, posters, shown, crossed>>
        /\ thumbnail' = thumbnail \/ thumbnail' = 0
    BY <1>3 DEF Transcode, StartTranscode, SetTranscoding, UploadLadder, SetFinished, Transcodes,
       queueVars, contentVars, vars
  <2>2. TasksStay /\ EnqsStay
    BY <2>1 DEF TasksStay, EnqsStay
  <2> QED BY <1>1, <2>1, <2>2, QueuePosters
<1> QED
  BY <1>1, <1>2, <1>3, Steps, EnqueuePosters, AttemptPosters, BodyPosters, AskPosters,
     EditPosters

(* The poster that the row names is there, although every upload removes the   *)
(* one it has replaced; but for a frame grabbed a second time for a poster that *)
(* was shown before (httpapi/poster.go: removeOldCustomPoster,                 *)
(* worker/poster.go: handlePosterFrame): a poster that is about to be shown    *)
(* never was, and one that is about to be removed was.                        *)
THEOREM PosterStays == Spec => []PosterExists
<1> DEFINE I == TypeInv /\ PosterInv
<1>1. I => PosterExists
  BY DEF PosterInv, Uncrossed, PosterExists
<1>2. Init => I
  <2>1. ASSUME Init PROVE PosterInv
    <3>1. /\ \A j \in Jobs : ~Posted(j) /\ ~Grabbed(j)
          /\ \A a \in Enqueuers : ~Asking(a)
          /\ \A r \in Askers : ~Putting(r) /\ ~Removing(r)
          /\ thumbnail = 0
      BY <2>1 DEF Init, QueueInit, NoTask, IdleHand, IdleEnq, NoEdit, Posted, Grabbed,
         Asking, Putting, Removing, Enqueuers
    <3> QED BY <3>1 DEF PosterInv, Owned, Remembered, Uncrossed
  <2> QED BY <2>1, InitTypes
<1>3. I /\ [Next]_vars => I'
  BY TypesKept, PosterKept
<1> QED BY <1>1, <1>2, <1>3, PTL DEF Spec
-----------------------------------------------------------------------------
(* The search index: it is that of the track, or something is still to make it  *)
(* so.                                                                        *)

(* A caption job has stored a track and not yet chained its index job.        *)
Writing == \E j \in Jobs : hand[j].at \in {"record", "chainIndex"}

InFlight(j) == \E a \in Enqueuers : enq[a].job = j /\ enq[a].at # "idle"

(* The task will read the track of now or has done so; a task that has failed  *)
(* is tried again, or kept.                                                   *)
TaskWill ==
  LET h == hand[IndexJob] IN
  \/ task[IndexJob].state \in {"waiting", "archived"}
  \/ /\ task[IndexJob].state = "active"
     /\ \/ h.at \in {"idle", "begin", "read"}
        \/ h.at = "replace" /\ h.got = caption.vtt
        \/ h.at \in {"end", "ack"} /\ h.out # "done"

WillIndex == index = caption.vtt \/ Writing \/ InFlight(IndexJob) \/ TaskWill

IndexInv == IndexJob \in wants /\ "index" \notin crossed => WillIndex

(* A step that is of no concern to the index.                                 *)
LEMMA IndexRest ==
  ASSUME IndexInv, UNCHANGED <<index, wants>>, caption'.vtt = caption.vtt,
         "index" \in crossed => "index" \in crossed',
         hand'[IndexJob] = hand[IndexJob], task'[IndexJob] = task[IndexJob],
         "index" \in crossed' \/ (Writing => Writing'),
         "index" \in crossed' \/ (InFlight(IndexJob) => InFlight(IndexJob)')
  PROVE  IndexInv'
  BY DEF IndexInv, WillIndex, TaskWill

LEMMA EnqueueIndex ==
  ASSUME TypeInv, IndexInv, NEW a \in Enqueuers, EnqueueStep(a), Misses
  PROVE  IndexInv'
<1>1. /\ hand' = hand /\ Shape /\ IndexJob \in Jobs
      /\ \A b \in Enqueuers : b # a => enq'[b] = enq[b]
      /\ \A i \in Jobs : i # enq[a].job => task'[i] = task[i]
  BY MissesStay, EnqueueShape, JobsAssumption DEF TypeInv, EnqueueStep
<1>2. /\ UNCHANGED <<caption, index, wants>>
      /\ "index" \in crossed => "index" \in crossed'
  BY MissesStay DEF ContentsStay
<1>3. enq[a].at # "idle"
  BY DEF EnqueueStep, EnqueueIdempotent, Enqueue, Inspect, Delete, Again, RequestStops
<1>4. Writing => Writing'
  BY <1>1 DEF Writing
<1>5. CASE enq[a].job # IndexJob
  <2>1. InFlight(IndexJob) => InFlight(IndexJob)'
    BY <1>1, <1>5 DEF InFlight
  <2> QED BY <1>1, <1>2, <1>4, <1>5, <2>1, IndexRest
<1>6. CASE enq[a].job = IndexJob /\ enq'[a].at # "idle"
  <2>1. Leave(a) \/ \E at \in {"inspect", "delete", "again"} : Proceed(a, at)
    BY DEF EnqueueStep, EnqueueIdempotent, Enqueue, Inspect, Delete, Again, RequestStops,
       GiveUp, Absorb, Submit
  <2>2. enq'[a].job = IndexJob
    BY <1>1, <1>6, <2>1, EnqForms
  <2>3. InFlight(IndexJob)'
    BY <1>6, <2>2 DEF InFlight
  <2> QED BY <2>3 DEF IndexInv, WillIndex
<1>7. CASE enq[a].job = IndexJob /\ enq'[a].at = "idle"
  <2>1. CASE MissesTrack(a)
    <3>1. "index" \in crossed'
      BY <2>1 DEF Misses, Enqueuers
    <3> QED BY <3>1 DEF IndexInv
  <2>2. CASE ~MissesTrack(a)
    <3>1. index = caption.vtt \/ TaskWill'
      BY <1>1, <1>3, <1>7, <2>2 DEF MissesTrack, TaskWill
    <3> QED BY <1>2, <3>1 DEF IndexInv, WillIndex
  <2> QED BY <2>1, <2>2
<1> QED BY <1>5, <1>6, <1>7

LEMMA SetQueuedIndex ==
  ASSUME TypeInv, IndexInv, NEW r \in Askers, SetQueued(r), Misses
  PROVE  IndexInv'
<1>1. /\ UNCHANGED <<task, hand>> /\ r \in Enqueuers
      /\ enq'[r].at = "enqueue" /\ enq'[r].job = enq[r].job
      /\ \A b \in Enqueuers : b # r => enq'[b] = enq[b]
  BY SetQueuedEffect DEF TypeInv, Enqueuers
<1>2. InFlight(IndexJob) => InFlight(IndexJob)'
  BY <1>1 DEF InFlight
<1>3. Writing => Writing'
  BY <1>1 DEF Writing
<1> QED BY <1>1, <1>2, <1>3, MissesStay, IndexRest DEF ContentsStay

LEMMA AttemptIndex ==
  ASSUME TypeInv, IndexInv, NEW j \in Jobs, AttemptOn(j)
  PROVE  IndexInv'
<1>1. /\ Shape /\ HandsLeased /\ IndexJob \in Jobs
      /\ \A i \in Jobs : i # j => hand'[i] = hand[i] /\ task'[i] = task[i]
  BY AttemptHand, AttemptElsewhere, JobsAssumption DEF TypeInv
<1>2. /\ UNCHANGED <<caption, index, wants>>
      /\ "index" \in crossed => "index" \in crossed'
  BY MissesStay DEF AttemptOn, Stops, ContentsStay
<1>3. "index" \in crossed' \/ (Writing => Writing')
  <2>1. CASE Stops(j) /\ hand[j].at \in {"record", "chainIndex"}
    BY <2>1 DEF Stops, LeftHalf
  <2>2. CASE ~(Stops(j) /\ hand[j].at \in {"record", "chainIndex"})
    <3>1. hand[j].at \in {"record", "chainIndex"} => hand'[j] = hand[j]
      BY <1>1, <2>2, AttemptHand DEF AttemptOn
    <3> QED BY <1>1, <3>1 DEF Writing
  <2> QED BY <2>1, <2>2
<1>4. "index" \in crossed' \/ (InFlight(IndexJob) => InFlight(IndexJob)')
  <2>1. CASE Stops(j)
    <3>1. \A b \in Enqueuers : b # j => enq'[b] = enq[b]
      BY <1>1, <2>1, EnqForms DEF Stops, WorkerStops, Enqueuers
    <3>2. enq[j].at # "idle" /\ enq[j].job = IndexJob => "index" \in crossed'
      BY <2>1 DEF Stops
    <3> QED BY <3>1, <3>2 DEF InFlight
  <2>2. CASE ~Stops(j)
    BY <2>2 DEF AttemptOn, Begin, Finish, Return, LeaseExpires, InFlight
  <2> QED BY <2>1, <2>2
<1>5. CASE j # IndexJob
  BY <1>1, <1>2, <1>3, <1>4, <1>5, IndexRest
<1>6. CASE j = IndexJob
  <2>1. TaskWill => TaskWill'
    <3>1. CASE Begin(j)
      <4>1. hand'[j].at = "begin" /\ task'[j].state = "active"
        BY <1>1, <3>1, AttemptHand, AttemptEffect DEF HandsLeased
      <4> QED BY <1>6, <4>1 DEF TaskWill
    <3>2. CASE Finish(j)
      BY <1>1, <1>2, <1>6, <3>2, AttemptHand DEF Finish, TaskWill
    <3>3. CASE Return(j)
      <4>1. hand[j].at = "ack" /\ hand[j].out \in {"done", "error", "skip"}
        BY <1>1, <3>3 DEF Return, Shape, Hands
      <4>2. TaskWill => hand[j].out # "done"
        BY <1>1, <1>6, <4>1 DEF TaskWill, HandsLeased
      <4>3. hand[j].out # "done" => task'[j].state \in {"waiting", "archived"}
        <5>1. CASE hand[j].out = "error"
          <6>1. task'[j] = AfterFailure(j)
            BY <1>1, <3>3, <5>1 DEF Return, Shape
          <6> QED BY <1>1, <6>1, AttemptForms
        <5>2. CASE hand[j].out = "skip"
          <6>1. task' = [task EXCEPT ![j] = [task[j] EXCEPT !.state = "archived"]]
            BY <3>3, <5>2 DEF Return
          <6> QED BY <1>1, <6>1, AttemptForms DEF Shape
        <5> QED BY <4>1, <5>1, <5>2
      <4> QED BY <1>6, <4>2, <4>3 DEF TaskWill
    <3>4. CASE LeaseExpires(j)
      <4>1. task'[j] = AfterFailure(j)
        BY <1>1, <3>4 DEF LeaseExpires, Shape
      <4> QED BY <1>1, <1>6, <4>1, AttemptForms DEF TaskWill
    <3>5. CASE Stops(j)
      <4>1. task[j].state = "active" /\ hand'[j].at = "idle"
        BY <1>1, <3>5, AttemptHand DEF HandsLeased
      <4>2. task'[j].state \in {"waiting", "active"}
        <5>1. CASE task' = task
          BY <4>1, <5>1
        <5>2. CASE task' = [task EXCEPT ![j].state = "waiting"]
          <6>1. task' = [task EXCEPT ![j] = [task[j] EXCEPT !.state = "waiting"]]
            BY <5>2, Zenon
          <6> QED BY <1>1, <6>1, AttemptForms DEF Shape
        <5> QED BY <3>5, <5>1, <5>2 DEF Stops, WorkerStops
      <4> QED BY <1>6, <4>1, <4>2 DEF TaskWill
    <3> QED BY <3>1, <3>2, <3>3, <3>4, <3>5 DEF AttemptOn
  <2> QED BY <1>2, <1>3, <1>4, <2>1 DEF IndexInv, WillIndex
<1> QED BY <1>5, <1>6

(* A step that leaves no new track behind leaves those who write one.          *)
LEMMA OthersWrite ==
  ASSUME NEW j \in Jobs, \A i \in Jobs : i # j => hand'[i] = hand[i],
         hand[j].at \notin {"record", "chainIndex"}
         \/ hand'[j].at \in {"record", "chainIndex"}
  PROVE  Writing => Writing'
  BY DEF Writing

(* The search index and the chapters, from the track. *)
LEMMA FromCaptionsIndex ==
  ASSUME TypeInv, IndexInv, NEW j \in Jobs, FromCaptions(j)
  PROVE  IndexInv'
<1>1. /\ Shape /\ HandsLeased /\ IndexJob \in Jobs /\ KindOf[IndexJob] = "search_index"
      /\ "read" \in HandSteps /\ "end" \in HandSteps /\ 0 \in Nat
  BY JobsAssumption DEF TypeInv, HandSteps
<1>2. MovesOn(j) /\ enq' = enq
  BY <1>1, FromCaptionsMoves
<1>3. /\ hand[j].at \in {"begin", "read", "replace", "generate", "file"}
      /\ UNCHANGED <<caption, wants, task>>
  BY DEF FromCaptions, FindTrack, ReadTrack, ReplaceSearchChunks, ClearFails,
     GenerateChapters, StoreChapters, Body, contentVars
<1>4. /\ Writing => Writing'
      /\ InFlight(IndexJob) => InFlight(IndexJob)'
  <2>1. Writing => Writing'
    BY <1>2, <1>3, OthersWrite DEF MovesOn
  <2> QED BY <1>2, <2>1 DEF InFlight
<1>5. task[j].state = "active"
  BY <1>1, <1>3 DEF HandsLeased
<1>6. CASE ClearFails(j)
  BY <1>6 DEF ClearFails, IndexInv
<1>7. CASE ReplaceSearchChunks(j)
  <2>1. CASE index' = caption.vtt
    BY <1>3, <2>1 DEF IndexInv, WillIndex
  <2>2. CASE index' # caption.vtt /\ index = caption.vtt
    BY <1>7, <2>2 DEF ReplaceSearchChunks, IndexInv
  <2>3. CASE index' # caption.vtt /\ index # caption.vtt
    <3>1. crossed' = crossed /\ hand[j].at = "replace" /\ hand[j].got # caption.vtt
      BY <1>7, <2>3 DEF ReplaceSearchChunks, Body
    <3>2. TaskWill => TaskWill'
      <4>1. CASE j = IndexJob
        BY <1>5, <3>1, <4>1 DEF TaskWill
      <4>2. CASE j # IndexJob
        <5>1. hand'[IndexJob] = hand[IndexJob]
          BY <1>1, <1>2, <4>2 DEF MovesOn
        <5> QED BY <1>3, <5>1 DEF TaskWill
      <4> QED BY <4>1, <4>2
    <3> QED BY <1>3, <1>4, <2>3, <3>1, <3>2 DEF IndexInv, WillIndex
  <2> QED BY <2>1, <2>2, <2>3
<1>8. CASE ~ClearFails(j) /\ ~ReplaceSearchChunks(j)
  <2>1. /\ index' = index
        /\ "index" \in crossed => "index" \in crossed'
    BY <1>8 DEF FromCaptions, FindTrack, ReadTrack, GenerateChapters, StoreChapters,
       WriteChapters, contentVars
  <2>2. CASE j # IndexJob
    <3>1. hand'[IndexJob] = hand[IndexJob]
      BY <1>1, <1>2, <2>2 DEF MovesOn
    <3> QED BY <1>3, <1>4, <2>1, <3>1, IndexRest
  <2>3. CASE j = IndexJob
    <3>1. FindTrack(j) \/ ReadTrack(j)
      BY <1>1, <1>8, <2>3 DEF FromCaptions, GenerateChapters, StoreChapters, Body, IsKind
    <3>2. TaskWill'
      <4>1. CASE FindTrack(j)
        <5>1. Step(j, "read") \/ Skips(j)
          BY <4>1 DEF FindTrack
        <5>2. hand'[j].at = "read" \/ (hand'[j].at = "end" /\ hand'[j].out # "done")
          BY <1>1, <5>1, HandForms
        <5> QED BY <1>3, <1>5, <2>3, <5>2 DEF TaskWill
      <4>2. CASE ReadTrack(j) /\ caption.vtt = 0
        <5>1. hand'[j].at = "end" /\ hand'[j].out # "done"
          BY <1>1, <4>2, HandForms DEF ReadTrack
        <5> QED BY <1>3, <1>5, <2>3, <5>1 DEF TaskWill
      <4>3. CASE ReadTrack(j) /\ caption.vtt # 0
        <5>1. hand'[j].at = "replace" /\ hand'[j].got = caption.vtt
          BY <1>1, <2>3, <4>3, ReadForms
        <5> QED BY <1>3, <1>5, <2>3, <5>1 DEF TaskWill
      <4> QED BY <3>1, <4>1, <4>2, <4>3
    <3> QED BY <3>2 DEF IndexInv, WillIndex
  <2> QED BY <2>2, <2>3
<1> QED BY <1>6, <1>7, <1>8

(* A caption job: its track is new until the index job is chained. *)
LEMMA CaptionIndex ==
  ASSUME TypeInv, IndexInv, NEW j \in Jobs, AutoCaption(j)
  PROVE  IndexInv'
<1>1. /\ Shape /\ IndexJob \in Jobs /\ KindOf[IndexJob] = "search_index"
      /\ {"store", "record", "chainIndex", "chainContent", "chained", "end"} \subseteq HandSteps
      /\ Fresh \in Nat /\ 0 \in Nat
  BY JobsAssumption DEF TypeInv, HandSteps, Shape, Fresh
<1>2. MovesOn(j) /\ (enq' = enq \/ Chains(j))
  BY CaptionMoves DEF TypeInv
<1>3. /\ UNCHANGED <<index, wants, crossed, task>> /\ KindOf[j] = "caption"
  BY DEF AutoCaption, Transcribe, StoreVTT, AddCaption, Chain, Chained, Body, IsKind,
     contentVars
<1>4. hand'[IndexJob] = hand[IndexJob]
  BY <1>1, <1>2, <1>3 DEF MovesOn
<1>5. InFlight(IndexJob) => InFlight(IndexJob)'
  <2>1. enq' = enq \/ (enq[j].at = "idle" /\ \E q : enq' = [enq EXCEPT ![j] = q])
    BY <1>2 DEF Chains
  <2>2. \A a \in Enqueuers : enq[a].at # "idle" => enq'[a] = enq[a]
    BY <1>1, <2>1 DEF Shape
  <2> QED BY <2>2 DEF InFlight
<1>6. CASE StoreVTT(j) \/ AddCaption(j)
  <2>1. hand'[j].at \in {"record", "chainIndex"}
    BY <1>1, <1>6, HandForms DEF StoreVTT, AddCaption, Goes
  <2>2. Writing'
    BY <2>1 DEF Writing
  <2> QED BY <2>2 DEF IndexInv, WillIndex
<1>7. CASE Chain(j, "chainIndex", IndexJob, "chainContent")
  <2>1. CASE IndexJob \in wants
    <3>1. enq' = [enq EXCEPT ![j] = [at |-> "enqueue", job |-> IndexJob, arg |-> 0]]
      BY <1>7, <2>1 DEF Chain
    <3>2. enq'[j].job = IndexJob /\ enq'[j].at = "enqueue" /\ j \in Enqueuers
      BY <1>1, <3>1 DEF Shape, Enqueuers
    <3>3. InFlight(IndexJob)'
      BY <3>2 DEF InFlight
    <3> QED BY <3>3 DEF IndexInv, WillIndex
  <2>2. CASE IndexJob \notin wants
    BY <1>3, <2>2 DEF IndexInv
  <2> QED BY <2>1, <2>2
<1>8. CASE Transcribe(j) \/ Chain(j, "chainContent", ContentJob, "chained") \/ Chained(j)
  <2>1. hand[j].at \notin {"record", "chainIndex"} /\ caption' = caption
    BY <1>8 DEF Transcribe, Chain, Chained, Body, contentVars
  <2>2. Writing => Writing'
    BY <1>2, <2>1, OthersWrite DEF MovesOn
  <2> QED BY <1>3, <1>4, <1>5, <2>1, <2>2, IndexRest
<1> QED BY <1>6, <1>7, <1>8 DEF AutoCaption

LEMMA BodyIndex ==
  ASSUME TypeInv, IndexInv, NEW j \in Jobs, BodyStep(j)
  PROVE  IndexInv'
<1>1. /\ Shape /\ HandsLeased /\ IndexJob \in Jobs /\ KindOf[IndexJob] = "search_index"
  BY JobsAssumption DEF TypeInv
<1>2. CASE Encrypt(j) \/ PosterFrame(j)
  <2>1. /\ MovesOn(j) /\ enq' = enq
    BY <1>1, <1>2, EncryptMoves, PosterMoves
  <2>2. /\ KindOf[j] \in {"encrypt", "poster"}
        /\ hand[j].at \notin {"record", "chainIndex"}
        /\ UNCHANGED <<index, caption, wants>>
        /\ "index" \in crossed => "index" \in crossed'
    BY <1>2 DEF Encrypt, BuildEncrypted, UploadPlaylists, UploadSegments, SaveContentKey,
       PosterFrame, GrabFrame, UploadFrame, SetThumbnail, Body, IsKind
  <2>3. hand'[IndexJob] = hand[IndexJob] /\ task' = task
    BY <1>1, <2>1, <2>2 DEF MovesOn
  <2>4. Writing => Writing'
    BY <2>1, <2>2, OthersWrite DEF MovesOn
  <2>5. InFlight(IndexJob) => InFlight(IndexJob)'
    BY <2>1 DEF InFlight
  <2> QED BY <2>2, <2>3, <2>4, <2>5, IndexRest
<1>3. CASE BodyFails(j)
  <2>1. /\ hand'[j].at = "end" /\ hand'[j].out # "done"
        /\ \A i \in Jobs : i # j => hand'[i] = hand[i]
    <3>1. "end" \in HandSteps /\ 0 \in Nat /\ Fails(j)
      BY <1>3 DEF HandSteps, BodyFails
    <3> QED BY <1>1, <3>1, HandForms
  <2>2. /\ UNCHANGED <<task, enq, index, caption, wants>>
        /\ "index" \in crossed => "index" \in crossed'
    BY <1>3 DEF BodyFails
  <2>3. CASE hand[j].at \in {"record", "chainIndex"}
    BY <1>3, <2>3 DEF BodyFails, LeftHalf, IndexInv
  <2>4. CASE j = IndexJob
    <3>1. task[j].state = "active"
      BY <1>1, <1>3 DEF BodyFails, HandsLeased
    <3>2. TaskWill'
      BY <2>1, <2>2, <2>4, <3>1 DEF TaskWill
    <3> QED BY <3>2 DEF IndexInv, WillIndex
  <2>5. CASE j # IndexJob /\ hand[j].at \notin {"record", "chainIndex"}
    <3>1. Writing => Writing'
      BY <2>1, <2>5, OthersWrite
    <3>2. InFlight(IndexJob) => InFlight(IndexJob)'
      BY <2>2 DEF InFlight
    <3> QED BY <1>1, <2>1, <2>2, <2>5, <3>1, <3>2, IndexRest
  <2> QED BY <2>3, <2>4, <2>5
<1> QED BY <1>2, <1>3, CaptionIndex, FromCaptionsIndex DEF BodyStep, Work

(* Requests, edits and transcodes. *)
LEMMA RestIndex ==
  ASSUME TypeInv, IndexInv,
         \/ \E r \in Askers : AskForJob(r) \/ Edit(r)
         \/ Transcode \/ UNCHANGED vars
  PROVE  IndexInv'
<1>1. ASSUME NEW r \in Askers, AskForJob(r)
      PROVE  IndexInv'
  <2>1. PICK j \in Jobs, arg \in {0, Fresh} :
          /\ enq[r].at = "idle"
          /\ enq' = [enq EXCEPT ![r] = [at |-> "row", job |-> j, arg |-> arg]]
          /\ UNCHANGED <<task, hand, index, wants, crossed, caption>>
    BY <1>1, AskMoves DEF TypeInv
  <2>2. \A b \in Enqueuers : enq[b].at # "idle" => enq'[b] = enq[b]
    BY <2>1 DEF TypeInv, Shape
  <2>3. InFlight(IndexJob) => InFlight(IndexJob)'
    BY <2>2 DEF InFlight
  <2>4. Writing => Writing'
    BY <2>1 DEF Writing
  <2> QED BY <2>1, <2>3, <2>4, IndexRest
<1>2. ASSUME UNCHANGED <<task, hand, enq, index, wants>>, caption'.vtt = caption.vtt,
             "index" \in crossed => "index" \in crossed'
      PROVE  IndexInv'
  BY <1>2, IndexRest DEF Writing, InFlight
<1>3. ASSUME NEW r \in Askers, Edit(r)
      PROVE  IndexInv'
  <2>1. UNCHANGED <<task, hand, enq, index, wants>>
    BY <1>3, EditMoves
  <2>2. CASE UploadCaption(r) \/ RemoveTrack(r)
    BY <2>2 DEF UploadCaption, RemoveTrack, IndexInv
  <2>3. CASE RecordCaption(r) \/ DeleteCaption(r)
    <3>1. caption'.vtt = caption.vtt /\ crossed' = crossed
      BY <2>3 DEF RecordCaption, DeleteCaption, TypeInv, Shape, Tracks
    <3> QED BY <1>2, <2>1, <3>1
  <2>4. CASE ~(UploadCaption(r) \/ RemoveTrack(r) \/ RecordCaption(r) \/ DeleteCaption(r))
    <3>1. caption' = caption /\ ("index" \in crossed => "index" \in crossed')
      BY <1>3, <2>4 DEF Edit, PutPoster, ShowPoster, RemoveOldCustomPoster, SetChapters,
         PutChapters, EditFails, WriteChapters
    <3> QED BY <1>2, <2>1, <3>1
  <2> QED BY <2>2, <2>3, <2>4
<1>4. CASE Transcode \/ UNCHANGED vars
  <2>1. UNCHANGED <<task, hand, enq, index, wants, caption, crossed>>
    BY <1>4 DEF Transcode, StartTranscode, SetTranscoding, UploadLadder, SetFinished,
       Transcodes, queueVars, contentVars, vars
  <2> QED BY <1>2, <2>1
<1> QED BY <1>1, <1>3, <1>4

(* A track that a caption job has stored is indexed, when nothing is left that *)
(* would still index it, whatever index and caption jobs run beside; but for   *)
(* tracks that an admin uploads or removes, caption jobs cut off before they   *)
(* chained, enqueues that were lost or absorbed by an attempt with the old     *)
(* track in hand, an index written over by the other index job, and a clearing *)
(* that failed unseen (worker/caption.go: handleAutoCaption,                   *)
(* worker/search_index.go: handleBuildSearchIndex): from the storing on, a     *)
(* caption job, then an enqueue, then a task is on its way to that track.      *)
THEOREM IndexIsFollowed == Spec => []IndexFollowsCaption
<1> DEFINE I == TypeInv /\ IndexInv
<1>1. I => IndexFollowsCaption
  BY DEF IndexInv, WillIndex, TaskWill, Writing, InFlight, IndexFollowsCaption, Enqueuers
<1>2. Init => I
  <2>1. ASSUME Init PROVE index = caption.vtt
    BY <2>1 DEF Init
  <2> QED BY <2>1, InitTypes DEF IndexInv, WillIndex
<1>3. I /\ [Next]_vars => I'
  BY Steps, TypesKept, EnqueueIndex, SetQueuedIndex, AttemptIndex, BodyIndex, RestIndex
<1> QED BY <1>1, <1>2, <1>3, PTL DEF Spec
=============================================================================
