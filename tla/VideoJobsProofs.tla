---------------------------- MODULE VideoJobsProofs ----------------------------
(***************************************************************************)
(* Proofs about VideoJobs, for any number of requests, askers, faults,      *)
(* retries and transcodes, any wishes, and any number of tasks of one kind,  *)
(* with the row they share.                                                  *)
(***************************************************************************)
EXTENDS VideoJobs, TLAPS

Enqueuers == Askers \cup Jobs

-----------------------------------------------------------------------------
(* Types. *)

HandSteps ==
  {"idle", "begin", "playlists", "segments", "save", "upload", "thumbnail", "store",
   "record", "chainIndex", "chainContent", "chained", "read", "replace", "generate",
   "file", "end", "ack"}

Tasks == [state : {"none", "waiting", "active", "archived"}, retried : Nat, arg : Nat]
Hands == [at : HandSteps, out : {"done", "error", "skip"}, got : Nat]
Enqs == [at : {"idle", "row", "enqueue", "inspect", "delete", "again"}, job : Jobs,
         arg : Nat]
Tracks == [row : BOOLEAN, vtt : Nat]

Shape ==
  /\ op \in [Kinds -> {"none", "queued", "running", "done", "failed"}]
  /\ task \in [Jobs -> Tasks]
  /\ hand \in [Jobs -> Hands]
  /\ enq \in [Enqueuers -> Enqs]
  /\ drawn \in Nat
  /\ caption \in Tracks

(* The forms in which the steps of a handler change it. *)
LEMMA HandForms ==
  ASSUME Shape, NEW j \in Jobs, NEW at \in HandSteps, NEW got \in Nat
  PROVE  /\ Step(j, at) =>
              /\ hand' \in [Jobs -> Hands]
              /\ \A i \in Jobs : i # j => hand'[i] = hand[i]
              /\ hand'[j].at = at /\ hand'[j].out = hand[j].out
              /\ hand'[j].got = hand[j].got
         /\ Holds(j, at, got) =>
              /\ hand' \in [Jobs -> Hands]
              /\ \A i \in Jobs : i # j => hand'[i] = hand[i]
              /\ hand'[j].at = at /\ hand'[j].out = hand[j].out /\ hand'[j].got = got
         /\ Fails(j) \/ Skips(j) =>
              /\ hand' \in [Jobs -> Hands]
              /\ \A i \in Jobs : i # j => hand'[i] = hand[i]
              /\ hand'[j].at = "end" /\ hand'[j].out # "done"
              /\ hand'[j].got = hand[j].got
<1>1. PICK h \in Hands : h = hand[j]
  BY DEF Shape
<1>2. ASSUME NEW g \in Hands, hand' = [hand EXCEPT ![j] = g]
      PROVE  /\ hand' \in [Jobs -> Hands] /\ hand'[j] = g
             /\ \A i \in Jobs : i # j => hand'[i] = hand[i]
  BY <1>2 DEF Shape
<1>3. ASSUME Step(j, at)
      PROVE  /\ hand' \in [Jobs -> Hands]
             /\ \A i \in Jobs : i # j => hand'[i] = hand[i]
             /\ hand'[j].at = at /\ hand'[j].out = hand[j].out
             /\ hand'[j].got = hand[j].got
  <2>1. hand' = [hand EXCEPT ![j] = [h EXCEPT !.at = at]]
    BY <1>1, <1>3, Zenon DEF Step
  <2>2. PICK g \in Hands : g = [h EXCEPT !.at = at]
    BY DEF Hands
  <2>3. g.at = at /\ g.out = h.out /\ g.got = h.got
    BY <2>2 DEF Hands
  <2> QED BY <1>1, <1>2, <2>1, <2>2, <2>3
<1>4. ASSUME Holds(j, at, got)
      PROVE  /\ hand' \in [Jobs -> Hands]
             /\ \A i \in Jobs : i # j => hand'[i] = hand[i]
             /\ hand'[j].at = at /\ hand'[j].out = hand[j].out /\ hand'[j].got = got
  <2>1. PICK g \in Hands : g = [h EXCEPT !.at = at, !.got = got]
    BY DEF Hands
  <2>2. g.at = at /\ g.out = h.out /\ g.got = got
    BY <2>1 DEF Hands
  <2>3. hand' = [hand EXCEPT ![j] = g]
    BY <1>1, <1>4, <2>1 DEF Holds, Shape
  <2> QED BY <1>1, <1>2, <2>2, <2>3
<1>5. ASSUME Fails(j) \/ Skips(j)
      PROVE  /\ hand' \in [Jobs -> Hands]
             /\ \A i \in Jobs : i # j => hand'[i] = hand[i]
             /\ hand'[j].at = "end" /\ hand'[j].out # "done"
             /\ hand'[j].got = hand[j].got
  <2>1. PICK o \in {"error", "skip"} :
          hand' = [hand EXCEPT ![j].at = "end", ![j].out = o]
    BY <1>5 DEF Fails, Skips
  <2>2. PICK g \in Hands : g = [h EXCEPT !.at = "end", !.out = o]
    BY DEF Hands, HandSteps
  <2>3. g.at = "end" /\ g.out = o /\ g.got = h.got
    BY <2>2 DEF Hands
  <2>4. hand' = [hand EXCEPT ![j] = g]
    BY <1>1, <2>1, <2>2 DEF Shape
  <2> QED BY <1>1, <1>2, <2>2, <2>3, <2>4
<1> QED BY <1>3, <1>4, <1>5

LEMMA TrackForms ==
  ASSUME NEW c \in Tracks, NEW n \in Nat
  PROVE  /\ [c EXCEPT !.vtt = n] \in Tracks
         /\ [c EXCEPT !.row = TRUE] \in Tracks
         /\ [c EXCEPT !.row = FALSE] \in Tracks
         /\ c.vtt \in Nat
  BY DEF Tracks
-----------------------------------------------------------------------------
(* Steps that are no business of the queue's. *)

Aside ==
  /\ UNCHANGED <<op, task, slips>>
  /\ hand' \in [Jobs -> Hands]
  /\ \A i \in Jobs : /\ hand'[i].at = "idle" <=> hand[i].at = "idle"
                     /\ hand'[i].at = "ack" <=> hand[i].at = "ack"
  /\ enq' \in [Enqueuers -> Enqs]
  /\ \A a \in Enqueuers : enq[a].at # "idle" => enq'[a] = enq[a]
  /\ drawn' \in Nat /\ caption' \in Tracks

LEMMA EncryptAside ==
  ASSUME Shape, NEW j \in Jobs, Encrypt(j)
  PROVE  Aside
<1>1. drawn' \in Nat /\ caption' = caption /\ enq' = enq
  BY DEF Shape, Encrypt, BuildEncrypted, UploadPlaylists, UploadSegments,
     SaveContentKey, Fresh, Goes, Holds
<1>2. /\ hand[j].at \in {"begin", "playlists", "segments", "save"}
      /\ UNCHANGED <<op, task, slips>>
  BY DEF Encrypt, BuildEncrypted, UploadPlaylists, UploadSegments, SaveContentKey, Body
<1>3. \/ \E at \in {"segments", "save", "end"} : Step(j, at)
      \/ Holds(j, "playlists", Fresh)
  BY DEF Encrypt, BuildEncrypted, UploadPlaylists, UploadSegments, SaveContentKey, Goes
<1>4. Fresh \in Nat
  BY DEF Shape, Fresh
<1>5. {"segments", "save", "end", "playlists"} \subseteq HandSteps
  BY DEF HandSteps
<1>6. /\ hand' \in [Jobs -> Hands]
      /\ \A i \in Jobs : i # j => hand'[i] = hand[i]
      /\ hand'[j].at \in {"segments", "save", "end", "playlists"}
  BY <1>3, <1>4, <1>5, HandForms
<1> QED BY <1>1, <1>2, <1>6 DEF Aside, Shape

LEMMA PosterAside ==
  ASSUME Shape, NEW j \in Jobs, PosterFrame(j)
  PROVE  Aside
<1>1. drawn' = drawn /\ caption' = caption /\ enq' = enq
  BY DEF PosterFrame, GrabFrame, UploadFrame, SetThumbnail, Goes
<1>2. hand[j].at \in {"begin", "upload", "thumbnail"} /\ UNCHANGED <<op, task, slips>>
  BY DEF PosterFrame, GrabFrame, UploadFrame, SetThumbnail, Body
<1>3. \E at \in {"upload", "thumbnail", "end"} : Step(j, at)
  BY DEF PosterFrame, GrabFrame, UploadFrame, SetThumbnail, Goes
<1>4. {"upload", "thumbnail", "end"} \subseteq HandSteps
  BY DEF HandSteps
<1>5. /\ hand' \in [Jobs -> Hands]
      /\ \A i \in Jobs : i # j => hand'[i] = hand[i]
      /\ hand'[j].at \in {"upload", "thumbnail", "end"}
  BY <1>3, <1>4, HandForms
<1> QED BY <1>1, <1>2, <1>5 DEF Aside, Shape

LEMMA CaptionAside ==
  ASSUME Shape, NEW j \in Jobs, AutoCaption(j)
  PROVE  Aside
<1> DEFINE later == {"store", "record", "chainIndex", "chainContent", "chained", "end"}
<1>1. drawn' \in Nat
  BY DEF Shape, AutoCaption, Transcribe, StoreVTT, AddCaption, Chain, Chained,
     contentVars, Fresh
<1>2. caption' \in Tracks
  <2>1. PICK c \in Tracks : c = caption
    BY DEF Shape
  <2>2. PICK n \in Nat : n = hand[j].got
    BY DEF Shape, Hands
  <2>3. \/ caption' = c \/ caption' = [c EXCEPT !.vtt = n]
        \/ caption' = [c EXCEPT !.row = TRUE]
    BY <2>1, <2>2, Zenon DEF AutoCaption, Transcribe, StoreVTT, AddCaption, Chain,
       Chained, contentVars
  <2> QED BY <2>3, TrackForms
<1>3. /\ hand[j].at \in {"begin", "store", "record", "chainIndex", "chainContent", "chained"}
      /\ UNCHANGED <<op, task, slips>>
  BY DEF AutoCaption, Transcribe, StoreVTT, AddCaption, Chain, Chained, Body
<1>4. (\E at \in later : Step(j, at)) \/ Holds(j, "store", Fresh)
  BY DEF AutoCaption, Transcribe, StoreVTT, AddCaption, Chain, Chained, Goes
<1>5. later \subseteq HandSteps
  BY DEF HandSteps
<1>6. /\ hand' \in [Jobs -> Hands]
      /\ \A i \in Jobs : i # j => hand'[i] = hand[i]
      /\ hand'[j].at \in later
  <2>1. Fresh \in Nat
    BY DEF Shape, Fresh
  <2> QED BY <1>4, <1>5, <2>1, HandForms
<1>7. \/ enq' = enq
      \/ /\ enq[j].at = "idle"
         /\ \E i \in {IndexJob, ContentJob} :
              enq' = [enq EXCEPT ![j] = [at |-> "enqueue", job |-> i, arg |-> 0]]
  BY DEF AutoCaption, Transcribe, StoreVTT, AddCaption, Chain, Chained, Goes, Holds
<1>8. /\ enq' \in [Enqueuers -> Enqs]
      /\ \A a \in Enqueuers : enq[a].at # "idle" => enq'[a] = enq[a]
  <2>1. \A i \in {IndexJob, ContentJob} : [at |-> "enqueue", job |-> i, arg |-> 0] \in Enqs
    BY JobsAssumption DEF Enqs
  <2> QED BY <1>7, <2>1 DEF Shape, Enqueuers
<1> QED BY <1>1, <1>2, <1>3, <1>6, <1>8 DEF Aside

LEMMA FromCaptionsAside ==
  ASSUME Shape, NEW j \in Jobs, FromCaptions(j)
  PROVE  Aside
<1>1. drawn' \in Nat /\ caption' = caption /\ enq' = enq
  BY DEF Shape, FromCaptions, FindTrack, ReadTrack, ReplaceSearchChunks,
     ClearFails, GenerateChapters, StoreChapters, contentVars, Fresh, Goes, Holds
<1>2. /\ hand[j].at \in {"begin", "read", "replace", "generate", "file"}
      /\ UNCHANGED <<op, task, slips>>
  BY DEF FromCaptions, FindTrack, ReadTrack, ReplaceSearchChunks, ClearFails,
     GenerateChapters, StoreChapters, Body
<1>3. \/ \E at \in {"read", "end"} : Step(j, at)
      \/ Fails(j) \/ Skips(j)
      \/ \E at \in {"replace", "generate", "file"}, got \in {caption.vtt, Fresh} :
           hand' = [hand EXCEPT ![j].at = at, ![j].got = got]
  <2>1. CASE ReadTrack(j)
    <3>1. CASE caption.vtt # 0
      <4>1. PICK at \in {"replace", "generate"} :
              at = IF IsKind(j, "search_index") THEN "replace" ELSE "generate"
        OBVIOUS
      <4>2. hand' = [hand EXCEPT ![j].got = caption.vtt, ![j].at = at]
        BY <2>1, <3>1, <4>1, Zenon DEF ReadTrack
      <4>3. PICK h \in Hands : h = hand[j]
        BY DEF Shape
      <4>4. PICK n \in Nat : n = caption.vtt
        BY TrackForms DEF Shape
      <4>5. [h EXCEPT !.got = n, !.at = at] = [h EXCEPT !.at = at, !.got = n]
        BY DEF Hands
      <4>6. hand' = [hand EXCEPT ![j].at = at, ![j].got = caption.vtt]
        BY <4>2, <4>3, <4>4, <4>5 DEF Shape
      <4> QED BY <4>6
    <3>2. CASE caption.vtt = 0
      BY <2>1, <3>2 DEF ReadTrack
    <3> QED BY <3>1, <3>2
  <2>2. CASE ~ReadTrack(j)
    BY <2>2 DEF FromCaptions, FindTrack, ReplaceSearchChunks, ClearFails,
       GenerateChapters, StoreChapters, Goes, Holds
  <2> QED BY <2>1, <2>2
<1>4. {"read", "end", "replace", "generate", "file"} \subseteq HandSteps
  BY DEF HandSteps
<1>5. /\ hand' \in [Jobs -> Hands]
      /\ \A i \in Jobs : i # j => hand'[i] = hand[i]
      /\ hand'[j].at \in {"read", "end", "replace", "generate", "file"}
  <2>1. CASE (\E at \in {"read", "end"} : Step(j, at)) \/ Fails(j) \/ Skips(j)
    BY <1>4, <2>1, HandForms
  <2>2. ASSUME NEW at \in {"replace", "generate", "file"}, NEW got \in {caption.vtt, Fresh},
               hand' = [hand EXCEPT ![j].at = at, ![j].got = got]
        PROVE  /\ hand' \in [Jobs -> Hands]
               /\ \A i \in Jobs : i # j => hand'[i] = hand[i]
               /\ hand'[j].at \in {"read", "end", "replace", "generate", "file"}
    <3> caption.vtt \in Nat
      BY TrackForms DEF Shape
    <3> Fresh \in Nat
      BY DEF Shape, Fresh
    <3>1. PICK n \in Nat : n = got
      OBVIOUS
    <3>2. hand' = [hand EXCEPT ![j].at = at, ![j].got = n]
      BY <2>2, <3>1, Zenon
    <3>3. PICK h \in Hands : h = hand[j]
      BY DEF Shape
    <3>4. PICK g \in Hands : g = [h EXCEPT !.at = at, !.got = n]
      BY <1>4 DEF Hands
    <3>5. hand' = [hand EXCEPT ![j] = g] /\ g.at = at
      BY <3>2, <3>3, <3>4 DEF Shape, Hands
    <3> QED BY <3>5 DEF Shape
  <2> QED BY <1>3, <2>1, <2>2
<1> QED BY <1>1, <1>2, <1>5 DEF Aside, Shape
LEMMA FailureAside ==
  ASSUME Shape, NEW j \in Jobs, BodyFails(j)
  PROVE  Aside
<1>1. drawn' = drawn /\ caption' = caption /\ enq' = enq /\ UNCHANGED <<op, task, slips>>
  BY DEF BodyFails
<1>2. hand[j].at \notin {"idle", "ack"} /\ Fails(j)
  BY DEF BodyFails
<1>3. /\ hand' \in [Jobs -> Hands]
      /\ \A i \in Jobs : i # j => hand'[i] = hand[i]
      /\ hand'[j].at = "end"
  <2>1. "end" \in HandSteps /\ 0 \in Nat
    BY DEF HandSteps
  <2> QED BY <1>2, <2>1, HandForms
<1> QED BY <1>1, <1>2, <1>3 DEF Aside, Shape

LEMMA EditAside ==
  ASSUME Shape, NEW r \in Askers, Edit(r)
  PROVE  Aside
<1>1. UNCHANGED <<op, task, hand, slips, enq>>
  BY DEF Edit, PutPoster, ShowPoster, RemoveOldCustomPoster, SetChapters, PutChapters,
     UploadCaption, RecordCaption, DeleteCaption, RemoveTrack, EditFails, StartsEdit,
     GoesOn, queueVars
<1>2. drawn' \in Nat
  BY DEF Shape, Edit, PutPoster, ShowPoster, RemoveOldCustomPoster, SetChapters,
     PutChapters, UploadCaption, RecordCaption, DeleteCaption, RemoveTrack, EditFails,
     StartsEdit, GoesOn, Fresh
<1>3. caption' \in Tracks
  <2>1. PICK c \in Tracks : c = caption
    BY DEF Shape
  <2>2. PICK n \in Nat : n = Fresh
    BY DEF Shape, Fresh
  <2>3. \/ caption' = c \/ caption' = [c EXCEPT !.vtt = n] \/ caption' = [c EXCEPT !.vtt = 0]
        \/ caption' = [c EXCEPT !.row = TRUE] \/ caption' = [c EXCEPT !.row = FALSE]
    <3>1. CASE UploadCaption(r)
      BY <2>1, <2>2, <3>1, Zenon DEF UploadCaption
    <3>2. CASE RecordCaption(r) \/ DeleteCaption(r) \/ RemoveTrack(r)
      BY <2>1, <3>2, Zenon DEF RecordCaption, DeleteCaption, RemoveTrack
    <3>3. CASE UNCHANGED caption
      BY <2>1, <3>3
    <3> QED
      BY <3>1, <3>2, <3>3 DEF Edit, PutPoster, ShowPoster, RemoveOldCustomPoster,
         SetChapters, PutChapters, EditFails
  <2> QED BY <2>3, TrackForms
<1> QED BY <1>1, <1>2, <1>3 DEF Aside, Shape

LEMMA AskAside ==
  ASSUME Shape, NEW r \in Askers, AskForJob(r)
  PROVE  Aside
<1>1. \E j \in Jobs, arg \in {0, Fresh} : Ask(r, j, arg)
  BY DEF AskForJob, AskEncrypt, AskCaption, AskPoster, AskReindex, AskContent, AsksFor
<1>2. drawn' \in Nat /\ caption' = caption
  BY DEF Shape, AskForJob, AskEncrypt, AskCaption, AskPoster, AskReindex, AskContent, AsksFor, Fresh
<1>3. /\ UNCHANGED <<op, task, hand, slips>> /\ enq[r].at = "idle"
      /\ \E q \in Enqs : enq' = [enq EXCEPT ![r] = q]
  <2>1. PICK j \in Jobs, arg \in {0, Fresh} : Ask(r, j, arg)
    BY <1>1
  <2>2. arg \in Nat
    BY <2>1 DEF Shape, Fresh
  <2>3. [at |-> "row", job |-> j, arg |-> arg] \in Enqs
    BY <2>2 DEF Enqs
  <2> QED BY <2>1, <2>3 DEF Ask
<1>4. /\ enq' \in [Enqueuers -> Enqs]
      /\ \A a \in Enqueuers : enq[a].at # "idle" => enq'[a] = enq[a]
  BY <1>3 DEF Shape, Enqueuers
<1> QED BY <1>2, <1>3, <1>4 DEF Aside, Shape

LEMMA TranscodeAside ==
  ASSUME Shape, Transcode \/ UNCHANGED vars
  PROVE  Aside
  BY DEF Transcode, StartTranscode, SetTranscoding, UploadLadder, SetFinished, Transcodes, Shape, Aside,
     vars, queueVars, contentVars
-----------------------------------------------------------------------------
(* The invariant of the queue, kind by kind: the tasks of a kind share a row. *)

(* The row waits for a word that neither fault nor late enqueue has cost it. *)
Owed(k) == op[k] \in {"queued", "running"} /\ k \notin slips

HandsLeased == \A j \in Jobs : hand[j].at # "idle" => task[j].state = "active"

(* A task that will still have a word written.                                *)
Carries(j) == TaskLive(j) /\ hand[j].at # "ack"

(* An enqueue that will see to it that there is one: whoever finds an archived *)
(* task deletes it, and whoever has deleted it submits.                       *)
Brings(a) ==
  \/ enq[a].at \in {"row", "enqueue", "inspect"}
  \/ enq[a].at = "delete" /\ hand[enq[a].job].at # "ack"
  \/ enq[a].at = "again" /\ task[enq[a].job].state = "none"

Someone(k) ==
  \/ \E j \in Jobs : KindOf[j] = k /\ Carries(j)
  \/ \E a \in Enqueuers : KindOf[enq[a].job] = k /\ Brings(a)

QueueInv == Shape /\ HandsLeased /\ \A k \in Kinds : Owed(k) => Someone(k)

(* What a step of the queue leaves of the contents. *)
ContentsStay ==
  UNCHANGED <<drawn, ladder, key, thumbnail, posters, main, caption, index, chapters,
              edit, wants, shown>>

LEMMA InitQueue == Init => QueueInv
<1> SUFFICES ASSUME Init PROVE QueueInv
  OBVIOUS
<1>1. Shape
  <2>1. (CHOOSE j \in Jobs : TRUE) \in Jobs
    BY JobsAssumption
  <2>2. NoTask \in Tasks /\ IdleHand \in Hands /\ IdleEnq \in Enqs
    BY <2>1 DEF NoTask, IdleHand, IdleEnq, Tasks, Hands, Enqs, HandSteps
  <2>3. caption \in Tracks
    BY DEF Init, Tracks
  <2>4. /\ op \in [Kinds -> {"none", "queued", "running", "done", "failed"}]
        /\ task \in [Jobs -> Tasks] /\ hand \in [Jobs -> Hands]
        /\ enq \in [Enqueuers -> Enqs] /\ drawn \in Nat
    BY <2>2 DEF Init, QueueInit, Enqueuers
  <2> QED BY <2>3, <2>4 DEF Shape
<1>2. HandsLeased
  BY DEF HandsLeased, Init, QueueInit, IdleHand
<1>3. \A k \in Kinds : ~Owed(k)
  BY DEF Init, QueueInit, Owed
<1> QED BY <1>1, <1>2, <1>3 DEF QueueInv

LEMMA AsideKeeps ==
  ASSUME QueueInv, Aside
  PROVE  QueueInv'
<1>1. Shape /\ Shape'
  BY DEF QueueInv, Shape, Aside, Enqueuers
<1>2. HandsLeased'
  BY DEF QueueInv, HandsLeased, Aside
<1>3. ASSUME NEW k \in Kinds, Owed(k)'
      PROVE  Someone(k)'
  <2>1. Someone(k)
    BY <1>3 DEF QueueInv, Owed, Aside
  <2>2. ASSUME NEW j \in Jobs, Carries(j)
        PROVE  Carries(j)'
    BY <2>2 DEF Carries, TaskLive, Aside
  <2>3. ASSUME NEW a \in Enqueuers, Brings(a)
        PROVE  enq'[a] = enq[a] /\ Brings(a)'
    <3>1. enq[a].job \in Jobs
      BY <1>1 DEF Shape, Enqs
    <3>2. enq'[a] = enq[a]
      BY <2>3 DEF Brings, Aside
    <3> QED BY <2>3, <3>1, <3>2 DEF Brings, Aside
  <2> QED BY <2>1, <2>2, <2>3 DEF Someone
<1> QED BY <1>1, <1>2, <1>3 DEF QueueInv
-----------------------------------------------------------------------------
(* The calls of enqueueIdempotent. *)

LEMMA EnqForms ==
  ASSUME Shape, NEW a \in Enqueuers,
         NEW at \in {"idle", "row", "enqueue", "inspect", "delete", "again"}
  PROVE  /\ Leave(a) =>
              /\ enq' \in [Enqueuers -> Enqs]
              /\ enq'[a].at = "idle" /\ enq'[a].arg = 0
              /\ \A b \in Enqueuers : b # a => enq'[b] = enq[b]
         /\ Proceed(a, at) =>
              /\ enq' \in [Enqueuers -> Enqs]
              /\ enq'[a].at = at /\ enq'[a].job = enq[a].job
              /\ enq'[a].arg = enq[a].arg
              /\ \A b \in Enqueuers : b # a => enq'[b] = enq[b]
<1>1. PICK q \in Enqs : q = enq[a]
  BY DEF Shape
<1>2. IdleEnq \in Enqs /\ IdleEnq.at = "idle" /\ IdleEnq.arg = 0
  <2>1. (CHOOSE j \in Jobs : TRUE) \in Jobs
    BY JobsAssumption
  <2> QED BY <2>1 DEF IdleEnq, Enqs
<1>3. PICK p \in Enqs : p = [q EXCEPT !.at = at]
  BY DEF Enqs
<1>4. p.at = at /\ p.job = q.job /\ p.arg = q.arg
  BY <1>3 DEF Enqs
<1>5. Proceed(a, at) => enq' = [enq EXCEPT ![a] = p]
  BY <1>1, <1>3, Zenon DEF Proceed
<1>6. Leave(a) => enq' = [enq EXCEPT ![a] = IdleEnq]
  BY DEF Leave
<1> QED BY <1>1, <1>2, <1>4, <1>5, <1>6 DEF Shape

LEMMA EnqueueShape ==
  ASSUME Shape, NEW a \in Enqueuers,
         EnqueueIdempotent(a) \/ (a \in Askers /\ RequestStops(a)),
         ContentsStay
  PROVE  /\ Shape'
         /\ \A b \in Enqueuers : b # a => enq'[b] = enq[b]
         /\ hand' = hand /\ op' = op /\ slips \subseteq slips'
         /\ \A i \in Jobs : i # enq[a].job => task'[i] = task[i]
<1>1. hand' = hand /\ op' = op
  BY DEF EnqueueIdempotent, Enqueue, Inspect, Delete, Again, RequestStops
<1>2. slips \subseteq slips'
  BY DEF EnqueueIdempotent, Enqueue, Inspect, Delete, Again, RequestStops, GiveUp,
     Absorb, Submit
<1>3. Leave(a) \/ \E at \in {"inspect", "delete", "again"} : Proceed(a, at)
  BY DEF EnqueueIdempotent, Enqueue, Inspect, Delete, Again, RequestStops, GiveUp,
     Absorb, Submit
<1>4. /\ enq' \in [Enqueuers -> Enqs]
      /\ \A b \in Enqueuers : b # a => enq'[b] = enq[b]
  BY <1>3, EnqForms
<1>5. enq[a] \in Enqs
  BY DEF Shape
<1>6. enq[a].job \in Jobs /\ NewTask(enq[a].arg) \in Tasks /\ NoTask \in Tasks
  BY <1>5 DEF Enqs, NewTask, NoTask, Tasks
<1>7. \/ task' = task
      \/ \E t \in Tasks : task' = [task EXCEPT ![enq[a].job] = t]
  BY <1>6 DEF EnqueueIdempotent, Enqueue, Inspect, Delete, Again, RequestStops, GiveUp,
     Absorb, Submit
<1>8. /\ task' \in [Jobs -> Tasks]
      /\ \A i \in Jobs : i # enq[a].job => task'[i] = task[i]
  BY <1>6, <1>7 DEF Shape
<1>9. drawn' = drawn /\ caption' = caption
  BY DEF ContentsStay
<1> QED BY <1>1, <1>2, <1>4, <1>8, <1>9 DEF Shape, Enqueuers

(* Every call either brings the job further, gives its row up, or was not what *)
(* the row was waiting for.                                                   *)
LEMMA EnqueueGoesOn ==
  ASSUME QueueInv, NEW a \in Enqueuers,
         EnqueueIdempotent(a) \/ (a \in Askers /\ RequestStops(a)),
         ContentsStay,
         NEW j \in Jobs, j = enq[a].job
  PROVE  \/ KindOf[j] \in slips'
         \/ Carries(j)'
         \/ enq'[a].job = j /\ Brings(a)'
         \/ ~Brings(a) /\ task' = task
<1>1. Shape /\ HandsLeased
  BY DEF QueueInv
<1>2. hand' = hand
  BY EnqueueShape DEF QueueInv
<1>3. task[j].state \in {"none", "waiting", "active", "archived"}
  BY <1>1 DEF Shape, Tasks
<1>4. CASE GiveUp(a)
  BY <1>4 DEF GiveUp
<1>5. CASE Absorb(a) /\ task[j].state # "archived"
  <2>1. task' = task /\ (task[j].state = "none" \/ hand[j].at = "ack" => KindOf[j] \in slips')
    BY <1>5 DEF Absorb
  <2> QED BY <1>2, <1>3, <1>5, <2>1 DEF Carries, TaskLive
<1>6. CASE Submit(a) /\ task[j].state = "none"
  <2>1. task'[j].state = "waiting"
    BY <1>1, <1>6 DEF Shape, Submit, NewTask
  <2>2. hand[j].at = "idle"
    BY <1>1, <1>6 DEF HandsLeased
  <2> QED BY <1>2, <2>1, <2>2 DEF Carries, TaskLive
<1>7. ASSUME NEW at \in {"inspect", "delete", "again"}, Proceed(a, at)
      PROVE  enq'[a].at = at /\ enq'[a].job = j
  BY <1>1, <1>7, EnqForms
<1>8. CASE Enqueue(a)
  BY <1>4, <1>6, <1>7, <1>8 DEF Enqueue, Brings
<1>9. CASE Inspect(a)
  <2>1. CASE task[j].state = "archived" /\ Proceed(a, "delete")
    <3>1. hand[j].at = "idle"
      BY <1>1, <2>1 DEF HandsLeased
    <3> QED BY <1>2, <1>7, <2>1, <3>1 DEF Brings
  <2> QED BY <1>4, <1>5, <1>9, <2>1 DEF Inspect
<1>10. CASE Delete(a)
  <2>1. enq[a].at = "delete" /\ enq'[a].at = "again" /\ enq'[a].job = j
    BY <1>7, <1>10 DEF Delete
  <2>2. CASE KindOf[j] \in slips'
    BY <2>2
  <2>3. CASE task[j].state = "active" /\ task' = task
    <3>1. CASE hand[j].at = "ack"
      BY <2>1, <2>3, <3>1 DEF Brings
    <3>2. CASE hand[j].at # "ack"
      BY <1>2, <2>3, <3>2 DEF Carries, TaskLive
    <3> QED BY <3>1, <3>2
  <2>4. CASE task' = [task EXCEPT ![j] = NoTask]
    <3>1. task'[j].state = "none"
      BY <1>1, <2>4 DEF Shape, NoTask
    <3> QED BY <2>1, <3>1 DEF Brings
  <2> QED BY <1>10, <2>2, <2>3, <2>4 DEF Delete
<1>11. CASE Again(a)
  <2>1. CASE task[j].state = "archived" /\ UNCHANGED task
    BY <1>11, <2>1 DEF Again, Brings
  <2> QED BY <1>4, <1>5, <1>6, <1>11, <2>1 DEF Again, TaskLive
<1>12. CASE RequestStops(a)
  BY <1>4, <1>12 DEF RequestStops
<1> QED BY <1>8, <1>9, <1>10, <1>11, <1>12 DEF EnqueueIdempotent

LEMMA EnqueueKept ==
  ASSUME QueueInv, NEW a \in Enqueuers,
         EnqueueIdempotent(a) \/ (a \in Askers /\ RequestStops(a)),
         ContentsStay
  PROVE  QueueInv'
<1>1. PICK j \in Jobs : j = enq[a].job
  BY DEF QueueInv, Shape, Enqs
<1>2. /\ Shape /\ Shape'
      /\ \A b \in Enqueuers : b # a => enq'[b] = enq[b]
      /\ hand' = hand /\ op' = op /\ slips \subseteq slips'
      /\ \A i \in Jobs : i # j => task'[i] = task[i]
  BY <1>1, EnqueueShape DEF QueueInv
<1>3. HandsLeased'
  <2>1. task[j].state = "active" => task'[j].state = "active"
    <3>1. CASE Submit(a)
      BY <1>1, <3>1 DEF EnqueueIdempotent, Enqueue, Inspect, Delete, Again, RequestStops,
         GiveUp, Absorb, Submit, TaskLive
    <3>2. CASE ~Submit(a)
      BY <1>1, <1>2, <3>2 DEF EnqueueIdempotent, Enqueue, Inspect, Delete, Again,
         RequestStops, GiveUp, Absorb, Shape
    <3> QED BY <3>1, <3>2
  <2> QED BY <1>2, <2>1 DEF QueueInv, HandsLeased
<1>4. ASSUME NEW k \in Kinds, Owed(k)'
      PROVE  Someone(k)'
  <2>1. Someone(k) /\ k \notin slips'
    BY <1>2, <1>4 DEF QueueInv, Owed
  <2>2. \A b \in Enqueuers : enq[b].job \in Jobs
    BY <1>2 DEF Shape, Enqs
  <2>3. ASSUME NEW i \in Jobs, Carries(i), i # j \/ task' = task
        PROVE  Carries(i)'
    BY <1>2, <2>3 DEF Carries, TaskLive
  <2>4. ASSUME NEW b \in Enqueuers, Brings(b), b # a, enq[b].job # j \/ task' = task
        PROVE  enq'[b] = enq[b] /\ Brings(b)'
    BY <1>2, <2>2, <2>4 DEF Brings
  <2>5. CASE KindOf[j] # k
    BY <1>1, <2>1, <2>3, <2>4, <2>5 DEF Someone
  <2>6. CASE KindOf[j] = k /\ (Carries(j)' \/ (enq'[a].job = j /\ Brings(a)'))
    BY <2>6 DEF Someone
  <2>7. CASE ~Brings(a) /\ task' = task
    BY <2>1, <2>3, <2>4, <2>7 DEF Someone
  <2> QED BY <1>1, <2>1, <2>5, <2>6, <2>7, EnqueueGoesOn
<1> QED BY <1>2, <1>3, <1>4 DEF QueueInv
-----------------------------------------------------------------------------
(* What else moves a task: a request's first call, and the attempts. *)

LEMMA SetQueuedKept ==
  ASSUME QueueInv, NEW r \in Askers, SetQueued(r), ContentsStay
  PROVE  QueueInv'
<1>1. PICK j \in Jobs : j = enq[r].job
  BY DEF QueueInv, Shape, Enqs, Enqueuers
<1>2. /\ task' = task /\ hand' = hand /\ slips' = slips
      /\ enq[r].at = "row" /\ r \in Enqueuers
      /\ op' = op \/ op' = [op EXCEPT ![KindOf[j]] = "queued"]
  BY <1>1 DEF SetQueued, Enqueuers
<1>3. /\ enq' \in [Enqueuers -> Enqs]
      /\ enq'[r].at = "enqueue" /\ enq'[r].job = j
      /\ \A b \in Enqueuers : b # r => enq'[b] = enq[b]
  <2>1. Proceed(r, "enqueue")
    BY DEF SetQueued
  <2> QED BY <1>1, <1>2, <2>1, EnqForms DEF QueueInv
<1>4. Shape'
  BY <1>2, <1>3 DEF QueueInv, Shape, ContentsStay, Enqueuers, Kinds
<1>5. HandsLeased'
  BY <1>2 DEF QueueInv, HandsLeased
<1>6. ASSUME NEW k \in Kinds, Owed(k)'
      PROVE  Someone(k)'
  <2>1. CASE k = KindOf[j]
    BY <1>2, <1>3, <2>1 DEF Someone, Brings
  <2>2. CASE k # KindOf[j]
    <3>1. Owed(k)
      BY <1>2, <1>6, <2>2 DEF Owed, QueueInv, Shape
    <3>2. ASSUME NEW i \in Jobs, Carries(i)
          PROVE  Carries(i)'
      BY <1>2, <3>2 DEF Carries, TaskLive
    <3>3. ASSUME NEW b \in Enqueuers, b # r, Brings(b)
          PROVE  enq'[b] = enq[b] /\ Brings(b)'
      BY <1>2, <1>3, <3>3 DEF Brings
    <3> QED BY <1>1, <2>2, <3>1, <3>2, <3>3 DEF QueueInv, Someone
  <2> QED BY <2>1, <2>2
<1> QED BY <1>4, <1>5, <1>6 DEF QueueInv

(* The records that an attempt leaves a task in. *)
LEMMA AttemptForms ==
  ASSUME Shape, NEW j \in Jobs
  PROVE  /\ NoTask \in Tasks /\ NoTask.state = "none"
         /\ \A state \in {"waiting", "active", "archived"} :
              /\ [task[j] EXCEPT !.state = state] \in Tasks
              /\ [task[j] EXCEPT !.state = state].state = state
         /\ AfterFailure(j) \in Tasks
         /\ AfterFailure(j).state \in {"waiting", "archived"}
<1>1. PICK t \in Tasks : t = task[j]
  BY DEF Shape
<1>2. NoTask \in Tasks /\ NoTask.state = "none"
  BY DEF NoTask, Tasks
<1>3. \A state \in {"waiting", "active", "archived"} :
        [t EXCEPT !.state = state] \in Tasks /\ [t EXCEPT !.state = state].state = state
  BY DEF Tasks
<1>4. /\ [t EXCEPT !.state = "waiting", !.retried = @ + 1] \in Tasks
      /\ [t EXCEPT !.state = "waiting", !.retried = @ + 1].state = "waiting"
  <2>1. PICK u \in Tasks : u = [t EXCEPT !.state = "waiting"]
    BY <1>3
  <2>2. [u EXCEPT !.retried = t.retried + 1] \in Tasks
        /\ [u EXCEPT !.retried = t.retried + 1].state = u.state
    BY DEF Tasks
  <2>3. [u EXCEPT !.retried = t.retried + 1] = [t EXCEPT !.state = "waiting", !.retried = @ + 1]
    BY <2>1, Zenon
  <2>4. u.state = "waiting"
    BY <1>3, <2>1
  <2> QED BY <2>2, <2>3, <2>4, Zenon
<1>5. \/ AfterFailure(j) = [t EXCEPT !.state = "waiting", !.retried = @ + 1]
      \/ AfterFailure(j) = [t EXCEPT !.state = "archived"]
  BY <1>1, Zenon DEF AfterFailure
<1>6. AfterFailure(j) \in Tasks /\ AfterFailure(j).state \in {"waiting", "archived"}
  BY <1>3, <1>4, <1>5
<1>7. \A state \in {"waiting", "active", "archived"} :
        /\ [task[j] EXCEPT !.state = state] \in Tasks
        /\ [task[j] EXCEPT !.state = state].state = state
  <2>1. ASSUME NEW state \in {"waiting", "active", "archived"}
        PROVE  [task[j] EXCEPT !.state = state] = [t EXCEPT !.state = state]
    BY <1>1, Zenon
  <2> QED BY <1>3, <2>1, Zenon
<1> QED BY <1>2, <1>6, <1>7

(* An attempt touches its own job, and the row of its kind. *)
AttemptOn(j) ==
  \/ (Begin(j) \/ Finish(j) \/ Return(j) \/ LeaseExpires(j)) /\ Misses
  \/ Stops(j)

LEMMA AttemptShape ==
  ASSUME Shape, NEW j \in Jobs, AttemptOn(j)
  PROVE  Shape'
<1>1. drawn' = drawn /\ caption' = caption
  BY DEF AttemptOn, Stops, Misses
<1>2. KindOf[j] \in Kinds
  BY DEF Kinds
<1>3. op' \in [Kinds -> {"none", "queued", "running", "done", "failed"}]
  BY <1>2 DEF Shape, AttemptOn, Begin, Finish, Return, LeaseExpires, Stops, WorkerStops
<1>4. enq' \in [Enqueuers -> Enqs]
  <2>1. CASE Stops(j)
    BY <2>1, EnqForms DEF Stops, WorkerStops, Enqueuers
  <2>2. CASE enq' = enq
    BY <2>2 DEF Shape
  <2> QED BY <2>1, <2>2 DEF AttemptOn, Begin, Finish, Return, LeaseExpires
<1>5. hand' \in [Jobs -> Hands]
  <2>1. IdleHand \in Hands
    BY DEF IdleHand, Hands, HandSteps
  <2>2. CASE Begin(j)
    <3>1. [IdleHand EXCEPT !.at = "begin"] \in Hands
      BY DEF IdleHand, Hands, HandSteps
    <3> QED BY <2>2, <3>1 DEF Begin, Shape
  <2>3. CASE Finish(j)
    <3>1. Step(j, "ack") /\ "ack" \in HandSteps /\ 0 \in Nat
      BY <2>3 DEF Finish, HandSteps
    <3> QED BY <3>1, HandForms
  <2>4. CASE hand' = hand \/ hand' = [hand EXCEPT ![j] = IdleHand]
    BY <2>1, <2>4 DEF Shape
  <2> QED BY <2>2, <2>3, <2>4 DEF AttemptOn, Return, LeaseExpires, Stops, WorkerStops
<1>6. task' \in [Jobs -> Tasks]
  <2>1. task' = task \/ \E t \in Tasks : task' = [task EXCEPT ![j] = t]
    <3>1. CASE Begin(j) \/ Stops(j)
      <4>1. \/ task' = task
            \/ \E state \in {"active", "waiting"} :
                 task' = [task EXCEPT ![j] = [task[j] EXCEPT !.state = state]]
        BY <3>1, Zenon DEF Begin, Stops, WorkerStops
      <4> QED BY <4>1, AttemptForms
    <3>2. CASE Return(j)
      <4>1. \/ task' = [task EXCEPT ![j] = NoTask]
            \/ task' = [task EXCEPT ![j] = AfterFailure(j)]
            \/ task' = [task EXCEPT ![j] = [task[j] EXCEPT !.state = "archived"]]
        <5>1. hand[j].out \in {"done", "error", "skip"}
          BY DEF Shape, Hands
        <5>2. CASE hand[j].out = "done"
          BY <3>2, <5>2 DEF Return
        <5>3. CASE hand[j].out = "error"
          BY <3>2, <5>3 DEF Return
        <5>4. CASE hand[j].out = "skip"
          BY <3>2, <5>4 DEF Return
        <5> QED BY <5>1, <5>2, <5>3, <5>4
      <4> QED BY <4>1, AttemptForms
    <3>3. CASE Finish(j)
      BY <3>3 DEF Finish
    <3>4. CASE LeaseExpires(j)
      BY <3>4, AttemptForms DEF LeaseExpires
    <3> QED BY <3>1, <3>2, <3>3, <3>4 DEF AttemptOn
  <2> QED BY <2>1 DEF Shape
<1> QED BY <1>1, <1>3, <1>4, <1>5, <1>6 DEF Shape

LEMMA AttemptElsewhere ==
  ASSUME Shape, NEW j \in Jobs, AttemptOn(j)
  PROVE  /\ \A i \in Jobs : i # j => hand'[i] = hand[i] /\ task'[i] = task[i]
         /\ \A k \in Kinds : k # KindOf[j] => op'[k] = op[k] /\ (k \in slips => k \in slips')
         /\ enq' = enq
            \/ /\ \A b \in Enqueuers : b # j => enq'[b] = enq[b]
               /\ enq[j].at # "idle" => KindOf[enq[j].job] \in slips'
<1>1. \A k \in Kinds : k # KindOf[j] => op'[k] = op[k]
  BY DEF Shape, AttemptOn, Begin, Finish, Return, LeaseExpires, Stops, WorkerStops
<1>2. \A i \in Jobs : i # j => hand'[i] = hand[i] /\ task'[i] = task[i]
  BY DEF Shape, AttemptOn, Begin, Finish, Return, LeaseExpires, Stops, WorkerStops, Step
<1>3. \A k \in Kinds : k # KindOf[j] => (k \in slips => k \in slips')
  BY DEF AttemptOn, Begin, Finish, Return, LeaseExpires, Stops, WorkerStops
<1>4. \/ enq' = enq
      \/ /\ \A b \in Enqueuers : b # j => enq'[b] = enq[b]
         /\ enq[j].at # "idle" => KindOf[enq[j].job] \in slips'
  <2>1. CASE Stops(j)
    <3>1. \A b \in Enqueuers : b # j => enq'[b] = enq[b]
      BY <2>1, EnqForms DEF Stops, WorkerStops, Enqueuers
    <3>2. enq[j].at # "idle" => KindOf[enq[j].job] \in slips'
      BY <2>1 DEF Stops, WorkerStops
    <3> QED BY <3>1, <3>2
  <2>2. CASE ~Stops(j)
    BY <2>2 DEF AttemptOn, Begin, Finish, Return, LeaseExpires
  <2> QED BY <2>1, <2>2
<1> QED BY <1>1, <1>2, <1>3, <1>4

(* The attempt's own job has somebody after the step, unless nobody is waited  *)
(* for any more, or it was about to return and comes to nothing.              *)
LEMMA AttemptHere ==
  ASSUME QueueInv, NEW j \in Jobs, AttemptOn(j)
  PROVE  /\ hand'[j].at # "idle" => task'[j].state = "active"
         /\ \/ ~Owed(KindOf[j])'
            \/ Carries(j)'
            \/ /\ hand[j].at = "ack" /\ task[j].state = "active"
               /\ op' = op /\ slips' = slips /\ enq' = enq
<1>1. Shape /\ HandsLeased /\ (hand[j].at # "idle" => task[j].state = "active")
  BY DEF QueueInv, HandsLeased
<1>2. CASE Begin(j)
  <2>1. /\ task'[j].state = "active" /\ hand'[j].at = "begin"
    <3>1. PICK t \in Tasks : t = task[j]
      BY <1>1 DEF Shape
    <3>2. [t EXCEPT !.state = "active"].state = "active"
      BY DEF Tasks
    <3>3. task' = [task EXCEPT ![j] = [t EXCEPT !.state = "active"]]
      BY <1>2, <3>1, Zenon DEF Begin
    <3>4. task'[j].state = "active"
      BY <1>1, <3>2, <3>3 DEF Shape
    <3> QED BY <1>1, <1>2, <3>4 DEF Shape, Begin, IdleHand
  <2> QED BY <2>1 DEF Carries, TaskLive
<1>3. CASE Finish(j)
  <2>1. task'[j] = task[j] /\ task[j].state = "active"
    BY <1>1, <1>3 DEF Finish
  <2>2. ~Owed(KindOf[j])'
    BY <1>1, <1>3 DEF Shape, Kinds, Finish, Owed
  <2> QED BY <2>1, <2>2
<1>4. CASE Return(j)
  BY <1>1, <1>4 DEF Shape, Return, IdleHand
<1>5. CASE LeaseExpires(j)
  <2>1. hand' = hand /\ hand[j].at = "idle"
    BY <1>5 DEF LeaseExpires
  <2>2. CASE task[j].retried < RetriesOf[j]
    <3>1. task'[j] = AfterFailure(j)
      BY <1>1, <1>5 DEF LeaseExpires, Shape
    <3>2. PICK t \in Tasks : t = task[j]
      BY <1>1 DEF Shape
    <3>3. AfterFailure(j) = [t EXCEPT !.state = "waiting", !.retried = @ + 1]
      BY <2>2, <3>2, Zenon DEF AfterFailure
    <3>4. AfterFailure(j).state # "archived"
      <4>1. [t EXCEPT !.state = "waiting", !.retried = @ + 1].state = "waiting"
        BY DEF Tasks
      <4> QED BY <3>3, <4>1
    <3>5. task'[j].state = "waiting"
      BY <1>1, <3>1, <3>4, AttemptForms
    <3> QED BY <2>1, <3>5 DEF Carries, TaskLive
  <2>3. CASE ~(task[j].retried < RetriesOf[j])
    <3>1. KindOf[j] \in slips'
      BY <1>5, <2>3 DEF LeaseExpires
    <3> QED BY <2>1, <3>1 DEF Owed
  <2> QED BY <2>2, <2>3
<1>6. CASE Stops(j)
  <2>1. hand'[j].at = "idle" /\ task[j].state = "active"
    BY <1>1, <1>6 DEF Shape, Stops, WorkerStops, IdleHand
  <2>2. task'[j].state \in {"waiting", "active"}
    <3>1. CASE task' = task
      BY <2>1, <3>1
    <3>2. CASE task' = [task EXCEPT ![j].state = "waiting"]
      <4>1. task' = [task EXCEPT ![j] = [task[j] EXCEPT !.state = "waiting"]]
        BY <3>2, Zenon
      <4> QED BY <1>1, <4>1, AttemptForms DEF Shape
    <3> QED BY <1>6, <3>1, <3>2 DEF Stops, WorkerStops
  <2> QED BY <2>1, <2>2 DEF Carries, TaskLive
<1> QED BY <1>2, <1>3, <1>4, <1>5, <1>6 DEF AttemptOn

LEMMA AttemptKept ==
  ASSUME QueueInv, NEW j \in Jobs, AttemptOn(j)
  PROVE  QueueInv'
<1>1. Shape /\ Shape' /\ HandsLeased
  BY AttemptShape DEF QueueInv
<1>2. /\ \A i \in Jobs : i # j => hand'[i] = hand[i] /\ task'[i] = task[i]
      /\ \A k \in Kinds : k # KindOf[j] => op'[k] = op[k] /\ (k \in slips => k \in slips')
      /\ enq' = enq
         \/ /\ \A b \in Enqueuers : b # j => enq'[b] = enq[b]
            /\ enq[j].at # "idle" => KindOf[enq[j].job] \in slips'
  BY <1>1, AttemptElsewhere
<1>3. /\ hand'[j].at # "idle" => task'[j].state = "active"
      /\ \/ ~Owed(KindOf[j])'
         \/ Carries(j)'
         \/ /\ hand[j].at = "ack" /\ task[j].state = "active"
            /\ op' = op /\ slips' = slips /\ enq' = enq
  BY AttemptHere
<1>4. HandsLeased'
  BY <1>1, <1>2, <1>3 DEF HandsLeased
<1>5. \A b \in Enqueuers : enq[b].job \in Jobs
  BY <1>1 DEF Shape, Enqs
<1>6. ASSUME NEW i \in Jobs, i # j, Carries(i)
      PROVE  Carries(i)'
  BY <1>2, <1>6 DEF Carries, TaskLive
<1>7. ASSUME NEW b \in Enqueuers, Brings(b), KindOf[enq[b].job] \notin slips',
             enq[b].job # j \/ (hand[j].at = "ack" /\ task[j].state = "active")
      PROVE  enq'[b] = enq[b] /\ Brings(b)'
  <2>1. enq'[b] = enq[b]
    BY <1>2, <1>7 DEF Brings
  <2>2. CASE enq[b].job # j
    BY <1>2, <1>5, <1>7, <2>1, <2>2 DEF Brings
  <2>3. CASE enq[b].job = j
    BY <1>7, <2>1, <2>3 DEF Brings
  <2> QED BY <2>1, <2>2, <2>3
<1>8. ASSUME NEW k \in Kinds, Owed(k)'
      PROVE  Someone(k)'
  <2>1. k \notin slips'
    BY <1>8 DEF Owed
  <2>2. CASE k # KindOf[j]
    <3>1. Someone(k)
      BY <1>2, <1>8, <2>2 DEF QueueInv, Owed
    <3> QED BY <1>6, <1>7, <2>1, <2>2, <3>1 DEF Someone
  <2>3. CASE k = KindOf[j] /\ Carries(j)'
    BY <2>3 DEF Someone
  <2>4. CASE /\ k = KindOf[j] /\ hand[j].at = "ack" /\ task[j].state = "active"
             /\ op' = op /\ slips' = slips
    <3>1. Someone(k) /\ ~Carries(j)
      BY <1>8, <2>4 DEF QueueInv, Owed, Carries
    <3> QED BY <1>6, <1>7, <2>1, <2>4, <3>1 DEF Someone
  <2> QED BY <1>3, <1>8, <2>2, <2>3, <2>4
<1> QED BY <1>1, <1>4, <1>8 DEF QueueInv
-----------------------------------------------------------------------------
LEMMA QueueKept == QueueInv /\ [Next]_vars => QueueInv'
<1> SUFFICES ASSUME QueueInv, [Next]_vars
             PROVE  QueueInv'
  OBVIOUS
<1>1. Shape
  BY DEF QueueInv
<1>2. ASSUME NEW j \in Jobs, Work(j) \/ BodyFails(j)
      PROVE  QueueInv'
  BY <1>1, <1>2, EncryptAside, PosterAside, CaptionAside, FromCaptionsAside,
     FailureAside, AsideKeeps DEF Work
<1>3. ASSUME NEW r \in Askers, AskForJob(r) \/ Edit(r)
      PROVE  QueueInv'
  BY <1>1, <1>3, AskAside, EditAside, AsideKeeps
<1>4. CASE Transcode \/ UNCHANGED vars
  BY <1>1, <1>4, TranscodeAside, AsideKeeps
<1>5. CASE Queue
  <2>0. ContentsStay /\ Misses
    BY <1>5 DEF Queue, Misses, ContentsStay
  <2>1. ASSUME NEW a \in Enqueuers, EnqueueIdempotent(a)
        PROVE  QueueInv'
    BY <2>0, <2>1, EnqueueKept
  <2>2. ASSUME NEW r \in Askers, SetQueued(r) \/ RequestStops(r)
        PROVE  QueueInv'
    BY <2>0, <2>2, SetQueuedKept, EnqueueKept DEF Enqueuers
  <2>3. ASSUME NEW j \in Jobs, Begin(j) \/ Finish(j) \/ Return(j) \/ LeaseExpires(j)
        PROVE  QueueInv'
    BY <2>0, <2>3, AttemptKept DEF AttemptOn
  <2> QED BY <1>5, <2>1, <2>2, <2>3 DEF Queue, QueueStep, Enqueuers
<1>6. ASSUME NEW j \in Jobs, Stops(j)
      PROVE  QueueInv'
  BY <1>6, AttemptKept DEF AttemptOn
<1> QED BY <1>2, <1>3, <1>4, <1>5, <1>6 DEF Next

(* A row that says "queued" or "running" is waited for by a live task of its   *)
(* kind that has not said its last word or by somebody who is about to enqueue *)
(* one, whichever of the tasks that share the row, and after a worker has      *)
(* stopped too; unless a call failed, a crash was of a task without a retry    *)
(* left, or an enqueue was absorbed too late (queue.go: enqueueIdempotent,     *)
(* worker.go: trackOp).                                                       *)
THEOREM RowsAreAwaited == Spec => []RowsAwaitSomeone
<1>1. QueueInv => RowsAwaitSomeone
  BY DEF QueueInv, RowsAwaitSomeone, Owed, Someone, Awaited, Carries, Brings, Enqueuers
<1>2. Init => QueueInv
  BY InitQueue
<1>3. QueueInv /\ [Next]_vars => QueueInv'
  BY QueueKept
<1> QED BY <1>1, <1>2, <1>3, PTL DEF Spec
-----------------------------------------------------------------------------
(* The key of an encrypted ladder. *)

(* What the handler has got to: every attempt overwrites what the one before   *)
(* has left half way, and the row says "done" only behind a whole one.        *)
Keyed(j) ==
  LET h == hand[j] IN
  KindOf[j] = "encrypt" =>
    /\ h.at \in {"begin", "playlists", "segments", "save"} => h.out = "done"
    /\ h.at \in {"segments", "save"} => ladder.playlist \in {0, h.got}
    /\ h.at = "save" => ladder.segments = h.got
    /\ h.at \in {"end", "ack"} /\ h.out = "done" =>
         ladder.playlist \in {0, h.got} /\ ladder.segments = h.got /\ key = h.got
    /\ h.at = "ack" /\ h.out # "done" => op["encrypt"] # "done" \/ "encrypt" \in slips
    /\ h.at = "idle" /\ op["encrypt"] = "done" /\ "encrypt" \notin slips =>
         ladder.playlist = 0 \/ (ladder.playlist = ladder.segments /\ ladder.segments = key)

KeyInv ==
  /\ Shape
  /\ ladder \in [playlist : Nat, segments : Nat]
  /\ \A j \in Jobs : Keyed(j)

LEMMA InitKey == Init => KeyInv
<1> SUFFICES ASSUME Init PROVE KeyInv
  OBVIOUS
<1>1. Shape
  BY InitQueue DEF QueueInv
<1>2. ladder \in [playlist : Nat, segments : Nat]
  BY DEF Init
<1>3. ASSUME NEW j \in Jobs PROVE Keyed(j)
  <2>1. hand[j].at = "idle" /\ ladder.playlist = 0
    BY DEF Init, QueueInit, IdleHand
  <2> QED BY <2>1 DEF Keyed
<1> QED BY <1>1, <1>2, <1>3 DEF KeyInv

(* A step that leaves the job's handler, and all of the ladder but its         *)
(* playlists, as they are.                                                   *)
LEMMA KeyUndisturbed ==
  ASSUME KeyInv, NEW j \in Jobs, hand'[j] = hand[j], key' = key,
         ladder' = ladder \/ ladder' = [ladder EXCEPT !.playlist = 0],
         KindOf[j] = "encrypt" =>
           /\ op'["encrypt"] \in {op["encrypt"], "queued", "running"}
           /\ "encrypt" \in slips => "encrypt" \in slips'
  PROVE  Keyed(j)'
<1>1. /\ ladder'.segments = ladder.segments
      /\ ladder'.playlist = ladder.playlist \/ ladder'.playlist = 0
  BY DEF KeyInv
<1> QED BY <1>1 DEF KeyInv, Keyed

LEMMA EncryptKeyed ==
  ASSUME KeyInv, NEW j \in Jobs, Encrypt(j)
  PROVE  Keyed(j)' /\ ladder' \in [playlist : Nat, segments : Nat]
<1>1. hand[j].got \in Nat /\ Fresh \in Nat /\ {"playlists", "segments", "save", "end"} \subseteq HandSteps
  BY DEF KeyInv, Shape, Hands, HandSteps, Fresh
<1>2. Shape /\ Keyed(j)
  BY DEF KeyInv
<1>3. ladder' \in [playlist : Nat, segments : Nat]
  BY <1>1 DEF KeyInv, Encrypt, BuildEncrypted, UploadPlaylists, UploadSegments,
     SaveContentKey
<1>4. CASE BuildEncrypted(j)
  <2>1. hand'[j].at = "playlists" /\ hand'[j].out = "done"
    <3>1. KindOf[j] = "encrypt" /\ hand[j].at = "begin" /\ Holds(j, "playlists", Fresh)
      BY <1>4 DEF BuildEncrypted, Body, IsKind
    <3>2. hand'[j].at = "playlists" /\ hand'[j].out = hand[j].out
      BY <1>1, <1>2, <3>1, HandForms
    <3> QED BY <1>2, <3>1, <3>2 DEF Keyed
  <2> QED BY <1>3, <2>1 DEF Keyed
<1>5. CASE UploadPlaylists(j)
  <2>1. KindOf[j] = "encrypt" /\ hand[j].at = "playlists" /\ Step(j, "segments")
    BY <1>5 DEF UploadPlaylists, Body, IsKind, Goes
  <2>2. hand'[j].at = "segments" /\ hand'[j].out = hand[j].out /\ hand'[j].got = hand[j].got
    BY <1>1, <1>2, <2>1, HandForms
  <2>3. ladder'.playlist = hand[j].got
    BY <1>5 DEF UploadPlaylists, KeyInv
  <2> QED BY <1>3, <1>2, <2>1, <2>2, <2>3 DEF Keyed
<1>6. CASE UploadSegments(j)
  <2>1. KindOf[j] = "encrypt" /\ hand[j].at = "segments" /\ Step(j, "save")
    BY <1>6 DEF UploadSegments, Body, IsKind, Goes
  <2>2. hand'[j].at = "save" /\ hand'[j].out = hand[j].out /\ hand'[j].got = hand[j].got
    BY <1>1, <1>2, <2>1, HandForms
  <2>3. ladder'.segments = hand[j].got /\ ladder'.playlist = ladder.playlist
    BY <1>6 DEF UploadSegments, KeyInv
  <2> QED BY <1>3, <1>2, <2>1, <2>2, <2>3 DEF Keyed
<1>7. CASE SaveContentKey(j)
  <2>1. KindOf[j] = "encrypt" /\ hand[j].at = "save" /\ Step(j, "end")
    BY <1>7 DEF SaveContentKey, Body, IsKind, Goes
  <2>2. hand'[j].at = "end" /\ hand'[j].out = hand[j].out /\ hand'[j].got = hand[j].got
    BY <1>1, <1>2, <2>1, HandForms
  <2>3. ladder' = ladder /\ key' = hand[j].got
    BY <1>7 DEF SaveContentKey
  <2> QED BY <1>3, <1>2, <2>1, <2>2, <2>3 DEF Keyed
<1> QED BY <1>3, <1>4, <1>5, <1>6, <1>7 DEF Encrypt

LEMMA AttemptKeyed ==
  ASSUME KeyInv, NEW i \in Jobs, AttemptOn(i), NEW j \in Jobs
  PROVE  Keyed(j)'
<1>1. ladder' = ladder /\ key' = key
  BY DEF AttemptOn, Stops, Misses
<1>2. CASE KindOf[j] # "encrypt"
  BY <1>2 DEF Keyed
<1>3. CASE KindOf[j] = "encrypt" /\ i # j
  <2>1. KindOf[i] # KindOf[j]
    BY <1>3, JobsAssumption
  <2>2. hand'[j] = hand[j]
    BY <1>3 DEF KeyInv, Shape, AttemptOn, Begin, Finish, Return, LeaseExpires, Stops,
       WorkerStops, Step
  <2>3. op'[KindOf[j]] = op[KindOf[j]]
    BY <2>1 DEF KeyInv, Shape, Kinds, AttemptOn, Begin, Finish, Return, LeaseExpires,
       Stops, WorkerStops
  <2>4. KindOf[j] \in slips => KindOf[j] \in slips'
    BY <2>1 DEF AttemptOn, Begin, Finish, Return, LeaseExpires, Stops, WorkerStops
  <2> QED BY <1>1, <2>2, <2>3, <2>4, KeyUndisturbed
<1>4. CASE KindOf[j] = "encrypt" /\ i = j
  <2>1. Shape /\ Keyed(j)
    BY DEF KeyInv
  <2>2. CASE Begin(j)
    <3>1. hand'[j].at = "begin" /\ hand'[j].out = "done"
      BY <2>1, <2>2 DEF Shape, Begin, IdleHand
    <3> QED BY <3>1 DEF Keyed
  <2>3. CASE Finish(j)
    <3>1. hand[j].at = "end" /\ Step(j, "ack")
      BY <2>3 DEF Finish
    <3>2. "ack" \in HandSteps /\ 0 \in Nat
      BY DEF HandSteps
    <3>3. hand'[j].at = "ack" /\ hand'[j].out = hand[j].out /\ hand'[j].got = hand[j].got
      BY <2>1, <3>1, <3>2, HandForms
    <3>4. hand[j].out # "done" => op'[KindOf[j]] # "done" \/ KindOf[j] \in slips'
      BY <2>1, <2>3 DEF Finish, Shape, Kinds
    <3> QED BY <1>1, <2>1, <3>1, <3>3, <3>4 DEF Keyed
  <2>4. CASE Return(j)
    <3>1. /\ hand[j].at = "ack" /\ hand'[j].at = "idle" /\ op' = op /\ slips' = slips
      BY <2>1, <2>4 DEF Shape, Return, IdleHand
    <3> QED BY <1>1, <2>1, <3>1 DEF Keyed
  <2>5. CASE LeaseExpires(j)
    <3>1. hand' = hand /\ op' = op /\ slips \subseteq slips'
      BY <2>5 DEF LeaseExpires
    <3> QED BY <1>1, <3>1, KeyUndisturbed
  <2>6. CASE Stops(j)
    <3>1. /\ hand'[j].at = "idle" /\ op' = op
          /\ op[KindOf[j]] = "done" => KindOf[j] \in slips'
      BY <2>1, <2>6 DEF Shape, Stops, WorkerStops, IdleHand
    <3> QED BY <1>4, <3>1 DEF Keyed
  <2> QED BY <1>4, <2>2, <2>3, <2>4, <2>5, <2>6 DEF AttemptOn
<1> QED BY <1>2, <1>3, <1>4

(* The steps that neither encrypt nor belong to an attempt's ends. *)
LEMMA BodyKeyed ==
  ASSUME KeyInv, NEW i \in Jobs,
         PosterFrame(i) \/ AutoCaption(i) \/ FromCaptions(i) \/ BodyFails(i),
         NEW j \in Jobs
  PROVE  Keyed(j)' /\ ladder' = ladder
<1>1. ladder' = ladder /\ key' = key /\ op' = op /\ slips' = slips
  BY DEF PosterFrame, GrabFrame, UploadFrame, SetThumbnail, AutoCaption, Transcribe,
     StoreVTT, AddCaption, Chain, Chained, FromCaptions, FindTrack, ReadTrack,
     ReplaceSearchChunks, ClearFails, GenerateChapters, StoreChapters, BodyFails, Body,
     contentVars
<1>2. CASE hand'[j] = hand[j]
  BY <1>1, <1>2, KeyUndisturbed
<1>3. CASE i # j
  BY <1>2, <1>3 DEF KeyInv, Shape, PosterFrame, GrabFrame, UploadFrame, SetThumbnail,
     AutoCaption, Transcribe, StoreVTT, AddCaption, Chain, Chained, FromCaptions,
     FindTrack, ReadTrack, ReplaceSearchChunks, ClearFails, GenerateChapters,
     StoreChapters, BodyFails, Goes, Holds, Step, Fails, Skips
<1>4. CASE i = j /\ BodyFails(j)
  <2>1. "end" \in HandSteps /\ 0 \in Nat /\ Fails(j) /\ Shape
    BY <1>4 DEF HandSteps, BodyFails, KeyInv
  <2>2. hand'[j].at = "end" /\ hand'[j].out # "done"
    BY <2>1, HandForms
  <2> QED BY <1>1, <2>2 DEF Keyed
<1>5. CASE i = j /\ ~BodyFails(j)
  <2>1. KindOf[j] # "encrypt"
    BY <1>5 DEF PosterFrame, GrabFrame, UploadFrame, SetThumbnail, AutoCaption,
       Transcribe, StoreVTT, AddCaption, Chain, Chained, FromCaptions, FindTrack,
       ReadTrack, ReplaceSearchChunks, ClearFails, GenerateChapters, StoreChapters, Body,
       IsKind
  <2> QED BY <1>1, <2>1 DEF Keyed
<1> QED BY <1>1, <1>3, <1>4, <1>5

(* A step of the queue itself that belongs to no attempt. *)
LEMMA QueueKeyed ==
  ASSUME KeyInv, NEW j \in Jobs, ContentsStay,
         \/ \E a \in Enqueuers : EnqueueIdempotent(a)
         \/ \E r \in Askers : SetQueued(r) \/ RequestStops(r)
  PROVE  Keyed(j)' /\ ladder' = ladder
<1>1. ladder' = ladder /\ key' = key
  BY DEF ContentsStay
<1>2. ASSUME NEW a \in Enqueuers, EnqueueIdempotent(a)
      PROVE  hand' = hand /\ op' = op /\ slips \subseteq slips'
  BY <1>2 DEF EnqueueIdempotent, Enqueue, Inspect, Delete, Again, Submit, Absorb, GiveUp
<1>3. ASSUME NEW r \in Askers, RequestStops(r)
      PROVE  hand' = hand /\ op' = op /\ slips \subseteq slips'
  BY <1>3 DEF RequestStops, GiveUp
<1>4. ASSUME NEW r \in Askers, SetQueued(r)
      PROVE  /\ hand' = hand /\ slips' = slips
             /\ KindOf[j] = "encrypt" => op'["encrypt"] \in {op["encrypt"], "queued"}
  BY <1>4 DEF SetQueued, KeyInv, Shape, Kinds
<1>5. /\ hand' = hand /\ slips \subseteq slips'
      /\ KindOf[j] = "encrypt" => op'["encrypt"] \in {op["encrypt"], "queued"}
  BY <1>2, <1>3, <1>4
<1> QED BY <1>1, <1>5, KeyUndisturbed

(* Requests, edits and transcodes. *)
LEMMA OutsideKeyed ==
  ASSUME KeyInv, NEW j \in Jobs,
         \/ \E r \in Askers : AskForJob(r) \/ Edit(r)
         \/ Transcode
         \/ UNCHANGED vars
  PROVE  Keyed(j)' /\ ladder' \in [playlist : Nat, segments : Nat]
<1>1. ASSUME NEW r \in Askers, AskForJob(r)
      PROVE  UNCHANGED <<hand, op, slips, key, ladder>>
  BY <1>1 DEF AskForJob, AskEncrypt, AskCaption, AskPoster, AskReindex, AskContent, AsksFor, Ask
<1>2. ASSUME NEW r \in Askers, Edit(r)
      PROVE  UNCHANGED <<hand, op, slips, key, ladder>>
  BY <1>2 DEF Edit, PutPoster, ShowPoster, RemoveOldCustomPoster, SetChapters,
     PutChapters, UploadCaption, RecordCaption, DeleteCaption, RemoveTrack, EditFails,
     StartsEdit, GoesOn, queueVars
<1>3. CASE Transcode
  <2>1. UNCHANGED <<hand, op, slips, key>>
    BY <1>3 DEF Transcode, StartTranscode, SetTranscoding, UploadLadder, SetFinished, Transcodes,
       queueVars
  <2>2. ladder' = ladder \/ ladder' = [ladder EXCEPT !.playlist = 0]
    BY <1>3, Zenon DEF Transcode, StartTranscode, SetTranscoding, UploadLadder, SetFinished, Transcodes
  <2>3. ladder' \in [playlist : Nat, segments : Nat]
    BY <2>2 DEF KeyInv
  <2>4. Keyed(j)'
    BY <2>1, <2>2, KeyUndisturbed
  <2> QED BY <2>3, <2>4
<1>4. CASE UNCHANGED <<hand, op, slips, key, ladder>>
  <2>1. Keyed(j)'
    BY <1>4, KeyUndisturbed
  <2> QED BY <1>4, <2>1 DEF KeyInv
<1>5. CASE UNCHANGED vars
  BY <1>4, <1>5 DEF vars, queueVars, contentVars
<1> QED BY <1>1, <1>2, <1>3, <1>4, <1>5

LEMMA KeyKept ==
  ASSUME KeyInv, Shape', [Next]_vars
  PROVE  KeyInv'
<1>1. ASSUME NEW j \in Jobs
      PROVE  Keyed(j)' /\ ladder' \in [playlist : Nat, segments : Nat]
  <2>1. ASSUME NEW i \in Jobs, Encrypt(i)
        PROVE  Keyed(j)' /\ ladder' \in [playlist : Nat, segments : Nat]
    <3>1. KindOf[i] = "encrypt"
      BY <2>1 DEF Encrypt, BuildEncrypted, UploadPlaylists, UploadSegments,
         SaveContentKey, Body, IsKind
    <3>2. CASE i = j
      BY <2>1, <3>2, EncryptKeyed
    <3>3. CASE i # j
      <4>1. KindOf[j] # "encrypt"
        BY <3>1, <3>3, JobsAssumption
      <4>2. Keyed(j)'
        BY <4>1 DEF Keyed
      <4> QED BY <2>1, <4>2, EncryptKeyed
    <3> QED BY <3>2, <3>3
  <2>2. ASSUME NEW i \in Jobs,
               PosterFrame(i) \/ AutoCaption(i) \/ FromCaptions(i) \/ BodyFails(i)
        PROVE  Keyed(j)' /\ ladder' \in [playlist : Nat, segments : Nat]
    BY <2>2, BodyKeyed DEF KeyInv
  <2>3. ASSUME NEW i \in Jobs, AttemptOn(i)
        PROVE  Keyed(j)' /\ ladder' \in [playlist : Nat, segments : Nat]
    <3>1. ladder' = ladder
      BY <2>3 DEF AttemptOn, Stops, Misses
    <3> QED BY <2>3, <3>1, AttemptKeyed DEF KeyInv
  <2>4. CASE Queue
    <3>1. CASE \E i \in Jobs : Begin(i) \/ Finish(i) \/ Return(i) \/ LeaseExpires(i)
      BY <2>3, <2>4, <3>1 DEF Queue, AttemptOn
    <3>2. CASE \/ \E a \in Enqueuers : EnqueueIdempotent(a)
               \/ \E r \in Askers : SetQueued(r) \/ RequestStops(r)
      BY <2>4, <3>2, QueueKeyed DEF Queue, Misses, ContentsStay, KeyInv
    <3> QED BY <2>4, <3>1, <3>2 DEF Queue, QueueStep, Enqueuers
  <2>5. CASE \/ \E r \in Askers : AskForJob(r) \/ Edit(r)
             \/ Transcode
             \/ UNCHANGED vars
    BY <2>5, OutsideKeyed
  <2>6. ASSUME NEW i \in Jobs, Stops(i)
        PROVE  Keyed(j)' /\ ladder' \in [playlist : Nat, segments : Nat]
    BY <2>3, <2>6 DEF AttemptOn
  <2> QED BY <2>1, <2>2, <2>4, <2>5, <2>6 DEF Next, Work
<1>2. ladder' \in [playlist : Nat, segments : Nat]
  <2>1. IndexJob \in Jobs
    BY JobsAssumption
  <2> QED BY <1>1, <2>1
<1> QED BY <1>1, <1>2 DEF KeyInv

(* Once the row says that the video is encrypted, its playlists and segments   *)
(* name the key that is handed out, or a transcode has put a plain ladder over *)
(* them, whatever attempts failed half way before (worker/encrypt.go:          *)
(* handleEncrypt, keys.go: handleKey).                                        *)
THEOREM KeyFound == Spec => []KeyOpensLadder
<1> DEFINE I == QueueInv /\ KeyInv
<1>1. I => KeyOpensLadder
  <2> SUFFICES ASSUME I, "encrypt" \in Kinds, Settled("encrypt")
               PROVE  ladder.playlist = 0
                      \/ (ladder.playlist = ladder.segments /\ ladder.segments = key)
    BY DEF KeyOpensLadder
  <2>1. PICK j \in Jobs : KindOf[j] = "encrypt"
    BY DEF Kinds
  <2>2. hand[j].at = "idle"
    BY <2>1 DEF Settled, Working
  <2> QED BY <2>1, <2>2 DEF Settled, KeyInv, Keyed
<1>2. Init => I
  BY InitQueue, InitKey
<1>3. I /\ [Next]_vars => I'
  <2> SUFFICES ASSUME I, [Next]_vars
               PROVE  I'
    OBVIOUS
  <2>1. QueueInv'
    BY QueueKept
  <2>2. Shape'
    BY <2>1 DEF QueueInv
  <2> QED BY <2>1, <2>2, KeyKept
<1> QED BY <1>1, <1>2, <1>3, PTL DEF Spec
=============================================================================
