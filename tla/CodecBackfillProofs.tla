------------------------- MODULE CodecBackfillProofs -------------------------
(* Proofs about CodecBackfill for any set of codecs and of requests, any      *)
(* number of uploads and retries, and any choice of faults.                   *)
EXTENDS CodecBackfill, TLAPS

-----------------------------------------------------------------------------
(* Type correctness.  Turn picks a codec only while there is one left.        *)

TurnTaken == run.at \in {"encode", "done"} => run.todo # {}

TypeInv == TypeOK /\ TurnTaken

(* What asynq makes of a task is a task. *)
LEMMA TaskTyped ==
  ASSUME NEW t \in Tasks
  PROVE  /\ AfterFailure(t) \in Tasks
         /\ Enqueued(t) \in Tasks
         /\ NoTask \in Tasks
         /\ [t EXCEPT !.state = "waiting"] \in Tasks
         /\ [t EXCEPT !.state = "active"] \in Tasks
<1>1. t.retried \in 0 .. MaxRetry /\ 0 \in 0 .. MaxRetry
  BY BoundsAssumption DEF Tasks
<1>2. t.retried < MaxRetry => t.retried + 1 \in 0 .. MaxRetry
  BY <1>1, BoundsAssumption
<1>3. AfterFailure(t) \in Tasks
  BY <1>2 DEF AfterFailure, Tasks
<1>4. Enqueued(t) \in Tasks /\ NoTask \in Tasks
  BY <1>1 DEF Enqueued, NewTask, NoTask, Tasks
<1>5. /\ [t EXCEPT !.state = "waiting"] \in Tasks
      /\ [t EXCEPT !.state = "active"] \in Tasks
  BY DEF Tasks
<1> QED BY <1>3, <1>4, <1>5

LEMMA NothingTyped == IdleRun \in Attempts /\ NoPlaylist \in Playlists
  BY BoundsAssumption DEF IdleRun, Attempts, NoPlaylist, Playlists, Sources

LEMMA ReturnForgets ==
  ASSUME NEW ok, Return(ok)
  PROVE  run'.at = "return" /\ run'.read = NoPlaylist
  BY DEF Return, IdleRun

LEMMA InitTyped == Init => TypeInv
<1> SUFFICES ASSUME Init PROVE TypeInv
  OBVIOUS
<1>1. raw \in Sources /\ h264 \in Sources /\ 0 \in Sources
  BY BoundsAssumption DEF Init, Sources
<1>2. task \in Tasks
  BY BoundsAssumption DEF Init, NoTask, Tasks
<1>3. run \in Attempts /\ TurnTaken
  BY NothingTyped DEF Init, TurnTaken, IdleRun
<1>4. req \in [Requests -> {Unserved, Served} \cup Asks]
  BY DEF Init
<1>5. main \in [at : {"idle", "encoding", "failed", "rows", "enqueue", "finished"},
                codecs : SUBSET Codecs]
  BY DEF Init
<1> QED BY <1>1, <1>2, <1>3, <1>4, <1>5, NothingTyped DEF Init, TypeInv, TypeOK

LEMMA ReturnTyped ==
  ASSUME NEW ok \in BOOLEAN, Return(ok)
  PROVE  run' \in Attempts /\ run'.at = "return"
  BY NothingTyped DEF Return, IdleRun, Attempts

LEMMA TurnTyped ==
  ASSUME TypeOK, run.todo # {}
  PROVE  Turn \in run.todo /\ Turn \in Codecs
<1>1. run.todo \subseteq Codecs
  BY DEF TypeOK, Attempts
<1>2. \E c \in run.todo : TRUE
  OBVIOUS
<1> QED BY <1>1, <1>2 DEF Turn

LEMMA RowTyped ==
  ASSUME TypeOK, NEW c \in Codecs,
         NEW s \in {"none", "queued", "running", "done", "failed"},
         WriteRow(c, s)
  PROVE  /\ op' \in [Codecs -> {"none", "queued", "running", "done", "failed"}]
         /\ lost' \in SUBSET Codecs
  BY DEF TypeOK, WriteRow

(* The main transcode keeps the types. *)
LEMMA MainTyped ==
  ASSUME TypeInv, MainStart \/ Main
  PROVE  TypeInv'
<1> USE DEF TypeInv, TurnTaken, files
<1>1. CASE MainStart
  <2>1. raw' \in Sources
    BY <1>1, BoundsAssumption DEF MainStart, Sources
  <2> QED BY <1>1, <2>1 DEF TypeOK, MainStart
<1>2. CASE MainFail
  BY <1>2 DEF TypeOK, MainFail
<1>3. CASE MainPublish
  <2>1. master' \in Playlists
    BY <1>3 DEF TypeOK, MainPublish, Playlists
  <2> QED BY <1>3, <2>1 DEF TypeOK, MainPublish
<1>4. CASE MainRows
  BY <1>4 DEF TypeOK, MainRows
<1>5. CASE MainEnqueue
  BY <1>5, TaskTyped DEF TypeOK, MainEnqueue
<1> QED BY <1>1, <1>2, <1>3, <1>4, <1>5 DEF Main

(* So does a request. *)
LEMMA RequestTyped ==
  ASSUME TypeInv, NEW r \in Requests,
         (\E c \in Codecs : Ask(r, c)) \/ Asked(r) \/ AskAbandon(r)
  PROVE  TypeInv'
<1> USE DEF TypeInv, TurnTaken, files
<1>1. ASSUME NEW c \in Codecs, Ask(r, c) PROVE TypeInv'
  <2>1. [at |-> "read", codec |-> c, read |-> {}] \in Asks
    BY DEF Asks
  <2> QED BY <1>1, <2>1 DEF TypeOK, Ask
<1>2. ASSUME req[r].at \in {"read", "write", "row", "enqueue"}
      PROVE  req[r] \in Asks
  BY <1>2 DEF TypeOK, Unserved, Served
<1>3. CASE AskRead(r)
  <2>1. req[r] \in Asks
    BY <1>2, <1>3 DEF AskRead
  <2>2. req' = [req EXCEPT ![r] = [req[r] EXCEPT !.at = "write", !.read = codecs]]
    BY <1>3, <2>1 DEF AskRead, TypeOK, Asks
  <2>3. [req[r] EXCEPT !.at = "write", !.read = codecs] \in Asks
    BY <2>1 DEF Asks, TypeOK
  <2> QED BY <1>3, <2>2, <2>3 DEF TypeOK, AskRead
<1>4. CASE AskWrite(r)
  <2>1. req[r] \in Asks
    BY <1>2, <1>4 DEF AskWrite
  <2>2. req' = [req EXCEPT ![r] = [req[r] EXCEPT !.at = "row", !.read = {}]]
    BY <1>4, <2>1 DEF AskWrite, TypeOK, Asks
  <2>3. [req[r] EXCEPT !.at = "row", !.read = {}] \in Asks
    BY <2>1 DEF Asks
  <2>4. codecs' \in SUBSET Codecs
    BY <1>4, <2>1 DEF AskWrite, Asks
  <2> QED BY <1>4, <2>2, <2>3, <2>4 DEF TypeOK, AskWrite
<1>5. CASE AskRow(r)
  <2>1. req[r] \in Asks
    BY <1>2, <1>5 DEF AskRow
  <2>2. [req[r] EXCEPT !.at = "enqueue"] \in Asks
    BY <2>1 DEF Asks
  <2>3. op' \in [Codecs -> {"none", "queued", "running", "done", "failed"}]
    BY <1>5 DEF TypeOK, AskRow
  <2> QED BY <1>5, <2>2, <2>3 DEF TypeOK, AskRow
<1>6. CASE AskEnqueue(r)
  BY <1>6, TaskTyped DEF TypeOK, AskEnqueue
<1>7. CASE AskAbandon(r)
  BY <1>7 DEF TypeOK, AskAbandon
<1> QED BY <1>1, <1>3, <1>4, <1>5, <1>6, <1>7 DEF Asked

(* So does the worker's handler. *)
LEMMA RunTyped ==
  ASSUME TypeInv, Run
  PROVE  TypeInv'
<1> USE DEF others
<1>0. TypeOK /\ TurnTaken
  BY DEF TypeInv
<1>1. CASE StartRun
  <2>1. run' \in Attempts /\ run'.at = "settings"
    BY <1>1, NothingTyped DEF StartRun, IdleRun, Attempts
  <2> QED BY <1>0, <1>1, <2>1, TaskTyped DEF TypeInv, TypeOK, TurnTaken, StartRun
<1>2. CASE RunSettings
  <2>1. run' \in Attempts /\ run'.at \in {"return", "source"}
    <3>1. CASE codecs = {}
      BY <1>2, <3>1, ReturnTyped DEF RunSettings
    <3>2. CASE codecs # {}
      BY <1>0, <1>2, <3>2 DEF RunSettings, TypeOK, Attempts
    <3> QED BY <3>1, <3>2
  <2> QED BY <1>0, <1>2, <2>1 DEF TypeInv, TypeOK, TurnTaken, RunSettings
<1>3. CASE RunSource
  <2>1. run' \in Attempts /\ run'.at = "capture"
    BY <1>0, <1>3 DEF RunSource, TypeOK, Attempts
  <2> QED BY <1>0, <1>3, <2>1 DEF TypeInv, TypeOK, TurnTaken, RunSource
<1>4. CASE RunCapture
  <2>1. run' \in Attempts /\ run'.at \in {"next", "keep"}
    BY <1>0, <1>4 DEF RunCapture, TypeOK, Attempts
  <2>2. slip' \in BOOLEAN
    BY <1>0, <1>4 DEF RunCapture, TypeOK
  <2> QED BY <1>0, <1>4, <2>1, <2>2 DEF TypeInv, TypeOK, TurnTaken, RunCapture
<1>5. CASE RunKeep
  <2>1. run' \in Attempts /\ run'.at = "next"
    BY <1>0, <1>5, NothingTyped DEF RunKeep, TypeOK, Attempts
  <2>2. pristine' \in Playlists /\ slip' \in BOOLEAN
    BY <1>0, <1>5 DEF RunKeep, TypeOK, Attempts
  <2> QED BY <1>0, <1>5, <2>1, <2>2 DEF TypeInv, TypeOK, TurnTaken, RunKeep
<1>6. CASE RunPresent
  <2>1. run' \in Attempts /\ run'.at = "next"
    BY <1>0, <1>6 DEF RunPresent, TypeOK, Attempts
  <2> QED BY <1>0, <1>6, <2>1 DEF TypeInv, TypeOK, TurnTaken, RunPresent
<1>7. CASE RunEncode
  <2>1. run' \in Attempts /\ run'.todo # {}
    BY <1>0, <1>7 DEF RunEncode, TypeOK, Attempts
  <2>2. Turn \in Codecs
    BY <1>0, <1>7, TurnTyped DEF RunEncode
  <2>3. /\ op' \in [Codecs -> {"none", "queued", "running", "done", "failed"}]
        /\ lost' \in SUBSET Codecs
    BY <1>0, <1>7, <2>2, RowTyped DEF RunEncode
  <2> QED BY <1>0, <1>7, <2>1, <2>3 DEF TypeInv, TypeOK, TurnTaken, RunEncode
<1>8. CASE RunUploaded
  <2>1. run' \in Attempts /\ run'.todo # {}
    BY <1>0, <1>8 DEF RunUploaded, TypeOK, TurnTaken, Attempts
  <2>2. ladder' \in [Codecs -> Sources]
    BY <1>0, <1>8 DEF RunUploaded, TypeOK, Attempts
  <2> QED BY <1>0, <1>8, <2>1, <2>2 DEF TypeInv, TypeOK, TurnTaken, RunUploaded
<1>9. CASE RunDone
  <2>1. run' \in Attempts /\ run'.at = "next"
    BY <1>0, <1>9 DEF RunDone, TypeOK, Attempts
  <2>2. Turn \in Codecs
    BY <1>0, <1>9, TurnTyped DEF RunDone, TurnTaken
  <2>3. /\ op' \in [Codecs -> {"none", "queued", "running", "done", "failed"}]
        /\ lost' \in SUBSET Codecs
    BY <1>0, <1>9, <2>2, RowTyped DEF RunDone
  <2> QED BY <1>0, <1>9, <2>1, <2>3 DEF TypeInv, TypeOK, TurnTaken, RunDone
<1>10. CASE RunFailed
  <2>1. run' \in Attempts /\ run'.at = "return"
    BY <1>10, ReturnTyped DEF RunFailed
  <2>2. Turn \in Codecs
    BY <1>0, <1>10, TurnTyped DEF RunFailed, TurnTaken
  <2>3. /\ op' \in [Codecs -> {"none", "queued", "running", "done", "failed"}]
        /\ lost' \in SUBSET Codecs
    BY <1>0, <1>10, <2>2, RowTyped DEF RunFailed
  <2> QED BY <1>0, <1>10, <2>1, <2>3 DEF TypeInv, TypeOK, TurnTaken, RunFailed
<1>11. CASE RunRebuild
  <2>1. run' \in Attempts /\ run'.at = "publish"
    <3>1. PICK base \in {pristine, master},
               found \in SUBSET {c \in run.codecs : ladder[c] # 0} :
            run' = [run EXCEPT !.at = "publish", !.src = 0,
                               !.read = [base EXCEPT !.extra = @ \cup found]]
      BY <1>11 DEF RunRebuild
    <3>2. found \in SUBSET Codecs
      BY <1>0, <3>1 DEF TypeOK, Attempts
    <3>3. [base EXCEPT !.extra = @ \cup found] \in Playlists
      BY <1>0, <3>2 DEF TypeOK, Playlists
    <3>4. 0 \in Sources
      BY NothingTyped DEF NoPlaylist, Playlists
    <3> HIDE DEF others
    <3> QED BY <1>0, <3>1, <3>3, <3>4 DEF TypeOK, Attempts
  <2> QED BY <1>0, <1>11, <2>1 DEF TypeInv, TypeOK, TurnTaken, RunRebuild
<1>12. CASE RunPublish
  <2>1. run' \in Attempts /\ run'.at = "return"
    BY <1>12, ReturnTyped DEF RunPublish
  <2> QED BY <1>0, <1>12, <2>1
        DEF TypeInv, TypeOK, TurnTaken, RunPublish, Attempts
<1>13. CASE RunError
  <2>1. run' \in Attempts /\ run'.at = "return"
    BY <1>13, ReturnTyped DEF RunError
  <2> QED BY <1>0, <1>13, <2>1 DEF TypeInv, TypeOK, TurnTaken, RunError
<1>14. CASE RunSettle
  <2>1. run' \in Attempts /\ run'.at = "idle"
    BY <1>14, NothingTyped DEF RunSettle, IdleRun
  <2>2. task' \in Tasks
    BY <1>0, <1>14, TaskTyped DEF RunSettle, TypeOK
  <2> QED BY <1>0, <1>14, <2>1, <2>2 DEF TypeInv, TypeOK, TurnTaken, RunSettle
<1> QED BY <1>1, <1>2, <1>3, <1>4, <1>5, <1>6, <1>7, <1>8, <1>9, <1>10, <1>11,
          <1>12, <1>13, <1>14 DEF Run

(* So does a worker that dies, and asynq that notices. *)
LEMMA StopTyped ==
  ASSUME TypeInv, WorkerStop \/ LeaseExpires
  PROVE  TypeInv'
<1> USE DEF others, TypeInv
<1>1. CASE WorkerStop
  <2>1. run' \in Attempts /\ run'.at = "idle"
    BY <1>1, NothingTyped DEF WorkerStop, IdleRun
  <2>2. task' \in Tasks
    BY <1>1, TaskTyped DEF WorkerStop, TypeOK
  <2>3. lost' \in SUBSET Codecs
    BY <1>1 DEF WorkerStop, TypeOK, RowsRunning
  <2> QED BY <1>1, <2>1, <2>2, <2>3 DEF TypeOK, TurnTaken, WorkerStop
<1>2. CASE LeaseExpires
  BY <1>2, TaskTyped DEF TypeOK, TurnTaken, LeaseExpires
<1> QED BY <1>1, <1>2

LEMMA NextTyped == TypeInv /\ [Next]_vars => TypeInv'
<1> SUFFICES ASSUME TypeInv, [Next]_vars PROVE TypeInv'
  OBVIOUS
<1>1. CASE UNCHANGED vars
  BY <1>1 DEF vars, TypeInv, TypeOK, TurnTaken
<1> QED BY <1>1, MainTyped, RequestTyped, RunTyped, StopTyped DEF Next

(* Every step of every handler leaves rows, files, settings, tasks and        *)
(* requests well typed.                                                       *)
THEOREM CodecTypesCorrect == Spec => []TypeOK
<1>1. TypeInv => TypeOK
  BY DEF TypeInv
<1> QED BY InitTyped, NextTyped, <1>1, PTL DEF Spec

(* A codec has its turn whenever the handler is at one. *)
LEMMA AlwaysTyped == Spec => []TypeInv
  BY InitTyped, NextTyped, PTL DEF Spec

-----------------------------------------------------------------------------
(* The master playlist.  Nothing happens before there is a source, so a codec *)
(* ladder is always written from one; and every playlist in the bucket or in  *)
(* the handler's hands lists such ladders only.                               *)

Sourced ==
  /\ main.at # "idle" => raw # 0
  /\ \A r \in Requests : req[r] \notin {Unserved, Served} => raw # 0
  /\ task.state # "none" => raw # 0
  /\ run.at # "idle" => raw # 0
  /\ run.at \in {"capture", "keep", "next", "encode", "done"} => run.src # 0

Listed ==
  /\ \A c \in master.extra \cup pristine.extra \cup run.read.extra : ladder[c] # 0
  /\ run.at = "publish" => Stored(run.read)

(* Unless a backfill slipped, the pristine copy is made before any codec is   *)
(* merged, from a master that lists none, and never again.                    *)
Pure ==
  ~slip =>
    /\ pristine.extra = {}
    /\ master.extra # {} => Stored(pristine)
    /\ run.at = "keep" => run.read.extra = {} /\ Stored(run.read)
    /\ run.at \in {"next", "encode", "done", "publish"} => Stored(pristine)

(* A row is "done" after the upload that it tells of. *)
Rows ==
  /\ \A c \in Codecs : op[c] = "done" => ladder[c] # 0
  /\ run.at = "done" => ladder[Turn] # 0

LEMMA InitSourced == Init => Sourced
  BY DEF Init, Sourced, NoTask, IdleRun, Unserved

LEMMA NextSourced ==
  ASSUME TypeInv, Sourced, [Next]_vars
  PROVE  Sourced'
<1> USE DEF TypeInv, files, others
<1>1. CASE UNCHANGED vars
  BY <1>1 DEF vars, Sourced
<1>2. CASE MainStart
  <2>1. raw' # 0
    BY <1>2 DEF MainStart
  <2> QED BY <1>2, <2>1 DEF Sourced, MainStart
<1>3. CASE Main
  <2>1. main.at # "idle" /\ UNCHANGED <<raw, run, req>>
    BY <1>3 DEF Main, MainFail, MainPublish, MainRows, MainEnqueue, Sourced
  <2> QED BY <2>1 DEF Sourced
<1>4. ASSUME NEW r \in Requests,
             (\E c \in Codecs : Ask(r, c)) \/ Asked(r) \/ AskAbandon(r)
      PROVE  Sourced'
  <2>1. raw # 0
    BY <1>4 DEF Ask, IsReady, Asked, AskRead, AskWrite, AskRow, AskEnqueue,
         AskAbandon, Unserved, Served, Sourced
  <2>2. UNCHANGED <<raw, main, run>>
    BY <1>4 DEF Ask, Asked, AskRead, AskWrite, AskRow, AskEnqueue, AskAbandon
  <2> QED BY <2>1, <2>2 DEF Sourced
<1>5. CASE Run
  <2>1. raw # 0 /\ UNCHANGED <<raw, main, req>>
    BY <1>5 DEF Sourced, Run, StartRun, RunSettings, RunSource, RunCapture, RunKeep,
         RunPresent, RunEncode, RunUploaded, RunDone, RunFailed, RunRebuild,
         RunPublish, RunError, RunSettle
  <2>2. run'.at \in {"capture", "keep", "next", "encode", "done"} => run'.src # 0
    <3>1. CASE RunSource
      BY <2>1, <3>1 DEF RunSource, TypeOK, Attempts
    <3>2. CASE RunCapture \/ RunKeep \/ RunPresent \/ RunEncode \/ RunUploaded
               \/ RunDone
      <4>1. run.src # 0
        BY <3>2 DEF Sourced, RunCapture, RunKeep, RunPresent, RunEncode,
             RunUploaded, RunDone
      <4>2. run'.src = run.src
        BY <3>2 DEF TypeOK, Attempts, RunCapture, RunKeep, RunPresent, RunEncode,
             RunUploaded, RunDone
      <4> QED BY <4>1, <4>2
    <3>3. CASE StartRun \/ RunSettings \/ RunFailed \/ RunRebuild \/ RunPublish
               \/ RunError \/ RunSettle
      <4>1. run'.at \in {"settings", "source", "return", "publish", "idle"}
        <5>1. CASE StartRun \/ RunSettle
          BY <5>1 DEF StartRun, RunSettle, IdleRun
        <5>2. CASE RunSettings
          BY <5>2, ReturnForgets DEF TypeOK, Attempts, RunSettings
        <5>3. CASE RunFailed \/ RunPublish \/ RunError
          BY <5>3, ReturnForgets DEF RunFailed, RunPublish, RunError
        <5>4. CASE RunRebuild
          BY <5>4 DEF RunRebuild, TypeOK, Attempts
        <5> QED BY <3>3, <5>1, <5>2, <5>3, <5>4
      <4> QED BY <4>1
    <3> QED BY <1>5, <3>1, <3>2, <3>3 DEF Run
  <2> QED BY <2>1, <2>2 DEF Sourced
<1>6. CASE WorkerStop
  BY <1>6 DEF Sourced, WorkerStop, IdleRun
<1>7. CASE LeaseExpires
  BY <1>7 DEF Sourced, LeaseExpires
<1> QED BY <1>1, <1>2, <1>3, <1>4, <1>5, <1>6, <1>7 DEF Next

LEMMA InitListed == Init => Listed
  BY DEF Init, Listed, NoPlaylist, IdleRun

(* A ladder that is there stays. *)
LEMMA LaddersStay ==
  ASSUME TypeInv, Sourced, [Next]_vars
  PROVE  \A c \in Codecs : ladder[c] # 0 => ladder'[c] # 0
<1>1. CASE RunUploaded
  BY <1>1 DEF RunUploaded, Sourced, TypeInv, TypeOK
<1>2. CASE ~RunUploaded
  <2>1. UNCHANGED ladder
    BY <1>2 DEF Next, vars, files, others, MainStart, Main, MainFail, MainPublish,
         MainRows, MainEnqueue, Ask, Asked, AskRead, AskWrite, AskRow, AskEnqueue,
         AskAbandon, Run, StartRun, RunSettings, RunSource, RunCapture, RunKeep,
         RunPresent, RunEncode, RunDone, RunFailed, RunRebuild,
         RunPublish, RunError, RunSettle, WorkerStop, LeaseExpires
  <2> QED BY <2>1
<1> QED BY <1>1, <1>2

(* A playlist is a copy of another, or a base with complete ladders merged.   *)
LEMMA NextListed ==
  ASSUME TypeInv, Sourced, Listed, [Next]_vars
  PROVE  Listed'
<1> DEFINE Old == master.extra \cup pristine.extra \cup run.read.extra
           Complete == {c \in Codecs : ladder[c] # 0}
<1> USE DEF TypeInv, files, others
<1>1. Old \subseteq Complete
  BY DEF Listed, TypeOK, Attempts, Playlists
<1>2. Complete \subseteq Complete'
  BY LaddersStay
<1>3. SUFFICES /\ (master.extra \cup pristine.extra \cup run.read.extra)'
                     \subseteq Complete
               /\ run'.at = "publish" => Stored(run.read)'
  BY <1>2, <1>3 DEF Listed
<1>4. CASE UNCHANGED <<master, pristine>> /\ run'.read \in {run.read, NoPlaylist}
           /\ (run'.at = "publish" => run.at = "publish" /\ run'.read = run.read)
  BY <1>1, <1>4 DEF NoPlaylist, Listed, Stored
<1>5. CASE MainPublish
  BY <1>1, <1>5 DEF MainPublish, Listed, Stored
<1>6. CASE RunCapture
  <2>1. run'.read \in {run.read, master} /\ run'.at # "publish"
    BY <1>6 DEF RunCapture, TypeOK, Attempts
  <2> QED BY <1>1, <1>6, <2>1 DEF RunCapture
<1>7. CASE RunKeep
  <2>1. run'.read = NoPlaylist /\ run'.at # "publish"
    BY <1>7 DEF RunKeep, TypeOK, Attempts
  <2>2. pristine' \in {pristine, run.read}
    BY <1>7 DEF RunKeep
  <2> QED BY <1>1, <1>7, <2>1, <2>2 DEF RunKeep, NoPlaylist
<1>8. CASE RunRebuild
  <2>1. PICK base \in {pristine, master},
             found \in SUBSET {c \in run.codecs : ladder[c] # 0} :
          /\ Stored(base)
          /\ run' = [run EXCEPT !.at = "publish", !.src = 0,
                                !.read = [base EXCEPT !.extra = @ \cup found]]
    BY <1>8 DEF RunRebuild
  <2>2. run'.read = [base EXCEPT !.extra = @ \cup found]
    BY <2>1 DEF TypeOK, Attempts
  <2>3. base \in Playlists
    BY DEF TypeOK
  <2>4. run'.read.extra = base.extra \cup found /\ Stored(run'.read)
    BY <2>1, <2>2, <2>3 DEF Playlists, Stored
  <2>5. found \subseteq Complete
    BY <2>1 DEF TypeOK, Attempts
  <2> QED BY <1>1, <1>8, <2>4, <2>5 DEF RunRebuild, Stored
<1>9. CASE RunPublish
  <2>1. run'.read = NoPlaylist /\ run'.at = "return"
    BY <1>9 DEF RunPublish, Return, IdleRun
  <2> QED BY <1>1, <1>9, <2>1 DEF RunPublish, NoPlaylist
<1>10. CASE ~(MainPublish \/ RunCapture \/ RunKeep \/ RunRebuild \/ RunPublish)
  <2>1. UNCHANGED <<master, pristine>>
    BY <1>10 DEF Next, vars, MainStart, Main, MainFail,
         MainRows, MainEnqueue, Ask, Asked, AskRead, AskWrite, AskRow, AskEnqueue,
         AskAbandon, Run, StartRun, RunSettings, RunSource,
         RunPresent, RunEncode, RunUploaded, RunDone, RunFailed,
         RunError, RunSettle, WorkerStop, LeaseExpires
  <2>2. /\ run'.read \in {run.read, NoPlaylist}
        /\ run'.at = "publish" => run.at = "publish" /\ run'.read = run.read
    <3>1. CASE Run
      <4>1. CASE StartRun \/ RunSettle
        BY <4>1 DEF StartRun, RunSettle, IdleRun
      <4>2. CASE RunSettings
        BY <4>2, ReturnForgets DEF TypeOK, Attempts, RunSettings
      <4>3. CASE RunFailed \/ RunError
        BY <4>3, ReturnForgets DEF RunFailed, RunError
      <4>4. CASE RunSource \/ RunPresent \/ RunEncode \/ RunUploaded \/ RunDone
        BY <4>4 DEF TypeOK, Attempts, RunSource, RunPresent, RunEncode, RunUploaded,
             RunDone
      <4> QED BY <1>10, <3>1, <4>1, <4>2, <4>3, <4>4 DEF Run
    <3>2. CASE WorkerStop
      BY <3>2 DEF WorkerStop, IdleRun
    <3>3. CASE UNCHANGED run
      BY <3>3
    <3> QED BY <1>10, <3>1, <3>2, <3>3 DEF Next, vars, MainStart, Main, MainFail,
         MainRows, MainEnqueue, Ask, Asked, AskRead, AskWrite, AskRow, AskEnqueue,
         AskAbandon, LeaseExpires
  <2> QED BY <1>4, <2>1, <2>2
<1> QED BY <1>5, <1>6, <1>7, <1>8, <1>9, <1>10

LEMMA AlwaysListed == Spec => [](TypeInv /\ Sourced /\ Listed)
  BY InitTyped, NextTyped, InitSourced, NextSourced, InitListed, NextListed, PTL
     DEF Spec

(* A step completes at most one ladder or publishes at most one master.       *)
LEMMA StepKeepsCatalog ==
  ASSUME TypeInv, Sourced, Listed, [Next]_vars
  PROVE  [Catalog!Next]_(Catalog!catalog)
<1> DEFINE Complete == {c \in Codecs : ladder[c] # 0}
<1> USE DEF TypeInv, files, others
<1>1. CASE MainPublish
  <2>1. /\ {} \subseteq Complete
        /\ master'.extra = {}
        /\ Stored(master)'
        /\ UNCHANGED ladder
    BY <1>1 DEF MainPublish, Sourced, Stored
  <2>2. Catalog!Publish({})
    BY <2>1 DEF Catalog!Publish
  <2>3. {} \in SUBSET Codecs
    OBVIOUS
  <2> QED BY <2>2, <2>3 DEF Catalog!Next
<1>2. CASE RunUploaded
  <2>1. PICK c \in Codecs : c = Turn
    BY <1>2, TurnTyped DEF RunUploaded, TurnTaken
  <2>2. ladder' = [ladder EXCEPT ![c] = run.src] /\ run.src # 0
    BY <1>2, <2>1 DEF RunUploaded, Sourced
  <2>3. Complete' = Complete \cup {c}
    BY <2>1, <2>2 DEF TypeOK
  <2>4. Catalog!Complete(c)
    BY <1>2, <2>3 DEF Catalog!Complete, RunUploaded, Stored
  <2> QED BY <2>1, <2>4 DEF Catalog!Next
<1>3. CASE RunPublish
  <2>1. /\ master' = run.read
        /\ Stored(run.read)
        /\ UNCHANGED ladder
    BY <1>3 DEF RunPublish, Listed
  <2>2. run.read.extra \subseteq Codecs
    BY DEF TypeOK, Attempts, Playlists
  <2>3. run.read.extra \subseteq Complete
    BY <2>2 DEF Listed
  <2>4. Catalog!Publish(run.read.extra)
    BY <2>1, <2>3 DEF Catalog!Publish, Stored
  <2>5. run.read.extra \in SUBSET Codecs
    BY <2>2
  <2> QED BY <2>4, <2>5 DEF Catalog!Next
<1>4. CASE ~(MainPublish \/ RunUploaded \/ RunPublish)
  <2>1. UNCHANGED <<master, ladder>>
    BY <1>4 DEF Next, vars, MainStart, Main, MainFail,
         MainRows, MainEnqueue, Ask, Asked, AskRead, AskWrite, AskRow, AskEnqueue,
         AskAbandon, Run, StartRun, RunSettings, RunSource, RunCapture, RunKeep,
         RunPresent, RunEncode, RunDone, RunFailed, RunRebuild,
         RunError, RunSettle, WorkerStop, LeaseExpires
  <2> QED BY <2>1 DEF Catalog!catalog, Stored
<1> QED BY <1>1, <1>2, <1>3, <1>4

LEMMA InitCatalog == Init => Catalog!Init
  BY DEF Init, Catalog!Init, NoPlaylist, Stored

(* The backfill implements the catalog of complete codecs: whatever requests, *)
(* transcodes, retries, crashes and failed calls do, the master playlist,     *)
(* once published, stays, and it lists codecs with a complete ladder only.    *)
THEOREM CatalogKept == Spec => KeepsCatalog
  BY AlwaysListed, InitCatalog, StepKeepsCatalog, PTL
     DEF Spec, KeepsCatalog, Catalog!Spec

-----------------------------------------------------------------------------
(* The pristine master. *)

LEMMA InitPure == Init => Pure
  BY DEF Init, Pure, NoPlaylist, IdleRun

LEMMA NextPure ==
  ASSUME TypeInv, Pure, [Next]_vars
  PROVE  Pure'
<1> DEFINE Holding == {"next", "encode", "done", "publish"}
<1> USE DEF TypeInv, files, others
<1>1. ASSUME UNCHANGED <<master, pristine, slip>>,
             run'.at = "keep" => UNCHANGED run,
             run'.at \in Holding => run.at \in Holding
      PROVE  Pure'
  BY <1>1 DEF Pure, Stored
<1>2. CASE MainPublish
  BY <1>2 DEF MainPublish, Pure, Stored
<1>3. CASE RunCapture
  <2>1. CASE Stored(pristine) /\ run' = [run EXCEPT !.at = "next"] /\ UNCHANGED slip
    BY <1>3, <2>1 DEF RunCapture, Pure, Stored, TypeOK, Attempts
  <2>2. CASE slip' = (slip \/ Stored(pristine) \/ run'.at = "next")
             /\ Stored(master) /\ run' = [run EXCEPT !.at = "keep", !.read = master]
    <3>1. run'.at = "keep" /\ run'.read = master
      BY <2>2 DEF TypeOK, Attempts
    <3> QED BY <1>3, <2>2, <3>1 DEF RunCapture, Pure, Stored
  <2>3. CASE slip' = (slip \/ Stored(pristine) \/ run'.at = "next")
             /\ run' = [run EXCEPT !.at = "next"]
    <3>1. slip'
      BY <2>3 DEF TypeOK, Attempts
    <3> QED BY <3>1 DEF Pure
  <2> QED BY <1>3, <2>1, <2>2, <2>3 DEF RunCapture
<1>4. CASE RunKeep
  <2>1. run'.at = "next"
    BY <1>4 DEF RunKeep, TypeOK, Attempts
  <2>2. CASE slip' = TRUE
    BY <2>2 DEF Pure
  <2>3. CASE pristine' = run.read /\ UNCHANGED slip
    BY <1>4, <2>1, <2>3 DEF RunKeep, Pure, Stored
  <2> QED BY <1>4, <2>2, <2>3 DEF RunKeep
<1>5. CASE RunPublish
  <2>1. run'.at = "return"
    BY <1>5, ReturnForgets DEF RunPublish
  <2> QED BY <1>5, <2>1 DEF RunPublish, Pure, Stored
<1>6. CASE ~(MainPublish \/ RunCapture \/ RunKeep \/ RunPublish)
  <2>1. UNCHANGED <<master, pristine, slip>>
    BY <1>6 DEF Next, vars, MainStart, Main, MainFail,
         MainRows, MainEnqueue, Ask, Asked, AskRead, AskWrite, AskRow, AskEnqueue,
         AskAbandon, Run, StartRun, RunSettings, RunSource,
         RunPresent, RunEncode, RunUploaded, RunDone, RunFailed, RunRebuild,
         RunError, RunSettle, WorkerStop, LeaseExpires
  <2>2. CASE UNCHANGED run
    BY <1>1, <2>1, <2>2
  <2>3. CASE StartRun \/ RunSettle \/ WorkerStop
    <3>1. run'.at \in {"settings", "idle"}
      BY <2>3 DEF StartRun, RunSettle, WorkerStop, IdleRun
    <3> QED BY <1>1, <2>1, <3>1
  <2>4. CASE RunSettings \/ RunFailed \/ RunError
    <3>1. run'.at \in {"return", "source"}
      BY <2>4, ReturnForgets DEF RunSettings, RunFailed, RunError, TypeOK, Attempts
    <3> QED BY <1>1, <2>1, <3>1
  <2>5. CASE RunSource
    <3>1. run'.at = "capture"
      BY <2>5 DEF RunSource, TypeOK, Attempts
    <3> QED BY <1>1, <2>1, <3>1
  <2>6. CASE RunPresent \/ RunEncode \/ RunUploaded \/ RunDone
    <3>1. run.at \in Holding /\ run'.at \in Holding
      BY <2>6 DEF RunPresent, RunEncode, RunUploaded, RunDone, TypeOK, Attempts
    <3> QED BY <1>1, <2>1, <3>1
  <2>7. CASE RunRebuild
    <3>1. run.at = "next" /\ run'.at = "publish"
      BY <2>7 DEF RunRebuild, TypeOK, Attempts
    <3> QED BY <1>1, <2>1, <3>1
  <2> QED BY <1>6, <2>2, <2>3, <2>4, <2>5, <2>6, <2>7
        DEF Next, vars, MainStart, Main, MainFail, MainRows, MainEnqueue, Ask,
            Asked, AskRead, AskWrite, AskRow, AskEnqueue, AskAbandon, Run,
            LeaseExpires
<1> QED BY <1>2, <1>3, <1>4, <1>5, <1>6

(* Once there is a pristine master it holds the H.264 variants and nothing    *)
(* else, however many backfills run and whatever master each of them reads,   *)
(* unless one of them slipped.                                                *)
THEOREM PristinePure == Spec => []PristineIsPure
<1>1. Pure => PristineIsPure
  BY DEF Pure, PristineIsPure
<1> QED BY AlwaysTyped, InitPure, NextPure, <1>1, PTL DEF Spec

-----------------------------------------------------------------------------
(* The operation rows. *)

(* A step that at most queues rows. *)
RowsQueue ==
  /\ \A c \in Codecs : op'[c] = op[c] \/ op'[c] = "queued"
  /\ \A c \in Codecs : op'[c] = "running" /\ c \in lost => c \in lost'
  /\ UNCHANGED ladder
  /\ run'.at \in {"encode", "done"} => UNCHANGED run

(* The steps of requests and of the main transcode are such, and those of the *)
(* worker that neither encode nor end an encode.                              *)
LEMMA OtherRows ==
  ASSUME TypeInv, [Next]_vars,
         ~(RunEncode \/ RunUploaded \/ RunDone \/ RunFailed \/ WorkerStop)
  PROVE  RowsQueue
<1> USE DEF TypeInv, TypeOK, files, others
<1>1. UNCHANGED ladder
  BY DEF Next, vars, MainStart, Main, MainFail, MainPublish,
       MainRows, MainEnqueue, Ask, Asked, AskRead, AskWrite, AskRow, AskEnqueue,
       AskAbandon, Run, StartRun, RunSettings, RunSource, RunCapture, RunKeep,
       RunPresent, RunRebuild, RunPublish, RunError, RunSettle, LeaseExpires
<1>2. CASE \E r \in Requests : AskRow(r)
  BY <1>1, <1>2 DEF AskRow, RowsQueue
<1>3. CASE MainRows
  BY <1>1, <1>3 DEF MainRows, RowsQueue
<1>4. CASE ~MainRows /\ ~(\E r \in Requests : AskRow(r))
  <2>1. UNCHANGED <<op, lost>>
    BY <1>4 DEF Next, vars, MainStart, Main, MainFail, MainPublish,
       MainEnqueue, Ask, Asked, AskRead, AskWrite, AskEnqueue,
       AskAbandon, Run, StartRun, RunSettings, RunSource, RunCapture, RunKeep,
       RunPresent, RunRebuild, RunPublish, RunError, RunSettle, LeaseExpires
  <2>2. UNCHANGED run \/ run'.at \notin {"encode", "done"}
    <3>1. CASE Run
      <4>1. CASE StartRun \/ RunSettle
        BY <4>1 DEF StartRun, RunSettle, IdleRun
      <4>2. CASE RunSettings \/ RunError \/ RunPublish
        BY <4>2, ReturnForgets DEF RunSettings, RunError, RunPublish, Attempts
      <4>3. CASE RunSource \/ RunCapture \/ RunKeep \/ RunPresent
        BY <4>3 DEF RunSource, RunCapture, RunKeep, RunPresent, Attempts
      <4>4. CASE RunRebuild
        BY <4>4 DEF RunRebuild, Attempts
      <4> QED BY <3>1, <4>1, <4>2, <4>3, <4>4 DEF Run
    <3>2. CASE ~Run
      BY <3>2 DEF Next, vars, MainStart, Main, MainFail, MainPublish, MainRows,
         MainEnqueue, Ask, Asked, AskRead, AskWrite, AskRow, AskEnqueue,
         AskAbandon, LeaseExpires
    <3> QED BY <3>1, <3>2
  <2> QED BY <1>1, <2>1, <2>2 DEF RowsQueue
<1> QED BY <1>2, <1>3, <1>4

LEMMA InitRows == Init => Rows /\ RunningIsRunning
  BY DEF Init, Rows, RunningIsRunning, IdleRun

LEMMA NextRows ==
  ASSUME TypeInv, Sourced, Rows, [Next]_vars
  PROVE  Rows'
<1> USE DEF TypeInv, others
<1>1. CASE RunEncode
  <2>1. run'.at = "encode"
    BY <1>1 DEF RunEncode, TypeOK, Attempts
  <2>2. \A c \in Codecs : op'[c] = op[c] \/ op'[c] = "running"
    BY <1>1 DEF RunEncode, WriteRow, TypeOK
  <2> QED BY <1>1, <2>1, <2>2 DEF RunEncode, Rows
<1>2. CASE RunUploaded
  <2>1. Turn \in Codecs
    BY <1>2, TurnTyped DEF RunUploaded, TurnTaken
  <2>2. run'.todo = run.todo /\ run.src # 0
    BY <1>2 DEF RunUploaded, TypeOK, Attempts, Sourced
  <2>3. Turn' = Turn
    BY <2>2 DEF Turn
  <2>4. ladder'[Turn] # 0 /\ \A c \in Codecs : ladder[c] # 0 => ladder'[c] # 0
    BY <1>2, <2>1, <2>2 DEF RunUploaded, TypeOK
  <2> QED BY <1>2, <2>3, <2>4 DEF RunUploaded, Rows
<1>3. CASE RunDone
  <2>1. run'.at = "next"
    BY <1>3 DEF RunDone, TypeOK, Attempts
  <2>2. ladder[Turn] # 0 /\ UNCHANGED ladder
    BY <1>3 DEF RunDone, Rows
  <2>3. \A c \in Codecs : op'[c] = op[c] \/ c = Turn
    BY <1>3 DEF RunDone, WriteRow, TypeOK
  <2> QED BY <2>1, <2>2, <2>3 DEF Rows
<1>4. CASE RunFailed
  <2>1. run'.at = "return"
    BY <1>4, ReturnForgets DEF RunFailed
  <2>2. \A c \in Codecs : op'[c] = op[c] \/ op'[c] = "failed"
    BY <1>4 DEF RunFailed, WriteRow, TypeOK
  <2> QED BY <1>4, <2>1, <2>2 DEF RunFailed, Rows
<1>5. CASE WorkerStop
  BY <1>5 DEF WorkerStop, IdleRun, Rows
<1>6. CASE ~(RunEncode \/ RunUploaded \/ RunDone \/ RunFailed \/ WorkerStop)
  <2>1. RowsQueue
    BY <1>6, OtherRows
  <2>2. run'.at = "done" => run.at = "done" /\ Turn' = Turn
    BY <2>1 DEF Turn, RowsQueue
  <2> QED BY <2>1, <2>2 DEF Rows, RowsQueue
<1> QED BY <1>1, <1>2, <1>3, <1>4, <1>5, <1>6

(* A row says "done" only after the upload of that codec's ladder, whichever  *)
(* of the attempts and requests wrote it.                                     *)
THEOREM DoneUploaded == Spec => []DoneIsUploaded
<1>1. Rows => DoneIsUploaded
  BY DEF Rows, DoneIsUploaded
<1>2. Init => Rows
  BY InitRows
<1> QED BY AlwaysListed, <1>2, NextRows, <1>1, PTL DEF Spec

LEMMA NextRunning ==
  ASSUME TypeInv, RunningIsRunning, [Next]_vars
  PROVE  RunningIsRunning'
<1> USE DEF TypeInv, others
<1>1. CASE RunEncode
  <2>1. run'.at = "encode" /\ run'.todo = run.todo
    BY <1>1 DEF RunEncode, TypeOK, Attempts
  <2>2. Turn' = Turn
    BY <2>1 DEF Turn
  <2>3. \A c \in Codecs : op[c] = "running" => c \in lost
    BY <1>1 DEF RunEncode, RunningIsRunning
  <2>4. \A c \in Codecs :
          c # Turn => op'[c] = op[c] /\ (c \in lost => c \in lost')
    BY <1>1 DEF RunEncode, WriteRow, TypeOK
  <2> QED BY <2>1, <2>2, <2>3, <2>4 DEF RunningIsRunning
<1>2. CASE RunUploaded
  <2>1. run'.at = "done" /\ run'.todo = run.todo
    BY <1>2 DEF RunUploaded, TypeOK, Attempts
  <2>2. Turn' = Turn
    BY <2>1 DEF Turn
  <2> QED BY <1>2, <2>1, <2>2 DEF RunUploaded, RunningIsRunning
<1>3. ASSUME NEW s \in {"done", "failed"}, WriteRow(Turn, s),
             Turn \in Codecs
      PROVE  \A c \in Codecs : op'[c] = "running" => c \in lost'
  <2>1. \A c \in Codecs : c # Turn => /\ op'[c] = op[c]
                                      /\ c \in lost => c \in lost'
    BY <1>3 DEF WriteRow, TypeOK
  <2>2. \A c \in Codecs : c # Turn /\ op[c] = "running" => c \in lost
    BY DEF RunningIsRunning
  <2>3. op'[Turn] = "running" => Turn \in lost'
    BY <1>3 DEF WriteRow, TypeOK, RowsRunning
  <2> QED BY <2>1, <2>2, <2>3
<1>4. CASE RunDone
  <2>1. Turn \in Codecs
    BY <1>4, TurnTyped DEF RunDone, TurnTaken
  <2>2. \A c \in Codecs : op'[c] = "running" => c \in lost'
    BY <1>3, <1>4, <2>1 DEF RunDone
  <2> QED BY <2>2 DEF RunningIsRunning
<1>5. CASE RunFailed
  <2>1. Turn \in Codecs
    BY <1>5, TurnTyped DEF RunFailed, TurnTaken
  <2>2. \A c \in Codecs : op'[c] = "running" => c \in lost'
    BY <1>3, <1>5, <2>1 DEF RunFailed
  <2> QED BY <2>2 DEF RunningIsRunning
<1>6. CASE WorkerStop
  <2>1. \A c \in Codecs : op[c] = "running" => c \in lost'
    BY <1>6 DEF WorkerStop, RunningIsRunning, RowsRunning
  <2> QED BY <1>6, <2>1 DEF WorkerStop, RunningIsRunning
<1>7. CASE ~(RunEncode \/ RunUploaded \/ RunDone \/ RunFailed \/ WorkerStop)
  <2>1. RowsQueue
    BY <1>7, OtherRows
  <2>2. CASE run.at \notin {"encode", "done"}
    BY <2>1, <2>2 DEF RunningIsRunning, RowsQueue
  <2>3. CASE run.at \in {"encode", "done"}
    <3>1. UNCHANGED run
      BY <1>7, <2>3 DEF Next, vars, files, MainStart, Main, MainFail, MainPublish,
         MainRows, MainEnqueue, Ask, Asked, AskRead, AskWrite, AskRow, AskEnqueue,
         AskAbandon, LeaseExpires, Run, StartRun, RunSettings, RunSource,
         RunCapture, RunKeep, RunPresent, RunRebuild, RunPublish, RunError,
         RunSettle
    <3>2. Turn' = Turn
      BY <3>1 DEF Turn
    <3> QED BY <2>1, <3>1, <3>2 DEF RunningIsRunning, RowsQueue
  <2> QED BY <2>2, <2>3
<1> QED BY <1>1, <1>2, <1>4, <1>5, <1>6, <1>7

(* No way out of the handler but a crash or a lost write leaves a row at      *)
(* "running" for a codec nobody encodes.                                      *)
THEOREM RunningTrue == Spec => []RunningIsRunning
<1>1. Init => RunningIsRunning
  BY InitRows
<1> QED BY AlwaysTyped, <1>1, NextRunning, PTL DEF Spec
=============================================================================
