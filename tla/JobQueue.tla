-------------------------------- MODULE JobQueue --------------------------------
(***************************************************************************)
(* The advanced operations of one video as the queue sees them: a row per    *)
(* kind of operation that the UI polls, a task per job in Redis, and         *)
(* handlers that run them. Whoever wants a job done, an admin's request or a  *)
(* handler that chains the next job, goes through enqueueIdempotent, which is *)
(* up to four calls on Redis. What a handler does between its first and its  *)
(* last word on the row is left to the module that extends this one.          *)
(***************************************************************************)
EXTENDS Naturals

CONSTANTS
  Jobs,          (* task ids: kind, video, and for some kinds the language; *)
                 (* the tasks of one kind share its row                     *)
  KindOf,        (* the kind of a job: its row in video_operations          *)
  RetriesOf,     (* MaxRetry of a job                                       *)
  Askers,        (* requests served at the same time                        *)
  MaxAsks,       (* bound: requests in all                                  *)
  MaxFaults      (* bound: failed calls and processes that stop             *)

ASSUME QueueAssumption ==
  /\ RetriesOf \in [Jobs -> Nat]
  /\ MaxAsks \in Nat /\ MaxFaults \in Nat
  /\ Jobs \cap Askers = {}

Kinds == {KindOf[j] : j \in Jobs}

VARIABLES
  op,            (* video_operations.status, per kind                       *)
  task,          (* per job                                                 *)
  hand,          (* the handler of a job: its step, what it will return,    *)
                 (* and what it holds in hand                               *)
  enq,           (* enqueueIdempotent, per request and per handler          *)
  asks, faults,
  slips          (* history: kinds whose row a fault, or an enqueue that    *)
                 (* came too late for the handler that absorbed it, has left *)
                 (* to no one since a handler last wrote it                 *)

queueVars == <<op, task, hand, enq, asks, faults, slips>>

Fault == faults < MaxFaults /\ faults' = faults + 1

NoTask == [state |-> "none", retried |-> 0, arg |-> 0]
NewTask(arg) == [state |-> "waiting", retried |-> 0, arg |-> arg]

TaskLive(j) == task[j].state \in {"waiting", "active"}

IdleHand == [at |-> "idle", out |-> "done", got |-> 0]
IdleEnq == [at |-> "idle", job |-> CHOOSE j \in Jobs : TRUE, arg |-> 0]

(* AfterFailure with one retry too many.                                      *)
RetriedOnceMore(j) ==
  IF task[j].retried <= RetriesOf[j]
  THEN [task[j] EXCEPT !.state = "waiting", !.retried = @ + 1]
  ELSE [task[j] EXCEPT !.state = "archived"]

(* What asynq does with an attempt that did not succeed.                      *)
AfterFailure(j) ==
  IF task[j].retried < RetriesOf[j]
  THEN [task[j] EXCEPT !.state = "waiting", !.retried = @ + 1]
  ELSE [task[j] EXCEPT !.state = "archived"]

-----------------------------------------------------------------------------
(* enqueueIdempotent, call by call *)

Leave(a) == enq' = [enq EXCEPT ![a] = IdleEnq]
Proceed(a, at) == enq' = [enq EXCEPT ![a].at = at]

(* The job goes on, or it does not, without this enqueue.                     *)
Absorb(a) ==
  LET j == enq[a].job IN
  /\ Leave(a)
  /\ slips' = IF task[j].state = "none" \/ hand[j].at = "ack"
              THEN slips \cup {KindOf[j]} ELSE slips
  /\ UNCHANGED <<task, faults>>

GiveUp(a) ==
  /\ Fault
  /\ Leave(a)
  /\ slips' = slips \cup {KindOf[enq[a].job]}
  /\ UNCHANGED task

Submit(a) ==
  /\ task' = [task EXCEPT ![enq[a].job] = NewTask(enq[a].arg)]
  /\ Leave(a)
  /\ UNCHANGED <<faults, slips>>

Enqueue(a) ==
  LET j == enq[a].job IN
  /\ enq[a].at = "enqueue"
  /\ \/ task[j].state = "none" /\ Submit(a)
     \/ /\ task[j].state # "none"
        /\ Proceed(a, "inspect")
        /\ UNCHANGED <<task, faults, slips>>
     \/ GiveUp(a)
  /\ UNCHANGED <<op, hand, asks>>

(* GetTaskInfo that takes every task for a live one.                          *)
CollapseAlways(a) ==
  /\ enq[a].at = "inspect"
  /\ Absorb(a)
  /\ UNCHANGED <<op, hand, asks>>

(* A task that has gone since, and an inspection that fails, count as live.   *)
Inspect(a) ==
  LET j == enq[a].job IN
  /\ enq[a].at = "inspect"
  /\ \/ /\ task[j].state = "archived"
        /\ Proceed(a, "delete")
        /\ UNCHANGED <<task, faults, slips>>
     \/ task[j].state # "archived" /\ Absorb(a)
     \/ GiveUp(a)
  /\ UNCHANGED <<op, hand, asks>>

(* DeleteTask that is taken for the whole of it.                              *)
DeleteOnly(a) ==
  /\ enq[a].at = "delete"
  /\ task' = [task EXCEPT ![enq[a].job] = NoTask]
  /\ Leave(a)
  /\ UNCHANGED <<op, hand, asks, faults, slips>>

(* DeleteTask removes whatever is not active by now: the corpse, or a fresh   *)
(* task that waits. Its error is not looked at.                              *)
Delete(a) ==
  LET j == enq[a].job IN
  /\ enq[a].at = "delete"
  /\ \/ /\ task' = IF task[j].state = "active" THEN task
                   ELSE [task EXCEPT ![j] = NoTask]
        /\ UNCHANGED <<faults, slips>>
     \/ /\ Fault
        /\ slips' = slips \cup {KindOf[j]}
        /\ UNCHANGED task
  /\ Proceed(a, "again")
  /\ UNCHANGED <<op, hand, asks>>

(* A task that is there already is as good as this one, a corpse included.    *)
Again(a) ==
  LET j == enq[a].job IN
  /\ enq[a].at = "again"
  /\ \/ task[j].state = "none" /\ Submit(a)
     \/ TaskLive(j) /\ Absorb(a)
     \/ /\ task[j].state = "archived"
        /\ Leave(a)
        /\ UNCHANGED <<task, faults, slips>>
     \/ GiveUp(a)
  /\ UNCHANGED <<op, hand, asks>>

EnqueueIdempotent(a) == Enqueue(a) \/ Inspect(a) \/ Delete(a) \/ Again(a)

-----------------------------------------------------------------------------
(* A request: the row says "queued", then the job is enqueued *)

Ask(r, j, arg) ==
  /\ enq[r].at = "idle"
  /\ asks < MaxAsks
  /\ asks' = asks + 1
  /\ enq' = [enq EXCEPT ![r] = [at |-> "row", job |-> j, arg |-> arg]]
  /\ UNCHANGED <<op, task, hand, faults, slips>>

(* SetOperationStatus, whose error is not looked at.                          *)
SetQueued(r) ==
  /\ enq[r].at = "row"
  /\ \/ /\ op' = [op EXCEPT ![KindOf[enq[r].job]] = "queued"]
        /\ UNCHANGED faults
     \/ Fault /\ UNCHANGED op
  /\ Proceed(r, "enqueue")
  /\ UNCHANGED <<task, hand, asks, slips>>

(* The API process stops in the middle of a request.                          *)
RequestStops(r) ==
  /\ enq[r].at # "idle"
  /\ GiveUp(r)
  /\ UNCHANGED <<op, hand, asks>>

-----------------------------------------------------------------------------
(* An attempt of a job: its first and its last word, and its return *)

Step(j, at) == hand' = [hand EXCEPT ![j].at = at]
Fails(j) == hand' = [hand EXCEPT ![j].at = "end", ![j].out = "error"]
Skips(j) == hand' = [hand EXCEPT ![j].at = "end", ![j].out = "skip"]

(* trackOp *)
Begin(j) ==
  /\ task[j].state = "waiting"
  /\ task' = [task EXCEPT ![j].state = "active"]
  /\ hand' = [hand EXCEPT ![j] = [IdleHand EXCEPT !.at = "begin"]]
  /\ \/ op' = [op EXCEPT ![KindOf[j]] = "running"] /\ UNCHANGED faults
     \/ Fault /\ UNCHANGED op
  /\ UNCHANGED <<enq, asks, slips>>

(* The finalizer of trackOp, in a context of its own.                         *)
Finish(j) ==
  /\ hand[j].at = "end"
  /\ Step(j, "ack")
  /\ \/ /\ op' = [op EXCEPT ![KindOf[j]] =
                    IF hand[j].out = "done" THEN "done" ELSE "failed"]
        /\ slips' = slips \ {KindOf[j]}
        /\ UNCHANGED faults
     \/ /\ Fault
        /\ slips' = slips \cup {KindOf[j]}
        /\ UNCHANGED op
  /\ UNCHANGED <<task, enq, asks>>

Return(j) ==
  /\ hand[j].at = "ack"
  /\ task' = [task EXCEPT ![j] =
       CASE hand[j].out = "done" -> NoTask
         [] hand[j].out = "error" -> AfterFailure(j)
         [] hand[j].out = "skip" -> [@ EXCEPT !.state = "archived"]]
  /\ hand' = [hand EXCEPT ![j] = IdleHand]
  /\ UNCHANGED <<op, enq, asks, faults, slips>>

(* A shutdown puts the task back, a crash leaves it to its lease. A row that   *)
(* says "done" of an attempt that was cut short is a slip, and so is what the  *)
(* handler was enqueuing.                                                     *)
WorkerStops(j) ==
  /\ hand[j].at # "idle"
  /\ Fault
  /\ hand' = [hand EXCEPT ![j] = IdleHand]
  /\ Leave(j)
  /\ UNCHANGED task \/ task' = [task EXCEPT ![j].state = "waiting"]
  /\ slips' = slips
       \cup (IF op[KindOf[j]] = "done" THEN {KindOf[j]} ELSE {})
       \cup (IF enq[j].at = "idle" THEN {} ELSE {KindOf[enq[j].job]})
  /\ UNCHANGED <<op, asks>>

(* The recoverer archives a task that has no retry left, and knows of no row.  *)
LeaseExpires(j) ==
  /\ task[j].state = "active" /\ hand[j].at = "idle"
  /\ task' = [task EXCEPT ![j] = AfterFailure(j)]
  /\ slips' = IF task[j].retried < RetriesOf[j] THEN slips ELSE slips \cup {KindOf[j]}
  /\ UNCHANGED <<op, hand, enq, asks, faults>>

-----------------------------------------------------------------------------
QueueInit ==
  /\ op = [k \in Kinds |-> "none"]
  /\ task = [j \in Jobs |-> NoTask]
  /\ hand = [j \in Jobs |-> IdleHand]
  /\ enq = [a \in Askers \cup Jobs |-> IdleEnq]
  /\ asks = 0 /\ faults = 0
  /\ slips = {}

(* What moves the queue by itself; the body of a job, and a worker that stops  *)
(* in it, are not here.                                                       *)
QueueStep ==
  \/ \E a \in Askers \cup Jobs : EnqueueIdempotent(a)
  \/ \E r \in Askers : SetQueued(r) \/ RequestStops(r)
  \/ \E j \in Jobs : Begin(j) \/ Finish(j) \/ Return(j) \/ LeaseExpires(j)

-----------------------------------------------------------------------------
(* Properties *)

(* The types of rows, tasks, handlers and enqueues.                           *)
QueueTypeOK ==
  /\ op \in [Kinds -> {"none", "queued", "running", "done", "failed"}]
  /\ \A j \in Jobs :
       /\ task[j].state \in {"none", "waiting", "active", "archived"}
       /\ task[j].retried \in 0..RetriesOf[j]
       /\ hand[j].out \in {"done", "error", "skip"}
  /\ \A a \in Askers \cup Jobs :
       /\ enq[a].at \in {"idle", "row", "enqueue", "inspect", "delete", "again"}
       /\ enq[a].job \in Jobs
  /\ asks \in 0..MaxAsks /\ faults \in 0..MaxFaults
  /\ slips \subseteq Kinds

(* Who will still write the row of a kind.                                    *)
Awaited(k) ==
  \/ \E j \in Jobs : KindOf[j] = k /\ TaskLive(j) /\ hand[j].at # "ack"
  \/ \E a \in Askers \cup Jobs : KindOf[enq[a].job] = k /\ enq[a].at # "idle"

(* A row says "queued" or "running" only while a task that has not said its   *)
(* last word, or a request under way, will write it again, one of whichever   *)
(* tasks share the row, after a crash too; but for calls that fail, a crash of *)
(* the last attempt, and an enqueue absorbed by a handler that was about to   *)
(* return (queue.go: enqueueIdempotent, worker.go: trackOp).                  *)
RowsAwaitSomeone ==
  \A k \in Kinds : op[k] \in {"queued", "running"} => Awaited(k) \/ k \in slips
=============================================================================
