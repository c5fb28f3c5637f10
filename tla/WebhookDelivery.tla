---------------------------- MODULE WebhookDelivery ----------------------------
(***************************************************************************)
(* Webhooks: an event of a library is recorded once per endpoint subscribed  *)
(* to it, a task is enqueued for each record, and workers post it until the  *)
(* endpoint answers 2xx or the retries are used up. The row, the task and    *)
(* the endpoint are three stores that no transaction joins. One library.     *)
(***************************************************************************)
EXTENDS Naturals

CONSTANTS
  Endpoints,     (* ids, each registered at most once                       *)
  Events,        (* the events of one run, each dispatched at most once     *)
  TypeOf,        (* the type of an event                                    *)
  EventsOf,      (* the types an endpoint asks for; none means all          *)
  MaxRetry,
  MaxFaults      (* bound: failed calls and workers that stop               *)

ASSUME WebhookAssumption ==
  /\ Endpoints # {} /\ MaxRetry \in Nat /\ MaxFaults \in Nat

VARIABLES
  endpoint,      (* webhook_endpoints: "unborn", "there" or "gone"          *)
  dispatch,      (* Dispatch, per event                                     *)
  row,           (* webhook_deliveries.status; "nothing" before the insert, *)
                 (* "gone" after the endpoint                               *)
  attempts,      (* webhook_deliveries.attempts                             *)
  task,          (* the task webhook:<delivery> in Redis                    *)
  hand,          (* the step of its handler                                 *)
  accepted,      (* what the endpoints have accepted                        *)
  posts,         (* history: posts made of a delivery, those made after the *)
                 (* endpoint was deleted, those the row does not count, and *)
                 (* the faults that met it                                  *)
  faults

vars == <<endpoint, dispatch, row, attempts, task, hand, accepted, posts, faults>>

(* One delivery per event and endpoint.                                      *)
Deliveries == Events \X Endpoints

NotRaised == [raised |-> FALSE, todo |-> {}, due |-> {}]

NoTask == [state |-> "none", retried |-> 0]
NewTask == [state |-> "waiting", retried |-> 0]

TaskLive(d) == task[d].state \in {"waiting", "active"}

(* AfterFailure with one retry too many, and with retries that do not count.  *)
RetriedOnceMore(t) ==
  IF t.retried <= MaxRetry
  THEN [state |-> "waiting", retried |-> t.retried + 1]
  ELSE [t EXCEPT !.state = "archived"]

RetriedForEver(t) == [t EXCEPT !.state = "waiting"]

(* What asynq does with an attempt that did not succeed.                      *)
AfterFailure(t) ==
  IF t.retried < MaxRetry
  THEN [state |-> "waiting", retried |-> t.retried + 1]
  ELSE [t EXCEPT !.state = "archived"]

Recorded(d) == row[d] \notin {"nothing", "gone"}

(* A call on Postgres or Redis fails, or the process stops.                   *)
Fault == faults < MaxFaults /\ faults' = faults + 1

-----------------------------------------------------------------------------
(* Endpoints *)

CreateEndpoint(e) ==
  /\ endpoint[e] = "unborn"
  /\ endpoint' = [endpoint EXCEPT ![e] = "there"]
  /\ UNCHANGED <<dispatch, row, attempts, task, hand, accepted, posts, faults>>

(* The foreign key removes the deliveries; the tasks stay.                    *)
DeleteEndpoint(e) ==
  /\ endpoint[e] = "there"
  /\ endpoint' = [endpoint EXCEPT ![e] = "gone"]
  /\ row' = [d \in Deliveries |->
               IF d[2] = e /\ Recorded(d) THEN "gone" ELSE row[d]]
  /\ UNCHANGED <<dispatch, attempts, task, hand, accepted, posts, faults>>

(* No handler changes active, so that it is always TRUE.                      *)
ActiveEndpointsForEvent(n) ==
  {e \in Endpoints : endpoint[e] = "there"
                     /\ (EventsOf[e] = {} \/ TypeOf[n] \in EventsOf[e])}

-----------------------------------------------------------------------------
(* Dispatch, call by call *)

(* The listing; if it fails, or finds none, nothing is left to do.            *)
Raise(n) ==
  /\ ~dispatch[n].raised
  /\ \/ /\ dispatch' = [dispatch EXCEPT ![n] =
             [raised |-> TRUE, todo |-> ActiveEndpointsForEvent(n), due |-> {}]]
        /\ UNCHANGED faults
     \/ /\ Fault
        /\ dispatch' = [dispatch EXCEPT ![n].raised = TRUE]
  /\ UNCHANGED <<endpoint, row, attempts, task, hand, accepted, posts>>

(* The insert fails when the endpoint has gone since it was listed; the loop  *)
(* goes on to the next one.                                                  *)
CreateWebhookDelivery(n) ==
  /\ dispatch[n].due = {}
  /\ \E e \in dispatch[n].todo :
       \/ /\ endpoint[e] = "there"
          /\ row' = [row EXCEPT ![<<n, e>>] = "pending"]
          /\ dispatch' = [dispatch EXCEPT ![n].todo = @ \ {e}, ![n].due = {e}]
          /\ UNCHANGED faults
       \/ /\ \/ endpoint[e] = "gone" /\ UNCHANGED faults
             \/ Fault
          /\ dispatch' = [dispatch EXCEPT ![n].todo = @ \ {e}]
          /\ UNCHANGED row
  /\ UNCHANGED <<endpoint, attempts, task, hand, accepted, posts>>

(* EnqueueWebhook without the enqueue.                                        *)
RecordOnly(n) ==
  /\ dispatch[n].due # {}
  /\ dispatch' = [dispatch EXCEPT ![n].due = {}]
  /\ UNCHANGED <<endpoint, row, attempts, task, hand, accepted, posts, faults>>

(* The error is logged, and the row stays.                                   *)
EnqueueWebhook(n) ==
  /\ \E e \in dispatch[n].due :
       \/ /\ task' = [task EXCEPT ![<<n, e>>] = NewTask]
          /\ UNCHANGED <<posts, faults>>
       \/ /\ Fault
          /\ posts' = [posts EXCEPT ![<<n, e>>].cut = @ + 1]
          /\ UNCHANGED task
  /\ dispatch' = [dispatch EXCEPT ![n].due = {}]
  /\ UNCHANGED <<endpoint, row, attempts, hand, accepted>>

(* The process stops in the middle of a dispatch.                            *)
DispatchStops(n) ==
  /\ dispatch[n].todo \cup dispatch[n].due # {}
  /\ Fault
  /\ dispatch' = [dispatch EXCEPT ![n].todo = {}, ![n].due = {}]
  /\ posts' = [d \in Deliveries |->
                 IF d[1] = n /\ d[2] \in dispatch[n].due
                 THEN [posts[d] EXCEPT !.cut = @ + 1] ELSE posts[d]]
  /\ UNCHANGED <<endpoint, row, attempts, task, hand, accepted>>

-----------------------------------------------------------------------------
(* The handler of the task, call by call *)

StartAttempt(d) ==
  /\ task[d].state = "waiting"
  /\ task' = [task EXCEPT ![d].state = "active"]
  /\ hand' = [hand EXCEPT ![d] = "load"]
  /\ UNCHANGED <<endpoint, dispatch, row, attempts, accepted, posts, faults>>

(* GetWebhookSend that sends what it finds no row for.                        *)
LoadAnyway(d) ==
  /\ hand[d] = "load"
  /\ hand' = [hand EXCEPT ![d] = "post"]
  /\ UNCHANGED <<endpoint, dispatch, row, attempts, task, accepted, posts, faults>>

(* A row that is gone, by itself or with its endpoint, is not retried.        *)
GetWebhookSend(d) ==
  /\ hand[d] = "load"
  /\ \/ /\ hand' = [hand EXCEPT ![d] = IF Recorded(d) THEN "post" ELSE "skip"]
        /\ UNCHANGED <<posts, faults>>
     \/ /\ Fault
        /\ hand' = [hand EXCEPT ![d] = "error"]
        /\ posts' = [posts EXCEPT ![d].cut = @ + 1]
  /\ UNCHANGED <<endpoint, dispatch, row, attempts, task, accepted>>

(* The endpoint answers 2xx, and the answer may be lost; or it does not take  *)
(* the delivery. A registered URL always makes a request: it was parsed.      *)
Post(d) ==
  /\ hand[d] = "post"
  /\ \/ /\ accepted' = accepted \cup {d}
        /\ \E next \in {"ok", "bad"} : hand' = [hand EXCEPT ![d] = next]
     \/ /\ hand' = [hand EXCEPT ![d] = "bad"]
        /\ UNCHANGED accepted
  /\ posts' = [posts EXCEPT ![d].made = @ + 1,
                            ![d].late = IF Recorded(d) THEN @ ELSE @ + 1,
                            ![d].uncounted = @ + 1]
  /\ UNCHANGED <<endpoint, dispatch, row, attempts, task, faults>>

(* UPDATE of a row that may be gone; a failure is not looked at.              *)
Mark(d, status) ==
  \/ /\ row' = [row EXCEPT ![d] = IF Recorded(d) THEN status ELSE @]
     /\ attempts' = [attempts EXCEPT ![d] = IF Recorded(d) THEN @ + 1 ELSE @]
     /\ posts' = [posts EXCEPT ![d].uncounted = IF Recorded(d) THEN @ - 1 ELSE @]
     /\ UNCHANGED faults
  \/ /\ Fault
     /\ posts' = [posts EXCEPT ![d].cut = @ + 1]
     /\ UNCHANGED <<row, attempts>>

(* MarkWebhookDelivered whatever the answer.                                  *)
MarkAnyAnswer(d) ==
  /\ hand[d] \in {"ok", "bad"}
  /\ Mark(d, "delivered")
  /\ hand' = [hand EXCEPT ![d] = "done"]
  /\ UNCHANGED <<endpoint, dispatch, task, accepted>>

MarkWebhookDelivered(d) ==
  /\ hand[d] = "ok"
  /\ Mark(d, "delivered")
  /\ hand' = [hand EXCEPT ![d] = "done"]
  /\ UNCHANGED <<endpoint, dispatch, task, accepted>>

MarkWebhookFailed(d) ==
  /\ hand[d] = "bad"
  /\ Mark(d, "failed")
  /\ hand' = [hand EXCEPT ![d] = "error"]
  /\ UNCHANGED <<endpoint, dispatch, task, accepted>>

(* Return that puts every task back that is not done.                         *)
RequeueSkipped(d) ==
  /\ hand[d] \in {"done", "error", "skip"}
  /\ task' = [task EXCEPT ![d] =
       CASE hand[d] = "done" -> NoTask
         [] hand[d] = "error" -> AfterFailure(@)
         [] hand[d] = "skip" -> [@ EXCEPT !.state = "waiting"]]
  /\ hand' = [hand EXCEPT ![d] = "idle"]
  /\ UNCHANGED <<endpoint, dispatch, row, attempts, accepted, posts, faults>>

Return(d) ==
  /\ hand[d] \in {"done", "error", "skip"}
  /\ task' = [task EXCEPT ![d] =
       CASE hand[d] = "done" -> NoTask
         [] hand[d] = "error" -> AfterFailure(@)
         [] hand[d] = "skip" -> [@ EXCEPT !.state = "archived"]]
  /\ hand' = [hand EXCEPT ![d] = "idle"]
  /\ UNCHANGED <<endpoint, dispatch, row, attempts, accepted, posts, faults>>

Attempt(d) ==
  \/ StartAttempt(d) \/ GetWebhookSend(d) \/ Post(d)
  \/ MarkWebhookDelivered(d) \/ MarkWebhookFailed(d) \/ Return(d)

(* The worker stops: a shutdown puts the task back, a crash leaves it to the  *)
(* lease.                                                                     *)
WorkerStops(d) ==
  /\ hand[d] # "idle"
  /\ Fault
  /\ hand' = [hand EXCEPT ![d] = "idle"]
  /\ posts' = [posts EXCEPT ![d].cut = @ + 1]
  /\ UNCHANGED task \/ task' = [task EXCEPT ![d].state = "waiting"]
  /\ UNCHANGED <<endpoint, dispatch, row, attempts, accepted>>

LeaseExpires(d) ==
  /\ task[d].state = "active"
  /\ hand[d] = "idle"
  /\ task' = [task EXCEPT ![d] = AfterFailure(@)]
  /\ UNCHANGED <<endpoint, dispatch, row, attempts, hand, accepted, posts, faults>>

-----------------------------------------------------------------------------
NoPosts == [made |-> 0, late |-> 0, uncounted |-> 0, cut |-> 0]

Init ==
  /\ endpoint = [e \in Endpoints |-> "unborn"]
  /\ dispatch = [n \in Events |-> NotRaised]
  /\ row = [d \in Deliveries |-> "nothing"]
  /\ attempts = [d \in Deliveries |-> 0]
  /\ task = [d \in Deliveries |-> NoTask]
  /\ hand = [d \in Deliveries |-> "idle"]
  /\ accepted = {}
  /\ posts = [d \in Deliveries |-> NoPosts]
  /\ faults = 0

Dispatch(n) == Raise(n) \/ CreateWebhookDelivery(n) \/ EnqueueWebhook(n)

Next ==
  \/ \E e \in Endpoints : CreateEndpoint(e) \/ DeleteEndpoint(e)
  \/ \E n \in Events : Dispatch(n) \/ DispatchStops(n)
  \/ \E d \in Deliveries : Attempt(d) \/ WorkerStops(d) \/ LeaseExpires(d)

Spec == Init /\ [][Next]_vars

(* A dispatch that has begun goes on; workers, and the recoverer beside them, *)
(* poll for ever. Nobody owes an event, an endpoint or a 2xx.                 *)
FairSpec ==
  /\ Spec
  /\ \A n \in Events : WF_vars(CreateWebhookDelivery(n) \/ EnqueueWebhook(n))
  /\ \A d \in Deliveries : WF_vars(Attempt(d) \/ LeaseExpires(d))

-----------------------------------------------------------------------------
(* Properties *)

(* The types of endpoints, rows, tasks and handlers.                         *)
TypeOK ==
  /\ endpoint \in [Endpoints -> {"unborn", "there", "gone"}]
  /\ dispatch \in [Events -> [raised : BOOLEAN, todo : SUBSET Endpoints,
                              due : SUBSET Endpoints]]
  /\ row \in [Deliveries -> {"nothing", "pending", "failed", "delivered", "gone"}]
  /\ attempts \in [Deliveries -> Nat]
  /\ task \in [Deliveries ->
                 [state : {"none", "waiting", "active", "archived"},
                  retried : 0..MaxRetry]]
  /\ hand \in [Deliveries ->
                 {"idle", "load", "post", "ok", "bad", "done", "error", "skip"}]
  /\ accepted \subseteq Deliveries
  /\ posts \in [Deliveries -> [made : Nat, late : Nat, uncounted : Nat,
                               cut : Nat]]
  /\ faults \in 0..MaxFaults

Promise == INSTANCE DeliveryPromise WITH told <- row

(* A row says "delivered" only of what its endpoint has accepted, says        *)
(* nothing of a delivery that was never recorded, and never comes back from   *)
(* a deleted endpoint (worker/webhook.go: handleWebhookDeliver).              *)
KeepsPromise == Promise!Spec

(* Every post is counted by the row, but for those whose result was lost with *)
(* a fault or with the row, and a delivery is posted MaxRetry + 1 times and   *)
(* once more per fault at most (db/webhooks.go: Mark..., MaxRetry in queue.go). *)
EveryPostCounted ==
  \A d \in Deliveries :
    /\ posts[d].made = attempts[d] + posts[d].uncounted
    /\ posts[d].made <= MaxRetry + 1 + posts[d].cut
    /\ Recorded(d) /\ hand[d] \notin {"ok", "bad"} => posts[d].uncounted <= posts[d].cut

(* A deleted endpoint is called at most once more for a delivery, by the      *)
(* handler that had loaded it before (worker/webhook.go: GetWebhookSend).     *)
DeletedEndpointLeftAlone == \A d \in Deliveries : posts[d].late <= 1

(* A row that is pending has a task, or a dispatch about to enqueue it, unless *)
(* the enqueue or the update of the row failed or the process stopped there   *)
(* (webhooks.go: Dispatch writes the row first and only logs the enqueue).    *)
PendingHasTask ==
  \A d \in Deliveries :
    row[d] = "pending" =>
      \/ TaskLive(d)
      \/ d[2] \in dispatch[d[1]].due
      \/ posts[d].cut > 0

(* A delivery that some part of the system still works at, or ought to.       *)
Awaited(d) == TaskLive(d) \/ (row[d] = "pending" /\ posts[d].cut = 0)

(* Every task comes to an end, and with it every row that waits for one       *)
(* (asynq retries, up to MaxRetry, whatever the endpoint answers).            *)
DeliveriesSettle == \A d \in Deliveries : Awaited(d) ~> ~Awaited(d)
=============================================================================
