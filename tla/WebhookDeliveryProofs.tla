------------------------- MODULE WebhookDeliveryProofs -------------------------
(***************************************************************************)
(* Proofs about WebhookDelivery for any endpoints, events, subscriptions,   *)
(* retries and faults.                                                      *)
(***************************************************************************)
EXTENDS WebhookDelivery, TLAPS

-----------------------------------------------------------------------------
(* The inductive invariant, delivery by delivery. *)

Todo(d) == d[2] \in dispatch[d[1]].todo
Due(d) == d[2] \in dispatch[d[1]].due

(* A delivery is recorded once, by the one dispatch of its event, and nothing  *)
(* happens to it before it is recorded and enqueued.                         *)
Ordered(d) ==
  /\ ~dispatch[d[1]].raised => row[d] = "nothing" /\ ~Todo(d)
  /\ Todo(d) => row[d] = "nothing"
  /\ row[d] = "nothing" => ~Due(d) /\ attempts[d] = 0
  /\ row[d] = "nothing" \/ Due(d) =>
       task[d] = NoTask /\ hand[d] = "idle" /\ posts[d] = NoPosts

(* A handler runs only on a task that is leased. *)
Leased(d) == hand[d] # "idle" => task[d].state = "active"

(* What the row and the handler say of the endpoint's answer is so. *)
Truthful(d) == row[d] = "delivered" \/ hand[d] = "ok" => d \in accepted

(* The posts of a delivery against its retries and the faults that met it. *)
Posted(d) == hand[d] \in {"ok", "bad", "done", "error"}

Counted(d) ==
  /\ posts[d].made = attempts[d] + posts[d].uncounted
  /\ hand[d] \in {"ok", "bad"} => posts[d].uncounted > 0
  /\ Recorded(d) =>
       posts[d].uncounted <= posts[d].cut + (IF hand[d] \in {"ok", "bad"} THEN 1 ELSE 0)

Bounded(d) ==
  /\ posts[d].made <= MaxRetry + 1 + posts[d].cut
  /\ task[d].state \in {"waiting", "active"} =>
       posts[d].made <= task[d].retried + posts[d].cut + (IF Posted(d) THEN 1 ELSE 0)

(* After a late post the handler finds the row gone before it posts again. *)
Late(d) ==
  /\ posts[d].late <= 1
  /\ posts[d].late = 1 => row[d] = "gone" /\ hand[d] # "post"

(* A row that says "pending" is waited for, unless a fault met it. *)
Awaiting(d) ==
  row[d] = "pending" /\ posts[d].cut = 0 =>
    /\ Due(d) \/ TaskLive(d)
    /\ hand[d] \notin {"done", "error", "skip"}
    /\ task[d].state = "active" => hand[d] # "idle"

Kept(d) ==
  /\ Ordered(d) /\ Leased(d) /\ Truthful(d) /\ Counted(d) /\ Bounded(d)
  /\ Late(d) /\ Awaiting(d)

(* A dispatch enqueues one delivery at a time. *)
Single(n) == \A e, f \in dispatch[n].due : e = f

Inv ==
  /\ TypeOK
  /\ \A d \in Deliveries : Kept(d)
  /\ \A n \in Events : Single(n)

LEMMA InitKept == Init => Inv
  BY WebhookAssumption
     DEF Init, Inv, TypeOK, Kept, Ordered, Leased, Truthful, Counted, Bounded,
         Late, Awaiting, NotRaised, NoTask, NoPosts, Todo, Due, TaskLive, Recorded,
         Deliveries, Single

-----------------------------------------------------------------------------
(* Types of the records. *)

TaskRecords == [state : {"none", "waiting", "active", "archived"},
                retried : 0..MaxRetry]
PostRecords == [made : Nat, late : Nat, uncounted : Nat, cut : Nat]

LEMMA TasksTyped ==
  ASSUME NEW t \in TaskRecords
  PROVE  /\ AfterFailure(t) \in TaskRecords
         /\ NoTask \in TaskRecords /\ NewTask \in TaskRecords
         /\ [t EXCEPT !.state = "waiting"] \in TaskRecords
         /\ [t EXCEPT !.state = "active"] \in TaskRecords
         /\ [t EXCEPT !.state = "archived"] \in TaskRecords
<1>1. t.retried < MaxRetry => t.retried + 1 \in 0..MaxRetry
  BY WebhookAssumption DEF TaskRecords
<1>2. AfterFailure(t) \in TaskRecords
  BY <1>1 DEF AfterFailure, TaskRecords
<1>3. 0 \in 0..MaxRetry
  BY WebhookAssumption
<1>4. NoTask \in TaskRecords /\ NewTask \in TaskRecords
  BY <1>3 DEF NoTask, NewTask, TaskRecords
<1>5. \A a \in {"waiting", "active", "archived"} : [t EXCEPT !.state = a] \in TaskRecords
  BY DEF TaskRecords
<1> QED BY <1>2, <1>4, <1>5

LEMMA CountsTyped ==
  ASSUME NEW q \in PostRecords
  PROVE  /\ [q EXCEPT !.cut = @ + 1] \in PostRecords
         /\ q.uncounted > 0 => [q EXCEPT !.uncounted = @ - 1] \in PostRecords
<1>1. [q EXCEPT !.cut = @ + 1] \in PostRecords
  BY DEF PostRecords
<1>2. q.uncounted > 0 => [q EXCEPT !.uncounted = @ - 1] \in PostRecords
  BY DEF PostRecords
<1> QED BY <1>1, <1>2, Zenon

LEMMA PostTyped ==
  ASSUME NEW q \in PostRecords, NEW late \in Nat
  PROVE  [q EXCEPT !.made = @ + 1, !.late = late, !.uncounted = @ + 1] \in PostRecords
<1>1. [q EXCEPT !.made = @ + 1] \in PostRecords
  BY DEF PostRecords
<1>2. \A z \in PostRecords : [z EXCEPT !.late = late] \in PostRecords
  BY DEF PostRecords
<1>3. PICK w \in PostRecords : w = [q EXCEPT !.made = @ + 1, !.late = late]
  BY <1>1, <1>2, Zenon
<1>4. [w EXCEPT !.uncounted = q.uncounted + 1] \in PostRecords
  BY DEF PostRecords
<1> QED BY <1>3, <1>4, Zenon

LEMMA Typed ==
  ASSUME TypeOK, NEW d \in Deliveries
  PROVE  task[d] \in TaskRecords /\ posts[d] \in PostRecords /\ attempts[d] \in Nat
  BY DEF TypeOK, TaskRecords, PostRecords

-----------------------------------------------------------------------------
(* A step that leaves a delivery alone. *)

Same(d) ==
  /\ row'[d] = row[d] /\ attempts'[d] = attempts[d] /\ task'[d] = task[d]
  /\ hand'[d] = hand[d] /\ posts'[d] = posts[d]
  /\ Todo(d)' <=> Todo(d)
  /\ Due(d)' <=> Due(d)
  /\ dispatch'[d[1]].raised <=> dispatch[d[1]].raised
  /\ d \in accepted => d \in accepted'

LEMMA SameKept ==
  ASSUME NEW d \in Deliveries, Kept(d), Same(d)
  PROVE  Kept(d)'
<1> USE DEF Same
<1>1. Ordered(d)'
  BY DEF Kept, Ordered
<1>2. Leased(d)' /\ Truthful(d)'
  BY DEF Kept, Leased, Truthful
<1>3. Counted(d)'
  BY DEF Kept, Counted, Recorded
<1>4. Bounded(d)'
  BY DEF Kept, Bounded, Posted
<1>5. Late(d)' /\ Awaiting(d)'
  BY DEF Kept, Late, Awaiting, TaskLive
<1> QED BY <1>1, <1>2, <1>3, <1>4, <1>5 DEF Kept

(* What the worker and asynq do with one delivery is no other's business. *)
LEMMA HandLocal ==
  ASSUME TypeOK, NEW d \in Deliveries, Attempt(d) \/ WorkerStops(d) \/ LeaseExpires(d),
         NEW e \in Deliveries, e # d
  PROVE  Same(e)
  BY DEF Same, Todo, Due, TypeOK, Attempt, StartAttempt, GetWebhookSend, Post,
     MarkWebhookDelivered, MarkWebhookFailed, Mark, Return, WorkerStops, LeaseExpires

-----------------------------------------------------------------------------
(* The handler's steps on its own delivery. *)

LEMMA StartKept ==
  ASSUME Inv, NEW d \in Deliveries, StartAttempt(d)
  PROVE  Kept(d)'
<1>1. /\ task'[d].state = "active" /\ task'[d].retried = task[d].retried
      /\ hand'[d] = "load" /\ task[d].state = "waiting" /\ hand[d] = "idle"
  BY DEF Inv, TypeOK, Kept, Leased, StartAttempt
<1>2. /\ row'[d] = row[d] /\ attempts'[d] = attempts[d] /\ posts'[d] = posts[d]
      /\ dispatch' = dispatch /\ accepted' = accepted
  BY DEF StartAttempt
<1>3. row[d] # "nothing" /\ ~Due(d)
  BY <1>1 DEF Inv, Kept, Ordered, NoTask
<1> USE <1>1, <1>2, <1>3 DEF Inv
<1>4. Ordered(d)' /\ Leased(d)' /\ Truthful(d)'
  BY DEF Kept, Ordered, Leased, Truthful, Todo, Due
<1>5. Counted(d)' /\ Late(d)'
  BY DEF Kept, Counted, Recorded, Late
<1>6. Bounded(d)'
  BY DEF Kept, Bounded, Posted
<1>7. Awaiting(d)'
  BY DEF Kept, Awaiting, TaskLive
<1> QED BY <1>4, <1>5, <1>6, <1>7 DEF Kept

LEMMA LoadKept ==
  ASSUME Inv, NEW d \in Deliveries, GetWebhookSend(d)
  PROVE  Kept(d)'
<1>1. /\ row'[d] = row[d] /\ attempts'[d] = attempts[d] /\ task'[d] = task[d]
      /\ dispatch' = dispatch /\ accepted' = accepted
      /\ hand[d] = "load" /\ task[d].state = "active"
  BY DEF Inv, Kept, Leased, GetWebhookSend
<1>2. /\ posts'[d].made = posts[d].made /\ posts'[d].late = posts[d].late
      /\ posts'[d].uncounted = posts[d].uncounted
      /\ \/ hand'[d] = "post" /\ Recorded(d) /\ posts'[d].cut = posts[d].cut
         \/ hand'[d] = "skip" /\ ~Recorded(d) /\ posts'[d].cut = posts[d].cut
         \/ hand'[d] = "error" /\ posts'[d].cut = posts[d].cut + 1
  BY DEF Inv, TypeOK, GetWebhookSend
<1>3. row[d] # "nothing" /\ ~Due(d)
  BY <1>1 DEF Inv, Kept, Ordered
<1>4. posts[d] \in PostRecords /\ task[d] \in TaskRecords /\ attempts[d] \in Nat
  BY Typed DEF Inv
<1> USE <1>1, <1>2, <1>3, <1>4 DEF Inv
<1>5. Ordered(d)' /\ Leased(d)' /\ Truthful(d)'
  BY DEF Kept, Ordered, Leased, Truthful, Todo, Due
<1>6. Counted(d)'
  BY DEF Kept, Counted, Recorded, PostRecords
<1>7. Late(d)'
  BY DEF Kept, Late, Recorded
<1>8. Bounded(d)'
  BY WebhookAssumption DEF Kept, Bounded, Posted, PostRecords, TaskRecords
<1>9. Awaiting(d)'
  BY DEF Kept, Awaiting, TaskLive, Recorded, PostRecords
<1> QED BY <1>5, <1>6, <1>7, <1>8, <1>9 DEF Kept

LEMMA PostKept ==
  ASSUME Inv, NEW d \in Deliveries, Post(d)
  PROVE  Kept(d)'
<1>1. /\ row'[d] = row[d] /\ attempts'[d] = attempts[d] /\ task'[d] = task[d]
      /\ dispatch' = dispatch /\ (d \in accepted => d \in accepted')
      /\ hand[d] = "post" /\ task[d].state = "active"
      /\ hand'[d] \in {"ok", "bad"} /\ (hand'[d] = "ok" => d \in accepted')
  BY DEF Inv, TypeOK, Kept, Leased, Post
<1>2. /\ posts'[d].made = posts[d].made + 1
      /\ posts'[d].uncounted = posts[d].uncounted + 1
      /\ posts'[d].cut = posts[d].cut
      /\ posts'[d].late = IF Recorded(d) THEN posts[d].late ELSE posts[d].late + 1
  BY DEF Inv, TypeOK, Post
<1>3. row[d] # "nothing" /\ ~Due(d)
  BY <1>1 DEF Inv, Kept, Ordered
<1>4. posts[d] \in PostRecords /\ task[d] \in TaskRecords /\ attempts[d] \in Nat
  BY Typed DEF Inv
<1> USE <1>1, <1>2, <1>3, <1>4 DEF Inv
<1>5. Ordered(d)' /\ Leased(d)' /\ Truthful(d)'
  BY DEF Kept, Ordered, Leased, Truthful, Todo, Due
<1>6. Counted(d)'
  BY DEF Kept, Counted, Recorded, PostRecords
<1>7. Late(d)'
  BY DEF Kept, Late, Recorded, PostRecords
<1>8. Bounded(d)'
  BY WebhookAssumption DEF Kept, Bounded, Posted, PostRecords, TaskRecords
<1>9. Awaiting(d)'
  BY DEF Kept, Awaiting, TaskLive, PostRecords
<1> QED BY <1>5, <1>6, <1>7, <1>8, <1>9 DEF Kept

LEMMA MarkKept ==
  ASSUME Inv, NEW d \in Deliveries, NEW status \in {"delivered", "failed"},
         Mark(d, status),
         \/ /\ status = "delivered" /\ hand[d] = "ok"
            /\ hand' = [hand EXCEPT ![d] = "done"]
         \/ /\ status = "failed" /\ hand[d] = "bad"
            /\ hand' = [hand EXCEPT ![d] = "error"],
         UNCHANGED <<endpoint, dispatch, task, accepted>>
  PROVE  Kept(d)'
<1>1. /\ task'[d] = task[d] /\ dispatch' = dispatch /\ accepted' = accepted
      /\ task[d].state = "active"
      /\ \/ status = "delivered" /\ hand[d] = "ok" /\ hand'[d] = "done"
         \/ status = "failed" /\ hand[d] = "bad" /\ hand'[d] = "error"
  BY DEF Inv, TypeOK, Kept, Leased
<1>2. /\ posts'[d].made = posts[d].made /\ posts'[d].late = posts[d].late
      /\ \/ /\ Recorded(d) /\ row'[d] = status /\ attempts'[d] = attempts[d] + 1
            /\ posts'[d].uncounted = posts[d].uncounted - 1
            /\ posts'[d].cut = posts[d].cut
         \/ /\ ~Recorded(d) /\ row'[d] = row[d] /\ attempts'[d] = attempts[d]
            /\ posts'[d].uncounted = posts[d].uncounted
            /\ posts'[d].cut = posts[d].cut
         \/ /\ row'[d] = row[d] /\ attempts'[d] = attempts[d]
            /\ posts'[d].uncounted = posts[d].uncounted
            /\ posts'[d].cut = posts[d].cut + 1
  <2>1. CASE Recorded(d) /\ ~Fault
    BY <2>1 DEF Mark, Inv, TypeOK
  <2>2. CASE ~Recorded(d) /\ ~Fault
    BY <2>2 DEF Mark, Inv, TypeOK
  <2>3. CASE Fault
    BY <2>3 DEF Mark, Inv, TypeOK, Fault
  <2> QED BY <2>1, <2>2, <2>3
<1>3. row[d] # "nothing" /\ ~Due(d)
  BY <1>1 DEF Inv, Kept, Ordered
<1>4. posts[d] \in PostRecords /\ task[d] \in TaskRecords /\ attempts[d] \in Nat
  BY Typed DEF Inv
<1> USE <1>1, <1>2, <1>3, <1>4 DEF Inv
<1>5. Ordered(d)' /\ Leased(d)' /\ Truthful(d)'
  BY DEF Kept, Ordered, Leased, Truthful, Todo, Due
<1>6. Counted(d)'
  BY DEF Kept, Counted, Recorded, PostRecords
<1>7. Late(d)'
  BY DEF Kept, Late, Recorded, PostRecords
<1>8. Bounded(d)'
  BY WebhookAssumption DEF Kept, Bounded, Posted, PostRecords, TaskRecords
<1>9. Awaiting(d)'
  BY DEF Kept, Awaiting, TaskLive, Recorded, PostRecords
<1> QED BY <1>5, <1>6, <1>7, <1>8, <1>9 DEF Kept

(* The task at the end of an attempt, for the reader of one delivery. *)
LEMMA TaskEnds ==
  ASSUME NEW t \in TaskRecords, NEW z, z = AfterFailure(t)
  PROVE  \/ z.state = "waiting" /\ z.retried = t.retried + 1
         \/ z.state = "archived"
  BY WebhookAssumption DEF AfterFailure, TaskRecords

LEMMA ReturnKept ==
  ASSUME Inv, NEW d \in Deliveries, Return(d)
  PROVE  Kept(d)'
<1>1. /\ row'[d] = row[d] /\ attempts'[d] = attempts[d] /\ posts'[d] = posts[d]
      /\ dispatch' = dispatch /\ accepted' = accepted
      /\ hand[d] \in {"done", "error", "skip"} /\ hand'[d] = "idle"
      /\ task[d].state = "active"
  BY DEF Inv, TypeOK, Kept, Leased, Return
<1>2. PICK t \in TaskRecords : t = task[d]
  BY Typed DEF Inv
<1>3. \/ hand[d] = "done" /\ task'[d].state = "none"
      \/ hand[d] = "error" /\ task'[d].state = "archived"
      \/ hand[d] = "error" /\ task'[d].state = "waiting"
         /\ task'[d].retried = task[d].retried + 1
      \/ hand[d] = "skip" /\ task'[d].state = "archived"
  <2>1. CASE hand[d] = "done"
    BY <2>1 DEF Return, Inv, TypeOK, NoTask
  <2>2. CASE hand[d] = "error"
    <3>1. task'[d] = AfterFailure(t)
      BY <1>2, <2>2 DEF Return, Inv, TypeOK
    <3> QED BY <1>2, <2>2, <3>1, TaskEnds
  <2>3. CASE hand[d] = "skip"
    BY <2>3 DEF Return, Inv, TypeOK
  <2> QED BY <1>1, <2>1, <2>2, <2>3
<1>4. row[d] # "nothing" /\ ~Due(d)
  BY <1>1 DEF Inv, Kept, Ordered
<1>5. posts[d] \in PostRecords /\ task[d] \in TaskRecords /\ attempts[d] \in Nat
  BY Typed DEF Inv
<1> USE <1>1, <1>3, <1>4, <1>5 DEF Inv
<1>6. Ordered(d)' /\ Leased(d)' /\ Truthful(d)'
  BY DEF Kept, Ordered, Leased, Truthful, Todo, Due
<1>7. Counted(d)' /\ Late(d)'
  BY DEF Kept, Counted, Recorded, PostRecords, Late
<1>8. Bounded(d)'
  BY WebhookAssumption DEF Kept, Bounded, Posted, PostRecords, TaskRecords
<1>9. Awaiting(d)'
  BY DEF Kept, Awaiting, TaskLive
<1> QED BY <1>6, <1>7, <1>8, <1>9 DEF Kept

LEMMA StopsKept ==
  ASSUME Inv, NEW d \in Deliveries, WorkerStops(d)
  PROVE  Kept(d)'
<1>1. /\ row'[d] = row[d] /\ attempts'[d] = attempts[d]
      /\ dispatch' = dispatch /\ accepted' = accepted
      /\ hand[d] # "idle" /\ hand'[d] = "idle" /\ task[d].state = "active"
  BY DEF Inv, TypeOK, Kept, Leased, WorkerStops
<1>2. /\ posts'[d].made = posts[d].made /\ posts'[d].late = posts[d].late
      /\ posts'[d].uncounted = posts[d].uncounted
      /\ posts'[d].cut = posts[d].cut + 1
  BY DEF Inv, TypeOK, WorkerStops
<1>3. task'[d].state \in {"active", "waiting"} /\ task'[d].retried = task[d].retried
  BY <1>1 DEF Inv, TypeOK, WorkerStops
<1>4. row[d] # "nothing" /\ ~Due(d)
  BY <1>1 DEF Inv, Kept, Ordered
<1>5. posts[d] \in PostRecords /\ task[d] \in TaskRecords /\ attempts[d] \in Nat
  BY Typed DEF Inv
<1> USE <1>1, <1>2, <1>3, <1>4, <1>5 DEF Inv
<1>6. Ordered(d)' /\ Leased(d)' /\ Truthful(d)'
  BY DEF Kept, Ordered, Leased, Truthful, Todo, Due
<1>7. Counted(d)' /\ Late(d)'
  BY DEF Kept, Counted, Recorded, PostRecords, Late
<1>8. Bounded(d)'
  BY WebhookAssumption DEF Kept, Bounded, Posted, PostRecords, TaskRecords
<1>9. Awaiting(d)'
  BY DEF Kept, Awaiting, PostRecords
<1> QED BY <1>6, <1>7, <1>8, <1>9 DEF Kept

LEMMA ExpiryKept ==
  ASSUME Inv, NEW d \in Deliveries, LeaseExpires(d)
  PROVE  Kept(d)'
<1>1. /\ row'[d] = row[d] /\ attempts'[d] = attempts[d] /\ posts'[d] = posts[d]
      /\ dispatch' = dispatch /\ accepted' = accepted
      /\ hand[d] = "idle" /\ hand'[d] = "idle" /\ task[d].state = "active"
  BY DEF LeaseExpires
<1>2. PICK t \in TaskRecords : t = task[d]
  BY Typed DEF Inv
<1>3. \/ task'[d].state = "archived"
      \/ task'[d].state = "waiting" /\ task'[d].retried = task[d].retried + 1
  <2>1. task'[d] = AfterFailure(t)
    BY <1>2 DEF LeaseExpires, Inv, TypeOK
  <2> QED BY <1>2, <2>1, TaskEnds
<1>4. row[d] # "nothing" /\ ~Due(d)
  BY <1>1 DEF Inv, Kept, Ordered, NoTask
<1>5. posts[d] \in PostRecords /\ task[d] \in TaskRecords /\ attempts[d] \in Nat
  BY Typed DEF Inv
<1> USE <1>1, <1>3, <1>4, <1>5 DEF Inv
<1>6. Ordered(d)' /\ Leased(d)' /\ Truthful(d)'
  BY DEF Kept, Ordered, Leased, Truthful, Todo, Due
<1>7. Counted(d)' /\ Late(d)'
  BY DEF Kept, Counted, Recorded, PostRecords, Late
<1>8. Bounded(d)'
  BY WebhookAssumption DEF Kept, Bounded, Posted, PostRecords, TaskRecords
<1>9. Awaiting(d)'
  BY DEF Kept, Awaiting, TaskLive
<1> QED BY <1>6, <1>7, <1>8, <1>9 DEF Kept

-----------------------------------------------------------------------------
(* The steps of a dispatch, and what happens to the endpoints. *)

LEMMA Pair ==
  ASSUME NEW d \in Deliveries
  PROVE  d = <<d[1], d[2]>> /\ d[1] \in Events /\ d[2] \in Endpoints
  BY DEF Deliveries

LEMMA RaiseKept ==
  ASSUME Inv, NEW n \in Events, Raise(n), NEW d \in Deliveries
  PROVE  Kept(d)'
<1>1. /\ row' = row /\ attempts' = attempts /\ task' = task /\ hand' = hand
      /\ posts' = posts /\ accepted' = accepted
  BY DEF Raise
<1>2. CASE d[1] # n
  <2>1. dispatch'[d[1]] = dispatch[d[1]]
    BY <1>2, Pair DEF Raise, Inv, TypeOK
  <2> QED BY <1>1, <2>1, SameKept DEF Same, Todo, Due, Inv
<1>3. CASE d[1] = n
  <2>1. row[d] = "nothing" /\ ~Todo(d)
    BY <1>3 DEF Raise, Inv, Kept, Ordered
  <2>2. ~Due(d)'
    BY <1>3, <2>1 DEF Raise, Inv, TypeOK, Kept, Ordered, Due
  <2>3. dispatch'[d[1]].raised
    BY <1>3 DEF Raise, Inv, TypeOK
  <2>4. Ordered(d)'
    BY <1>1, <2>1, <2>2, <2>3 DEF Ordered, Inv, Kept
  <2>5. /\ Leased(d)' /\ Truthful(d)' /\ Counted(d)' /\ Bounded(d)' /\ Late(d)'
        /\ Awaiting(d)'
    BY <1>1, <2>1 DEF Inv, Kept, Leased, Truthful, Counted, Recorded, Bounded, Posted,
       Late, Awaiting
  <2> QED BY <2>4, <2>5 DEF Kept
<1> QED BY <1>2, <1>3

LEMMA RecordKept ==
  ASSUME Inv, NEW n \in Events, CreateWebhookDelivery(n), NEW d \in Deliveries
  PROVE  Kept(d)'
<1>1. /\ attempts' = attempts /\ task' = task /\ hand' = hand
      /\ posts' = posts /\ accepted' = accepted /\ dispatch[n].due = {}
  BY DEF CreateWebhookDelivery
<1>2. PICK e \in dispatch[n].todo :
        \/ /\ row' = [row EXCEPT ![<<n, e>>] = "pending"]
           /\ dispatch' = [dispatch EXCEPT ![n].todo = @ \ {e}, ![n].due = {e}]
        \/ /\ dispatch' = [dispatch EXCEPT ![n].todo = @ \ {e}]
           /\ UNCHANGED row
  BY DEF CreateWebhookDelivery
<1>3. /\ dispatch'[n].todo = dispatch[n].todo \ {e}
      /\ dispatch'[n].raised <=> dispatch[n].raised
      /\ \A m \in Events : m # n => dispatch'[m] = dispatch[m]
      /\ \/ row' = [row EXCEPT ![<<n, e>>] = "pending"] /\ dispatch'[n].due = {e}
         \/ row' = row /\ dispatch'[n].due = {}
  <2>1. PICK D \in [raised : BOOLEAN, todo : SUBSET Endpoints, due : SUBSET Endpoints] :
          D = dispatch[n]
    BY DEF Inv, TypeOK
  <2>2. CASE /\ row' = [row EXCEPT ![<<n, e>>] = "pending"]
             /\ dispatch' = [dispatch EXCEPT ![n].todo = @ \ {e}, ![n].due = {e}]
    <3>1. dispatch'[n] = [D EXCEPT !.todo = D.todo \ {e}, !.due = {e}]
      BY <2>1, <2>2 DEF Inv, TypeOK
    <3>2. /\ dispatch'[n].todo = D.todo \ {e} /\ dispatch'[n].due = {e}
          /\ dispatch'[n].raised <=> D.raised
      BY <3>1
    <3>3. \A m \in Events : m # n => dispatch'[m] = dispatch[m]
      BY <2>2 DEF Inv, TypeOK
    <3> QED BY <2>1, <2>2, <3>2, <3>3
  <2>3. CASE dispatch' = [dispatch EXCEPT ![n].todo = @ \ {e}] /\ UNCHANGED row
    <3>1. dispatch'[n] = [D EXCEPT !.todo = D.todo \ {e}]
      BY <2>1, <2>3 DEF Inv, TypeOK
    <3>2. /\ dispatch'[n].todo = D.todo \ {e} /\ dispatch'[n].due = D.due
          /\ dispatch'[n].raised <=> D.raised
      BY <3>1
    <3>3. \A m \in Events : m # n => dispatch'[m] = dispatch[m]
      BY <2>3 DEF Inv, TypeOK
    <3> QED BY <1>1, <2>1, <2>3, <3>2, <3>3
  <2> QED BY <1>2, <2>2, <2>3
<1>4. CASE d # <<n, e>>
  <2>1. row'[d] = row[d] /\ (Todo(d)' <=> Todo(d)) /\ (Due(d)' <=> Due(d))
        /\ (dispatch'[d[1]].raised <=> dispatch[d[1]].raised)
    <3>1. d[1] # n \/ d[2] # e
      BY <1>4, Pair
    <3> QED BY <1>1, <1>3, <1>4, <3>1, Pair DEF Inv, TypeOK, Todo, Due
  <2> QED BY <1>1, <2>1, SameKept DEF Same, Inv
<1>5. CASE d = <<n, e>>
  <2>1. /\ row[d] = "nothing" /\ dispatch[n].raised /\ Todo(d) /\ d[1] = n
        /\ task[d] = NoTask /\ hand[d] = "idle" /\ posts[d] = NoPosts
        /\ attempts[d] = 0 /\ ~Due(d)
    BY <1>2, <1>5 DEF Inv, Kept, Ordered, Todo
  <2>2. dispatch'[n].raised /\ ~Todo(d)'
    BY <1>3, <1>5, <2>1 DEF Todo
  <2>3. \/ row'[d] = "pending" /\ Due(d)'
        \/ row'[d] = "nothing" /\ ~Due(d)'
    BY <1>3, <1>5, <2>1 DEF Inv, TypeOK, Due
  <2>4. Ordered(d)'
    BY <1>1, <2>1, <2>2, <2>3 DEF Ordered
  <2>5. Leased(d)' /\ Truthful(d)' /\ Late(d)'
    BY <1>1, <2>1, <2>3 DEF Leased, Truthful, Late, NoPosts
  <2>6. Counted(d)' /\ Bounded(d)'
    BY <1>1, <2>1, WebhookAssumption DEF Counted, Bounded, NoPosts, NoTask
  <2>7. Awaiting(d)'
    BY <1>1, <2>1, <2>3 DEF Awaiting, NoTask
  <2> QED BY <2>4, <2>5, <2>6, <2>7 DEF Kept
<1> QED BY <1>4, <1>5

LEMMA EnqueueKept ==
  ASSUME Inv, NEW n \in Events, EnqueueWebhook(n), NEW d \in Deliveries
  PROVE  Kept(d)'
<1>1. /\ row' = row /\ attempts' = attempts /\ hand' = hand /\ accepted' = accepted
      /\ dispatch' = [dispatch EXCEPT ![n].due = {}]
  BY DEF EnqueueWebhook
<1>2. PICK e \in dispatch[n].due :
        \/ task' = [task EXCEPT ![<<n, e>>] = NewTask] /\ UNCHANGED posts
        \/ posts' = [posts EXCEPT ![<<n, e>>].cut = @ + 1] /\ UNCHANGED task
  BY DEF EnqueueWebhook
<1>3. /\ Todo(d)' <=> Todo(d)
      /\ dispatch'[d[1]].raised <=> dispatch[d[1]].raised
      /\ Due(d)' => Due(d)
  BY <1>1, Pair DEF Inv, TypeOK, Todo, Due
<1>4. CASE ~Due(d)
  <2>1. d # <<n, e>>
    BY <1>2, <1>4 DEF Due
  <2>2. task'[d] = task[d] /\ posts'[d] = posts[d]
    BY <1>2, <2>1 DEF Inv, TypeOK
  <2> QED BY <1>1, <1>3, <1>4, <2>2, SameKept DEF Same, Inv
<1>5. CASE Due(d) /\ d # <<n, e>>
  <2>1. task'[d] = task[d] /\ posts'[d] = posts[d]
    BY <1>2, <1>5 DEF Inv, TypeOK
  <2>2. /\ row[d] # "nothing" /\ ~Todo(d) /\ dispatch[d[1]].raised
        /\ task[d] = NoTask /\ hand[d] = "idle" /\ posts[d] = NoPosts
    BY <1>5 DEF Inv, Kept, Ordered
  <2>3. d[1] # n
    <3>1. dispatch[n].due = {e}
      BY <1>2 DEF Inv, Single
    <3> QED BY <1>5, <3>1, Pair DEF Due
  <2>4. Due(d)'
    BY <1>1, <1>5, <2>3, Pair DEF Inv, TypeOK, Due
  <2> QED BY <1>1, <1>3, <1>5, <2>1, <2>4, SameKept DEF Same, Inv
<1>6. CASE d = <<n, e>>
  <2>1. /\ Due(d) /\ d[1] = n /\ row[d] # "nothing" /\ ~Todo(d)
        /\ dispatch[d[1]].raised /\ task[d] = NoTask /\ hand[d] = "idle"
        /\ posts[d] = NoPosts
    BY <1>2, <1>6 DEF Inv, Kept, Ordered, Due
  <2>2. ~Due(d)'
    BY <1>1, <2>1 DEF Inv, TypeOK, Due
  <2>3. Ordered(d)'
    BY <1>1, <1>3, <2>1, <2>2 DEF Ordered
  <2>4. \/ task'[d] = NewTask /\ posts'[d] = NoPosts
        \/ task'[d] = NoTask /\ posts'[d] = [NoPosts EXCEPT !.cut = 1]
    BY <1>2, <1>6, <2>1 DEF Inv, TypeOK, NoPosts
  <2>5. Leased(d)' /\ Truthful(d)' /\ Late(d)'
    BY <1>1, <2>1, <2>4 DEF Inv, Kept, Leased, Truthful, Late, NoPosts
  <2>6. Counted(d)' /\ Bounded(d)'
    BY <1>1, <2>1, <2>4, WebhookAssumption
       DEF Inv, Kept, Counted, Bounded, Recorded, NoPosts, NoTask, NewTask
  <2>7. Awaiting(d)'
    BY <1>1, <2>1, <2>4 DEF Awaiting, NoPosts, NewTask, TaskLive
  <2> QED BY <2>3, <2>5, <2>6, <2>7 DEF Kept
<1> QED BY <1>4, <1>5, <1>6
LEMMA DispatchStopsKept ==
  ASSUME Inv, NEW n \in Events, DispatchStops(n), NEW d \in Deliveries
  PROVE  Kept(d)'
<1>1. /\ row' = row /\ attempts' = attempts /\ task' = task /\ hand' = hand
      /\ accepted' = accepted
      /\ dispatch' = [dispatch EXCEPT ![n].todo = {}, ![n].due = {}]
  BY DEF DispatchStops
<1>2. posts' = [p \in Deliveries |->
                  IF p[1] = n /\ p[2] \in dispatch[n].due
                  THEN [posts[p] EXCEPT !.cut = @ + 1] ELSE posts[p]]
  BY DEF DispatchStops
<1>3. CASE d[1] # n
  <2>1. dispatch'[d[1]] = dispatch[d[1]]
    BY <1>1, <1>3, Pair DEF Inv, TypeOK
  <2>2. posts'[d] = posts[d]
    BY <1>2, <1>3
  <2> QED BY <1>1, <2>1, <2>2, SameKept DEF Same, Todo, Due, Inv
<1>4. CASE d[1] = n
  <2>1. PICK D \in [raised : BOOLEAN, todo : SUBSET Endpoints, due : SUBSET Endpoints] :
          D = dispatch[n]
    BY DEF Inv, TypeOK
  <2>2. dispatch'[n] = [D EXCEPT !.todo = {}, !.due = {}]
    BY <1>1, <2>1 DEF Inv, TypeOK
  <2>3. /\ dispatch'[n].todo = {} /\ dispatch'[n].due = {}
        /\ dispatch'[n].raised <=> dispatch[n].raised
    BY <2>1, <2>2
  <2>4. ~Todo(d)' /\ ~Due(d)' /\ (dispatch'[d[1]].raised <=> dispatch[d[1]].raised)
    BY <1>4, <2>3 DEF Todo, Due
  <2>5. posts'[d] = IF Due(d) THEN [posts[d] EXCEPT !.cut = @ + 1] ELSE posts[d]
    BY <1>2, <1>4 DEF Due
  <2>6. Ordered(d)'
    BY <1>1, <2>4, <2>5 DEF Inv, Kept, Ordered
  <2>7. posts[d] \in PostRecords
    BY Typed DEF Inv
  <2>8. /\ posts'[d].made = posts[d].made /\ posts'[d].late = posts[d].late
        /\ posts'[d].uncounted = posts[d].uncounted
        /\ \/ posts'[d].cut = posts[d].cut /\ ~Due(d)
           \/ posts'[d].cut = posts[d].cut + 1
    BY <2>5, <2>7 DEF PostRecords
  <2>9. Leased(d)' /\ Truthful(d)' /\ Late(d)'
    BY <1>1, <2>8 DEF Inv, Kept, Leased, Truthful, Late
  <2>10. attempts[d] \in Nat /\ task[d] \in TaskRecords
    BY Typed DEF Inv
  <2>11. Counted(d)'
    BY <1>1, <2>7, <2>8, <2>10 DEF Inv, Kept, Counted, Recorded, PostRecords
  <2>12. Bounded(d)'
    BY <1>1, <2>7, <2>8, <2>10, WebhookAssumption
       DEF Inv, Kept, Bounded, Posted, PostRecords, TaskRecords
  <2>13. Awaiting(d)'
    BY <1>1, <2>7, <2>8 DEF Inv, Kept, Awaiting, TaskLive, PostRecords
  <2> QED BY <2>6, <2>9, <2>11, <2>12, <2>13 DEF Kept
<1> QED BY <1>3, <1>4

LEMMA CreateKept ==
  ASSUME Inv, NEW e \in Endpoints, CreateEndpoint(e), NEW d \in Deliveries
  PROVE  Kept(d)'
  BY SameKept DEF Inv, CreateEndpoint, Same, Todo, Due

LEMMA DeleteKept ==
  ASSUME Inv, NEW e \in Endpoints, DeleteEndpoint(e), NEW d \in Deliveries
  PROVE  Kept(d)'
<1>1. /\ attempts' = attempts /\ task' = task /\ hand' = hand /\ posts' = posts
      /\ dispatch' = dispatch /\ accepted' = accepted
  BY DEF DeleteEndpoint
<1>2. CASE d[2] = e /\ Recorded(d)
  <2>1. row'[d] = "gone" /\ row[d] # "nothing"
    BY <1>2 DEF DeleteEndpoint, Recorded
  <2>2. Ordered(d)' /\ Leased(d)' /\ Truthful(d)'
    BY <1>1, <2>1 DEF Inv, Kept, Ordered, Leased, Truthful, Todo, Due
  <2>3. Counted(d)' /\ Bounded(d)'
    BY <1>1, <2>1 DEF Inv, Kept, Counted, Recorded, Bounded, Posted
  <2>4. Late(d)' /\ Awaiting(d)'
    BY <1>1, <2>1 DEF Inv, Kept, Late, Awaiting
  <2> QED BY <2>2, <2>3, <2>4 DEF Kept
<1>3. CASE ~(d[2] = e /\ Recorded(d))
  <2>1. row'[d] = row[d]
    BY <1>3 DEF DeleteEndpoint
  <2> QED BY <1>1, <2>1, SameKept DEF Inv, Same, Todo, Due
<1> QED BY <1>2, <1>3

-----------------------------------------------------------------------------
(* Every step keeps the invariant. *)

LEMMA DeliveriesKept ==
  ASSUME Inv, [Next]_vars, NEW d \in Deliveries
  PROVE  Kept(d)'
<1>1. CASE UNCHANGED vars
  BY <1>1, SameKept DEF Inv, Same, Todo, Due, vars
<1>2. ASSUME NEW e \in Endpoints, CreateEndpoint(e) \/ DeleteEndpoint(e)
      PROVE  Kept(d)'
  BY <1>2, CreateKept, DeleteKept
<1>3. ASSUME NEW n \in Events, Dispatch(n) \/ DispatchStops(n)
      PROVE  Kept(d)'
  BY <1>3, RaiseKept, RecordKept, EnqueueKept, DispatchStopsKept DEF Dispatch
<1>4. ASSUME NEW e \in Deliveries, Attempt(e) \/ WorkerStops(e) \/ LeaseExpires(e)
      PROVE  Kept(d)'
  <2>1. CASE e # d
    BY <1>4, <2>1, HandLocal, SameKept DEF Inv
  <2>2. CASE e = d
    <3>1. CASE MarkWebhookDelivered(d)
      BY <3>1, MarkKept DEF MarkWebhookDelivered
    <3>2. CASE MarkWebhookFailed(d)
      BY <3>2, MarkKept DEF MarkWebhookFailed
    <3> QED
      BY <1>4, <2>2, <3>1, <3>2, StartKept, LoadKept, PostKept, ReturnKept,
         StopsKept, ExpiryKept DEF Attempt
  <2> QED BY <2>1, <2>2
<1> QED BY <1>1, <1>2, <1>3, <1>4 DEF Next

LEMMA SingleKept ==
  ASSUME Inv, [Next]_vars, NEW n \in Events
  PROVE  Single(n)'
<1>1. CASE dispatch' = dispatch
  BY <1>1 DEF Inv, Single
<1>2. ASSUME NEW m \in Events, Dispatch(m) \/ DispatchStops(m)
      PROVE  Single(n)'
  <2>1. CASE n # m
    <3>1. dispatch'[n] = dispatch[n]
      BY <1>2, <2>1 DEF Inv, TypeOK, Dispatch, DispatchStops, Raise,
         CreateWebhookDelivery, EnqueueWebhook
    <3> QED BY <3>1 DEF Inv, Single
  <2>2. CASE n = m
    <3>1. PICK D \in [raised : BOOLEAN, todo : SUBSET Endpoints, due : SUBSET Endpoints] :
            D = dispatch[n]
      BY DEF Inv, TypeOK
    <3>2. CASE Raise(n)
      <4>1. CASE dispatch' = [dispatch EXCEPT ![n] =
                   [raised |-> TRUE, todo |-> ActiveEndpointsForEvent(n), due |-> {}]]
        <5>1. dispatch'[n].due = {}
          BY <4>1 DEF Inv, TypeOK
        <5> QED BY <5>1 DEF Single
      <4>2. CASE dispatch' = [dispatch EXCEPT ![n].raised = TRUE]
        <5>1. dispatch'[n].due = dispatch[n].due
          BY <4>2 DEF Inv, TypeOK
        <5> QED BY <5>1 DEF Inv, Single
      <4> QED BY <3>2, <4>1, <4>2 DEF Raise
    <3>3. CASE CreateWebhookDelivery(n)
      <4>1. PICK e \in dispatch[n].todo :
              \/ dispatch' = [dispatch EXCEPT ![n].todo = @ \ {e}, ![n].due = {e}]
              \/ dispatch' = [dispatch EXCEPT ![n].todo = @ \ {e}]
        BY <3>3 DEF CreateWebhookDelivery
      <4>2. \/ dispatch'[n] = [D EXCEPT !.todo = D.todo \ {e}, !.due = {e}]
            \/ dispatch'[n] = [D EXCEPT !.todo = D.todo \ {e}]
        BY <3>1, <4>1 DEF Inv, TypeOK
      <4>3. dispatch'[n].due \in {{e}, D.due}
        BY <4>2
      <4> QED BY <3>1, <4>3 DEF Inv, Single
    <3>4. CASE EnqueueWebhook(n)
      <4>1. dispatch'[n].due = {}
        BY <3>4 DEF EnqueueWebhook, Inv, TypeOK
      <4> QED BY <4>1 DEF Single
    <3>5. CASE DispatchStops(n)
      <4>1. dispatch'[n] = [D EXCEPT !.todo = {}, !.due = {}]
        BY <3>1, <3>5 DEF DispatchStops, Inv, TypeOK
      <4>2. dispatch'[n].due = {}
        BY <4>1
      <4> QED BY <4>2 DEF Single
    <3> QED BY <1>2, <2>2, <3>2, <3>3, <3>4, <3>5 DEF Dispatch
  <2> QED BY <2>1, <2>2
<1>3. dispatch' = dispatch \/ \E m \in Events : Dispatch(m) \/ DispatchStops(m)
  BY DEF Next, vars, CreateEndpoint, DeleteEndpoint, Attempt, StartAttempt,
     GetWebhookSend, Post, MarkWebhookDelivered, MarkWebhookFailed, Return,
     WorkerStops, LeaseExpires
<1> QED BY <1>1, <1>2, <1>3

DispatchRecords == [raised : BOOLEAN, todo : SUBSET Endpoints, due : SUBSET Endpoints]

(* The types of what the steps of a dispatch and of a handler replace.       *)
LEMMA DispatchTyped ==
  ASSUME NEW D \in DispatchRecords, NEW t \in SUBSET Endpoints, NEW u \in SUBSET Endpoints
  PROVE  /\ [D EXCEPT !.todo = t, !.due = u] \in DispatchRecords
         /\ [D EXCEPT !.todo = t] \in DispatchRecords
         /\ [D EXCEPT !.due = u] \in DispatchRecords
         /\ [D EXCEPT !.raised = TRUE] \in DispatchRecords
         /\ [raised |-> TRUE, todo |-> t, due |-> u] \in DispatchRecords
  BY DEF DispatchRecords

LEMMA OneReplaced ==
  ASSUME NEW S, NEW T, NEW f \in [S -> T], NEW x \in S, NEW y \in T
  PROVE  [f EXCEPT ![x] = y] \in [S -> T]
  OBVIOUS

LEMMA DispatchTypeKept ==
  ASSUME TypeOK, [Next]_vars
  PROVE  dispatch' \in [Events -> DispatchRecords]
<1>1. dispatch \in [Events -> DispatchRecords]
  BY DEF TypeOK, DispatchRecords
<1>2. CASE dispatch' = dispatch
  BY <1>1, <1>2
<1>3. ASSUME NEW n \in Events, Dispatch(n) \/ DispatchStops(n)
      PROVE  dispatch' \in [Events -> DispatchRecords]
  <2>1. PICK D \in DispatchRecords : D = dispatch[n]
    BY <1>1
  <2>2. D.todo \in SUBSET Endpoints
    BY DEF DispatchRecords
  <2>3. \E y \in DispatchRecords : dispatch' = [dispatch EXCEPT ![n] = y]
    <3>1. CASE Raise(n)
      <4>1. ActiveEndpointsForEvent(n) \in SUBSET Endpoints
        BY DEF ActiveEndpointsForEvent
      <4>2. \/ dispatch' = [dispatch EXCEPT ![n] =
                 [raised |-> TRUE, todo |-> ActiveEndpointsForEvent(n), due |-> {}]]
            \/ dispatch' = [dispatch EXCEPT ![n].raised = TRUE]
        BY <3>1 DEF Raise
      <4>3. \/ dispatch' = [dispatch EXCEPT ![n] =
                 [raised |-> TRUE, todo |-> ActiveEndpointsForEvent(n), due |-> {}]]
            \/ dispatch' = [dispatch EXCEPT ![n] = [D EXCEPT !.raised = TRUE]]
        BY <2>1, <4>2, Zenon
      <4>4. [raised |-> TRUE, todo |-> ActiveEndpointsForEvent(n), due |-> {}]
              \in DispatchRecords
        BY <4>1 DEF DispatchRecords
      <4> QED BY <4>3, <4>4, DispatchTyped, Zenon
    <3>2. CASE CreateWebhookDelivery(n)
      <4>1. PICK e \in dispatch[n].todo :
              \/ dispatch' = [dispatch EXCEPT ![n].todo = @ \ {e}, ![n].due = {e}]
              \/ dispatch' = [dispatch EXCEPT ![n].todo = @ \ {e}]
        BY <3>2 DEF CreateWebhookDelivery
      <4>2. \/ dispatch' = [dispatch EXCEPT ![n] = [D EXCEPT !.todo = @ \ {e}, !.due = {e}]]
            \/ dispatch' = [dispatch EXCEPT ![n] = [D EXCEPT !.todo = @ \ {e}]]
        <5>1. CASE dispatch' = [dispatch EXCEPT ![n].todo = @ \ {e}, ![n].due = {e}]
          BY <1>1, <2>1, <5>1
        <5>2. CASE dispatch' = [dispatch EXCEPT ![n].todo = @ \ {e}]
          BY <1>1, <2>1, <5>2
        <5> QED BY <4>1, <5>1, <5>2
      <4>3. D.todo \ {e} \in SUBSET Endpoints /\ {e} \in SUBSET Endpoints
        BY <2>1, <2>2, <4>1
      <4>4. [D EXCEPT !.todo = @ \ {e}, !.due = {e}] \in DispatchRecords
            /\ [D EXCEPT !.todo = @ \ {e}] \in DispatchRecords
        BY <4>3, DispatchTyped
      <4> QED BY <4>2, <4>4, Zenon
    <3>3. CASE EnqueueWebhook(n)
      <4>1. dispatch' = [dispatch EXCEPT ![n].due = {}]
        BY <3>3 DEF EnqueueWebhook
      <4>2. dispatch' = [dispatch EXCEPT ![n] = [D EXCEPT !.due = {}]]
        BY <2>1, <4>1, Zenon
      <4>3. [D EXCEPT !.due = {}] \in DispatchRecords
        BY DEF DispatchRecords
      <4> QED BY <4>2, <4>3, Zenon
    <3>4. CASE DispatchStops(n)
      <4>1. dispatch' = [dispatch EXCEPT ![n].todo = {}, ![n].due = {}]
        BY <3>4 DEF DispatchStops
      <4>2. dispatch' = [dispatch EXCEPT ![n] = [D EXCEPT !.todo = {}, !.due = {}]]
        BY <1>1, <2>1, <4>1
      <4>3. [D EXCEPT !.todo = {}, !.due = {}] \in DispatchRecords
        BY DEF DispatchRecords
      <4> QED BY <4>2, <4>3, Zenon
    <3> QED BY <1>3, <3>1, <3>2, <3>3, <3>4 DEF Dispatch
  <2> QED BY <1>1, <2>3, OneReplaced
<1>4. dispatch' = dispatch \/ \E n \in Events : Dispatch(n) \/ DispatchStops(n)
  BY DEF Next, vars, CreateEndpoint, DeleteEndpoint, Attempt, StartAttempt,
     GetWebhookSend, Post, MarkWebhookDelivered, MarkWebhookFailed, Return,
     WorkerStops, LeaseExpires
<1> QED BY <1>2, <1>3, <1>4

(* One task is replaced, by one of the records a task can be.                *)
LEMMA TaskTypeKept ==
  ASSUME TypeOK, [Next]_vars
  PROVE  task' \in [Deliveries -> TaskRecords]
<1>1. task \in [Deliveries -> TaskRecords]
  BY DEF TypeOK, TaskRecords
<1>2. CASE task' = task
  BY <1>1, <1>2
<1>3. ASSUME NEW d \in Deliveries, NEW y \in TaskRecords, task' = [task EXCEPT ![d] = y]
      PROVE  task' \in [Deliveries -> TaskRecords]
  BY <1>1, <1>3, OneReplaced
<1>4. ASSUME NEW n \in Events, EnqueueWebhook(n)
      PROVE  task' \in [Deliveries -> TaskRecords]
  <2>1. PICK e \in dispatch[n].due :
          task' = task \/ task' = [task EXCEPT ![<<n, e>>] = NewTask]
    BY <1>4 DEF EnqueueWebhook
  <2>2. <<n, e>> \in Deliveries
    BY DEF TypeOK, Deliveries
  <2>3. NewTask \in TaskRecords
    BY WebhookAssumption DEF NewTask, TaskRecords
  <2> QED BY <1>2, <1>3, <2>1, <2>2, <2>3
<1>5. ASSUME NEW d \in Deliveries, Attempt(d) \/ WorkerStops(d) \/ LeaseExpires(d)
      PROVE  task' \in [Deliveries -> TaskRecords]
  <2>1. PICK t \in TaskRecords : t = task[d]
    BY <1>1
  <2>2. CASE StartAttempt(d)
    <3>1. task' = [task EXCEPT ![d] = [t EXCEPT !.state = "active"]]
      BY <2>1, <2>2, Zenon DEF StartAttempt
    <3> QED BY <1>3, <3>1, TasksTyped
  <2>3. CASE Return(d)
    <3>1. \/ task' = [task EXCEPT ![d] = NoTask]
          \/ task' = [task EXCEPT ![d] = AfterFailure(t)]
          \/ task' = [task EXCEPT ![d] = [t EXCEPT !.state = "archived"]]
      <4>1. CASE hand[d] = "done"
        BY <1>1, <2>3, <4>1 DEF Return
      <4>2. CASE hand[d] = "error"
        BY <1>1, <2>1, <2>3, <4>2 DEF Return
      <4>3. CASE hand[d] = "skip"
        BY <1>1, <2>1, <2>3, <4>3 DEF Return
      <4> QED BY <2>3, <4>1, <4>2, <4>3 DEF Return
    <3> QED BY <1>3, <3>1, TasksTyped
  <2>4. CASE WorkerStops(d)
    <3>1. task' = task \/ task' = [task EXCEPT ![d] = [t EXCEPT !.state = "waiting"]]
      BY <2>1, <2>4, Zenon DEF WorkerStops
    <3> QED BY <1>2, <1>3, <3>1, TasksTyped
  <2>5. CASE LeaseExpires(d)
    <3>1. task' = [task EXCEPT ![d] = AfterFailure(t)]
      BY <2>1, <2>5 DEF LeaseExpires
    <3> QED BY <1>3, <3>1, TasksTyped
  <2>6. task' = task \/ StartAttempt(d) \/ Return(d) \/ WorkerStops(d) \/ LeaseExpires(d)
    BY <1>5 DEF Attempt, GetWebhookSend, Post, MarkWebhookDelivered, MarkWebhookFailed
  <2> QED BY <1>2, <2>2, <2>3, <2>4, <2>5, <2>6
<1>6. \/ task' = task
      \/ \E n \in Events : EnqueueWebhook(n)
      \/ \E d \in Deliveries : Attempt(d) \/ WorkerStops(d) \/ LeaseExpires(d)
  BY DEF Next, vars, CreateEndpoint, DeleteEndpoint, Dispatch, Raise,
     CreateWebhookDelivery, DispatchStops
<1> QED BY <1>2, <1>4, <1>5, <1>6

(* What counts posts counts up, or down where there is something to count.   *)
LEMMA PostsTypeKept ==
  ASSUME Inv, [Next]_vars
  PROVE  posts' \in [Deliveries -> PostRecords]
<1>1. posts \in [Deliveries -> PostRecords]
  BY DEF Inv, TypeOK, PostRecords
<1>2. CASE posts' = posts
  BY <1>1, <1>2
<1>3. ASSUME NEW d \in Deliveries, NEW y \in PostRecords, posts' = [posts EXCEPT ![d] = y]
      PROVE  posts' \in [Deliveries -> PostRecords]
  BY <1>1, <1>3, OneReplaced
<1>4. ASSUME NEW d \in Deliveries, posts' = [posts EXCEPT ![d].cut = @ + 1]
      PROVE  posts' \in [Deliveries -> PostRecords]
  <2>1. PICK q \in PostRecords : q = posts[d]
    BY <1>1
  <2>2. posts' = [posts EXCEPT ![d] = [q EXCEPT !.cut = @ + 1]]
    BY <1>4, <2>1, Zenon
  <2> QED BY <1>3, <2>2, CountsTyped
<1>5. ASSUME NEW n \in Events, EnqueueWebhook(n)
      PROVE  posts' \in [Deliveries -> PostRecords]
  <2>1. PICK e \in dispatch[n].due :
          posts' = posts \/ posts' = [posts EXCEPT ![<<n, e>>].cut = @ + 1]
    BY <1>5 DEF EnqueueWebhook
  <2>2. <<n, e>> \in Deliveries
    BY DEF Inv, TypeOK, Deliveries
  <2> QED BY <1>2, <1>4, <2>1, <2>2
<1>6. ASSUME NEW n \in Events, DispatchStops(n)
      PROVE  posts' \in [Deliveries -> PostRecords]
  <2>1. posts' = [d \in Deliveries |->
                    IF d[1] = n /\ d[2] \in dispatch[n].due
                    THEN [posts[d] EXCEPT !.cut = @ + 1] ELSE posts[d]]
    BY <1>6 DEF DispatchStops
  <2>2. \A d \in Deliveries :
          posts[d] \in PostRecords /\ [posts[d] EXCEPT !.cut = @ + 1] \in PostRecords
    BY <1>1 DEF PostRecords
  <2> QED BY <2>1, <2>2, Zenon
<1>7. ASSUME NEW d \in Deliveries, Attempt(d) \/ WorkerStops(d) \/ LeaseExpires(d)
      PROVE  posts' \in [Deliveries -> PostRecords]
  <2>1. PICK q \in PostRecords : q = posts[d]
    BY <1>1
  <2>2. CASE Post(d)
    <3>1. PICK late \in Nat : late = IF Recorded(d) THEN q.late ELSE q.late + 1
      BY DEF PostRecords
    <3>2. posts' = [posts EXCEPT ![d].made = @ + 1,
                                 ![d].late = IF Recorded(d) THEN @ ELSE @ + 1,
                                 ![d].uncounted = @ + 1]
      BY <2>2 DEF Post
    <3>3. posts' = [posts EXCEPT ![d] =
                      [q EXCEPT !.made = @ + 1, !.late = late, !.uncounted = @ + 1]]
      BY <1>1, <2>1, <3>1, <3>2
    <3> QED BY <1>3, <3>3, PostTyped
  <2>3. CASE MarkWebhookDelivered(d) \/ MarkWebhookFailed(d)
    <3>1. q.uncounted > 0
      BY <2>1, <2>3 DEF Inv, Kept, Counted, MarkWebhookDelivered, MarkWebhookFailed
    <3>2. \/ posts' = [posts EXCEPT ![d].uncounted = IF Recorded(d) THEN @ - 1 ELSE @]
          \/ posts' = [posts EXCEPT ![d].cut = @ + 1]
      BY <2>3 DEF MarkWebhookDelivered, MarkWebhookFailed, Mark
    <3>3. CASE posts' = [posts EXCEPT ![d].uncounted = IF Recorded(d) THEN @ - 1 ELSE @]
      <4>1. CASE Recorded(d)
        <5>1. posts' = [posts EXCEPT ![d] = [q EXCEPT !.uncounted = @ - 1]]
          BY <1>1, <2>1, <3>3, <4>1
        <5> QED BY <1>3, <3>1, <5>1, CountsTyped
      <4>2. CASE ~Recorded(d)
        BY <1>1, <1>2, <2>1, <3>3, <4>2 DEF PostRecords
      <4> QED BY <4>1, <4>2
    <3> QED BY <1>4, <3>2, <3>3
  <2>4. posts' = posts \/ Post(d) \/ MarkWebhookDelivered(d) \/ MarkWebhookFailed(d)
        \/ posts' = [posts EXCEPT ![d].cut = @ + 1]
    BY <1>7 DEF Attempt, StartAttempt, GetWebhookSend, Return, WorkerStops, LeaseExpires
  <2> QED BY <1>2, <1>4, <2>2, <2>3, <2>4
<1>8. \/ posts' = posts
      \/ \E n \in Events : EnqueueWebhook(n) \/ DispatchStops(n)
      \/ \E d \in Deliveries : Attempt(d) \/ WorkerStops(d) \/ LeaseExpires(d)
  BY DEF Next, vars, CreateEndpoint, DeleteEndpoint, Dispatch, Raise,
     CreateWebhookDelivery
<1> QED BY <1>2, <1>5, <1>6, <1>7, <1>8

LEMMA TypesKept ==
  ASSUME Inv, [Next]_vars
  PROVE  TypeOK'
<1>1. /\ dispatch' \in [Events -> DispatchRecords]
      /\ task' \in [Deliveries -> TaskRecords]
      /\ posts' \in [Deliveries -> PostRecords]
  BY DispatchTypeKept, TaskTypeKept, PostsTypeKept DEF Inv
<1>2. CASE UNCHANGED vars
  BY <1>2 DEF Inv, TypeOK, vars
<1>3. ASSUME NEW e \in Endpoints, CreateEndpoint(e) \/ DeleteEndpoint(e)
      PROVE  TypeOK'
  BY <1>1, <1>3 DEF Inv, TypeOK, CreateEndpoint, DeleteEndpoint,
     DispatchRecords, TaskRecords, PostRecords
<1>4. ASSUME NEW n \in Events, Dispatch(n) \/ DispatchStops(n)
      PROVE  TypeOK'
  <2>1. endpoint' = endpoint /\ attempts' = attempts /\ hand' = hand
        /\ accepted' = accepted
    BY <1>4 DEF Dispatch, DispatchStops, Raise, CreateWebhookDelivery, EnqueueWebhook
  <2>2. faults' \in 0..MaxFaults
    <3>1. faults' = faults \/ Fault
      BY <1>4 DEF Dispatch, DispatchStops, Raise, CreateWebhookDelivery, EnqueueWebhook
    <3> QED BY <3>1, WebhookAssumption DEF Fault, Inv, TypeOK
  <2>3. row' = row \/ \E e \in dispatch[n].todo : row' = [row EXCEPT ![<<n, e>>] = "pending"]
    BY <1>4 DEF Dispatch, DispatchStops, Raise, CreateWebhookDelivery, EnqueueWebhook
  <2>4. row' \in [Deliveries -> {"nothing", "pending", "failed", "delivered", "gone"}]
    BY <2>3 DEF Inv, TypeOK
  <2>5. /\ endpoint' \in [Endpoints -> {"unborn", "there", "gone"}]
        /\ attempts' \in [Deliveries -> Nat]
        /\ hand' \in [Deliveries ->
                 {"idle", "load", "post", "ok", "bad", "done", "error", "skip"}]
        /\ accepted' \subseteq Deliveries
    BY <2>1 DEF Inv, TypeOK
  <2> QED BY <1>1, <2>2, <2>4, <2>5, Zenon DEF TypeOK, DispatchRecords, TaskRecords,
     PostRecords, Deliveries
<1>5. ASSUME NEW d \in Deliveries, Attempt(d) \/ WorkerStops(d) \/ LeaseExpires(d)
      PROVE  TypeOK'
  <2>1. endpoint' = endpoint
    BY <1>5 DEF Attempt, StartAttempt, GetWebhookSend, Post, MarkWebhookDelivered,
       MarkWebhookFailed, Return, WorkerStops, LeaseExpires
  <2>2. faults' \in 0..MaxFaults
    BY <1>5, WebhookAssumption DEF Attempt, StartAttempt, GetWebhookSend, Post,
       MarkWebhookDelivered, MarkWebhookFailed, Mark, Return, WorkerStops,
       LeaseExpires, Fault, Inv, TypeOK
  <2>3. /\ hand' \in [Deliveries ->
                 {"idle", "load", "post", "ok", "bad", "done", "error", "skip"}]
        /\ accepted' \subseteq Deliveries
    BY <1>5 DEF Attempt, StartAttempt, GetWebhookSend, Post, MarkWebhookDelivered,
       MarkWebhookFailed, Return, WorkerStops, LeaseExpires, Inv, TypeOK
  <2>4. /\ row' \in [Deliveries -> {"nothing", "pending", "failed", "delivered", "gone"}]
        /\ attempts' \in [Deliveries -> Nat]
    <3>1. CASE MarkWebhookDelivered(d) \/ MarkWebhookFailed(d)
      <4>1. PICK status \in {"delivered", "failed"} : Mark(d, status)
        BY <3>1 DEF MarkWebhookDelivered, MarkWebhookFailed
      <4>2. \/ row' = row /\ attempts' = attempts
            \/ /\ row' = [row EXCEPT ![d] = IF Recorded(d) THEN status ELSE row[d]]
               /\ attempts' = [attempts EXCEPT ![d] =
                                 IF Recorded(d) THEN attempts[d] + 1 ELSE attempts[d]]
        BY <4>1, Zenon DEF Mark
      <4>3. /\ (IF Recorded(d) THEN status ELSE row[d])
                 \in {"nothing", "pending", "failed", "delivered", "gone"}
            /\ (IF Recorded(d) THEN attempts[d] + 1 ELSE attempts[d]) \in Nat
        BY DEF Inv, TypeOK
      <4>4. /\ row \in [Deliveries -> {"nothing", "pending", "failed", "delivered", "gone"}]
            /\ attempts \in [Deliveries -> Nat]
        BY DEF Inv, TypeOK
      <4>5. PICK a \in {"nothing", "pending", "failed", "delivered", "gone"}, k \in Nat :
              \/ row' = row /\ attempts' = attempts
              \/ row' = [row EXCEPT ![d] = a] /\ attempts' = [attempts EXCEPT ![d] = k]
        BY <4>2, <4>3, Zenon
      <4> QED BY <4>4, <4>5, OneReplaced
    <3>2. CASE row' = row /\ attempts' = attempts
      BY <3>2 DEF Inv, TypeOK
    <3> QED BY <1>5, <3>1, <3>2 DEF Attempt, StartAttempt, GetWebhookSend, Post,
       Return, WorkerStops, LeaseExpires
  <2> QED BY <1>1, <2>1, <2>2, <2>3, <2>4 DEF TypeOK, DispatchRecords, TaskRecords,
     PostRecords, Inv
<1> QED BY <1>2, <1>3, <1>4, <1>5 DEF Next

LEMMA InvKept == Inv /\ [Next]_vars => Inv'
<1> SUFFICES ASSUME Inv, [Next]_vars
             PROVE  Inv'
  OBVIOUS
<1>1. TypeOK'
  BY TypesKept
<1>2. \A d \in Deliveries : Kept(d)'
  BY DeliveriesKept
<1>3. \A n \in Events : Single(n)'
  BY SingleKept
<1>4. Deliveries' = Deliveries
  BY DEF Deliveries
<1> QED BY <1>1, <1>2, <1>3, <1>4 DEF Inv

LEMMA InvHolds == Spec => []Inv
  BY InitKept, InvKept, PTL DEF Spec

-----------------------------------------------------------------------------
(* What follows. *)

(* Every value the endpoints, deliveries, tasks and handlers can take has its *)
(* type, and the retries of a task stay within asynq's MaxRetry              *)
(* (db/webhooks.go, queue/queue.go).                                         *)
THEOREM DeliveryTypesCorrect == Spec => []TypeOK
<1>1. Inv => TypeOK
  BY DEF Inv
<1> QED BY <1>1, InvHolds, PTL

(* The attempts a row shows are the posts that were made of it, up to those   *)
(* whose update was lost, and the posts are bounded by the retries and the    *)
(* faults (db/webhooks.go: MarkWebhookDelivered, MarkWebhookFailed).         *)
THEOREM PostsAreCounted == Spec => []EveryPostCounted
<1>1. Inv => EveryPostCounted
  <2> SUFFICES ASSUME Inv, NEW d \in Deliveries
               PROVE  /\ posts[d].made = attempts[d] + posts[d].uncounted
                      /\ posts[d].made <= MaxRetry + 1 + posts[d].cut
                      /\ Recorded(d) /\ hand[d] \notin {"ok", "bad"} =>
                           posts[d].uncounted <= posts[d].cut
    BY DEF EveryPostCounted
  <2>1. posts[d] \in PostRecords
    BY Typed DEF Inv
  <2> QED BY <2>1 DEF Inv, Kept, Counted, Bounded, PostRecords
<1> QED BY <1>1, InvHolds, PTL

(* After its endpoint is deleted a delivery is posted at most once more,      *)
(* whatever retries it had left (worker/webhook.go: handleWebhookDeliver).   *)
THEOREM DeletedEndpointSpared == Spec => []DeletedEndpointLeftAlone
<1>1. Inv => DeletedEndpointLeftAlone
  BY DEF Inv, Kept, Late, DeletedEndpointLeftAlone
<1> QED BY <1>1, InvHolds, PTL

(* A pending row that no fault has met has a task or a dispatch that is about *)
(* to enqueue it (webhooks.go: Dispatch).                                    *)
THEOREM PendingIsWorkedAt == Spec => []PendingHasTask
<1>1. Inv => PendingHasTask
  <2> SUFFICES ASSUME Inv, NEW d \in Deliveries, row[d] = "pending"
               PROVE  TaskLive(d) \/ d[2] \in dispatch[d[1]].due \/ posts[d].cut > 0
    BY DEF PendingHasTask
  <2>1. posts[d] \in PostRecords
    BY Typed DEF Inv
  <2> QED BY <2>1 DEF Inv, Kept, Awaiting, Due, PostRecords
<1> QED BY <1>1, InvHolds, PTL

(* The rows, the tasks and the handlers together implement the promise of     *)
(* DeliveryPromise: a row says "delivered" only of a delivery its endpoint    *)
(* has accepted (webhooks.go: Dispatch; worker/webhook.go:                   *)
(* handleWebhookDeliver; db/webhooks.go: DeleteEndpoint).                    *)
THEOREM PromiseKept == Spec => KeepsPromise
<1> USE DEF Promise!vars
<1>1. Init => Promise!Init
  BY DEF Init, Promise!Init
<1>2. Inv /\ [Next]_vars => [Promise!Next]_(Promise!vars)
  <2> SUFFICES ASSUME Inv, [Next]_vars, ~UNCHANGED <<row, accepted>>
               PROVE  Promise!Next
    OBVIOUS
  <2>1. ASSUME NEW d \in Deliveries, Promise!Record(d) \/ Promise!Accept(d) \/ Promise!Tell(d)
        PROVE  Promise!Next
    BY <2>1 DEF Promise!Next
  <2>2. ASSUME NEW e \in Endpoints, CreateEndpoint(e) \/ DeleteEndpoint(e)
        PROVE  Promise!Next
    <3>1. DeleteEndpoint(e)
      BY <2>2 DEF CreateEndpoint
    <3> DEFINE S == {d \in Deliveries : d[2] = e /\ Recorded(d)}
    <3>2. S \in SUBSET {d \in Deliveries : row[d] # "nothing"}
      BY DEF Recorded
    <3>3. row' = [d \in Deliveries |-> IF d \in S THEN "gone" ELSE row[d]]
      BY <3>1 DEF DeleteEndpoint
    <3>4. Promise!Forget(S)
      BY <3>1, <3>3 DEF Promise!Forget, DeleteEndpoint
    <3> QED BY <3>2, <3>4 DEF Promise!Next
  <2>3. ASSUME NEW n \in Events, Dispatch(n) \/ DispatchStops(n)
        PROVE  Promise!Next
    <3>1. CreateWebhookDelivery(n)
      BY <2>3 DEF Dispatch, DispatchStops, Raise, EnqueueWebhook
    <3>2. PICK e \in dispatch[n].todo : row' = [row EXCEPT ![<<n, e>>] = "pending"]
      BY <3>1 DEF CreateWebhookDelivery
    <3>3. PICK d \in Deliveries : d = <<n, e>>
      BY DEF Inv, TypeOK, Deliveries
    <3>4. row[d] = "nothing"
      BY <3>2, <3>3 DEF Inv, Kept, Ordered, Todo
    <3>5. Promise!Record(d)
      BY <3>1, <3>2, <3>3, <3>4 DEF Promise!Record, CreateWebhookDelivery
    <3> QED BY <2>1, <3>5
  <2>4. ASSUME NEW d \in Deliveries, Attempt(d) \/ WorkerStops(d) \/ LeaseExpires(d)
        PROVE  Promise!Next
    <3>1. Post(d) \/ MarkWebhookDelivered(d) \/ MarkWebhookFailed(d)
      BY <2>4 DEF Attempt, StartAttempt, GetWebhookSend, Return, WorkerStops, LeaseExpires
    <3>2. CASE Post(d)
      <4>1. row[d] # "nothing"
        BY <3>2 DEF Post, Inv, Kept, Ordered
      <4>2. Promise!Accept(d)
        BY <3>2, <4>1 DEF Post, Promise!Accept
      <4> QED BY <2>1, <4>2
    <3>3. ASSUME NEW word \in {"failed", "delivered"}, Mark(d, word),
                 word = "delivered" => d \in accepted, UNCHANGED accepted
          PROVE  Promise!Next
      <4>1. row' = [row EXCEPT ![d] = word] /\ Recorded(d)
        BY <3>3 DEF Mark, Inv, TypeOK
      <4>2. row[d] \in {"pending", "failed", "delivered"}
        BY <4>1 DEF Recorded, Inv, TypeOK
      <4>3. Promise!Tell(d)
        BY <3>3, <4>1, <4>2 DEF Promise!Tell
      <4> QED BY <2>1, <4>3
    <3> QED BY <3>1, <3>2, <3>3 DEF MarkWebhookDelivered, MarkWebhookFailed,
       Inv, Kept, Truthful
  <2> QED BY <2>2, <2>3, <2>4 DEF Next, vars
<1> QED BY <1>1, <1>2, InvHolds, PTL DEF Spec, KeepsPromise, Promise!Spec
=============================================================================
