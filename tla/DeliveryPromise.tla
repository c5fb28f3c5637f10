---------------------------- MODULE DeliveryPromise ----------------------------
(***************************************************************************)
(* What a row of webhook_deliveries tells its reader: a delivery is owed from *)
(* the moment it is recorded, it may reach the endpoint any number of times, *)
(* and "delivered" is said only of one the endpoint has accepted.            *)
(***************************************************************************)
CONSTANT Deliveries

VARIABLES
  told,          (* what the row says of a delivery                         *)
  accepted       (* the deliveries the endpoint has accepted                *)

vars == <<told, accepted>>

Init ==
  /\ told = [d \in Deliveries |-> "nothing"]
  /\ accepted = {}

Record(d) ==
  /\ told[d] = "nothing"
  /\ told' = [told EXCEPT ![d] = "pending"]
  /\ UNCHANGED accepted

Accept(d) ==
  /\ told[d] # "nothing"
  /\ accepted' = accepted \cup {d}
  /\ UNCHANGED told

Tell(d) ==
  /\ told[d] \in {"pending", "failed", "delivered"}
  /\ \E word \in {"failed", "delivered"} :
       /\ word = "delivered" => d \in accepted
       /\ told' = [told EXCEPT ![d] = word]
  /\ UNCHANGED accepted

(* The endpoint is deleted, and its deliveries with it.                       *)
Forget(S) ==
  /\ told' = [d \in Deliveries |-> IF d \in S THEN "gone" ELSE told[d]]
  /\ UNCHANGED accepted

Next ==
  \/ \E d \in Deliveries : Record(d) \/ Accept(d) \/ Tell(d)
  \/ \E S \in SUBSET {d \in Deliveries : told[d] # "nothing"} : Forget(S)

Spec == Init /\ [][Next]_vars
=============================================================================
