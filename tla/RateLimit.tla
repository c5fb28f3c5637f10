------------------------------- MODULE RateLimit -------------------------------
(***************************************************************************)
(* The token buckets of the API, one per credential, made on first use and   *)
(* dropped after an idle time so that the map does not grow. One bucket is   *)
(* looked at: buckets do not touch each other. Time is in ticks of the       *)
(* reaper's clock.                                                           *)
(***************************************************************************)
EXTENDS Integers

CONSTANTS
  Burst,         (* RateLimitBurst                                          *)
  Refill,        (* tokens that come back in a tick                         *)
  IdleTicks,     (* how long a bucket may be idle before it is dropped      *)
  MaxTick,       (* bound: the last tick looked at                          *)
  MaxAdmitted    (* bound: requests let through in all                      *)

(* Dropping a bucket forgets what it lacks: the idle time must refill it.    *)
ASSUME RefillAssumption ==
  /\ {Burst, Refill, IdleTicks, MaxTick, MaxAdmitted} \subseteq Nat
  /\ Burst <= Refill * IdleTicks

VARIABLES
  tick,
  bucket,        (* the entry of the map                                    *)
  admitted       (* history: requests let through up to the end of a tick   *)

limitVars == <<tick, bucket, admitted>>

NoBucket == [there |-> FALSE, tokens |-> 0, last |-> 0, seen |-> 0]

(* rate.NewLimiter starts full.                                              *)
NewLimiter == [there |-> TRUE, tokens |-> Burst, last |-> tick, seen |-> tick]

LimiterFor == IF bucket.there THEN [bucket EXCEPT !.seen = tick] ELSE NewLimiter

Available(b) ==
  LET t == b.tokens + Refill * (tick - b.last)
  IN IF t > Burst THEN Burst ELSE t

Before(t) == IF t = 0 THEN 0 ELSE admitted[t - 1]

Total(from, to) == admitted[to] - Before(from)

(* A request: limiterFor, then Allow.                                        *)
Request ==
  LET b == LimiterFor
      t == Available(b)
  IN /\ admitted[tick] < MaxAdmitted
     /\ IF t > 0
        THEN /\ bucket' = [b EXCEPT !.tokens = t - 1, !.last = tick]
             /\ admitted' = [admitted EXCEPT ![tick] = @ + 1]
        ELSE bucket' = b /\ UNCHANGED admitted
     /\ UNCHANGED tick

(* Reap of buckets in use.                                                   *)
ReapAny ==
  /\ bucket.there
  /\ bucket' = NoBucket
  /\ UNCHANGED <<tick, admitted>>

Reap ==
  /\ bucket.there /\ bucket.seen + IdleTicks < tick
  /\ bucket' = NoBucket
  /\ UNCHANGED <<tick, admitted>>

Tick ==
  /\ tick < MaxTick
  /\ tick' = tick + 1
  /\ admitted' = [admitted EXCEPT ![tick + 1] = admitted[tick]]
  /\ UNCHANGED bucket

LimitInit ==
  /\ tick = 0
  /\ bucket = NoBucket
  /\ admitted = [t \in 0..MaxTick |-> 0]

LimitNext == Request \/ Reap \/ Tick

LimitSpec == LimitInit /\ [][LimitNext]_limitVars

(* Whatever is dropped and made anew, no stretch of time lets through more    *)
(* than the burst and what came back meanwhile (ratelimit.go: reap).          *)
WithinLimit ==
  \A from, to \in 0..tick :
    from <= to => Total(from, to) <= Burst + Refill * (to - from)
=============================================================================
