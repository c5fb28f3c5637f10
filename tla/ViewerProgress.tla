---------------------------- MODULE ViewerProgress ----------------------------
(***************************************************************************)
(* What the service remembers of a viewer: the platform mints a signed      *)
(* token for one of its users, the player sends it along with its beacons,  *)
(* and each beacon is merged into one row per library, viewer and video.    *)
(* Beacons are lost, repeated and overtake each other: any beacon may arrive *)
(* at any moment. A signature is what no one but the service can make, so    *)
(* that a token is the fact that it was minted. Times are days.             *)
(***************************************************************************)
EXTENDS Naturals, FiniteSets

CONSTANTS
  Viewers,
  Tenants,       (* library ids                                             *)
  Streams,       (* video ids                                               *)
  TenantOf,      (* the library of a video                                  *)
  Lengths,       (* durations a transcode finds, in seconds                 *)
  Playheads,     (* positions a player reports                              *)
  AskedTTLs,     (* ttlSeconds of a mint request; 0 when left out           *)
  MinTTL, DefaultTTL, MaxTTL,
  Retention,     (* ViewerProgressRetentionDays, 0 for ever                 *)
  MaxTokens,     (* bound: the tokens minted                                *)
  MaxDay         (* bound: the last day looked at                           *)

ASSUME ProgressAssumption ==
  /\ TenantOf \in [Streams -> Tenants]
  /\ Lengths \subseteq Nat \ {0} /\ Playheads \subseteq Nat
  /\ AskedTTLs \subseteq Nat
  /\ MinTTL \in Nat /\ DefaultTTL \in Nat /\ MaxTTL \in Nat
  /\ Retention \in Nat /\ MaxDay \in Nat /\ MaxTokens \in Nat

VARIABLES
  today,
  minted,        (* the viewer tokens handed out                            *)
  length,        (* videos.duration_seconds, 0 for NULL and for a purged row *)
  stream,        (* whether the row of the video is there                   *)
  progress,      (* viewer_progress, per library, viewer and video          *)
  heard          (* history: the beacons merged into the row since it was   *)
                 (* inserted, with the duration each of them met            *)

progressVars == <<today, minted, length, stream, progress, heard>>

Least(a, b) == IF a < b THEN a ELSE b
Most(a, b) == IF a > b THEN a ELSE b

NoRow == [there |-> FALSE, position |-> 0, watched |-> 0, duration |-> 0,
          percent |-> 0, completed |-> FALSE, day |-> 0]

-----------------------------------------------------------------------------
(* Tokens *)

TokenLife(asked) ==
  Least(MaxTTL, Most(MinTTL, IF asked = 0 THEN DefaultTTL ELSE asked))

SignViewer(tenant, viewer, exp) == [tenant |-> tenant, viewer |-> viewer, exp |-> exp]

(* VerifyViewer that takes the token's word for the library.                  *)
VerifySigned(tenant, token) == token \in minted /\ today <= token.exp

(* The library of the path must be the token's, and the day not past.        *)
VerifyViewer(tenant, token) ==
  /\ token \in minted
  /\ token.tenant = tenant
  /\ today <= token.exp

MintViewerToken ==
  /\ Cardinality(minted) < MaxTokens
  /\ \E tenant \in Tenants, viewer \in Viewers, asked \in AskedTTLs :
       minted' = minted \cup {SignViewer(tenant, viewer, today + TokenLife(asked))}
  /\ UNCHANGED <<today, length, stream, progress, heard>>

-----------------------------------------------------------------------------
(* Beacons *)

Ended(event) == event = "ended"

(* A viewer has finished at 95 % of the duration.                            *)
InTail(position, duration) == duration > 0 /\ 100 * position >= 95 * duration

(* Percent with no upper limit.                                              *)
RawPercent(watched, duration) == (100 * watched) \div duration

(* The fraction is rounded down here, a float there.                         *)
Percent(watched, duration) == Least(100, (100 * watched) \div duration)

Inserted(position, event, duration) ==
  [there |-> TRUE, position |-> position, watched |-> position,
   duration |-> duration,
   percent |-> IF duration > 0 THEN Percent(position, duration) ELSE 0,
   completed |-> Ended(event) \/ InTail(position, duration), day |-> today]

(* Merged with the completion, or the percentage, of the last beacon.         *)
LastCompletion(row, position, event, duration) ==
  [Inserted(position, event, duration) EXCEPT !.watched = Most(row.watched, position)]

LastPercent(row, position, event, duration) ==
  [Inserted(position, event, duration) EXCEPT
     !.watched = Most(row.watched, position),
     !.completed = @ \/ row.completed]

Merged(row, position, event, duration) ==
  LET watched == Most(row.watched, position)
      known == IF duration > 0 THEN duration ELSE row.duration
  IN [there |-> TRUE, position |-> position, watched |-> watched,
      duration |-> known,
      percent |-> IF known > 0 THEN Percent(watched, known) ELSE row.percent,
      completed |-> row.completed \/ Ended(event) \/ InTail(position, duration),
      day |-> today]

(* INSERT ... SELECT FROM videos: nothing for a video that is not there or    *)
(* not of this library.                                                      *)
UpsertViewerProgress(tenant, viewer, s, position, event) ==
  LET key == <<tenant, viewer, s>>
      row == progress[key]
  IN IF stream[s] /\ TenantOf[s] = tenant
     THEN /\ progress' = [progress EXCEPT ![key] =
               IF row.there THEN Merged(row, position, event, length[s])
               ELSE Inserted(position, event, length[s])]
          /\ heard' = [heard EXCEPT ![key] =
               @ \cup {[position |-> position, event |-> event,
                        duration |-> length[s]]}]
     ELSE UNCHANGED <<progress, heard>>

(* The library of the beacon is the player's word, as the token is. The       *)
(* playback event is recorded either way and is not looked at here.           *)
Beacon ==
  /\ \E token \in minted, tenant \in Tenants, s \in Streams,
        position \in Playheads, event \in {"progress", "ended"} :
       /\ VerifyViewer(tenant, token)
       /\ UpsertViewerProgress(tenant, token.viewer, s, position, event)
  /\ UNCHANGED <<today, minted, length, stream>>

-----------------------------------------------------------------------------
(* What goes on around them *)

(* A transcode ends, the first one or that of a new upload.                  *)
SetDuration ==
  /\ \E s \in Streams, d \in Lengths :
       stream[s] /\ length' = [length EXCEPT ![s] = d]
  /\ UNCHANGED <<today, minted, stream, progress, heard>>

(* The progress of a purged video stays: it has no foreign key.              *)
PurgeVideoRow ==
  /\ \E s \in Streams :
       /\ stream[s]
       /\ stream' = [stream EXCEPT ![s] = FALSE]
       /\ length' = [length EXCEPT ![s] = 0]
  /\ UNCHANGED <<today, minted, progress, heard>>

NextDay ==
  /\ today < MaxDay
  /\ today' = today + 1
  /\ UNCHANGED <<minted, length, stream, progress, heard>>

Expired(key) == progress[key].there /\ progress[key].day + Retention < today

PruneViewerProgress ==
  /\ Retention > 0
  /\ \E key \in DOMAIN progress : Expired(key)
  /\ progress' = [key \in DOMAIN progress |->
                    IF Expired(key) THEN NoRow ELSE progress[key]]
  /\ heard' = [key \in DOMAIN heard |-> IF Expired(key) THEN {} ELSE heard[key]]
  /\ UNCHANGED <<today, minted, length, stream>>

-----------------------------------------------------------------------------
Keys == Tenants \X Viewers \X Streams

ProgressInit ==
  /\ today = 0
  /\ minted = {}
  /\ length = [s \in Streams |-> 0]
  /\ stream = [s \in Streams |-> TRUE]
  /\ progress = [key \in Keys |-> NoRow]
  /\ heard = [key \in Keys |-> {}]

ProgressNext ==
  \/ MintViewerToken \/ Beacon
  \/ SetDuration \/ PurgeVideoRow \/ NextDay \/ PruneViewerProgress

ProgressSpec == ProgressInit /\ [][ProgressNext]_progressVars

-----------------------------------------------------------------------------
(* Properties *)

(* The types of the tokens and of the progress rows.                         *)
ProgressTypeOK ==
  /\ today \in 0..MaxDay
  /\ minted \subseteq [tenant : Tenants, viewer : Viewers, exp : Nat]
  /\ length \in [Streams -> Lengths \cup {0}]
  /\ stream \in [Streams -> BOOLEAN]
  /\ progress \in [Keys -> [there : BOOLEAN, position : Playheads \cup {0},
                            watched : Playheads \cup {0}, duration : Lengths \cup {0},
                            percent : 0..100, completed : BOOLEAN, day : Nat]]
  /\ heard \in [Keys -> SUBSET [position : Playheads, event : {"progress", "ended"},
                                duration : Lengths \cup {0}]]

(* A row is the same whatever the order in which its beacons arrived, but for *)
(* the resume point and the duration: the high-water mark is the furthest    *)
(* position heard, completion is that some beacon ended the video or was in   *)
(* the tail of the duration it met (db/viewer.go: UpsertViewerProgress).      *)
MergedInAnyOrder ==
  \A key \in Keys : progress[key].there =>
    LET row == progress[key] IN
    /\ \E b \in heard[key] : row.watched = b.position
    /\ \A b \in heard[key] : b.position <= row.watched
    /\ row.completed <=> \E b \in heard[key] :
                           Ended(b.event) \/ InTail(b.position, b.duration)

(* The resume point was reported by a beacon and lies within what counts as   *)
(* watched, and the percentage is that of the high-water mark                 *)
(* (db/viewer.go: UpsertViewerProgress).                                      *)
ResumesWithinWatched ==
  \A key \in Keys : progress[key].there =>
    LET row == progress[key] IN
    /\ row.position <= row.watched
    /\ \E b \in heard[key] : row.position = b.position
    /\ row.duration > 0 => row.percent = Percent(row.watched, row.duration)

(* Progress is kept only for a viewer whose token, for the library of the     *)
(* video, was valid when the row was last written, and no token lives longer  *)
(* than the limit (token.go: VerifyViewer; viewer.go: handleMintViewerToken). *)
ProgressIsAttributed ==
  /\ \A key \in Keys : progress[key].there =>
       /\ TenantOf[key[3]] = key[1]
       /\ \E token \in minted :
            /\ token.tenant = key[1] /\ token.viewer = key[2]
            /\ progress[key].day <= token.exp
  /\ \A token \in minted : token.exp <= today + MaxTTL
=============================================================================
