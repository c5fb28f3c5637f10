---------------------------- MODULE CodecCatalog ----------------------------
(* What a player may rely on when it opens the master playlist of a video:    *)
(* once there is one there always is one, each extra codec it lists has a     *)
(* complete ladder in the bucket, and a ladder once complete stays.  Which of *)
(* the complete ladders are listed is left open.                              *)
CONSTANT Codecs

VARIABLES
  complete,  (* the extra codecs whose ladder is complete                   *)
  listed,    (* the extra codecs that the master playlist lists             *)
  playable   (* whether there is a master playlist                          *)

catalog == <<complete, listed, playable>>

Init ==
  /\ complete \in SUBSET Codecs
  /\ listed = {}
  /\ playable = FALSE

Complete(c) ==
  /\ complete' = complete \cup {c}
  /\ UNCHANGED <<listed, playable>>

Publish(codecs) ==
  /\ codecs \subseteq complete
  /\ listed' = codecs
  /\ playable' = TRUE
  /\ UNCHANGED complete

Next ==
  \/ \E c \in Codecs : Complete(c)
  \/ \E codecs \in SUBSET Codecs : Publish(codecs)

Spec == Init /\ [][Next]_catalog
=============================================================================
