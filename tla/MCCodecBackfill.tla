--------------------------- MODULE MCCodecBackfill ---------------------------
(* Small instances of CodecBackfill for TLC: two codecs, one of which the     *)
(* other may overtake, and one request that asks for either.                  *)
EXTENDS CodecBackfill
=============================================================================
