--------------------------- MODULE MCWebhookDelivery ---------------------------
(* A small instance of WebhookDelivery: an event that two of three endpoints  *)
(* ask for, one by its type and one by asking for all.                        *)
EXTENDS WebhookDelivery, TLC

CONSTANTS uploaded, all, some, other

MCTypeOf == (uploaded :> "video.uploaded")
MCEventsOf == (all :> {}) @@ (some :> {"video.uploaded"}) @@ (other :> {"video.encoded"})
=============================================================================
