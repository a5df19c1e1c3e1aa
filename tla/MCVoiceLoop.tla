----------------------------- MODULE MCVoiceLoop -----------------------------
(* Two turns, so that what one leaves behind meets the next, and replies of   *)
(* two phrases: one in the player's hand and one in the queue or on its way.  *)
EXTENDS VoiceLoop
=============================================================================
