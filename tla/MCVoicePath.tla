----------------------------- MODULE MCVoicePath -----------------------------
(* The voice path checked by TLC, with every timestamp for the jitter buffer. *)
EXTENDS VoicePath

MCStamps == 0 .. TsMod - 1
==============================================================================
