------------------------------ MODULE MCAudioIo ------------------------------
(* Audio I/O checked by TLC; blocks and frames do not divide each other. *)
EXTENDS AudioIo
=============================================================================
