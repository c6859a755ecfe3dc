--------------------------- MODULE MCJitterBuffer ---------------------------
(* A frame lasts two units, so that timestamps may lie between the frames. *)
EXTENDS JitterBuffer
=============================================================================
