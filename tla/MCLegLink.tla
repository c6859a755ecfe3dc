------------------------------ MODULE MCLegLink ------------------------------
(* LegLink for TLC; the runs differ in what is sent and in the faults. *)
EXTENDS LegLink
=============================================================================
