----------------------------- MODULE MCSoftphone -----------------------------
(* Two PBXes with two call numbers each: up to four calls at a time. *)
EXTENDS Softphone
=============================================================================
