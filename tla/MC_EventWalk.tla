---------------------------- MODULE MC_EventWalk ----------------------------
(* A header of three units and buffers of up to three headers and a bit:   *)
(* every length field takes every value up to one past the longest buffer. *)
EXTENDS EventWalk

MC_LenField == 0..12
MC_BufLens == 0..11
=============================================================================
