---------------------------- MODULE MC_FidParser ----------------------------
(***************************************************************************)
(* Two buffers parsed into the same Vec, so that slots are reused, left    *)
(* over and carry paths.  In seven units an event may hold two records, of *)
(* any types, and bytes that are too few for a third; in three, a header   *)
(* and a tail.                                                             *)
(***************************************************************************)
EXTENDS FidParser

MC_InfoTypes == RecordTypes
MC_LenField == 0..8
MC_BufLens == {3, 7}
=============================================================================
