------------------------------ MODULE MC_Mounts ------------------------------
EXTENDS Mounts, TLC

CONSTANTS A, B, a1, a2, b1, bytes, other

(* The first objects of the two filesystems have the same handle bytes.    *)
MC_FsOf == [o \in Objects |-> IF o = b1 THEN B ELSE A]
MC_BytesOf == [o \in Objects |-> IF o = a2 THEN other ELSE bytes]

(* A plain name, the same name with a marker of its own, and the marker    *)
(* alone, one level down.                                                  *)
MC_Names ==
  LET x == Component("x", 0)
  IN A :> {<<x>>, <<Component("x", 1)>>, <<x, Component("", 1)>>}
     @@ B :> {<<Component("y", 0)>>}
MC_Child == Component("child", 0)
=============================================================================
