---------------------------- MODULE MC_Resolver ----------------------------
(***************************************************************************)
(* Filesystem A holds a directory d with a subdirectory s; B holds a file  *)
(* x whose handle has the same bytes as the one of s.                      *)
(***************************************************************************)
EXTENDS Resolver, TLC

CONSTANTS A, B, d, s, x, hd, hs, n, m, bad

MC_FsOf == d :> A @@ s :> A @@ x :> B
MC_HandleOf == d :> hd @@ s :> hs @@ x :> hs
MC_Home ==
  [o \in {d, s, x} |->
    IF o = s THEN [path |-> <<A, n, n>>, above |-> {d}]
    ELSE [path |-> <<MC_FsOf[o], n>>, above |-> {}]]

On(fs) == [on |-> fs, fsid |-> fs]
MC_Mounts == <<On(B), On(A)>>
MC_UnknownMounts == <<[on |-> B, fsid |-> Unknown], On(A)>>

In(h, name) == [handle |-> h, name |-> name]
MC_Event(fs, dfid, src, self) ==
  [fsid |-> fs, dfid_name |-> dfid, rename_source |-> src, self_handle |-> self]

Overflow == MC_Event(None, None, None, None)
ChildOfS == MC_Event(A, In(hs, n), None, None)
MadeS == MC_Event(A, In(hd, n), None, hs)
MovedS == MC_Event(A, None, In(hd, n), hs)
BadName == MC_Event(A, In(hd, bad), None, hs)
OnlyS == MC_Event(A, None, None, hs)
OnlyX == MC_Event(B, None, None, hs)

MC_Mixed == {<<ChildOfS, MadeS>>, <<MovedS>>, <<BadName>>, <<Overflow, OnlyX>>}
MC_One == {<<OnlyS>>}
MC_Shared == {<<ChildOfS, MadeS>>, <<OnlyX>>}

ThreadSymmetry == Permutations(Threads)
=============================================================================
