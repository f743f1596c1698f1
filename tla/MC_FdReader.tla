----------------------------- MODULE MC_FdReader -----------------------------
EXTENDS FdReader, TLC

FdSymmetry == Permutations(Fds)
=============================================================================
