---------------------------- MODULE MC_FidReader ----------------------------
EXTENDS FidReader, TLC

FdSymmetry == Permutations(Fds) \cup Permutations(Events)
=============================================================================
