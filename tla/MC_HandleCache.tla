--------------------------- MODULE MC_HandleCache ---------------------------
EXTENDS HandleCache, TLC
=============================================================================
