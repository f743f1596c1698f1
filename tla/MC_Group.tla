------------------------------ MODULE MC_Group ------------------------------
EXTENDS Group, TLC
=============================================================================
