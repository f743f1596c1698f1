----------------------------- MODULE MC_Response -----------------------------
EXTENDS Response, TLC

(* 0, EACCES, one past the errno field, -1.                                *)
MCErrnos == {{}, {0, 2, 3}, {8}, Bits}
MCWords == {FAN_ALLOW \cup FAN_DENY, FAN_ALLOW \cup FAN_AUDIT, FAN_ALLOW \cup FAN_INFO}
MCDecisions == {FAN_ALLOW, FAN_DENY}
(* The audit rule's size; the last that stays inline and the first that    *)
(* spills; the last that fits the u16 and the first that does not.         *)
MCSizes == {12, 20, 21, 65531, 65532}

Symmetry == Permutations(Writers) \cup Permutations(Fds)
=============================================================================
