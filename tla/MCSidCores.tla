----------------------------- MODULE MCSidCores -----------------------------
(* Two chips: the smallest number that can be muted at the same time.       *)
EXTENDS SidCores

CONSTANTS sid1, sid2

MCChips == {sid1, sid2}
=============================================================================
