------------------------------ MODULE MCNetStream ------------------------------
(***************************************************************************)
(* Constants of the instances of NetStream that TLC checks: a frame of 5   *)
(* cycles, three of them just short of the longest delay.                  *)
(***************************************************************************)
EXTENDS NetStream

Version5 == [hardware : BOOLEAN, v5 : {TRUE}]
Version4 == {[hardware |-> FALSE, v5 |-> FALSE]}

ByKind(hardware, software) == [h \in BOOLEAN |-> IF h THEN hardware ELSE software]

BigDelays   == ByKind(2, 2)
Thresholds  == ByKind(11, 3)
FrameLimits == ByKind(3, 1)
=============================================================================
