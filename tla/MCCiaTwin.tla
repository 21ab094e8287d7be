------------------------------- MODULE MCCiaTwin ------------------------------
(***************************************************************************)
(* Constants of the instance of CiaTwin that TLC checks.  ByteSize is 3,   *)
(* so latches and counters are 0 .. 8.                                     *)
(***************************************************************************)
EXTENDS CiaTwin

W(reg, value) == [reg |-> reg, value |-> value]

\* A reset chip after some writes, no timer running yet
SetUp(writes) ==
  FoldLeft(LAMBDA c, w : WriteEffect(c, w.reg, w.value), ResetChip, writes)

\* Latches of 2 and 4, interrupts of both timers, the alarm one tenth ahead
TwinStarts ==
  {SetUp(<<W("TALo", 2), W("TAHi", 0), W("TBLo", 1), W("TBHi", 1),
           W("SetIMR", {"A", "B", "Alarm"}), W("TodTenths", 0),
           W("CRB", {"Alarm"}), W("TodTenths", 1), W("TodRest", 1)>>)}

TwinReads == {"ICR", "TodHours", "TodTenths"}

TwinWrites ==
  {W("CRA", {"Start", "PBOn"}), W("CRA", {"Start", "Load", "OneShot"}),
   W("CRB", {"Start", "Load"}), W("TBHi", 0),
   W("TodHours", 1), W("TodTenths", 0), W("SetIMR", {"A"}), W("CRA", {"Start", "Serial"}), W("SDR", 0)}

NoInputs == {}
=============================================================================
