-------------------------------- MODULE MCCia ---------------------------------
(***************************************************************************)
(* Constants of the instances of CiaRefinement and CiaEveryCycle that TLC  *)
(* checks.  ByteSize is 3, so latches and counters are 0 .. 8.             *)
(***************************************************************************)
EXTENDS CiaRefinement

W(reg, value) == [reg |-> reg, value |-> value]

\* A reset chip after some writes.  No timer runs yet, so how many cycles the
\* writes take changes nothing.
SetUp(writes) ==
  FoldLeft(LAMBDA c, w : WriteEffect(c, w.reg, w.value), ResetChip, writes)

\* The latches, low byte before high byte as the KERNAL does, and the mask
Program(la, lb, imr) ==
  << W("TALo", la % ByteSize), W("TAHi", la \div ByteSize),
     W("TBLo", lb % ByteSize), W("TBHi", lb \div ByteSize), W("SetIMR", imr) >>

NoReads == {}
IcrReads == {"ICR"}
NoInputs == {}
CntInputs == {"CntLow", "CntHigh"}

\* Timer A prescales timer B, or both count phi2, one of them from a latch of zero;
\* pulse and toggle outputs, one shot; time of day halted
CascadeStarts == {SetUp(Program(2, 5, {"B"})), SetUp(Program(0, 3, {"A", "B"}))}

CascadeWrites ==
  {W("CRA", {"Start", "Load"}), W("CRA", {"Start", "OneShot", "PBOn"}),
   W("CRB", {"Start", "TimerA", "PBOn", "Toggle"}),
   W("CRB", {"Start", "TimerA", "Cnt"}), W("TALo", 1)}

\* The same with the time of day running
TodCascadeStarts ==
  {SetUp(Program(2, 6, {"B"}) \o <<W("TodTenths", 0)>>)}

TodCascadeWrites ==
  {W("CRA", {"Start", "Load"}), W("CRB", {"Start", "TimerA"})}

\* The same with timer B restarted from a smaller latch
RestartStarts == {SetUp(Program(2, 6, {"B"}))}

RestartWrites ==
  {W("CRA", {"Start", "Load"}), W("CRB", {"Start", "TimerA"}), W("TBHi", 0),
   W("CRB", {"Start", "TimerA", "Load"})}

\* Serial output, pulse and toggle outputs, the alarm, masks that change
OutputStarts ==
  {SetUp(Program(1, 2, {}) \o <<W("TodTenths", 1), W("CRB", {"Alarm"}), W("TodHours", 1)>>)}

OutputReads == {"ICR", "TodHours", "TodTenths"}

OutputWrites ==
  {W("CRA", {"Start", "Load", "PBOn"}), W("CRA", {"Start", "Serial"}),
   W("CRB", {"Start", "PBOn", "Toggle"}), W("SDR", 0),
   W("SetIMR", {"A", "Serial", "Alarm"}), W("ClearIMR", {"A", "B"}),
   W("TodHours", 1), W("TodTenths", 0)}
=============================================================================
