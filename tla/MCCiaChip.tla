------------------------------- MODULE MCCiaChip ------------------------------
(***************************************************************************)
(* Constants of the instances of CiaEveryCycle that TLC checks.  ByteSize  *)
(* is 2, so latches and counters are 0 .. 3.                               *)
(***************************************************************************)
EXTENDS CiaEveryCycle

W(reg, value) == [reg |-> reg, value |-> value]

\* Latches of 1, every event enabled, the time of day running to its alarm
ChipStarts ==
  {[ResetChip EXCEPT !.ta = SetLatchLo(SetLatchHi(@, 0), la),
                     !.tb = SetLatchHi(@, 0),
                     !.imr = {"A", "Alarm", "Serial"},
                     !.todHalted = FALSE,
                     !.todAlarm.rest = 1] : la \in {0, 1}}

ChipReads == {"ICR"}

ChipWrites ==
  {W("CRA", {"Start", "PBOn"}), W("CRA", {"Start", "Serial"}),
   W("CRB", {"Start", "PBOn", "TimerA"}), W("CRB", {"PBOn", "Start", "OneShot"}),
   W("CRB", {"PBOn", "Toggle"}), W("SDR", 0),
   W("SetIMR", {"B", "Flag"}), W("ClearIMR", {"A", "B"})}

ChipInputs == {"FlagLow", "FlagHigh"}
=============================================================================
