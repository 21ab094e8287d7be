----------------------------- MODULE CiaScheduled -----------------------------
(***************************************************************************)
(* A CIA on the scheduled half of Bus::tick (core/bus.cpp): the chip runs  *)
(* behind the bus and is only looked at when its wake counter runs out or  *)
(* when it is accessed.  Then catch_up() brings it to the present, in bulk *)
(* where nothing visible happens, and cycles_to_event() says how long it   *)
(* may be left alone again.                                                *)
(*                                                                         *)
(* The chip of CiaAccess is here as it was last caught up. The accesses    *)
(* are those of CiaEveryCycle, which this module implements.               *)
(***************************************************************************)
EXTENDS CiaAccess, CiaCatchUp

VARIABLES behind,   \* bus cycles the chip has not run: catch_up_target() - ticks_
          wake      \* cia1_wake_ / cia2_wake_

scheduledVars == <<chip, behind, wake, line, accesses>>

-----------------------------------------------------------------------------
ScheduledInit ==
  /\ chip \in Starts
  /\ behind = 0
  /\ wake = 1
  /\ line = FALSE
  /\ accesses = 0

\* The CIA part of Bus::tick: the chip is only looked at when an event is due.
\* What the rest of the cycle finds.
Woken == wake = 1

Clocked == IF Woken THEN CatchUp(chip, behind + 1) ELSE chip

BehindInCycle == IF Woken THEN 0 ELSE behind + 1

NextWake == IF Woken THEN CyclesToEvent(Clocked) ELSE wake - 1

\* The CPU samples the line the bus has, whatever the chip would have done
Sampled == line' = Clocked.intLow

ScheduledCycle ==
  /\ Sampled
  /\ chip' = Clocked
  /\ behind' = BehindInCycle
  /\ wake' = NextWake
  /\ UNCHANGED accesses

\* The CPU reads in the same cycle: catch_up_now(), no new schedule
ScheduledRead(reg) ==
  /\ CountAccess
  /\ Sampled
  /\ chip' = ReadEffect(CatchUp(Clocked, BehindInCycle), reg)
  /\ behind' = 0
  /\ wake' = NextWake

\* The CPU writes in the same cycle: the bus asks the chip again
ScheduledWrite(w) ==
  /\ CountAccess
  /\ Sampled
  /\ chip' = WriteEffect(CatchUp(Clocked, BehindInCycle), w.reg, w.value)
  /\ behind' = 0
  /\ wake' = 1

\* set_cnt, set_flag between two cycles: caught up, not rescheduled
ScheduledInput(input) ==
  /\ CountAccess
  /\ chip' = InputEffect(CatchUp(chip, behind), input)
  /\ behind' = 0
  /\ UNCHANGED <<wake, line>>

ScheduledNext ==
  \/ ScheduledCycle
  \/ \E reg \in Reads : ScheduledRead(reg)
  \/ \E w \in Writes : ScheduledWrite(w)
  \/ \E input \in Inputs : ScheduledInput(input)

ScheduledSpec == ScheduledInit /\ [][ScheduledNext]_scheduledVars
=============================================================================
