---------------------------- MODULE CiaEveryCycle -----------------------------
(***************************************************************************)
(* What the machine promises of a CIA: it is clocked once in every phi2    *)
(* cycle, and the CPU reads its interrupt line after that clock.  This is  *)
(* the "one chip at a time" half of Bus::tick (core/bus.cpp), the half a   *)
(* machine without attach_fast() runs.  CiaScheduled is the other half and *)
(* is shown to implement this module.                                      *)
(***************************************************************************)
EXTENDS CiaAccess

vars == <<chip, line, accesses>>

Init ==
  /\ \E c \in Starts : chip = Shown(c)
  /\ line = FALSE
  /\ accesses = 0

\* The devices are clocked, then the CPU samples the line
Clock == line' = TickChip(chip).intLow

\* A cycle in which the CPU leaves the chip alone
Cycle == Clock /\ chip' = Shown(TickChip(chip)) /\ UNCHANGED accesses

ReadCycle(reg) ==
  /\ CountAccess
  /\ Clock
  /\ chip' = Shown(ReadEffect(TickChip(chip), reg))

WriteCycle(w) ==
  /\ CountAccess
  /\ Clock
  /\ chip' = Shown(WriteEffect(TickChip(chip), w.reg, w.value))

\* Between two cycles
Input(input) ==
  /\ CountAccess
  /\ chip' = InputEffect(chip, input)
  /\ UNCHANGED line

Next ==
  \/ Cycle
  \/ \E reg \in Reads : ReadCycle(reg)
  \/ \E w \in Writes : WriteCycle(w)
  \/ \E input \in Inputs : Input(input)

Spec == Init /\ [][Next]_vars

-----------------------------------------------------------------------------
\* Every register and pipeline bit of the chip keeps its range, and the
\* digits of the time of day theirs, through every clock, access and input.
TypeOK ==
  /\ chip \in Chip
  /\ line \in BOOLEAN
  /\ accesses \in 0 .. MaxAccesses

Delivers(c) == c.icr \cap c.imr # {} => c.intLow \/ c.intDelay # {}

\* An event that is enabled is never forgotten: until the ICR is read the line
\* is low or on its way (trigger_interrupt, the IMR write, int_delay_).
NoLostInterrupt == Delivers(chip)

Caused(c) == c.intLow \/ c.intDelay # {} => c.icr # {}

\* The line is never low, nor on its way, without an event the ICR shows
NoSpuriousInterrupt == Caused(chip)

\* A pin in pulse mode is high exactly in the clock of its pulse
PulseOneClock(pin, control) ==
  "PBOn" \in control /\ "Toggle" \notin control =>
    (pin \in chip.out <=> chip.pulse[pin] # 0)

\* PB7 in pulse mode, whatever was written to CRB in between
Pb7PulsesOneClock == PulseOneClock("PB7", chip.crb)

\* PB6 in pulse mode: "PB6 and PB7 pulse high for one clock", mos6526.h
Pb6PulsesOneClock == PulseOneClock("PB6", chip.cra)

\* An enabled event reaches the CPU in the second cycle after it at the latest
\* when the program leaves the chip alone: after one cycle the line is low or
\* the event is at the last stage of int_delay_, which lowers it in the next.
InterruptArrives ==
  [][accesses' = accesses =>
       /\ chip.icr \cap chip.imr # {} => line' \/ "Next" \in chip'.intDelay
       /\ "Next" \in chip.intDelay => line']_vars
=============================================================================
