---------------------------- MODULE VicEveryCycle ----------------------------
(* What the machine promises of the VIC: it is clocked once in every cycle   *)
(* before the CPU, which then sees its interrupt, BA and the end of a frame  *)
(* and may write a register. The "one chip at a time" half of Bus::tick().   *)
EXTENDS Mos6569

CONSTANTS Starts, Writes

VARIABLES chip, sampled

vars == <<chip, sampled>>

\* What the rest of the cycle sees of the chip.
Sample(c) == [irq |-> c.irq, ba |-> c.ba, frame |-> c.frame]

Init == chip \in Starts /\ sampled = Sample(chip)

Clock == sampled' = Sample(TickChip(chip))
Cycle == Clock /\ chip' = TickChip(chip)
WriteCycle(w) == Clock /\ chip' = WriteEffect(TickChip(chip), w)

Next == Cycle \/ \E w \in Writes : WriteCycle(w)

Spec == Init /\ [][Next]_vars
=============================================================================
