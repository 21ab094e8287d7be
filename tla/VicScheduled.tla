----------------------------- MODULE VicScheduled -----------------------------
(* The VIC on the scheduled half of Bus::tick(): it runs behind the bus and   *)
(* is only looked at when vic_wake_ runs out or the CPU accesses it.          *)
(* present is the chip an access would find, kept beside the real one for     *)
(* the refinement.                                                            *)
EXTENDS Mos6569

CONSTANTS Starts, Writes

\* No sprite is fetched yet, and BA is released, as reset() leaves it
ASSUME VicAccessAssumption ==
    /\ Starts \subseteq Chip
    /\ \A c \in Starts : c.ba /\ ~c.badline /\ c.dma = {}
    /\ Writes \subseteq RegisterWrites

VARIABLES
  chip,      \* the chip as it was last caught up
  behind,    \* cycles it has not run
  wake,      \* vic_wake_
  sampled,   \* what the CPU saw in the last cycle
  present    \* the chip brought to the present

vars == <<chip, behind, wake, sampled, present>>

Sample(c) == [irq |-> c.irq, ba |-> c.ba, frame |-> c.frame]

Init ==
    /\ chip \in Starts
    /\ behind = 0
    /\ wake = 1
    /\ sampled = Sample(chip)
    /\ present = chip

Woken == wake = 1
Clocked == IF Woken THEN CatchUp(chip, behind + 1) ELSE chip
BehindInCycle == IF Woken THEN 0 ELSE behind + 1

\* The VIC's part of the cycle, found as c by the CPU.
Look(c) ==
    /\ sampled' = Sample(c)
    /\ wake' = IF Woken THEN CyclesToEvent(c) ELSE wake - 1

Cycle ==
    /\ Look(Clocked)
    /\ chip' = Clocked
    /\ behind' = BehindInCycle
    /\ present' = CatchUp(chip', behind')

\* io_read(): caught up, not rescheduled.
ReadCycle ==
    /\ Look(Clocked)
    /\ chip' = CatchUp(Clocked, BehindInCycle)
    /\ behind' = 0
    /\ present' = chip'

\* io_write(): caught up, written, and asked again in the next cycle.
Written(c, w) ==
    /\ sampled' = Sample(c)
    /\ chip' = WriteEffect(CatchUp(c, BehindInCycle), w)

WriteCycle(w) ==
    /\ Written(Clocked, w)
    /\ behind' = 0
    /\ wake' = 1
    /\ present' = chip'

Next == Cycle \/ ReadCycle \/ \E w \in Writes : WriteCycle(w)

Spec == Init /\ [][Next]_vars

----------------------------------------------------------------------------
Promise == INSTANCE VicEveryCycle WITH chip <- present

(* The chip and its schedule keep their ranges; above all the VIC is never   *)
(* left alone for more than a line.                                          *)
TypeOK ==
    /\ chip \in Chip
    /\ present \in Chip
    /\ behind \in 0..LineLength - 1
    /\ wake \in 1..LineLength

(* A VIC that is looked at only when its own schedule says so cannot be told *)
(* from one that is clocked every cycle: the CPU loses the same cycles, sees *)
(* the same interrupt in the same cycle, every frame ends in the same cycle  *)
(* and every register reads the same, whatever is written when.              *)
EveryCycle == Promise!Spec

(* Running cycles_to_frame_end() cycles lands on the frame boundary: without *)
(* a write it counts down by one in each cycle, and the frame ends exactly   *)
(* when it runs out (Player::run_frame() runs that many).                    *)
LandsOnFrameEnd ==
    [][/\ CyclesToFrameEnd(present) = 1 <=> sampled'.frame # sampled.frame
       /\ CyclesToFrameEnd(present') = IF CyclesToFrameEnd(present) = 1
                                       THEN LineLength * Lines
                                       ELSE CyclesToFrameEnd(present) - 1]_vars
=============================================================================
