------------------------------- MODULE CiaTwin --------------------------------
(***************************************************************************)
(* Two equal CIAs in lockstep, as tests/test_cia.cpp runs them: the one of *)
(* CiaScheduled and one that is ticked in every cycle (stepped).  No       *)
(* cascade is set up, so catch_up() is its general path only, and no input *)
(* changes.  CiaProofs proves that they never differ.                      *)
(***************************************************************************)
EXTENDS CiaScheduled

VARIABLES stepped,     \* the chip that is ticked in every cycle
          steppedLine  \* the line it showed the CPU

twinVars == <<scheduledVars, stepped, steppedLine>>

\* Here no program selects a cascade mode
PlainStarts == {c \in Starts : "TimerA" \notin c.crb}
PlainWrites == {w \in Writes : w.reg = "CRB" => "TimerA" \notin w.value}

\* Two passes of the loop of catch_up bring a scheduled chip to the present:
\* one in bulk and, when its event is due, one clock walked.
SecondPass(first, n) ==
  IF first.clocks = n THEN first.chip
  ELSE CatchUpPass(first.chip, n - first.clocks).chip

Present(c, n) == IF n = 0 THEN c ELSE SecondPass(CatchUpPass(c, n), n)

-----------------------------------------------------------------------------
TwinInit ==
  /\ ScheduledInit
  /\ chip \in PlainStarts
  /\ stepped = chip
  /\ steppedLine = FALSE

\* The other half of Bus::tick, up to the moment the CPU runs
SteppedSampled == steppedLine' = TickChip(stepped).intLow

TwinCycle ==
  /\ ScheduledCycle
  /\ SteppedSampled
  /\ stepped' = TickChip(stepped)

TwinRead(reg) ==
  /\ ScheduledRead(reg)
  /\ SteppedSampled
  /\ stepped' = ReadEffect(TickChip(stepped), reg)

TwinWrite(w) ==
  /\ ScheduledWrite(w)
  /\ SteppedSampled
  /\ stepped' = WriteEffect(TickChip(stepped), w.reg, w.value)

TwinNext ==
  \/ TwinCycle
  \/ \E reg \in Reads : TwinRead(reg)
  \/ \E w \in PlainWrites : TwinWrite(w)

TwinSpec == TwinInit /\ [][TwinNext]_twinVars

-----------------------------------------------------------------------------
\* The chip keeps its type, and the bus always waits for at least one cycle.
ScheduleTypeOK ==
  /\ chip \in Chip
  /\ behind \in Nat
  /\ wake \in Nat \ {0}
  /\ line \in BOOLEAN
  /\ accesses \in 0 .. MaxAccesses

\* Cycles a chip may be left alone before it must be looked at
Allowance(c) == IF GenericQuiet(c) = 0 THEN 1 ELSE TodBound(c, GenericQuiet(c))

\* The schedule never outlasts what the chip allows
InTime == behind + wake <= Allowance(chip)

NoCascade == "TimerA" \notin chip.crb

\* What the schedule of a chip without a cascade relies on
ScheduleInvariant == ScheduleTypeOK /\ InTime /\ NoCascade

\* The interrupt line the CPU samples is the same in every cycle, and so is the
\* chip it would find behind any access: "the scheduled and stepped never
\* differ" of tests/test_cia.cpp, for Bus::tick and Mos6526::catch_up.
NeverDiffer ==
  /\ line = steppedLine
  /\ CatchUp(chip, behind) = stepped

\* Between two looks at the chip only the counters moved
OnlyCountersMoved == stepped = SkipChip(chip, behind)

\* The invariant the proof is by induction on
TwinInvariant == ScheduleInvariant /\ OnlyCountersMoved /\ line = steppedLine

\* The loop of catch_up never takes more than two passes, for a chip that is
\* due or that is accessed before.
LoopIsTwoPasses ==
  /\ CatchUp(chip, behind) = Present(chip, behind)
  /\ CatchUp(chip, behind + 1) = Present(chip, behind + 1)
=============================================================================
