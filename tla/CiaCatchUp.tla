------------------------------ MODULE CiaCatchUp ------------------------------
(***************************************************************************)
(* Mos6526::catch_up: how a CIA that is some cycles behind the bus is      *)
(* brought to the present, in bulk where nothing visible happens.          *)
(***************************************************************************)
EXTENDS Mos6526, Sequences, SequencesExt

\* n clocks walked one by one
Walk(c, n) == FoldLeft(LAMBDA d, i : TickChip(d), c, [i \in 1 .. n |-> i])

\* The test of cascade_skip that one period brought everything back but one
\* count of timer B
Repeats(before, after) ==
  /\ after.ta.state = before.ta.state /\ after.ta.counter = before.ta.counter
  /\ after.tb.state = before.tb.state
  /\ after.tb.counter = before.tb.counter - 1
  /\ ~InFlight(after)

\* reps more periods at once
BulkPeriods(c, reps) ==
  [c EXCEPT !.tb.counter = @ - reps,
            !.icr        = @ \cup {"A"},
            !.toggle     = IF reps % 2 = 1 THEN Flip(@, "PB6") ELSE @,
            !.todCycles  = @ + reps * Period(c)]

\* As many more periods as stay short of the next event, when they only repeat
\* the one walked
AfterPeriod(c, walked, n) ==
  LET reps == Least(walked.tb.counter - 1,
                    Least((n - Period(c)) \div Period(c), TodLeft(walked) \div Period(c)))
  IN  IF Repeats(c, walked) /\ reps > 0
      THEN [chip |-> BulkPeriods(walked, reps), clocks |-> Period(c) + reps * Period(c)]
      ELSE [chip |-> walked, clocks |-> Period(c)]

\* Mos6526::cascade_skip: the chip afterwards and the clocks applied, 0 when
\* this is not a cascade
CascadeSkip(c, n) ==
  IF ~Cascading(c) \/ n < 2 * Period(c) \/ InFlight(c)
  THEN [chip |-> c, clocks |-> 0]
  ELSE AfterPeriod(c, Walk(c, Period(c)), n)

\* Clocks in which nothing visible happens, 0 when the chip must be walked
Quiet(c) == IF GenericQuiet(c) = 0 THEN 0 ELSE TodBound(c, GenericQuiet(c))

\* Mutant of GeneralPass: the bulk runs over the event itself
GeneralPassOverEvent(c, n) ==
  IF Quiet(c) > 1
  THEN [chip |-> SkipChip(c, Least(n, Quiet(c))), clocks |-> Least(n, Quiet(c))]
  ELSE [chip |-> TickChip(c), clocks |-> 1]

\* In bulk up to the clock before the event, or one clock walked
GeneralPass(c, n) ==
  IF Quiet(c) > 1
  THEN [chip |-> SkipChip(c, Least(n, Quiet(c) - 1)), clocks |-> Least(n, Quiet(c) - 1)]
  ELSE [chip |-> TickChip(c), clocks |-> 1]

FirstOf(cascade, general) == IF cascade.clocks # 0 THEN cascade ELSE general

\* One pass of the loop of catch_up over a chip that is n > 0 clocks behind
CatchUpPass(c, n) == FirstOf(CascadeSkip(c, n), GeneralPass(c, n))

\* Mutant of CatchUp: one pass, no loop
CatchUpOnce(c, n) == IF n = 0 THEN c ELSE CatchUpPass(c, n).chip

\* The loop of catch_up goes on until no clock is left
NextPass(run) ==
  IF run.left = 0 THEN run
  ELSE LET pass == CatchUpPass(run.chip, run.left)
       IN  [chip |-> pass.chip, left |-> run.left - pass.clocks]

\* Mos6526::catch_up: every pass applies at least one clock, n passes suffice
CatchUp(c, n) ==
  LET after[i \in 0 .. n] ==
        IF i = 0 THEN [chip |-> c, left |-> n] ELSE NextPass(after[i - 1])
  IN  after[n].chip
=============================================================================
