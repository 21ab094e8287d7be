------------------------------- MODULE Mos6526 --------------------------------
(***************************************************************************)
(* The MOS 6526 (CIA) of cia/mos6526.cpp as operators on a chip record:    *)
(* two timers, the interrupt pipeline, the PB6/PB7 timer outputs, the      *)
(* serial shift counter and the time of day clock.                         *)
(*                                                                         *)
(* Control register bits are named, a register value is a set of names:    *)
(*   Start PBOn Toggle OneShot Load   bits 0 1 2 3 4 of both registers     *)
(*   Cnt                              bit 5: count CNT                     *)
(*   Serial, Tod50                    bits 6 and 7 of CRA                  *)
(*   TimerA, Alarm                    bits 6 and 7 of CRB                  *)
(* Left out as data nothing here depends on: the port latches and their    *)
(* direction registers, the keyboard matrix and the shifted byte.  The     *)
(* time is its tenths and the rest of it (BCD seconds, minutes and hours   *)
(* as one number).                                                         *)
(***************************************************************************)
EXTENDS CiaTimer, FiniteSets

CONSTANTS Period50, Period60,  \* cycles of a tenth of a second, clock_hz_ / (hz * 10)
          SerialSteps,         \* underflows that shift a byte out: 16 in the code
          Tenths, Rests        \* number of values of the tenths and of the rest

ASSUME Mos6526Assumption ==
  /\ Period50 \in Nat \ {0}
  /\ Period60 \in Nat \ {0}
  /\ SerialSteps \in Nat \ {0}
  /\ Tenths \in Nat \ {0}
  /\ Rests \in Nat \ {0, 1}

Sources == {"A", "B", "Alarm", "Serial", "Flag"}
TimerBits == {"Start", "PBOn", "Toggle", "OneShot", "Load", "Cnt"}
CraBits == TimerBits \cup {"Serial", "Tod50"}
CrbBits == TimerBits \cup {"TimerA", "Alarm"}
Pins == {"PB6", "PB7"}
Time == [tenths : 0 .. Tenths - 1, rest : 0 .. Rests - 1]

\* The fields of class Mos6526, ticks_ apart: the clock module keeps the
\* difference between ticks_ and the cycle counter of the bus.
Chip ==
  [ta : Timer, tb : Timer, cra : SUBSET CraBits, crb : SUBSET CrbBits,
   icr : SUBSET Sources, imr : SUBSET Sources,
   intDelay : SUBSET {"Now", "Next"}, intLow : BOOLEAN,
   pulse : [Pins -> 0 .. 2], mode : SUBSET Pins, out : SUBSET Pins,
   toggle : SUBSET Pins,
   cnt : BOOLEAN, cntPrev : BOOLEAN, flag : BOOLEAN,
   serialBits : 0 .. SerialSteps, serialPending : BOOLEAN,
   tod : Time, todLatched : Time, todAlarm : Time, todHalted : BOOLEAN,
   todLatch : BOOLEAN, todAlarmWrite : BOOLEAN,
   todCycles : Nat]

Midnight == [tenths |-> 0, rest |-> 0]

\* Mos6526::reset.  The hours start at 1 and the alarm at 0, an hour the clock
\* never shows.
ResetChip ==
  [ta |-> ResetTimer, tb |-> ResetTimer, cra |-> {}, crb |-> {},
   icr |-> {}, imr |-> {}, intDelay |-> {}, intLow |-> FALSE,
   pulse |-> [p \in Pins |-> 0], mode |-> {}, out |-> {}, toggle |-> {},
   cnt |-> TRUE, cntPrev |-> TRUE, flag |-> TRUE,
   serialBits |-> 0, serialPending |-> FALSE,
   tod |-> [Midnight EXCEPT !.rest = 1],
   todLatched |-> [Midnight EXCEPT !.rest = 1],
   todAlarm |-> Midnight, todHalted |-> TRUE,
   todLatch |-> FALSE, todAlarmWrite |-> FALSE, todCycles |-> 0]

\* What a program can see of a chip.  While the time of day is halted its
\* cycle count means nothing: writing the tenths clears it and starts it.
Shown(c) == IF c.todHalted THEN [c EXCEPT !.todCycles = 0] ELSE c

SetIf(set, element, condition) ==
  IF condition THEN set \cup {element} ELSE set \ {element}

Flip(set, element) ==
  IF element \in set THEN set \ {element} ELSE set \cup {element}

-----------------------------------------------------------------------------
(***************************************************************************)
(* One clock                                                               *)
(***************************************************************************)

\* Mos6526::trigger_interrupt: the event is recorded and, when it is enabled
\* and the line is released, starts down the two stage int_delay_ pipeline.
Trigger(c, source) ==
  [c EXCEPT !.icr = @ \cup {source},
            !.intDelay = IF source \in c.imr /\ ~c.intLow
                         THEN @ \cup {"Now"} ELSE @]

\* A timer drives its pin while PBOn: a pulse of one clock or a toggle.
DrivePin(c, pin, control) ==
  CASE "PBOn" \notin control -> c
    [] "PBOn" \in control /\ "Toggle" \notin control ->
         [c EXCEPT !.out = @ \cup {pin}, !.pulse = [@ EXCEPT ![pin] = 2]]
    [] "PBOn" \in control /\ "Toggle" \in control ->
         [c EXCEPT !.out = Flip(@, pin)]

\* The rising edge of CNT steps the timers that count it
CountCnt(c) ==
  LET rising == c.cnt /\ ~c.cntPrev
  IN  [c EXCEPT
        !.cntPrev = c.cnt,
        !.ta = IF rising /\ "Cnt" \in c.cra THEN StepOnce(@) ELSE @,
        !.tb = IF rising /\ "Cnt" \in c.crb /\ "TimerA" \notin c.crb
               THEN StepOnce(@) ELSE @]

\* The serial register counts the underflows of timer A in output mode
ShiftSerial(c) ==
  LET bits == IF c.serialPending /\ c.serialBits = 0 THEN SerialSteps
              ELSE c.serialBits
      pending == c.serialPending /\ c.serialBits # 0
      shifted == [c EXCEPT !.serialBits = bits - 1, !.serialPending = pending]
  IN  CASE "Serial" \notin c.cra \/ (c.serialBits = 0 /\ ~c.serialPending) -> c
        [] OTHER -> IF bits = 1 THEN Trigger(shifted, "Serial") ELSE shifted

\* Timer A of Mos6526::tick
ClockTimerA(c) ==
  LET ticked == [c EXCEPT !.ta = TickTimer(@)]
      event  == [Trigger(ticked, "A") EXCEPT !.toggle = Flip(@, "PB6")]
  IN  IF Underflows(c.ta) THEN ShiftSerial(DrivePin(event, "PB6", c.cra)) ELSE ticked

\* Timer B of Mos6526::tick
ClockTimerB(c) ==
  LET ticked == [c EXCEPT !.tb = TickTimer(@)]
      event  == [Trigger(ticked, "B") EXCEPT !.toggle = Flip(@, "PB7")]
  IN  IF Underflows(c.tb) THEN DrivePin(event, "PB7", c.crb) ELSE ticked

\* Timer A feeds timer B in the cascade modes, the step lands one clock later
FeedTimerB(c, underflowA) ==
  IF underflowA /\ "TimerA" \in c.crb /\ ("Cnt" \in c.crb => c.cnt)
  THEN [c EXCEPT !.tb = StepOnce(@)]
  ELSE c

\* Mutant of EndPulses: the pin released one clock early
EndPulsesEarly(c) ==
  [c EXCEPT !.pulse = [p \in Pins |-> IF @[p] = 0 THEN 0 ELSE @[p] - 1],
            !.out   = @ \ {p \in Pins : c.pulse[p] = 2}]

\* The PB6/PB7 pulses run down
EndPulses(c) ==
  [c EXCEPT !.pulse = [p \in Pins |-> IF @[p] = 0 THEN 0 ELSE @[p] - 1],
            !.out   = @ \ {p \in Pins : c.pulse[p] = 1}]

\* Mutant of DelayInterrupt: the first stage does not move on
DelayInterruptStuck(c) ==
  [c EXCEPT !.intLow = @ \/ "Next" \in c.intDelay, !.intDelay = @ \cap {"Now"}]

\* The line goes low one clock after the event: int_delay_ moves up one bit
DelayInterrupt(c) ==
  [c EXCEPT !.intLow   = @ \/ "Next" \in c.intDelay,
            !.intDelay = IF "Now" \in @ THEN {"Next"} ELSE {}]

TodPeriod(c) == IF "Tod50" \in c.cra THEN Period50 ELSE Period60

\* Mutant of NextTenth: the tenths count one value too many
NextTenthLate(time) ==
  IF time.tenths < Tenths
  THEN [time EXCEPT !.tenths = @ + 1]
  ELSE [tenths |-> 0, rest |-> IF time.rest + 1 < Rests THEN time.rest + 1 ELSE 1]

\* The next tenth.  The last hour is followed by hour 1.
NextTenth(time) ==
  IF time.tenths + 1 < Tenths
  THEN [time EXCEPT !.tenths = @ + 1]
  ELSE [tenths |-> 0, rest |-> IF time.rest + 1 < Rests THEN time.rest + 1 ELSE 1]

\* Mos6526::tod_tick
TodTick(c) ==
  LET moved == [c EXCEPT !.tod = NextTenth(@)]
  IN  CASE c.todHalted -> c
        [] ~c.todHalted /\ moved.tod = c.todAlarm -> Trigger(moved, "Alarm")
        [] ~c.todHalted /\ moved.tod # c.todAlarm -> moved

ClockTod(c) ==
  IF c.todCycles + 1 >= TodPeriod(c)
  THEN TodTick([c EXCEPT !.todCycles = 0])
  ELSE [c EXCEPT !.todCycles = @ + 1]

\* Mos6526::tick
TickChip(c) ==
  LET counted == CountCnt(c)
      timers  == FeedTimerB(ClockTimerB(ClockTimerA(counted)), Underflows(counted.ta))
  IN  ClockTod(DelayInterrupt(EndPulses(timers)))

-----------------------------------------------------------------------------
(***************************************************************************)
(* Register accesses of a chip that is caught up                           *)
(***************************************************************************)

\* Mutant of ReadIcr: an interrupt on its way survives the read
ReadIcrLate(c) == [c EXCEPT !.icr = {}, !.intLow = FALSE]

\* Reading the ICR returns and clears the events and releases the line
ReadIcr(c) == [c EXCEPT !.icr = {}, !.intLow = FALSE, !.intDelay = {}]

\* Reading the hours freezes the time that is read, the tenths release it
ReadTodHours(c) ==
  IF c.todLatch THEN c ELSE [c EXCEPT !.todLatch = TRUE, !.todLatched = c.tod]

ReadTodTenths(c) == [c EXCEPT !.todLatch = FALSE]

\* Mos6526::io_read; every other register reads without a side effect
ReadEffect(c, reg) ==
  CASE reg = "ICR"       -> ReadIcr(c)
    [] reg = "TodHours"  -> ReadTodHours(c)
    [] reg = "TodTenths" -> ReadTodTenths(c)
    [] OTHER             -> c

\* CRB bit 7 selects the clock or the alarm.  Writing the hours stops the
\* clock, writing the tenths starts it with a whole tenth to go.
WriteTodTenths(c, v) ==
  IF c.todAlarmWrite THEN [c EXCEPT !.todAlarm.tenths = v]
  ELSE [c EXCEPT !.tod.tenths = v, !.todHalted = FALSE, !.todCycles = 0]

WriteTodRest(c, v) ==
  IF c.todAlarmWrite THEN [c EXCEPT !.todAlarm.rest = v] ELSE [c EXCEPT !.tod.rest = v]

WriteTodHours(c, v) ==
  [WriteTodRest(c, v) EXCEPT !.todHalted = @ \/ ~c.todAlarmWrite]

\* Mutant of WriteImr: an event that is already pending is not delivered
WriteImrSilent(c, set, sources) ==
  [c EXCEPT !.imr = IF set THEN @ \cup sources ELSE @ \ sources]

\* Bit 7 of the value sets or clears the other bits.  A pending event that
\* becomes enabled delivers its interrupt.
WriteImr(c, set, sources) ==
  LET imr == IF set THEN c.imr \cup sources ELSE c.imr \ sources
  IN  [c EXCEPT !.imr = imr,
                !.intDelay = IF imr \cap c.icr # {} /\ ~c.intLow
                             THEN @ \cup {"Now"} ELSE @]

\* The PB6/PB7 part of a control register write.  In pulse mode both registers
\* look at the pulse of PB7 (pb7_pulse_).
SelectPin(c, pin, v, old) ==
  LET toggle == IF "Start" \in v /\ "Start" \notin old THEN c.toggle \cup {pin}
                ELSE c.toggle
      high   == IF "Toggle" \in v THEN pin \in toggle ELSE c.pulse["PB7"] # 0
  IN  [c EXCEPT !.toggle = toggle,
                !.mode = SetIf(@, pin, "PBOn" \in v),
                !.out  = IF "PBOn" \in v THEN SetIf(@, pin, high) ELSE @]

\* $0e.  The force load strobe reads back as 0.
WriteCra(c, v) ==
  [SelectPin(c, "PB6", v, c.cra) EXCEPT
     !.ta  = SetControl(@, "Start" \in v, "OneShot" \in v, "Load" \in v, "Cnt" \in v),
     !.cra = v \ {"Load"}]

\* $0f.  Both cascade modes take timer B off phi2.
WriteCrb(c, v) ==
  [SelectPin(c, "PB7", v, c.crb) EXCEPT
     !.tb  = SetControl(@, "Start" \in v, "OneShot" \in v, "Load" \in v,
                        {"Cnt", "TimerA"} \cap v # {}),
     !.todAlarmWrite = "Alarm" \in v,
     !.crb = v \ {"Load"}]

\* Mos6526::io_write.  The ports are data that is not modelled.
WriteEffect(c, reg, v) ==
  CASE reg = "Port"      -> c
    [] reg = "TALo"      -> [c EXCEPT !.ta = SetLatchLo(@, v)]
    [] reg = "TAHi"      -> [c EXCEPT !.ta = SetLatchHi(@, v)]
    [] reg = "TBLo"      -> [c EXCEPT !.tb = SetLatchLo(@, v)]
    [] reg = "TBHi"      -> [c EXCEPT !.tb = SetLatchHi(@, v)]
    [] reg = "TodTenths" -> WriteTodTenths(c, v)
    [] reg = "TodRest"   -> WriteTodRest(c, v)
    [] reg = "TodHours"  -> WriteTodHours(c, v)
    [] reg = "SDR"       -> [c EXCEPT !.serialPending = @ \/ "Serial" \in c.cra]
    [] reg = "SetIMR"    -> WriteImr(c, TRUE, v)
    [] reg = "ClearIMR"  -> WriteImr(c, FALSE, v)
    [] reg = "CRA"       -> WriteCra(c, v)
    [] reg = "CRB"       -> WriteCrb(c, v)

\* set_cnt and set_flag: FLAG interrupts on its falling edge
SetCnt(c, high) == [c EXCEPT !.cnt = high]

SetFlag(c, high) ==
  [(IF c.flag /\ ~high THEN Trigger(c, "Flag") ELSE c) EXCEPT !.flag = high]

-----------------------------------------------------------------------------
(***************************************************************************)
(* Being left alone                                                        *)
(***************************************************************************)

\* Mutant of InFlight: an interrupt on its way to the line left alone
InFlightNoInterrupt(c) ==
  (\E p \in Pins : c.pulse[p] # 0) \/ c.cnt # c.cntPrev \/ c.serialPending \/ c.serialBits # 0

\* A pipeline stage in flight, which must be walked clock by clock
InFlight(c) ==
  \/ c.intDelay # {} \/ \E p \in Pins : c.pulse[p] # 0
  \/ c.cnt # c.cntPrev
  \/ c.serialPending \/ c.serialBits # 0

Least(m, n) == IF m < n THEN m ELSE n

\* Mos6526::generic_quiet
GenericQuiet(c) ==
  IF InFlight(c) THEN 0 ELSE Least(QuietClocks(c.ta), QuietClocks(c.tb))

\* Mutant of TodLeft: one clock more
TodLeftOneMore(c) ==
  IF TodPeriod(c) > c.todCycles THEN TodPeriod(c) - c.todCycles + 1 ELSE 1

\* tod_left: clocks to the tick of the time of day
TodLeft(c) == IF TodPeriod(c) > c.todCycles THEN TodPeriod(c) - c.todCycles ELSE 1

\* Mos6526::tod_bound
TodBound(c, quiet) == Least(TodLeft(c), quiet)

\* Mos6526::skip
SkipChip(c, n) ==
  [c EXCEPT !.ta = SkipTimer(@, n), !.tb = SkipTimer(@, n), !.todCycles = @ + n]

\* Clocks from one underflow of timer A to the next
Period(c) == c.ta.latch + 1

OneShots(t) == t.state \cap {"CrOneShot", "OneShot0", "OneShot"}

\* Mos6526::cascade_shape: timer A prescales timer B and does nothing else
CascadeShape(c) ==
  /\ FreeRunning(c.ta.state) /\ OneShots(c.ta) = {}
  /\ "A" \notin c.imr
  /\ {"Serial", "PBOn"} \cap c.cra = {}
  /\ "TimerA" \in c.crb /\ "PBOn" \notin c.crb
  /\ "Cnt" \in c.crb => c.cnt
  /\ "CrStart" \in c.tb.state /\ OneShots(c.tb) = {}

Cascading(c) == Period(c) >= 3 /\ c.tb.counter >= 3 /\ CascadeShape(c)

\* Mutant of CascadeQuiet: the periods counted as if the underflow came last
CascadeQuietTooLong(c) == IF Cascading(c) THEN (c.tb.counter + 1) * Period(c) ELSE 0

\* Mos6526::cascade_quiet
CascadeQuiet(c) == IF Cascading(c) THEN (c.tb.counter - 2) * Period(c) ELSE 0

\* Mos6526::cycles_to_event
CyclesToEvent(c) ==
  LET cascade == CascadeQuiet(c)
      quiet   == IF cascade # 0 THEN cascade ELSE GenericQuiet(c)
  IN  IF InFlight(c) \/ quiet = 0 THEN 1 ELSE TodBound(c, quiet)
=============================================================================
