------------------------------- MODULE CiaProofs ------------------------------
(***************************************************************************)
(* The CIA, for every program, latch width and tenth of a second.          *)
(*                                                                         *)
(* Part one: one timer and one chip. Every operation of Mos6526 keeps the  *)
(* chip well formed, and a clock of a chip that may be left alone is a     *)
(* clock of Mos6526::skip.                                                 *)
(*                                                                         *)
(* Part two: the interrupts of a chip that is clocked in every cycle. No   *)
(* enabled event is forgotten and the line is never low without one. Both  *)
(* facts together are inductive, operation by operation.                   *)
(*                                                                         *)
(* Part three: a scheduled chip and one clocked in every cycle never       *)
(* differ, whatever a program without a cascade does. The invariant: since *)
(* it was last caught up nothing but the counters of the chip would have   *)
(* moved (OnlyCountersMoved), and the schedule ends before anything else   *)
(* does (InTime).                                                          *)
(*                                                                         *)
(* Part four: the scheduled chip implements the one clocked in every cycle *)
(* (CiaRefinement), as long as no cascade is selected.                     *)
(***************************************************************************)
EXTENDS CiaEveryCycle, CiaTwin, CiaRefinement, WellFoundedInduction, TLAPS

----------------------------------------------------------------------------
(* One timer.                                                               *)

\* A flag set that next() leaves alone holds no stage that lasts one clock:
\* a settled timer is not loading, not giving an output and not force loaded.
LEMMA SettledHasNoStage ==
  ASSUME NEW s \in SUBSET Flags, Settled(s)
  PROVE  s \cap {"Step", "CrFLoad", "Load1", "Load", "Out"} = {}
<1>1. "Step" \notin s /\ "CrFLoad" \notin s /\ "Out" \notin s
  BY DEF Settled, NextState, FlagIf
<1>2. "Load1" \notin s
  BY <1>1 DEF Settled, NextState, FlagIf
<1>3. "Load" \notin s
  BY <1>2 DEF Settled, NextState, FlagIf
<1> QED
  BY <1>1, <1>2, <1>3

\* The 16 bits of a latch: the greatest count is a number.
LEMMA MaxCountIsNat == MaxCount \in Nat
<1>1. ByteSize \in Nat /\ ByteSize >= 1
  BY CiaTimerAssumption
<1>2. ByteSize * ByteSize >= 1
  BY <1>1
<1> QED
  BY <1>1, <1>2 DEF MaxCount

\* One clock of a timer that may be left alone for more than one is one clock
\* of Timer::skip: no underflow, no flag moves, at most the counter counts.
LEMMA QuietClockIsSkip ==
  ASSUME NEW t \in Timer, QuietClocks(t) > 1
  PROVE  /\ ~Underflows(t)
         /\ TickTimer(t) = SkipTimer(t, 1)
<1>1. t.state \in SUBSET Flags /\ t.counter \in 0 .. MaxCount /\ t.latch \in 0 .. MaxCount
  BY DEF Timer
<1>2. Settled(t.state)
  BY DEF QuietClocks
<1>3. t.state \cap {"Step", "CrFLoad", "Load1", "Load", "Out"} = {}
  BY <1>1, <1>2, SettledHasNoStage
<1>4. NextState(t.state) = t.state
  BY <1>2 DEF Settled
<1>5. CASE ~Counting(t.state)
  <2>1. ~Underflows(t) /\ Counted(t) = t.counter
    BY <1>4, <1>5 DEF Underflows, Counted, Counting
  <2>2. TickTimer(t) = [t EXCEPT !.state = t.state, !.counter = t.counter]
    BY <1>3, <1>4, <2>1 DEF TickTimer, Moved, Loaded, Stopped
  <2> QED
    BY <1>5, <2>1, <2>2 DEF SkipTimer, Timer
<1>6. CASE Counting(t.state)
  <2>1. t.counter > 1
    BY <1>1, <1>2, <1>6 DEF QuietClocks
  <2>2. ~Underflows(t) /\ Counted(t) = t.counter - 1
    BY <1>1, <1>6, <2>1 DEF Underflows, Counted, Counting
  <2>3. TickTimer(t) = [t EXCEPT !.state = t.state, !.counter = t.counter - 1]
    BY <1>3, <1>4, <2>2 DEF TickTimer, Moved, Loaded, Stopped
  <2> QED
    BY <1>6, <2>2, <2>3 DEF SkipTimer, Timer
<1> QED
  BY <1>5, <1>6

\* The clocks a timer may be left alone run down one by one as it is skipped.
LEMMA QuietRunsDown ==
  ASSUME NEW t \in Timer, NEW n \in Nat, n < QuietClocks(t)
  PROVE  /\ SkipTimer(t, n) \in Timer
         /\ \/ Counting(t.state) /\ QuietClocks(SkipTimer(t, n)) = QuietClocks(t) - n
            \/ ~Counting(t.state) /\ QuietClocks(SkipTimer(t, n)) = Forever
         /\ SkipTimer(SkipTimer(t, n), 1) = SkipTimer(t, n + 1)
<1>1. t.state \in SUBSET Flags /\ t.counter \in 0 .. MaxCount /\ t.latch \in 0 .. MaxCount
  BY DEF Timer
<1>2. Settled(t.state)
  BY DEF QuietClocks
<1>3. CASE ~Counting(t.state)
  BY <1>2, <1>3 DEF SkipTimer, QuietClocks
<1>4. CASE Counting(t.state)
  <2>1. SkipTimer(t, n) = [t EXCEPT !.counter = t.counter - n]
    BY <1>4 DEF SkipTimer
  <2>2. n < (IF t.counter = 0 THEN 1 ELSE t.counter) /\ ~Staged(t.state) /\ FreeRunning(t.state)
    BY <1>1, <1>2, <1>4 DEF QuietClocks
  <2>3. t.counter - n \in 0 .. MaxCount
    BY <1>1, <2>2, MaxCountIsNat
  <2>4. /\ SkipTimer(t, n) \in Timer
        /\ SkipTimer(t, n).state = t.state
        /\ SkipTimer(t, n).counter = t.counter - n
    BY <2>1, <2>3 DEF Timer
  <2>5. QuietClocks(SkipTimer(t, n)) = QuietClocks(t) - n
    BY <1>1, <1>2, <1>4, <2>2, <2>4 DEF QuietClocks
  <2>6. SkipTimer(SkipTimer(t, n), 1) = SkipTimer(t, n + 1)
    <3>1. (t.counter - n) - 1 = t.counter - (n + 1)
      BY <1>1, MaxCountIsNat
    <3>2. SkipTimer(SkipTimer(t, n), 1) = [SkipTimer(t, n) EXCEPT !.counter = (t.counter - n) - 1]
      BY <1>4, <2>4 DEF SkipTimer
    <3>3. SkipTimer(t, n + 1) = [t EXCEPT !.counter = t.counter - (n + 1)]
      BY <1>4 DEF SkipTimer
    <3> QED
      BY <2>1, <3>1, <3>2, <3>3
  <2> QED
    BY <1>4, <2>4, <2>5, <2>6
<1> QED
  BY <1>3, <1>4

-----------------------------------------------------------------------------
\* Replacing the low byte of a 16 bit value, and composing one from two bytes,
\* stays in 16 bits.
LEMMA BytesStayInWord ==
  ASSUME NEW n \in 0 .. MaxCount, NEW byte \in 0 .. ByteSize - 1
  PROVE  /\ n - (n % ByteSize) + byte \in 0 .. MaxCount
         /\ (n % ByteSize) + byte * ByteSize \in 0 .. MaxCount
<1>1. ByteSize \in Nat /\ ByteSize >= 1 /\ n \in Nat /\ byte \in Nat
  BY CiaTimerAssumption, MaxCountIsNat
<1> DEFINE low == n % ByteSize
           high == n \div ByteSize
<1>2. low \in 0 .. ByteSize - 1 /\ high \in Nat /\ n = ByteSize * high + low
  BY <1>1
<1>3. n <= ByteSize * ByteSize - 1
  BY <1>1, MaxCountIsNat DEF MaxCount
<1> HIDE DEF low, high
<1>4. \A k \in Nat : k < ByteSize => ByteSize * k <= ByteSize * (ByteSize - 1)
  BY <1>1
<1>5. ByteSize * (ByteSize - 1) = ByteSize * ByteSize - ByteSize
  BY <1>1
<1>6. high < ByteSize
  <2>1. SUFFICES ASSUME high >= ByteSize PROVE FALSE
    BY <1>1, <1>2
  <2>2. ByteSize * high >= ByteSize * ByteSize
    BY <1>1, <1>2, <2>1
  <2> QED
    BY <1>1, <1>2, <1>3, <2>2
<1>7. /\ ByteSize * high \in Nat /\ ByteSize * high <= ByteSize * ByteSize - ByteSize
      /\ byte * ByteSize \in Nat /\ byte * ByteSize <= ByteSize * ByteSize - ByteSize
  BY <1>1, <1>2, <1>4, <1>5, <1>6
<1>8. /\ n - low + byte \in 0 .. MaxCount
      /\ low + byte * ByteSize \in 0 .. MaxCount
  BY <1>1, <1>2, <1>7, MaxCountIsNat DEF MaxCount
<1> QED
  BY <1>8 DEF low

\* Flags only come from the flag set, so no operation leaves the type.
LEMMA TimerOperationsAreTyped ==
  ASSUME NEW t \in Timer
  PROVE  /\ TickTimer(t) \in Timer
         /\ StepOnce(t) \in Timer
         /\ \A start, oneShot, load, external \in BOOLEAN :
              SetControl(t, start, oneShot, load, external) \in Timer
         /\ \A byte \in 0 .. ByteSize - 1 :
              SetLatchLo(t, byte) \in Timer /\ SetLatchHi(t, byte) \in Timer
<1>1. t.state \in SUBSET Flags /\ t.counter \in 0 .. MaxCount /\ t.latch \in 0 .. MaxCount
  BY DEF Timer
<1>2. TickTimer(t) \in Timer
  <2>1. Counted(t) \in 0 .. MaxCount
    BY <1>1, MaxCountIsNat DEF Counted
  <2>2. NextState(t.state) \in SUBSET Flags
    BY <1>1 DEF NextState, FlagIf, Flags
  <2>3. \A s \in SUBSET Flags, c \in 0 .. MaxCount :
          [t EXCEPT !.state = s, !.counter = c] \in Timer
    BY DEF Timer
  <2>4. NextState(t.state) \cup {"Load", "Out"} \in SUBSET Flags
    BY <2>2 DEF Flags
  <2> DEFINE final == Stopped(Loaded(Moved(t)))
             count == IF "Load" \in Moved(t) THEN t.latch ELSE Counted(t)
  <2>5. final \in SUBSET Flags
    BY <2>2, <2>4 DEF Moved, Loaded, Stopped
  <2>6. count \in 0 .. MaxCount
    BY <1>1, <2>1
  <2>7. TickTimer(t) = [t EXCEPT !.state = final, !.counter = count]
    BY DEF TickTimer
  <2> HIDE DEF final, count
  <2> QED
    BY <2>3, <2>5, <2>6, <2>7
<1>3. StepOnce(t) \in Timer
  BY <1>1 DEF StepOnce, Timer, Flags
<1>4. ASSUME NEW start \in BOOLEAN, NEW oneShot \in BOOLEAN, NEW load \in BOOLEAN,
             NEW external \in BOOLEAN
      PROVE  SetControl(t, start, oneShot, load, external) \in Timer
  BY <1>1 DEF SetControl, FlagIf, Timer, Flags
<1>5. ASSUME NEW byte \in 0 .. ByteSize - 1
      PROVE  SetLatchLo(t, byte) \in Timer /\ SetLatchHi(t, byte) \in Timer
  <2>1. /\ t.latch - (t.latch % ByteSize) + byte \in 0 .. MaxCount
        /\ t.counter - (t.counter % ByteSize) + byte \in 0 .. MaxCount
        /\ (t.latch % ByteSize) + byte * ByteSize \in 0 .. MaxCount
    BY <1>1, BytesStayInWord
  <2>2. \A latch, count \in 0 .. MaxCount :
          [t EXCEPT !.latch = latch, !.counter = count] \in Timer
    BY DEF Timer
  <2> DEFINE newLatch == t.latch - (t.latch % ByteSize) + byte
             whole == (t.latch % ByteSize) + byte * ByteSize
             loCount == IF "Load" \in t.state
                        THEN t.counter - (t.counter % ByteSize) + byte ELSE t.counter
             hiCount == IF "Load" \in t.state \/ "CrStart" \notin t.state
                        THEN whole ELSE t.counter
  <2>3. newLatch \in 0 .. MaxCount /\ whole \in 0 .. MaxCount
        /\ loCount \in 0 .. MaxCount /\ hiCount \in 0 .. MaxCount
    BY <1>1, <2>1
  <2>4. /\ SetLatchLo(t, byte) = [t EXCEPT !.latch = newLatch, !.counter = loCount]
        /\ SetLatchHi(t, byte) = [t EXCEPT !.latch = whole, !.counter = hiCount]
    BY DEF SetLatchLo, SetLatchHi
  <2> HIDE DEF newLatch, whole, loCount, hiCount
  <2> QED
    BY <2>2, <2>3, <2>4
<1> QED
  BY <1>2, <1>3, <1>4, <1>5

----------------------------------------------------------------------------
(* One chip.                                                                *)

LEMMA TriggerIsTyped ==
  ASSUME NEW c \in Chip, NEW source \in Sources
  PROVE  /\ Trigger(c, source) \in Chip
         /\ Trigger(c, source).ta = c.ta /\ Trigger(c, source).tb = c.tb
         /\ Trigger(c, source).crb = c.crb
  BY DEF Trigger, Chip

LEMMA DrivePinIsTyped ==
  ASSUME NEW c \in Chip, NEW pin \in Pins, NEW control
  PROVE  /\ DrivePin(c, pin, control) \in Chip
         /\ DrivePin(c, pin, control).crb = c.crb
<1>1. CASE "PBOn" \notin control
  BY <1>1 DEF DrivePin
<1>2. CASE "PBOn" \in control /\ "Toggle" \notin control
  <2>1. c.pulse \in [Pins -> 0 .. 2] /\ c.out \in SUBSET Pins
    BY DEF Chip
  <2>2. [c.pulse EXCEPT ![pin] = 2] \in [Pins -> 0 .. 2] /\ c.out \cup {pin} \in SUBSET Pins
    BY <2>1
  <2> DEFINE out == c.out \cup {pin}
             pulse == [c.pulse EXCEPT ![pin] = 2]
  <2>3. DrivePin(c, pin, control) = [c EXCEPT !.out = out, !.pulse = pulse]
    BY <1>2 DEF DrivePin
  <2> HIDE DEF out, pulse
  <2> QED
    BY <2>2, <2>3 DEF Chip, out, pulse
<1>3. CASE "PBOn" \in control /\ "Toggle" \in control
  BY <1>3 DEF DrivePin, Chip, Flip
<1> QED
  BY <1>1, <1>2, <1>3

LEMMA CountCntIsTyped ==
  ASSUME NEW c \in Chip
  PROVE  CountCnt(c) \in Chip /\ CountCnt(c).crb = c.crb
<1>1. c.ta \in Timer /\ c.tb \in Timer /\ StepOnce(c.ta) \in Timer /\ StepOnce(c.tb) \in Timer
  BY TimerOperationsAreTyped DEF Chip
<1> DEFINE rising == c.cnt /\ ~c.cntPrev
           ta == IF rising /\ "Cnt" \in c.cra THEN StepOnce(c.ta) ELSE c.ta
           tb == IF rising /\ "Cnt" \in c.crb /\ "TimerA" \notin c.crb
                 THEN StepOnce(c.tb) ELSE c.tb
<1>2. CountCnt(c) = [c EXCEPT !.cntPrev = c.cnt, !.ta = ta, !.tb = tb]
  BY DEF CountCnt
<1>3. ta \in Timer /\ tb \in Timer
  BY <1>1
<1> HIDE DEF ta, tb
<1> QED
  BY <1>2, <1>3 DEF Chip

LEMMA ShiftSerialIsTyped ==
  ASSUME NEW c \in Chip
  PROVE  ShiftSerial(c) \in Chip /\ ShiftSerial(c).crb = c.crb
<1> DEFINE bits == IF c.serialPending /\ c.serialBits = 0 THEN SerialSteps ELSE c.serialBits
           pending == c.serialPending /\ c.serialBits # 0
           shifted == [c EXCEPT !.serialBits = bits - 1, !.serialPending = pending]
<1>1. CASE "Serial" \notin c.cra \/ (c.serialBits = 0 /\ ~c.serialPending)
  BY <1>1 DEF ShiftSerial
<1>2. CASE ~("Serial" \notin c.cra \/ (c.serialBits = 0 /\ ~c.serialPending))
  <2>1. c.serialBits \in 0 .. SerialSteps /\ c.serialPending \in BOOLEAN
    BY DEF Chip
  <2>2. bits - 1 \in 0 .. SerialSteps /\ pending \in BOOLEAN
    BY <1>2, <2>1, Mos6526Assumption
  <2>3. \A n \in 0 .. SerialSteps, b \in BOOLEAN :
          /\ [c EXCEPT !.serialBits = n, !.serialPending = b] \in Chip
          /\ [c EXCEPT !.serialBits = n, !.serialPending = b].crb = c.crb
    BY DEF Chip
  <2>4. shifted \in Chip /\ shifted.crb = c.crb
    BY <2>2, <2>3
  <2> HIDE DEF shifted
  <2>5. Trigger(shifted, "Serial") \in Chip /\ Trigger(shifted, "Serial").crb = c.crb
    BY <2>4, TriggerIsTyped DEF Sources
  <2>6. ShiftSerial(c) = IF bits = 1 THEN Trigger(shifted, "Serial") ELSE shifted
    BY <1>2 DEF ShiftSerial, shifted
  <2> HIDE DEF bits
  <2> QED
    BY <2>4, <2>5, <2>6
<1> QED
  BY <1>1, <1>2

\* An event of a timer: the interrupt, the flip of its toggle, its pin
LEMMA TimerEventIsTyped ==
  ASSUME NEW c \in Chip, NEW source \in Sources, NEW pin \in Pins, NEW control
  PROVE  LET event == [Trigger(c, source) EXCEPT !.toggle = Flip(@, pin)]
         IN  /\ DrivePin(event, pin, control) \in Chip
             /\ DrivePin(event, pin, control).crb = c.crb
<1> DEFINE event == [Trigger(c, source) EXCEPT !.toggle = Flip(@, pin)]
<1>1. Trigger(c, source) \in Chip /\ Trigger(c, source).crb = c.crb
  BY TriggerIsTyped
<1>2. \A d \in Chip : /\ [d EXCEPT !.toggle = Flip(@, pin)] \in Chip
                      /\ [d EXCEPT !.toggle = Flip(@, pin)].crb = d.crb
  BY DEF Chip, Flip
<1>3. event \in Chip /\ event.crb = c.crb
  BY <1>1, <1>2
<1> HIDE DEF event
<1>4. DrivePin(event, pin, control) \in Chip /\ DrivePin(event, pin, control).crb = c.crb
  BY <1>3, DrivePinIsTyped
<1> QED
  BY <1>4 DEF event

LEMMA ClockTimersIsTyped ==
  ASSUME NEW c \in Chip
  PROVE  /\ ClockTimerA(c) \in Chip /\ ClockTimerA(c).crb = c.crb
         /\ ClockTimerB(c) \in Chip /\ ClockTimerB(c).crb = c.crb
<1> DEFINE tickedA == [c EXCEPT !.ta = TickTimer(@)]
           tickedB == [c EXCEPT !.tb = TickTimer(@)]
           eventA == [Trigger(tickedA, "A") EXCEPT !.toggle = Flip(@, "PB6")]
           eventB == [Trigger(tickedB, "B") EXCEPT !.toggle = Flip(@, "PB7")]
<1>1. TickTimer(c.ta) \in Timer /\ TickTimer(c.tb) \in Timer
  BY TimerOperationsAreTyped DEF Chip
<1>2. \A t \in Timer : /\ [c EXCEPT !.ta = t] \in Chip /\ [c EXCEPT !.ta = t].crb = c.crb
                       /\ [c EXCEPT !.tb = t] \in Chip /\ [c EXCEPT !.tb = t].crb = c.crb
  BY DEF Chip
<1>3. /\ tickedA \in Chip /\ tickedA.crb = c.crb
      /\ tickedB \in Chip /\ tickedB.crb = c.crb
  BY <1>1, <1>2
<1> HIDE DEF tickedA, tickedB
<1>4. /\ "A" \in Sources /\ "B" \in Sources /\ "PB6" \in Pins /\ "PB7" \in Pins
  BY DEF Sources, Pins
<1>5. /\ DrivePin(eventA, "PB6", c.cra) \in Chip /\ DrivePin(eventA, "PB6", c.cra).crb = c.crb
      /\ DrivePin(eventB, "PB7", c.crb) \in Chip /\ DrivePin(eventB, "PB7", c.crb).crb = c.crb
  BY <1>3, <1>4, TimerEventIsTyped
<1>6. /\ ClockTimerA(c) = IF Underflows(c.ta)
                          THEN ShiftSerial(DrivePin(eventA, "PB6", c.cra)) ELSE tickedA
      /\ ClockTimerB(c) = IF Underflows(c.tb)
                          THEN DrivePin(eventB, "PB7", c.crb) ELSE tickedB
  BY DEF ClockTimerA, ClockTimerB, tickedA, tickedB
<1> HIDE DEF eventA, eventB
<1> QED
  BY <1>3, <1>5, <1>6, ShiftSerialIsTyped

LEMMA FeedTimerBIsTyped ==
  ASSUME NEW c \in Chip, NEW underflowA \in BOOLEAN
  PROVE  FeedTimerB(c, underflowA) \in Chip /\ FeedTimerB(c, underflowA).crb = c.crb
<1>1. StepOnce(c.tb) \in Timer
  BY TimerOperationsAreTyped DEF Chip
<1> DEFINE tb == StepOnce(c.tb)
<1>2. FeedTimerB(c, underflowA) = c \/ FeedTimerB(c, underflowA) = [c EXCEPT !.tb = tb]
  BY DEF FeedTimerB
<1> HIDE DEF tb
<1> QED
  BY <1>1, <1>2 DEF Chip, tb

LEMMA EndPulsesIsTyped ==
  ASSUME NEW c \in Chip
  PROVE  EndPulses(c) \in Chip /\ EndPulses(c).crb = c.crb
<1> DEFINE pulse == [p \in Pins |-> IF c.pulse[p] = 0 THEN 0 ELSE c.pulse[p] - 1]
           out == c.out \ {p \in Pins : c.pulse[p] = 1}
<1>1. c.pulse \in [Pins -> 0 .. 2] /\ c.out \in SUBSET Pins
  BY DEF Chip
<1>2. pulse \in [Pins -> 0 .. 2]
  <2>1. \A n \in 0 .. 2 : (IF n = 0 THEN 0 ELSE n - 1) \in 0 .. 2
    OBVIOUS
  <2> QED
    BY <1>1, <2>1
<1>3. out \in SUBSET Pins
  BY <1>1
<1>4. EndPulses(c) = [c EXCEPT !.pulse = pulse, !.out = out]
  BY DEF EndPulses
<1> HIDE DEF pulse, out
<1> QED
  BY <1>2, <1>3, <1>4 DEF Chip

LEMMA DelayInterruptIsTyped ==
  ASSUME NEW c \in Chip
  PROVE  DelayInterrupt(c) \in Chip /\ DelayInterrupt(c).crb = c.crb
<1> DEFINE low == c.intLow \/ "Next" \in c.intDelay
           delay == IF "Now" \in c.intDelay THEN {"Next"} ELSE {}
<1>1. low \in BOOLEAN /\ delay \in SUBSET {"Now", "Next"}
  BY DEF Chip
<1>2. DelayInterrupt(c) = [c EXCEPT !.intLow = low, !.intDelay = delay]
  BY DEF DelayInterrupt
<1> HIDE DEF low, delay
<1> QED
  BY <1>1, <1>2 DEF Chip

LEMMA NextTenthIsTyped ==
  ASSUME NEW time \in Time
  PROVE  NextTenth(time) \in Time
<1>1. time.tenths \in 0 .. Tenths - 1 /\ time.rest \in 0 .. Rests - 1
  BY DEF Time
<1>2. CASE time.tenths + 1 < Tenths
  <2>1. time.tenths + 1 \in 0 .. Tenths - 1
    BY <1>1, <1>2, Mos6526Assumption
  <2> QED
    BY <1>2, <2>1 DEF NextTenth, Time
<1>3. CASE ~(time.tenths + 1 < Tenths)
  <2> DEFINE rest == IF time.rest + 1 < Rests THEN time.rest + 1 ELSE 1
  <2>1. rest \in 0 .. Rests - 1 /\ 0 \in 0 .. Tenths - 1
    BY <1>1, Mos6526Assumption
  <2>2. NextTenth(time) = [tenths |-> 0, rest |-> rest]
    BY <1>3 DEF NextTenth
  <2> HIDE DEF rest
  <2> QED
    BY <2>1, <2>2 DEF Time
<1> QED
  BY <1>2, <1>3

LEMMA ClockTodIsTyped ==
  ASSUME NEW c \in Chip
  PROVE  ClockTod(c) \in Chip /\ ClockTod(c).crb = c.crb
<1>1. c.todCycles \in Nat /\ c.todCycles + 1 \in Nat /\ 0 \in Nat
  BY DEF Chip
<1>2. \A n \in Nat : [c EXCEPT !.todCycles = n] \in Chip /\ [c EXCEPT !.todCycles = n].crb = c.crb
  BY DEF Chip
<1>3. ASSUME NEW d \in Chip
      PROVE  TodTick(d) \in Chip /\ TodTick(d).crb = d.crb
  <2> DEFINE moved == [d EXCEPT !.tod = NextTenth(d.tod)]
             next == NextTenth(d.tod)
  <2>1. next \in Time
    BY NextTenthIsTyped DEF Chip
  <2>2. moved \in Chip /\ moved.crb = d.crb
    <3>1. moved = [d EXCEPT !.tod = next]
      OBVIOUS
    <3> HIDE DEF next, moved
    <3> QED
      BY <2>1, <3>1 DEF Chip
  <2>3. \/ TodTick(d) = d
        \/ TodTick(d) = moved
        \/ TodTick(d) = Trigger(moved, "Alarm")
    <3>1. moved.tod = d.todAlarm \/ moved.tod # d.todAlarm
      OBVIOUS
    <3>2. d.todHalted \/ ~d.todHalted
      OBVIOUS
    <3> QED
      BY <3>1, <3>2 DEF TodTick
  <2>4. "Alarm" \in Sources
    BY DEF Sources
  <2> HIDE DEF moved, next
  <2> QED
    BY <2>2, <2>3, <2>4, TriggerIsTyped
<1> DEFINE zero == [c EXCEPT !.todCycles = 0]
           more == [c EXCEPT !.todCycles = c.todCycles + 1]
<1>4. zero \in Chip /\ zero.crb = c.crb /\ more \in Chip /\ more.crb = c.crb
  BY <1>1, <1>2
<1>5. ClockTod(c) = TodTick(zero) \/ ClockTod(c) = more
  BY DEF ClockTod
<1> HIDE DEF zero, more
<1> QED
  BY <1>3, <1>4, <1>5

LEMMA TickChipIsTyped ==
  ASSUME NEW c \in Chip
  PROVE  TickChip(c) \in Chip /\ TickChip(c).crb = c.crb
<1> DEFINE counted == CountCnt(c)
           clockedA == ClockTimerA(counted)
           clockedB == ClockTimerB(clockedA)
           fed == FeedTimerB(clockedB, Underflows(counted.ta))
           ended == EndPulses(fed)
           delayed == DelayInterrupt(ended)
<1>1. counted \in Chip /\ counted.crb = c.crb
  BY CountCntIsTyped
<1>2. clockedA \in Chip /\ clockedA.crb = c.crb
  BY <1>1, ClockTimersIsTyped
<1>3. clockedB \in Chip /\ clockedB.crb = c.crb
  BY <1>2, ClockTimersIsTyped
<1>4. fed \in Chip /\ fed.crb = c.crb
  <2>1. Underflows(counted.ta) \in BOOLEAN
    BY DEF Underflows
  <2> QED
    BY <1>3, <2>1, FeedTimerBIsTyped
<1>5. ended \in Chip /\ ended.crb = c.crb
  BY <1>4, EndPulsesIsTyped
<1>6. delayed \in Chip /\ delayed.crb = c.crb
  BY <1>5, DelayInterruptIsTyped
<1>7. TickChip(c) = ClockTod(delayed)
  BY DEF TickChip
<1> QED
  BY <1>6, <1>7, ClockTodIsTyped

-----------------------------------------------------------------------------
LEMMA ReadEffectIsTyped ==
  ASSUME NEW c \in Chip, NEW reg
  PROVE  ReadEffect(c, reg) \in Chip /\ ReadEffect(c, reg).crb = c.crb
<1>1. ReadIcr(c) \in Chip /\ ReadIcr(c).crb = c.crb
  BY DEF ReadIcr, Chip
<1>2. ReadTodHours(c) \in Chip /\ ReadTodHours(c).crb = c.crb
  BY DEF ReadTodHours, Chip
<1>3. ReadTodTenths(c) \in Chip /\ ReadTodTenths(c).crb = c.crb
  BY DEF ReadTodTenths, Chip
<1> QED
  BY <1>1, <1>2, <1>3 DEF ReadEffect

LEMMA TodWritesAreTyped ==
  ASSUME NEW c \in Chip
  PROVE  /\ \A v \in 0 .. Tenths - 1 :
              WriteTodTenths(c, v) \in Chip /\ WriteTodTenths(c, v).crb = c.crb
         /\ \A v \in 0 .. Rests - 1 :
              /\ WriteTodRest(c, v) \in Chip /\ WriteTodRest(c, v).crb = c.crb
              /\ WriteTodHours(c, v) \in Chip /\ WriteTodHours(c, v).crb = c.crb
<1>1. c.tod \in Time /\ c.todAlarm \in Time
  BY DEF Chip
<1>2. ASSUME NEW v \in 0 .. Tenths - 1
      PROVE  WriteTodTenths(c, v) \in Chip /\ WriteTodTenths(c, v).crb = c.crb
  <2> DEFINE alarm == [c.todAlarm EXCEPT !.tenths = v]
             tod == [c.tod EXCEPT !.tenths = v]
  <2>1. alarm \in Time /\ tod \in Time
    BY <1>1 DEF Time
  <2>2. WriteTodTenths(c, v) =
          IF c.todAlarmWrite THEN [c EXCEPT !.todAlarm = alarm]
          ELSE [c EXCEPT !.tod = tod, !.todHalted = FALSE, !.todCycles = 0]
    BY DEF WriteTodTenths
  <2> HIDE DEF alarm, tod
  <2>3. [c EXCEPT !.todAlarm = alarm] \in Chip
    BY <2>1 DEF Chip
  <2>4. [c EXCEPT !.tod = tod, !.todHalted = FALSE, !.todCycles = 0] \in Chip
    BY <2>1 DEF Chip
  <2>5. WriteTodTenths(c, v).crb = c.crb
    BY <2>2 DEF Chip
  <2> QED
    BY <2>2, <2>3, <2>4, <2>5
<1>3. ASSUME NEW v \in 0 .. Rests - 1
      PROVE  WriteTodRest(c, v) \in Chip /\ WriteTodRest(c, v).crb = c.crb
  <2> DEFINE alarm == [c.todAlarm EXCEPT !.rest = v]
             tod == [c.tod EXCEPT !.rest = v]
  <2>1. alarm \in Time /\ tod \in Time
    BY <1>1 DEF Time
  <2>2. WriteTodRest(c, v) =
          IF c.todAlarmWrite THEN [c EXCEPT !.todAlarm = alarm] ELSE [c EXCEPT !.tod = tod]
    BY DEF WriteTodRest
  <2> HIDE DEF alarm, tod
  <2> QED
    BY <2>1, <2>2 DEF Chip
<1>4. ASSUME NEW v \in 0 .. Rests - 1
      PROVE  WriteTodHours(c, v) \in Chip /\ WriteTodHours(c, v).crb = c.crb
  <2> DEFINE written == WriteTodRest(c, v)
             halted == written.todHalted \/ ~c.todAlarmWrite
  <2>1. written \in Chip /\ written.crb = c.crb
    BY <1>3
  <2>2. halted \in BOOLEAN
    OBVIOUS
  <2>3. WriteTodHours(c, v) = [written EXCEPT !.todHalted = halted]
    BY DEF WriteTodHours
  <2> HIDE DEF written, halted
  <2> QED
    BY <2>1, <2>2, <2>3 DEF Chip
<1> QED
  BY <1>2, <1>3, <1>4

LEMMA WriteImrIsTyped ==
  ASSUME NEW c \in Chip, NEW set \in BOOLEAN, NEW sources \in SUBSET Sources
  PROVE  WriteImr(c, set, sources) \in Chip /\ WriteImr(c, set, sources).crb = c.crb
<1> DEFINE imr == IF set THEN c.imr \cup sources ELSE c.imr \ sources
           delay == IF imr \cap c.icr # {} /\ ~c.intLow
                    THEN c.intDelay \cup {"Now"} ELSE c.intDelay
<1>1. c.imr \in SUBSET Sources /\ c.intDelay \in SUBSET {"Now", "Next"}
  BY DEF Chip
<1>2. imr \in SUBSET Sources /\ delay \in SUBSET {"Now", "Next"}
  BY <1>1
<1>3. WriteImr(c, set, sources) = [c EXCEPT !.imr = imr, !.intDelay = delay]
  BY DEF WriteImr
<1> HIDE DEF imr, delay
<1> QED
  BY <1>2, <1>3 DEF Chip

LEMMA SelectPinIsTyped ==
  ASSUME NEW c \in Chip, NEW pin \in Pins, NEW v, NEW old
  PROVE  /\ SelectPin(c, pin, v, old) \in Chip
         /\ SelectPin(c, pin, v, old).crb = c.crb
<1> DEFINE toggle == IF "Start" \in v /\ "Start" \notin old THEN c.toggle \cup {pin}
                     ELSE c.toggle
           high == IF "Toggle" \in v THEN pin \in toggle ELSE c.pulse["PB7"] # 0
           mode == SetIf(c.mode, pin, "PBOn" \in v)
           out == IF "PBOn" \in v THEN SetIf(c.out, pin, high) ELSE c.out
<1>1. /\ c.toggle \in SUBSET Pins /\ c.mode \in SUBSET Pins /\ c.out \in SUBSET Pins
  BY DEF Chip
<1>2. toggle \in SUBSET Pins /\ mode \in SUBSET Pins /\ out \in SUBSET Pins
  BY <1>1 DEF SetIf
<1>3. SelectPin(c, pin, v, old) = [c EXCEPT !.toggle = toggle, !.mode = mode, !.out = out]
  BY DEF SelectPin
<1> HIDE DEF toggle, mode, out
<1> QED
  BY <1>2, <1>3 DEF Chip

LEMMA WriteControlIsTyped ==
  ASSUME NEW c \in Chip
  PROVE  /\ \A v \in SUBSET CraBits : WriteCra(c, v) \in Chip /\ WriteCra(c, v).crb = c.crb
         /\ \A v \in SUBSET CrbBits :
              WriteCrb(c, v) \in Chip /\ WriteCrb(c, v).crb = v \ {"Load"}
<1>1. c.ta \in Timer /\ c.tb \in Timer
  BY DEF Chip
<1>2. ASSUME NEW v \in SUBSET CraBits
      PROVE  WriteCra(c, v) \in Chip /\ WriteCra(c, v).crb = c.crb
  <2> DEFINE picked == SelectPin(c, "PB6", v, c.cra)
             ta == SetControl(picked.ta, "Start" \in v, "OneShot" \in v, "Load" \in v,
                              "Cnt" \in v)
             cra == v \ {"Load"}
  <2>1. picked \in Chip /\ picked.crb = c.crb
    BY SelectPinIsTyped DEF Pins
  <2>2. ta \in Timer
    <3>1. picked.ta \in Timer
      BY <2>1 DEF Chip
    <3> HIDE DEF picked
    <3> QED
      BY <3>1 DEF SetControl, FlagIf, Timer, Flags
  <2>3. cra \in SUBSET CraBits
    OBVIOUS
  <2>4. WriteCra(c, v) = [picked EXCEPT !.ta = ta, !.cra = cra]
    BY DEF WriteCra
  <2> HIDE DEF picked, ta, cra
  <2> QED
    BY <2>1, <2>2, <2>3, <2>4 DEF Chip
<1>3. ASSUME NEW v \in SUBSET CrbBits
      PROVE  WriteCrb(c, v) \in Chip /\ WriteCrb(c, v).crb = v \ {"Load"}
  <2> DEFINE picked == SelectPin(c, "PB7", v, c.crb)
             external == {"Cnt", "TimerA"} \cap v # {}
             tb == SetControl(picked.tb, "Start" \in v, "OneShot" \in v, "Load" \in v, external)
             crb == v \ {"Load"}
             alarm == "Alarm" \in v
  <2>1. picked \in Chip
    BY SelectPinIsTyped DEF Pins
  <2>2. external \in BOOLEAN /\ alarm \in BOOLEAN /\ crb \in SUBSET CrbBits
    OBVIOUS
  <2>3. tb \in Timer
    <3>1. picked.tb \in Timer
      BY <2>1 DEF Chip
    <3> HIDE DEF picked, external
    <3> QED
      BY <3>1 DEF SetControl, FlagIf, Timer, Flags
  <2>4. WriteCrb(c, v) = [picked EXCEPT !.tb = tb, !.todAlarmWrite = alarm, !.crb = crb]
    BY DEF WriteCrb
  <2>6. WriteCrb(c, v) \in Chip /\ WriteCrb(c, v).crb = crb
    <3> HIDE DEF picked, tb, crb, alarm, external
    <3>1. picked \in Chip /\ tb \in Timer /\ alarm \in BOOLEAN /\ crb \in SUBSET CrbBits
      BY <2>1, <2>2, <2>3
    <3> QED
      BY <2>4, <3>1 DEF Chip
  <2> QED
    BY <2>6
<1> QED
  BY <1>2, <1>3

\* A write keeps the chip well formed, and only a write of CRB selects what
\* timer B counts.
LEMMA WriteEffectIsTyped ==
  ASSUME NEW c \in Chip, NEW w \in RegisterWrites
  PROVE  /\ WriteEffect(c, w.reg, w.value) \in Chip
         /\ w.reg # "CRB" => WriteEffect(c, w.reg, w.value).crb = c.crb
         /\ w.reg = "CRB" => WriteEffect(c, w.reg, w.value).crb = w.value \ {"Load"}
<1> DEFINE after == WriteEffect(c, w.reg, w.value)
<1>1. CASE w.reg = "Port"
  BY <1>1 DEF WriteEffect
<1>2. CASE w.reg \in {"TALo", "TAHi", "TBLo", "TBHi"}
  <2>1. w.value \in 0 .. ByteSize - 1
    BY <1>2 DEF RegisterWrites
  <2>2. /\ SetLatchLo(c.ta, w.value) \in Timer /\ SetLatchHi(c.ta, w.value) \in Timer
        /\ SetLatchLo(c.tb, w.value) \in Timer /\ SetLatchHi(c.tb, w.value) \in Timer
    BY <2>1, TimerOperationsAreTyped DEF Chip
  <2> DEFINE aLo == SetLatchLo(c.ta, w.value)
             aHi == SetLatchHi(c.ta, w.value)
             bLo == SetLatchLo(c.tb, w.value)
             bHi == SetLatchHi(c.tb, w.value)
  <2>3. \/ after = [c EXCEPT !.ta = aLo]
        \/ after = [c EXCEPT !.ta = aHi]
        \/ after = [c EXCEPT !.tb = bLo]
        \/ after = [c EXCEPT !.tb = bHi]
    BY <1>2 DEF WriteEffect
  <2>4. after \in Chip /\ after.crb = c.crb
    <3>1. aLo \in Timer /\ aHi \in Timer /\ bLo \in Timer /\ bHi \in Timer
      BY <2>2
    <3> HIDE DEF after, aLo, aHi, bLo, bHi
    <3> QED
      BY <2>3, <3>1 DEF Chip
  <2> QED
    BY <1>2, <2>4
<1>3. CASE w.reg = "TodTenths"
  <2>1. w.value \in 0 .. Tenths - 1 /\ after = WriteTodTenths(c, w.value)
    BY <1>3 DEF RegisterWrites, WriteEffect
  <2> QED
    BY <1>3, <2>1, TodWritesAreTyped
<1>4. CASE w.reg \in {"TodRest", "TodHours"}
  <2>1. /\ w.value \in 0 .. Rests - 1
        /\ after = WriteTodRest(c, w.value) \/ after = WriteTodHours(c, w.value)
    BY <1>4 DEF RegisterWrites, WriteEffect
  <2> QED
    BY <1>4, <2>1, TodWritesAreTyped
<1>5. CASE w.reg = "SDR"
  <2> DEFINE pending == c.serialPending \/ "Serial" \in c.cra
  <2>1. after = [c EXCEPT !.serialPending = pending] /\ pending \in BOOLEAN
    BY <1>5 DEF WriteEffect
  <2>2. after \in Chip /\ after.crb = c.crb
    <3> HIDE DEF after, pending
    <3> QED
      BY <2>1 DEF Chip
  <2> QED
    BY <1>5, <2>2
<1>6. CASE w.reg \in {"SetIMR", "ClearIMR"}
  <2>1. /\ w.value \in SUBSET Sources
        /\ after = WriteImr(c, TRUE, w.value) \/ after = WriteImr(c, FALSE, w.value)
    BY <1>6 DEF RegisterWrites, WriteEffect
  <2> QED
    BY <1>6, <2>1, WriteImrIsTyped
<1>7. CASE w.reg = "CRA"
  <2>1. w.value \in SUBSET CraBits /\ after = WriteCra(c, w.value)
    BY <1>7 DEF RegisterWrites, WriteEffect
  <2> QED
    BY <1>7, <2>1, WriteControlIsTyped
<1>8. CASE w.reg = "CRB"
  <2>1. w.value \in SUBSET CrbBits /\ after = WriteCrb(c, w.value)
    BY <1>8 DEF RegisterWrites, WriteEffect
  <2> QED
    BY <1>8, <2>1, WriteControlIsTyped
<1> QED
  BY <1>1, <1>2, <1>3, <1>4, <1>5, <1>6, <1>7, <1>8 DEF RegisterWrites

LEMMA InputEffectIsTyped ==
  ASSUME NEW c \in Chip, NEW input \in {"CntLow", "CntHigh", "FlagLow", "FlagHigh"}
  PROVE  InputEffect(c, input) \in Chip
<1>1. \A high \in BOOLEAN : SetCnt(c, high) \in Chip
  BY DEF SetCnt, Chip
<1>2. ASSUME NEW high \in BOOLEAN PROVE SetFlag(c, high) \in Chip
  <2> DEFINE event == IF c.flag /\ ~high THEN Trigger(c, "Flag") ELSE c
  <2>1. event \in Chip
    BY TriggerIsTyped DEF Sources
  <2>2. SetFlag(c, high) = [event EXCEPT !.flag = high]
    BY DEF SetFlag
  <2> HIDE DEF event
  <2> QED
    BY <2>1, <2>2 DEF Chip
<1> QED
  BY <1>1, <1>2 DEF InputEffect

-----------------------------------------------------------------------------
\* The clock of Mos6526::tick on a chip that generic_quiet() and tod_bound()
\* allow to be left alone for more than one clock is one clock of
\* Mos6526::skip: no event, no pin and no stage of a pipeline moves.
LEMMA QuietTickIsSkip ==
  ASSUME NEW c \in Chip, GenericQuiet(c) > 1, TodLeft(c) > 1
  PROVE  TickChip(c) = SkipChip(c, 1)
<1>1. /\ c.intDelay = {} /\ \A p \in Pins : c.pulse[p] = 0
      /\ c.cnt = c.cntPrev /\ ~c.serialPending /\ c.serialBits = 0
  BY DEF GenericQuiet, InFlight
<1>2. QuietClocks(c.ta) \in Int /\ QuietClocks(c.tb) \in Int
  <2>1. c.ta.counter \in Nat /\ c.tb.counter \in Nat /\ Forever \in Nat
    BY MaxCountIsNat, CiaTimerAssumption DEF Chip, Timer
  <2> QED
    BY <2>1 DEF QuietClocks
<1>3. QuietClocks(c.ta) > 1 /\ QuietClocks(c.tb) > 1
  BY <1>2 DEF GenericQuiet, Least
<1>4. c.ta \in Timer /\ c.tb \in Timer
  BY DEF Chip
<1>5. /\ ~Underflows(c.ta) /\ TickTimer(c.ta) = SkipTimer(c.ta, 1)
      /\ ~Underflows(c.tb) /\ TickTimer(c.tb) = SkipTimer(c.tb, 1)
  BY <1>3, <1>4, QuietClockIsSkip
<1>6. CountCnt(c) = c
  BY <1>1 DEF CountCnt, Chip
<1> DEFINE ta == SkipTimer(c.ta, 1)
           tb == SkipTimer(c.tb, 1)
           clockedA == [c EXCEPT !.ta = ta]
           clockedB == [clockedA EXCEPT !.tb = tb]
<1>7. ClockTimerA(c) = clockedA
  BY <1>5 DEF ClockTimerA
<1>8. clockedA.tb = c.tb
  BY DEF Chip
<1>9. ClockTimerB(clockedA) = clockedB
  BY <1>5, <1>8 DEF ClockTimerB
<1>10. FeedTimerB(clockedB, Underflows(c.ta)) = clockedB
  BY <1>5 DEF FeedTimerB
<1>11. ta \in Timer /\ tb \in Timer
  BY <1>4, <1>5, TimerOperationsAreTyped
<1>12. /\ clockedB \in Chip
       /\ clockedB.intDelay = {} /\ \A p \in Pins : clockedB.pulse[p] = 0
       /\ clockedB.todCycles = c.todCycles /\ clockedB.cra = c.cra
  <2> HIDE DEF ta, tb
  <2> QED
    BY <1>1, <1>11 DEF Chip
<1> HIDE DEF ta, tb, clockedA
<1>13. EndPulses(clockedB) = clockedB
  <2> HIDE DEF clockedB
  <2> DEFINE pulse == [p \in Pins |-> IF clockedB.pulse[p] = 0 THEN 0 ELSE clockedB.pulse[p] - 1]
             out == clockedB.out \ {p \in Pins : clockedB.pulse[p] = 1}
  <2>1. clockedB.pulse \in [Pins -> 0 .. 2] /\ clockedB.out \in SUBSET Pins
    BY <1>12 DEF Chip
  <2>2. pulse = clockedB.pulse
    BY <1>12, <2>1
  <2>3. out = clockedB.out
    BY <1>12, <2>1
  <2>4. EndPulses(clockedB) = [clockedB EXCEPT !.pulse = pulse, !.out = out]
    BY DEF EndPulses
  <2> HIDE DEF pulse, out
  <2> QED
    BY <1>12, <2>2, <2>3, <2>4 DEF Chip
<1>14. DelayInterrupt(clockedB) = clockedB
  <2> HIDE DEF clockedB
  <2> QED
    BY <1>12 DEF DelayInterrupt, Chip
<1>15. TickChip(c) = ClockTod(clockedB)
  BY <1>6, <1>7, <1>9, <1>10, <1>13, <1>14 DEF TickChip
<1>16. ~(clockedB.todCycles + 1 >= TodPeriod(clockedB))
  <2>1. /\ TodPeriod(c) \in Nat /\ TodPeriod(clockedB) = TodPeriod(c)
        /\ c.todCycles \in Nat
    BY <1>12, Mos6526Assumption DEF TodPeriod, Chip
  <2> QED
    BY <1>12, <2>1 DEF TodLeft
<1>17. TickChip(c) = [clockedB EXCEPT !.todCycles = c.todCycles + 1]
  BY <1>12, <1>15, <1>16 DEF ClockTod
<1>18. SkipChip(c, 1) = [c EXCEPT !.ta = ta, !.tb = tb, !.todCycles = c.todCycles + 1]
  BY DEF SkipChip, ta, tb
<1> QED
  BY <1>17, <1>18 DEF clockedA, Chip

\* Skipping is exact to the last clock: what a chip may still be left alone for
\* runs down one by one, and the parts that make it due are not touched.
LEMMA SkipRunsDown ==
  ASSUME NEW c \in Chip, NEW n \in Nat,
         GenericQuiet(c) # 0, n < TodBound(c, GenericQuiet(c))
  PROVE  /\ SkipChip(c, n) \in Chip
         /\ SkipChip(c, n).crb = c.crb
         /\ SkipChip(SkipChip(c, n), 1) = SkipChip(c, n + 1)
         /\ GenericQuiet(SkipChip(c, n)) \in Nat
         /\ GenericQuiet(SkipChip(c, n)) # 0
         /\ GenericQuiet(SkipChip(c, n)) >= GenericQuiet(c) - n
         /\ TodLeft(SkipChip(c, n)) = TodLeft(c) - n
<1>1. /\ c.ta \in Timer /\ c.tb \in Timer /\ c.todCycles \in Nat
      /\ c.ta.counter \in 0 .. MaxCount /\ c.tb.counter \in 0 .. MaxCount
  BY DEF Chip, Timer
<1>2. Forever \in Nat /\ Forever > MaxCount /\ MaxCount \in Nat
  BY CiaTimerAssumption, MaxCountIsNat DEF MaxCount
<1>3. \A t \in Timer : QuietClocks(t) \in Nat /\ QuietClocks(t) <= Forever
  <2>1. \A t \in Timer : t.counter \in 0 .. MaxCount
    BY DEF Timer
  <2> QED
    BY <1>2, <2>1 DEF QuietClocks
<1>4. GenericQuiet(c) = Least(QuietClocks(c.ta), QuietClocks(c.tb)) /\ ~InFlight(c)
  BY DEF GenericQuiet
<1>5. TodPeriod(c) \in Nat /\ TodLeft(c) \in Nat
  BY <1>1, Mos6526Assumption DEF TodPeriod, TodLeft
<1>6. /\ n < QuietClocks(c.ta) /\ n < QuietClocks(c.tb) /\ n < TodLeft(c)
  BY <1>1, <1>3, <1>4, <1>5 DEF TodBound, Least
<1>7. \A t \in Timer : n < QuietClocks(t) =>
        /\ SkipTimer(t, n) \in Timer
        /\ QuietClocks(SkipTimer(t, n)) >= QuietClocks(t) - n
        /\ SkipTimer(SkipTimer(t, n), 1) = SkipTimer(t, n + 1)
  <2> SUFFICES ASSUME NEW t \in Timer, n < QuietClocks(t)
               PROVE  /\ SkipTimer(t, n) \in Timer
                      /\ QuietClocks(SkipTimer(t, n)) >= QuietClocks(t) - n
                      /\ SkipTimer(SkipTimer(t, n), 1) = SkipTimer(t, n + 1)
    OBVIOUS
  <2> QED
    BY <1>2, <1>3, QuietRunsDown
<1> DEFINE ta == SkipTimer(c.ta, n)
           tb == SkipTimer(c.tb, n)
           cycles == c.todCycles + n
           d == [c EXCEPT !.ta = ta, !.tb = tb, !.todCycles = cycles]
<1>8. /\ ta \in Timer /\ tb \in Timer
      /\ QuietClocks(ta) >= QuietClocks(c.ta) - n /\ QuietClocks(tb) >= QuietClocks(c.tb) - n
      /\ SkipTimer(ta, 1) = SkipTimer(c.ta, n + 1) /\ SkipTimer(tb, 1) = SkipTimer(c.tb, n + 1)
  BY <1>1, <1>6, <1>7
<1>9. cycles \in Nat
  BY <1>1
<1>10. SkipChip(c, n) = d
  BY DEF SkipChip
<1>11. SkipChip(d, 1) = [c EXCEPT !.ta = SkipTimer(ta, 1), !.tb = SkipTimer(tb, 1),
                                 !.todCycles = cycles + 1]
  <2> HIDE DEF ta, tb, cycles
  <2> QED
    BY DEF SkipChip, Chip
<1>12. SkipChip(d, 1) = SkipChip(c, n + 1)
  <2>1. cycles + 1 = c.todCycles + (n + 1)
    BY <1>1
  <2>2. SkipChip(c, n + 1) = [c EXCEPT !.ta = SkipTimer(c.ta, n + 1), !.tb = SkipTimer(c.tb, n + 1),
                                      !.todCycles = c.todCycles + (n + 1)]
    BY DEF SkipChip
  <2> HIDE DEF ta, tb, cycles, d
  <2> QED
    BY <1>8, <1>11, <2>1, <2>2
<1> HIDE DEF ta, tb
<1>13. d \in Chip /\ d.crb = c.crb
  <2> HIDE DEF cycles
  <2> QED
    BY <1>8, <1>9 DEF Chip
<1>14. d.ta = ta /\ d.tb = tb /\ d.todCycles = cycles /\ TodPeriod(d) = TodPeriod(c)
  BY DEF Chip, TodPeriod
<1>15. ~InFlight(d)
  BY <1>4 DEF InFlight, Chip
<1> HIDE DEF d
<1>16. GenericQuiet(d) = Least(QuietClocks(ta), QuietClocks(tb))
  BY <1>14, <1>15 DEF GenericQuiet
<1>17. /\ GenericQuiet(d) \in Nat /\ GenericQuiet(d) # 0
       /\ GenericQuiet(d) >= GenericQuiet(c) - n
  BY <1>1, <1>3, <1>4, <1>6, <1>8, <1>16 DEF Least
<1>18. TodLeft(d) = TodLeft(c) - n
  BY <1>1, <1>5, <1>6, <1>14 DEF TodLeft
<1> QED
  BY <1>10, <1>12, <1>13, <1>17, <1>18

-----------------------------------------------------------------------------
(***************************************************************************)
(* Part two: a chip that is clocked in every cycle                         *)
(***************************************************************************)

Sound(c) == Delivers(c) /\ Caused(c)

\* Operations that leave the interrupt pipeline alone
SameInterrupts(c, d) ==
  d.icr = c.icr /\ d.imr = c.imr /\ d.intLow = c.intLow /\ d.intDelay = c.intDelay

LEMMA SameIsSound ==
  ASSUME NEW c, NEW d, SameInterrupts(c, d), Sound(c)
  PROVE  Sound(d)
  BY DEF SameInterrupts, Sound, Delivers, Caused

LEMMA TriggerIsSound ==
  ASSUME NEW c \in Chip, NEW source \in Sources, Sound(c)
  PROVE  Sound(Trigger(c, source))
<1> DEFINE d == Trigger(c, source)
<1>1. /\ d.icr = c.icr \cup {source} /\ d.imr = c.imr /\ d.intLow = c.intLow
      /\ d.intDelay = IF source \in c.imr /\ ~c.intLow THEN c.intDelay \cup {"Now"}
                      ELSE c.intDelay
  BY DEF Trigger, Chip
<1> HIDE DEF d
<1>2. Caused(d)
  BY <1>1 DEF Caused
<1>3. Delivers(d)
  BY <1>1 DEF Sound, Delivers
<1> QED
  BY <1>2, <1>3 DEF Sound, d

LEMMA DrivePinIsSound ==
  ASSUME NEW c \in Chip, NEW pin \in Pins, NEW control, Sound(c)
  PROVE  Sound(DrivePin(c, pin, control))
<1>1. SameInterrupts(c, DrivePin(c, pin, control))
  <2>1. \/ "PBOn" \notin control
        \/ "PBOn" \in control /\ "Toggle" \notin control
        \/ "PBOn" \in control /\ "Toggle" \in control
    OBVIOUS
  <2> QED
    BY <2>1 DEF SameInterrupts, DrivePin, Chip
<1> QED
  BY <1>1, SameIsSound

LEMMA ShiftSerialIsSound ==
  ASSUME NEW c \in Chip, Sound(c)
  PROVE  Sound(ShiftSerial(c))
<1> DEFINE bits == IF c.serialPending /\ c.serialBits = 0 THEN SerialSteps ELSE c.serialBits
           pending == c.serialPending /\ c.serialBits # 0
           shifted == [c EXCEPT !.serialBits = bits - 1, !.serialPending = pending]
<1>1. CASE "Serial" \notin c.cra \/ (c.serialBits = 0 /\ ~c.serialPending)
  BY <1>1 DEF ShiftSerial
<1>2. CASE ~("Serial" \notin c.cra \/ (c.serialBits = 0 /\ ~c.serialPending))
  <2>1. SameInterrupts(c, shifted)
    BY DEF SameInterrupts, Chip
  <2>2. Sound(shifted)
    BY <2>1, SameIsSound
  <2>3. shifted \in Chip
    <3>1. c.serialBits \in 0 .. SerialSteps /\ c.serialPending \in BOOLEAN
      BY DEF Chip
    <3>2. bits - 1 \in 0 .. SerialSteps /\ pending \in BOOLEAN
      BY <1>2, <3>1, Mos6526Assumption
    <3> HIDE DEF bits, pending
    <3> QED
      BY <3>2 DEF Chip
  <2>4. ShiftSerial(c) = IF bits = 1 THEN Trigger(shifted, "Serial") ELSE shifted
    BY <1>2 DEF ShiftSerial
  <2>5. "Serial" \in Sources
    BY DEF Sources
  <2> HIDE DEF bits, shifted
  <2> QED
    BY <2>2, <2>3, <2>4, <2>5, TriggerIsSound
<1> QED
  BY <1>1, <1>2

LEMMA TimerEventIsSound ==
  ASSUME NEW c \in Chip, NEW source \in Sources, NEW pin \in Pins, NEW control, Sound(c)
  PROVE  LET event == [Trigger(c, source) EXCEPT !.toggle = Flip(@, pin)]
         IN  Sound(DrivePin(event, pin, control))
<1> DEFINE fired == Trigger(c, source)
           event == [fired EXCEPT !.toggle = Flip(fired.toggle, pin)]
<1>1. fired \in Chip /\ Sound(fired)
  BY TriggerIsTyped, TriggerIsSound
<1> HIDE DEF fired
<1>2. event \in Chip /\ SameInterrupts(fired, event)
  BY <1>1 DEF Chip, Flip, SameInterrupts
<1>3. Sound(event)
  BY <1>1, <1>2, SameIsSound
<1> HIDE DEF event
<1>4. Sound(DrivePin(event, pin, control))
  BY <1>2, <1>3, DrivePinIsSound
<1> QED
  BY <1>4 DEF event, fired

LEMMA ClockTimersIsSound ==
  ASSUME NEW c \in Chip, Sound(c)
  PROVE  Sound(ClockTimerA(c)) /\ Sound(ClockTimerB(c))
<1> DEFINE tickedA == [c EXCEPT !.ta = TickTimer(@)]
           tickedB == [c EXCEPT !.tb = TickTimer(@)]
           eventA == [Trigger(tickedA, "A") EXCEPT !.toggle = Flip(@, "PB6")]
           eventB == [Trigger(tickedB, "B") EXCEPT !.toggle = Flip(@, "PB7")]
<1>1. TickTimer(c.ta) \in Timer /\ TickTimer(c.tb) \in Timer
  BY TimerOperationsAreTyped DEF Chip
<1>2. /\ tickedA \in Chip /\ tickedB \in Chip
      /\ SameInterrupts(c, tickedA) /\ SameInterrupts(c, tickedB)
  BY <1>1 DEF Chip, SameInterrupts
<1>3. Sound(tickedA) /\ Sound(tickedB)
  BY <1>2, SameIsSound
<1> HIDE DEF tickedA, tickedB
<1>4. /\ "A" \in Sources /\ "B" \in Sources /\ "PB6" \in Pins /\ "PB7" \in Pins
  BY DEF Sources, Pins
<1>5. /\ Sound(DrivePin(eventA, "PB6", c.cra)) /\ DrivePin(eventA, "PB6", c.cra) \in Chip
      /\ Sound(DrivePin(eventB, "PB7", c.crb)) /\ DrivePin(eventB, "PB7", c.crb) \in Chip
  BY <1>2, <1>3, <1>4, TimerEventIsTyped, TimerEventIsSound
<1>6. /\ ClockTimerA(c) = IF Underflows(c.ta)
                          THEN ShiftSerial(DrivePin(eventA, "PB6", c.cra)) ELSE tickedA
      /\ ClockTimerB(c) = IF Underflows(c.tb)
                          THEN DrivePin(eventB, "PB7", c.crb) ELSE tickedB
  BY DEF ClockTimerA, ClockTimerB, tickedA, tickedB
<1> HIDE DEF eventA, eventB
<1> QED
  BY <1>3, <1>5, <1>6, ShiftSerialIsSound

LEMMA DelayInterruptIsSound ==
  ASSUME NEW c \in Chip, Sound(c)
  PROVE  Sound(DelayInterrupt(c))
<1> DEFINE d == DelayInterrupt(c)
<1>1. /\ c.intDelay \in SUBSET {"Now", "Next"}
      /\ d.icr = c.icr /\ d.imr = c.imr /\ (d.intLow <=> c.intLow \/ "Next" \in c.intDelay)
      /\ d.intDelay = IF "Now" \in c.intDelay THEN {"Next"} ELSE {}
  BY DEF DelayInterrupt, Chip
<1> HIDE DEF d
<1>2. Delivers(d)
  BY <1>1 DEF Sound, Delivers
<1>3. Caused(d)
  BY <1>1 DEF Sound, Caused
<1> QED
  BY <1>2, <1>3 DEF Sound, d

LEMMA ClockTodIsSound ==
  ASSUME NEW c \in Chip, Sound(c)
  PROVE  Sound(ClockTod(c))
<1>1. ASSUME NEW n \in Nat
      PROVE  LET d == [c EXCEPT !.todCycles = n] IN d \in Chip /\ Sound(d)
  <2>1. [c EXCEPT !.todCycles = n] \in Chip /\ SameInterrupts(c, [c EXCEPT !.todCycles = n])
    BY DEF Chip, SameInterrupts
  <2> QED
    BY <2>1, SameIsSound
<1>2. ASSUME NEW d \in Chip, Sound(d)
      PROVE  Sound(TodTick(d))
  <2> DEFINE next == NextTenth(d.tod)
             moved == [d EXCEPT !.tod = next]
  <2>1. next \in Time
    BY NextTenthIsTyped DEF Chip
  <2>2. TodTick(d) = d \/ TodTick(d) = moved \/ TodTick(d) = Trigger(moved, "Alarm")
    <3>1. (moved.tod = d.todAlarm \/ moved.tod # d.todAlarm) /\ (d.todHalted \/ ~d.todHalted)
      OBVIOUS
    <3> QED
      BY <3>1 DEF TodTick
  <2> HIDE DEF next
  <2>3. moved \in Chip /\ SameInterrupts(d, moved)
    BY <2>1 DEF Chip, SameInterrupts
  <2> HIDE DEF moved
  <2>4. Sound(moved) /\ "Alarm" \in Sources
    BY <1>2, <2>3, SameIsSound DEF Sources
  <2> QED
    BY <1>2, <2>2, <2>3, <2>4, TriggerIsSound
<1> DEFINE zero == [c EXCEPT !.todCycles = 0]
           more == [c EXCEPT !.todCycles = c.todCycles + 1]
<1>3. zero \in Chip /\ Sound(zero) /\ Sound(more)
  <2>1. 0 \in Nat /\ c.todCycles + 1 \in Nat
    BY DEF Chip
  <2> QED
    BY <1>1, <2>1
<1>4. ClockTod(c) = TodTick(zero) \/ ClockTod(c) = more
  BY DEF ClockTod
<1> HIDE DEF zero, more
<1> QED
  BY <1>2, <1>3, <1>4

\* One clock keeps both facts
LEMMA TickChipIsSound ==
  ASSUME NEW c \in Chip, Sound(c)
  PROVE  Sound(TickChip(c))
<1> DEFINE counted == CountCnt(c)
           clockedA == ClockTimerA(counted)
           clockedB == ClockTimerB(clockedA)
           fed == FeedTimerB(clockedB, Underflows(counted.ta))
           ended == EndPulses(fed)
           delayed == DelayInterrupt(ended)
<1>1. counted \in Chip /\ Sound(counted)
  <2>1. SameInterrupts(c, counted)
    BY DEF SameInterrupts, CountCnt, Chip
  <2> QED
    BY <2>1, SameIsSound, CountCntIsTyped
<1>2. clockedA \in Chip /\ Sound(clockedA)
  BY <1>1, ClockTimersIsTyped, ClockTimersIsSound
<1>3. clockedB \in Chip /\ Sound(clockedB)
  BY <1>2, ClockTimersIsTyped, ClockTimersIsSound
<1> HIDE DEF clockedB
<1>4. fed \in Chip /\ Sound(fed)
  <2>1. Underflows(counted.ta) \in BOOLEAN
    BY DEF Underflows
  <2>2. fed \in Chip
    BY <1>3, <2>1, FeedTimerBIsTyped
  <2>3. SameInterrupts(clockedB, fed)
    BY <1>3 DEF SameInterrupts, FeedTimerB, Chip
  <2> QED
    BY <1>3, <2>2, <2>3, SameIsSound
<1> HIDE DEF fed
<1>5. ended \in Chip /\ Sound(ended)
  <2>1. SameInterrupts(fed, ended)
    BY <1>4 DEF SameInterrupts, EndPulses, Chip
  <2> QED
    BY <1>4, <2>1, SameIsSound, EndPulsesIsTyped
<1>6. delayed \in Chip /\ Sound(delayed)
  BY <1>5, DelayInterruptIsTyped, DelayInterruptIsSound
<1>7. TickChip(c) = ClockTod(delayed)
  BY DEF TickChip, fed, clockedB
<1> QED
  BY <1>6, <1>7, ClockTodIsSound

LEMMA ReadEffectIsSound ==
  ASSUME NEW c \in Chip, NEW reg, Sound(c)
  PROVE  Sound(ReadEffect(c, reg))
<1>1. Sound(ReadIcr(c))
  BY DEF Sound, Delivers, Caused, ReadIcr, Chip
<1>2. SameInterrupts(c, ReadTodHours(c)) /\ SameInterrupts(c, ReadTodTenths(c))
  BY DEF SameInterrupts, ReadTodHours, ReadTodTenths, Chip
<1> QED
  BY <1>1, <1>2, SameIsSound DEF ReadEffect

LEMMA WriteImrIsSound ==
  ASSUME NEW c \in Chip, NEW set \in BOOLEAN, NEW sources \in SUBSET Sources, Sound(c)
  PROVE  Sound(WriteImr(c, set, sources))
<1> DEFINE imr == IF set THEN c.imr \cup sources ELSE c.imr \ sources
           d == WriteImr(c, set, sources)
<1>1. /\ d.icr = c.icr /\ d.imr = imr /\ d.intLow = c.intLow
      /\ d.intDelay = IF imr \cap c.icr # {} /\ ~c.intLow THEN c.intDelay \cup {"Now"}
                      ELSE c.intDelay
  BY DEF WriteImr, Chip
<1> HIDE DEF d, imr
<1>2. Delivers(d)
  BY <1>1 DEF Sound, Delivers
<1>3. Caused(d)
  BY <1>1 DEF Sound, Caused
<1> QED
  BY <1>2, <1>3 DEF Sound, d

LEMMA WriteEffectIsSound ==
  ASSUME NEW c \in Chip, NEW w \in RegisterWrites, Sound(c)
  PROVE  Sound(WriteEffect(c, w.reg, w.value))
<1> DEFINE after == WriteEffect(c, w.reg, w.value)
<1>1. CASE w.reg \in {"SetIMR", "ClearIMR"}
  <2>1. /\ w.value \in SUBSET Sources
        /\ after = WriteImr(c, TRUE, w.value) \/ after = WriteImr(c, FALSE, w.value)
    BY <1>1 DEF RegisterWrites, WriteEffect
  <2> QED
    BY <2>1, WriteImrIsSound
<1>2. CASE w.reg \in {"Port", "SDR", "TALo", "TAHi", "TBLo", "TBHi"}
  <2>1. SameInterrupts(c, after)
    BY <1>2 DEF SameInterrupts, WriteEffect, Chip
  <2> QED
    BY <2>1, SameIsSound
<1>3. CASE w.reg \in {"TodTenths", "TodRest", "TodHours"}
  <2>1. SameInterrupts(c, after)
    BY <1>3 DEF SameInterrupts, WriteEffect, WriteTodTenths, WriteTodRest, WriteTodHours, Chip
  <2> QED
    BY <2>1, SameIsSound
<1>4. CASE w.reg = "CRA"
  <2>1. SameInterrupts(c, after)
    BY <1>4 DEF SameInterrupts, WriteEffect, WriteCra, SelectPin, Chip
  <2> QED
    BY <2>1, SameIsSound
<1>5. CASE w.reg = "CRB"
  <2>1. SameInterrupts(c, after)
    BY <1>5 DEF SameInterrupts, WriteEffect, WriteCrb, SelectPin, Chip
  <2> QED
    BY <2>1, SameIsSound
<1> QED
  BY <1>1, <1>2, <1>3, <1>4, <1>5 DEF RegisterWrites

LEMMA InputEffectIsSound ==
  ASSUME NEW c \in Chip, NEW input \in {"CntLow", "CntHigh", "FlagLow", "FlagHigh"}, Sound(c)
  PROVE  Sound(InputEffect(c, input))
<1>1. \A high \in BOOLEAN : SameInterrupts(c, SetCnt(c, high))
  BY DEF SetCnt, SameInterrupts, Chip
<1>2. ASSUME NEW high \in BOOLEAN PROVE Sound(SetFlag(c, high))
  <2> DEFINE event == IF c.flag /\ ~high THEN Trigger(c, "Flag") ELSE c
             after == [event EXCEPT !.flag = high]
  <2>1. event \in Chip /\ Sound(event)
    BY TriggerIsTyped, TriggerIsSound DEF Sources
  <2>2. SetFlag(c, high) = after
    BY DEF SetFlag
  <2> HIDE DEF event
  <2>3. SameInterrupts(event, after)
    BY <2>1 DEF SameInterrupts, Chip
  <2> QED
    BY <2>1, <2>2, <2>3, SameIsSound
<1> QED
  BY <1>1, <1>2, SameIsSound DEF InputEffect

LEMMA ShownIsSound ==
  ASSUME NEW c \in Chip, Sound(c)
  PROVE  Shown(c) \in Chip /\ Sound(Shown(c))
<1>1. Shown(c) \in Chip /\ SameInterrupts(c, Shown(c))
  BY DEF Shown, Chip, SameInterrupts
<1> QED
  BY <1>1, SameIsSound

-----------------------------------------------------------------------------
InterruptInvariant == TypeOK /\ NoLostInterrupt /\ NoSpuriousInterrupt

LEMMA InterruptInit == Init => InterruptInvariant
<1> SUFFICES ASSUME Init PROVE InterruptInvariant
  OBVIOUS
<1>1. PICK c \in Starts : chip = Shown(c)
  BY DEF Init
<1>2. c \in Chip /\ Sound(c)
  BY CiaAccessAssumption DEF Sound, Delivers, Caused
<1>3. chip \in Chip /\ Sound(chip)
  BY <1>1, <1>2, ShownIsSound
<1>4. TypeOK
  <2>1. line \in BOOLEAN
    BY DEF Init
  <2>2. accesses \in 0 .. MaxAccesses
    BY CiaAccessAssumption DEF Init
  <2> QED
    BY <1>3, <2>1, <2>2 DEF TypeOK
<1> QED
  BY <1>3, <1>4 DEF InterruptInvariant, Sound, NoLostInterrupt, NoSpuriousInterrupt

LEMMA InterruptStep == InterruptInvariant /\ [Next]_vars => InterruptInvariant'
<1> SUFFICES ASSUME InterruptInvariant, [Next]_vars
             PROVE  chip' \in Chip /\ Sound(chip') /\ line' \in BOOLEAN
                    /\ accesses' \in 0 .. MaxAccesses
  BY DEF InterruptInvariant, TypeOK, Sound, NoLostInterrupt, NoSpuriousInterrupt,
         Delivers, Caused
<1> DEFINE now == TickChip(chip)
<1>1. chip \in Chip /\ Sound(chip) /\ line \in BOOLEAN /\ accesses \in 0 .. MaxAccesses
  BY DEF InterruptInvariant, TypeOK, Sound, NoLostInterrupt, NoSpuriousInterrupt
<1>2. now \in Chip /\ Sound(now)
  BY <1>1, TickChipIsTyped, TickChipIsSound
<1>3. /\ Clock => line' \in BOOLEAN
      /\ CountAccess => accesses' \in 0 .. MaxAccesses
  BY <1>1, <1>2, CiaAccessAssumption DEF Clock, CountAccess, Chip
<1>4. CASE Cycle
  <2>1. chip' = Shown(now) /\ Clock /\ accesses' = accesses
    BY <1>4 DEF Cycle
  <2> QED
    BY <1>1, <1>2, <1>3, <2>1, ShownIsSound
<1>5. ASSUME NEW reg \in Reads, ReadCycle(reg)
      PROVE  chip' \in Chip /\ Sound(chip') /\ line' \in BOOLEAN
             /\ accesses' \in 0 .. MaxAccesses
  <2> DEFINE after == ReadEffect(now, reg)
  <2>1. chip' = Shown(after) /\ Clock /\ CountAccess
    BY <1>5 DEF ReadCycle
  <2>2. after \in Chip /\ Sound(after)
    BY <1>2, ReadEffectIsTyped, ReadEffectIsSound
  <2> QED
    BY <1>3, <2>1, <2>2, ShownIsSound
<1>6. ASSUME NEW w \in Writes, WriteCycle(w)
      PROVE  chip' \in Chip /\ Sound(chip') /\ line' \in BOOLEAN
             /\ accesses' \in 0 .. MaxAccesses
  <2> DEFINE after == WriteEffect(now, w.reg, w.value)
  <2>1. chip' = Shown(after) /\ Clock /\ CountAccess
    BY <1>6 DEF WriteCycle
  <2>2. w \in RegisterWrites
    BY CiaAccessAssumption
  <2>3. after \in Chip /\ Sound(after)
    BY <1>2, <2>2, WriteEffectIsTyped, WriteEffectIsSound
  <2> QED
    BY <1>3, <2>1, <2>3, ShownIsSound
<1>7. ASSUME NEW input \in Inputs, Input(input)
      PROVE  chip' \in Chip /\ Sound(chip') /\ line' \in BOOLEAN
             /\ accesses' \in 0 .. MaxAccesses
  <2>1. chip' = InputEffect(chip, input) /\ line' = line /\ CountAccess
    BY <1>7 DEF Input
  <2>2. input \in {"CntLow", "CntHigh", "FlagLow", "FlagHigh"}
    BY CiaAccessAssumption
  <2> QED
    BY <1>1, <1>3, <2>1, <2>2, InputEffectIsTyped, InputEffectIsSound
<1>8. CASE UNCHANGED vars
  BY <1>1, <1>8 DEF vars
<1> QED
  BY <1>4, <1>5, <1>6, <1>7, <1>8 DEF Next

\* Every part of the chip keeps its range through every clock, access and input
THEOREM ChipTypeOK == Spec => []TypeOK
<1>1. InterruptInvariant => TypeOK
  BY DEF InterruptInvariant
<1> QED
  BY <1>1, InterruptInit, InterruptStep, PTL DEF Spec

\* No enabled event is forgotten, in any program: the ICR read, the mask write
\* and the two stages of int_delay_ never lose track of each other.
THEOREM NoInterruptIsLost == Spec => []NoLostInterrupt
<1>1. InterruptInvariant => NoLostInterrupt
  BY DEF InterruptInvariant
<1> QED
  BY <1>1, InterruptInit, InterruptStep, PTL DEF Spec

\* No interrupt comes from nowhere: the line is never low, nor on its way, once a
\* read has cleared what caused it (io_read of the ICR, trigger_interrupt).
THEOREM InterruptsAreCaused == Spec => []NoSpuriousInterrupt
<1>1. InterruptInvariant => NoSpuriousInterrupt
  BY DEF InterruptInvariant
<1> QED
  BY <1>1, InterruptInit, InterruptStep, PTL DEF Spec

-----------------------------------------------------------------------------
(***************************************************************************)
(* What one clock moves on: the pulse of PB7 and the two stages of the     *)
(* interrupt.  Later(c, d) says that d follows c with nothing lost on the  *)
(* way; it is transitive, so a clock is followed operation by operation.   *)
(***************************************************************************)

Pb7Pulses(c) ==
  "PBOn" \in c.crb /\ "Toggle" \notin c.crb => ("PB7" \in c.out <=> c.pulse["PB7"] # 0)

\* Operations that leave timer B's pin alone
SamePb7(c, d) ==
  d.crb = c.crb /\ d.pulse["PB7"] = c.pulse["PB7"] /\ ("PB7" \in d.out <=> "PB7" \in c.out)

Later(c, d) ==
  (Pb7Pulses(c) => Pb7Pulses(d)) /\ c.intDelay \subseteq d.intDelay /\ (c.intLow => d.intLow)

LEMMA SamePb7Pulses ==
  ASSUME NEW c, NEW d, SamePb7(c, d)
  PROVE  Pb7Pulses(c) => Pb7Pulses(d)
  BY DEF SamePb7, Pb7Pulses

LEMMA LaterIsTransitive ==
  ASSUME NEW c, NEW d, NEW e, Later(c, d), Later(d, e)
  PROVE  Later(c, e)
  BY DEF Later

LEMMA SameIsLater ==
  ASSUME NEW c, NEW d, SamePb7(c, d), d.intDelay = c.intDelay, d.intLow = c.intLow
  PROVE  Later(c, d)
  BY SamePb7Pulses DEF Later

LEMMA TriggerIsLater ==
  ASSUME NEW c \in Chip, NEW source \in Sources
  PROVE  Later(c, Trigger(c, source))
<1> DEFINE d == Trigger(c, source)
<1>1. /\ d.crb = c.crb /\ d.pulse = c.pulse /\ d.out = c.out
      /\ d.intLow = c.intLow /\ c.intDelay \subseteq d.intDelay
  BY DEF Trigger, Chip
<1> HIDE DEF d
<1>2. Pb7Pulses(c) => Pb7Pulses(d)
  BY <1>1, SamePb7Pulses DEF SamePb7
<1> QED
  BY <1>1, <1>2 DEF Later, d

\* A pin that is driven has its own pulse, and drives no other pin
LEMMA DrivePinIsLater ==
  ASSUME NEW c \in Chip, NEW pin \in Pins, NEW control,
         pin = "PB7" => control = c.crb
  PROVE  Later(c, DrivePin(c, pin, control))
<1> DEFINE d == DrivePin(c, pin, control)
<1>1. c.pulse \in [Pins -> 0 .. 2] /\ Pins = {"PB6", "PB7"}
  BY DEF Chip, Pins
<1>2. d.intDelay = c.intDelay /\ d.intLow = c.intLow /\ d.crb = c.crb
  <2>1. \/ "PBOn" \notin control
        \/ "PBOn" \in control /\ "Toggle" \notin control
        \/ "PBOn" \in control /\ "Toggle" \in control
    OBVIOUS
  <2> QED
    BY <2>1 DEF DrivePin, Chip
<1>3. CASE "PBOn" \notin control
  BY <1>3 DEF DrivePin, Later
<1>4. CASE "PBOn" \in control /\ "Toggle" \notin control
  <2>1. d.out = c.out \cup {pin} /\ d.pulse = [c.pulse EXCEPT ![pin] = 2]
    BY <1>4 DEF DrivePin, Chip
  <2> HIDE DEF d
  <2>2. CASE pin = "PB7"
    BY <1>1, <1>2, <2>1, <2>2 DEF Later, Pb7Pulses, d
  <2>3. CASE pin = "PB6"
    BY <1>1, <1>2, <2>1, <2>3 DEF Later, Pb7Pulses, d
  <2> QED
    BY <1>1, <2>2, <2>3
<1>5. CASE "PBOn" \in control /\ "Toggle" \in control
  <2>1. d.out = Flip(c.out, pin) /\ d.pulse = c.pulse
    BY <1>5 DEF DrivePin, Chip
  <2> HIDE DEF d
  <2>2. CASE pin = "PB7"
    BY <1>2, <1>5, <2>2 DEF Later, Pb7Pulses, d
  <2>3. CASE pin = "PB6"
    BY <1>2, <2>1, <2>3 DEF Later, Pb7Pulses, Flip, d
  <2> QED
    BY <1>1, <2>2, <2>3
<1> QED
  BY <1>3, <1>4, <1>5

LEMMA ShiftSerialIsLater ==
  ASSUME NEW c \in Chip
  PROVE  Later(c, ShiftSerial(c))
<1> DEFINE bits == IF c.serialPending /\ c.serialBits = 0 THEN SerialSteps ELSE c.serialBits
           pending == c.serialPending /\ c.serialBits # 0
           shifted == [c EXCEPT !.serialBits = bits - 1, !.serialPending = pending]
<1>1. CASE "Serial" \notin c.cra \/ (c.serialBits = 0 /\ ~c.serialPending)
  BY <1>1 DEF ShiftSerial, Later
<1>2. CASE ~("Serial" \notin c.cra \/ (c.serialBits = 0 /\ ~c.serialPending))
  <2>1. Later(c, shifted)
    <3>1. SamePb7(c, shifted) /\ shifted.intDelay = c.intDelay /\ shifted.intLow = c.intLow
      BY DEF SamePb7, Chip
    <3> HIDE DEF shifted
    <3> QED
      BY <3>1, SameIsLater
  <2>2. shifted \in Chip
    <3>1. c.serialBits \in 0 .. SerialSteps /\ c.serialPending \in BOOLEAN
      BY DEF Chip
    <3>2. bits - 1 \in 0 .. SerialSteps /\ pending \in BOOLEAN
      BY <1>2, <3>1, Mos6526Assumption
    <3> HIDE DEF bits, pending
    <3> QED
      BY <3>2 DEF Chip
  <2>3. ShiftSerial(c) = IF bits = 1 THEN Trigger(shifted, "Serial") ELSE shifted
    BY <1>2 DEF ShiftSerial
  <2>4. "Serial" \in Sources
    BY DEF Sources
  <2> HIDE DEF bits, shifted
  <2> QED
    BY <2>1, <2>2, <2>3, <2>4, TriggerIsLater, LaterIsTransitive
<1> QED
  BY <1>1, <1>2

\* An event of a timer: the interrupt, the flip of its toggle, its pin
LEMMA TimerEventIsLater ==
  ASSUME NEW c \in Chip, NEW source \in Sources, NEW pin \in Pins, NEW control,
         pin = "PB7" => control = c.crb
  PROVE  LET event == [Trigger(c, source) EXCEPT !.toggle = Flip(@, pin)]
         IN  Later(c, DrivePin(event, pin, control))
<1> DEFINE fired == Trigger(c, source)
           event == [fired EXCEPT !.toggle = Flip(fired.toggle, pin)]
<1>1. fired \in Chip /\ Later(c, fired) /\ fired.crb = c.crb
  BY TriggerIsTyped, TriggerIsLater
<1> HIDE DEF fired
<1>2. event \in Chip /\ event.crb = fired.crb
  BY <1>1 DEF Chip, Flip
<1>3. Later(fired, event)
  <2>1. SamePb7(fired, event) /\ event.intDelay = fired.intDelay
        /\ event.intLow = fired.intLow
    BY <1>1 DEF Chip, SamePb7
  <2> QED
    BY <2>1, SameIsLater
<1> HIDE DEF event
<1>4. Later(event, DrivePin(event, pin, control))
  BY <1>1, <1>2, DrivePinIsLater
<1>5. Later(c, DrivePin(event, pin, control))
  BY <1>1, <1>3, <1>4, LaterIsTransitive
<1> QED
  BY <1>5 DEF event, fired

LEMMA ClockTimersIsLater ==
  ASSUME NEW c \in Chip
  PROVE  Later(c, ClockTimerA(c)) /\ Later(c, ClockTimerB(c))
<1> DEFINE tickedA == [c EXCEPT !.ta = TickTimer(@)]
           tickedB == [c EXCEPT !.tb = TickTimer(@)]
           eventA == [Trigger(tickedA, "A") EXCEPT !.toggle = Flip(@, "PB6")]
           eventB == [Trigger(tickedB, "B") EXCEPT !.toggle = Flip(@, "PB7")]
<1>1. TickTimer(c.ta) \in Timer /\ TickTimer(c.tb) \in Timer
  BY TimerOperationsAreTyped DEF Chip
<1>2. tickedA \in Chip /\ tickedB \in Chip /\ tickedB.crb = c.crb
  BY <1>1 DEF Chip
<1>3. Later(c, tickedA) /\ Later(c, tickedB)
  <2>1. /\ SamePb7(c, tickedA) /\ tickedA.intDelay = c.intDelay /\ tickedA.intLow = c.intLow
        /\ SamePb7(c, tickedB) /\ tickedB.intDelay = c.intDelay /\ tickedB.intLow = c.intLow
    BY DEF Chip, SamePb7
  <2> HIDE DEF tickedA, tickedB
  <2> QED
    BY <2>1, SameIsLater
<1> HIDE DEF tickedA, tickedB
<1>4. /\ "A" \in Sources /\ "B" \in Sources /\ "PB6" \in Pins /\ "PB7" \in Pins
      /\ "PB6" # "PB7"
  BY DEF Sources, Pins
<1>5. /\ Later(tickedA, DrivePin(eventA, "PB6", c.cra))
      /\ DrivePin(eventA, "PB6", c.cra) \in Chip
      /\ Later(tickedB, DrivePin(eventB, "PB7", c.crb))
  BY <1>2, <1>4, TimerEventIsTyped, TimerEventIsLater
<1>6. /\ ClockTimerA(c) = IF Underflows(c.ta)
                          THEN ShiftSerial(DrivePin(eventA, "PB6", c.cra)) ELSE tickedA
      /\ ClockTimerB(c) = IF Underflows(c.tb)
                          THEN DrivePin(eventB, "PB7", c.crb) ELSE tickedB
  BY DEF ClockTimerA, ClockTimerB, tickedA, tickedB
<1> HIDE DEF eventA, eventB
<1> QED
  BY <1>3, <1>5, <1>6, ShiftSerialIsLater, LaterIsTransitive

\* The pulse that ends takes its pin down with it
LEMMA EndPulsesIsLater ==
  ASSUME NEW c \in Chip
  PROVE  Later(c, EndPulses(c))
<1> DEFINE d == EndPulses(c)
           n == c.pulse["PB7"]
<1>1. /\ d.crb = c.crb /\ d.intDelay = c.intDelay /\ d.intLow = c.intLow
      /\ d.out = c.out \ {p \in Pins : c.pulse[p] = 1}
      /\ d.pulse = [p \in Pins |-> IF c.pulse[p] = 0 THEN 0 ELSE c.pulse[p] - 1]
  BY DEF EndPulses, Chip
<1>2. "PB7" \in Pins /\ n \in 0 .. 2
  BY DEF Chip, Pins
<1> HIDE DEF d
<1>3. ("PB7" \in d.out <=> "PB7" \in c.out /\ n # 1)
      /\ d.pulse["PB7"] = (IF n = 0 THEN 0 ELSE n - 1)
  BY <1>1, <1>2
<1> HIDE DEF n
<1>4. (d.pulse["PB7"] # 0) <=> (n # 0 /\ n # 1)
  BY <1>2, <1>3
<1>5. Pb7Pulses(c) => Pb7Pulses(d)
  BY <1>1, <1>3, <1>4 DEF Pb7Pulses, n
<1> QED
  BY <1>1, <1>5 DEF Later, d

LEMMA ClockTodIsLater ==
  ASSUME NEW c \in Chip
  PROVE  Later(c, ClockTod(c))
<1>1. ASSUME NEW n \in Nat
      PROVE  LET d == [c EXCEPT !.todCycles = n] IN d \in Chip /\ Later(c, d)
  <2> DEFINE d == [c EXCEPT !.todCycles = n]
  <2>1. d \in Chip /\ SamePb7(c, d) /\ d.intDelay = c.intDelay /\ d.intLow = c.intLow
    BY DEF Chip, SamePb7
  <2> HIDE DEF d
  <2>2. Later(c, d)
    BY <2>1, SameIsLater
  <2> QED
    BY <2>1, <2>2 DEF d
<1>2. ASSUME NEW d \in Chip
      PROVE  Later(d, TodTick(d))
  <2> DEFINE next == NextTenth(d.tod)
             moved == [d EXCEPT !.tod = next]
  <2>1. next \in Time
    BY NextTenthIsTyped DEF Chip
  <2>2. TodTick(d) = d \/ TodTick(d) = moved \/ TodTick(d) = Trigger(moved, "Alarm")
    <3>1. (moved.tod = d.todAlarm \/ moved.tod # d.todAlarm) /\ (d.todHalted \/ ~d.todHalted)
      OBVIOUS
    <3> QED
      BY <3>1 DEF TodTick
  <2> HIDE DEF next
  <2>3. moved \in Chip /\ SamePb7(d, moved) /\ moved.intDelay = d.intDelay
        /\ moved.intLow = d.intLow
    BY <2>1 DEF Chip, SamePb7
  <2> HIDE DEF moved
  <2>4. Later(d, moved) /\ Later(d, d) /\ "Alarm" \in Sources
    BY <2>3, SameIsLater DEF Sources, Later
  <2>5. Later(moved, Trigger(moved, "Alarm"))
    BY <2>3, <2>4, TriggerIsLater
  <2> QED
    BY <2>2, <2>4, <2>5, LaterIsTransitive
<1> DEFINE zero == [c EXCEPT !.todCycles = 0]
           more == [c EXCEPT !.todCycles = c.todCycles + 1]
<1>3. zero \in Chip /\ Later(c, zero) /\ Later(c, more)
  <2>1. 0 \in Nat /\ c.todCycles + 1 \in Nat
    BY DEF Chip
  <2> QED
    BY <1>1, <2>1
<1>4. ClockTod(c) = TodTick(zero) \/ ClockTod(c) = more
  BY DEF ClockTod
<1> HIDE DEF zero, more
<1> QED
  BY <1>2, <1>3, <1>4, LaterIsTransitive

\* One clock: the pulse of PB7 is kept, the first stage becomes the second and
\* the second lowers the line, which nothing but a read of the ICR releases
LEMMA TickChipMovesOn ==
  ASSUME NEW c \in Chip
  PROVE  LET d == TickChip(c)
         IN  /\ Pb7Pulses(c) => Pb7Pulses(d)
             /\ c.intLow \/ "Next" \in c.intDelay => d.intLow
             /\ "Now" \in c.intDelay => "Next" \in d.intDelay
<1> DEFINE counted == CountCnt(c)
           clockedA == ClockTimerA(counted)
           clockedB == ClockTimerB(clockedA)
           fed == FeedTimerB(clockedB, Underflows(counted.ta))
           ended == EndPulses(fed)
           delayed == DelayInterrupt(ended)
<1>1. counted \in Chip /\ Later(c, counted)
  <2>1. SamePb7(c, counted) /\ counted.intDelay = c.intDelay /\ counted.intLow = c.intLow
    BY DEF SamePb7, CountCnt, Chip
  <2> QED
    BY <2>1, SameIsLater, CountCntIsTyped
<1>2. clockedA \in Chip /\ Later(c, clockedA)
  BY <1>1, ClockTimersIsTyped, ClockTimersIsLater, LaterIsTransitive
<1>3. clockedB \in Chip /\ Later(c, clockedB)
  BY <1>2, ClockTimersIsTyped, ClockTimersIsLater, LaterIsTransitive
<1> HIDE DEF clockedB
<1>4. fed \in Chip /\ Later(c, fed)
  <2>1. Underflows(counted.ta) \in BOOLEAN
    BY DEF Underflows
  <2>2. fed \in Chip
    BY <1>3, <2>1, FeedTimerBIsTyped
  <2>3. SamePb7(clockedB, fed) /\ fed.intDelay = clockedB.intDelay
        /\ fed.intLow = clockedB.intLow
    BY <1>3 DEF SamePb7, FeedTimerB, Chip
  <2> HIDE DEF fed
  <2> QED
    BY <1>3, <2>2, <2>3, SameIsLater, LaterIsTransitive
<1> HIDE DEF fed
<1>5. ended \in Chip /\ Later(c, ended)
  BY <1>4, EndPulsesIsTyped, EndPulsesIsLater, LaterIsTransitive
<1> HIDE DEF ended
<1>6. /\ delayed \in Chip /\ (Pb7Pulses(ended) => Pb7Pulses(delayed))
      /\ ended.intLow \/ "Next" \in ended.intDelay => delayed.intLow
      /\ "Now" \in ended.intDelay => "Next" \in delayed.intDelay
  <2>1. SamePb7(ended, delayed)
    BY <1>5 DEF SamePb7, DelayInterrupt, Chip
  <2>2. /\ delayed.intLow = (ended.intLow \/ "Next" \in ended.intDelay)
        /\ delayed.intDelay = IF "Now" \in ended.intDelay THEN {"Next"} ELSE {}
    BY <1>5 DEF DelayInterrupt, Chip
  <2> QED
    BY <1>5, <2>1, <2>2, SamePb7Pulses, DelayInterruptIsTyped
<1> HIDE DEF delayed
<1>7. Later(delayed, ClockTod(delayed))
  BY <1>6, ClockTodIsLater
<1>8. TickChip(c) = ClockTod(delayed)
  BY DEF TickChip, delayed, ended, fed, clockedB
<1> QED
  BY <1>5, <1>6, <1>7, <1>8 DEF Later

\* What an access or an input may do to the pin of timer B: CRB alone moves it
LEMMA AccessKeepsPb7 ==
  ASSUME NEW c \in Chip, Pb7Pulses(c)
  PROVE  /\ \A reg : Pb7Pulses(ReadEffect(c, reg))
         /\ \A w \in RegisterWrites : Pb7Pulses(WriteEffect(c, w.reg, w.value))
         /\ \A input \in {"CntLow", "CntHigh", "FlagLow", "FlagHigh"} :
              Pb7Pulses(InputEffect(c, input))
         /\ Pb7Pulses(Shown(c))
<1>1. ASSUME NEW reg
      PROVE  Pb7Pulses(ReadEffect(c, reg))
  <2>1. SamePb7(c, ReadEffect(c, reg))
    BY DEF SamePb7, ReadEffect, ReadIcr, ReadTodHours, ReadTodTenths, Chip
  <2> QED
    BY <2>1, SamePb7Pulses
<1>2. ASSUME NEW w \in RegisterWrites
      PROVE  Pb7Pulses(WriteEffect(c, w.reg, w.value))
  <2> DEFINE after == WriteEffect(c, w.reg, w.value)
  <2>1. CASE w.reg \in {"SetIMR", "ClearIMR", "Port", "SDR", "TALo", "TAHi", "TBLo", "TBHi"}
    <3>1. SamePb7(c, after)
      BY <2>1 DEF SamePb7, WriteEffect, WriteImr, Chip
    <3> QED
      BY <3>1, SamePb7Pulses
  <2>2. CASE w.reg \in {"TodTenths", "TodRest", "TodHours"}
    <3>1. SamePb7(c, after)
      BY <2>2 DEF SamePb7, WriteEffect, WriteTodTenths, WriteTodRest, WriteTodHours, Chip
    <3> QED
      BY <3>1, SamePb7Pulses
  <2>3. CASE w.reg = "CRA"
    <3>1. after.crb = c.crb /\ after.pulse = c.pulse
      BY <2>3 DEF WriteEffect, WriteCra, SelectPin, Chip
    <3>2. after.out \in {c.out, c.out \cup {"PB6"}, c.out \ {"PB6"}}
      BY <2>3 DEF WriteEffect, WriteCra, SelectPin, SetIf, Chip
    <3>3. "PB7" \in after.out <=> "PB7" \in c.out
      BY <3>2
    <3> QED
      BY <3>1, <3>3, SamePb7Pulses DEF SamePb7
  <2>4. CASE w.reg = "CRB"
    <3> DEFINE v == w.value
    <3>1. after.crb = v \ {"Load"} /\ after.pulse = c.pulse
      BY <2>4 DEF WriteEffect, WriteCrb, SelectPin, Chip
    <3>2. "PBOn" \in v /\ "Toggle" \notin v =>
            after.out = SetIf(c.out, "PB7", c.pulse["PB7"] # 0)
      BY <2>4 DEF WriteEffect, WriteCrb, SelectPin, Chip
    <3> HIDE DEF after, v
    <3> QED
      BY <3>1, <3>2 DEF Pb7Pulses, SetIf, after, v
  <2> QED
    BY <2>1, <2>2, <2>3, <2>4 DEF RegisterWrites
<1>3. ASSUME NEW input \in {"CntLow", "CntHigh", "FlagLow", "FlagHigh"}
      PROVE  Pb7Pulses(InputEffect(c, input))
  <2>1. SamePb7(c, InputEffect(c, input))
    BY DEF SamePb7, InputEffect, SetCnt, SetFlag, Trigger, Chip
  <2> QED
    BY <2>1, SamePb7Pulses
<1>4. Pb7Pulses(Shown(c))
  <2>1. SamePb7(c, Shown(c))
    BY DEF SamePb7, Shown, Chip
  <2> QED
    BY <2>1, SamePb7Pulses
<1> QED
  BY <1>1, <1>2, <1>3, <1>4

\* In pulse mode PB7 is high exactly in the clock of its pulse, whatever CRB was
\* before and whichever timer event or write comes in between (tick, io_write).
THEOREM Pb7IsAPulse == Spec => []Pb7PulsesOneClock
<1> USE DEF InterruptInvariant, TypeOK
<1>1. Pb7PulsesOneClock <=> Pb7Pulses(chip)
  BY DEF Pb7PulsesOneClock, PulseOneClock, Pb7Pulses
<1>2. Init => Pb7PulsesOneClock
  <2> SUFFICES ASSUME Init PROVE Pb7Pulses(chip)
    BY <1>1
  <2>1. PICK c \in Starts : chip = Shown(c)
    BY DEF Init
  <2>2. c \in Chip /\ Pb7Pulses(c)
    <3>1. c \in Chip /\ c.out = {} /\ c.pulse["PB7"] = 0
      BY CiaAccessAssumption DEF Pins
    <3> QED
      BY <3>1 DEF Pb7Pulses
  <2> QED
    BY <2>1, <2>2, AccessKeepsPb7
<1>3. InterruptInvariant /\ Pb7PulsesOneClock /\ [Next]_vars => Pb7PulsesOneClock'
  <2> SUFFICES ASSUME chip \in Chip, Pb7Pulses(chip), [Next]_vars
               PROVE  Pb7Pulses(chip')
    BY <1>1 DEF Pb7PulsesOneClock, PulseOneClock, Pb7Pulses
  <2> DEFINE now == TickChip(chip)
  <2>1. now \in Chip /\ Pb7Pulses(now)
    BY TickChipIsTyped, TickChipMovesOn
  <2> HIDE DEF now
  <2>2. CASE Cycle
    BY <2>1, <2>2, AccessKeepsPb7 DEF Cycle, now
  <2>3. ASSUME NEW reg \in Reads, ReadCycle(reg)
        PROVE  Pb7Pulses(chip')
    <3>1. chip' = Shown(ReadEffect(now, reg))
      BY <2>3 DEF ReadCycle, now
    <3>2. ReadEffect(now, reg) \in Chip /\ Pb7Pulses(ReadEffect(now, reg))
      BY <2>1, ReadEffectIsTyped, AccessKeepsPb7
    <3> QED
      BY <3>1, <3>2, AccessKeepsPb7
  <2>4. ASSUME NEW w \in Writes, WriteCycle(w)
        PROVE  Pb7Pulses(chip')
    <3>1. chip' = Shown(WriteEffect(now, w.reg, w.value)) /\ w \in RegisterWrites
      BY <2>4, CiaAccessAssumption DEF WriteCycle, now
    <3>2. /\ WriteEffect(now, w.reg, w.value) \in Chip
          /\ Pb7Pulses(WriteEffect(now, w.reg, w.value))
      BY <2>1, <3>1, WriteEffectIsTyped, AccessKeepsPb7
    <3> QED
      BY <3>1, <3>2, AccessKeepsPb7
  <2>5. ASSUME NEW input \in Inputs, Input(input)
        PROVE  Pb7Pulses(chip')
    <3>1. chip' = InputEffect(chip, input)
          /\ input \in {"CntLow", "CntHigh", "FlagLow", "FlagHigh"}
      BY <2>5, CiaAccessAssumption DEF Input
    <3> QED
      BY <3>1, AccessKeepsPb7
  <2>6. CASE UNCHANGED vars
    BY <2>6 DEF vars
  <2> QED
    BY <2>2, <2>3, <2>4, <2>5, <2>6 DEF Next
<1> QED
  BY <1>2, <1>3, InterruptInit, InterruptStep, PTL DEF Spec

\* A program that leaves the chip alone is interrupted in the second cycle after
\* the event at the latest, whichever mask, timers and inputs brought it about.
THEOREM InterruptsArrive == Spec => InterruptArrives
<1> DEFINE Arrives ==
      accesses' = accesses =>
        /\ chip.icr \cap chip.imr # {} => line' \/ "Next" \in chip'.intDelay
        /\ "Next" \in chip.intDelay => line'
<1>1. InterruptInvariant /\ [Next]_vars => [Arrives]_vars
  <2> SUFFICES ASSUME InterruptInvariant, Next, accesses' = accesses
               PROVE  /\ chip.icr \cap chip.imr # {} => line' \/ "Next" \in chip'.intDelay
                      /\ "Next" \in chip.intDelay => line'
    OBVIOUS
  <2>1. chip \in Chip /\ accesses \in Nat /\ Delivers(chip)
    BY CiaAccessAssumption DEF InterruptInvariant, TypeOK, NoLostInterrupt
  <2>2. ~CountAccess
    BY <2>1 DEF CountAccess
  <2>3. Cycle
    BY <2>2 DEF Next, ReadCycle, WriteCycle, Input
  <2> DEFINE now == TickChip(chip)
  <2>4. line' = now.intLow /\ chip' = Shown(now) /\ now \in Chip
    BY <2>1, <2>3, TickChipIsTyped DEF Cycle, Clock
  <2>5. /\ chip.intLow \/ "Next" \in chip.intDelay => now.intLow
        /\ "Now" \in chip.intDelay => "Next" \in now.intDelay
    BY <2>1, TickChipMovesOn
  <2> HIDE DEF now
  <2>6. chip'.intDelay = now.intDelay
    BY <2>4 DEF Shown, Chip
  <2>7. chip.intDelay # {} => "Now" \in chip.intDelay \/ "Next" \in chip.intDelay
    BY <2>1 DEF Chip
  <2> QED
    BY <2>1, <2>4, <2>5, <2>6, <2>7 DEF Delivers
<1> QED
  BY <1>1, InterruptInit, InterruptStep, PTL DEF Spec, InterruptArrives

-----------------------------------------------------------------------------
(***************************************************************************)
(* Part three: a scheduled chip beside it                                  *)
(***************************************************************************)

LEMMA AllowanceIsPositive ==
  ASSUME NEW c \in Chip
  PROVE  /\ GenericQuiet(c) \in Nat
         /\ TodLeft(c) \in Nat \ {0}
         /\ Allowance(c) \in Nat \ {0}
         /\ GenericQuiet(c) # 0 => Allowance(c) = Least(TodLeft(c), GenericQuiet(c))
<1>1. /\ c.ta.counter \in Nat /\ c.tb.counter \in Nat /\ Forever \in Nat
      /\ c.todCycles \in Nat /\ TodPeriod(c) \in Nat
  BY MaxCountIsNat, CiaTimerAssumption, Mos6526Assumption DEF Chip, Timer, TodPeriod
<1>2. QuietClocks(c.ta) \in Nat /\ QuietClocks(c.tb) \in Nat
  BY <1>1 DEF QuietClocks
<1>3. GenericQuiet(c) \in Nat
  BY <1>2 DEF GenericQuiet, Least
<1>4. TodLeft(c) \in Nat \ {0}
  BY <1>1 DEF TodLeft
<1> QED
  BY <1>3, <1>4 DEF Allowance, TodBound, Least

LEMMA SkipNothing ==
  ASSUME NEW c \in Chip
  PROVE  SkipChip(c, 0) = c
<1>1. c.ta \in Timer /\ c.tb \in Timer /\ c.todCycles \in Nat
  BY DEF Chip
<1>2. \A t \in Timer : SkipTimer(t, 0) = t
  <2>1. \A t \in Timer : t.counter \in Nat /\ t.counter - 0 = t.counter
    BY MaxCountIsNat DEF Timer
  <2> QED
    BY <2>1 DEF SkipTimer, Timer
<1> DEFINE ta == SkipTimer(c.ta, 0)
           tb == SkipTimer(c.tb, 0)
           cycles == c.todCycles + 0
<1>3. ta = c.ta /\ tb = c.tb /\ cycles = c.todCycles
  BY <1>1, <1>2
<1>4. SkipChip(c, 0) = [c EXCEPT !.ta = ta, !.tb = tb, !.todCycles = cycles]
  BY DEF SkipChip
<1> HIDE DEF ta, tb, cycles
<1> QED
  BY <1>3, <1>4 DEF Chip

\* A pass of catch_up over a chip without a cascade: the bulk, or one clock
LEMMA PassWithoutCascade ==
  ASSUME NEW c \in Chip, NEW n \in Nat, "TimerA" \notin c.crb
  PROVE  CatchUpPass(c, n) = GeneralPass(c, n)
<1>1. ~Cascading(c)
  BY DEF Cascading, CascadeShape
<1>2. CascadeSkip(c, n) = [chip |-> c, clocks |-> 0]
  BY <1>1 DEF CascadeSkip
<1> QED
  BY <1>2 DEF CatchUpPass, FirstOf

LEMMA PassOfOneClock ==
  ASSUME NEW c \in Chip, "TimerA" \notin c.crb
  PROVE  CatchUpPass(c, 1) = [chip |-> TickChip(c), clocks |-> 1]
<1> DEFINE quiet == Quiet(c)
<1>1. quiet \in Nat
  BY AllowanceIsPositive DEF Allowance, Quiet
<1>2. CASE quiet > 1
  <2>1. Least(1, quiet - 1) = 1
    BY <1>1, <1>2 DEF Least
  <2>2. GenericQuiet(c) > 1 /\ TodLeft(c) > 1
    BY <1>2, AllowanceIsPositive DEF Quiet, TodBound, Least
  <2>3. CatchUpPass(c, 1) = [chip |-> SkipChip(c, 1), clocks |-> 1]
    BY <1>2, <2>1, PassWithoutCascade DEF GeneralPass
  <2> QED
    BY <2>2, <2>3, QuietTickIsSkip
<1>3. CASE quiet <= 1
  BY <1>1, <1>3, PassWithoutCascade DEF GeneralPass
<1> QED
  BY <1>1, <1>2, <1>3

\* What a catch up gives: the skipped chip before its event is due, one clock
\* of it when the event is due.
LEMMA CaughtUp ==
  ASSUME NEW c \in Chip, "TimerA" \notin c.crb, NEW n \in Nat, n <= Allowance(c)
  PROVE  /\ n < Allowance(c) => Present(c, n) = SkipChip(c, n)
         /\ n = Allowance(c) => Present(c, n) = TickChip(SkipChip(c, n - 1))
<1> DEFINE quiet == Quiet(c)
<1>1. Allowance(c) \in Nat \ {0} /\ GenericQuiet(c) \in Nat
      /\ quiet \in Nat /\ (quiet > 1 => Allowance(c) = quiet /\ GenericQuiet(c) # 0)
      /\ (quiet <= 1 => Allowance(c) = 1)
  BY AllowanceIsPositive DEF Allowance, Quiet
<1>2. CASE n = 0
  BY <1>1, <1>2, SkipNothing DEF Present
<1>3. CASE n # 0 /\ n < Allowance(c)
  <2>1. quiet > 1 /\ Least(n, quiet - 1) = n
    BY <1>1, <1>3 DEF Least
  <2>2. CatchUpPass(c, n) = [chip |-> SkipChip(c, n), clocks |-> n]
    BY <2>1, PassWithoutCascade DEF GeneralPass
  <2> QED
    BY <1>1, <1>3, <2>2 DEF Present, SecondPass
<1>4. CASE n = Allowance(c) /\ quiet <= 1
  <2>1. n = 1 /\ n - 1 = 0
    BY <1>1, <1>4
  <2>2. Present(c, n) = TickChip(c)
    BY <2>1, PassOfOneClock DEF Present, SecondPass
  <2> QED
    BY <1>1, <1>4, <2>1, <2>2, SkipNothing
<1>5. CASE n = Allowance(c) /\ quiet > 1
  <2> DEFINE d == SkipChip(c, n - 1)
  <2>1. n > 1 /\ n - 1 \in Nat /\ n - 1 # n /\ n - (n - 1) = 1 /\ Least(n, quiet - 1) = n - 1
    BY <1>1, <1>5 DEF Least
  <2>2. CatchUpPass(c, n) = [chip |-> d, clocks |-> n - 1]
    BY <1>5, <2>1, PassWithoutCascade DEF GeneralPass
  <2>3. n - 1 < TodBound(c, GenericQuiet(c))
    BY <1>1, <1>5, <2>1 DEF Quiet
  <2>4. d \in Chip /\ "TimerA" \notin d.crb
    BY <1>1, <1>5, <2>1, <2>3, SkipRunsDown
  <2>5. CatchUpPass(d, 1) = [chip |-> TickChip(d), clocks |-> 1]
    BY <2>4, PassOfOneClock
  <2> HIDE DEF d
  <2>6. Present(c, n) = TickChip(d)
    BY <2>1, <2>2, <2>5 DEF Present, SecondPass
  <2> QED
    BY <1>1, <1>5, <2>6 DEF d
<1> QED
  BY <1>1, <1>2, <1>3, <1>4, <1>5

\* A cycle in which the chip is left alone
LEMMA LeftAlone ==
  ASSUME NEW c \in Chip, NEW n \in Nat, n + 1 < Allowance(c)
  PROVE  /\ SkipChip(c, n) \in Chip
         /\ TickChip(SkipChip(c, n)) = SkipChip(c, n + 1)
         /\ SkipChip(c, n + 1) \in Chip /\ SkipChip(c, n + 1).crb = c.crb
         /\ Allowance(SkipChip(c, n + 1)) >= Allowance(c) - (n + 1)
<1> DEFINE d == SkipChip(c, n)
           e == SkipChip(c, n + 1)
<1>1. /\ GenericQuiet(c) \in Nat /\ GenericQuiet(c) # 0 /\ TodLeft(c) \in Nat
      /\ Allowance(c) = TodBound(c, GenericQuiet(c))
      /\ Allowance(c) = Least(TodLeft(c), GenericQuiet(c))
  BY AllowanceIsPositive DEF Allowance
<1>2. n + 1 \in Nat /\ n < Allowance(c)
  BY <1>1 DEF Least
<1>3. /\ d \in Chip /\ SkipChip(d, 1) = e
      /\ GenericQuiet(d) \in Nat /\ GenericQuiet(d) >= GenericQuiet(c) - n
      /\ TodLeft(d) = TodLeft(c) - n
  BY <1>1, <1>2, SkipRunsDown
<1>4. /\ e \in Chip /\ e.crb = c.crb
      /\ GenericQuiet(e) \in Nat /\ GenericQuiet(e) # 0
      /\ GenericQuiet(e) >= GenericQuiet(c) - (n + 1)
      /\ TodLeft(e) = TodLeft(c) - (n + 1)
  BY <1>1, <1>2, SkipRunsDown
<1> HIDE DEF d, e
<1>5. GenericQuiet(d) > 1 /\ TodLeft(d) > 1
  BY <1>1, <1>3 DEF Least
<1>6. TickChip(d) = e
  BY <1>3, <1>5, QuietTickIsSkip
<1>7. Allowance(e) >= Allowance(c) - (n + 1)
  <2>1. Allowance(e) = Least(TodLeft(e), GenericQuiet(e))
    BY <1>4, AllowanceIsPositive
  <2> QED
    BY <1>1, <1>2, <1>4, <2>1 DEF Least
<1> QED
  BY <1>3, <1>4, <1>6, <1>7 DEF d, e

\* A read never makes a chip due earlier
LEMMA ReadKeepsAllowance ==
  ASSUME NEW c \in Chip, NEW reg
  PROVE  Allowance(ReadEffect(c, reg)) >= Allowance(c)
<1> DEFINE d == ReadEffect(c, reg)
<1>1. d \in Chip
  BY ReadEffectIsTyped
<1>2. /\ d.ta = c.ta /\ d.tb = c.tb /\ d.cra = c.cra /\ d.todCycles = c.todCycles
      /\ d.pulse = c.pulse /\ d.cnt = c.cnt /\ d.cntPrev = c.cntPrev
      /\ d.serialPending = c.serialPending /\ d.serialBits = c.serialBits
      /\ d.intDelay = c.intDelay \/ d.intDelay = {}
  BY DEF ReadEffect, ReadIcr, ReadTodHours, ReadTodTenths, Chip
<1> HIDE DEF d
<1>3. TodLeft(d) = TodLeft(c)
  BY <1>2 DEF TodLeft, TodPeriod
<1>4. InFlight(d) => InFlight(c)
  BY <1>2 DEF InFlight
<1>5. GenericQuiet(c) # 0 => GenericQuiet(d) = GenericQuiet(c)
  BY <1>2, <1>4 DEF GenericQuiet
<1>6. /\ Allowance(d) \in Nat \ {0} /\ Allowance(c) \in Nat \ {0}
      /\ GenericQuiet(c) = 0 => Allowance(c) = 1
  BY <1>1, AllowanceIsPositive DEF Allowance
<1>7. GenericQuiet(c) # 0 => Allowance(d) = Allowance(c)
  BY <1>3, <1>5 DEF Allowance, TodBound
<1> QED
  BY <1>6, <1>7 DEF d

\* cycles_to_event() of a chip without a cascade is its allowance
LEMMA ScheduleIsAllowance ==
  ASSUME NEW c \in Chip, "TimerA" \notin c.crb
  PROVE  CyclesToEvent(c) = Allowance(c)
<1>1. CascadeQuiet(c) = 0
  BY DEF CascadeQuiet, Cascading, CascadeShape
<1>2. InFlight(c) => GenericQuiet(c) = 0
  BY DEF GenericQuiet
<1> QED
  BY <1>1, <1>2 DEF CyclesToEvent, Allowance

-----------------------------------------------------------------------------
(***************************************************************************)
(* The loop of catch_up: the function CatchUp is defined by exists, and    *)
(* after two passes nothing is left to apply.                              *)
(***************************************************************************)

Below == {p \in Nat \X Nat : p[1] < p[2]}

\* What holds at 0 and passes from each number to the next holds up to n
LEMMA IntervalInduction ==
  ASSUME NEW n \in Nat, NEW S, 0 \in S,
         \A k \in 0 .. n - 1 : k \in S => k + 1 \in S
  PROVE  \A k \in 0 .. n : k \in S
<1> DEFINE Bad == {k \in 0 .. n : k \notin S}
<1>1. IsWellFoundedOn(Below, Nat)
  BY NatLessThanWellFounded DEF OpToRel, Below
<1> SUFFICES ASSUME Bad # {} PROVE FALSE
  OBVIOUS
<1>2. PICK k \in Bad : \A j \in Bad : ~(<<j, k>> \in Below)
  <2>1. Bad \subseteq Nat
    OBVIOUS
  <2> HIDE DEF Bad
  <2> QED
    BY <1>1, <2>1, WFMin
<1>3. k # 0 /\ k \in 0 .. n /\ k \notin S
  OBVIOUS
<1>4. k - 1 \in 0 .. n - 1 /\ k - 1 + 1 = k /\ k - 1 \in 0 .. n
  BY <1>3
<1>5. k - 1 \in Bad
  BY <1>3, <1>4
<1>6. <<k - 1, k>> \in Below
  BY <1>3, <1>4 DEF Below
<1> QED
  BY <1>2, <1>5, <1>6

\* The first k passes over a chip that is n clocks behind
IsLoop(f, c, n, k) ==
  f = [i \in 0 .. k |-> IF i = 0 THEN [chip |-> c, left |-> n] ELSE NextPass(f[i - 1])]

LEMMA LoopExists ==
  ASSUME NEW c, NEW n \in Nat
  PROVE  \E f : /\ f[0] = [chip |-> c, left |-> n]
                /\ \A i \in 0 .. n - 1 : f[i + 1] = NextPass(f[i])
                /\ CatchUp(c, n) = f[n].chip
<1> DEFINE start == [chip |-> c, left |-> n]
           S == {k \in 0 .. n : \E f : IsLoop(f, c, n, k)}
<1>1. 0 \in S
  <2>1. IsLoop([i \in 0 .. 0 |-> start], c, n, 0)
    BY DEF IsLoop
  <2> QED
    BY <2>1
<1>2. ASSUME NEW k \in 0 .. n - 1, k \in S
      PROVE  k + 1 \in S
  <2>1. PICK f : IsLoop(f, c, n, k)
    BY <1>2
  <2> DEFINE g == [i \in 0 .. k + 1 |-> IF i = k + 1 THEN NextPass(f[k]) ELSE f[i]]
  <2>2. \A i \in 0 .. k : f[i] = IF i = 0 THEN start ELSE NextPass(f[i - 1])
    <3> HIDE DEF g
    <3> QED
      BY <2>1 DEF IsLoop
  <2>3. ASSUME NEW i \in 0 .. k + 1
        PROVE  g[i] = IF i = 0 THEN start ELSE NextPass(g[i - 1])
    <3>1. CASE i = k + 1
      <4>1. g[i] = NextPass(f[k]) /\ i # 0 /\ i - 1 = k /\ g[k] = f[k]
        BY <3>1
      <4> QED
        BY <3>1, <4>1
    <3>2. CASE i # k + 1
      <4>1. i \in 0 .. k /\ g[i] = f[i]
        BY <3>2
      <4>2. i # 0 => i - 1 \in 0 .. k + 1 /\ i - 1 # k + 1
        BY <4>1
      <4>3. i # 0 => g[i - 1] = f[i - 1]
        BY <4>2
      <4> QED
        BY <2>2, <4>1, <4>3
    <3> QED
      BY <3>1, <3>2
  <2>4. IsLoop(g, c, n, k + 1)
    <3>1. g = [i \in 0 .. k + 1 |-> g[i]]
      OBVIOUS
    <3> HIDE DEF g
    <3> QED
      BY <2>3, <3>1 DEF IsLoop
  <2>5. k + 1 \in 0 .. n
    OBVIOUS
  <2> HIDE DEF g
  <2> QED
    BY <2>4, <2>5
<1>3. \E f : IsLoop(f, c, n, n)
  <2>1. \A k \in 0 .. n : k \in S
    <3> HIDE DEF S
    <3> QED
      BY <1>1, <1>2, IntervalInduction
  <2> QED
    BY <2>1
<1> DEFINE F == CHOOSE f : IsLoop(f, c, n, n)
<1>4. IsLoop(F, c, n, n)
  BY <1>3
<1>5. CatchUp(c, n) = F[n].chip
  BY DEF CatchUp, IsLoop
<1> HIDE DEF F
<1>6. \A i \in 0 .. n : F[i] = IF i = 0 THEN start ELSE NextPass(F[i - 1])
  BY <1>4 DEF IsLoop
<1>7. \A i \in 0 .. n - 1 : F[i + 1] = NextPass(F[i])
  <2>1. \A i \in 0 .. n - 1 : i + 1 \in 0 .. n /\ i + 1 # 0 /\ i + 1 - 1 = i
    OBVIOUS
  <2> QED
    BY <1>6, <2>1
<1>8. F[0] = start
  BY <1>6
<1> QED
  BY <1>5, <1>7, <1>8

\* Once nothing is left, the passes that remain do nothing
LEMMA LoopStops ==
  ASSUME NEW f, NEW n \in Nat, NEW k \in 0 .. n,
         \A i \in 0 .. n - 1 : f[i + 1] = NextPass(f[i]),
         f[k].left = 0
  PROVE  f[n] = f[k]
<1> DEFINE S == {i \in 0 .. n : i >= k => f[i] = f[k]}
<1>1. 0 \in S
  OBVIOUS
<1>2. ASSUME NEW i \in 0 .. n - 1, i \in S
      PROVE  i + 1 \in S
  <2>1. i + 1 \in 0 .. n /\ (i + 1 >= k => i >= k \/ i + 1 = k)
    OBVIOUS
  <2>2. CASE i >= k
    <3>1. f[i + 1] = f[k]
      BY <1>2, <2>2 DEF NextPass
    <3> QED
      BY <2>1, <3>1
  <2>3. CASE ~(i >= k)
    BY <2>1, <2>3
  <2> QED
    BY <2>2, <2>3
<1>3. n \in S
  <2>1. \A i \in 0 .. n : i \in S
    <3> HIDE DEF S
    <3> QED
      BY <1>1, <1>2, IntervalInduction
  <2> QED
    BY <2>1
<1> QED
  BY <1>3

LEMMA LoopIsPresent ==
  ASSUME NEW c \in Chip, "TimerA" \notin c.crb, NEW n \in Nat, n <= Allowance(c)
  PROVE  CatchUp(c, n) = Present(c, n)
<1>1. PICK f : /\ f[0] = [chip |-> c, left |-> n]
               /\ \A i \in 0 .. n - 1 : f[i + 1] = NextPass(f[i])
               /\ CatchUp(c, n) = f[n].chip
  BY LoopExists
<1>2. CASE n = 0
  BY <1>1, <1>2 DEF Present
<1>3. CASE n # 0
  <2> DEFINE first == CatchUpPass(c, n)
             quiet == Quiet(c)
  <2>1. 0 \in 0 .. n - 1 /\ 1 \in 0 .. n /\ 0 + 1 = 1
    BY <1>3
  <2>2. f[1] = [chip |-> first.chip, left |-> n - first.clocks]
    <3>1. f[1] = NextPass(f[0])
      BY <1>1, <2>1
    <3> QED
      BY <1>1, <1>3, <3>1 DEF NextPass
  <2>3. /\ Allowance(c) \in Nat \ {0} /\ GenericQuiet(c) \in Nat
        /\ quiet \in Nat /\ (quiet > 1 => Allowance(c) = quiet /\ GenericQuiet(c) # 0)
        /\ (quiet <= 1 => Allowance(c) = 1)
    BY AllowanceIsPositive DEF Allowance, Quiet
  <2>4. first = GeneralPass(c, n)
    BY PassWithoutCascade
  <2>5. CASE first.clocks = n
    <3>1. f[1].left = 0
      BY <2>2, <2>5
    <3>2. f[n] = f[1]
      BY <1>1, <2>1, <3>1, LoopStops
    <3> QED
      BY <1>1, <1>3, <2>2, <2>5, <3>2 DEF Present, SecondPass
  <2>6. CASE first.clocks # n
    <3>1. quiet > 1
      <4>1. CASE quiet <= 1
        <5>1. n = 1 /\ first.clocks = 1
          BY <1>3, <2>3, <2>4, <4>1 DEF GeneralPass
        <5> QED
          BY <2>6, <5>1
      <4> QED
        BY <2>3, <4>1
    <3>2. first = [chip |-> SkipChip(c, Least(n, quiet - 1)), clocks |-> Least(n, quiet - 1)]
      BY <2>4, <3>1 DEF GeneralPass
    <3>3. Least(n, quiet - 1) = n - 1 /\ n = quiet /\ n - 1 \in Nat
      BY <2>3, <2>6, <3>1, <3>2 DEF Least
    <3> DEFINE d == SkipChip(c, n - 1)
    <3>4. first = [chip |-> d, clocks |-> n - 1] /\ n - (n - 1) = 1
      BY <3>2, <3>3
    <3>5. n - 1 < TodBound(c, GenericQuiet(c)) /\ GenericQuiet(c) # 0
      BY <2>3, <3>1, <3>3 DEF Quiet
    <3>6. d \in Chip /\ "TimerA" \notin d.crb
      BY <3>3, <3>5, SkipRunsDown
    <3>7. CatchUpPass(d, 1) = [chip |-> TickChip(d), clocks |-> 1]
      BY <3>6, PassOfOneClock
    <3>8. 1 \in 0 .. n - 1 /\ 2 \in 0 .. n /\ 1 + 1 = 2
      BY <3>1, <3>3
    <3> HIDE DEF d, first
    <3>9. f[1] = [chip |-> d, left |-> 1]
      BY <2>2, <3>4
    <3>10. f[2] = [chip |-> TickChip(d), left |-> 0]
      <4>1. f[2] = NextPass(f[1])
        BY <1>1, <3>8
      <4>2. NextPass(f[1]) = [chip |-> TickChip(d), left |-> 1 - 1]
        BY <3>7, <3>9 DEF NextPass
      <4> QED
        BY <4>1, <4>2
    <3>11. f[n] = f[2]
      <4>1. f[2].left = 0
        BY <3>10
      <4> QED
        BY <1>1, <3>8, <4>1, LoopStops
    <3>12. Present(c, n) = TickChip(d)
      BY <1>3, <2>6, <3>4, <3>7 DEF Present, SecondPass, first
    <3> QED
      BY <1>1, <3>10, <3>11, <3>12
  <2> QED
    BY <2>5, <2>6
<1> QED
  BY <1>2, <1>3

-----------------------------------------------------------------------------
(***************************************************************************)
(* The schedule of Bus::tick                                               *)
(***************************************************************************)

\* A catch up within the allowance, by the loop itself
LEMMA CatchUpIs ==
  ASSUME NEW c \in Chip, "TimerA" \notin c.crb, NEW n \in Nat
  PROVE  /\ n < Allowance(c) => CatchUp(c, n) = SkipChip(c, n)
         /\ n = Allowance(c) => CatchUp(c, n) = TickChip(SkipChip(c, n - 1))
<1>1. Allowance(c) \in Nat
  BY AllowanceIsPositive
<1> QED
  BY <1>1, CaughtUp, LoopIsPresent

\* One bus cycle up to the moment the CPU runs: the schedule finds the line of a
\* chip that is clocked, and a catch up would find that chip.
LEMMA CycleIsClock ==
  ASSUME ScheduleInvariant
  PROVE  LET now == TickChip(SkipChip(chip, behind))
         IN  /\ now \in Chip /\ now.crb = chip.crb
             /\ Clocked \in Chip /\ Clocked.crb = chip.crb
             /\ BehindInCycle \in Nat /\ NextWake \in Nat \ {0}
             /\ BehindInCycle + NextWake <= Allowance(Clocked)
             /\ NextWake <= Allowance(now)
             /\ now = SkipChip(Clocked, BehindInCycle)
             /\ now = CatchUp(Clocked, BehindInCycle)
             /\ now.intLow = Clocked.intLow
<1> DEFINE before == SkipChip(chip, behind)
           now == TickChip(before)
<1>1. /\ chip \in Chip /\ behind \in Nat /\ wake \in Nat \ {0}
      /\ behind + wake <= Allowance(chip) /\ "TimerA" \notin chip.crb
  BY DEF ScheduleInvariant, ScheduleTypeOK, InTime, NoCascade
<1>2. Allowance(chip) \in Nat \ {0}
  BY <1>1, AllowanceIsPositive
<1>3. before \in Chip /\ before.crb = chip.crb
  <2>1. CASE behind = 0
    BY <1>1, <2>1, SkipNothing
  <2>2. CASE behind # 0
    <3>1. behind - 1 \in Nat /\ behind - 1 + 1 = behind /\ behind < Allowance(chip)
      BY <1>1, <1>2, <2>2
    <3> QED
      BY <1>1, <3>1, LeftAlone
  <2> QED
    BY <2>1, <2>2
<1>4. now \in Chip /\ now.crb = chip.crb
  BY <1>3, TickChipIsTyped
<1>5. Allowance(now) \in Nat \ {0}
  BY <1>4, AllowanceIsPositive
<1>6. behind + 1 < Allowance(chip) =>
        /\ now = SkipChip(chip, behind + 1)
        /\ Allowance(now) >= Allowance(chip) - (behind + 1)
  BY <1>1, LeftAlone
<1>7. now = TickChip(SkipChip(chip, behind))
  OBVIOUS
<1> HIDE DEF now, before
<1>8. CASE Woken
  <2>1. behind + 1 <= Allowance(chip) /\ behind + 1 \in Nat /\ (behind + 1) - 1 = behind
    BY <1>1, <1>2, <1>8 DEF Woken
  <2>2. CatchUp(chip, behind + 1) = now
    <3>1. CASE behind + 1 < Allowance(chip)
      BY <1>1, <1>6, <2>1, <3>1, CatchUpIs
    <3>2. CASE behind + 1 = Allowance(chip)
      <4>1. CatchUp(chip, behind + 1) = TickChip(SkipChip(chip, (behind + 1) - 1))
        BY <1>1, <2>1, <3>2, CatchUpIs
      <4> QED
        BY <1>7, <2>1, <4>1
    <3> QED
      BY <1>2, <2>1, <3>1, <3>2
  <2>3. Clocked = now /\ BehindInCycle = 0
    BY <1>8, <2>2 DEF Clocked, BehindInCycle
  <2>4. NextWake = Allowance(now)
    BY <1>1, <1>4, <1>8, <2>3, ScheduleIsAllowance DEF NextWake
  <2>5. CatchUp(now, 0) = now /\ SkipChip(now, 0) = now
    BY <1>1, <1>4, <1>5, SkipNothing, CatchUpIs
  <2> QED
    BY <1>4, <1>5, <1>7, <2>3, <2>4, <2>5
<1>9. CASE ~Woken
  <2>1. /\ behind + 1 < Allowance(chip) /\ behind + 1 \in Nat
        /\ wake - 1 \in Nat \ {0} /\ (behind + 1) + (wake - 1) <= Allowance(chip)
        /\ wake - 1 <= Allowance(chip) - (behind + 1)
    BY <1>1, <1>2, <1>9 DEF Woken
  <2>2. Clocked = chip /\ BehindInCycle = behind + 1 /\ NextWake = wake - 1
    BY <1>9 DEF Clocked, BehindInCycle, NextWake
  <2>3. now = SkipChip(chip, behind + 1) /\ CatchUp(chip, behind + 1) = now
    BY <1>1, <1>6, <2>1, CatchUpIs
  <2>4. now.intLow = chip.intLow
    BY <1>1, <2>3 DEF SkipChip, Chip
  <2>5. wake - 1 <= Allowance(now)
    BY <1>2, <1>5, <1>6, <2>1
  <2> QED
    BY <1>1, <1>4, <1>7, <2>1, <2>2, <2>3, <2>4, <2>5
<1> QED
  BY <1>8, <1>9

\* The chip and the schedule after a cycle in which the CPU leaves the chip
\* alone, reads it, or writes it
LEMMA CycleKeepsSchedule ==
  ASSUME ScheduleInvariant, ScheduledCycle
  PROVE  /\ ScheduleInvariant'
         /\ line' = TickChip(SkipChip(chip, behind)).intLow
         /\ SkipChip(chip', behind') = TickChip(SkipChip(chip, behind))
<1> DEFINE now == TickChip(SkipChip(chip, behind))
<1>1. /\ now \in Chip /\ now.crb = chip.crb
      /\ Clocked \in Chip /\ Clocked.crb = chip.crb
      /\ BehindInCycle \in Nat /\ NextWake \in Nat \ {0}
      /\ BehindInCycle + NextWake <= Allowance(Clocked)
      /\ now = SkipChip(Clocked, BehindInCycle)
      /\ now.intLow = Clocked.intLow
  BY CycleIsClock
<1>2. "TimerA" \notin chip.crb /\ accesses \in 0 .. MaxAccesses
  BY DEF ScheduleInvariant, ScheduleTypeOK, NoCascade
<1>3. /\ chip' = Clocked /\ behind' = BehindInCycle /\ wake' = NextWake
      /\ accesses' = accesses /\ line' = Clocked.intLow
  BY DEF ScheduledCycle, Sampled
<1> HIDE DEF now
<1>4. ScheduleTypeOK'
  <2>1. line' \in BOOLEAN
    BY <1>1, <1>3 DEF Chip
  <2> QED
    BY <1>1, <1>2, <1>3, <2>1 DEF ScheduleTypeOK
<1>5. InTime' /\ NoCascade'
  BY <1>1, <1>2, <1>3 DEF InTime, NoCascade
<1>6. ScheduleInvariant'
  BY <1>4, <1>5 DEF ScheduleInvariant
<1> QED
  BY <1>1, <1>3, <1>6 DEF now

LEMMA ReadKeepsSchedule ==
  ASSUME ScheduleInvariant, NEW reg \in Reads, ScheduledRead(reg)
  PROVE  /\ ScheduleInvariant'
         /\ line' = TickChip(SkipChip(chip, behind)).intLow
         /\ SkipChip(chip', behind') = ReadEffect(TickChip(SkipChip(chip, behind)), reg)
<1> DEFINE now == TickChip(SkipChip(chip, behind))
           after == ReadEffect(now, reg)
<1>1. /\ now \in Chip /\ now.crb = chip.crb
      /\ Clocked \in Chip
      /\ NextWake \in Nat \ {0} /\ NextWake <= Allowance(now)
      /\ now = CatchUp(Clocked, BehindInCycle)
      /\ now.intLow = Clocked.intLow
  BY CycleIsClock
<1>2. /\ "TimerA" \notin chip.crb
      /\ accesses \in 0 .. MaxAccesses /\ MaxAccesses \in Nat
  BY CiaAccessAssumption DEF ScheduleInvariant, ScheduleTypeOK, NoCascade
<1>3. /\ chip' = ReadEffect(CatchUp(Clocked, BehindInCycle), reg)
      /\ behind' = 0 /\ wake' = NextWake /\ CountAccess /\ line' = Clocked.intLow
  BY DEF ScheduledRead, Sampled
<1> HIDE DEF now
<1>4. after \in Chip /\ after.crb = chip.crb /\ SkipChip(after, 0) = after
  BY <1>1, ReadEffectIsTyped, SkipNothing
<1>5. NextWake <= Allowance(after)
  <2>1. Allowance(after) >= Allowance(now)
    BY <1>1, ReadKeepsAllowance
  <2>2. Allowance(after) \in Nat /\ Allowance(now) \in Nat
    BY <1>1, <1>4, AllowanceIsPositive
  <2> QED
    BY <1>1, <2>1, <2>2
<1>6. chip' = after
  BY <1>1, <1>3
<1> HIDE DEF after
<1>7. ScheduleTypeOK'
  <2>1. line' \in BOOLEAN /\ accesses' \in 0 .. MaxAccesses
    BY <1>1, <1>2, <1>3 DEF Chip, CountAccess
  <2> QED
    BY <1>1, <1>3, <1>4, <1>6, <2>1 DEF ScheduleTypeOK
<1>8. InTime' /\ NoCascade'
  BY <1>1, <1>2, <1>3, <1>4, <1>5, <1>6 DEF InTime, NoCascade
<1>9. ScheduleInvariant'
  BY <1>7, <1>8 DEF ScheduleInvariant
<1> QED
  BY <1>1, <1>3, <1>4, <1>6, <1>9 DEF now, after

LEMMA WriteKeepsSchedule ==
  ASSUME ScheduleInvariant, NEW w \in PlainWrites, ScheduledWrite(w)
  PROVE  /\ ScheduleInvariant'
         /\ line' = TickChip(SkipChip(chip, behind)).intLow
         /\ SkipChip(chip', behind')
              = WriteEffect(TickChip(SkipChip(chip, behind)), w.reg, w.value)
<1> DEFINE now == TickChip(SkipChip(chip, behind))
           after == WriteEffect(now, w.reg, w.value)
<1>1. /\ now \in Chip /\ now.crb = chip.crb
      /\ Clocked \in Chip
      /\ now = CatchUp(Clocked, BehindInCycle)
      /\ now.intLow = Clocked.intLow
  BY CycleIsClock
<1>2. /\ "TimerA" \notin chip.crb
      /\ accesses \in 0 .. MaxAccesses /\ MaxAccesses \in Nat
  BY CiaAccessAssumption DEF ScheduleInvariant, ScheduleTypeOK, NoCascade
<1>3. /\ chip' = WriteEffect(CatchUp(Clocked, BehindInCycle), w.reg, w.value)
      /\ behind' = 0 /\ wake' = 1 /\ CountAccess /\ line' = Clocked.intLow
  BY DEF ScheduledWrite, Sampled
<1> HIDE DEF now
<1>4. w \in RegisterWrites /\ (w.reg = "CRB" => "TimerA" \notin w.value)
  BY CiaAccessAssumption DEF PlainWrites
<1>5. after \in Chip /\ "TimerA" \notin after.crb
  BY <1>1, <1>2, <1>4, WriteEffectIsTyped
<1>6. SkipChip(after, 0) = after /\ Allowance(after) \in Nat \ {0}
  BY <1>5, SkipNothing, AllowanceIsPositive
<1>7. chip' = after
  BY <1>1, <1>3
<1> HIDE DEF after
<1>8. ScheduleTypeOK'
  <2>1. line' \in BOOLEAN /\ accesses' \in 0 .. MaxAccesses
    BY <1>1, <1>2, <1>3 DEF Chip, CountAccess
  <2> QED
    BY <1>3, <1>5, <1>7, <2>1 DEF ScheduleTypeOK
<1>9. InTime' /\ NoCascade'
  BY <1>3, <1>5, <1>6, <1>7 DEF InTime, NoCascade
<1>10. ScheduleInvariant'
  BY <1>8, <1>9 DEF ScheduleInvariant
<1> QED
  BY <1>1, <1>3, <1>6, <1>7, <1>10 DEF now, after

\* A plain chip that starts is on schedule
LEMMA StartsOnSchedule ==
  ASSUME ScheduledInit, chip \in PlainStarts
  PROVE  ScheduleInvariant /\ SkipChip(chip, behind) = chip
<1>1. /\ chip \in Chip /\ "TimerA" \notin chip.crb /\ MaxAccesses \in Nat
      /\ behind = 0 /\ wake = 1 /\ line = FALSE /\ accesses = 0
  BY CiaAccessAssumption DEF ScheduledInit, PlainStarts
<1>2. SkipChip(chip, 0) = chip /\ Allowance(chip) \in Nat \ {0}
  BY <1>1, SkipNothing, AllowanceIsPositive
<1>3. ScheduleTypeOK
  <2>1. line \in BOOLEAN
    BY <1>1, Zenon
  <2> QED
    BY <1>1, <2>1 DEF ScheduleTypeOK
<1>4. InTime /\ NoCascade
  BY <1>1, <1>2 DEF InTime, NoCascade
<1> QED
  BY <1>1, <1>2, <1>3, <1>4 DEF ScheduleInvariant

\* A catch up at any time finds the chip that was clocked
LEMMA ShowsThePresent ==
  ASSUME ScheduleInvariant
  PROVE  CatchUp(chip, behind) = SkipChip(chip, behind)
<1>1. /\ chip \in Chip /\ behind \in Nat /\ wake \in Nat \ {0}
      /\ behind + wake <= Allowance(chip) /\ "TimerA" \notin chip.crb
  BY DEF ScheduleInvariant, ScheduleTypeOK, InTime, NoCascade
<1>2. behind < Allowance(chip)
  BY <1>1, AllowanceIsPositive
<1> QED
  BY <1>1, <1>2, CatchUpIs

-----------------------------------------------------------------------------
\* Both chips take a step
LEMMA TwinStep ==
  ASSUME TwinInvariant, [TwinNext]_twinVars
  PROVE  TwinInvariant'
<1>1. ScheduleInvariant /\ stepped = SkipChip(chip, behind)
  BY DEF TwinInvariant, OnlyCountersMoved
<1>2. CASE TwinCycle
  <2>1. ScheduledCycle /\ stepped' = TickChip(stepped) /\ steppedLine' = TickChip(stepped).intLow
    BY <1>2 DEF TwinCycle, SteppedSampled
  <2> QED
    BY <1>1, <2>1, CycleKeepsSchedule DEF TwinInvariant, OnlyCountersMoved
<1>3. ASSUME NEW reg \in Reads, TwinRead(reg)
      PROVE  TwinInvariant'
  <2>1. /\ ScheduledRead(reg) /\ stepped' = ReadEffect(TickChip(stepped), reg)
        /\ steppedLine' = TickChip(stepped).intLow
    BY <1>3 DEF TwinRead, SteppedSampled
  <2> QED
    BY <1>1, <2>1, ReadKeepsSchedule DEF TwinInvariant, OnlyCountersMoved
<1>4. ASSUME NEW w \in PlainWrites, TwinWrite(w)
      PROVE  TwinInvariant'
  <2>1. /\ ScheduledWrite(w) /\ stepped' = WriteEffect(TickChip(stepped), w.reg, w.value)
        /\ steppedLine' = TickChip(stepped).intLow
    BY <1>4 DEF TwinWrite, SteppedSampled
  <2> QED
    BY <1>1, <2>1, WriteKeepsSchedule DEF TwinInvariant, OnlyCountersMoved
<1>5. CASE UNCHANGED twinVars
  BY <1>5 DEF twinVars, scheduledVars, TwinInvariant, ScheduleInvariant, ScheduleTypeOK, InTime,
              NoCascade, OnlyCountersMoved
<1> QED
  BY <1>2, <1>3, <1>4, <1>5 DEF TwinNext

\* The schedule never outlasts what the chip allows, and what a chip that was
\* left alone lacks is nothing but counts (Bus::tick with Mos6526::
\* cycles_to_event and Mos6526::catch_up).
THEOREM TwinInvariantHolds == TwinSpec => []TwinInvariant
<1>1. TwinInit => TwinInvariant
  BY StartsOnSchedule DEF TwinInit, ScheduledInit, TwinInvariant, OnlyCountersMoved
<1>2. TwinInvariant /\ [TwinNext]_twinVars => TwinInvariant'
  BY TwinStep
<1> QED
  BY <1>1, <1>2, PTL DEF TwinSpec

\* The interrupt line the CPU sees in every cycle and the chip behind every
\* register access are those of a chip that is clocked every cycle: scheduling
\* a CIA that runs no cascade cannot be observed.
THEOREM ScheduledNeverDiffers == TwinSpec => []NeverDiffer
<1>1. TwinInvariant => NeverDiffer
  BY ShowsThePresent DEF TwinInvariant, OnlyCountersMoved, NeverDiffer
<1> QED
  BY <1>1, TwinInvariantHolds, PTL

\* The loop of catch_up is over after one pass in bulk and one clock walked, for
\* a chip that is due and for one that an access brings up before.
THEOREM LoopIsShort == TwinSpec => []LoopIsTwoPasses
<1>1. TwinInvariant => LoopIsTwoPasses
  <2> SUFFICES ASSUME TwinInvariant PROVE LoopIsTwoPasses
    OBVIOUS
  <2>1. /\ chip \in Chip /\ behind \in Nat /\ wake \in Nat \ {0}
        /\ behind + wake <= Allowance(chip) /\ "TimerA" \notin chip.crb
    BY DEF TwinInvariant, ScheduleInvariant, ScheduleTypeOK, InTime, NoCascade
  <2>2. behind + 1 \in Nat /\ behind + 1 <= Allowance(chip) /\ behind <= Allowance(chip)
    BY <2>1, AllowanceIsPositive
  <2> QED
    BY <2>1, <2>2, LoopIsPresent DEF LoopIsTwoPasses
<1> QED
  BY <1>1, TwinInvariantHolds, PTL

-----------------------------------------------------------------------------
(***************************************************************************)
(* Part four: the promise.  The chip of CiaEveryCycle has no cycle count   *)
(* while its time of day is halted (Shown).  Nothing else of a chip looks  *)
(* at that count, operation by operation.                                  *)
(***************************************************************************)

\* The chip with another count
At(c, t) == [c EXCEPT !.todCycles = t]

\* Every other field is the chip's
LEMMA AtIs ==
  ASSUME NEW c \in Chip, NEW t
  PROVE  /\ At(c, t).ta = c.ta /\ At(c, t).tb = c.tb
         /\ At(c, t).cra = c.cra /\ At(c, t).crb = c.crb
         /\ At(c, t).icr = c.icr /\ At(c, t).imr = c.imr
         /\ At(c, t).intDelay = c.intDelay /\ At(c, t).intLow = c.intLow
         /\ At(c, t).pulse = c.pulse /\ At(c, t).mode = c.mode
         /\ At(c, t).out = c.out /\ At(c, t).toggle = c.toggle
         /\ At(c, t).cnt = c.cnt /\ At(c, t).cntPrev = c.cntPrev /\ At(c, t).flag = c.flag
         /\ At(c, t).serialBits = c.serialBits /\ At(c, t).serialPending = c.serialPending
         /\ At(c, t).tod = c.tod /\ At(c, t).todLatched = c.todLatched
         /\ At(c, t).todAlarm = c.todAlarm /\ At(c, t).todHalted = c.todHalted
         /\ At(c, t).todLatch = c.todLatch /\ At(c, t).todAlarmWrite = c.todAlarmWrite
BY DEF At, Chip

\* The count itself
LEMMA AtCounts ==
  ASSUME NEW c \in Chip, NEW t
  PROVE  /\ At(c, t).todCycles = t /\ At(c, c.todCycles) = c
         /\ \A u : At(At(c, t), u) = At(c, u)
         /\ t \in Nat => At(c, t) \in Chip
BY DEF At, Chip

LEMMA TriggerAt ==
  ASSUME NEW c \in Chip, NEW t, NEW source
  PROVE  /\ Trigger(At(c, t), source) = At(Trigger(c, source), t)
         /\ Trigger(c, source).todHalted = c.todHalted
<1> DEFINE recorded(d) == d.icr \cup {source}
           delayed(d) == IF source \in d.imr /\ ~d.intLow
                         THEN d.intDelay \cup {"Now"} ELSE d.intDelay
           icr == recorded(c)
           delay == delayed(c)
           icrAt == recorded(At(c, t))
           delayAt == delayed(At(c, t))
<1>1. Trigger(c, source) = [c EXCEPT !.icr = icr, !.intDelay = delay]
  BY DEF Trigger
<1>2. Trigger(At(c, t), source) = [At(c, t) EXCEPT !.icr = icr, !.intDelay = delay]
  <2>1. Trigger(At(c, t), source) = [At(c, t) EXCEPT !.icr = icrAt, !.intDelay = delayAt]
    BY DEF Trigger
  <2>2. icrAt = icr /\ delayAt = delay
    BY AtIs
  <2> HIDE DEF icr, delay, icrAt, delayAt
  <2> QED
    BY <2>1, <2>2
<1>3. Trigger(c, source).todHalted = c.todHalted
  BY <1>1 DEF Chip
<1> HIDE DEF icr, delay
<1>4. [At(c, t) EXCEPT !.icr = icr, !.intDelay = delay]
        = At([c EXCEPT !.icr = icr, !.intDelay = delay], t)
  BY DEF At, Chip
<1> QED
  BY <1>1, <1>2, <1>3, <1>4

LEMMA DrivePinAt ==
  ASSUME NEW c \in Chip, NEW t, NEW pin, NEW control
  PROVE  /\ DrivePin(At(c, t), pin, control) = At(DrivePin(c, pin, control), t)
         /\ DrivePin(c, pin, control).todHalted = c.todHalted
<1> DEFINE high == c.out \cup {pin}
           pulse == [c.pulse EXCEPT ![pin] = 2]
           highAt == At(c, t).out \cup {pin}
           pulseAt == [At(c, t).pulse EXCEPT ![pin] = 2]
           flipped == Flip(c.out, pin)
<1>1. CASE "PBOn" \notin control
  BY <1>1 DEF DrivePin
<1>2. CASE "PBOn" \in control /\ "Toggle" \notin control
  <2>1. DrivePin(c, pin, control) = [c EXCEPT !.out = high, !.pulse = pulse]
    BY <1>2 DEF DrivePin
  <2>2. DrivePin(At(c, t), pin, control) = [At(c, t) EXCEPT !.out = high, !.pulse = pulse]
    <3>1. DrivePin(At(c, t), pin, control) = [At(c, t) EXCEPT !.out = highAt, !.pulse = pulseAt]
      BY <1>2 DEF DrivePin
    <3>2. At(c, t).out = c.out /\ At(c, t).pulse = c.pulse
      BY AtIs
    <3>3. highAt = high /\ pulseAt = pulse
      BY <3>2
    <3> HIDE DEF high, pulse, highAt, pulseAt
    <3> QED
      BY <3>1, <3>3
  <2> HIDE DEF high, pulse
  <2>3. DrivePin(c, pin, control).todHalted = c.todHalted
    BY <2>1 DEF Chip
  <2>4. [At(c, t) EXCEPT !.out = high, !.pulse = pulse]
          = At([c EXCEPT !.out = high, !.pulse = pulse], t)
    BY DEF At, Chip
  <2> QED
    BY <2>1, <2>2, <2>3, <2>4
<1>3. CASE "PBOn" \in control /\ "Toggle" \in control
  <2>1. DrivePin(c, pin, control) = [c EXCEPT !.out = flipped]
    BY <1>3 DEF DrivePin
  <2>2. DrivePin(At(c, t), pin, control) = [At(c, t) EXCEPT !.out = flipped]
    BY <1>3, AtIs DEF DrivePin
  <2> HIDE DEF flipped
  <2>3. DrivePin(c, pin, control).todHalted = c.todHalted
    BY <2>1 DEF Chip
  <2>4. [At(c, t) EXCEPT !.out = flipped] = At([c EXCEPT !.out = flipped], t)
    BY DEF At, Chip
  <2> QED
    BY <2>1, <2>2, <2>3, <2>4
<1> QED
  BY <1>1, <1>2, <1>3

LEMMA CountCntAt ==
  ASSUME NEW c \in Chip, NEW t
  PROVE  /\ CountCnt(At(c, t)) = At(CountCnt(c), t)
         /\ CountCnt(c).todHalted = c.todHalted
<1> DEFINE rising(d) == d.cnt /\ ~d.cntPrev
           steppedA(d) == IF rising(d) /\ "Cnt" \in d.cra THEN StepOnce(d.ta) ELSE d.ta
           steppedB(d) == IF rising(d) /\ "Cnt" \in d.crb /\ "TimerA" \notin d.crb
                          THEN StepOnce(d.tb) ELSE d.tb
           now == c.cnt
           ta == steppedA(c)
           tb == steppedB(c)
           nowAt == At(c, t).cnt
           taAt == steppedA(At(c, t))
           tbAt == steppedB(At(c, t))
<1>1. CountCnt(c) = [c EXCEPT !.cntPrev = now, !.ta = ta, !.tb = tb]
  BY DEF CountCnt
<1>2. CountCnt(At(c, t)) = [At(c, t) EXCEPT !.cntPrev = now, !.ta = ta, !.tb = tb]
  <2>1. CountCnt(At(c, t)) = [At(c, t) EXCEPT !.cntPrev = nowAt, !.ta = taAt, !.tb = tbAt]
    BY DEF CountCnt
  <2>2. nowAt = now /\ taAt = ta /\ tbAt = tb
    BY AtIs
  <2> HIDE DEF now, ta, tb, nowAt, taAt, tbAt
  <2> QED
    BY <2>1, <2>2
<1> HIDE DEF ta, tb, now
<1>3. CountCnt(c).todHalted = c.todHalted
  BY <1>1 DEF Chip
<1>4. [At(c, t) EXCEPT !.cntPrev = now, !.ta = ta, !.tb = tb]
        = At([c EXCEPT !.cntPrev = now, !.ta = ta, !.tb = tb], t)
  BY DEF At, Chip
<1> QED
  BY <1>1, <1>2, <1>3, <1>4

LEMMA ShiftSerialAt ==
  ASSUME NEW c \in Chip, NEW t \in Nat
  PROVE  /\ ShiftSerial(At(c, t)) = At(ShiftSerial(c), t)
         /\ ShiftSerial(c).todHalted = c.todHalted
<1> DEFINE bits == IF c.serialPending /\ c.serialBits = 0 THEN SerialSteps ELSE c.serialBits
           less == bits - 1
           pending == c.serialPending /\ c.serialBits # 0
           shifted == [c EXCEPT !.serialBits = less, !.serialPending = pending]
           shiftedAt == [At(c, t) EXCEPT !.serialBits = less, !.serialPending = pending]
<1>1. CASE "Serial" \notin c.cra \/ (c.serialBits = 0 /\ ~c.serialPending)
  BY <1>1, AtIs DEF ShiftSerial
<1>2. CASE ~("Serial" \notin c.cra \/ (c.serialBits = 0 /\ ~c.serialPending))
  <2>1. ShiftSerial(c) = IF bits = 1 THEN Trigger(shifted, "Serial") ELSE shifted
    BY <1>2 DEF ShiftSerial
  <2>2. ShiftSerial(At(c, t)) = IF bits = 1 THEN Trigger(shiftedAt, "Serial") ELSE shiftedAt
    BY <1>2, AtIs DEF ShiftSerial
  <2>3. less \in 0 .. SerialSteps /\ pending \in BOOLEAN
    <3>1. c.serialBits \in 0 .. SerialSteps /\ c.serialPending \in BOOLEAN
      BY DEF Chip
    <3> QED
      BY <1>2, <3>1, Mos6526Assumption
  <2> HIDE DEF bits, less, pending
  <2>4. shiftedAt = At(shifted, t)
    BY DEF At, Chip
  <2>5. shifted \in Chip /\ shifted.todHalted = c.todHalted
    BY <2>3 DEF Chip
  <2> HIDE DEF shifted, shiftedAt
  <2>6. /\ Trigger(shiftedAt, "Serial") = At(Trigger(shifted, "Serial"), t)
        /\ Trigger(shifted, "Serial").todHalted = c.todHalted
    BY <2>4, <2>5, TriggerAt
  <2> QED
    BY <2>1, <2>2, <2>4, <2>5, <2>6
<1> QED
  BY <1>1, <1>2

\* An event of a timer, its pin included
LEMMA TimerEventAt ==
  ASSUME NEW c \in Chip, NEW t \in Nat, NEW source \in Sources, NEW pin \in Pins, NEW control
  PROVE  LET event(d) == [Trigger(d, source) EXCEPT !.toggle = Flip(@, pin)]
         IN  /\ event(c) \in Chip /\ event(At(c, t)) = At(event(c), t)
             /\ DrivePin(event(At(c, t)), pin, control) = At(DrivePin(event(c), pin, control), t)
             /\ DrivePin(event(c), pin, control).todHalted = c.todHalted
<1> DEFINE event(d) == [Trigger(d, source) EXCEPT !.toggle = Flip(@, pin)]
           fired == Trigger(c, source)
           toggle == Flip(fired.toggle, pin)
           flipped == [fired EXCEPT !.toggle = toggle]
<1>1. fired \in Chip /\ fired.todHalted = c.todHalted /\ Trigger(At(c, t), source) = At(fired, t)
  BY TriggerIsTyped, TriggerAt
<1> HIDE DEF fired
<1>2. event(c) = flipped
  BY DEF fired
<1>3. event(At(c, t)) = [At(fired, t) EXCEPT !.toggle = toggle]
  BY <1>1, AtIs
<1>4. toggle \in SUBSET Pins
  BY <1>1 DEF Flip, Chip
<1> HIDE DEF toggle, event
<1>5. flipped \in Chip /\ flipped.todHalted = c.todHalted
  BY <1>1, <1>4 DEF Chip
<1>6. event(At(c, t)) = At(flipped, t)
  BY <1>1, <1>3 DEF At, Chip
<1> HIDE DEF flipped
<1>7. /\ DrivePin(event(At(c, t)), pin, control) = At(DrivePin(event(c), pin, control), t)
      /\ DrivePin(event(c), pin, control).todHalted = c.todHalted
  BY <1>2, <1>5, <1>6, DrivePinAt
<1>8. event(c) \in Chip /\ event(At(c, t)) = At(event(c), t)
  BY <1>2, <1>5, <1>6
<1> QED
  BY <1>7, <1>8 DEF event

LEMMA ClockTimersAt ==
  ASSUME NEW c \in Chip, NEW t \in Nat
  PROVE  /\ ClockTimerA(At(c, t)) = At(ClockTimerA(c), t)
         /\ ClockTimerA(c).todHalted = c.todHalted
         /\ ClockTimerB(At(c, t)) = At(ClockTimerB(c), t)
         /\ ClockTimerB(c).todHalted = c.todHalted
<1> DEFINE ta == TickTimer(c.ta)
           tb == TickTimer(c.tb)
           tickedA == [c EXCEPT !.ta = ta]
           tickedB == [c EXCEPT !.tb = tb]
           eventA(d) == [Trigger(d, "A") EXCEPT !.toggle = Flip(@, "PB6")]
           eventB(d) == [Trigger(d, "B") EXCEPT !.toggle = Flip(@, "PB7")]
           drivenA(d) == DrivePin(eventA(d), "PB6", c.cra)
           drivenB(d) == DrivePin(eventB(d), "PB7", c.crb)
<1>1. ta \in Timer /\ tb \in Timer
  BY TimerOperationsAreTyped DEF Chip
<1>2. /\ ClockTimerA(c) = IF Underflows(c.ta) THEN ShiftSerial(drivenA(tickedA)) ELSE tickedA
      /\ ClockTimerB(c) = IF Underflows(c.tb) THEN drivenB(tickedB) ELSE tickedB
  BY DEF ClockTimerA, ClockTimerB
<1>3. /\ ClockTimerA(At(c, t)) = IF Underflows(c.ta)
                                 THEN ShiftSerial(drivenA([At(c, t) EXCEPT !.ta = ta]))
                                 ELSE [At(c, t) EXCEPT !.ta = ta]
      /\ ClockTimerB(At(c, t)) = IF Underflows(c.tb)
                                 THEN drivenB([At(c, t) EXCEPT !.tb = tb])
                                 ELSE [At(c, t) EXCEPT !.tb = tb]
  BY AtIs DEF ClockTimerA, ClockTimerB
<1> HIDE DEF ta, tb
<1>4. /\ [At(c, t) EXCEPT !.ta = ta] = At(tickedA, t)
      /\ [At(c, t) EXCEPT !.tb = tb] = At(tickedB, t)
  BY DEF At, Chip
<1>5. /\ tickedA \in Chip /\ tickedA.todHalted = c.todHalted
      /\ tickedB \in Chip /\ tickedB.todHalted = c.todHalted
  BY <1>1 DEF Chip
<1> HIDE DEF tickedA, tickedB
<1>6. "A" \in Sources /\ "B" \in Sources /\ "PB6" \in Pins /\ "PB7" \in Pins
  BY DEF Sources, Pins
<1>7. /\ drivenA(At(tickedA, t)) = At(drivenA(tickedA), t)
      /\ drivenA(tickedA).todHalted = c.todHalted /\ eventA(tickedA) \in Chip
  BY <1>5, <1>6, TimerEventAt
<1>8. /\ drivenB(At(tickedB, t)) = At(drivenB(tickedB), t)
      /\ drivenB(tickedB).todHalted = c.todHalted
  BY <1>5, <1>6, TimerEventAt
<1> HIDE DEF eventA, eventB
<1>9. drivenA(tickedA) \in Chip
  BY <1>6, <1>7, DrivePinIsTyped
<1> HIDE DEF drivenA, drivenB
<1>10. /\ ShiftSerial(At(drivenA(tickedA), t)) = At(ShiftSerial(drivenA(tickedA)), t)
       /\ ShiftSerial(drivenA(tickedA)).todHalted = c.todHalted
  BY <1>7, <1>9, ShiftSerialAt
<1> QED
  BY <1>2, <1>3, <1>4, <1>5, <1>7, <1>8, <1>10

LEMMA FeedTimerBAt ==
  ASSUME NEW c \in Chip, NEW t, NEW underflowA
  PROVE  /\ FeedTimerB(At(c, t), underflowA) = At(FeedTimerB(c, underflowA), t)
         /\ FeedTimerB(c, underflowA).todHalted = c.todHalted
<1> DEFINE tb == StepOnce(c.tb)
           feeds == underflowA /\ "TimerA" \in c.crb /\ ("Cnt" \in c.crb => c.cnt)
<1>1. FeedTimerB(c, underflowA) = IF feeds THEN [c EXCEPT !.tb = tb] ELSE c
  BY DEF FeedTimerB
<1>2. FeedTimerB(At(c, t), underflowA) = IF feeds THEN [At(c, t) EXCEPT !.tb = tb] ELSE At(c, t)
  BY AtIs DEF FeedTimerB
<1> HIDE DEF tb, feeds
<1>3. [c EXCEPT !.tb = tb].todHalted = c.todHalted
  BY DEF Chip
<1>4. [At(c, t) EXCEPT !.tb = tb] = At([c EXCEPT !.tb = tb], t)
  BY DEF At, Chip
<1> QED
  BY <1>1, <1>2, <1>3, <1>4

LEMMA EndPulsesAt ==
  ASSUME NEW c \in Chip, NEW t
  PROVE  /\ EndPulses(At(c, t)) = At(EndPulses(c), t)
         /\ EndPulses(c).todHalted = c.todHalted
<1> DEFINE pulse == [p \in Pins |-> IF c.pulse[p] = 0 THEN 0 ELSE c.pulse[p] - 1]
           out == c.out \ {p \in Pins : c.pulse[p] = 1}
           pulseAt == [p \in Pins |-> IF At(c, t).pulse[p] = 0 THEN 0 ELSE At(c, t).pulse[p] - 1]
           outAt == At(c, t).out \ {p \in Pins : At(c, t).pulse[p] = 1}
<1>1. EndPulses(c) = [c EXCEPT !.pulse = pulse, !.out = out]
  BY DEF EndPulses
<1>2. EndPulses(At(c, t)) = [At(c, t) EXCEPT !.pulse = pulse, !.out = out]
  <2>1. EndPulses(At(c, t)) = [At(c, t) EXCEPT !.pulse = pulseAt, !.out = outAt]
    BY DEF EndPulses
  <2>2. At(c, t).out = c.out /\ At(c, t).pulse = c.pulse
    BY AtIs
  <2>3. pulseAt = pulse /\ outAt = out
    BY <2>2
  <2> HIDE DEF pulse, out, pulseAt, outAt
  <2> QED
    BY <2>1, <2>3
<1> HIDE DEF pulse, out
<1>3. EndPulses(c).todHalted = c.todHalted
  BY <1>1 DEF Chip
<1>4. [At(c, t) EXCEPT !.pulse = pulse, !.out = out]
        = At([c EXCEPT !.pulse = pulse, !.out = out], t)
  BY DEF At, Chip
<1> QED
  BY <1>1, <1>2, <1>3, <1>4

LEMMA DelayInterruptAt ==
  ASSUME NEW c \in Chip, NEW t
  PROVE  /\ DelayInterrupt(At(c, t)) = At(DelayInterrupt(c), t)
         /\ DelayInterrupt(c).todHalted = c.todHalted
<1> DEFINE low == c.intLow \/ "Next" \in c.intDelay
           delay == IF "Now" \in c.intDelay THEN {"Next"} ELSE {}
           lowAt == At(c, t).intLow \/ "Next" \in At(c, t).intDelay
           delayAt == IF "Now" \in At(c, t).intDelay THEN {"Next"} ELSE {}
<1>1. DelayInterrupt(c) = [c EXCEPT !.intLow = low, !.intDelay = delay]
  BY DEF DelayInterrupt
<1>2. DelayInterrupt(At(c, t)) = [At(c, t) EXCEPT !.intLow = low, !.intDelay = delay]
  <2>1. DelayInterrupt(At(c, t)) = [At(c, t) EXCEPT !.intLow = lowAt, !.intDelay = delayAt]
    BY DEF DelayInterrupt
  <2>2. At(c, t).intLow = c.intLow /\ At(c, t).intDelay = c.intDelay
    BY AtIs
  <2>3. lowAt = low /\ delayAt = delay
    BY <2>2, Zenon
  <2> HIDE DEF low, delay, lowAt, delayAt
  <2> QED
    BY <2>1, <2>3
<1> HIDE DEF low, delay
<1>3. DelayInterrupt(c).todHalted = c.todHalted
  BY <1>1 DEF Chip
<1>4. [At(c, t) EXCEPT !.intLow = low, !.intDelay = delay]
        = At([c EXCEPT !.intLow = low, !.intDelay = delay], t)
  BY DEF At, Chip
<1> QED
  BY <1>1, <1>2, <1>3, <1>4

\* A clock up to the time of day
Undated(c) ==
  LET counted == CountCnt(c)
  IN  DelayInterrupt(EndPulses(FeedTimerB(ClockTimerB(ClockTimerA(counted)),
                                          Underflows(counted.ta))))

LEMMA UndatedAt ==
  ASSUME NEW c \in Chip, NEW t \in Nat
  PROVE  /\ Undated(c) \in Chip
         /\ Undated(At(c, t)) = At(Undated(c), t)
         /\ Undated(c).todHalted = c.todHalted
<1> DEFINE counted == CountCnt(c)
           clockedA == ClockTimerA(counted)
           clockedB == ClockTimerB(clockedA)
           under == Underflows(counted.ta)
           fed == FeedTimerB(clockedB, under)
           ended == EndPulses(fed)
<1>1. /\ counted \in Chip /\ CountCnt(At(c, t)) = At(counted, t)
      /\ counted.todHalted = c.todHalted
  BY CountCntIsTyped, CountCntAt
<1> HIDE DEF counted
<1>2. /\ clockedA \in Chip /\ ClockTimerA(At(counted, t)) = At(clockedA, t)
      /\ clockedA.todHalted = c.todHalted
  BY <1>1, ClockTimersIsTyped, ClockTimersAt
<1> HIDE DEF clockedA
<1>3. /\ clockedB \in Chip /\ ClockTimerB(At(clockedA, t)) = At(clockedB, t)
      /\ clockedB.todHalted = c.todHalted
  BY <1>2, ClockTimersIsTyped, ClockTimersAt
<1>4. Underflows(At(counted, t).ta) = under /\ under \in BOOLEAN
  <2>1. At(counted, t).ta = counted.ta
    BY <1>1, AtIs
  <2> QED
    BY <2>1 DEF Underflows
<1> HIDE DEF clockedB, under
<1>5. /\ fed \in Chip /\ FeedTimerB(At(clockedB, t), under) = At(fed, t)
      /\ fed.todHalted = c.todHalted
  BY <1>3, <1>4, FeedTimerBIsTyped, FeedTimerBAt
<1> HIDE DEF fed
<1>6. /\ ended \in Chip /\ EndPulses(At(fed, t)) = At(ended, t)
      /\ ended.todHalted = c.todHalted
  BY <1>5, EndPulsesIsTyped, EndPulsesAt
<1> HIDE DEF ended
<1>7. /\ DelayInterrupt(ended) \in Chip
      /\ DelayInterrupt(At(ended, t)) = At(DelayInterrupt(ended), t)
      /\ DelayInterrupt(ended).todHalted = c.todHalted
  BY <1>6, DelayInterruptIsTyped, DelayInterruptAt
<1>8. Undated(c) = DelayInterrupt(ended)
  BY DEF Undated, counted, clockedA, clockedB, under, fed, ended
<1>9. Undated(At(c, t)) = DelayInterrupt(At(ended, t))
  <2>1. Undated(At(c, t))
          = DelayInterrupt(EndPulses(FeedTimerB(ClockTimerB(ClockTimerA(At(counted, t))),
                                                Underflows(At(counted, t).ta))))
    BY <1>1 DEF Undated
  <2> QED
    BY <1>2, <1>3, <1>4, <1>5, <1>6, <2>1
<1> QED
  BY <1>7, <1>8, <1>9

LEMMA ShownIs ==
  ASSUME NEW c \in Chip
  PROVE  /\ Shown(c) = IF c.todHalted THEN At(c, 0) ELSE c
         /\ Shown(c) \in Chip /\ Shown(c).intLow = c.intLow
         /\ Shown(Shown(c)) = Shown(c)
<1>1. Shown(c) = IF c.todHalted THEN At(c, 0) ELSE c
  BY DEF Shown, At
<1>2. At(c, 0) \in Chip /\ At(c, 0).intLow = c.intLow /\ At(c, 0).todHalted = c.todHalted
      /\ At(At(c, 0), 0) = At(c, 0)
  BY AtIs, AtCounts
<1>3. Shown(At(c, 0)) = At(c, 0)
  BY <1>2 DEF Shown, At
<1> QED
  BY <1>1, <1>2, <1>3

\* The clock of a time of day that is halted shows nothing
LEMMA HaltedClockTod ==
  ASSUME NEW c \in Chip, c.todHalted
  PROVE  Shown(ClockTod(c)) = At(c, 0) /\ ClockTod(c).intLow = c.intLow
<1>1. ClockTod(c) = At(c, 0) \/ ClockTod(c) = At(c, c.todCycles + 1)
  <2>1. At(c, 0).todHalted
    BY AtIs, AtCounts
  <2>2. TodTick(At(c, 0)) = At(c, 0)
    BY <2>1 DEF TodTick
  <2> QED
    BY <2>2 DEF ClockTod, At
<1>2. c.todCycles + 1 \in Nat
  BY DEF Chip
<1>3. \A n \in Nat : /\ At(c, n) \in Chip /\ At(c, n).todHalted /\ At(c, n).intLow = c.intLow
                     /\ At(At(c, n), 0) = At(c, 0)
  BY AtIs, AtCounts
<1>4. \A n \in Nat : Shown(At(c, n)) = At(c, 0)
  BY <1>3, ShownIs
<1> QED
  BY <1>1, <1>2, <1>3, <1>4

\* A clock of what is shown shows a clock
LEMMA TickShown ==
  ASSUME NEW c \in Chip
  PROVE  /\ Shown(TickChip(Shown(c))) = Shown(TickChip(c))
         /\ TickChip(Shown(c)).intLow = TickChip(c).intLow
<1>1. \A d : TickChip(d) = ClockTod(Undated(d))
  BY DEF TickChip, Undated
<1>2. CASE ~c.todHalted
  BY <1>2, ShownIs
<1>3. CASE c.todHalted
  <2> DEFINE d == Undated(c)
  <2>1. Shown(c) = At(c, 0)
    BY <1>3, ShownIs
  <2>2. d \in Chip /\ Undated(At(c, 0)) = At(d, 0) /\ d.todHalted
    BY <1>3, UndatedAt
  <2> HIDE DEF d
  <2>3. /\ At(d, 0) \in Chip /\ At(d, 0).todHalted /\ At(At(d, 0), 0) = At(d, 0)
        /\ At(d, 0).intLow = d.intLow
    BY <2>2, AtIs, AtCounts
  <2>4. Shown(ClockTod(At(d, 0))) = Shown(ClockTod(d)) /\ ClockTod(At(d, 0)).intLow = ClockTod(d).intLow
    BY <2>2, <2>3, HaltedClockTod
  <2> QED
    BY <1>1, <2>1, <2>2, <2>4 DEF d
<1> QED
  BY <1>2, <1>3

\* Reads and writes
LEMMA ReadEffectAt ==
  ASSUME NEW c \in Chip, NEW t, NEW reg
  PROVE  /\ ReadEffect(At(c, t), reg) = At(ReadEffect(c, reg), t)
         /\ ReadEffect(c, reg).todHalted = c.todHalted
<1> DEFINE tod == c.tod
           todAt == At(c, t).tod
<1>1. ReadIcr(At(c, t)) = At(ReadIcr(c), t) /\ ReadIcr(c).todHalted = c.todHalted
  BY DEF ReadIcr, At, Chip
<1>2. ReadTodTenths(At(c, t)) = At(ReadTodTenths(c), t) /\ ReadTodTenths(c).todHalted = c.todHalted
  BY DEF ReadTodTenths, At, Chip
<1>3. ReadTodHours(At(c, t)) = At(ReadTodHours(c), t) /\ ReadTodHours(c).todHalted = c.todHalted
  <2>1. /\ ReadTodHours(c) = IF c.todLatch THEN c
                             ELSE [c EXCEPT !.todLatch = TRUE, !.todLatched = tod]
        /\ ReadTodHours(At(c, t)) = IF At(c, t).todLatch THEN At(c, t)
                                    ELSE [At(c, t) EXCEPT !.todLatch = TRUE, !.todLatched = todAt]
    BY DEF ReadTodHours
  <2>2. todAt = tod /\ At(c, t).todLatch = c.todLatch
    BY AtIs
  <2> HIDE DEF tod, todAt
  <2>3. /\ [At(c, t) EXCEPT !.todLatch = TRUE, !.todLatched = tod]
             = At([c EXCEPT !.todLatch = TRUE, !.todLatched = tod], t)
        /\ [c EXCEPT !.todLatch = TRUE, !.todLatched = tod].todHalted = c.todHalted
    BY DEF At, Chip
  <2> QED
    BY <2>1, <2>2, <2>3
<1> QED
  BY <1>1, <1>2, <1>3 DEF ReadEffect

\* The writes of the latches
LEMMA LatchWritesAt ==
  ASSUME NEW c \in Chip, NEW t, NEW v
  PROVE  \A reg \in {"TALo", "TAHi", "TBLo", "TBHi"} :
           /\ WriteEffect(At(c, t), reg, v) = At(WriteEffect(c, reg, v), t)
           /\ WriteEffect(c, reg, v).todHalted = c.todHalted
<1> SUFFICES ASSUME NEW reg \in {"TALo", "TAHi", "TBLo", "TBHi"}
             PROVE  /\ WriteEffect(At(c, t), reg, v) = At(WriteEffect(c, reg, v), t)
                    /\ WriteEffect(c, reg, v).todHalted = c.todHalted
  OBVIOUS
<1>1. At(c, t).ta = c.ta /\ At(c, t).tb = c.tb
  BY AtIs
<1>2. ASSUME NEW x
      PROVE  /\ [At(c, t) EXCEPT !.ta = x] = At([c EXCEPT !.ta = x], t)
             /\ [At(c, t) EXCEPT !.tb = x] = At([c EXCEPT !.tb = x], t)
             /\ [c EXCEPT !.ta = x].todHalted = c.todHalted
             /\ [c EXCEPT !.tb = x].todHalted = c.todHalted
  BY DEF At, Chip
<1> DEFINE a == IF reg = "TALo" THEN SetLatchLo(c.ta, v) ELSE SetLatchHi(c.ta, v)
           b == IF reg = "TBLo" THEN SetLatchLo(c.tb, v) ELSE SetLatchHi(c.tb, v)
           aAt == IF reg = "TALo" THEN SetLatchLo(At(c, t).ta, v) ELSE SetLatchHi(At(c, t).ta, v)
           bAt == IF reg = "TBLo" THEN SetLatchLo(At(c, t).tb, v) ELSE SetLatchHi(At(c, t).tb, v)
<1>3. aAt = a /\ bAt = b
  BY <1>1
<1>4. CASE reg \in {"TALo", "TAHi"}
  <2>1. WriteEffect(c, reg, v) = [c EXCEPT !.ta = a]
    BY <1>4 DEF WriteEffect
  <2>2. WriteEffect(At(c, t), reg, v) = [At(c, t) EXCEPT !.ta = aAt]
    BY <1>4 DEF WriteEffect
  <2> HIDE DEF a, aAt, b, bAt
  <2>3. [At(c, t) EXCEPT !.ta = a] = At([c EXCEPT !.ta = a], t)
    BY <1>2
  <2>4. [c EXCEPT !.ta = a].todHalted = c.todHalted
    BY <1>2
  <2> QED
    BY <1>3, <2>1, <2>2, <2>3, <2>4
<1>5. CASE reg \in {"TBLo", "TBHi"}
  <2>1. WriteEffect(c, reg, v) = [c EXCEPT !.tb = b]
    BY <1>5 DEF WriteEffect
  <2>2. WriteEffect(At(c, t), reg, v) = [At(c, t) EXCEPT !.tb = bAt]
    BY <1>5 DEF WriteEffect
  <2> HIDE DEF a, aAt, b, bAt
  <2>3. [At(c, t) EXCEPT !.tb = b] = At([c EXCEPT !.tb = b], t)
    BY <1>2
  <2>4. [c EXCEPT !.tb = b].todHalted = c.todHalted
    BY <1>2
  <2> QED
    BY <1>3, <2>1, <2>2, <2>3, <2>4
<1> QED
  BY <1>4, <1>5

\* The writes of the mask and of the serial register
LEMMA MaskWritesAt ==
  ASSUME NEW c \in Chip, NEW t, NEW set, NEW sources
  PROVE  /\ WriteImr(At(c, t), set, sources) = At(WriteImr(c, set, sources), t)
         /\ WriteImr(c, set, sources).todHalted = c.todHalted
         /\ WriteEffect(At(c, t), "SDR", sources) = At(WriteEffect(c, "SDR", sources), t)
         /\ WriteEffect(c, "SDR", sources).todHalted = c.todHalted
<1> DEFINE masked(d) == IF set THEN d.imr \cup sources ELSE d.imr \ sources
           delayed(d) == IF masked(d) \cap d.icr # {} /\ ~d.intLow
                         THEN d.intDelay \cup {"Now"} ELSE d.intDelay
           waits(d) == d.serialPending \/ "Serial" \in d.cra
           imr == masked(c)
           delay == delayed(c)
           pending == waits(c)
           imrAt == masked(At(c, t))
           delayAt == delayed(At(c, t))
           pendingAt == waits(At(c, t))
<1>1. /\ WriteImr(c, set, sources) = [c EXCEPT !.imr = imr, !.intDelay = delay]
      /\ WriteEffect(c, "SDR", sources) = [c EXCEPT !.serialPending = pending]
  BY DEF WriteImr, WriteEffect
<1>2. /\ WriteImr(At(c, t), set, sources) = [At(c, t) EXCEPT !.imr = imrAt, !.intDelay = delayAt]
      /\ WriteEffect(At(c, t), "SDR", sources) = [At(c, t) EXCEPT !.serialPending = pendingAt]
  BY DEF WriteImr, WriteEffect
<1>3. imrAt = imr /\ delayAt = delay
  <2>1. /\ At(c, t).imr = c.imr /\ At(c, t).icr = c.icr
        /\ At(c, t).intLow = c.intLow /\ At(c, t).intDelay = c.intDelay
    BY AtIs
  <2> QED
    BY <2>1
<1>4. pendingAt = pending
  <2>1. At(c, t).serialPending = c.serialPending /\ At(c, t).cra = c.cra
    BY AtIs
  <2> QED
    BY <2>1, Zenon
<1> HIDE DEF imr, delay, pending, imrAt, delayAt, pendingAt
<1>5. /\ [At(c, t) EXCEPT !.imr = imr, !.intDelay = delay]
           = At([c EXCEPT !.imr = imr, !.intDelay = delay], t)
      /\ [c EXCEPT !.imr = imr, !.intDelay = delay].todHalted = c.todHalted
  BY DEF At, Chip
<1>6. /\ [At(c, t) EXCEPT !.serialPending = pending] = At([c EXCEPT !.serialPending = pending], t)
      /\ [c EXCEPT !.serialPending = pending].todHalted = c.todHalted
  BY DEF At, Chip
<1> QED
  BY <1>1, <1>2, <1>3, <1>4, <1>5, <1>6

\* The writes of the control registers
LEMMA SelectPinAt ==
  ASSUME NEW c \in Chip, NEW t, NEW pin, NEW v, NEW old
  PROVE  /\ SelectPin(At(c, t), pin, v, old) = At(SelectPin(c, pin, v, old), t)
         /\ SelectPin(c, pin, v, old).todHalted = c.todHalted
<1> DEFINE flipped(d) == IF "Start" \in v /\ "Start" \notin old THEN d.toggle \cup {pin}
                         ELSE d.toggle
           high(d) == IF "Toggle" \in v THEN pin \in flipped(d) ELSE d.pulse["PB7"] # 0
           modes(d) == SetIf(d.mode, pin, "PBOn" \in v)
           pins(d) == IF "PBOn" \in v THEN SetIf(d.out, pin, high(d)) ELSE d.out
           toggle == flipped(c)
           mode == modes(c)
           out == pins(c)
           toggleAt == flipped(At(c, t))
           modeAt == modes(At(c, t))
           outAt == pins(At(c, t))
<1>1. SelectPin(c, pin, v, old) = [c EXCEPT !.toggle = toggle, !.mode = mode, !.out = out]
  BY DEF SelectPin
<1>2. SelectPin(At(c, t), pin, v, old)
        = [At(c, t) EXCEPT !.toggle = toggleAt, !.mode = modeAt, !.out = outAt]
  BY DEF SelectPin
<1>3. toggleAt = toggle /\ modeAt = mode /\ outAt = out
  <2>1. /\ At(c, t).toggle = c.toggle /\ At(c, t).mode = c.mode
        /\ At(c, t).out = c.out /\ At(c, t).pulse = c.pulse
    BY AtIs
  <2> QED
    BY <2>1
<1> HIDE DEF toggle, mode, out, toggleAt, modeAt, outAt
<1>4. /\ [At(c, t) EXCEPT !.toggle = toggle, !.mode = mode, !.out = out]
           = At([c EXCEPT !.toggle = toggle, !.mode = mode, !.out = out], t)
      /\ [c EXCEPT !.toggle = toggle, !.mode = mode, !.out = out].todHalted = c.todHalted
  BY DEF At, Chip
<1> QED
  BY <1>1, <1>2, <1>3, <1>4

LEMMA ControlWritesAt ==
  ASSUME NEW c \in Chip, NEW t \in Nat, NEW v
  PROVE  /\ WriteCra(At(c, t), v) = At(WriteCra(c, v), t)
         /\ WriteCra(c, v).todHalted = c.todHalted
         /\ WriteCrb(At(c, t), v) = At(WriteCrb(c, v), t)
         /\ WriteCrb(c, v).todHalted = c.todHalted
<1>1. "PB6" \in Pins /\ "PB7" \in Pins
  BY DEF Pins
<1>2. At(c, t).cra = c.cra /\ At(c, t).crb = c.crb
  BY AtIs
<1>3. /\ WriteCra(At(c, t), v) = At(WriteCra(c, v), t)
      /\ WriteCra(c, v).todHalted = c.todHalted
  <2> DEFINE picked == SelectPin(c, "PB6", v, c.cra)
             set(d) == SetControl(d.ta, "Start" \in v, "OneShot" \in v, "Load" \in v, "Cnt" \in v)
             ta == set(picked)
             taAt == set(At(picked, t))
             cra == v \ {"Load"}
  <2>1. /\ picked \in Chip /\ picked.todHalted = c.todHalted
        /\ SelectPin(At(c, t), "PB6", v, At(c, t).cra) = At(picked, t)
    BY <1>1, <1>2, SelectPinIsTyped, SelectPinAt
  <2>2. WriteCra(c, v) = [picked EXCEPT !.ta = ta, !.cra = cra]
    BY DEF WriteCra
  <2> HIDE DEF picked
  <2>3. WriteCra(At(c, t), v) = [At(picked, t) EXCEPT !.ta = taAt, !.cra = cra]
    BY <2>1 DEF WriteCra
  <2>4. taAt = ta
    <3>1. At(picked, t).ta = picked.ta
      BY <2>1, AtIs
    <3> QED
      BY <3>1
  <2> HIDE DEF ta, taAt, cra
  <2>5. /\ [At(picked, t) EXCEPT !.ta = ta, !.cra = cra]
             = At([picked EXCEPT !.ta = ta, !.cra = cra], t)
        /\ [picked EXCEPT !.ta = ta, !.cra = cra].todHalted = picked.todHalted
    BY <2>1 DEF At, Chip
  <2> QED
    BY <2>1, <2>2, <2>3, <2>4, <2>5
<1>4. /\ WriteCrb(At(c, t), v) = At(WriteCrb(c, v), t)
      /\ WriteCrb(c, v).todHalted = c.todHalted
  <2> DEFINE picked == SelectPin(c, "PB7", v, c.crb)
             set(d) == SetControl(d.tb, "Start" \in v, "OneShot" \in v, "Load" \in v,
                                  {"Cnt", "TimerA"} \cap v # {})
             tb == set(picked)
             tbAt == set(At(picked, t))
             crb == v \ {"Load"}
             alarm == "Alarm" \in v
  <2>1. /\ picked \in Chip /\ picked.todHalted = c.todHalted
        /\ SelectPin(At(c, t), "PB7", v, At(c, t).crb) = At(picked, t)
    BY <1>1, <1>2, SelectPinIsTyped, SelectPinAt
  <2>2. WriteCrb(c, v) = [picked EXCEPT !.tb = tb, !.todAlarmWrite = alarm, !.crb = crb]
    BY DEF WriteCrb
  <2> HIDE DEF picked
  <2>3. WriteCrb(At(c, t), v) = [At(picked, t) EXCEPT !.tb = tbAt, !.todAlarmWrite = alarm, !.crb = crb]
    BY <2>1 DEF WriteCrb
  <2>4. tbAt = tb
    <3>1. At(picked, t).tb = picked.tb
      BY <2>1, AtIs
    <3> QED
      BY <3>1
  <2> HIDE DEF tb, tbAt, crb, alarm
  <2>5. /\ [At(picked, t) EXCEPT !.tb = tb, !.todAlarmWrite = alarm, !.crb = crb]
             = At([picked EXCEPT !.tb = tb, !.todAlarmWrite = alarm, !.crb = crb], t)
        /\ [picked EXCEPT !.tb = tb, !.todAlarmWrite = alarm, !.crb = crb].todHalted
             = picked.todHalted
    BY <2>1 DEF At, Chip
  <2> QED
    BY <2>1, <2>2, <2>3, <2>4, <2>5
<1> QED
  BY <1>3, <1>4

\* The writes of the time of day.  The tenths of the clock set the count.
LEMMA TodWritesAt ==
  ASSUME NEW c \in Chip, NEW t \in Nat, NEW v
  PROVE  /\ c.todAlarmWrite => /\ WriteTodTenths(At(c, t), v) = At(WriteTodTenths(c, v), t)
                               /\ WriteTodTenths(c, v).todHalted = c.todHalted
         /\ ~c.todAlarmWrite => WriteTodTenths(At(c, t), v) = WriteTodTenths(c, v)
         /\ WriteTodRest(At(c, t), v) = At(WriteTodRest(c, v), t)
         /\ WriteTodRest(c, v).todHalted = c.todHalted
<1> DEFINE d == At(c, t)
           alarm == [c.todAlarm EXCEPT !.tenths = v]
           tod == [c.tod EXCEPT !.tenths = v]
           alarmRest == [c.todAlarm EXCEPT !.rest = v]
           todRest == [c.tod EXCEPT !.rest = v]
           alarmAt == [d.todAlarm EXCEPT !.tenths = v]
           todAt == [d.tod EXCEPT !.tenths = v]
           alarmRestAt == [d.todAlarm EXCEPT !.rest = v]
           todRestAt == [d.tod EXCEPT !.rest = v]
<1>1. d.todAlarmWrite = c.todAlarmWrite /\ d.todAlarm = c.todAlarm /\ d.tod = c.tod
  BY AtIs
<1> HIDE DEF d
<1>2. alarmAt = alarm /\ todAt = tod /\ alarmRestAt = alarmRest /\ todRestAt = todRest
  BY <1>1
<1>3. /\ WriteTodTenths(c, v) =
           IF c.todAlarmWrite THEN [c EXCEPT !.todAlarm = alarm]
           ELSE [c EXCEPT !.tod = tod, !.todHalted = FALSE, !.todCycles = 0]
      /\ WriteTodRest(c, v) =
           IF c.todAlarmWrite THEN [c EXCEPT !.todAlarm = alarmRest] ELSE [c EXCEPT !.tod = todRest]
  BY DEF WriteTodTenths, WriteTodRest
<1>4. /\ WriteTodTenths(d, v) =
           IF d.todAlarmWrite THEN [d EXCEPT !.todAlarm = alarmAt]
           ELSE [d EXCEPT !.tod = todAt, !.todHalted = FALSE, !.todCycles = 0]
      /\ WriteTodRest(d, v) =
           IF d.todAlarmWrite THEN [d EXCEPT !.todAlarm = alarmRestAt]
           ELSE [d EXCEPT !.tod = todRestAt]
  BY DEF WriteTodTenths, WriteTodRest
<1> HIDE DEF alarm, tod, alarmRest, todRest, alarmAt, todAt, alarmRestAt, todRestAt
<1>5. ASSUME NEW x
      PROVE  /\ [d EXCEPT !.todAlarm = x] = At([c EXCEPT !.todAlarm = x], t)
             /\ [d EXCEPT !.tod = x] = At([c EXCEPT !.tod = x], t)
             /\ [c EXCEPT !.todAlarm = x].todHalted = c.todHalted
             /\ [c EXCEPT !.tod = x].todHalted = c.todHalted
  BY DEF d, At, Chip
<1>6. [d EXCEPT !.tod = tod, !.todHalted = FALSE, !.todCycles = 0]
        = [c EXCEPT !.tod = tod, !.todHalted = FALSE, !.todCycles = 0]
  BY DEF d, At, Chip
<1>7. /\ [d EXCEPT !.todAlarm = alarm] = At([c EXCEPT !.todAlarm = alarm], t)
      /\ [c EXCEPT !.todAlarm = alarm].todHalted = c.todHalted
  BY <1>5
<1>8. /\ [d EXCEPT !.todAlarm = alarmRest] = At([c EXCEPT !.todAlarm = alarmRest], t)
      /\ [c EXCEPT !.todAlarm = alarmRest].todHalted = c.todHalted
      /\ [d EXCEPT !.tod = todRest] = At([c EXCEPT !.tod = todRest], t)
      /\ [c EXCEPT !.tod = todRest].todHalted = c.todHalted
  BY <1>5
<1>9. /\ c.todAlarmWrite => /\ WriteTodTenths(d, v) = At(WriteTodTenths(c, v), t)
                            /\ WriteTodTenths(c, v).todHalted = c.todHalted
      /\ ~c.todAlarmWrite => WriteTodTenths(d, v) = WriteTodTenths(c, v)
  BY <1>1, <1>2, <1>3, <1>4, <1>6, <1>7
<1>10. /\ WriteTodRest(d, v) = At(WriteTodRest(c, v), t)
       /\ WriteTodRest(c, v).todHalted = c.todHalted
  BY <1>1, <1>2, <1>3, <1>4, <1>8
<1> QED
  BY <1>9, <1>10 DEF d

\* Writing the hours stops the clock
LEMMA TodHoursAt ==
  ASSUME NEW c \in Chip, NEW t \in Nat, NEW v \in 0 .. Rests - 1, c.todHalted
  PROVE  /\ WriteTodHours(At(c, t), v) = At(WriteTodHours(c, v), t)
         /\ WriteTodHours(c, v).todHalted
<1> DEFINE written == WriteTodRest(c, v)
<1>1. /\ written \in Chip /\ written.todHalted
      /\ WriteTodRest(At(c, t), v) = At(written, t)
  BY TodWritesAreTyped, TodWritesAt
<1>2. /\ At(c, t).todAlarmWrite = c.todAlarmWrite
      /\ At(written, t).todHalted = written.todHalted
  BY <1>1, AtIs
<1> DEFINE halted == written.todHalted \/ ~c.todAlarmWrite
           haltedAt == At(written, t).todHalted \/ ~At(c, t).todAlarmWrite
<1>3. WriteTodHours(c, v) = [written EXCEPT !.todHalted = halted]
  BY DEF WriteTodHours
<1>4. halted = TRUE /\ haltedAt = TRUE
  BY <1>1, <1>2, Zenon
<1> HIDE DEF written
<1>5. WriteTodHours(At(c, t), v) = [At(written, t) EXCEPT !.todHalted = haltedAt]
  BY <1>1 DEF WriteTodHours
<1> HIDE DEF halted, haltedAt
<1>6. /\ [At(written, t) EXCEPT !.todHalted = TRUE] = At([written EXCEPT !.todHalted = TRUE], t)
      /\ [written EXCEPT !.todHalted = TRUE].todHalted
  BY <1>1 DEF At, Chip
<1> QED
  BY <1>3, <1>4, <1>5, <1>6

\* A write to a chip whose time of day is halted
LEMMA WriteHalted ==
  ASSUME NEW c \in Chip, NEW w \in RegisterWrites, c.todHalted
  PROVE  LET after(d) == WriteEffect(d, w.reg, w.value)
         IN  \/ after(At(c, 0)) = after(c)
             \/ after(At(c, 0)) = At(after(c), 0) /\ after(c).todHalted
<1> DEFINE d == At(c, 0)
           v == w.value
           after(e) == WriteEffect(e, w.reg, v)
           kept == after(d) = At(after(c), 0) /\ after(c).todHalted
<1>1. 0 \in Nat
  OBVIOUS
<1>2. CASE w.reg = "Port"
  <2>1. after(d) = d /\ after(c) = c
    BY <1>2 DEF WriteEffect
  <2> QED
    BY <2>1
<1>3. CASE w.reg \in {"TALo", "TAHi", "TBLo", "TBHi"}
  <2>1. kept
    BY <1>3, LatchWritesAt
  <2> QED
    BY <2>1
<1>4. CASE w.reg = "TodTenths"
  <2>1. after(c) = WriteTodTenths(c, v) /\ after(d) = WriteTodTenths(d, v)
    BY <1>4 DEF WriteEffect
  <2>2. \/ WriteTodTenths(d, v) = WriteTodTenths(c, v)
        \/ WriteTodTenths(d, v) = At(WriteTodTenths(c, v), 0) /\ WriteTodTenths(c, v).todHalted
    BY <1>1, TodWritesAt
  <2> QED
    BY <2>1, <2>2
<1>5. CASE w.reg = "TodRest"
  <2>1. after(c) = WriteTodRest(c, v) /\ after(d) = WriteTodRest(d, v)
    BY <1>5 DEF WriteEffect
  <2>2. kept
    BY <1>1, <2>1, TodWritesAt
  <2> QED
    BY <2>2
<1>6. CASE w.reg = "TodHours"
  <2>1. after(c) = WriteTodHours(c, v) /\ after(d) = WriteTodHours(d, v)
    BY <1>6 DEF WriteEffect
  <2>2. v \in 0 .. Rests - 1
    BY <1>6 DEF RegisterWrites
  <2>3. kept
    BY <1>1, <2>1, <2>2, TodHoursAt
  <2> QED
    BY <2>3
<1>7. CASE w.reg = "SDR"
  <2>1. kept
    BY <1>7, MaskWritesAt
  <2> QED
    BY <2>1
<1>8. CASE w.reg \in {"SetIMR", "ClearIMR"}
  <2>1. \/ after(c) = WriteImr(c, TRUE, v) /\ after(d) = WriteImr(d, TRUE, v)
        \/ after(c) = WriteImr(c, FALSE, v) /\ after(d) = WriteImr(d, FALSE, v)
    BY <1>8 DEF WriteEffect
  <2>2. ASSUME NEW set
        PROVE  /\ WriteImr(d, set, v) = At(WriteImr(c, set, v), 0)
               /\ WriteImr(c, set, v).todHalted
    BY MaskWritesAt
  <2>3. kept
    <3> HIDE DEF d
    <3>1. after(d) = At(after(c), 0) /\ after(c).todHalted
      BY <2>1, <2>2
    <3> QED
      BY <3>1 DEF d
  <2> QED
    BY <2>3
<1>9. CASE w.reg = "CRA"
  <2>1. after(c) = WriteCra(c, v) /\ after(d) = WriteCra(d, v)
    BY <1>9 DEF WriteEffect
  <2>2. kept
    BY <1>1, <2>1, ControlWritesAt
  <2> QED
    BY <2>2
<1>10. CASE w.reg = "CRB"
  <2>1. after(c) = WriteCrb(c, v) /\ after(d) = WriteCrb(d, v)
    BY <1>10 DEF WriteEffect
  <2>2. kept
    BY <1>1, <2>1, ControlWritesAt
  <2> QED
    BY <2>2
<1> QED
  BY <1>2, <1>3, <1>4, <1>5, <1>6, <1>7, <1>8, <1>9, <1>10 DEF RegisterWrites

\* An access of what is shown shows the access
LEMMA AccessShown ==
  ASSUME NEW c \in Chip
  PROVE  /\ \A reg : Shown(ReadEffect(Shown(c), reg)) = Shown(ReadEffect(c, reg))
         /\ \A w \in RegisterWrites :
              Shown(WriteEffect(Shown(c), w.reg, w.value)) = Shown(WriteEffect(c, w.reg, w.value))
<1>1. CASE ~c.todHalted
  BY <1>1, ShownIs
<1>2. CASE c.todHalted
  <2>1. Shown(c) = At(c, 0)
    BY <1>2, ShownIs
  <2>2. ASSUME NEW e \in Chip, e.todHalted
        PROVE  Shown(At(e, 0)) = Shown(e)
    BY <2>2, ShownIs
  <2>3. ASSUME NEW reg
        PROVE  Shown(ReadEffect(At(c, 0), reg)) = Shown(ReadEffect(c, reg))
    <3>1. ReadEffect(At(c, 0), reg) = At(ReadEffect(c, reg), 0) /\ ReadEffect(c, reg).todHalted
      BY <1>2, ReadEffectAt
    <3>2. ReadEffect(c, reg) \in Chip
      BY ReadEffectIsTyped
    <3> QED
      BY <2>2, <3>1, <3>2
  <2>4. ASSUME NEW w \in RegisterWrites
        PROVE  Shown(WriteEffect(At(c, 0), w.reg, w.value)) = Shown(WriteEffect(c, w.reg, w.value))
    <3>1. WriteEffect(c, w.reg, w.value) \in Chip
      BY WriteEffectIsTyped
    <3> QED
      BY <1>2, <2>2, <3>1, WriteHalted
  <2> QED
    BY <2>1, <2>3, <2>4
<1> QED
  BY <1>1, <1>2

-----------------------------------------------------------------------------
\* The chip of the promise works as this one does, operator by operator.

LEMMA PromisedTimerIsSame ==
  ASSUME NEW t
  PROVE  /\ Promise!Underflows(t) = Underflows(t)
         /\ Promise!TickTimer(t) = TickTimer(t)
         /\ Promise!StepOnce(t) = StepOnce(t)
<1>1. ASSUME NEW s
      PROVE  Promise!NextState(s) = NextState(s)
  BY DEF Promise!NextState, NextState, Promise!FlagIf, FlagIf
<1>2. Promise!Counted(t) = Counted(t)
  BY DEF Promise!Counted, Counted
<1>3. Promise!Underflows(t) = Underflows(t)
  BY <1>1, <1>2 DEF Promise!Underflows, Underflows
<1>4. Promise!Moved(t) = Moved(t)
  BY <1>1, <1>3 DEF Promise!Moved, Moved
<1>5. Promise!Stopped(Promise!Loaded(Moved(t))) = Stopped(Loaded(Moved(t)))
  BY DEF Promise!Stopped, Stopped, Promise!Loaded, Loaded
<1>6. Promise!TickTimer(t) = TickTimer(t)
  BY <1>2, <1>4, <1>5 DEF Promise!TickTimer, TickTimer
<1>7. Promise!StepOnce(t) = StepOnce(t)
  BY DEF Promise!StepOnce, StepOnce
<1> QED
  BY <1>3, <1>6, <1>7

LEMMA PromisedEventsAreSame ==
  ASSUME NEW c
  PROVE  /\ \A source : Promise!Trigger(c, source) = Trigger(c, source)
         /\ \A pin, control : Promise!DrivePin(c, pin, control) = DrivePin(c, pin, control)
         /\ Promise!ShiftSerial(c) = ShiftSerial(c)
         /\ Promise!EndPulses(c) = EndPulses(c)
         /\ Promise!DelayInterrupt(c) = DelayInterrupt(c)
<1>1. ASSUME NEW d, NEW source
      PROVE  Promise!Trigger(d, source) = Trigger(d, source)
  BY DEF Promise!Trigger, Trigger
<1>2. ASSUME NEW pin, NEW control
      PROVE  Promise!DrivePin(c, pin, control) = DrivePin(c, pin, control)
  BY DEF Promise!DrivePin, DrivePin, Promise!Flip, Flip
<1>3. Promise!ShiftSerial(c) = ShiftSerial(c)
  BY <1>1 DEF Promise!ShiftSerial, ShiftSerial
<1>4. Promise!EndPulses(c) = EndPulses(c)
  BY DEF Promise!EndPulses, EndPulses, Promise!Pins, Pins
<1>5. Promise!DelayInterrupt(c) = DelayInterrupt(c)
  BY DEF Promise!DelayInterrupt, DelayInterrupt
<1> QED
  BY <1>1, <1>2, <1>3, <1>4, <1>5

LEMMA PromisedClockTimersIsSame ==
  ASSUME NEW c
  PROVE  /\ Promise!CountCnt(c) = CountCnt(c)
         /\ Promise!ClockTimerA(c) = ClockTimerA(c)
         /\ Promise!ClockTimerB(c) = ClockTimerB(c)
         /\ \A under : Promise!FeedTimerB(c, under) = FeedTimerB(c, under)
<1>1. /\ \A t : Promise!Underflows(t) = Underflows(t)
      /\ \A t : Promise!TickTimer(t) = TickTimer(t)
      /\ \A t : Promise!StepOnce(t) = StepOnce(t)
  BY PromisedTimerIsSame
<1>2. /\ \A d, source : Promise!Trigger(d, source) = Trigger(d, source)
      /\ \A d, pin, control : Promise!DrivePin(d, pin, control) = DrivePin(d, pin, control)
      /\ \A d : Promise!ShiftSerial(d) = ShiftSerial(d)
  BY PromisedEventsAreSame
<1>3. \A s, element : Promise!Flip(s, element) = Flip(s, element)
  BY DEF Promise!Flip, Flip
<1>4. Promise!CountCnt(c) = CountCnt(c)
  BY <1>1 DEF Promise!CountCnt, CountCnt
<1>5. Promise!ClockTimerA(c) = ClockTimerA(c)
  BY <1>1, <1>2, <1>3 DEF Promise!ClockTimerA, ClockTimerA
<1>6. Promise!ClockTimerB(c) = ClockTimerB(c)
  BY <1>1, <1>2, <1>3 DEF Promise!ClockTimerB, ClockTimerB
<1>7. \A under : Promise!FeedTimerB(c, under) = FeedTimerB(c, under)
  BY <1>1 DEF Promise!FeedTimerB, FeedTimerB
<1> QED
  BY <1>4, <1>5, <1>6, <1>7

LEMMA PromisedTodIsSame ==
  ASSUME NEW c
  PROVE  Promise!ClockTod(c) = ClockTod(c) /\ Promise!Shown(c) = Shown(c)
<1>1. \A d, source : Promise!Trigger(d, source) = Trigger(d, source)
  BY PromisedEventsAreSame
<1>2. \A time : Promise!NextTenth(time) = NextTenth(time)
  BY DEF Promise!NextTenth, NextTenth
<1>3. ASSUME NEW d
      PROVE  Promise!TodTick(d) = TodTick(d)
  BY <1>1, <1>2 DEF Promise!TodTick, TodTick
<1>4. Promise!TodPeriod(c) = TodPeriod(c)
  BY DEF Promise!TodPeriod, TodPeriod
<1>5. Promise!ClockTod(c) = ClockTod(c)
  BY <1>3, <1>4 DEF Promise!ClockTod, ClockTod
<1>6. Promise!Shown(c) = Shown(c)
  BY DEF Promise!Shown, Shown
<1> QED
  BY <1>5, <1>6

LEMMA PromisedTickIsSame ==
  ASSUME NEW c
  PROVE  Promise!TickChip(c) = TickChip(c)
<1>1. /\ \A t : Promise!Underflows(t) = Underflows(t)
      /\ \A d : Promise!CountCnt(d) = CountCnt(d)
      /\ \A d : Promise!ClockTimerA(d) = ClockTimerA(d)
      /\ \A d : Promise!ClockTimerB(d) = ClockTimerB(d)
      /\ \A d, under : Promise!FeedTimerB(d, under) = FeedTimerB(d, under)
      /\ \A d : Promise!EndPulses(d) = EndPulses(d)
      /\ \A d : Promise!DelayInterrupt(d) = DelayInterrupt(d)
      /\ \A d : Promise!ClockTod(d) = ClockTod(d)
  BY PromisedTimerIsSame, PromisedEventsAreSame, PromisedClockTimersIsSame, PromisedTodIsSame
<1> QED
  BY <1>1 DEF Promise!TickChip, TickChip

LEMMA PromisedReadIsSame ==
  ASSUME NEW c, NEW reg
  PROVE  Promise!ReadEffect(c, reg) = ReadEffect(c, reg)
<1>1. Promise!ReadIcr(c) = ReadIcr(c)
  BY DEF Promise!ReadIcr, ReadIcr
<1>2. Promise!ReadTodHours(c) = ReadTodHours(c)
  BY DEF Promise!ReadTodHours, ReadTodHours
<1>3. Promise!ReadTodTenths(c) = ReadTodTenths(c)
  BY DEF Promise!ReadTodTenths, ReadTodTenths
<1> QED
  BY <1>1, <1>2, <1>3 DEF Promise!ReadEffect, ReadEffect

LEMMA PromisedWriteIsSame ==
  ASSUME NEW c, NEW reg, NEW v
  PROVE  Promise!WriteEffect(c, reg, v) = WriteEffect(c, reg, v)
<1>1. ASSUME NEW t
      PROVE  /\ Promise!SetLatchLo(t, v) = SetLatchLo(t, v)
             /\ Promise!SetLatchHi(t, v) = SetLatchHi(t, v)
  BY DEF Promise!SetLatchLo, SetLatchLo, Promise!SetLatchHi, SetLatchHi
<1>2. ASSUME NEW t, NEW start, NEW oneShot, NEW load, NEW external
      PROVE  Promise!SetControl(t, start, oneShot, load, external)
               = SetControl(t, start, oneShot, load, external)
  BY DEF Promise!SetControl, SetControl, Promise!FlagIf, FlagIf
<1>3. ASSUME NEW set, NEW element, NEW condition
      PROVE  Promise!SetIf(set, element, condition) = SetIf(set, element, condition)
  BY DEF Promise!SetIf, SetIf
<1>4. ASSUME NEW pin, NEW old
      PROVE  Promise!SelectPin(c, pin, v, old) = SelectPin(c, pin, v, old)
  BY <1>3 DEF Promise!SelectPin, SelectPin
<1>5. /\ Promise!SelectPin(c, "PB6", v, c.cra) = SelectPin(c, "PB6", v, c.cra)
      /\ Promise!SelectPin(c, "PB7", v, c.crb) = SelectPin(c, "PB7", v, c.crb)
  BY <1>4
<1>6. Promise!WriteCra(c, v) = WriteCra(c, v)
  BY <1>2, <1>5 DEF Promise!WriteCra, WriteCra
<1>7. Promise!WriteCrb(c, v) = WriteCrb(c, v)
  BY <1>2, <1>5 DEF Promise!WriteCrb, WriteCrb
<1>8. Promise!WriteTodTenths(c, v) = WriteTodTenths(c, v)
  BY DEF Promise!WriteTodTenths, WriteTodTenths
<1>9. Promise!WriteTodRest(c, v) = WriteTodRest(c, v)
  BY DEF Promise!WriteTodRest, WriteTodRest
<1>10. Promise!WriteTodHours(c, v) = WriteTodHours(c, v)
  BY <1>9 DEF Promise!WriteTodHours, WriteTodHours
<1>11. /\ Promise!WriteImr(c, TRUE, v) = WriteImr(c, TRUE, v)
       /\ Promise!WriteImr(c, FALSE, v) = WriteImr(c, FALSE, v)
  BY DEF Promise!WriteImr, WriteImr
<1>12. /\ [c EXCEPT !.ta = Promise!SetLatchLo(@, v)] = [c EXCEPT !.ta = SetLatchLo(@, v)]
       /\ [c EXCEPT !.ta = Promise!SetLatchHi(@, v)] = [c EXCEPT !.ta = SetLatchHi(@, v)]
       /\ [c EXCEPT !.tb = Promise!SetLatchLo(@, v)] = [c EXCEPT !.tb = SetLatchLo(@, v)]
       /\ [c EXCEPT !.tb = Promise!SetLatchHi(@, v)] = [c EXCEPT !.tb = SetLatchHi(@, v)]
  BY <1>1
<1> QED
  BY <1>6, <1>7, <1>8, <1>9, <1>10, <1>11, <1>12 DEF Promise!WriteEffect, WriteEffect

-----------------------------------------------------------------------------
\* No program selects a cascade mode, and nothing drives CNT or FLAG
NoCascadeAsked == Starts = PlainStarts /\ Writes = PlainWrites /\ Inputs = {}

\* The promised chip is the one a clock in every cycle would have left
ShownInvariant == ScheduleInvariant /\ shown = Shown(SkipChip(chip, behind))

\* The chip that would be there now
LEMMA PresentIsTyped ==
  ASSUME ScheduleInvariant
  PROVE  /\ SkipChip(chip, behind) \in Chip
         /\ TickChip(SkipChip(chip, behind)) \in Chip
<1> DEFINE present == SkipChip(chip, behind)
<1>1. /\ chip \in Chip /\ behind \in Nat /\ wake \in Nat \ {0}
      /\ behind + wake <= Allowance(chip) /\ "TimerA" \notin chip.crb
      /\ Allowance(chip) \in Nat
  BY AllowanceIsPositive DEF ScheduleInvariant, ScheduleTypeOK, InTime, NoCascade
<1>2. present \in Chip
  <2>1. CASE behind = 0
    BY <1>1, <2>1, SkipNothing
  <2>2. CASE behind # 0
    <3>1. behind - 1 \in Nat /\ (behind - 1) + 1 = behind /\ behind < Allowance(chip)
      BY <1>1, <2>2
    <3> QED
      BY <1>1, <3>1, LeftAlone
  <2> QED
    BY <2>1, <2>2
<1> HIDE DEF present
<1>3. TickChip(present) \in Chip
  BY <1>2, TickChipIsTyped
<1> QED
  BY <1>2, <1>3 DEF present

\* The clock that the promise makes of what is shown
LEMMA PromisedClock ==
  ASSUME ShownInvariant, line' = TickChip(SkipChip(chip, behind)).intLow
  PROVE  LET now == TickChip(SkipChip(chip, behind))
         IN  /\ Promise!Clock
             /\ Promise!Shown(Promise!TickChip(shown)) = Shown(now)
             /\ \A reg : Promise!Shown(Promise!ReadEffect(Promise!TickChip(shown), reg))
                           = Shown(ReadEffect(now, reg))
             /\ \A w \in RegisterWrites :
                  Promise!Shown(Promise!WriteEffect(Promise!TickChip(shown), w.reg, w.value))
                    = Shown(WriteEffect(now, w.reg, w.value))
<1> DEFINE before == SkipChip(chip, behind)
           now == TickChip(before)
           ticked == TickChip(shown)
<1>1. before \in Chip /\ now \in Chip /\ shown = Shown(before)
  BY PresentIsTyped DEF ShownInvariant
<1>2. line' = now.intLow
  OBVIOUS
<1> HIDE DEF before
<1>3. Shown(ticked) = Shown(now) /\ ticked.intLow = now.intLow
  BY <1>1, TickShown
<1>4. ticked \in Chip
  <2>1. shown \in Chip
    BY <1>1, ShownIs
  <2> QED
    BY <2>1, TickChipIsTyped
<1>5. Promise!TickChip(shown) = ticked
  BY PromisedTickIsSame
<1> HIDE DEF now, ticked
<1>6. Promise!Clock
  BY <1>2, <1>3, <1>5 DEF Promise!Clock
<1>7. Promise!Shown(ticked) = Shown(now)
  BY <1>3, PromisedTodIsSame
<1>8. ASSUME NEW reg
      PROVE  Promise!Shown(Promise!ReadEffect(ticked, reg)) = Shown(ReadEffect(now, reg))
  <2>1. Promise!Shown(Promise!ReadEffect(ticked, reg)) = Shown(ReadEffect(ticked, reg))
    BY PromisedReadIsSame, PromisedTodIsSame
  <2>2. /\ Shown(ReadEffect(ticked, reg)) = Shown(ReadEffect(Shown(ticked), reg))
        /\ Shown(ReadEffect(now, reg)) = Shown(ReadEffect(Shown(now), reg))
    BY <1>1, <1>4, AccessShown
  <2> QED
    BY <1>3, <2>1, <2>2
<1>9. ASSUME NEW w \in RegisterWrites
      PROVE  Promise!Shown(Promise!WriteEffect(ticked, w.reg, w.value))
               = Shown(WriteEffect(now, w.reg, w.value))
  <2>1. Promise!Shown(Promise!WriteEffect(ticked, w.reg, w.value))
          = Shown(WriteEffect(ticked, w.reg, w.value))
    BY PromisedWriteIsSame, PromisedTodIsSame
  <2>2. /\ Shown(WriteEffect(ticked, w.reg, w.value))
             = Shown(WriteEffect(Shown(ticked), w.reg, w.value))
        /\ Shown(WriteEffect(now, w.reg, w.value)) = Shown(WriteEffect(Shown(now), w.reg, w.value))
    BY <1>1, <1>4, AccessShown
  <2> QED
    BY <1>3, <2>1, <2>2
<1> QED
  BY <1>5, <1>6, <1>7, <1>8, <1>9 DEF now, before

\* Every step of the scheduled chip is a step of the promised one
LEMMA ScheduledStepIsPromised ==
  ASSUME NoCascadeAsked, ShownInvariant, ShownNext
  PROVE  ShownInvariant' /\ Promise!Next
<1> DEFINE before == SkipChip(chip, behind)
           now == TickChip(before)
<1>1. ScheduleInvariant /\ shown' = Shown(CatchUp(chip', behind')) /\ ScheduledNext
  BY DEF ShownInvariant, ShownNext
<1>2. ScheduleInvariant' => shown' = Shown(SkipChip(chip', behind'))
  <2> SUFFICES ASSUME ScheduleInvariant' PROVE CatchUp(chip', behind') = SkipChip(chip', behind')
    BY <1>1
  <2>1. /\ chip' \in Chip /\ behind' \in Nat /\ wake' \in Nat \ {0}
        /\ behind' + wake' <= Allowance(chip') /\ "TimerA" \notin chip'.crb
    BY DEF ScheduleInvariant, ScheduleTypeOK, InTime, NoCascade
  <2>2. behind' < Allowance(chip')
    BY <2>1, AllowanceIsPositive
  <2> QED
    BY <2>1, <2>2, CatchUpIs
<1>3. CASE ScheduledCycle
  <2>1. ScheduleInvariant' /\ line' = now.intLow /\ SkipChip(chip', behind') = now
    BY <1>1, <1>3, CycleKeepsSchedule
  <2>2. Promise!Clock /\ Promise!Shown(Promise!TickChip(shown)) = Shown(now)
    BY <2>1, PromisedClock
  <2>3. shown' = Shown(now) /\ UNCHANGED accesses
    BY <1>2, <1>3, <2>1 DEF ScheduledCycle
  <2>4. Promise!Cycle
    BY <2>2, <2>3 DEF Promise!Cycle
  <2> QED
    BY <1>2, <2>1, <2>4 DEF ShownInvariant, Promise!Next
<1>4. ASSUME NEW reg \in Reads, ScheduledRead(reg)
      PROVE  ShownInvariant' /\ Promise!Next
  <2>1. /\ ScheduleInvariant' /\ line' = now.intLow
        /\ SkipChip(chip', behind') = ReadEffect(now, reg)
    BY <1>1, <1>4, ReadKeepsSchedule
  <2>2. /\ Promise!Clock
        /\ Promise!Shown(Promise!ReadEffect(Promise!TickChip(shown), reg))
             = Shown(ReadEffect(now, reg))
    BY <2>1, PromisedClock
  <2>3. shown' = Shown(ReadEffect(now, reg)) /\ CountAccess
    BY <1>2, <1>4, <2>1 DEF ScheduledRead
  <2>4. Promise!ReadCycle(reg)
    BY <2>2, <2>3 DEF Promise!ReadCycle, Promise!CountAccess, CountAccess
  <2> QED
    BY <1>2, <2>1, <2>4 DEF ShownInvariant, Promise!Next
<1>5. ASSUME NEW w \in Writes, ScheduledWrite(w)
      PROVE  ShownInvariant' /\ Promise!Next
  <2>1. w \in PlainWrites /\ w \in RegisterWrites
    BY CiaAccessAssumption DEF NoCascadeAsked
  <2>2. /\ ScheduleInvariant' /\ line' = now.intLow
        /\ SkipChip(chip', behind') = WriteEffect(now, w.reg, w.value)
    BY <1>1, <1>5, <2>1, WriteKeepsSchedule
  <2>3. /\ Promise!Clock
        /\ Promise!Shown(Promise!WriteEffect(Promise!TickChip(shown), w.reg, w.value))
             = Shown(WriteEffect(now, w.reg, w.value))
    BY <2>1, <2>2, PromisedClock
  <2>4. shown' = Shown(WriteEffect(now, w.reg, w.value)) /\ CountAccess
    BY <1>2, <1>5, <2>2 DEF ScheduledWrite
  <2>5. Promise!WriteCycle(w)
    BY <2>3, <2>4 DEF Promise!WriteCycle, Promise!CountAccess, CountAccess
  <2> QED
    BY <1>2, <2>2, <2>5 DEF ShownInvariant, Promise!Next
<1>6. Inputs = {}
  BY DEF NoCascadeAsked
<1> QED
  BY <1>1, <1>3, <1>4, <1>5, <1>6 DEF ScheduledNext

\* A CIA that is only woken for its events and caught up in bulk cannot be told
\* from one that is clocked every cycle, by a program that selects no cascade:
\* every read, the time of day and the interrupt line in every cycle are those
\* of the other half of Bus::tick.
THEOREM PlainScheduleIsExact == ASSUME NoCascadeAsked PROVE ShownSpec => EveryCycle
<1>1. ShownInit => ShownInvariant /\ Promise!Init
  <2> SUFFICES ASSUME ShownInit PROVE ShownInvariant /\ Promise!Init
    OBVIOUS
  <2>1. /\ ScheduledInit /\ chip \in PlainStarts /\ shown = Shown(CatchUp(chip, behind))
        /\ chip \in Starts /\ line = FALSE /\ accesses = 0
    BY DEF ShownInit, ScheduledInit, NoCascadeAsked
  <2>2. ScheduleInvariant /\ SkipChip(chip, behind) = chip
    BY <2>1, StartsOnSchedule
  <2>3. shown = Shown(chip) /\ ShownInvariant
    BY <2>1, <2>2, ShowsThePresent DEF ShownInvariant
  <2>4. Promise!Shown(chip) = Shown(chip)
    BY PromisedTodIsSame
  <2>5. Promise!Init
    BY <2>1, <2>3, <2>4 DEF Promise!Init
  <2> QED
    BY <2>3, <2>5
<1>2. ShownInvariant /\ [ShownNext]_shownVars => ShownInvariant' /\ [Promise!Next]_(Promise!vars)
  <2>1. ASSUME ShownInvariant, UNCHANGED shownVars
        PROVE  ShownInvariant' /\ UNCHANGED Promise!vars
    BY <2>1 DEF shownVars, scheduledVars, Promise!vars, ShownInvariant, ScheduleInvariant,
                ScheduleTypeOK, InTime, NoCascade
  <2> QED
    BY <2>1, ScheduledStepIsPromised
<1> QED
  BY <1>1, <1>2, PTL DEF ShownSpec, EveryCycle, Promise!Spec
=============================================================================
