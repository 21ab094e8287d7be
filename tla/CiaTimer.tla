------------------------------- MODULE CiaTimer -------------------------------
(***************************************************************************)
(* One interval timer of the MOS 6526 as the player emulates it: the       *)
(* struct Timer of cia/mos6526.h.  Pure operators, no state: a timer is a  *)
(* record of its pipeline flags, its latch and its counter.                *)
(*                                                                         *)
(* The flags are the bits of Timer::state.  A byte of the latch is a digit *)
(* 0 .. ByteSize-1 (256 in the code), so the latch and the counter range   *)
(* over 0 .. ByteSize^2 - 1 and the 16 bit width of the code is kept.      *)
(***************************************************************************)
EXTENDS Integers

CONSTANTS ByteSize,  \* values of one byte of a latch: 256 in the code
          Forever    \* kForever: the answer of a timer with nothing to do

ASSUME CiaTimerAssumption ==
  /\ ByteSize \in Nat \ {0, 1}
  /\ Forever \in Nat
  /\ Forever >= ByteSize * ByteSize

MaxCount == ByteSize * ByteSize - 1

Flags == {"CrStart", "Count2", "Step", "CrOneShot", "CrFLoad", "Phi2In",
          "Count3", "Load1", "OneShot0", "Load", "Out", "Count", "OneShot"}

Timer == [state : SUBSET Flags, latch : 0 .. MaxCount, counter : 0 .. MaxCount]

\* Timer::reset
ResetTimer == [state |-> {}, latch |-> MaxCount, counter |-> MaxCount]

FlagIf(flag, condition) == IF condition THEN {flag} ELSE {}

-----------------------------------------------------------------------------
(***************************************************************************)
(* One clock                                                               *)
(***************************************************************************)

\* Timer::next.  Start, one shot and clock source persist, every other flag
\* moves one stage down its pipeline or drops out.
NextState(s) ==
  (s \cap {"CrStart", "CrOneShot", "Phi2In"})
    \cup FlagIf("Count2", {"CrStart", "Phi2In"} \subseteq s)
    \cup FlagIf("Count3", "Count2" \in s \/ {"Step", "CrStart"} \subseteq s)
    \cup FlagIf("Count", "Count3" \in s)
    \cup FlagIf("Load1", "CrFLoad" \in s)
    \cup FlagIf("Load", "Load1" \in s)
    \cup FlagIf("OneShot0", "CrOneShot" \in s)
    \cup FlagIf("OneShot", "OneShot0" \in s)

\* The counter once the clock of Timer::tick has counted
Counted(t) ==
  IF t.counter # 0 /\ "Count3" \in t.state THEN t.counter - 1 ELSE t.counter

\* The return value of Timer::tick
Underflows(t) == Counted(t) = 0 /\ "Count3" \in NextState(t.state)

\* The flags once the clock has moved them, an underflow loads
Moved(t) ==
  NextState(t.state) \cup (IF Underflows(t) THEN {"Load", "Out"} ELSE {})

\* A load skips the next count, and the last shot stops the timer
Loaded(s) == IF "Load" \in s THEN s \ {"Count3"} ELSE s

Stopped(s) ==
  IF "Out" \in s /\ s \cap {"OneShot", "OneShot0"} # {}
  THEN s \ {"CrStart", "Count2"}
  ELSE s

\* Timer::tick, the timer after the clock
TickTimer(t) ==
  [t EXCEPT !.state   = Stopped(Loaded(Moved(t))),
            !.counter = IF "Load" \in Moved(t) THEN t.latch ELSE Counted(t)]

-----------------------------------------------------------------------------
(***************************************************************************)
(* Register writes                                                         *)
(***************************************************************************)

\* Timer::set_control with bits 0, 3, 4 and 5 of the control register: start,
\* one shot, the force load strobe and the count source (phi2 when clear).
SetControl(t, start, oneShot, load, external) ==
  [t EXCEPT !.state =
     (@ \ {"CrStart", "CrOneShot", "CrFLoad", "Phi2In"})
       \cup FlagIf("CrStart", start) \cup FlagIf("CrOneShot", oneShot)
       \cup FlagIf("CrFLoad", load)  \cup FlagIf("Phi2In", ~external)]

\* Timer::set_latch_lo.  Only a load in flight takes the byte into the counter.
SetLatchLo(t, byte) ==
  LET WithLow(n) == n - (n % ByteSize) + byte
  IN  [t EXCEPT !.latch   = WithLow(@),
                !.counter = IF "Load" \in t.state THEN WithLow(@) ELSE @]

\* Timer::set_latch_hi.  A stopped timer takes the whole latch at once.
SetLatchHi(t, byte) ==
  LET latch == (t.latch % ByteSize) + byte * ByteSize
  IN  [t EXCEPT !.latch   = latch,
                !.counter = IF "Load" \in t.state \/ "CrStart" \notin t.state
                            THEN latch ELSE @]

\* Timer::step_once, a count from CNT or from the other timer
StepOnce(t) ==
  IF "CrStart" \in t.state THEN [t EXCEPT !.state = @ \cup {"Step"}] ELSE t

-----------------------------------------------------------------------------
(***************************************************************************)
(* Being left alone                                                        *)
(***************************************************************************)

Settled(s) == NextState(s) = s

Counting(s) == "Count3" \in s

\* Stages that change something part way and must be walked
Staged(s) == s \cap {"Step", "CrFLoad", "Load1", "Load", "Out"} # {}

FreeRunning(s) == {"CrStart", "Phi2In"} \subseteq s

\* Mutant of QuietClocks: the clock of the underflow counted as quiet
QuietClocksOneMore(t) ==
  CASE ~Settled(t.state) -> 0
    [] Settled(t.state) /\ ~Counting(t.state) -> Forever
    [] /\ Settled(t.state)
       /\ Counting(t.state)
       /\ Staged(t.state) \/ ~FreeRunning(t.state) -> 0
    [] OTHER -> t.counter + 1

\* Timer::quiet_clocks: 0 when every clock must be walked, else the clocks up
\* to the next visible one.
QuietClocks(t) ==
  CASE ~Settled(t.state) -> 0
    [] Settled(t.state) /\ ~Counting(t.state) -> Forever
    [] /\ Settled(t.state)
       /\ Counting(t.state)
       /\ Staged(t.state) \/ ~FreeRunning(t.state) -> 0
    [] OTHER -> IF t.counter = 0 THEN 1 ELSE t.counter

\* Timer::skip: n clocks of a timer that QuietClocks allowed
SkipTimer(t, n) ==
  IF Counting(t.state) THEN [t EXCEPT !.counter = @ - n] ELSE t
=============================================================================
