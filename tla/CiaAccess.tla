------------------------------ MODULE CiaAccess -------------------------------
(***************************************************************************)
(* A CIA on the bus and the accesses it meets there: the chip a program    *)
(* has set up, what the CPU reads and writes from there, which inputs      *)
(* change.                                                                 *)
(***************************************************************************)
EXTENDS Mos6526

CONSTANTS Starts,      \* the chips a program has set up before a behaviour starts
          Reads,       \* the registers the CPU reads
          Writes,      \* the writes of the CPU: a set of [reg, value]
          Inputs,      \* inputs driven between two cycles
          MaxAccesses  \* bound: accesses and inputs of one behaviour

\* A register and the values a write puts in it
RegisterWrites ==
  [reg : {"Port", "SDR", "TALo", "TAHi", "TBLo", "TBHi"}, value : 0 .. ByteSize - 1]
    \cup [reg : {"TodTenths"}, value : 0 .. Tenths - 1]
    \cup [reg : {"TodRest", "TodHours"}, value : 0 .. Rests - 1]
    \cup [reg : {"SetIMR", "ClearIMR"}, value : SUBSET Sources]
    \cup [reg : {"CRA"}, value : SUBSET CraBits]
    \cup [reg : {"CRB"}, value : SUBSET CrbBits]

\* A set up chip has had no event yet: no timer runs before the start, and no
\* pin has been driven.
ASSUME CiaAccessAssumption ==
  /\ Starts \subseteq Chip
  /\ \A c \in Starts : c.icr = {} /\ ~c.intLow /\ c.intDelay = {}
  /\ \A c \in Starts : c.out = {} /\ \A p \in Pins : c.pulse[p] = 0
  /\ Writes \subseteq RegisterWrites
  /\ Inputs \subseteq {"CntLow", "CntHigh", "FlagLow", "FlagHigh"}
  /\ MaxAccesses \in Nat

VARIABLES chip,     \* the chip
          line,     \* the interrupt line as the CPU sampled it in the last cycle
          accesses  \* accesses and inputs so far

CountAccess == accesses < MaxAccesses /\ accesses' = accesses + 1

InputEffect(c, input) ==
  CASE input = "CntLow"   -> SetCnt(c, FALSE)
    [] input = "CntHigh"  -> SetCnt(c, TRUE)
    [] input = "FlagLow"  -> SetFlag(c, FALSE)
    [] input = "FlagHigh" -> SetFlag(c, TRUE)
=============================================================================
