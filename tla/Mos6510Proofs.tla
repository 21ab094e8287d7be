---------------------------- MODULE Mos6510Proofs ----------------------------
(* The CPU for every set of interrupt sources and every program: it leaves   *)
(* the bus in time, takes no masked interrupt, takes the cycles of the data  *)
(* sheet for every instruction and interrupt sequence, and serves an NMI     *)
(* once.                                                                    *)
EXTENDS Mos6510, FiniteSetTheorems, TLAPS

----------------------------------------------------------------------------
(* Off the bus. With BA low only writes run, and no sequence of the states   *)
(* writes more than three times in a row.                                   *)

\* Writes that may already have run with BA low before the state
WritesBefore(st) ==
  CASE st \in {"RmwWriteNew", "JsrPushLo", "IntrPushLo"} -> 1
    [] st = "IntrPushP" -> 2
    [] st \in Writes \ {"RmwWriteNew", "JsrPushLo", "IntrPushLo", "IntrPushP"} -> 0
    [] OTHER -> 3

BusInv == late \in Nat /\ late <= WritesBefore(state)

(* Every state has a bound.                                                 *)
LEMMA BoundIs == ASSUME NEW st PROVE WritesBefore(st) \in 0..3
BY SMT DEF WritesBefore

(* What follows a write (tick_rmw_write_old(), tick_jsr_push_hi() and the    *)
(* other pushes): the next write of the sequence, or a read.                *)
LEMMA AfterWrite ==
  ASSUME state \in Writes,
         \/ FetchOpcode \/ FetchInterrupt \/ Straight \/ Last \/ Addressed
         \/ IndexHigh \/ Fix \/ Branch \/ Implied \/ PullFlags \/ PullAccumulator
         \/ PushFlags \/ VectorLow \/ VectorHigh
  PROVE  WritesBefore(state) + 1 <= WritesBefore(state')
<1>1. CASE Straight
  <2>1. /\ Successor["RmwWriteOld"] = "RmwWriteNew"
        /\ Successor["JsrPushHi"] = "JsrPushLo" /\ Successor["JsrPushLo"] = "JsrHi"
        /\ Successor["IntrPushHi"] = "IntrPushLo" /\ Successor["IntrPushLo"] = "IntrPushP"
    BY DEF Successor
  <2>2. DOMAIN Successor \cap Writes
          \subseteq {"RmwWriteOld", "JsrPushHi", "JsrPushLo", "IntrPushHi", "IntrPushLo"}
    BY DEF Successor, Writes
  <2>3. state' = Successor[state] /\ state \in DOMAIN Successor
    BY <1>1 DEF Straight, Goto
  <2>4. \/ state = "RmwWriteOld" /\ state' = "RmwWriteNew"
        \/ state = "JsrPushHi" /\ state' = "JsrPushLo"
        \/ state = "JsrPushLo" /\ state' = "JsrHi"
        \/ state = "IntrPushHi" /\ state' = "IntrPushLo"
        \/ state = "IntrPushLo" /\ state' = "IntrPushP"
    BY <2>1, <2>2, <2>3
  <2> QED BY <2>4, SMT DEF WritesBefore, Writes
<1>2. CASE Last
  <2>1. state' = "Fetch" /\ state \in LastStates
    BY <1>2 DEF Last, EndInstruction
  <2> QED BY <2>1, SMT DEF WritesBefore, Writes, LastStates
<1>3. CASE PushFlags
  <2>1. state = "IntrPushP" /\ state' = "IntrVecLo"
    BY <1>3 DEF PushFlags, Goto
  <2> QED BY <2>1, SMT DEF WritesBefore, Writes
<1>4. CASE \/ FetchOpcode \/ FetchInterrupt \/ Addressed \/ IndexHigh \/ Fix \/ Branch
           \/ Implied \/ PullFlags \/ PullAccumulator \/ VectorLow \/ VectorHigh
  <2>1. state \notin Writes
    BY <1>4 DEF FetchOpcode, FetchInterrupt, Addressed, IndexHigh, Fix, Branch, Implied,
       PullFlags, PullAccumulator, VectorLow, VectorHigh, Writes
  <2> QED BY <2>1
<1> QED BY <1>1, <1>2, <1>3, <1>4

(* A step of the CPU: with BA low it is a write.                            *)
LEMMA TickOnBus == ASSUME BusInv, Tick PROVE BusInv'
<1>1. /\ ba \/ state \in Writes
      /\ late' = IF ba THEN 0 ELSE late + 1
  BY DEF Tick, BaAllowsCycle
<1>2. CASE ba
  BY <1>1, <1>2, BoundIs, SMT DEF BusInv
<1>3. CASE ~ba
  <2>1. WritesBefore(state) + 1 <= WritesBefore(state')
    BY <1>1, <1>3, AfterWrite DEF Tick
  <2>2. WritesBefore(state) \in Nat /\ WritesBefore(state') \in Nat
    BY BoundIs, SMT
  <2> QED BY <1>1, <1>3, <2>1, <2>2, SMT DEF BusInv
<1> QED BY <1>2, <1>3

(* After power-on the CPU is off the bus in time.                            *)
LEMMA BusInit == Init => BusInv
BY SMT DEF Init, BusInv, WritesBefore, Writes

(* So it is after every step.                                                *)
LEMMA BusStep == BusInv /\ [Next]_vars => BusInv'
<1> SUFFICES ASSUME BusInv, [Next]_vars PROVE BusInv'
  OBVIOUS
<1>1. CASE Tick
  BY <1>1, TickOnBus
<1>2. ASSUME state' = state /\ late' = late
      PROVE  BusInv'
  BY <1>2 DEF BusInv
<1>3. ASSUME late' = 0
      PROVE  BusInv'
  BY <1>3, BoundIs, SMT DEF BusInv
<1>4. ASSUME state' = "Fetch" /\ late' = late
      PROVE  BusInv'
  <2>1. WritesBefore("Fetch") = 3
    BY SMT DEF WritesBefore, Writes
  <2> QED BY <1>4, <2>1, BoundIs, SMT DEF BusInv
<1>5. CASE SampleLines \/ ChipMovesLine \/ HotReset
  BY <1>2, <1>5 DEF SampleLines, ChipMovesLine, HotReset
<1>6. CASE VicMovesBa(TRUE) \/ VicMovesBa(FALSE) \/ ResetBus
  BY <1>3, <1>6 DEF VicMovesBa, ResetBus
<1>7. CASE ResetCpu
  BY <1>4, <1>7 DEF ResetCpu, ClearCpu
<1>8. CASE UNCHANGED vars
  BY <1>2, <1>8 DEF vars
<1> QED BY <1>1, <1>5, <1>6, <1>7, <1>8 DEF Next

(* The VIC takes the bus three cycles after BA falls: ba_allows_cycle() and  *)
(* state_writes() have taken the CPU off it by then, whatever it runs.      *)
THEOREM OffTheBus == Spec => []OffTheBusInThree
<1>1. BusInv => OffTheBusInThree
  BY BoundIs, SMT DEF BusInv, OffTheBusInThree
<1> QED BY <1>1, BusInit, BusStep, PTL DEF Spec

----------------------------------------------------------------------------
(* Masked interrupts. A sample is one cycle old when an instruction ends on  *)
(* it, and the edge it saw is still latched while it waits to be taken.     *)

Sampled ==
  /\ phase = "chips" /\ irqSampled => ~disabled
  /\ (phase = "chips" \/ take) /\ nmiSampled => edge

IrqInv == (take => state = "Fetch") /\ Sampled /\ IrqOnlyWhileEnabled

(* The end of an instruction acts on the sample of the cycle before: only    *)
(* its own SEI or PLP can have set I since.                                 *)
LEMMA EndsInstruction ==
  ASSUME IrqInv, phase = "chips", EndInstruction,
         UNCHANGED <<samples, edge, op>>,
         disabled' => disabled \/ op \in {"Sei", "Plp"}
  PROVE  (take' => state' = "Fetch") /\ (take' /\ nmiSampled' => edge')
         /\ IrqOnlyWhileEnabled'
<1>1. state' = "Fetch" /\ irqSampled' = irqSampled /\ nmiSampled' = nmiSampled
      /\ edge' = edge /\ op' = op
  BY DEF EndInstruction, samples
<1>2. take' => irqSampled \/ nmiSampled
  BY DEF EndInstruction
<1>3. (irqSampled => ~disabled) /\ (nmiSampled => edge)
  BY DEF IrqInv, Sampled
<1>4. disabled' => disabled \/ op \in {"Sei", "Plp"}
  OBVIOUS
<1>5. take' /\ ~nmiSampled' /\ disabled' => op' \in {"Sei", "Plp"}
  BY <1>1, <1>2, <1>3, <1>4
<1>6. take' /\ nmiSampled' => edge'
  BY <1>1, <1>3
<1> QED BY <1>1, <1>5, <1>6 DEF IrqOnlyWhileEnabled

(* Within an instruction nothing is taken.                                  *)
LEMMA GoesOn ==
  ASSUME IrqInv, state # "Fetch" \/ ~take, take' = take
  PROVE  ~take'
BY DEF IrqInv

(* A step of the CPU.                                                       *)
LEMMA TickMasked == ASSUME IrqInv, Tick PROVE IrqInv'
<1>1. phase = "chips" /\ phase' # "chips" /\ UNCHANGED samples
  BY DEF Tick
<1>2. ASSUME ~take'
      PROVE  IrqInv'
  BY <1>1, <1>2 DEF IrqInv, Sampled, IrqOnlyWhileEnabled
<1>3. ASSUME EndInstruction, UNCHANGED <<edge, op>>,
             disabled' => disabled \/ op \in {"Sei", "Plp"}
      PROVE  IrqInv'
  <2>1. (take' => state' = "Fetch") /\ (take' /\ nmiSampled' => edge')
        /\ IrqOnlyWhileEnabled'
    BY <1>1, <1>3, EndsInstruction
  <2> QED BY <1>1, <2>1 DEF IrqInv, Sampled
<1>4. CASE FetchOpcode
  BY <1>2, <1>4 DEF FetchOpcode, Goto
<1>5. CASE FetchInterrupt
  BY <1>2, <1>5 DEF FetchInterrupt
<1>6. ASSUME Within, UNCHANGED <<lines, disabled>>, \/ EndInstruction \/ take' = take
      PROVE  IrqInv'
  <2>1. CASE EndInstruction
    BY <1>3, <1>6, <2>1 DEF Within, decoded, lines
  <2>2. CASE take' = take
    BY <1>2, <1>6, <2>2, GoesOn DEF Within
  <2> QED BY <1>6, <2>1, <2>2
<1>7. CASE Straight \/ Last \/ Addressed
  BY <1>6, <1>7 DEF Straight, Last, Addressed, Goto
<1>8. CASE IndexHigh \/ Fix \/ Branch
  BY <1>6, <1>8 DEF IndexHigh, Fix, Branch, Goto
<1>9. CASE PullAccumulator \/ VectorLow \/ VectorHigh
  BY <1>6, <1>9 DEF PullAccumulator, VectorLow, VectorHigh, Goto
<1>10. CASE Implied
  <2>1. disabled' = (CASE op = "Cli" -> FALSE [] op = "Sei" -> TRUE [] OTHER -> disabled)
    BY <1>10 DEF Implied
  <2>2. disabled' => disabled \/ op \in {"Sei", "Plp"}
    <3>1. CASE op = "Cli"
      <4>1. disabled' = FALSE
        BY <2>1, <3>1
      <4> QED BY <4>1
    <3>2. CASE op = "Sei"
      BY <3>2
    <3>3. CASE op # "Cli" /\ op # "Sei"
      <4>1. disabled' = disabled
        BY <2>1, <3>3
      <4> QED BY <4>1
    <3> QED BY <3>1, <3>2, <3>3
  <2>3. EndInstruction /\ UNCHANGED <<edge, op>>
    BY <1>10 DEF Implied, Within, decoded, lines
  <2> QED BY <1>3, <2>2, <2>3
<1>11. CASE PullFlags
  <2>1. CASE state = "RtiPullP"
    BY <1>2, <1>11, <2>1, GoesOn DEF PullFlags, Goto
  <2>2. CASE state # "RtiPullP"
    BY <1>3, <1>11, <2>2 DEF PullFlags, Within, decoded, lines
  <2> QED BY <2>1, <2>2
<1>12. CASE PushFlags
  BY <1>2, <1>12, GoesOn DEF PushFlags, Within, Goto
<1> QED BY <1>4, <1>5, <1>7, <1>8, <1>9, <1>10, <1>11, <1>12 DEF Tick

(* No interrupt is sampled after power-on.                                   *)
LEMMA IrqInit == Init => IrqInv
BY DEF Init, IrqInv, Sampled, IrqOnlyWhileEnabled

(* The chips, the bus and the CPU keep the invariant of the samples.         *)
LEMMA IrqStep == IrqInv /\ [Next]_vars => IrqInv'
<1> SUFFICES ASSUME IrqInv, [Next]_vars PROVE IrqInv'
  OBVIOUS
<1>1. CASE Tick
  BY <1>1, TickMasked
<1>2. CASE SampleLines
  BY <1>2 DEF SampleLines, IrqInv, Sampled, IrqOnlyWhileEnabled, lines, decoded
<1>3. ASSUME UNCHANGED <<phase, state, op, disabled, irqSampled, nmiSampled, take>>,
             edge => edge'
      PROVE  IrqInv'
  BY <1>3 DEF IrqInv, Sampled, IrqOnlyWhileEnabled
<1>4. CASE ChipMovesLine
  <2>1. edge => edge'
    BY <1>4 DEF ChipMovesLine, MoveLine, SetIrq, SetNmi
  <2> QED BY <1>3, <1>4, <2>1 DEF ChipMovesLine, decoded, samples
<1>5. CASE VicMovesBa(TRUE) \/ VicMovesBa(FALSE)
  BY <1>3, <1>5 DEF VicMovesBa, SetBa, decoded, samples
<1>6. CASE ResetBus \/ ResetCpu
  BY <1>6 DEF ResetBus, ResetCpu, ClearCpu, IrqInv, Sampled, IrqOnlyWhileEnabled
<1>7. CASE HotReset
  BY <1>7 DEF HotReset, IrqInv, Sampled, IrqOnlyWhileEnabled, lines, decoded, samples
<1>8. CASE UNCHANGED vars
  BY <1>3, <1>8 DEF vars, lines, decoded, samples
<1> QED BY <1>1, <1>2, <1>4, <1>5, <1>6, <1>7, <1>8 DEF Next

(* An IRQ is never taken against the I flag, but in the one cycle after the  *)
(* SEI or PLP that set it (sample_lines(), end_instruction()).              *)
THEOREM MaskedIrqWaits == Spec => []IrqOnlyWhileEnabled
<1>1. IrqInv => IrqOnlyWhileEnabled
  BY DEF IrqInv
<1> QED BY <1>1, IrqInit, IrqStep, PTL DEF Spec

----------------------------------------------------------------------------
(* The paths of the instructions: which instruction is in which state in     *)
(* which of its cycles.                                                      *)

Operands == {"Read", "Write", "Rmw"}
Indexed == {"AbsX", "IndY"}

\* A state outside the interrupt sequence: the cycle it runs in, and for what
At(st, n, modes, kinds) ==
  state = st => intr = "None" /\ cycle = n /\ mode \in modes /\ kind \in kinds

\* A state of the interrupt sequence and its cycle
Sequence(st, n) == state = st => intr # "None" /\ cycle = n

\* Every state but the operand accesses
OnPath ==
  /\ At("ImpliedCycle", 1, {"Imp"}, {"Implied"}) /\ At("Immediate", 1, {"Imm"}, {"Read"})
  /\ At("ZpAddr", 1, {"Zp"}, Operands)
  /\ At("ZpiBase", 1, {"ZpX"}, Operands) /\ At("ZpiAdd", 2, {"ZpX"}, Operands)
  /\ At("AbsLo", 1, {"Abs"}, Operands \cup {"Jump"})
  /\ At("AbsHi", 2, {"Abs"}, Operands \cup {"Jump"})
  /\ At("AbsiLo", 1, {"AbsX"}, Operands) /\ At("AbsiHi", 2, {"AbsX"}, Operands)
  /\ At("AbsiFix", 3, {"AbsX"}, Operands)
  /\ At("IndxPtr", 1, {"IndX"}, Operands) /\ At("IndxAdd", 2, {"IndX"}, Operands)
  /\ At("IndxLo", 3, {"IndX"}, Operands) /\ At("IndxHi", 4, {"IndX"}, Operands)
  /\ At("IndyPtr", 1, {"IndY"}, Operands) /\ At("IndyLo", 2, {"IndY"}, Operands)
  /\ At("IndyHi", 3, {"IndY"}, Operands) /\ At("IndyFix", 4, {"IndY"}, Operands)
  /\ At("JmpIndPtrLo", 1, {"Ind"}, {"Jump"}) /\ At("JmpIndPtrHi", 2, {"Ind"}, {"Jump"})
  /\ At("JmpIndVecLo", 3, {"Ind"}, {"Jump"}) /\ At("JmpIndVecHi", 4, {"Ind"}, {"Jump"})
  /\ At("JsrLo", 1, {"Abs"}, {"Jsr"}) /\ At("JsrDummy", 2, {"Abs"}, {"Jsr"})
  /\ At("JsrPushHi", 3, {"Abs"}, {"Jsr"}) /\ At("JsrPushLo", 4, {"Abs"}, {"Jsr"})
  /\ At("JsrHi", 5, {"Abs"}, {"Jsr"})
  /\ At("BranchOffset", 1, {"Rel"}, {"Branch"}) /\ At("BranchTaken", 2, {"Rel"}, {"Branch"})
  /\ At("BranchFix", 3, {"Rel"}, {"Branch"})
  /\ At("RtsDummy", 1, {"Stack"}, {"Rts"}) /\ At("RtsStackDummy", 2, {"Stack"}, {"Rts"})
  /\ At("RtsPullLo", 3, {"Stack"}, {"Rts"}) /\ At("RtsPullHi", 4, {"Stack"}, {"Rts"})
  /\ At("RtsBump", 5, {"Stack"}, {"Rts"})
  /\ At("RtiDummy", 1, {"Stack"}, {"Rti"}) /\ At("RtiStackDummy", 2, {"Stack"}, {"Rti"})
  /\ At("RtiPullP", 3, {"Stack"}, {"Rti"}) /\ At("RtiPullLo", 4, {"Stack"}, {"Rti"})
  /\ At("RtiPullHi", 5, {"Stack"}, {"Rti"})
  /\ At("PushDummy", 1, {"Stack"}, {"Push"}) /\ At("PushWrite", 2, {"Stack"}, {"Push"})
  /\ At("PullDummy", 1, {"Stack"}, {"Pull"}) /\ At("PullStackDummy", 2, {"Stack"}, {"Pull"})
  /\ At("PullRead", 3, {"Stack"}, {"Pull"})
  /\ Sequence("IntrDummy2", 1) /\ Sequence("IntrPushHi", 2) /\ Sequence("IntrPushLo", 3)
  /\ Sequence("IntrPushP", 4) /\ Sequence("IntrVecLo", 5) /\ Sequence("IntrVecHi", 6)

\* The cycle of an operand's first access, by the addressing mode
FirstAccess == CASE mode = "Zp" -> 2 [] mode \in {"ZpX", "Abs"} -> 3
                 [] mode \in {"AbsX"} -> 4 [] mode \in {"IndX", "IndY"} -> 5

\* An access of the operand, n cycles after the first one
Access(st, n, kinds) ==
  state = st =>
    /\ intr = "None" /\ kind \in kinds /\ cycle = FirstAccess + n
    /\ mode \in {"Zp", "ZpX", "Abs", "AbsX", "IndX", "IndY"}

\* The operand accesses; a page crossing has cost its cycle
OnOperand ==
  /\ Access("ReadOperand", 0, {"Read"}) /\ Access("WriteOperand", 0, {"Write"})
  /\ Access("RmwRead", 0, {"Rmw"}) /\ Access("RmwWriteOld", 1, {"Rmw"})
  /\ Access("RmwWriteNew", 2, {"Rmw"})
  /\ state = "ReadOperand" /\ mode \in Indexed => crossed
  /\ crossed => mode \in Indexed

OnFetch == state = "Fetch" => cycle \in 0..8
OnJam == jammed => state = "Fetch" /\ cycle = 1

\* The types of everything but the state and its cycle
PlainOK ==
  /\ LinesTypeOK
  /\ phase \in {"chips", "access", "ticked"}
  /\ [mode |-> mode, kind |-> kind, op |-> op]
       \in Decoded \cup {[mode |-> "Imp", kind |-> "Implied", op |-> "None"]}
  /\ intr \in {"None", "Brk", "Irq", "Nmi"}
  /\ vector \in {"None", "Irq", "Nmi"}
  /\ {crossed, hijack, disabled, break, irqSampled, nmiSampled, take, jammed}
       \subseteq BOOLEAN

\* The inductive invariant of CycleExact, with the types of PathInv
Path == state \in States /\ OnPath /\ OnOperand /\ OnFetch /\ OnJam /\ CycleExact

(* decode_opcode(): the first state of an instruction belongs to its mode    *)
(* and kind.                                                                 *)
LEMMA FirstStates ==
  ASSUME NEW d \in Decoded
  PROVE  \/ d.mode = "Imp" /\ d.kind = "Implied" /\ FirstState(d) = "ImpliedCycle"
         \/ d.mode = "Imp" /\ d.kind = "Kil" /\ FirstState(d) = "Fetch"
         \/ d.mode = "Imp" /\ d.kind = "Brk" /\ FirstState(d) = "IntrDummy2"
         \/ d.mode = "Imm" /\ d.kind = "Read" /\ FirstState(d) = "Immediate"
         \/ d.mode = "Zp" /\ d.kind \in Operands /\ FirstState(d) = "ZpAddr"
         \/ d.mode = "ZpX" /\ d.kind \in Operands /\ FirstState(d) = "ZpiBase"
         \/ d.mode = "Abs" /\ d.kind \in Operands \cup {"Jump"} /\ FirstState(d) = "AbsLo"
         \/ d.mode = "AbsX" /\ d.kind \in Operands /\ FirstState(d) = "AbsiLo"
         \/ d.mode = "IndX" /\ d.kind \in Operands /\ FirstState(d) = "IndxPtr"
         \/ d.mode = "IndY" /\ d.kind \in Operands /\ FirstState(d) = "IndyPtr"
         \/ d.mode = "Ind" /\ d.kind = "Jump" /\ FirstState(d) = "JmpIndPtrLo"
         \/ d.mode = "Abs" /\ d.kind = "Jsr" /\ FirstState(d) = "JsrLo"
         \/ d.mode = "Rel" /\ d.kind = "Branch" /\ FirstState(d) = "BranchOffset"
         \/ d.mode = "Stack" /\ d.kind = "Rts" /\ FirstState(d) = "RtsDummy"
         \/ d.mode = "Stack" /\ d.kind = "Rti" /\ FirstState(d) = "RtiDummy"
         \/ d.mode = "Stack" /\ d.kind = "Push" /\ FirstState(d) = "PushDummy"
         \/ d.mode = "Stack" /\ d.kind = "Pull" /\ FirstState(d) = "PullDummy"
<1>1. \/ d.mode \in {"Zp", "ZpX", "Abs", "AbsX", "IndX", "IndY"} /\ d.kind \in Operands
      \/ d.mode = "Imm" /\ d.kind = "Read"
      \/ d.mode = "Imp" /\ d.kind \in {"Implied", "Brk", "Kil"}
      \/ d.mode = "Rel" /\ d.kind = "Branch"
      \/ d.mode \in {"Abs", "Ind"} /\ d.kind = "Jump"
      \/ d.mode = "Abs" /\ d.kind = "Jsr"
      \/ d.mode = "Stack" /\ d.kind \in {"Push", "Rts", "Rti", "Pull"}
  BY SMT DEF Decoded, Operands
<1>2. DOMAIN ByKind = {"Push", "Pull", "Rts", "Rti", "Jsr", "Branch", "Brk", "Kil"}
  BY SMT DEF ByKind
<1>3. /\ ByKind["Push"] = "PushDummy" /\ ByKind["Pull"] = "PullDummy"
      /\ ByKind["Rts"] = "RtsDummy" /\ ByKind["Rti"] = "RtiDummy" /\ ByKind["Jsr"] = "JsrLo"
      /\ ByKind["Branch"] = "BranchOffset" /\ ByKind["Brk"] = "IntrDummy2"
      /\ ByKind["Kil"] = "Fetch"
  BY SMT DEF ByKind
<1>4. /\ ByMode["Imp"] = "ImpliedCycle" /\ ByMode["Imm"] = "Immediate"
      /\ ByMode["Zp"] = "ZpAddr" /\ ByMode["ZpX"] = "ZpiBase" /\ ByMode["Abs"] = "AbsLo"
      /\ ByMode["AbsX"] = "AbsiLo" /\ ByMode["IndX"] = "IndxPtr"
      /\ ByMode["IndY"] = "IndyPtr" /\ ByMode["Ind"] = "JmpIndPtrLo"
  BY SMT DEF ByMode
<1> QED BY <1>1, <1>2, <1>3, <1>4, SMT DEF FirstState, Operands

(* The pairs of the table of next states, by the instruction they are of.    *)
LEMMA Successors ==
  ASSUME state \in DOMAIN Successor
  PROVE  \/ <<state, Successor[state]>> \in
              {<<"ZpiBase", "ZpiAdd">>, <<"AbsLo", "AbsHi">>, <<"AbsiLo", "AbsiHi">>,
               <<"IndxPtr", "IndxAdd">>, <<"IndxAdd", "IndxLo">>, <<"IndxLo", "IndxHi">>,
               <<"IndyPtr", "IndyLo">>, <<"IndyLo", "IndyHi">>}
         \/ <<state, Successor[state]>> \in
              {<<"RmwRead", "RmwWriteOld">>, <<"RmwWriteOld", "RmwWriteNew">>}
         \/ <<state, Successor[state]>> \in
              {<<"JmpIndPtrLo", "JmpIndPtrHi">>, <<"JmpIndPtrHi", "JmpIndVecLo">>,
               <<"JmpIndVecLo", "JmpIndVecHi">>, <<"JsrLo", "JsrDummy">>,
               <<"JsrDummy", "JsrPushHi">>, <<"JsrPushHi", "JsrPushLo">>,
               <<"JsrPushLo", "JsrHi">>}
         \/ <<state, Successor[state]>> \in
              {<<"RtsDummy", "RtsStackDummy">>, <<"RtsStackDummy", "RtsPullLo">>,
               <<"RtsPullLo", "RtsPullHi">>, <<"RtsPullHi", "RtsBump">>,
               <<"RtiDummy", "RtiStackDummy">>, <<"RtiStackDummy", "RtiPullP">>,
               <<"RtiPullLo", "RtiPullHi">>, <<"PushDummy", "PushWrite">>,
               <<"PullDummy", "PullStackDummy">>, <<"PullStackDummy", "PullRead">>}
         \/ <<state, Successor[state]>> \in
              {<<"IntrDummy2", "IntrPushHi">>, <<"IntrPushHi", "IntrPushLo">>,
               <<"IntrPushLo", "IntrPushP">>}
BY SMT DEF Successor

(* The states the paths name are states.                                     *)
LEMMA StateNames ==
  /\ {"Fetch", "ReadOperand", "WriteOperand", "ZpiAdd", "AbsHi", "AbsiHi", "AbsiFix",
       "IndxAdd", "IndxLo", "IndxHi", "IndyLo", "IndyHi", "IndyFix"} \subseteq States
  /\ {"ImpliedCycle", "Immediate", "ZpAddr", "ZpiBase", "AbsLo", "AbsiLo", "IndxPtr",
       "IndyPtr", "JmpIndPtrLo", "JsrLo", "BranchOffset", "RtsDummy", "RtiDummy",
       "PushDummy", "PullDummy", "IntrDummy2", "RmwRead", "RmwWriteOld",
       "RmwWriteNew"} \subseteq States
  /\ {"JmpIndPtrHi", "JmpIndVecLo", "JmpIndVecHi", "JsrDummy", "JsrPushHi", "JsrPushLo",
       "JsrHi", "BranchTaken", "BranchFix", "RtsStackDummy", "RtsPullLo", "RtsPullHi",
       "RtsBump", "RtiStackDummy", "RtiPullP", "RtiPullLo", "RtiPullHi", "PushWrite",
      "PullStackDummy", "PullRead", "IntrPushHi", "IntrPushLo", "IntrPushP", "IntrVecLo",
      "IntrVecHi"} \subseteq States
BY SMT DEF States, Successor, LastStates

(* A state function that always goes to the same next state.                 *)
LEMMA StraightPath ==
  ASSUME Path, Straight
  PROVE  Path'
<1>1. /\ state \in DOMAIN Successor /\ state' = Successor[state] /\ state # "Fetch"
      /\ cycle' = cycle + 1 /\ mode' = mode /\ kind' = kind /\ op' = op /\ intr' = intr
      /\ jammed' = jammed /\ crossed' = crossed
  BY DEF Straight, Within, Goto, decoded
<1>2. /\ OnPath' /\ OnOperand' /\ OnFetch' /\ OnJam' /\ CycleExact' /\ state' \in States
  <2>1. CASE <<state, Successor[state]>> \in
              {<<"ZpiBase", "ZpiAdd">>, <<"AbsLo", "AbsHi">>, <<"AbsiLo", "AbsiHi">>,
               <<"IndxPtr", "IndxAdd">>, <<"IndxAdd", "IndxLo">>, <<"IndxLo", "IndxHi">>,
               <<"IndyPtr", "IndyLo">>, <<"IndyLo", "IndyHi">>}
    BY <1>1, <2>1, StateNames, SMT DEF Path, OnPath, OnOperand, OnFetch, OnJam,
         CycleExact, At, Sequence, Access
  <2>2. CASE <<state, Successor[state]>> \in
              {<<"RmwRead", "RmwWriteOld">>, <<"RmwWriteOld", "RmwWriteNew">>}
    BY <1>1, <2>2, StateNames, SMT DEF Path, OnPath, OnOperand, OnFetch, OnJam,
         CycleExact, At, Sequence, Access, FirstAccess
  <2>3. CASE <<state, Successor[state]>> \in
              {<<"JmpIndPtrLo", "JmpIndPtrHi">>, <<"JmpIndPtrHi", "JmpIndVecLo">>,
               <<"JmpIndVecLo", "JmpIndVecHi">>, <<"JsrLo", "JsrDummy">>,
               <<"JsrDummy", "JsrPushHi">>, <<"JsrPushHi", "JsrPushLo">>,
               <<"JsrPushLo", "JsrHi">>}
    BY <1>1, <2>3, StateNames, SMT DEF Path, OnPath, OnOperand, OnFetch, OnJam,
         CycleExact, At, Sequence, Access
  <2>4. CASE <<state, Successor[state]>> \in
              {<<"RtsDummy", "RtsStackDummy">>, <<"RtsStackDummy", "RtsPullLo">>,
               <<"RtsPullLo", "RtsPullHi">>, <<"RtsPullHi", "RtsBump">>,
               <<"RtiDummy", "RtiStackDummy">>, <<"RtiStackDummy", "RtiPullP">>,
               <<"RtiPullLo", "RtiPullHi">>, <<"PushDummy", "PushWrite">>,
               <<"PullDummy", "PullStackDummy">>, <<"PullStackDummy", "PullRead">>}
    BY <1>1, <2>4, StateNames, SMT DEF Path, OnPath, OnOperand, OnFetch, OnJam,
         CycleExact, At, Sequence, Access
  <2>5. CASE <<state, Successor[state]>> \in
              {<<"IntrDummy2", "IntrPushHi">>, <<"IntrPushHi", "IntrPushLo">>,
               <<"IntrPushLo", "IntrPushP">>}
    BY <1>1, <2>5, StateNames, SMT DEF Path, OnPath, OnOperand, OnFetch, OnJam,
         CycleExact, At, Sequence, Access
  <2> QED BY <1>1, <2>1, <2>2, <2>3, <2>4, <2>5, Successors
<1> QED BY <1>2 DEF Path

(* The cycles of the data sheet, by kind.                                    *)
LEMMA CycleTables ==
  /\ ReadCycles["Imm"] = 2 /\ ReadCycles["Zp"] = 3 /\ ReadCycles["ZpX"] = 4
  /\ ReadCycles["Abs"] = 4 /\ ReadCycles["AbsX"] = 4 /\ ReadCycles["IndX"] = 6
  /\ ReadCycles["IndY"] = 5
  /\ StackCycles["Jsr"] = 6 /\ StackCycles["Rts"] = 6 /\ StackCycles["Rti"] = 6
  /\ StackCycles["Push"] = 3 /\ StackCycles["Pull"] = 4 /\ StackCycles["Implied"] = 2
BY SMT DEF ReadCycles, StackCycles

(* The end of an instruction: its last state was the data sheet's last cycle. *)
LEMMA EndPath ==
  ASSUME Path, PlainOK, state' = "Fetch", cycle' = cycle + 1,
         UNCHANGED <<decoded, intr, jammed, crossed>>,
         \/ state \in LastStates \cup {"ImpliedCycle", "PullRead", "BranchOffset",
              "BranchTaken", "IntrVecHi"}
         \/ state \in {"AbsHi"} /\ kind = "Jump"
         \/ state \in {"AbsiFix", "IndyFix"} /\ kind = "Read" /\ ~crossed
  PROVE  Path'
<1>1. /\ mode' = mode /\ kind' = kind /\ op' = op /\ intr' = intr
      /\ jammed' = jammed /\ crossed' = crossed /\ crossed \in BOOLEAN
  BY DEF decoded, PlainOK
<1>2. state # "Fetch" /\ ~jammed
  BY SMT DEF Path, OnJam, LastStates
<1>3. cycle + 1 \in DataSheet
  <2>1. CASE state \in {"ReadOperand", "WriteOperand", "RmwWriteNew"}
    BY <1>1, <2>1, CycleTables, SMT DEF Path, OnOperand, Access, FirstAccess, DataSheet,
         Indexed
  <2>2. CASE state \in {"Immediate", "ImpliedCycle", "AbsiFix", "IndyFix", "AbsHi"}
    BY <1>1, <2>2, CycleTables, SMT DEF Path, OnPath, OnOperand, At, DataSheet, Indexed,
         LastStates
  <2>3. CASE state \in {"BranchFix", "JmpIndVecHi", "JsrHi", "RtsBump", "RtiPullHi",
       "PushWrite", "PullRead", "BranchOffset", "BranchTaken"}
    BY <1>1, <2>3, CycleTables, SMT DEF Path, OnPath, At, DataSheet
  <2>4. CASE state = "IntrVecHi"
    BY <1>1, <2>4, SMT DEF Path, OnPath, Sequence, DataSheet
  <2> QED BY <2>1, <2>2, <2>3, <2>4 DEF LastStates
<1>4. cycle + 1 \in 0..8
  <2>1. CASE state \in {"ReadOperand", "WriteOperand", "RmwWriteNew"}
    BY <2>1, SMT DEF Path, OnOperand, Access, FirstAccess
  <2>2. CASE state \notin {"ReadOperand", "WriteOperand", "RmwWriteNew"}
    BY <2>2, SMT DEF Path, OnPath, At, Sequence, LastStates
  <2> QED BY <2>1, <2>2
<1>5. DataSheet' = DataSheet
  BY <1>1 DEF DataSheet
<1>6. CycleExact' /\ OnFetch' /\ OnJam'
  BY <1>1, <1>2, <1>3, <1>4, <1>5 DEF CycleExact, OnFetch, OnJam
<1>7. OnPath'
  BY SMT DEF OnPath, At, Sequence
<1>8. OnOperand'
  BY <1>1, SMT DEF Path, OnOperand, Access
<1> QED BY <1>6, <1>7, <1>8, StateNames DEF Path

(* From a state of an instruction to another one of it.                     *)
LEMMA WithinPath ==
  ASSUME Path, PlainOK, cycle' = cycle + 1, UNCHANGED <<decoded, intr, jammed>>,
         \/ /\ UNCHANGED crossed
            /\ \/ state \in {"ZpAddr", "ZpiAdd", "AbsHi", "IndxHi"} /\ kind # "Jump"
                  /\ state' = Operand[kind]
               \/ state \in {"AbsiFix", "IndyFix"} /\ ~(kind = "Read" /\ ~crossed)
                  /\ state' = Operand[kind]
               \/ state = "BranchOffset" /\ state' = "BranchTaken"
               \/ state = "BranchTaken" /\ state' = "BranchFix"
               \/ state = "RtiPullP" /\ state' = "RtiPullLo"
               \/ state = "IntrPushP" /\ state' = "IntrVecLo"
               \/ state = "IntrVecLo" /\ state' = "IntrVecHi"
         \/ state = "AbsiHi" /\ state' = "AbsiFix" /\ crossed' \in BOOLEAN
         \/ state = "IndyHi" /\ state' = "IndyFix" /\ crossed' \in BOOLEAN
  PROVE  Path'
<1>1. /\ mode' = mode /\ kind' = kind /\ op' = op /\ intr' = intr
      /\ jammed' = jammed /\ crossed \in BOOLEAN
  BY DEF decoded, PlainOK
<1>2. Operand["Read"] = "ReadOperand" /\ Operand["Write"] = "WriteOperand"
      /\ Operand["Rmw"] = "RmwRead"
  BY SMT DEF Operand
<1>3. CASE state \in {"ZpAddr", "ZpiAdd", "AbsHi", "IndxHi", "AbsiFix", "IndyFix"}
  <2>1. kind \in Operands /\ state' = Operand[kind] /\ crossed' = crossed
    BY <1>3, SMT DEF Path, OnPath, At, Operands
  <2>2. state' \in {"ReadOperand", "WriteOperand", "RmwRead"}
    BY <1>2, <2>1, SMT DEF Operands
  <2>3. OnOperand'
    BY <1>1, <1>2, <1>3, <2>1, SMT DEF Path, OnPath, OnOperand, Access, At, FirstAccess,
         Indexed, Operands
  <2>4. OnPath' /\ OnFetch' /\ OnJam' /\ CycleExact'
    BY <1>1, <1>3, <2>2, SMT DEF Path, OnPath, OnFetch, OnJam, CycleExact, At, Sequence
  <2> QED BY <2>2, <2>3, <2>4, StateNames DEF Path
<1>4. CASE state \in {"BranchOffset", "BranchTaken", "RtiPullP", "IntrPushP", "IntrVecLo"}
  BY <1>1, <1>4, StateNames, SMT DEF Path, OnPath, OnOperand, OnFetch, OnJam, CycleExact,
       At, Sequence, Access
<1>5. CASE state \in {"AbsiHi", "IndyHi"}
  BY <1>1, <1>5, StateNames, SMT DEF Path, OnPath, OnOperand, OnFetch, OnJam, CycleExact,
       At, Sequence, Access, Indexed
<1> QED BY <1>3, <1>4, <1>5

(* The fetch: an instruction or an interrupt sequence begins.                *)
LEMMA FetchPath ==
  ASSUME Path, PlainOK, ~jammed, FetchOpcode \/ FetchInterrupt
  PROVE  Path'
<1>1. CASE FetchOpcode
  <2>1. PICK d \in Decoded :
          /\ mode' = d.mode /\ kind' = d.kind /\ op' = d.op /\ state' = FirstState(d)
          /\ jammed' = (d.kind = "Kil") /\ cycle' = 1 /\ crossed' = FALSE
          /\ intr' = IF d.kind = "Brk" THEN "Brk" ELSE "None"
    BY <1>1 DEF FetchOpcode, Goto, StartInterrupt
  <2>2. /\ state' \notin {"ReadOperand", "WriteOperand", "RmwRead", "RmwWriteOld",
                         "RmwWriteNew"}
        /\ state' \in States /\ (state' = "Fetch" <=> d.kind = "Kil")
    BY <2>1, FirstStates, StateNames, SMT DEF Operands
  <2>3. OnOperand'
    BY <2>1, <2>2, SMT DEF OnOperand, Access
  <2>4. OnFetch'
    BY <2>1, SMT DEF OnFetch
  <2>5. OnJam' /\ CycleExact'
    BY <2>1, <2>2 DEF OnJam, CycleExact
  <2>6. OnPath'
    <3>1. \/ d.mode = "Imp" /\ d.kind = "Brk" /\ FirstState(d) = "IntrDummy2"
          \/ d.mode = "Imp" /\ d.kind = "Kil" /\ FirstState(d) = "Fetch"
          \/ d.kind \notin {"Brk", "Kil"}
      BY FirstStates, SMT DEF Operands
    <3>2. CASE d.kind \in {"Brk", "Kil"}
      BY <2>1, <3>1, <3>2, SMT DEF OnPath, At, Sequence
    <3>3. CASE d.kind \notin {"Brk", "Kil"}
      <4>1. intr' = "None"
        BY <2>1, <3>3
      <4> QED BY <2>1, <3>3, <4>1, FirstStates, SMT DEF OnPath, At, Sequence, Operands
    <3> QED BY <3>2, <3>3
  <2> QED BY <2>2, <2>3, <2>4, <2>5, <2>6 DEF Path
<1>2. CASE FetchInterrupt
  <2>1. /\ UNCHANGED <<mode, kind, op, crossed, jammed>>
        /\ cycle' = 1 /\ state' = "IntrDummy2"
        /\ intr' \in {"Nmi", "Irq"}
    BY <1>2 DEF FetchInterrupt, StartInterrupt, decoded
  <2>2. OnPath' /\ OnFetch' /\ OnJam' /\ CycleExact' /\ state' \in States
    BY <2>1, StateNames, SMT DEF OnPath, OnOperand, OnFetch, OnJam, CycleExact, At, Sequence
  <2>3. OnOperand'
    BY <2>1, SMT DEF Path, OnOperand, Access
  <2> QED BY <2>2, <2>3 DEF Path
<1> QED BY <1>1, <1>2

(* A step of the CPU keeps the path.                                         *)
LEMMA TickPath ==
  ASSUME Path, PlainOK, Tick
  PROVE  Path'
<1>1. ~jammed
  BY DEF Tick
<1>2. CASE FetchOpcode \/ FetchInterrupt
  BY <1>1, <1>2, FetchPath
<1>3. CASE Straight
  BY <1>3, StraightPath
<1>4. CASE Last
  BY <1>4, EndPath DEF Last, Within, EndInstruction
<1>5. CASE Addressed
  <2>1. kind = "Jump" => state = "AbsHi"
    BY <1>5, SMT DEF Addressed, Path, OnPath, At, Operands
  <2>2. CASE kind = "Jump"
    BY <1>5, <2>1, <2>2, EndPath DEF Addressed, Within, EndInstruction
  <2>3. CASE kind # "Jump"
    BY <1>5, <2>3, WithinPath DEF Addressed, Within, Goto
  <2> QED BY <2>2, <2>3
<1>6. CASE IndexHigh
  BY <1>6, WithinPath DEF IndexHigh, Within, Goto
<1>7. CASE Fix
  <2>1. CASE kind = "Read" /\ ~crossed
    BY <1>7, <2>1, EndPath DEF Fix, Within, EndInstruction
  <2>2. CASE ~(kind = "Read" /\ ~crossed)
    BY <1>7, <2>2, WithinPath DEF Fix, Within, Goto
  <2> QED BY <2>1, <2>2
<1>8. CASE Branch
  BY <1>8, EndPath, WithinPath DEF Branch, Within, Goto, EndInstruction
<1>9. CASE Implied \/ PullAccumulator \/ VectorHigh
  BY <1>9, EndPath DEF Implied, PullAccumulator, VectorHigh, Within, EndInstruction
<1>10. CASE PullFlags
  <2>1. CASE state = "PullRead"
    BY <1>10, <2>1, EndPath DEF PullFlags, Within, EndInstruction
  <2>2. CASE state = "RtiPullP"
    BY <1>10, <2>2, WithinPath DEF PullFlags, Within, Goto
  <2> QED BY <1>10, <2>1, <2>2 DEF PullFlags
<1>11. CASE PushFlags \/ VectorLow
  BY <1>11, WithinPath DEF PushFlags, VectorLow, Within, Goto
<1> QED
  BY <1>2, <1>3, <1>4, <1>5, <1>6, <1>7, <1>8, <1>9, <1>10, <1>11 DEF Tick

(* The variables whose values no path depends on.                           *)
LEMMA TickPlain ==
  ASSUME PlainOK, Tick
  PROVE  PlainOK'
<1>1. LinesTypeOK'
  BY DEF Tick, PlainOK, FetchOpcode, FetchInterrupt, Straight, Last, Addressed,
       IndexHigh, Fix, Branch, Implied, PullFlags, PullAccumulator, PushFlags, VectorLow,
       VectorHigh, StartInterrupt, ClearNmiEdge, lines, LinesTypeOK
<1>2. phase' \in {"chips", "access", "ticked"}
  BY DEF Tick
<1>3. /\ [mode |-> mode, kind |-> kind, op |-> op]'
           \in Decoded \cup {[mode |-> "Imp", kind |-> "Implied", op |-> "None"]}
      /\ intr' \in {"None", "Brk", "Irq", "Nmi"}
  <2>1. CASE FetchOpcode
    <3>1. PICK d \in Decoded :
            /\ mode' = d.mode /\ kind' = d.kind /\ op' = d.op
            /\ intr' = IF d.kind = "Brk" THEN "Brk" ELSE "None"
      BY <2>1 DEF FetchOpcode, StartInterrupt
    <3>2. d = [mode |-> d.mode, kind |-> d.kind, op |-> d.op]
      BY SMT DEF Decoded
    <3> QED BY <3>1, <3>2
  <2>2. CASE FetchInterrupt
    BY <2>2 DEF FetchInterrupt, StartInterrupt, decoded, PlainOK
  <2>3. CASE Within
    BY <2>3 DEF Within, decoded, PlainOK
  <2> QED BY <2>1, <2>2, <2>3 DEF Tick, Straight, Last, Addressed, IndexHigh, Fix,
       Branch, Implied, PullFlags, PullAccumulator, PushFlags, VectorLow, VectorHigh
<1>4. vector' \in {"None", "Irq", "Nmi"}
  BY DEF Tick, PlainOK, FetchOpcode, FetchInterrupt, Straight, Last, Addressed,
       IndexHigh, Fix, Branch, Implied, PullFlags, PullAccumulator, PushFlags, VectorLow,
       VectorHigh
<1>5. crossed' \in BOOLEAN /\ hijack' \in BOOLEAN /\ disabled' \in BOOLEAN
     /\ break' \in BOOLEAN
  <2>1. crossed \in BOOLEAN /\ hijack \in BOOLEAN /\ disabled \in BOOLEAN
       /\ break \in BOOLEAN
    BY DEF PlainOK
  <2>2. CASE FetchOpcode \/ FetchInterrupt \/ Straight \/ Last \/ Addressed
    BY <2>1, <2>2 DEF FetchOpcode, FetchInterrupt, Straight, Last, Addressed
  <2>3. CASE IndexHigh \/ Fix \/ Branch \/ PullAccumulator
    BY <2>1, <2>3 DEF IndexHigh, Fix, Branch, PullAccumulator
  <2>4. CASE Implied
    <3>1. disabled' = (CASE op = "Cli" -> FALSE [] op = "Sei" -> TRUE [] OTHER -> disabled)
      BY <2>4 DEF Implied
    <3>2. disabled' \in BOOLEAN
      <4>1. CASE op = "Cli"
        BY <3>1, <4>1
      <4>2. CASE op = "Sei"
        BY <3>1, <4>2
      <4>3. CASE op # "Cli" /\ op # "Sei"
        <5>1. disabled' = disabled
          BY <3>1, <4>3
        <5> QED BY <2>1, <5>1
      <4> QED BY <4>1, <4>2, <4>3
    <3> QED BY <2>1, <2>4, <3>2 DEF Implied
  <2>5. CASE PullFlags \/ PushFlags \/ VectorLow \/ VectorHigh
    BY <2>1, <2>5 DEF PullFlags, PushFlags, VectorLow, VectorHigh
  <2> QED BY <2>2, <2>3, <2>4, <2>5 DEF Tick
<1>6. take' \in BOOLEAN /\ jammed' \in BOOLEAN
  BY DEF Tick, PlainOK, FetchOpcode, FetchInterrupt, Straight, Last, Addressed,
       IndexHigh, Fix, Branch, Implied, PullFlags, PullAccumulator, PushFlags, VectorLow,
       VectorHigh, Within, Goto, EndInstruction
<1>7. irqSampled' \in BOOLEAN /\ nmiSampled' \in BOOLEAN
  BY DEF Tick, PlainOK, samples
<1> QED BY <1>1, <1>2, <1>3, <1>4, <1>5, <1>6, <1>7 DEF PlainOK

\* Together they are inductive
PathInv == PlainOK /\ Path

(* The reset state is on the path.                                           *)
LEMMA PathInit == Init => PathInv
<1> SUFFICES ASSUME Init PROVE PathInv
  OBVIOUS
<1>1. PlainOK
  BY DEF Init, PlainOK, LinesIdle, LinesTypeOK
<1>2. Path
  BY StateNames, SMT DEF Init, Path, OnPath, OnOperand, OnFetch, OnJam, CycleExact, At,
     Sequence, Access, Indexed
<1> QED BY <1>1, <1>2 DEF PathInv

(* Every step of the machine keeps the path: only the CPU moves the state.   *)
LEMMA PathStep == PathInv /\ [Next]_vars => PathInv'
<1> SUFFICES ASSUME PlainOK, Path, [Next]_vars PROVE PlainOK' /\ Path'
  BY DEF PathInv
<1>1. CASE Tick
  BY <1>1, TickPath, TickPlain
<1>2. ASSUME UNCHANGED <<state, cycle, mode, kind, op, intr, jammed, crossed>>
      PROVE  Path'
  BY <1>2 DEF Path, OnPath, OnOperand, OnFetch, OnJam, CycleExact, At, Sequence, Access,
     FirstAccess, DataSheet
<1>3. CASE SampleLines
  <2>1. PlainOK'
    BY <1>3 DEF SampleLines, PlainOK, LinesTypeOK, lines, decoded, IrqAsserted
  <2> QED BY <1>2, <1>3, <2>1 DEF SampleLines, decoded
<1>4. CASE ChipMovesLine
  <2>1. LinesTypeOK'
    BY <1>4 DEF ChipMovesLine, MoveLine, SetIrq, SetNmi, PlainOK, LinesTypeOK
  <2>2. PlainOK'
    BY <1>4, <2>1 DEF ChipMovesLine, PlainOK, decoded, samples
  <2> QED BY <1>2, <1>4, <2>2 DEF ChipMovesLine, decoded
<1>5. CASE VicMovesBa(TRUE) \/ VicMovesBa(FALSE)
  <2>1. PlainOK'
    BY <1>5 DEF VicMovesBa, SetBa, PlainOK, LinesTypeOK, decoded, samples
  <2> QED BY <1>2, <1>5, <2>1 DEF VicMovesBa, decoded
<1>6. CASE ResetBus \/ ResetCpu
  <2>1. ClearCpu /\ LinesTypeOK'
    BY <1>6 DEF ResetBus, ResetCpu, ReleaseLines, lines, PlainOK, LinesTypeOK
  <2>2. PlainOK'
    BY <2>1 DEF ClearCpu, PlainOK, decoded
  <2>3. /\ state' = "Fetch" /\ cycle' = 0 /\ jammed' = FALSE
        /\ UNCHANGED <<mode, kind, op, crossed, intr>>
    BY <2>1 DEF ClearCpu, decoded
  <2>4. OnPath' /\ OnFetch' /\ CycleExact' /\ state' \in States
    BY <2>3, StateNames, SMT DEF OnPath, OnFetch, CycleExact, At, Sequence
  <2>5. OnOperand'
    BY <2>3, SMT DEF Path, OnOperand, Access
  <2>6. OnJam'
    BY <2>3 DEF OnJam
  <2> QED BY <2>2, <2>4, <2>5, <2>6 DEF Path
<1>7. CASE HotReset
  <2>1. PlainOK'
    BY <1>7 DEF HotReset, PlainOK, LinesTypeOK, lines, decoded, samples
  <2> QED BY <1>2, <1>7, <2>1 DEF HotReset, decoded
<1>8. CASE UNCHANGED vars
  <2>1. PlainOK'
    BY <1>8 DEF vars, PlainOK, LinesTypeOK, lines, decoded, samples
  <2> QED BY <1>2, <1>8, <2>1 DEF vars, decoded
<1> QED BY <1>1, <1>3, <1>4, <1>5, <1>6, <1>7, <1>8 DEF Next

(* Every instruction and every interrupt sequence takes the cycles of the     *)
(* data sheet, through page crossings, resets and interrupts of any timing:   *)
(* decode_opcode(), start_operand_access() and the state functions agree.     *)
THEOREM EveryPathIsTheDataSheets == Spec => []CycleExact
<1>1. PathInv => CycleExact
  BY DEF PathInv, Path
<1> QED BY <1>1, PathInit, PathStep, PTL DEF Spec

(* The invariant gives the types.                                            *)
LEMMA PathIsTyped == PathInv /\ late \in 0..3 => TypeOK
<1> SUFFICES ASSUME PlainOK, Path, late \in 0..3 PROVE TypeOK
  BY DEF PathInv
<1>1. cycle \in 0..8
  <2>1. CASE state \in LastStates \cup {"Fetch", "ImpliedCycle", "ZpAddr", "ZpiAdd",
       "AbsHi", "AbsiHi", "AbsiFix"}
    BY <2>1, SMT DEF LastStates, Path, OnPath, OnOperand, OnFetch, At, Access, FirstAccess
  <2>2. CASE state \in {"IndxHi", "IndyHi", "IndyFix", "BranchOffset", "BranchTaken",
       "RtiPullP", "PullRead", "IntrPushP", "IntrVecLo", "IntrVecHi"}
    BY <2>2, SMT DEF Path, OnPath, At, Sequence
  <2>3. CASE state \in DOMAIN Successor
    BY <2>3, Successors, SMT DEF Path, OnPath, OnOperand, At, Sequence, Access, FirstAccess
  <2> QED BY <2>1, <2>2, <2>3 DEF Path, States
<1> QED BY <1>1, SMT DEF TypeOK, PlainOK, Path

(* Every variable keeps its type, whatever the chips do to the lines.        *)
THEOREM CpuTypeOK == Spec => []TypeOK
<1>1. PathInv /\ BusInv => TypeOK
  BY BoundIs, PathIsTyped, SMT DEF BusInv
<1> QED BY <1>1, PathInit, PathStep, BusInit, BusStep, PTL DEF Spec

----------------------------------------------------------------------------
(* NMIs. The overtaken sequence keeps its mark until its vector is read.     *)

NmiInv ==
  /\ hijack => state \in {"IntrVecLo", "IntrVecHi"}
  /\ state = "IntrVecHi" => (vector = "Nmi" <=> hijack \/ intr = "Nmi")

\* An NMI that an interrupt sequence is serving or will serve
Taken == Taking \/ hijack

(* The NMIs the CPU owes, counted.                                          *)
LEMMA OwedCount ==
  ASSUME NEW latched, NEW taken
  PROVE  Cardinality({n \in {"latched", "taken"} :
                        IF n = "latched" THEN latched ELSE taken})
           = (IF latched THEN 1 ELSE 0) + (IF taken THEN 1 ELSE 0)
<1> DEFINE L == IF latched THEN {"latched"} ELSE {}
           O == IF taken THEN L \cup {"taken"} ELSE L
<1>1. {n \in {"latched", "taken"} : IF n = "latched" THEN latched ELSE taken} = O
  OBVIOUS
<1>2. IsFiniteSet(L) /\ Cardinality(L) = (IF latched THEN 1 ELSE 0)
  BY FS_EmptySet, FS_Singleton
<1>3. "taken" \notin L
  OBVIOUS
<1>4. Cardinality(L \cup {"taken"}) = Cardinality(L) + 1
  <2> HIDE DEF L
  <2> QED BY <1>2, <1>3, FS_AddElement
<1> QED BY <1>1, <1>2, <1>4

OwesTheSame == edge' = edge /\ (Taken' <=> Taken) /\ ~EntersNmi

OwesNext ==
  \/ OwesTheSame
  \/ edge /\ ~Taken /\ ~edge' /\ Taken' /\ ~EntersNmi
  \/ edge' = edge /\ ~Taken' /\ (Taken <=> EntersNmi)
  \/ ~edge /\ edge' /\ nmi = {} /\ nmi' # {} /\ (Taken' <=> Taken) /\ ~EntersNmi

IntrStates == {"IntrDummy2", "IntrPushHi", "IntrPushLo", "IntrPushP", "IntrVecLo",
     "IntrVecHi"}

(* What a step of the CPU does to the NMIs it owes.                          *)
LEMMA TickOwes ==
  ASSUME PlainOK, Path, NmiInv, IrqInv, Tick
  PROVE  NmiInv' /\ OwesNext
<1> USE DEF OwesNext, OwesTheSame, EntersNmi, Taken, Taking
<1>1. state = "Fetch" => ~hijack
  BY DEF NmiInv
<1>2. CASE FetchOpcode
  <2>1. edge' = edge /\ intr' # "Nmi" /\ hijack' = hijack /\ state' # "IntrVecHi"
       /\ state = "Fetch"
    <3>1. PICK d \in Decoded : state' = FirstState(d)
                               /\ intr' = (IF d.kind = "Brk" THEN "Brk" ELSE "None")
      BY <1>2 DEF FetchOpcode, Goto, StartInterrupt
    <3>2. state' # "IntrVecHi"
      BY <3>1, FirstStates, SMT
    <3> QED BY <1>2, <3>1, <3>2 DEF FetchOpcode, StartInterrupt, lines
  <2> QED BY <1>1, <2>1 DEF NmiInv
<1>3. CASE FetchInterrupt
  <2>1. /\ state = "Fetch" /\ take /\ state' = "IntrDummy2" /\ hijack' = hijack
        /\ IF nmiSampled THEN intr' = "Nmi" /\ edge' = FALSE
             ELSE intr' = "Irq" /\ edge' = edge
    BY <1>3 DEF FetchInterrupt, StartInterrupt, ClearNmiEdge, lines
  <2>2. nmiSampled => edge
    BY <2>1 DEF IrqInv, Sampled
  <2> QED BY <1>1, <2>1, <2>2 DEF NmiInv
<1>4. CASE Straight
  <2>1. /\ state \in DOMAIN Successor /\ state' = Successor[state]
        /\ intr' = intr /\ edge' = edge /\ hijack' = hijack
    BY <1>4 DEF Straight, Within, Goto, lines
  <2>2. /\ state \in IntrStates <=> state' \in IntrStates
        /\ state \notin {"IntrVecLo", "IntrVecHi"} /\ state' \notin {"Fetch", "IntrVecHi"}
    BY <2>1, Successors, SMT DEF IntrStates
  <2> QED BY <2>1, <2>2 DEF NmiInv, IntrStates
<1>5. ASSUME state \notin IntrStates \cup {"Fetch"}, state' \notin IntrStates,
        UNCHANGED <<intr, edge, hijack>>
      PROVE  NmiInv' /\ OwesNext
  BY <1>5 DEF NmiInv, IntrStates
<1>6. CASE Last \/ Addressed \/ IndexHigh \/ Fix \/ Branch \/ Implied \/ PullFlags
     \/ PullAccumulator
  <2>1. UNCHANGED <<intr, edge, hijack>>
    BY <1>6 DEF Last, Addressed, IndexHigh, Fix, Branch, Implied, PullFlags,
         PullAccumulator, Within, lines
  <2>2. state \notin IntrStates \cup {"Fetch"}
    <3>1. \/ state \in LastStates
          \/ state \in {"ZpAddr", "ZpiAdd", "AbsHi", "IndxHi", "AbsiHi", "IndyHi",
               "AbsiFix", "IndyFix", "BranchOffset", "BranchTaken", "ImpliedCycle",
                        "PullRead", "RtiPullP"}
      BY <1>6 DEF Last, Addressed, IndexHigh, Fix, Branch, Implied, PullFlags,
           PullAccumulator
    <3> QED BY <3>1, SMT DEF IntrStates, LastStates
  <2>3. state' \in {"Fetch", "AbsiFix", "IndyFix", "BranchTaken", "BranchFix", "RtiPullLo"}
                   \cup {"ReadOperand", "WriteOperand", "RmwRead"}
    <3>1. CASE Last \/ Implied \/ PullAccumulator
      BY <3>1 DEF Last, Implied, PullAccumulator, EndInstruction
    <3>2. CASE IndexHigh \/ Branch \/ PullFlags
      BY <3>2 DEF IndexHigh, Branch, PullFlags, Goto, EndInstruction
    <3>3. CASE Addressed \/ Fix
      <4>1. kind \in Operands \cup {"Jump"} /\ (state' = "Fetch" \/ (kind # "Jump"
           /\ state' = Operand[kind]))
        BY <3>3, SMT DEF Addressed, Fix, Goto, EndInstruction, Path, OnPath, At, Operands
      <4>2. /\ Operand["Read"] = "ReadOperand" /\ Operand["Write"] = "WriteOperand"
            /\ Operand["Rmw"] = "RmwRead"
        BY SMT DEF Operand
      <4> QED BY <4>1, <4>2 DEF Operands
    <3> QED BY <1>6, <3>1, <3>2, <3>3
  <2> QED BY <1>5, <2>1, <2>2, <2>3 DEF IntrStates
<1>7. CASE PushFlags
  <2>1. /\ state = "IntrPushP" /\ state' = "IntrVecLo" /\ intr' = intr
        /\ IF intr # "Nmi" /\ edge THEN hijack' = TRUE /\ edge' = FALSE
           ELSE hijack' = hijack /\ edge' = edge
    BY <1>7 DEF PushFlags, Within, Goto, ClearNmiEdge, lines
  <2>2. ~hijack
    BY <2>1 DEF NmiInv
  <2> QED BY <2>1, <2>2 DEF NmiInv
<1>8. CASE VectorLow
  <2>1. /\ state = "IntrVecLo" /\ state' = "IntrVecHi" /\ UNCHANGED <<intr, edge, hijack>>
        /\ vector' = IF hijack \/ intr = "Nmi" THEN "Nmi" ELSE "Irq"
    BY <1>8 DEF VectorLow, Within, Goto, lines
  <2> QED BY <2>1 DEF NmiInv
<1>9. CASE VectorHigh
  <2>1. state = "IntrVecHi" /\ state' = "Fetch" /\ UNCHANGED <<intr, edge>>
       /\ hijack' = FALSE
    BY <1>9 DEF VectorHigh, Within, EndInstruction, lines
  <2> QED BY <2>1 DEF NmiInv
<1> QED BY <1>2, <1>3, <1>4, <1>6, <1>7, <1>8, <1>9 DEF Tick

(* Any step but the reset of the machine.                                    *)
LEMMA NextOwes ==
  ASSUME PlainOK, Path, NmiInv, IrqInv, Next, ~ResetBus
  PROVE  NmiInv' /\ OwesNext
<1> USE DEF OwesNext, OwesTheSame, EntersNmi, Taken, Taking
<1>1. CASE Tick
  BY <1>1, TickOwes
<1>2. ASSUME UNCHANGED <<state, intr, hijack, vector>>,
             \/ edge' = edge
             \/ ~edge /\ edge' /\ nmi = {} /\ nmi' # {}
      PROVE  NmiInv' /\ OwesNext
  <2>1. ~EntersNmi
    BY <1>2
  <2> QED BY <1>2, <2>1 DEF NmiInv
<1>3. CASE SampleLines \/ VicMovesBa(TRUE) \/ VicMovesBa(FALSE) \/ HotReset
  BY <1>2, <1>3 DEF SampleLines, VicMovesBa, SetBa, HotReset, lines
<1>4. CASE ChipMovesLine
  <2>1. \/ edge' = edge
        \/ ~edge /\ edge' /\ nmi = {} /\ nmi' # {}
    <3>1. edge \in BOOLEAN
      BY DEF PlainOK, LinesTypeOK
    <3> QED BY <1>4, <3>1 DEF ChipMovesLine, MoveLine, SetIrq, SetNmi
  <2> QED BY <1>2, <1>4, <2>1 DEF ChipMovesLine
<1>5. CASE ResetCpu
  <2>1. state = "Fetch" /\ state' = "Fetch" /\ hijack' = FALSE /\ edge' = edge
    BY <1>5 DEF ResetCpu, ClearCpu, lines
  <2> QED BY <2>1 DEF NmiInv
<1> QED BY <1>1, <1>3, <1>4, <1>5 DEF Next

(* After power-on no NMI is owed.                                            *)
LEMMA NmiInit == Init => NmiInv
BY DEF Init, NmiInv

(* The mark of an overtaken sequence is set only inside one.                 *)
LEMMA NmiStep == PathInv /\ IrqInv /\ NmiInv /\ [Next]_vars => NmiInv'
<1> SUFFICES ASSUME PathInv, IrqInv, NmiInv, [Next]_vars PROVE NmiInv'
  OBVIOUS
<1>1. CASE Next /\ ~ResetBus
  BY <1>1, NextOwes DEF PathInv
<1>2. CASE ResetBus
  BY <1>2 DEF ResetBus, ClearCpu, NmiInv
<1>3. CASE UNCHANGED vars
  BY <1>3 DEF vars, NmiInv
<1> QED BY <1>1, <1>2, <1>3

(* Between two edges of the NMI line the handler is entered once: neither the  *)
(* BRK or IRQ it overtakes (nmi_hijack_) nor a CPU reset loses or doubles it. *)
THEOREM NmisAreServedOnce == Spec => NmiServedOnce
<1> DEFINE Served == \/ ResetBus
                     \/ /\ Cardinality(Owed') < Cardinality(Owed) <=> EntersNmi
                        /\ Cardinality(Owed') > Cardinality(Owed) => nmi = {} /\ nmi' # {}
<1>1. PathInv /\ IrqInv /\ NmiInv /\ [Next]_vars => [Served]_vars
  <2> SUFFICES ASSUME PathInv, IrqInv, NmiInv, Next, ~ResetBus
               PROVE  /\ Cardinality(Owed') < Cardinality(Owed) <=> EntersNmi
                      /\ Cardinality(Owed') > Cardinality(Owed) => nmi = {} /\ nmi' # {}
    OBVIOUS
  <2>1. OwesNext
    BY NextOwes DEF PathInv
  <2>2. Cardinality(Owed) = (IF edge THEN 1 ELSE 0) + (IF Taken THEN 1 ELSE 0)
    BY OwedCount DEF Owed, Taken
  <2>3. Cardinality(Owed') = (IF edge' THEN 1 ELSE 0) + (IF Taken' THEN 1 ELSE 0)
    BY OwedCount DEF Owed, Taken
  <2> HIDE DEF Served
  <2> DEFINE m == Cardinality(Owed)
             n == Cardinality(Owed')
  <2>4. /\ OwesTheSame => n = m
        /\ edge /\ ~Taken /\ ~edge' /\ Taken' => n = m
        /\ edge' = edge /\ ~Taken' /\ Taken => n < m
        /\ edge' = edge /\ ~Taken' /\ ~Taken => n = m
        /\ ~edge /\ edge' /\ (Taken' <=> Taken) => n > m
        /\ n \in Nat /\ m \in Nat
    BY <2>2, <2>3 DEF OwesTheSame
  <2> HIDE DEF m, n
  <2>5. (n = m => ~(n < m) /\ ~(n > m)) /\ (n < m => ~(n > m)) /\ (n > m => ~(n < m))
    BY <2>4, SMT
  <2>6. (n < m <=> EntersNmi) /\ (n > m => nmi = {} /\ nmi' # {})
    BY <2>1, <2>4, <2>5 DEF OwesNext, OwesTheSame
  <2> QED BY <2>6 DEF m, n
<1>2. Spec => [][Served]_vars
  BY <1>1, PathInit, PathStep, IrqInit, IrqStep, NmiInit, NmiStep, PTL DEF Spec
<1> QED BY <1>2 DEF NmiServedOnce
=============================================================================
