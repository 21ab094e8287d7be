------------------------------ MODULE Mos6510 ------------------------------
(* The CPU's sequencer (cpu/mos6510.cpp): every state is one bus cycle. What *)
(* an instruction computes is left out; its cycles, its reads and writes and *)
(* the interrupts taken between instructions are kept. Within a cycle of the *)
(* machine the chips move the lines, then the CPU runs one state ("ticked"), *)
(* its access may move a line too, and the lines are sampled.                *)
EXTENDS BusLines

VARIABLES
    phase,                       \* "chips", "access", "ticked"
    state,                       \* state_
    cycle,                       \* cycle_, cycles spent in the instruction
    mode, kind, op,              \* the decoded instruction
    crossed,                     \* page_crossed_
    intr,                        \* intr_type_, "None" once an opcode is decoded
    vector,                      \* the vector in addr_, "None" elsewhere
    hijack,                      \* nmi_hijack_
    disabled, break,             \* the I and B flags of p_
    irqSampled, nmiSampled,      \* irq_sampled_, nmi_sampled_
    take,                        \* take_interrupt_
    jammed,                      \* jammed_
    late                         \* cycles executed since BA fell, a history

decoded == <<mode, kind, op>>
samples == <<irqSampled, nmiSampled>>
vars == <<lines, phase, state, cycle, decoded, crossed, intr, vector, hijack,
          disabled, break, samples, take, jammed, late>>

----------------------------------------------------------------------------
(* The decode table, by what the sequencer tells apart: ZpX and AbsX stand   *)
(* for both index registers, Imp for the accumulator too.                   *)

Decoded ==
    LET Entry(modes, kinds, ops) ==
            [mode: modes, kind: kinds, op: ops]
        Addressed == {"Zp", "ZpX", "Abs", "AbsX", "IndX", "IndY"}
    IN  Entry(Addressed, {"Read", "Write", "Rmw"}, {"Other"})
        \cup Entry({"Imm"}, {"Read"}, {"Other"})
        \cup Entry({"Imp"}, {"Implied"}, {"Cli", "Sei", "Other"})
        \cup Entry({"Imp"}, {"Brk", "Kil"}, {"Other"})
        \cup Entry({"Rel"}, {"Branch"}, {"Other"})
        \cup Entry({"Abs", "Ind"}, {"Jump"}, {"Other"})
        \cup Entry({"Abs"}, {"Jsr"}, {"Other"})
        \cup Entry({"Stack"}, {"Push", "Rts", "Rti"}, {"Other"})
        \cup Entry({"Stack"}, {"Pull"}, {"Pla", "Plp"})

\* decode_opcode(): the state after the fetch.
ByKind == [Push |-> "PushDummy", Pull |-> "PullDummy", Rts |-> "RtsDummy",
           Rti |-> "RtiDummy", Jsr |-> "JsrLo", Branch |-> "BranchOffset",
           Brk |-> "IntrDummy2", Kil |-> "Fetch"]
ByMode == [Imp |-> "ImpliedCycle", Imm |-> "Immediate",
           Zp |-> "ZpAddr", ZpX |-> "ZpiBase",
           Abs |-> "AbsLo", AbsX |-> "AbsiLo",
           IndX |-> "IndxPtr", IndY |-> "IndyPtr", Ind |-> "JmpIndPtrLo"]

FirstState(d) ==
    IF d.kind \in DOMAIN ByKind THEN ByKind[d.kind] ELSE ByMode[d.mode]

\* start_operand_access()
Operand == [Read |-> "ReadOperand", Write |-> "WriteOperand", Rmw |-> "RmwRead"]

\* The states that have one successor and touch nothing but data.
Successor ==
    [ZpiBase |-> "ZpiAdd", AbsLo |-> "AbsHi", AbsiLo |-> "AbsiHi",
     IndxPtr |-> "IndxAdd", IndxAdd |-> "IndxLo", IndxLo |-> "IndxHi",
     IndyPtr |-> "IndyLo", IndyLo |-> "IndyHi",
     RmwRead |-> "RmwWriteOld", RmwWriteOld |-> "RmwWriteNew",
     JmpIndPtrLo |-> "JmpIndPtrHi", JmpIndPtrHi |-> "JmpIndVecLo",
     JmpIndVecLo |-> "JmpIndVecHi", JsrLo |-> "JsrDummy",
     JsrDummy |-> "JsrPushHi", JsrPushHi |-> "JsrPushLo", JsrPushLo |-> "JsrHi",
     RtsDummy |-> "RtsStackDummy", RtsStackDummy |-> "RtsPullLo",
     RtsPullLo |-> "RtsPullHi", RtsPullHi |-> "RtsBump",
     RtiDummy |-> "RtiStackDummy", RtiStackDummy |-> "RtiPullP",
     RtiPullLo |-> "RtiPullHi", PushDummy |-> "PushWrite",
     PullDummy |-> "PullStackDummy", PullStackDummy |-> "PullRead",
     IntrDummy2 |-> "IntrPushHi",
     IntrPushHi |-> "IntrPushLo", IntrPushLo |-> "IntrPushP"]

\* The last cycle of an instruction, when it leaves the flags alone.
LastStates ==
    {"Immediate", "ReadOperand", "WriteOperand", "RmwWriteNew", "BranchFix",
     "JmpIndVecHi", "JsrHi", "RtsBump", "RtiPullHi", "PushWrite"}

\* state_writes()
Writes == {"WriteOperand", "RmwWriteOld", "RmwWriteNew", "JsrPushHi", "JsrPushLo",
           "PushWrite", "IntrPushHi", "IntrPushLo", "IntrPushP"}

\* Accesses to an operand, which may be a chip's register.
ChipAccess == {"AbsiFix", "IndyFix", "ReadOperand", "WriteOperand", "RmwRead",
               "RmwWriteOld", "RmwWriteNew"}

States == DOMAIN Successor \cup LastStates \cup
    {"Fetch", "ImpliedCycle", "ZpAddr", "ZpiAdd", "AbsHi", "AbsiHi", "AbsiFix",
     "IndxHi", "IndyHi", "IndyFix", "BranchOffset", "BranchTaken", "RtiPullP",
     "PullRead", "IntrPushP", "IntrVecLo", "IntrVecHi"}

TypeOK ==
    /\ LinesTypeOK
    /\ phase \in {"chips", "access", "ticked"}
    /\ state \in States
    /\ cycle \in 0..8
    /\ [mode |-> mode, kind |-> kind, op |-> op]
         \in Decoded \cup {[mode |-> "Imp", kind |-> "Implied", op |-> "None"]}
    /\ intr \in {"None", "Brk", "Irq", "Nmi"}
    /\ vector \in {"None", "Irq", "Nmi"}
    /\ {crossed, hijack, disabled, break, irqSampled, nmiSampled, take, jammed}
         \subseteq BOOLEAN
    /\ late \in 0..4

----------------------------------------------------------------------------
(* One state of the CPU.                                                    *)

Init ==
    /\ LinesIdle
    /\ phase = "chips" /\ state = "Fetch" /\ cycle = 0
    /\ mode = "Imp" /\ kind = "Implied" /\ op = "None"
    /\ intr = "None" /\ vector = "None"
    /\ disabled = TRUE /\ break = FALSE
    /\ irqSampled = FALSE /\ nmiSampled = FALSE /\ take = FALSE
    /\ crossed = FALSE /\ hijack = FALSE /\ jammed = FALSE
    /\ late = 0

Goto(s) == state' = s /\ UNCHANGED take

EndInstructionNmiOnly == state' = "Fetch" /\ take' = nmiSampled

\* end_instruction(): the samples are one cycle old here.
EndInstruction ==
    /\ state' = "Fetch"
    /\ take' = (irqSampled \/ nmiSampled)

\* start_interrupt()
StartInterrupt(type) ==
    /\ intr' = type
    /\ IF type = "Nmi" THEN ClearNmiEdge ELSE UNCHANGED lines

FetchOpcode ==
    /\ state = "Fetch" /\ ~take
    /\ \E d \in Decoded :
         /\ mode' = d.mode /\ kind' = d.kind /\ op' = d.op
         /\ Goto(FirstState(d))
         /\ jammed' = (d.kind = "Kil")
         /\ IF d.kind = "Brk" THEN StartInterrupt("Brk")
            ELSE intr' = "None" /\ UNCHANGED lines
    /\ cycle' = 1
    /\ crossed' = FALSE
    /\ UNCHANGED <<vector, hijack, disabled, break>>

FetchInterruptKeepsCount ==
    /\ state = "Fetch" /\ take
    /\ take' = FALSE
    /\ StartInterrupt(IF nmiSampled THEN "Nmi" ELSE "Irq")
    /\ cycle' = cycle + 1
    /\ state' = "IntrDummy2"
    /\ UNCHANGED <<decoded, crossed, vector, hijack, disabled, break, jammed>>

FetchInterrupt ==
    /\ state = "Fetch" /\ take
    /\ take' = FALSE
    /\ StartInterrupt(IF nmiSampled THEN "Nmi" ELSE "Irq")
    /\ cycle' = 1
    /\ state' = "IntrDummy2"
    /\ UNCHANGED <<decoded, crossed, vector, hijack, disabled, break, jammed>>

\* Within an instruction: one more cycle, nothing decoded.
Within ==
    /\ state # "Fetch"
    /\ cycle' = cycle + 1
    /\ UNCHANGED <<decoded, intr, jammed>>

Straight ==
    /\ Within
    /\ state \in DOMAIN Successor
    /\ Goto(Successor[state])
    /\ UNCHANGED <<lines, crossed, vector, hijack, disabled, break>>

Last ==
    /\ Within
    /\ state \in LastStates
    /\ EndInstruction
    /\ UNCHANGED <<lines, crossed, vector, hijack, disabled, break>>

\* The address is complete: the operand, or the end of a JMP.
Addressed ==
    /\ Within
    /\ state \in {"ZpAddr", "ZpiAdd", "AbsHi", "IndxHi"}
    /\ IF kind = "Jump" THEN EndInstruction ELSE Goto(Operand[kind])
    /\ UNCHANGED <<lines, crossed, vector, hijack, disabled, break>>

IndexHigh ==
    /\ Within
    /\ state \in {"AbsiHi", "IndyHi"}
    /\ crossed' \in BOOLEAN
    /\ Goto(IF state = "AbsiHi" THEN "AbsiFix" ELSE "IndyFix")
    /\ UNCHANGED <<lines, vector, hijack, disabled, break>>

FixReadsAgain ==
    /\ Within
    /\ state \in {"AbsiFix", "IndyFix"}
    /\ Goto(Operand[kind])
    /\ UNCHANGED <<lines, crossed, vector, hijack, disabled, break>>

\* A read that crossed no page has its operand already.
Fix ==
    /\ Within
    /\ state \in {"AbsiFix", "IndyFix"}
    /\ IF kind = "Read" /\ ~crossed THEN EndInstruction ELSE Goto(Operand[kind])
    /\ UNCHANGED <<lines, crossed, vector, hijack, disabled, break>>

Branch ==
    /\ Within
    /\ \/ state = "BranchOffset" /\ (EndInstruction \/ Goto("BranchTaken"))
       \/ state = "BranchTaken" /\ (EndInstruction \/ Goto("BranchFix"))
    /\ UNCHANGED <<lines, crossed, vector, hijack, disabled, break>>

\* exec_implied(), of which CLI and SEI matter here
Implied ==
    /\ Within
    /\ state = "ImpliedCycle"
    /\ EndInstruction
    /\ disabled' = CASE op = "Cli" -> FALSE [] op = "Sei" -> TRUE [] OTHER -> disabled
    /\ UNCHANGED <<lines, crossed, vector, hijack, break>>

\* PLP and RTI: p(pull()) takes any I and never B.
PullFlags ==
    /\ Within
    /\ \/ state = "PullRead" /\ op = "Plp" /\ EndInstruction
       \/ state = "RtiPullP" /\ Goto("RtiPullLo")
    /\ disabled' \in BOOLEAN
    /\ break' = FALSE
    /\ UNCHANGED <<lines, crossed, vector, hijack>>

PullAccumulator ==
    /\ Within
    /\ state = "PullRead" /\ op = "Pla"
    /\ EndInstruction
    /\ UNCHANGED <<lines, crossed, vector, hijack, disabled, break>>

PushFlagsKeepsEdge ==
    /\ Within
    /\ state = "IntrPushP"
    /\ disabled' = TRUE
    /\ Goto("IntrVecLo")
    /\ hijack' = (intr # "Nmi" /\ edge)
    /\ UNCHANGED <<lines, crossed, vector, break>>

\* The flags are pushed; a fresh NMI takes over the vector of a BRK or an IRQ.
PushFlags ==
    /\ Within
    /\ state = "IntrPushP"
    /\ disabled' = TRUE
    /\ Goto("IntrVecLo")
    /\ IF intr # "Nmi" /\ edge
       THEN hijack' = TRUE /\ ClearNmiEdge
       ELSE UNCHANGED <<hijack, lines>>
    /\ UNCHANGED <<crossed, vector, break>>

VectorLow ==
    /\ Within
    /\ state = "IntrVecLo"
    /\ vector' = IF hijack \/ intr = "Nmi" THEN "Nmi" ELSE "Irq"
    /\ Goto("IntrVecHi")
    /\ UNCHANGED <<lines, crossed, hijack, disabled, break>>

VectorHigh ==
    /\ Within
    /\ state = "IntrVecHi"
    /\ vector' = "None"
    /\ hijack' = FALSE
    /\ EndInstruction
    /\ UNCHANGED <<lines, crossed, disabled, break>>

BaAllowsInstruction == ba \/ state # "Fetch"

\* tick(): nothing when jammed, and a read waits for the bus.
BaAllowsCycle == ba \/ state \in Writes

Tick ==
    /\ phase = "chips"
    /\ ~jammed
    /\ BaAllowsCycle
    /\ \/ FetchOpcode \/ FetchInterrupt \/ Straight \/ Last \/ Addressed
       \/ IndexHigh \/ Fix \/ Branch \/ Implied \/ PullFlags \/ PullAccumulator
       \/ PushFlags \/ VectorLow \/ VectorHigh
    /\ phase' = IF state \in ChipAccess THEN "access" ELSE "ticked"
    /\ late' = IF ba THEN 0 ELSE late + 1
    /\ UNCHANGED samples

SampleLinesUnmasked ==
    /\ phase # "chips"
    /\ phase' = "chips"
    /\ irqSampled' = IrqAsserted
    /\ nmiSampled' = edge
    /\ UNCHANGED <<lines, state, cycle, decoded, crossed, intr, vector, hijack,
                   disabled, break, take, jammed, late>>

\* sample_lines()
SampleLines ==
    /\ phase # "chips"
    /\ phase' = "chips"
    /\ irqSampled' = (IrqAsserted /\ ~disabled)
    /\ nmiSampled' = edge
    /\ UNCHANGED <<lines, state, cycle, decoded, crossed, intr, vector, hijack,
                   disabled, break, take, jammed, late>>

----------------------------------------------------------------------------
(* Around the CPU.                                                          *)

MoveLine ==
    \/ \E s \in IrqSources, on \in BOOLEAN : SetIrq(s, on)
    \/ \E s \in NmiSources, on \in BOOLEAN : SetNmi(s, on)

\* A chip before the CPU's cycle, or the access of that cycle: an acknowledge, a
\* source enabled.
ChipMovesLine ==
    /\ phase \in {"chips", "access"}
    /\ MoveLine
    /\ UNCHANGED <<phase, state, cycle, decoded, crossed, intr, vector, hijack,
                   disabled, break, samples, take, jammed, late>>

VicMovesBa(available) ==
    /\ phase = "chips"
    /\ ba # available
    /\ SetBa(available)
    /\ late' = 0
    /\ UNCHANGED <<phase, state, cycle, decoded, crossed, intr, vector, hijack,
                   disabled, break, samples, take, jammed>>

\* reset() of the CPU, which leaves the lines as they are
ClearCpu ==
    /\ phase = "chips"
    /\ state' = "Fetch" /\ cycle' = 0
    /\ disabled' = TRUE /\ break' = FALSE
    /\ irqSampled' = FALSE /\ nmiSampled' = FALSE /\ take' = FALSE
    /\ hijack' = FALSE /\ jammed' = FALSE /\ vector' = "None"
    /\ UNCHANGED <<phase, decoded, crossed, intr>>

\* Bus::reset(), from power_on(), at any cycle
ResetBus ==
    /\ ClearCpu
    /\ ReleaseLines
    /\ late' = 0

\* init_tune() runs to the end of an instruction and resets the CPU alone.
ResetCpu ==
    /\ state = "Fetch"
    /\ ClearCpu
    /\ UNCHANGED <<lines, late>>

\* hot_reset(), by init_prg_without_roms() between two instructions
HotReset ==
    /\ phase = "chips" /\ state = "Fetch"
    /\ disabled' = FALSE /\ break' = TRUE
    /\ UNCHANGED <<lines, phase, state, cycle, decoded, crossed, intr, vector, hijack,
                   samples, take, jammed, late>>

Next ==
    \/ Tick
    \/ SampleLines
    \/ ChipMovesLine
    \/ VicMovesBa(TRUE)
    \/ VicMovesBa(FALSE)
    \/ ResetBus
    \/ ResetCpu
    \/ HotReset

\* The clock runs, and the VIC gives the bus back every line.
Fairness ==
    /\ SF_vars(Tick)
    /\ WF_vars(SampleLines)
    /\ WF_vars(VicMovesBa(TRUE))

Spec == Init /\ [][Next]_vars /\ Fairness

----------------------------------------------------------------------------
(* Properties.                                                              *)

\* Cycles of each addressing mode in the data sheet of the 6502, an operand read.
ReadCycles == [Imm |-> 2, Zp |-> 3, ZpX |-> 4, Abs |-> 4, AbsX |-> 4,
               IndX |-> 6, IndY |-> 5]
StackCycles == [Jsr |-> 6, Rts |-> 6, Rti |-> 6, Push |-> 3, Pull |-> 4, Implied |-> 2]

DataSheet ==
    CASE intr # "None" -> {7}
      [] intr = "None" /\ kind = "Read" ->
            {ReadCycles[mode] + (IF crossed THEN 1 ELSE 0)}
      [] intr = "None" /\ kind \in {"Write", "Rmw"} ->
            {ReadCycles[mode] + (IF mode \in {"AbsX", "IndY"} THEN 1 ELSE 0)
                              + (IF kind = "Rmw" THEN 2 ELSE 0)}
      [] intr = "None" /\ kind = "Branch" -> 2..4
      [] intr = "None" /\ kind = "Jump" -> {IF mode = "Ind" THEN 5 ELSE 3}
      [] OTHER -> {StackCycles[kind]}

\* "Cycle exact" (mos6510.cpp:6): when an instruction or an interrupt sequence is
\* over, the states it went through are as many as the data sheet's cycles.
CycleExact ==
    state = "Fetch" /\ cycle > 0 /\ ~jammed => cycle \in DataSheet

\* The VIC takes the bus three cycles after BA falls (ba_allows_cycle): the writes
\* of any two instructions, or of an instruction and the interrupt after it, never
\* keep the CPU on the bus longer.
OffTheBusInThree == late <= 3

\* An IRQ is taken with I set only right after the SEI or PLP that set it, whose
\* last cycle is younger than the sample.
IrqOnlyWhileEnabled ==
    take /\ ~nmiSampled /\ disabled => op \in {"Sei", "Plp"}

\* NMIs the CPU owes: the latched edge, and the one whose sequence runs.
Taking == intr = "Nmi" /\ state \in {"IntrDummy2", "IntrPushHi", "IntrPushLo",
                                    "IntrPushP", "IntrVecLo", "IntrVecHi"}
Owed == {n \in {"latched", "taken"} :
            IF n = "latched" THEN edge ELSE Taking \/ hijack}

EntersNmi == state = "IntrVecHi" /\ state' = "Fetch" /\ vector = "Nmi"

\* Every edge of the NMI line enters the NMI handler once: through its own
\* sequence or by the vector of the BRK or IRQ it overtook, no other step losing
\* it and none serving it again.
NmiServedOnce ==
    [][\/ ResetBus
       \/ /\ Cardinality(Owed') < Cardinality(Owed) <=> EntersNmi
          /\ Cardinality(Owed') > Cardinality(Owed) => nmi = {} /\ nmi' # {}]_vars

\* "B is only set for BRK, a hardware interrupt pushes it clear" (mos6510.cpp:1139).
OnlyBrkPushesB == state = "IntrPushP" /\ intr \in {"Irq", "Nmi"} => ~break

\* An IRQ that stays asserted with I clear is taken, and so is a latched NMI, unless
\* the CPU jams or is reset: whatever program runs and whatever the VIC steals.
InterruptsAreTaken ==
    /\ IrqAsserted /\ ~disabled ~> ~IrqAsserted \/ disabled \/ jammed
    /\ edge ~> ~edge \/ jammed \/ cycle = 0
=============================================================================
