----------------------------- MODULE MCMos6510 -----------------------------
(* One source of IRQ and two of NMI; every instruction, every cycle.         *)
EXTENDS Mos6510

MCIrqSources == {"Vic"}
MCNmiSources == {"Cia2", "Restore"}
=============================================================================
