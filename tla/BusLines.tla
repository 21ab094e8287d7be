------------------------------ MODULE BusLines ------------------------------
(* The lines the chips share (core/bus.h): IRQ, a level any source may hold; *)
(* NMI, whose edge is latched until the CPU takes it; BA, by which the VIC   *)
(* keeps the CPU off the bus.                                                *)
EXTENDS Naturals, FiniteSets

CONSTANTS IrqSources, NmiSources

VARIABLES irq, nmi,    \* irq_lines_, nmi_lines_: the sources that assert
          edge,        \* nmi_edge_
          ba           \* ba_, FALSE while the VIC has the bus

lines == <<irq, nmi, edge, ba>>

LinesTypeOK ==
    /\ irq \in SUBSET IrqSources
    /\ nmi \in SUBSET NmiSources
    /\ {edge, ba} \subseteq BOOLEAN

LinesIdle == irq = {} /\ nmi = {} /\ edge = FALSE /\ ba = TRUE

ReleaseLines == irq' = {} /\ nmi' = {} /\ edge' = FALSE /\ ba' = TRUE

\* set_irq()
SetIrq(src, asserted) ==
    /\ irq' = IF asserted THEN irq \cup {src} ELSE irq \ {src}
    /\ UNCHANGED <<nmi, edge, ba>>

\* set_nmi(): an edge only when no source held the line before.
SetNmi(src, asserted) ==
    /\ nmi' = IF asserted THEN nmi \cup {src} ELSE nmi \ {src}
    /\ edge' = (edge \/ (nmi = {} /\ nmi' # {}))
    /\ UNCHANGED <<irq, ba>>

\* set_ba()
SetBa(available) == ba' = available /\ UNCHANGED <<irq, nmi, edge>>

\* clear_nmi_edge()
ClearNmiEdge == edge' = FALSE /\ UNCHANGED <<irq, nmi, ba>>

IrqAsserted == irq # {}
=============================================================================
