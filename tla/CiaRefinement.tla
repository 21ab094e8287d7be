---------------------------- MODULE CiaRefinement -----------------------------
(***************************************************************************)
(* CiaScheduled implements CiaEveryCycle: the chip of the promise is the   *)
(* chip brought to the present, which any access would make real.  TLC     *)
(* computes it once per state, in the auxiliary variable shown.            *)
(***************************************************************************)
EXTENDS CiaScheduled

VARIABLE shown  \* what the program can see of the chip at present

shownVars == <<scheduledVars, shown>>

ShownInit == ScheduledInit /\ shown = Shown(CatchUp(chip, behind))

ShownNext == ScheduledNext /\ shown' = Shown(CatchUp(chip', behind'))

ShownSpec == ShownInit /\ [][ShownNext]_shownVars

Promise == INSTANCE CiaEveryCycle WITH chip <- shown

\* A CIA that is only woken for its events and caught up in bulk cannot be told
\* from one that is clocked every cycle: every register read, the time of day
\* and the interrupt line in every cycle are the same (Bus::tick, both halves).
EveryCycle == Promise!Spec
=============================================================================
