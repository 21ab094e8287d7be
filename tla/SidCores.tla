------------------------------ MODULE SidCores ------------------------------
(* The register front end on the two cores of the RP2350: core 0 sets chip  *)
(* mutes, core 1 runs the tune and owns the board. The mask of pending      *)
(* mutes is the only thing both write, each with a read and a write.        *)
EXTENDS SidFront, Integers

VARIABLES
  s,       \* registers, mutes, pending mask and board
  core0,   \* set_chip_mute(): where it is, the chip, the mask it read
  core1    \* io_write(): where it is, the write, the mask it read

vars == <<s, core0, core1>>

Write == [chip: Chips, reg: Regs, on: BOOLEAN]
State == [mirror: [Chips -> SUBSET Regs], chipMute: SUBSET Chips,
          voiceMute: {{}}, pending: SUBSET Chips, wire: [Chips -> SUBSET Regs],
          backend: {"sink"}, open: {TRUE}]

Idle0 == [at |-> "idle", chip |-> CHOOSE c \in Chips : TRUE, mask |-> {}]
Idle1 == [at |-> "idle", mask |-> {},
          write |-> [chip |-> CHOOSE c \in Chips : TRUE, reg |-> "voice", on |-> FALSE]]

Init ==
    /\ s = [mirror |-> Quiet, chipMute |-> {}, voiceMute |-> {}, pending |-> {},
            wire |-> Quiet, backend |-> "sink", open |-> TRUE]
    /\ core0 = Idle0
    /\ core1 = Idle1

\* set_chip_mute(): the configuration first.
SetConfig(c) ==
    /\ core0.at = "idle"
    /\ s' = [s EXCEPT !.chipMute = Put(@, c, c \notin @)]
    /\ core0' = [at |-> "read", chip |-> c, mask |-> {}]
    /\ UNCHANGED core1

\* chip_mute_pending_ | bit: the read, and then the write.
ReadPending ==
    /\ core0.at = "read"
    /\ core0' = [core0 EXCEPT !.at = "write", !.mask = s.pending]
    /\ UNCHANGED <<s, core1>>

WritePending ==
    /\ core0.at = "write"
    /\ s' = [s EXCEPT !.pending = core0.mask \cup {core0.chip}]
    /\ core0' = Idle0
    /\ UNCHANGED core1

\* io_write(): the test of the mask, before anything is written.
BeginWrite(w) ==
    /\ core1.at = "idle"
    /\ core1' = [at |-> IF s.pending = {} THEN "write" ELSE "load", mask |-> {}, write |-> w]
    /\ UNCHANGED <<s, core0>>

\* apply_chip_mute_pending(): the mask is read, cleared, and worked through.
LoadPending ==
    /\ core1.at = "load"
    /\ core1' = [core1 EXCEPT !.at = "clear", !.mask = s.pending]
    /\ UNCHANGED <<s, core0>>

ClearPending ==
    /\ core1.at = "clear"
    /\ s' = [s EXCEPT !.pending = {}]
    /\ core1' = [core1 EXCEPT !.at = "apply"]
    /\ UNCHANGED core0

ApplyOne(c) ==
    /\ core1.at = "apply"
    /\ c \in core1.mask
    /\ s' = Apply(s, {c})
    /\ core1' = [core1 EXCEPT !.mask = @ \ {c}]
    /\ UNCHANGED core0

ApplyDone ==
    /\ core1.at = "apply"
    /\ core1.mask = {}
    /\ core1' = [core1 EXCEPT !.at = "write"]
    /\ UNCHANGED <<s, core0>>

\* The mirror and the write; a muted chip's is dropped.
EndWrite ==
    /\ core1.at = "write"
    /\ LET w == core1.write IN
       s' = Output(Mirrored(s, w.chip, w.reg, w.on), w.chip, w.reg)
    /\ core1' = Idle1
    /\ UNCHANGED core0

Next ==
    \/ \E c \in Chips : SetConfig(c)
    \/ ReadPending
    \/ WritePending
    \/ \E w \in Write : BeginWrite(w)
    \/ LoadPending
    \/ ClearPending
    \/ \E c \in Chips : ApplyOne(c)
    \/ ApplyDone
    \/ EndWrite

Spec == Init /\ [][Next]_vars

TypeOK ==
    /\ s \in State
    /\ core0 \in [at: {"idle", "read", "write"}, chip: Chips, mask: SUBSET Chips]
    /\ core1 \in [at: {"idle", "load", "clear", "apply", "write"},
                  mask: SUBSET Chips, write: Write]

Settled(c) == core0.at = "idle" /\ core1.at = "idle" /\ c \notin s.pending

(* "Hold a whole chip silent, dropping its writes": with no mute on its way *)
(* a muted chip gives no sound (set_chip_mute(), apply_chip_mute_pending()).*)
MutedIsSilent == \A c \in s.chipMute : Settled(c) => ~Heard(s, c)
=============================================================================
