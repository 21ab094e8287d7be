------------------------------ MODULE SidFront ------------------------------
(* The register front end of the SID chips: the mirror of what the tune     *)
(* wrote, the chip and voice mutes, and what reaches the board.             *)
(* A chip is two groups of registers: "voice" (sustain and control, on when *)
(* the note is held) and "volume" (the low nibble of $18); it is heard when *)
(* both are on. Operators map a record s with the fields mirror, chipMute,  *)
(* voiceMute, pending, wire, backend and open (the board's device).         *)
EXTENDS FiniteSets

CONSTANT Chips

ASSUME ChipsAssumption == Chips # {} /\ IsFiniteSet(Chips)

Regs == {"voice", "volume"}

Quiet == [c \in Chips |-> {}]

Put(regs, r, on) == IF on THEN regs \cup {r} ELSE regs \ {r}

\* mask_for_output(): a muted voice goes out with its gate and sustain off.
Masked(s, c) == IF c \in s.voiceMute THEN s.mirror[c] \ {"voice"} ELSE s.mirror[c]

\* Writes go to the backend of the machine: the board only when it is that.
Reaches(s) == s.backend = "sink" /\ s.open

\* backend_->write() of some registers of a chip, masked on the way out.
Send(s, c, regs) ==
    IF Reaches(s)
    THEN [s EXCEPT !.wire[c] = (@ \ regs) \cup (Masked(s, c) \cap regs)]
    ELSE s

Silence(s, c) == IF Reaches(s) THEN [s EXCEPT !.wire[c] = @ \ {"volume"}] ELSE s

\* apply_chip_mute_pending() for the chips in todo: volume off for a muted
\* one, the whole register file for the others.
Apply(s, todo) ==
    [s EXCEPT !.wire = [c \in Chips |->
        IF c \notin todo THEN s.wire[c]
        ELSE IF c \in s.chipMute THEN Silence(s, c).wire[c]
        ELSE Send(s, c, Regs).wire[c]]]

AppliedNoReplay(s) == [s EXCEPT !.pending = {}]

\* io_write(): pending mutes first, then the mirror, then the wire.
Applied(s) == Apply([s EXCEPT !.pending = {}], s.pending)
Mirrored(s, c, r, on) == [s EXCEPT !.mirror[c] = Put(@, r, on)]
Output(s, c, r) == IF c \in s.chipMute THEN s ELSE Send(s, c, {r})
IoWrite(s, c, r, on) == Output(Mirrored(Applied(s), c, r, on), c, r)

SetVoiceMute(s, c, on) ==
    IF (c \in s.voiceMute) = on THEN s
    ELSE Send([s EXCEPT !.voiceMute = Put(@, c, on)], c, {"voice"})

SetChipMute(s, c, on) ==
    IF (c \in s.chipMute) = on THEN s
    ELSE [s EXCEPT !.chipMute = Put(@, c, on), !.pending = @ \cup {c}]

Heard(s, c) == s.wire[c] = Regs
=============================================================================
