---------------------------- MODULE AsidBackend ----------------------------
(* The ASID backend (sid/sid_asid.cpp): register writes are folded into one  *)
(* snapshot per chip and sent once a frame over MIDI, FM/OPL pairs ahead of  *)
(* them. A voice control register may be written twice in a frame, the second *)
(* value travels in a shadow register; bytes travel as seven bits and a mask. *)
EXTENDS Integers, Sequences, FiniteSets

CONSTANTS
    Chips,        \* 1..ASID_MAXSID
    Writes,       \* SID writes of a tune: [chip, reg, value]
    FmWrites,     \* FM/OPL writes: [port, value], port "index" or "data"
    MaxPairs      \* ASID_FM_MAX_PAIRS

Byte == 0..255
Registers == 0..31

\* A register number has five bits, a value eight
ASSUME AsidAssumption ==
    /\ MaxPairs \in Nat \ {0}
    /\ Writes \subseteq [chip: Nat, reg: Registers, value: Byte]
    /\ FmWrites \subseteq [port: {"index", "data"}, value: Byte]

VARIABLES
    port,          \* port_is_open
    register,      \* sidRegister of each chip
    modified,      \* the registers whose sidModified is set
    fmAddr, fm,    \* fm_addr, fm_pairs
    unheard,       \* history: the values of a register the receiver has yet to hear
    index,         \* history: what the tune last wrote to the index port
    unheardFm      \* history: the pairs the tune wrote and the receiver has yet to hear

vars == <<port, register, modified, fmAddr, fm, unheard, index, unheardFm>>

Audible == 0..24
Control == {4, 11, 18}
Filter == {22, 23, 24}

TypeOK ==
    /\ port \in BOOLEAN
    /\ register \in [Chips -> [Registers -> Byte]]
    /\ modified \in [Chips -> SUBSET (0..27)]
    /\ fmAddr \in Byte
    /\ fm \in Seq(Byte) /\ Len(fm) < 2 * MaxPairs /\ Len(fm) % 2 = 0
    /\ unheard \in [Chips -> [Audible -> Seq(Byte)]]
    /\ index \in Byte /\ unheardFm \in Seq(Byte)

Silent == [c \in Chips |-> [r \in Audible |-> <<>>]]
Nothing == [c \in Chips |-> {}]

Init ==
    /\ port = FALSE
    /\ register = [c \in Chips |-> [r \in Registers |-> 0]]
    /\ modified = Nothing
    /\ fmAddr = 0 /\ fm = <<>>
    /\ unheard = Silent /\ index = 0 /\ unheardFm = <<>>

----------------------------------------------------------------------------
(* The messages.                                                            *)

\* regmap: the register at each bit of the mask, the shadows of 4, 11, 18 last
Regmap == <<0, 1, 2, 3, 5, 6, 7, 8, 9, 10, 12, 13, 14, 15, 16, 17, 19, 20, 21, 22,
            23, 24, 4, 11, 18, 25, 26, 27>>

Shadow(r) == CASE r = 4 -> 25 [] r = 11 -> 26 [] r = 18 -> 27

High(b) == b > 127

LastBit == 28
Bits == 1..LastBit

\* What a loop over the bits collects at those that are set
InOrder(bits, value) ==
    LET upTo[i \in 0..LastBit] ==
          IF i = 0 THEN <<>>
          ELSE IF i \in bits THEN Append(upTo[i - 1], value[i]) ELSE upTo[i - 1]
    IN  upTo[LastBit]

\* asid_flush(): the message of a chip
Snapshot(c) ==
    LET mask == {i \in Bits : Regmap[i] \in modified[c]}
    IN  [mask |-> mask,
         msb |-> {i \in Bits : High(register[c][Regmap[i]])},
         data |-> InOrder(mask, [i \in Bits |-> register[c][Regmap[i]] % 128])]

\* asid_flush_fm()
FmMessage(pairs) ==
    [high |-> {i \in DOMAIN pairs : High(pairs[i])},
     data |-> [i \in DOMAIN pairs |-> pairs[i] % 128]]

\* The receiver: the data bytes belong to the bits of the mask in rising order,
\* a shadow is a second write to its control register.
Carries(i, r) == Regmap[i] = r \/ (r \in Control /\ Regmap[i] = Shadow(r))

Received(m, r) ==
    LET Place(i) == Cardinality({j \in m.mask : j <= i})
    IN  InOrder({i \in m.mask : Carries(i, r)},
                [i \in m.mask |-> m.data[Place(i)] + (IF i \in m.msb THEN 128 ELSE 0)])

ReceivedFm(m) ==
    [i \in DOMAIN m.data |-> m.data[i] + (IF i \in m.high THEN 128 ELSE 0)]

\* What is left to hear when the buffer has gone out
StillUnheard(pairs, buffer) ==
    IF ReceivedFm(FmMessage(buffer)) = pairs THEN <<>> ELSE pairs

----------------------------------------------------------------------------
(* Writes.                                                                  *)

sid == <<register, modified, unheard>>
opl == <<fmAddr, fm, index, unheardFm>>

Keep(c, r, slot, v) ==
    /\ register' = [register EXCEPT ![c][slot] = v]
    /\ modified' = [modified EXCEPT ![c] = @ \cup {slot}]
    /\ unheard' = [unheard EXCEPT ![c][r] =
                      IF r \in Control \cup Filter THEN Append(@, v) ELSE <<v>>]
    /\ UNCHANGED opl

\* asid_flush() of the frame so far, then the write opens the next one
Cut(c, r, v) ==
    /\ register' = [register EXCEPT ![c][r] = v]
    /\ modified' = [Nothing EXCEPT ![c] = {r}]
    /\ unheard' = [Silent EXCEPT ![c][r] = <<v>>]
    /\ fm' = <<>> /\ unheardFm' = StillUnheard(unheardFm, fm)
    /\ UNCHANGED <<fmAddr, index>>

DumpTwice(c, r, v) ==
    IF r \notin modified[c] THEN Keep(c, r, r, v)
    ELSE IF r \in Control THEN Keep(c, r, Shadow(r), v)
    ELSE IF r \in Filter THEN Cut(c, r, v)
    ELSE Keep(c, r, r, v)

\* asid_dump(): first write of the frame, second to a control register, third, a
\* filter register again, any other register again
Dump(c, r, v) ==
    IF r \notin modified[c] THEN Keep(c, r, r, v)
    ELSE IF r \in Control THEN
        IF Shadow(r) \in modified[c] THEN Cut(c, r, v) ELSE Keep(c, r, Shadow(r), v)
    ELSE IF r \in Filter THEN Cut(c, r, v)
    ELSE Keep(c, r, r, v)

\* write() of a SID register; a chip past the last is dropped, as is a register
\* above $18, whose number a shadow takes
Write ==
    /\ port
    /\ \E w \in Writes :
         /\ w.chip \in Chips /\ w.reg \in Audible
         /\ Dump(w.chip, w.reg, w.value)
    /\ UNCHANGED port

FullOneLate(pairs) == Len(pairs) > 2 * MaxPairs

Full(pairs) == Len(pairs) >= 2 * MaxPairs

\* Mutant of PushFm: the pair that fills the buffer is not part of its message
PushFmAfter(v) ==
    LET pairs == fm \o <<fmAddr, v>>
        meant == unheardFm \o <<index, v>>
    IN  /\ fm' = IF Full(pairs) THEN <<>> ELSE pairs
        /\ unheardFm' = IF Full(pairs) THEN StillUnheard(meant, fm) ELSE meant
        /\ UNCHANGED <<fmAddr, index>>

\* A data write: a full buffer is sent at once
PushFm(v) ==
    LET pairs == fm \o <<fmAddr, v>>
        meant == unheardFm \o <<index, v>>
    IN  /\ fm' = IF Full(pairs) THEN <<>> ELSE pairs
        /\ unheardFm' = IF Full(pairs) THEN StillUnheard(meant, pairs) ELSE meant
        /\ UNCHANGED <<fmAddr, index>>

\* write() of an FM/OPL port
WriteFm ==
    /\ port
    /\ \E w \in FmWrites :
         IF w.port = "index"
         THEN fmAddr' = w.value /\ index' = w.value /\ UNCHANGED <<fm, unheardFm>>
         ELSE PushFm(w.value)
    /\ UNCHANGED <<port, sid>>

\* flush(): FM/OPL first, then every chip that has something
Flush ==
    /\ port
    /\ modified' = Nothing /\ unheard' = Silent
    /\ fm' = <<>> /\ unheardFm' = StillUnheard(unheardFm, fm)
    /\ UNCHANGED <<port, register, fmAddr, index>>

\* asid_clear(), by reset(): what is pending is dropped unsent
Clear ==
    /\ modified' = Nothing /\ unheard' = Silent
    /\ fm' = <<>> /\ unheardFm' = <<>>
    /\ UNCHANGED <<register, fmAddr, index>>

Reset == Clear /\ UNCHANGED port

\* asid_init(): the port opens or is not available
AsidInit ==
    /\ port' \in BOOLEAN
    /\ UNCHANGED <<sid, opl>>

\* asid_close()
AsidClose ==
    /\ port' = FALSE
    /\ IF port THEN Clear ELSE UNCHANGED <<sid, opl>>

Next == Write \/ WriteFm \/ Flush \/ Reset \/ AsidInit \/ AsidClose

Spec == Init /\ [][Next]_vars

----------------------------------------------------------------------------
(* Properties.                                                              *)

\* "Filter and volume have no shadow and their order is audible" (sid_asid.cpp:320),
\* "Control registers are 7 apart, their shadows 1 apart": whatever is written
\* within a frame, the message that ends it makes the receiver write each control
\* and filter register with every value in order, and any other register with the
\* last one.
FrameCarriesEveryWrite ==
    \A c \in Chips, r \in Audible : Received(Snapshot(c), r) = unheard[c][r]

\* The FM/OPL pairs leave in order, once, under the index the tune wrote before
\* them: what a message has not delivered, a full buffer's too, is in the buffer.
FmCarriesEveryPair == ReceivedFm(FmMessage(fm)) = unheardFm
=============================================================================
