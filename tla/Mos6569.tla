------------------------------- MODULE Mos6569 -------------------------------
(* The timing of the VIC-II (vic/mos6569.cpp): raster, bad lines, sprite     *)
(* DMA, the cycles it takes from the CPU and its raster interrupt; the walk  *)
(* of one cycle, the register writes, and the schedule that says how long    *)
(* the chip may be left alone. The numbers of the real chips are constants.  *)
EXTENDS Integers, FiniteSets, FiniteSetsExt

CONSTANTS
  LineLength,             \* cycles_per_line
  Lines,                  \* lines_per_frame
  LowLines,               \* lines that $d012 and a sprite's Y can tell apart
  FirstLine, LastLine,    \* the display lines a bad line can be in
  Scrolls,                \* values of the vertical scroll
  BadFirst, BadLast,      \* cycles of a bad line with BA low
  SpriteFirst,            \* first fetch of sprite 0
  DmaCycle, CountCycle,   \* sprite DMA begins, sprite lines are counted
  Height,                 \* lines of a sprite
  Sprites

ASSUME VicAssumption ==
    /\ {LineLength, Lines, LowLines, Scrolls, Height} \subseteq Nat \ {0}
    /\ Lines > 1 /\ LineLength > 2
    /\ FirstLine \in 1..LastLine /\ LastLine \in 1..Lines - 1
    /\ BadFirst \in 1..BadLast /\ BadLast \in 1..LineLength - 1
    /\ {DmaCycle, CountCycle} \subseteq 1..LineLength
    /\ Sprites \subseteq Nat /\ IsFiniteSet(Sprites)
    /\ SpriteFirst \in 4..LineLength

Chip == [cycle: 1..LineLength, raster: 0..Lines - 1, frame: {0, 1},
         compare: 0..2 * LowLines - 1, flag: BOOLEAN, enable: BOOLEAN,
         irq: BOOLEAN, ba: BOOLEAN, den: BOOLEAN, scroll: 0..Scrolls - 1,
         denSeen: BOOLEAN, badline: BOOLEAN, on: SUBSET Sprites,
         y: [Sprites -> 0..LowLines - 1], expand: SUBSET Sprites,
         dma: SUBSET Sprites, line: [Sprites -> 0..Height + 1],
         toggle: SUBSET Sprites]

ResetChip ==
    [cycle |-> 1, raster |-> 0, frame |-> 0, compare |-> 0, flag |-> FALSE,
     enable |-> FALSE, irq |-> FALSE, ba |-> TRUE, den |-> TRUE, scroll |-> 0,
     denSeen |-> FALSE, badline |-> FALSE, on |-> {},
     y |-> [n \in Sprites |-> 0], expand |-> {}, dma |-> {},
     line |-> [n \in Sprites |-> 0], toggle |-> {}]

----------------------------------------------------------------------------
(* Lines to the CPU.                                                        *)

IrqLine(c) == [c EXCEPT !.irq = c.flag /\ c.enable]

CheckBadline(c) ==
    [c EXCEPT !.badline = /\ c.denSeen
                          /\ c.raster \in FirstLine..LastLine
                          /\ c.raster % Scrolls = c.scroll]

Wrapped(k) == ((k - 1) % LineLength) + 1

\* sprite_ba_low_: from three cycles before the first fetch to the last one.
SpriteLow ==
    [dma \in SUBSET Sprites |->
        {Wrapped(SpriteFirst + 2 * n + k) : n \in dma, k \in -3..1}]

\* sprite_ba_edges_: where the union of the windows begins or ends.
Edges ==
    [dma \in SUBSET Sprites |->
        {k \in 1..LineLength :
            (k \in SpriteLow[dma]) # (Wrapped(k + LineLength - 1) \in SpriteLow[dma])}]

Low(c) ==
    \/ c.badline /\ c.cycle \in BadFirst..BadLast
    \/ c.cycle \in SpriteLow[c.dma]

UpdateBa(c) == [c EXCEPT !.ba = ~Low(c)]

----------------------------------------------------------------------------
(* One cycle.                                                               *)

\* The raster interrupt, one cycle later on line 0.
CompareCycle(c) == IF c.raster = 0 THEN 2 ELSE 1
Compares(c) == c.raster = c.compare
RaiseRaster(c) ==
    IF Compares(c) /\ c.cycle = CompareCycle(c)
    THEN IrqLine([c EXCEPT !.flag = TRUE]) ELSE c

SampleDen(c) ==
    IF c.raster = FirstLine /\ c.den /\ ~c.denSeen
    THEN CheckBadline([c EXCEPT !.denSeen = TRUE]) ELSE c

Starting(c) == {n \in c.on \ c.dma : c.y[n] = c.raster % LowLines}
StartSprites(c) ==
    IF c.cycle # DmaCycle \/ Starting(c) = {} THEN c
    ELSE [c EXCEPT !.dma = @ \cup Starting(c),
                   !.line = [n \in Sprites |-> IF n \in Starting(c) THEN 1 ELSE c.line[n]],
                   !.toggle = @ \ Starting(c)]

\* An expanded sprite counts every second line.
Stretched(c) == (c.dma \cap c.expand) \ c.toggle
Counted(c) == c.dma \ Stretched(c)
Finished(c) == {n \in Counted(c) : c.line[n] + 1 > Height}
CountSprites(c) ==
    IF c.cycle # CountCycle \/ c.dma = {} THEN c
    ELSE [c EXCEPT !.toggle = (@ \ (c.dma \cap c.expand)) \cup Stretched(c),
                   !.line = [n \in Sprites |-> IF n \in Counted(c) THEN c.line[n] + 1
                                               ELSE c.line[n]],
                   !.dma = @ \ Finished(c)]

StartOfLine(c) ==
    CheckBadline([c EXCEPT !.denSeen = IF c.raster = FirstLine THEN @ \/ c.den
                                       ELSE IF c.raster = 0 THEN FALSE ELSE @])

LastOfFrameLate(c) == c.raster >= Lines

LastOfFrame(c) == c.raster + 1 >= Lines
EndOfLine(c) ==
    StartOfLine(IF LastOfFrame(c)
                THEN [c EXCEPT !.cycle = 1, !.raster = 0, !.frame = 1 - @]
                ELSE [c EXCEPT !.cycle = 1, !.raster = @ + 1])

Advance(c) == IF c.cycle < LineLength THEN [c EXCEPT !.cycle = @ + 1] ELSE EndOfLine(c)

TickChip(c) ==
    Advance(UpdateBa(CountSprites(StartSprites(SampleDen(RaiseRaster(c))))))

----------------------------------------------------------------------------
(* Register writes.                                                         *)

\* $d011: display enable, scroll, and the high bit of the raster compare.
WriteControl(c, v) ==
    UpdateBa(CheckBadline([c EXCEPT
        !.den = v.den, !.scroll = v.scroll,
        !.compare = (@ % LowLines) + LowLines * v.high,
        !.denSeen = @ \/ (c.raster = FirstLine /\ v.den)]))

WriteCompare(c, low) == [c EXCEPT !.compare = LowLines * (@ \div LowLines) + low]

RegisterWrites ==
    [reg: {"control"}, value: [den: BOOLEAN, scroll: 0..Scrolls - 1, high: {0, 1}]]
    \cup [reg: {"compare"}, value: 0..LowLines - 1]
    \cup [reg: {"on", "expand"}, value: SUBSET Sprites]
    \cup [reg: {"flags"}]
    \cup [reg: {"enable"}, value: BOOLEAN]
    \cup [reg: {"y"}, sprite: Sprites, value: 0..LowLines - 1]

WriteEffect(c, w) ==
    CASE w.reg = "control"   -> WriteControl(c, w.value)
      [] w.reg = "compare"   -> WriteCompare(c, w.value)
      [] w.reg = "on"        -> [c EXCEPT !.on = w.value]
      [] w.reg = "expand"    -> [c EXCEPT !.expand = w.value]
      [] w.reg = "flags"     -> IrqLine([c EXCEPT !.flag = FALSE])
      [] w.reg = "enable"    -> IrqLine([c EXCEPT !.enable = w.value])
      [] w.reg = "y"         -> [c EXCEPT !.y[w.sprite] = w.value]

----------------------------------------------------------------------------
(* The schedule.                                                            *)

EventsBaHeldToItsEnd(c) ==
    {LineLength}
    \cup (IF c.on # {} THEN {DmaCycle} ELSE {})
    \cup (IF c.dma # {} THEN {CountCycle} \cup Edges[c.dma] ELSE {})
    \cup (IF c.badline THEN {BadFirst, BadLast} ELSE {})
    \cup (IF Compares(c) THEN {CompareCycle(c)} ELSE {})

Events(c) ==
    {LineLength}
    \cup (IF c.on # {} THEN {DmaCycle} ELSE {})
    \cup (IF c.dma # {} THEN {CountCycle} \cup Edges[c.dma] ELSE {})
    \cup (IF c.badline THEN {BadFirst, BadLast + 1} ELSE {})
    \cup (IF Compares(c) THEN {CompareCycle(c)} ELSE {})

\* cycles_to_event()
CyclesToEvent(c) ==
    IF c.raster = FirstLine /\ ~c.denSeen THEN 1
    ELSE Min({e \in Events(c) : e >= c.cycle}) - c.cycle + 1

\* catch_up(): one turn of its loop for a chip that is behind.
SkipOver(p, n) == [chip |-> [p.chip EXCEPT !.cycle = @ + n], behind |-> p.behind - n]
Walk(p) == [chip |-> TickChip(p.chip), behind |-> p.behind - 1]
AfterQuiet(p, quiet) ==
    IF quiet > 1 THEN SkipOver(p, Min({p.behind, quiet - 1})) ELSE Walk(p)
Pass(p) == IF p.behind = 0 THEN p ELSE AfterQuiet(p, CyclesToEvent(p.chip))

\* Every turn takes at least one cycle.
CatchUp(c, n) ==
    LET after[i \in 0..n] ==
          IF i = 0 THEN [chip |-> c, behind |-> n] ELSE Pass(after[i - 1])
    IN  after[n].chip

CyclesToFrameEndOneLess(c) == (LineLength - c.cycle) + (Lines - 1 - c.raster) * LineLength

\* cycles_to_frame_end() of a chip at the present.
CyclesToFrameEnd(c) == (LineLength - c.cycle + 1) + (Lines - 1 - c.raster) * LineLength
=============================================================================
