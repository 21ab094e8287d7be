------------------------------- MODULE VicProofs ------------------------------
(* A scheduled VIC implements one that is clocked in every cycle, for every  *)
(* length of a line and a frame, every set of sprites and every write.       *)
(*                                                                           *)
(* The invariant: since the chip was last caught up only its cycle would     *)
(* have moved (OnlyCycleMoved), the schedule ends with the chip's next event *)
(* (InTime), and BA is what the next cycle needs unless an event corrects it *)
(* first (Honest).                                                           *)
EXTENDS VicScheduled, WellFoundedInduction, TLAPS

----------------------------------------------------------------------------
(* Numbers.                                                                  *)

LEMMA ConstantsAre ==
  /\ LineLength \in Nat /\ LineLength > 2 /\ Lines \in Nat /\ Lines > 1
  /\ LowLines \in Nat /\ LowLines > 0 /\ Scrolls \in Nat /\ Scrolls > 0
  /\ Height \in Nat /\ Height > 0
  /\ BadFirst \in 1..LineLength /\ BadLast \in 1..LineLength - 1 /\ BadFirst <= BadLast
  /\ BadLast + 1 \in 1..LineLength
  /\ DmaCycle \in 1..LineLength /\ CountCycle \in 1..LineLength
  /\ FirstLine \in 1..Lines - 1
BY VicAssumption

Below == {p \in Nat \X Nat : p[1] < p[2]}

\* A set of numbers that is not empty has its Min
LEMMA MinIs ==
  ASSUME NEW S \in SUBSET Nat, S # {}
  PROVE  Min(S) \in S /\ \A x \in S : Min(S) <= x
<1>1. IsWellFoundedOn(Below, Nat)
  BY NatLessThanWellFounded DEF OpToRel, Below
<1>2. PICK m \in S : \A x \in S : ~(<<x, m>> \in Below)
  BY <1>1, WFMin
<1>3. ASSUME NEW x \in S
      PROVE  m <= x
  <2>1. x \in Nat /\ m \in Nat
    OBVIOUS
  <2>2. x < m => <<x, m>> \in Below
    BY <2>1 DEF Below
  <2> QED
    BY <1>2, <2>1, <2>2
<1> QED
  BY <1>3 DEF Min

\* What holds at 0 and passes from each number to the next holds up to n
LEMMA IntervalInduction ==
  ASSUME NEW n \in Nat, NEW S, 0 \in S,
         \A k \in 0..n - 1 : k \in S => k + 1 \in S
  PROVE  \A k \in 0..n : k \in S
<1> DEFINE Bad == {k \in 0..n : k \notin S}
<1>1. IsWellFoundedOn(Below, Nat)
  BY NatLessThanWellFounded DEF OpToRel, Below
<1> SUFFICES ASSUME Bad # {} PROVE FALSE
  OBVIOUS
<1>2. PICK k \in Bad : \A j \in Bad : ~(<<j, k>> \in Below)
  <2>1. Bad \subseteq Nat
    OBVIOUS
  <2> HIDE DEF Bad
  <2> QED
    BY <1>1, <2>1, WFMin
<1>3. k # 0 /\ k \in 0..n /\ k \notin S
  OBVIOUS
<1>4. k - 1 \in 0..n - 1 /\ k - 1 + 1 = k /\ k - 1 \in 0..n
  BY <1>3
<1>5. k - 1 \in Bad
  BY <1>3, <1>4
<1>6. <<k - 1, k>> \in Below
  BY <1>3, <1>4 DEF Below
<1> QED
  BY <1>2, <1>5, <1>6

\* The cycle before, around the end of a line
LEMMA WrappedIs ==
  /\ \A k \in Int : Wrapped(k) \in 1..LineLength
  /\ \A k \in 1..LineLength :
        Wrapped(k + LineLength - 1) = IF k = 1 THEN LineLength ELSE k - 1
<1>1. LineLength \in Nat /\ LineLength > 0
  BY ConstantsAre
<1>2. ASSUME NEW k \in Int
      PROVE  Wrapped(k) \in 1..LineLength
  BY <1>1, SMT DEF Wrapped
<1>3. ASSUME NEW k \in 1..LineLength
      PROVE  Wrapped(k + LineLength - 1) = IF k = 1 THEN LineLength ELSE k - 1
  <2>1. CASE k = 1
    <3>1. (k + LineLength - 1) - 1 = LineLength - 1
      BY <1>1, <2>1
    <3>2. (LineLength - 1) % LineLength = LineLength - 1
      BY <1>1, SMT
    <3> QED
      BY <1>1, <2>1, <3>1, <3>2 DEF Wrapped
  <2>2. CASE k # 1
    <3>1. (k + LineLength - 1) - 1 = (k - 2) + LineLength /\ k - 2 \in 0..LineLength - 1
      BY <1>1, <2>2
    <3>2. ((k - 2) + LineLength) % LineLength = k - 2
      BY <1>1, <3>1, SMT
    <3> QED
      BY <1>1, <2>2, <3>1, <3>2 DEF Wrapped
  <2> QED
    BY <2>1, <2>2
<1> QED
  BY <1>2, <1>3

----------------------------------------------------------------------------
(* Every part of a cycle, and every write, keeps the chip well formed.       *)

LEMMA FieldsAre ==
  ASSUME NEW c \in Chip
  PROVE  /\ c.cycle \in 1..LineLength /\ c.raster \in 0..Lines - 1 /\ c.frame \in {0, 1}
         /\ c.compare \in 0..2 * LowLines - 1
         /\ c.on \in SUBSET Sprites /\ c.dma \in SUBSET Sprites /\ c.toggle \in SUBSET Sprites
         /\ c.expand \in SUBSET Sprites /\ c.line \in [Sprites -> 0..Height + 1]
         /\ c.y \in [Sprites -> 0..LowLines - 1]
         /\ c.badline \in BOOLEAN /\ c.denSeen \in BOOLEAN /\ c.den \in BOOLEAN /\ c.ba \in BOOLEAN
         /\ c.flag \in BOOLEAN /\ c.enable \in BOOLEAN /\ c.irq \in BOOLEAN
BY DEF Chip

\* What the rest of a cycle and the end of a frame find unchanged
SamePlace(c, d) == d.cycle = c.cycle /\ d.raster = c.raster /\ d.frame = c.frame

\* A sprite that is fetched has lines left
Sound(c) == c \in Chip /\ \A n \in c.dma : c.line[n] <= Height

LEMMA IrqLineIsSound ==
  ASSUME NEW c, Sound(c)
  PROVE  Sound(IrqLine(c)) /\ SamePlace(c, IrqLine(c))
<1> DEFINE low == c.flag /\ c.enable
<1>1. low \in BOOLEAN /\ IrqLine(c) = [c EXCEPT !.irq = low]
  BY DEF IrqLine, Sound, Chip
<1> HIDE DEF low
<1> QED
  BY <1>1 DEF Sound, Chip, SamePlace

LEMMA CheckBadlineIsSound ==
  ASSUME NEW c, Sound(c)
  PROVE  Sound(CheckBadline(c)) /\ SamePlace(c, CheckBadline(c)) /\ CheckBadline(c).dma = c.dma
<1> DEFINE bad == /\ c.denSeen
                  /\ c.raster \in FirstLine..LastLine
                  /\ c.raster % Scrolls = c.scroll
<1>1. bad \in BOOLEAN
  BY DEF Sound, Chip
<1>2. CheckBadline(c) = [c EXCEPT !.badline = bad]
  BY DEF CheckBadline
<1> HIDE DEF bad
<1> QED
  BY <1>1, <1>2 DEF Sound, Chip, SamePlace

LEMMA UpdateBaIsSound ==
  ASSUME NEW c, Sound(c)
  PROVE  /\ Sound(UpdateBa(c)) /\ SamePlace(c, UpdateBa(c))
         /\ UpdateBa(c).ba = ~Low(c)
         /\ UpdateBa(c).dma = c.dma /\ UpdateBa(c).badline = c.badline
<1> DEFINE high == ~Low(c)
<1>1. high \in BOOLEAN
  OBVIOUS
<1>2. UpdateBa(c) = [c EXCEPT !.ba = high]
  BY DEF UpdateBa
<1> HIDE DEF high
<1>3. Sound(UpdateBa(c)) /\ SamePlace(c, UpdateBa(c)) /\ UpdateBa(c).ba = high
      /\ UpdateBa(c).dma = c.dma /\ UpdateBa(c).badline = c.badline
  BY <1>1, <1>2 DEF Sound, Chip, SamePlace
<1> QED
  BY <1>3 DEF high

LEMMA RaiseRasterIsSound ==
  ASSUME NEW c, Sound(c)
  PROVE  Sound(RaiseRaster(c)) /\ SamePlace(c, RaiseRaster(c))
<1> DEFINE d == [c EXCEPT !.flag = TRUE]
<1>1. Sound(d) /\ SamePlace(c, d)
  BY DEF Sound, Chip, SamePlace
<1>2. RaiseRaster(c) = IF Compares(c) /\ c.cycle = CompareCycle(c) THEN IrqLine(d) ELSE c
  BY DEF RaiseRaster
<1> HIDE DEF d
<1> QED
  BY <1>1, <1>2, IrqLineIsSound DEF SamePlace

LEMMA SampleDenIsSound ==
  ASSUME NEW c, Sound(c)
  PROVE  Sound(SampleDen(c)) /\ SamePlace(c, SampleDen(c))
<1> DEFINE d == [c EXCEPT !.denSeen = TRUE]
<1>1. Sound(d) /\ SamePlace(c, d)
  BY DEF Sound, Chip, SamePlace
<1>2. SampleDen(c) = IF c.raster = FirstLine /\ c.den /\ ~c.denSeen THEN CheckBadline(d) ELSE c
  BY DEF SampleDen
<1> HIDE DEF d
<1> QED
  BY <1>1, <1>2, CheckBadlineIsSound DEF SamePlace

\* The sprites' part of a chip moves
LEMMA SpritesMove ==
  ASSUME NEW c \in Chip, NEW dma \in SUBSET Sprites, NEW toggle \in SUBSET Sprites,
         NEW line \in [Sprites -> 0..Height + 1], \A n \in dma : line[n] <= Height
  PROVE  /\ Sound([c EXCEPT !.dma = dma, !.line = line, !.toggle = toggle])
         /\ SamePlace(c, [c EXCEPT !.dma = dma, !.line = line, !.toggle = toggle])
BY DEF Sound, Chip, SamePlace

LEMMA StartSpritesIsSound ==
  ASSUME NEW c, Sound(c)
  PROVE  Sound(StartSprites(c)) /\ SamePlace(c, StartSprites(c))
<1> DEFINE dma == c.dma \cup Starting(c)
           line == [n \in Sprites |-> IF n \in Starting(c) THEN 1 ELSE c.line[n]]
           toggle == c.toggle \ Starting(c)
<1>1. /\ Starting(c) \in SUBSET Sprites /\ c.dma \in SUBSET Sprites /\ c.toggle \in SUBSET Sprites
      /\ c.line \in [Sprites -> 0..Height + 1] /\ c \in Chip
  BY FieldsAre DEF Starting, Sound
<1>2. /\ dma \in SUBSET Sprites /\ toggle \in SUBSET Sprites /\ line \in [Sprites -> 0..Height + 1]
      /\ \A n \in dma : line[n] <= Height
  <2>1. 1 \in 0..Height + 1 /\ 1 <= Height
    BY ConstantsAre
  <2> QED
    BY <1>1, <2>1 DEF Sound
<1>3. StartSprites(c) = IF c.cycle # DmaCycle \/ Starting(c) = {} THEN c
                        ELSE [c EXCEPT !.dma = dma, !.line = line, !.toggle = toggle]
  BY DEF StartSprites
<1>4. SamePlace(c, c)
  BY DEF SamePlace
<1> HIDE DEF dma, line, toggle
<1>5. /\ Sound([c EXCEPT !.dma = dma, !.line = line, !.toggle = toggle])
      /\ SamePlace(c, [c EXCEPT !.dma = dma, !.line = line, !.toggle = toggle])
  BY <1>1, <1>2, SpritesMove
<1> QED
  BY <1>3, <1>4, <1>5

LEMMA CountSpritesIsSound ==
  ASSUME NEW c, Sound(c)
  PROVE  Sound(CountSprites(c)) /\ SamePlace(c, CountSprites(c))
<1> DEFINE toggle == (c.toggle \ (c.dma \cap c.expand)) \cup Stretched(c)
           line == [n \in Sprites |-> IF n \in Counted(c) THEN c.line[n] + 1 ELSE c.line[n]]
           dma == c.dma \ Finished(c)
<1>1. /\ c.dma \in SUBSET Sprites /\ c.toggle \in SUBSET Sprites
      /\ c.line \in [Sprites -> 0..Height + 1] /\ c \in Chip
      /\ Counted(c) \in SUBSET c.dma /\ Stretched(c) \in SUBSET c.dma
      /\ Height \in Nat
  BY FieldsAre, ConstantsAre DEF Counted, Stretched, Sound
<1>2. \A n \in c.dma : c.line[n] \in 0..Height
  BY <1>1 DEF Sound
<1>3. /\ dma \in SUBSET Sprites /\ toggle \in SUBSET Sprites /\ line \in [Sprites -> 0..Height + 1]
  <2>1. ASSUME NEW n \in Sprites
        PROVE  (IF n \in Counted(c) THEN c.line[n] + 1 ELSE c.line[n]) \in 0..Height + 1
    <3>1. CASE n \in Counted(c)
      <4>1. c.line[n] \in 0..Height
        BY <1>1, <1>2, <3>1
      <4> QED
        BY <1>1, <3>1, <4>1
    <3>2. CASE n \notin Counted(c)
      BY <1>1, <3>2
    <3> QED
      BY <3>1, <3>2
  <2> QED
    BY <1>1, <2>1
<1>4. ASSUME NEW n \in dma
      PROVE  line[n] <= Height
  <2>1. n \in c.dma /\ n \notin Finished(c) /\ n \in Sprites /\ c.line[n] \in 0..Height
    BY <1>1, <1>2
  <2>2. CASE n \in Counted(c)
    <3>1. line[n] = c.line[n] + 1 /\ ~(c.line[n] + 1 > Height)
      BY <2>1, <2>2 DEF Finished
    <3> QED
      BY <1>1, <2>1, <3>1
  <2>3. CASE n \notin Counted(c)
    <3>1. line[n] = c.line[n]
      BY <2>1, <2>3
    <3> QED
      BY <1>1, <2>1, <3>1
  <2> QED
    BY <2>2, <2>3
<1>5. CountSprites(c) = IF c.cycle # CountCycle \/ c.dma = {} THEN c
                        ELSE [c EXCEPT !.toggle = toggle, !.line = line, !.dma = dma]
  BY DEF CountSprites
<1>6. SamePlace(c, c)
  BY DEF SamePlace
<1> HIDE DEF dma, line, toggle
<1>7. [c EXCEPT !.toggle = toggle, !.line = line, !.dma = dma]
        = [c EXCEPT !.dma = dma, !.line = line, !.toggle = toggle]
  BY <1>1 DEF Chip
<1>8. /\ Sound([c EXCEPT !.dma = dma, !.line = line, !.toggle = toggle])
      /\ SamePlace(c, [c EXCEPT !.dma = dma, !.line = line, !.toggle = toggle])
  BY <1>1, <1>3, <1>4, SpritesMove
<1> QED
  BY <1>5, <1>6, <1>7, <1>8

\* A line and a frame end with their last cycle, and nowhere else
LEMMA AdvanceIs ==
  ASSUME NEW c, Sound(c)
  PROVE  /\ Sound(Advance(c)) /\ Advance(c).ba = c.ba /\ Advance(c).dma = c.dma
         /\ c.cycle # LineLength => Advance(c) = [c EXCEPT !.cycle = @ + 1]
         /\ c.cycle = LineLength =>
               /\ Advance(c).cycle = 1
               /\ Advance(c).raster = IF c.raster = Lines - 1 THEN 0 ELSE c.raster + 1
               /\ Advance(c).frame = IF c.raster = Lines - 1 THEN 1 - c.frame ELSE c.frame
<1>1. c \in Chip /\ c.cycle \in 1..LineLength /\ c.raster \in 0..Lines - 1 /\ c.frame \in {0, 1}
  BY FieldsAre DEF Sound
<1>2. LineLength \in Nat /\ Lines \in Nat /\ LineLength > 2 /\ Lines > 1
  BY ConstantsAre
<1>3. CASE c.cycle # LineLength
  <2>1. c.cycle < LineLength /\ c.cycle + 1 \in 1..LineLength
    BY <1>1, <1>2, <1>3
  <2>2. Advance(c) = [c EXCEPT !.cycle = c.cycle + 1]
    BY <2>1 DEF Advance
  <2> QED
    BY <1>1, <1>3, <2>1, <2>2 DEF Sound, Chip
<1>4. CASE c.cycle = LineLength
  <2> DEFINE raster == IF c.raster = Lines - 1 THEN 0 ELSE c.raster + 1
             frame == IF c.raster = Lines - 1 THEN 1 - c.frame ELSE c.frame
             d == [c EXCEPT !.cycle = 1, !.raster = raster, !.frame = frame]
             seen == IF d.raster = FirstLine THEN d.denSeen \/ d.den
                     ELSE IF d.raster = 0 THEN FALSE ELSE d.denSeen
             e == [d EXCEPT !.denSeen = seen]
  <2>1. LastOfFrame(c) <=> c.raster = Lines - 1
    BY <1>1, <1>2 DEF LastOfFrame
  <2>2. raster \in 0..Lines - 1 /\ frame \in {0, 1} /\ 1 \in 1..LineLength
    BY <1>1, <1>2
  <2>3. (IF LastOfFrame(c) THEN [c EXCEPT !.cycle = 1, !.raster = 0, !.frame = 1 - @]
         ELSE [c EXCEPT !.cycle = 1, !.raster = @ + 1]) = d
    BY <1>1, <2>1 DEF Chip
  <2>4. Advance(c) = StartOfLine(d)
    <3>1. Advance(c) = EndOfLine(c)
      BY <1>2, <1>4 DEF Advance
    <3> QED
      BY <2>3, <3>1 DEF EndOfLine
  <2> HIDE DEF raster, frame
  <2>5. /\ Sound(d) /\ d.cycle = 1 /\ d.raster = raster /\ d.frame = frame
        /\ d.ba = c.ba /\ d.dma = c.dma
    BY <1>1, <2>2 DEF Sound, Chip
  <2>6. StartOfLine(d) = CheckBadline(e)
    BY DEF StartOfLine
  <2> HIDE DEF d
  <2>7. d \in Chip /\ seen \in BOOLEAN
    BY <2>5 DEF Sound, Chip
  <2> HIDE DEF seen
  <2>8. Sound(e) /\ SamePlace(d, e) /\ e.ba = d.ba /\ e.dma = d.dma
    BY <2>5, <2>7 DEF Sound, Chip, SamePlace
  <2> HIDE DEF e
  <2>9. CheckBadline(e).ba = e.ba
    BY <2>8 DEF CheckBadline, Sound, Chip
  <2>10. Sound(CheckBadline(e)) /\ SamePlace(e, CheckBadline(e)) /\ CheckBadline(e).dma = e.dma
    BY <2>8, CheckBadlineIsSound
  <2> QED
    BY <1>4, <2>4, <2>5, <2>6, <2>8, <2>9, <2>10 DEF raster, frame, SamePlace
<1> QED
  BY <1>3, <1>4

\* One cycle up to the point where BA is decided
Worked(c) == CountSprites(StartSprites(SampleDen(RaiseRaster(c))))

LEMMA WorkedIsSound ==
  ASSUME NEW c, Sound(c)
  PROVE  Sound(Worked(c)) /\ SamePlace(c, Worked(c))
<1>1. Sound(RaiseRaster(c)) /\ SamePlace(c, RaiseRaster(c))
  BY RaiseRasterIsSound
<1> DEFINE r == RaiseRaster(c)
           s == SampleDen(r)
           t == StartSprites(s)
<1> HIDE DEF r, s, t
<1>2. Sound(r) /\ SamePlace(c, r)
  BY <1>1 DEF r
<1>3. Sound(s) /\ SamePlace(r, s)
  BY <1>2, SampleDenIsSound DEF s
<1>4. Sound(t) /\ SamePlace(s, t)
  BY <1>3, StartSpritesIsSound DEF t
<1>5. Sound(CountSprites(t)) /\ SamePlace(t, CountSprites(t))
  BY <1>4, CountSpritesIsSound
<1>6. Worked(c) = CountSprites(t)
  BY DEF Worked, r, s, t
<1> QED
  BY <1>2, <1>3, <1>4, <1>5, <1>6 DEF SamePlace

\* What a cycle does to the place of the raster
LEMMA TickIs ==
  ASSUME NEW c, Sound(c)
  PROVE  /\ Sound(TickChip(c))
         /\ TickChip(c).cycle = IF c.cycle = LineLength THEN 1 ELSE c.cycle + 1
         /\ TickChip(c).raster = IF c.cycle # LineLength THEN c.raster
                                 ELSE IF c.raster = Lines - 1 THEN 0 ELSE c.raster + 1
         /\ TickChip(c).frame = IF c.cycle = LineLength /\ c.raster = Lines - 1
                                THEN 1 - c.frame ELSE c.frame
<1> DEFINE u == UpdateBa(Worked(c))
<1>1. Sound(u) /\ SamePlace(c, u)
  BY WorkedIsSound, UpdateBaIsSound DEF SamePlace
<1>2. TickChip(c) = Advance(u)
  BY DEF TickChip, Worked
<1> HIDE DEF u
<1>3. /\ Sound(Advance(u))
      /\ u.cycle # LineLength => Advance(u) = [u EXCEPT !.cycle = u.cycle + 1]
      /\ u.cycle = LineLength =>
            /\ Advance(u).cycle = 1
            /\ Advance(u).raster = IF u.raster = Lines - 1 THEN 0 ELSE u.raster + 1
            /\ Advance(u).frame = IF u.raster = Lines - 1 THEN 1 - u.frame ELSE u.frame
  BY <1>1, AdvanceIs
<1>4. u \in Chip
  BY <1>1 DEF Sound
<1>5. u.cycle # LineLength => /\ Advance(u).cycle = u.cycle + 1
                              /\ Advance(u).raster = u.raster /\ Advance(u).frame = u.frame
  BY <1>3, <1>4 DEF Chip
<1> QED
  BY <1>1, <1>2, <1>3, <1>5 DEF SamePlace

\* $d011, with what it does to the compare value and to BA
LEMMA WriteControlIsSound ==
  ASSUME NEW c, Sound(c),
         NEW v \in [den: BOOLEAN, scroll: 0..Scrolls - 1, high: {0, 1}]
  PROVE  /\ Sound(WriteControl(c, v)) /\ SamePlace(c, WriteControl(c, v))
         /\ WriteControl(c, v).ba = ~Low(WriteControl(c, v))
<1>1. c \in Chip /\ c.compare \in 0..2 * LowLines - 1 /\ c.denSeen \in BOOLEAN
  BY FieldsAre DEF Sound
<1>2. v.den \in BOOLEAN /\ v.scroll \in 0..Scrolls - 1 /\ v.high \in {0, 1}
  OBVIOUS
<1> DEFINE compare == (c.compare % LowLines) + LowLines * v.high
           seen == c.denSeen \/ (c.raster = FirstLine /\ v.den)
           d == [c EXCEPT !.den = v.den, !.scroll = v.scroll,
                          !.compare = compare, !.denSeen = seen]
           u == CheckBadline(d)
<1>3. compare \in 0..2 * LowLines - 1
  <2>1. LowLines \in Nat /\ LowLines > 0
    BY ConstantsAre
  <2>2. c.compare % LowLines \in 0..LowLines - 1
    BY <1>1, <2>1, SMT
  <2>3. LowLines * v.high \in {0, LowLines}
    <3>1. CASE v.high = 0
      BY <2>1, <3>1
    <3>2. CASE v.high = 1
      BY <2>1, <3>2
    <3> QED
      BY <1>2, <3>1, <3>2
  <2> QED
    BY <2>1, <2>2, <2>3
<1>4. seen \in BOOLEAN
  BY <1>1, <1>2
<1>5. WriteControl(c, v) = UpdateBa(u)
  BY <1>1 DEF WriteControl, Chip
<1> HIDE DEF compare, seen
<1>6. Sound(d) /\ SamePlace(c, d)
  BY <1>1, <1>2, <1>3, <1>4 DEF Sound, Chip, SamePlace
<1> HIDE DEF d
<1>7. Sound(u) /\ SamePlace(d, u)
  BY <1>6, CheckBadlineIsSound
<1> HIDE DEF u
<1>8. /\ Sound(UpdateBa(u)) /\ SamePlace(u, UpdateBa(u)) /\ UpdateBa(u).ba = ~Low(u)
      /\ UpdateBa(u).dma = u.dma /\ UpdateBa(u).badline = u.badline
  BY <1>7, UpdateBaIsSound
<1>9. Low(UpdateBa(u)) <=> Low(u)
  BY <1>8 DEF Low, SamePlace
<1> QED
  BY <1>5, <1>6, <1>7, <1>8, <1>9 DEF SamePlace

\* No write moves the raster; only $d011 changes what BA depends on, and it
\* decides BA again
LEMMA WriteIs ==
  ASSUME NEW c, Sound(c), NEW w \in RegisterWrites
  PROVE  /\ Sound(WriteEffect(c, w)) /\ SamePlace(c, WriteEffect(c, w))
         /\ \/ WriteEffect(c, w).ba = ~Low(WriteEffect(c, w))
            \/ /\ WriteEffect(c, w).ba = c.ba
               /\ WriteEffect(c, w).dma = c.dma /\ WriteEffect(c, w).badline = c.badline
<1>1. c \in Chip
  BY DEF Sound
<1>2. LowLines \in Nat /\ LowLines > 0
  BY ConstantsAre
<1>3. ASSUME NEW flag \in BOOLEAN, NEW enable \in BOOLEAN
      PROVE  LET d == IrqLine([c EXCEPT !.flag = flag, !.enable = enable])
             IN  /\ Sound(d) /\ SamePlace(c, d)
                 /\ d.ba = c.ba /\ d.dma = c.dma /\ d.badline = c.badline
  <2> DEFINE d == [c EXCEPT !.flag = flag, !.enable = enable]
  <2>1. /\ Sound(d) /\ SamePlace(c, d)
        /\ d.ba = c.ba /\ d.dma = c.dma /\ d.badline = c.badline
    BY <1>1 DEF Sound, Chip, SamePlace
  <2> HIDE DEF d
  <2>2. Sound(IrqLine(d)) /\ SamePlace(d, IrqLine(d))
    BY <2>1, IrqLineIsSound
  <2>3. /\ IrqLine(d).ba = d.ba /\ IrqLine(d).dma = d.dma /\ IrqLine(d).badline = d.badline
    BY <2>1 DEF IrqLine, Sound, Chip
  <2> QED
    BY <2>1, <2>2, <2>3 DEF d, SamePlace
<1>4. CASE w.reg = "control"
  <2>1. w.value \in [den: BOOLEAN, scroll: 0..Scrolls - 1, high: {0, 1}]
    BY <1>4 DEF RegisterWrites
  <2>2. WriteEffect(c, w) = WriteControl(c, w.value)
    BY <1>4 DEF WriteEffect
  <2> QED
    BY <2>1, <2>2, WriteControlIsSound
<1>5. CASE w.reg = "compare"
  <2>1. w.value \in 0..LowLines - 1
    BY <1>5 DEF RegisterWrites
  <2> DEFINE high == c.compare \div LowLines
             compare == LowLines * high + w.value
  <2>2. c.compare \in 0..2 * LowLines - 1
    BY <1>1, FieldsAre
  <2>3. high \in {0, 1}
    <3>1. CASE c.compare < LowLines
      BY <1>2, <2>2, <3>1, SMT
    <3>2. CASE c.compare >= LowLines
      BY <1>2, <2>2, <3>2, SMT
    <3> QED
      BY <1>2, <2>2, <3>1, <3>2
  <2> HIDE DEF high
  <2>4. compare \in 0..2 * LowLines - 1
    <3>1. CASE high = 0
      BY <1>2, <2>1, <3>1
    <3>2. CASE high = 1
      BY <1>2, <2>1, <3>2
    <3> QED
      BY <2>3, <3>1, <3>2
  <2>5. WriteEffect(c, w) = [c EXCEPT !.compare = compare]
    BY <1>1, <1>5 DEF WriteEffect, WriteCompare, high, Chip
  <2> HIDE DEF compare
  <2> QED
    BY <1>1, <2>4, <2>5 DEF Sound, Chip, SamePlace
<1>6. CASE w.reg = "on"
  <2>1. w.value \in SUBSET Sprites /\ WriteEffect(c, w) = [c EXCEPT !.on = w.value]
    BY <1>6 DEF RegisterWrites, WriteEffect
  <2> QED
    BY <1>1, <2>1 DEF Sound, Chip, SamePlace
<1>7. CASE w.reg = "expand"
  <2>1. w.value \in SUBSET Sprites /\ WriteEffect(c, w) = [c EXCEPT !.expand = w.value]
    BY <1>7 DEF RegisterWrites, WriteEffect
  <2> QED
    BY <1>1, <2>1 DEF Sound, Chip, SamePlace
<1>8. CASE w.reg = "flags"
  <2>1. WriteEffect(c, w) = IrqLine([c EXCEPT !.flag = FALSE, !.enable = c.enable])
    BY <1>1, <1>8 DEF WriteEffect, Chip
  <2>2. c.enable \in BOOLEAN
    BY <1>1, FieldsAre
  <2> QED
    BY <1>3, <2>1, <2>2
<1>9. CASE w.reg = "enable"
  <2>1. WriteEffect(c, w) = IrqLine([c EXCEPT !.flag = c.flag, !.enable = w.value])
    BY <1>1, <1>9 DEF WriteEffect, Chip
  <2>2. c.flag \in BOOLEAN /\ w.value \in BOOLEAN
    BY <1>1, <1>9, FieldsAre DEF RegisterWrites
  <2> QED
    BY <1>3, <2>1, <2>2
<1>10. CASE w.reg = "y"
  <2>1. w.sprite \in Sprites /\ w.value \in 0..LowLines - 1
    BY <1>10 DEF RegisterWrites
  <2> DEFINE y == [c.y EXCEPT ![w.sprite] = w.value]
  <2>2. y \in [Sprites -> 0..LowLines - 1]
    BY <1>1, <2>1, FieldsAre
  <2>3. WriteEffect(c, w) = [c EXCEPT !.y = y]
    BY <1>1, <1>10 DEF WriteEffect, Chip
  <2> HIDE DEF y
  <2> QED
    BY <1>1, <2>2, <2>3 DEF Sound, Chip, SamePlace
<1> QED
  BY <1>4, <1>5, <1>6, <1>7, <1>8, <1>9, <1>10 DEF RegisterWrites

----------------------------------------------------------------------------
(* BA between two events.                                                    *)

\* The cycles in which update_ba() is due
BaEvents(c) ==
    (IF c.dma # {} THEN Edges[c.dma] ELSE {})
    \cup (IF c.badline THEN {BadFirst, BadLast + 1} ELSE {})

\* What the next cycle would drive is on the line already, or it is due
Honest(c) == c.cycle \in BaEvents(c) \/ c.ba = ~Low(c)

\* Where no sprite begins or ends to be fetched, BA is low for the sprites as
\* it was in the cycle before
LEMMA BetweenEdges ==
  ASSUME NEW dma \in SUBSET Sprites, NEW k \in 1..LineLength,
         ~(dma # {} /\ k \in Edges[dma])
  PROVE  k \in SpriteLow[dma] <=> (IF k = 1 THEN LineLength ELSE k - 1) \in SpriteLow[dma]
<1>1. CASE dma = {}
  BY <1>1 DEF SpriteLow
<1>2. CASE dma # {}
  <2>1. Edges[dma] = {j \in 1..LineLength :
            (j \in SpriteLow[dma]) # (Wrapped(j + LineLength - 1) \in SpriteLow[dma])}
    BY DEF Edges
  <2>2. Wrapped(k + LineLength - 1) = IF k = 1 THEN LineLength ELSE k - 1
    BY WrappedIs
  <2> HIDE DEF Edges, SpriteLow
  <2> DEFINE P == k \in SpriteLow[dma]
             Q == Wrapped(k + LineLength - 1) \in SpriteLow[dma]
  <2>3. ~(P # Q)
    BY <1>2, <2>1
  <2>4. P \in BOOLEAN /\ Q \in BOOLEAN
    OBVIOUS
  <2> QED
    BY <2>2, <2>3, <2>4
<1> QED
  BY <1>1, <1>2

\* The end of a cycle leaves BA as the next one needs it, or as an event of the
\* next one
LEMMA AdvanceIsHonest ==
  ASSUME NEW c, Sound(c)
  PROVE  Honest(Advance(UpdateBa(c)))
<1> DEFINE u == UpdateBa(c)
           d == Advance(u)
<1>1. Sound(u) /\ SamePlace(c, u) /\ u.ba = ~Low(c) /\ u.dma = c.dma /\ u.badline = c.badline
  BY UpdateBaIsSound
<1>2. Low(u) <=> Low(c)
  BY <1>1 DEF Low, SamePlace
<1> HIDE DEF u
<1>3. /\ Sound(d) /\ d.ba = u.ba /\ d.dma = u.dma
      /\ u.cycle # LineLength => d = [u EXCEPT !.cycle = @ + 1]
      /\ u.cycle = LineLength => d.cycle = 1
  BY <1>1, AdvanceIs
<1> HIDE DEF d
<1>4. /\ u \in Chip /\ u.cycle \in 1..LineLength /\ u.dma \in SUBSET Sprites /\ u.badline \in BOOLEAN
      /\ d.cycle \in 1..LineLength /\ d.badline \in BOOLEAN
  BY <1>1, <1>3, FieldsAre DEF Sound
<1>5. /\ LineLength \in Nat /\ LineLength > 2
      /\ BadFirst \in 1..LineLength /\ BadLast \in 1..LineLength - 1 /\ BadFirst <= BadLast
  BY ConstantsAre
<1>6. SUFFICES ASSUME d.cycle \notin BaEvents(d) PROVE d.ba = ~Low(d)
  BY DEF Honest, d, u
<1>7. ~(d.dma # {} /\ d.cycle \in Edges[d.dma])
  BY <1>6 DEF BaEvents
<1>8. d.badline => d.cycle # BadFirst /\ d.cycle # BadLast + 1
  BY <1>6 DEF BaEvents
<1>9. u.cycle = IF d.cycle = 1 THEN LineLength ELSE d.cycle - 1
  BY <1>3, <1>4 DEF Chip
<1>10. d.cycle \in SpriteLow[d.dma] <=> u.cycle \in SpriteLow[u.dma]
  BY <1>3, <1>4, <1>7, <1>9, BetweenEdges
<1>11. (d.badline /\ d.cycle \in BadFirst..BadLast) <=> (u.badline /\ u.cycle \in BadFirst..BadLast)
  <2>1. CASE u.cycle = LineLength
    BY <1>3, <1>4, <1>5, <1>8, <2>1
  <2>2. CASE u.cycle # LineLength
    <3>1. d.badline = u.badline /\ d.cycle = u.cycle + 1
      BY <1>3, <1>4, <2>2 DEF Chip
    <3> QED
      BY <1>4, <1>5, <1>8, <3>1
  <2> QED
    BY <2>1, <2>2
<1>12. Low(d) <=> Low(u)
  BY <1>10, <1>11 DEF Low
<1>13. Low(d) \in BOOLEAN /\ Low(u) \in BOOLEAN /\ Low(c) \in BOOLEAN
  BY DEF Low
<1> QED
  BY <1>1, <1>2, <1>3, <1>12, <1>13

LEMMA TickIsHonest ==
  ASSUME NEW c, Sound(c)
  PROVE  Honest(TickChip(c))
<1>1. Sound(Worked(c))
  BY WorkedIsSound
<1>2. TickChip(c) = Advance(UpdateBa(Worked(c)))
  BY DEF TickChip, Worked
<1> QED
  BY <1>1, <1>2, AdvanceIsHonest

LEMMA WriteIsHonest ==
  ASSUME NEW c, Sound(c), Honest(c), NEW w \in RegisterWrites
  PROVE  Honest(WriteEffect(c, w))
<1> DEFINE d == WriteEffect(c, w)
<1>1. /\ SamePlace(c, d)
      /\ d.ba = ~Low(d) \/ (d.ba = c.ba /\ d.dma = c.dma /\ d.badline = c.badline)
  BY WriteIs
<1> HIDE DEF d
<1>2. CASE d.ba = ~Low(d)
  BY <1>2 DEF Honest, d
<1>3. CASE d.ba = c.ba /\ d.dma = c.dma /\ d.badline = c.badline
  <2>1. d.cycle = c.cycle /\ BaEvents(d) = BaEvents(c) /\ (Low(d) <=> Low(c))
    BY <1>1, <1>3 DEF BaEvents, Low, SamePlace
  <2>2. Low(d) \in BOOLEAN /\ Low(c) \in BOOLEAN
    BY DEF Low
  <2>3. ~Low(d) = ~Low(c)
    BY <2>1, <2>2
  <2>4. c.cycle \in BaEvents(c) \/ c.ba = ~Low(c)
    BY DEF Honest
  <2>5. Honest(d)
    BY <1>3, <2>1, <2>3, <2>4 DEF Honest
  <2> QED
    BY <2>5 DEF d
<1> QED
  BY <1>1, <1>2, <1>3

----------------------------------------------------------------------------
(* The schedule of a chip that is left alone.                                *)

Skip(c, n) == [c EXCEPT !.cycle = @ + n]

\* The next event is in this line, which always has one in its last cycle
LEMMA NextEventIs ==
  ASSUME NEW c, Sound(c)
  PROVE  /\ Events(c) \in SUBSET (1..LineLength)
         /\ CyclesToEvent(c) \in 1..LineLength - c.cycle + 1
         /\ CyclesToEvent(c) > 1 =>
               /\ ~(c.raster = FirstLine /\ ~c.denSeen)
               /\ c.cycle + CyclesToEvent(c) - 1 \in Events(c)
               /\ \A e \in Events(c) : e >= c.cycle => e >= c.cycle + CyclesToEvent(c) - 1
<1>1. /\ c \in Chip /\ c.cycle \in 1..LineLength /\ c.dma \in SUBSET Sprites
  BY FieldsAre DEF Sound
<1>2. /\ LineLength \in Nat /\ LineLength > 2
      /\ BadFirst \in 1..LineLength /\ BadLast + 1 \in 1..LineLength
      /\ DmaCycle \in 1..LineLength /\ CountCycle \in 1..LineLength
  BY ConstantsAre
<1>3. Edges[c.dma] \in SUBSET (1..LineLength)
  BY <1>1 DEF Edges
<1>4. CompareCycle(c) \in 1..LineLength
  BY <1>2 DEF CompareCycle
<1>5. Events(c) \in SUBSET (1..LineLength) /\ LineLength \in Events(c)
  BY <1>2, <1>3, <1>4 DEF Events
<1> DEFINE ahead == {e \in Events(c) : e >= c.cycle}
           first == Min(ahead)
<1>6. /\ first \in Events(c) /\ first >= c.cycle
      /\ \A e \in Events(c) : e >= c.cycle => e >= first
  <2>1. ahead \in SUBSET Nat /\ ahead # {}
    BY <1>1, <1>2, <1>5
  <2>2. first \in ahead /\ \A e \in ahead : first <= e
    <3> HIDE DEF ahead
    <3> QED
      BY <2>1, MinIs
  <2>3. \A e \in Events(c) : e \in Nat
    BY <1>5
  <2> QED
    BY <2>2, <2>3
<1>7. CyclesToEvent(c) = IF c.raster = FirstLine /\ ~c.denSeen THEN 1 ELSE first - c.cycle + 1
  BY DEF CyclesToEvent
<1> HIDE DEF first
<1>8. first \in 1..LineLength
  BY <1>5, <1>6
<1>9. CASE c.raster = FirstLine /\ ~c.denSeen
  BY <1>1, <1>2, <1>5, <1>7, <1>9
<1>10. CASE ~(c.raster = FirstLine /\ ~c.denSeen)
  <2>1. CyclesToEvent(c) = first - c.cycle + 1
    BY <1>7, <1>10
  <2>2. c.cycle + CyclesToEvent(c) - 1 = first
    BY <1>1, <1>2, <1>8, <2>1
  <2> QED
    BY <1>1, <1>2, <1>5, <1>6, <1>8, <1>10, <2>1, <2>2
<1> QED
  BY <1>9, <1>10

\* Up to its next event nothing of the schedule changes but the distance
LEMMA SkipIs ==
  ASSUME NEW c, Sound(c), NEW n \in Nat, n < CyclesToEvent(c)
  PROVE  /\ Sound(Skip(c, n))
         /\ CyclesToEvent(Skip(c, n)) = CyclesToEvent(c) - n
<1> DEFINE d == Skip(c, n)
           left == CyclesToEvent(c)
<1>1. c \in Chip /\ c.cycle \in 1..LineLength
  BY FieldsAre DEF Sound
<1>2. LineLength \in Nat /\ LineLength > 2
  BY ConstantsAre
<1>3. /\ Events(c) \in SUBSET (1..LineLength)
      /\ left \in 1..LineLength - c.cycle + 1
      /\ left > 1 =>
               /\ ~(c.raster = FirstLine /\ ~c.denSeen)
               /\ c.cycle + left - 1 \in Events(c)
               /\ \A e \in Events(c) : e >= c.cycle => e >= c.cycle + left - 1
  BY NextEventIs
<1> HIDE DEF left
<1>4. CASE n = 0
  <2>1. Skip(c, n) = c
    BY <1>1, <1>4 DEF Skip, Chip
  <2> QED
    BY <1>1, <1>2, <1>3, <1>4, <2>1 DEF left
<1>5. CASE n # 0
  <2>1. n < left
    BY DEF left
  <2>2. left > 1 /\ c.cycle + n \in 1..LineLength
    BY <1>1, <1>2, <1>3, <1>5, <2>1
  <2>3. d \in Chip /\ d.cycle = c.cycle + n
    BY <1>1, <2>2 DEF Skip, Chip
  <2>4. /\ d.raster = c.raster /\ d.denSeen = c.denSeen /\ d.on = c.on /\ d.dma = c.dma
        /\ d.badline = c.badline /\ d.compare = c.compare /\ d.line = c.line
    BY <1>1 DEF Skip, Chip
  <2>5. Sound(d)
    BY <2>3, <2>4 DEF Sound
  <2> HIDE DEF d
  <2>6. Events(d) = Events(c)
    <3>1. Compares(d) = Compares(c) /\ CompareCycle(d) = CompareCycle(c)
      BY <2>4 DEF Compares, CompareCycle
    <3> QED
      BY <2>4, <3>1 DEF Events
  <2>7. CyclesToEvent(d) = left - n
    <3> DEFINE ahead == {e \in Events(c) : e >= c.cycle + n}
               first == Min(ahead)
               next == c.cycle + left - 1
    <3>1. ahead \in SUBSET Nat /\ next \in ahead
      BY <1>1, <1>2, <1>3, <2>1, <2>2
    <3>2. \A e \in ahead : e >= next
      BY <1>1, <1>2, <1>3, <2>2
    <3>3. first \in ahead /\ \A e \in ahead : first <= e
      <4> HIDE DEF ahead
      <4> QED
        BY <3>1, MinIs
    <3>4. first = next
      <4> HIDE DEF ahead, next, first
      <4> QED
        BY <3>1, <3>2, <3>3
    <3>5. CyclesToEvent(d) = first - (c.cycle + n) + 1
      BY <1>3, <2>2, <2>3, <2>4, <2>6 DEF CyclesToEvent
    <3> HIDE DEF first
    <3> QED
      BY <1>1, <1>2, <1>3, <3>4, <3>5
  <2> QED
    BY <2>5, <2>7 DEF d, left
<1> QED
  BY <1>4, <1>5

\* A cycle without an event moves nothing but the cycle
LEMMA QuietTick ==
  ASSUME NEW c, Sound(c), Honest(c), CyclesToEvent(c) > 1
  PROVE  TickChip(c) = Skip(c, 1)
<1>1. /\ c \in Chip /\ c.cycle \in 1..LineLength /\ c.dma \in SUBSET Sprites
      /\ c.badline \in BOOLEAN /\ c.ba \in BOOLEAN /\ c.denSeen \in BOOLEAN
  BY FieldsAre DEF Sound
<1>2. LineLength \in Nat /\ LineLength > 2
  BY ConstantsAre
<1>3. ~(c.raster = FirstLine /\ ~c.denSeen) /\ c.cycle \notin Events(c)
  <2>1. /\ CyclesToEvent(c) \in 1..LineLength - c.cycle + 1
        /\ ~(c.raster = FirstLine /\ ~c.denSeen)
        /\ \A e \in Events(c) : e >= c.cycle => e >= c.cycle + CyclesToEvent(c) - 1
    BY NextEventIs
  <2>2. ~(c.cycle >= c.cycle + CyclesToEvent(c) - 1) /\ c.cycle >= c.cycle
    BY <1>1, <1>2, <2>1
  <2> QED
    BY <2>1, <2>2
<1>4. /\ c.cycle # LineLength
      /\ c.on # {} => c.cycle # DmaCycle
      /\ c.dma # {} => c.cycle # CountCycle
      /\ c.cycle \notin BaEvents(c)
      /\ Compares(c) => c.cycle # CompareCycle(c)
  BY <1>3 DEF Events, BaEvents
<1>5. RaiseRaster(c) = c
  BY <1>4 DEF RaiseRaster
<1>6. SampleDen(c) = c
  BY <1>3 DEF SampleDen
<1>7. StartSprites(c) = c
  <2>1. c.on = {} => Starting(c) = {}
    BY DEF Starting
  <2> QED
    BY <1>4, <2>1 DEF StartSprites
<1>8. CountSprites(c) = c
  BY <1>4 DEF CountSprites
<1>9. UpdateBa(c) = c
  <2>1. c.ba = ~Low(c)
    BY <1>4 DEF Honest
  <2>2. UpdateBa(c) = [c EXCEPT !.ba = c.ba]
    BY <2>1 DEF UpdateBa
  <2> QED
    BY <1>1, <2>2 DEF Chip
<1>10. c.cycle < LineLength
  BY <1>1, <1>2, <1>4
<1>11. TickChip(c) = Advance(c)
  BY <1>5, <1>6, <1>7, <1>8, <1>9 DEF TickChip
<1> QED
  BY <1>10, <1>11 DEF Advance, Skip

\* ... and so do all the cycles up to the next event
LEMMA SkipIsHonest ==
  ASSUME NEW c, Sound(c), Honest(c), NEW n \in Nat, n < CyclesToEvent(c)
  PROVE  Honest(Skip(c, n))
<1>1. c \in Chip
  BY DEF Sound
<1>2. CyclesToEvent(c) \in Nat
  <2>1. c.cycle \in 1..LineLength /\ LineLength \in Nat
    BY <1>1, FieldsAre, ConstantsAre
  <2> QED
    BY <2>1, NextEventIs
<1> DEFINE S == {i \in 0..n : Honest(Skip(c, i))}
<1>3. 0 \in S
  <2>1. Skip(c, 0) = c
    <3>1. c.cycle + 0 = c.cycle
      BY <1>1, FieldsAre, ConstantsAre
    <3> QED
      BY <1>1, <3>1 DEF Skip, Chip
  <2> QED
    BY <2>1
<1>4. ASSUME NEW i \in 0..n - 1, i \in S
      PROVE  i + 1 \in S
  <2>1. i \in Nat /\ i < CyclesToEvent(c) /\ i + 1 \in 0..n
    BY <1>2
  <2>2. Sound(Skip(c, i)) /\ CyclesToEvent(Skip(c, i)) = CyclesToEvent(c) - i
    BY <2>1, SkipIs
  <2>3. CyclesToEvent(Skip(c, i)) > 1
    BY <1>2, <2>1, <2>2
  <2>4. TickChip(Skip(c, i)) = Skip(Skip(c, i), 1)
    BY <1>4, <2>2, <2>3, QuietTick
  <2>5. Skip(Skip(c, i), 1) = Skip(c, i + 1)
    <3>1. (c.cycle + i) + 1 = c.cycle + (i + 1)
      BY <1>1, FieldsAre, ConstantsAre
    <3> QED
      BY <1>1, <3>1 DEF Skip, Chip
  <2>6. Honest(Skip(c, i + 1))
    BY <2>2, <2>4, <2>5, TickIsHonest
  <2> QED
    BY <2>1, <2>6
<1>5. \A i \in 0..n : i \in S
  <2> HIDE DEF S
  <2> QED
    BY <1>3, <1>4, IntervalInduction
<1> QED
  BY <1>5

LEMMA SkipsAdd ==
  ASSUME NEW c \in Chip, NEW m \in Nat, NEW n \in Nat
  PROVE  Skip(c, 0) = c /\ Skip(Skip(c, m), n) = Skip(c, m + n)
<1>1. c.cycle + 0 = c.cycle /\ (c.cycle + m) + n = c.cycle + (m + n)
  BY FieldsAre, ConstantsAre
<1> QED
  BY <1>1 DEF Skip, Chip

----------------------------------------------------------------------------
(* The loop of catch_up(). Up to the next event it takes two turns: one that *)
(* skips and one that walks.                                                 *)

\* The first k turns for a chip that is n cycles behind
IsLoop(f, c, n, k) ==
  f = [i \in 0..k |-> IF i = 0 THEN [chip |-> c, behind |-> n] ELSE Pass(f[i - 1])]

LEMMA LoopExists ==
  ASSUME NEW c, NEW n \in Nat
  PROVE  \E f : /\ f[0] = [chip |-> c, behind |-> n]
                /\ \A i \in 0..n - 1 : f[i + 1] = Pass(f[i])
                /\ CatchUp(c, n) = f[n].chip
<1> DEFINE start == [chip |-> c, behind |-> n]
           S == {k \in 0..n : \E f : IsLoop(f, c, n, k)}
<1>1. 0 \in S
  <2>1. IsLoop([i \in 0..0 |-> start], c, n, 0)
    BY DEF IsLoop
  <2> QED
    BY <2>1
<1>2. ASSUME NEW k \in 0..n - 1, k \in S
      PROVE  k + 1 \in S
  <2>1. PICK f : IsLoop(f, c, n, k)
    BY <1>2
  <2> DEFINE g == [i \in 0..k + 1 |-> IF i = k + 1 THEN Pass(f[k]) ELSE f[i]]
  <2>2. \A i \in 0..k : f[i] = IF i = 0 THEN start ELSE Pass(f[i - 1])
    <3> HIDE DEF g
    <3> QED
      BY <2>1 DEF IsLoop
  <2>3. ASSUME NEW i \in 0..k + 1
        PROVE  g[i] = IF i = 0 THEN start ELSE Pass(g[i - 1])
    <3>1. CASE i = k + 1
      <4>1. g[i] = Pass(f[k]) /\ i # 0 /\ i - 1 = k /\ g[k] = f[k]
        BY <3>1
      <4> QED
        BY <3>1, <4>1
    <3>2. CASE i # k + 1
      <4>1. i \in 0..k /\ g[i] = f[i]
        BY <3>2
      <4>2. i # 0 => i - 1 \in 0..k + 1 /\ i - 1 # k + 1
        BY <4>1
      <4>3. i # 0 => g[i - 1] = f[i - 1]
        BY <4>2
      <4> QED
        BY <2>2, <4>1, <4>3
    <3> QED
      BY <3>1, <3>2
  <2>4. IsLoop(g, c, n, k + 1)
    <3>1. g = [i \in 0..k + 1 |-> g[i]]
      OBVIOUS
    <3> HIDE DEF g
    <3> QED
      BY <2>3, <3>1 DEF IsLoop
  <2>5. k + 1 \in 0..n
    OBVIOUS
  <2> HIDE DEF g
  <2> QED
    BY <2>4, <2>5
<1>3. \E f : IsLoop(f, c, n, n)
  <2>1. \A k \in 0..n : k \in S
    <3> HIDE DEF S
    <3> QED
      BY <1>1, <1>2, IntervalInduction
  <2> QED
    BY <2>1
<1> DEFINE F == CHOOSE f : IsLoop(f, c, n, n)
<1>4. IsLoop(F, c, n, n)
  BY <1>3
<1>5. CatchUp(c, n) = F[n].chip
  BY DEF CatchUp, IsLoop
<1> HIDE DEF F
<1>6. \A i \in 0..n : F[i] = IF i = 0 THEN start ELSE Pass(F[i - 1])
  BY <1>4 DEF IsLoop
<1>7. \A i \in 0..n - 1 : F[i + 1] = Pass(F[i])
  <2>1. \A i \in 0..n - 1 : i + 1 \in 0..n /\ i + 1 # 0 /\ i + 1 - 1 = i
    OBVIOUS
  <2> QED
    BY <1>6, <2>1
<1>8. F[0] = start
  BY <1>6
<1> QED
  BY <1>5, <1>7, <1>8

\* Once the chip is at the present, the turns that remain do nothing
LEMMA LoopStops ==
  ASSUME NEW f, NEW n \in Nat, NEW k \in 0..n,
         \A i \in 0..n - 1 : f[i + 1] = Pass(f[i]),
         f[k].behind = 0
  PROVE  f[n] = f[k]
<1> DEFINE S == {i \in 0..n : i >= k => f[i] = f[k]}
<1>1. 0 \in S
  OBVIOUS
<1>2. ASSUME NEW i \in 0..n - 1, i \in S
      PROVE  i + 1 \in S
  <2>1. i + 1 \in 0..n /\ (i + 1 >= k => i >= k \/ i + 1 = k)
    OBVIOUS
  <2>2. CASE i >= k
    <3>1. f[i + 1] = f[k]
      BY <1>2, <2>2 DEF Pass
    <3> QED
      BY <2>1, <3>1
  <2>3. CASE ~(i >= k)
    BY <2>1, <2>3
  <2> QED
    BY <2>2, <2>3
<1>3. n \in S
  <2>1. \A i \in 0..n : i \in S
    <3> HIDE DEF S
    <3> QED
      BY <1>1, <1>2, IntervalInduction
  <2> QED
    BY <2>1
<1> QED
  BY <1>3

LEMMA CatchUpIs ==
  ASSUME NEW c, Sound(c), Honest(c), NEW n \in Nat, n <= CyclesToEvent(c)
  PROVE  /\ CatchUp(c, n) = IF n = 0 THEN c ELSE TickChip(Skip(c, n - 1))
         /\ n < CyclesToEvent(c) => CatchUp(c, n) = Skip(c, n)
<1>1. PICK f : /\ f[0] = [chip |-> c, behind |-> n]
               /\ \A i \in 0..n - 1 : f[i + 1] = Pass(f[i])
               /\ CatchUp(c, n) = f[n].chip
  BY LoopExists
<1> DEFINE quiet == CyclesToEvent(c)
<1>2. c \in Chip /\ quiet \in Nat /\ quiet >= 1
  <2>1. c \in Chip /\ c.cycle \in 1..LineLength /\ LineLength \in Nat
    BY FieldsAre, ConstantsAre DEF Sound
  <2> QED
    BY <2>1, NextEventIs
<1>3. CASE n = 0
  BY <1>1, <1>2, <1>3, SkipsAdd
<1>4. CASE n # 0
  <2>1. 0 \in 0..n - 1 /\ 1 \in 0..n /\ 0 + 1 = 1 /\ n - 1 \in Nat
    BY <1>4
  <2>2. f[1] = AfterQuiet([chip |-> c, behind |-> n], quiet)
    <3>1. f[1] = Pass(f[0])
      BY <1>1, <2>1
    <3> QED
      BY <1>1, <1>4, <3>1 DEF Pass
  <2>3. n < quiet => TickChip(Skip(c, n - 1)) = Skip(c, n)
    <3> SUFFICES ASSUME n < quiet PROVE TickChip(Skip(c, n - 1)) = Skip(c, n)
      OBVIOUS
    <3>1. n - 1 < quiet /\ quiet - (n - 1) > 1 /\ (n - 1) + 1 = n
      BY <1>2, <1>4
    <3>2. /\ Sound(Skip(c, n - 1)) /\ Honest(Skip(c, n - 1))
          /\ CyclesToEvent(Skip(c, n - 1)) = quiet - (n - 1)
      BY <2>1, <3>1, SkipIs, SkipIsHonest
    <3>3. TickChip(Skip(c, n - 1)) = Skip(Skip(c, n - 1), 1)
      BY <3>1, <3>2, QuietTick
    <3> QED
      BY <1>2, <2>1, <3>1, <3>3, SkipsAdd
  <2>4. CASE quiet = 1
    <3>1. n = 1 /\ Skip(c, n - 1) = c
      BY <1>2, <1>4, <2>4, SkipsAdd
    <3>2. f[1].chip = TickChip(c)
      BY <2>2, <2>4 DEF AfterQuiet, Walk
    <3> QED
      BY <1>1, <2>4, <3>1, <3>2
  <2>5. CASE quiet > 1 /\ n < quiet
    <3>1. Min({n, quiet - 1}) = n
      <4>1. {n, quiet - 1} \in SUBSET Nat /\ n <= quiet - 1
        BY <1>2, <2>5
      <4>2. Min({n, quiet - 1}) \in {n, quiet - 1} /\ Min({n, quiet - 1}) <= n
        BY <4>1, MinIs
      <4> QED
        BY <1>2, <4>1, <4>2
    <3>2. f[1] = [chip |-> Skip(c, n), behind |-> 0]
      BY <2>2, <2>5, <3>1 DEF AfterQuiet, SkipOver, Skip
    <3>3. f[n] = f[1]
      <4>1. f[1].behind = 0
        BY <3>2
      <4> QED
        BY <1>1, <2>1, <4>1, LoopStops
    <3> QED
      BY <1>1, <1>4, <2>3, <2>5, <3>2, <3>3
  <2>6. CASE quiet > 1 /\ n = quiet
    <3>1. Min({n, quiet - 1}) = n - 1
      <4>1. {n, quiet - 1} \in SUBSET Nat /\ quiet - 1 = n - 1
        BY <1>2, <2>6
      <4>2. Min({n, quiet - 1}) \in {n, quiet - 1} /\ Min({n, quiet - 1}) <= n - 1
        BY <4>1, MinIs
      <4> QED
        BY <1>2, <4>1, <4>2
    <3> DEFINE d == Skip(c, n - 1)
    <3>2. f[1] = [chip |-> d, behind |-> 1]
      <4>1. n - (n - 1) = 1
        OBVIOUS
      <4> QED
        BY <2>2, <2>6, <3>1, <4>1 DEF AfterQuiet, SkipOver, Skip
    <3>3. CyclesToEvent(d) = 1
      <4>1. n - 1 < quiet /\ quiet - (n - 1) = 1
        BY <1>2, <2>6
      <4> QED
        BY <2>1, <4>1, SkipIs
    <3>4. 1 \in 0..n - 1 /\ 2 \in 0..n /\ 1 + 1 = 2
      BY <1>2, <2>6
    <3> HIDE DEF d
    <3>5. f[2] = [chip |-> TickChip(d), behind |-> 0]
      <4>1. f[2] = Pass(f[1])
        BY <1>1, <3>4
      <4>2. Pass([chip |-> d, behind |-> 1]) = Walk([chip |-> d, behind |-> 1])
        BY <3>3 DEF Pass, AfterQuiet
      <4> QED
        BY <3>2, <4>1, <4>2 DEF Walk
    <3>6. f[n] = f[2]
      <4>1. f[2].behind = 0
        BY <3>5
      <4> QED
        BY <1>1, <3>4, <4>1, LoopStops
    <3> QED
      BY <1>1, <1>4, <2>6, <3>5, <3>6 DEF d
  <2> QED
    BY <1>2, <2>4, <2>5, <2>6
<1> QED
  BY <1>3, <1>4

----------------------------------------------------------------------------
(* The invariant of the scheduled VIC.                                       *)

OnlyCycleMoved == present = Skip(chip, behind)
InTime == behind + wake <= CyclesToEvent(chip)

ScheduleInvariant ==
  /\ Sound(chip)
  /\ Honest(chip)
  /\ behind \in Nat
  /\ wake \in Nat \ {0}
  /\ OnlyCycleMoved
  /\ InTime
  /\ sampled.frame = present.frame

LEMMA DistanceIsPositive ==
  ASSUME NEW c, Sound(c)
  PROVE  CyclesToEvent(c) \in 1..LineLength
<1>1. c.cycle \in 1..LineLength /\ LineLength \in Nat
  BY FieldsAre, ConstantsAre DEF Sound
<1> QED
  BY <1>1, NextEventIs

LEMMA InvariantHoldsFirst == Init => ScheduleInvariant
<1> SUFFICES ASSUME Init PROVE ScheduleInvariant
  OBVIOUS
<1>1. chip \in Chip /\ chip.ba /\ ~chip.badline /\ chip.dma = {}
  BY VicAccessAssumption DEF Init
<1>2. Sound(chip)
  BY <1>1 DEF Sound
<1>3. Honest(chip)
  <2>1. ~Low(chip)
    BY <1>1 DEF Low, SpriteLow
  <2>2. chip.ba \in BOOLEAN
    BY <1>1, FieldsAre
  <2> QED
    BY <1>1, <2>1, <2>2 DEF Honest
<1>4. present = Skip(chip, behind)
  BY <1>1, SkipsAdd DEF Init
<1>5. behind = 0 /\ wake = 1 /\ sampled.frame = present.frame
  BY DEF Init, Sample
<1>6. behind + wake <= CyclesToEvent(chip)
  BY <1>2, <1>5, DistanceIsPositive, ConstantsAre
<1> QED
  BY <1>2, <1>3, <1>4, <1>5, <1>6 DEF ScheduleInvariant, OnlyCycleMoved, InTime

\* The chip that an access would find
LEMMA PresentIs ==
  ASSUME ScheduleInvariant
  PROVE  Sound(present) /\ Honest(present) /\ CyclesToEvent(present) = CyclesToEvent(chip) - behind
<1>1. /\ Sound(chip) /\ Honest(chip) /\ behind \in Nat /\ wake \in Nat \ {0}
      /\ present = Skip(chip, behind) /\ behind + wake <= CyclesToEvent(chip)
  BY DEF ScheduleInvariant, OnlyCycleMoved, InTime
<1>2. behind < CyclesToEvent(chip)
  BY <1>1, DistanceIsPositive, ConstantsAre
<1> QED
  BY <1>1, <1>2, SkipIs, SkipIsHonest

\* The cycle that every action begins with: if it wakes the VIC, that is
\* caught up to the present; if not, only the cycle of the chip moves
LEMMA ClockedIs ==
  ASSUME ScheduleInvariant
  PROVE  /\ Sound(Clocked) /\ Honest(Clocked)
         /\ Sample(Clocked) = Sample(TickChip(present))
         /\ BehindInCycle \in Nat
         /\ CatchUp(Clocked, BehindInCycle) = TickChip(present)
         /\ TickChip(present) = Skip(Clocked, BehindInCycle)
         /\ BehindInCycle + (IF Woken THEN CyclesToEvent(Clocked) ELSE wake - 1)
               <= CyclesToEvent(Clocked)
         /\ BehindInCycle < CyclesToEvent(Clocked)
<1>1. /\ Sound(chip) /\ Honest(chip) /\ behind \in Nat /\ wake \in Nat \ {0}
      /\ present = Skip(chip, behind) /\ behind + wake <= CyclesToEvent(chip)
      /\ chip \in Chip /\ CyclesToEvent(chip) \in Nat
  BY DistanceIsPositive, ConstantsAre DEF ScheduleInvariant, OnlyCycleMoved, InTime, Sound
<1>2. Sound(present) /\ Honest(present)
  BY PresentIs
<1>3. behind + 1 \in Nat /\ behind + 1 <= CyclesToEvent(chip) /\ behind + 1 # 0
      /\ behind + 1 - 1 = behind
  BY <1>1
<1>4. CatchUp(chip, behind + 1) = TickChip(present)
  BY <1>1, <1>3, CatchUpIs
<1>5. CASE Woken
  <2>1. Clocked = TickChip(present) /\ BehindInCycle = 0
    BY <1>4, <1>5 DEF Clocked, BehindInCycle
  <2>2. Sound(Clocked) /\ Honest(Clocked)
    BY <1>2, <2>1, TickIs, TickIsHonest
  <2>3. CyclesToEvent(Clocked) \in Nat /\ CyclesToEvent(Clocked) >= 1
    BY <2>2, DistanceIsPositive, ConstantsAre
  <2>4. CatchUp(Clocked, 0) = Clocked
    BY <2>2, <2>3, CatchUpIs
  <2>5. Skip(Clocked, 0) = Clocked
    BY <2>2, SkipsAdd DEF Sound
  <2> QED
    BY <1>5, <2>1, <2>2, <2>3, <2>4, <2>5
<1>6. CASE ~Woken
  <2>1. Clocked = chip /\ BehindInCycle = behind + 1
    BY <1>6 DEF Clocked, BehindInCycle
  <2>2. wake # 1 /\ wake - 1 \in Nat
    BY <1>1, <1>6 DEF Woken
  <2>3. behind + 1 < CyclesToEvent(chip) /\ behind + 1 + (wake - 1) <= CyclesToEvent(chip)
    BY <1>1, <2>2
  <2>4. TickChip(present) = Skip(chip, behind + 1)
    BY <1>1, <1>3, <1>4, <2>3, CatchUpIs
  <2>5. Sample(chip) = Sample(Skip(chip, behind + 1))
    BY <1>1 DEF Sample, Skip, Chip
  <2> QED
    BY <1>1, <1>3, <1>4, <1>6, <2>1, <2>3, <2>4, <2>5
<1> QED
  BY <1>5, <1>6

\* Every step is a cycle of the chip at the present, and a write
LEMMA StepIsACycle ==
  ASSUME ScheduleInvariant, Next
  PROVE  /\ ScheduleInvariant'
         /\ sampled' = Sample(TickChip(present))
         /\ \/ present' = TickChip(present)
            \/ \E w \in Writes : present' = WriteEffect(TickChip(present), w)
<1> DEFINE now == TickChip(present)
           left == IF Woken THEN CyclesToEvent(Clocked) ELSE wake - 1
<1>1. /\ Sound(Clocked) /\ Honest(Clocked) /\ Sample(Clocked) = Sample(now)
      /\ BehindInCycle \in Nat
      /\ CatchUp(Clocked, BehindInCycle) = now /\ now = Skip(Clocked, BehindInCycle)
      /\ BehindInCycle + left <= CyclesToEvent(Clocked)
      /\ BehindInCycle < CyclesToEvent(Clocked)
  BY ClockedIs
<1>2. Sound(now) /\ Honest(now)
  BY PresentIs, TickIs, TickIsHonest
<1>3. left \in Nat \ {0} /\ CyclesToEvent(Clocked) \in Nat
  <2>1. CyclesToEvent(Clocked) \in Nat \ {0}
    BY <1>1, DistanceIsPositive, ConstantsAre
  <2>2. wake \in Nat \ {0} /\ (~Woken => wake # 1)
    BY DEF ScheduleInvariant, Woken
  <2> QED
    BY <2>1, <2>2
<1>4. CyclesToEvent(now) = CyclesToEvent(Clocked) - BehindInCycle
  BY <1>1, SkipIs
<1>5. Sample(now).frame = now.frame
  BY DEF Sample
<1> HIDE DEF now, left
<1>6. CASE Cycle
  <2>1. /\ chip' = Clocked /\ behind' = BehindInCycle /\ wake' = left /\ sampled' = Sample(now)
        /\ present' = now
    BY <1>1, <1>6 DEF Cycle, Look, left
  <2>2. ScheduleInvariant'
    BY <1>1, <1>3, <1>5, <2>1 DEF ScheduleInvariant, OnlyCycleMoved, InTime
  <2> QED
    BY <2>1, <2>2 DEF now
<1>7. CASE ReadCycle
  <2>1. /\ chip' = now /\ behind' = 0 /\ wake' = left /\ sampled' = Sample(now) /\ present' = now
    BY <1>1, <1>7 DEF ReadCycle, Look, left
  <2>2. 0 + left <= CyclesToEvent(now)
    BY <1>1, <1>3, <1>4
  <2>3. Skip(now, 0) = now
    BY <1>2, SkipsAdd DEF Sound
  <2>4. ScheduleInvariant'
    BY <1>2, <1>3, <1>5, <2>1, <2>2, <2>3 DEF ScheduleInvariant, OnlyCycleMoved, InTime
  <2> QED
    BY <2>1, <2>4 DEF now
<1>8. ASSUME NEW w \in Writes, WriteCycle(w)
      PROVE  /\ ScheduleInvariant'
             /\ sampled' = Sample(now)
             /\ present' = WriteEffect(now, w)
  <2> DEFINE d == WriteEffect(now, w)
  <2>1. /\ chip' = d /\ behind' = 0 /\ wake' = 1 /\ sampled' = Sample(now) /\ present' = d
    BY <1>1, <1>8 DEF WriteCycle, Written
  <2>2. w \in RegisterWrites
    BY VicAccessAssumption
  <2>3. Sound(d) /\ Honest(d) /\ d.frame = now.frame
    BY <1>2, <2>2, WriteIs, WriteIsHonest DEF SamePlace
  <2> HIDE DEF d
  <2>4. 0 + 1 <= CyclesToEvent(d)
    BY <2>3, DistanceIsPositive, ConstantsAre
  <2>5. Skip(d, 0) = d
    BY <2>3, SkipsAdd DEF Sound
  <2>6. ScheduleInvariant'
    BY <1>5, <2>1, <2>3, <2>4, <2>5 DEF ScheduleInvariant, OnlyCycleMoved, InTime
  <2> QED
    BY <2>1, <2>6 DEF d
<1> QED
  BY <1>6, <1>7, <1>8 DEF Next, now

LEMMA InvariantHolds == Spec => []ScheduleInvariant
<1>1. ScheduleInvariant /\ [Next]_vars => ScheduleInvariant'
  <2>1. ASSUME ScheduleInvariant, UNCHANGED vars
        PROVE  ScheduleInvariant'
    BY <2>1 DEF vars, ScheduleInvariant, OnlyCycleMoved, InTime
  <2> QED
    BY <2>1, StepIsACycle
<1> QED
  BY <1>1, InvariantHoldsFirst, PTL DEF Spec

\* The chip keeps its ranges, and the VIC is never left alone for more than a
\* line (Bus::vic_wake_ fits, and no line ends unseen).
THEOREM VicTypeOK == Spec => []TypeOK
<1>1. ScheduleInvariant => TypeOK
  <2> SUFFICES ASSUME ScheduleInvariant PROVE TypeOK
    OBVIOUS
  <2>1. /\ Sound(chip) /\ behind \in Nat /\ wake \in Nat \ {0}
        /\ behind + wake <= CyclesToEvent(chip) /\ Sound(present)
    BY PresentIs DEF ScheduleInvariant, InTime
  <2>2. CyclesToEvent(chip) \in 1..LineLength /\ LineLength \in Nat
    BY <2>1, DistanceIsPositive, ConstantsAre
  <2>3. behind \in 0..LineLength - 1 /\ wake \in 1..LineLength
    BY <2>1, <2>2
  <2> QED
    BY <2>1, <2>3 DEF TypeOK, Sound
<1> QED
  BY <1>1, InvariantHolds, PTL

----------------------------------------------------------------------------
(* The end of a frame.                                                       *)

\* The lines that are left, in cycles
LEMMA LinesLeftAre ==
  ASSUME NEW q \in Nat
  PROVE  /\ q * LineLength \in Nat
         /\ q = 0 => q * LineLength = 0
         /\ q # 0 => (q - 1) * LineLength = q * LineLength - LineLength /\ q * LineLength >= LineLength
<1>1. LineLength \in Nat /\ LineLength > 2
  BY ConstantsAre
<1>2. q * LineLength \in Nat /\ (q = 0 => q * LineLength = 0)
  BY <1>1
<1>3. ASSUME q # 0
      PROVE  (q - 1) * LineLength = q * LineLength - LineLength
  BY <1>1, <1>3
<1>4. ASSUME q # 0
      PROVE  q * LineLength >= LineLength
  <2>1. q - 1 \in Nat
    BY <1>4
  <2>2. (q - 1) * LineLength \in Nat
    BY <1>1, <2>1
  <2> QED
    BY <1>1, <1>2, <1>3, <1>4, <2>2
<1> QED
  BY <1>2, <1>3, <1>4

\* A cycle counts the distance to the end of the frame down by one, and ends
\* the frame with the last one
LEMMA TickCountsDown ==
  ASSUME NEW c, Sound(c)
  PROVE  LET d == TickChip(c)
         IN  /\ CyclesToFrameEnd(c) = 1 <=> d.frame # c.frame
             /\ CyclesToFrameEnd(d) = IF CyclesToFrameEnd(c) = 1 THEN LineLength * Lines
                                      ELSE CyclesToFrameEnd(c) - 1
<1> DEFINE d == TickChip(c)
           q == Lines - 1 - c.raster
<1>1. /\ c.cycle \in 1..LineLength /\ c.raster \in 0..Lines - 1 /\ c.frame \in {0, 1}
      /\ LineLength \in Nat /\ LineLength > 2 /\ Lines \in Nat /\ Lines > 1
  BY FieldsAre, ConstantsAre DEF Sound
<1>2. /\ d.cycle = IF c.cycle = LineLength THEN 1 ELSE c.cycle + 1
      /\ d.raster = IF c.cycle # LineLength THEN c.raster
                    ELSE IF c.raster = Lines - 1 THEN 0 ELSE c.raster + 1
      /\ d.frame = IF c.cycle = LineLength /\ c.raster = Lines - 1
                   THEN 1 - c.frame ELSE c.frame
  BY TickIs
<1> HIDE DEF d
<1>3. q \in Nat /\ (q = 0 <=> c.raster = Lines - 1)
  BY <1>1
<1>4. /\ q * LineLength \in Nat
      /\ q = 0 => q * LineLength = 0
      /\ q # 0 => (q - 1) * LineLength = q * LineLength - LineLength /\ q * LineLength >= LineLength
  BY <1>3, LinesLeftAre
<1>5. CyclesToFrameEnd(c) = (LineLength - c.cycle + 1) + q * LineLength
  BY DEF CyclesToFrameEnd
<1>6. CyclesToFrameEnd(d) = (LineLength - d.cycle + 1) + (Lines - 1 - d.raster) * LineLength
  BY DEF CyclesToFrameEnd
<1>7. d.frame # c.frame <=> c.cycle = LineLength /\ q = 0
  BY <1>1, <1>2, <1>3
<1> DEFINE rest == q * LineLength
<1>8. CASE c.cycle # LineLength
  <2>1. Lines - 1 - d.raster = q /\ d.cycle = c.cycle + 1
    BY <1>2, <1>8
  <2>2. CyclesToFrameEnd(d) = (LineLength - (c.cycle + 1) + 1) + rest
    BY <1>6, <2>1
  <2>3. rest \in Nat /\ CyclesToFrameEnd(c) = (LineLength - c.cycle + 1) + rest
    BY <1>4, <1>5
  <2>4. d.frame = c.frame
    BY <1>7, <1>8
  <2> HIDE DEF rest, q
  <2>5. CyclesToFrameEnd(c) # 1 /\ CyclesToFrameEnd(d) = CyclesToFrameEnd(c) - 1
    <3>1. c.cycle \in Nat /\ c.cycle < LineLength
      BY <1>1, <1>8
    <3>2. (LineLength - c.cycle + 1) + rest \in Nat /\ (LineLength - c.cycle + 1) + rest > 1
      BY <1>1, <2>3, <3>1
    <3>3. (LineLength - (c.cycle + 1) + 1) + rest = (LineLength - c.cycle + 1) + rest - 1
      BY <1>1, <2>3, <3>1
    <3>4. CyclesToFrameEnd(c) > 1 /\ CyclesToFrameEnd(c) \in Nat
      BY <2>3, <3>2
    <3>5. CyclesToFrameEnd(d) = (LineLength - c.cycle + 1) + rest - 1
      BY <2>2, <3>3
    <3>6. CyclesToFrameEnd(d) = CyclesToFrameEnd(c) - 1
      BY <1>1, <2>3, <3>1, <3>5
    <3> QED
      BY <3>4, <3>6
  <2> QED
    BY <2>4, <2>5 DEF d
<1>9. CASE c.cycle = LineLength /\ q # 0
  <2>1. Lines - 1 - d.raster = q - 1 /\ d.cycle = 1
    BY <1>1, <1>2, <1>3, <1>9
  <2>2. CyclesToFrameEnd(d) = (LineLength - 1 + 1) + (q - 1) * LineLength
    BY <1>6, <2>1
  <2>3. CyclesToFrameEnd(d) = (LineLength - 1 + 1) + (rest - LineLength)
    BY <1>4, <1>9, <2>2
  <2>4. rest \in Nat /\ rest >= LineLength
    BY <1>4, <1>9
  <2>5. CyclesToFrameEnd(c) = (LineLength - c.cycle + 1) + rest
    BY <1>5
  <2>6. d.frame = c.frame
    BY <1>7, <1>9
  <2> HIDE DEF rest, q
  <2> QED
    BY <1>1, <1>9, <2>3, <2>4, <2>5, <2>6 DEF d
<1>10. CASE c.cycle = LineLength /\ q = 0
  <2>1. Lines - 1 - d.raster = Lines - 1 /\ d.cycle = 1
    BY <1>1, <1>2, <1>3, <1>10
  <2>2. (Lines - 1) * LineLength = LineLength * Lines - LineLength
    BY <1>1
  <2>3. LineLength * Lines \in Nat
    BY <1>1
  <2>4. CyclesToFrameEnd(d) = (LineLength - 1 + 1) + (LineLength * Lines - LineLength)
    BY <1>6, <2>1, <2>2
  <2>5. CyclesToFrameEnd(c) = 1
    BY <1>1, <1>4, <1>5, <1>10
  <2>6. CyclesToFrameEnd(d) = LineLength * Lines
    <3> DEFINE total == LineLength * Lines
    <3>1. total \in Nat /\ CyclesToFrameEnd(d) = (LineLength - 1 + 1) + (total - LineLength)
      BY <2>3, <2>4
    <3> HIDE DEF total
    <3>2. CyclesToFrameEnd(d) = total
      BY <1>1, <3>1
    <3> QED
      BY <3>2 DEF total
  <2> QED
    BY <1>7, <1>10, <2>5, <2>6 DEF d
<1> QED
  BY <1>8, <1>9, <1>10

\* Player::run_frame() asks how far the frame ends and runs that many cycles:
\* whatever the program writes in between, it lands on the frame's end.
THEOREM FramesEndOnTime == Spec => LandsOnFrameEnd
<1> DEFINE Counts == /\ CyclesToFrameEnd(present) = 1 <=> sampled'.frame # sampled.frame
                     /\ CyclesToFrameEnd(present') = IF CyclesToFrameEnd(present) = 1
                                                     THEN LineLength * Lines
                                                     ELSE CyclesToFrameEnd(present) - 1
<1>1. ScheduleInvariant /\ Next => Counts
  <2> SUFFICES ASSUME ScheduleInvariant, Next PROVE Counts
    OBVIOUS
  <2> DEFINE now == TickChip(present)
  <2>1. /\ sampled' = Sample(now)
        /\ \/ present' = now
           \/ \E w \in Writes : present' = WriteEffect(now, w)
    BY StepIsACycle
  <2>2. Sound(present) /\ sampled.frame = present.frame
    BY PresentIs DEF ScheduleInvariant
  <2>3. Sound(now)
    BY <2>2, TickIs
  <2>4. /\ CyclesToFrameEnd(present) = 1 <=> now.frame # present.frame
        /\ CyclesToFrameEnd(now) = IF CyclesToFrameEnd(present) = 1 THEN LineLength * Lines
                                   ELSE CyclesToFrameEnd(present) - 1
    BY <2>2, TickCountsDown
  <2> HIDE DEF now
  <2>5. SamePlace(now, present')
    <3>1. ASSUME NEW w \in Writes, present' = WriteEffect(now, w)
          PROVE  SamePlace(now, present')
      BY <2>3, <3>1, WriteIs, VicAccessAssumption
    <3>2. SamePlace(now, now)
      BY DEF SamePlace
    <3> QED
      BY <2>1, <3>1, <3>2
  <2>6. CyclesToFrameEnd(present') = CyclesToFrameEnd(now)
    BY <2>5 DEF CyclesToFrameEnd, SamePlace
  <2>7. sampled'.frame = now.frame
    BY <2>1 DEF Sample
  <2> QED
    BY <2>2, <2>4, <2>6, <2>7
<1>2. ScheduleInvariant /\ [Next]_vars => [Counts]_vars
  BY <1>1
<1> HIDE DEF Counts
<1>3. Spec => [][Counts]_vars
  BY <1>2, InvariantHolds, PTL DEF Spec
<1> QED
  BY <1>3 DEF LandsOnFrameEnd, Counts

----------------------------------------------------------------------------
(* The promise. Its chip works as this one does, operator by operator.       *)

LEMMA PromisedBaIsSame ==
  ASSUME NEW c
  PROVE  /\ Promise!CheckBadline(c) = CheckBadline(c)
         /\ Promise!UpdateBa(c) = UpdateBa(c)
         /\ Promise!IrqLine(c) = IrqLine(c)
<1>1. Promise!SpriteLow = SpriteLow
  BY DEF Promise!SpriteLow, SpriteLow, Promise!Wrapped, Wrapped
<1>2. Promise!Low(c) = Low(c)
  BY <1>1 DEF Promise!Low, Low
<1>3. Promise!UpdateBa(c) = UpdateBa(c)
  BY <1>2 DEF Promise!UpdateBa, UpdateBa
<1>4. Promise!CheckBadline(c) = CheckBadline(c)
  BY DEF Promise!CheckBadline, CheckBadline
<1>5. Promise!IrqLine(c) = IrqLine(c)
  BY DEF Promise!IrqLine, IrqLine
<1> QED
  BY <1>3, <1>4, <1>5

LEMMA PromisedRasterIsSame ==
  ASSUME NEW c
  PROVE  Promise!RaiseRaster(c) = RaiseRaster(c) /\ Promise!SampleDen(c) = SampleDen(c)
<1>1. Promise!Compares(c) = Compares(c) /\ Promise!CompareCycle(c) = CompareCycle(c)
  BY DEF Promise!Compares, Compares, Promise!CompareCycle, CompareCycle
<1>2. Promise!IrqLine([c EXCEPT !.flag = TRUE]) = IrqLine([c EXCEPT !.flag = TRUE])
  BY PromisedBaIsSame
<1>3. Promise!CheckBadline([c EXCEPT !.denSeen = TRUE]) = CheckBadline([c EXCEPT !.denSeen = TRUE])
  BY PromisedBaIsSame
<1>4. Promise!RaiseRaster(c) = RaiseRaster(c)
  BY <1>1, <1>2 DEF Promise!RaiseRaster, RaiseRaster
<1>5. Promise!SampleDen(c) = SampleDen(c)
  BY <1>3 DEF Promise!SampleDen, SampleDen
<1> QED
  BY <1>4, <1>5

LEMMA PromisedSpritesAreSame ==
  ASSUME NEW c
  PROVE  Promise!StartSprites(c) = StartSprites(c) /\ Promise!CountSprites(c) = CountSprites(c)
<1>1. Promise!StartSprites(c) = StartSprites(c)
  BY DEF Promise!StartSprites, StartSprites, Promise!Starting, Starting
<1>2. Promise!CountSprites(c) = CountSprites(c)
  BY DEF Promise!CountSprites, CountSprites, Promise!Finished, Finished,
         Promise!Counted, Counted, Promise!Stretched, Stretched
<1> QED
  BY <1>1, <1>2

LEMMA PromisedAdvanceIsSame ==
  ASSUME NEW c
  PROVE  Promise!Advance(c) = Advance(c)
<1>1. ASSUME NEW d
      PROVE  Promise!StartOfLine(d) = StartOfLine(d)
  BY PromisedBaIsSame DEF Promise!StartOfLine, StartOfLine
<1>2. Promise!EndOfLine(c) = EndOfLine(c)
  BY <1>1 DEF Promise!EndOfLine, EndOfLine, Promise!LastOfFrame, LastOfFrame
<1> QED
  BY <1>2 DEF Promise!Advance, Advance

LEMMA PromisedTickIsSame ==
  ASSUME NEW c
  PROVE  Promise!TickChip(c) = TickChip(c)
<1>1. /\ \A d : Promise!Advance(d) = Advance(d)
      /\ \A d : Promise!UpdateBa(d) = UpdateBa(d)
      /\ \A d : Promise!CountSprites(d) = CountSprites(d)
      /\ \A d : Promise!StartSprites(d) = StartSprites(d)
      /\ \A d : Promise!SampleDen(d) = SampleDen(d)
      /\ \A d : Promise!RaiseRaster(d) = RaiseRaster(d)
  BY PromisedAdvanceIsSame, PromisedBaIsSame, PromisedSpritesAreSame, PromisedRasterIsSame
<1> QED
  BY <1>1 DEF Promise!TickChip, TickChip

LEMMA PromisedWriteIsSame ==
  ASSUME NEW c, NEW w
  PROVE  Promise!WriteEffect(c, w) = WriteEffect(c, w)
<1>1. /\ \A d : Promise!CheckBadline(d) = CheckBadline(d)
      /\ \A d : Promise!UpdateBa(d) = UpdateBa(d)
      /\ \A d : Promise!IrqLine(d) = IrqLine(d)
  BY PromisedBaIsSame
<1>2. Promise!WriteControl(c, w.value) = WriteControl(c, w.value)
  BY <1>1 DEF Promise!WriteControl, WriteControl
<1>3. Promise!WriteCompare(c, w.value) = WriteCompare(c, w.value)
  BY DEF Promise!WriteCompare, WriteCompare
<1> QED
  BY <1>1, <1>2, <1>3 DEF Promise!WriteEffect, WriteEffect

\* Nobody who looks at the VIC can tell that it is scheduled: not the CPU that
\* loses cycles to it or takes its interrupt, not the player that waits for the
\* end of a frame, not the program that reads and writes its registers.
THEOREM ScheduledVicIsExact == Spec => EveryCycle
<1>1. Init => Promise!Init
  BY DEF Init, Promise!Init, Sample, Promise!Sample
<1>2. ScheduleInvariant /\ [Next]_vars => [Promise!Next]_(Promise!vars)
  <2>1. ASSUME ScheduleInvariant, Next
        PROVE  Promise!Next
    <3> DEFINE now == TickChip(present)
    <3>1. /\ sampled' = Sample(now)
          /\ \/ present' = now
             \/ \E w \in Writes : present' = WriteEffect(now, w)
      BY <2>1, StepIsACycle
    <3>2. Promise!TickChip(present) = now /\ Promise!Sample(now) = Sample(now)
      BY PromisedTickIsSame DEF Promise!Sample, Sample
    <3>3. \A w \in Writes : Promise!WriteEffect(now, w) = WriteEffect(now, w)
      BY PromisedWriteIsSame
    <3> HIDE DEF now
    <3>4. CASE present' = now
      <4>1. Promise!Cycle
        BY <3>1, <3>2, <3>4 DEF Promise!Cycle, Promise!Clock
      <4> QED
        BY <4>1 DEF Promise!Next
    <3>5. ASSUME NEW w \in Writes, present' = WriteEffect(now, w)
          PROVE  Promise!Next
      <4>1. Promise!WriteCycle(w)
        BY <3>1, <3>2, <3>3, <3>5 DEF Promise!WriteCycle, Promise!Clock
      <4> QED
        BY <4>1 DEF Promise!Next
    <3> QED
      BY <3>1, <3>4, <3>5
  <2>2. UNCHANGED vars => UNCHANGED Promise!vars
    BY DEF vars, Promise!vars
  <2> QED
    BY <2>1, <2>2
<1> QED
  BY <1>1, <1>2, InvariantHolds, PTL DEF Spec, EveryCycle, Promise!Spec
=============================================================================
