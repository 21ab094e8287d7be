------------------------------ MODULE AsidProofs ------------------------------
(* The ASID messages of a frame carry what was written in it, for every tune,  *)
(* any number of chips and any size of the FM/OPL buffer.                      *)
(*                                                                             *)
(* The invariant (FoldedInv) says what the snapshot of a chip stands for: a    *)
(* register that is not modified for nothing, a control register with its      *)
(* shadow for two values. What remains is that the receiver, which only has    *)
(* a mask and a row of bytes, finds each byte at its place (InOrderIs).        *)
EXTENDS AsidBackend, FiniteSetTheorems, WellFoundedInduction, TLAPS

----------------------------------------------------------------------------
(* Loops over the bits of the mask.                                            *)

Below == {p \in Nat \X Nat : p[1] < p[2]}

\* What holds at 0 and passes from each number to the next holds up to n
LEMMA IntervalInduction ==
  ASSUME NEW n \in Nat, NEW S, 0 \in S,
         \A k \in 0..n - 1 : k \in S => k + 1 \in S
  PROVE  \A k \in 0..n : k \in S
<1> DEFINE Bad == {k \in 0..n : k \notin S}
<1>1. IsWellFoundedOn(Below, Nat)
  BY NatLessThanWellFounded DEF OpToRel, Below
<1> SUFFICES ASSUME Bad # {} PROVE FALSE
  OBVIOUS
<1>2. PICK k \in Bad : \A j \in Bad : ~(<<j, k>> \in Below)
  <2>1. Bad \subseteq Nat
    OBVIOUS
  <2> HIDE DEF Bad
  <2> QED
    BY <1>1, <2>1, WFMin
<1>3. k # 0 /\ k \in 0..n /\ k \notin S
  OBVIOUS
<1>4. k - 1 \in 0..n - 1 /\ k - 1 + 1 = k /\ k - 1 \in 0..n
  BY <1>3
<1>5. k - 1 \in Bad
  BY <1>3, <1>4
<1>6. <<k - 1, k>> \in Below
  BY <1>3, <1>4 DEF Below
<1> QED
  BY <1>2, <1>5, <1>6

LEMMA LastBitIs == LastBit \in Nat /\ LastBit > 0
BY DEF LastBit

\* The loop of InOrder up to bit k
IsCollected(f, bits, value, k) ==
  f = [i \in 0..k |-> IF i = 0 THEN <<>>
                      ELSE IF i \in bits THEN Append(f[i - 1], value[i]) ELSE f[i - 1]]

LEMMA CollectedExists ==
  ASSUME NEW bits, NEW value
  PROVE  \E f : /\ f[0] = <<>>
                /\ \A i \in 0..LastBit - 1 : f[i + 1] = IF i + 1 \in bits THEN Append(f[i], value[i + 1])
                                               ELSE f[i]
                /\ InOrder(bits, value) = f[LastBit]
<1>0. LastBit \in Nat /\ LastBit > 0
  BY LastBitIs
<1> DEFINE S == {k \in 0..LastBit : \E f : IsCollected(f, bits, value, k)}
<1>1. 0 \in S
  <2>1. IsCollected([i \in 0..0 |-> <<>>], bits, value, 0)
    BY DEF IsCollected
  <2> QED
    BY <2>1
<1>2. ASSUME NEW k \in 0..LastBit - 1, k \in S
      PROVE  k + 1 \in S
  <2>1. PICK f : IsCollected(f, bits, value, k)
    BY <1>2
  <2> DEFINE Turn(h, i) == IF i = 0 THEN <<>>
                           ELSE IF i \in bits THEN Append(h[i - 1], value[i]) ELSE h[i - 1]
             g == [i \in 0..k + 1 |-> IF i = k + 1 THEN Turn(f, k + 1) ELSE f[i]]
  <2>2. \A i \in 0..k : f[i] = Turn(f, i)
    <3> HIDE DEF g
    <3> QED
      BY <2>1 DEF IsCollected
  <2>3. ASSUME NEW i \in 0..k + 1
        PROVE  g[i] = Turn(g, i)
    <3>1. i # 0 => i - 1 \in 0..k /\ i - 1 \in 0..k + 1 /\ i - 1 # k + 1
      OBVIOUS
    <3>2. i # 0 => g[i - 1] = f[i - 1]
      BY <3>1
    <3>3. g[i] = Turn(f, i)
      <4>1. CASE i = k + 1
        BY <4>1
      <4>2. CASE i # k + 1
        <5>1. i \in 0..k /\ g[i] = f[i]
          BY <4>2
        <5> HIDE DEF g
        <5> QED
          BY <2>2, <5>1
      <4> QED
        BY <4>1, <4>2
    <3> HIDE DEF g
    <3> QED
      BY <3>2, <3>3
  <2>4. IsCollected(g, bits, value, k + 1)
    <3>1. g = [i \in 0..k + 1 |-> g[i]]
      OBVIOUS
    <3> HIDE DEF g
    <3> QED
      BY <2>3, <3>1 DEF IsCollected
  <2>5. k + 1 \in 0..LastBit
    BY <1>0
  <2> HIDE DEF g
  <2> QED
    BY <2>4, <2>5
<1>3. \E f : IsCollected(f, bits, value, LastBit)
  <2>1. \A k \in 0..LastBit : k \in S
    <3>1. \A k \in 0..LastBit - 1 : k \in S => k + 1 \in S
      BY <1>2
    <3> HIDE DEF S
    <3> QED
      BY <1>0, <1>1, <3>1, IntervalInduction
  <2> QED
    BY <1>0, <2>1
<1> DEFINE F == CHOOSE f : IsCollected(f, bits, value, LastBit)
<1>4. IsCollected(F, bits, value, LastBit)
  BY <1>3
<1>5. InOrder(bits, value) = F[LastBit]
  BY DEF InOrder, IsCollected
<1> HIDE DEF F
<1>6. \A i \in 0..LastBit : F[i] = IF i = 0 THEN <<>>
                              ELSE IF i \in bits THEN Append(F[i - 1], value[i]) ELSE F[i - 1]
  BY <1>4 DEF IsCollected
<1>7. \A i \in 0..LastBit - 1 : F[i + 1] = IF i + 1 \in bits THEN Append(F[i], value[i + 1]) ELSE F[i]
  <2>1. \A i \in 0..LastBit - 1 : i + 1 \in 0..LastBit /\ i + 1 # 0 /\ i + 1 - 1 = i
    BY <1>0
  <2> QED
    BY <1>6, <2>1
<1>8. F[0] = <<>>
  BY <1>0, <1>6
<1> QED
  BY <1>5, <1>7, <1>8

\* The bits up to one of them: their number is its place in the row
UpTo(bits, i) == {j \in bits : j <= i}

LEMMA UpToGrows ==
  ASSUME NEW bits \in SUBSET Bits, NEW i \in 0..LastBit - 1
  PROVE  /\ IsFiniteSet(UpTo(bits, i)) /\ Cardinality(UpTo(bits, i)) \in Nat
         /\ i + 1 \in bits =>
               Cardinality(UpTo(bits, i + 1)) = Cardinality(UpTo(bits, i)) + 1
         /\ i + 1 \notin bits => UpTo(bits, i + 1) = UpTo(bits, i)
<1>1. IsFiniteSet(Bits) /\ \A j \in bits : j \in Int
  BY LastBitIs, FS_Interval DEF Bits
<1>2. UpTo(bits, i) \subseteq Bits
  BY DEF UpTo
<1>3. IsFiniteSet(UpTo(bits, i)) /\ Cardinality(UpTo(bits, i)) \in Nat
  BY <1>1, <1>2, FS_Subset, FS_CardinalityType
<1>4. i + 1 \notin UpTo(bits, i)
  BY LastBitIs DEF UpTo
<1> DEFINE next == i + 1
<1>0. \A j \in bits : j <= next <=> (j <= i \/ j = next)
  BY <1>1, LastBitIs
<1> HIDE DEF next
<1>5. ASSUME i + 1 \in bits
      PROVE  UpTo(bits, i + 1) = UpTo(bits, i) \cup {i + 1}
  BY <1>0, <1>5 DEF UpTo, next
<1>6. ASSUME i + 1 \notin bits
      PROVE  UpTo(bits, i + 1) = UpTo(bits, i)
  BY <1>0, <1>6 DEF UpTo, next
<1>7. Cardinality(UpTo(bits, i) \cup {i + 1}) = Cardinality(UpTo(bits, i)) + 1
  BY <1>3, <1>4, FS_AddElement
<1> QED
  BY <1>3, <1>5, <1>6, <1>7

\* Each bit has a value of a set
ValuesIn(bits, value, V) == bits \subseteq Bits /\ \A i \in bits : value[i] \in V

\* Each set bit finds its value in the row at the number of bits up to it
LEMMA InOrderIs ==
  ASSUME NEW bits, NEW value, NEW V, ValuesIn(bits, value, V)
  PROVE  /\ InOrder(bits, value) \in Seq(V)
         /\ Len(InOrder(bits, value)) = Cardinality(bits)
         /\ \A i \in bits : /\ Cardinality(UpTo(bits, i)) \in 1..Cardinality(bits)
                            /\ InOrder(bits, value)[Cardinality(UpTo(bits, i))] = value[i]
<1>1. PICK f : /\ f[0] = <<>>
               /\ \A i \in 0..LastBit - 1 : f[i + 1] = IF i + 1 \in bits THEN Append(f[i], value[i + 1])
                                              ELSE f[i]
               /\ InOrder(bits, value) = f[LastBit]
  BY CollectedExists
<1>0. bits \in SUBSET Bits /\ \A i \in bits : value[i] \in V
  BY DEF ValuesIn
<1> DEFINE Place(j) == Cardinality(UpTo(bits, j))
           S == {i \in 0..LastBit : /\ f[i] \in Seq(V) /\ Len(f[i]) = Place(i)
                               /\ \A j \in bits : j <= i => /\ Place(j) \in 1..Place(i)
                                                            /\ f[i][Place(j)] = value[j]}
<1>2. 0 \in S
  <2>0. \A j \in bits : ~(j <= 0)
    BY <1>0, LastBitIs DEF Bits
  <2>1. UpTo(bits, 0) = {}
    BY <2>0 DEF UpTo
  <2>2. Place(0) = 0
    BY <2>1, FS_EmptySet
  <2>3. f[0] \in Seq(V) /\ Len(f[0]) = Place(0)
    <3> HIDE DEF Place
    <3> QED
      BY <1>1, <2>2
  <2>4. 0 \in 0..LastBit
    BY LastBitIs
  <2> HIDE DEF Place
  <2> QED
    BY <2>0, <2>3, <2>4
<1>3. ASSUME NEW i \in 0..LastBit - 1, i \in S
      PROVE  i + 1 \in S
  <2>1. /\ f[i] \in Seq(V) /\ Len(f[i]) = Place(i)
        /\ \A j \in bits : j <= i => Place(j) \in 1..Place(i) /\ f[i][Place(j)] = value[j]
    BY <1>3
  <2>2. f[i + 1] = IF i + 1 \in bits THEN Append(f[i], value[i + 1]) ELSE f[i]
    BY <1>1
  <2>3. /\ Place(i) \in Nat
        /\ i + 1 \in bits => Place(i + 1) = Place(i) + 1
        /\ i + 1 \notin bits => Place(i + 1) = Place(i)
    BY <1>0, UpToGrows
  <2>4. i + 1 \in 0..LastBit
    BY LastBitIs
  <2>5. \A j \in bits : j <= i + 1 => j <= i \/ j = i + 1
    BY <1>0, LastBitIs DEF Bits
  <2> HIDE DEF Place
  <2>6. CASE i + 1 \in bits
    <3>1. value[i + 1] \in V /\ f[i + 1] = Append(f[i], value[i + 1])
      BY <1>0, <2>2, <2>6
    <3>2. /\ f[i + 1] \in Seq(V) /\ Len(f[i + 1]) = Place(i + 1)
          /\ f[i + 1][Place(i) + 1] = value[i + 1]
          /\ \A k \in 1..Place(i) : f[i + 1][k] = f[i][k]
      BY <2>1, <2>3, <2>6, <3>1
    <3>3. ASSUME NEW j \in bits, j <= i + 1
          PROVE  Place(j) \in 1..Place(i + 1) /\ f[i + 1][Place(j)] = value[j]
      <4>1. CASE j <= i
        BY <2>1, <2>3, <2>6, <3>2, <4>1
      <4>2. CASE j = i + 1
        BY <2>3, <2>6, <3>2, <4>2
      <4> QED
        BY <2>5, <3>3, <4>1, <4>2
    <3> QED
      BY <2>4, <3>2, <3>3
  <2>7. CASE i + 1 \notin bits
    <3>1. f[i + 1] = f[i] /\ Place(i + 1) = Place(i)
      BY <2>2, <2>3, <2>7
    <3>2. \A j \in bits : j <= i + 1 => j <= i
      BY <2>5, <2>7
    <3> QED
      BY <2>1, <2>4, <3>1, <3>2
  <2> QED
    BY <2>6, <2>7
<1>4. LastBit \in S
  <2>1. \A k \in 0..LastBit - 1 : k \in S => k + 1 \in S
    BY <1>3
  <2>2. \A k \in 0..LastBit : k \in S
    <3> HIDE DEF S
    <3> QED
      BY <1>2, <2>1, LastBitIs, IntervalInduction
  <2> QED
    BY <2>2, LastBitIs
<1>5. \A j \in bits : j <= LastBit
  BY <1>0, LastBitIs DEF Bits
<1>6. UpTo(bits, LastBit) = bits
  BY <1>5 DEF UpTo
<1> QED
  BY <1>1, <1>4, <1>5, <1>6

----------------------------------------------------------------------------
(* The registers and their bits.                                               *)

BitOf(r) ==
  CASE r \in 0..3 -> r + 1 [] r \in 5..10 -> r [] r \in 12..17 -> r - 1
    [] r \in 19..24 -> r - 2 [] r = 4 -> 23 [] r = 11 -> 24 [] r = 18 -> 25
    [] r \in 25..27 -> r + 1

\* Every register up to the last shadow has one bit, and a control register the
\* bit ahead of its shadow's
LEMMA RegmapIs ==
  /\ \A r \in 0..27 : BitOf(r) \in Bits /\ Regmap[BitOf(r)] = r
  /\ \A i \in Bits : Regmap[i] \in 0..27 /\ BitOf(Regmap[i]) = i
  /\ \A r \in Control : Shadow(r) \in 25..27 /\ BitOf(r) < BitOf(Shadow(r))
<1>1. /\ Regmap[1] = 0 /\ Regmap[2] = 1 /\ Regmap[3] = 2 /\ Regmap[4] = 3 /\ Regmap[5] = 5
      /\ Regmap[6] = 6 /\ Regmap[7] = 7 /\ Regmap[8] = 8 /\ Regmap[9] = 9 /\ Regmap[10] = 10
      /\ Regmap[11] = 12 /\ Regmap[12] = 13 /\ Regmap[13] = 14 /\ Regmap[14] = 15
      /\ Regmap[15] = 16 /\ Regmap[16] = 17 /\ Regmap[17] = 19 /\ Regmap[18] = 20
      /\ Regmap[19] = 21 /\ Regmap[20] = 22 /\ Regmap[21] = 23 /\ Regmap[22] = 24
      /\ Regmap[23] = 4 /\ Regmap[24] = 11 /\ Regmap[25] = 18
      /\ Regmap[26] = 25 /\ Regmap[27] = 26 /\ Regmap[28] = 27
  BY DEF Regmap
<1>2. ASSUME NEW r \in 0..27
      PROVE  BitOf(r) \in 1..28 /\ Regmap[BitOf(r)] = r
  <2>1. r \in 0..3 \/ r = 4 \/ r \in 5..10 \/ r = 11 \/ r \in 12..17 \/ r = 18
        \/ r \in 19..24 \/ r \in 25..27
    OBVIOUS
  <2>2. CASE r \in 0..3
    BY <1>1, <2>2 DEF BitOf
  <2>3. CASE r \in 5..10
    BY <1>1, <2>3 DEF BitOf
  <2>4. CASE r \in 12..17
    BY <1>1, <2>4 DEF BitOf
  <2>5. CASE r \in 19..24
    BY <1>1, <2>5 DEF BitOf
  <2>6. CASE r \in 25..27
    BY <1>1, <2>6 DEF BitOf
  <2>7. CASE r = 4 \/ r = 11 \/ r = 18
    BY <1>1, <2>7 DEF BitOf
  <2> QED
    BY <2>1, <2>2, <2>3, <2>4, <2>5, <2>6, <2>7
<1>3. ASSUME NEW i \in 1..28
      PROVE  Regmap[i] \in 0..27 /\ BitOf(Regmap[i]) = i
  <2>1. i \in 1..4 \/ i \in 5..10 \/ i \in 11..16 \/ i \in 17..22 \/ i \in 23..25 \/ i \in 26..28
    OBVIOUS
  <2>2. CASE i \in 1..4
    BY <1>1, <2>2 DEF BitOf
  <2>3. CASE i \in 5..10
    BY <1>1, <2>3 DEF BitOf
  <2>4. CASE i \in 11..16
    BY <1>1, <2>4 DEF BitOf
  <2>5. CASE i \in 17..22
    BY <1>1, <2>5 DEF BitOf
  <2>6. CASE i \in 23..25
    BY <1>1, <2>6 DEF BitOf
  <2>7. CASE i \in 26..28
    BY <1>1, <2>7 DEF BitOf
  <2> QED
    BY <2>1, <2>2, <2>3, <2>4, <2>5, <2>6, <2>7
<1>4. ASSUME NEW r \in Control
      PROVE  Shadow(r) \in 25..27 /\ BitOf(r) < BitOf(Shadow(r))
  BY DEF Control, Shadow, BitOf
<1> QED
  BY <1>2, <1>3, <1>4 DEF Bits, LastBit

\* Seven bits and the mask's bit make the byte again
LEMMA ByteIs ==
  ASSUME NEW b \in Byte
  PROVE  b % 128 \in 0..127 /\ (b % 128) + (IF High(b) THEN 128 ELSE 0) = b
BY DEF Byte, High

----------------------------------------------------------------------------
(* What the receiver hears of one message.                                     *)

\* What a snapshot stands for: the values of a register the tune has written
FoldedIn(values, written, r) ==
  IF r \notin written THEN <<>>
  ELSE IF r \in Control /\ Shadow(r) \in written
       THEN <<values[r], values[Shadow(r)]>>
       ELSE <<values[r]>>

Folded(c, r) == FoldedIn(register[c], modified[c], r)

\* The bits of one register in the mask of a snapshot
Heard(c, r) == {i \in {j \in Bits : Regmap[j] \in modified[c]} : Carries(i, r)}

LEMMA HeardIs ==
  ASSUME NEW c \in Chips, NEW r \in Audible,
         r \in Control /\ Shadow(r) \in modified[c] => r \in modified[c]
  PROVE  /\ r \notin modified[c] => Heard(c, r) = {}
         /\ r \in modified[c] /\ ~(r \in Control /\ Shadow(r) \in modified[c]) =>
               Heard(c, r) = {BitOf(r)}
         /\ r \in modified[c] /\ r \in Control /\ Shadow(r) \in modified[c] =>
               Heard(c, r) = {BitOf(r), BitOf(Shadow(r))}
<1>1. r \in 0..27
  BY DEF Audible
<1>2. /\ BitOf(r) \in Bits /\ Regmap[BitOf(r)] = r
      /\ \A i \in Bits : BitOf(Regmap[i]) = i
  BY <1>1, RegmapIs
<1>3. r \in Control => /\ BitOf(Shadow(r)) \in Bits
                       /\ Regmap[BitOf(Shadow(r))] = Shadow(r)
  <2>1. r \in Control => Shadow(r) \in 0..27
    BY RegmapIs
  <2> QED
    BY <2>1, RegmapIs
<1>4. \A i \in Bits : Regmap[i] = r <=> i = BitOf(r)
  BY <1>2
<1>5. r \in Control => \A i \in Bits : Regmap[i] = Shadow(r) <=> i = BitOf(Shadow(r))
  BY <1>2, <1>3
<1>6. Heard(c, r) = {i \in Bits : /\ Regmap[i] \in modified[c]
                                  /\ Regmap[i] = r \/ (r \in Control /\ Regmap[i] = Shadow(r))}
  BY DEF Heard, Carries
<1>7. Heard(c, r) = {i \in Bits : \/ r \in modified[c] /\ i = BitOf(r)
                                  \/ /\ r \in Control /\ Shadow(r) \in modified[c]
                                     /\ i = BitOf(Shadow(r))}
  BY <1>2, <1>3, <1>4, <1>5, <1>6
<1> QED
  BY <1>2, <1>3, <1>7

\* The byte at each bit of the mask
LEMMA BytesArrive ==
  ASSUME NEW c \in Chips, register[c] \in [Registers -> Byte],
         NEW i \in Snapshot(c).mask
  PROVE  LET m == Snapshot(c)
         IN  /\ m.data[Cardinality({j \in m.mask : j <= i})] + (IF i \in m.msb THEN 128 ELSE 0)
                = register[c][Regmap[i]]
             /\ register[c][Regmap[i]] \in Byte
<1> DEFINE m == Snapshot(c)
           mask == {j \in Bits : Regmap[j] \in modified[c]}
           sent == [j \in Bits |-> register[c][Regmap[j]] % 128]
           value == register[c][Regmap[i]]
           data == InOrder(mask, sent)
           place == Cardinality(UpTo(mask, i))
<1>1. m.mask = mask /\ m.data = data /\ (i \in m.msb <=> i \in Bits /\ High(value))
  BY DEF Snapshot
<1>2. i \in mask /\ mask \in SUBSET Bits
  BY DEF Snapshot
<1>3. \A j \in Bits : register[c][Regmap[j]] \in Byte
  <2>1. \A j \in Bits : Regmap[j] \in Registers
    <3>1. \A n \in 0..27 : n \in Registers
      BY DEF Registers
    <3> QED
      BY <3>1, RegmapIs
  <2> QED
    BY <2>1
<1>4. \A j \in Bits : register[c][Regmap[j]] % 128 \in 0..127
  BY <1>3, ByteIs
<1>5. \A j \in mask : sent[j] \in 0..127
  BY <1>2, <1>4
<1>6. value \in Byte /\ (value % 128) + (IF High(value) THEN 128 ELSE 0) = value
  BY <1>2, <1>3, ByteIs
<1>7. sent[i] = value % 128
  BY <1>2
<1> HIDE DEF mask, sent, value, m
<1>8. data[place] = sent[i]
  <2>1. ValuesIn(mask, sent, 0..127)
    BY <1>2, <1>5 DEF ValuesIn
  <2>2. \A j \in mask : InOrder(mask, sent)[Cardinality(UpTo(mask, j))] = sent[j]
    BY <2>1, InOrderIs
  <2> QED
    BY <1>2, <2>2
<1>9. {j \in m.mask : j <= i} = UpTo(mask, i)
  BY <1>1 DEF UpTo
<1>10. m.data[Cardinality({j \in m.mask : j <= i})] = value % 128
  BY <1>1, <1>7, <1>8, <1>9
<1>11. i \in m.msb <=> High(value)
  BY <1>1, <1>2
<1>12. /\ m.data[Cardinality({j \in m.mask : j <= i})] + (IF i \in m.msb THEN 128 ELSE 0) = value
       /\ value \in Byte
  BY <1>6, <1>10, <1>11
<1> QED
  BY <1>12 DEF m, value

\* One message brings a register's values, in the order they were written
LEMMA MessageIsHeard ==
  ASSUME NEW c \in Chips, NEW r \in Audible, register[c] \in [Registers -> Byte],
         r \in Control /\ Shadow(r) \in modified[c] => r \in modified[c]
  PROVE  Received(Snapshot(c), r) = Folded(c, r)
<1> DEFINE m == Snapshot(c)
           arrived == [i \in m.mask |-> m.data[Cardinality({j \in m.mask : j <= i})]
                                        + (IF i \in m.msb THEN 128 ELSE 0)]
           heard == Heard(c, r)
           said == InOrder(heard, arrived)
<1>1. Received(m, r) = said
  BY DEF Received, Heard, Snapshot
<1>2. heard \in SUBSET m.mask /\ heard \in SUBSET Bits
  BY DEF Heard, Snapshot
<1>3. \A i \in heard : arrived[i] = register[c][Regmap[i]] /\ arrived[i] \in Byte
  BY <1>2, BytesArrive
<1> HIDE DEF arrived, heard
<1>4. /\ said \in Seq(Byte) /\ Len(said) = Cardinality(heard)
      /\ \A i \in heard : said[Cardinality(UpTo(heard, i))] = arrived[i]
  <2>1. ValuesIn(heard, arrived, Byte)
    BY <1>2, <1>3 DEF ValuesIn
  <2> HIDE DEF said
  <2>2. /\ InOrder(heard, arrived) \in Seq(Byte)
        /\ Len(InOrder(heard, arrived)) = Cardinality(heard)
        /\ \A i \in heard : InOrder(heard, arrived)[Cardinality(UpTo(heard, i))] = arrived[i]
    BY <2>1, InOrderIs
  <2> QED
    BY <2>2 DEF said
<1> HIDE DEF said
<1>5. r \in 0..27
  BY DEF Audible
<1>6. CASE r \notin modified[c]
  <2>1. heard = {}
    BY <1>6, HeardIs DEF heard
  <2>2. Len(said) = 0
    BY <1>4, <2>1, FS_EmptySet
  <2>3. said = <<>>
    BY <1>4, <2>2
  <2> QED
    BY <1>1, <1>6, <2>3 DEF Folded, FoldedIn
<1>7. CASE r \in modified[c] /\ ~(r \in Control /\ Shadow(r) \in modified[c])
  <2> DEFINE p == BitOf(r)
  <2>1. heard = {p} /\ Regmap[p] = r /\ p \in Bits
    BY <1>5, <1>7, HeardIs, RegmapIs DEF heard
  <2> HIDE DEF p
  <2>2. p <= p
    BY <2>1, LastBitIs DEF Bits
  <2>3. UpTo(heard, p) = {p}
    BY <2>1, <2>2 DEF UpTo
  <2>4. Cardinality({p}) = 1
    BY FS_Singleton
  <2>5. Len(said) = 1 /\ said[1] = register[c][r]
    BY <1>3, <1>4, <2>1, <2>3, <2>4
  <2>6. said = <<register[c][r]>>
    BY <1>4, <2>5
  <2> QED
    BY <1>1, <1>7, <2>6 DEF Folded, FoldedIn
<1>8. CASE r \in modified[c] /\ r \in Control /\ Shadow(r) \in modified[c]
  <2> DEFINE p == BitOf(r)
             s == BitOf(Shadow(r))
  <2>1. heard = {p, s} /\ Regmap[p] = r /\ p \in Bits
    BY <1>5, <1>8, HeardIs, RegmapIs DEF heard
  <2>2. s \in Bits /\ Regmap[s] = Shadow(r) /\ p < s
    <3>1. Shadow(r) \in 0..27 /\ BitOf(r) < BitOf(Shadow(r))
      BY <1>8, RegmapIs
    <3> QED
      BY <3>1, RegmapIs
  <2> HIDE DEF p, s
  <2>3. p <= p /\ p <= s /\ s <= s /\ ~(s <= p) /\ p # s
    BY <2>1, <2>2, LastBitIs DEF Bits
  <2>4. UpTo(heard, p) = {p} /\ UpTo(heard, s) = {p, s}
    BY <2>1, <2>3 DEF UpTo
  <2>5. Cardinality({p}) = 1 /\ Cardinality({p, s}) = 2
    <3>1. IsFiniteSet({p}) /\ Cardinality({p}) = 1 /\ s \notin {p}
      BY <2>3, FS_Singleton
    <3>2. {p, s} = {p} \cup {s}
      OBVIOUS
    <3>3. Cardinality({p} \cup {s}) = 1 + 1
      BY <3>1, FS_AddElement
    <3> QED
      BY <3>1, <3>2, <3>3
  <2>6. Len(said) = 2 /\ said[1] = register[c][r] /\ said[2] = register[c][Shadow(r)]
    BY <1>3, <1>4, <2>1, <2>2, <2>4, <2>5
  <2>7. said = <<register[c][r], register[c][Shadow(r)]>>
    BY <1>4, <2>6
  <2> QED
    BY <1>1, <1>8, <2>7 DEF Folded, FoldedIn
<1> QED
  BY <1>6, <1>7, <1>8

\* The FM/OPL message brings its bytes back
LEMMA FmMessageIsHeard ==
  ASSUME NEW pairs \in Seq(Byte)
  PROVE  ReceivedFm(FmMessage(pairs)) = pairs
<1> DEFINE m == FmMessage(pairs)
           said == ReceivedFm(m)
<1>1. m.data = [i \in DOMAIN pairs |-> pairs[i] % 128] /\ m.high = {i \in DOMAIN pairs : High(pairs[i])}
  BY DEF FmMessage
<1> HIDE DEF m
<1>2. said = [i \in DOMAIN pairs |-> m.data[i] + (IF i \in m.high THEN 128 ELSE 0)]
  BY <1>1 DEF ReceivedFm
<1>3. ASSUME NEW i \in DOMAIN pairs
      PROVE  m.data[i] + (IF i \in m.high THEN 128 ELSE 0) = pairs[i]
  <2>1. pairs[i] \in Byte
    OBVIOUS
  <2>2. m.data[i] = pairs[i] % 128 /\ (i \in m.high <=> High(pairs[i]))
    BY <1>1
  <2> QED
    BY <2>1, <2>2, ByteIs
<1>4. said = [i \in DOMAIN pairs |-> pairs[i]]
  <2> HIDE DEF said
  <2> QED
    BY <1>2, <1>3
<1>5. pairs = [i \in DOMAIN pairs |-> pairs[i]]
  OBVIOUS
<1> QED
  BY <1>4, <1>5 DEF m

\* A buffer that holds what the tune meant leaves nothing to hear
LEMMA AllIsHeard ==
  ASSUME NEW pairs \in Seq(Byte)
  PROVE  StillUnheard(pairs, pairs) = <<>>
BY FmMessageIsHeard DEF StillUnheard

----------------------------------------------------------------------------
(* The invariant.                                                              *)

\* A shadow is written after its control register
ShadowsFollow(written) == \A q \in Control : Shadow(q) \in written => q \in written

\* Where asid_dump() puts a value in the frame: a register that is new or has
\* one value a frame, or a shadow that is free
SlotFor(written, r, slot) ==
  \/ slot = r /\ r \notin written
  \/ slot = r /\ r \notin Control \cup Filter
  \/ slot = Shadow(r) /\ r \in Control /\ r \in written /\ slot \notin written

FoldedInv ==
  /\ TypeOK
  /\ \A c \in Chips : ShadowsFollow(modified[c])
  /\ \A c \in Chips : \A r \in Audible : unheard[c][r] = Folded(c, r)
  /\ unheardFm = fm /\ index = fmAddr

LEMMA ShadowsAre ==
  /\ Control \subseteq Audible
  /\ \A r \in Control : Shadow(r) \in 25..27
  /\ \A q, r \in Control : Shadow(q) = Shadow(r) => q = r
  /\ \A r \in Audible : r \in 0..27 /\ r \notin 25..27 /\ r \in Registers
  /\ \A r \in 25..27 : r \in 0..27 /\ r \in Registers
<1>1. Control \subseteq Audible
  BY DEF Control, Audible
<1>2. \A r \in Control : Shadow(r) \in 25..27
  BY DEF Control, Shadow
<1>3. \A q, r \in Control : Shadow(q) = Shadow(r) => q = r
  BY DEF Control, Shadow
<1>4. \A r \in Audible : r \in 0..27 /\ r \notin 25..27 /\ r \in Registers
  BY DEF Audible, Registers
<1>5. \A r \in 25..27 : r \in 0..27 /\ r \in Registers
  BY DEF Registers
<1> QED
  BY <1>1, <1>2, <1>3, <1>4, <1>5

\* Between two frames nothing is folded
LEMMA NothingIsFolded ==
  ASSUME NEW values, NEW r
  PROVE  FoldedIn(values, {}, r) = <<>>
BY DEF FoldedIn

LEMMA SilenceIsTyped ==
  /\ Silent \in [Chips -> [Audible -> Seq(Byte)]] /\ Nothing \in [Chips -> SUBSET (0..27)]
  /\ \A c \in Chips : Nothing[c] = {} /\ \A r \in Audible : Silent[c][r] = <<>>
BY DEF Silent, Nothing

\* A second value behind the first
LEMMA PairIs ==
  ASSUME NEW S, NEW x \in S, NEW v \in S
  PROVE  Append(<<x>>, v) = <<x, v>>
<1> DEFINE one == <<x>>
           two == Append(one, v)
<1>1. one \in Seq(S)
  OBVIOUS
<1>2. Len(one) = 1 /\ one[1] = x
  OBVIOUS
<1> HIDE DEF one
<1>3. /\ two \in Seq(S) /\ Len(two) = Len(one) + 1 /\ two[Len(one) + 1] = v
      /\ \A k \in 1..Len(one) : two[k] = one[k]
  BY <1>1
<1> HIDE DEF two
<1>4. two \in Seq(S) /\ Len(two) = 2 /\ two[1] = x /\ two[2] = v
  BY <1>2, <1>3
<1>5. two = <<x, v>>
  BY <1>4
<1> QED
  BY <1>5 DEF one, two

\* One chip takes a value: the other registers keep theirs, this one has one more
Takes(values, written, r, v, now, set) ==
  /\ now \in [Registers -> Byte] /\ set \in SUBSET (0..27)
  /\ ShadowsFollow(set)
  /\ FoldedIn(now, set, r) = IF r \in Control \cup Filter
                             THEN Append(FoldedIn(values, written, r), v) ELSE <<v>>
  /\ \A q \in Audible \ {r} : FoldedIn(now, set, q) = FoldedIn(values, written, q)

LEMMA ValueIsFolded ==
  ASSUME NEW values \in [Registers -> Byte], NEW written \in SUBSET (0..27),
         ShadowsFollow(written),
         NEW r \in Audible, NEW v \in Byte, NEW slot, SlotFor(written, r, slot),
         NEW now, now = [values EXCEPT ![slot] = v],
         NEW set, set = written \cup {slot}
  PROVE  Takes(values, written, r, v, now, set)
<1>0. /\ \A q \in Control : Shadow(q) \in written => q \in written
      /\ \/ slot = r /\ r \notin written
         \/ slot = r /\ r \notin Control \cup Filter
         \/ slot = Shadow(r) /\ r \in Control /\ r \in written /\ slot \notin written
  BY DEF ShadowsFollow, SlotFor
<1>1. slot \in Registers /\ slot \in 0..27 /\ (slot = r \/ (r \in Control /\ slot = Shadow(r)))
  BY <1>0, ShadowsAre
<1>2. /\ now \in [Registers -> Byte] /\ set \in SUBSET (0..27) /\ now[slot] = v
      /\ \A q \in Registers : q # slot => now[q] = values[q]
  BY <1>1
<1>3. \A q \in Audible \ {r} : q # slot /\ q \in Registers
  BY <1>1, ShadowsAre
<1>4. \A q \in Control \ {r} : Shadow(q) # slot /\ Shadow(q) \in Registers
  BY <1>1, ShadowsAre
<1>5. r \in Control => Shadow(r) # r /\ r \in Registers /\ Shadow(r) \in Registers
  BY ShadowsAre
<1>6. ShadowsFollow(set)
  BY <1>0, <1>1, <1>4, <1>5, ShadowsAre DEF ShadowsFollow
<1>7. \A q \in Audible \ {r} : FoldedIn(now, set, q) = FoldedIn(values, written, q)
  BY <1>2, <1>3, <1>4 DEF FoldedIn
<1>8. FoldedIn(now, set, r) = IF r \in Control \cup Filter
                              THEN Append(FoldedIn(values, written, r), v) ELSE <<v>>
  <2>1. CASE slot = r
    <3>1. r \in set /\ ~(r \in Control /\ Shadow(r) \in set)
      BY <1>0, <1>5, <2>1
    <3>2. FoldedIn(now, set, r) = <<v>>
      BY <1>2, <2>1, <3>1 DEF FoldedIn
    <3>3. r \in Control \cup Filter => FoldedIn(values, written, r) = <<>>
      BY <1>0, <1>5, <2>1 DEF FoldedIn
    <3>4. Append(<<>>, v) = <<v>>
      OBVIOUS
    <3> QED
      BY <3>2, <3>3, <3>4
  <2>2. CASE slot # r
    <3>1. r \in Control /\ slot = Shadow(r) /\ r \in written /\ slot \notin written
      BY <1>0, <2>2
    <3>2. FoldedIn(now, set, r) = <<values[r], v>>
      BY <1>2, <1>5, <2>2, <3>1 DEF FoldedIn
    <3>3. FoldedIn(values, written, r) = <<values[r]>>
      BY <3>1 DEF FoldedIn
    <3>4. Append(<<values[r]>>, v) = <<values[r], v>>
      <4>1. values[r] \in Byte
        BY <1>5, <3>1
      <4> QED
        BY <4>1, PairIs
    <3> QED
      BY <3>1, <3>2, <3>3, <3>4
  <2> QED
    BY <2>1, <2>2
<1> QED
  BY <1>2, <1>6, <1>7, <1>8 DEF Takes

LEMMA KeepFolds ==
  ASSUME FoldedInv, NEW c \in Chips, NEW r \in Audible, NEW v \in Byte, NEW slot,
         SlotFor(modified[c], r, slot), Keep(c, r, slot, v), UNCHANGED port
  PROVE  FoldedInv'
<1>1. /\ register \in [Chips -> [Registers -> Byte]] /\ modified \in [Chips -> SUBSET (0..27)]
      /\ unheard \in [Chips -> [Audible -> Seq(Byte)]]
  BY DEF FoldedInv, TypeOK
<1>2. /\ \A d \in Chips : ShadowsFollow(modified[d])
      /\ \A d \in Chips : \A q \in Audible : unheard[d][q] = Folded(d, q)
  BY DEF FoldedInv
<1> DEFINE values == register[c]
           written == modified[c]
           now == [values EXCEPT ![slot] = v]
           set == written \cup {slot}
           told == IF r \in Control \cup Filter THEN Append(unheard[c][r], v) ELSE <<v>>
<1>3. values \in [Registers -> Byte] /\ written \in SUBSET (0..27)
      /\ ShadowsFollow(written) /\ SlotFor(written, r, slot)
  BY <1>1, <1>2
<1>4. /\ now \in [Registers -> Byte] /\ set \in SUBSET (0..27)
      /\ ShadowsFollow(set)
      /\ FoldedIn(now, set, r) = IF r \in Control \cup Filter
                                 THEN Append(FoldedIn(values, written, r), v) ELSE <<v>>
      /\ \A q \in Audible \ {r} : FoldedIn(now, set, q) = FoldedIn(values, written, q)
  <2>1. now = [values EXCEPT ![slot] = v] /\ set = written \cup {slot}
    OBVIOUS
  <2> HIDE DEF values, written, now, set
  <2>2. Takes(values, written, r, v, now, set)
    BY <1>3, <2>1, ValueIsFolded
  <2> QED
    BY <2>2 DEF Takes
<1>5. /\ register' = [register EXCEPT ![c] = now]
      /\ modified' = [modified EXCEPT ![c] = set]
      /\ unheard' = [unheard EXCEPT ![c] = [unheard[c] EXCEPT ![r] = told]]
      /\ UNCHANGED <<port, fmAddr, fm, index, unheardFm>>
  BY <1>1 DEF Keep, opl
<1>6. told \in Seq(Byte)
  BY <1>1
<1>7. FoldedIn(now, set, r) = told
  BY <1>2, <1>4 DEF Folded
<1>8. \A q \in Audible \ {r} : FoldedIn(now, set, q) = unheard[c][q]
  BY <1>2, <1>4 DEF Folded
<1> HIDE DEF now, set, told, values, written
<1>9. /\ register'[c] = now /\ modified'[c] = set
      /\ unheard'[c][r] = told /\ \A q \in Audible \ {r} : unheard'[c][q] = unheard[c][q]
      /\ \A d \in Chips \ {c} : /\ register'[d] = register[d] /\ modified'[d] = modified[d]
                                /\ unheard'[d] = unheard[d]
  BY <1>1, <1>5
<1>10. TypeOK'
  <2>1. /\ register' \in [Chips -> [Registers -> Byte]] /\ modified' \in [Chips -> SUBSET (0..27)]
        /\ unheard' \in [Chips -> [Audible -> Seq(Byte)]]
    BY <1>1, <1>4, <1>5, <1>6
  <2> QED
    BY <1>5, <2>1 DEF FoldedInv, TypeOK
<1>11. \A d \in Chips : ShadowsFollow(modified'[d])
  BY <1>2, <1>4, <1>9
<1>12. ASSUME NEW d \in Chips, NEW q \in Audible
       PROVE  unheard'[d][q] = FoldedIn(register'[d], modified'[d], q)
  <2>1. CASE d # c
    BY <1>2, <1>9, <2>1 DEF Folded
  <2>2. CASE d = c /\ q # r
    BY <1>8, <1>9, <2>2
  <2>3. CASE d = c /\ q = r
    BY <1>7, <1>9, <2>3
  <2> QED
    BY <2>1, <2>2, <2>3
<1>13. unheardFm' = fm' /\ index' = fmAddr'
  BY <1>5 DEF FoldedInv
<1> QED
  BY <1>10, <1>11, <1>12, <1>13 DEF FoldedInv, Folded

\* A cut frame leaves one value: the write that cut it
LEMMA CutFolds ==
  ASSUME FoldedInv, NEW c \in Chips, NEW r \in Audible, NEW v \in Byte,
         Cut(c, r, v), UNCHANGED port
  PROVE  FoldedInv'
<1>1. /\ register \in [Chips -> [Registers -> Byte]] /\ fmAddr \in Byte /\ port \in BOOLEAN
      /\ index = fmAddr /\ StillUnheard(unheardFm, fm) = <<>>
  BY AllIsHeard DEF FoldedInv, TypeOK
<1>2. r \in Registers /\ r \in 0..27
  BY ShadowsAre
<1> DEFINE now == [register[c] EXCEPT ![r] = v]
<1>3. now \in [Registers -> Byte] /\ now[r] = v
  BY <1>1, <1>2
<1>4. /\ register' = [register EXCEPT ![c] = now]
      /\ modified' = [Nothing EXCEPT ![c] = {r}]
      /\ unheard' = [Silent EXCEPT ![c] = [Silent[c] EXCEPT ![r] = <<v>>]]
      /\ fm' = <<>> /\ unheardFm' = <<>> /\ UNCHANGED <<port, fmAddr, index>>
  BY <1>1, SilenceIsTyped DEF Cut
<1> HIDE DEF now
<1>5. /\ register'[c] = now /\ modified'[c] = {r}
      /\ unheard'[c][r] = <<v>> /\ \A q \in Audible \ {r} : unheard'[c][q] = <<>>
      /\ \A d \in Chips \ {c} : modified'[d] = {} /\ \A q \in Audible : unheard'[d][q] = <<>>
  BY <1>1, <1>4, SilenceIsTyped
<1>6. TypeOK'
  <2>1. register' \in [Chips -> [Registers -> Byte]]
    BY <1>1, <1>3, <1>4
  <2>2. modified' \in [Chips -> SUBSET (0..27)]
    BY <1>2, <1>4, SilenceIsTyped
  <2>3. unheard' \in [Chips -> [Audible -> Seq(Byte)]]
    <3>1. <<v>> \in Seq(Byte)
      OBVIOUS
    <3>2. [Silent[c] EXCEPT ![r] = <<v>>] \in [Audible -> Seq(Byte)]
      BY <3>1, SilenceIsTyped
    <3> QED
      BY <1>4, <3>2, SilenceIsTyped
  <2>4. fm' \in Seq(Byte) /\ Len(fm') < 2 * MaxPairs /\ Len(fm') % 2 = 0 /\ unheardFm' \in Seq(Byte)
    BY <1>4, AsidAssumption
  <2> QED
    BY <1>1, <1>4, <2>1, <2>2, <2>3, <2>4 DEF TypeOK
<1>7. \A d \in Chips : ShadowsFollow(modified'[d])
  BY <1>5, ShadowsAre DEF ShadowsFollow
<1>8. ASSUME NEW d \in Chips, NEW q \in Audible
      PROVE  unheard'[d][q] = FoldedIn(register'[d], modified'[d], q)
  <2>1. CASE d # c
    BY <1>5, <2>1, NothingIsFolded
  <2>2. CASE d = c /\ q # r
    BY <1>5, <2>2 DEF FoldedIn
  <2>3. CASE d = c /\ q = r
    <3>1. ~(r \in Control /\ Shadow(r) \in {r})
      BY ShadowsAre
    <3> QED
      BY <1>3, <1>5, <2>3, <3>1 DEF FoldedIn
  <2> QED
    BY <2>1, <2>2, <2>3
<1> QED
  BY <1>4, <1>6, <1>7, <1>8 DEF FoldedInv, Folded

\* What is sent or dropped is no longer waited for
LEMMA ClearFolds ==
  ASSUME FoldedInv, Clear, port' \in BOOLEAN
  PROVE  FoldedInv'
<1>1. /\ register' = register /\ fmAddr' = fmAddr /\ index' = index
      /\ fm' = <<>> /\ unheardFm' = <<>> /\ modified' = Nothing /\ unheard' = Silent
  BY DEF Clear
<1>2. fm' \in Seq(Byte) /\ Len(fm') < 2 * MaxPairs /\ Len(fm') % 2 = 0 /\ unheardFm' \in Seq(Byte)
  BY <1>1, AsidAssumption
<1>3. TypeOK'
  BY <1>1, <1>2, SilenceIsTyped DEF FoldedInv, TypeOK
<1>4. ASSUME NEW d \in Chips, NEW q \in Audible
      PROVE  unheard'[d][q] = FoldedIn(register'[d], modified'[d], q)
  BY <1>1, SilenceIsTyped, NothingIsFolded
<1>5. \A d \in Chips : ShadowsFollow(modified'[d])
  BY <1>1, SilenceIsTyped DEF ShadowsFollow
<1> QED
  BY <1>1, <1>3, <1>4, <1>5 DEF FoldedInv, Folded

LEMMA WriteFolds ==
  ASSUME FoldedInv, Write
  PROVE  FoldedInv'
<1>1. PICK w \in Writes : w.chip \in Chips /\ w.reg \in Audible /\ Dump(w.chip, w.reg, w.value)
  BY DEF Write
<1> DEFINE c == w.chip
           r == w.reg
           v == w.value
<1>2. c \in Chips /\ r \in Audible /\ v \in Byte /\ Dump(c, r, v) /\ UNCHANGED port
  BY <1>1, AsidAssumption DEF Write
<1> HIDE DEF c, r, v
<1>3. CASE r \notin modified[c]
  <2>1. Keep(c, r, r, v)
    BY <1>2, <1>3 DEF Dump
  <2> QED
    BY <1>2, <1>3, <2>1, KeepFolds DEF SlotFor
<1>4. CASE r \in modified[c] /\ r \in Control /\ Shadow(r) \notin modified[c]
  <2>1. Keep(c, r, Shadow(r), v)
    BY <1>2, <1>4 DEF Dump
  <2> QED
    BY <1>2, <1>4, <2>1, KeepFolds DEF SlotFor
<1>5. CASE /\ r \in modified[c]
           /\ \/ r \in Control /\ Shadow(r) \in modified[c]
              \/ r \in Filter
  <2>1. Control \cap Filter = {}
    BY DEF Control, Filter
  <2>2. Cut(c, r, v)
    BY <1>2, <1>5, <2>1 DEF Dump
  <2> QED
    BY <1>2, <2>2, CutFolds
<1>6. CASE r \in modified[c] /\ r \notin Control \cup Filter
  <2>1. Keep(c, r, r, v)
    BY <1>2, <1>6 DEF Dump
  <2> QED
    BY <1>2, <1>6, <2>1, KeepFolds DEF SlotFor
<1> QED
  BY <1>3, <1>4, <1>5, <1>6

LEMMA WriteFmFolds ==
  ASSUME FoldedInv, WriteFm
  PROVE  FoldedInv'
<1>1. /\ fmAddr \in Byte /\ fm \in Seq(Byte) /\ Len(fm) < 2 * MaxPairs /\ Len(fm) % 2 = 0
      /\ unheardFm = fm /\ index = fmAddr /\ MaxPairs \in Nat \ {0}
  BY AsidAssumption DEF FoldedInv, TypeOK
<1>2. PICK w \in FmWrites :
         IF w.port = "index"
         THEN fmAddr' = w.value /\ index' = w.value /\ UNCHANGED <<fm, unheardFm>>
         ELSE PushFm(w.value)
  BY DEF WriteFm
<1>3. w.value \in Byte
  BY AsidAssumption
<1>4. UNCHANGED <<port, register, modified, unheard>>
  BY DEF WriteFm, sid
<1>5. /\ fmAddr' \in Byte /\ index' = fmAddr' /\ fm' \in Seq(Byte) /\ unheardFm' = fm'
      /\ Len(fm') < 2 * MaxPairs /\ Len(fm') % 2 = 0
  <2>1. CASE w.port = "index"
    BY <1>1, <1>2, <1>3, <2>1
  <2>2. CASE w.port # "index"
    <3> DEFINE pair == <<fmAddr, w.value>>
               longer == fm \o pair
    <3>1. pair \in Seq(Byte)
      BY <1>1, <1>3
    <3>2. Len(pair) = 2
      OBVIOUS
    <3>3. /\ fm' = IF Full(longer) THEN <<>> ELSE longer
          /\ unheardFm' = IF Full(longer) THEN StillUnheard(longer, longer) ELSE longer
          /\ UNCHANGED <<fmAddr, index>>
      BY <1>1, <1>2, <2>2 DEF PushFm
    <3> HIDE DEF pair
    <3>4. fm \in Seq(Byte)
      BY <1>1
    <3>5. longer \in Seq(Byte) /\ Len(longer) = Len(fm) + Len(pair)
      BY <3>1, <3>4
    <3> HIDE DEF longer
    <3>9. unheardFm' = fm'
      BY <3>3, <3>5, AllIsHeard
    <3>6. Len(longer) = Len(fm) + 2 /\ Len(fm) \in Nat /\ (Len(fm) + 2) % 2 = 0
      BY <1>1, <3>2, <3>5
    <3>7. CASE Full(longer)
      BY <1>1, <3>3, <3>7, <3>9
    <3>8. CASE ~Full(longer)
      BY <1>1, <3>3, <3>5, <3>6, <3>8, <3>9 DEF Full
    <3> QED
      BY <3>7, <3>8
  <2> QED
    BY <2>1, <2>2
<1>6. TypeOK'
  BY <1>4, <1>5 DEF FoldedInv, TypeOK
<1> QED
  BY <1>4, <1>5, <1>6 DEF FoldedInv, Folded

LEMMA AsidIsFolded == Spec => []FoldedInv
<1>1. Init => FoldedInv
  <2> SUFFICES ASSUME Init PROVE FoldedInv
    OBVIOUS
  <2>1. 0 \in Byte /\ <<>> \in Seq(Byte) /\ Len(<<>>) < 2 * MaxPairs /\ Len(<<>>) % 2 = 0
    BY AsidAssumption DEF Byte
  <2>2. TypeOK
    BY <2>1, SilenceIsTyped DEF Init, TypeOK
  <2>3. \A c \in Chips : ShadowsFollow(modified[c])
    BY SilenceIsTyped DEF Init, ShadowsFollow
  <2>4. \A c \in Chips : \A r \in Audible : unheard[c][r] = Folded(c, r)
    BY SilenceIsTyped, NothingIsFolded DEF Init, Folded
  <2> QED
    BY <2>2, <2>3, <2>4 DEF FoldedInv, Init
<1>2. FoldedInv /\ [Next]_vars => FoldedInv'
  <2> SUFFICES ASSUME FoldedInv, [Next]_vars PROVE FoldedInv'
    OBVIOUS
  <2>0. port \in BOOLEAN
    BY DEF FoldedInv, TypeOK
  <2>1. CASE Write
    BY <2>1, WriteFolds
  <2>2. CASE WriteFm
    BY <2>2, WriteFmFolds
  <2>3. CASE Flush
    <3>1. unheardFm = fm /\ fm \in Seq(Byte)
      BY DEF FoldedInv, TypeOK
    <3>2. Clear
      BY <2>3, <3>1, AllIsHeard DEF Flush, Clear
    <3> QED
      BY <2>0, <2>3, <3>2, ClearFolds DEF Flush
  <2>4. CASE Reset
    BY <2>0, <2>4, ClearFolds DEF Reset
  <2>5. ASSUME UNCHANGED <<sid, opl>>, port' \in BOOLEAN
        PROVE  FoldedInv'
    BY <2>5 DEF sid, opl, FoldedInv, TypeOK, Folded
  <2>6. CASE AsidInit
    BY <2>5, <2>6 DEF AsidInit
  <2>7. CASE AsidClose
    BY <2>5, <2>7, ClearFolds DEF AsidClose
  <2>8. CASE UNCHANGED vars
    BY <2>0, <2>5, <2>8 DEF vars, sid, opl
  <2> QED
    BY <2>1, <2>2, <2>3, <2>4, <2>6, <2>7, <2>8 DEF Next
<1> QED
  BY <1>1, <1>2, PTL DEF Spec

----------------------------------------------------------------------------
(* What follows.                                                               *)

\* The snapshots hold bytes, and the FM/OPL buffer whole pairs below its limit.
THEOREM AsidTypeOK == Spec => []TypeOK
<1>1. FoldedInv => TypeOK
  BY DEF FoldedInv
<1> QED
  BY <1>1, AsidIsFolded, PTL

\* At any moment the message that asid_flush() would send makes the receiver
\* write what the tune has written since the last one: every value of a control
\* or filter register in order, the last one of any other.
THEOREM SnapshotsAreComplete == Spec => []FrameCarriesEveryWrite
<1>1. FoldedInv => FrameCarriesEveryWrite
  <2> SUFFICES ASSUME FoldedInv, NEW c \in Chips, NEW r \in Audible
               PROVE  Received(Snapshot(c), r) = unheard[c][r]
    BY DEF FrameCarriesEveryWrite
  <2>1. /\ register[c] \in [Registers -> Byte] /\ unheard[c][r] = Folded(c, r)
        /\ r \in Control /\ Shadow(r) \in modified[c] => r \in modified[c]
    BY DEF FoldedInv, TypeOK, ShadowsFollow
  <2> QED
    BY <2>1, MessageIsHeard
<1> QED
  BY <1>1, AsidIsFolded, PTL

\* The FM/OPL pairs leave in order, once, under the index the tune selected: what
\* the messages sent so far have not delivered is exactly what is in the buffer.
THEOREM PairsAreComplete == Spec => []FmCarriesEveryPair
<1>1. FoldedInv => FmCarriesEveryPair
  <2> SUFFICES ASSUME FoldedInv PROVE ReceivedFm(FmMessage(fm)) = unheardFm
    BY DEF FmCarriesEveryPair
  <2>1. fm \in Seq(Byte) /\ unheardFm = fm
    BY DEF FoldedInv, TypeOK
  <2> QED
    BY <2>1, FmMessageIsHeard
<1> QED
  BY <1>1, AsidIsFolded, PTL
=============================================================================
