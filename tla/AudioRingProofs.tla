--------------------------- MODULE AudioRingProofs ---------------------------
(* The audio ring is a bounded queue, whatever its size, the length of a     *)
(* frame and what the device asks for. The two threads share no lock: the    *)
(* invariant says what each may rely on while the other moves its index.     *)
EXTENDS AudioRing, SequenceTheorems, TLAPS

USE RingAssumption

----------------------------------------------------------------------------
(* Arithmetic of the indices.                                               *)

\* The slot i places after slot a, and the slots from t up to h
Slot(a, i) == (a + i) % Size
Dist(h, t) == (h + Size - t) % Size

(* An index goes round once at most, as in every computation of push() and  *)
(* pop().                                                                   *)
LEMMA SlotIs ==
  ASSUME NEW a \in 0..Size - 1, NEW i \in 0..Size
  PROVE  /\ Slot(a, i) = IF a + i < Size THEN a + i ELSE a + i - Size
         /\ Slot(a, i) \in 0..Size - 1
BY SMT DEF Slot

(* Two steps of an index are one (push() and pop() advance one by one).      *)
LEMMA SlotSlot ==
  ASSUME NEW a \in 0..Size - 1, NEW i \in 0..Size - 1, NEW j \in 0..Size - 1,
         i + j <= Size
  PROVE  Slot(Slot(a, i), j) = Slot(a, i + j)
<1>1. Slot(a, i) \in 0..Size - 1 /\ i + j \in 0..Size
  BY SlotIs, SMT
<1>2. /\ Slot(a, i) = IF a + i < Size THEN a + i ELSE a + i - Size
      /\ Slot(Slot(a, i), j) = IF Slot(a, i) + j < Size THEN Slot(a, i) + j
                                                       ELSE Slot(a, i) + j - Size
      /\ Slot(a, i + j) = IF a + (i + j) < Size THEN a + (i + j) ELSE a + (i + j) - Size
  BY <1>1, SlotIs, SMT
<1> QED BY <1>1, <1>2, SMT

(* Less than a round apart, different distances are different slots.         *)
LEMMA SlotDiffers ==
  ASSUME NEW a \in 0..Size - 1, NEW i \in 0..Size - 1, NEW j \in 0..Size - 1,
         Slot(a, i) = Slot(a, j)
  PROVE  i = j
<1>1. i \in 0..Size /\ j \in 0..Size
  BY SMT
<1>2. /\ Slot(a, i) = IF a + i < Size THEN a + i ELSE a + i - Size
      /\ Slot(a, j) = IF a + j < Size THEN a + j ELSE a + j - Size
  BY <1>1, SlotIs
<1>3. (IF a + i < Size THEN a + i ELSE a + i - Size)
        = (IF a + j < Size THEN a + j ELSE a + j - Size)
  BY <1>2
<1> QED BY <1>3, SMT

(* queued() and space() from the distance between the indices.              *)
LEMMA DistIs ==
  ASSUME NEW h \in 0..Size - 1, NEW t \in 0..Size - 1
  PROVE  /\ Dist(h, t) \in 0..Size - 1
         /\ h = Slot(t, Dist(h, t))
         /\ (t + Size - h - 1) % Size = Size - 1 - Dist(h, t)
<1>1. Dist(h, t) = IF h >= t THEN h - t ELSE h - t + Size
  BY SMT DEF Dist
<1>2. (t + Size - h - 1) % Size = Size - 1 - Dist(h, t)
  <2>1. CASE h >= t
    BY <1>1, <2>1, SMT
  <2>2. CASE h < t
    BY <1>1, <2>2, SMT
  <2> QED BY <2>1, <2>2, SMT
<1>3. Dist(h, t) \in 0..Size - 1
  BY <1>1, SMT
<1>4. Slot(t, Dist(h, t)) = IF t + Dist(h, t) < Size THEN t + Dist(h, t)
                                                     ELSE t + Dist(h, t) - Size
  BY <1>3, SlotIs, SMT
<1>5. h = Slot(t, Dist(h, t))
  BY <1>1, <1>4, SMT
<1> QED BY <1>2, <1>3, <1>5

(* The distance to a slot is the way that was gone to it.                   *)
LEMMA DistSlot ==
  ASSUME NEW a \in 0..Size - 1, NEW q \in 0..Size - 1
  PROVE  Dist(Slot(a, q), a) = q
<1>1. Slot(a, q) \in 0..Size - 1
  BY SlotIs, SMT
<1>2. /\ Dist(Slot(a, q), a) \in 0..Size - 1
      /\ Slot(a, q) = Slot(a, Dist(Slot(a, q), a))
  BY <1>1, DistIs
<1> QED BY <1>2, SlotDiffers

(* The writer's index moves: as many samples more are queued.                *)
LEMMA HeadMoves ==
  ASSUME NEW h \in 0..Size - 1, NEW t \in 0..Size - 1,
         NEW n \in 0..Size - 1, Dist(h, t) + n <= Size - 1
  PROVE  /\ Slot(h, n) \in 0..Size - 1
         /\ Slot(h, n) = Slot(t, Dist(h, t) + n)
         /\ Dist(Slot(h, n), t) = Dist(h, t) + n
<1>1. /\ Dist(h, t) \in 0..Size - 1
      /\ h = Slot(t, Dist(h, t))
  BY DistIs
<1>2. Slot(h, n) = Slot(t, Dist(h, t) + n)
  BY <1>1, SlotSlot, SMT
<1>3. Dist(h, t) + n \in 0..Size - 1
  BY <1>1, SMT
<1>4. Dist(Slot(t, Dist(h, t) + n), t) = Dist(h, t) + n
  BY <1>3, DistSlot
<1>5. Slot(t, Dist(h, t) + n) \in 0..Size - 1
  BY <1>3, SlotIs, SMT
<1> QED BY <1>2, <1>4, <1>5

(* The reader's index moves: as many fewer are queued.                       *)
LEMMA TailMoves ==
  ASSUME NEW h \in 0..Size - 1, NEW t \in 0..Size - 1, NEW n \in 0..Dist(h, t)
  PROVE  /\ Slot(t, n) \in 0..Size - 1
         /\ Dist(h, Slot(t, n)) = Dist(h, t) - n
<1>1. /\ Dist(h, t) \in 0..Size - 1
      /\ h = Slot(t, Dist(h, t))
  BY DistIs
<1>2. n \in 0..Size - 1 /\ Dist(h, t) - n \in 0..Size - 1 /\ n + (Dist(h, t) - n) = Dist(h, t)
  BY <1>1, SMT
<1>3. Slot(t, n) \in 0..Size - 1
  BY <1>2, SlotIs, SMT
<1>4. Slot(Slot(t, n), Dist(h, t) - n) = Slot(t, n + (Dist(h, t) - n))
  BY <1>1, <1>2, SlotSlot, SMT
<1>5. Slot(Slot(t, n), Dist(h, t) - n) = h
  BY <1>1, <1>2, <1>4
<1>6. Dist(Slot(Slot(t, n), Dist(h, t) - n), Slot(t, n)) = Dist(h, t) - n
  BY <1>2, <1>3, DistSlot
<1> QED BY <1>3, <1>5, <1>6

----------------------------------------------------------------------------
(* The samples between the indices.                                         *)

HeldOf(r, h, t) == [i \in 1..Dist(h, t) |-> r[Slot(t, i - 1)]]

(* The queued samples are a sequence of samples.                            *)
LEMMA HeldIs ==
  ASSUME NEW r \in [0..Size - 1 -> Sample],
         NEW h \in 0..Size - 1, NEW t \in 0..Size - 1
  PROVE  /\ HeldOf(r, h, t) \in Seq(Sample)
         /\ Len(HeldOf(r, h, t)) = Dist(h, t)
         /\ \A i \in 1..Dist(h, t) : HeldOf(r, h, t)[i] = r[Slot(t, i - 1)]
<1>1. Dist(h, t) \in 0..Size - 1
  BY DistIs
<1>2. \A i \in 1..Dist(h, t) : r[Slot(t, i - 1)] \in Sample
  <2> SUFFICES ASSUME NEW i \in 1..Dist(h, t)
               PROVE  r[Slot(t, i - 1)] \in Sample
    OBVIOUS
  <2>1. i - 1 \in 0..Size
    BY <1>1, SMT
  <2>2. Slot(t, i - 1) \in 0..Size - 1
    BY <2>1, SlotIs
  <2> QED BY <2>2
<1>3. HeldOf(r, h, t) \in [1..Dist(h, t) -> Sample]
  BY <1>2 DEF HeldOf
<1>4. Dist(h, t) \in Nat
  BY <1>1, SMT
<1>5. HeldOf(r, h, t) \in Seq(Sample)
  BY <1>3, <1>4, SeqDef
<1>6. Len(HeldOf(r, h, t)) = Dist(h, t)
  BY <1>3, <1>4, <1>5, LenProperties, SMT
<1> QED BY <1>5, <1>6 DEF HeldOf

\* A sample copied k slots beyond the head
Copied(new, r, h, k, v) == new = [r EXCEPT ![Slot(h, k)] = v]

(* A sample written beyond the head is not among them (push() copies before *)
(* it publishes).                                                           *)
LEMMA HeldUnwritten ==
  ASSUME NEW r \in [0..Size - 1 -> Sample], NEW v \in Sample,
         NEW h \in 0..Size - 1, NEW t \in 0..Size - 1,
         NEW k \in 0..Size - 1, Dist(h, t) + k <= Size - 1,
         NEW new, Copied(new, r, h, k, v)
  PROVE  HeldOf(new, h, t) = HeldOf(r, h, t)
<1>1. Dist(h, t) \in 0..Size - 1
  BY DistIs
<1>2. Slot(h, k) = Slot(t, Dist(h, t) + k) /\ Slot(h, k) \in 0..Size - 1
  BY HeadMoves
<1>3. ASSUME NEW i \in 1..Dist(h, t)
      PROVE  new[Slot(t, i - 1)] = r[Slot(t, i - 1)]
  <2>1. i - 1 \in 0..Size - 1 /\ i - 1 \in 0..Size /\ Dist(h, t) + k \in 0..Size - 1
        /\ i - 1 # Dist(h, t) + k
    BY <1>1, SMT
  <2>2. Slot(t, i - 1) # Slot(t, Dist(h, t) + k)
    BY <2>1, SlotDiffers
  <2>3. Slot(t, i - 1) \in 0..Size - 1
    BY <2>1, SlotIs
  <2> QED BY <1>2, <2>2, <2>3 DEF Copied
<1> QED BY <1>3 DEF HeldOf

(* The place of an appended sample among the new ones.                      *)
LEMMA AfterQueued ==
  ASSUME NEW q \in 0..Size - 1, NEW n \in 0..Size - 1, q + n <= Size - 1,
         NEW i \in 1..q + n, i > q
  PROVE  /\ i - q \in 1..n /\ i - q - 1 \in 0..n - 1 /\ i - q - 1 \in 0..Size - 1
         /\ q + (i - q - 1) <= Size - 1 /\ q + (i - q - 1) = i - 1
BY SMT

\* n samples numbered from s, copied beyond the head
Filled(r, h, s, n) == \A i \in 0..n - 1 : r[Slot(h, i)] = (s + i) % Numbers

(* Numbered samples beyond the head, published: they are appended.          *)
LEMMA HeldPushed ==
  ASSUME NEW r \in [0..Size - 1 -> Sample], NEW s \in Sample,
         NEW h \in 0..Size - 1, NEW t \in 0..Size - 1,
         NEW n \in 0..Size - 1, Dist(h, t) + n <= Size - 1,
         Filled(r, h, s, n)
  PROVE  HeldOf(r, Slot(h, n), t) = HeldOf(r, h, t) \o Queue!Numbered(s, n)
<1> DEFINE old == HeldOf(r, h, t)
           new == HeldOf(r, Slot(h, n), t)
           more == Queue!Numbered(s, n)
<1>1. Dist(h, t) \in 0..Size - 1
  BY DistIs
<1>2. Slot(h, n) \in 0..Size - 1 /\ Dist(Slot(h, n), t) = Dist(h, t) + n
  BY HeadMoves
<1>3. /\ old \in Seq(Sample) /\ Len(old) = Dist(h, t)
      /\ \A i \in 1..Dist(h, t) : old[i] = r[Slot(t, i - 1)]
  BY HeldIs
<1>4. /\ new \in Seq(Sample) /\ Len(new) = Dist(h, t) + n
      /\ \A i \in 1..Dist(h, t) + n : new[i] = r[Slot(t, i - 1)]
  <2>1. /\ new \in Seq(Sample) /\ Len(new) = Dist(Slot(h, n), t)
        /\ \A i \in 1..Dist(Slot(h, n), t) : new[i] = r[Slot(t, i - 1)]
    BY <1>2, HeldIs
  <2> QED BY <1>2, <2>1
<1>5. /\ more \in Seq(Sample) /\ Len(more) = n
      /\ \A i \in 1..n : more[i] = (s + i - 1) % Numbers
  <2>1. \A i \in 1..n : (s + i - 1) % Numbers \in Sample
    BY SMT DEF Sample
  <2>2. more \in [1..n -> Sample]
    BY <2>1 DEF Queue!Numbered
  <2>3. n \in Nat
    BY SMT
  <2>4. more \in Seq(Sample)
    BY <2>2, <2>3, SeqDef
  <2>5. Len(more) = n
    BY <2>2, <2>3, <2>4, LenProperties, SMT
  <2> QED BY <2>4, <2>5 DEF Queue!Numbered
<1> HIDE DEF old, new, more
<1>6. /\ old \o more \in Seq(Sample) /\ Len(old \o more) = Dist(h, t) + n
      /\ \A i \in 1..Dist(h, t) + n :
           (old \o more)[i] = IF i <= Dist(h, t) THEN old[i] ELSE more[i - Dist(h, t)]
  <2>1. /\ old \o more \in Seq(Sample) /\ Len(old \o more) = Len(old) + Len(more)
        /\ \A i \in 1..Len(old) + Len(more) :
             (old \o more)[i] = IF i <= Len(old) THEN old[i] ELSE more[i - Len(old)]
    BY <1>3, <1>5, ConcatProperties
  <2> QED BY <1>3, <1>5, <2>1
<1>7. ASSUME NEW i \in 1..Dist(h, t) + n
      PROVE  new[i] = (old \o more)[i]
  <2>1. CASE i <= Dist(h, t)
    <3>1. i \in 1..Dist(h, t)
      BY <1>1, <2>1, SMT
    <3> QED BY <1>3, <1>4, <1>6, <2>1, <3>1
  <2>2. CASE i > Dist(h, t)
    <3>1. /\ i - Dist(h, t) \in 1..n
          /\ i - Dist(h, t) - 1 \in 0..n - 1
          /\ i - Dist(h, t) - 1 \in 0..Size - 1
          /\ Dist(h, t) + (i - Dist(h, t) - 1) <= Size - 1
          /\ Dist(h, t) + (i - Dist(h, t) - 1) = i - 1
      BY <1>1, <2>2, AfterQueued
    <3>2. Slot(h, i - Dist(h, t) - 1) = Slot(t, Dist(h, t) + (i - Dist(h, t) - 1))
      BY <3>1, HeadMoves
    <3>3. r[Slot(t, i - 1)] = (s + (i - Dist(h, t) - 1)) % Numbers
      BY <3>1, <3>2 DEF Filled
    <3>4. s + (i - Dist(h, t) - 1) = s + (i - Dist(h, t)) - 1
      BY <1>1, SMT DEF Sample
    <3>5. ~(i <= Dist(h, t))
      BY <1>1, <2>2, SMT
    <3>6. (old \o more)[i] = more[i - Dist(h, t)]
      BY <1>6, <3>5
    <3> QED BY <1>4, <1>5, <3>1, <3>3, <3>4, <3>6
  <2>3. i <= Dist(h, t) \/ i > Dist(h, t)
    BY <1>1, SMT
  <2> QED BY <2>1, <2>2, <2>3
<1>8. new = old \o more
  BY <1>4, <1>6, <1>7, SeqEqual
<1> QED BY <1>8 DEF old, new, more

(* The oldest samples, copied and released: they leave the front.           *)
LEMMA HeldPopped ==
  ASSUME NEW r \in [0..Size - 1 -> Sample],
         NEW h \in 0..Size - 1, NEW t \in 0..Size - 1, NEW n \in 0..Dist(h, t)
  PROVE  HeldOf(r, h, Slot(t, n)) = SubSeq(HeldOf(r, h, t), n + 1, Dist(h, t))
<1> DEFINE old == HeldOf(r, h, t)
           new == HeldOf(r, h, Slot(t, n))
           rest == SubSeq(old, n + 1, Dist(h, t))
<1>1. Dist(h, t) \in 0..Size - 1
  BY DistIs
<1>2. Slot(t, n) \in 0..Size - 1 /\ Dist(h, Slot(t, n)) = Dist(h, t) - n
  BY TailMoves
<1>3. /\ old \in Seq(Sample) /\ Len(old) = Dist(h, t)
      /\ \A i \in 1..Dist(h, t) : old[i] = r[Slot(t, i - 1)]
  BY HeldIs
<1>4. /\ new \in Seq(Sample) /\ Len(new) = Dist(h, t) - n
      /\ \A i \in 1..Dist(h, t) - n : new[i] = r[Slot(Slot(t, n), i - 1)]
  <2>1. /\ new \in Seq(Sample) /\ Len(new) = Dist(h, Slot(t, n))
        /\ \A i \in 1..Dist(h, Slot(t, n)) : new[i] = r[Slot(Slot(t, n), i - 1)]
    BY <1>2, HeldIs
  <2> QED BY <1>2, <2>1
<1> HIDE DEF old, new
<1>5. n + 1 \in Int /\ Dist(h, t) \in Int
  BY <1>1, SMT
<1>6. \A i \in n + 1..Dist(h, t) : old[i] \in Sample
  <2> SUFFICES ASSUME NEW i \in n + 1..Dist(h, t)
               PROVE  old[i] \in Sample
    OBVIOUS
  <2>1. i \in 1..Len(old)
    BY <1>1, <1>3, SMT
  <2> QED BY <1>3, <2>1, ElementOfSeq
<1>7. /\ rest \in Seq(Sample)
      /\ Len(rest) = IF n + 1 <= Dist(h, t) THEN Dist(h, t) - (n + 1) + 1 ELSE 0
      /\ \A i \in 1..Dist(h, t) - (n + 1) + 1 : rest[i] = old[n + 1 + i - 1]
  BY <1>5, <1>6, SubSeqProperties
<1>8. Dist(h, t) - (n + 1) + 1 = Dist(h, t) - n /\ Len(rest) = Dist(h, t) - n
  BY <1>1, <1>7, SMT
<1> HIDE DEF rest
<1>9. ASSUME NEW i \in 1..Dist(h, t) - n
      PROVE  new[i] = rest[i]
  <2>1. /\ n \in 0..Size - 1 /\ i - 1 \in 0..Size - 1 /\ n + (i - 1) <= Size
        /\ n + 1 + i - 1 = n + i /\ n + i \in 1..Dist(h, t) /\ n + i - 1 = n + (i - 1)
    BY <1>1, SMT
  <2>2. Slot(Slot(t, n), i - 1) = Slot(t, n + i - 1)
    BY <2>1, SlotSlot
  <2>3. rest[i] = old[n + i]
    BY <1>7, <1>8, <2>1
  <2> QED BY <1>3, <1>4, <2>1, <2>2, <2>3
<1>10. new = rest
  BY <1>4, <1>7, <1>8, <1>9, SeqEqual
<1> QED BY <1>10 DEF old, new, rest

\* What was copied out are the oldest n samples
Copies(out, r, t, n) == \A i \in 1..n : out[i] = r[Slot(t, i - 1)]

(* What pop() copied, before it publishes, is the front of what is queued.  *)
LEMMA HeldCopied ==
  ASSUME NEW r \in [0..Size - 1 -> Sample],
         NEW h \in 0..Size - 1, NEW t \in 0..Size - 1, NEW n \in 0..Dist(h, t),
         NEW S, NEW out \in Seq(S), Len(out) = n,
         Copies(out, r, t, n)
  PROVE  out = SubSeq(HeldOf(r, h, t), 1, n)
<1> DEFINE old == HeldOf(r, h, t)
           first == SubSeq(old, 1, n)
<1>1. Dist(h, t) \in 0..Size - 1
  BY DistIs
<1>2. /\ old \in Seq(Sample) /\ Len(old) = Dist(h, t)
      /\ \A i \in 1..Dist(h, t) : old[i] = r[Slot(t, i - 1)]
  BY HeldIs
<1> HIDE DEF old
<1>3. n \in Int /\ 1 \in Int /\ n \in Nat
  BY <1>1, SMT
<1>4. \A i \in 1..n : i \in 1..Dist(h, t)
  BY <1>1, SMT
<1>5. \A i \in 1..n : old[i] \in Sample
  BY <1>2, <1>4, ElementOfSeq
<1>6. /\ first \in Seq(Sample)
      /\ Len(first) = IF 1 <= n THEN n - 1 + 1 ELSE 0
      /\ \A i \in 1..n - 1 + 1 : first[i] = old[1 + i - 1]
  BY <1>3, <1>5, SubSeqProperties
<1>7. n - 1 + 1 = n /\ Len(first) = n /\ \A i \in 1..n : 1 + i - 1 = i
  BY <1>3, <1>6, SMT
<1> HIDE DEF first
<1>8. \A i \in 1..n : out[i] = first[i]
  BY <1>2, <1>4, <1>6, <1>7 DEF Copies
<1>9. \A i \in 1..n : out[i] \in Sample
  BY <1>2, <1>4, <1>5 DEF Copies
<1>10. out \in Seq(Sample)
  BY <1>3, <1>9, LenProperties, SeqDef, SMT
<1>11. out = first
  BY <1>6, <1>7, <1>8, <1>10, SeqEqual
<1> QED BY <1>11 DEF old, first
----------------------------------------------------------------------------
(* The inductive invariant. Neither side reads the other's index again while *)
(* it copies: what it found stays true, because the other only makes room or *)
(* only adds samples.                                                       *)

RingThere == open => ring \in [0..Size - 1 -> Sample]

EngineInv ==
  /\ push # Idle => open
  /\ push.at = "copy" =>
       /\ push.take <= push.left /\ push.done <= push.take
       /\ Dist(head, tail) + push.take <= Size - 1
       /\ push.next = Slot(head, push.done)
       /\ Filled(ring, head, sent, push.done)

DeviceInv ==
  open /\ pop.at = "copy" =>
       /\ Len(pop.out) <= pop.give /\ pop.give <= Dist(head, tail)
       /\ pop.next = Slot(tail, Len(pop.out))
       /\ Copies(pop.out, ring, tail, Len(pop.out))

RingInv == TypeOK /\ RingThere /\ EngineInv /\ DeviceInv

(* The records of the two threads, by where they are.                       *)
LEMMA PushIs ==
  ASSUME push \in Pushing \cup {Idle}
  PROVE  /\ push.at = "copy" => push \in [at: {"copy"}, left: 1..Frame, take: 1..Frame,
                                          done: 0..Frame, next: 0..Size - 1]
         /\ push.at \in {"push", "full"} => push \in [at: {"push", "full"}, left: 1..Frame]
         /\ push.at \in {"copy", "push", "full"} <=> push # Idle
BY SMT DEF Pushing, Idle

(* The same of the callback.                                                *)
LEMMA PopIs ==
  ASSUME pop \in Popping \cup {Idle}
  PROVE  /\ pop.at = "copy" => /\ pop.give \in 0..Size - 1 /\ pop.next \in 0..Size - 1
                               /\ pop.out \in Seq(Sample \cup {Freed}) /\ pop \in Popping
         /\ pop.at = "copy" <=> pop # Idle
BY SMT DEF Popping, Idle

(* open() establishes the invariant.                                        *)
LEMMA InitInv == ASSUME Init PROVE RingInv
<1>1. TypeOK
  <2>1. 0 \in Sample /\ 0 \in 0..Size - 1 /\ 0 \in 0..StallTicks
    BY SMT DEF Sample
  <2>2. <<>> \in Seq(Sample \cup {Freed})
    BY EmptySeq
  <2> QED BY <2>1, <2>2 DEF Init, TypeOK
<1>2. RingThere
  BY SMT DEF Init, RingThere, Sample
<1> QED BY <1>1, <1>2, SMT DEF Init, RingInv, EngineInv, DeviceInv, Idle

(* frame_done() with a frame of samples.                                    *)
LEMMA FrameDoneInv == ASSUME RingInv, FrameDone PROVE RingInv'
<1>1. PICK n \in 1..Frame : push' = [at |-> "push", left |-> n]
  BY DEF FrameDone
<1>2. push' \in Pushing /\ push'.at = "push"
  BY <1>1 DEF Pushing
<1>3. UNCHANGED <<ring, head, tail, open, quiet, pop, sent, heard, stopping, gone>> /\ open
  BY DEF FrameDone, engineOnly
<1>4. TypeOK'
  BY <1>2, <1>3 DEF RingInv, TypeOK
<1>5. RingThere' /\ DeviceInv'
  BY <1>3 DEF RingInv, RingThere, DeviceInv
<1>6. EngineInv'
  BY <1>2, <1>3, SMT DEF EngineInv
<1> QED BY <1>4, <1>5, <1>6 DEF RingInv

(* push() takes the room it finds, no more.                                 *)
LEMMA PushBeginsInv == ASSUME RingInv, PushBegins PROVE RingInv'
<1>1. UNCHANGED <<ring, head, tail, open, quiet, pop, sent, heard, stopping, gone>>
  BY DEF PushBegins, engineOnly
<1>2. push \in [at: {"push", "full"}, left: 1..Frame] /\ push # Idle /\ push.at = "push" /\ open
  BY PushIs DEF RingInv, TypeOK, PushBegins, EngineInv
<1>3. /\ head \in 0..Size - 1 /\ tail \in 0..Size - 1
      /\ Dist(head, tail) \in 0..Size - 1
      /\ Room = Size - 1 - Dist(head, tail)
  BY DistIs DEF RingInv, TypeOK, Room
<1>4. CASE Room = 0
  <2>1. push' = [push EXCEPT !.at = "full"]
    BY <1>4 DEF PushBegins
  <2>2. push' \in Pushing /\ push'.at = "full"
    BY <1>2, <2>1 DEF Pushing
  <2>3. TypeOK'
    BY <1>1, <2>2 DEF RingInv, TypeOK
  <2>4. RingThere' /\ DeviceInv'
    BY <1>1 DEF RingInv, RingThere, DeviceInv
  <2>5. EngineInv'
    BY <1>1, <1>2, <2>2 DEF EngineInv
  <2> QED BY <2>3, <2>4, <2>5 DEF RingInv
<1>5. CASE Room # 0
  <2>1. push' = [at |-> "copy", left |-> push.left, take |-> Least(push.left, Room),
                 done |-> 0, next |-> head]
    BY <1>5 DEF PushBegins
  <2>2. /\ Least(push.left, Room) \in 1..Frame
        /\ Least(push.left, Room) <= push.left
        /\ Dist(head, tail) + Least(push.left, Room) <= Size - 1
    <3>1. Room \in 1..Size - 1 /\ push.left \in 1..Frame
      BY <1>2, <1>3, <1>5, SMT
    <3> HIDE DEF Room
    <3> QED BY <1>3, <3>1, SMT DEF Least
  <2>3. push' \in Pushing
    <3>1. 0 \in 0..Frame /\ push.left \in 1..Frame
      BY <1>2, SMT
    <3> QED BY <1>3, <2>1, <2>2, <3>1 DEF Pushing
  <2>4. TypeOK'
    BY <1>1, <2>3 DEF RingInv, TypeOK
  <2>5. RingThere' /\ DeviceInv'
    BY <1>1 DEF RingInv, RingThere, DeviceInv
  <2>6. head = Slot(head, 0)
    BY <1>3, SlotIs, SMT
  <2>7. Filled(ring, head, sent, 0) /\ 0 <= Least(push.left, Room)
    <3>1. 0..0 - 1 = {} /\ 0 <= Least(push.left, Room)
      BY <2>2, SMT
    <3> QED BY <3>1 DEF Filled
  <2>8. EngineInv'
    BY <1>1, <1>2, <2>1, <2>2, <2>6, <2>7 DEF EngineInv
  <2> QED BY <2>4, <2>5, <2>8 DEF RingInv
<1> QED BY <1>4, <1>5

(* A full ring is tried again or given up.                                  *)
LEMMA FullAgainInv == ASSUME RingInv, FullAgain PROVE RingInv'
<1>1. UNCHANGED <<ring, head, tail, open, quiet, pop, sent, heard, stopping, gone>>
  BY DEF FullAgain, engineOnly
<1>2. push \in [at: {"push", "full"}, left: 1..Frame] /\ push # Idle /\ open
  BY PushIs DEF RingInv, TypeOK, FullAgain, EngineInv
<1>3. push' = Idle \/ push' = [push EXCEPT !.at = "push"]
  BY DEF FullAgain
<1>4. push' \in Pushing \cup {Idle} /\ push'.at # "copy"
  BY <1>2, <1>3 DEF Pushing, Idle
<1>5. TypeOK'
  BY <1>1, <1>4 DEF RingInv, TypeOK
<1>6. RingThere' /\ DeviceInv'
  BY <1>1 DEF RingInv, RingThere, DeviceInv
<1>7. EngineInv'
  BY <1>1, <1>2, <1>4 DEF EngineInv
<1> QED BY <1>5, <1>6, <1>7 DEF RingInv

(* What is known while the engine copies.                                   *)
LEMMA Copying ==
  ASSUME RingInv, push.at = "copy"
  PROVE  /\ push \in [at: {"copy"}, left: 1..Frame, take: 1..Frame,
                      done: 0..Frame, next: 0..Size - 1]
         /\ push \in Pushing /\ push # Idle /\ open
         /\ ring \in [0..Size - 1 -> Sample]
         /\ head \in 0..Size - 1 /\ tail \in 0..Size - 1 /\ sent \in Sample
         /\ Dist(head, tail) \in 0..Size - 1
         /\ push.take <= push.left /\ push.done <= push.take
         /\ Dist(head, tail) + push.take <= Size - 1
         /\ push.next = Slot(head, push.done)
         /\ Filled(ring, head, sent, push.done)
<1>1. push \in [at: {"copy"}, left: 1..Frame, take: 1..Frame,
                done: 0..Frame, next: 0..Size - 1] /\ push # Idle
  BY PushIs DEF RingInv, TypeOK
<1>2. push \in Pushing
  BY <1>1 DEF Pushing
<1>3. open
  BY <1>1 DEF RingInv, EngineInv
<1>4. head \in 0..Size - 1 /\ tail \in 0..Size - 1
  BY DEF RingInv, TypeOK
<1>5. Dist(head, tail) \in 0..Size - 1
  BY <1>4, DistIs
<1> QED BY <1>1, <1>2, <1>3, <1>4, <1>5 DEF RingInv, TypeOK, RingThere, EngineInv

(* The number a sample is given.                                            *)
LEMMA NumberIsSample == ASSUME NEW a \in Nat PROVE a % Numbers \in Sample
BY SMT DEF Sample

(* A sample copied beyond the head is seen by nobody yet.                   *)
LEMMA PushCopiesInv ==
  ASSUME RingInv, PushCopies
  PROVE  RingInv' /\ HeldOf(ring', head', tail') = HeldOf(ring, head, tail)
<1>1. UNCHANGED <<head, tail, open, quiet, pop, sent, heard, stopping, gone>>
  BY DEF PushCopies, engineOnly
<1> DEFINE k == push.done
           v == (sent + k) % Numbers
<1>2. /\ push.at = "copy" /\ k < push.take
      /\ ring' = [ring EXCEPT ![push.next] = v]
      /\ push' = [push EXCEPT !.next = Succ(push.next), !.done = k + 1]
  BY DEF PushCopies
<1>3. /\ push \in [at: {"copy"}, left: 1..Frame, take: 1..Frame,
                   done: 0..Frame, next: 0..Size - 1]
      /\ push # Idle /\ open
      /\ ring \in [0..Size - 1 -> Sample]
      /\ head \in 0..Size - 1 /\ tail \in 0..Size - 1 /\ sent \in Sample
      /\ Dist(head, tail) \in 0..Size - 1
      /\ push.take <= push.left /\ k <= push.take
      /\ Dist(head, tail) + push.take <= Size - 1
      /\ push.next = Slot(head, k)
      /\ Filled(ring, head, sent, k)
  BY <1>2, Copying
<1>4. /\ push.left \in 1..Frame /\ push.take \in 1..Frame /\ k \in 0..Frame
      /\ push.next \in 0..Size - 1
  BY <1>3
<1>5. /\ k \in 0..Size - 1 /\ k + 1 \in 0..Frame /\ k + 1 <= push.take /\ 1 \in 0..Size - 1
      /\ Dist(head, tail) + k <= Size - 1 /\ k + 1 <= Size /\ k + 1 - 1 = k
  BY <1>2, <1>3, <1>4, SMT
<1>6. v \in Sample
  <2>1. sent \in Nat /\ k \in Nat
    BY <1>3, <1>4, SMT DEF Sample
  <2>2. sent + k \in Nat
    BY <2>1, SMT
  <2> QED BY <2>2, NumberIsSample
<1>7. Succ(push.next) = Slot(head, k + 1) /\ Slot(head, k + 1) \in 0..Size - 1
  <2>1. Slot(Slot(head, k), 1) = Slot(head, k + 1)
    BY <1>3, <1>5, SlotSlot
  <2>2. Slot(head, k) \in 0..Size - 1 /\ 1 \in 0..Size
    BY <1>3, <1>4, SMT
  <2>3. Slot(Slot(head, k), 1) \in 0..Size - 1
    BY <2>2, SlotIs
  <2> QED BY <1>3, <2>1, <2>3 DEF Succ, Slot
<1> HIDE DEF v
<1>8. ring' \in [0..Size - 1 -> Sample]
  BY <1>2, <1>3, <1>6
<1>9. /\ push'.at = "copy" /\ push'.left = push.left /\ push'.take = push.take
      /\ push'.done = k + 1 /\ push'.next = Slot(head, k + 1) /\ push' \in Pushing
  BY <1>2, <1>3, <1>4, <1>5, <1>7 DEF Pushing
<1>10. TypeOK'
  BY <1>1, <1>8, <1>9 DEF RingInv, TypeOK
<1>11. RingThere'
  BY <1>8 DEF RingThere
<1>12. Filled(ring', head, sent, k + 1)
  <2> SUFFICES ASSUME NEW i \in 0..k
               PROVE  ring'[Slot(head, i)] = (sent + i) % Numbers
    BY <1>5 DEF Filled
  <2>1. CASE i = k
    BY <1>2, <1>3, <1>4, <2>1 DEF v
  <2>2. CASE i # k
    <3>1. i \in 0..k - 1 /\ i \in 0..Size - 1 /\ i \in 0..Size
      BY <1>5, <2>2, SMT
    <3>2. Slot(head, i) # Slot(head, k)
      BY <1>3, <1>5, <2>2, <3>1, SlotDiffers
    <3>3. Slot(head, i) \in 0..Size - 1
      BY <1>3, <3>1, SlotIs
    <3> QED BY <1>2, <1>3, <3>1, <3>2, <3>3 DEF Filled
  <2> QED BY <2>1, <2>2
<1>13. EngineInv'
  BY <1>1, <1>3, <1>5, <1>9, <1>12 DEF EngineInv
<1>14. HeldOf(ring', head, tail) = HeldOf(ring, head, tail)
  <2>1. /\ ring \in [0..Size - 1 -> Sample] /\ head \in 0..Size - 1 /\ tail \in 0..Size - 1
        /\ k \in 0..Size - 1 /\ Dist(head, tail) + k <= Size - 1
    BY <1>3, <1>5
  <2>2. Copied(ring', ring, head, k, v)
    BY <1>2, <1>3 DEF Copied
  <2> HIDE DEF k
  <2> QED BY <2>1, <2>2, <1>6, HeldUnwritten
<1>15. DeviceInv'
  <2> SUFFICES ASSUME pop.at = "copy"
               PROVE  Copies(pop.out, ring', tail, Len(pop.out))
    BY <1>1, <1>3 DEF RingInv, DeviceInv
  <2> SUFFICES ASSUME NEW i \in 1..Len(pop.out)
               PROVE  pop.out[i] = ring'[Slot(tail, i - 1)]
    BY DEF Copies
  <2>1. pop.give \in 0..Size - 1 /\ pop.out \in Seq(Sample \cup {Freed})
    BY PopIs DEF RingInv, TypeOK
  <2>2. /\ Len(pop.out) <= pop.give /\ pop.give <= Dist(head, tail)
        /\ pop.out[i] = ring[Slot(tail, i - 1)]
    BY <1>3 DEF RingInv, DeviceInv, Copies
  <2>3. Len(pop.out) \in Nat
    BY <2>1, LenProperties
  <2>4. i \in 1..Dist(head, tail)
    BY <1>3, <2>1, <2>2, <2>3, SMT
  <2>5. HeldOf(ring', head, tail)[i] = ring'[Slot(tail, i - 1)]
    BY <2>4 DEF HeldOf
  <2>6. HeldOf(ring, head, tail)[i] = ring[Slot(tail, i - 1)]
    BY <2>4 DEF HeldOf
  <2> QED BY <1>14, <2>2, <2>5, <2>6
<1> QED BY <1>1, <1>10, <1>11, <1>13, <1>14, <1>15 DEF RingInv

(* What is known of a callback that copies from an open ring.               *)
LEMMA Popping1 ==
  ASSUME RingInv, pop.at = "copy"
  PROVE  /\ pop \in Popping /\ pop # Idle
         /\ pop.give \in 0..Size - 1 /\ pop.next \in 0..Size - 1
         /\ pop.out \in Seq(Sample \cup {Freed}) /\ Len(pop.out) \in Nat
         /\ head \in 0..Size - 1 /\ tail \in 0..Size - 1
         /\ Dist(head, tail) \in 0..Size - 1
         /\ open => /\ ring \in [0..Size - 1 -> Sample]
                    /\ Len(pop.out) <= pop.give /\ pop.give <= Dist(head, tail)
                    /\ pop.next = Slot(tail, Len(pop.out))
                    /\ Copies(pop.out, ring, tail, Len(pop.out))
<1>1. pop \in Popping \cup {Idle}
  BY DEF RingInv, TypeOK
<1>2. /\ pop.give \in 0..Size - 1 /\ pop.next \in 0..Size - 1
      /\ pop.out \in Seq(Sample \cup {Freed}) /\ pop \in Popping /\ pop # Idle
  BY <1>1, PopIs
<1>3. Len(pop.out) \in Nat
  BY <1>2, LenProperties
<1>4. head \in 0..Size - 1 /\ tail \in 0..Size - 1
  BY DEF RingInv, TypeOK
<1>5. Dist(head, tail) \in 0..Size - 1
  BY <1>4, DistIs
<1> QED BY <1>2, <1>3, <1>4, <1>5 DEF RingInv, RingThere, DeviceInv

(* head_ is stored: the samples copied are appended.                        *)
LEMMA PushPublishesInv ==
  ASSUME RingInv, PushPublishes
  PROVE  /\ RingInv' /\ open
         /\ push.take \in 1..Size - 1 - Dist(head, tail)
         /\ HeldOf(ring', head', tail')
              = HeldOf(ring, head, tail) \o Queue!Numbered(sent, push.take)
<1>1. UNCHANGED <<ring, tail, open, quiet, pop, heard, stopping, gone>>
  BY DEF PushPublishes, engineOnly
<1> DEFINE n == push.take
<1>2. /\ push.at = "copy" /\ push.done = n /\ head' = push.next
      /\ sent' = (sent + n) % Numbers
      /\ push' = IF push.left = n THEN Idle ELSE [at |-> "push", left |-> push.left - n]
  BY DEF PushPublishes
<1>3. /\ push.left \in 1..Frame /\ n \in 1..Frame /\ push.next \in 0..Size - 1
      /\ push # Idle /\ open
      /\ ring \in [0..Size - 1 -> Sample]
      /\ head \in 0..Size - 1 /\ tail \in 0..Size - 1 /\ sent \in Sample
      /\ Dist(head, tail) \in 0..Size - 1
      /\ n <= push.left /\ Dist(head, tail) + n <= Size - 1
      /\ push.next = Slot(head, n)
      /\ Filled(ring, head, sent, n)
  BY <1>2, Copying
<1>4. n \in 0..Size - 1 /\ n \in 1..Size - 1 - Dist(head, tail)
  BY <1>3, SMT
<1>5. sent' \in Sample
  <2>1. sent \in Nat /\ n \in Nat
    BY <1>3, SMT DEF Sample
  <2>2. sent + n \in Nat
    BY <2>1, SMT
  <2> QED BY <1>2, <2>2, NumberIsSample
<1>6. push' \in Pushing \cup {Idle} /\ push'.at # "copy"
  <2>1. CASE push.left = n
    BY <1>2, <2>1 DEF Idle
  <2>2. CASE push.left # n
    <3>1. push.left - n \in 1..Frame
      BY <1>3, <2>2, SMT
    <3> QED BY <1>2, <2>2, <3>1 DEF Pushing
  <2> QED BY <2>1, <2>2
<1> HIDE DEF n
<1>7. Dist(head', tail) = Dist(head, tail) + n /\ head' \in 0..Size - 1
  BY <1>2, <1>3, <1>4, HeadMoves
<1>8. HeldOf(ring, head', tail) = HeldOf(ring, head, tail) \o Queue!Numbered(sent, n)
  <2>1. /\ ring \in [0..Size - 1 -> Sample] /\ sent \in Sample
        /\ head \in 0..Size - 1 /\ tail \in 0..Size - 1 /\ n \in 0..Size - 1
        /\ Dist(head, tail) + n <= Size - 1 /\ Filled(ring, head, sent, n)
    BY <1>3, <1>4
  <2>2. HeldOf(ring, Slot(head, n), tail) = HeldOf(ring, head, tail) \o Queue!Numbered(sent, n)
    BY <2>1, HeldPushed
  <2>3. head' = Slot(head, n)
    BY <1>2, <1>3
  <2> QED BY <2>2, <2>3
<1>9. TypeOK'
  BY <1>1, <1>5, <1>6, <1>7 DEF RingInv, TypeOK
<1>10. RingThere'
  BY <1>1 DEF RingInv, RingThere
<1>11. EngineInv'
  BY <1>1, <1>3, <1>6 DEF EngineInv
<1>12. DeviceInv'
  <2> SUFFICES ASSUME pop.at = "copy"
               PROVE  pop.give <= Dist(head', tail)
    BY <1>1, <1>3 DEF RingInv, DeviceInv
  <2>1. pop.give \in 0..Size - 1 /\ pop.give <= Dist(head, tail)
    BY <1>3, Popping1
  <2> QED BY <1>3, <1>4, <1>7, <2>1, SMT
<1> QED BY <1>1, <1>3, <1>4, <1>8, <1>9, <1>10, <1>11, <1>12 DEF RingInv, n

(* close() while a callback may be copying.                                 *)
LEMMA CloseInv == ASSUME RingInv, Close PROVE RingInv'
<1>1. /\ push = Idle /\ open /\ open' = FALSE /\ ring' = <<>> /\ head' = 0 /\ tail' = 0
      /\ UNCHANGED <<quiet, push, pop, sent, heard, stopping, gone>>
  BY DEF Close
<1>2. 0 \in 0..Size - 1 /\ Idle.at # "copy"
  BY SMT DEF Idle
<1>3. TypeOK'
  BY <1>1, <1>2 DEF RingInv, TypeOK
<1> QED BY <1>1, <1>2, <1>3 DEF RingInv, RingThere, EngineInv, DeviceInv

(* A callback takes what it finds queued, no more.                          *)
LEMMA FillInv == ASSUME RingInv, Fill PROVE RingInv'
<1>1. /\ UNCHANGED <<tail, heard, ring, head, sent, push, open, stopping, gone>>
      /\ quiet' = 0
  BY DEF Fill, deviceOnly
<1>2. PICK n \in Fills :
         pop' = [at |-> "copy", next |-> tail, out |-> <<>>,
                 give |-> IF ring = <<>> THEN 0 ELSE Least(n, Queued)]
  BY DEF Fill
<1>3. /\ head \in 0..Size - 1 /\ tail \in 0..Size - 1
      /\ Dist(head, tail) \in 0..Size - 1 /\ Queued = Dist(head, tail)
  BY DistIs DEF RingInv, TypeOK, Queued, Dist
<1>4. pop'.give \in 0..Size - 1 /\ pop'.give <= Dist(head, tail)
  <2>1. n \in Nat
    BY SMT
  <2>2. Least(n, Dist(head, tail)) \in 0..Size - 1 /\ Least(n, Dist(head, tail)) <= Dist(head, tail)
    BY <1>3, <2>1, SMT DEF Least
  <2>3. 0 \in 0..Size - 1 /\ 0 <= Dist(head, tail)
    BY <1>3, SMT
  <2> QED BY <1>2, <1>3, <2>2, <2>3
<1>5. pop'.at = "copy" /\ pop'.next = tail /\ pop'.out = <<>>
  BY <1>2
<1>6. <<>> \in Seq(Sample \cup {Freed}) /\ Len(<<>>) = 0
  BY EmptySeq
<1>7. pop' \in Popping
  BY <1>2, <1>3, <1>4, <1>6 DEF Popping
<1>8. 0 \in 0..StallTicks
  BY SMT
<1>9. TypeOK'
  BY <1>1, <1>7, <1>8 DEF RingInv, TypeOK
<1>10. RingThere' /\ EngineInv'
  BY <1>1 DEF RingInv, RingThere, EngineInv
<1>11. tail = Slot(tail, 0) /\ 1..0 = {} /\ 0 <= pop'.give
  BY <1>3, <1>4, SlotIs, SMT
<1>12. DeviceInv'
  BY <1>1, <1>4, <1>5, <1>6, <1>11 DEF DeviceInv, Copies
<1> QED BY <1>9, <1>10, <1>12 DEF RingInv

(* The engine is asked to stop.                                             *)
LEMMA AskToStopInv == ASSUME RingInv, AskToStop PROVE RingInv'
<1>1. /\ UNCHANGED <<ring, head, tail, open, quiet, push, pop, sent, heard, gone>>
      /\ stopping' = TRUE
  BY DEF AskToStop
<1> QED BY <1>1 DEF RingInv, TypeOK, RingThere, EngineInv, DeviceInv

(* The device is gone.                                                      *)
LEMMA UninitInv == ASSUME RingInv, Uninit PROVE RingInv'
<1>1. /\ UNCHANGED <<ring, head, tail, open, quiet, push, pop, sent, heard, stopping>>
      /\ gone' = TRUE
  BY DEF Uninit
<1> QED BY <1>1 DEF RingInv, TypeOK, RingThere, EngineInv, DeviceInv

(* Time passes.                                                             *)
LEMMA ClockTickInv == ASSUME RingInv, ClockTick PROVE RingInv'
<1>1. /\ UNCHANGED <<ring, head, tail, open, push, pop, sent, heard, stopping, gone>>
      /\ quiet < StallTicks /\ quiet' = quiet + 1
  BY DEF ClockTick
<1>2. quiet \in 0..StallTicks
  BY DEF RingInv, TypeOK
<1>3. quiet' \in 0..StallTicks
  BY <1>1, <1>2, SMT
<1> QED BY <1>1, <1>3 DEF RingInv, TypeOK, RingThere, EngineInv, DeviceInv

(* What pop() copies is the next of the oldest samples.                     *)
LEMMA PopCopiesInv == ASSUME RingInv, PopCopies PROVE RingInv'
<1>1. UNCHANGED <<ring, head, tail, open, quiet, push, sent, heard, stopping, gone>>
  BY DEF PopCopies, deviceOnly
<1> DEFINE x == IF ring = <<>> THEN Freed ELSE ring[pop.next]
           k == Len(pop.out)
<1>2. /\ pop.at = "copy" /\ k < pop.give
      /\ pop' = [pop EXCEPT !.out = Append(pop.out, x), !.next = Succ(pop.next)]
  BY DEF PopCopies
<1>3. /\ pop \in Popping
      /\ pop.give \in 0..Size - 1 /\ pop.next \in 0..Size - 1
      /\ pop.out \in Seq(Sample \cup {Freed}) /\ k \in Nat
      /\ head \in 0..Size - 1 /\ tail \in 0..Size - 1
      /\ Dist(head, tail) \in 0..Size - 1
      /\ open => /\ ring \in [0..Size - 1 -> Sample]
                 /\ k <= pop.give /\ pop.give <= Dist(head, tail)
                 /\ pop.next = Slot(tail, k)
                 /\ Copies(pop.out, ring, tail, k)
  BY <1>2, Popping1
<1>4. x \in Sample \cup {Freed}
  BY <1>3 DEF RingInv, TypeOK
<1>5. k + 1 <= pop.give /\ k \in 0..Size - 1 /\ 1 \in 0..Size - 1 /\ k + 1 <= Size
      /\ k + 1 - 1 = k
  BY <1>2, <1>3, SMT
<1>6. Succ(pop.next) = Slot(pop.next, 1) /\ Slot(pop.next, 1) \in 0..Size - 1
  <2>1. 1 \in 0..Size
    BY SMT
  <2> QED BY <1>3, <2>1, SlotIs DEF Succ, Slot
<1> HIDE DEF x
<1>7. /\ Append(pop.out, x) \in Seq(Sample \cup {Freed})
      /\ Len(Append(pop.out, x)) = k + 1
      /\ \A i \in 1..k : Append(pop.out, x)[i] = pop.out[i]
      /\ Append(pop.out, x)[k + 1] = x
  BY <1>3, <1>4, AppendProperties
<1>8. /\ pop'.at = "copy" /\ pop'.give = pop.give /\ pop'.next = Slot(pop.next, 1)
      /\ pop'.out = Append(pop.out, x) /\ pop' \in Popping
  BY <1>2, <1>3, <1>6, <1>7 DEF Popping
<1>9. TypeOK'
  BY <1>1, <1>8 DEF RingInv, TypeOK
<1>10. RingThere' /\ EngineInv'
  BY <1>1 DEF RingInv, RingThere, EngineInv
<1>11. ASSUME open
       PROVE  /\ Slot(pop.next, 1) = Slot(tail, k + 1)
              /\ x = ring[Slot(tail, k)]
  <2>1. Slot(Slot(tail, k), 1) = Slot(tail, k + 1)
    BY <1>3, <1>5, SlotSlot
  <2>2. ring # <<>>
    <3>1. DOMAIN ring = 0..Size - 1 /\ 0 \in 0..Size - 1
      BY <1>3, <1>11, SMT
    <3>2. <<>> \in Seq(Sample) /\ Len(<<>>) = 0
      BY EmptySeq
    <3>3. DOMAIN <<>> = 1..0
      BY <3>2, LenProperties
    <3>4. 0 \notin 1..0
      BY SMT
    <3> QED BY <3>1, <3>3, <3>4
  <2> QED BY <1>3, <1>11, <2>1, <2>2 DEF x
<1>12. ASSUME open
       PROVE  Copies(Append(pop.out, x), ring, tail, k + 1)
  <2> SUFFICES ASSUME NEW i \in 1..k + 1
               PROVE  Append(pop.out, x)[i] = ring[Slot(tail, i - 1)]
    BY DEF Copies
  <2>1. CASE i = k + 1
    <3>1. i - 1 = k
      BY <1>5, <2>1
    <3> QED BY <1>7, <1>11, <1>12, <2>1, <3>1
  <2>2. CASE i # k + 1
    <3>1. i \in 1..k
      BY <1>3, <2>2, SMT
    <3>2. pop.out[i] = ring[Slot(tail, i - 1)]
      BY <1>3, <1>12, <3>1 DEF Copies
    <3> QED BY <1>7, <3>1, <3>2
  <2> QED BY <2>1, <2>2
<1> HIDE DEF k
<1>13. DeviceInv'
  BY <1>1, <1>3, <1>5, <1>7, <1>8, <1>11, <1>12 DEF DeviceInv
<1> QED BY <1>9, <1>10, <1>13 DEF RingInv

(* A callback that ends while the ring is open has heard its oldest samples. *)
LEMMA PopPublishesInv ==
  ASSUME RingInv, PopPublishes
  PROVE  /\ RingInv'
         /\ open => /\ pop.give \in 0..Dist(head, tail)
                    /\ heard' = SubSeq(HeldOf(ring, head, tail), 1, pop.give)
                    /\ HeldOf(ring', head', tail')
                         = SubSeq(HeldOf(ring, head, tail), pop.give + 1, Dist(head, tail))
<1>1. UNCHANGED <<ring, head, open, quiet, push, sent, stopping, gone>>
  BY DEF PopPublishes, deviceOnly
<1> DEFINE n == pop.give
<1>2. /\ pop.at = "copy" /\ Len(pop.out) = n
      /\ tail' = pop.next /\ heard' = pop.out /\ pop' = Idle
  BY DEF PopPublishes
<1>3. /\ n \in 0..Size - 1 /\ pop.next \in 0..Size - 1
      /\ pop.out \in Seq(Sample \cup {Freed})
      /\ head \in 0..Size - 1 /\ tail \in 0..Size - 1
      /\ Dist(head, tail) \in 0..Size - 1
      /\ open => /\ ring \in [0..Size - 1 -> Sample]
                 /\ n <= Dist(head, tail)
                 /\ pop.next = Slot(tail, n)
                 /\ Copies(pop.out, ring, tail, n)
  BY <1>2, Popping1
<1> HIDE DEF n
<1>4. TypeOK'
  BY <1>1, <1>2, <1>3 DEF RingInv, TypeOK
<1>5. RingThere'
  BY <1>1 DEF RingInv, RingThere
<1>6. DeviceInv'
  BY <1>2 DEF DeviceInv, Idle
<1>7. ASSUME open
      PROVE  /\ n \in 0..Dist(head, tail) /\ ring \in [0..Size - 1 -> Sample]
             /\ tail' = Slot(tail, n)
             /\ Dist(head, tail') <= Dist(head, tail)
  <2>1. n \in 0..Dist(head, tail)
    BY <1>3, <1>7, SMT
  <2>2. Dist(head, Slot(tail, n)) = Dist(head, tail) - n
    BY <1>3, <2>1, TailMoves
  <2>3. Dist(head, tail) - n <= Dist(head, tail)
    BY <1>3, SMT
  <2> QED BY <1>2, <1>3, <1>7, <2>1, <2>2, <2>3
<1>8. EngineInv'
  <2>1. push # Idle => open
    BY DEF RingInv, EngineInv
  <2>2. ASSUME push.at = "copy"
        PROVE  /\ push.take <= push.left /\ push.done <= push.take
               /\ Dist(head, tail') + push.take <= Size - 1
               /\ push.next = Slot(head, push.done)
               /\ Filled(ring, head, sent, push.done)
    <3>1. /\ open /\ push.take \in 1..Frame /\ Dist(head, tail) + push.take <= Size - 1
          /\ push.take <= push.left /\ push.done <= push.take
          /\ push.next = Slot(head, push.done)
          /\ Filled(ring, head, sent, push.done)
      BY <2>2, Copying
    <3>2. Dist(head, tail') \in 0..Size - 1
      BY <1>2, <1>3, DistIs
    <3>3. Dist(head, tail') + push.take <= Size - 1
      BY <1>3, <1>7, <3>1, <3>2, SMT
    <3> QED BY <3>1, <3>3
  <2> QED BY <1>1, <2>1, <2>2 DEF EngineInv
<1>9. ASSUME open
      PROVE  /\ heard' = SubSeq(HeldOf(ring, head, tail), 1, n)
             /\ HeldOf(ring, head, Slot(tail, n))
                  = SubSeq(HeldOf(ring, head, tail), n + 1, Dist(head, tail))
  <2>1. /\ ring \in [0..Size - 1 -> Sample] /\ n \in 0..Dist(head, tail)
        /\ pop.out \in Seq(Sample \cup {Freed}) /\ Len(pop.out) = n
        /\ Copies(pop.out, ring, tail, n)
        /\ head \in 0..Size - 1 /\ tail \in 0..Size - 1
    BY <1>2, <1>3, <1>7, <1>9
  <2>2. pop.out = SubSeq(HeldOf(ring, head, tail), 1, n)
    BY <2>1, HeldCopied
  <2>3. HeldOf(ring, head, Slot(tail, n))
          = SubSeq(HeldOf(ring, head, tail), n + 1, Dist(head, tail))
    BY <2>1, HeldPopped
  <2> QED BY <1>2, <2>2, <2>3
<1> QED BY <1>1, <1>4, <1>5, <1>6, <1>7, <1>8, <1>9 DEF RingInv, n

(* The invariant holds whatever the two threads do.                         *)
LEMMA NextInv == ASSUME RingInv, [Next]_vars PROVE RingInv'
<1>1. CASE Next
  BY <1>1, FrameDoneInv, PushBeginsInv, FullAgainInv, PushCopiesInv, PushPublishesInv,
     AskToStopInv, CloseInv, FillInv, PopCopiesInv, PopPublishesInv, UninitInv, ClockTickInv
     DEF Next
<1>2. CASE UNCHANGED vars
  BY <1>2 DEF vars, RingInv, TypeOK, RingThere, EngineInv, DeviceInv
<1> QED BY <1>1, <1>2

(* Neither thread disturbs what the other relies on.                        *)
THEOREM RingInvariant == Spec => []RingInv
<1>1. Init => RingInv
  BY InitInv
<1>2. RingInv /\ [Next]_vars => RingInv'
  BY NextInv
<1> QED BY <1>1, <1>2, PTL DEF Spec

(* Both indices stay inside the ring they were reduced to, on either thread  *)
(* and through a close() the callback has not noticed (audio_out.cpp:144).   *)
THEOREM RingTypeOK == Spec => []TypeOK
<1>1. RingInv => TypeOK
  BY DEF RingInv
<1> QED BY <1>1, RingInvariant, PTL

----------------------------------------------------------------------------
(* The ring implements the queue.                                           *)

(* What the refinement calls the queue is what lies between the indices.     *)
LEMMA HeldSame ==
  ASSUME NEW r, NEW h \in 0..Size - 1, NEW t \in 0..Size - 1
  PROVE  [i \in 1..(h + Size - t) % Size |-> r[(t + i - 1) % Size]] = HeldOf(r, h, t)
<1>1. Dist(h, t) \in 0..Size - 1
  BY DistIs
<1>2. \A i \in 1..Dist(h, t) : t + i - 1 = t + (i - 1)
  BY <1>1, SMT
<1>3. \A i \in 1..Dist(h, t) : (t + i - 1) % Size = Slot(t, i - 1)
  BY <1>2 DEF Slot
<1> HIDE DEF Dist
<1> QED BY <1>3 DEF HeldOf, Dist

\* The queue of the abstract specification
Heard == IF open THEN heard ELSE <<>>
Number == IF open THEN sent ELSE 0
Contents == IF open THEN Held ELSE <<>>

(* While the ring is open.                                                  *)
LEMMA ContentsAre ==
  ASSUME RingInv, open
  PROVE  /\ Contents = HeldOf(ring, head, tail) /\ Contents \in Seq(Sample)
         /\ Len(Contents) = Dist(head, tail) /\ Dist(head, tail) \in 0..Size - 1
<1>1. head \in 0..Size - 1 /\ tail \in 0..Size - 1 /\ ring \in [0..Size - 1 -> Sample]
  BY DEF RingInv, TypeOK, RingThere
<1>2. Held = HeldOf(ring, head, tail)
  BY <1>1, HeldSame DEF Held, Queued
<1> QED BY <1>1, <1>2, HeldIs, DistIs DEF Contents

(* The same of the next state.                                              *)
LEMMA ContentsNext ==
  ASSUME RingInv', open'
  PROVE  Contents' = HeldOf(ring', head', tail')
<1>1. head' \in 0..Size - 1 /\ tail' \in 0..Size - 1
  BY DEF RingInv, TypeOK
<1>2. Held' = HeldOf(ring', head', tail')
  BY <1>1, HeldSame DEF Held, Queued
<1> QED BY <1>2 DEF Contents

mapped == <<Contents, Number, Heard, open>>

(* What push() publishes is accepted, as many as the queue has room for.    *)
LEMMA PublishIsAccept == ASSUME RingInv, PushPublishes PROVE Queue!Accept
<1> DEFINE n == push.take
<1>1. /\ RingInv' /\ open /\ n \in 1..Size - 1 - Dist(head, tail)
      /\ HeldOf(ring', head', tail') = HeldOf(ring, head, tail) \o Queue!Numbered(sent, n)
  BY PushPublishesInv
<1>2. open' = open /\ heard' = heard /\ sent' = (sent + n) % Numbers
  BY DEF PushPublishes, engineOnly
<1> HIDE DEF n
<1>3. /\ Contents = HeldOf(ring, head, tail) /\ Len(Contents) = Dist(head, tail)
      /\ Contents' = HeldOf(ring', head', tail')
  BY <1>1, <1>2, ContentsAre, ContentsNext
<1>4. /\ n \in 1..Size - 1 - Len(Contents)
      /\ Contents' = Contents \o Queue!Numbered(Number, n)
      /\ Number' = (Number + n) % Numbers /\ Heard' = Heard
  BY <1>1, <1>2, <1>3 DEF Number, Heard
<1> QED BY <1>1, <1>2, <1>4 DEF Queue!Accept, Contents, Number, Heard

(* What a callback put out has left the front of the queue.                 *)
LEMMA PublishIsDeliver == ASSUME RingInv, PopPublishes, open PROVE Queue!Deliver
<1> DEFINE n == pop.give
<1>1. /\ RingInv' /\ n \in 0..Dist(head, tail)
      /\ heard' = SubSeq(HeldOf(ring, head, tail), 1, n)
      /\ HeldOf(ring', head', tail') = SubSeq(HeldOf(ring, head, tail), n + 1, Dist(head, tail))
  BY PopPublishesInv
<1>2. open' = open /\ sent' = sent
  BY DEF PopPublishes, deviceOnly
<1> HIDE DEF n
<1>3. /\ Contents = HeldOf(ring, head, tail) /\ Len(Contents) = Dist(head, tail)
      /\ Contents' = HeldOf(ring', head', tail')
  BY <1>1, <1>2, ContentsAre, ContentsNext
<1>4. /\ n \in 0..Len(Contents)
      /\ Heard' = SubSeq(Contents, 1, n)
      /\ Contents' = SubSeq(Contents, n + 1, Len(Contents)) /\ Number' = Number
  BY <1>1, <1>2, <1>3 DEF Number, Heard
<1> QED BY <1>2, <1>4 DEF Queue!Deliver, Contents, Number, Heard

(* close() shuts the queue, whatever the callback is doing.                 *)
LEMMA CloseIsShut == ASSUME Close PROVE Queue!Shut
<1>1. open /\ open' = FALSE
  BY DEF Close
<1> QED BY <1>1 DEF Queue!Shut

(* Copying, waiting and the clock are not seen.                             *)
LEMMA OthersStutter ==
  ASSUME RingInv,
         \/ FrameDone \/ PushBegins \/ FullAgain \/ PushCopies
         \/ AskToStop \/ Fill \/ PopCopies \/ Uninit \/ ClockTick
  PROVE  UNCHANGED mapped
<1>1. CASE PushCopies
  <2>1. /\ RingInv' /\ HeldOf(ring', head', tail') = HeldOf(ring, head, tail)
        /\ open' = open /\ sent' = sent /\ heard' = heard
    BY <1>1, PushCopiesInv DEF PushCopies, engineOnly
  <2>2. CASE open
    BY <2>1, <2>2, ContentsAre, ContentsNext DEF mapped, Number, Heard
  <2>3. CASE ~open
    BY <2>1, <2>3 DEF mapped, Contents, Number, Heard
  <2> QED BY <2>2, <2>3
<1>2. ASSUME UNCHANGED <<ring, head, tail, open, sent, heard>>
      PROVE  UNCHANGED mapped
  BY <1>2 DEF mapped, Contents, Number, Heard, Held, Queued
<1>3. CASE FrameDone \/ PushBegins \/ FullAgain
  BY <1>2, <1>3 DEF FrameDone, PushBegins, FullAgain, engineOnly
<1>4. CASE Fill \/ PopCopies
  BY <1>2, <1>4 DEF Fill, PopCopies, deviceOnly
<1>5. CASE AskToStop \/ Uninit \/ ClockTick
  BY <1>2, <1>5 DEF AskToStop, Uninit, ClockTick
<1> QED BY <1>1, <1>3, <1>4, <1>5

(* A callback that outlives close() is not heard.                           *)
LEMMA LateIsStutter == ASSUME PopPublishes, ~open PROVE UNCHANGED mapped
BY DEF PopPublishes, deviceOnly, mapped, Contents, Number, Heard

(* Each step is one of the queue, or none.                                  *)
LEMMA StepMaps ==
  ASSUME RingInv, [Next]_vars
  PROVE  [Queue!Accept \/ Queue!Deliver \/ Queue!Shut]_mapped
<1>1. CASE PushPublishes
  BY <1>1, PublishIsAccept
<1>2. CASE PopPublishes
  BY <1>2, PublishIsDeliver, LateIsStutter
<1>3. CASE Close
  BY <1>3, CloseIsShut
<1>4. CASE UNCHANGED vars
  BY <1>4 DEF vars, mapped, Contents, Number, Heard, Held, Queued
<1> QED BY <1>1, <1>2, <1>3, <1>4, OthersStutter DEF Next

(* An opened ring is an empty queue.                                        *)
LEMMA InitMaps == ASSUME Init PROVE Queue!Init
<1>1. RingInv /\ open /\ head = 0 /\ tail = 0 /\ heard = <<>> /\ sent = 0 /\ open = TRUE
  BY InitInv DEF Init
<1>2. /\ Contents \in Seq(Sample) /\ Len(Contents) = Dist(0, 0)
  BY <1>1, ContentsAre
<1>3. Dist(0, 0) = 0
  BY SMT DEF Dist
<1>4. Contents = <<>>
  BY <1>2, <1>3, EmptySeq
<1> QED BY <1>1, <1>4 DEF Queue!Init, Contents

(* With two indices and no lock (audio_out.h:132), for every size of the     *)
(* ring, every length of a frame and every request of the device: every      *)
(* accepted sample is heard once and in order, none before it was written,   *)
(* and no more are taken than the ring holds.                                *)
THEOREM RingIsAQueue == Spec => IsAQueue
<1>1. Init => Queue!Init
  BY InitMaps
<1>2. RingInv /\ [Next]_vars => [Queue!Accept \/ Queue!Deliver \/ Queue!Shut]_mapped
  BY StepMaps
<1> QED BY <1>1, <1>2, RingInvariant, PTL
        DEF Spec, IsAQueue, Queue!Spec, mapped, Contents, Number, Heard

=============================================================================
