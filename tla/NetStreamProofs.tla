---------------------------- MODULE NetStreamProofs ----------------------------
(***************************************************************************)
(* Emulated time is wire time, for every length of a delay, a frame and a  *)
(* packet: the buffers of the network backend (sid/sid_netdevice.cpp) hold *)
(* one stream at a time, packets are whole, nothing is held back for long  *)
(* and every write is played at its cycle.                                 *)
(***************************************************************************)
EXTENDS NetStream, SequenceTheorems, WellFoundedInduction, TLAPS

----------------------------------------------------------------------------
(* Recursion over an interval.                                             *)

Below == {p \in Nat \X Nat : p[1] < p[2]}

(* What holds at 0 and passes from each number to the next holds up to n.    *)
LEMMA IntervalInduction ==
  ASSUME NEW n \in Nat, NEW S, 0 \in S,
         \A k \in 0 .. n - 1 : k \in S => k + 1 \in S
  PROVE  \A k \in 0 .. n : k \in S
<1> DEFINE Bad == {k \in 0 .. n : k \notin S}
<1>1. IsWellFoundedOn(Below, Nat)
  BY NatLessThanWellFounded DEF OpToRel, Below
<1> SUFFICES ASSUME Bad # {} PROVE FALSE
  OBVIOUS
<1>2. PICK k \in Bad : \A j \in Bad : ~(<<j, k>> \in Below)
  <2>1. Bad \subseteq Nat
    BY SMT
  <2> HIDE DEF Bad
  <2> QED
    BY <1>1, <2>1, WFMin
<1>3. k # 0 /\ k \in 0 .. n /\ k \notin S
  OBVIOUS
<1>4. k - 1 \in 0 .. n - 1 /\ k - 1 + 1 = k /\ k - 1 \in 0 .. n
  BY <1>3, SMT
<1>5. k - 1 \in Bad
  BY <1>3, <1>4
<1>6. <<k - 1, k>> \in Below
  BY <1>3, <1>4, SMT DEF Below
<1> QED
  BY <1>2, <1>5, <1>6

\* f begins with a value and goes on by a step from each value to the next
Runs(f, first, next, len) ==
  f[0] = first /\ \A n \in 1 .. len : f[n] = next[n][f[n - 1]]

(* There is such a function.                                                 *)
LEMMA RunExists ==
  ASSUME NEW len \in Nat, NEW D, NEW first \in D, NEW next \in [1 .. len -> [D -> D]]
  PROVE  \E f \in [0 .. len -> D] : Runs(f, first, next, len)
<1> DEFINE S == {k \in 0 .. len : \E f \in [0 .. k -> D] : Runs(f, first, next, k)}
<1>1. 0 \in S
  <2> DEFINE f == [n \in 0 .. 0 |-> first]
  <2>1. f \in [0 .. 0 -> D] /\ f[0] = first /\ 0 \in 0 .. len
    BY SMT
  <2>2. \A n \in 1 .. 0 : f[n] = next[n][f[n - 1]]
    BY SMT
  <2> HIDE DEF f
  <2> QED BY <2>1, <2>2 DEF Runs
<1>2. ASSUME NEW k \in 0 .. len - 1, k \in S PROVE k + 1 \in S
  <2>1. PICK f \in [0 .. k -> D] : Runs(f, first, next, k)
    BY <1>2
  <2> DEFINE g == [n \in 0 .. k + 1 |-> IF n = k + 1 THEN next[k + 1][f[k]] ELSE f[n]]
  <2>2. f[k] \in D /\ k + 1 \in 1 .. len /\ k + 1 \in 0 .. len /\ k + 1 # 0
    BY <2>1, SMT
  <2>3. next[k + 1][f[k]] \in D
    BY <2>2
  <2>4. g \in [0 .. k + 1 -> D]
    <3> SUFFICES ASSUME NEW n \in 0 .. k + 1, n # k + 1 PROVE f[n] \in D
      BY <2>3
    <3>1. n \in 0 .. k
      BY SMT
    <3> QED BY <2>1, <3>1
  <2>5. g[0] = first
    BY <2>1, <2>2, SMT DEF Runs
  <2>6. ASSUME NEW n \in 1 .. k + 1 PROVE g[n] = next[n][g[n - 1]]
    <3>1. CASE n = k + 1
      <4>1. n \in 0 .. k + 1 /\ n - 1 \in 0 .. k + 1 /\ n - 1 # k + 1 /\ n - 1 = k
        BY <3>1, SMT
      <4> QED BY <3>1, <4>1
    <3>2. CASE n # k + 1
      <4>1. n \in 1 .. k /\ n \in 0 .. k + 1 /\ n - 1 \in 0 .. k + 1 /\ n - 1 # k + 1
        BY <3>2, SMT
      <4>2. g[n] = f[n] /\ g[n - 1] = f[n - 1]
        BY <3>2, <4>1
      <4> QED BY <2>1, <4>1, <4>2 DEF Runs
    <3> QED BY <3>1, <3>2
  <2> HIDE DEF g
  <2> QED BY <2>2, <2>4, <2>5, <2>6 DEF Runs
<1>3. \A k \in 0 .. len : k \in S
  <2> HIDE DEF S
  <2> QED BY <1>1, <1>2, IntervalInduction
<1>4. len \in 0 .. len
  BY SMT
<1> QED BY <1>3, <1>4

----------------------------------------------------------------------------
(* Sums.                                                                    *)

\* The sums of a sequence of numbers, one by one
SumsOf(f, q) ==
  f[0] = 0 /\ \A n \in 1 .. Len(q) : f[n] = f[n - 1] + q[n]

LEMMA SumsIs ==
  ASSUME NEW q \in Seq(Nat)
  PROVE  Sums(q) \in [0 .. Len(q) -> Nat] /\ SumsOf(Sums(q), q)
<1> DEFINE len == Len(q)
           next == [n \in 1 .. len |-> [v \in Nat |-> v + q[n]]]
<1>1. len \in Nat /\ \A n \in 1 .. len : q[n] \in Nat
  OBVIOUS
<1>2. next \in [1 .. len -> [Nat -> Nat]]
  BY <1>1, SMT
<1>3. Len(q) = len /\ \A n \in 1 .. len, v \in Nat : next[n][v] = v + q[n]
  OBVIOUS
<1>4. \E f \in [0 .. len -> Nat] : Runs(f, 0, next, len)
  <2> HIDE DEF next, len
  <2>1. ASSUME NEW first \in Nat PROVE \E f \in [0 .. len -> Nat] : Runs(f, first, next, len)
    BY <1>1, <1>2, RunExists
  <2> QED BY <2>1, SMT
<1>5. ASSUME NEW f \in [0 .. len -> Nat], Runs(f, 0, next, len)
      PROVE  SumsOf(f, q) /\ f = [n \in 0 .. len |-> IF n = 0 THEN 0 ELSE f[n - 1] + q[n]]
  <2> HIDE DEF next, len
  <2>1. ASSUME NEW n \in 1 .. len PROVE f[n] = f[n - 1] + q[n]
    <3>1. n - 1 \in 0 .. len
      BY <1>1, SMT
    <3> QED BY <1>3, <1>5, <3>1 DEF Runs
  <2>2. ASSUME NEW n \in 0 .. len PROVE f[n] = IF n = 0 THEN 0 ELSE f[n - 1] + q[n]
    <3>1. n # 0 => n \in 1 .. len
      BY <1>1, SMT
    <3> QED BY <1>5, <2>1, <3>1 DEF Runs
  <2> QED BY <1>3, <1>5, <2>1, <2>2 DEF SumsOf, Runs
<1> DEFINE F == Sums(q)
<1>6. F = [n \in 0 .. len |-> IF n = 0 THEN 0 ELSE F[n - 1] + q[n]]
  BY <1>4, <1>5 DEF Sums
<1>7. SumsOf(F, q)
  <2>1. 0 \in 0 .. len /\ \A n \in 1 .. len : n \in 0 .. len /\ n # 0
    BY <1>1, SMT
  <2> HIDE DEF F, len
  <2>2. \A n \in 0 .. len : F[n] = IF n = 0 THEN 0 ELSE F[n - 1] + q[n]
    BY <1>6
  <2> QED BY <1>3, <2>1, <2>2 DEF SumsOf
<1>8. \A n \in 0 .. len : F[n] \in Nat
  <2> DEFINE T == {k \in 0 .. len : F[k] \in Nat}
  <2> HIDE DEF F
  <2>1. 0 \in T
    BY <1>1, <1>7, SMT DEF SumsOf
  <2>2. ASSUME NEW k \in 0 .. len - 1, k \in T PROVE k + 1 \in T
    <3>1. k + 1 \in 1 .. len /\ k + 1 \in 0 .. len /\ k + 1 - 1 = k
      BY <1>1, SMT
    <3>2. F[k + 1] = F[k] + q[k + 1] /\ q[k + 1] \in Nat
      BY <1>1, <1>7, <3>1 DEF SumsOf
    <3> QED BY <2>2, <3>1, <3>2, SMT
  <2> HIDE DEF T, len
  <2>3. \A k \in 0 .. len : k \in T
    BY <1>1, <2>1, <2>2, IntervalInduction
  <2> QED BY <2>3 DEF T
<1> QED
  <2> HIDE DEF F
  <2> QED BY <1>6, <1>7, <1>8 DEF F

(* Two sequences that begin alike have the same first sums.                  *)
LEMMA SumsAgree ==
  ASSUME NEW q \in Seq(Nat), NEW r \in Seq(Nat), NEW n \in 0 .. Len(q), n <= Len(r),
         \A i \in 1 .. n : q[i] = r[i]
  PROVE  Sums(q)[n] = Sums(r)[n]
<1> DEFINE T == {k \in 0 .. n : Sums(q)[k] = Sums(r)[k]}
<1>0. n \in Nat /\ Len(q) \in Nat /\ Len(r) \in Nat
  BY SMT
<1>1. SumsOf(Sums(q), q) /\ SumsOf(Sums(r), r)
  BY SumsIs
<1>2. 0 \in T
  BY <1>0, <1>1, SMT DEF SumsOf
<1>3. ASSUME NEW k \in 0 .. n - 1, k \in T PROVE k + 1 \in T
  <2>1. /\ k + 1 \in 1 .. Len(q) /\ k + 1 \in 1 .. Len(r) /\ k + 1 \in 1 .. n
        /\ k + 1 \in 0 .. n /\ k + 1 - 1 = k
    BY <1>0, SMT
  <2> QED BY <1>1, <1>3, <2>1 DEF SumsOf
<1>4. \A k \in 0 .. n : k \in T
  <2> HIDE DEF T
  <2> QED BY <1>0, <1>2, <1>3, IntervalInduction
<1>5. n \in 0 .. n
  BY <1>0, SMT
<1> QED BY <1>4, <1>5

(* A sequence that grows keeps its sums.                                     *)
LEMMA SumsGrow ==
  ASSUME NEW q \in Seq(Nat), NEW r \in Seq(Nat), Len(r) = Len(q) + 1,
         \A i \in 1 .. Len(q) : r[i] = q[i]
  PROVE  /\ \A n \in 0 .. Len(q) : Sums(r)[n] = Sums(q)[n]
         /\ Sums(r)[Len(q) + 1] = Sums(q)[Len(q)] + r[Len(q) + 1]
         /\ Sums(q)[Len(q)] \in Nat
<1>1. Len(q) \in Nat
  BY SMT
<1>2. ASSUME NEW n \in 0 .. Len(q) PROVE Sums(r)[n] = Sums(q)[n]
  <2>1. n <= Len(r) /\ \A i \in 1 .. n : i \in 1 .. Len(q)
    BY <1>1, SMT
  <2> QED BY <2>1, SumsAgree
<1>3. Sums(r)[Len(q) + 1] = Sums(r)[Len(q)] + r[Len(q) + 1]
  <2>1. SumsOf(Sums(r), r)
    BY SumsIs
  <2>2. Len(q) + 1 \in 1 .. Len(r) /\ Len(q) + 1 - 1 = Len(q)
    BY <1>1, SMT
  <2> QED BY <2>1, <2>2 DEF SumsOf
<1>4. Len(q) \in 0 .. Len(q)
  BY <1>1, SMT
<1>5. Sums(q)[Len(q)] \in Nat
  BY <1>4, SumsIs
<1> QED BY <1>2, <1>3, <1>4, <1>5

----------------------------------------------------------------------------
(* Entries and packets, with the time an access takes as a parameter: 0 for  *)
(* what a packet is accounted with, Overhead for what it takes on the wire.  *)

Entries == [reg : {"Low", "High", "Fm", "Dummy"}, delay : 0 .. MaxDelay, at : Nat]
Packets == [entries : Seq(Entries), cycles : Nat]

CostOf(e, o) == e.delay + (IF e.reg = "Dummy" THEN 0 ELSE o)
CostsOf(q, o) == [k \in DOMAIN q |-> CostOf(q[k], o)]
TimesOf(q, o) == Sums(CostsOf(q, o))
LengthOf(q, o) == TimesOf(q, o)[Len(q)]
LengthsOf(sent, o) == [i \in DOMAIN sent |-> LengthOf(sent[i].entries, o)]
BeginsOf(sent, o) == Sums(LengthsOf(sent, o))

LEMMA MaxDelayIs == MaxDelay \in Nat /\ MaxDelay >= 4
BY NetStreamAssumption

LEMMA CostsIs ==
  ASSUME NEW q \in Seq(Entries), NEW o \in Nat
  PROVE  /\ CostsOf(q, o) \in Seq(Nat) /\ Len(CostsOf(q, o)) = Len(q)
         /\ \A i \in 1 .. Len(q) : CostsOf(q, o)[i] = CostOf(q[i], o)
<1>1. ASSUME NEW i \in 1 .. Len(q) PROVE CostOf(q[i], o) \in Nat
  <2>1. q[i] \in Entries
    OBVIOUS
  <2>2. q[i].delay \in Nat
    BY <2>1, MaxDelayIs, SMT DEF Entries
  <2> QED BY <2>2, SMT DEF CostOf
<1> QED BY <1>1, SMT DEF CostsOf

(* The times of the entries of a packet that grows.                          *)
LEMMA TimesGrow ==
  ASSUME NEW q \in Seq(Entries), NEW e \in Entries, NEW o \in Nat
  PROVE  /\ \A n \in 0 .. Len(q) : TimesOf(Append(q, e), o)[n] = TimesOf(q, o)[n]
         /\ TimesOf(Append(q, e), o)[Len(q) + 1] = LengthOf(q, o) + CostOf(e, o)
         /\ LengthOf(Append(q, e), o) = LengthOf(q, o) + CostOf(e, o)
<1> DEFINE r == Append(q, e)
<1>1. /\ r \in Seq(Entries) /\ Len(r) = Len(q) + 1 /\ Len(q) \in Nat
      /\ \A i \in 1 .. Len(q) : r[i] = q[i]
      /\ r[Len(q) + 1] = e
  BY SMT
<1> HIDE DEF r
<1>2. /\ CostsOf(q, o) \in Seq(Nat) /\ Len(CostsOf(q, o)) = Len(q)
      /\ CostsOf(r, o) \in Seq(Nat) /\ Len(CostsOf(r, o)) = Len(q) + 1
      /\ \A i \in 1 .. Len(q) : CostsOf(q, o)[i] = CostOf(q[i], o)
      /\ \A i \in 1 .. Len(r) : CostsOf(r, o)[i] = CostOf(r[i], o)
  BY <1>1, CostsIs
<1>3. /\ \A i \in 1 .. Len(q) : CostsOf(r, o)[i] = CostsOf(q, o)[i]
      /\ CostsOf(r, o)[Len(q) + 1] = CostOf(e, o)
  <2>1. Len(q) + 1 \in 1 .. Len(r) /\ \A i \in 1 .. Len(q) : i \in 1 .. Len(r)
    BY <1>1, SMT
  <2> QED BY <1>1, <1>2, <2>1
<1>4. /\ \A n \in 0 .. Len(q) : TimesOf(r, o)[n] = TimesOf(q, o)[n]
      /\ TimesOf(r, o)[Len(q) + 1] = TimesOf(q, o)[Len(q)] + CostOf(e, o)
  <2> DEFINE a == CostsOf(q, o)
             b == CostsOf(r, o)
  <2>1. a \in Seq(Nat) /\ b \in Seq(Nat) /\ Len(b) = Len(a) + 1
        /\ \A i \in 1 .. Len(a) : b[i] = a[i]
    BY <1>2, <1>3
  <2> HIDE DEF a, b
  <2>2. /\ \A n \in 0 .. Len(a) : Sums(b)[n] = Sums(a)[n]
        /\ Sums(b)[Len(a) + 1] = Sums(a)[Len(a)] + b[Len(a) + 1]
    BY <2>1, SumsGrow
  <2> QED BY <1>2, <1>3, <2>2 DEF TimesOf, a, b
<1> QED BY <1>1, <1>4 DEF r, LengthOf

(* A packet's time is a number, and none for an empty one.                   *)
LEMMA LengthIs ==
  ASSUME NEW o \in Nat
  PROVE  /\ \A q \in Seq(Entries) : LengthOf(q, o) \in Nat
         /\ LengthOf(<< >>, o) = 0
<1>1. ASSUME NEW q \in Seq(Entries)
      PROVE  TimesOf(q, o)[0] = 0 /\ LengthOf(q, o) \in Nat
  <2>1. CostsOf(q, o) \in Seq(Nat) /\ Len(CostsOf(q, o)) = Len(q) /\ Len(q) \in Nat
    BY CostsIs
  <2>2. Sums(CostsOf(q, o)) \in [0 .. Len(q) -> Nat] /\ SumsOf(Sums(CostsOf(q, o)), CostsOf(q, o))
    BY <2>1, SumsIs
  <2>3. Len(q) \in 0 .. Len(q)
    BY <2>1, SMT
  <2> QED BY <2>2, <2>3 DEF SumsOf, TimesOf, LengthOf
<1>2. << >> \in Seq(Entries) /\ Len(<< >>) = 0
  BY EmptySeq
<1> QED BY <1>1, <1>2 DEF LengthOf

LEMMA LengthsIs ==
  ASSUME NEW sent \in Seq(Packets), NEW o \in Nat
  PROVE  /\ LengthsOf(sent, o) \in Seq(Nat) /\ Len(LengthsOf(sent, o)) = Len(sent)
         /\ \A i \in 1 .. Len(sent) : LengthsOf(sent, o)[i] = LengthOf(sent[i].entries, o)
<1>1. \A i \in 1 .. Len(sent) : LengthOf(sent[i].entries, o) \in Nat
  <2> SUFFICES ASSUME NEW i \in 1 .. Len(sent) PROVE LengthOf(sent[i].entries, o) \in Nat
    OBVIOUS
  <2>1. sent[i] \in Packets
    OBVIOUS
  <2>2. sent[i].entries \in Seq(Entries)
    BY <2>1 DEF Packets
  <2> QED BY <2>2, LengthIs
<1> QED BY <1>1, SMT DEF LengthsOf

(* The packets of a step begin one after the other.                          *)
LEMMA BeginsGrow ==
  ASSUME NEW sent \in Seq(Packets), NEW p \in Packets, NEW o \in Nat
  PROVE  /\ \A n \in 0 .. Len(sent) : BeginsOf(Append(sent, p), o)[n] = BeginsOf(sent, o)[n]
         /\ BeginsOf(Append(sent, p), o)[Len(sent) + 1]
              = BeginsOf(sent, o)[Len(sent)] + LengthOf(p.entries, o)
<1> DEFINE r == Append(sent, p)
           a == LengthsOf(sent, o)
           b == LengthsOf(r, o)
<1>1. /\ r \in Seq(Packets) /\ Len(r) = Len(sent) + 1 /\ Len(sent) \in Nat
      /\ \A i \in 1 .. Len(sent) : r[i] = sent[i]
      /\ r[Len(sent) + 1] = p
  BY SMT
<1> HIDE DEF r
<1>2. /\ a \in Seq(Nat) /\ Len(a) = Len(sent)
      /\ b \in Seq(Nat) /\ Len(b) = Len(sent) + 1
      /\ \A i \in 1 .. Len(sent) : a[i] = LengthOf(sent[i].entries, o)
      /\ \A i \in 1 .. Len(r) : b[i] = LengthOf(r[i].entries, o)
  BY <1>1, LengthsIs
<1>3. /\ \A i \in 1 .. Len(sent) : b[i] = a[i]
      /\ b[Len(sent) + 1] = LengthOf(p.entries, o)
  <2>1. Len(sent) + 1 \in 1 .. Len(r) /\ \A i \in 1 .. Len(sent) : i \in 1 .. Len(r)
    BY <1>1, SMT
  <2> HIDE DEF a, b
  <2> QED BY <1>1, <1>2, <2>1
<1> HIDE DEF a, b
<1>4. /\ \A n \in 0 .. Len(a) : Sums(b)[n] = Sums(a)[n]
      /\ Sums(b)[Len(a) + 1] = Sums(a)[Len(a)] + b[Len(a) + 1]
  BY <1>2, <1>3, SumsGrow
<1> QED BY <1>2, <1>3, <1>4 DEF BeginsOf, a, b, r

LEMMA BeginsIs ==
  ASSUME NEW sent \in Seq(Packets), NEW o \in Nat
  PROVE  /\ BeginsOf(sent, o) \in [0 .. Len(sent) -> Nat]
         /\ BeginsOf(sent, o)[0] = 0
<1>1. LengthsOf(sent, o) \in Seq(Nat) /\ Len(LengthsOf(sent, o)) = Len(sent)
  BY LengthsIs
<1> QED BY <1>1, SumsIs DEF SumsOf, BeginsOf

----------------------------------------------------------------------------
(* Streams. What is pending is in one buffer or the other.                   *)

Streams == [last : Nat, spent : Nat, extra : 0 .. MaxDelay, quads : Seq(Entries),
            ex : Seq(Entries), buffered : Nat, frames : Nat, fmSent : BOOLEAN,
            sent : Seq(Packets)]

OneKind(s) == s.quads = << >> \/ s.ex = << >>
Contents(s) == IF s.quads = << >> THEN s.ex ELSE s.quads
Held(s, forEx) == IF forEx THEN s.ex ELSE s.quads

\* An entry with a long delay is the last of its packet
LastLong(q, h) == \A k \in 1 .. Len(q) - 1 : q[k].delay < Big[h]

Whole(p, h) ==
  /\ p.cycles = LengthOf(p.entries, 0)
  /\ Len(p.entries) \in 1 .. MaxEntries
  /\ LastLong(p.entries, h)

\* What is pending makes a packet, and what was sent was one
Counted(s, h) ==
  /\ OneKind(s)
  /\ s.buffered = LengthOf(Contents(s), 0)
  /\ Len(Contents(s)) <= MaxEntries
  /\ LastLong(Contents(s), h)
  /\ Contents(s) = << >> => s.frames = 0
  /\ s.frames < MaxFrames[h]
  /\ \A i \in 1 .. Len(s.sent) : Whole(s.sent[i], h)

\* And no limit is reached yet
Calm(s, h) ==
  /\ Counted(s, h)
  /\ Len(Contents(s)) < MaxEntries
  /\ s.buffered < Threshold[h]
  /\ \A k \in 1 .. Len(Contents(s)) : Contents(s)[k].delay < Big[h]

\* The wire's time when all of a stream is played, and that nothing is late
EndOf(w, s, o) == w + BeginsOf(s.sent, o)[Len(s.sent)] + LengthOf(Contents(s), o)

InTime(from, q, o) ==
  \A k \in 1 .. Len(q) : q[k].reg # "Dummy" => from + TimesOf(q, o)[k] = q[k].at

Heard(w, s, o) ==
  /\ \A i \in 1 .. Len(s.sent) :
       InTime(w + BeginsOf(s.sent, o)[i - 1], s.sent[i].entries, o)
  /\ InTime(w + BeginsOf(s.sent, o)[Len(s.sent)], Contents(s), o)

\* What is pending becomes a packet
Emptied(s) ==
  [s EXCEPT !.sent = Append(@, Packet(Contents(s), s.buffered)),
            !.quads = << >>, !.ex = << >>, !.buffered = 0, !.frames = 0]

LEMMA ConstantsAre ==
  /\ MaxEntries \in Nat /\ MaxEntries > 0
  /\ \A h \in BOOLEAN : /\ MaxFrames[h] \in Nat /\ MaxFrames[h] > 0
                        /\ Threshold[h] \in Nat /\ Threshold[h] > 0 /\ Big[h] \in Nat
  /\ FrameCycles \in Nat /\ FrameCycles > 0
BY SMT, NetStreamAssumption

LEMMA EmptyIs == << >> \in Seq(Entries) /\ Len(<< >>) = 0
BY EmptySeq

(* Streams are told apart by their fields.                                   *)
LEMMA StreamsEqual ==
  ASSUME NEW a \in Streams, NEW b \in Streams,
         a.last = b.last, a.spent = b.spent, a.extra = b.extra, a.quads = b.quads,
         a.ex = b.ex, a.buffered = b.buffered, a.frames = b.frames,
         a.fmSent = b.fmSent, a.sent = b.sent
  PROVE  a = b
<1>1. ASSUME NEW s \in Streams
      PROVE  s = [last |-> s.last, spent |-> s.spent, extra |-> s.extra, quads |-> s.quads,
                  ex |-> s.ex, buffered |-> s.buffered, frames |-> s.frames,
                  fmSent |-> s.fmSent, sent |-> s.sent]
  BY <1>1 DEF Streams
<1>2. /\ a = [last |-> a.last, spent |-> a.spent, extra |-> a.extra, quads |-> a.quads,
              ex |-> a.ex, buffered |-> a.buffered, frames |-> a.frames,
              fmSent |-> a.fmSent, sent |-> a.sent]
      /\ b = [last |-> b.last, spent |-> b.spent, extra |-> b.extra, quads |-> b.quads,
              ex |-> b.ex, buffered |-> b.buffered, frames |-> b.frames,
              fmSent |-> b.fmSent, sent |-> b.sent]
  BY <1>1
<1> QED BY <1>2, Zenon

LEMMA FieldsAre ==
  ASSUME NEW s \in Streams
  PROVE  /\ s.quads \in Seq(Entries) /\ s.ex \in Seq(Entries) /\ s.sent \in Seq(Packets)
         /\ s.last \in Nat /\ s.spent \in Nat /\ s.extra \in 0 .. MaxDelay
         /\ s.buffered \in Nat /\ s.frames \in Nat /\ s.fmSent \in BOOLEAN
         /\ Contents(s) \in Seq(Entries)
BY DEF Streams, Contents

(* A flush sends what is pending, if it is in the buffer that is flushed.    *)
LEMMA FlushIs ==
  ASSUME NEW s \in Streams, OneKind(s), NEW forEx \in BOOLEAN
  PROVE  /\ FlushOf(s, forEx) = IF Held(s, forEx) = << >> THEN s ELSE Emptied(s)
         /\ DoFlush(s) = FlushOf(s, FALSE) /\ DoFlushEx(s) = FlushOf(s, TRUE)
<1> DEFINE sent == Append(s.sent, Packet(Contents(s), s.buffered))
<1>0. sent \in Seq(Packets) /\ << >> \in Seq(Entries) /\ 0 \in Nat
  <2>1. Packet(Contents(s), s.buffered) \in Packets
    BY FieldsAre DEF Packet, Packets
  <2> QED BY <2>1, FieldsAre, EmptyIs, AppendProperties
<1> DEFINE r == [s EXCEPT !.sent = sent, !.quads = << >>, !.ex = << >>, !.buffered = 0,
                          !.frames = 0]
<1>1. ASSUME s.quads # << >> PROVE DoFlush(s) = Emptied(s)
  <2>1. s.ex = << >> /\ Contents(s) = s.quads
    BY <1>1 DEF OneKind, Contents
  <2> DEFINE d == [[s EXCEPT !.sent = sent, !.buffered = 0, !.frames = 0] EXCEPT !.quads = << >>]
  <2>2. DoFlush(s) = d
    BY <1>1, <2>1 DEF DoFlush, Flushed
  <2>3. d = r
    <3> HIDE DEF sent
    <3>1. d \in Streams /\ r \in Streams
      BY <1>0 DEF Streams
    <3>2. /\ d.last = r.last /\ d.spent = r.spent /\ d.extra = r.extra /\ d.quads = r.quads
          /\ d.ex = r.ex /\ d.buffered = r.buffered /\ d.frames = r.frames
          /\ d.fmSent = r.fmSent /\ d.sent = r.sent
      BY <2>1, SMT DEF Streams
    <3> HIDE DEF d, r
    <3> QED BY <3>1, <3>2, StreamsEqual
  <2> QED BY <2>2, <2>3 DEF Emptied
<1>2. ASSUME s.ex # << >> PROVE DoFlushEx(s) = Emptied(s)
  <2>1. s.quads = << >> /\ Contents(s) = s.ex
    BY <1>2 DEF OneKind, Contents
  <2> DEFINE d == [[s EXCEPT !.sent = sent, !.buffered = 0, !.frames = 0] EXCEPT !.ex = << >>]
  <2>2. DoFlushEx(s) = d
    BY <1>2, <2>1 DEF DoFlushEx, Flushed
  <2>3. d = r
    <3> HIDE DEF sent
    <3>1. d \in Streams /\ r \in Streams
      BY <1>0 DEF Streams
    <3>2. /\ d.last = r.last /\ d.spent = r.spent /\ d.extra = r.extra /\ d.quads = r.quads
          /\ d.ex = r.ex /\ d.buffered = r.buffered /\ d.frames = r.frames
          /\ d.fmSent = r.fmSent /\ d.sent = r.sent
      BY <2>1, SMT DEF Streams
    <3> HIDE DEF d, r
    <3> QED BY <3>1, <3>2, StreamsEqual
  <2> QED BY <2>2, <2>3 DEF Emptied
<1>3. s.quads = << >> => DoFlush(s) = s
  BY DEF DoFlush
<1>4. s.ex = << >> => DoFlushEx(s) = s
  BY DEF DoFlushEx
<1> QED BY <1>1, <1>2, <1>3, <1>4 DEF FlushOf, Held

(* The packet is whole, and the buffers are empty behind it.                 *)
LEMMA EmptiedIs ==
  ASSUME NEW s \in Streams, NEW h \in BOOLEAN, Counted(s, h), Contents(s) # << >>
  PROVE  /\ Emptied(s) \in Streams /\ Calm(Emptied(s), h)
         /\ Contents(Emptied(s)) = << >>
         /\ Emptied(s).quads = << >> /\ Emptied(s).ex = << >>
         /\ Emptied(s).last = s.last /\ Emptied(s).spent = s.spent
         /\ Emptied(s).extra = s.extra /\ Emptied(s).fmSent = s.fmSent
         /\ Emptied(s).frames = 0
<1> DEFINE p == Packet(Contents(s), s.buffered)
           r == Emptied(s)
<1>1. /\ Contents(s) \in Seq(Entries) /\ s.sent \in Seq(Packets) /\ s.buffered \in Nat
      /\ Len(Contents(s)) \in Nat /\ Len(Contents(s)) # 0
  <2>1. Contents(s) \in Seq(Entries) /\ s.sent \in Seq(Packets) /\ s.buffered \in Nat
    BY FieldsAre
  <2> QED BY <2>1, EmptySeq
<1>2. p \in Packets /\ p.entries = Contents(s) /\ p.cycles = s.buffered
  BY <1>1 DEF Packet, Packets
<1>3. Whole(p, h)
  BY <1>1, <1>2, ConstantsAre, SMT DEF Whole, Counted
<1> HIDE DEF p
<1>4. /\ r.sent = Append(s.sent, p) /\ r.quads = << >> /\ r.ex = << >>
      /\ r.buffered = 0 /\ r.frames = 0 /\ r.last = s.last /\ r.spent = s.spent
      /\ r.extra = s.extra /\ r.fmSent = s.fmSent
  BY DEF Emptied, Streams, p
<1>5. Append(s.sent, p) \in Seq(Packets)
  BY <1>1, <1>2
<1>6. r \in Streams
  BY <1>4, <1>5, EmptyIs DEF Emptied, Streams, p
<1> HIDE DEF r
<1>7. Contents(r) = << >>
  BY <1>4 DEF Contents
<1>8. \A i \in 1 .. Len(r.sent) : Whole(r.sent[i], h)
  <2> SUFFICES ASSUME NEW i \in 1 .. Len(r.sent) PROVE Whole(r.sent[i], h)
    OBVIOUS
  <2>1. CASE i = Len(s.sent) + 1
    BY <1>1, <1>2, <1>3, <1>4, <2>1, AppendProperties
  <2>2. CASE i # Len(s.sent) + 1
    <3>1. i \in 1 .. Len(s.sent) /\ r.sent[i] = s.sent[i]
      BY <1>1, <1>2, <1>4, <2>2, SMT
    <3> QED BY <3>1 DEF Counted
  <2> QED BY <2>1, <2>2
<1>9. Counted(r, h)
  BY <1>4, <1>7, <1>8, EmptyIs, ConstantsAre, LengthIs, SMT DEF Counted, OneKind, LastLong
<1>10. Calm(r, h)
  BY <1>4, <1>7, <1>9, EmptyIs, ConstantsAre, SMT DEF Calm
<1> QED BY <1>4, <1>6, <1>7, <1>10 DEF r

(* It is played when what was pending would have been.                       *)
LEMMA EmptiedIsHeard ==
  ASSUME NEW s \in Streams, NEW o \in Nat, NEW w \in Nat
  PROVE  /\ EndOf(w, Emptied(s), o) = EndOf(w, s, o)
         /\ Heard(w, s, o) => Heard(w, Emptied(s), o)
<1> DEFINE p == Packet(Contents(s), s.buffered)
           r == Emptied(s)
           n == Len(s.sent)
<1>1. Contents(s) \in Seq(Entries) /\ s.sent \in Seq(Packets) /\ s.buffered \in Nat /\ n \in Nat
  BY FieldsAre
<1>2. p \in Packets /\ p.entries = Contents(s)
  BY <1>1 DEF Packet, Packets
<1>3. r.sent = Append(s.sent, p) /\ Contents(r) = << >>
  BY DEF Emptied, Streams, Contents
<1> HIDE DEF p, r
<1>4. /\ Len(r.sent) = n + 1 /\ r.sent[n + 1] = p
      /\ \A i \in 1 .. n : r.sent[i] = s.sent[i]
  BY <1>1, <1>2, <1>3, AppendProperties
<1> HIDE DEF n
<1>5. /\ \A i \in 0 .. n : BeginsOf(r.sent, o)[i] = BeginsOf(s.sent, o)[i]
      /\ BeginsOf(r.sent, o)[n + 1] = BeginsOf(s.sent, o)[n] + LengthOf(Contents(s), o)
  BY <1>1, <1>2, <1>3, BeginsGrow DEF n
<1>6. BeginsOf(s.sent, o)[n] \in Nat /\ LengthOf(Contents(s), o) \in Nat /\ LengthOf(<< >>, o) = 0
  <2>1. n \in 0 .. n
    BY <1>1, SMT
  <2> QED BY <1>1, <2>1, BeginsIs, LengthIs DEF n
<1>7. EndOf(w, r, o) = EndOf(w, s, o)
  BY <1>3, <1>4, <1>5, <1>6, SMT DEF EndOf, n
<1>8. ASSUME Heard(w, s, o) PROVE Heard(w, r, o)
  <2>1. ASSUME NEW i \in 1 .. n + 1
        PROVE  InTime(w + BeginsOf(r.sent, o)[i - 1], r.sent[i].entries, o)
    <3>1. CASE i = n + 1
      <4>1. i - 1 = n /\ n \in 0 .. n
        BY <1>1, <3>1, SMT
      <4> QED BY <1>2, <1>4, <1>5, <1>8, <3>1, <4>1 DEF Heard, n
    <3>2. CASE i # n + 1
      <4>1. i \in 1 .. n /\ i - 1 \in 0 .. n
        BY <1>1, <3>2, SMT
      <4> QED BY <1>4, <1>5, <1>8, <4>1 DEF Heard, n
    <3> QED BY <3>1, <3>2
  <2>2. InTime(w + BeginsOf(r.sent, o)[Len(r.sent)], Contents(r), o)
    BY <1>3, EmptyIs, SMT DEF InTime
  <2> QED BY <1>4, <2>1, <2>2 DEF Heard
<1> QED BY <1>7, <1>8 DEF r

----------------------------------------------------------------------------
(* What a call does to a stream.                                             *)

\* The same buffers, whatever else differs
Like(s, r) ==
  /\ r.quads = s.quads /\ r.ex = s.ex /\ r.buffered = s.buffered
  /\ r.frames = s.frames /\ r.sent = s.sent

\* The oldest entry that is pending was pending before, or was made at a time
Oldest(s, r, at) ==
  Contents(r) # << >> =>
    \/ r.frames = s.frames /\ Contents(s) # << >> /\ Contents(r)[1] = Contents(s)[1]
    \/ r.frames = 0 /\ Contents(r)[1].at = at

\* The wire is busy for so much longer, and nothing that was in time is late
Follows(s, r, time) ==
  \A w \in Nat : /\ EndOf(w, r, Overhead) = EndOf(w, s, Overhead) + time
                 /\ Heard(w, s, Overhead) => Heard(w, r, Overhead)

\* The same, if what is written is written when the wire is done
Writes(s, r, time, at) ==
  \A w \in Nat :
    /\ EndOf(w, r, Overhead) = EndOf(w, s, Overhead) + time
    /\ Heard(w, s, Overhead) /\ EndOf(w, r, Overhead) = at => Heard(w, r, Overhead)

LEMMA OverheadIs == Overhead \in Nat
BY DEF Overhead

LEMMA LikeIs ==
  ASSUME NEW s \in Streams, NEW r \in Streams, Like(s, r)
  PROVE  /\ Contents(r) = Contents(s)
         /\ \A h \in BOOLEAN : Calm(s, h) => Calm(r, h)
         /\ \A h \in BOOLEAN : Counted(s, h) => Counted(r, h)
         /\ \A at \in Nat : Oldest(s, r, at)
         /\ Follows(s, r, 0)
         /\ \A w \in Nat, o \in Nat : EndOf(w, r, o) = EndOf(w, s, o) /\ EndOf(w, s, o) \in Nat
<1>1. Contents(r) = Contents(s) /\ OneKind(r) = OneKind(s)
  BY DEF Like, Contents, OneKind
<1>2. \A h \in BOOLEAN : Counted(s, h) => Counted(r, h)
  BY <1>1 DEF Like, Counted
<1>3. \A h \in BOOLEAN : Calm(s, h) => Calm(r, h)
  BY <1>1, <1>2 DEF Like, Calm
<1>4. \A w \in Nat, o \in Nat : EndOf(w, r, o) = EndOf(w, s, o) /\ Heard(w, r, o) = Heard(w, s, o)
  BY <1>1 DEF Like, EndOf, Heard
<1>5. ASSUME NEW w \in Nat, NEW o \in Nat PROVE EndOf(w, s, o) \in Nat
  <2>1. Len(s.sent) \in 0 .. Len(s.sent) /\ s.sent \in Seq(Packets) /\ Contents(s) \in Seq(Entries)
    BY FieldsAre, SMT
  <2>2. BeginsOf(s.sent, o)[Len(s.sent)] \in Nat /\ LengthOf(Contents(s), o) \in Nat
    BY <2>1, BeginsIs, LengthIs
  <2> QED BY <2>2, SMT DEF EndOf
<1>6. Follows(s, r, 0)
  BY <1>4, <1>5, OverheadIs, SMT DEF Follows
<1>7. \A at \in Nat : Oldest(s, r, at)
  BY <1>1 DEF Oldest, Like
<1> QED BY <1>1, <1>2, <1>3, <1>4, <1>5, <1>6, <1>7

(* One call after the other.                                                 *)
LEMMA OldestAgain ==
  ASSUME NEW s, NEW r, NEW t, NEW at, Oldest(s, r, at), Oldest(r, t, at)
  PROVE  Oldest(s, t, at)
BY DEF Oldest

LEMMA FollowsAgain ==
  ASSUME NEW s \in Streams, NEW r \in Streams, NEW t \in Streams, NEW a \in Nat, NEW b \in Nat,
         Follows(s, r, a), Follows(r, t, b)
  PROVE  Follows(s, t, a + b)
<1> SUFFICES ASSUME NEW w \in Nat
             PROVE  /\ EndOf(w, t, Overhead) = EndOf(w, s, Overhead) + (a + b)
                    /\ Heard(w, s, Overhead) => Heard(w, t, Overhead)
  BY DEF Follows
<1>1. EndOf(w, s, Overhead) \in Nat
  <2>1. Like(s, s)
    BY DEF Like
  <2> QED BY <2>1, LikeIs, OverheadIs
<1>2. /\ EndOf(w, r, Overhead) = EndOf(w, s, Overhead) + a
      /\ EndOf(w, t, Overhead) = EndOf(w, r, Overhead) + b
  BY DEF Follows
<1> QED BY <1>1, <1>2, SMT DEF Follows

LEMMA WritesAfter ==
  ASSUME NEW s \in Streams, NEW r \in Streams, NEW t \in Streams, NEW a \in Nat, NEW b \in Nat,
         NEW at, Follows(s, r, a), Writes(r, t, b, at)
  PROVE  Writes(s, t, a + b, at)
<1> SUFFICES ASSUME NEW w \in Nat
             PROVE  /\ EndOf(w, t, Overhead) = EndOf(w, s, Overhead) + (a + b)
                    /\ Heard(w, s, Overhead) /\ EndOf(w, t, Overhead) = at => Heard(w, t, Overhead)
  BY DEF Writes
<1>1. EndOf(w, s, Overhead) \in Nat
  <2>1. Like(s, s)
    BY DEF Like
  <2> QED BY <2>1, LikeIs, OverheadIs
<1>2. /\ EndOf(w, r, Overhead) = EndOf(w, s, Overhead) + a
      /\ EndOf(w, t, Overhead) = EndOf(w, r, Overhead) + b
  BY DEF Follows, Writes
<1> QED BY <1>1, <1>2, SMT DEF Follows, Writes

LEMMA WritesBefore ==
  ASSUME NEW s \in Streams, NEW r \in Streams, NEW t \in Streams, NEW b \in Nat,
         NEW at, Writes(s, r, b, at), Follows(r, t, 0)
  PROVE  Writes(s, t, b, at)
<1> SUFFICES ASSUME NEW w \in Nat
             PROVE  /\ EndOf(w, t, Overhead) = EndOf(w, s, Overhead) + b
                    /\ Heard(w, s, Overhead) /\ EndOf(w, t, Overhead) = at => Heard(w, t, Overhead)
  BY DEF Writes
<1>1. EndOf(w, r, Overhead) \in Nat
  <2>1. Like(r, r)
    BY DEF Like
  <2> QED BY <2>1, LikeIs, OverheadIs
<1>2. /\ EndOf(w, r, Overhead) = EndOf(w, s, Overhead) + b
      /\ EndOf(w, t, Overhead) = EndOf(w, r, Overhead) + 0
  BY DEF Follows, Writes
<1>3. EndOf(w, t, Overhead) = EndOf(w, r, Overhead)
  BY <1>1, <1>2, SMT
<1> QED BY <1>2, <1>3 DEF Follows, Writes

(* Flushing a buffer.                                                        *)
LEMMA FlushMoves ==
  ASSUME NEW s \in Streams, NEW h \in BOOLEAN, Counted(s, h), NEW forEx \in BOOLEAN, NEW at \in Nat
  PROVE  /\ FlushOf(s, forEx) \in Streams
         /\ Held(FlushOf(s, forEx), forEx) = << >>
         /\ Held(s, forEx) # << >> => /\ Calm(FlushOf(s, forEx), h)
                                     /\ Contents(FlushOf(s, forEx)) = << >>
         /\ Calm(s, h) => Calm(FlushOf(s, forEx), h)
         /\ Contents(s) = << >> => FlushOf(s, forEx) = s
         /\ FlushOf(s, forEx).last = s.last /\ FlushOf(s, forEx).spent = s.spent
         /\ FlushOf(s, forEx).extra = s.extra /\ FlushOf(s, forEx).fmSent = s.fmSent
         /\ Oldest(s, FlushOf(s, forEx), at) /\ Follows(s, FlushOf(s, forEx), 0)
<1>1. OneKind(s)
  BY DEF Counted
<1>2. FlushOf(s, forEx) = IF Held(s, forEx) = << >> THEN s ELSE Emptied(s)
  BY <1>1, FlushIs
<1>3. CASE Held(s, forEx) = << >>
  <2>1. Like(s, s)
    BY DEF Like
  <2> QED BY <1>2, <1>3, <2>1, LikeIs
<1>4. CASE Held(s, forEx) # << >>
  <2>1. Contents(s) # << >>
    BY <1>1, <1>4 DEF Held, Contents, OneKind
  <2>2. Follows(s, Emptied(s), 0)
    <3> SUFFICES ASSUME NEW w \in Nat
                 PROVE  /\ EndOf(w, Emptied(s), Overhead) = EndOf(w, s, Overhead) + 0
                        /\ Heard(w, s, Overhead) => Heard(w, Emptied(s), Overhead)
      BY DEF Follows
    <3>1. Like(s, s)
      BY DEF Like
    <3>2. EndOf(w, s, Overhead) \in Nat
      BY <3>1, LikeIs, OverheadIs
    <3>3. /\ EndOf(w, Emptied(s), Overhead) = EndOf(w, s, Overhead)
          /\ Heard(w, s, Overhead) => Heard(w, Emptied(s), Overhead)
      BY EmptiedIsHeard, OverheadIs
    <3> QED BY <3>2, <3>3, SMT
  <2>3. Held(Emptied(s), forEx) = << >>
    BY <2>1, EmptiedIs DEF Held
  <2>4. Oldest(s, Emptied(s), at)
    BY <2>1, EmptiedIs DEF Oldest
  <2> QED BY <1>2, <1>4, <2>1, <2>2, <2>3, <2>4, EmptiedIs
<1> QED BY <1>3, <1>4

(* An entry joins the pending ones, of which there are none of the other kind. *)
LEMMA PushIs ==
  ASSUME NEW s \in Streams, NEW h \in BOOLEAN, Calm(s, h), NEW forEx \in BOOLEAN,
         Held(s, ~forEx) = << >>, NEW e \in Entries
  PROVE  /\ Push(s, e, forEx) \in Streams /\ Counted(Push(s, e, forEx), h)
         /\ Contents(Push(s, e, forEx)) = Append(Contents(s), e)
         /\ Contents(Push(s, e, forEx)) # << >>
         /\ Held(Push(s, e, forEx), forEx) = Contents(Push(s, e, forEx))
         /\ Held(Push(s, e, forEx), ~forEx) = << >>
         /\ Push(s, e, forEx).buffered = s.buffered + e.delay
         /\ Push(s, e, forEx).sent = s.sent /\ Push(s, e, forEx).frames = s.frames
         /\ Push(s, e, forEx).last = s.last /\ Push(s, e, forEx).spent = s.spent
         /\ Push(s, e, forEx).extra = s.extra /\ Push(s, e, forEx).fmSent = s.fmSent
<1> DEFINE r == Push(s, e, forEx)
           q == Contents(s)
<1>1. /\ q \in Seq(Entries) /\ Len(q) \in Nat /\ s.quads \in Seq(Entries) /\ s.ex \in Seq(Entries)
      /\ s.buffered \in Nat
  BY FieldsAre
<1>2. e.delay \in Nat
  BY MaxDelayIs, SMT DEF Entries
<1>3. q = Held(s, forEx)
  BY DEF Held, Contents
<1>4. /\ Append(q, e) \in Seq(Entries) /\ Append(q, e) # << >> /\ Len(Append(q, e)) = Len(q) + 1
      /\ \A i \in 1 .. Len(q) : Append(q, e)[i] = q[i]
  BY <1>1, AppendProperties
<1> HIDE DEF q
<1>5. /\ r \in Streams
      /\ r.buffered = s.buffered + e.delay /\ r.sent = s.sent /\ r.frames = s.frames
      /\ r.last = s.last /\ r.spent = s.spent /\ r.extra = s.extra /\ r.fmSent = s.fmSent
      /\ Held(r, forEx) = Append(q, e) /\ Held(r, ~forEx) = << >>
  <2>1. s.buffered + e.delay \in Nat
    BY <1>1, <1>2, SMT
  <2>2. CASE forEx
    BY <1>3, <1>4, <2>1, <2>2 DEF Push, Held, Streams
  <2>3. CASE ~forEx
    BY <1>3, <1>4, <2>1, <2>3 DEF Push, Held, Streams
  <2> QED BY <2>2, <2>3
<1> HIDE DEF r
<1>6. Contents(r) = Append(q, e) /\ OneKind(r)
  BY <1>4, <1>5 DEF Contents, Held, OneKind
<1>7. r.buffered = LengthOf(Contents(r), 0)
  <2>1. LengthOf(Append(q, e), 0) = LengthOf(q, 0) + CostOf(e, 0)
    BY <1>1, TimesGrow
  <2>2. CostOf(e, 0) = e.delay
    BY <1>2, SMT DEF CostOf
  <2> QED BY <1>5, <1>6, <2>1, <2>2 DEF Calm, Counted, q
<1>8. Len(Contents(r)) <= MaxEntries
  BY <1>1, <1>4, <1>6, ConstantsAre, SMT DEF Calm, q
<1>9. LastLong(Contents(r), h)
  <2> SUFFICES ASSUME NEW k \in 1 .. Len(Contents(r)) - 1 PROVE Contents(r)[k].delay < Big[h]
    BY DEF LastLong
  <2>1. k \in 1 .. Len(q)
    BY <1>1, <1>4, <1>6, SMT
  <2> QED BY <1>4, <1>6, <2>1 DEF Calm, q
<1>10. Counted(r, h)
  BY <1>4, <1>5, <1>6, <1>7, <1>8, <1>9 DEF Calm, Counted
<1> QED BY <1>4, <1>5, <1>6, <1>10 DEF q, r

(* It is played behind them.                                                 *)
LEMMA PushIsHeard ==
  ASSUME NEW s \in Streams, NEW r \in Streams, NEW e \in Entries, NEW at \in Nat,
         Contents(r) = Append(Contents(s), e), r.sent = s.sent, r.frames = s.frames, e.at = at,
         Contents(s) = << >> => s.frames = 0
  PROVE  /\ e.reg = "Dummy" => Follows(s, r, e.delay)
         /\ e.reg # "Dummy" => Writes(s, r, e.delay + Overhead, at)
         /\ Oldest(s, r, at)
<1> DEFINE q == Contents(s)
           o == Overhead
<1>1. q \in Seq(Entries) /\ Len(q) \in Nat /\ o \in Nat /\ s.sent \in Seq(Packets)
  BY FieldsAre, OverheadIs
<1>2. /\ Append(q, e) \in Seq(Entries) /\ Append(q, e) # << >> /\ Len(Append(q, e)) = Len(q) + 1
      /\ \A i \in 1 .. Len(q) : Append(q, e)[i] = q[i]
      /\ Append(q, e)[Len(q) + 1] = e
  BY <1>1, AppendProperties
<1>3. /\ \A n \in 0 .. Len(q) : TimesOf(Append(q, e), o)[n] = TimesOf(q, o)[n]
      /\ TimesOf(Append(q, e), o)[Len(q) + 1] = LengthOf(q, o) + CostOf(e, o)
      /\ LengthOf(Append(q, e), o) = LengthOf(q, o) + CostOf(e, o)
  BY <1>1, TimesGrow
<1>4. CostOf(e, o) = IF e.reg = "Dummy" THEN e.delay ELSE e.delay + o
  <2>1. e.delay \in Nat
    BY MaxDelayIs, SMT DEF Entries
  <2> QED BY <1>1, <2>1, SMT DEF CostOf
<1>5. CostOf(e, o) \in Nat /\ LengthOf(q, o) \in Nat /\ BeginsOf(s.sent, o)[Len(s.sent)] \in Nat
  <2>1. e.delay \in Nat /\ Len(s.sent) \in 0 .. Len(s.sent)
    BY <1>1, MaxDelayIs, SMT DEF Entries
  <2>2. LengthOf(q, o) \in Nat
    BY <1>1, LengthIs
  <2>3. BeginsOf(s.sent, o)[Len(s.sent)] \in Nat
    BY <1>1, <2>1, BeginsIs
  <2>4. CostOf(e, o) \in Nat
    BY <1>1, <1>4, <2>1, SMT
  <2> QED BY <2>2, <2>3, <2>4
<1> HIDE DEF q, o
<1>6. ASSUME NEW w \in Nat
      PROVE  EndOf(w, r, o) = EndOf(w, s, o) + CostOf(e, o)
  BY <1>3, <1>5, SMT DEF EndOf, q
<1>7. ASSUME NEW w \in Nat, Heard(w, s, o), e.reg = "Dummy" \/ EndOf(w, r, o) = at
      PROVE  Heard(w, r, o)
  <2> DEFINE from == w + BeginsOf(s.sent, o)[Len(s.sent)]
  <2>1. InTime(from, q, o)
    BY <1>7 DEF Heard, q
  <2>2. InTime(from, Append(q, e), o)
    <3> SUFFICES ASSUME NEW k \in 1 .. Len(q) + 1, Append(q, e)[k].reg # "Dummy"
                 PROVE  from + TimesOf(Append(q, e), o)[k] = Append(q, e)[k].at
      BY <1>2 DEF InTime
    <3>1. CASE k = Len(q) + 1
      <4>1. from + (LengthOf(q, o) + CostOf(e, o)) = EndOf(w, r, o)
        BY <1>3 DEF EndOf, q
      <4> QED BY <1>2, <1>3, <1>7, <3>1, <4>1
    <3>2. CASE k # Len(q) + 1
      <4>1. k \in 1 .. Len(q) /\ k \in 0 .. Len(q)
        BY <1>1, <3>2, SMT
      <4> QED BY <1>2, <1>3, <2>1, <4>1 DEF InTime
    <3> QED BY <3>1, <3>2
  <2> QED BY <1>7, <2>2 DEF Heard, q
<1>8. Oldest(s, r, at)
  <2>1. CASE Contents(s) = << >>
    <3>1. Append(q, e)[1] = e
      BY <1>1, <1>2, <2>1, EmptyIs DEF q
    <3> QED BY <2>1, <3>1 DEF Oldest, q
  <2>2. CASE Contents(s) # << >>
    <3>1. 1 \in 1 .. Len(q)
      <4>1. Len(q) # 0
        BY <1>1, <2>2, EmptySeq DEF q
      <4> QED BY <1>1, <4>1, SMT
    <3> QED BY <1>2, <2>2, <3>1 DEF Oldest, q
  <2> QED BY <2>1, <2>2
<1> QED BY <1>4, <1>6, <1>7, <1>8 DEF Follows, Writes, o

\* The limits on a delay are kept, those on a packet may be reached
Ready(s, h) ==
  /\ Counted(s, h)
  /\ \A k \in 1 .. Len(Contents(s)) : Contents(s)[k].delay < Big[h]

\* No call of the backend but the frame touches these
Same(s, r) == r.last = s.last /\ r.spent = s.spent /\ r.fmSent = s.fmSent

(* A field that the buffers do not depend on.                                *)
LEMMA WithIs ==
  ASSUME NEW s \in Streams
  PROVE  /\ \A x \in 0 .. MaxDelay :
              /\ [s EXCEPT !.extra = x] \in Streams /\ Like(s, [s EXCEPT !.extra = x])
              /\ Same(s, [s EXCEPT !.extra = x]) /\ [s EXCEPT !.extra = x].extra = x
         /\ \A x \in Nat :
              /\ [s EXCEPT !.last = x] \in Streams /\ Like(s, [s EXCEPT !.last = x])
              /\ [s EXCEPT !.last = x].last = x /\ [s EXCEPT !.last = x].spent = s.spent
              /\ [s EXCEPT !.last = x].extra = s.extra /\ [s EXCEPT !.last = x].fmSent = s.fmSent
         /\ /\ [s EXCEPT !.fmSent = TRUE] \in Streams /\ Like(s, [s EXCEPT !.fmSent = TRUE])
            /\ [s EXCEPT !.fmSent = TRUE].last = s.last
            /\ [s EXCEPT !.fmSent = TRUE].spent = s.spent
            /\ [s EXCEPT !.fmSent = TRUE].extra = s.extra
BY DEF Streams, Like, Same

(* An entry in its packet, with its delay looked at.                         *)
LEMMA BigIs ==
  ASSUME server.hardware \in BOOLEAN,
         NEW s \in Streams, Calm(s, server.hardware), NEW forEx \in BOOLEAN,
         Held(s, ~forEx) = << >>, NEW e \in Entries
  PROVE  LET r == FlushIfBig(Push(s, e, forEx), e.delay, forEx) IN
         /\ r \in Streams /\ Ready(r, server.hardware) /\ Held(r, ~forEx) = << >>
         /\ Same(s, r) /\ r.extra = s.extra
         /\ e.reg = "Dummy" => Follows(s, r, e.delay)
         /\ e.reg # "Dummy" => Writes(s, r, e.delay + Overhead, e.at)
         /\ Oldest(s, r, e.at)
<1> DEFINE p == Push(s, e, forEx)
           r == FlushIfBig(p, e.delay, forEx)
           h == server.hardware
<1>1. /\ p \in Streams /\ Counted(p, h)
      /\ Contents(p) = Append(Contents(s), e) /\ Contents(p) # << >>
      /\ Held(p, forEx) = Contents(p) /\ Held(p, ~forEx) = << >>
      /\ p.sent = s.sent /\ p.frames = s.frames /\ Same(s, p) /\ p.extra = s.extra
  BY PushIs DEF Same
<1>2. e.at \in Nat /\ e.delay \in Nat
  BY MaxDelayIs, SMT DEF Entries
<1>3. Contents(s) = << >> => s.frames = 0
  BY DEF Calm, Counted
<1> HIDE DEF p
<1>4. /\ e.reg = "Dummy" => Follows(s, p, e.delay)
      /\ e.reg # "Dummy" => Writes(s, p, e.delay + Overhead, e.at)
      /\ Oldest(s, p, e.at)
  BY <1>1, <1>2, <1>3, PushIsHeard
<1>5. CASE e.delay < Big[h]
  <2>1. r = p
    BY <1>5 DEF FlushIfBig
  <2>2. Contents(s) \in Seq(Entries) /\ Len(Contents(s)) \in Nat
    BY FieldsAre
  <2>3. ASSUME NEW k \in 1 .. Len(Contents(p)) PROVE Contents(p)[k].delay < Big[h]
    <3>1. CASE k = Len(Contents(s)) + 1
      BY <1>1, <1>5, <2>2, <3>1, AppendProperties
    <3>2. CASE k # Len(Contents(s)) + 1
      <4>1. k \in 1 .. Len(Contents(s)) /\ Contents(p)[k] = Contents(s)[k]
        BY <1>1, <2>2, <2>3, <3>2, AppendProperties, SMT
      <4> QED BY <4>1 DEF Calm
    <3> QED BY <3>1, <3>2
  <2> HIDE DEF r
  <2> QED BY <1>1, <1>4, <2>1, <2>3 DEF Ready, p, r
<1>6. CASE ~(e.delay < Big[h])
  <2>1. r = FlushOf(p, forEx)
    BY <1>6 DEF FlushIfBig
  <2>2. /\ r \in Streams /\ Calm(r, h) /\ Contents(r) = << >>
        /\ r.last = p.last /\ r.spent = p.spent /\ r.extra = p.extra /\ r.fmSent = p.fmSent
        /\ Oldest(p, r, e.at) /\ Follows(p, r, 0)
    BY <1>1, <1>2, <2>1, FlushMoves
  <2> HIDE DEF r
  <2>3. Same(s, r) /\ r.extra = s.extra
    BY <1>1, <2>2 DEF Same
  <2>4. Ready(r, h) /\ Held(r, ~forEx) = << >>
    BY <2>2 DEF Calm, Counted, Ready, Held, Contents, OneKind
  <2>5. Oldest(s, r, e.at)
    BY <1>4, <2>2, OldestAgain
  <2>6. e.reg = "Dummy" => Follows(s, r, e.delay)
    <3>1. e.delay + 0 = e.delay
      BY <1>2, SMT
    <3>2. ASSUME Follows(s, p, e.delay) PROVE Follows(s, r, e.delay + 0)
      BY <1>1, <1>2, <2>2, <3>2, FollowsAgain, SMT
    <3> QED BY <1>4, <3>1, <3>2
  <2>7. e.reg # "Dummy" => Writes(s, r, e.delay + Overhead, e.at)
    <3>1. e.delay + Overhead \in Nat
      BY <1>2, OverheadIs, SMT
    <3> QED BY <1>1, <1>4, <2>2, <3>1, WritesBefore
  <2> QED BY <2>2, <2>3, <2>4, <2>5, <2>6, <2>7 DEF p, r
<1> QED BY <1>5, <1>6

(* A packet that is full or late is sent.                                    *)
LEMMA FullIs ==
  ASSUME server.hardware \in BOOLEAN,
         NEW s \in Streams, Ready(s, server.hardware), NEW forEx \in BOOLEAN,
         Held(s, ~forEx) = << >>, NEW at \in Nat
  PROVE  LET r == FlushIfFull(s, forEx) IN
         /\ r \in Streams /\ Calm(r, server.hardware)
         /\ Same(s, r) /\ r.extra = s.extra
         /\ Follows(s, r, 0) /\ Oldest(s, r, at)
         /\ Contents(s) = << >> => r = s
<1> DEFINE h == server.hardware
           full == \/ Len(Held(s, forEx)) >= MaxEntries
                   \/ s.buffered >= Threshold[h]
<1>1. Counted(s, h) /\ Held(s, forEx) = Contents(s)
  BY DEF Ready, Held, Contents, Counted, OneKind
<1>2. FlushIfFull(s, forEx) = IF full THEN FlushOf(s, forEx) ELSE s
  BY DEF FlushIfFull, Held
<1>3. Like(s, s) /\ Same(s, s)
  BY DEF Like, Same
<1>4. Follows(s, s, 0) /\ Oldest(s, s, at)
  BY <1>3, LikeIs
<1>5. ASSUME ~full PROVE Calm(s, h)
  <2>1. Len(Contents(s)) \in Nat /\ s.buffered \in Nat
    BY FieldsAre
  <2>2. Len(Contents(s)) < MaxEntries /\ s.buffered < Threshold[h]
    BY <1>1, <1>5, <2>1, ConstantsAre, SMT
  <2> QED BY <2>2 DEF Ready, Calm
<1>6. CASE ~full
  BY <1>2, <1>3, <1>4, <1>5, <1>6
<1>7. CASE full
  <2>1. FlushIfFull(s, forEx) = FlushOf(s, forEx)
    BY <1>2, <1>7
  <2>2. CASE Contents(s) = << >>
    <3>1. FlushOf(s, forEx) = s
      BY <1>1, <2>2, FlushMoves
    <3>2. Calm(s, h)
      BY <1>1, <2>2, ConstantsAre, LengthIs, EmptyIs, SMT DEF Calm, Counted
    <3> QED BY <1>3, <1>4, <2>1, <3>1, <3>2
  <2>3. CASE Contents(s) # << >>
    BY <1>1, <2>1, <2>3, FlushMoves DEF Same
  <2> QED BY <2>2, <2>3
<1> QED BY <1>6, <1>7

LEMMA EntryIs ==
  ASSUME NEW reg \in {"Low", "High", "Fm", "Dummy"}, NEW delay \in 0 .. MaxDelay, NEW at \in Nat
  PROVE  /\ Entry(reg, delay, at) \in Entries
         /\ Entry(reg, delay, at).reg = reg /\ Entry(reg, delay, at).delay = delay
         /\ Entry(reg, delay, at).at = at
BY DEF Entry, Entries

(* A gap that is too long for one delay only meets empty buffers.            *)
LEMMA AppendDelayIs ==
  ASSUME server.hardware \in BOOLEAN,
         NEW s \in Streams, Calm(s, server.hardware), NEW total \in 0 .. 2 * MaxDelay,
         total <= MaxDelay \/ Contents(s) = << >>, NEW forEx \in BOOLEAN, NEW at \in Nat
  PROVE  LET gap == AppendDelay(s, total, forEx, at)
             r   == gap.stream
         IN  /\ r \in Streams /\ Calm(r, server.hardware) /\ Held(r, ~forEx) = << >>
             /\ gap.rest \in 0 .. MaxDelay /\ gap.rest <= total
             /\ total <= MaxDelay => gap.rest = total
             /\ Same(s, r) /\ r.extra = s.extra
             /\ Follows(s, r, total - gap.rest) /\ Oldest(s, r, at)
             /\ Contents(s) = << >> => Contents(r) = << >>
<1> DEFINE gap == AppendDelay(s, total, forEx, at)
           h == server.hardware
           first == OtherFirst(s, forEx)
<1>0. Counted(s, h) /\ (~forEx) \in BOOLEAN /\ total \in Nat
  <2>1. total \in Nat
    BY MaxDelayIs, SMT
  <2> QED BY <2>1 DEF Calm
<1>1. /\ first \in Streams /\ Calm(first, h) /\ Held(first, ~forEx) = << >>
      /\ Same(s, first) /\ first.extra = s.extra
      /\ Oldest(s, first, at) /\ Follows(s, first, 0)
      /\ Contents(s) = << >> => first = s
  BY <1>0, FlushMoves DEF OtherFirst, Same
<1> HIDE DEF first
<1>2. CASE total <= MaxDelay
  <2>1. ~(total > MaxDelay) /\ total - total = 0 /\ total \in 0 .. MaxDelay /\ total <= total
    BY <1>0, <1>2, MaxDelayIs, SMT
  <2>2. gap.stream = first /\ gap.rest = total
    BY <2>1 DEF AppendDelay, first
  <2> HIDE DEF gap
  <2> QED BY <1>1, <2>1, <2>2 DEF gap
<1>3. CASE ~(total <= MaxDelay)
  <2>1. total > MaxDelay /\ Contents(s) = << >> /\ MaxDelay \in Nat /\ MaxDelay \in 0 .. MaxDelay
    BY <1>0, <1>3, MaxDelayIs, SMT
  <2> DEFINE e == Entry("Dummy", MaxDelay, at)
             p == Push(first, e, FALSE)
  <2>2. gap.stream = DoFlush(p) /\ gap.rest = total - MaxDelay
    BY <2>1 DEF AppendDelay, first
  <2>3. e \in Entries /\ e.reg = "Dummy" /\ e.delay = MaxDelay /\ e.at = at
    BY <2>1, EntryIs
  <2>4. first = s /\ Held(s, TRUE) = << >> /\ Held(s, FALSE) = << >>
    BY <1>0, <1>1, <2>1 DEF Held, Contents
  <2> HIDE DEF e, p
  <2>5. /\ p \in Streams /\ Counted(p, h)
        /\ Contents(p) = Append(Contents(s), e)
        /\ Contents(p) # << >> /\ Held(p, FALSE) = Contents(p)
        /\ p.sent = s.sent /\ p.frames = s.frames /\ Same(s, p) /\ p.extra = s.extra
    BY <2>3, <2>4, PushIs DEF p, Same
  <2>6. Follows(s, p, MaxDelay) /\ Oldest(s, p, at)
    BY <2>3, <2>5, PushIsHeard DEF Calm, Counted
  <2>7. DoFlush(p) = FlushOf(p, FALSE)
    BY <2>5, FlushIs DEF Counted
  <2>8. /\ DoFlush(p) \in Streams /\ Calm(DoFlush(p), h) /\ Contents(DoFlush(p)) = << >>
        /\ Same(p, DoFlush(p)) /\ DoFlush(p).extra = p.extra
        /\ Oldest(p, DoFlush(p), at) /\ Follows(p, DoFlush(p), 0)
    BY <2>5, <2>7, FlushMoves DEF Same
  <2>9. Follows(s, DoFlush(p), MaxDelay + 0) /\ Oldest(s, DoFlush(p), at)
    BY <2>1, <2>5, <2>6, <2>8, OldestAgain, FollowsAgain, SMT
  <2>10. /\ MaxDelay + 0 = total - (total - MaxDelay)
         /\ total - MaxDelay \in 0 .. MaxDelay /\ total - MaxDelay <= total
    BY <1>0, <2>1, SMT
  <2>11. Held(DoFlush(p), ~forEx) = << >>
    BY <2>8 DEF Held, Contents, Calm, Counted, OneKind
  <2>12. Same(s, DoFlush(p)) /\ DoFlush(p).extra = s.extra
    BY <2>5, <2>8 DEF Same
  <2> HIDE DEF gap
  <2> QED BY <1>3, <2>2, <2>8, <2>9, <2>10, <2>11, <2>12 DEF gap
<1> QED BY <1>2, <1>3

(* A write and the gap before it.                                            *)
LEMMA PushWriteIs ==
  ASSUME server.hardware \in BOOLEAN,
         NEW s \in Streams, Calm(s, server.hardware),
         NEW reg \in {"Low", "High", "Fm"}, NEW cycles \in 0 .. MaxDelay,
         s.extra + cycles <= MaxDelay \/ Contents(s) = << >>,
         NEW forEx \in BOOLEAN, NEW at \in Nat
  PROVE  LET r == PushWrite(s, reg, cycles, forEx, at) IN
         /\ r \in Streams /\ Calm(r, server.hardware)
         /\ Same(s, r) /\ r.extra = 0
         /\ Writes(s, r, s.extra + cycles + Overhead, at) /\ Oldest(s, r, at)
<1> DEFINE h == server.hardware
           total == s.extra + cycles
           gap == AppendDelay(s, total, forEx, at)
           g == gap.stream
           z == [g EXCEPT !.extra = 0]
           e == Entry(reg, gap.rest, at)
           b == FlushIfBig(Push(z, e, forEx), gap.rest, forEx)
           r == FlushIfFull(b, forEx)
<1>1. r = PushWrite(s, reg, cycles, forEx, at)
  BY DEF PushWrite
<1>2. total \in 0 .. 2 * MaxDelay /\ total \in Nat
  BY FieldsAre, MaxDelayIs, SMT
<1>3. /\ g \in Streams /\ Calm(g, h) /\ Held(g, ~forEx) = << >>
      /\ gap.rest \in 0 .. MaxDelay /\ gap.rest <= total
      /\ Same(s, g) /\ Follows(s, g, total - gap.rest) /\ Oldest(s, g, at)
  <2> HIDE DEF total
  <2>1. total <= MaxDelay \/ Contents(s) = << >>
    BY DEF total
  <2> QED BY <1>2, <2>1, AppendDelayIs
<1> HIDE DEF total, gap
<1>4. /\ z \in Streams /\ Like(g, z) /\ Same(g, z) /\ z.extra = 0
  <2>1. 0 \in 0 .. MaxDelay
    BY MaxDelayIs, SMT
  <2> QED BY <1>3, <2>1, WithIs
<1> HIDE DEF z
<1>5. Calm(z, h) /\ Held(z, ~forEx) = << >> /\ Follows(g, z, 0) /\ Oldest(g, z, at)
  <2>1. Held(z, ~forEx) = Held(g, ~forEx)
    BY <1>4 DEF Like, Held
  <2> QED BY <1>3, <1>4, <2>1, LikeIs
<1>6. e \in Entries /\ e.reg = reg /\ e.reg # "Dummy" /\ e.delay = gap.rest /\ e.at = at
  BY <1>3, EntryIs
<1> HIDE DEF e, g
<1>7. /\ b \in Streams /\ Ready(b, h) /\ Held(b, ~forEx) = << >>
      /\ Same(z, b) /\ b.extra = 0
      /\ Writes(z, b, gap.rest + Overhead, at) /\ Oldest(z, b, at)
  <2>1. b = FlushIfBig(Push(z, e, forEx), e.delay, forEx)
    BY <1>6
  <2> HIDE DEF b
  <2> QED BY <1>4, <1>5, <1>6, <2>1, BigIs
<1> HIDE DEF b
<1>8. /\ r \in Streams /\ Calm(r, h) /\ Same(b, r) /\ r.extra = b.extra
      /\ Follows(b, r, 0) /\ Oldest(b, r, at)
  BY <1>7, FullIs
<1> HIDE DEF r
<1>9. Oldest(s, r, at)
  BY <1>3, <1>5, <1>7, <1>8, OldestAgain
<1>10. Same(s, r) /\ r.extra = 0
  BY <1>3, <1>4, <1>7, <1>8 DEF Same
<1>11. Writes(s, r, total + Overhead, at)
  <2>1. /\ total - gap.rest \in Nat /\ gap.rest + Overhead \in Nat /\ 0 \in Nat
        /\ total - gap.rest + 0 = total - gap.rest
        /\ (total - gap.rest) + (gap.rest + Overhead) = total + Overhead
    BY <1>2, <1>3, MaxDelayIs, OverheadIs, SMT
  <2>2. Follows(s, z, total - gap.rest)
    <3>1. Follows(s, z, total - gap.rest + 0)
      BY <1>3, <1>4, <1>5, <2>1, FollowsAgain
    <3> QED BY <2>1, <3>1
  <2>3. Writes(z, r, gap.rest + Overhead, at)
    BY <1>4, <1>7, <1>8, <2>1, WritesBefore
  <2>4. Writes(s, r, (total - gap.rest) + (gap.rest + Overhead), at)
    BY <1>4, <1>8, <2>1, <2>2, <2>3, WritesAfter
  <2> QED BY <2>1, <2>4
<1> QED BY <1>1, <1>8, <1>9, <1>10, <1>11 DEF total

(* Idle time. Hardware only waits with empty buffers and keeps what is left,  *)
(* a software server is sent all of it.                                      *)
LEMMA WaitIs ==
  ASSUME server.hardware \in BOOLEAN,
         NEW s \in Streams, Calm(s, server.hardware), NEW cycles \in 0 .. MaxDelay,
         IF server.hardware THEN Contents(s) = << >> ELSE s.extra = 0,
         NEW at \in Nat
  PROVE  LET r == Wait(s, cycles, at) IN
         /\ r \in Streams /\ Calm(r, server.hardware) /\ Same(s, r)
         /\ IF server.hardware THEN Contents(r) = << >> ELSE r.extra = 0
         /\ r.extra <= s.extra + cycles
         /\ Follows(s, r, (s.extra + cycles) - r.extra) /\ Oldest(s, r, at)
<1> DEFINE h == server.hardware
           total == s.extra + cycles
           forEx == ExStream(s)
           gap == AppendDelay(s, total, forEx, at)
           g == gap.stream
           e == Entry("Dummy", gap.rest, at)
           idle == FlushIfBig(Push(g, e, FALSE), gap.rest, FALSE)
           calm == [g EXCEPT !.extra = gap.rest]
           sent == [idle EXCEPT !.extra = 0]
           rest == IF ~h /\ gap.rest > 0 THEN sent ELSE calm
           r == FlushIfFull(rest, FALSE)
<1>1. r = Wait(s, cycles, at)
  BY DEF Wait
<1>2. total \in 0 .. 2 * MaxDelay /\ total \in Nat /\ (~h => total <= MaxDelay)
  BY FieldsAre, MaxDelayIs, SMT
<1>3. forEx \in BOOLEAN /\ (~h => forEx = FALSE)
  BY FieldsAre DEF ExStream
<1>4. total = s.extra + cycles
  OBVIOUS
<1> HIDE DEF total, forEx
<1>5. /\ g \in Streams /\ Calm(g, h) /\ Held(g, ~forEx) = << >>
      /\ gap.rest \in 0 .. MaxDelay /\ gap.rest <= total
      /\ total <= MaxDelay => gap.rest = total
      /\ Same(s, g) /\ Follows(s, g, total - gap.rest) /\ Oldest(s, g, at)
      /\ Contents(s) = << >> => Contents(g) = << >>
  BY <1>2, <1>3, AppendDelayIs
<1>6. Held(g, TRUE) = << >>
  <2>1. CASE h
    BY <1>5, <2>1 DEF Held, Contents, Calm, Counted, OneKind
  <2>2. CASE ~h
    <3>1. (~forEx) = TRUE
      BY <1>3, <2>2
    <3> QED BY <1>5, <3>1
  <2> QED BY <2>1, <2>2
<1>7. total - gap.rest \in Nat /\ gap.rest \in Nat /\ 0 \in 0 .. MaxDelay
  BY <1>2, <1>5, MaxDelayIs, SMT
<1> HIDE DEF gap, g
<1>8. /\ rest \in Streams /\ Ready(rest, h) /\ Held(rest, TRUE) = << >>
      /\ Same(s, rest) /\ rest.extra <= total /\ rest.extra \in Nat
      /\ Follows(s, rest, total - rest.extra) /\ Oldest(s, rest, at)
      /\ IF h THEN Contents(rest) = << >> ELSE rest.extra = 0
  <2>1. CASE ~h /\ gap.rest > 0
    <3>0. rest = sent
      BY <2>1
    <3>1. e \in Entries /\ e.reg = "Dummy" /\ e.delay = gap.rest /\ e.at = at
      BY <1>5, EntryIs
    <3>2. idle = FlushIfBig(Push(g, e, FALSE), e.delay, FALSE)
      BY <3>1
    <3> HIDE DEF idle, e, rest
    <3>3. /\ idle \in Streams /\ Ready(idle, h) /\ Held(idle, TRUE) = << >>
          /\ Same(g, idle)
          /\ Follows(g, idle, gap.rest) /\ Oldest(g, idle, at)
      BY <1>5, <1>6, <3>1, <3>2, BigIs
    <3>4. /\ sent \in Streams /\ Like(idle, sent) /\ Same(idle, sent) /\ sent.extra = 0
      BY <1>7, <3>3, WithIs
    <3> HIDE DEF sent
    <3>5. /\ Follows(idle, sent, 0) /\ Oldest(idle, sent, at)
          /\ Contents(sent) = Contents(idle) /\ Counted(sent, h)
      BY <3>3, <3>4, LikeIs DEF Ready
    <3>6. Ready(sent, h) /\ Held(sent, TRUE) = << >>
      BY <3>3, <3>4, <3>5 DEF Ready, Like, Held
    <3>7. Oldest(s, sent, at) /\ Same(s, sent)
      BY <1>5, <3>3, <3>4, <3>5, OldestAgain DEF Same
    <3>8. /\ ((total - gap.rest) + gap.rest) + 0 = total - 0
          /\ (total - gap.rest) + gap.rest \in Nat
          /\ 0 <= total /\ 0 \in Nat
      BY <1>2, <1>7, SMT
    <3>9. Follows(s, idle, (total - gap.rest) + gap.rest)
      BY <1>5, <1>7, <3>3, FollowsAgain
    <3>10. Follows(s, sent, (total - gap.rest) + gap.rest + 0)
      BY <3>3, <3>4, <3>5, <3>8, <3>9, FollowsAgain
    <3> QED BY <2>1, <3>0, <3>4, <3>6, <3>7, <3>8, <3>10
  <2>2. CASE ~(~h /\ gap.rest > 0)
    <3>0. rest = calm
      BY <2>2
    <3>1. /\ calm \in Streams /\ Like(g, calm) /\ Same(g, calm) /\ calm.extra = gap.rest
      BY <1>5, WithIs
    <3> HIDE DEF calm, rest
    <3>2. /\ Follows(g, calm, 0) /\ Oldest(g, calm, at)
          /\ Contents(calm) = Contents(g) /\ Calm(calm, h)
      BY <1>5, <3>1, LikeIs
    <3>3. Ready(calm, h) /\ Held(calm, TRUE) = << >>
      BY <1>6, <3>1, <3>2 DEF Calm, Ready, Like, Held
    <3>4. Oldest(s, calm, at) /\ Same(s, calm)
      BY <1>5, <3>1, <3>2, OldestAgain DEF Same
    <3>5. Follows(s, calm, total - gap.rest)
      <4>1. total - gap.rest + 0 = total - gap.rest /\ 0 \in Nat
        BY <1>7, SMT
      <4>2. Follows(s, calm, total - gap.rest + 0)
        BY <1>5, <1>7, <3>1, <3>2, <4>1, FollowsAgain
      <4> QED BY <4>1, <4>2
    <3>6. ~h => gap.rest = 0
      BY <1>7, <2>2, SMT
    <3> QED BY <1>5, <1>7, <3>0, <3>1, <3>2, <3>3, <3>4, <3>5, <3>6
  <2> QED BY <2>1, <2>2
<1> HIDE DEF rest
<1>9. /\ r \in Streams /\ Calm(r, h) /\ Same(rest, r) /\ r.extra = rest.extra
      /\ Follows(rest, r, 0) /\ Oldest(rest, r, at)
      /\ Contents(rest) = << >> => r = rest
  BY <1>8, FullIs
<1> HIDE DEF r
<1>10. total - rest.extra \in Nat /\ total - rest.extra + 0 = total - r.extra /\ 0 \in Nat
  BY <1>2, <1>8, <1>9, SMT
<1>11. Follows(s, r, total - rest.extra + 0)
  BY <1>8, <1>9, <1>10, FollowsAgain
<1>12. Oldest(s, r, at) /\ Same(s, r)
  BY <1>8, <1>9, OldestAgain DEF Same
<1>13. IF h THEN Contents(r) = << >> ELSE r.extra = 0
  BY <1>8, <1>9
<1>14. r.extra <= s.extra + cycles
  BY <1>4, <1>8, <1>9
<1>15. Follows(s, r, (s.extra + cycles) - r.extra)
  <2>1. Follows(s, r, total - r.extra)
    BY <1>10, <1>11
  <2> QED BY <1>4, <2>1
<1>16. r \in Streams /\ Calm(r, h)
  BY <1>9
<1> HIDE DEF h
<1> QED
  <2>1. h = server.hardware
    BY DEF h
  <2> QED BY <1>1, <1>12, <1>13, <1>14, <1>15, <1>16, <2>1, Zenon

(* What is left of a gap behind its whole delays.                            *)
LEMMA WaitsIs ==
  ASSUME NEW delta \in Nat
  PROVE  /\ Waits(delta) \in Nat
         /\ delta = 0 => Waits(delta) = 0
         /\ delta > 0 => delta - Waits(delta) * MaxDelay \in 1 .. MaxDelay
         /\ delta <= MaxDelay => Waits(delta) = 0
<1> DEFINE n == (delta - 1) \div MaxDelay
<1>1. CASE delta = 0
  <2>1. Waits(delta) = 0 /\ 0 \in Nat
    BY <1>1 DEF Waits
  <2> QED BY <1>1, <2>1, SMT
<1>2. CASE delta # 0
  <2>1. Waits(delta) = n
    BY <1>2 DEF Waits
  <2>2. delta - 1 \in Nat /\ MaxDelay \in Nat /\ MaxDelay > 0
    BY <1>2, MaxDelayIs, SMT
  <2>3. n \in Nat /\ delta - 1 >= n * MaxDelay /\ delta - 1 < n * MaxDelay + MaxDelay
    <3> DEFINE a == delta - 1
    <3>1. a \in Nat
      BY <2>2
    <3> HIDE DEF a
    <3>2. a \div MaxDelay \in Nat /\ a >= (a \div MaxDelay) * MaxDelay
          /\ a < (a \div MaxDelay) * MaxDelay + MaxDelay
      BY <2>2, <3>1, SMTT(30)
    <3> QED BY <3>2 DEF a
  <2> HIDE DEF n
  <2>4. n * MaxDelay \in Nat
    BY <2>2, <2>3, SMT
  <2>5. delta - n * MaxDelay \in 1 .. MaxDelay
    BY <2>2, <2>3, <2>4, SMT
  <2>6. ASSUME delta <= MaxDelay PROVE n = 0
    <3> SUFFICES ASSUME n >= 1 PROVE FALSE
      BY <2>3, SMT
    <3>1. n * MaxDelay >= MaxDelay
      BY <2>2, <2>3, SMT
    <3> QED BY <2>2, <2>3, <2>4, <2>6, <3>1, SMT
  <2> QED BY <1>2, <2>1, <2>3, <2>5, <2>6
<1> QED BY <1>1, <1>2

(* The whole delays of a gap.                                                *)
LEMMA WaitedIs ==
  ASSUME server.hardware \in BOOLEAN,
         NEW s \in Streams, Calm(s, server.hardware), NEW delta \in Nat,
         Waits(delta) # 0 => server.hardware /\ Contents(s) = << >>,
         NEW at \in Nat
  PROVE  LET r == Waited(s, delta, at) IN
         /\ r \in Streams /\ Calm(r, server.hardware) /\ Same(s, r)
         /\ Waits(delta) = 0 => r = s
         /\ Waits(delta) # 0 => Contents(r) = << >>
         /\ r.extra <= s.extra + Waits(delta) * MaxDelay
         /\ Follows(s, r, (s.extra + Waits(delta) * MaxDelay) - r.extra) /\ Oldest(s, r, at)
<1> DEFINE h == server.hardware
           len == Waits(delta)
           D == {r \in Streams : /\ Calm(r, h) /\ Same(s, r)
                                 /\ len # 0 => Contents(r) = << >>}
           next == [n \in 1 .. len |-> [r \in D |-> Wait(r, MaxDelay, at)]]
           F == CHOOSE f : f = [i \in 0 .. len |->
                                  IF i = 0 THEN s ELSE Wait(f[i - 1], MaxDelay, at)]
<1>1. Waited(s, delta, at) = F[len]
  BY DEF Waited
<1>2. len \in Nat /\ MaxDelay \in Nat /\ MaxDelay \in 0 .. MaxDelay
  BY WaitsIs, MaxDelayIs, SMT
<1>3. len # 0 => h /\ Contents(s) = << >>
  OBVIOUS
<1>4. s \in D
  <2>1. Same(s, s)
    BY DEF Same
  <2> QED BY <1>3, <2>1
<1> HIDE DEF len
<1>5. ASSUME len # 0, NEW x \in D
      PROVE  LET y == Wait(x, MaxDelay, at) IN
             /\ y \in D /\ y.extra <= x.extra + MaxDelay
             /\ Follows(x, y, (x.extra + MaxDelay) - y.extra) /\ Oldest(x, y, at)
  <2>1. x \in Streams /\ Calm(x, h) /\ Same(s, x) /\ h /\ Contents(x) = << >>
    BY <1>3, <1>5
  <2> DEFINE y == Wait(x, MaxDelay, at)
  <2>2. /\ y \in Streams /\ Calm(y, h) /\ Same(x, y) /\ Contents(y) = << >>
        /\ y.extra <= x.extra + MaxDelay
        /\ Follows(x, y, (x.extra + MaxDelay) - y.extra) /\ Oldest(x, y, at)
    BY <1>2, <2>1, WaitIs
  <2> HIDE DEF y
  <2>3. y \in D
    BY <2>1, <2>2 DEF Same
  <2> QED BY <2>2, <2>3 DEF y
<1> HIDE DEF D
<1>6. next \in [1 .. len -> [D -> D]]
  <2>1. ASSUME NEW n \in 1 .. len PROVE len # 0
    BY <1>2, SMT
  <2> QED BY <1>5, <2>1
<1>7. \A n \in 1 .. len, x \in D : next[n][x] = Wait(x, MaxDelay, at)
  OBVIOUS
<1>8. PICK f \in [0 .. len -> D] : Runs(f, s, next, len)
  <2> HIDE DEF next
  <2> QED BY <1>2, <1>4, <1>6, RunExists
<1>9. f = [i \in 0 .. len |-> IF i = 0 THEN s ELSE Wait(f[i - 1], MaxDelay, at)]
  <2> HIDE DEF next
  <2>1. ASSUME NEW i \in 0 .. len, i # 0 PROVE f[i] = Wait(f[i - 1], MaxDelay, at)
    <3>1. i \in 1 .. len /\ i - 1 \in 0 .. len
      BY <1>2, <2>1, SMT
    <3> QED BY <1>7, <1>8, <3>1 DEF Runs
  <2> QED BY <1>8, <2>1 DEF Runs
<1>10. F = [i \in 0 .. len |-> IF i = 0 THEN s ELSE Wait(F[i - 1], MaxDelay, at)]
  BY <1>9
<1> HIDE DEF F, next
<1> DEFINE Good(k) == /\ F[k] \in D /\ F[k].extra <= s.extra + k * MaxDelay
                      /\ Follows(s, F[k], (s.extra + k * MaxDelay) - F[k].extra)
                      /\ Oldest(s, F[k], at)
           T == {k \in 0 .. len : Good(k)}
<1>11. F[0] = s /\ 0 \in 0 .. len
  <2>1. 0 \in 0 .. len
    BY <1>2, SMT
  <2> QED BY <1>10, <2>1
<1>12. 0 \in T
  <2>1. s.extra <= s.extra + 0 * MaxDelay /\ (s.extra + 0 * MaxDelay) - s.extra = 0
    BY <1>2, FieldsAre, SMT
  <2>2. Like(s, s)
    BY DEF Like
  <2>3. Follows(s, s, 0) /\ Oldest(s, s, at)
    BY <2>2, LikeIs
  <2> QED BY <1>4, <1>11, <2>1, <2>3
<1>13. ASSUME NEW k \in 0 .. len - 1, k \in T PROVE k + 1 \in T
  <2>1. /\ k \in 0 .. len /\ k + 1 \in 0 .. len /\ k + 1 # 0 /\ len # 0 /\ (k + 1) - 1 = k
        /\ k \in Nat
    BY <1>2, SMT
  <2> DEFINE x == F[k]
             y == F[k + 1]
             was == k * MaxDelay
  <2>2. y = Wait(x, MaxDelay, at)
    BY <1>10, <2>1
  <2>3. Good(k)
    BY <1>13
  <2>4. /\ y \in D /\ y.extra <= x.extra + MaxDelay
        /\ Follows(x, y, (x.extra + MaxDelay) - y.extra) /\ Oldest(x, y, at)
    BY <1>5, <2>1, <2>2, <2>3
  <2>5. was \in Nat /\ (k + 1) * MaxDelay = was + MaxDelay
    BY <1>2, <2>1, SMT
  <2> HIDE DEF x, y, was
  <2>6. x \in Streams /\ y \in Streams
    BY <2>3, <2>4 DEF D, x
  <2>7. x.extra \in Nat /\ y.extra \in Nat /\ s.extra \in Nat
    BY <1>2, <2>6, FieldsAre, SMT
  <2>8. x.extra <= s.extra + was /\ Follows(s, x, (s.extra + was) - x.extra) /\ Oldest(s, x, at)
    BY <2>3 DEF x, was
  <2>9. /\ (s.extra + was) - x.extra \in Nat /\ (x.extra + MaxDelay) - y.extra \in Nat
        /\ ((s.extra + was) - x.extra) + ((x.extra + MaxDelay) - y.extra)
             = (s.extra + (was + MaxDelay)) - y.extra
        /\ y.extra <= s.extra + (was + MaxDelay)
    <3> DEFINE a == s.extra
               b == x.extra
               c == y.extra
    <3>1. /\ a \in Nat /\ b \in Nat /\ c \in Nat /\ was \in Nat /\ MaxDelay \in Nat
          /\ b <= a + was /\ c <= b + MaxDelay
      BY <1>2, <2>4, <2>5, <2>7, <2>8
    <3> HIDE DEF a, b, c
    <3>2. /\ (a + was) - b \in Nat /\ (b + MaxDelay) - c \in Nat /\ c <= a + (was + MaxDelay)
          /\ ((a + was) - b) + ((b + MaxDelay) - c) = (a + (was + MaxDelay)) - c
      BY <3>1, SMT
    <3> QED BY <3>2 DEF a, b, c
  <2>10. Follows(s, y, ((s.extra + was) - x.extra) + ((x.extra + MaxDelay) - y.extra))
    BY <2>4, <2>6, <2>8, <2>9, FollowsAgain
  <2>11. Oldest(s, y, at)
    BY <2>4, <2>8, OldestAgain
  <2>12. Follows(s, y, (s.extra + (k + 1) * MaxDelay) - y.extra)
    BY <2>5, <2>9, <2>10
  <2>13. y.extra <= s.extra + (k + 1) * MaxDelay
    BY <2>5, <2>9
  <2> QED BY <2>1, <2>4, <2>11, <2>12, <2>13 DEF y
<1>14. Good(len)
  <2>1. len \in 0 .. len
    BY <1>2, SMT
  <2> HIDE DEF T
  <2>2. \A k \in 0 .. len : k \in T
    BY <1>2, <1>12, <1>13, IntervalInduction
  <2> QED BY <2>1, <2>2 DEF T
<1>15. /\ F[len] \in Streams /\ Calm(F[len], h) /\ Same(s, F[len])
       /\ len # 0 => Contents(F[len]) = << >>
  BY <1>14 DEF D
<1>16. len = 0 => F[len] = s
  BY <1>11
<1>17. /\ F[len].extra <= s.extra + len * MaxDelay
       /\ Follows(s, F[len], (s.extra + len * MaxDelay) - F[len].extra)
       /\ Oldest(s, F[len], at)
  BY <1>14
<1> HIDE DEF Good, h
<1> QED
  <2>1. Waited(s, delta, at) = F[len] /\ len = Waits(delta) /\ h = server.hardware
    BY <1>1 DEF len, h
  <2> QED BY <1>15, <1>16, <1>17, <2>1, Zenon

(* Both buffers are sent, of which one is empty.                             *)
LEMMA SendPendingIs ==
  ASSUME NEW s \in Streams, OneKind(s)
  PROVE  SendPending(s) = IF Contents(s) = << >> THEN s ELSE Emptied(s)
<1> DEFINE d == DoFlush(s)
<1>1. d = IF s.quads = << >> THEN s ELSE Emptied(s)
  BY FlushIs DEF Held
<1>2. CASE s.quads = << >>
  BY <1>1, <1>2, FlushIs DEF SendPending, Held, Contents
<1>3. CASE s.quads # << >>
  <2>1. d = Emptied(s) /\ Contents(s) = s.quads
    BY <1>1, <1>3 DEF Contents
  <2>2. d.ex = << >>
    BY <2>1 DEF Emptied, Streams
  <2> HIDE DEF d
  <2>3. DoFlushEx(d) = d
    BY <2>2 DEF DoFlushEx
  <2> QED BY <1>3, <2>1, <2>3 DEF SendPending, d
<1> QED BY <1>2, <1>3

LEMMA SendPendingMoves ==
  ASSUME NEW s \in Streams, NEW h \in BOOLEAN, Calm(s, h), NEW at \in Nat
  PROVE  LET r == SendPending(s) IN
         /\ r \in Streams /\ Calm(r, h) /\ Contents(r) = << >> /\ Same(s, r)
         /\ r.extra = s.extra /\ Follows(s, r, 0) /\ Oldest(s, r, at)
<1> DEFINE forEx == s.quads = << >>
           r == FlushOf(s, forEx)
<1>1. OneKind(s) /\ Counted(s, h) /\ forEx \in BOOLEAN
  BY DEF Calm, Counted
<1>2. Held(s, forEx) = Contents(s)
  BY DEF Held, Contents
<1> HIDE DEF forEx
<1>3. SendPending(s) = r
  BY <1>1, <1>2, SendPendingIs, FlushIs
<1>4. Contents(s) = << >> => r = s
  BY <1>1, FlushMoves
<1>5. Contents(r) = << >>
  BY <1>1, <1>2, <1>4, FlushMoves
<1>6. /\ r \in Streams /\ Calm(r, h) /\ Same(s, r)
      /\ r.extra = s.extra /\ Follows(s, r, 0) /\ Oldest(s, r, at)
  BY <1>1, FlushMoves DEF Same
<1> QED BY <1>3, <1>5, <1>6

\* The server has no such register
Dropped(reg) == reg = "Absent" \/ (reg \in {"High", "Fm"} /\ ~server.v5)

(* A write, unless it is dropped.                                            *)
LEMMA WriteIs ==
  ASSUME server \in [hardware : BOOLEAN, v5 : BOOLEAN],
         NEW s \in Streams, Calm(s, server.hardware),
         NEW reg \in {"Low", "High", "Fm", "Absent"}, NEW cycles \in 0 .. MaxDelay,
         s.extra + cycles <= MaxDelay \/ Contents(s) = << >>, NEW at \in Nat
  PROVE  LET r == Write(s, reg, cycles, at) IN
         /\ r \in Streams /\ Calm(r, server.hardware)
         /\ r.last = s.last /\ r.spent = s.spent
         /\ Dropped(reg) => r = s
         /\ ~Dropped(reg) => r.extra = 0 /\ Writes(s, r, s.extra + cycles + Overhead, at)
         /\ Oldest(s, r, at)
<1> DEFINE h == server.hardware
<1>1. h \in BOOLEAN
  OBVIOUS
<1>2. Oldest(s, s, at)
  <2>1. Like(s, s)
    BY DEF Like
  <2> QED BY <2>1, LikeIs
<1>3. CASE Dropped(reg)
  <2>1. Write(s, reg, cycles, at) = s
    BY <1>3 DEF Write, Dropped
  <2> QED BY <1>2, <1>3, <2>1
<1>4. ASSUME ~Dropped(reg), reg # "Fm" PROVE
        \E forEx \in BOOLEAN : Write(s, reg, cycles, at) = PushWrite(s, reg, cycles, forEx, at)
  <2>1. CASE reg = "Low"
    <3>1. Write(s, reg, cycles, at) = PushWrite(s, reg, cycles, ExStream(s), at)
      BY <2>1 DEF Write
    <3>2. ExStream(s) \in BOOLEAN
      BY FieldsAre DEF ExStream
    <3> QED BY <3>1, <3>2
  <2>2. CASE reg = "High"
    BY <1>4, <2>2 DEF Write, Dropped
  <2> QED BY <1>4, <2>1, <2>2 DEF Dropped
<1>5. CASE ~Dropped(reg) /\ reg # "Fm"
  <2>1. reg \in {"Low", "High", "Fm"}
    BY <1>5 DEF Dropped
  <2>2. PICK forEx \in BOOLEAN :
          Write(s, reg, cycles, at) = PushWrite(s, reg, cycles, forEx, at)
    BY <1>4, <1>5
  <2> DEFINE r == PushWrite(s, reg, cycles, forEx, at)
  <2>3. /\ r \in Streams /\ Calm(r, h)
        /\ Same(s, r) /\ r.extra = 0
        /\ Writes(s, r, s.extra + cycles + Overhead, at) /\ Oldest(s, r, at)
    BY <1>1, <2>1, PushWriteIs
  <2> HIDE DEF r
  <2> QED BY <1>5, <2>2, <2>3 DEF r, Same
<1>6. CASE ~Dropped(reg) /\ reg = "Fm"
  <2> DEFINE sent == SendPending(s)
             marked == [sent EXCEPT !.fmSent = TRUE]
             first == IF s.fmSent THEN s ELSE marked
             r == PushWrite(first, "Fm", cycles, TRUE, at)
  <2>1. Write(s, reg, cycles, at) = r
    BY <1>6 DEF Write, HandleFm, Dropped
  <2>2. /\ first \in Streams /\ Calm(first, h)
        /\ first.last = s.last /\ first.spent = s.spent /\ first.extra = s.extra
        /\ Follows(s, first, 0) /\ Oldest(s, first, at)
        /\ Contents(first) = Contents(s) \/ Contents(first) = << >>
    <3>1. CASE s.fmSent
      <4>1. Like(s, s)
        BY DEF Like
      <4> QED BY <3>1, <4>1, LikeIs
    <3>2. CASE ~s.fmSent
      <4>0. first = marked
        BY <3>2
      <4>1. /\ sent \in Streams /\ Calm(sent, h) /\ Contents(sent) = << >> /\ Same(s, sent)
            /\ sent.extra = s.extra /\ Follows(s, sent, 0) /\ Oldest(s, sent, at)
        BY <1>1, SendPendingMoves
      <4> HIDE DEF sent, first
      <4>2. /\ marked \in Streams /\ Like(sent, marked) /\ marked.last = sent.last
            /\ marked.spent = sent.spent /\ marked.extra = sent.extra
        BY <4>1, WithIs
      <4> HIDE DEF marked
      <4>3. /\ Contents(marked) = Contents(sent) /\ Calm(marked, h)
            /\ Follows(sent, marked, 0) /\ Oldest(sent, marked, at)
        BY <1>1, <4>1, <4>2, LikeIs
      <4>4. Oldest(s, marked, at)
        BY <4>1, <4>3, OldestAgain
      <4>5. Follows(s, marked, 0)
        <5>1. 0 + 0 = 0 /\ 0 \in Nat
          BY SMT
        <5>2. Follows(s, marked, 0 + 0)
          BY <4>1, <4>2, <4>3, <5>1, FollowsAgain
        <5> QED BY <5>1, <5>2
      <4> QED BY <4>0, <4>1, <4>2, <4>3, <4>4, <4>5 DEF Same
    <3> QED BY <3>1, <3>2
  <2> HIDE DEF first
  <2>3. first.extra + cycles <= MaxDelay \/ Contents(first) = << >>
    BY <2>2
  <2>4. /\ r \in Streams /\ Calm(r, h) /\ Same(first, r) /\ r.extra = 0
        /\ Writes(first, r, first.extra + cycles + Overhead, at) /\ Oldest(first, r, at)
    BY <1>1, <2>2, <2>3, PushWriteIs
  <2> HIDE DEF r
  <2>5. Oldest(s, r, at) /\ r.last = s.last /\ r.spent = s.spent
    BY <2>2, <2>4, OldestAgain DEF Same
  <2>6. Writes(s, r, s.extra + cycles + Overhead, at)
    <3>1. /\ s.extra + cycles + Overhead \in Nat /\ 0 \in Nat
          /\ 0 + (s.extra + cycles + Overhead) = s.extra + cycles + Overhead
      BY FieldsAre, MaxDelayIs, OverheadIs, SMT
    <3>2. Writes(first, r, s.extra + cycles + Overhead, at)
      BY <2>2, <2>4
    <3>3. Writes(s, r, 0 + (s.extra + cycles + Overhead), at)
      BY <2>2, <2>4, <3>1, <3>2, WritesAfter
    <3> QED BY <3>1, <3>3
  <2> QED BY <1>6, <2>1, <2>4, <2>5, <2>6
<1> QED BY <1>3, <1>5, <1>6

(* What both buffers hold is what the one in use holds.                      *)
LEMMA PendingIs ==
  ASSUME NEW s \in Streams, OneKind(s)
  PROVE  s.quads \o s.ex = Contents(s)
<1>1. s.quads \in Seq(Entries) /\ s.ex \in Seq(Entries)
  BY FieldsAre
<1>2. CASE s.quads = << >>
  BY <1>1, <1>2, ConcatEmptySeq DEF Contents
<1>3. CASE s.quads # << >> /\ s.ex = << >>
  BY <1>1, <1>3, ConcatEmptySeq DEF Contents
<1> QED BY <1>2, <1>3 DEF OneKind

\* The oldest entry that is pending has seen one more frame end, or was made now
Aged(s, r, at) ==
  Contents(r) # << >> =>
    \/ r.frames = s.frames + 1 /\ Contents(s) # << >> /\ Contents(r)[1] = Contents(s)[1]
    \/ r.frames = 1 /\ Contents(r)[1].at = at

(* The backend's end of a frame.                                             *)
LEMMA FlushFrameIs ==
  ASSUME server.hardware \in BOOLEAN, NEW s \in Streams, Calm(s, server.hardware),
         NEW at \in Nat
  PROVE  LET r == Flush(s) IN
         /\ r \in Streams /\ Calm(r, server.hardware) /\ Same(s, r) /\ r.extra = s.extra
         /\ Follows(s, r, 0)
         /\ Contents(r) # << >> => r.frames = s.frames + 1 /\ Contents(r) = Contents(s)
<1> DEFINE h == server.hardware
           older == [s EXCEPT !.frames = @ + 1]
           late == older.frames >= MaxFrames[h]
<1>1. OneKind(s) /\ s.frames \in Nat
  BY FieldsAre DEF Calm, Counted
<1>2. s.quads \o s.ex = Contents(s)
  BY <1>1, PendingIs
<1>3. Contents(s) = << >> <=> s.quads = << >> /\ s.ex = << >>
  BY <1>1 DEF OneKind, Contents
<1>4. Like(s, s) /\ Same(s, s)
  BY DEF Like, Same
<1>5. older \in Streams /\ OneKind(older) /\ Contents(older) = Contents(s)
  <2>1. s.frames + 1 \in Nat
    BY <1>1, SMT
  <2> QED BY <1>1, <2>1 DEF Streams, OneKind, Contents
<1>6. /\ older.quads = s.quads /\ older.ex = s.ex /\ older.sent = s.sent
      /\ older.buffered = s.buffered /\ older.frames = s.frames + 1
      /\ older.last = s.last /\ older.spent = s.spent /\ older.extra = s.extra
      /\ older.fmSent = s.fmSent
  BY DEF Streams
<1>7. CASE Contents(s) = << >>
  <2>1. Flush(s) = s
    BY <1>3, <1>7 DEF Flush
  <2> QED BY <1>4, <1>7, <2>1, LikeIs
<1>8. CASE Contents(s) # << >> /\ late
  <2>1. Flush(s) = SendPending(older)
    BY <1>2, <1>3, <1>8 DEF Flush, SendPending
  <2>2. SendPending(older) = Emptied(older)
    BY <1>5, <1>8, SendPendingIs
  <2>3. Emptied(older) = Emptied(s)
    <3> DEFINE sent == Append(s.sent, Packet(Contents(s), s.buffered))
               a == [older EXCEPT !.sent = sent, !.quads = << >>, !.ex = << >>,
                                  !.buffered = 0, !.frames = 0]
               b == [s EXCEPT !.sent = sent, !.quads = << >>, !.ex = << >>,
                              !.buffered = 0, !.frames = 0]
    <3>1. Emptied(older) = a /\ Emptied(s) = b
      BY <1>5, <1>6 DEF Emptied, Streams
    <3>2. b \in Streams
      BY <1>8, <3>1, EmptiedIs DEF Calm
    <3>3. sent \in Seq(Packets)
      <4>1. b.sent = sent
        BY DEF Streams
      <4> HIDE DEF b, sent
      <4> QED BY <3>2, <4>1, FieldsAre
    <3> HIDE DEF sent
    <3>4. a \in Streams
      BY <1>5, <3>3, EmptyIs DEF Streams
    <3>5. /\ a.last = b.last /\ a.spent = b.spent /\ a.extra = b.extra /\ a.quads = b.quads
          /\ a.ex = b.ex /\ a.buffered = b.buffered /\ a.frames = b.frames
          /\ a.fmSent = b.fmSent /\ a.sent = b.sent
      BY <1>5, <1>6 DEF Streams
    <3> HIDE DEF a, b
    <3> QED BY <3>1, <3>2, <3>4, <3>5, StreamsEqual
  <2>4. SendPending(s) = Emptied(s)
    BY <1>1, <1>8, SendPendingIs
  <2>5. Flush(s) = SendPending(s)
    BY <2>1, <2>2, <2>3, <2>4
  <2> QED BY <2>5, SendPendingMoves
<1>9. CASE Contents(s) # << >> /\ ~late
  <2>1. Flush(s) = older
    BY <1>2, <1>3, <1>9 DEF Flush
  <2> HIDE DEF older
  <2>2. older.frames < MaxFrames[h]
    BY <1>1, <1>6, <1>9, ConstantsAre, SMT
  <2>3. Calm(older, h)
    BY <1>5, <1>6, <1>9, <2>2 DEF Calm, Counted
  <2>4. Follows(s, older, 0)
    <3> SUFFICES ASSUME NEW w \in Nat
                 PROVE  /\ EndOf(w, older, Overhead) = EndOf(w, s, Overhead) + 0
                        /\ Heard(w, s, Overhead) => Heard(w, older, Overhead)
      BY DEF Follows
    <3>1. EndOf(w, older, Overhead) = EndOf(w, s, Overhead)
      BY <1>5, <1>6 DEF EndOf
    <3>2. EndOf(w, s, Overhead) \in Nat
      BY <1>4, LikeIs, OverheadIs
    <3>3. Heard(w, s, Overhead) => Heard(w, older, Overhead)
      BY <1>5, <1>6 DEF Heard
    <3> QED BY <3>1, <3>2, <3>3, SMT
  <2> QED BY <1>5, <1>6, <2>1, <2>3, <2>4 DEF Same
<1> QED BY <1>7, <1>8, <1>9

(* The end of a frame: a software server is sent the time that passed.       *)
LEMMA FrameEndedIs ==
  ASSUME server.hardware \in BOOLEAN, NEW s \in Streams, Calm(s, server.hardware),
         NEW at \in Nat, s.last <= at,
         ~server.hardware => s.extra = 0 /\ at - s.last <= MaxDelay
  PROVE  LET r == FrameEnded(s, at) IN
         /\ r \in Streams /\ Calm(r, server.hardware)
         /\ r.last = (IF server.hardware THEN s.last ELSE at) /\ r.spent = s.spent
         /\ r.extra = s.extra
         /\ Follows(s, r, r.last - s.last) /\ Aged(s, r, at + s.spent)
         /\ server.hardware /\ Contents(r) # << >> =>
              r.frames = s.frames + 1 /\ Contents(r) = Contents(s)
<1> DEFINE h == server.hardware
           delta == at - s.last
           waited == Waited(s, delta, at + s.spent)
           idle == IF delta = 0 THEN waited
                   ELSE Wait(waited, delta - Waits(delta) * MaxDelay, at + s.spent)
           seen == [idle EXCEPT !.last = at]
           q == IF h THEN s ELSE seen
           r == Flush(q)
<1>1. FrameEnded(s, at) = r
  BY DEF FrameEnded
<1>2. delta \in Nat /\ at + s.spent \in Nat /\ s.last \in Nat /\ s.spent \in Nat
      /\ s.extra \in Nat /\ s.last - s.last = 0
  BY FieldsAre, MaxDelayIs, SMT
<1>3. /\ q \in Streams /\ Calm(q, h) /\ q.last = (IF h THEN s.last ELSE at)
      /\ q.spent = s.spent /\ q.extra = s.extra
      /\ Follows(s, q, q.last - s.last) /\ Oldest(s, q, at + s.spent)
      /\ h => q = s
  <2>1. CASE h
    <3>1. Like(s, s)
      BY DEF Like
    <3> QED BY <1>2, <2>1, <3>1, LikeIs
  <2>2. CASE ~h
    <3>1. q = seen /\ delta <= MaxDelay /\ s.extra = 0
      BY <2>2
    <3> HIDE DEF delta, q
    <3>2. Waits(delta) = 0
      BY <1>2, <3>1, WaitsIs
    <3>3. /\ waited \in Streams /\ Calm(waited, h) /\ Same(s, waited) /\ waited = s
      BY <1>2, <3>2, WaitedIs
    <3>4. /\ idle \in Streams /\ Calm(idle, h) /\ Same(s, idle) /\ idle.extra = 0
          /\ Follows(s, idle, delta) /\ Oldest(s, idle, at + s.spent)
      <4>1. CASE delta = 0
        <5>1. idle = s
          BY <3>3, <4>1
        <5>2. Like(s, s) /\ Same(s, s)
          BY DEF Like, Same
        <5> HIDE DEF idle
        <5> QED BY <1>2, <3>1, <4>1, <5>1, <5>2, LikeIs
      <4>2. CASE delta # 0
        <5> DEFINE x == Wait(s, delta, at + s.spent)
        <5>1. delta - Waits(delta) * MaxDelay = delta /\ delta \in 0 .. MaxDelay
          BY <1>2, <3>1, <3>2, MaxDelayIs, SMT
        <5>2. idle = x
          BY <3>3, <4>2, <5>1
        <5>3. /\ x \in Streams /\ Calm(x, h) /\ Same(s, x) /\ x.extra = 0
              /\ Follows(s, x, (s.extra + delta) - x.extra) /\ Oldest(s, x, at + s.spent)
          BY <1>2, <2>2, <3>1, <5>1, WaitIs
        <5> HIDE DEF x, idle
        <5>4. (s.extra + delta) - x.extra = delta
          BY <1>2, <3>1, <5>3, SMT
        <5> QED BY <5>2, <5>3, <5>4
      <4> QED BY <4>1, <4>2
    <3> HIDE DEF idle
    <3>5. /\ seen \in Streams /\ Like(idle, seen) /\ seen.last = at /\ seen.spent = idle.spent
          /\ seen.extra = idle.extra
      BY <3>4, WithIs
    <3> HIDE DEF seen
    <3>6. /\ Calm(seen, h) /\ Follows(idle, seen, 0) /\ Oldest(idle, seen, at + s.spent)
      <4>1. h \in BOOLEAN
        OBVIOUS
      <4> DEFINE now == at + s.spent
      <4>2. now \in Nat
        BY <1>2
      <4> HIDE DEF h, now
      <4>3. Calm(seen, h) /\ Follows(idle, seen, 0) /\ Oldest(idle, seen, now)
        BY <3>4, <3>5, <4>1, <4>2, LikeIs
      <4> QED BY <4>3 DEF now
    <3>7. Follows(s, seen, delta)
      <4>1. delta + 0 = delta /\ 0 \in Nat
        BY <1>2, SMT
      <4>2. Follows(s, seen, delta + 0)
        BY <1>2, <3>4, <3>5, <3>6, <4>1, FollowsAgain
      <4> QED BY <4>1, <4>2
    <3>8. Oldest(s, seen, at + s.spent)
      BY <3>4, <3>6, OldestAgain
    <3> QED BY <2>2, <3>1, <3>4, <3>5, <3>6, <3>7, <3>8 DEF Same, delta
  <2> QED BY <2>1, <2>2
<1> HIDE DEF q
<1>4. /\ r \in Streams /\ Calm(r, h) /\ Same(q, r) /\ r.extra = q.extra /\ Follows(q, r, 0)
      /\ Contents(r) # << >> => r.frames = q.frames + 1 /\ Contents(r) = Contents(q)
  BY <1>2, <1>3, FlushFrameIs
<1> HIDE DEF r
<1>5. Follows(s, r, r.last - s.last)
  <2>1. q.last - s.last \in Nat /\ (q.last - s.last) + 0 = r.last - s.last /\ 0 \in Nat
    <3>1. q.last = s.last \/ q.last = at
      BY <1>3
    <3>2. q.last \in Nat /\ s.last <= q.last /\ r.last = q.last
      BY <1>2, <1>4, <3>1, SMT DEF Same
    <3> QED BY <1>2, <3>2, SMT
  <2>2. Follows(s, r, (q.last - s.last) + 0)
    BY <1>3, <1>4, <2>1, FollowsAgain
  <2> QED BY <2>1, <2>2
<1>6. Aged(s, r, at + s.spent)
  <2>1. 0 + 1 = 1
    BY SMT
  <2> QED BY <1>3, <1>4, <2>1 DEF Oldest, Aged
<1>7. /\ r.last = (IF h THEN s.last ELSE at) /\ r.spent = s.spent /\ r.extra = s.extra
      /\ h /\ Contents(r) # << >> => r.frames = s.frames + 1 /\ Contents(r) = Contents(s)
  BY <1>3, <1>4 DEF Same
<1> HIDE DEF h
<1> QED
  <2>1. h = server.hardware
    BY DEF h
  <2> QED BY <1>1, <1>4, <1>5, <1>6, <1>7, <2>1, Zenon

(* An access: the wait before it and the write make up the gap.              *)
LEMMA AccessIs ==
  ASSUME server \in [hardware : BOOLEAN, v5 : BOOLEAN],
         NEW s \in Streams, Calm(s, server.hardware),
         NEW reg \in {"Low", "High", "Fm", "Absent"}, NEW at \in Nat, s.last <= at,
         server.hardware => s.last < at,
         ~server.hardware \/ Contents(s) # << >> => s.extra = 0 /\ at - s.last <= MaxDelay
  PROVE  LET r == Access(s, reg, at) IN
         /\ r \in Streams /\ Calm(r, server.hardware)
         /\ r.last = at /\ r.spent = s.spent
         /\ ~server.hardware \/ Contents(r) # << >> => r.extra = 0
         /\ ~Dropped(reg) =>
              r.extra = 0 /\ Writes(s, r, s.extra + (at - s.last), at + s.spent)
         /\ Oldest(s, r, at + s.spent)
<1> DEFINE h == server.hardware
           delta == at - s.last
           now == at + s.spent
           rest == delta - Waits(delta) * MaxDelay
           whole == Waits(delta) * MaxDelay
           cycles == Clamped(rest)
           waited == Waited(s, delta, now)
           seen == [waited EXCEPT !.last = at]
           r == Write(seen, reg, cycles, now)
<1>1. Access(s, reg, at) = r
  BY DEF Access
<1>2. delta \in Nat /\ now \in Nat /\ h \in BOOLEAN /\ s.extra \in Nat
  BY FieldsAre, MaxDelayIs, SMT
<1>3. (h => delta > 0) /\ (~h \/ Contents(s) # << >> => s.extra = 0 /\ delta <= MaxDelay)
  BY FieldsAre, SMT
<1>4. delta = at - s.last /\ now = at + s.spent
  OBVIOUS
<1> HIDE DEF delta, now
<1>5. whole \in Nat /\ rest = delta - whole
  <2>1. Waits(delta) \in Nat
    BY <1>2, WaitsIs
  <2> QED BY <2>1, MaxDelayIs, SMT
<1>6. cycles \in 0 .. MaxDelay /\ cycles + Overhead = delta - whole
  <2>1. CASE delta = 0
    <3>1. whole = 0 /\ rest = 0 /\ ~h
      BY <1>2, <1>3, <2>1, WaitsIs, MaxDelayIs, SMT
    <3>2. Overhead = 0
      BY <3>1 DEF Overhead
    <3>3. cycles = 0
      BY <3>1, <3>2 DEF Clamped
    <3> QED BY <2>1, <3>1, <3>2, <3>3, MaxDelayIs, SMT
  <2>2. CASE delta # 0
    <3>1. rest \in 1 .. MaxDelay
      BY <1>2, <2>2, WaitsIs, SMT
    <3>2. Overhead = 0 \/ Overhead = 1
      BY DEF Overhead
    <3> HIDE DEF rest
    <3>3. cycles \in 0 .. MaxDelay /\ cycles + Overhead = rest
      <4>1. CASE Overhead = 0
        BY <3>1, <4>1, MaxDelayIs, SMT DEF Clamped
      <4>2. CASE Overhead = 1
        BY <3>1, <4>2, MaxDelayIs, SMT DEF Clamped
      <4> QED BY <3>2, <4>1, <4>2
    <3> HIDE DEF cycles
    <3> QED BY <1>5, <3>3
  <2> QED BY <2>1, <2>2
<1> HIDE DEF cycles, rest
<1>7. Waits(delta) # 0 => h /\ Contents(s) = << >>
  BY <1>2, <1>3, WaitsIs
<1>8. /\ waited \in Streams /\ Calm(waited, h) /\ Same(s, waited)
      /\ Waits(delta) = 0 => waited = s
      /\ Waits(delta) # 0 => Contents(waited) = << >>
      /\ waited.extra <= s.extra + whole
      /\ Follows(s, waited, (s.extra + whole) - waited.extra) /\ Oldest(s, waited, now)
  <2> HIDE DEF waited
  <2>1. /\ waited \in Streams /\ Calm(waited, h) /\ Same(s, waited)
        /\ Waits(delta) = 0 => waited = s
        /\ Waits(delta) # 0 => Contents(waited) = << >>
        /\ waited.extra <= s.extra + Waits(delta) * MaxDelay
        /\ Follows(s, waited, (s.extra + Waits(delta) * MaxDelay) - waited.extra)
        /\ Oldest(s, waited, now)
    BY <1>2, <1>7, WaitedIs DEF waited
  <2> QED BY <2>1
<1> HIDE DEF waited, whole
<1>9. /\ seen \in Streams /\ Like(waited, seen) /\ seen.last = at
      /\ seen.spent = waited.spent /\ seen.extra = waited.extra
  <2>1. waited \in Streams
    BY <1>8
  <2> QED BY <2>1, WithIs
<1> HIDE DEF seen
<1>10. /\ Contents(seen) = Contents(waited) /\ Calm(seen, h)
       /\ Follows(waited, seen, 0) /\ Oldest(waited, seen, now)
  <2> HIDE DEF h
  <2> QED BY <1>2, <1>8, <1>9, LikeIs
<1>11. seen.extra \in Nat
  BY <1>9, FieldsAre, MaxDelayIs, SMT
<1>12. seen.extra + cycles <= MaxDelay \/ Contents(seen) = << >>
  <2>1. CASE Waits(delta) # 0
    BY <1>8, <1>10, <2>1
  <2>2. CASE Waits(delta) = 0 /\ Contents(s) # << >>
    <3>1. seen.extra = 0
      BY <1>3, <1>8, <1>9, <2>2
    <3> QED BY <1>6, <3>1, MaxDelayIs, SMT
  <2>3. CASE Waits(delta) = 0 /\ Contents(s) = << >>
    BY <1>8, <1>10, <2>3
  <2> QED BY <2>1, <2>2, <2>3
<1>13. /\ r \in Streams /\ Calm(r, h)
       /\ r.last = seen.last /\ r.spent = seen.spent
       /\ Dropped(reg) => r = seen
       /\ ~Dropped(reg) => r.extra = 0 /\ Writes(seen, r, seen.extra + cycles + Overhead, now)
       /\ Oldest(seen, r, now)
  BY <1>2, <1>6, <1>9, <1>10, <1>12, WriteIs
<1> HIDE DEF r
<1>14. Oldest(s, r, now)
  BY <1>8, <1>10, <1>13, OldestAgain
<1>15. r.last = at /\ r.spent = s.spent
  BY <1>8, <1>9, <1>13 DEF Same
<1>16. ~h \/ Contents(r) # << >> => r.extra = 0
  <2>1. CASE ~Dropped(reg)
    BY <1>13, <2>1
  <2>2. CASE Dropped(reg) /\ Waits(delta) = 0
    <3>1. r = seen /\ seen.extra = s.extra /\ Contents(seen) = Contents(s)
      BY <1>8, <1>9, <1>10, <1>13, <2>2
    <3> QED BY <1>3, <3>1
  <2>3. CASE Dropped(reg) /\ Waits(delta) # 0
    BY <1>7, <1>8, <1>10, <1>13, <2>3
  <2> QED BY <2>1, <2>2, <2>3
<1>17. ASSUME ~Dropped(reg) PROVE Writes(s, r, s.extra + delta, now)
  <2>1. waited.extra <= s.extra + whole /\ waited.extra \in Nat /\ waited.extra = seen.extra
    BY <1>8, <1>9, <1>11
  <2> DEFINE a == (s.extra + whole) - waited.extra
             b == seen.extra + cycles + Overhead
  <2>2. a \in Nat /\ a + 0 = a /\ 0 \in Nat /\ b \in Nat /\ a + b = s.extra + delta
    <3> DEFINE x == s.extra
               y == waited.extra
    <3>1. x \in Nat /\ y \in Nat /\ y <= x + whole /\ seen.extra = y
      BY <1>2, <2>1
    <3> HIDE DEF x, y
    <3>2. /\ (x + whole) - y \in Nat /\ ((x + whole) - y) + 0 = (x + whole) - y
          /\ y + cycles + Overhead \in Nat
          /\ ((x + whole) - y) + (y + cycles + Overhead) = x + delta
      BY <1>2, <1>5, <1>6, <3>1, OverheadIs, MaxDelayIs, SMT
    <3> QED BY <3>1, <3>2 DEF x, y
  <2>3. Follows(s, waited, a) /\ Writes(seen, r, b, now)
    BY <1>8, <1>13, <1>17
  <2> HIDE DEF a, b
  <2>4. Follows(s, seen, a)
    <3>1. Follows(s, seen, a + 0)
      BY <1>8, <1>9, <1>10, <2>2, <2>3, FollowsAgain
    <3> QED BY <2>2, <3>1
  <2>5. Writes(s, r, a + b, now)
    BY <1>9, <1>13, <2>2, <2>3, <2>4, WritesAfter
  <2> QED BY <2>2, <2>5
<1>18. ~Dropped(reg) => r.extra = 0
  BY <1>13
<1> HIDE DEF h
<1> QED
  <2>1. h = server.hardware
    BY DEF h
  <2> QED BY <1>1, <1>4, <1>13, <1>14, <1>15, <1>16, <1>17, <1>18, <2>1, Zenon

----------------------------------------------------------------------------
(* The invariant. Entries that wait were made at the last event or before,   *)
(* no longer ago than the frames say that they have seen; and the time that  *)
(* waits instead only waits behind empty buffers.                            *)

Fits(s, h, now, line) ==
  /\ s.last <= now
  /\ Contents(s) # << >> =>
       /\ s.extra = 0
       /\ Contents(s)[1].at <= s.last + s.spent
       /\ (now + s.spent) - Contents(s)[1].at <= s.frames * FrameCycles + line
  /\ ~h => s.extra = 0 /\ now - s.last <= line

BufferInv ==
  /\ server \in Servers /\ clock \in Nat /\ raster \in 0 .. FrameCycles - 1 /\ wireTime \in Nat
  /\ stream \in Streams /\ Calm(stream, server.hardware)
  /\ Fits(stream, server.hardware, clock, raster)

\* When all is played the wire is where the tune is, but for the time that waits
InStep ==
  /\ Heard(wireTime, stream, Overhead)
  /\ EndOf(wireTime, stream, Overhead) + stream.extra = stream.last + stream.spent

LEMMA ServerIs ==
  ASSUME server \in Servers
  PROVE  server \in [hardware : BOOLEAN, v5 : BOOLEAN] /\ server.hardware \in BOOLEAN
BY NetStreamAssumption

LEMMA HeadIs ==
  ASSUME NEW s \in Streams, Contents(s) # << >>
  PROVE  Contents(s)[1] \in Entries /\ Contents(s)[1].at \in Nat
<1>1. Contents(s) \in Seq(Entries)
  BY FieldsAre
<1> DEFINE q == Contents(s)
<1> HIDE DEF q
<1>2. q \in Seq(Entries) /\ q # << >>
  BY <1>1 DEF q
<1>3. 1 \in 1 .. Len(q)
  <2>1. Len(q) \in Nat /\ Len(q) # 0
    BY <1>2, EmptySeq
  <2> QED BY <2>1, SMT
<1>4. q[1] \in Entries
  BY <1>2, <1>3
<1>5. q[1].at \in Nat
  BY <1>4 DEF Entries
<1> QED BY <1>4, <1>5 DEF q

(* A frame is shorter than the longest delay, and so are the frames that may  *)
(* pass before a packet is sent.                                             *)
LEMMA FramesFit ==
  ASSUME NEW h \in BOOLEAN, NEW frames \in Nat, frames < MaxFrames[h],
         NEW line \in 0 .. FrameCycles - 1
  PROVE  /\ frames * FrameCycles + line < MaxFrames[h] * FrameCycles
         /\ MaxFrames[h] * FrameCycles < MaxDelay
         /\ line < MaxDelay /\ frames * FrameCycles \in Nat
         /\ (frames + 1) * FrameCycles = frames * FrameCycles + FrameCycles
<1>1. /\ MaxFrames[h] \in Nat /\ MaxFrames[h] > 0 /\ FrameCycles \in Nat /\ FrameCycles > 0
      /\ MaxFrames[h] * FrameCycles < MaxDelay
  BY ConstantsAre, NetStreamAssumption
<1> DEFINE m == MaxFrames[h]
<1> HIDE DEF m
<1>2. m \in Nat /\ m * FrameCycles < MaxDelay /\ frames + 1 <= m
  BY <1>1, SMT DEF m
<1>3. (frames + 1) * FrameCycles <= m * FrameCycles
  <2> DEFINE k == m - (frames + 1)
  <2>1. k \in Nat /\ m = (frames + 1) + k
    BY <1>2, SMT
  <2> HIDE DEF k
  <2>2. k * FrameCycles \in Nat
    BY <1>1, <2>1, SMT
  <2>3. m * FrameCycles = (frames + 1) * FrameCycles + k * FrameCycles
    BY <1>1, <2>1, SMT
  <2>4. (frames + 1) * FrameCycles \in Nat
    BY <1>1, SMT
  <2> QED BY <2>2, <2>3, <2>4, SMT
<1>4. (frames + 1) * FrameCycles = frames * FrameCycles + FrameCycles
  BY <1>1, SMT
<1>5. frames * FrameCycles \in Nat
  BY <1>1, SMT
<1>6. m * FrameCycles \in Nat
  BY <1>1, <1>2, SMT
<1> DEFINE a == frames * FrameCycles
           b == m * FrameCycles
<1>7. a \in Nat /\ b \in Nat /\ a + FrameCycles <= b /\ b < MaxDelay
  BY <1>2, <1>3, <1>4, <1>5, <1>6
<1> HIDE DEF a, b
<1>8. a + line < b /\ line < MaxDelay
  BY <1>1, <1>7, MaxDelayIs, SMT
<1> QED BY <1>1, <1>4, <1>5, <1>8 DEF a, b, m

(* Nothing that waits is older than the limit, which is less than a delay.   *)
LEMMA FitsIs ==
  ASSUME NEW s \in Streams, NEW h \in BOOLEAN, Calm(s, h), NEW now \in Nat,
         NEW line \in 0 .. FrameCycles - 1, Fits(s, h, now, line), Contents(s) # << >>
  PROVE  /\ (now + s.spent) - Contents(s)[1].at < MaxFrames[h] * FrameCycles
         /\ now - s.last < MaxDelay
<1>1. s.frames \in Nat /\ s.frames < MaxFrames[h] /\ s.last \in Nat /\ s.spent \in Nat
  BY FieldsAre DEF Calm, Counted
<1> DEFINE a == s.frames * FrameCycles
           b == MaxFrames[h] * FrameCycles
           first == Contents(s)[1].at
<1>2. a + line < b /\ b < MaxDelay /\ a \in Nat
  BY <1>1, FramesFit
<1>3. first \in Nat /\ first <= s.last + s.spent /\ (now + s.spent) - first <= a + line
  BY HeadIs DEF Fits
<1>4. b \in Int
  BY ConstantsAre, SMT
<1> HIDE DEF a, b, first
<1>5. (now + s.spent) - first < b /\ now - s.last < MaxDelay
  <2> DEFINE last == s.last
             spent == s.spent
  <2>1. last \in Nat /\ spent \in Nat /\ first <= last + spent /\ (now + spent) - first <= a + line
    BY <1>1, <1>3
  <2> HIDE DEF last, spent
  <2>2. (now + spent) - first < b /\ now - last < MaxDelay
    BY <1>2, <1>3, <1>4, <2>1, MaxDelayIs, SMT
  <2> QED BY <2>2 DEF last, spent
<1> QED BY <1>5 DEF b, first

(* A step begins with what is on the wire.                                   *)
Fresh(s, x) == [s EXCEPT !.sent = << >>, !.spent = x]

\* The wire's time when a step's packets have been played
WireAfter(w, s, o) == w + BeginsOf(s.sent, o)[Len(s.sent)]

LEMMA FreshIs ==
  ASSUME NEW s \in Streams, NEW x \in Nat
  PROVE  /\ Fresh(s, x) \in Streams /\ Contents(Fresh(s, x)) = Contents(s)
         /\ Fresh(s, x).last = s.last /\ Fresh(s, x).spent = x /\ Fresh(s, x).sent = << >>
         /\ Fresh(s, x).extra = s.extra /\ Fresh(s, x).frames = s.frames
         /\ \A h \in BOOLEAN : Calm(s, h) => Calm(Fresh(s, x), h)
<1> DEFINE r == Fresh(s, x)
<1>1. << >> \in Seq(Packets) /\ Len(<< >>) = 0
  BY EmptySeq
<1>2. /\ r \in Streams /\ r.sent = << >> /\ r.spent = x /\ r.quads = s.quads /\ r.ex = s.ex
      /\ r.last = s.last /\ r.extra = s.extra /\ r.frames = s.frames
      /\ r.buffered = s.buffered
  BY <1>1 DEF Streams, Fresh
<1> HIDE DEF r
<1>3. Contents(r) = Contents(s) /\ OneKind(r) = OneKind(s)
  BY <1>2 DEF Contents, OneKind
<1>4. ASSUME NEW h \in BOOLEAN, Calm(s, h) PROVE Calm(r, h)
  BY <1>1, <1>2, <1>3, <1>4, SMT DEF Calm, Counted
<1> QED BY <1>2, <1>3, <1>4 DEF r

LEMMA FreshIsHeard ==
  ASSUME NEW s \in Streams, NEW o \in Nat, NEW w \in Nat, NEW x \in Nat
  PROVE  /\ WireAfter(w, s, o) \in Nat
         /\ EndOf(WireAfter(w, s, o), Fresh(s, x), o) = EndOf(w, s, o)
         /\ Heard(w, s, o) => Heard(WireAfter(w, s, o), Fresh(s, x), o)
<1> DEFINE r == Fresh(s, x)
           begun == BeginsOf(s.sent, o)[Len(s.sent)]
           end == WireAfter(w, s, o)
<1>1. r.sent = << >> /\ Contents(r) = Contents(s)
  BY FreshIs
<1>2. << >> \in Seq(Packets) /\ Len(<< >>) = 0
  BY EmptySeq
<1>3. begun \in Nat
  <2>1. s.sent \in Seq(Packets) /\ Len(s.sent) \in 0 .. Len(s.sent)
    BY FieldsAre, SMT
  <2> QED BY <2>1, BeginsIs
<1> HIDE DEF r
<1>4. BeginsOf(r.sent, o)[Len(r.sent)] = 0
  BY <1>1, <1>2, BeginsIs
<1>5. end \in Nat /\ end + 0 = end /\ end = w + begun
  <2>1. end = w + begun
    BY DEF WireAfter
  <2> HIDE DEF begun, end
  <2> QED BY <1>3, <2>1, SMT
<1> HIDE DEF end
<1>6. EndOf(end, r, o) = EndOf(w, s, o)
  BY <1>1, <1>4, <1>5 DEF EndOf
<1>7. Heard(w, s, o) => Heard(end, r, o)
  <2>1. \A i \in 1 .. Len(r.sent) : FALSE
    BY <1>1, <1>2, SMT
  <2> QED BY <1>1, <1>4, <1>5, <2>1 DEF Heard
<1> QED BY <1>5, <1>6, <1>7 DEF r, end

LEMMA TimesAre ==
  /\ \A q : Times(q) = TimesOf(q, Overhead)
  /\ \A sent : PacketTimes(sent) = BeginsOf(sent, Overhead)
<1>1. \A q : Times(q) = TimesOf(q, Overhead)
  BY DEF Times, TimesOf, CostsOf, Cost, CostOf
<1>2. \A sent : PacketTimes(sent) = BeginsOf(sent, Overhead)
  BY <1>1 DEF PacketTimes, BeginsOf, LengthsOf, LengthOf
<1> QED BY <1>1, <1>2

(* The frame of a cycle, before the cycle's write.                           *)
LEMMA FramedIs ==
  ASSUME BufferInv
  PROVE  LET end  == WireAfter(wireTime, stream, Overhead)
             line == (raster + 1) % FrameCycles
         IN  /\ Framed \in Streams /\ Calm(Framed, server.hardware)
             /\ line \in 0 .. FrameCycles - 1 /\ end \in Nat
             /\ Fits(Framed, server.hardware, clock + 1, line)
             /\ Framed.spent = stream.spent /\ Framed.extra = stream.extra
             /\ stream.last <= Framed.last
             /\ server.hardware => Framed.last < clock + 1
             /\ EndOf(end, Framed, Overhead)
                  = EndOf(wireTime, stream, Overhead) + (Framed.last - stream.last)
             /\ Heard(wireTime, stream, Overhead) => Heard(end, Framed, Overhead)
<1> DEFINE h == server.hardware
           s == [stream EXCEPT !.sent = << >>]
           z == Fresh(stream, stream.spent)
           end == WireAfter(wireTime, stream, Overhead)
           line == (raster + 1) % FrameCycles
           ended == FrameEnded(s, clock + 1)
           first == Contents(stream)[1]
<1>1. /\ clock \in Nat /\ raster \in 0 .. FrameCycles - 1 /\ wireTime \in Nat
      /\ stream \in Streams /\ Calm(stream, h)
      /\ Fits(stream, h, clock, raster)
  BY DEF BufferInv
<1>2. h \in BOOLEAN /\ Overhead \in Nat
  BY ServerIs, OverheadIs DEF BufferInv
<1>3. /\ stream.last \in Nat /\ stream.spent \in Nat /\ stream.extra \in Nat
      /\ stream.frames \in Nat /\ stream.frames < MaxFrames[h]
      /\ Contents(stream) = << >> => stream.frames = 0
  BY <1>1, FieldsAre, MaxDelayIs, SMT DEF Calm, Counted
<1>4. s = z
  <2>1. << >> \in Seq(Packets)
    BY EmptySeq
  <2>2. s \in Streams /\ z \in Streams
    BY <1>1, <2>1 DEF Streams, Fresh
  <2>3. /\ s.last = z.last /\ s.spent = z.spent /\ s.extra = z.extra /\ s.quads = z.quads
        /\ s.ex = z.ex /\ s.buffered = z.buffered /\ s.frames = z.frames
        /\ s.fmSent = z.fmSent /\ s.sent = z.sent
    BY <1>1 DEF Streams, Fresh
  <2> HIDE DEF s, z
  <2> QED BY <2>2, <2>3, StreamsEqual
<1>5. /\ z \in Streams /\ Calm(z, h) /\ Contents(z) = Contents(stream)
      /\ z.last = stream.last /\ z.spent = stream.spent /\ z.extra = stream.extra
      /\ z.frames = stream.frames
      /\ end \in Nat /\ EndOf(end, z, Overhead) = EndOf(wireTime, stream, Overhead)
      /\ Heard(wireTime, stream, Overhead) => Heard(end, z, Overhead)
  <2>1. /\ stream \in Streams /\ Calm(stream, h) /\ h \in BOOLEAN /\ Overhead \in Nat
        /\ wireTime \in Nat /\ stream.spent \in Nat
    BY <1>1, <1>2, <1>3
  <2> HIDE DEF h
  <2>2. /\ z \in Streams /\ Calm(z, h) /\ Contents(z) = Contents(stream)
        /\ z.last = stream.last /\ z.spent = stream.spent /\ z.extra = stream.extra
        /\ z.frames = stream.frames
    BY <2>1, FreshIs
  <2>3. /\ end \in Nat /\ EndOf(end, z, Overhead) = EndOf(wireTime, stream, Overhead)
        /\ Heard(wireTime, stream, Overhead) => Heard(end, z, Overhead)
    BY <2>1, FreshIsHeard
  <2> QED BY <2>2, <2>3
<1> HIDE DEF z, h
<1>6. EndOf(wireTime, stream, Overhead) \in Nat
  <2>1. Like(stream, stream)
    BY DEF Like
  <2> QED BY <1>1, <1>2, <2>1, LikeIs
<1>7. /\ stream.last <= clock
      /\ Contents(stream) # << >> =>
           /\ stream.extra = 0 /\ first.at \in Nat
           /\ first.at <= stream.last + stream.spent
           /\ (clock + stream.spent) - first.at <= stream.frames * FrameCycles + raster
      /\ ~h => stream.extra = 0 /\ clock - stream.last <= raster
  BY <1>1, HeadIs DEF Fits
<1>8. /\ FrameCycles \in Nat /\ FrameCycles > 0 /\ FrameCycles < MaxDelay
      /\ stream.frames * FrameCycles \in Nat
      /\ (stream.frames + 1) * FrameCycles = stream.frames * FrameCycles + FrameCycles
  <2>1. FrameCycles \in Nat /\ FrameCycles > 0 /\ FrameCycles - 1 \in 0 .. FrameCycles - 1
        /\ 0 \in Nat /\ 0 * FrameCycles = 0 /\ MaxFrames[h] \in Nat /\ 0 < MaxFrames[h]
    BY <1>2, ConstantsAre, SMT
  <2>2. FrameCycles < MaxDelay
    <3>1. 1 * FrameCycles = FrameCycles /\ (0 + 1) * FrameCycles = 0 * FrameCycles + FrameCycles
      BY <2>1, SMT
    <3>2. /\ 0 * FrameCycles + (FrameCycles - 1) < MaxFrames[h] * FrameCycles
          /\ MaxFrames[h] * FrameCycles < MaxDelay
      BY <1>2, <2>1, FramesFit
    <3>3. MaxFrames[h] * FrameCycles \in Nat
      BY <2>1, SMT
    <3> DEFINE b == MaxFrames[h] * FrameCycles
    <3>4. b \in Nat /\ FrameCycles - 1 < b /\ b < MaxDelay
      BY <2>1, <3>2, <3>3, SMT
    <3> HIDE DEF b
    <3> QED BY <2>1, <3>4, MaxDelayIs, SMT
  <2> QED BY <1>1, <1>2, <1>3, <2>1, <2>2, FramesFit
<1>9. CASE raster + 1 = FrameCycles
  <2>1. Framed = FrameEnded(z, clock + 1)
    BY <1>4, <1>9 DEF Framed
  <2>2. line = 0 /\ 0 \in 0 .. FrameCycles - 1
    <3>1. FrameCycles % FrameCycles = 0
      BY <1>8, SMT
    <3> QED BY <1>8, <1>9, <3>1, SMT
  <2>3. /\ clock + 1 \in Nat /\ z.last <= clock + 1
        /\ ~h => z.extra = 0 /\ (clock + 1) - z.last <= MaxDelay
    <3>1. clock \in Nat /\ raster \in Nat
      BY <1>1, <1>8, SMT
    <3>2. z.last = stream.last /\ z.extra = stream.extra
      BY <1>5
    <3>3. stream.last \in Nat /\ stream.extra \in Nat
      BY <1>3
    <3>4. /\ stream.last <= clock
          /\ ~h => stream.extra = 0 /\ clock - stream.last <= raster
      BY <1>7
    <3>5. FrameCycles \in Nat /\ FrameCycles < MaxDelay
      BY <1>8
    <3> HIDE DEF z, h
    <3>6. clock + 1 \in Nat /\ z.last <= clock + 1
      BY <3>1, <3>2, <3>3, <3>4, SMT
    <3>7. ASSUME ~h
          PROVE  z.extra = 0 /\ (clock + 1) - z.last <= MaxDelay
      BY <3>1, <3>2, <3>3, <3>4, <3>5, <3>7, <1>9, MaxDelayIs, SMT
    <3> QED BY <3>6, <3>7
  <2> DEFINE r == FrameEnded(z, clock + 1)
             now == clock + 1
  <2>4. /\ r \in Streams /\ Calm(r, h)
        /\ r.last = (IF h THEN z.last ELSE now) /\ r.spent = z.spent /\ r.extra = z.extra
        /\ Follows(z, r, r.last - z.last) /\ Aged(z, r, now + z.spent)
        /\ h /\ Contents(r) # << >> => r.frames = z.frames + 1 /\ Contents(r) = Contents(z)
    BY <1>2, <1>5, <2>3, FrameEndedIs DEF h
  <2> HIDE DEF r
  <2>5. /\ stream.last <= r.last /\ r.last <= now /\ (h => r.last < now) /\ r.last \in Nat
        /\ now \in Nat
    BY <1>1, <1>3, <1>5, <1>7, <2>4, SMT
  <2>6. /\ EndOf(end, r, Overhead)
             = EndOf(wireTime, stream, Overhead) + (r.last - stream.last)
        /\ Heard(wireTime, stream, Overhead) => Heard(end, r, Overhead)
    BY <1>5, <2>4 DEF Follows
  <2>7. Fits(r, h, now, 0)
    <3>1. ~h => r.extra = 0 /\ now - r.last <= 0
      BY <1>5, <1>7, <2>4, <2>5, SMT
    <3>2. ASSUME Contents(r) # << >>
          PROVE  /\ r.extra = 0 /\ Contents(r)[1].at <= r.last + r.spent
                 /\ (now + r.spent) - Contents(r)[1].at <= r.frames * FrameCycles + 0
      <4>1. CASE /\ r.frames = z.frames + 1 /\ Contents(z) # << >>
                 /\ Contents(r)[1] = Contents(z)[1]
        <5> DEFINE at == first.at
                   old == stream.frames * FrameCycles
        <5>1. /\ r.extra = 0 /\ at \in Nat /\ at <= stream.last + stream.spent
              /\ (clock + stream.spent) - at <= old + raster
              /\ r.spent = stream.spent /\ Contents(r)[1].at = at
              /\ r.frames * FrameCycles = old + FrameCycles /\ old \in Nat
          BY <1>5, <1>7, <1>8, <2>4, <4>1
        <5> HIDE DEF at, old
        <5>2. at <= r.last + r.spent /\ (now + r.spent) - at <= (old + FrameCycles) + 0
          <6> DEFINE spent == stream.spent
                     last == r.last
                     was == stream.last
          <6>1. /\ spent \in Nat /\ last \in Nat /\ was \in Nat /\ was <= last
                /\ at <= was + spent /\ (clock + spent) - at <= old + raster
                /\ r.spent = spent
            BY <1>3, <2>5, <5>1
          <6> HIDE DEF spent, last, was
          <6>2. at <= last + spent /\ (now + spent) - at <= (old + FrameCycles) + 0
            BY <1>1, <1>8, <1>9, <5>1, <6>1, SMT
          <6> QED BY <6>1, <6>2 DEF last
        <5> QED BY <5>1, <5>2
      <4>2. CASE ~h /\ r.frames = 1 /\ Contents(r)[1].at = now + z.spent
        <5>1. r.extra = 0 /\ r.last = now /\ r.spent = stream.spent
          BY <1>5, <1>7, <2>4, <4>2
        <5>2. Contents(r)[1].at = now + stream.spent /\ r.frames = 1
          BY <1>5, <4>2
        <5> DEFINE spent == stream.spent
        <5>3. spent \in Nat
          BY <1>3
        <5> HIDE DEF spent
        <5>4. (now + spent) - (now + spent) <= 1 * FrameCycles + 0 /\ now + spent <= now + spent
          BY <1>8, <2>5, <5>3, SMT
        <5> QED BY <5>1, <5>2, <5>4 DEF spent
      <4> QED BY <2>4, <3>2, <4>1, <4>2 DEF Aged
    <3> QED BY <2>5, <3>1, <3>2 DEF Fits
  <2>8. r.spent = stream.spent /\ r.extra = stream.extra
    BY <1>5, <2>4
  <2> HIDE DEF line, end
  <2> QED BY <1>5, <2>1, <2>2, <2>4, <2>5, <2>6, <2>7, <2>8 DEF r, h, line, end
<1>10. CASE raster + 1 # FrameCycles
  <2>1. Framed = z
    BY <1>4, <1>10 DEF Framed
  <2>2. raster + 1 \in 0 .. FrameCycles - 1
    BY <1>1, <1>8, <1>10, SMT
  <2>3. line = raster + 1
    BY <1>8, <2>2, SMT
  <2>4. Fits(z, h, clock + 1, raster + 1)
    <3>1. z.last <= clock + 1 /\ (~h => z.extra = 0 /\ (clock + 1) - z.last <= raster + 1)
      BY <1>1, <1>3, <1>5, <1>7, SMT
    <3>2. ASSUME Contents(z) # << >>
          PROVE  /\ z.extra = 0 /\ Contents(z)[1].at <= z.last + z.spent
                 /\ ((clock + 1) + z.spent) - Contents(z)[1].at
                      <= z.frames * FrameCycles + (raster + 1)
      <4> DEFINE at == first.at
                 old == stream.frames * FrameCycles
                 spent == stream.spent
      <4>1. /\ z.extra = 0 /\ at \in Nat /\ at <= stream.last + stream.spent
            /\ (clock + spent) - at <= old + raster
            /\ z.spent = spent /\ spent \in Nat /\ Contents(z)[1].at = at
            /\ z.frames * FrameCycles = old /\ old \in Nat
        BY <1>3, <1>5, <1>7, <1>8, <3>2
      <4> HIDE DEF at, old, spent
      <4>2. ((clock + 1) + spent) - at <= old + (raster + 1)
        BY <1>1, <4>1, SMT
      <4> QED BY <1>5, <4>1, <4>2
    <3> QED BY <3>1, <3>2 DEF Fits
  <2>5. z.last < clock + 1 /\ stream.last <= z.last
    BY <1>1, <1>3, <1>5, <1>7, SMT
  <2>6. EndOf(end, z, Overhead) = EndOf(wireTime, stream, Overhead) + (z.last - stream.last)
    BY <1>3, <1>5, <1>6, SMT
  <2> HIDE DEF line, end
  <2> QED BY <1>5, <2>1, <2>2, <2>3, <2>4, <2>5, <2>6 DEF h, line, end
<1> QED BY <1>9, <1>10

\* No write of the tune goes to a register that the server does not have
NothingDropped ==
  \A s \in Servers, reg \in Accesses : reg # "Absent" /\ (reg \in {"High", "Fm"} => s.v5)

Registers == {"Low", "High", "Fm", "Absent"}

(* An access leaves what fits.                                               *)
LEMMA AccessFits ==
  ASSUME server \in Servers, NEW s \in Streams, Calm(s, server.hardware),
         NEW now \in Nat, NEW line \in 0 .. FrameCycles - 1,
         Fits(s, server.hardware, now, line), server.hardware => s.last < now,
         NEW reg \in Registers
  PROVE  LET r == Access(s, reg, now) IN
         /\ r \in Streams /\ Calm(r, server.hardware) /\ Fits(r, server.hardware, now, line)
         /\ r.last = now /\ r.spent = s.spent
         /\ ~Dropped(reg) =>
              r.extra = 0 /\ Writes(s, r, s.extra + (now - s.last), now + s.spent)
<1> DEFINE h == server.hardware
           r == Access(s, reg, now)
           first == Contents(s)[1]
<1>1. server \in [hardware : BOOLEAN, v5 : BOOLEAN] /\ h \in BOOLEAN
  BY ServerIs
<1>2. /\ s.last <= now /\ (~h => s.extra = 0 /\ now - s.last <= line)
      /\ s.last \in Nat /\ s.spent \in Nat /\ s.frames \in Nat /\ s.frames < MaxFrames[h]
      /\ Contents(s) = << >> => s.frames = 0
  BY FieldsAre DEF Fits, Calm, Counted
<1>3. line < MaxDelay /\ line \in Nat /\ s.frames * FrameCycles \in Nat
  <2>1. line \in Nat
    BY ConstantsAre, SMT
  <2> QED BY <1>1, <1>2, <2>1, FramesFit
<1>4. ~h \/ Contents(s) # << >> => s.extra = 0 /\ now - s.last <= MaxDelay
  <2>1. CASE ~h
    BY <1>2, <1>3, <2>1, MaxDelayIs, SMT
  <2>2. CASE Contents(s) # << >>
    <3>1. now - s.last < MaxDelay /\ s.extra = 0
      <4> HIDE DEF h
      <4>1. now - s.last < MaxDelay
        BY <1>1, <2>2, FitsIs DEF h
      <4> QED BY <2>2, <4>1 DEF Fits
    <3> QED BY <1>2, <3>1, MaxDelayIs, SMT
  <2> QED BY <2>1, <2>2
<1>5. /\ r \in Streams /\ Calm(r, h)
      /\ r.last = now /\ r.spent = s.spent
      /\ ~h \/ Contents(r) # << >> => r.extra = 0
      /\ ~Dropped(reg) => r.extra = 0 /\ Writes(s, r, s.extra + (now - s.last), now + s.spent)
      /\ Oldest(s, r, now + s.spent)
  BY <1>1, <1>2, <1>4, AccessIs DEF Registers
<1> HIDE DEF r, h
<1>6. Fits(r, h, now, line)
  <2>1. r.last <= now /\ (~h => r.extra = 0 /\ now - r.last <= line)
    BY <1>3, <1>5, SMT
  <2>2. ASSUME Contents(r) # << >>
        PROVE  /\ r.extra = 0 /\ Contents(r)[1].at <= r.last + r.spent
               /\ (now + r.spent) - Contents(r)[1].at <= r.frames * FrameCycles + line
    <3>1. CASE /\ r.frames = s.frames /\ Contents(s) # << >>
               /\ Contents(r)[1] = Contents(s)[1]
      <4>1. /\ first.at \in Nat /\ first.at <= s.last + s.spent
            /\ (now + s.spent) - first.at <= s.frames * FrameCycles + line
        BY <3>1, HeadIs DEF Fits, h
      <4> DEFINE spent == s.spent
                 at == first.at
                 last == s.last
      <4>2. at \in Nat /\ at <= last + spent /\ spent \in Nat /\ last \in Nat /\ last <= now
        BY <1>2, <4>1
      <4> HIDE DEF spent, at, last
      <4>3. at <= now + spent
        BY <4>2, SMT
      <4> QED BY <1>5, <2>2, <3>1, <4>1, <4>3 DEF spent, at
    <3>2. CASE r.frames = 0 /\ Contents(r)[1].at = now + s.spent
      <4> DEFINE spent == s.spent
      <4>1. spent \in Nat
        BY <1>2
      <4> HIDE DEF spent
      <4>2. /\ now + spent <= now + spent
            /\ (now + spent) - (now + spent) <= 0 * FrameCycles + line
        BY <1>3, <4>1, ConstantsAre, SMT
      <4> QED BY <1>5, <2>2, <3>2, <4>2 DEF spent
    <3> QED BY <1>5, <2>2, <3>1, <3>2 DEF Oldest
  <2> QED BY <2>1, <2>2 DEF Fits
<1> QED BY <1>5, <1>6 DEF r, h

(* Time passes for the wire as for the tune.                                 *)
LEMMA TickIs ==
  ASSUME BufferInv, Tick
  PROVE  /\ server' = server /\ server' \in Servers /\ Overhead' = Overhead
         /\ clock' = clock + 1 /\ clock' \in Nat
         /\ raster' = (raster + 1) % FrameCycles
         /\ wireTime' = WireAfter(wireTime, stream, Overhead)
BY TimesAre DEF BufferInv, Tick, OnWire, WireAfter, Overhead

(* A cycle without a write.                                                  *)
LEMMA CycleKeeps ==
  ASSUME BufferInv, Cycle
  PROVE  BufferInv' /\ (InStep => InStep')
<1> DEFINE r == Framed
           end == WireAfter(wireTime, stream, Overhead)
<1>1. Tick /\ stream' = r
  BY DEF Cycle
<1>2. /\ server' = server /\ server' \in Servers /\ Overhead' = Overhead
      /\ clock' = clock + 1 /\ clock' \in Nat
      /\ raster' = (raster + 1) % FrameCycles /\ wireTime' = end
  BY <1>1, TickIs
<1>3. /\ r \in Streams /\ Calm(r, server.hardware)
      /\ (raster + 1) % FrameCycles \in 0 .. FrameCycles - 1 /\ end \in Nat
      /\ Fits(r, server.hardware, clock + 1, (raster + 1) % FrameCycles)
      /\ r.spent = stream.spent /\ r.extra = stream.extra
      /\ EndOf(end, r, Overhead)
           = EndOf(wireTime, stream, Overhead) + (r.last - stream.last)
      /\ Heard(wireTime, stream, Overhead) => Heard(end, r, Overhead)
  BY FramedIs
<1> HIDE DEF r, end
<1>4. BufferInv'
  BY <1>1, <1>2, <1>3 DEF BufferInv
<1>5. ASSUME InStep PROVE InStep'
  <2> DEFINE was == EndOf(wireTime, stream, Overhead)
  <2>1. /\ was \in Nat /\ stream.last \in Nat /\ stream.spent \in Nat /\ stream.extra \in Nat
        /\ r.last \in Nat
    <3>1. Like(stream, stream) /\ stream \in Streams /\ wireTime \in Nat
      BY DEF Like, BufferInv
    <3>2. stream.extra \in Nat
      BY <3>1, FieldsAre, MaxDelayIs, SMT
    <3> QED BY <1>3, <3>1, <3>2, LikeIs, OverheadIs, FieldsAre
  <2>2. was + stream.extra = stream.last + stream.spent
    BY <1>5 DEF InStep
  <2> HIDE DEF was
  <2>3. (was + (r.last - stream.last)) + stream.extra = r.last + stream.spent
    BY <2>1, <2>2, SMT
  <2>4. EndOf(end, r, Overhead) + r.extra = r.last + r.spent
    BY <1>3, <2>3 DEF was
  <2>5. Heard(end, r, Overhead)
    BY <1>3, <1>5 DEF InStep
  <2> QED BY <1>1, <1>2, <2>4, <2>5 DEF InStep
<1> QED BY <1>4, <1>5

(* A cycle with one.                                                         *)
LEMMA WriteCycleKeeps ==
  ASSUME BufferInv, NEW reg \in Accesses, WriteCycle(reg)
  PROVE  BufferInv' /\ (NothingDropped /\ InStep => InStep')
<1> DEFINE s == Framed
           now == clock + 1
           line == (raster + 1) % FrameCycles
           end == WireAfter(wireTime, stream, Overhead)
           r == Access(s, reg, now)
<1>1. Tick /\ stream' = r
  BY DEF WriteCycle
<1>2. /\ server' = server /\ server' \in Servers /\ Overhead' = Overhead
      /\ clock' = now /\ now \in Nat
      /\ raster' = line /\ wireTime' = end
  BY <1>1, TickIs
<1>3. /\ s \in Streams /\ Calm(s, server.hardware)
      /\ line \in 0 .. FrameCycles - 1 /\ end \in Nat
      /\ Fits(s, server.hardware, now, line)
      /\ s.spent = stream.spent /\ s.extra = stream.extra
      /\ server.hardware => s.last < now
      /\ EndOf(end, s, Overhead)
           = EndOf(wireTime, stream, Overhead) + (s.last - stream.last)
      /\ Heard(wireTime, stream, Overhead) => Heard(end, s, Overhead)
  BY FramedIs
<1>4. reg \in Registers
  BY NetStreamAssumption DEF Registers
<1> HIDE DEF s, now, line, end
<1>5. /\ r \in Streams /\ Calm(r, server.hardware) /\ Fits(r, server.hardware, now, line)
      /\ r.last = now /\ r.spent = s.spent
      /\ ~Dropped(reg) =>
           r.extra = 0 /\ Writes(s, r, s.extra + (now - s.last), now + s.spent)
  BY <1>2, <1>3, <1>4, AccessFits
<1> HIDE DEF r
<1>6. BufferInv'
  BY <1>1, <1>2, <1>3, <1>5 DEF BufferInv
<1>7. ASSUME NothingDropped, InStep PROVE InStep'
  <2>1. r.extra = 0 /\ Writes(s, r, s.extra + (now - s.last), now + s.spent)
    BY <1>2, <1>5, <1>7 DEF NothingDropped, Dropped
  <2> DEFINE was == EndOf(wireTime, stream, Overhead)
             seen == EndOf(end, s, Overhead)
  <2>2. /\ was \in Nat /\ stream.last \in Nat /\ stream.spent \in Nat /\ stream.extra \in Nat
        /\ s.last \in Nat
    <3>1. Like(stream, stream) /\ stream \in Streams /\ wireTime \in Nat
      BY DEF Like, BufferInv
    <3>2. stream.extra \in Nat
      BY <3>1, FieldsAre, MaxDelayIs, SMT
    <3> QED BY <1>3, <3>1, <3>2, LikeIs, OverheadIs, FieldsAre
  <2>3. was + stream.extra = stream.last + stream.spent
    BY <1>7 DEF InStep
  <2>4. seen = was + (s.last - stream.last)
    BY <1>3
  <2>5. EndOf(end, r, Overhead) = seen + (s.extra + (now - s.last))
    BY <1>3, <2>1 DEF Writes
  <2> HIDE DEF was, seen
  <2>6. (was + (s.last - stream.last)) + (stream.extra + (now - s.last)) = now + stream.spent
    BY <1>2, <2>2, <2>3, SMT
  <2>7. EndOf(end, r, Overhead) = now + s.spent
    BY <1>3, <2>4, <2>5, <2>6
  <2>8. Heard(end, r, Overhead)
    <3>1. Heard(end, s, Overhead)
      BY <1>3, <1>7 DEF InStep
    <3> QED BY <1>3, <2>1, <2>7, <3>1 DEF Writes
  <2>9. EndOf(end, r, Overhead) + r.extra = r.last + r.spent
    <3>1. now + s.spent \in Nat
      BY <1>2, <1>3, <2>2, SMT
    <3> QED BY <1>5, <2>1, <2>7, <3>1, SMT
  <2> QED BY <1>1, <1>2, <2>8, <2>9 DEF InStep
<1> QED BY <1>6, <1>7

(* A pause, or its end.                                                      *)
LEMMA VolumeKeeps ==
  ASSUME BufferInv, Volume
  PROVE  BufferInv' /\ (InStep => InStep')
<1> DEFINE h == server.hardware
           spent == stream.spent + 4 + Overhead
           s == Fresh(stream, spent)
           end == WireAfter(wireTime, stream, Overhead)
           now == stream.last + spent
           r == Write(s, "Low", 4, now)
           t == SendPending(r)
           was == EndOf(wireTime, stream, Overhead)
<1>1. /\ clock \in Nat /\ raster \in 0 .. FrameCycles - 1 /\ wireTime \in Nat
      /\ stream \in Streams /\ Calm(stream, h) /\ server \in Servers
      /\ Fits(stream, h, clock, raster)
  BY DEF BufferInv
<1>2. h \in BOOLEAN /\ Overhead \in Nat /\ server \in [hardware : BOOLEAN, v5 : BOOLEAN]
  BY <1>1, ServerIs, OverheadIs
<1>3. /\ stream.last \in Nat /\ stream.spent \in Nat /\ stream.extra \in Nat
      /\ spent \in Nat /\ now \in Nat /\ was \in Nat
  <2>1. stream.last \in Nat /\ stream.spent \in Nat /\ stream.extra \in Nat
    BY <1>1, FieldsAre, MaxDelayIs, SMT
  <2>2. spent \in Nat
    BY <1>2, <2>1, SMT
  <2>3. now \in Nat
    BY <2>1, <2>2, SMT
  <2>4. Like(stream, stream)
    BY DEF Like
  <2> QED BY <1>1, <1>2, <2>1, <2>2, <2>3, <2>4, LikeIs
<1>4. /\ stream' = t /\ server' = server /\ clock' = clock /\ raster' = raster
      /\ wireTime' = end /\ Overhead' = Overhead
  BY TimesAre DEF Volume, OnWire, WireAfter, Fresh, Overhead
<1>5. was + stream.extra = stream.last + stream.spent =>
        was + (stream.extra + 4 + Overhead) = now
  <2> DEFINE a == stream.extra
             b == stream.last
             c == stream.spent
  <2>1. a \in Nat /\ b \in Nat /\ c \in Nat /\ was \in Nat
    BY <1>3
  <2> HIDE DEF a, b, c, was
  <2>2. was + a = b + c => was + (a + 4 + Overhead) = b + (c + 4 + Overhead)
    BY <1>2, <2>1, SMT
  <2> QED BY <2>2 DEF a, b, c
<1> HIDE DEF spent, now, h
<1>6. /\ s \in Streams /\ Calm(s, h) /\ Contents(s) = Contents(stream)
      /\ s.last = stream.last /\ s.spent = spent /\ s.extra = stream.extra
  BY <1>1, <1>2, <1>3, FreshIs
<1>7. /\ end \in Nat /\ EndOf(end, s, Overhead) = was
      /\ Heard(wireTime, stream, Overhead) => Heard(end, s, Overhead)
  BY <1>1, <1>2, <1>3, FreshIsHeard
<1> HIDE DEF s, end, was
<1>8. s.extra + 4 <= MaxDelay \/ Contents(s) = << >>
  <2>1. Contents(s) # << >> => s.extra = 0
    BY <1>1, <1>6 DEF Fits
  <2> QED BY <2>1, MaxDelayIs, SMT
<1>9. /\ r \in Streams /\ Calm(r, h) /\ r.last = s.last /\ r.spent = s.spent
      /\ r.extra = 0 /\ Writes(s, r, s.extra + 4 + Overhead, now)
  <2>1. ~Dropped("Low") /\ 4 \in 0 .. MaxDelay /\ "Low" \in {"Low", "High", "Fm", "Absent"}
    BY MaxDelayIs, SMT DEF Dropped
  <2> QED BY <1>2, <1>3, <1>6, <1>8, <2>1, WriteIs DEF h
<1> HIDE DEF r
<1>10. /\ t \in Streams /\ Calm(t, h) /\ Contents(t) = << >> /\ Same(r, t)
       /\ t.extra = r.extra /\ Follows(r, t, 0)
  BY <1>2, <1>3, <1>9, SendPendingMoves
<1> HIDE DEF t
<1>11. t.last = stream.last /\ t.spent = spent /\ t.extra = 0
  BY <1>6, <1>9, <1>10 DEF Same
<1>12. Fits(t, h, clock, raster)
  BY <1>1, <1>10, <1>11 DEF Fits
<1>13. BufferInv'
  BY <1>1, <1>4, <1>7, <1>10, <1>12 DEF BufferInv, h
<1>14. ASSUME InStep PROVE InStep'
  <2>1. was + stream.extra = stream.last + stream.spent
    BY <1>14 DEF InStep, was
  <2>2. EndOf(end, r, Overhead) = now
    <3>1. EndOf(end, r, Overhead) = was + (s.extra + 4 + Overhead)
      BY <1>7, <1>9 DEF Writes
    <3> QED BY <1>5, <1>6, <2>1, <3>1
  <2>3. Heard(end, r, Overhead)
    BY <1>7, <1>9, <1>14, <2>2 DEF InStep, Writes
  <2>4. /\ EndOf(end, t, Overhead) = EndOf(end, r, Overhead) + 0
        /\ Heard(end, t, Overhead)
    BY <1>7, <1>10, <2>3 DEF Follows
  <2>5. EndOf(end, t, Overhead) + t.extra = t.last + t.spent
    <3>1. (now + 0) + 0 = now
      BY <1>3, SMT
    <3> QED BY <1>11, <2>2, <2>4, <3>1 DEF now
  <2> QED BY <1>4, <2>4, <2>5 DEF InStep
<1> QED BY <1>13, <1>14

(* Empty buffers are in step from the start.                                 *)
LEMMA EmptyFits ==
  ASSUME NEW s \in Streams, s.quads = << >>, s.ex = << >>, s.sent = << >>,
         s.buffered = 0, s.frames = 0, s.extra = 0, s.last = 0, s.spent = 0
  PROVE  /\ \A h \in BOOLEAN : Calm(s, h)
         /\ \A h \in BOOLEAN, line \in 0 .. FrameCycles - 1 : Fits(s, h, 0, line)
         /\ Heard(0, s, Overhead) /\ EndOf(0, s, Overhead) + s.extra = s.last + s.spent
<1>1. /\ Contents(s) = << >> /\ OneKind(s) /\ Len(<< >>) = 0
      /\ << >> \in Seq(Packets) /\ << >> \in Seq(Entries)
  BY EmptySeq DEF Contents, OneKind
<1>2. \A i \in 1 .. Len(<< >>) : FALSE
  BY <1>1, SMT
<1>3. ASSUME NEW h \in BOOLEAN PROVE Calm(s, h)
  <2>1. LengthOf(<< >>, 0) = 0
    BY LengthIs, SMT
  <2>2. LastLong(<< >>, h)
    BY <1>1, SMT DEF LastLong
  <2> QED BY <1>1, <1>2, <2>1, <2>2, ConstantsAre DEF Calm, Counted
<1>4. ASSUME NEW h \in BOOLEAN, NEW line \in 0 .. FrameCycles - 1 PROVE Fits(s, h, 0, line)
  <2>1. line \in Nat /\ 0 - 0 <= line /\ 0 <= 0
    BY ConstantsAre, SMT
  <2> QED BY <1>1, <2>1 DEF Fits
<1>5. LengthOf(<< >>, Overhead) = 0 /\ BeginsOf(<< >>, Overhead)[0] = 0
  BY <1>1, OverheadIs, LengthIs, BeginsIs
<1>6. EndOf(0, s, Overhead) + s.extra = s.last + s.spent
  <2>1. EndOf(0, s, Overhead) = 0 + 0 + 0
    BY <1>1, <1>5 DEF EndOf
  <2> QED BY <2>1, SMT
<1>7. Heard(0, s, Overhead)
  BY <1>1, <1>2 DEF Heard, InTime
<1> QED BY <1>3, <1>4, <1>6, <1>7

(* A new tune.                                                               *)
LEMMA ResetKeeps ==
  ASSUME BufferInv, Reset
  PROVE  BufferInv' /\ InStep'
<1> DEFINE s == [Empty EXCEPT !.fmSent = stream.fmSent]
<1>1. /\ server \in Servers /\ server' = server /\ clock' = 0 /\ wireTime' = 0
      /\ raster' = raster /\ raster \in 0 .. FrameCycles - 1 /\ stream' = s /\ Overhead' = Overhead
  BY DEF Reset, BufferInv, Overhead
<1>2. /\ s \in Streams /\ s.quads = << >> /\ s.ex = << >> /\ s.sent = << >>
      /\ s.buffered = 0 /\ s.frames = 0 /\ s.extra = 0 /\ s.last = 0 /\ s.spent = 0
  <2>1. stream.fmSent \in BOOLEAN /\ << >> \in Seq(Packets) /\ << >> \in Seq(Entries)
    BY EmptySeq, FieldsAre DEF BufferInv
  <2>2. 0 \in 0 .. MaxDelay /\ 0 \in Nat
    BY MaxDelayIs, SMT
  <2> QED BY <2>1, <2>2 DEF Empty, Streams
<1> HIDE DEF s
<1>3. /\ Calm(s, server.hardware) /\ Fits(s, server.hardware, 0, raster)
      /\ Heard(0, s, Overhead) /\ EndOf(0, s, Overhead) + s.extra = s.last + s.spent
  BY <1>1, <1>2, ServerIs, EmptyFits
<1> QED BY <1>1, <1>2, <1>3, SMT DEF BufferInv, InStep

LEMMA InitHolds == Init => BufferInv /\ InStep
<1> SUFFICES ASSUME Init PROVE BufferInv /\ InStep
  OBVIOUS
<1>1. /\ server \in Servers /\ clock = 0 /\ wireTime = 0 /\ stream = Empty
      /\ raster \in 0 .. FrameCycles - 1
  <2>1. 0 \in 0 .. FrameCycles - 1 /\ FrameCycles - 1 \in 0 .. FrameCycles - 1
    BY ConstantsAre, SMT
  <2> QED BY <2>1 DEF Init
<1> DEFINE s == Empty
<1>2. /\ s \in Streams /\ s.quads = << >> /\ s.ex = << >> /\ s.sent = << >>
      /\ s.buffered = 0 /\ s.frames = 0 /\ s.extra = 0 /\ s.last = 0 /\ s.spent = 0
  <2>1. << >> \in Seq(Packets) /\ << >> \in Seq(Entries)
    BY EmptySeq
  <2>2. 0 \in 0 .. MaxDelay /\ 0 \in Nat
    BY MaxDelayIs, SMT
  <2> QED BY <2>1, <2>2 DEF Empty, Streams
<1> HIDE DEF s
<1>3. /\ Calm(s, server.hardware) /\ Fits(s, server.hardware, 0, raster)
      /\ Heard(0, s, Overhead) /\ EndOf(0, s, Overhead) + s.extra = s.last + s.spent
  BY <1>1, <1>2, ServerIs, EmptyFits
<1>4. stream = s
  BY <1>1 DEF s
<1> QED BY <1>1, <1>2, <1>3, <1>4, SMT DEF BufferInv, InStep

(* No step of the program disturbs the buffers.                              *)
LEMMA NextKeeps ==
  BufferInv /\ [Next]_vars => BufferInv' /\ (NothingDropped /\ InStep => InStep')
<1> SUFFICES ASSUME BufferInv, [Next]_vars
             PROVE  BufferInv' /\ (NothingDropped /\ InStep => InStep')
  OBVIOUS
<1>1. CASE Cycle
  BY <1>1, CycleKeeps
<1>2. ASSUME NEW reg \in Accesses, WriteCycle(reg)
      PROVE  BufferInv' /\ (NothingDropped /\ InStep => InStep')
  BY <1>2, WriteCycleKeeps
<1>3. CASE Volume
  BY <1>3, VolumeKeeps
<1>4. CASE Reset
  BY <1>4, ResetKeeps
<1>5. CASE UNCHANGED vars
  <2>1. BufferInv'
    BY <1>5 DEF BufferInv, vars
  <2>2. InStep => InStep'
    BY <1>5 DEF InStep, vars, Overhead
  <2> QED BY <2>1, <2>2
<1> QED BY <1>1, <1>2, <1>3, <1>4, <1>5 DEF Next

LEMMA BufferInvHolds == Spec => []BufferInv
<1>1. Init => BufferInv
  BY InitHolds
<1>2. BufferInv /\ [Next]_vars => BufferInv'
  BY NextKeeps
<1> QED BY <1>1, <1>2, PTL DEF Spec

----------------------------------------------------------------------------
(* What the invariant says of the properties' own terms.                     *)

LEMMA TotalIs ==
  ASSUME NEW q \in Seq(Entries)
  PROVE  Total(q) = LengthOf(q, 0)
<1>1. \A k \in DOMAIN q : CostOf(q[k], 0) = q[k].delay
  <2> SUFFICES ASSUME NEW k \in DOMAIN q PROVE CostOf(q[k], 0) = q[k].delay
    OBVIOUS
  <2>1. q[k] \in Entries
    OBVIOUS
  <2>2. q[k].delay \in Nat
    BY <2>1, MaxDelayIs, SMT DEF Entries
  <2> QED BY <2>2, SMT DEF CostOf
<1>2. CostsOf(q, 0) = [k \in DOMAIN q |-> q[k].delay]
  BY <1>1 DEF CostsOf
<1> QED BY <1>2 DEF Total, LengthOf, TimesOf

LEMMA PendingHolds ==
  ASSUME BufferInv
  PROVE  /\ Pending = Contents(stream) /\ Contents(stream) \in Seq(Entries)
         /\ stream.sent \in Seq(Packets) /\ Counted(stream, server.hardware)
         /\ server.hardware \in BOOLEAN
BY PendingIs, FieldsAre, ServerIs DEF BufferInv, Calm, Counted, Pending

(* The counters keep their range, and the time that is buffered is counted,   *)
(* however long a delay, a frame or a packet may be: what extra_cycles_,     *)
(* buffered_cycles_ and the frame count hold between two calls.              *)
THEOREM StreamTypeOK == Spec => []TypeOK
<1>1. BufferInv => TypeOK
  <2> SUFFICES ASSUME BufferInv PROVE TypeOK
    OBVIOUS
  <2> DEFINE h == server.hardware
  <2>1. /\ Pending = Contents(stream) /\ Contents(stream) \in Seq(Entries)
        /\ Counted(stream, h) /\ h \in BOOLEAN
    BY PendingHolds
  <2>2. /\ stream \in Streams /\ Calm(stream, h) /\ stream.last <= clock /\ clock \in Nat
        /\ wireTime \in Nat /\ raster \in 0 .. FrameCycles - 1
    BY DEF BufferInv, Fits
  <2>3. stream.last \in 0 .. clock /\ stream.extra \in 0 .. MaxDelay
    BY <2>2, FieldsAre, SMT
  <2>4. stream.buffered = Total(Pending)
    BY <2>1, TotalIs DEF Counted
  <2>5. Len(Pending) < MaxEntries /\ stream.buffered < Threshold[h]
    BY <2>1, <2>2 DEF Calm
  <2>6. stream.frames \in 0 .. MaxFrames[h] - 1
    <3>1. stream.frames \in Nat /\ stream.frames < MaxFrames[h]
      BY <2>1, <2>2, FieldsAre DEF Counted
    <3> QED BY <2>1, <3>1, ConstantsAre, SMT
  <2> QED BY <2>2, <2>3, <2>4, <2>5, <2>6 DEF TypeOK
<1> QED BY <1>1, BufferInvHolds, PTL

(* The byte stream and the word stream are never both waiting: OtherFirst and *)
(* the switch of HandleFm send the one before the other is filled.           *)
THEOREM OneStreamWaits == Spec => []OneStream
<1>1. BufferInv => OneStream
  BY DEF BufferInv, Calm, Counted, OneKind, OneStream
<1> QED BY <1>1, BufferInvHolds, PTL

(* Every request that is sent is accounted with its time, keeps to the limit  *)
(* of its kind and has a long delay only at its end, whatever the limits are. *)
THEOREM PacketsAreWhole == Spec => []PacketIsWhole
<1>1. BufferInv => PacketIsWhole
  <2> SUFFICES ASSUME BufferInv, NEW i \in DOMAIN stream.sent
               PROVE  LET packet == stream.sent[i] IN
                      /\ packet.cycles = Total(packet.entries)
                      /\ Len(packet.entries) \in 1 .. MaxEntries
                      /\ \A k \in 1 .. Len(packet.entries) - 1 :
                           packet.entries[k].delay < Big[server.hardware]
    BY DEF PacketIsWhole
  <2> DEFINE p == stream.sent[i]
  <2>1. i \in 1 .. Len(stream.sent) /\ p \in Packets
    BY PendingHolds
  <2>2. Whole(p, server.hardware)
    BY <2>1, PendingHolds DEF Counted
  <2>3. p.entries \in Seq(Entries)
    BY <2>1 DEF Packets
  <2> HIDE DEF p
  <2>4. p.cycles = Total(p.entries)
    BY <2>2, <2>3, TotalIs DEF Whole
  <2> QED BY <2>2, <2>4 DEF Whole, LastLong, p
<1> QED BY <1>1, BufferInvHolds, PTL

(* What was written is sent before the frames that may pass between flushes   *)
(* are over, for each of the two kinds of server.                            *)
THEOREM NothingIsHeldBack == Spec => []NothingStale
<1>1. BufferInv => NothingStale
  <2> SUFFICES ASSUME BufferInv, Pending # << >>
               PROVE  clock + stream.spent - Head(Pending).at
                        < MaxFrames[server.hardware] * FrameCycles
    BY DEF NothingStale
  <2>1. /\ Pending = Contents(stream) /\ Contents(stream) \in Seq(Entries)
        /\ server.hardware \in BOOLEAN
    BY PendingHolds
  <2>2. (clock + stream.spent) - Contents(stream)[1].at < MaxFrames[server.hardware] * FrameCycles
    BY <2>1, FitsIs DEF BufferInv
  <2>3. Head(Pending) = Contents(stream)[1]
    BY <2>1
  <2>4. /\ clock \in Nat /\ stream.spent \in Nat /\ Contents(stream)[1].at \in Nat
    BY <2>1, HeadIs, FieldsAre DEF BufferInv
  <2> QED BY <2>2, <2>3, <2>4, SMT
<1> QED BY <1>1, BufferInvHolds, PTL

(* Played back, every write comes at its cycle, through every merge of gaps,  *)
(* every flush and every change of stream: the wire is where the tune is, but *)
(* for the time that waits behind empty buffers. Only a write that the server *)
(* cannot take breaks this (its gap is dropped with it), so the tune writes   *)
(* none.                                                                     *)
THEOREM WritesAreOnTime == NothingDropped => (Spec => []OnTime)
<1> SUFFICES ASSUME NothingDropped PROVE Spec => []OnTime
  OBVIOUS
<1>1. Init => BufferInv /\ InStep
  BY InitHolds
<1>2. BufferInv /\ InStep /\ [Next]_vars => (BufferInv /\ InStep)'
  BY NextKeeps
<1>3. BufferInv /\ InStep => OnTime
  <2> SUFFICES ASSUME BufferInv, InStep PROVE OnTime
    OBVIOUS
  <2> DEFINE begin(i) == wireTime + PacketTimes(stream.sent)[i - 1]
  <2>1. Pending = Contents(stream) /\ stream.sent \in Seq(Packets)
        /\ Contents(stream) \in Seq(Entries)
    BY PendingHolds
  <2>2. Heard(wireTime, stream, Overhead)
    BY DEF InStep
  <2>3. ASSUME NEW i \in DOMAIN stream.sent PROVE Punctual(begin(i), stream.sent[i].entries)
    <3>1. i \in 1 .. Len(stream.sent) /\ stream.sent[i] \in Packets
      BY <2>1
    <3>2. stream.sent[i].entries \in Seq(Entries)
      BY <3>1 DEF Packets
    <3>3. InTime(wireTime + BeginsOf(stream.sent, Overhead)[i - 1], stream.sent[i].entries,
                 Overhead)
      BY <2>2, <3>1 DEF Heard
    <3> QED BY <3>2, <3>3, TimesAre DEF InTime, Punctual
  <2>4. Punctual(begin(Len(stream.sent) + 1), Pending)
    <3>1. InTime(wireTime + BeginsOf(stream.sent, Overhead)[Len(stream.sent)], Contents(stream),
                 Overhead)
      BY <2>2 DEF Heard
    <3>2. Len(stream.sent) + 1 - 1 = Len(stream.sent)
      BY <2>1, SMT
    <3> QED BY <2>1, <3>1, <3>2, TimesAre DEF InTime, Punctual
  <2> QED BY <2>3, <2>4 DEF OnTime
<1> QED BY <1>1, <1>2, <1>3, PTL DEF Spec

=============================================================================
