---------------------------- MODULE NetSenderProofs ----------------------------
(***************************************************************************)
(* What NetworkSidBackend (sid/sid_netdevice.cpp) owes its caller and the  *)
(* server, for every server, every count and every packet: the time in     *)
(* flight is exact (InflightExact), chips are set up before they are used  *)
(* (SetupBeforeUse), FM stays on (FmStaysOn) and the caller's count is the *)
(* one the server accepted (CountIsAccepted).  The argument runs over      *)
(* Pending, all the requests that the server has not answered yet in the   *)
(* order in which they will reach it: those of the queue and those that    *)
(* the call under way has still to queue.                                  *)
(***************************************************************************)
EXTENDS NetSender, SequenceTheorems, WellFoundedInduction, TLAPS

----------------------------------------------------------------------------
(* The tune time of a queue.                                               *)

\* The order of the natural numbers, as a relation
Below == {p \in Nat \X Nat : p[1] < p[2]}

(* What holds at 0 and passes from each number to the next holds up to n.    *)
LEMMA IntervalInduction ==
  ASSUME NEW n \in Nat, NEW S, 0 \in S,
         \A k \in 0 .. n - 1 : k \in S => k + 1 \in S
  PROVE  \A k \in 0 .. n : k \in S
<1> DEFINE Bad == {k \in 0 .. n : k \notin S}
<1>1. IsWellFoundedOn(Below, Nat)
  BY NatLessThanWellFounded DEF OpToRel, Below
<1> SUFFICES ASSUME Bad # {} PROVE FALSE
  OBVIOUS
<1>2. PICK k \in Bad : \A j \in Bad : ~(<<j, k>> \in Below)
  <2>1. Bad \subseteq Nat
    BY SMT
  <2> HIDE DEF Bad
  <2> QED
    BY <1>1, <2>1, WFMin
<1>3. k # 0 /\ k \in 0 .. n /\ k \notin S
  OBVIOUS
<1>4. k - 1 \in 0 .. n - 1 /\ k - 1 + 1 = k /\ k - 1 \in 0 .. n
  BY <1>3, SMT
<1>5. k - 1 \in Bad
  BY <1>3, <1>4
<1>6. <<k - 1, k>> \in Below
  BY <1>3, <1>4, SMT DEF Below
<1> QED
  BY <1>2, <1>5, <1>6

\* The requests there are: a count is positive, only writes carry tune time
Requests ==
  {r \in [cmd : Commands, sid : Nat, cycles : Nat] :
     /\ r.cmd = "Count" => r.sid > 0
     /\ r.cmd # "Write" => r.cycles = 0}

\* The sums of the first k requests, one by one
AreSums(f, q, k) ==
  f = [n \in 0 .. k |-> IF n = 0 THEN 0 ELSE f[n - 1] + q[n].cycles]

\* The same by its steps
Sums(f, q) == f[0] = 0 /\ \A n \in 0 .. Len(q) - 1 : f[n + 1] = f[n] + q[n + 1].cycles

(* The function that CyclesOf is defined by exists.                         *)
LEMMA SumsExist ==
  ASSUME NEW q \in Seq(Requests)
  PROVE  \E f \in [0 .. Len(q) -> Nat] : Sums(f, q) /\ CyclesOf(q) = f[Len(q)]
<1> DEFINE len == Len(q)
           S == {k \in 0 .. len : \E f : AreSums(f, q, k)}
<1>0. len \in Nat /\ \A k \in 1 .. len : q[k].cycles \in Nat
  BY DEF Requests
<1>1. 0 \in S
  <2>1. AreSums([n \in 0 .. 0 |-> 0], q, 0)
    BY SMT DEF AreSums
  <2> QED BY <1>0, <2>1
<1>2. ASSUME NEW k \in 0 .. len - 1, k \in S
      PROVE  k + 1 \in S
  <2>1. PICK f : AreSums(f, q, k)
    BY <1>2
  <2> DEFINE g == [n \in 0 .. k + 1 |->
                     IF n = k + 1 THEN f[k] + q[k + 1].cycles ELSE f[n]]
  <2>2. \A n \in 0 .. k : f[n] = IF n = 0 THEN 0 ELSE f[n - 1] + q[n].cycles
    <3> HIDE DEF g
    <3> QED BY <2>1 DEF AreSums
  <2>3. \A n \in 0 .. k + 1 : g[n] = IF n = 0 THEN 0 ELSE g[n - 1] + q[n].cycles
    <3> SUFFICES ASSUME NEW n \in 0 .. k + 1
                 PROVE  g[n] = IF n = 0 THEN 0 ELSE g[n - 1] + q[n].cycles
      OBVIOUS
    <3>1. CASE n = k + 1
      <4>1. g[n] = f[k] + q[k + 1].cycles /\ n # 0 /\ n - 1 = k /\ g[k] = f[k]
        BY <1>0, <3>1, SMT
      <4> QED BY <3>1, <4>1
    <3>2. CASE n # k + 1
      <4>1. n \in 0 .. k /\ g[n] = f[n]
        BY <1>0, <3>2, SMT
      <4>2. n # 0 => n - 1 \in 0 .. k + 1 /\ n - 1 # k + 1
        BY <1>0, <4>1, SMT
      <4>3. n # 0 => g[n - 1] = f[n - 1]
        BY <4>2
      <4> QED BY <2>2, <4>1, <4>3
    <3> QED BY <3>1, <3>2
  <2>4. AreSums(g, q, k + 1)
    <3>1. g = [n \in 0 .. k + 1 |-> g[n]]
      OBVIOUS
    <3> HIDE DEF g
    <3> QED BY <2>3, <3>1 DEF AreSums
  <2>5. k + 1 \in 0 .. len
    BY <1>0, SMT
  <2> HIDE DEF g
  <2> QED BY <2>4, <2>5
<1>3. len \in S
  <2>1. \A k \in 0 .. len : k \in S
    <3> HIDE DEF S, len
    <3> QED BY <1>0, <1>1, <1>2, IntervalInduction
  <2>2. len \in 0 .. len
    BY <1>0, SMT
  <2> QED BY <2>1, <2>2
<1> DEFINE F == CHOOSE f : AreSums(f, q, len)
<1>4. AreSums(F, q, len)
  BY <1>3
<1>5. CyclesOf(q) = F[len]
  BY DEF CyclesOf, AreSums
<1> HIDE DEF F
<1>6. \A n \in 0 .. len : F[n] = IF n = 0 THEN 0 ELSE F[n - 1] + q[n].cycles
  BY <1>4 DEF AreSums
<1>7. Sums(F, q)
  <2>1. F[0] = 0
    BY <1>0, <1>6, SMT
  <2>2. ASSUME NEW n \in 0 .. len - 1 PROVE F[n + 1] = F[n] + q[n + 1].cycles
    <3>1. n + 1 \in 0 .. len /\ n + 1 # 0 /\ n + 1 - 1 = n
      BY <1>0, SMT
    <3> QED BY <1>6, <3>1
  <2> QED BY <2>1, <2>2 DEF Sums
<1>8. F \in [0 .. len -> Nat]
  <2> DEFINE T == {k \in 0 .. len : F[k] \in Nat}
  <2>1. 0 \in T
    BY <1>0, <1>6, SMT
  <2>2. \A k \in 0 .. len - 1 : k \in T => k + 1 \in T
    <3> SUFFICES ASSUME NEW k \in 0 .. len - 1, F[k] \in Nat PROVE k + 1 \in T
      OBVIOUS
    <3>1. k + 1 \in 0 .. len /\ k + 1 \in 1 .. len /\ F[k + 1] = F[k] + q[k + 1].cycles
      BY <1>0, <1>7, SMT DEF Sums
    <3> QED BY <1>0, <3>1, SMT
  <2>3. \A k \in 0 .. len : k \in T
    <3> HIDE DEF T, len
    <3> QED BY <1>0, <2>1, <2>2, IntervalInduction
  <2>4. F = [n \in 0 .. len |-> F[n]]
    BY <1>4 DEF AreSums
  <2> QED BY <2>3, <2>4
<1> QED BY <1>5, <1>7, <1>8

(* Whatever adds up the requests one by one ends at CyclesOf.               *)
LEMMA SumsAreUnique ==
  ASSUME NEW q \in Seq(Requests), NEW g, Sums(g, q)
  PROVE  g[Len(q)] = CyclesOf(q)
<1>1. PICK f \in [0 .. Len(q) -> Nat] : Sums(f, q) /\ CyclesOf(q) = f[Len(q)]
  BY SumsExist
<1> DEFINE S == {k \in 0 .. Len(q) : f[k] = g[k]}
<1>2. Len(q) \in Nat
  OBVIOUS
<1>3. 0 \in S
  BY <1>1, <1>2, SMT DEF Sums
<1>4. \A k \in 0 .. Len(q) - 1 : k \in S => k + 1 \in S
  BY <1>1, <1>2, SMT DEF Sums
<1>5. \A k \in 0 .. Len(q) : k \in S
  <2> HIDE DEF S
  <2> QED BY <1>2, <1>3, <1>4, IntervalInduction
<1> QED BY <1>1, <1>2, <1>5, SMT

(* A queue grows at its end, is emptied, and is taken from at its front.     *)
LEMMA CyclesOfQueue ==
  /\ CyclesOf(<< >>) = 0
  /\ \A q \in Seq(Requests) : CyclesOf(q) \in Nat
  /\ \A q \in Seq(Requests), r \in Requests : CyclesOf(Append(q, r)) = CyclesOf(q) + r.cycles
  /\ \A q \in Seq(Requests) :
       q # << >> => CyclesOf(q) = Head(q).cycles + CyclesOf(Tail(q))
<1>1. CyclesOf(<< >>) = 0
  <2>1. << >> \in Seq(Requests) /\ Len(<< >>) = 0
    BY EmptySeq
  <2>2. PICK f \in [0 .. Len(<< >>) -> Nat] :
               Sums(f, << >>) /\ CyclesOf(<< >>) = f[Len(<< >>)]
    BY <2>1, SumsExist
  <2> QED BY <2>1, <2>2 DEF Sums
<1>2. ASSUME NEW q \in Seq(Requests) PROVE CyclesOf(q) \in Nat
  <2>1. PICK f \in [0 .. Len(q) -> Nat] : Sums(f, q) /\ CyclesOf(q) = f[Len(q)]
    BY SumsExist
  <2> QED BY <2>1, SMT
<1>3. ASSUME NEW q \in Seq(Requests), NEW r \in Requests
      PROVE  CyclesOf(Append(q, r)) = CyclesOf(q) + r.cycles
  <2> DEFINE longer == Append(q, r)
  <2>1. /\ longer \in Seq(Requests) /\ Len(longer) = Len(q) + 1 /\ Len(q) \in Nat
        /\ \A i \in 1 .. Len(q) : longer[i] = q[i]
        /\ longer[Len(q) + 1] = r
    BY SMT
  <2> HIDE DEF longer
  <2>2. PICK f \in [0 .. Len(longer) -> Nat] :
               Sums(f, longer) /\ CyclesOf(longer) = f[Len(longer)]
    BY <2>1, SumsExist
  <2>3. Sums(f, q)
    BY <2>1, <2>2, SMT DEF Sums
  <2>4. f[Len(q)] = CyclesOf(q)
    BY <2>3, SumsAreUnique
  <2>5. f[Len(q) + 1] = f[Len(q)] + r.cycles
    BY <2>1, <2>2, SMT DEF Sums
  <2> QED BY <2>1, <2>2, <2>4, <2>5 DEF longer
<1>4. ASSUME NEW q \in Seq(Requests), q # << >>
      PROVE  CyclesOf(q) = Head(q).cycles + CyclesOf(Tail(q))
  <2> DEFINE rest == Tail(q)
  <2>1. /\ rest \in Seq(Requests) /\ Len(rest) = Len(q) - 1 /\ Len(q) \in Nat \ {0}
        /\ \A i \in 1 .. Len(rest) : rest[i] = q[i + 1]
        /\ Head(q) = q[1]
    BY <1>4, HeadTailProperties, SMT
  <2> HIDE DEF rest
  <2>2. PICK f \in [0 .. Len(q) -> Nat] : Sums(f, q) /\ CyclesOf(q) = f[Len(q)]
    BY SumsExist
  <2> DEFINE g == [k \in 0 .. Len(rest) |-> f[k + 1] - f[1]]
  <2>3. Sums(g, rest)
    <3>1. g[0] = 0
      <4>1. 0 \in 0 .. Len(rest) /\ 1 \in 0 .. Len(q) /\ 0 + 1 = 1
        BY <2>1, SMT
      <4>2. g[0] = f[0 + 1] - f[1] /\ f[1] \in Nat
        BY <4>1
      <4> QED BY <4>1, <4>2, SMT
    <3>2. ASSUME NEW n \in 0 .. Len(rest) - 1
          PROVE  g[n + 1] = g[n] + rest[n + 1].cycles
      <4>1. f[n + 2] = f[n + 1] + q[n + 2].cycles /\ q[n + 2].cycles \in Nat
        <5>1. n + 1 \in 0 .. Len(q) - 1 /\ n + 1 + 1 = n + 2 /\ n + 2 \in 1 .. Len(q)
          BY <2>1, SMT
        <5>2. q[n + 2] \in Requests
          BY <5>1
        <5>3. f[n + 1 + 1] = f[n + 1] + q[n + 1 + 1].cycles
          BY <2>2, <5>1 DEF Sums
        <5> QED BY <5>1, <5>2, <5>3 DEF Requests
      <4>2. /\ g[n + 1] = f[n + 2] - f[1] /\ g[n] = f[n + 1] - f[1]
            /\ rest[n + 1] = q[n + 2]
            /\ f[n + 1] \in Nat /\ f[1] \in Nat
        <5>1. n \in 0 .. Len(rest) /\ n + 1 \in 0 .. Len(rest) /\ n + 1 + 1 = n + 2
          BY <2>1, SMT
        <5>2. n + 1 \in 0 .. Len(q) /\ 1 \in 0 .. Len(q) /\ n + 1 \in 1 .. Len(rest)
          BY <2>1, SMT
        <5>3. g[n + 1] = f[n + 1 + 1] - f[1] /\ g[n] = f[n + 1] - f[1]
          BY <5>1
        <5> HIDE DEF g
        <5>4. rest[n + 1] = q[n + 1 + 1] /\ f[n + 1] \in Nat /\ f[1] \in Nat
          BY <2>1, <5>2
        <5> QED BY <5>1, <5>3, <5>4
      <4> HIDE DEF g
      <4> QED BY <4>1, <4>2, SMT
    <3> HIDE DEF g
    <3> QED BY <3>1, <3>2 DEF Sums
  <2>4. g[Len(rest)] = CyclesOf(rest)
    <3> HIDE DEF g
    <3> QED BY <2>1, <2>3, SumsAreUnique
  <2>5. f[1] = Head(q).cycles
    <3>1. f[0 + 1] = f[0] + q[0 + 1].cycles /\ f[0] = 0
      BY <2>1, <2>2, SMT DEF Sums
    <3>2. q[1] \in Requests
      BY <2>1, SMT
    <3>3. q[1].cycles \in Nat
      BY <3>2 DEF Requests
    <3> QED BY <2>1, <3>1, <3>3, SMT
  <2>6. g[Len(rest)] = f[Len(q)] - f[1]
    BY <2>1, SMT
  <2>7. f[1] \in Nat /\ f[Len(q)] \in Nat
    BY <2>1, <2>2, SMT
  <2> HIDE DEF g
  <2> QED BY <2>2, <2>4, <2>5, <2>6, <2>7, SMT DEF rest
<1> QED BY <1>1, <1>2, <1>3, <1>4

(* Two sequences one behind the other.                                      *)
LEMMA Joined ==
  ASSUME NEW S, NEW s \in Seq(S), NEW t \in Seq(S)
  PROVE  /\ s \o t \in Seq(S) /\ Len(s \o t) = Len(s) + Len(t)
         /\ \A i \in 1 .. Len(s) : (s \o t)[i] = s[i]
         /\ \A k \in 1 .. Len(s) + Len(t) : Len(s) < k => (s \o t)[k] = t[k - Len(s)]
<1>0. Len(s) \in Nat /\ Len(t) \in Nat
  OBVIOUS
<1>1. /\ s \o t \in Seq(S) /\ Len(s \o t) = Len(s) + Len(t)
      /\ \A i \in 1 .. Len(s) + Len(t) : (s \o t)[i] = IF i <= Len(s) THEN s[i] ELSE t[i - Len(s)]
  BY ConcatProperties
<1>2. ASSUME NEW i \in 1 .. Len(s) PROVE (s \o t)[i] = s[i]
  <2>1. i \in 1 .. Len(s) + Len(t) /\ i <= Len(s)
    BY <1>0, SMT
  <2> QED BY <1>1, <2>1
<1>3. ASSUME NEW k \in 1 .. Len(s) + Len(t), Len(s) < k PROVE (s \o t)[k] = t[k - Len(s)]
  <2>1. ~(k <= Len(s))
    BY <1>0, <1>3, SMT
  <2> QED BY <1>1, <2>1
<1> QED BY <1>1, <1>2, <1>3

(* ChipSetup: the count, every chip's position, the models, the clock.         *)
LEMMA ChipSetupIs ==
  ASSUME NEW n \in Nat \ {0}, NEW mods \in Nat
  PROVE  /\ ChipSetup(n, mods) \in Seq(Requests)
         /\ Len(ChipSetup(n, mods)) = n + mods + 2
         /\ ChipSetup(n, mods)[1] = Request("Count", n, 0)
         /\ \A c \in 0 .. n - 1 : ChipSetup(n, mods)[c + 2] = Request("Position", c, 0)
         /\ \A c \in 0 .. mods - 1 : ChipSetup(n, mods)[n + c + 2] = Request("Model", c, 0)
         /\ ChipSetup(n, mods)[n + mods + 2] = Plain("Clock")
<1> DEFINE A == << Request("Count", n, 0) >>
           B == [c \in 1 .. n |-> Request("Position", c - 1, 0)]
           C == [c \in 1 .. mods |-> Request("Model", c - 1, 0)]
           D == << Plain("Clock") >>
<1>1. /\ Request("Count", n, 0) \in Requests /\ Plain("Clock") \in Requests
      /\ \A c \in 1 .. n : Request("Position", c - 1, 0) \in Requests
      /\ \A c \in 1 .. mods : Request("Model", c - 1, 0) \in Requests
  BY SMT DEF Requests, Request, Plain, Commands
<1>2. /\ A \in Seq(Requests) /\ Len(A) = 1 /\ A[1] = Request("Count", n, 0)
      /\ D \in Seq(Requests) /\ Len(D) = 1 /\ D[1] = Plain("Clock")
  BY <1>1
<1>3. /\ B \in Seq(Requests) /\ Len(B) = n
      /\ \A c \in 1 .. n : B[c] = Request("Position", c - 1, 0)
  BY <1>1, SMT
<1>4. /\ C \in Seq(Requests) /\ Len(C) = mods
      /\ \A c \in 1 .. mods : C[c] = Request("Model", c - 1, 0)
  BY <1>1, SMT
<1>5. ChipSetup(n, mods) = ((A \o B) \o C) \o D
  BY DEF ChipSetup
<1> HIDE DEF A, B, C, D
<1>11. PICK AB \in Seq(Requests) : AB = A \o B
  BY <1>2, <1>3, <1>4, Joined
<1>12. Len(AB) = Len(A) + Len(B)
  BY <1>11, <1>2, <1>3, <1>4, Joined
<1>13. \A i \in 1 .. Len(A) : AB[i] = A[i]
  BY <1>11, <1>2, <1>3, <1>4, Joined
<1>14. \A i \in 1 .. Len(A) + Len(B) : Len(A) < i => AB[i] = B[i - Len(A)]
  BY <1>11, <1>2, <1>3, <1>4, Joined
<1>15. PICK ABC \in Seq(Requests) : ABC = AB \o C
  BY <1>2, <1>3, <1>4, Joined
<1>16. Len(ABC) = Len(AB) + Len(C)
  BY <1>15, <1>2, <1>3, <1>4, Joined
<1>17. \A i \in 1 .. Len(AB) : ABC[i] = AB[i]
  BY <1>15, <1>2, <1>3, <1>4, Joined
<1>18. \A i \in 1 .. Len(AB) + Len(C) : Len(AB) < i => ABC[i] = C[i - Len(AB)]
  BY <1>15, <1>2, <1>3, <1>4, Joined
<1>19. PICK u \in Seq(Requests) : u = ABC \o D
  BY <1>2, <1>3, <1>4, Joined
<1>20. Len(u) = Len(ABC) + Len(D)
  BY <1>19, <1>2, <1>3, <1>4, Joined
<1>21. \A i \in 1 .. Len(ABC) : u[i] = ABC[i]
  BY <1>19, <1>2, <1>3, <1>4, Joined
<1>22. \A i \in 1 .. Len(ABC) + Len(D) : Len(ABC) < i => u[i] = D[i - Len(ABC)]
  BY <1>19, <1>2, <1>3, <1>4, Joined
<1>23. Len(AB) = n + 1 /\ Len(ABC) = n + mods + 1 /\ Len(u) = n + mods + 2
  BY <1>2, <1>3, <1>4, <1>12, <1>16, <1>20, SMT
<1>24. u[1] = A[1]
  <2>1. 1 \in 1 .. Len(A) /\ 1 \in 1 .. Len(AB) /\ 1 \in 1 .. Len(ABC)
    BY <1>2, <1>3, <1>4, <1>23, SMT
  <2> QED BY <1>13, <1>17, <1>21, <2>1
<1>25. u[n + mods + 2] = D[1]
  <2>1. /\ n + mods + 2 \in 1 .. Len(ABC) + Len(D) /\ Len(ABC) < n + mods + 2
        /\ n + mods + 2 - Len(ABC) = 1
    BY <1>2, <1>3, <1>4, <1>23, SMT
  <2> QED BY <1>22, <2>1
<1>26. ASSUME NEW c \in 0 .. n - 1 PROVE u[c + 2] = B[c + 1]
  <2>1. /\ c + 2 \in 1 .. Len(ABC) /\ c + 2 \in 1 .. Len(AB)
        /\ c + 2 \in 1 .. Len(A) + Len(B) /\ Len(A) < c + 2 /\ c + 2 - Len(A) = c + 1
    BY <1>2, <1>3, <1>4, <1>23, SMT
  <2>2. u[c + 2] = AB[c + 2]
    BY <1>17, <1>21, <2>1
  <2>3. AB[c + 2] = B[c + 2 - Len(A)]
    BY <1>14, <2>1
  <2> QED BY <2>1, <2>2, <2>3
<1>27. ASSUME NEW c \in 0 .. mods - 1 PROVE u[n + c + 2] = C[c + 1]
  <2>1. /\ n + c + 2 \in 1 .. Len(ABC)
        /\ n + c + 2 \in 1 .. Len(AB) + Len(C) /\ Len(AB) < n + c + 2
        /\ n + c + 2 - Len(AB) = c + 1
    BY <1>2, <1>3, <1>4, <1>23, SMT
  <2> DEFINE k == n + c + 2
  <2> HIDE DEF k
  <2>2. ABC[k] = C[k - Len(AB)]
    BY <1>18, <2>1 DEF k
  <2>3. u[k] = ABC[k]
    BY <1>21, <2>1 DEF k
  <2> QED BY <2>1, <2>2, <2>3 DEF k
<1>7. /\ \A c \in 0 .. n - 1 : c + 1 \in 1 .. n /\ c + 1 - 1 = c
      /\ \A c \in 0 .. mods - 1 : c + 1 \in 1 .. mods /\ c + 1 - 1 = c
  BY SMT
<1>8. ASSUME NEW c \in 0 .. n - 1 PROVE B[c + 1] = Request("Position", c, 0)
  <2>1. B[c + 1] = Request("Position", c + 1 - 1, 0)
    BY <1>3, <1>7
  <2> QED BY <1>7, <2>1
<1>10. ASSUME NEW c \in 0 .. mods - 1 PROVE C[c + 1] = Request("Model", c, 0)
  <2>1. C[c + 1] = Request("Model", c + 1 - 1, 0)
    BY <1>4, <1>7
  <2> QED BY <1>7, <2>1
<1>9. u = ChipSetup(n, mods)
  BY <1>5, <1>11, <1>15, <1>19
<1> QED BY <1>2, <1>8, <1>9, <1>10, <1>23, <1>24, <1>25, <1>26, <1>27

----------------------------------------------------------------------------
(* The requests that wait for the server, in the order they will be served.  *)

\* What the server is asked now
Current == IF sender.at \in {"Asking", "Answer"} THEN sender.request ELSE Nothing

\* It, the queue, what the call under way has still to queue, and nothing more
PendingOf(r, q, t) ==
  [i \in Nat |-> IF i = 0 THEN r
                 ELSE IF i <= Len(q) THEN q[i]
                 ELSE IF i - Len(q) <= Len(t) THEN t[i - Len(q)].request
                 ELSE Nothing]

\* What is pending now
Pending == PendingOf(Current, queue, todo)

\* The requests that need the chips
Uses == {"Write", "Reset"}

\* Among the requests from i to before j: one for chip c, the clock, no count
Has(K, i, j, cmd, c) == \E k \in Nat : i <= k /\ k < j /\ K[k].cmd = cmd /\ K[k].sid = c
HasClock(K, i, j) == \E k \in Nat : i <= k /\ k < j /\ K[k].cmd = "Clock"
NoCount(K, i, j) == \A k \in Nat : i <= k /\ k < j => K[k].cmd # "Count"

\* The count at i is followed by all that its chips on the server need before j
Behind(K, i, j, s) ==
  /\ \A c \in 0 .. K[i].sid - 1 :
       Has(K, i + 1, j, "Position", c) /\ (s.lists => Has(K, i + 1, j, "Model", c))
  /\ HasClock(K, i + 1, j)

\* With no count before j: what the server has or is asked before j
OnServer(K, j, s) ==
  /\ s.chips > 0
  /\ \A c \in 0 .. s.chips - 1 :
       /\ c \in s.positions \/ Has(K, 0, j, "Position", c)
       /\ s.lists => c \in s.models \/ Has(K, 0, j, "Model", c)
  /\ s.clocked \/ HasClock(K, 0, j)

\* A request at j would meet a server that is ready
Good(K, j, s) ==
  /\ \A i \in Nat : i < j /\ K[i].cmd = "Count" /\ NoCount(K, i + 1, j) => Behind(K, i, j, s)
  /\ NoCount(K, 0, j) => OnServer(K, j, s)

\* A request that neither sets up nor asks for chips
Harmless(r) == r.cmd \notin {"Count", "Position", "Model", "Clock"}

(* What follows a request that would find the server ready does so too, as    *)
(* long as there is no count in between.                                     *)
LEMMA GoodLater ==
  ASSUME NEW K, NEW L, NEW s, NEW j \in Nat, NEW m \in Nat, j <= m, Good(K, j, s),
         \A k \in Nat : k < j => L[k] = K[k],
         \A k \in Nat : j <= k /\ k < m => L[k].cmd # "Count"
  PROVE  Good(L, m, s)
<1>1. ASSUME NEW i \in Nat, NEW cmd, NEW c, Has(K, i, j, cmd, c)
      PROVE  Has(L, i, m, cmd, c)
  BY <1>1, SMT DEF Has
<1>2. ASSUME NEW i \in Nat, HasClock(K, i, j)
      PROVE  HasClock(L, i, m)
  BY <1>2, SMT DEF HasClock
<1>3. ASSUME NEW i \in Nat, NoCount(L, i, m)
      PROVE  NoCount(K, i, j)
  BY <1>3, SMT DEF NoCount
<1>4. ASSUME NEW i \in Nat, i < m, L[i].cmd = "Count", NoCount(L, i + 1, m)
      PROVE  Behind(L, i, m, s)
  <2>1. i < j /\ K[i] = L[i] /\ i + 1 \in Nat
    BY <1>4, SMT
  <2>2. Behind(K, i, j, s)
    BY <1>3, <1>4, <2>1 DEF Good
  <2> QED BY <1>1, <1>2, <2>1, <2>2 DEF Behind
<1>5. ASSUME NoCount(L, 0, m)
      PROVE  OnServer(L, m, s)
  <2>1. OnServer(K, j, s)
    BY <1>3, <1>5 DEF Good
  <2> QED BY <1>1, <1>2, <2>1 DEF OnServer
<1> QED BY <1>4, <1>5 DEF Good

(* And what comes before it, with nothing but harmless requests in between.   *)
LEMMA GoodEarlier ==
  ASSUME NEW K, NEW L, NEW s, NEW j \in Nat, NEW m \in Nat, j <= m, Good(K, m, s),
         \A k \in Nat : k < j => L[k] = K[k],
         \A k \in Nat : j <= k /\ k < m => Harmless(K[k])
  PROVE  Good(L, j, s)
<1>1. ASSUME NEW i \in Nat, NEW cmd \in {"Position", "Model"}, NEW c, Has(K, i, m, cmd, c)
      PROVE  Has(L, i, j, cmd, c)
  <2>1. PICK k \in Nat : i <= k /\ k < m /\ K[k].cmd = cmd /\ K[k].sid = c
    BY <1>1 DEF Has
  <2>2. k < j
    BY <2>1, SMT DEF Harmless
  <2> QED BY <2>1, <2>2 DEF Has
<1>2. ASSUME NEW i \in Nat, HasClock(K, i, m)
      PROVE  HasClock(L, i, j)
  BY <1>2, SMT DEF HasClock, Harmless
<1>3. ASSUME NEW i \in Nat, NoCount(L, i, j)
      PROVE  NoCount(K, i, m)
  BY <1>3, SMT DEF NoCount, Harmless
<1>4. ASSUME NEW i \in Nat, i < j, L[i].cmd = "Count", NoCount(L, i + 1, j)
      PROVE  Behind(L, i, j, s)
  <2>1. i < m /\ K[i] = L[i] /\ i + 1 \in Nat
    BY <1>4, SMT
  <2>2. Behind(K, i, m, s)
    BY <1>3, <1>4, <2>1 DEF Good
  <2> QED BY <1>1, <1>2, <2>1, <2>2 DEF Behind
<1>5. ASSUME NoCount(L, 0, j)
      PROVE  OnServer(L, j, s)
  <2>1. OnServer(K, m, s)
    BY <1>3, <1>5 DEF Good
  <2> QED BY <1>1, <1>2, <2>1 DEF OnServer
<1> QED BY <1>4, <1>5 DEF Good

\* The first request of K is harmless, and L is K without it
Shifted(K, L) == Harmless(K[0]) /\ \A k \in Nat : L[k] = K[k + 1]

(* The sender thread takes a request off the queue: all move up by one.       *)
LEMMA GoodShifted ==
  ASSUME NEW K, NEW L, NEW s, NEW j \in Nat, Shifted(K, L), Good(K, j + 1, s)
  PROVE  Good(L, j, s)
<1>1. ASSUME NEW i \in Nat, NEW cmd, NEW c, Has(K, i + 1, j + 1, cmd, c)
      PROVE  Has(L, i, j, cmd, c)
  <2>1. PICK k \in Nat : i + 1 <= k /\ k < j + 1 /\ K[k].cmd = cmd /\ K[k].sid = c
    BY <1>1 DEF Has
  <2>2. k - 1 \in Nat /\ i <= k - 1 /\ k - 1 < j /\ k - 1 + 1 = k
    BY <2>1, SMT
  <2>3. L[k - 1] = K[k]
    BY <2>2 DEF Shifted
  <2> QED BY <2>1, <2>2, <2>3 DEF Has
<1>2. ASSUME NEW i \in Nat, HasClock(K, i + 1, j + 1)
      PROVE  HasClock(L, i, j)
  <2>1. PICK k \in Nat : i + 1 <= k /\ k < j + 1 /\ K[k].cmd = "Clock"
    BY <1>2 DEF HasClock
  <2>2. k - 1 \in Nat /\ i <= k - 1 /\ k - 1 < j /\ k - 1 + 1 = k
    BY <2>1, SMT
  <2>3. L[k - 1] = K[k]
    BY <2>2 DEF Shifted
  <2> QED BY <2>1, <2>2, <2>3 DEF HasClock
<1>3. ASSUME NEW i \in Nat, NoCount(L, i, j)
      PROVE  NoCount(K, i + 1, j + 1)
  <2> SUFFICES ASSUME NEW k \in Nat, i + 1 <= k, k < j + 1 PROVE K[k].cmd # "Count"
    BY DEF NoCount
  <2>1. k - 1 \in Nat /\ i <= k - 1 /\ k - 1 < j /\ k - 1 + 1 = k
    BY SMT
  <2>2. L[k - 1] = K[k]
    BY <2>1 DEF Shifted
  <2> QED BY <1>3, <2>1, <2>2 DEF NoCount
<1>4. ASSUME NEW i \in Nat, i < j, L[i].cmd = "Count", NoCount(L, i + 1, j)
      PROVE  Behind(L, i, j, s)
  <2>1. i + 1 \in Nat /\ i + 1 < j + 1 /\ K[i + 1] = L[i] /\ i + 1 + 1 \in Nat
    BY <1>4, SMT DEF Shifted
  <2>2. Behind(K, i + 1, j + 1, s)
    BY <1>3, <1>4, <2>1 DEF Good
  <2> QED BY <1>1, <1>2, <2>1, <2>2 DEF Behind
<1>5. ASSUME NoCount(L, 0, j)
      PROVE  OnServer(L, j, s)
  <2>1. NoCount(K, 0 + 1, j + 1)
    BY <1>3, <1>5
  <2>2. NoCount(K, 0, j + 1)
    BY <2>1, SMT DEF NoCount, Shifted, Harmless
  <2>3. OnServer(K, j + 1, s)
    BY <2>2 DEF Good
  <2>4. ASSUME NEW cmd \in {"Position", "Model"}, NEW c, Has(K, 0, j + 1, cmd, c)
        PROVE  Has(L, 0, j, cmd, c)
    <3>1. Has(K, 0 + 1, j + 1, cmd, c)
      BY <2>4, SMT DEF Has, Shifted, Harmless
    <3> QED BY <1>1, <3>1
  <2>5. ASSUME HasClock(K, 0, j + 1)
        PROVE  HasClock(L, 0, j)
    <3>1. HasClock(K, 0 + 1, j + 1)
      BY <2>5, SMT DEF HasClock, Shifted, Harmless
    <3> QED BY <1>2, <3>1
  <2> QED BY <2>3, <2>4, <2>5 DEF OnServer
<1> QED BY <1>4, <1>5 DEF Good

\* The server has done what r asks of it, or was not asked because it cannot
Done(s, r, t) ==
  /\ t.lists = s.lists
  /\ IF r.cmd = "Count" THEN t.chips > 0 /\ t.chips <= r.sid
     ELSE /\ t.chips = s.chips
          /\ s.positions \subseteq t.positions /\ s.models \subseteq t.models
          /\ s.clocked => t.clocked
          /\ r.cmd = "Position" /\ r.sid < s.chips => r.sid \in t.positions
          /\ r.cmd = "Model" /\ r.sid < s.chips => r.sid \in t.models
          /\ r.cmd = "Clock" => t.clocked

(* The first request is done: what waited for it finds it on the server.      *)
LEMMA GoodDone ==
  ASSUME NEW K, NEW L, NEW s, NEW t, NEW j \in Nat \ {0}, Good(K, j, s),
         Done(s, K[0], t), Harmless(L[0]), \A k \in Nat \ {0} : L[k] = K[k],
         s.chips \in Nat, t.chips \in Nat, K[0].sid \in Nat
  PROVE  Good(L, j, t)
<1>1. ASSUME NEW i \in Nat \ {0}, NEW cmd, NEW c, Has(K, i, j, cmd, c)
      PROVE  Has(L, i, j, cmd, c)
  BY <1>1, SMT DEF Has
<1>2. ASSUME NEW i \in Nat \ {0}, HasClock(K, i, j)
      PROVE  HasClock(L, i, j)
  BY <1>2, SMT DEF HasClock
<1>3. ASSUME NEW i \in Nat \ {0}, NoCount(L, i, j)
      PROVE  NoCount(K, i, j)
  BY <1>3, SMT DEF NoCount
<1>4. ASSUME NEW i \in Nat, i < j, L[i].cmd = "Count", NoCount(L, i + 1, j)
      PROVE  Behind(L, i, j, t)
  <2>1. i \in Nat \ {0} /\ i + 1 \in Nat \ {0}
    BY <1>4, SMT DEF Harmless
  <2>2. Behind(K, i, j, s)
    BY <1>3, <1>4, <2>1 DEF Good
  <2> QED BY <1>1, <1>2, <2>1, <2>2 DEF Behind, Done
<1>5. ASSUME NoCount(L, 0, j)
      PROVE  OnServer(L, j, t)
  <2>1. NoCount(K, 1, j)
    BY <1>5, SMT DEF NoCount
  <2>2. ASSUME NEW cmd, NEW c, Has(K, 1, j, cmd, c) PROVE Has(L, 0, j, cmd, c)
    BY <2>2, SMT DEF Has
  <2>3. ASSUME HasClock(K, 1, j) PROVE HasClock(L, 0, j)
    BY <2>3, SMT DEF HasClock
  <2>4. CASE K[0].cmd = "Count"
    <3>1. Behind(K, 0, j, s)
      <4>1. 0 + 1 = 1 /\ 0 < j
        BY SMT
      <4> QED BY <2>1, <2>4, <4>1 DEF Good
    <3>2. 0 + 1 = 1 /\ t.chips > 0 /\ \A c \in 0 .. t.chips - 1 : c \in 0 .. K[0].sid - 1
      BY <2>4, SMT DEF Done
    <3>3. \A c \in 0 .. t.chips - 1 :
            Has(K, 1, j, "Position", c) /\ (t.lists => Has(K, 1, j, "Model", c))
      BY <3>1, <3>2 DEF Behind, Done
    <3>4. HasClock(K, 1, j)
      BY <3>1, <3>2 DEF Behind
    <3> QED BY <2>2, <2>3, <3>2, <3>3, <3>4 DEF OnServer
  <2>5. CASE K[0].cmd # "Count"
    <3>1. NoCount(K, 0, j)
      BY <2>1, <2>5, SMT DEF NoCount
    <3>2. OnServer(K, j, s)
      BY <3>1 DEF Good
    <3>3. ASSUME NEW c, NEW cmd \in {"Position", "Model"}, Has(K, 0, j, cmd, c)
          PROVE  (K[0].cmd = cmd /\ K[0].sid = c) \/ Has(K, 1, j, cmd, c)
      BY <3>3, SMT DEF Has
    <3>4. HasClock(K, 0, j) => K[0].cmd = "Clock" \/ HasClock(K, 1, j)
      BY SMT DEF HasClock
    <3>5. ASSUME NEW c \in 0 .. t.chips - 1
          PROVE  /\ c \in t.positions \/ Has(L, 0, j, "Position", c)
                 /\ t.lists => c \in t.models \/ Has(L, 0, j, "Model", c)
      <4>1. t.chips = s.chips /\ c < s.chips
        BY <2>5, SMT DEF Done
      <4>2. c \in t.positions \/ Has(L, 0, j, "Position", c)
        BY <2>2, <2>5, <3>2, <3>3, <4>1 DEF OnServer, Done
      <4>3. t.lists => c \in t.models \/ Has(L, 0, j, "Model", c)
        BY <2>2, <2>5, <3>2, <3>3, <4>1 DEF OnServer, Done
      <4> QED BY <4>2, <4>3
    <3>6. t.chips > 0 /\ (t.clocked \/ HasClock(L, 0, j))
      BY <2>3, <2>5, <3>2, <3>4 DEF OnServer, Done
    <3> QED BY <3>5, <3>6 DEF OnServer
  <2> QED BY <2>4, <2>5
<1> QED BY <1>4, <1>5 DEF Good

(* A request that nothing is in front of finds the server as it is.          *)
LEMMA GoodNow ==
  ASSUME NEW K, NEW s, Good(K, 0, s), s.chips \in Nat,
         s.positions \cup s.models \subseteq 0 .. s.chips - 1
  PROVE  Ready(s)
<1>1. NoCount(K, 0, 0)
  BY SMT DEF NoCount
<1>2. OnServer(K, 0, s)
  BY <1>1 DEF Good
<1>3. ~HasClock(K, 0, 0) /\ \A cmd, c : ~Has(K, 0, 0, cmd, c)
  BY SMT DEF HasClock, Has
<1> QED BY <1>2, <1>3 DEF OnServer, Ready

(* A whole chip setup from i on, without another count up to j.              *)
LEMMA GoodAfterSetup ==
  ASSUME NEW K, NEW s, NEW n \in Nat \ {0}, NEW mods \in Nat, s.lists => mods = n,
         NEW i \in Nat, NEW j \in Nat, i + n + mods + 2 <= j,
         \A k \in 1 .. n + mods + 2 : K[i + k - 1] = ChipSetup(n, mods)[k],
         NoCount(K, i + n + mods + 2, j)
  PROVE  Good(K, j, s)
<1>1. /\ K[i] = Request("Count", n, 0)
      /\ K[i + n + mods + 1] = Plain("Clock")
      /\ \A c \in 0 .. n - 1 : K[i + c + 1] = Request("Position", c, 0)
      /\ \A c \in 0 .. mods - 1 : K[i + n + c + 1] = Request("Model", c, 0)
  <2>1. 1 \in 1 .. n + mods + 2 /\ i + 1 - 1 = i /\ n + mods + 2 \in 1 .. n + mods + 2
        /\ i + (n + mods + 2) - 1 = i + n + mods + 1
    BY SMT
  <2>2. /\ \A c \in 0 .. n - 1 :
             c + 2 \in 1 .. n + mods + 2 /\ i + (c + 2) - 1 = i + c + 1
        /\ \A c \in 0 .. mods - 1 :
             n + c + 2 \in 1 .. n + mods + 2 /\ i + (n + c + 2) - 1 = i + n + c + 1
    BY SMT
  <2>3. K[i] = ChipSetup(n, mods)[1] /\ K[i + n + mods + 1] = ChipSetup(n, mods)[n + mods + 2]
    BY <2>1
  <2>4. /\ \A c \in 0 .. n - 1 : K[i + c + 1] = ChipSetup(n, mods)[c + 2]
        /\ \A c \in 0 .. mods - 1 : K[i + n + c + 1] = ChipSetup(n, mods)[n + c + 2]
    BY <2>2
  <2> QED BY <2>3, <2>4, ChipSetupIs
<1>2. ASSUME NEW k \in Nat, i < k, k < j PROVE K[k].cmd # "Count"
  <2>1. CASE k >= i + n + mods + 2
    BY <1>2, <2>1, SMT DEF NoCount
  <2>2. CASE k = i + n + mods + 1
    BY <1>1, <2>2 DEF Plain, Request
  <2>3. CASE k <= i + n
    <3>1. k - i - 1 \in 0 .. n - 1 /\ i + (k - i - 1) + 1 = k
      BY <1>2, <2>3, SMT
    <3>2. K[k] = Request("Position", k - i - 1, 0)
      BY <1>1, <3>1
    <3> QED BY <3>2 DEF Request
  <2>4. CASE i + n < k /\ k < i + n + mods + 1
    <3>1. k - i - n - 1 \in 0 .. mods - 1 /\ i + n + (k - i - n - 1) + 1 = k
      BY <1>2, <2>4, SMT
    <3>2. K[k] = Request("Model", k - i - n - 1, 0)
      BY <1>1, <3>1
    <3> QED BY <3>2 DEF Request
  <2>5. k >= i + n + mods + 2 \/ k = i + n + mods + 1 \/ k <= i + n \/ (i + n < k /\ k < i + n + mods + 1)
    BY SMT
  <2> QED BY <2>1, <2>2, <2>3, <2>4, <2>5
<1>3. Behind(K, i, j, s)
  <2>1. K[i].sid = n
    BY <1>1 DEF Request
  <2>2. ASSUME NEW c \in 0 .. n - 1 PROVE Has(K, i + 1, j, "Position", c)
    <3>1. i + c + 1 \in Nat /\ i + 1 <= i + c + 1 /\ i + c + 1 < j
      BY SMT
    <3>2. K[i + c + 1] = Request("Position", c, 0)
      BY <1>1
    <3> QED BY <3>1, <3>2 DEF Has, Request
  <2>4. ASSUME s.lists, NEW c \in 0 .. n - 1 PROVE Has(K, i + 1, j, "Model", c)
    <3>1. /\ i + n + c + 1 \in Nat /\ i + 1 <= i + n + c + 1 /\ i + n + c + 1 < j
          /\ c \in 0 .. mods - 1
      BY <2>4, SMT
    <3>2. K[i + n + c + 1] = Request("Model", c, 0)
      BY <1>1, <3>1
    <3> QED BY <3>1, <3>2 DEF Has, Request
  <2>3. HasClock(K, i + 1, j)
    <3>1. i + n + mods + 1 \in Nat /\ i + 1 <= i + n + mods + 1 /\ i + n + mods + 1 < j
      BY SMT
    <3> QED BY <1>1, <3>1 DEF HasClock, Plain, Request
  <2> QED BY <2>1, <2>2, <2>3, <2>4 DEF Behind
<1>4. ASSUME NEW l \in Nat, l < j, K[l].cmd = "Count", NoCount(K, l + 1, j) PROVE l = i
  <2>1. K[i].cmd = "Count" /\ i < j
    BY <1>1, SMT DEF Request
  <2>2. ~(l < i)
    BY <1>4, <2>1, SMT DEF NoCount
  <2>3. ~(i < l)
    BY <1>2, <1>4
  <2> QED BY <2>2, <2>3, SMT
<1>5. ~NoCount(K, 0, j)
  BY <1>1, SMT DEF NoCount, Request
<1> QED BY <1>3, <1>4, <1>5 DEF Good

----------------------------------------------------------------------------
(* The types, and the shapes that a call under way can have.                 *)

\* The steps of a call, the sender thread and the servers there are
TodoSteps == [do : Steps, request : Requests]
Senders == [at : SenderPlaces, request : Requests, tried : Nat, ok : BOOLEAN]
Servers == [chips : Nat, positions : SUBSET Nat, models : SUBSET Nat, clocked : BOOLEAN,
            fm : BOOLEAN, cap : Nat, takesFm : BOOLEAN, lists : BOOLEAN]

(* A server that was just connected has room and nothing set up.               *)
LEMMA FreshServersAre ==
  ASSUME NEW s \in FreshServers
  PROVE  /\ s \in Servers /\ s.cap > 0
         /\ s.chips = 0 /\ s.positions = {} /\ s.models = {} /\ s.fm = FALSE
<1>1. PICK k \in Kinds :
        s = [Unplugged EXCEPT !.cap = k.cap, !.takesFm = k.takesFm, !.lists = k.lists]
  BY DEF FreshServers
<1>2. k.cap \in Nat /\ k.cap > 0 /\ k.takesFm \in BOOLEAN /\ k.lists \in BOOLEAN
  BY NetSenderAssumption
<1> QED BY <1>1, <1>2 DEF Unplugged, Servers

\* A count is tried at no more than what was asked for, and never at 0
Typed ==
  /\ queue \in Seq(Requests) /\ todo \in Seq(TodoSteps) /\ inflight \in Nat
  /\ connected \in BOOLEAN /\ running \in BOOLEAN
  /\ fmSent \in BOOLEAN /\ fmRefused \in BOOLEAN
  /\ sidCount \in Nat \ {0} /\ wireLimit \in Nat \ {0}
  /\ sender \in Senders /\ server \in Servers
  /\ server.positions \cup server.models \subseteq 0 .. server.chips - 1
  /\ sender.at \in {"Asking", "Answer"} /\ sender.request.cmd = "Count" =>
       sender.tried \in 1 .. sender.request.sid

\* What is left of reset() or set_chips() before its chip setup
Settling ==
  { << Do("Drop"), Enqueue(Plain("Flush")), Do("Setup"), Enqueue(Plain("Reset")),
       Do("FmAgain") >>,
    << Enqueue(Plain("Flush")), Do("Setup"), Enqueue(Plain("Reset")), Do("FmAgain") >>,
    << Do("Setup"), Enqueue(Plain("Reset")), Do("FmAgain") >>,
    << Do("Setup") >> }

\* The order of the steps of disconnect() and connect()
Closing == {"Stop", "Drop", "Notify", "Join", "Close", "Handshake"}
\* What comes after each of them
FollowedBy(step) ==
  CASE step = "Stop" -> "Drop" [] step = "Drop" -> "Notify" [] step = "Notify" -> "Join"
    [] step = "Join" -> "Close" [] step = "Close" -> "Handshake"
    [] step = "Handshake" -> "None"

\* What is left of them
Closers(t) ==
  /\ Len(t) > 0
  /\ \A i \in 1 .. Len(t) :
       /\ t[i].request = Nothing /\ t[i].do \in Closing
       /\ IF i < Len(t) THEN t[i + 1].do = FollowedBy(t[i].do)
          ELSE t[i].do \in {"Close", "Handshake"}

\* What is left to queue, with one last step that queues nothing itself
Simple(t) ==
  \A i \in 1 .. Len(t) :
    \/ t[i].do = "Enqueue"
    \/ i = Len(t) /\ t[i].do \in {"Wait", "FmAgain"} /\ t[i].request = Nothing

\* All that a call under way can have left to do
Shaped(t) == t \in Settling \/ Closers(t) \/ Simple(t)

(* Nothing is left.                                                         *)
LEMMA LengthZero ==
  ASSUME NEW S, NEW q \in Seq(S), Len(q) = 0
  PROVE  q = << >>
<1>1. q # << >> => Len(q) \in Nat \ {0}
  BY EmptySeq
<1> QED BY <1>1

(* The requests and the steps that the calls are made of.                    *)
LEMMA Members ==
  /\ Nothing \in Requests /\ Plain("Flush") \in Requests /\ Plain("Reset") \in Requests
  /\ Plain("Fm") \in Requests
  /\ \A n \in Nat : Request("Write", 0, n) \in Requests
  /\ \A st \in Steps : Do(st) \in TodoSteps /\ Do(st).do = st /\ Do(st).request = Nothing
  /\ \A r \in Requests : /\ Enqueue(r) \in TodoSteps /\ Enqueue(r).do = "Enqueue"
                         /\ Enqueue(r).request = r
<1>1. /\ Nothing \in Requests /\ Plain("Flush") \in Requests /\ Plain("Reset") \in Requests
      /\ Plain("Fm") \in Requests
      /\ \A n \in Nat : Request("Write", 0, n) \in Requests
  BY SMT DEF Requests, Commands, Nothing, Plain, Request
<1>2. /\ "Enqueue" \in Steps
      /\ \A st \in Steps : Do(st) \in TodoSteps /\ Do(st).do = st /\ Do(st).request = Nothing
  BY <1>1, SMT DEF Steps, TodoSteps, Do
<1>3. \A r \in Requests : /\ Enqueue(r) \in TodoSteps /\ Enqueue(r).do = "Enqueue"
                          /\ Enqueue(r).request = r
  BY <1>2, SMT DEF TodoSteps, Enqueue
<1> QED BY <1>1, <1>2, <1>3

(* What is left after a step of a reset.                                     *)
LEMMA SettlingSteps ==
  ASSUME NEW t \in Settling
  PROVE  /\ t \in Seq(TodoSteps) /\ t # << >> /\ Len(t) > 0
         /\ t[1] = Head(t)
         /\ Head(t).do \in {"Drop", "Enqueue", "Setup"}
         /\ Head(t).do = "Drop" => Tail(t) \in Settling
         /\ Head(t).do = "Enqueue" => Tail(t) \in Settling /\ Head(t).request = Plain("Flush")
         /\ Head(t).do = "Setup" =>
              \/ Tail(t) = << >>
              \/ Tail(t) = << Enqueue(Plain("Reset")), Do("FmAgain") >>
<1>1. /\ \A st \in {"Drop", "Setup", "FmAgain"} : Do(st) \in TodoSteps /\ Do(st).do = st
      /\ \A r \in {Plain("Flush"), Plain("Reset")} :
           /\ Enqueue(r) \in TodoSteps /\ Enqueue(r).do = "Enqueue"
           /\ Enqueue(r).request = r
  BY Members, SMT DEF Steps
<1> DEFINE d == Do("Drop")
           f == Enqueue(Plain("Flush"))
           s == Do("Setup")
           r == Enqueue(Plain("Reset"))
           a == Do("FmAgain")
<1>2. /\ d \in TodoSteps /\ f \in TodoSteps /\ s \in TodoSteps /\ r \in TodoSteps
      /\ a \in TodoSteps /\ d.do = "Drop" /\ f.do = "Enqueue" /\ s.do = "Setup"
      /\ f.request = Plain("Flush")
  BY <1>1
<1>3. /\ << d, f, s, r, a >> \in Settling /\ << f, s, r, a >> \in Settling
      /\ << s, r, a >> \in Settling
      /\ t = << d, f, s, r, a >> \/ t = << f, s, r, a >> \/ t = << s, r, a >> \/ t = << s >>
  BY DEF Settling
<1> HIDE DEF d, f, s, r, a
<1>4. CASE t = << d, f, s, r, a >>
  BY <1>2, <1>3, <1>4, SMT
<1>5. CASE t = << f, s, r, a >>
  BY <1>2, <1>3, <1>5, SMT
<1>6. CASE t = << s, r, a >>
  <2>1. Tail(t) = << r, a >>
    BY <1>6
  <2> QED BY <1>2, <1>3, <1>6, <2>1 DEF r, a
<1>7. CASE t = << s >>
  BY <1>2, <1>3, <1>7, SMT
<1> QED BY <1>3, <1>4, <1>5, <1>6, <1>7

(* Disconnect() and connect() begin with all of the steps.                   *)
LEMMA ClosingBegins ==
  /\ CloseSteps \in Seq(TodoSteps) /\ Closers(CloseSteps) /\ Head(CloseSteps).do = "Stop"
  /\ CloseSteps \o << Do("Handshake") >> \in Seq(TodoSteps)
  /\ Closers(CloseSteps \o << Do("Handshake") >>)
  /\ Head(CloseSteps \o << Do("Handshake") >>).do = "Stop"
<1> DEFINE s == Do("Stop")
           d == Do("Drop")
           n == Do("Notify")
           j == Do("Join")
           c == Do("Close")
           h == Do("Handshake")
           f == << s, d, n, j, c >>
<1>1. \A st \in {"Stop", "Drop", "Notify", "Join", "Close", "Handshake"} :
        Do(st) \in TodoSteps /\ Do(st).do = st /\ Do(st).request = Nothing
  BY Members, SMT DEF Steps
<1>2. /\ s \in TodoSteps /\ d \in TodoSteps /\ n \in TodoSteps /\ j \in TodoSteps
      /\ c \in TodoSteps /\ h \in TodoSteps
      /\ s.do = "Stop" /\ d.do = "Drop" /\ n.do = "Notify" /\ j.do = "Join"
      /\ c.do = "Close" /\ h.do = "Handshake"
      /\ s.request = Nothing /\ d.request = Nothing /\ n.request = Nothing
      /\ j.request = Nothing /\ c.request = Nothing /\ h.request = Nothing
  BY <1>1
<1>3. CloseSteps = f
  BY DEF CloseSteps
<1> HIDE DEF s, d, n, j, c, h
<1>4. f \in Seq(TodoSteps) /\ << h >> \in Seq(TodoSteps) /\ Len(f) = 5 /\ Len(<< h >>) = 1
  BY <1>2, SMT
<1>5. f[1] = s /\ f[2] = d /\ f[3] = n /\ f[4] = j /\ f[5] = c /\ << h >>[1] = h
  BY SMT
<1> DEFINE l == << h >>
<1> HIDE DEF f, l
<1>6. Closers(f)
  BY <1>2, <1>4, <1>5, SMT DEF Closers, Closing, FollowedBy
<1>7. /\ f \o l \in Seq(TodoSteps) /\ Len(f \o l) = Len(f) + Len(l)
      /\ \A i \in 1 .. Len(f) : (f \o l)[i] = f[i]
      /\ \A i \in 1 .. Len(f) + Len(l) : Len(f) < i => (f \o l)[i] = l[i - Len(f)]
  BY <1>4, Joined DEF l
<1> DEFINE e == f \o l
<1> HIDE DEF e
<1>8. e \in Seq(TodoSteps) /\ Len(e) = 6
  BY <1>4, <1>7, SMT DEF e, l
<1>9. e[1] = s /\ e[2] = d /\ e[3] = n /\ e[4] = j /\ e[5] = c
  <2>1. \A i \in {1, 2, 3, 4, 5} : i \in 1 .. Len(f)
    BY <1>4, SMT
  <2> QED BY <1>5, <1>7, <2>1 DEF e
<1>10. e[6] = h
  <2>1. 6 \in 1 .. Len(f) + Len(l) /\ Len(f) < 6 /\ 6 - Len(f) = 1
    BY <1>4, SMT DEF l
  <2>2. e[6] = l[6 - Len(f)]
    BY <1>7, <2>1 DEF e
  <2> QED BY <1>5, <2>1, <2>2 DEF l
<1>11. Closers(e)
  BY <1>2, <1>8, <1>9, <1>10, SMT DEF Closers, Closing, FollowedBy
<1>12. Head(e) = s /\ Head(f) = s
  BY <1>4, <1>5, <1>8, <1>9, SMT
<1> QED BY <1>2, <1>3, <1>4, <1>6, <1>8, <1>11, <1>12 DEF e, l, h

(* What is left after a step of theirs.                                      *)
LEMMA ClosingSteps ==
  ASSUME NEW t \in Seq(TodoSteps), Closers(t)
  PROVE  /\ t # << >> /\ t[1] = Head(t) /\ Head(t).do \in Closing
         /\ \A i \in 1 .. Len(t) : t[i].request = Nothing /\ t[i].do # "FmAgain"
         /\ \/ Tail(t) = << >> /\ Head(t).do \in {"Close", "Handshake"}
            \/ Closers(Tail(t)) /\ Head(Tail(t)).do = FollowedBy(Head(t).do)
<1>1. t # << >> /\ Len(t) \in Nat \ {0} /\ t[1] = Head(t)
  BY EmptySeq, SMT DEF Closers
<1>2. /\ Tail(t) \in Seq(TodoSteps) /\ Len(Tail(t)) = Len(t) - 1
      /\ \A i \in 1 .. Len(Tail(t)) : Tail(t)[i] = t[i + 1]
  BY <1>1, HeadTailProperties
<1>3. /\ t[1].do \in Closing
      /\ \A i \in 1 .. Len(t) : t[i].request = Nothing /\ t[i].do # "FmAgain"
  BY <1>1, SMT DEF Closers, Closing
<1>4. CASE Len(t) = 1
  <2>1. Len(Tail(t)) = 0
    BY <1>2, <1>4, SMT
  <2>2. Tail(t) = << >>
    BY <1>2, <2>1, LengthZero
  <2>3. t[1].do \in {"Close", "Handshake"}
    BY <1>4, SMT DEF Closers
  <2> QED BY <1>1, <1>3, <2>2, <2>3
<1>5. CASE Len(t) > 1
  <2>1. Closers(Tail(t))
    <3>1. Len(Tail(t)) > 0
      BY <1>1, <1>2, <1>5, SMT
    <3>2. ASSUME NEW i \in 1 .. Len(Tail(t))
          PROVE  /\ Tail(t)[i].request = Nothing /\ Tail(t)[i].do \in Closing
                 /\ IF i < Len(Tail(t)) THEN Tail(t)[i + 1].do = FollowedBy(Tail(t)[i].do)
                    ELSE Tail(t)[i].do \in {"Close", "Handshake"}
      <4> DEFINE k == i + 1
      <4>1. k \in 1 .. Len(t) /\ (i < Len(Tail(t)) <=> k < Len(t))
        BY <1>1, <1>2, SMT
      <4>2. i < Len(Tail(t)) => k \in 1 .. Len(Tail(t))
        BY <1>1, <1>2, SMT
      <4>3. Tail(t)[i] = t[k]
        BY <1>2
      <4> HIDE DEF k
      <4>4. i < Len(Tail(t)) => Tail(t)[k] = t[k + 1]
        BY <1>2, <4>2
      <4>5. /\ t[k].request = Nothing /\ t[k].do \in Closing
            /\ k < Len(t) => t[k + 1].do = FollowedBy(t[k].do)
            /\ ~(k < Len(t)) => t[k].do \in {"Close", "Handshake"}
        BY <4>1 DEF Closers
      <4>6. i < Len(Tail(t)) => Tail(t)[k].do = FollowedBy(Tail(t)[i].do)
        BY <4>1, <4>3, <4>4, <4>5
      <4>7. ~(i < Len(Tail(t))) => Tail(t)[i].do \in {"Close", "Handshake"}
        BY <4>1, <4>3, <4>5
      <4>8. Tail(t)[i].request = Nothing /\ Tail(t)[i].do \in Closing
        BY <4>3, <4>5
      <4>9. CASE i < Len(Tail(t))
        BY <4>6, <4>8, <4>9 DEF k
      <4>10. CASE ~(i < Len(Tail(t)))
        BY <4>7, <4>8, <4>10
      <4> QED BY <4>9, <4>10
    <3> QED BY <3>1, <3>2 DEF Closers
  <2>2. Head(Tail(t)) = t[2]
    BY <1>1, <1>2, <1>5, SMT
  <2>3. t[2].do = FollowedBy(t[1].do)
    BY <1>1, <1>5, SMT DEF Closers
  <2> QED BY <1>1, <1>3, <2>1, <2>2, <2>3
<1>6. \A n \in Nat \ {0} : n = 1 \/ n > 1
  BY SMT
<1> QED BY <1>1, <1>4, <1>5, <1>6

(* What is left after a step that queues.                                    *)
LEMMA SimpleSteps ==
  ASSUME NEW t \in Seq(TodoSteps), t # << >>, Simple(t)
  PROVE  /\ t[1] = Head(t) /\ Head(t).do \in {"Enqueue", "Wait", "FmAgain"}
         /\ Simple(Tail(t))
         /\ Head(t).do # "Enqueue" => Tail(t) = << >> /\ Len(t) = 1 /\ t[1].request = Nothing
<1>1. /\ Tail(t) \in Seq(TodoSteps) /\ Len(Tail(t)) = Len(t) - 1 /\ Len(t) \in Nat \ {0}
      /\ \A i \in 1 .. Len(Tail(t)) : Tail(t)[i] = t[i + 1]
  BY HeadTailProperties, SMT
<1>2. t[1] = Head(t)
  BY SMT
<1>3. Simple(Tail(t))
  <2> SUFFICES ASSUME NEW i \in 1 .. Len(Tail(t))
               PROVE  \/ Tail(t)[i].do = "Enqueue"
                      \/ /\ i = Len(Tail(t)) /\ Tail(t)[i].do \in {"Wait", "FmAgain"}
                         /\ Tail(t)[i].request = Nothing
    BY DEF Simple
  <2> DEFINE n == Len(t)
             m == Len(Tail(t))
  <2>a. n \in Nat \ {0} /\ m = n - 1 /\ i \in 1 .. m
    BY <1>1
  <2> HIDE DEF n, m
  <2>b. i + 1 \in 1 .. n /\ (i + 1 = n => i = m) /\ i \in 1 .. m
    BY <2>a, SMT
  <2>1. i + 1 \in 1 .. Len(t) /\ (i + 1 = Len(t) => i = Len(Tail(t)))
    BY <2>b DEF n, m
  <2>2. Tail(t)[i] = t[i + 1]
    BY <1>1
  <2>3. \/ t[i + 1].do = "Enqueue"
        \/ /\ i + 1 = Len(t) /\ t[i + 1].do \in {"Wait", "FmAgain"}
           /\ t[i + 1].request = Nothing
    BY <2>1 DEF Simple
  <2> QED BY <2>1, <2>2, <2>3
<1>4. \/ t[1].do = "Enqueue"
      \/ Len(t) = 1 /\ t[1].do \in {"Wait", "FmAgain"} /\ t[1].request = Nothing
  <2>1. 1 \in 1 .. Len(t)
    BY <1>1, SMT
  <2> QED BY <2>1 DEF Simple
<1>5. Len(t) = 1 => Tail(t) = << >>
  <2> SUFFICES ASSUME Len(t) = 1 PROVE Tail(t) = << >>
    OBVIOUS
  <2>1. Len(Tail(t)) = 0
    BY <1>1, SMT
  <2> QED BY <1>1, <2>1, LengthZero
<1> QED BY <1>2, <1>3, <1>4, <1>5

(* The steps that a call begins with.                                        *)
LEMMA CallsBegin ==
  /\ << >> \in Seq(TodoSteps) /\ Simple(<< >>)
  /\ << Do("Setup") >> \in Settling /\ ResetSteps \in Settling
  /\ << Do("Setup") >> \in Seq(TodoSteps) /\ ResetSteps \in Seq(TodoSteps)
  /\ << Do("Wait") >> \in Seq(TodoSteps) /\ Simple(<< Do("Wait") >>)
  /\ \A r \in Requests : /\ << Enqueue(r) >> \in Seq(TodoSteps)
                         /\ Simple(<< Enqueue(r) >>)
  /\ \A r, q \in Requests : /\ << Enqueue(r), Enqueue(q) >> \in Seq(TodoSteps)
                            /\ Simple(<< Enqueue(r), Enqueue(q) >>)
  /\ << Enqueue(Plain("Reset")), Do("FmAgain") >> \in Seq(TodoSteps)
  /\ Simple(<< Enqueue(Plain("Reset")), Do("FmAgain") >>)
<1>1. << >> \in Seq(TodoSteps) /\ Simple(<< >>)
  <2>1. Len(<< >>) = 0 /\ << >> \in Seq(TodoSteps)
    BY EmptySeq
  <2> QED BY <2>1, SMT DEF Simple
<1>2. << Do("Setup") >> \in Settling /\ ResetSteps \in Settling
  BY DEF Settling, ResetSteps
<1>3. << Do("Setup") >> \in Seq(TodoSteps) /\ ResetSteps \in Seq(TodoSteps)
  BY <1>2, SettlingSteps
<1>4. << Do("Wait") >> \in Seq(TodoSteps) /\ Simple(<< Do("Wait") >>)
  <2> DEFINE w == Do("Wait")
  <2>1. w \in TodoSteps /\ w.do = "Wait" /\ w.request = Nothing
    BY Members, SMT DEF Steps
  <2> HIDE DEF w
  <2>2. << w >> \in Seq(TodoSteps) /\ Simple(<< w >>)
    BY <2>1, SMT DEF Simple
  <2> QED BY <2>2 DEF w
<1>5. ASSUME NEW r \in Requests
      PROVE  << Enqueue(r) >> \in Seq(TodoSteps) /\ Simple(<< Enqueue(r) >>)
  <2> DEFINE w == Enqueue(r)
  <2>1. w \in TodoSteps /\ w.do = "Enqueue"
    BY Members
  <2> HIDE DEF w
  <2>2. << w >> \in Seq(TodoSteps) /\ Simple(<< w >>)
    BY <2>1, SMT DEF Simple
  <2> QED BY <2>2 DEF w
<1>6. ASSUME NEW r \in Requests, NEW q \in Requests
      PROVE  /\ << Enqueue(r), Enqueue(q) >> \in Seq(TodoSteps)
             /\ Simple(<< Enqueue(r), Enqueue(q) >>)
  <2> DEFINE w == Enqueue(r)
             v == Enqueue(q)
  <2>1. w \in TodoSteps /\ w.do = "Enqueue" /\ v \in TodoSteps /\ v.do = "Enqueue"
    BY Members
  <2> HIDE DEF w, v
  <2>2. << w, v >> \in Seq(TodoSteps) /\ Simple(<< w, v >>)
    BY <2>1, SMT DEF Simple
  <2> QED BY <2>2 DEF w, v
<1>7. /\ << Enqueue(Plain("Reset")), Do("FmAgain") >> \in Seq(TodoSteps)
      /\ Simple(<< Enqueue(Plain("Reset")), Do("FmAgain") >>)
  <2> DEFINE w == Enqueue(Plain("Reset"))
             v == Do("FmAgain")
  <2>1. /\ w \in TodoSteps /\ w.do = "Enqueue"
        /\ v \in TodoSteps /\ v.do = "FmAgain" /\ v.request = Nothing
    BY Members, SMT DEF Steps
  <2> HIDE DEF w, v
  <2>2. << w, v >> \in Seq(TodoSteps) /\ Simple(<< w, v >>)
    BY <2>1, SMT DEF Simple
  <2> QED BY <2>2 DEF w, v
<1> QED BY <1>1, <1>2, <1>3, <1>4, <1>5, <1>6, <1>7

\* What send_chip_setup() has still to queue
SetupSteps(n, mods) == [i \in DOMAIN ChipSetup(n, mods) |-> Enqueue(ChipSetup(n, mods)[i])]

(* The chip setup, and what the call does after it.                          *)
LEMMA SetupStepsAre ==
  ASSUME NEW n \in Nat \ {0}, NEW mods \in Nat, NEW rest \in Seq(TodoSteps), Simple(rest)
  PROVE  /\ SetupSteps(n, mods) \o rest \in Seq(TodoSteps) /\ Simple(SetupSteps(n, mods) \o rest)
         /\ Len(SetupSteps(n, mods) \o rest) = n + mods + 2 + Len(rest)
         /\ \A k \in 1 .. n + mods + 2 :
              (SetupSteps(n, mods) \o rest)[k].request = ChipSetup(n, mods)[k]
         /\ \A k \in 1 .. n + mods + 2 + Len(rest) :
              n + mods + 2 < k => (SetupSteps(n, mods) \o rest)[k] = rest[k - (n + mods + 2)]
<1> DEFINE len == n + mods + 2
           first == SetupSteps(n, mods)
           all == first \o rest
<1>1. ChipSetup(n, mods) \in Seq(Requests) /\ Len(ChipSetup(n, mods)) = len
  BY ChipSetupIs
<1>2. len \in Nat /\ Len(rest) \in Nat
  BY SMT
<1> HIDE DEF len
<1>3. DOMAIN ChipSetup(n, mods) = 1 .. len /\ \A k \in 1 .. len : ChipSetup(n, mods)[k] \in Requests
  BY <1>1, LenProperties, ElementOfSeq
<1>4. \A k \in 1 .. len : Enqueue(ChipSetup(n, mods)[k]) \in TodoSteps
  BY <1>3, Members
<1>5. first \in Seq(TodoSteps) /\ Len(first) = len
  <2>1. first = [k \in 1 .. len |-> Enqueue(ChipSetup(n, mods)[k])]
    BY <1>3 DEF SetupSteps
  <2> HIDE DEF first
  <2> QED BY <1>2, <1>4, <2>1, SMT
<1>6. \A k \in 1 .. len : first[k].do = "Enqueue" /\ first[k].request = ChipSetup(n, mods)[k]
  BY <1>3, Members DEF SetupSteps
<1> HIDE DEF first
<1>7. /\ all \in Seq(TodoSteps) /\ Len(all) = Len(first) + Len(rest)
      /\ \A k \in 1 .. Len(first) : all[k] = first[k]
      /\ \A k \in 1 .. Len(first) + Len(rest) :
           Len(first) < k => all[k] = rest[k - Len(first)]
  BY <1>5, Joined
<1> HIDE DEF all
<1>8. /\ all \in Seq(TodoSteps) /\ Len(all) = len + Len(rest)
      /\ \A k \in 1 .. len : all[k] = first[k]
      /\ \A k \in 1 .. len + Len(rest) : len < k => all[k] = rest[k - len]
  BY <1>5, <1>7
<1>9. Simple(all)
  <2> SUFFICES ASSUME NEW k \in 1 .. Len(all)
               PROVE  \/ all[k].do = "Enqueue"
                      \/ /\ k = Len(all) /\ all[k].do \in {"Wait", "FmAgain"}
                         /\ all[k].request = Nothing
    BY DEF Simple
  <2> DEFINE m == Len(rest)
             l == Len(all)
  <2>1. m \in Nat /\ l = len + m /\ k \in 1 .. l
    BY <1>2, <1>8
  <2> HIDE DEF m, l
  <2>2. \/ k \in 1 .. len
        \/ /\ len < k /\ k \in 1 .. len + m /\ k - len \in 1 .. m
           /\ k - len = m => k = l
    BY <1>2, <2>1, SMT
  <2>3. CASE k \in 1 .. len
    BY <1>6, <1>8, <2>3
  <2>4. CASE /\ len < k /\ k \in 1 .. len + m /\ k - len \in 1 .. m
             /\ k - len = m => k = l
    <3>1. all[k] = rest[k - len]
      BY <1>8, <2>4 DEF m
    <3>2. \/ rest[k - len].do = "Enqueue"
          \/ /\ k - len = m /\ rest[k - len].do \in {"Wait", "FmAgain"}
             /\ rest[k - len].request = Nothing
      BY <2>4 DEF Simple, m
    <3> QED BY <2>4, <3>1, <3>2 DEF l
  <2> QED BY <2>2, <2>3, <2>4
<1> QED BY <1>6, <1>8, <1>9 DEF all, len, first

\* A call keeps its shape
TodoOK == todo \in Seq(TodoSteps) /\ Shaped(todo)

(* The step of the emulation thread leaves what it has still to do.          *)
LEMMA TodoTail ==
  ASSUME TodoOK, todo # << >>, Head(todo).do # "Setup"
  PROVE  Tail(todo) \in Seq(TodoSteps) /\ Shaped(Tail(todo))
<1>1. Tail(todo) \in Seq(TodoSteps)
  BY HeadTailProperties DEF TodoOK
<1>2. CASE todo \in Settling
  BY <1>2, SettlingSteps DEF Shaped
<1>3. CASE Closers(todo)
  <2>1. Tail(todo) = << >> \/ Closers(Tail(todo))
    BY <1>3, ClosingSteps DEF TodoOK
  <2>2. Simple(<< >>)
    BY CallsBegin
  <2> QED BY <1>1, <2>1, <2>2 DEF Shaped
<1>4. CASE Simple(todo)
  BY <1>4, SimpleSteps DEF TodoOK, Shaped
<1> QED BY <1>1, <1>2, <1>3, <1>4 DEF TodoOK, Shaped

(* The chip setup is done in a call that is settling.                        *)
LEMMA SetupSettles ==
  ASSUME TodoOK, Step("Setup")
  PROVE  todo \in Settling /\ Tail(todo) \in Seq(TodoSteps) /\ Simple(Tail(todo))
<1>1. todo \in Settling
  <2>1. ~Closers(todo)
    BY ClosingSteps DEF TodoOK, Step, Closing
  <2>2. ~Simple(todo)
    BY SimpleSteps DEF TodoOK, Step
  <2> QED BY <2>1, <2>2 DEF TodoOK, Shaped
<1> QED BY <1>1, SettlingSteps, CallsBegin DEF Step

(* The last step of a reset is the last one.                                 *)
LEMMA FmAgainEnds ==
  ASSUME TodoOK, Step("FmAgain") \/ Step("Wait")
  PROVE  Simple(todo) /\ Tail(todo) = << >> /\ Len(todo) = 1 /\ todo[1].request = Nothing
<1>1. ~Closers(todo)
  BY ClosingSteps DEF TodoOK, Step, Closing
<1>2. todo \notin Settling
  BY SettlingSteps DEF Step
<1> QED BY <1>1, <1>2, SimpleSteps DEF TodoOK, Shaped, Step

(* A step that only the end of a connection has.                             *)
LEMMA ClosingEnds ==
  ASSUME TodoOK, NEW st \in {"Stop", "Notify", "Join", "Close", "Handshake"}, Step(st)
  PROVE  Closers(todo)
<1>1. todo \notin Settling
  BY SettlingSteps DEF Step
<1>2. ~Simple(todo)
  BY SimpleSteps DEF TodoOK, Step
<1> QED BY <1>1, <1>2 DEF TodoOK, Shaped

(* Every chip has its model on a server that lists any.                      *)
LEMMA ModelsAre ==
  ASSUME sidCount \in Nat \ {0}
  PROVE  Models \in Nat /\ (server.lists => Models = sidCount)
BY DEF Models

(* The chip setup leaves nothing but requests to queue.                      *)
LEMMA SetupQueues ==
  ASSUME TodoOK, sidCount \in Nat \ {0}, DoSetup
  PROVE  /\ todo' \in Seq(TodoSteps) /\ Simple(todo')
         /\ connected => todo' = SetupSteps(sidCount, Models) \o Tail(todo)
         /\ ~connected => todo' = Tail(todo)
<1>1. Tail(todo) \in Seq(TodoSteps) /\ Simple(Tail(todo))
  BY SetupSettles DEF DoSetup
<1>2. CASE connected
  <2>1. todo' = SetupSteps(sidCount, Models) \o Tail(todo)
    BY <1>2 DEF DoSetup, SetupSteps
  <2>2. /\ SetupSteps(sidCount, Models) \o Tail(todo) \in Seq(TodoSteps)
        /\ Simple(SetupSteps(sidCount, Models) \o Tail(todo))
    BY <1>1, ModelsAre, SetupStepsAre
  <2> QED BY <1>2, <2>1, <2>2
<1>3. CASE ~connected
  <2>1. todo' = << >> \o Tail(todo)
    BY <1>3 DEF DoSetup
  <2>2. todo' = Tail(todo)
    BY <1>1, <2>1, ConcatEmptySeq
  <2> QED BY <1>1, <1>3, <2>2
<1> QED BY <1>2, <1>3

(* The calls of the emulation thread.                                        *)
Calls ==
  \/ \E n \in Counts : SetSidCount(n)
  \/ \E cycles \in PacketCycles : FlushWrites(cycles) \/ FirstFmWrite(cycles)
  \/ ConfigureTune \/ Reset \/ WaitForRoom \/ Connect \/ Disconnect

(* What a call begins with.                                                  *)
LEMMA CallSteps ==
  ASSUME Calls
  PROVE  /\ todo = << >>
         /\ UNCHANGED <<queueVars, linkVars, wireLimit, sender, server, fmRefused>>
         /\ \/ /\ sidCount' \in Counts /\ fmSent' = fmSent
               /\ todo' = IF connected THEN << Do("Setup") >> ELSE << >>
            \/ /\ sidCount' = sidCount /\ fmSent' = fmSent /\ connected
               /\ todo' \in {<< Do("Setup") >>, ResetSteps}
            \/ /\ sidCount' = sidCount /\ fmSent' = fmSent /\ connected
               /\ \E n \in PacketCycles : todo' = << Enqueue(Request("Write", 0, n)) >>
            \/ /\ sidCount' = sidCount /\ fmSent' = TRUE /\ connected
               /\ \E n \in PacketCycles :
                    todo' = << Enqueue(Request("Write", 0, n)), Enqueue(Plain("Fm")) >>
            \/ sidCount' = sidCount /\ fmSent' = fmSent /\ todo' = << Do("Wait") >>
            \/ /\ sidCount' = sidCount /\ fmSent' = fmSent
               /\ \/ todo' = CloseSteps
                  \/ todo' = CloseSteps \o << Do("Handshake") >> /\ ~connected
<1>1. CASE \E n \in Counts : SetSidCount(n)
  BY <1>1 DEF SetSidCount, Call, fmVars
<1>2. CASE ConfigureTune \/ Reset
  BY <1>2 DEF ConfigureTune, Reset, Call, fmVars
<1>3. CASE \E cycles \in PacketCycles : FlushWrites(cycles)
  BY <1>3 DEF FlushWrites, Call, fmVars
<1>4. CASE \E cycles \in PacketCycles : FirstFmWrite(cycles)
  BY <1>4 DEF FirstFmWrite, Call
<1>5. CASE WaitForRoom
  BY <1>5 DEF WaitForRoom, Call, fmVars
<1>6. CASE Connect \/ Disconnect
  BY <1>6 DEF Connect, Disconnect, Call, fmVars
<1> QED BY <1>1, <1>2, <1>3, <1>4, <1>5, <1>6 DEF Calls

(* What the call under way has still to do keeps its shape.                  *)
LEMMA TodoInit == Init => TodoOK
BY CallsBegin DEF Init, TodoOK, Shaped

(* Every step keeps the shape.                                                *)
LEMMA TodoStep ==
  ASSUME TodoOK, sidCount \in Nat \ {0}, [Next]_vars
  PROVE  TodoOK'
<1>1. CASE Calls
  <2>1. todo' \in Seq(TodoSteps) /\ (todo' \in Settling \/ Closers(todo') \/ Simple(todo'))
    <3>1. \A n \in PacketCycles : n \in Nat
      BY NetSenderAssumption
    <3>2. \A n \in PacketCycles : Request("Write", 0, n) \in Requests
      BY <3>1, Members
    <3>3. Plain("Fm") \in Requests
      BY Members
    <3> QED BY <1>1, <3>2, <3>3, CallSteps, CallsBegin, ClosingBegins
  <2> QED BY <2>1 DEF TodoOK, Shaped
<1>2. CASE \/ DoEnqueue \/ DoDrop \/ DoWait \/ DoStop \/ DoNotify \/ DoJoin \/ DoClose
  <2>1. todo # << >> /\ Head(todo).do # "Setup" /\ todo' = Tail(todo)
    BY <1>2 DEF DoEnqueue, DoDrop, DoWait, DoStop, DoNotify, DoJoin, DoClose, Step
  <2> QED BY <2>1, TodoTail DEF TodoOK, Shaped
<1>3. CASE DoSetup
  BY <1>3, SetupQueues DEF TodoOK, Shaped
<1>4. CASE DoFmAgain
  BY <1>4, CallsBegin, Members DEF DoFmAgain, TodoOK, Shaped
<1>5. CASE DoHandshake \/ NoServer
  BY <1>5, CallsBegin DEF DoHandshake, NoServer, TodoOK, Shaped
<1>6. CASE Sender \/ UNCHANGED vars
  <2>1. todo' = todo
    BY <1>6 DEF Sender, Doze, FallAsleep, Leave, Take, Send, GiveUp, Accept, StepDown, Refuse,
                LinkDies, Account, vars
  <2> QED BY <2>1 DEF TodoOK, Shaped
<1> QED BY <1>1, <1>2, <1>3, <1>4, <1>5, <1>6 DEF Next, Finish, Calls

(* The first step of the call under way, and the first request of the queue.  *)
LEMMA FirstIs ==
  ASSUME Typed
  PROVE  /\ \A st \in Steps : Step(st) =>
              /\ Head(todo) \in TodoSteps /\ Head(todo).do = st
              /\ Head(todo).request \in Requests
              /\ Len(todo) \in Nat \ {0} /\ Head(todo) = todo[1]
              /\ Tail(todo) \in Seq(TodoSteps) /\ Len(Tail(todo)) = Len(todo) - 1
              /\ \A i \in 1 .. Len(Tail(todo)) : Tail(todo)[i] = todo[i + 1]
         /\ queue # << >> =>
              /\ Head(queue) \in Requests
              /\ Len(queue) \in Nat \ {0} /\ Head(queue) = queue[1]
              /\ Tail(queue) \in Seq(Requests) /\ Len(Tail(queue)) = Len(queue) - 1
              /\ \A i \in 1 .. Len(Tail(queue)) : Tail(queue)[i] = queue[i + 1]
<1>1. ASSUME todo # << >>
      PROVE  /\ Head(todo) \in TodoSteps /\ Head(todo).request \in Requests
             /\ Len(todo) \in Nat \ {0} /\ Head(todo) = todo[1]
             /\ Tail(todo) \in Seq(TodoSteps) /\ Len(Tail(todo)) = Len(todo) - 1
             /\ \A i \in 1 .. Len(Tail(todo)) : Tail(todo)[i] = todo[i + 1]
  <2>1. /\ Head(todo) \in TodoSteps
        /\ Tail(todo) \in Seq(TodoSteps) /\ Len(Tail(todo)) = Len(todo) - 1
        /\ \A i \in 1 .. Len(Tail(todo)) : Tail(todo)[i] = todo[i + 1]
    BY <1>1, HeadTailProperties DEF Typed
  <2>2. Len(todo) \in Nat \ {0}
    BY <1>1, EmptySeq DEF Typed
  <2>3. Head(todo) = todo[1]
    BY SMT DEF Typed
  <2> QED BY <2>1, <2>2, <2>3 DEF TodoSteps
<1>2. ASSUME queue # << >>
      PROVE  /\ Head(queue) \in Requests
             /\ Len(queue) \in Nat \ {0} /\ Head(queue) = queue[1]
             /\ Tail(queue) \in Seq(Requests) /\ Len(Tail(queue)) = Len(queue) - 1
             /\ \A i \in 1 .. Len(Tail(queue)) : Tail(queue)[i] = queue[i + 1]
  <2>1. /\ Head(queue) \in Requests
        /\ Tail(queue) \in Seq(Requests) /\ Len(Tail(queue)) = Len(queue) - 1
        /\ \A i \in 1 .. Len(Tail(queue)) : Tail(queue)[i] = queue[i + 1]
    BY <1>2, HeadTailProperties DEF Typed
  <2>2. Len(queue) \in Nat \ {0}
    BY <1>2, EmptySeq DEF Typed
  <2>3. Head(queue) = queue[1]
    BY SMT DEF Typed
  <2> QED BY <2>1, <2>2, <2>3
<1> QED BY <1>1, <1>2 DEF Step

(* Minus() as the code clamps it.                                            *)
LEMMA MinusIs ==
  ASSUME NEW a \in Nat, NEW b \in Nat
  PROVE  Minus(a, b) \in Nat /\ (b <= a => Minus(a, b) = a - b)
BY SMT DEF Minus

(* The count that is tried after an ERROR is a lower one of the fallback.     *)
LEMMA NextStepIs ==
  ASSUME NEW m \in Nat, sender.tried = m, LowerSteps # {}
  PROVE  /\ NextStep \in Fallback /\ NextStep \in Nat \ {0} /\ NextStep < m
         /\ \A step \in LowerSteps : step <= NextStep
<1>1. LowerSteps = {step \in Fallback : step < m}
  BY DEF LowerSteps
<1>2. \E step \in LowerSteps : \A other \in LowerSteps : other <= step
  <2>1. \A step \in LowerSteps : step \in Nat /\ step < m
    BY <1>1, NetSenderAssumption
  <2> SUFFICES ASSUME \A step \in LowerSteps : \E other \in LowerSteps : step < other
               PROVE  FALSE
    BY <2>1, SMT
  <2> DEFINE T == {k \in 0 .. m : \E step \in LowerSteps : k <= step}
  <2>2. 0 \in T
    BY <2>1, SMT
  <2>3. ASSUME NEW k \in 0 .. m - 1, k \in T PROVE k + 1 \in T
    <3>1. PICK step \in LowerSteps : k <= step
      BY <2>3
    <3>2. PICK other \in LowerSteps : step < other
      OBVIOUS
    <3>3. k + 1 <= other /\ k + 1 \in 0 .. m
      BY <2>1, <3>1, <3>2, SMT
    <3> QED BY <3>2, <3>3
  <2>4. \A k \in 0 .. m : k \in T
    <3> HIDE DEF T
    <3> QED BY <2>2, <2>3, IntervalInduction
  <2>5. m \in T
    BY <2>4, SMT
  <2> QED BY <2>1, <2>5, SMT
<1>3. NextStep \in LowerSteps /\ \A step \in LowerSteps : step <= NextStep
  BY <1>2 DEF NextStep
<1> QED BY <1>1, <1>3, NetSenderAssumption

(* The initial state is typed.                                                *)
LEMMA TypedInit == Init => Typed
<1> SUFFICES ASSUME Init PROVE Typed
  OBVIOUS
<1>1. Unplugged \in Servers /\ Unplugged.positions \cup Unplugged.models \subseteq {}
  BY DEF Unplugged, Servers
<1>2. sender \in Senders /\ sender.at = "None"
  BY Members DEF Init, Senders, SenderPlaces
<1>3. 0 .. Unplugged.chips - 1 = {}
  BY SMT DEF Unplugged
<1>4. << >> \in Seq(Requests) /\ << >> \in Seq(TodoSteps)
  BY EmptySeq
<1>5. 1 \in Nat \ {0} /\ NoLimit \in Nat \ {0} /\ 0 \in Nat
  BY SMT DEF NoLimit
<1>6. server \in Servers /\ server.positions \cup server.models \subseteq 0 .. server.chips - 1
  BY <1>1, <1>3 DEF Init
<1> QED BY <1>2, <1>4, <1>5, <1>6 DEF Init, Typed

(* What the emulation thread does to the types of the rest.                   *)
LEMMA TypedFinish ==
  ASSUME Typed, Calls \/ Finish, todo' \in Seq(TodoSteps)
  PROVE  Typed'
<1>1. CASE Calls
  <2>1. UNCHANGED <<queue, inflight, connected, running, wireLimit, sender, server, fmRefused>>
    BY <1>1, CallSteps DEF queueVars, linkVars
  <2>2. sidCount' \in Nat \ {0} /\ fmSent' \in BOOLEAN
    BY <1>1, CallSteps, NetSenderAssumption DEF Typed
  <2> QED BY <2>1, <2>2 DEF Typed
<1>2. CASE DoEnqueue
  <2>1. Step("Enqueue") /\ "Enqueue" \in Steps
    BY <1>2 DEF DoEnqueue, Steps
  <2>2. Head(todo).request \in Requests
    BY <2>1, FirstIs
  <2>3. queue' \in Seq(Requests)
    BY <1>2, <2>2, SMT DEF DoEnqueue, Typed
  <2>4. inflight' \in Nat
    BY <1>2, <2>2, SMT DEF DoEnqueue, Typed, Requests
  <2>5. /\ sender' \in Senders /\ sender'.request = sender.request
        /\ sender'.at \notin {"Asking", "Answer"} \/ sender' = sender
    BY <1>2 DEF DoEnqueue, Typed, Notified, Senders, SenderPlaces
  <2> QED BY <1>2, <2>3, <2>4, <2>5 DEF DoEnqueue, Typed, linkVars, fmVars
<1>3. CASE DoSetup \/ DoFmAgain \/ DoWait \/ NoServer
  BY <1>3 DEF DoSetup, DoFmAgain, DoWait, NoServer, Typed, queueVars, linkVars, fmVars
<1>4. CASE DoDrop
  <2>1. queue' \in Seq(Requests) /\ inflight' \in Nat
    BY <1>4, EmptySeq, CyclesOfQueue, MinusIs DEF DoDrop, Typed
  <2> QED BY <1>4, <2>1 DEF DoDrop, Typed, linkVars, fmVars
<1>5. CASE DoStop
  BY <1>5 DEF DoStop, Typed, queueVars, fmVars
<1>6. CASE DoNotify \/ DoJoin
  <2>1. /\ sender' \in Senders /\ sender'.request = sender.request
        /\ sender'.at \notin {"Asking", "Answer"} \/ sender' = sender
    BY <1>6 DEF DoNotify, DoJoin, Typed, Notified, Senders, SenderPlaces
  <2> QED BY <1>6, <2>1 DEF DoNotify, DoJoin, Typed, queueVars, linkVars, fmVars
<1>7. CASE DoClose
  <2>1. Unplugged \in Servers /\ Unplugged.positions \cup Unplugged.models = {}
    BY DEF Unplugged, Servers
  <2> QED BY <1>7, <2>1 DEF DoClose, Typed
<1>8. CASE DoHandshake
  <2>1. server' \in Servers /\ server'.positions \cup server'.models = {}
    <3>1. server' \in FreshServers
      BY <1>8 DEF DoHandshake
    <3> QED BY <3>1, FreshServersAre
  <2>2. sender' \in Senders /\ sender'.at = "Idle"
    BY <1>8 DEF DoHandshake, Typed, Senders, SenderPlaces
  <2> QED BY <1>8, <2>1, <2>2 DEF DoHandshake, Typed, queueVars, fmVars
<1> QED BY <1>1, <1>2, <1>3, <1>4, <1>5, <1>6, <1>7, <1>8 DEF Finish

(* What the server does keeps its type.                                      *)
LEMMA ServedIs ==
  ASSUME NEW s \in Servers, s.positions \cup s.models \subseteq 0 .. s.chips - 1,
         NEW r \in Requests, NEW tried \in Nat, Accepts(s, r, tried)
  PROVE  /\ Served(s, r, tried) \in Servers
         /\ Served(s, r, tried).positions \cup Served(s, r, tried).models
              \subseteq 0 .. Served(s, r, tried).chips - 1
<1>1. CASE r.cmd = "Count"
  <2>1. Served(s, r, tried) =
          [s EXCEPT !.chips = tried, !.positions = {}, !.models = {}, !.clocked = FALSE]
    BY <1>1 DEF Served
  <2> QED BY <2>1 DEF Servers
<1>2. CASE r.cmd = "Position"
  <2>1. r.sid \in 0 .. s.chips - 1 /\ r.sid \in Nat
    BY <1>2, SMT DEF Accepts, Requests, Servers
  <2>2. Served(s, r, tried) = [s EXCEPT !.positions = @ \cup {r.sid}]
    BY <1>2 DEF Served
  <2> QED BY <2>1, <2>2 DEF Servers
<1>3. CASE r.cmd = "Model"
  <2>1. r.sid \in 0 .. s.chips - 1 /\ r.sid \in Nat
    BY <1>3, SMT DEF Accepts, Requests, Servers
  <2>2. Served(s, r, tried) = [s EXCEPT !.models = @ \cup {r.sid}]
    BY <1>3 DEF Served
  <2> QED BY <2>1, <2>2 DEF Servers
<1>4. CASE r.cmd = "Clock"
  <2>1. Served(s, r, tried) = [s EXCEPT !.clocked = TRUE]
    BY <1>4 DEF Served
  <2> QED BY <2>1 DEF Servers
<1>5. CASE r.cmd = "Fm"
  <2>1. Served(s, r, tried) = [s EXCEPT !.fm = TRUE]
    BY <1>5 DEF Served
  <2> QED BY <2>1 DEF Servers
<1>6. CASE r.cmd \in {"Write", "Flush", "Reset"}
  <2>1. Served(s, r, tried) = s
    BY <1>6 DEF Served
  <2> QED BY <2>1
<1> QED BY <1>1, <1>2, <1>3, <1>4, <1>5, <1>6 DEF Requests, Commands

(* What the sender thread does to the types.                                 *)
LEMMA TypedSender ==
  ASSUME Typed, Sender
  PROVE  Typed'
<1>0. todo' = todo
  BY DEF Sender, Doze, FallAsleep, Leave, Take, Send, GiveUp, Accept, StepDown, Refuse, LinkDies,
         Account
<1>1. CASE Doze \/ FallAsleep \/ Leave
  <2>1. sender' \in Senders /\ sender'.at \notin {"Asking", "Answer"}
    BY <1>1 DEF Doze, FallAsleep, Leave, Typed, Senders, SenderPlaces
  <2> QED BY <1>1, <2>1 DEF Doze, FallAsleep, Leave, Typed, queueVars, linkVars, fmVars
<1>2. CASE Take
  <2>1. queue # << >> /\ queue' = Tail(queue)
    BY <1>2 DEF Take
  <2>2. Head(queue) \in Requests /\ Tail(queue) \in Seq(Requests)
    BY <2>1, FirstIs
  <2>3. sender' \in Senders
    BY <1>2, <2>2 DEF Take, Typed, Senders, SenderPlaces, Requests
  <2>4. /\ sender'.at \in {"Asking", "Answer"} /\ sender'.request.cmd = "Count" =>
             sender'.tried \in 1 .. sender'.request.sid
    BY <1>2, <2>2, SMT DEF Take, Requests
  <2> QED BY <1>2, <2>1, <2>2, <2>3, <2>4 DEF Take, Typed, linkVars, fmVars
<1>3. CASE Send
  <2>1. sender' \in Senders /\ sender'.request = sender.request /\ sender'.tried = sender.tried
        /\ sender.at = "Asking"
    BY <1>3 DEF Send, Typed, Senders, SenderPlaces
  <2> QED BY <1>3, <2>1 DEF Send, Typed, queueVars, linkVars, fmVars
<1>4. CASE GiveUp \/ Refuse
  <2>1. sender' \in Senders /\ sender'.at = "Account"
    BY <1>4 DEF GiveUp, Refuse, Settle, Typed, Senders, SenderPlaces
  <2>2. wireLimit' \in Nat \ {0} /\ sidCount' \in Nat \ {0}
    <3>1. NoLimit \in Nat \ {0}
      BY SMT DEF NoLimit
    <3>2. CASE sender.request.cmd = "Count"
      BY <1>4, <3>1, <3>2 DEF GiveUp, Refuse, Negotiated, Typed
    <3>3. CASE sender.request.cmd # "Count"
      BY <1>4, <3>3 DEF GiveUp, Refuse, Typed
    <3> QED BY <3>2, <3>3
  <2> QED BY <1>0, <1>4, <2>1, <2>2 DEF GiveUp, Refuse, Typed, queueVars, linkVars, fmVars
<1>5. CASE Accept
  <2>1. sender' \in Senders /\ sender'.at = "Account"
    BY <1>5 DEF Accept, Settle, Typed, Senders, SenderPlaces
  <2>2. wireLimit' \in Nat \ {0} /\ sidCount' \in Nat \ {0}
    <3>1. sender.request.cmd = "Count" => sender.tried \in Nat \ {0}
      BY <1>5, SMT DEF Accept, Typed, Senders, Requests
    <3> QED BY <1>5, <3>1 DEF Accept, Negotiated, Lower, Typed
  <2>3. /\ server' \in Servers
        /\ server'.positions \cup server'.models \subseteq 0 .. server'.chips - 1
    <3>1. sender.request \in Requests /\ sender.tried \in Nat
      BY DEF Typed, Senders
    <3> QED BY <1>5, <3>1, ServedIs DEF Accept, Typed
  <2> QED BY <1>0, <1>5, <2>1, <2>2, <2>3 DEF Accept, Typed, queueVars, linkVars, fmVars
<1>6. CASE StepDown
  <2>1. sender.tried \in 1 .. sender.request.sid /\ sender.tried \in Nat /\ sender.at = "Answer"
        /\ sender.request.sid \in Nat
    BY <1>6 DEF StepDown, Typed, Senders, Requests
  <2>2. NextStep \in Nat \ {0} /\ NextStep < sender.tried
    BY <1>6, <2>1, NextStepIs DEF StepDown
  <2>3. NextStep \in 1 .. sender.request.sid /\ NextStep \in Nat
    BY <2>1, <2>2, SMT
  <2>4. /\ sender' \in Senders /\ sender'.request = sender.request /\ sender'.tried = NextStep
    BY <1>6, <2>3 DEF StepDown, Typed, Senders, SenderPlaces
  <2> QED BY <1>6, <2>3, <2>4 DEF StepDown, Typed, queueVars, linkVars, fmVars
<1>7. CASE LinkDies
  <2>1. sender' \in Senders /\ sender'.at = "Account"
    BY <1>7 DEF LinkDies, Settle, Typed, Senders, SenderPlaces
  <2>2. wireLimit' \in Nat \ {0}
    BY <1>7 DEF LinkDies, NoLimit, Typed
  <2> QED BY <1>0, <1>7, <2>1, <2>2 DEF LinkDies, Typed, fmVars
<1>8. CASE Account
  <2>1. sender' \in Senders /\ sender'.at \in {"Ended", "Idle"}
    BY <1>8 DEF Account, Typed, Senders, SenderPlaces
  <2>2. inflight' \in Nat
    BY <1>8, MinusIs DEF Account, Typed, Senders, Requests
  <2>3. fmRefused' \in BOOLEAN
    BY <1>8 DEF Account, Typed, Senders
  <2> QED BY <1>8, <2>1, <2>2, <2>3 DEF Account, Typed, linkVars
<1> QED BY <1>1, <1>2, <1>3, <1>4, <1>5, <1>6, <1>7, <1>8 DEF Sender

(* Every step keeps the types and the shapes.                                 *)
LEMMA TypedStep ==
  ASSUME Typed, Shaped(todo), [Next]_vars
  PROVE  Typed' /\ Shaped(todo)'
<1>1. TodoOK'
  BY TodoStep DEF Typed, TodoOK
<1>2. CASE Calls \/ Finish
  BY <1>1, <1>2, TypedFinish DEF TodoOK
<1>3. CASE Sender
  BY <1>1, <1>3, TypedSender DEF TodoOK
<1>4. CASE UNCHANGED vars
  BY <1>1, <1>4 DEF vars, queueVars, linkVars, fmVars, Typed, TodoOK
<1> QED BY <1>1, <1>2, <1>3, <1>4 DEF Next, Calls, TodoOK

----------------------------------------------------------------------------
(* The time in flight.                                                       *)

\* What a call that closes the connection has done when it is at a step
Closed ==
  Closers(todo) /\ Head(todo).do # "Stop" =>
    /\ ~running
    /\ Head(todo).do # "Drop" => queue = << >>
    /\ Head(todo).do \in {"Close", "Handshake"} => sender.at = "None"
    /\ Head(todo).do = "Handshake" => inflight = 0 /\ ~fmSent /\ ~fmRefused

\* A sender thread has a server at the other end, which has a chip
Plugged == sender.at # "None" => server.cap > 0

(* What closes the connection is neither a reset nor a list of requests.      *)
LEMMA ClosersAlone ==
  ASSUME NEW t \in Seq(TodoSteps), Closers(t)
  PROVE  t \notin Settling /\ ~Simple(t)
<1>1. /\ t # << >> /\ t[1] = Head(t) /\ Head(t).do \in Closing
      /\ \A i \in 1 .. Len(t) : t[i].do # "FmAgain"
  BY ClosingSteps
<1>2. ~Simple(t)
  BY <1>1, SimpleSteps DEF Closing
<1>3. ASSUME t \in Settling PROVE FALSE
  <2>1. Head(t).do = "Drop"
    BY <1>1, <1>3, SettlingSteps DEF Closing
  <2>2. Tail(t) \in Settling
    BY <1>3, <2>1, SettlingSteps
  <2>3. Closers(Tail(t)) /\ Head(Tail(t)).do = "Notify"
    BY <2>1, ClosingSteps DEF FollowedBy
  <2> QED BY <2>2, <2>3, SettlingSteps
<1> QED BY <1>2, <1>3

(* A step of the emulation thread that leaves such a call belongs to one.     *)
LEMMA ClosesOn ==
  ASSUME TodoOK, todo # << >>, Head(todo).do # "Setup", Closers(Tail(todo))
  PROVE  /\ Closers(todo) /\ Head(todo).do \in Closing
         /\ Head(Tail(todo)).do = FollowedBy(Head(todo).do)
<1>0. Tail(todo) \in Seq(TodoSteps)
  BY HeadTailProperties DEF TodoOK
<1>1. Tail(todo) # << >> /\ Tail(todo) \notin Settling /\ ~Simple(Tail(todo))
  BY <1>0, ClosersAlone, ClosingSteps
<1>2. todo \notin Settling
  BY <1>1, SettlingSteps
<1>3. ~Simple(todo)
  BY <1>1, SimpleSteps DEF TodoOK
<1>4. Closers(todo)
  BY <1>2, <1>3 DEF TodoOK, Shaped
<1> QED BY <1>1, <1>4, ClosingSteps DEF TodoOK

(* What the sender thread's steps leave alone.                               *)
LEMMA SenderSteps ==
  ASSUME Typed, Sender
  PROVE  /\ todo' = todo /\ sender.at # "None" /\ sender'.at # "None"
         /\ running' = running /\ fmSent' = fmSent
         /\ connected' => connected
         /\ queue' = queue \/ running
         /\ server' = server \/ Accept
<1>1. sender \in Senders
  BY DEF Typed
<1>2. CASE Doze \/ FallAsleep \/ Leave
  BY <1>1, <1>2 DEF Doze, FallAsleep, Leave, queueVars, linkVars, fmVars, Senders
<1>7. CASE Send \/ StepDown
  <2>1. sender.at # "None" /\ sender'.at # "None"
    BY <1>1, <1>7 DEF Send, StepDown, Senders
  <2> QED BY <1>7, <2>1 DEF Send, StepDown, queueVars, linkVars, fmVars
<1>3. CASE Take
  BY <1>1, <1>3 DEF Take, linkVars, fmVars
<1>4. CASE GiveUp \/ Accept \/ Refuse
  <2>1. sender.at # "None" /\ \E ok : Settle(ok)
    BY <1>4 DEF GiveUp, Accept, Refuse
  <2>2. sender'.at # "None"
    BY <1>1, <2>1 DEF Settle, Senders
  <2>3. UNCHANGED <<queueVars, linkVars, fmVars, todo>>
    BY <1>4 DEF GiveUp, Accept, Refuse
  <2>4. server' = server \/ Accept
    BY <1>4 DEF GiveUp, Refuse
  <2> QED BY <2>1, <2>2, <2>3, <2>4 DEF queueVars, linkVars, fmVars
<1>5. CASE LinkDies
  BY <1>1, <1>5 DEF LinkDies, Settle, fmVars, Senders
<1>6. CASE Account
  BY <1>1, <1>6 DEF Account, linkVars, Senders
<1> QED BY <1>2, <1>3, <1>4, <1>5, <1>6, <1>7 DEF Sender

(* What a request leaves of the server as it was.                            *)
LEMMA ServedLeaves ==
  ASSUME NEW s \in Servers, NEW r \in Requests, NEW tried
  PROVE  /\ Served(s, r, tried).cap = s.cap /\ Served(s, r, tried).takesFm = s.takesFm
         /\ Served(s, r, tried).lists = s.lists
         /\ s.fm => Served(s, r, tried).fm
         /\ r.cmd = "Fm" => Served(s, r, tried).fm
         /\ r.cmd = "Count" => Served(s, r, tried).chips = tried
         /\ r.cmd # "Count" => /\ Served(s, r, tried).chips = s.chips
                               /\ s.positions \subseteq Served(s, r, tried).positions
                               /\ s.models \subseteq Served(s, r, tried).models
                               /\ s.clocked => Served(s, r, tried).clocked
         /\ r.cmd = "Position" => r.sid \in Served(s, r, tried).positions
         /\ r.cmd = "Model" => r.sid \in Served(s, r, tried).models
         /\ r.cmd = "Clock" => Served(s, r, tried).clocked
<1>1. CASE r.cmd = "Count"
  <2>1. Served(s, r, tried) =
          [s EXCEPT !.chips = tried, !.positions = {}, !.models = {}, !.clocked = FALSE]
    BY <1>1 DEF Served
  <2> QED BY <1>1, <2>1 DEF Servers
<1>2. CASE r.cmd = "Position"
  <2>1. Served(s, r, tried) = [s EXCEPT !.positions = @ \cup {r.sid}]
    BY <1>2 DEF Served
  <2> QED BY <1>2, <2>1 DEF Servers
<1>3. CASE r.cmd = "Model"
  <2>1. Served(s, r, tried) = [s EXCEPT !.models = @ \cup {r.sid}]
    BY <1>3 DEF Served
  <2> QED BY <1>3, <2>1 DEF Servers
<1>4. CASE r.cmd = "Clock"
  <2>1. Served(s, r, tried) = [s EXCEPT !.clocked = TRUE]
    BY <1>4 DEF Served
  <2> QED BY <1>4, <2>1 DEF Servers
<1>5. CASE r.cmd = "Fm"
  <2>1. Served(s, r, tried) = [s EXCEPT !.fm = TRUE]
    BY <1>5 DEF Served
  <2> QED BY <1>5, <2>1 DEF Servers
<1>6. CASE r.cmd \in {"Write", "Flush", "Reset"}
  <2>1. Served(s, r, tried) = s
    BY <1>6 DEF Served
  <2> QED BY <1>6, <2>1
<1> QED BY <1>1, <1>2, <1>3, <1>4, <1>5, <1>6 DEF Requests, Commands

(* Closed and Plugged are inductive with the types and the shapes.            *)
LEMMA ClosedInit == Init => Closed /\ Plugged
<1> SUFFICES ASSUME Init PROVE Closed /\ Plugged
  OBVIOUS
<1>1. Len(<< >>) = 0
  BY EmptySeq
<1>2. ~Closers(<< >>)
  BY <1>1, SMT DEF Closers
<1> QED BY <1>2 DEF Init, Closed, Plugged

(* Every step keeps what closing the connection has done.                     *)
LEMMA ClosedStep ==
  ASSUME Typed, Shaped(todo), Closed, Plugged, [Next]_vars
  PROVE  Closed' /\ Plugged'
<1>0. TodoOK /\ sidCount \in Nat \ {0} /\ sender \in Senders /\ TodoOK'
  BY TodoStep DEF Typed, TodoOK
<1>1. ASSUME todo' \in Settling \/ Simple(todo') PROVE Closed'
  BY <1>0, <1>1, ClosersAlone DEF TodoOK, Closed
<1>2. CASE Calls
  <2>1. Plugged'
    BY <1>2, CallSteps DEF Plugged
  <2>2. todo' \in Settling \/ Simple(todo') \/ Head(todo').do = "Stop"
    <3>1. \A n \in PacketCycles : Request("Write", 0, n) \in Requests
      BY NetSenderAssumption, Members
    <3> QED BY <1>2, <3>1, Members, CallSteps, CallsBegin, ClosingBegins
  <2> QED BY <1>1, <2>1, <2>2 DEF Closed
<1>3. CASE \/ DoEnqueue \/ DoDrop \/ DoWait \/ DoStop \/ DoNotify \/ DoJoin \/ DoClose
  <2>1. todo # << >> /\ Head(todo).do # "Setup" /\ todo' = Tail(todo)
    BY <1>3 DEF DoEnqueue, DoDrop, DoWait, DoStop, DoNotify, DoJoin, DoClose, Step
  <2>2. ASSUME Closers(Tail(todo)) PROVE Closed'
    <3>1. /\ Closers(todo) /\ Head(todo).do \in Closing
          /\ Head(todo').do = FollowedBy(Head(todo).do)
      BY <1>0, <2>1, <2>2, ClosesOn
    <3>2. CASE DoEnqueue \/ DoWait
      BY <3>1, <3>2 DEF DoEnqueue, DoWait, Step, Closing
    <3>3. CASE DoStop
      BY <3>1, <3>3 DEF DoStop, Step, FollowedBy, Closed
    <3>4. CASE DoDrop
      BY <3>1, <3>4 DEF DoDrop, Step, FollowedBy, Closed, linkVars
    <3>5. CASE DoNotify
      BY <3>1, <3>5 DEF DoNotify, Step, FollowedBy, Closed, queueVars, linkVars
    <3>6. CASE DoJoin
      BY <1>0, <3>1, <3>6 DEF DoJoin, Step, FollowedBy, Closed, queueVars, linkVars, Senders
    <3>7. CASE DoClose
      BY <3>1, <3>7 DEF DoClose, Step, FollowedBy, Closed
    <3> QED BY <1>3, <3>2, <3>3, <3>4, <3>5, <3>6, <3>7
  <2>3. Closed'
    BY <2>1, <2>2 DEF Closed
  <2>4. CASE DoClose
    <3>1. Closers(todo)
      BY <1>0, <2>4, ClosingEnds DEF DoClose
    <3>2. sender'.at = "None"
      BY <2>4, <3>1 DEF DoClose, Step, Closed
    <3> QED BY <2>3, <3>2 DEF Plugged
  <2>5. CASE ~DoClose
    <3>1. server' = server /\ (sender.at = "None" => sender'.at = "None")
      BY <1>0, <1>3, <2>5 DEF DoEnqueue, DoDrop, DoWait, DoStop, DoNotify, DoJoin, Notified,
                              Senders
    <3> QED BY <2>3, <3>1 DEF Plugged
  <2> QED BY <2>4, <2>5
<1>4. CASE DoSetup
  <2>1. Simple(todo')
    BY <1>0, <1>4, SetupQueues
  <2> QED BY <1>1, <1>4, <2>1 DEF DoSetup, Plugged
<1>5. CASE DoFmAgain \/ NoServer
  <2>1. Simple(todo')
    BY <1>5, CallsBegin, Members DEF DoFmAgain, NoServer
  <2> QED BY <1>1, <1>5, <2>1 DEF DoFmAgain, NoServer, Plugged
<1>6. CASE DoHandshake
  <2>1. todo' \in Settling
    BY <1>6, CallsBegin DEF DoHandshake
  <2>2. server'.cap > 0
    <3>1. server' \in FreshServers
      BY <1>6 DEF DoHandshake
    <3> QED BY <3>1, FreshServersAre
  <2> QED BY <1>1, <2>1, <2>2 DEF Plugged
<1>7. CASE Sender
  <2>1. /\ todo' = todo /\ sender.at # "None" /\ sender'.at # "None"
        /\ running' = running /\ (queue' = queue \/ running)
        /\ server' = server \/ Accept
    BY <1>7, SenderSteps
  <2>2. Closed'
    BY <2>1 DEF Closed
  <2>3. server'.cap = server.cap
    <3>1. CASE Accept
      <4>1. server \in Servers /\ sender.request \in Requests
        BY DEF Typed, Senders
      <4>2. server' = Served(server, sender.request, sender.tried)
        BY <3>1 DEF Accept
      <4> QED BY <4>1, <4>2, ServedLeaves
    <3> QED BY <2>1, <3>1
  <2> QED BY <2>1, <2>2, <2>3 DEF Plugged
<1>8. CASE UNCHANGED vars
  BY <1>8 DEF vars, queueVars, linkVars, fmVars, Closed, Plugged
<1> QED BY <1>2, <1>3, <1>4, <1>5, <1>6, <1>7, <1>8 DEF Next, Finish, Calls

(* What is in flight is exact in every state that a step leads to.           *)
LEMMA ExactStep ==
  ASSUME Typed, Shaped(todo), Closed, InflightExact, [Next]_vars
  PROVE  InflightExact'
<1>0. /\ TodoOK /\ sidCount \in Nat \ {0} /\ sender \in Senders /\ queue \in Seq(Requests)
      /\ inflight \in Nat
  BY DEF Typed, TodoOK
<1> DEFINE busy == IF Underway THEN sender.request.cycles ELSE 0
<1>1. /\ busy \in Nat /\ CyclesOf(queue) \in Nat
      /\ sender.request \in Requests /\ sender.request.cycles \in Nat
  BY <1>0, CyclesOfQueue DEF Senders, Requests
<1>2. ASSUME UNCHANGED <<queue, inflight, connected>>, Underway' = Underway,
             Underway => sender'.request = sender.request
      PROVE  InflightExact'
  BY <1>2 DEF InflightExact
<1>3. CASE Calls
  BY <1>2, <1>3, CallSteps DEF queueVars, linkVars, Underway
<1>4. CASE DoEnqueue
  <2>1. Step("Enqueue") /\ "Enqueue" \in Steps
    BY <1>4 DEF DoEnqueue, Steps
  <2>2. Head(todo).request \in Requests
    BY <2>1, FirstIs
  <2>3. CyclesOf(queue') = CyclesOf(queue) + Head(todo).request.cycles
    BY <1>0, <1>4, <2>2, CyclesOfQueue DEF DoEnqueue
  <2>4. inflight' = inflight + Head(todo).request.cycles /\ connected' = connected
    BY <1>4 DEF DoEnqueue, linkVars
  <2>5. Underway' = Underway /\ sender'.request = sender.request
    BY <1>0, <1>4 DEF DoEnqueue, Notified, Underway, Senders
  <2>6. Head(todo).request.cycles \in Nat
    BY <2>2 DEF Requests
  <2>7. busy' = busy
    BY <2>5
  <2>8. connected => inflight = CyclesOf(queue) + busy
    BY DEF InflightExact
  <2>9. connected' => inflight' = CyclesOf(queue') + busy'
    <3> HIDE DEF busy
    <3> QED BY <1>0, <1>1, <2>3, <2>4, <2>6, <2>7, <2>8, SMT
  <2> QED BY <2>9 DEF InflightExact
<1>5. CASE DoSetup \/ DoFmAgain \/ DoWait \/ DoStop \/ NoServer
  BY <1>2, <1>5 DEF DoSetup, DoFmAgain, DoWait, DoStop, NoServer, queueVars, linkVars, Underway
<1>6. CASE DoDrop
  <2>1. /\ CyclesOf(queue') = 0 /\ inflight' = Minus(inflight, CyclesOf(queue))
        /\ connected' = connected /\ sender' = sender
    BY <1>6, CyclesOfQueue DEF DoDrop, linkVars
  <2>2. busy' = busy
    BY <2>1 DEF Underway
  <2>3. connected => inflight = CyclesOf(queue) + busy
    BY DEF InflightExact
  <2>4. connected' => inflight' = CyclesOf(queue') + busy'
    <3> HIDE DEF busy
    <3>1. ASSUME connected PROVE inflight' = busy
      <4>1. CyclesOf(queue) <= inflight /\ inflight - CyclesOf(queue) = busy
        BY <1>0, <1>1, <2>3, <3>1, SMT
      <4> QED BY <1>0, <1>1, <2>1, <4>1, MinusIs
    <3> QED BY <1>1, <2>1, <2>2, <3>1, SMT
  <2> QED BY <2>4 DEF InflightExact
<1>7. CASE DoNotify
  <2>1. Underway' = Underway /\ sender'.request = sender.request
    BY <1>0, <1>7 DEF DoNotify, Notified, Underway, Senders
  <2> QED BY <1>2, <1>7, <2>1 DEF DoNotify, queueVars, linkVars
<1>8. CASE DoJoin
  <2>1. Underway' = Underway /\ ~Underway
    BY <1>0, <1>8 DEF DoJoin, Underway, Senders
  <2> QED BY <1>2, <1>8, <2>1 DEF DoJoin, queueVars, linkVars
<1>9. CASE DoClose \/ LinkDies
  BY <1>9 DEF DoClose, LinkDies, InflightExact
<1>10. CASE DoHandshake
  <2>1. Closers(todo)
    BY <1>0, <1>10, ClosingEnds DEF DoHandshake
  <2>2. queue = << >> /\ inflight = 0
    BY <1>10, <2>1 DEF DoHandshake, Step, Closed
  <2>3. ~Underway'
    BY <1>0, <1>10 DEF DoHandshake, Underway, Senders
  <2>4. inflight' = 0 /\ CyclesOf(queue') = 0
    BY <1>10, <2>2, CyclesOfQueue DEF DoHandshake, queueVars
  <2> QED BY <2>3, <2>4, SMT DEF InflightExact
<1>11. CASE Doze \/ FallAsleep \/ Leave
  <2>1. ~Underway /\ ~Underway'
    BY <1>0, <1>11 DEF Doze, FallAsleep, Leave, Underway, Senders
  <2>2. UNCHANGED <<queueVars, linkVars>>
    BY <1>11 DEF Doze, FallAsleep, Leave
  <2>3. UNCHANGED <<queue, inflight, connected>>
    BY <2>2 DEF queueVars, linkVars
  <2> QED BY <2>1, <2>3 DEF InflightExact
<1>12. CASE Take
  <2>1. /\ queue # << >> /\ queue' = Tail(queue) /\ inflight' = inflight
        /\ connected' = connected /\ sender.at = "Idle"
    BY <1>12 DEF Take, linkVars
  <2>2. Head(queue) \in Requests /\ Tail(queue) \in Seq(Requests)
    BY <2>1, FirstIs
  <2>3. /\ CyclesOf(queue) = Head(queue).cycles + CyclesOf(queue')
        /\ Head(queue).cycles \in Nat /\ CyclesOf(queue') \in Nat
    BY <1>0, <2>1, <2>2, CyclesOfQueue DEF Requests
  <2>4. busy = 0
    BY <2>1 DEF Underway
  <2>5. busy' = Head(queue).cycles
    <3>1. CASE Refused(Head(queue))
      <4>1. Head(queue).cycles = 0
        BY <2>2, <3>1 DEF Refused, Requests
      <4>2. ~Underway'
        BY <1>12, <2>1, <3>1 DEF Take, Underway
      <4> QED BY <4>1, <4>2
    <3>2. CASE ~Refused(Head(queue))
      BY <1>12, <3>2 DEF Take, Underway
    <3> QED BY <3>1, <3>2
  <2>6. connected => inflight = CyclesOf(queue) + busy
    BY DEF InflightExact
  <2>7. connected' => inflight' = CyclesOf(queue') + busy'
    <3> HIDE DEF busy
    <3> QED BY <2>1, <2>3, <2>4, <2>5, <2>6, SMT
  <2> QED BY <2>7 DEF InflightExact
<1>13. CASE Send \/ StepDown
  <2>1. Underway /\ Underway' /\ sender'.request = sender.request
    BY <1>0, <1>13 DEF Send, StepDown, Underway, Senders
  <2> QED BY <1>2, <1>13, <2>1 DEF Send, StepDown, queueVars, linkVars
<1>14. CASE GiveUp \/ Accept \/ Refuse
  <2>1. sender.at \in {"Asking", "Answer"} /\ \E ok : Settle(ok)
    BY <1>14 DEF GiveUp, Accept, Refuse
  <2>2. Underway /\ Underway' /\ sender'.request = sender.request
    BY <1>0, <2>1 DEF Settle, Underway, Senders
  <2>3. UNCHANGED <<queueVars, linkVars>>
    BY <1>14 DEF GiveUp, Accept, Refuse
  <2> QED BY <1>2, <2>2, <2>3 DEF queueVars, linkVars
<1>15. CASE Account
  <2>1. /\ inflight' = Minus(inflight, sender.request.cycles) /\ queue' = queue
        /\ connected' = connected /\ busy = sender.request.cycles
    BY <1>15 DEF Account, linkVars, Underway
  <2>2. busy' = 0
    BY <1>0, <1>15 DEF Account, Underway, Senders
  <2>3. connected => inflight = CyclesOf(queue) + busy
    BY DEF InflightExact
  <2>4. connected' => inflight' = CyclesOf(queue') + busy'
    <3> HIDE DEF busy
    <3>1. ASSUME connected PROVE inflight' = CyclesOf(queue)
      <4>1. sender.request.cycles <= inflight /\ inflight - sender.request.cycles = CyclesOf(queue)
        BY <1>0, <1>1, <2>1, <2>3, <3>1, SMT
      <4> QED BY <1>0, <1>1, <2>1, <4>1, MinusIs
    <3> QED BY <1>1, <2>1, <2>2, <3>1, SMT
  <2> QED BY <2>4 DEF InflightExact
<1>16. CASE UNCHANGED vars
  BY <1>2, <1>16 DEF vars, queueVars, linkVars, Underway
<1> QED BY <1>3, <1>4, <1>5, <1>6, <1>7, <1>8, <1>9, <1>10, <1>11, <1>12, <1>13, <1>14, <1>15,
           <1>16 DEF Next, Finish, Sender, Calls

----------------------------------------------------------------------------
(* The steps of the two threads on what is pending.                          *)

(* What is pending, place by place.                                          *)
LEMMA PendingIs ==
  ASSUME NEW r \in Requests, NEW q \in Seq(Requests), NEW t \in Seq(TodoSteps)
  PROVE  /\ PendingOf(r, q, t)[0] = r
         /\ \A k \in 1 .. Len(q) : PendingOf(r, q, t)[k] = q[k]
         /\ \A k \in 1 .. Len(t) : PendingOf(r, q, t)[Len(q) + k] = t[k].request
         /\ \A k \in Nat : Len(q) + Len(t) < k => PendingOf(r, q, t)[k] = Nothing
         /\ \A k \in Nat : PendingOf(r, q, t)[k] \in Requests
<1> DEFINE n == Len(q)
           m == Len(t)
           K == PendingOf(r, q, t)
<1>0. n \in Nat /\ m \in Nat
  OBVIOUS
<1>1. \A k \in Nat : K[k] = IF k = 0 THEN r
                            ELSE IF k <= n THEN q[k]
                            ELSE IF k - n <= m THEN t[k - n].request ELSE Nothing
  BY DEF PendingOf
<1>2. /\ \A k \in 1 .. n : q[k] \in Requests
      /\ \A k \in 1 .. m : t[k].request \in Requests
  <2>1. \A k \in 1 .. m : t[k] \in TodoSteps
    BY ElementOfSeq
  <2>2. \A k \in 1 .. n : q[k] \in Requests
    BY ElementOfSeq
  <2> HIDE DEF n, m
  <2> QED BY <2>1, <2>2 DEF TodoSteps
<1> HIDE DEF n, m, K
<1>3. K[0] = r
  BY <1>1, SMT
<1>4. ASSUME NEW k \in 1 .. n PROVE K[k] = q[k]
  <2>1. k \in Nat /\ k # 0 /\ k <= n
    BY <1>0, SMT
  <2> QED BY <1>1, <2>1
<1>5. ASSUME NEW k \in 1 .. m PROVE K[n + k] = t[k].request
  <2> DEFINE l == n + k
  <2>1. l \in Nat /\ l # 0 /\ ~(l <= n) /\ l - n <= m /\ l - n = k
    BY <1>0, SMT
  <2> HIDE DEF l
  <2>2. K[l] = t[l - n].request
    BY <1>1, <2>1
  <2> QED BY <2>1, <2>2 DEF l
<1>6. ASSUME NEW k \in Nat, n + m < k PROVE K[k] = Nothing
  <2>1. k # 0 /\ ~(k <= n) /\ ~(k - n <= m)
    BY <1>0, <1>6, SMT
  <2> QED BY <1>1, <2>1
<1>7. ASSUME NEW k \in Nat PROVE K[k] \in Requests
  <2>1. \/ k = 0 \/ k \in 1 .. n \/ n + m < k \/ (k - n \in 1 .. m /\ n + (k - n) = k)
    BY <1>0, SMT
  <2> QED BY <1>2, <1>3, <1>4, <1>5, <1>6, <2>1, Members
<1> QED BY <1>3, <1>4, <1>5, <1>6, <1>7 DEF K, n, m

(* A request that is queued stays where it was.                              *)
LEMMA PendingQueued ==
  ASSUME NEW r \in Requests, NEW q \in Seq(Requests), NEW t \in Seq(TodoSteps), t # << >>
  PROVE  PendingOf(r, Append(q, Head(t).request), Tail(t)) = PendingOf(r, q, t)
<1> DEFINE n == Len(q)
           m == Len(t)
           a == Append(q, Head(t).request)
           b == Tail(t)
<1>1. n \in Nat /\ m \in Nat \ {0} /\ t[1] = Head(t)
  BY EmptySeq, SMT
<1>2. b \in Seq(TodoSteps) /\ Len(b) = m - 1 /\ \A i \in 1 .. Len(b) : b[i] = t[i + 1]
  BY HeadTailProperties
<1>3. Head(t) \in TodoSteps /\ Head(t).request \in Requests
  <2>1. Head(t) \in TodoSteps
    BY HeadTailProperties
  <2> QED BY <2>1 DEF TodoSteps
<1>4. Len(a) = n + 1 /\ (\A i \in 1 .. n : a[i] = q[i]) /\ a[n + 1] = Head(t).request
  BY <1>3, SMT
<1> HIDE DEF n, m, a, b
<1>5. ASSUME NEW k \in Nat
      PROVE  (IF k = 0 THEN r ELSE IF k <= Len(a) THEN a[k]
              ELSE IF k - Len(a) <= Len(b) THEN b[k - Len(a)].request ELSE Nothing)
             = (IF k = 0 THEN r ELSE IF k <= n THEN q[k]
                ELSE IF k - n <= m THEN t[k - n].request ELSE Nothing)
  <2>1. \/ k = 0 \/ k \in 1 .. n \/ k = n + 1
        \/ n + 1 < k /\ n + m < k
        \/ n + 1 < k /\ k <= n + m
    BY <1>1, SMT
  <2>2. CASE k = 0
    BY <2>2
  <2>3. CASE k \in 1 .. n
    <3>1. k # 0 /\ k <= n /\ k <= Len(a)
      BY <1>1, <1>4, <2>3, SMT
    <3> QED BY <1>4, <2>3, <3>1
  <2>4. CASE k = n + 1
    <3>1. k # 0 /\ ~(k <= n) /\ k <= Len(a) /\ k - n <= m /\ k - n = 1
      BY <1>1, <1>4, <2>4, SMT
    <3> QED BY <1>1, <1>4, <2>4, <3>1
  <2>5. CASE n + 1 < k /\ n + m < k
    <3>1. k # 0 /\ ~(k <= n) /\ ~(k <= Len(a)) /\ ~(k - n <= m) /\ ~(k - Len(a) <= Len(b))
      BY <1>1, <1>2, <1>4, <2>5, SMT
    <3> QED BY <3>1
  <2>6. CASE n + 1 < k /\ k <= n + m
    <3> DEFINE i == k - Len(a)
    <3>1. /\ k # 0 /\ ~(k <= n) /\ ~(k <= Len(a)) /\ k - n <= m /\ i <= Len(b)
          /\ i \in 1 .. Len(b) /\ i + 1 = k - n
      BY <1>1, <1>2, <1>4, <2>6, SMT
    <3> HIDE DEF i
    <3>2. b[i] = t[k - n]
      BY <1>2, <3>1
    <3> QED BY <3>1, <3>2 DEF i
  <2> QED BY <2>1, <2>2, <2>3, <2>4, <2>5, <2>6
<1> QED BY <1>5 DEF PendingOf, n, m, a, b

(* A request that is taken off the queue: the rest moves up.                  *)
LEMMA PendingTaken ==
  ASSUME NEW r \in Requests, NEW u \in Requests, NEW q \in Seq(Requests), q # << >>,
         NEW t \in Seq(TodoSteps)
  PROVE  /\ PendingOf(r, q, t)[1] = Head(q)
         /\ PendingOf(u, Tail(q), t)[0] = u
         /\ \A k \in Nat \ {0} : PendingOf(u, Tail(q), t)[k] = PendingOf(r, q, t)[k + 1]
         /\ Len(Tail(q)) = Len(q) - 1 /\ Len(q) \in Nat \ {0}
<1> DEFINE n == Len(q)
           m == Len(t)
           b == Tail(q)
<1>1. n \in Nat \ {0} /\ m \in Nat /\ q[1] = Head(q)
  BY EmptySeq, SMT
<1>2. b \in Seq(Requests) /\ Len(b) = n - 1 /\ \A i \in 1 .. Len(b) : b[i] = q[i + 1]
  BY HeadTailProperties
<1> HIDE DEF n, m, b
<1>3. ASSUME NEW k \in Nat \ {0}
      PROVE  PendingOf(u, b, t)[k] = PendingOf(r, q, t)[k + 1]
  <2> DEFINE l == k + 1
  <2>1. l \in Nat /\ l # 0 /\ k # 0 /\ (k <= Len(b) <=> l <= n) /\ k - Len(b) = l - n
        /\ (k <= Len(b) => k \in 1 .. Len(b))
    BY <1>1, <1>2, SMT
  <2>2. k <= Len(b) => b[k] = q[l]
    BY <1>2, <2>1
  <2> HIDE DEF l
  <2>3. PendingOf(u, b, t)[k] = IF k <= Len(b) THEN b[k]
                                ELSE IF k - Len(b) <= m THEN t[k - Len(b)].request ELSE Nothing
    BY DEF PendingOf, m
  <2>4. PendingOf(r, q, t)[l] = IF l <= n THEN q[l]
                                ELSE IF l - n <= m THEN t[l - n].request ELSE Nothing
    BY <2>1 DEF PendingOf, n, m
  <2> QED BY <2>1, <2>2, <2>3, <2>4 DEF l
<1>4. PendingOf(u, b, t)[0] = u
  BY <1>2, PendingIs
<1>5. PendingOf(r, q, t)[1] = q[1]
  <2>1. 1 \in 1 .. n
    BY <1>1, SMT
  <2> QED BY <2>1, PendingIs DEF n
<1> QED BY <1>1, <1>2, <1>3, <1>4, <1>5 DEF n, b

\* The sender thread runs and its link is up
Live == running /\ connected

\* Of the first n pending requests, no reset and no write comes too early
UsesGood(K, n, s) == \A j \in Nat : j < n /\ K[j].cmd \in Uses => Good(K, j, s)
AllGood(K, n, s) == UsesGood(K, n, s) /\ Good(K, n, s)

\* While the thread of the sender and the link are up: nothing comes too early,
\* nor would what the next call asks, unless the call under way is settling
SetupInv ==
  Live =>
    /\ UsesGood(Pending, Len(queue) + 1, server)
    /\ todo \notin Settling => AllGood(Pending, Len(queue) + Len(todo) + 1, server)

\* The limit that the requests for missing chips are refused by
Limited == Live /\ server.chips > 0 => wireLimit = server.chips

(* What is asked after all that is good, without a count, is good.            *)
LEMMA GoodGrows ==
  ASSUME NEW K, NEW L, NEW s, NEW n \in Nat, NEW m \in Nat, n <= m, AllGood(K, n, s),
         \A k \in Nat : k < n => L[k] = K[k],
         \A k \in Nat : n <= k /\ k < m => L[k].cmd # "Count"
  PROVE  AllGood(L, m, s)
<1>1. Good(L, m, s)
  BY GoodLater DEF AllGood
<1>2. ASSUME NEW j \in Nat, j < m, L[j].cmd \in Uses PROVE Good(L, j, s)
  <2>1. CASE j < n
    <3>1. Good(K, j, s)
      BY <1>2, <2>1 DEF AllGood, UsesGood
    <3>2. /\ j <= j /\ (\A k \in Nat : k < j => L[k] = K[k])
          /\ \A k \in Nat : j <= k /\ k < j => L[k].cmd # "Count"
      BY <2>1, SMT
    <3> QED BY <3>1, <3>2, GoodLater
  <2>2. CASE n <= j
    <3>1. \A k \in Nat : n <= k /\ k < j => L[k].cmd # "Count"
      BY <1>2, SMT
    <3> QED BY <2>2, <3>1, GoodLater DEF AllGood
  <2>3. j < n \/ n <= j
    BY SMT
  <2> QED BY <2>1, <2>2, <2>3
<1> QED BY <1>1, <1>2 DEF AllGood, UsesGood

(* It depends on what comes before only.                                     *)
LEMMA UsesSame ==
  ASSUME NEW K, NEW L, NEW s, NEW n \in Nat, UsesGood(K, n, s),
         \A k \in Nat : k < n => L[k] = K[k]
  PROVE  UsesGood(L, n, s)
<1>1. ASSUME NEW j \in Nat, j < n, L[j].cmd \in Uses PROVE Good(L, j, s)
  <2>1. Good(K, j, s)
    BY <1>1 DEF UsesGood
  <2>2. /\ j <= j /\ (\A k \in Nat : k < j => L[k] = K[k])
        /\ \A k \in Nat : j <= k /\ k < j => L[k].cmd # "Count"
    BY <1>1, SMT
  <2> QED BY <2>1, <2>2, GoodLater
<1> QED BY <1>1 DEF UsesGood

\* No step of t asks for chips
NoCounts(t) == \A i \in 1 .. Len(t) : t[i].request.cmd # "Count"

(* What is left of a call only matters behind the queue.                     *)
LEMMA PendingCalls ==
  ASSUME NEW r \in Requests, NEW q \in Seq(Requests),
         NEW t \in Seq(TodoSteps), NEW u \in Seq(TodoSteps)
  PROVE  /\ \A k \in Nat : k < Len(q) + 1 => PendingOf(r, q, u)[k] = PendingOf(r, q, t)[k]
         /\ NoCounts(u) =>
              \A k \in Nat : Len(q) + 1 <= k => PendingOf(r, q, u)[k].cmd # "Count"
<1> DEFINE n == Len(q)
           m == Len(u)
<1>0. n \in Nat /\ m \in Nat
  OBVIOUS
<1> HIDE DEF n, m
<1>1. ASSUME NEW k \in Nat, k < n + 1 PROVE PendingOf(r, q, u)[k] = PendingOf(r, q, t)[k]
  <2>1. k = 0 \/ k \in 1 .. n
    BY <1>0, <1>1, SMT
  <2> QED BY <2>1, PendingIs DEF n
<1>2. ASSUME NoCounts(u), NEW k \in Nat, n + 1 <= k
      PROVE  PendingOf(r, q, u)[k].cmd # "Count"
  <2> DEFINE i == k - n
  <2>1. n + m < k \/ (i \in 1 .. m /\ n + i = k)
    BY <1>0, <1>2, SMT
  <2> HIDE DEF i
  <2>2. CASE n + m < k
    <3>1. PendingOf(r, q, u)[k] = Nothing
      BY <2>2, PendingIs DEF n, m
    <3> QED BY <3>1 DEF Nothing, Plain, Request
  <2>3. CASE i \in 1 .. m /\ n + i = k
    <3>1. PendingOf(r, q, u)[n + i] = u[i].request
      BY <2>3, PendingIs DEF n, m
    <3> QED BY <1>2, <2>3, <3>1 DEF NoCounts, m
  <2> QED BY <2>1, <2>2, <2>3
<1> QED BY <1>1, <1>2 DEF n

(* The calls that set no chips up ask for none.                              *)
LEMMA CallsCountNothing ==
  /\ NoCounts(<< >>) /\ NoCounts(<< Do("Wait") >>)
  /\ NoCounts(<< Enqueue(Plain("Reset")), Do("FmAgain") >>)
  /\ NoCounts(<< Enqueue(Plain("Fm")) >>)
  /\ \A c \in Nat : /\ NoCounts(<< Enqueue(Request("Write", 0, c)) >>)
                    /\ NoCounts(<< Enqueue(Request("Write", 0, c)), Enqueue(Plain("Fm")) >>)
  /\ \A t \in Seq(TodoSteps) : Closers(t) => NoCounts(t)
<1>1. ASSUME NEW x, x.request.cmd # "Count" PROVE NoCounts(<< x >>)
  BY <1>1, SMT DEF NoCounts
<1>2. ASSUME NEW x, NEW y, x.request.cmd # "Count", y.request.cmd # "Count"
      PROVE  NoCounts(<< x, y >>)
  BY <1>2, SMT DEF NoCounts
<1>3. NoCounts(<< >>)
  <2>1. Len(<< >>) = 0
    BY EmptySeq
  <2> QED BY <2>1, SMT DEF NoCounts
<1>4. /\ \A st : Do(st).request.cmd # "Count"
      /\ \A r : Enqueue(r).request = r
      /\ \A c : Request("Write", 0, c).cmd # "Count"
      /\ Plain("Reset").cmd # "Count" /\ Plain("Fm").cmd # "Count"
  BY DEF Do, Enqueue, Request, Plain, Nothing
<1>5. ASSUME NEW t \in Seq(TodoSteps), Closers(t) PROVE NoCounts(t)
  BY <1>5, ClosingSteps DEF NoCounts, Nothing, Plain, Request
<1> QED BY <1>1, <1>2, <1>3, <1>4, <1>5

\* What the proofs need of the types
Shapes ==
  /\ TodoOK /\ queue \in Seq(Requests) /\ todo \in Seq(TodoSteps) /\ Current \in Requests
  /\ sender \in Senders /\ server \in Servers /\ sidCount \in Nat \ {0}
  /\ wireLimit \in Nat \ {0}

(* They follow from the invariant.                                            *)
LEMMA ShapesAre == ASSUME Typed, Shaped(todo) PROVE Shapes
BY Members DEF Typed, TodoOK, Shapes, Current, Senders

(* A new call: what it asks comes behind what is pending.                    *)
LEMMA SetupCalls ==
  ASSUME Typed, Shaped(todo), SetupInv, Calls, Typed', Shaped(todo)'
  PROVE  SetupInv'
<1>0. Shapes
  BY ShapesAre
<1>1. /\ todo = << >> /\ queue' = queue /\ sender' = sender /\ server' = server
      /\ Live' = Live /\ Len(todo) = 0 /\ Len(queue) \in Nat
  BY <1>0, CallSteps, EmptySeq DEF queueVars, linkVars, Live, Shapes
<1> SUFFICES ASSUME Live
             PROVE  /\ UsesGood(Pending', Len(queue) + 1, server)
                    /\ todo' \notin Settling =>
                         AllGood(Pending', Len(queue) + Len(todo') + 1, server)
  BY <1>1 DEF SetupInv
<1>2. todo \notin Settling
  BY <1>1, SettlingSteps
<1>3. AllGood(Pending, Len(queue) + 1, server)
  <2>1. Len(queue) + Len(todo) + 1 = Len(queue) + 1
    BY <1>1, SMT
  <2> QED BY <1>2, <2>1 DEF SetupInv
<1>4. todo' \in Seq(TodoSteps) /\ Pending' = PendingOf(Current, queue, todo')
  BY <1>1 DEF Typed, Pending, Current
<1>5. \A k \in Nat : k < Len(queue) + 1 => Pending'[k] = Pending[k]
  BY <1>0, <1>4, PendingCalls DEF Pending, Shapes
<1>6. Len(queue) + 1 \in Nat /\ UsesGood(Pending', Len(queue) + 1, server)
  <2>1. Len(queue) + 1 \in Nat
    BY <1>1, SMT
  <2> QED BY <1>3, <1>5, <2>1, UsesSame DEF AllGood
<1>7. todo' \in Settling \/ NoCounts(todo')
  <2>1. PacketCycles \subseteq Nat
    BY NetSenderAssumption
  <2> QED BY <2>1, CallSteps, CallsBegin, ClosingBegins, CallsCountNothing
<1>8. CASE NoCounts(todo')
  <2> DEFINE n == Len(queue) + 1
             m == Len(queue) + Len(todo') + 1
  <2>1. n \in Nat /\ m \in Nat /\ n <= m
    <3>1. Len(todo') \in Nat
      BY <1>4
    <3> QED BY <1>1, <3>1, SMT
  <2>2. \A k \in Nat : n <= k => Pending'[k].cmd # "Count"
    BY <1>0, <1>4, <1>8, PendingCalls DEF Shapes
  <2> HIDE DEF n, m
  <2>3. AllGood(Pending', m, server)
    BY <1>3, <1>5, <2>1, <2>2, GoodGrows DEF n
  <2> QED BY <1>6, <2>3 DEF m
<1> QED BY <1>6, <1>7, <1>8

(* Queueing changes nothing of what is pending.                              *)
LEMMA SetupEnqueue ==
  ASSUME Typed, Shaped(todo), SetupInv, DoEnqueue
  PROVE  SetupInv' /\ Pending' = Pending
<1>0. Shapes
  BY ShapesAre
<1>1. /\ todo # << >> /\ Head(todo).do = "Enqueue" /\ todo' = Tail(todo)
      /\ queue' = Append(queue, Head(todo).request) /\ server' = server /\ Live' = Live
  BY DEF DoEnqueue, Step, Live, linkVars
<1>2. /\ Head(todo).request \in Requests /\ Len(todo) \in Nat \ {0}
      /\ Len(Tail(todo)) = Len(todo) - 1
  BY <1>1, FirstIs DEF Step, Steps
<1>3. Len(queue') = Len(queue) + 1 /\ Len(queue) \in Nat
  BY <1>0, <1>1, <1>2 DEF Shapes
<1>4. Current' = Current
  BY <1>0 DEF DoEnqueue, Notified, Current, Shapes, Senders
<1>5. Pending' = Pending
  BY <1>0, <1>1, <1>4, PendingQueued DEF Pending, Shapes
<1> SUFFICES ASSUME Live
             PROVE  /\ UsesGood(Pending, Len(queue') + 1, server)
                    /\ todo' \notin Settling =>
                         AllGood(Pending, Len(queue') + Len(todo') + 1, server)
  BY <1>1, <1>5 DEF SetupInv
<1>6. Len(queue') + Len(todo') + 1 = Len(queue) + Len(todo) + 1
  BY <1>1, <1>2, <1>3, SMT
<1>7. CASE todo \in Settling
  <2>1. todo' \in Settling /\ Head(todo).request = Plain("Flush")
    BY <1>1, <1>7, SettlingSteps
  <2>2. Pending[Len(queue) + 1] = todo[1].request
    <3>1. 1 \in 1 .. Len(todo)
      BY <1>2, SMT
    <3> QED BY <1>0, <3>1, PendingIs DEF Pending, Shapes
  <2>3. Pending[Len(queue) + 1].cmd \notin Uses
    BY <1>7, <2>1, <2>2, SettlingSteps DEF Plain, Request, Uses
  <2>4. UsesGood(Pending, Len(queue) + 1, server)
    BY DEF SetupInv
  <2>5. UsesGood(Pending, Len(queue') + 1, server)
    <3> SUFFICES ASSUME NEW j \in Nat, j < Len(queue') + 1, Pending[j].cmd \in Uses
                 PROVE  Good(Pending, j, server)
      BY DEF UsesGood
    <3>1. j < Len(queue) + 1 \/ j = Len(queue) + 1
      BY <1>3, SMT
    <3> QED BY <2>3, <2>4, <3>1 DEF UsesGood
  <2> QED BY <2>1, <2>5
<1>8. CASE todo \notin Settling
  <2>1. AllGood(Pending, Len(queue) + Len(todo) + 1, server)
    BY <1>8 DEF SetupInv
  <2>2. UsesGood(Pending, Len(queue') + 1, server)
    <3> SUFFICES ASSUME NEW j \in Nat, j < Len(queue') + 1, Pending[j].cmd \in Uses
                 PROVE  Good(Pending, j, server)
      BY DEF UsesGood
    <3>1. j < Len(queue) + Len(todo) + 1
      BY <1>2, <1>3, SMT
    <3> QED BY <2>1, <3>1 DEF AllGood, UsesGood
  <2> QED BY <1>6, <2>1, <2>2
<1> QED BY <1>5, <1>7, <1>8

(* The requests of the chip setup use no chip.                               *)
LEMMA SetupUsesNothing ==
  ASSUME NEW n \in Nat \ {0}, NEW mods \in Nat, NEW k \in 1 .. n + mods + 2
  PROVE  ChipSetup(n, mods)[k].cmd \in {"Count", "Position", "Model", "Clock"}
<1>1. CASE k = 1
  <2>1. ChipSetup(n, mods)[k] = Request("Count", n, 0)
    BY <1>1, ChipSetupIs
  <2> QED BY <2>1 DEF Request
<1>2. CASE k = n + mods + 2
  <2>1. ChipSetup(n, mods)[k] = Plain("Clock")
    BY <1>2, ChipSetupIs
  <2> QED BY <2>1 DEF Plain, Request
<1>3. CASE k - 2 \in 0 .. n - 1
  <2> DEFINE c == k - 2
  <2>1. c \in 0 .. n - 1 /\ c + 2 = k
    BY <1>3, SMT
  <2> HIDE DEF c
  <2>2. ChipSetup(n, mods)[c + 2] = Request("Position", c, 0)
    BY <2>1, ChipSetupIs
  <2> QED BY <2>1, <2>2 DEF Request
<1>4. CASE k - 2 - n \in 0 .. mods - 1
  <2> DEFINE c == k - 2 - n
  <2>1. c \in 0 .. mods - 1 /\ n + c + 2 = k
    BY <1>4, SMT
  <2> HIDE DEF c
  <2>2. ChipSetup(n, mods)[n + c + 2] = Request("Model", c, 0)
    BY <2>1, ChipSetupIs
  <2> QED BY <2>1, <2>2 DEF Request
<1>5. k = 1 \/ k = n + mods + 2 \/ k - 2 \in 0 .. n - 1 \/ k - 2 - n \in 0 .. mods - 1
  BY SMT
<1> QED BY <1>1, <1>2, <1>3, <1>4, <1>5

(* The chip setup is pending behind the queue, and no other count behind it.    *)
LEMMA SetupPending ==
  ASSUME Shapes, DoSetup, connected, NEW q, q = Len(queue), NEW n, n = sidCount,
         NEW mods, mods = Models
  PROVE  /\ q \in Nat /\ n \in Nat \ {0} /\ mods \in Nat /\ Len(todo') \in Nat /\ n + mods + 2 <= Len(todo')
         /\ \A k \in Nat : k < q + 1 => Pending'[k] = Pending[k]
         /\ \A k \in 1 .. n + mods + 2 : Pending'[q + k] = ChipSetup(n, mods)[k]
         /\ \A k \in Nat : q + 1 + n + mods + 2 <= k => Pending'[k].cmd # "Count"
<1> DEFINE rest == Tail(todo)
           i == q + 1
           K == Pending'
<1>1. /\ queue' = queue /\ Current' = Current /\ q \in Nat /\ n \in Nat \ {0} /\ mods \in Nat
  BY ModelsAre DEF DoSetup, queueVars, Current, Shapes
<1>2. todo' \in Seq(TodoSteps) /\ todo' = SetupSteps(n, mods) \o rest
  BY <1>1, SetupQueues DEF Shapes
<1>3. rest \in Seq(TodoSteps) /\ Simple(rest) /\ NoCounts(rest)
  <2>1. todo \in Settling /\ rest \in Seq(TodoSteps) /\ Simple(rest)
    BY SetupSettles DEF DoSetup, Shapes
  <2> QED BY <2>1, SettlingSteps, CallsCountNothing DEF DoSetup, Step
<1>4. /\ Len(todo') = n + mods + 2 + Len(rest)
      /\ \A k \in 1 .. n + mods + 2 : todo'[k].request = ChipSetup(n, mods)[k]
      /\ \A k \in 1 .. n + mods + 2 + Len(rest) :
           n + mods + 2 < k => todo'[k] = rest[k - (n + mods + 2)]
  <2> DEFINE all == SetupSteps(n, mods) \o rest
  <2> HIDE DEF rest, i, K
  <2>1. /\ Len(all) = n + mods + 2 + Len(rest)
        /\ \A k \in 1 .. n + mods + 2 : all[k].request = ChipSetup(n, mods)[k]
        /\ \A k \in 1 .. n + mods + 2 + Len(rest) :
             n + mods + 2 < k => all[k] = rest[k - (n + mods + 2)]
    <3>1. n \in Nat \ {0} /\ mods \in Nat /\ rest \in Seq(TodoSteps) /\ Simple(rest)
      BY <1>1, <1>3
    <3>2. Len(all) = n + mods + 2 + Len(rest)
      BY <3>1, SetupStepsAre, Zenon
    <3>3. \A k \in 1 .. n + mods + 2 : all[k].request = ChipSetup(n, mods)[k]
      BY <3>1, SetupStepsAre, Zenon
    <3>4. \A k \in 1 .. n + mods + 2 + Len(rest) :
            n + mods + 2 < k => all[k] = rest[k - (n + mods + 2)]
      BY <3>1, SetupStepsAre, Zenon
    <3> QED BY <3>2, <3>3, <3>4
  <2>2. todo' = all
    BY <1>2
  <2> HIDE DEF all
  <2> QED BY <2>1, <2>2
<1>5. K = PendingOf(Current, queue, todo')
  BY <1>1 DEF Pending
<1>6. /\ \A k \in Nat : k < q + 1 => K[k] = Pending[k]
      /\ \A k \in 1 .. Len(todo') : K[q + k] = todo'[k].request
      /\ \A k \in Nat : q + Len(todo') < k => K[k] = Nothing
  <2> HIDE DEF K, rest
  <2>1. \A k \in Nat : k < q + 1 => K[k] = Pending[k]
    <3>1. \A k \in Nat : k < Len(queue) + 1 =>
            PendingOf(Current, queue, todo')[k] = PendingOf(Current, queue, todo)[k]
      <4>1. /\ Current \in Requests /\ queue \in Seq(Requests) /\ todo \in Seq(TodoSteps)
            /\ todo' \in Seq(TodoSteps)
        BY <1>2 DEF Shapes
      <4> QED BY <4>1, PendingCalls
    <3> QED BY <1>5, <3>1 DEF Pending
  <2>2. /\ \A k \in 1 .. Len(todo') : K[q + k] = todo'[k].request
        /\ \A k \in Nat : q + Len(todo') < k => K[k] = Nothing
    <3> DEFINE P == PendingOf(Current, queue, todo')
    <3>1. /\ \A k \in 1 .. Len(todo') : P[Len(queue) + k] = todo'[k].request
          /\ \A k \in Nat : Len(queue) + Len(todo') < k => P[k] = Nothing
      <4>1. Current \in Requests /\ queue \in Seq(Requests) /\ todo' \in Seq(TodoSteps)
        BY <1>2 DEF Shapes
      <4> QED BY <4>1, PendingIs
    <3> HIDE DEF P
    <3> QED BY <1>5, <3>1 DEF P
  <2> QED BY <2>1, <2>2
<1> DEFINE m == Len(rest)
<1>7. m \in Nat /\ q \in Nat /\ i = q + 1
  BY <1>1, <1>3
<1> HIDE DEF K, i, m, rest
<1>8. \A k \in 1 .. n + mods + 2 : K[q + k] = ChipSetup(n, mods)[k]
  <2> SUFFICES ASSUME NEW k \in 1 .. n + mods + 2 PROVE K[q + k] = ChipSetup(n, mods)[k]
    OBVIOUS
  <2>1. k \in 1 .. n + mods + 2 + m
    BY <1>1, <1>7, SMT
  <2>2. k \in 1 .. Len(todo')
    BY <1>4, <2>1 DEF m
  <2> QED BY <1>4, <1>6, <2>1, <2>2
<1>9. ASSUME NEW k \in Nat, i + n + mods + 2 <= k PROVE K[k].cmd # "Count"
  <2> DEFINE l == k - q
             p == l - (n + mods + 2)
  <2>1. \/ q + (n + mods + 2 + m) < k
        \/ /\ l \in 1 .. n + mods + 2 + m /\ n + mods + 2 < l /\ p \in 1 .. m /\ q + l = k
    BY <1>1, <1>7, <1>9, SMT
  <2> HIDE DEF p, l
  <2>2. CASE q + (n + mods + 2 + m) < k
    <3>1. K[k] = Nothing
      BY <1>4, <1>6, <2>2 DEF m
    <3> QED BY <3>1 DEF Nothing, Plain, Request
  <2>3. CASE /\ l \in 1 .. n + mods + 2 + m /\ n + mods + 2 < l /\ p \in 1 .. m /\ q + l = k
    <3>1. l \in 1 .. Len(todo') /\ K[q + l] = todo'[l].request
      BY <1>4, <1>6, <2>3 DEF m
    <3>2. todo'[l] = rest[p]
      BY <1>4, <2>3 DEF m, p
    <3> QED BY <1>3, <2>3, <3>1, <3>2 DEF NoCounts, m
  <2> QED BY <2>1, <2>2, <2>3
<1>10. n + mods + 2 <= Len(todo') /\ Len(todo') \in Nat
  <2>1. Len(todo') = n + mods + 2 + m
    BY <1>4 DEF m
  <2> QED BY <1>1, <1>7, <2>1, SMT
<1> QED BY <1>1, <1>6, <1>7, <1>8, <1>9, <1>10 DEF K

(* The chip setup: all that comes behind it is good.                         *)
LEMMA SetupSetup ==
  ASSUME Typed, Shaped(todo), SetupInv, DoSetup
  PROVE  SetupInv'
<1>0. Shapes
  BY ShapesAre
<1>1. queue' = queue /\ server' = server /\ Live' = Live
  BY DEF DoSetup, queueVars, linkVars, Live
<1> DEFINE n == sidCount
           mods == Models
           q == Len(queue)
           i == Len(queue) + 1
           K == Pending'
<1> SUFFICES ASSUME Live
             PROVE  UsesGood(K, i, server) /\ AllGood(K, q + Len(todo') + 1, server)
  BY <1>1 DEF SetupInv
<1>2. connected
  BY DEF Live
<1>3. /\ q \in Nat /\ n \in Nat \ {0} /\ mods \in Nat /\ Len(todo') \in Nat /\ n + mods + 2 <= Len(todo')
      /\ \A k \in Nat : k < q + 1 => K[k] = Pending[k]
      /\ \A k \in 1 .. n + mods + 2 : K[q + k] = ChipSetup(n, mods)[k]
      /\ \A k \in Nat : q + 1 + n + mods + 2 <= k => K[k].cmd # "Count"
  <2> HIDE DEF K, q, n, mods
  <2> QED BY <1>0, <1>2, SetupPending DEF K, q, n, mods
<1>12. server.lists => mods = n
  BY ModelsAre DEF Typed
<1>4. q \in Nat /\ i = q + 1
  BY <1>3
<1> HIDE DEF K, q, i, n, mods
<1>5. \A k \in 1 .. n + mods + 2 : K[i + k - 1] = ChipSetup(n, mods)[k]
  <2> SUFFICES ASSUME NEW k \in 1 .. n + mods + 2 PROVE K[i + k - 1] = ChipSetup(n, mods)[k]
    OBVIOUS
  <2>1. i + k - 1 = q + k
    BY <1>3, <1>4, SMT
  <2> QED BY <1>3, <2>1
<1>6. ASSUME NEW k \in Nat, i + n + mods + 2 <= k PROVE K[k].cmd # "Count"
  BY <1>3, <1>4, <1>6
<1>7. ASSUME NEW j \in Nat, i + n + mods + 2 <= j PROVE Good(K, j, server)
  <2>1. NoCount(K, i + n + mods + 2, j)
    BY <1>6 DEF NoCount
  <2>2. i \in Nat
    BY <1>4, SMT
  <2> QED BY <1>3, <1>5, <1>7, <1>12, <2>1, <2>2, GoodAfterSetup
<1>8. UsesGood(K, i, server)
  <2>1. UsesGood(Pending, i, server) /\ i \in Nat
    BY <1>4, SMT DEF SetupInv, i, q
  <2>2. \A k \in Nat : k < i => K[k] = Pending[k]
    BY <1>3, <1>4
  <2> QED BY <2>1, <2>2, UsesSame
<1>9. ASSUME NEW j \in Nat, j < q + Len(todo') + 1, K[j].cmd \in Uses
       PROVE  Good(K, j, server)
  <2> DEFINE k == j - q
  <2>1. j < i \/ i + n + mods + 2 <= j \/ (k \in 1 .. n + mods + 2 /\ i + k - 1 = j)
    BY <1>3, <1>4, SMT
  <2> HIDE DEF k
  <2>2. ~(k \in 1 .. n + mods + 2 /\ i + k - 1 = j)
    <3> SUFFICES ASSUME k \in 1 .. n + mods + 2, i + k - 1 = j PROVE FALSE
      OBVIOUS
    <3>1. K[j] = ChipSetup(n, mods)[k]
      BY <1>5
    <3>2. ChipSetup(n, mods)[k].cmd \in {"Count", "Position", "Model", "Clock"}
      BY <1>3, SetupUsesNothing
    <3> QED BY <1>9, <3>1, <3>2 DEF Uses
  <2> QED BY <1>7, <1>8, <1>9, <2>1, <2>2 DEF UsesGood
<1>10. q + Len(todo') + 1 \in Nat /\ i + n + mods + 2 <= q + Len(todo') + 1
  BY <1>3, <1>4, SMT
<1>11. Good(K, q + Len(todo') + 1, server)
  BY <1>7, <1>10
<1> QED BY <1>8, <1>9, <1>11 DEF AllGood, UsesGood

(* The FM request goes behind all that is pending; a wait is over.            *)
LEMMA SetupLast ==
  ASSUME Typed, Shaped(todo), SetupInv, DoFmAgain \/ DoWait, Typed'
  PROVE  SetupInv'
<1>0. Shapes
  BY ShapesAre
<1>1. /\ queue' = queue /\ sender' = sender /\ server' = server /\ Live' = Live
      /\ Len(queue) \in Nat
  BY <1>0 DEF DoFmAgain, DoWait, queueVars, linkVars, Live, Shapes
<1>2. /\ Simple(todo) /\ Len(todo) = 1 /\ Tail(todo) = << >> /\ todo # << >>
      /\ todo[1].request = Nothing
      /\ Head(todo).do \in {"FmAgain", "Wait"}
  BY <1>0, FmAgainEnds DEF DoFmAgain, DoWait, Step, Shapes
<1>3. todo' \in Seq(TodoSteps) /\ NoCounts(todo')
  <2>1. todo' = << >> \/ todo' = << Enqueue(Plain("Fm")) >>
    BY <1>2 DEF DoFmAgain, DoWait
  <2> QED BY <2>1, CallsCountNothing DEF Typed
<1> DEFINE q == Len(queue)
           n == Len(queue) + 1
           m == Len(queue) + Len(todo') + 1
           K == Pending'
<1> SUFFICES ASSUME Live
             PROVE  UsesGood(K, n, server) /\ AllGood(K, m, server)
  BY <1>1 DEF SetupInv
<1>4. K = PendingOf(Current, queue, todo')
  BY <1>1 DEF Pending, Current
<1>5. AllGood(Pending, n + 1, server)
  <2>1. todo \notin Settling
    BY <1>2, SettlingSteps
  <2>2. Len(queue) + Len(todo) + 1 = n + 1
    BY <1>1, <1>2, SMT
  <2> QED BY <2>1, <2>2 DEF SetupInv
<1>6. n \in Nat /\ m \in Nat /\ n <= m /\ n + 1 \in Nat /\ n <= n + 1
  <2>1. Len(todo') \in Nat
    BY <1>3
  <2> QED BY <1>1, <2>1, SMT
<1> HIDE DEF K
<1>7. /\ \A k \in Nat : k < n => K[k] = Pending[k]
      /\ \A k \in Nat : n <= k => K[k].cmd # "Count"
  <2>1. /\ \A k \in Nat : k < Len(queue) + 1 =>
             PendingOf(Current, queue, todo')[k] = PendingOf(Current, queue, todo)[k]
        /\ \A k \in Nat : Len(queue) + 1 <= k =>
             PendingOf(Current, queue, todo')[k].cmd # "Count"
    BY <1>0, <1>3, PendingCalls DEF Shapes
  <2> QED BY <1>4, <2>1 DEF Pending
<1>8. Pending[n] = Nothing
  <2>1. 1 \in 1 .. Len(todo)
    BY <1>2, SMT
  <2> QED BY <1>0, <1>2, <2>1, PendingIs DEF Pending, Shapes
<1> HIDE DEF n, m
<1>9. AllGood(Pending, n, server)
  <2>1. \A k \in Nat : n <= k /\ k < n + 1 => Harmless(Pending[k])
    <3>1. \A k \in Nat : n <= k /\ k < n + 1 => k = n
      BY <1>6, SMT
    <3> QED BY <1>8, <3>1 DEF Harmless, Nothing, Plain, Request
  <2>2. Good(Pending, n, server)
    BY <1>5, <1>6, <2>1, GoodEarlier DEF AllGood
  <2>3. UsesGood(Pending, n, server)
    <3>1. \A j \in Nat : j < n => j < n + 1
      BY <1>6, SMT
    <3> QED BY <1>5, <3>1 DEF AllGood, UsesGood
  <2> QED BY <2>2, <2>3 DEF AllGood
<1>10. AllGood(K, m, server)
  BY <1>6, <1>7, <1>9, GoodGrows
<1>11. UsesGood(K, n, server)
  BY <1>6, <1>7, <1>9, UsesSame DEF AllGood
<1> QED BY <1>10, <1>11

(* A reset drops the queue: what the server is asked now is as good as it was. *)
LEMMA SetupDrop ==
  ASSUME Typed, Shaped(todo), Closed, SetupInv, DoDrop, Typed'
  PROVE  SetupInv'
<1>0. Shapes
  BY ShapesAre
<1>1. /\ queue' = << >> /\ sender' = sender /\ server' = server /\ Live' = Live
      /\ Len(queue) \in Nat /\ todo' = Tail(todo) /\ Head(todo).do = "Drop" /\ todo # << >>
      /\ Len(queue') = 0
  BY <1>0, EmptySeq DEF DoDrop, Step, linkVars, Live, Shapes
<1> SUFFICES ASSUME Live PROVE SetupInv'
  BY <1>1 DEF SetupInv
<1>2. todo \in Settling
  <2>1. ~Closers(todo)
    BY <1>1 DEF Closed, Live
  <2>2. ~Simple(todo)
    BY <1>0, <1>1, SimpleSteps DEF Shapes
  <2> QED BY <2>1, <2>2 DEF Shaped
<1>3. todo' \in Settling
  BY <1>1, <1>2, SettlingSteps
<1>4. Pending'[0] = Pending[0] /\ Current' = Current
  <2>1. Pending' = PendingOf(Current, << >>, todo') /\ Current' = Current
    BY <1>1 DEF Pending, Current
  <2>2. << >> \in Seq(Requests) /\ todo' \in Seq(TodoSteps)
    BY EmptySeq DEF Typed
  <2>3. PendingOf(Current, << >>, todo')[0] = Current
    BY <1>0, <2>2, PendingIs DEF Shapes
  <2>4. PendingOf(Current, queue, todo)[0] = Current
    BY <1>0, PendingIs DEF Shapes
  <2> QED BY <2>1, <2>3, <2>4 DEF Pending
<1>5. UsesGood(Pending, Len(queue) + 1, server)
  BY DEF SetupInv
<1>6. UsesGood(Pending, 1, server)
  <2>1. \A j \in Nat : j < 1 => j < Len(queue) + 1
    BY <1>1, SMT
  <2> QED BY <1>5, <2>1 DEF UsesGood
<1>7. UsesGood(Pending', 1, server)
  <2>1. \A k \in Nat : k < 1 => k = 0
    BY SMT
  <2>2. 1 \in Nat
    BY SMT
  <2> DEFINE K == Pending
             L == Pending'
  <2>3. \A k \in Nat : k < 1 => L[k] = K[k]
    BY <1>4, <2>1
  <2> HIDE DEF K, L
  <2>4. UsesGood(L, 1, server)
    BY <1>6, <2>2, <2>3, UsesSame DEF K
  <2> QED BY <2>4 DEF L
<1>8. Len(queue') + 1 = 1
  BY <1>1, SMT
<1> QED BY <1>1, <1>3, <1>7, <1>8 DEF SetupInv

(* While the connection is closed, nothing is live.                          *)
LEMMA ClosingIsNotLive ==
  ASSUME Typed, Shaped(todo), Closed, DoStop \/ DoNotify \/ DoJoin \/ DoClose \/ NoServer
  PROVE  ~Live'
<1>1. CASE DoStop
  BY <1>1 DEF DoStop, Live
<1>2. CASE DoClose
  BY <1>2 DEF DoClose, Live
<1>3. CASE DoNotify \/ DoJoin \/ NoServer
  <2>1. /\ Head(todo).do \in {"Notify", "Join", "Handshake"} /\ running' = running
        /\ Step("Notify") \/ Step("Join") \/ Step("Handshake")
    BY <1>3 DEF DoNotify, DoJoin, NoServer, Step, linkVars
  <2>2. Closers(todo)
    BY <2>1, ClosingEnds, ShapesAre DEF Shapes
  <2> QED BY <2>1, <2>2 DEF Closed, Live
<1> QED BY <1>1, <1>2, <1>3

(* A new connection: the default chip setup is the first thing it asks.       *)
LEMMA SetupHandshake ==
  ASSUME Typed, Shaped(todo), Closed, DoHandshake, Typed'
  PROVE  SetupInv'
<1>0. Shapes
  BY ShapesAre
<1>1. /\ todo' = << Do("Setup") >> /\ todo' \in Settling /\ queue' = queue
      /\ sender' = [sender EXCEPT !.at = "Idle"]
  BY CallsBegin DEF DoHandshake, queueVars
<1>2. queue' = << >> /\ Len(queue') = 0
  <2>1. Closers(todo)
    BY <1>0, ClosingEnds DEF DoHandshake, Shapes
  <2> QED BY <1>1, <2>1, EmptySeq DEF Closed, DoHandshake, Step
<1>3. Current' = Nothing
  BY <1>0, <1>1 DEF Current, Shapes, Senders
<1>4. Pending'[0] = Nothing
  <2>1. Pending' = PendingOf(Nothing, queue', todo')
    BY <1>3 DEF Pending
  <2> QED BY <2>1, Members, PendingIs DEF Typed
<1>5. UsesGood(Pending', Len(queue') + 1, server')
  <2>1. \A j \in Nat : j < Len(queue') + 1 => j = 0
    BY <1>2, SMT
  <2> QED BY <1>4, <2>1 DEF UsesGood, Uses, Nothing, Plain, Request
<1> QED BY <1>1, <1>5 DEF SetupInv

(* A request is taken off the queue.                                         *)
LEMMA AllShifted ==
  ASSUME NEW K, NEW L, NEW s, NEW n \in Nat, Shifted(K, L)
  PROVE  /\ UsesGood(K, n + 1, s) => UsesGood(L, n, s)
         /\ AllGood(K, n + 1, s) => AllGood(L, n, s)
<1>1. ASSUME UsesGood(K, n + 1, s) PROVE UsesGood(L, n, s)
  <2> SUFFICES ASSUME NEW j \in Nat, j < n, L[j].cmd \in Uses PROVE Good(L, j, s)
    BY DEF UsesGood
  <2>1. j + 1 \in Nat /\ j + 1 < n + 1 /\ L[j] = K[j + 1]
    BY SMT DEF Shifted
  <2>2. Good(K, j + 1, s)
    BY <1>1, <2>1 DEF UsesGood
  <2> QED BY <2>2, GoodShifted
<1> QED BY <1>1, GoodShifted DEF AllGood

(* The request that the server was asked is done.                            *)
LEMMA AllDone ==
  ASSUME NEW K, NEW L, NEW s, NEW t, NEW n \in Nat \ {0},
         Done(s, K[0], t), L[0] = Nothing, \A k \in Nat \ {0} : L[k] = K[k],
         s.chips \in Nat, t.chips \in Nat, K[0].sid \in Nat
  PROVE  /\ UsesGood(K, n, s) => UsesGood(L, n, t)
         /\ AllGood(K, n, s) => AllGood(L, n, t)
<1>1. Harmless(L[0]) /\ L[0].cmd \notin Uses
  BY DEF Harmless, Uses, Nothing, Plain, Request
<1>2. ASSUME UsesGood(K, n, s) PROVE UsesGood(L, n, t)
  <2> SUFFICES ASSUME NEW j \in Nat, j < n, L[j].cmd \in Uses PROVE Good(L, j, t)
    BY DEF UsesGood
  <2>1. j \in Nat \ {0} /\ L[j] = K[j]
    BY <1>1, SMT
  <2>2. Good(K, j, s)
    BY <1>2, <2>1 DEF UsesGood
  <2> QED BY <1>1, <2>1, <2>2, GoodDone
<1> QED BY <1>1, <1>2, GoodDone DEF AllGood

(* A step that leaves what is pending and the server alone.                  *)
LEMMA SetupSame ==
  ASSUME SetupInv, UNCHANGED <<queue, todo, server>>, Current' = Current, Live' => Live
  PROVE  SetupInv'
BY DEF SetupInv, Pending

(* A request is taken: all moves up, or is refused for a chip the server lacks. *)
LEMMA SetupTake ==
  ASSUME Typed, Shaped(todo), SetupInv, Limited, Take, Typed'
  PROVE  SetupInv'
<1>0. Shapes
  BY ShapesAre
<1>1. /\ queue # << >> /\ queue' = Tail(queue) /\ todo' = todo /\ server' = server
      /\ Live /\ sender.at = "Idle" /\ Current = Nothing
  BY <1>0 DEF Take, Live, linkVars, Current
<1> DEFINE n == Len(queue)
           m == Len(queue) + Len(todo)
           K == Pending
           h == Head(queue)
           M == PendingOf(h, Tail(queue), todo)
           L == Pending'
<1>2. /\ h \in Requests /\ queue' \in Seq(Requests)
      /\ n \in Nat \ {0} /\ Len(queue') = n - 1 /\ Len(todo) \in Nat
  BY <1>0, <1>1, FirstIs DEF Shapes
<1>3. K = PendingOf(Nothing, queue, todo) /\ Nothing \in Requests
  BY <1>1, Members DEF Pending
<1>4. K[0] = Nothing
  BY <1>0, <1>3, PendingIs DEF Shapes
<1>5. /\ K[1] = h /\ M[0] = h
      /\ \A k \in Nat \ {0} : M[k] = K[k + 1]
  <2>1. /\ queue \in Seq(Requests) /\ todo \in Seq(TodoSteps)
    BY <1>0 DEF Shapes
  <2>2. /\ PendingOf(Nothing, queue, todo)[1] = h
        /\ M[0] = h
        /\ \A k \in Nat \ {0} : M[k] = PendingOf(Nothing, queue, todo)[k + 1]
    BY <1>1, <1>2, <1>3, <2>1, PendingTaken
  <2> HIDE DEF M, K
  <2> QED BY <1>3, <2>2
<1>6. n + 1 = Len(queue) + 1 /\ m \in Nat \ {0} /\ m + 1 = Len(queue) + Len(todo) + 1
      /\ Len(queue') + 1 = n /\ Len(queue') + Len(todo) + 1 = m
  BY <1>2, SMT
<1>7. UsesGood(K, n + 1, server) /\ (todo \notin Settling => AllGood(K, m + 1, server))
  BY <1>1 DEF SetupInv
<1> SUFFICES UsesGood(L, n, server) /\ (todo \notin Settling => AllGood(L, m, server))
  BY <1>1, <1>6 DEF SetupInv
<1> HIDE DEF K, M, n, m
<1>8. Shifted(K, M)
  <2>1. ASSUME NEW k \in Nat PROVE M[k] = K[k + 1]
    <3>1. CASE k = 0
      <4>1. k + 1 = 1
        BY <3>1, SMT
      <4> QED BY <1>5, <3>1, <4>1
    <3>2. CASE k # 0
      BY <1>5, <3>2
    <3> QED BY <3>1, <3>2
  <2> QED BY <1>4, <2>1 DEF Shifted, Harmless, Nothing, Plain, Request
<1>9. UsesGood(M, n, server) /\ (todo \notin Settling => AllGood(M, m, server))
  BY <1>2, <1>6, <1>7, <1>8, AllShifted
<1>10. CASE ~Refused(h)
  <2>1. Current' = h
    BY <1>10 DEF Take, Current
  <2>2. L = M
    BY <1>1, <2>1 DEF Pending, M
  <2> HIDE DEF L
  <2> QED BY <1>9, <2>2
<1>11. CASE Refused(h)
  <2>1. Current' = Nothing
    BY <1>1, <1>11 DEF Take, Current
  <2>2. L = PendingOf(Nothing, Tail(queue), todo)
    BY <1>1, <2>1 DEF Pending
  <2>3. /\ L[0] = Nothing
        /\ \A k \in Nat \ {0} : L[k] = M[k]
    <3>1. queue \in Seq(Requests) /\ todo \in Seq(TodoSteps)
      BY <1>0 DEF Shapes
    <3>2. /\ PendingOf(Nothing, Tail(queue), todo)[0] = Nothing
          /\ \A k \in Nat \ {0} : PendingOf(Nothing, Tail(queue), todo)[k] =
                                    PendingOf(Nothing, queue, todo)[k + 1]
      BY <1>1, <1>2, <1>3, <3>1, PendingTaken
    <3> HIDE DEF L
    <3> QED BY <1>3, <1>5, <2>2, <3>2
  <2>4. Done(server, M[0], server) /\ M[0].sid \in Nat /\ server.chips \in Nat
    <3>1. server.chips \in Nat /\ h.sid \in Nat /\ wireLimit \in Nat \ {0}
      BY <1>0, <1>2 DEF Shapes, Servers, Requests
    <3>2. ~(h.sid < server.chips)
      BY <1>1, <1>11, <3>1, SMT DEF Refused, Limited
    <3>3. h.cmd # "Count" /\ h.cmd # "Clock"
      BY <1>11 DEF Refused
    <3> QED BY <1>5, <3>1, <3>2, <3>3 DEF Done
  <2> HIDE DEF L
  <2>5. \A k \in Nat \ {0} : /\ UsesGood(M, k, server) => UsesGood(L, k, server)
                             /\ AllGood(M, k, server) => AllGood(L, k, server)
    BY <2>3, <2>4, AllDone
  <2>6. n \in Nat \ {0} /\ m \in Nat \ {0}
    BY <1>2, <1>6
  <2> QED BY <1>9, <2>5, <2>6
<1> QED BY <1>10, <1>11

(* With the link up a count is never refused: one chip every server has.      *)
LEMMA CountNotRefused ==
  ASSUME Typed, Plugged, Refuse, running
  PROVE  sender.request.cmd # "Count"
<1> SUFFICES ASSUME sender.request.cmd = "Count" PROVE FALSE
  OBVIOUS
<1>1. /\ sender.tried \in 1 .. sender.request.sid /\ sender.request.sid \in Nat
      /\ server.cap \in Nat /\ server.cap > 0 /\ LowerSteps = {}
      /\ ~(sender.tried <= server.cap)
  BY DEF Typed, Plugged, Refuse, Senders, Requests, Servers, Accepts
<1>2. 1 \notin LowerSteps /\ 1 \in Fallback
  BY <1>1, NetSenderAssumption
<1>3. ~(1 < sender.tried)
  BY <1>2 DEF LowerSteps
<1> QED BY <1>1, <1>3, SMT

(* The answer: the request is done, or the server cannot.                    *)
LEMMA SetupAnswer ==
  ASSUME Typed, Shaped(todo), Plugged, SetupInv, Accept \/ Refuse, Typed'
  PROVE  SetupInv'
<1>0. Shapes
  BY ShapesAre
<1>1. /\ queue' = queue /\ todo' = todo /\ Live' = Live
      /\ sender.at = "Answer" /\ Current = sender.request /\ \E ok : Settle(ok)
  <2>1. /\ UNCHANGED <<queueVars, linkVars, todo>> /\ sender.at = "Answer"
        /\ \E ok : Settle(ok)
    BY DEF Accept, Refuse
  <2> QED BY <2>1 DEF queueVars, linkVars, Live, Current
<1>2. Current' = Nothing
  BY <1>0, <1>1 DEF Settle, Current, Shapes, Senders
<1> DEFINE K == Pending
           L == Pending'
           n == Len(queue) + 1
           m == Len(queue) + Len(todo) + 1
<1> SUFFICES ASSUME Live
             PROVE  UsesGood(L, n, server') /\ (todo \notin Settling => AllGood(L, m, server'))
  BY <1>1 DEF SetupInv
<1>3. n \in Nat \ {0} /\ m \in Nat \ {0}
  <2>1. Len(queue) \in Nat /\ Len(todo) \in Nat
    BY <1>0 DEF Shapes
  <2> QED BY <2>1, SMT
<1>4. UsesGood(K, n, server) /\ (todo \notin Settling => AllGood(K, m, server))
  BY DEF SetupInv
<1>5. /\ K[0] = sender.request /\ L[0] = Nothing
      /\ \A k \in Nat \ {0} : L[k] = K[k]
  <2>1. K = PendingOf(sender.request, queue, todo)
    BY <1>1 DEF Pending
  <2>2. L = PendingOf(Nothing, queue, todo)
    BY <1>1, <1>2 DEF Pending
  <2> HIDE DEF K, L
  <2> QED BY <2>1, <2>2, SMT DEF PendingOf
<1>6. Done(server, sender.request, server')
  <2>1. /\ server \in Servers /\ sender.request \in Requests /\ server.chips \in Nat
        /\ sender.request.sid \in Nat /\ sender.tried \in Nat
    BY <1>0 DEF Shapes, Senders, Servers, Requests
  <2>2. CASE Accept
    <3>1. server' = Served(server, sender.request, sender.tried)
      BY <2>2 DEF Accept
    <3>2. CASE sender.request.cmd = "Count"
      <4>1. server'.chips = sender.tried /\ server'.lists = server.lists
        BY <2>1, <3>1, <3>2, ServedLeaves
      <4>2. sender.tried \in 1 .. sender.request.sid
        BY <1>1, <3>2 DEF Typed
      <4> QED BY <2>1, <3>2, <4>1, <4>2, SMT DEF Done
    <3>3. CASE sender.request.cmd # "Count"
      BY <2>1, <3>1, <3>3, ServedLeaves DEF Done
    <3> QED BY <3>2, <3>3
  <2>3. CASE Refuse
    <3>1. server' = server /\ ~Accepts(server, sender.request, sender.tried)
      BY <2>3 DEF Refuse
    <3>2. sender.request.cmd # "Count"
      BY <2>3, CountNotRefused DEF Live
    <3>3. /\ sender.request.cmd \in {"Position", "Model"} => ~(sender.request.sid < server.chips)
          /\ sender.request.cmd # "Clock"
      BY <3>1 DEF Accepts
    <3> QED BY <3>1, <3>2, <3>3 DEF Done
  <2> QED BY <2>2, <2>3
<1>7. server.chips \in Nat /\ server'.chips \in Nat /\ sender.request.sid \in Nat
  BY <1>0 DEF Typed, Shapes, Senders, Servers, Requests
<1> HIDE DEF K, L, n, m
<1> QED BY <1>3, <1>4, <1>5, <1>6, <1>7, AllDone

(* Every step keeps what is pending good.                                    *)
LEMMA SetupInit == Init => SetupInv /\ Limited /\ SetupBeforeUse
BY DEF Init, SetupInv, Limited, SetupBeforeUse, Live

(* Whatever the two threads do next.                                          *)
LEMMA SetupStep ==
  ASSUME Typed, Shaped(todo), Closed, Plugged, Limited, SetupInv, [Next]_vars,
         Typed', Shaped(todo)'
  PROVE  SetupInv'
<1>1. CASE Calls
  BY <1>1, SetupCalls
<1>2. CASE DoEnqueue
  BY <1>2, SetupEnqueue
<1>3. CASE DoSetup
  BY <1>3, SetupSetup
<1>4. CASE DoFmAgain \/ DoWait
  BY <1>4, SetupLast
<1>5. CASE DoDrop
  BY <1>5, SetupDrop
<1>6. CASE DoStop \/ DoNotify \/ DoJoin \/ DoClose \/ NoServer
  BY <1>6, ClosingIsNotLive DEF SetupInv
<1>7. CASE DoHandshake
  BY <1>7, SetupHandshake
<1>8. CASE Take
  BY <1>8, SetupTake
<1>9. CASE Accept \/ Refuse
  BY <1>9, SetupAnswer
<1>10. CASE GiveUp \/ LinkDies
  BY <1>10 DEF GiveUp, LinkDies, linkVars, SetupInv, Live
<1>11. CASE Doze \/ FallAsleep \/ Leave \/ Account
  <2>1. UNCHANGED <<queue, linkVars, todo, server>>
    BY <1>11 DEF Doze, FallAsleep, Leave, Account, queueVars
  <2>2. Current' = Current
    BY <1>11 DEF Doze, FallAsleep, Leave, Account, Typed, Senders, Current
  <2> QED BY <2>1, <2>2, SetupSame DEF linkVars, Live
<1>12. CASE Send \/ StepDown
  <2>1. UNCHANGED <<queue, linkVars, todo, server>>
    BY <1>12 DEF Send, StepDown, queueVars
  <2>2. Current' = Current
    BY <1>12 DEF Send, StepDown, Typed, Senders, Current
  <2> QED BY <2>1, <2>2, SetupSame DEF linkVars, Live
<1>13. CASE UNCHANGED vars
  <2>1. UNCHANGED <<queue, running, connected, todo, server>> /\ Current' = Current
    BY <1>13 DEF vars, queueVars, linkVars, Current
  <2> QED BY <2>1, SetupSame DEF Live
<1> QED BY <1>1, <1>2, <1>3, <1>4, <1>5, <1>6, <1>7, <1>8, <1>9, <1>10, <1>11, <1>12, <1>13
        DEF Next, Finish, Sender, Calls

(* The limit follows the server's count.                                      *)
LEMMA LimitedStep ==
  ASSUME Typed, Shaped(todo), Closed, Plugged, Limited, [Next]_vars
  PROVE  Limited'
<1>1. ASSUME UNCHANGED <<running, connected, wireLimit, server>> PROVE Limited'
  BY <1>1 DEF Limited, Live
<1>2. CASE Calls
  BY <1>1, <1>2, CallSteps DEF linkVars
<1>3. CASE DoEnqueue \/ DoSetup \/ DoFmAgain \/ DoDrop \/ DoWait
  <2>1. UNCHANGED <<linkVars, wireLimit, server>>
    BY <1>3 DEF DoEnqueue, DoSetup, DoFmAgain, DoDrop, DoWait
  <2> QED BY <1>1, <2>1 DEF linkVars
<1>4. CASE DoStop \/ DoNotify \/ DoJoin \/ DoClose \/ NoServer
  BY <1>4, ClosingIsNotLive DEF Limited
<1>5. CASE DoHandshake
  <2>1. server' \in FreshServers
    BY <1>5 DEF DoHandshake
  <2>2. server'.chips = 0
    BY <2>1, FreshServersAre
  <2> QED BY <2>2, SMT DEF Limited
<1>6. CASE Doze \/ FallAsleep \/ Leave \/ Take \/ Send \/ StepDown \/ Account
  <2>1. UNCHANGED <<linkVars, wireLimit, server>>
    BY <1>6 DEF Doze, FallAsleep, Leave, Take, Send, StepDown, Account
  <2> QED BY <1>1, <2>1 DEF linkVars
<1>7. CASE GiveUp \/ LinkDies
  BY <1>7 DEF GiveUp, LinkDies, linkVars, Limited, Live
<1>8. CASE Accept
  <2>1. /\ server \in Servers /\ sender.request \in Requests
        /\ server' = Served(server, sender.request, sender.tried)
        /\ UNCHANGED <<running, connected>>
    BY <1>8 DEF Accept, Typed, Senders, linkVars
  <2>2. CASE sender.request.cmd = "Count"
    <3>1. wireLimit' = sender.tried
      BY <1>8, <2>2 DEF Accept, Negotiated
    <3>2. server'.chips = sender.tried
      BY <2>1, <2>2, ServedLeaves
    <3> QED BY <3>1, <3>2 DEF Limited
  <2>3. CASE sender.request.cmd # "Count"
    <3>1. wireLimit' = wireLimit
      BY <1>8, <2>3 DEF Accept
    <3>2. server'.chips = server.chips
      BY <2>1, <2>3, ServedLeaves
    <3> QED BY <2>1, <3>1, <3>2 DEF Limited, Live
  <2> QED BY <2>2, <2>3
<1>9. CASE Refuse
  <2>1. CASE running
    <3>1. sender.request.cmd # "Count"
      BY <1>9, <2>1, CountNotRefused
    <3> QED BY <1>1, <1>9, <3>1 DEF Refuse, linkVars
  <2>2. CASE ~running
    BY <1>9, <2>2 DEF Refuse, linkVars, Limited, Live
  <2> QED BY <2>1, <2>2
<1>10. CASE UNCHANGED vars
  BY <1>1, <1>10 DEF vars, linkVars
<1> QED BY <1>2, <1>3, <1>4, <1>5, <1>6, <1>7, <1>8, <1>9, <1>10
        DEF Next, Finish, Sender, Calls

(* A reset or a write is only sent to a server that is ready.                 *)
LEMMA ReadyStep ==
  ASSUME Typed, Shaped(todo), Closed, SetupInv, SetupBeforeUse, [Next]_vars
  PROVE  SetupBeforeUse'
<1>0. Shapes
  BY ShapesAre
<1>1. ASSUME server' = server,
             sender'.at = "Answer" => sender.at = "Answer" /\ sender'.request = sender.request
      PROVE  SetupBeforeUse'
  BY <1>1 DEF SetupBeforeUse
<1>2. CASE Calls
  BY <1>1, <1>2, CallSteps
<1>3. CASE \/ DoEnqueue \/ DoSetup \/ DoFmAgain \/ DoDrop \/ DoWait \/ DoStop \/ DoNotify
           \/ DoJoin \/ NoServer
  <2>1. server' = server
    BY <1>3 DEF DoEnqueue, DoSetup, DoFmAgain, DoDrop, DoWait, DoStop, DoNotify, DoJoin,
                NoServer
  <2>2. sender' = sender \/ sender' = Notified \/ sender' = [sender EXCEPT !.at = "None"]
    BY <1>3 DEF DoEnqueue, DoSetup, DoFmAgain, DoDrop, DoWait, DoStop, DoNotify, DoJoin,
                NoServer
  <2>3. sender'.at = "Answer" => sender.at = "Answer" /\ sender'.request = sender.request
    BY <1>0, <2>2 DEF Notified, Shapes, Senders
  <2> QED BY <1>1, <2>1, <2>3
<1>4. CASE DoClose \/ DoHandshake
  <2>1. Closers(todo)
    BY <1>0, <1>4, ClosingEnds DEF DoClose, DoHandshake, Shapes
  <2>2. sender.at = "None"
    BY <1>4, <2>1 DEF DoClose, DoHandshake, Step, Closed
  <2>3. sender'.at # "Answer"
    BY <1>0, <1>4, <2>2 DEF DoClose, DoHandshake, Shapes, Senders
  <2> QED BY <2>3 DEF SetupBeforeUse
<1>5. CASE Send
  <2>1. /\ Live /\ Current = sender.request /\ sender'.request = sender.request
        /\ server' = server
    BY <1>0, <1>5 DEF Send, Live, Current, Shapes, Senders
  <2>2. ASSUME sender.request.cmd \in Uses PROVE Ready(server)
    <3>1. Pending[0] = sender.request
      BY <1>0, <2>1, PendingIs DEF Pending, Shapes
    <3>2. 0 \in Nat /\ 0 < Len(queue) + 1
      <4>1. Len(queue) \in Nat
        BY <1>0 DEF Shapes
      <4> QED BY <4>1, SMT
    <3>3. Good(Pending, 0, server)
      BY <2>1, <2>2, <3>1, <3>2 DEF SetupInv, UsesGood
    <3>4. server.chips \in Nat /\ server.positions \cup server.models \subseteq 0 .. server.chips - 1
      BY DEF Typed, Servers
    <3> QED BY <3>3, <3>4, GoodNow
  <2> QED BY <2>1, <2>2 DEF SetupBeforeUse, Uses, Ready
<1>6. CASE Doze \/ FallAsleep \/ Leave \/ Take \/ Account
  <2>1. sender'.at # "Answer"
    BY <1>0, <1>6 DEF Doze, FallAsleep, Leave, Take, Account, Shapes, Senders
  <2> QED BY <2>1 DEF SetupBeforeUse
<1>7. CASE GiveUp \/ Accept \/ Refuse \/ LinkDies
  <2>1. \E ok : Settle(ok)
    BY <1>7 DEF GiveUp, Accept, Refuse, LinkDies
  <2>2. sender'.at # "Answer"
    BY <1>0, <2>1 DEF Settle, Shapes, Senders
  <2> QED BY <2>2 DEF SetupBeforeUse
<1>8. CASE StepDown
  <2>1. sender'.at # "Answer"
    BY <1>0, <1>8 DEF StepDown, Shapes, Senders
  <2> QED BY <2>1 DEF SetupBeforeUse
<1>9. CASE UNCHANGED vars
  BY <1>1, <1>9 DEF vars
<1> QED BY <1>2, <1>3, <1>4, <1>5, <1>6, <1>7, <1>8, <1>9 DEF Next, Finish, Sender, Calls

----------------------------------------------------------------------------
(* FM.                                                                       *)

\* The request that switches FM on is pending, or the reset will queue it again
FmComes ==
  \/ \E i \in Nat : Pending[i].cmd = "Fm"
  \/ \E i \in 1 .. Len(todo) : todo[i].do = "FmAgain"

\* A server that takes FM has not refused it, and has it or will be asked for it
FmInv ==
  Live /\ server.takesFm =>
    /\ ~fmRefused
    /\ ~(sender.at = "Account" /\ ~sender.ok /\ sender.request.cmd = "Fm")
    /\ fmSent => server.fm \/ FmComes

(* A reset queues FM again as its last step, and no FM request before.        *)
LEMMA SettlingHasFm ==
  ASSUME NEW t \in Settling
  PROVE  /\ \A i \in 1 .. Len(t) : t[i].request.cmd # "Fm"
         /\ Head(t).do = "Drop" => \E i \in 1 .. Len(Tail(t)) : Tail(t)[i].do = "FmAgain"
<1> DEFINE d == Do("Drop")
           f == Enqueue(Plain("Flush"))
           s == Do("Setup")
           r == Enqueue(Plain("Reset"))
           a == Do("FmAgain")
<1>1. /\ d.request.cmd # "Fm" /\ f.request.cmd # "Fm" /\ s.request.cmd # "Fm"
      /\ r.request.cmd # "Fm" /\ a.request.cmd # "Fm"
      /\ d.do = "Drop" /\ f.do = "Enqueue" /\ s.do = "Setup" /\ a.do = "FmAgain"
  BY DEF Do, Enqueue, Plain, Request, Nothing
<1>2. t = << d, f, s, r, a >> \/ t = << f, s, r, a >> \/ t = << s, r, a >> \/ t = << s >>
  BY DEF Settling
<1> HIDE DEF d, f, s, r, a
<1>3. CASE t = << d, f, s, r, a >>
  <2>1. Tail(t) = << f, s, r, a >> /\ Len(t) = 5
    BY <1>3
  <2>2. Len(Tail(t)) = 4 /\ Tail(t)[4] = a /\ 4 \in 1 .. 4
    <3>1. Len(<< f, s, r, a >>) = 4 /\ << f, s, r, a >>[4] = a
      OBVIOUS
    <3>2. 4 \in 1 .. 4
      BY SMT
    <3> QED BY <2>1, <3>1, <3>2
  <2> QED BY <1>1, <1>3, <2>1, <2>2, SMT
<1>4. CASE t = << f, s, r, a >>
  BY <1>1, <1>4, SMT
<1>5. CASE t = << s, r, a >>
  BY <1>1, <1>5, SMT
<1>6. CASE t = << s >>
  BY <1>1, <1>6, SMT
<1> QED BY <1>2, <1>3, <1>4, <1>5, <1>6

(* What is in a call that is pending.                                        *)
LEMMA FmPending ==
  ASSUME NEW r \in Requests, NEW q \in Seq(Requests), NEW t \in Seq(TodoSteps),
         NEW i \in Nat, PendingOf(r, q, t)[i].cmd = "Fm"
  PROVE  i < Len(q) + 1 \/ \E k \in 1 .. Len(t) : t[k].request.cmd = "Fm" /\ i = Len(q) + k
<1> DEFINE n == Len(q)
           m == Len(t)
           k == i - n
<1>1. n \in Nat /\ m \in Nat
  OBVIOUS
<1> HIDE DEF n, m
<1>2. i < n + 1 \/ n + m < i \/ (k \in 1 .. m /\ n + k = i)
  BY <1>1, SMT
<1> HIDE DEF k
<1>3. ~(n + m < i)
  BY PendingIs DEF Nothing, Plain, Request, n, m
<1>4. ASSUME k \in 1 .. m, n + k = i PROVE t[k].request.cmd = "Fm"
  <2>1. PendingOf(r, q, t)[n + k] = t[k].request
    BY <1>4, PendingIs DEF n, m
  <2> QED BY <1>4, <2>1
<1> QED BY <1>2, <1>3, <1>4 DEF n, m

(* What is pending in front of a call stays pending.                         *)
LEMMA FmStaysPending ==
  ASSUME Shapes, queue' = queue, Current' = Current, todo' \in Seq(TodoSteps),
         NEW i \in Nat, Pending[i].cmd = "Fm", i < Len(queue) + 1
  PROVE  FmComes'
<1>1. \A k \in Nat : k < Len(queue) + 1 =>
        PendingOf(Current, queue, todo')[k] = PendingOf(Current, queue, todo)[k]
  BY PendingCalls DEF Shapes
<1>2. Pending' = PendingOf(Current, queue, todo')
  BY DEF Pending
<1>3. PendingOf(Current, queue, todo')[i].cmd = "Fm"
  BY <1>1 DEF Pending
<1> QED BY <1>2, <1>3 DEF FmComes

(* A step of a call leaves the FM request pending.                           *)
LEMMA FmCalls ==
  ASSUME Typed, Shaped(todo), FmComes, fmSent', Calls, Typed'
  PROVE  FmComes'
<1>0. Shapes
  BY ShapesAre
<1>1. /\ todo = << >> /\ queue' = queue /\ Current' = Current /\ Len(todo) = 0
      /\ todo' \in Seq(TodoSteps)
  BY CallSteps, EmptySeq DEF queueVars, Current, Typed
<1>2. PICK i \in Nat : Pending[i].cmd = "Fm"
  <2>1. ~ \E i \in 1 .. Len(todo) : todo[i].do = "FmAgain"
    BY <1>1, SMT
  <2> QED BY <2>1 DEF FmComes
<1>3. i < Len(queue) + 1
  <2>1. ~ \E k \in 1 .. Len(todo) : todo[k].request.cmd = "Fm" /\ i = Len(queue) + k
    BY <1>1, SMT
  <2> QED BY <1>0, <1>2, <2>1, FmPending DEF Pending, Shapes
<1> QED BY <1>0, <1>1, <1>2, <1>3, FmStaysPending

(* The first FM write asks for FM behind what is buffered.                    *)
LEMMA FmFirst ==
  ASSUME Typed, Shaped(todo), Calls, fmSent', ~fmSent, Typed'
  PROVE  FmComes'
<1>0. Shapes
  BY ShapesAre
<1>1. PICK c \in PacketCycles :
        todo' = << Enqueue(Request("Write", 0, c)), Enqueue(Plain("Fm")) >>
  BY CallSteps
<1>2. queue' = queue /\ Current' = Current
  BY CallSteps DEF queueVars, Current
<1>3. Len(todo') = 2 /\ todo'[2].request.cmd = "Fm"
  <2>1. Len(todo') = 2 /\ todo'[2] = Enqueue(Plain("Fm"))
    BY <1>1
  <2> QED BY <2>1 DEF Enqueue, Plain, Request
<1>4. /\ Current \in Requests /\ queue \in Seq(Requests) /\ todo' \in Seq(TodoSteps)
      /\ Len(queue) \in Nat
  BY <1>0 DEF Typed, Shapes
<1>5. PendingOf(Current, queue, todo')[Len(queue) + 2] = todo'[2].request
  <2>1. 2 \in 1 .. Len(todo')
    BY <1>3, SMT
  <2> QED BY <1>4, <2>1, PendingIs
<1>6. Len(queue) + 2 \in Nat
  BY <1>4, SMT
<1>7. Pending' = PendingOf(Current, queue, todo')
  BY <1>2 DEF Pending
<1> QED BY <1>3, <1>5, <1>6, <1>7 DEF FmComes

(* So does every other step of the emulation thread while the link is up.     *)
LEMMA FmFinish ==
  ASSUME Typed, Shaped(todo), Closed, FmComes, Typed', Live,
         fmSent, ~fmRefused,
         DoEnqueue \/ DoSetup \/ DoFmAgain \/ DoDrop \/ DoWait
  PROVE  FmComes'
<1>0. Shapes
  BY ShapesAre
<1>1. CASE DoEnqueue
  <2>1. Pending' = Pending
    <3>1. Current' = Current
      BY <1>0, <1>1 DEF DoEnqueue, Notified, Current, Shapes, Senders
    <3> QED BY <1>0, <1>1, <3>1, PendingQueued DEF DoEnqueue, Step, Pending, Shapes
  <2>2. ASSUME NEW i \in 1 .. Len(todo), todo[i].do = "FmAgain" PROVE FmComes'
    <3> DEFINE k == i - 1
    <3>1. /\ todo' = Tail(todo) /\ Head(todo).do = "Enqueue" /\ todo[1] = Head(todo)
          /\ Len(todo) \in Nat \ {0} /\ Len(Tail(todo)) = Len(todo) - 1
          /\ \A j \in 1 .. Len(Tail(todo)) : Tail(todo)[j] = todo[j + 1]
      BY <1>1, FirstIs DEF DoEnqueue, Step, Steps
    <3>2. i # 1
      BY <2>2, <3>1
    <3>3. k \in 1 .. Len(Tail(todo)) /\ k + 1 = i
      BY <3>1, <3>2, SMT
    <3> HIDE DEF k
    <3>4. todo'[k].do = "FmAgain"
      BY <2>2, <3>1, <3>3
    <3> QED BY <3>1, <3>3, <3>4 DEF FmComes
  <2> QED BY <2>1, <2>2 DEF FmComes
<1>2. CASE DoSetup
  <2>1. /\ todo \in Settling /\ Tail(todo) \in Seq(TodoSteps) /\ Simple(Tail(todo))
    BY <1>0, <1>2, SetupSettles DEF DoSetup, Shapes
  <2>2. /\ todo' = SetupSteps(sidCount, Models) \o Tail(todo) /\ sidCount \in Nat \ {0}
        /\ queue' = queue /\ Current' = Current /\ todo' \in Seq(TodoSteps)
        /\ Models \in Nat
    BY <1>0, <1>2, SetupQueues, ModelsAre DEF DoSetup, queueVars, Current, Live, Shapes
  <2>3. ASSUME NEW i \in Nat, Pending[i].cmd = "Fm" PROVE FmComes'
    <3>1. \A k \in 1 .. Len(todo) : todo[k].request.cmd # "Fm"
      BY <2>1, SettlingHasFm
    <3>2. i < Len(queue) + 1
      BY <1>0, <2>3, <3>1, FmPending DEF Pending, Shapes
    <3> QED BY <1>0, <2>2, <2>3, <3>2, FmStaysPending
  <2>4. ASSUME NEW i \in 1 .. Len(todo), todo[i].do = "FmAgain" PROVE FmComes'
    <3> DEFINE k == i - 1
               n == sidCount + Models + 2
               l == n + k
               rest == Tail(todo)
               m == Len(rest)
    <3>1. /\ Head(todo).do = "Setup" /\ todo[1] = Head(todo)
          /\ Len(todo) \in Nat \ {0} /\ m = Len(todo) - 1
          /\ \A j \in 1 .. m : rest[j] = todo[j + 1]
      BY <1>2, FirstIs DEF DoSetup, Step, Steps
    <3>2. i # 1
      BY <2>4, <3>1
    <3>3. /\ k \in 1 .. m /\ k + 1 = i /\ l \in 1 .. n + m /\ n < l /\ l - n = k
      BY <2>2, <3>1, <3>2, SMT
    <3>4. /\ Len(todo') = n + m
          /\ \A j \in 1 .. n + m : n < j => todo'[j] = rest[j - n]
      <4> DEFINE all == SetupSteps(sidCount, Models) \o rest
      <4>1. /\ Len(all) = sidCount + Models + 2 + Len(rest)
            /\ \A j \in 1 .. sidCount + Models + 2 + Len(rest) :
                 sidCount + Models + 2 < j => all[j] = rest[j - (sidCount + Models + 2)]
        <5>1. rest \in Seq(TodoSteps) /\ Simple(rest)
          BY <2>1
        <5> HIDE DEF rest, m, n, k, l
        <5> QED BY <2>2, <5>1, SetupStepsAre
      <4>2. todo' = all
        BY <2>2
      <4> HIDE DEF all, rest
      <4> QED BY <4>1, <4>2
    <3> HIDE DEF k, n, l, m, rest
    <3>5. todo'[l].do = "FmAgain"
      <4>1. todo'[l] = rest[l - n]
        BY <3>3, <3>4
      <4>2. rest[k] = todo[k + 1]
        BY <3>1, <3>3
      <4> QED BY <2>4, <3>3, <4>1, <4>2
    <3> QED BY <3>3, <3>4, <3>5 DEF FmComes
  <2> QED BY <2>3, <2>4 DEF FmComes
<1>3. CASE DoFmAgain
  <2>1. todo' = << Enqueue(Plain("Fm")) >> /\ queue' = queue /\ Current' = Current
    BY <1>3 DEF DoFmAgain, queueVars, Current, Live
  <2>2. Len(todo') = 1 /\ todo'[1].request.cmd = "Fm" /\ 1 \in 1 .. 1
    <3>1. Len(todo') = 1 /\ todo'[1] = Enqueue(Plain("Fm"))
      BY <2>1
    <3> QED BY <3>1, SMT DEF Enqueue, Plain, Request
  <2>3. Current \in Requests /\ queue \in Seq(Requests) /\ todo' \in Seq(TodoSteps)
    BY <1>0 DEF Typed, Shapes
  <2>4. PendingOf(Current, queue, todo')[Len(queue) + 1] = todo'[1].request
    BY <2>2, <2>3, PendingIs
  <2>5. Len(queue) + 1 \in Nat
    <3>1. Len(queue) \in Nat
      BY <2>3
    <3> QED BY <3>1, SMT
  <2>6. Pending' = PendingOf(Current, queue, todo')
    BY <2>1 DEF Pending
  <2> QED BY <2>2, <2>4, <2>5, <2>6 DEF FmComes
<1>4. CASE DoDrop
  <2>1. todo' = Tail(todo) /\ Head(todo).do = "Drop" /\ todo # << >>
    BY <1>4 DEF DoDrop, Step
  <2>2. ~Closers(todo)
    BY <2>1 DEF Closed, Live
  <2>3. ~Simple(todo)
    BY <1>0, <2>1, SimpleSteps DEF Shapes
  <2>4. todo \in Settling
    BY <2>2, <2>3 DEF Shaped
  <2> QED BY <2>1, <2>4, SettlingHasFm DEF FmComes
<1>5. CASE DoWait
  <2>1. /\ queue' = queue /\ Current' = Current /\ Head(todo).do = "Wait"
        /\ todo' \in Seq(TodoSteps)
    BY <1>5 DEF DoWait, Step, queueVars, Current, Typed
  <2>2. Len(todo) = 1 /\ todo[1].request = Nothing /\ todo[1] = Head(todo)
    BY <1>0, <1>5, FmAgainEnds, FirstIs DEF DoWait, Shapes, Steps
  <2>3. \A k \in 1 .. Len(todo) : k = 1
    BY <2>2, SMT
  <2>4. PICK i \in Nat : Pending[i].cmd = "Fm"
    BY <2>1, <2>2, <2>3 DEF FmComes
  <2>5. i < Len(queue) + 1
    <3>1. \A k \in 1 .. Len(todo) : todo[k].request.cmd # "Fm"
      BY <2>2, <2>3 DEF Nothing, Plain, Request
    <3> QED BY <1>0, <2>4, <3>1, FmPending DEF Pending, Shapes
  <2> QED BY <1>0, <2>1, <2>4, <2>5, FmStaysPending
<1> QED BY <1>1, <1>2, <1>3, <1>4, <1>5

(* The sender thread takes the request along, up to the server that has FM.   *)
LEMMA FmTake ==
  ASSUME Typed, Shaped(todo), FmComes, Take, Typed'
  PROVE  FmComes'
<1>0. Shapes
  BY ShapesAre
<1>1. /\ queue # << >> /\ queue' = Tail(queue) /\ todo' = todo
      /\ sender.at = "Idle" /\ Current = Nothing
  BY <1>0 DEF Take, Current
<1> SUFFICES ASSUME NEW i \in Nat, Pending[i].cmd = "Fm"
             PROVE  FmComes'
  BY <1>1 DEF FmComes
<1>2. /\ Nothing \in Requests /\ Current' \in Requests
      /\ queue \in Seq(Requests) /\ todo \in Seq(TodoSteps)
  BY <1>0, Members DEF Typed, Shapes, Current, Senders
<1>3. /\ PendingOf(Nothing, queue, todo)[1] = Head(queue)
      /\ PendingOf(Current', Tail(queue), todo)[0] = Current'
      /\ \A k \in Nat \ {0} : PendingOf(Current', Tail(queue), todo)[k] =
                                PendingOf(Nothing, queue, todo)[k + 1]
  <2>1. \A u \in Requests :
          /\ PendingOf(Nothing, queue, todo)[1] = Head(queue)
          /\ PendingOf(u, Tail(queue), todo)[0] = u
          /\ \A k \in Nat \ {0} : PendingOf(u, Tail(queue), todo)[k] =
                                    PendingOf(Nothing, queue, todo)[k + 1]
    BY <1>1, <1>2, PendingTaken
  <2> QED BY <1>2, <2>1
<1> DEFINE K == PendingOf(Nothing, queue, todo)
           L == PendingOf(Current', Tail(queue), todo)
<1>4. K[i].cmd = "Fm" /\ K[0] = Nothing
  BY <1>1, <1>2, PendingIs DEF Pending
<1>5. Pending' = L
  BY <1>1 DEF Pending
<1> HIDE DEF K, L
<1>6. i # 0
  BY <1>4 DEF Nothing, Plain, Request
<1>7. CASE i = 1
  <2>1. Head(queue).cmd = "Fm"
    BY <1>3, <1>4, <1>7 DEF K
  <2>2. ~Refused(Head(queue))
    BY <2>1 DEF Refused
  <2>3. Current' = Head(queue)
    BY <2>2 DEF Take, Current
  <2>4. L[0].cmd = "Fm" /\ 0 \in Nat
    BY <1>3, <2>1, <2>3 DEF L
  <2> QED BY <1>5, <2>4 DEF FmComes
<1>8. CASE i # 1
  <2> DEFINE k == i - 1
  <2>1. k \in Nat \ {0} /\ k + 1 = i
    BY <1>6, <1>8, SMT
  <2> HIDE DEF k
  <2>2. L[k] = K[i]
    BY <1>3, <2>1 DEF K, L
  <2> QED BY <1>4, <1>5, <2>1, <2>2 DEF FmComes
<1> QED BY <1>7, <1>8

(* The answer to another request changes nothing about FM.                    *)
LEMMA FmAnswer ==
  ASSUME Typed, Shaped(todo), FmComes, Accept \/ Refuse, sender.request.cmd # "Fm"
  PROVE  FmComes'
<1>0. Shapes
  BY ShapesAre
<1>1. /\ queue' = queue /\ todo' = todo /\ sender.at = "Answer"
  BY DEF Accept, Refuse, queueVars
<1>2. Current = sender.request
  BY <1>1 DEF Current
<1> SUFFICES ASSUME NEW i \in Nat, Pending[i].cmd = "Fm"
             PROVE  FmComes'
  BY <1>1 DEF FmComes
<1>3. Pending = PendingOf(sender.request, queue, todo) /\ Pending' = PendingOf(Current', queue, todo)
  BY <1>1, <1>2 DEF Pending
<1>4. PendingOf(sender.request, queue, todo)[0] = sender.request
  BY <1>0, PendingIs DEF Shapes, Senders
<1>5. i # 0
  BY <1>3, <1>4
<1>6. PendingOf(Current', queue, todo)[i] = PendingOf(sender.request, queue, todo)[i]
  BY <1>5 DEF PendingOf
<1> QED BY <1>3, <1>6 DEF FmComes

(* Every step keeps what is known of FM.                                      *)
LEMMA FmStep ==
  ASSUME Typed, Shaped(todo), Closed, FmInv, [Next]_vars, Typed'
  PROVE  FmInv'
<1>0. Shapes
  BY ShapesAre
<1>1. ASSUME Live, Live', UNCHANGED <<fmRefused, server>>, fmSent' => fmSent,
             sender'.at = "Account" => sender' = sender, FmComes => FmComes'
      PROVE  FmInv'
  BY <1>1 DEF FmInv
<1>2. CASE Calls
  <2> SUFFICES ASSUME Live', server'.takesFm PROVE FmInv'
    BY DEF FmInv
  <2>1. UNCHANGED <<running, connected, sender, server, fmRefused>> /\ Live
    BY <1>2, CallSteps DEF linkVars, Live
  <2>2. /\ ~fmRefused
        /\ ~(sender.at = "Account" /\ ~sender.ok /\ sender.request.cmd = "Fm")
        /\ fmSent => server.fm \/ FmComes
    BY <2>1 DEF FmInv
  <2>3. fmSent' => server.fm \/ FmComes'
    BY <1>2, <2>2, FmCalls, FmFirst
  <2> QED BY <2>1, <2>2, <2>3 DEF FmInv
<1>3. CASE DoEnqueue \/ DoSetup \/ DoFmAgain \/ DoDrop \/ DoWait
  <2> SUFFICES ASSUME Live', server'.takesFm PROVE FmInv'
    BY DEF FmInv
  <2>1. UNCHANGED <<linkVars, fmVars, server>>
    BY <1>3 DEF DoEnqueue, DoSetup, DoFmAgain, DoDrop, DoWait
  <2>2. sender' = sender \/ sender' = Notified
    BY <1>3 DEF DoEnqueue, DoSetup, DoFmAgain, DoDrop, DoWait
  <2>3. sender'.at = "Account" => sender' = sender
    BY <1>0, <2>2 DEF Notified, Shapes, Senders
  <2>4. Live
    BY <2>1 DEF linkVars, Live
  <2>5. /\ ~fmRefused
        /\ ~(sender.at = "Account" /\ ~sender.ok /\ sender.request.cmd = "Fm")
        /\ fmSent => server.fm \/ FmComes
    BY <2>1, <2>4 DEF FmInv
  <2>6. fmSent /\ FmComes => FmComes'
    BY <1>3, <2>4, <2>5, FmFinish
  <2> QED BY <2>1, <2>3, <2>5, <2>6 DEF FmInv, fmVars
<1>4. CASE DoStop \/ DoNotify \/ DoJoin \/ DoClose \/ NoServer
  BY <1>4, ClosingIsNotLive DEF FmInv
<1>5. CASE DoHandshake
  <2>1. Closers(todo)
    BY <1>0, <1>5, ClosingEnds DEF DoHandshake, Shapes
  <2>2. ~fmSent' /\ ~fmRefused'
    BY <1>5, <2>1 DEF DoHandshake, Step, Closed, fmVars
  <2>3. sender'.at = "Idle"
    BY <1>0, <1>5 DEF DoHandshake, Shapes, Senders
  <2> QED BY <2>2, <2>3 DEF FmInv
<1>6. CASE Doze \/ FallAsleep \/ Leave
  <2>1. UNCHANGED <<queue, linkVars, fmVars, todo, server>>
    BY <1>6 DEF Doze, FallAsleep, Leave, queueVars
  <2>2. Current' = Current /\ sender'.at # "Account"
    BY <1>0, <1>6 DEF Doze, FallAsleep, Leave, Shapes, Senders, Current
  <2> QED BY <2>1, <2>2 DEF FmInv, FmComes, Pending, linkVars, fmVars, Live
<1>7. CASE Send \/ StepDown
  <2>1. UNCHANGED <<queue, linkVars, fmVars, todo, server>>
    BY <1>7 DEF Send, StepDown, queueVars
  <2>2. Current' = Current /\ sender'.at # "Account"
    BY <1>0, <1>7 DEF Send, StepDown, Shapes, Senders, Current
  <2> QED BY <2>1, <2>2 DEF FmInv, FmComes, Pending, linkVars, fmVars, Live
<1>8. CASE Take
  <2>1. UNCHANGED <<linkVars, fmVars, server>> /\ sender.at = "Idle" /\ Live
    BY <1>8 DEF Take, Live
  <2>2. sender'.at # "Account"
    BY <1>8, <2>1 DEF Take
  <2>3. FmComes => FmComes'
    BY <1>8, FmTake
  <2> QED BY <2>1, <2>2, <2>3 DEF FmInv, fmVars
<1>9. CASE Accept
  <2> SUFFICES ASSUME Live', server'.takesFm PROVE FmInv'
    BY DEF FmInv
  <2>1. /\ server \in Servers /\ sender.request \in Requests
        /\ server' = Served(server, sender.request, sender.tried)
        /\ UNCHANGED <<linkVars, fmVars>> /\ Settle(TRUE)
    BY <1>0, <1>9 DEF Accept, Shapes, Senders
  <2>2. /\ server'.takesFm = server.takesFm /\ (server.fm => server'.fm)
        /\ sender.request.cmd = "Fm" => server'.fm
    <3> DEFINE s == Served(server, sender.request, sender.tried)
    <3>1. /\ s.takesFm = server.takesFm /\ (server.fm => s.fm)
          /\ sender.request.cmd = "Fm" => s.fm
      BY <2>1, ServedLeaves
    <3>2. server' = s
      BY <2>1
    <3> HIDE DEF s
    <3> QED BY <3>1, <3>2
  <2>3. Live
    BY <2>1 DEF Live, linkVars
  <2>4. ~fmRefused /\ (fmSent => server.fm \/ FmComes)
    BY <2>2, <2>3 DEF FmInv
  <2>5. sender'.ok = TRUE
    BY <1>0, <2>1 DEF Settle, Shapes, Senders
  <2>6. fmSent => server'.fm \/ FmComes'
    BY <1>9, <2>2, <2>4, FmAnswer
  <2> QED BY <2>1, <2>4, <2>5, <2>6 DEF FmInv, fmVars
<1>10. CASE Refuse
  <2> SUFFICES ASSUME Live', server'.takesFm PROVE FmInv'
    BY DEF FmInv
  <2>1. /\ UNCHANGED <<linkVars, fmVars, server>> /\ Settle(FALSE)
        /\ ~Accepts(server, sender.request, sender.tried)
    BY <1>10 DEF Refuse
  <2>2. sender.request.cmd # "Fm"
    BY <2>1 DEF Accepts
  <2>3. Live
    BY <2>1 DEF Live, linkVars
  <2>4. ~fmRefused /\ (fmSent => server.fm \/ FmComes)
    BY <2>1, <2>3 DEF FmInv
  <2>5. sender'.request = sender.request
    BY <1>0, <2>1 DEF Settle, Shapes, Senders
  <2>6. FmComes => FmComes'
    BY <1>10, <2>2, FmAnswer
  <2> QED BY <2>1, <2>2, <2>4, <2>5, <2>6 DEF FmInv, fmVars
<1>11. CASE GiveUp \/ LinkDies
  BY <1>11 DEF GiveUp, LinkDies, linkVars, FmInv, Live
<1>12. CASE Account
  <2> SUFFICES ASSUME Live', server'.takesFm PROVE FmInv'
    BY DEF FmInv
  <2>1. UNCHANGED <<queue, linkVars, fmSent, todo, server>> /\ sender.at = "Account"
    BY <1>12 DEF Account
  <2>2. Current' = Current /\ sender'.at # "Account"
    BY <1>0, <1>12 DEF Account, Shapes, Senders, Current
  <2>3. Live
    BY <2>1 DEF linkVars, Live
  <2>4. /\ ~fmRefused /\ ~(~sender.ok /\ sender.request.cmd = "Fm")
        /\ fmSent => server.fm \/ FmComes
    BY <2>1, <2>3 DEF FmInv
  <2>5. ~fmRefused'
    BY <1>12, <2>4 DEF Account
  <2>6. FmComes => FmComes'
    BY <2>1, <2>2 DEF FmComes, Pending
  <2> QED BY <2>1, <2>2, <2>4, <2>5, <2>6 DEF FmInv
<1>13. CASE UNCHANGED vars
  <2>1. UNCHANGED <<queue, linkVars, fmVars, todo, server, sender>>
    BY <1>13 DEF vars, queueVars
  <2>2. Current' = Current
    BY <2>1 DEF Current
  <2> QED BY <2>1, <2>2 DEF FmInv, FmComes, Pending, linkVars, fmVars, Live
<1> QED BY <1>2, <1>3, <1>4, <1>5, <1>6, <1>7, <1>8, <1>9, <1>10, <1>11, <1>12, <1>13
        DEF Next, Finish, Sender, Calls

----------------------------------------------------------------------------
(* The count.                                                                *)

\* The steps of the fallback that the server has room for do not go beyond m
UpTo(m, cap) == \A step \in Fallback : step <= cap => step <= m

\* What is tried for a count asked: the count, or a step when that is too much, and
\* never a step below one that there is room for
Stepped(count, tried, cap) ==
  \/ tried = count
  \/ cap < count /\ tried \in Fallback /\ tried < count /\ UpTo(tried, cap)

\* The caller's count was lowered by a negotiation that another count had overtaken
Overtook(n, count, over) ==
  over /\ n \in Fallback /\ n < count /\ count \notin Fallback

\* The caller's count is, or is what the server makes of, the count asked
Agrees(n, count, cap, over) ==
  \/ n = count
  \/ cap < count /\ n \in Fallback /\ n <= cap /\ UpTo(n, cap)
  \/ count <= cap /\ Overtook(n, count, over)

\* The last count pending is the caller's, or the server has it
NoneAfter(K, i) == \A k \in Nat : i < k => K[k].cmd # "Count"
CountComes(K, n, s, over) ==
  \/ \E i \in Nat : K[i].cmd = "Count" /\ NoneAfter(K, i) /\ Agrees(n, K[i].sid, s.cap, over)
  \/ (\A k \in Nat : K[k].cmd # "Count") /\ (n = s.chips \/ Overtook(n, s.chips, over))

\* The server has room for every count pending
Fits(K, cap) == \A i \in Nat : K[i].cmd = "Count" => K[i].sid <= cap

\* No negotiation brings the caller's count below what the server makes of it,
\* unless a count was overtaken
Covers(n, cap, over) == over \/ cap < n \/ n \in Fallback

\* While the link is up: a count can only be lowered to a count that does not agree
\* when it overtook another, the counts tried never skip one that there is room for,
\* and unless a setup is on its way the caller's count is (or will be) met
CountInv ==
  Live =>
    /\ Covers(sidCount, server.cap, overtaken) \/ Fits(Pending, server.cap)
    /\ Current.cmd = "Count" => Stepped(Current.sid, sender.tried, server.cap)
    /\ todo \notin Settling => CountComes(Pending, sidCount, server, overtaken)

(* A count that is pending in front of the call under way is one of CountsAsked. *)
LEMMA AskedIsPending ==
  ASSUME Shapes, NEW i \in Nat, i < Len(queue) + 1, Pending[i].cmd = "Count"
  PROVE  Pending[i].sid \in CountsAsked
<1> DEFINE unsettled == {queue[k] : k \in DOMAIN queue}
                          \cup (IF sender.at \in {"Asking", "Answer"} THEN {sender.request}
                                ELSE {})
<1>1. /\ Pending[0] = Current
      /\ \A k \in 1 .. Len(queue) : Pending[k] = queue[k]
  BY PendingIs DEF Pending, Shapes
<1>2. i = 0 \/ i \in 1 .. Len(queue)
  <2>1. Len(queue) \in Nat
    BY DEF Shapes
  <2> QED BY <2>1, SMT
<1>3. Pending[i] \in unsettled
  <2>1. CASE i = 0
    <3>1. Current # Nothing
      BY <1>1, <2>1 DEF Nothing, Plain, Request
    <3> QED BY <1>1, <2>1, <3>1 DEF Current
  <2>2. CASE i \in 1 .. Len(queue)
    <3>1. i \in DOMAIN queue
      BY <2>2, LenProperties DEF Shapes
    <3> QED BY <1>1, <2>2, <3>1
  <2> QED BY <1>2, <2>1, <2>2
<1>4. CountsAsked = {r.sid : r \in {r \in unsettled : r.cmd = "Count"}}
  BY DEF CountsAsked
<1> HIDE DEF unsettled
<1> QED BY <1>3, <1>4

(* What is pending behind the counts does not matter.                          *)
LEMMA CountsSame ==
  ASSUME NEW K, NEW L, NEW m \in Nat, \A k \in Nat : k < m => L[k] = K[k],
         \A k \in Nat : m <= k => L[k].cmd # "Count"
  PROVE  /\ \A cap : Fits(K, cap) => Fits(L, cap)
         /\ \A n, s, over : CountComes(K, n, s, over) /\ (\A k \in Nat : m <= k => K[k].cmd # "Count")
                        => CountComes(L, n, s, over)
<1>1. \A k \in Nat : L[k] = K[k] \/ L[k].cmd # "Count"
  <2>1. \A k \in Nat : k < m \/ m <= k
    BY SMT
  <2> QED BY <2>1
<1>2. \A cap : Fits(K, cap) => Fits(L, cap)
  BY <1>1 DEF Fits
<1>3. ASSUME NEW n, NEW s, NEW over, CountComes(K, n, s, over), \A k \in Nat : m <= k => K[k].cmd # "Count"
      PROVE  CountComes(L, n, s, over)
  <2>1. ASSUME NEW i \in Nat, K[i].cmd = "Count", NoneAfter(K, i), Agrees(n, K[i].sid, s.cap, over)
        PROVE  CountComes(L, n, s, over)
    <3>1. L[i] = K[i]
      <4>1. i < m \/ m <= i
        BY SMT
      <4> QED BY <1>3, <2>1, <4>1
    <3>2. NoneAfter(L, i)
      BY <1>1, <2>1 DEF NoneAfter
    <3> QED BY <2>1, <3>1, <3>2 DEF CountComes
  <2>2. ASSUME \A k \in Nat : K[k].cmd # "Count",
             n = s.chips \/ Overtook(n, s.chips, over)
        PROVE  CountComes(L, n, s, over)
    BY <1>1, <2>2 DEF CountComes
  <2> QED BY <1>3, <2>1, <2>2 DEF CountComes
<1> QED BY <1>2, <1>3

(* A request that is taken off the queue moves up with all the others.         *)
LEMMA CountsShifted ==
  ASSUME NEW K, NEW L, \A k \in Nat : L[k] = K[k + 1] \/
                                      (k = 0 /\ L[0].cmd # "Count" /\ K[1].cmd # "Count"),
         K[0].cmd # "Count"
  PROVE  /\ \A cap : Fits(K, cap) => Fits(L, cap)
         /\ \A n, s, over : CountComes(K, n, s, over) => CountComes(L, n, s, over)
<1>1. \A k \in Nat : k + 1 \in Nat /\ (L[k].cmd = "Count" => L[k] = K[k + 1])
  BY SMT
<1>2. \A cap : Fits(K, cap) => Fits(L, cap)
  BY <1>1 DEF Fits
<1>3. ASSUME NEW n, NEW s, NEW over, NEW i \in Nat, K[i].cmd = "Count", NoneAfter(K, i),
             Agrees(n, K[i].sid, s.cap, over)
      PROVE  CountComes(L, n, s, over)
  <2> DEFINE j == i - 1
  <2>1. i # 0
    BY <1>3
  <2>2. j \in Nat /\ j + 1 = i /\ \A k \in Nat : j < k => i < k + 1
    BY <2>1, SMT
  <2> HIDE DEF j
  <2>3. L[j] = K[i]
    BY <1>3, <2>2
  <2>4. NoneAfter(L, j)
    BY <1>1, <1>3, <2>2 DEF NoneAfter
  <2> QED BY <1>3, <2>2, <2>3, <2>4 DEF CountComes
<1>4. ASSUME NEW n, NEW s, NEW over, \A k \in Nat : K[k].cmd # "Count",
             n = s.chips \/ Overtook(n, s.chips, over)
      PROVE  CountComes(L, n, s, over)
  BY <1>1, <1>4 DEF CountComes
<1> QED BY <1>2, <1>3, <1>4 DEF CountComes

(* A reset asks for no count itself: its setup does when it comes to it.       *)
LEMMA SettlingCountsNothing == ASSUME NEW t \in Settling PROVE NoCounts(t)
<1> DEFINE d == Do("Drop")
           f == Enqueue(Plain("Flush"))
           s == Do("Setup")
           r == Enqueue(Plain("Reset"))
           a == Do("FmAgain")
<1>1. /\ d.request.cmd # "Count" /\ f.request.cmd # "Count" /\ s.request.cmd # "Count"
      /\ r.request.cmd # "Count" /\ a.request.cmd # "Count"
  BY DEF Do, Enqueue, Plain, Request, Nothing
<1>2. t = << d, f, s, r, a >> \/ t = << f, s, r, a >> \/ t = << s, r, a >> \/ t = << s >>
  BY DEF Settling
<1> HIDE DEF d, f, s, r, a
<1>3. CASE t = << d, f, s, r, a >>
  BY <1>1, <1>3, SMT DEF NoCounts
<1>4. CASE t = << f, s, r, a >>
  BY <1>1, <1>4, SMT DEF NoCounts
<1>5. CASE t = << s, r, a >>
  BY <1>1, <1>5, SMT DEF NoCounts
<1>6. CASE t = << s >>
  BY <1>1, <1>6, SMT DEF NoCounts
<1> QED BY <1>2, <1>3, <1>4, <1>5, <1>6

(* The emulation thread moves on to something that asks for no count.          *)
LEMMA CountLeft ==
  ASSUME Shapes, CountInv, Live, UNCHANGED <<queue, server>>, Current' = Current,
         Current.cmd = "Count" => sender'.tried = sender.tried,
         Covers(sidCount', server.cap, overtaken') \/ Fits(Pending, server.cap),
         todo' \in Seq(TodoSteps), NoCounts(todo'),
         todo' \notin Settling => /\ todo \notin Settling /\ NoCounts(todo)
                                  /\ sidCount' = sidCount /\ overtaken' = overtaken
  PROVE  CountInv'
<1> DEFINE K == Pending
           L == Pending'
           m == Len(queue) + 1
<1>1. /\ Current \in Requests /\ queue \in Seq(Requests) /\ todo \in Seq(TodoSteps)
      /\ m \in Nat
  <2>1. Len(queue) \in Nat
    BY DEF Shapes
  <2> QED BY <2>1, SMT DEF Shapes
<1>2. K = PendingOf(Current, queue, todo) /\ L = PendingOf(Current, queue, todo')
  BY DEF Pending
<1>3. /\ \A k \in Nat : k < m => L[k] = K[k]
      /\ \A k \in Nat : m <= k => L[k].cmd # "Count"
      /\ NoCounts(todo) => \A k \in Nat : m <= k => K[k].cmd # "Count"
  <2> DEFINE P(t) == PendingOf(Current, queue, t)
  <2>1. /\ \A k \in Nat : k < m => P(todo')[k] = P(todo)[k]
        /\ \A k \in Nat : m <= k => P(todo')[k].cmd # "Count"
    BY <1>1, PendingCalls
  <2>2. NoCounts(todo) => \A k \in Nat : m <= k => P(todo)[k].cmd # "Count"
    BY <1>1, PendingCalls
  <2> HIDE DEF K, L, m
  <2> QED BY <1>2, <2>1, <2>2
<1>4. Covers(sidCount', server.cap, overtaken') \/ Fits(K, server.cap)
  OBVIOUS
<1> HIDE DEF K, L, m
<1>5. /\ Fits(K, server.cap) => Fits(L, server.cap)
      /\ NoCounts(todo) /\ CountComes(K, sidCount, server, overtaken)
           => CountComes(L, sidCount, server, overtaken)
  BY <1>1, <1>3, CountsSame
<1>6. /\ Current.cmd = "Count" => Stepped(Current.sid, sender.tried, server.cap)
      /\ todo \notin Settling => CountComes(K, sidCount, server, overtaken)
  BY DEF CountInv, K
<1>7. todo' \notin Settling => CountComes(L, sidCount', server, overtaken')
  BY <1>5, <1>6
<1> QED BY <1>4, <1>5, <1>6, <1>7 DEF CountInv, L

(* What a call does to the count, and what it overtakes.                       *)
LEMMA CallsOvertake ==
  ASSUME Calls
  PROVE  \/ sidCount' = sidCount /\ overtaken' = overtaken
         \/ /\ overtaken' = (overtaken \/ \E asked \in CountsAsked : sidCount' < asked)
            /\ todo' = IF connected THEN << Do("Setup") >> ELSE << >>
BY DEF Calls, SetSidCount, ConfigureTune, FlushWrites, FirstFmWrite, Reset, WaitForRoom,
       Connect, Disconnect, Call

(* A new call changes the count only when it sets it up.                       *)
LEMMA CountCalls ==
  ASSUME Typed, Shaped(todo), CountInv, Calls, Typed'
  PROVE  CountInv'
<1>0. Shapes
  BY ShapesAre
<1>1. /\ todo = << >> /\ UNCHANGED <<queue, sender, server, connected, running>>
      /\ Live' = Live /\ Current' = Current
  BY CallSteps DEF queueVars, linkVars, Live, Current
<1> SUFFICES ASSUME Live PROVE CountInv'
  BY <1>1 DEF CountInv
<1>2. NoCounts(todo')
  <2>1. PacketCycles \subseteq Nat
    BY NetSenderAssumption
  <2> QED BY <2>1, CallSteps, CallsBegin, ClosingBegins, CallsCountNothing, SettlingCountsNothing
<1>3. todo' \notin Settling => sidCount' = sidCount /\ overtaken' = overtaken
  BY CallsOvertake, CallsBegin DEF Live
<1>4. todo \notin Settling /\ NoCounts(todo) /\ todo' \in Seq(TodoSteps)
  BY <1>1, SettlingSteps, CallsCountNothing DEF Typed
<1>5. sender'.tried = sender.tried
  BY <1>1
<1>6. Covers(sidCount', server.cap, overtaken') \/ Fits(Pending, server.cap)
  <2>1. CASE sidCount' = sidCount /\ overtaken' = overtaken
    BY <2>1 DEF CountInv
  <2>2. CASE overtaken' = (overtaken \/ \E asked \in CountsAsked : sidCount' < asked)
    <3> SUFFICES ASSUME ~overtaken', ~(server.cap < sidCount'),
                        NEW i \in Nat, Pending[i].cmd = "Count"
                 PROVE  Pending[i].sid <= server.cap
      BY DEF Covers, Fits
    <3>1. i < Len(queue) + 1
      <4>1. /\ Current \in Requests /\ queue \in Seq(Requests) /\ todo \in Seq(TodoSteps)
            /\ Len(queue) \in Nat
        BY <1>0 DEF Shapes
      <4>2. \A k \in Nat : Len(queue) + 1 <= k => Pending[k].cmd # "Count"
        BY <1>4, <4>1, PendingCalls DEF Pending
      <4>3. i < Len(queue) + 1 \/ Len(queue) + 1 <= i
        BY <4>1, SMT
      <4> QED BY <4>2, <4>3
    <3>2. Pending[i].sid \in CountsAsked /\ Pending[i].sid \in Nat
      BY <1>0, <3>1, AskedIsPending, PendingIs DEF Pending, Shapes, Requests
    <3>3. ~(sidCount' < Pending[i].sid)
      BY <2>2, <3>2
    <3>4. sidCount' \in Nat /\ server.cap \in Nat
      BY DEF Typed, Servers
    <3> QED BY <3>2, <3>3, <3>4, SMT
  <2> QED BY <2>1, <2>2, CallsOvertake
<1> QED BY <1>0, <1>1, <1>2, <1>3, <1>4, <1>5, <1>6, CountLeft

(* A request is queued where it was pending.                                   *)
LEMMA CountEnqueue ==
  ASSUME Typed, Shaped(todo), SetupInv, CountInv, DoEnqueue
  PROVE  CountInv'
<1>1. Pending' = Pending
  BY SetupEnqueue
<1>2. /\ Live' = Live /\ UNCHANGED <<server, sidCount, overtaken>> /\ todo' = Tail(todo)
      /\ Head(todo).do = "Enqueue"
  BY DEF DoEnqueue, Step, linkVars, callVars, Live
<1>3. Current' = Current /\ sender'.tried = sender.tried
  BY DEF DoEnqueue, Notified, Current, Typed, Senders
<1>4. todo \in Settling => todo' \in Settling
  BY <1>2, SettlingSteps
<1> QED BY <1>1, <1>2, <1>3, <1>4 DEF CountInv

(* The setup asks for the caller's count behind all that is pending.           *)
LEMMA CountSetup ==
  ASSUME Typed, Shaped(todo), CountInv, DoSetup
  PROVE  CountInv'
<1>0. Shapes
  BY ShapesAre
<1>1. /\ UNCHANGED <<queue, sender, server, sidCount>> /\ Live' = Live /\ Current' = Current
      /\ overtaken' = (overtaken /\ CountsAsked # {})
  BY DEF DoSetup, queueVars, linkVars, Live, Current
<1> SUFFICES ASSUME Live PROVE CountInv'
  BY <1>1 DEF CountInv
<1> DEFINE n == sidCount
           mods == Models
           q == Len(queue)
           K == Pending
           L == Pending'
           i == q + 1
<1>2. /\ q \in Nat /\ n \in Nat \ {0} /\ mods \in Nat
      /\ \A k \in Nat : k < q + 1 => L[k] = K[k]
      /\ \A k \in 1 .. n + mods + 2 : L[q + k] = ChipSetup(n, mods)[k]
      /\ \A k \in Nat : q + 1 + n + mods + 2 <= k => L[k].cmd # "Count"
  <2>1. connected
    BY DEF Live
  <2> HIDE DEF K, L, q, n, mods
  <2> QED BY <1>0, <2>1, SetupPending DEF K, L, q, n, mods
<1>3. \A k \in Nat : k < q + 1 /\ K[k].cmd = "Count" => K[k].sid \in CountsAsked
  BY <1>0, AskedIsPending
<1>4. server.cap \in Nat /\ n \in Nat /\ (Covers(n, server.cap, overtaken) \/ Fits(K, server.cap))
  BY DEF Typed, Servers, CountInv
<1> HIDE DEF K, L, q, n, mods
<1>5. L[i] = Request("Count", n, 0) /\ i \in Nat
  <2>1. 1 \in 1 .. n + mods + 2 /\ i \in Nat
    BY <1>2, SMT
  <2>2. L[q + 1] = ChipSetup(n, mods)[1]
    BY <1>2, <2>1
  <2> QED BY <1>2, <2>1, <2>2, ChipSetupIs
<1>6. \A k \in Nat : i < k => L[k].cmd # "Count"
  <2> SUFFICES ASSUME NEW k \in Nat, i < k PROVE L[k].cmd # "Count"
    OBVIOUS
  <2> DEFINE c == k - q
  <2>1. q + 1 + n + mods + 2 <= k \/ (c \in 1 .. n + mods + 2 /\ c # 1 /\ q + c = k)
    BY <1>2, SMT
  <2>2. ASSUME c \in 1 .. n + mods + 2, c # 1 PROVE ChipSetup(n, mods)[c].cmd # "Count"
    <3> HIDE DEF c
    <3>1. CASE c = n + mods + 2
      <4>1. ChipSetup(n, mods)[c] = Plain("Clock")
        BY <1>2, <3>1, ChipSetupIs
      <4> QED BY <4>1 DEF Plain, Request
    <3> DEFINE d == c - 2
               e == c - n - 2
    <3>2. \/ c = n + mods + 2 \/ (d \in 0 .. n - 1 /\ d + 2 = c)
          \/ (e \in 0 .. mods - 1 /\ n + e + 2 = c)
      BY <1>2, <2>2, SMT
    <3> HIDE DEF d, e
    <3>3. CASE d \in 0 .. n - 1 /\ d + 2 = c
      <4>1. ChipSetup(n, mods)[d + 2] = Request("Position", d, 0)
        BY <1>2, <3>3, ChipSetupIs
      <4> QED BY <3>3, <4>1 DEF Request
    <3>4. CASE e \in 0 .. mods - 1 /\ n + e + 2 = c
      <4>1. ChipSetup(n, mods)[n + e + 2] = Request("Model", e, 0)
        BY <1>2, <3>4, ChipSetupIs
      <4> QED BY <3>4, <4>1 DEF Request
    <3> QED BY <3>1, <3>2, <3>3, <3>4
  <2> HIDE DEF c
  <2> QED BY <1>2, <2>1, <2>2
<1>7. L[i].cmd = "Count" /\ L[i].sid = n
  BY <1>5 DEF Request
<1>8. CountComes(L, n, server, overtaken')
  BY <1>5, <1>6, <1>7 DEF CountComes, NoneAfter, Agrees
<1>9. Covers(n, server.cap, overtaken') \/ Fits(L, server.cap)
  <2> SUFFICES ASSUME ~overtaken', n <= server.cap, n \notin Fallback,
                      NEW k \in Nat, L[k].cmd = "Count"
               PROVE  L[k].sid <= server.cap
    BY <1>4, SMT DEF Covers, Fits
  <2>1. k < i \/ k = i \/ i < k
    BY <1>2, SMT
  <2>2. CASE k < i
    <3>1. L[k] = K[k]
      BY <1>2, <2>2
    <3>2. CountsAsked # {}
      BY <1>3, <2>2, <3>1
    <3>3. ~overtaken
      BY <1>1, <3>2
    <3>4. ~(server.cap < n)
      BY <1>4, SMT
    <3>5. Fits(K, server.cap)
      BY <1>4, <3>3, <3>4 DEF Covers
    <3> QED BY <3>1, <3>5 DEF Fits
  <2> QED BY <1>6, <1>7, <2>1, <2>2
<1>10. Current.cmd = "Count" => Stepped(Current.sid, sender.tried, server.cap)
  BY DEF CountInv
<1> QED BY <1>1, <1>8, <1>9, <1>10 DEF CountInv, L, n

(* The FM request and a wait ask for no count.                                 *)
LEMMA CountLast ==
  ASSUME Typed, Shaped(todo), CountInv, DoFmAgain \/ DoWait, Live, Typed'
  PROVE  CountInv'
<1>0. Shapes
  BY ShapesAre
<1>1. /\ UNCHANGED <<queue, sender, server, sidCount, overtaken>> /\ Current' = Current
  BY DEF DoFmAgain, DoWait, queueVars, callVars, Current
<1>2. /\ Len(todo) = 1 /\ Tail(todo) = << >> /\ todo # << >> /\ todo[1].request = Nothing
      /\ Head(todo).do \in {"FmAgain", "Wait"}
  BY <1>0, FmAgainEnds DEF DoFmAgain, DoWait, Step, Shapes
<1>3. todo \notin Settling
  BY <1>2, SettlingSteps
<1>4. NoCounts(todo)
  <2>1. \A k \in 1 .. Len(todo) : k = 1
    BY <1>2, SMT
  <2> QED BY <1>2, <2>1 DEF NoCounts, Nothing, Plain, Request
<1>5. NoCounts(todo') /\ todo' \in Seq(TodoSteps)
  <2>1. todo' = << >> \/ todo' = << Enqueue(Plain("Fm")) >>
    BY <1>2 DEF DoFmAgain, DoWait
  <2> QED BY <2>1, CallsCountNothing DEF Typed
<1>6. /\ Covers(sidCount', server.cap, overtaken') \/ Fits(Pending, server.cap)
      /\ sender'.tried = sender.tried
  BY <1>1 DEF CountInv
<1> QED BY <1>0, <1>1, <1>3, <1>4, <1>5, <1>6, CountLeft

(* A reset drops counts, and will set up again.                                *)
LEMMA CountDrop ==
  ASSUME Typed, Shaped(todo), Closed, CountInv, DoDrop, Live, Typed'
  PROVE  CountInv'
<1>0. Shapes
  BY ShapesAre
<1>1. /\ queue' = << >> /\ todo' = Tail(todo) /\ Head(todo).do = "Drop" /\ todo # << >>
      /\ UNCHANGED <<sender, server, sidCount, overtaken>> /\ Current' = Current
      /\ Len(<< >>) = 0
  BY EmptySeq DEF DoDrop, Step, Current, callVars
<1>2. todo' \in Settling
  <2>1. ~Closers(todo)
    BY <1>1 DEF Closed, Live
  <2>2. ~Simple(todo)
    BY <1>0, <1>1, SimpleSteps DEF Shapes
  <2>3. todo \in Settling
    BY <2>1, <2>2 DEF Shaped
  <2> QED BY <1>1, <2>3, SettlingSteps
<1>3. Fits(Pending, server.cap) => Fits(Pending', server.cap)
  <2> DEFINE L == PendingOf(Current, << >>, todo')
  <2>1. /\ Current \in Requests /\ << >> \in Seq(Requests) /\ todo' \in Seq(TodoSteps)
        /\ NoCounts(todo')
    BY <1>0, <1>2, EmptySeq, SettlingCountsNothing DEF Typed, Shapes
  <2>2. L[0] = Current
    BY <2>1, PendingIs
  <2>3. \A k \in Nat : 0 + 1 <= k => L[k].cmd # "Count"
    <3>1. \A k \in Nat : Len(<< >>) + 1 <= k => L[k].cmd # "Count"
      BY <2>1, PendingCalls
    <3> QED BY <1>1, <3>1
  <2>4. Pending[0] = Current
    BY <1>0, PendingIs DEF Pending, Shapes
  <2>5. Pending' = L
    BY <1>1 DEF Pending
  <2> HIDE DEF L
  <2>6. \A k \in Nat : k = 0 \/ 0 + 1 <= k
    BY SMT
  <2>7. ASSUME Fits(Pending, server.cap) PROVE Fits(L, server.cap)
    <3> SUFFICES ASSUME NEW k \in Nat, L[k].cmd = "Count" PROVE L[k].sid <= server.cap
      BY DEF Fits
    <3>1. k = 0
      BY <2>3, <2>6
    <3> QED BY <2>2, <2>4, <2>7, <3>1 DEF Fits
  <2> QED BY <2>5, <2>7
<1> QED BY <1>1, <1>2, <1>3 DEF CountInv

(* A new server: nothing is pending but its setup.                             *)
LEMMA CountHandshake ==
  ASSUME Typed, Shaped(todo), Closed, CountInv, DoHandshake, Typed'
  PROVE  CountInv'
<1>0. Shapes
  BY ShapesAre
<1>1. /\ todo' = << Do("Setup") >> /\ todo' \in Settling /\ sidCount' = sidCount
      /\ sender' = [sender EXCEPT !.at = "Idle"] /\ queue' = queue
  BY CallsBegin DEF DoHandshake, queueVars
<1>2. queue' = << >> /\ Len(queue') = 0
  <2>1. Closers(todo)
    BY <1>0, ClosingEnds DEF DoHandshake, Shapes
  <2> QED BY <1>1, <2>1, EmptySeq DEF Closed, DoHandshake, Step
<1>3. Current' = Nothing
  BY <1>0, <1>1 DEF Current, Shapes, Senders
<1>4. Fits(Pending', server'.cap)
  <2> DEFINE L == PendingOf(Nothing, queue', todo')
  <2>1. /\ Nothing \in Requests /\ queue' \in Seq(Requests) /\ todo' \in Seq(TodoSteps)
        /\ NoCounts(todo')
    BY <1>1, Members, SettlingCountsNothing DEF Typed
  <2>2. L[0] = Nothing
    BY <2>1, PendingIs
  <2>3. \A k \in Nat : Len(queue') + 1 <= k => L[k].cmd # "Count"
    BY <2>1, PendingCalls
  <2>4. \A k \in Nat : k = 0 \/ Len(queue') + 1 <= k
    BY <1>2, SMT
  <2>5. Pending' = L
    BY <1>3 DEF Pending
  <2> HIDE DEF L
  <2>6. L[0].cmd # "Count"
    BY <2>2 DEF Nothing, Plain, Request
  <2> QED BY <2>3, <2>4, <2>5, <2>6 DEF Fits
<1>5. Current'.cmd # "Count"
  BY <1>3 DEF Nothing, Plain, Request
<1> QED BY <1>1, <1>4, <1>5 DEF CountInv

(* A count that is taken is first tried as it was asked.                       *)
LEMMA CountTake ==
  ASSUME Typed, Shaped(todo), CountInv, Take, Typed'
  PROVE  CountInv'
<1>0. Shapes
  BY ShapesAre
<1>1. /\ queue # << >> /\ queue' = Tail(queue) /\ UNCHANGED <<todo, server, sidCount, overtaken>>
      /\ sender.at = "Idle" /\ Current = Nothing /\ Live
  BY <1>0 DEF Take, Current, linkVars, Live, callVars
<1>2. /\ Nothing \in Requests /\ Current' \in Requests
      /\ queue \in Seq(Requests) /\ todo \in Seq(TodoSteps)
  BY <1>0, Members DEF Typed, Shapes, Current, Senders
<1> DEFINE K == PendingOf(Nothing, queue, todo)
           L == PendingOf(Current', Tail(queue), todo)
<1>3. /\ K[1] = Head(queue) /\ L[0] = Current' /\ K[0] = Nothing
      /\ \A k \in Nat \ {0} : L[k] = K[k + 1]
  <2>1. \A u \in Requests :
          /\ PendingOf(Nothing, queue, todo)[1] = Head(queue)
          /\ PendingOf(u, Tail(queue), todo)[0] = u
          /\ \A k \in Nat \ {0} : PendingOf(u, Tail(queue), todo)[k] =
                                    PendingOf(Nothing, queue, todo)[k + 1]
    BY <1>1, <1>2, PendingTaken
  <2>2. PendingOf(Nothing, queue, todo)[0] = Nothing
    BY <1>2, PendingIs
  <2> QED BY <1>2, <2>1, <2>2
<1>4. Pending = K /\ Pending' = L
  BY <1>1 DEF Pending
<1> HIDE DEF K, L
<1>5. /\ Nothing.cmd # "Count"
      /\ \/ Current' = Head(queue) /\ sender'.tried = Head(queue).sid
         \/ Current' = Nothing /\ Head(queue).cmd # "Count"
  BY <1>1 DEF Take, Current, Refused, Nothing, Plain, Request
<1>6. \A k \in Nat : L[k] = K[k + 1] \/ (k = 0 /\ L[0].cmd # "Count" /\ K[1].cmd # "Count")
  <2> SUFFICES ASSUME NEW k \in Nat
               PROVE  L[k] = K[k + 1] \/ (k = 0 /\ L[0].cmd # "Count" /\ K[1].cmd # "Count")
    OBVIOUS
  <2>1. CASE k # 0
    BY <1>3, <2>1
  <2>2. CASE k = 0
    <3>1. k + 1 = 1
      BY <2>2, SMT
    <3> QED BY <1>3, <1>5, <2>2, <3>1
  <2> QED BY <2>1, <2>2
<1>7. /\ Fits(K, server.cap) => Fits(L, server.cap)
      /\ CountComes(K, sidCount, server, overtaken) => CountComes(L, sidCount, server, overtaken)
  <2>1. K[0].cmd # "Count"
    BY <1>3, <1>5
  <2> QED BY <1>6, <2>1, CountsShifted
<1>8. Current'.cmd = "Count" => sender'.tried = Current'.sid
  BY <1>5
<1> QED BY <1>1, <1>4, <1>7, <1>8 DEF CountInv, Stepped

(* The server accepts a count: the caller's comes down to it, and agrees with   *)
(* what is asked after it as well as it did.                                   *)
LEMMA CountAccepted ==
  ASSUME Typed, Shaped(todo), CountInv, Accept, Live,
         sender.request.cmd = "Count", Typed'
  PROVE  CountInv'
<1>0. Shapes
  BY ShapesAre
<1> DEFINE cap == server.cap
           asked == sender.request.sid
           tried == sender.tried
           n == sidCount
           next == sidCount'
           over == overtaken
           K == Pending
           L == Pending'
<1>1. /\ sender.at = "Answer" /\ UNCHANGED <<queue, todo, overtaken>>
      /\ Current = sender.request
      /\ Accepts(server, sender.request, tried) /\ Settle(TRUE) /\ Negotiated(TRUE)
      /\ server' = Served(server, sender.request, tried)
  BY DEF Accept, queueVars, callVars, Current
<1>2. Current' = Nothing
  BY <1>0, <1>1 DEF Settle, Current, Shapes, Senders
<1>3. /\ cap \in Nat /\ asked \in Nat /\ tried \in Nat /\ n \in Nat /\ tried \in 1 .. asked
  BY <1>0, <1>1 DEF Shapes, Typed, Senders, Servers, Requests
<1>4. server'.cap = cap /\ server'.chips = tried
  BY <1>0, <1>1, ServedLeaves DEF Shapes, Senders
<1>5. tried <= cap
  BY <1>1 DEF Accepts
<1>6. next = IF tried < asked THEN (IF n > tried THEN tried ELSE n) ELSE n
  BY <1>1 DEF Negotiated, Lower
<1>7. \/ tried = asked
      \/ cap < asked /\ tried \in Fallback /\ tried < asked /\ UpTo(tried, cap)
  BY <1>1 DEF CountInv, Stepped
<1>8. /\ K[0] = sender.request /\ L[0] = Nothing
      /\ \A k \in Nat \ {0} : L[k] = K[k]
  <2>1. K = PendingOf(sender.request, queue, todo) /\ L = PendingOf(Nothing, queue, todo)
    BY <1>1, <1>2 DEF Pending
  <2> HIDE DEF K, L
  <2> QED BY <2>1, SMT DEF PendingOf
<1>9. /\ Covers(n, cap, over) \/ Fits(K, cap)
      /\ todo \notin Settling => CountComes(K, n, server, over)
  BY DEF CountInv
<1>10. L[0].cmd # "Count" /\ Current'.cmd # "Count" /\ K[0].cmd = "Count" /\ K[0].sid = asked
  BY <1>2, <1>8 DEF Nothing, Plain, Request
<1>11. Fallback \subseteq Nat /\ overtaken' = over
  BY <1>1, NetSenderAssumption
<1> HIDE DEF cap, asked, tried, n, next, over, K, L
<1>12. next = n \/ (next = tried /\ tried < n /\ tried < asked)
  BY <1>3, <1>6, SMT
<1>13. Covers(next, cap, over) \/ Fits(L, cap)
  <2>1. CASE Fits(K, cap)
    BY <1>8, <1>10, <2>1 DEF Fits
  <2>2. CASE Covers(n, cap, over)
    <3>1. CASE next = n
      BY <2>2, <3>1
    <3>2. CASE next = tried /\ tried < asked
      <4>1. tried \in Fallback
        BY <1>3, <1>7, <3>2, SMT
      <4> QED BY <3>2, <4>1 DEF Covers
    <3> QED BY <1>12, <3>1, <3>2
  <2> QED BY <1>9, <2>1, <2>2
<1>14. ASSUME NEW i \in Nat, K[i].cmd = "Count", NoneAfter(K, i), Agrees(n, K[i].sid, cap, over)
       PROVE  CountComes(L, next, server', over)
  <2> DEFINE count == K[i].sid
  <2>1. count \in Nat
    BY <1>0, PendingIs DEF K, Pending, Shapes, Requests
  <2>2. \/ n = count
        \/ cap < count /\ n \in Fallback /\ n <= cap /\ UpTo(n, cap)
        \/ count <= cap /\ Overtook(n, count, over)
    BY <1>14 DEF Agrees
  <2>3. CASE i = 0
    <3>1. \A k \in Nat : L[k].cmd # "Count"
      <4>1. \A k \in Nat : k = 0 \/ 0 < k
        BY SMT
      <4> QED BY <1>8, <1>10, <1>14, <2>3, <4>1 DEF NoneAfter
    <3>2. next = tried \/ Overtook(next, tried, over)
      <4>1. count = asked
        BY <1>10, <2>3
      <4> HIDE DEF count
      <4>2. CASE n = count
        BY <1>3, <1>6, <4>1, <4>2, SMT
      <4>3. CASE cap < count /\ n \in Fallback /\ n <= cap /\ UpTo(n, cap)
        <5>1. tried \in Fallback /\ tried < asked /\ UpTo(tried, cap)
          BY <1>3, <1>5, <1>7, <4>1, <4>3, SMT
        <5>2. tried <= n /\ n <= tried
          BY <1>5, <4>3, <5>1 DEF UpTo
        <5> QED BY <1>3, <1>6, <5>2, SMT
      <4>4. CASE count <= cap /\ Overtook(n, count, over)
        <5>1. tried = asked
          BY <1>3, <1>7, <4>1, <4>4, SMT
        <5>2. next = n
          BY <1>3, <1>6, <5>1, SMT
        <5> QED BY <4>1, <4>4, <5>1, <5>2
      <4> QED BY <2>2, <4>2, <4>3, <4>4
    <3> QED BY <1>4, <3>1, <3>2 DEF CountComes
  <2>4. CASE i # 0
    <3>1. L[i] = K[i]
      BY <1>8, <2>4
    <3>2. NoneAfter(L, i)
      BY <1>8, <1>10, <1>14 DEF NoneAfter
    <3>3. Agrees(next, count, cap, over)
      <4>1. CASE next = n
        BY <1>14, <4>1
      <4>2. CASE next = tried /\ tried < n /\ tried < asked
        <5>1. cap < asked /\ tried \in Fallback /\ UpTo(tried, cap)
          BY <1>3, <1>7, <4>2, SMT
        <5>2. \A step \in Fallback : step <= cap => step <= tried
          BY <5>1 DEF UpTo
        <5>3. ~(n \in Fallback /\ n <= cap)
          <6>1. ~(n <= tried)
            BY <1>3, <4>2, SMT
          <6> QED BY <5>2, <6>1
        <5>4. CASE n = count
          <6>1. CASE cap < count
            BY <1>5, <4>2, <5>1, <6>1 DEF Agrees
          <6>2. CASE count <= cap
            <7>1. count \notin Fallback /\ ~(cap < n)
              BY <1>3, <5>3, <5>4, <6>2, SMT
            <7>2. ~Fits(K, cap)
              <8>1. 0 \in Nat /\ ~(asked <= cap)
                BY <1>3, <5>1, SMT
              <8> QED BY <1>10, <8>1 DEF Fits
            <7>3. over
              BY <1>9, <5>4, <7>1, <7>2 DEF Covers
            <7> QED BY <4>2, <5>1, <5>4, <6>2, <7>1, <7>3 DEF Agrees, Overtook
          <6> QED BY <1>3, <2>1, <6>1, <6>2, SMT
        <5>5. CASE cap < count /\ n \in Fallback /\ n <= cap /\ UpTo(n, cap)
          BY <5>3, <5>5
        <5>6. CASE count <= cap /\ Overtook(n, count, over)
          <6>1. n \in Fallback /\ n < count
            BY <5>6 DEF Overtook
          <6>2. n <= cap
            BY <1>3, <2>1, <5>6, <6>1, SMT
          <6> QED BY <5>3, <6>1, <6>2
        <5> QED BY <2>2, <5>4, <5>5, <5>6
      <4> QED BY <1>12, <4>1, <4>2
    <3> QED BY <1>4, <1>14, <3>1, <3>2, <3>3 DEF CountComes
  <2> QED BY <2>3, <2>4
<1>15. todo \notin Settling => CountComes(L, next, server', over)
  BY <1>9, <1>10, <1>14 DEF CountComes, cap
<1> QED BY <1>1, <1>4, <1>10, <1>11, <1>13, <1>15 DEF CountInv, L, next, cap

(* Any other answer leaves the counts alone.                                   *)
LEMMA CountAnswer ==
  ASSUME Typed, Shaped(todo), Plugged, CountInv, Accept \/ Refuse, Live,
         sender.request.cmd # "Count", Typed'
  PROVE  CountInv'
<1>0. Shapes
  BY ShapesAre
<1>1. /\ sender.at = "Answer" /\ UNCHANGED <<queue, todo, sidCount, overtaken>>
      /\ Current = sender.request /\ \E ok : Settle(ok)
  BY DEF Accept, Refuse, queueVars, callVars, Current
<1>2. Current' = Nothing
  BY <1>0, <1>1 DEF Settle, Current, Shapes, Senders
<1>3. server'.cap = server.cap /\ server'.chips = server.chips
  <2>1. server' = server \/ server' = Served(server, sender.request, sender.tried)
    BY DEF Accept, Refuse
  <2>2. server \in Servers /\ sender.request \in Requests
    BY <1>0 DEF Shapes, Senders
  <2> QED BY <2>1, <2>2, ServedLeaves
<1> DEFINE K == Pending
           L == Pending'
<1>4. /\ K[0] = sender.request /\ L[0] = Nothing
      /\ \A k \in Nat \ {0} : L[k] = K[k]
  <2>1. K = PendingOf(sender.request, queue, todo) /\ L = PendingOf(Nothing, queue, todo)
    BY <1>1, <1>2 DEF Pending
  <2> HIDE DEF K, L
  <2> QED BY <2>1, SMT DEF PendingOf
<1>5. L[0].cmd # "Count" /\ Current'.cmd # "Count" /\ K[0].cmd # "Count"
  BY <1>2, <1>4 DEF Nothing, Plain, Request
<1>6. /\ Covers(sidCount, server.cap, overtaken) \/ Fits(K, server.cap)
      /\ todo \notin Settling => CountComes(K, sidCount, server, overtaken)
  BY DEF CountInv
<1> HIDE DEF K, L
<1>7. \A k \in Nat : L[k] = K[k] \/ (L[k].cmd # "Count" /\ K[k].cmd # "Count")
  BY <1>4, <1>5
<1>8. Fits(K, server.cap) => Fits(L, server.cap)
  BY <1>7 DEF Fits
<1>9. CountComes(K, sidCount, server, overtaken) => CountComes(L, sidCount, server', overtaken)
  <2>1. ASSUME NEW i \in Nat, K[i].cmd = "Count", NoneAfter(K, i),
               Agrees(sidCount, K[i].sid, server.cap, overtaken)
        PROVE  CountComes(L, sidCount, server', overtaken)
    <3>1. L[i] = K[i] /\ NoneAfter(L, i)
      BY <1>7, <2>1 DEF NoneAfter
    <3> QED BY <1>3, <2>1, <3>1 DEF CountComes
  <2> QED BY <1>3, <1>7, <2>1 DEF CountComes
<1> QED BY <1>1, <1>3, <1>5, <1>6, <1>8, <1>9 DEF CountInv, L

(* The next lower count does not skip a step that the server has room for.     *)
LEMMA CountLowered ==
  ASSUME Typed, Shaped(todo), CountInv, StepDown, Live
  PROVE  /\ Current.cmd = "Count"
         /\ Stepped(Current.sid, sender'.tried, server.cap)
<1>0. Shapes
  BY ShapesAre
<1> DEFINE cap == server.cap
           asked == sender.request.sid
           tried == sender.tried
           next == sender'.tried
<1>1. /\ sender.request.cmd = "Count" /\ ~(tried <= cap) /\ LowerSteps # {}
      /\ Current = sender.request /\ next = NextStep /\ sender.at = "Answer"
  BY <1>0 DEF StepDown, Accepts, Current, Shapes, Senders
<1>2. /\ cap \in Nat /\ asked \in Nat /\ tried \in 1 .. asked /\ tried \in Nat
  BY <1>0, <1>1 DEF Shapes, Typed, Senders, Servers, Requests
<1>3. /\ next \in Fallback /\ next \in Nat /\ next < tried
      /\ \A step \in LowerSteps : step <= next
  BY <1>1, <1>2, NextStepIs
<1>4. \A step \in Fallback : step < tried => step \in LowerSteps
  BY DEF LowerSteps
<1>5. Fallback \subseteq Nat
  BY NetSenderAssumption
<1> HIDE DEF cap, asked, tried, next
<1>6. cap < asked /\ next < asked
  BY <1>1, <1>2, <1>3, SMT
<1>7. UpTo(next, cap)
  <2> SUFFICES ASSUME NEW step \in Fallback, step <= cap PROVE step <= next
    BY DEF UpTo
  <2>1. step < tried
    BY <1>1, <1>2, <1>5, SMT
  <2> QED BY <1>3, <1>4, <2>1
<1> QED BY <1>1, <1>3, <1>6, <1>7 DEF Stepped, cap, asked, next

(* Every step keeps what is known of the count.                                *)
LEMMA CountStep ==
  ASSUME Typed, Shaped(todo), Closed, Plugged, SetupInv, CountInv, [Next]_vars, Typed'
  PROVE  CountInv'
<1>0. Shapes
  BY ShapesAre
<1>1. ASSUME UNCHANGED <<queue, todo, server, sidCount, overtaken>>, Current' = Current,
             Live' => Live,
             Current.cmd = "Count" => \/ sender'.tried = sender.tried
                                      \/ Stepped(Current.sid, sender'.tried, server.cap)
      PROVE  CountInv'
  BY <1>1 DEF CountInv, Pending
<1>2. ASSUME ~Live'
      PROVE  CountInv'
  BY <1>2 DEF CountInv
<1>3. CASE Calls
  BY <1>3, CountCalls
<1>4. CASE DoEnqueue
  BY <1>4, CountEnqueue
<1>5. CASE DoSetup
  BY <1>5, CountSetup
<1>6. CASE DoFmAgain \/ DoWait \/ DoDrop
  <2>1. Live' = Live
    BY <1>6 DEF DoFmAgain, DoWait, DoDrop, linkVars, Live
  <2> QED BY <1>2, <1>6, <2>1, CountLast, CountDrop
<1>7. CASE DoStop \/ DoNotify \/ DoJoin \/ DoClose \/ NoServer
  BY <1>2, <1>7, ClosingIsNotLive
<1>8. CASE DoHandshake
  BY <1>8, CountHandshake
<1>9. CASE Take
  BY <1>9, CountTake
<1>10. CASE Accept \/ Refuse
  <2>1. Live' <=> Live
    <3>1. UNCHANGED linkVars
      BY <1>10 DEF Accept, Refuse
    <3> QED BY <3>1 DEF linkVars, Live
  <2>2. CASE sender.request.cmd # "Count" /\ Live
    BY <1>10, <2>2, CountAnswer
  <2>3. CASE sender.request.cmd = "Count" /\ Live
    <3>1. Accept
      BY <1>10, <2>3, CountNotRefused DEF Live
    <3> QED BY <2>3, <3>1, CountAccepted
  <2>4. CASE ~Live
    BY <1>2, <2>1, <2>4
  <2> QED BY <2>2, <2>3, <2>4
<1>11. CASE GiveUp \/ LinkDies
  <2>1. ~Live'
    BY <1>11 DEF GiveUp, LinkDies, linkVars, Live
  <2> QED BY <1>2, <2>1
<1>12. CASE Doze \/ FallAsleep \/ Leave \/ Account \/ Send
  <2>1. /\ UNCHANGED <<queue, todo, server, sidCount, overtaken, linkVars>>
        /\ sender'.tried = sender.tried
    BY <1>0, <1>12
    DEF Doze, FallAsleep, Leave, Account, Send, queueVars, callVars, Shapes, Senders
  <2>2. Current' = Current
    BY <1>0, <1>12 DEF Doze, FallAsleep, Leave, Account, Send, Shapes, Senders, Current
  <2> QED BY <1>1, <2>1, <2>2 DEF linkVars, Live
<1>13. CASE StepDown
  <2>1. UNCHANGED <<queue, todo, server, sidCount, overtaken, linkVars>>
    BY <1>13 DEF StepDown, queueVars, callVars
  <2>2. Current' = Current /\ Live' = Live
    BY <1>0, <1>13, <2>1 DEF StepDown, Shapes, Senders, Current, linkVars, Live
  <2> QED BY <1>1, <1>2, <1>13, <2>1, <2>2, CountLowered
<1>14. CASE UNCHANGED vars
  <2>1. UNCHANGED <<queue, todo, server, sidCount, overtaken, linkVars, sender>>
    BY <1>14 DEF vars, queueVars, callVars
  <2> QED BY <1>1, <2>1 DEF linkVars, Live, Current
<1> QED BY <1>3, <1>4, <1>5, <1>6, <1>7, <1>8, <1>9, <1>10, <1>11, <1>12, <1>13, <1>14
        DEF Next, Finish, Sender, Calls

----------------------------------------------------------------------------
(* The theorems.                                                             *)

\* The inductive invariant
SenderIsSound ==
  /\ Typed /\ Shaped(todo) /\ Closed /\ Plugged
  /\ InflightExact
  /\ Limited /\ SetupInv /\ SetupBeforeUse
  /\ FmInv

(* It holds at first, and every step keeps it.                                *)
LEMMA SenderInit == Init => SenderIsSound
<1> SUFFICES ASSUME Init PROVE SenderIsSound
  OBVIOUS
<1>1. Typed /\ Shaped(todo) /\ Closed /\ Plugged
  BY TypedInit, TodoInit, ClosedInit DEF TodoOK
<1>2. InflightExact /\ FmInv
  BY DEF Init, InflightExact, FmInv, Live
<1> QED BY <1>1, <1>2, SetupInit DEF SenderIsSound

(* The parts carry each other through a step.                                 *)
LEMMA SenderStep == SenderIsSound /\ [Next]_vars => SenderIsSound'
<1> SUFFICES ASSUME SenderIsSound, [Next]_vars PROVE SenderIsSound'
  OBVIOUS
<1>1. Typed' /\ Shaped(todo)'
  BY TypedStep DEF SenderIsSound
<1>2. Closed' /\ Plugged'
  BY ClosedStep DEF SenderIsSound
<1>3. InflightExact'
  BY ExactStep DEF SenderIsSound
<1>4. SetupInv' /\ Limited' /\ SetupBeforeUse'
  BY <1>1, SetupStep, LimitedStep, ReadyStep DEF SenderIsSound
<1>5. FmInv'
  BY <1>1, FmStep DEF SenderIsSound
<1> QED BY <1>1, <1>2, <1>3, <1>4, <1>5 DEF SenderIsSound

(* So it always holds.                                                        *)
LEMMA SenderAlways == Spec => []SenderIsSound
BY SenderInit, SenderStep, PTL DEF Spec

(* The types of the proof are those of the model.                             *)
LEMMA TypedIsTyped == ASSUME Typed PROVE TypeOK
<1>1. \A r \in Requests : IsRequest(r)
  BY DEF IsRequest, Requests
<1>2. \A i \in DOMAIN queue : IsRequest(queue[i])
  <2>1. queue \in Seq(Requests)
    BY DEF Typed
  <2>2. DOMAIN queue = 1 .. Len(queue) /\ \A i \in 1 .. Len(queue) : queue[i] \in Requests
    BY <2>1, LenProperties, ElementOfSeq
  <2> QED BY <1>1, <2>2
<1>3. \A i \in DOMAIN todo : todo[i].do \in Steps /\ IsRequest(todo[i].request)
  <2>1. todo \in Seq(TodoSteps)
    BY DEF Typed
  <2>2. DOMAIN todo = 1 .. Len(todo) /\ \A i \in 1 .. Len(todo) : todo[i] \in TodoSteps
    BY <2>1, LenProperties, ElementOfSeq
  <2> QED BY <1>1, <2>2 DEF TodoSteps
<1>4. sender.at \in SenderPlaces /\ IsRequest(sender.request) /\ sender.tried \in Nat
      /\ sender.ok \in BOOLEAN
  BY <1>1 DEF Typed, Senders
<1> QED BY <1>2, <1>3, <1>4 DEF Typed, TypeOK

(* At rest nothing is pending.                                                *)
LEMMA NothingPending ==
  ASSUME Typed, Shaped(todo), AtRest
  PROVE  \A i \in Nat : Pending[i] = Nothing
<1>1. /\ Current = Nothing /\ Nothing \in Requests /\ queue \in Seq(Requests)
      /\ todo \in Seq(TodoSteps) /\ Len(queue) = 0 /\ Len(todo) = 0
  BY Members, EmptySeq DEF AtRest, Current, Typed
<1>2. /\ PendingOf(Nothing, queue, todo)[0] = Nothing
      /\ \A k \in Nat : Len(queue) + Len(todo) < k => PendingOf(Nothing, queue, todo)[k] = Nothing
  BY <1>1, PendingIs
<1>3. \A i \in Nat : i = 0 \/ Len(queue) + Len(todo) < i
  BY <1>1, SMT
<1>4. Pending = PendingOf(Nothing, queue, todo)
  BY <1>1 DEF Pending
<1> QED BY <1>2, <1>3, <1>4

(* Every part of the state has its type; a chip is only set up behind a count, *)
(* on a server that has it.                                                  *)
THEOREM SenderTypeOK == Spec => []TypeOK
<1>1. SenderIsSound => TypeOK
  BY TypedIsTyped DEF SenderIsSound
<1> QED BY <1>1, SenderAlways, PTL

(* The tune time that wait_for_room() looks at is exactly what is queued and   *)
(* what is being sent, for every server and every packet.                    *)
THEOREM InflightIsExact == Spec => []InflightExact
<1>1. SenderIsSound => InflightExact
  BY DEF SenderIsSound
<1> QED BY <1>1, SenderAlways, PTL

(* No TRY_RESET and no write meets a chip that is missing: whatever a reset    *)
(* dropped, and whatever count the server settled on.                        *)
THEOREM ChipsAreSetUpFirst == Spec => []SetupBeforeUse
<1>1. SenderIsSound => SetupBeforeUse
  BY DEF SenderIsSound
<1> QED BY <1>1, SenderAlways, PTL

(* FM that was switched on is on when both threads rest.                      *)
THEOREM FmIsNotForgotten == Spec => []FmStaysOn
<1>1. SenderIsSound => FmStaysOn
  <2> SUFFICES ASSUME SenderIsSound, AtRest, fmSent, server.takesFm PROVE server.fm
    BY DEF FmStaysOn
  <2>1. Typed /\ Shapes /\ Live /\ FmInv
    BY ShapesAre DEF SenderIsSound, AtRest, Live
  <2>2. server.fm \/ FmComes
    BY <2>1 DEF FmInv
  <2>3. Len(todo) = 0
    BY EmptySeq DEF AtRest
  <2>4. ~ \E i \in 1 .. Len(todo) : todo[i].do = "FmAgain"
    BY <2>3, SMT
  <2>5. ~ \E i \in Nat : Pending[i].cmd = "Fm"
    BY NothingPending DEF SenderIsSound, Nothing, Plain, Request
  <2> QED BY <2>2, <2>4, <2>5 DEF FmComes
<1> QED BY <1>1, SenderAlways, PTL

(* "sid_count() drops to what was accepted" (sid_netdevice.h:88), for every      *)
(* server and every fallback: when both threads rest it is the count of the      *)
(* server, unless a count that the server has room for between two of the steps  *)
(* overtook the negotiation of a larger one, which then lowered it.              *)
THEOREM CountsAreAccepted == Spec => []CountIsAccepted
<1>1. Init => SenderIsSound /\ CountInv
  BY SenderInit DEF Init, CountInv, Live
<1>2. SenderIsSound /\ CountInv /\ [Next]_vars => (SenderIsSound /\ CountInv)'
  <2> SUFFICES ASSUME SenderIsSound, CountInv, [Next]_vars PROVE SenderIsSound' /\ CountInv'
    OBVIOUS
  <2>1. SenderIsSound'
    BY SenderStep
  <2> QED BY <2>1, CountStep DEF SenderIsSound
<1>3. SenderIsSound /\ CountInv => CountIsAccepted
  <2> SUFFICES ASSUME SenderIsSound, CountInv, AtRest
               PROVE  sidCount = server.chips \/ Overtook(sidCount, server.chips, overtaken)
    BY DEF CountIsAccepted, Overtook
  <2>1. Live /\ todo \notin Settling
    BY SettlingSteps DEF AtRest, Live
  <2>2. CountComes(Pending, sidCount, server, overtaken)
    BY <2>1 DEF CountInv
  <2>3. \A i \in Nat : Pending[i].cmd # "Count"
    BY NothingPending DEF SenderIsSound, Nothing, Plain, Request
  <2> QED BY <2>2, <2>3 DEF CountComes
<1> QED BY <1>1, <1>2, <1>3, PTL DEF Spec
=============================================================================
