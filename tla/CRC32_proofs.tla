---------------------------- MODULE CRC32_proofs ----------------------------
(***************************************************************************)
(* The checksums of crc32.c, for every input: the tables are right, a CRC  *)
(* can be taken in parts, and a damaged byte changes it.                   *)
(*                                                                         *)
(* In front, what the proofs about recursive functions rest on, those of   *)
(* Bin2Page_proofs too: the provers cannot instantiate a theorem about     *)
(* every predicate, so induction is stated of a set.                       *)
(***************************************************************************)
EXTENDS CRC32, WellFoundedInduction, TLAPS

----------------------------------------------------------------------------
(* Induction, and functions that are defined by recursion                  *)

\* < on the naturals.
Less == {p \in Nat \X Nat : p[1] < p[2]}

\* There is no endless descent.
LEMMA LessIsWellFounded == IsWellFoundedOn(Less, Nat)
BY NatLessThanWellFounded DEF OpToRel, Less

\* Induction, with a set for the predicate.
LEMMA SetInduction ==
  ASSUME NEW S, S \subseteq Nat, 0 \in S, \A n \in S : n + 1 \in S
  PROVE  S = Nat
<1> DEFINE T == Nat \ S
<1>1. SUFFICES ASSUME T # {} PROVE FALSE
  OBVIOUS
<1>2. PICK x \in T : \A y \in T : ~ (<<y, x>> \in Less)
  <2>1. T \subseteq Nat
    OBVIOUS
  <2> HIDE DEF T
  <2> QED BY <1>1, <2>1, LessIsWellFounded, WFMin
<1>3. \A y \in T : ~(y < x)
  BY <1>2 DEF Less
<1>4. x # 0 /\ x \in Nat
  OBVIOUS
<1>5. x - 1 \in Nat /\ x - 1 < x /\ (x - 1) + 1 = x
  BY <1>4
<1>6. x - 1 \in S
  BY <1>3, <1>5
<1> QED BY <1>5, <1>6

\* The same, up to n.
LEMMA UpTo ==
  ASSUME NEW n \in Nat, NEW S, 0 \in S, \A i \in 1 .. n : i - 1 \in S => i \in S
  PROVE  \A i \in 0 .. n : i \in S
<1> DEFINE T == {i \in Nat : i <= n => i \in S}
<1>1. 0 \in T
  OBVIOUS
<1>2. ASSUME NEW i \in T PROVE i + 1 \in T
  <2>1. CASE i + 1 <= n
    <3>1. i \in S /\ i + 1 \in 1 .. n /\ (i + 1) - 1 = i
      BY <2>1
    <3>2. i + 1 \in S
      BY <3>1
    <3> QED BY <3>2
  <2>2. CASE ~(i + 1 <= n)
    BY <2>2
  <2> QED BY <2>1, <2>2
<1>3. T = Nat
  <2>1. T \subseteq Nat
    OBVIOUS
  <2> HIDE DEF T
  <2> QED BY <1>1, <1>2, <2>1, SetInduction
<1> QED BY <1>3

\* f is what becomes of a by the steps in G.
TakesSteps(f, a, G, n) == f[0] = a /\ \A i \in 1 .. n : f[i] = G[i][f[i - 1]]

\* Steps of type S -> S, taken one after the other from a, makes a function.
LEMMA Recursion ==
  ASSUME NEW S, NEW a \in S, NEW n \in Nat, NEW G \in [1 .. n -> [S -> S]]
  PROVE  \E f \in [0 .. n -> S] : TakesSteps(f, a, G, n)
<1> DEFINE Good(f, m) == \A i \in 0 .. m : f[i] = IF i = 0 THEN a ELSE G[i][f[i - 1]]
           T == {m \in Nat : m <= n => \E f \in [0 .. m -> S] : Good(f, m)}
<1>1. 0 \in T
  <2>1. [i \in 0 .. 0 |-> a] \in [0 .. 0 -> S] /\ Good([i \in 0 .. 0 |-> a], 0)
    OBVIOUS
  <2> QED BY <2>1
<1>2. ASSUME NEW m \in T PROVE m + 1 \in T
  <2>1. SUFFICES ASSUME m + 1 <= n PROVE \E f \in [0 .. (m + 1) -> S] : Good(f, m + 1)
    OBVIOUS
  <2>2. m \in Nat
    OBVIOUS
  <2>3. PICK f \in [0 .. m -> S] : Good(f, m)
    BY <2>1
  <2>4. G[m + 1][f[m]] \in S
    <3>1. f[m] \in S /\ m + 1 \in 1 .. n
      BY <2>1, <2>2
    <3> QED BY <3>1
  <2> DEFINE g == [i \in 0 .. (m + 1) |-> IF i <= m THEN f[i] ELSE G[m + 1][f[m]]]
  <2>5. g \in [0 .. (m + 1) -> S]
    BY <2>2, <2>4
  <2>6. ASSUME NEW i \in 0 .. (m + 1) PROVE g[i] = IF i = 0 THEN a ELSE G[i][g[i - 1]]
    <3>1. CASE i = 0
      <4>1. g[i] = f[0]
        BY <2>2, <3>1
      <4>2. 0 \in 0 .. m
        BY <2>2
      <4>3. f[0] = a
        BY <2>3, <4>2
      <4> QED BY <3>1, <4>1, <4>3
    <3>2. CASE i # 0 /\ i <= m
      <4>1. i \in 0 .. m /\ i - 1 \in 0 .. m
        BY <2>2, <3>2
      <4>2. g[i] = f[i] /\ g[i - 1] = f[i - 1]
        BY <2>2, <4>1
      <4>3. f[i] = G[i][f[i - 1]]
        BY <2>3, <3>2, <4>1
      <4> HIDE DEF g
      <4> QED BY <3>2, <4>2, <4>3
    <3>3. CASE i = m + 1
      <4>1. g[i] = G[m + 1][f[m]] /\ i - 1 = m /\ i # 0
        BY <2>2, <3>3
      <4>2. g[m] = f[m]
        BY <2>2
      <4> HIDE DEF g
      <4> QED BY <3>3, <4>1, <4>2
    <3> QED BY <2>2, <3>1, <3>2, <3>3
  <2>7. Good(g, m + 1)
    <3> HIDE DEF g
    <3> QED BY <2>6
  <2> QED BY <2>5, <2>7
<1>3. n \in T
  <2>1. T \subseteq Nat
    OBVIOUS
  <2> HIDE DEF T
  <2>2. T = Nat
    BY <1>1, <1>2, <2>1, SetInduction
  <2> QED BY <2>2
<1>4. PICK f \in [0 .. n -> S] : Good(f, n)
  BY <1>3
<1>5. 0 \in 0 .. n /\ \A i \in 1 .. n : i \in 0 .. n /\ i # 0
  OBVIOUS
<1>6. f[0] = a /\ \A i \in 1 .. n : f[i] = G[i][f[i - 1]]
  BY <1>4, <1>5
<1> QED BY <1>6 DEF TakesSteps

----------------------------------------------------------------------------
(* The checksums: words and rounds                                         *)

Words == SUBSET Places
Octets == SUBSET (0 .. 7)

\* The operations of words give words.
LEMMA WordOps ==
  /\ \A a, b \in Words : SymDiff(a, b) \in Words /\ Places \ a \in Words
  /\ \A a, n : Left(a, n) \in Words /\ Right(a, n) \in Words
  /\ \A a : LowByte(a) \in Octets
  /\ Octets \subseteq Words
BY DEF Words, Octets, SymDiff, Left, Right, Places, LowByte

\* What is where.
LEMMA Ones ==
  /\ \A a \in Words : \A i \in a : i \in Places /\ i \in Int
  /\ \A a \in Words, n \in Nat : \A i : i \in Left(a, n) <=> i \in Places /\ i - n \in a
  /\ \A a \in Words, n \in Nat : \A i : i \in Right(a, n) <=> i \in Places /\ i + n \in a
  /\ \A a, b, i : i \in SymDiff(a, b) <=> ~(i \in a <=> i \in b)
  /\ \A a, i : i \in LowByte(a) <=> i \in a /\ i \in 0 .. 7
<1>1. \A a \in Words : \A i \in a : i \in Places /\ i \in Int
  BY DEF Words, Places
<1>2. ASSUME NEW a \in Words, NEW n \in Nat, NEW i
      PROVE  i \in Left(a, n) <=> i \in Places /\ i - n \in a
  <2>1. ASSUME i \in Left(a, n) PROVE i \in Places /\ i - n \in a
    <3>1. PICK j \in a : i = j + n
      BY <2>1 DEF Left
    <3> QED BY <1>1, <2>1, <3>1 DEF Left
  <2>2. ASSUME i \in Places, i - n \in a PROVE i \in Left(a, n)
    <3>1. i = (i - n) + n
      BY <2>2 DEF Places
    <3> QED BY <2>2, <3>1 DEF Left
  <2> QED BY <2>1, <2>2
<1>3. ASSUME NEW a \in Words, NEW n \in Nat, NEW i
      PROVE  i \in Right(a, n) <=> i \in Places /\ i + n \in a
  <2>1. ASSUME i \in Right(a, n) PROVE i \in Places /\ i + n \in a
    <3>1. PICK j \in a : i = j - n
      BY <2>1 DEF Right
    <3> QED BY <1>1, <2>1, <3>1 DEF Right
  <2>2. ASSUME i \in Places, i + n \in a PROVE i \in Right(a, n)
    <3>1. i = (i + n) - n
      BY <2>2 DEF Places
    <3> QED BY <2>2, <3>1 DEF Right
  <2> QED BY <2>1, <2>2
<1> QED BY <1>1, <1>2, <1>3 DEF SymDiff, LowByte

\* The two polynomials are words.
LEMMA Polys == STM_POLY \in Words /\ IEEE_POLY \in Words
BY DEF STM_POLY, IEEE_POLY, Const, WordAt, Words, Left

\* A round makes a word of a word.
LEMMA RoundTypes == \A c \in Words : StmRound(c) \in Words /\ IeeeRound(c) \in Words
BY WordOps, Polys DEF StmRound, IeeeRound

\* The rounds are taken one after the other.
LEMMA StmRounds ==
  ASSUME NEW c \in Words, NEW n \in Nat
  PROVE  \E f \in [0 .. n -> Words] :
           /\ f[0] = c /\ \A i \in 1 .. n : f[i] = StmRound(f[i - 1])
           /\ Rounds(StmRound, c, n) = f[n]
<1> DEFINE P(f) == f = [k \in 0 .. n |-> IF k = 0 THEN c ELSE StmRound(f[k - 1])]
           after == CHOOSE f : P(f)
           G == [i \in 1 .. n |-> [x \in Words |-> StmRound(x)]]
<1>1. PICK g \in [0 .. n -> Words] : TakesSteps(g, c, G, n)
  <2>1. G \in [1 .. n -> [Words -> Words]]
    BY RoundTypes
  <2> HIDE DEF G
  <2> QED BY <2>1, Recursion
<1>2. g[0] = c /\ \A i \in 1 .. n : g[i] = StmRound(g[i - 1])
  <2>1. \A i \in 1 .. n : i - 1 \in 0 .. n
    OBVIOUS
  <2>2. \A i \in 1 .. n : G[i][g[i - 1]] = StmRound(g[i - 1])
    BY <2>1
  <2> HIDE DEF G
  <2> QED BY <1>1, <2>2 DEF TakesSteps
<1>3. P(g)
  <2>1. g = [k \in 0 .. n |-> g[k]]
    OBVIOUS
  <2>2. \A k \in 0 .. n : k # 0 => k \in 1 .. n
    OBVIOUS
  <2>3. \A k \in 0 .. n : g[k] = IF k = 0 THEN c ELSE StmRound(g[k - 1])
    BY <1>2, <2>2
  <2> QED BY <2>1, <2>3, Zenon
<1>4. P(after)
  BY <1>3
<1>5. Rounds(StmRound, c, n) = after[n]
  BY DEF Rounds, Words
<1> HIDE DEF after, G
<1>6. \A k \in 0 .. n : after[k] = g[k]
  <2> DEFINE T == {k \in 0 .. n : after[k] = g[k]}
  <2>1. 0 \in T
    BY <1>2, <1>4
  <2>2. ASSUME NEW k \in 1 .. n, k - 1 \in T PROVE k \in T
    <3>1. after[k] = StmRound(after[k - 1]) /\ g[k] = StmRound(g[k - 1])
      BY <1>2, <1>4
    <3> QED BY <2>2, <3>1
  <2> HIDE DEF T
  <2>3. \A k \in 0 .. n : k \in T
    BY <2>1, <2>2, UpTo
  <2> QED BY <2>3 DEF T
<1>7. Rounds(StmRound, c, n) = g[n]
  BY <1>5, <1>6
<1> QED BY <1>2, <1>7

\* The same of the other checksum.
LEMMA IeeeRounds ==
  ASSUME NEW c \in Words, NEW n \in Nat
  PROVE  \E f \in [0 .. n -> Words] :
           /\ f[0] = c /\ \A i \in 1 .. n : f[i] = IeeeRound(f[i - 1])
           /\ Rounds(IeeeRound, c, n) = f[n]
<1> DEFINE P(f) == f = [k \in 0 .. n |-> IF k = 0 THEN c ELSE IeeeRound(f[k - 1])]
           after == CHOOSE f : P(f)
           G == [i \in 1 .. n |-> [x \in Words |-> IeeeRound(x)]]
<1>1. PICK g \in [0 .. n -> Words] : TakesSteps(g, c, G, n)
  <2>1. G \in [1 .. n -> [Words -> Words]]
    BY RoundTypes
  <2> HIDE DEF G
  <2> QED BY <2>1, Recursion
<1>2. g[0] = c /\ \A i \in 1 .. n : g[i] = IeeeRound(g[i - 1])
  <2>1. \A i \in 1 .. n : i - 1 \in 0 .. n
    OBVIOUS
  <2>2. \A i \in 1 .. n : G[i][g[i - 1]] = IeeeRound(g[i - 1])
    BY <2>1
  <2> HIDE DEF G
  <2> QED BY <1>1, <2>2 DEF TakesSteps
<1>3. P(g)
  <2>1. g = [k \in 0 .. n |-> g[k]]
    OBVIOUS
  <2>2. \A k \in 0 .. n : k # 0 => k \in 1 .. n
    OBVIOUS
  <2>3. \A k \in 0 .. n : g[k] = IF k = 0 THEN c ELSE IeeeRound(g[k - 1])
    BY <1>2, <2>2
  <2> QED BY <2>1, <2>3, Zenon
<1>4. P(after)
  BY <1>3
<1>5. Rounds(IeeeRound, c, n) = after[n]
  BY DEF Rounds, Words
<1> HIDE DEF after, G
<1>6. \A k \in 0 .. n : after[k] = g[k]
  <2> DEFINE T == {k \in 0 .. n : after[k] = g[k]}
  <2>1. 0 \in T
    BY <1>2, <1>4
  <2>2. ASSUME NEW k \in 1 .. n, k - 1 \in T PROVE k \in T
    <3>1. after[k] = IeeeRound(after[k - 1]) /\ g[k] = IeeeRound(g[k - 1])
      BY <1>2, <1>4
    <3> QED BY <2>2, <3>1
  <2> HIDE DEF T
  <2>3. \A k \in 0 .. n : k \in T
    BY <2>1, <2>2, UpTo
  <2> QED BY <2>3 DEF T
<1>7. Rounds(IeeeRound, c, n) = g[n]
  BY <1>5, <1>6
<1> QED BY <1>2, <1>7

StmEight(c) ==
  StmRound(StmRound(StmRound(StmRound(StmRound(StmRound(StmRound(StmRound(c))))))))
IeeeEight(c) ==
  IeeeRound(IeeeRound(IeeeRound(IeeeRound(IeeeRound(IeeeRound(IeeeRound(IeeeRound(c))))))))

\* So do eight rounds.
LEMMA EightTypes == \A c \in Words : StmEight(c) \in Words /\ IeeeEight(c) \in Words
BY RoundTypes DEF StmEight, IeeeEight

\* Rounds, for the eight of a byte.
LEMMA StmEightIs == ASSUME NEW c \in Words PROVE Rounds(StmRound, c, 8) = StmEight(c)
<1>1. PICK f \in [0 .. 8 -> Words] :
        /\ f[0] = c /\ \A i \in 1 .. 8 : f[i] = StmRound(f[i - 1])
        /\ Rounds(StmRound, c, 8) = f[8]
  BY StmRounds
<1>2. /\ f[1] = StmRound(f[0]) /\ f[2] = StmRound(f[1]) /\ f[3] = StmRound(f[2])
      /\ f[4] = StmRound(f[3]) /\ f[5] = StmRound(f[4]) /\ f[6] = StmRound(f[5])
      /\ f[7] = StmRound(f[6]) /\ f[8] = StmRound(f[7])
  <2> HIDE <1>1
  <2>1. \A i \in 1 .. 8 : f[i] = StmRound(f[i - 1])
    BY <1>1
  <2> QED BY <2>1
<1> QED BY <1>1, <1>2 DEF StmEight

\* The same of the other checksum.
LEMMA IeeeEightIs == ASSUME NEW c \in Words PROVE Rounds(IeeeRound, c, 8) = IeeeEight(c)
<1>1. PICK f \in [0 .. 8 -> Words] :
        /\ f[0] = c /\ \A i \in 1 .. 8 : f[i] = IeeeRound(f[i - 1])
        /\ Rounds(IeeeRound, c, 8) = f[8]
  BY IeeeRounds
<1>2. /\ f[1] = IeeeRound(f[0]) /\ f[2] = IeeeRound(f[1]) /\ f[3] = IeeeRound(f[2])
      /\ f[4] = IeeeRound(f[3]) /\ f[5] = IeeeRound(f[4]) /\ f[6] = IeeeRound(f[5])
      /\ f[7] = IeeeRound(f[6]) /\ f[8] = IeeeRound(f[7])
  <2> HIDE <1>1
  <2>1. \A i \in 1 .. 8 : f[i] = IeeeRound(f[i - 1])
    BY <1>1
  <2> QED BY <2>1
<1> QED BY <1>1, <1>2 DEF IeeeEight

\* Thirty-two rounds are four times eight.
LEMMA StmThirtyTwo ==
  ASSUME NEW f, \A i \in 1 .. 32 : f[i] = StmRound(f[i - 1])
  PROVE  f[32] = StmEight(StmEight(StmEight(StmEight(f[0]))))
<1>1. ASSUME NEW j \in {0, 8, 16, 24} PROVE f[j + 8] = StmEight(f[j])
  <2>1. /\ f[j + 1] = StmRound(f[j]) /\ f[j + 2] = StmRound(f[j + 1])
        /\ f[j + 3] = StmRound(f[j + 2]) /\ f[j + 4] = StmRound(f[j + 3])
        /\ f[j + 5] = StmRound(f[j + 4]) /\ f[j + 6] = StmRound(f[j + 5])
        /\ f[j + 7] = StmRound(f[j + 6]) /\ f[j + 8] = StmRound(f[j + 7])
    BY <1>1
  <2> QED BY <2>1 DEF StmEight
<1>2. /\ f[8] = StmEight(f[0]) /\ f[16] = StmEight(f[8])
      /\ f[24] = StmEight(f[16]) /\ f[32] = StmEight(f[24])
  <2>1. /\ f[0 + 8] = StmEight(f[0]) /\ f[8 + 8] = StmEight(f[8])
        /\ f[16 + 8] = StmEight(f[16]) /\ f[24 + 8] = StmEight(f[24])
    BY <1>1
  <2> QED BY <2>1
<1> QED BY <1>2

\* The same of the other checksum.
LEMMA IeeeThirtyTwo ==
  ASSUME NEW f, \A i \in 1 .. 32 : f[i] = IeeeRound(f[i - 1])
  PROVE  f[32] = IeeeEight(IeeeEight(IeeeEight(IeeeEight(f[0]))))
<1>1. ASSUME NEW j \in {0, 8, 16, 24} PROVE f[j + 8] = IeeeEight(f[j])
  <2>1. /\ f[j + 1] = IeeeRound(f[j]) /\ f[j + 2] = IeeeRound(f[j + 1])
        /\ f[j + 3] = IeeeRound(f[j + 2]) /\ f[j + 4] = IeeeRound(f[j + 3])
        /\ f[j + 5] = IeeeRound(f[j + 4]) /\ f[j + 6] = IeeeRound(f[j + 5])
        /\ f[j + 7] = IeeeRound(f[j + 6]) /\ f[j + 8] = IeeeRound(f[j + 7])
    BY <1>1
  <2> QED BY <2>1 DEF IeeeEight
<1>2. /\ f[8] = IeeeEight(f[0]) /\ f[16] = IeeeEight(f[8])
      /\ f[24] = IeeeEight(f[16]) /\ f[32] = IeeeEight(f[24])
  <2>1. /\ f[0 + 8] = IeeeEight(f[0]) /\ f[8 + 8] = IeeeEight(f[8])
        /\ f[16 + 8] = IeeeEight(f[16]) /\ f[24 + 8] = IeeeEight(f[24])
    BY <1>1
  <2> QED BY <2>1
<1> QED BY <1>2

\* Rounds are linear over ^.
LEMMA ShiftsLinear ==
  ASSUME NEW a \in Words, NEW b \in Words, NEW n \in Nat
  PROVE  /\ Left(SymDiff(a, b), n) = SymDiff(Left(a, n), Left(b, n))
         /\ Right(SymDiff(a, b), n) = SymDiff(Right(a, n), Right(b, n))
         /\ LowByte(SymDiff(a, b)) = SymDiff(LowByte(a), LowByte(b))
<1>1. SymDiff(a, b) \in Words
  BY WordOps
<1>2. \A i : i \in Left(SymDiff(a, b), n) <=> i \in SymDiff(Left(a, n), Left(b, n))
  BY <1>1, Ones
<1>3. \A i : i \in Right(SymDiff(a, b), n) <=> i \in SymDiff(Right(a, n), Right(b, n))
  BY <1>1, Ones
<1>4. \A i : i \in LowByte(SymDiff(a, b)) <=> i \in SymDiff(LowByte(a), LowByte(b))
  BY Ones
<1> QED BY <1>2, <1>3, <1>4

\* ^ is associative and commutative, and its own inverse.
LEMMA Xor ==
  /\ \A a, b : SymDiff(a, b) = SymDiff(b, a)
  /\ \A a, b, c : SymDiff(SymDiff(a, b), c) = SymDiff(a, SymDiff(b, c))
  /\ \A a : SymDiff(a, a) = {} /\ SymDiff(a, {}) = a
BY DEF SymDiff

\* Two values that the polynomial is added to, or is not.
LEMMA AddedTwice ==
  ASSUME NEW u, NEW v, NEW p
  PROVE  /\ SymDiff(SymDiff(u, p), SymDiff(v, p)) = SymDiff(u, v)
         /\ SymDiff(SymDiff(u, p), v) = SymDiff(SymDiff(u, v), p)
         /\ SymDiff(u, SymDiff(v, p)) = SymDiff(SymDiff(u, v), p)
BY DEF SymDiff

\* A round of a sum is the sum of the rounds: the polynomial is added for one, both or none.
LEMMA Linear ==
  ASSUME NEW a \in Words, NEW b \in Words
  PROVE  /\ StmRound(SymDiff(a, b)) = SymDiff(StmRound(a), StmRound(b))
         /\ IeeeRound(SymDiff(a, b)) = SymDiff(IeeeRound(a), IeeeRound(b))
<1>1. \A i : i \in SymDiff(a, b) <=> ~(i \in a <=> i \in b)
  BY Ones
<1>2. StmRound(SymDiff(a, b)) = SymDiff(StmRound(a), StmRound(b))
  <2> DEFINE u == Left(a, 1)
             v == Left(b, 1)
             p == STM_POLY
  <2>1. Left(SymDiff(a, b), 1) = SymDiff(u, v)
    BY ShiftsLinear
  <2>2. /\ StmRound(SymDiff(a, b)) = IF 31 \in SymDiff(a, b) THEN SymDiff(SymDiff(u, v), p)
                                    ELSE SymDiff(u, v)
        /\ StmRound(a) = IF 31 \in a THEN SymDiff(u, p) ELSE u
        /\ StmRound(b) = IF 31 \in b THEN SymDiff(v, p) ELSE v
    BY <2>1 DEF StmRound
  <2> HIDE DEF u, v, p
  <2>4. /\ SymDiff(SymDiff(u, p), SymDiff(v, p)) = SymDiff(u, v)
        /\ SymDiff(SymDiff(u, p), v) = SymDiff(SymDiff(u, v), p)
        /\ SymDiff(u, SymDiff(v, p)) = SymDiff(SymDiff(u, v), p)
    BY AddedTwice
  <2>5. CASE 31 \in a /\ 31 \in b
    BY <1>1, <2>2, <2>4, <2>5
  <2>6. CASE 31 \in a /\ 31 \notin b
    BY <1>1, <2>2, <2>4, <2>6
  <2>7. CASE 31 \notin a /\ 31 \in b
    BY <1>1, <2>2, <2>4, <2>7
  <2>8. CASE 31 \notin a /\ 31 \notin b
    BY <1>1, <2>2, <2>8
  <2> QED BY <2>5, <2>6, <2>7, <2>8
<1>3. IeeeRound(SymDiff(a, b)) = SymDiff(IeeeRound(a), IeeeRound(b))
  <2> DEFINE u == Right(a, 1)
             v == Right(b, 1)
             p == IEEE_POLY
  <2>1. Right(SymDiff(a, b), 1) = SymDiff(u, v)
    BY ShiftsLinear
  <2>2. \A w : SymDiff(p, w) = SymDiff(w, p)
    BY Xor
  <2>3. /\ IeeeRound(SymDiff(a, b)) = IF 0 \in SymDiff(a, b) THEN SymDiff(SymDiff(u, v), p)
                                     ELSE SymDiff(u, v)
        /\ IeeeRound(a) = IF 0 \in a THEN SymDiff(u, p) ELSE u
        /\ IeeeRound(b) = IF 0 \in b THEN SymDiff(v, p) ELSE v
    BY <2>1, <2>2 DEF IeeeRound
  <2> HIDE DEF u, v, p
  <2>4. /\ SymDiff(SymDiff(u, p), SymDiff(v, p)) = SymDiff(u, v)
        /\ SymDiff(SymDiff(u, p), v) = SymDiff(SymDiff(u, v), p)
        /\ SymDiff(u, SymDiff(v, p)) = SymDiff(SymDiff(u, v), p)
    BY AddedTwice
  <2>5. CASE 0 \in a /\ 0 \in b
    BY <1>1, <2>3, <2>4, <2>5
  <2>6. CASE 0 \in a /\ 0 \notin b
    BY <1>1, <2>3, <2>4, <2>6
  <2>7. CASE 0 \notin a /\ 0 \in b
    BY <1>1, <2>3, <2>4, <2>7
  <2>8. CASE 0 \notin a /\ 0 \notin b
    BY <1>1, <2>3, <2>8
  <2> QED BY <2>5, <2>6, <2>7, <2>8
<1> QED BY <1>2, <1>3

\* So it is with eight rounds.
LEMMA EightLinear ==
  ASSUME NEW a \in Words, NEW b \in Words
  PROVE  /\ StmEight(SymDiff(a, b)) = SymDiff(StmEight(a), StmEight(b))
         /\ IeeeEight(SymDiff(a, b)) = SymDiff(IeeeEight(a), IeeeEight(b))
<1>1. StmEight(SymDiff(a, b)) = SymDiff(StmEight(a), StmEight(b))
  <2> DEFINE Two(c) == StmRound(StmRound(c))
  <2>1. \A c, d \in Words : Two(SymDiff(c, d)) = SymDiff(Two(c), Two(d)) /\ Two(c) \in Words
    BY Linear, RoundTypes, WordOps
  <2>2. \A c : StmEight(c) = Two(Two(Two(Two(c))))
    BY DEF StmEight
  <2> HIDE DEF Two
  <2>3. Two(Two(SymDiff(a, b))) = SymDiff(Two(Two(a)), Two(Two(b)))
    BY <2>1
  <2>4. Two(Two(a)) \in Words /\ Two(Two(b)) \in Words
    BY <2>1
  <2> QED BY <2>1, <2>2, <2>3, <2>4
<1>2. IeeeEight(SymDiff(a, b)) = SymDiff(IeeeEight(a), IeeeEight(b))
  <2> DEFINE Two(c) == IeeeRound(IeeeRound(c))
  <2>1. \A c, d \in Words : Two(SymDiff(c, d)) = SymDiff(Two(c), Two(d)) /\ Two(c) \in Words
    BY Linear, RoundTypes, WordOps
  <2>2. \A c : IeeeEight(c) = Two(Two(Two(Two(c))))
    BY DEF IeeeEight
  <2> HIDE DEF Two
  <2>3. Two(Two(SymDiff(a, b))) = SymDiff(Two(Two(a)), Two(Two(b)))
    BY <2>1
  <2>4. Two(Two(a)) \in Words /\ Two(Two(b)) \in Words
    BY <2>1
  <2> QED BY <2>1, <2>2, <2>3, <2>4
<1> QED BY <1>1, <1>2

\* With no one in the highest places, eight rounds are a shift.
LEMMA EightShift ==
  /\ \A a \in SUBSET (0 .. 23) : StmEight(a) = Left(a, 8)
  /\ \A a \in SUBSET (8 .. 31) : IeeeEight(a) = Right(a, 8)
<1>1. \A a \in Words : 31 \notin a => StmRound(a) = Left(a, 1)
  BY DEF StmRound
<1>2. \A a \in Words : 0 \notin a => IeeeRound(a) = Right(a, 1)
  BY DEF IeeeRound
<1>3. ASSUME NEW n \in 0 .. 7, NEW a \in SUBSET (0 .. 23)
      PROVE  StmRound(Left(a, n)) = Left(a, n + 1)
  <2>1. 31 \notin Left(a, n)
    BY DEF Left
  <2>2. Left(Left(a, n), 1) = Left(a, n + 1)
    <3>1. \A i : i \in Left(Left(a, n), 1) <=> i \in Left(a, n + 1)
      <4>1. a \in Words /\ Left(a, n) \in Words /\ n \in Nat /\ n + 1 \in Nat
        BY WordOps DEF Words, Places
      <4>2. ASSUME NEW i PROVE i \in Left(Left(a, n), 1) <=> i \in Left(a, n + 1)
        <5>1. i \in Places => (i - 1) - n = i - (n + 1) /\ i \in Int
          BY DEF Places
        <5>2. i \in Left(Left(a, n), 1) <=> i \in Places /\ i - 1 \in Places /\ (i - 1) - n \in a
          BY <4>1, Ones
        <5>3. i \in Left(a, n + 1) <=> i \in Places /\ i - (n + 1) \in a
          BY <4>1, Ones
        <5>4. i \in Places /\ i - (n + 1) \in a => i - 1 \in Places
          BY <5>1 DEF Places
        <5> QED BY <5>1, <5>2, <5>3, <5>4
      <4> QED BY <4>2
    <3> QED BY <3>1
  <2> QED BY <1>1, <2>1, <2>2, WordOps
<1>4. ASSUME NEW n \in 0 .. 7, NEW a \in SUBSET (8 .. 31)
      PROVE  IeeeRound(Right(a, n)) = Right(a, n + 1)
  <2>1. 0 \notin Right(a, n)
    BY DEF Right
  <2>2. Right(Right(a, n), 1) = Right(a, n + 1)
    <3>1. \A i : i \in Right(Right(a, n), 1) <=> i \in Right(a, n + 1)
      <4>1. a \in Words /\ Right(a, n) \in Words /\ n \in Nat /\ n + 1 \in Nat
        BY WordOps DEF Words, Places
      <4>2. ASSUME NEW i PROVE i \in Right(Right(a, n), 1) <=> i \in Right(a, n + 1)
        <5>1. i \in Places => (i + 1) + n = i + (n + 1) /\ i \in Int
          BY DEF Places
        <5>2. i \in Right(Right(a, n), 1) <=> i \in Places /\ i + 1 \in Places /\ (i + 1) + n \in a
          BY <4>1, Ones
        <5>3. i \in Right(a, n + 1) <=> i \in Places /\ i + (n + 1) \in a
          BY <4>1, Ones
        <5>4. i \in Places /\ i + (n + 1) \in a => i + 1 \in Places
          BY <5>1 DEF Places
        <5> QED BY <5>1, <5>2, <5>3, <5>4
      <4> QED BY <4>2
    <3> QED BY <3>1
  <2> QED BY <1>2, <2>1, <2>2, WordOps
<1>5. ASSUME NEW a \in SUBSET (0 .. 23) PROVE StmEight(a) = Left(a, 8)
  <2>1. a = Left(a, 0)
    <3>1. a \in Words /\ \A i \in Places : i - 0 = i
      BY DEF Words, Places
    <3>2. ASSUME NEW i PROVE i \in a <=> i \in Left(a, 0)
      <4>1. i \in Left(a, 0) <=> i \in Places /\ i - 0 \in a
        BY <3>1, Ones
      <4>2. i \in a => i \in Places
        BY <3>1 DEF Words
      <4> QED BY <3>1, <4>1, <4>2
    <3> QED BY <3>2
  <2>2. /\ StmRound(Left(a, 0)) = Left(a, 1) /\ StmRound(Left(a, 1)) = Left(a, 2)
        /\ StmRound(Left(a, 2)) = Left(a, 3) /\ StmRound(Left(a, 3)) = Left(a, 4)
        /\ StmRound(Left(a, 4)) = Left(a, 5) /\ StmRound(Left(a, 5)) = Left(a, 6)
        /\ StmRound(Left(a, 6)) = Left(a, 7) /\ StmRound(Left(a, 7)) = Left(a, 8)
    BY <1>3
  <2> QED BY <2>1, <2>2 DEF StmEight
<1>6. ASSUME NEW a \in SUBSET (8 .. 31) PROVE IeeeEight(a) = Right(a, 8)
  <2>1. a = Right(a, 0)
    <3>1. a \in Words /\ \A i \in Places : i + 0 = i
      BY DEF Words, Places
    <3>2. ASSUME NEW i PROVE i \in a <=> i \in Right(a, 0)
      <4>1. i \in Right(a, 0) <=> i \in Places /\ i + 0 \in a
        BY <3>1, Ones
      <4>2. i \in a => i \in Places
        BY <3>1 DEF Words
      <4> QED BY <3>1, <4>1, <4>2
    <3> QED BY <3>2
  <2>2. /\ IeeeRound(Right(a, 0)) = Right(a, 1) /\ IeeeRound(Right(a, 1)) = Right(a, 2)
        /\ IeeeRound(Right(a, 2)) = Right(a, 3) /\ IeeeRound(Right(a, 3)) = Right(a, 4)
        /\ IeeeRound(Right(a, 4)) = Right(a, 5) /\ IeeeRound(Right(a, 5)) = Right(a, 6)
        /\ IeeeRound(Right(a, 6)) = Right(a, 7) /\ IeeeRound(Right(a, 7)) = Right(a, 8)
    BY <1>4
  <2> QED BY <2>1, <2>2 DEF IeeeEight
<1> QED BY <1>5, <1>6

----------------------------------------------------------------------------
(* A byte from the table is eight rounds, a word from the table thirty-two *)

\* An entry of the table is eight rounds of its index.
LEMMA Tables ==
  /\ \A b \in Octets : crc32_stm_tab[b] = StmEight(Left(b, 24))
  /\ \A b \in Octets : crc32_IEEE8023_lut[b] = IeeeEight(b)
<1>1. ASSUME NEW b \in Octets PROVE crc32_stm_tab[b] = StmEight(Left(b, 24))
  <2>1. crc32_stm_tab[b] = Rounds(StmRound, Left(b, 24), 8)
    BY DEF crc32_stm_tab, Octets
  <2> QED BY <2>1, StmEightIs, WordOps
<1>2. ASSUME NEW b \in Octets PROVE crc32_IEEE8023_lut[b] = IeeeEight(b)
  <2>1. crc32_IEEE8023_lut[b] = Rounds(IeeeRound, b, 8)
    BY DEF crc32_IEEE8023_lut, Octets
  <2> QED BY <2>1, IeeeEightIs, WordOps
<1> QED BY <1>1, <1>2

\* A word is its ends.
LEMMA Split ==
  ASSUME NEW x \in Words
  PROVE  /\ x = SymDiff(Left(Right(x, 24), 24), x \cap 0 .. 23)
         /\ Left(x \cap 0 .. 23, 8) = Left(x, 8) /\ x \cap 0 .. 23 \in SUBSET (0 .. 23)
         /\ x = SymDiff(LowByte(x), x \cap 8 .. 31)
         /\ Right(x \cap 8 .. 31, 8) = Right(x, 8) /\ x \cap 8 .. 31 \in SUBSET (8 .. 31)
         /\ Right(x, 24) \in Octets
<1> DEFINE lo == x \cap 0 .. 23
           hi == x \cap 8 .. 31
<1>1. /\ lo \in Words /\ hi \in Words /\ Right(x, 24) \in Words
      /\ \A i : i \in x => i \in Places
  BY WordOps DEF Words
<1>2. \A i : i \in lo <=> i \in x /\ i \in 0 .. 23
  OBVIOUS
<1>3. \A i : i \in hi <=> i \in x /\ i \in 8 .. 31
  OBVIOUS
<1>a. lo \in SUBSET (0 .. 23) /\ hi \in SUBSET (8 .. 31)
  OBVIOUS
<1> HIDE DEF lo, hi
<1>4. ASSUME NEW i PROVE i \in x <=> i \in SymDiff(Left(Right(x, 24), 24), lo)
  <2>1. i \in Left(Right(x, 24), 24) <=> i \in Places /\ i - 24 \in Right(x, 24)
    BY <1>1, Ones
  <2>2. i - 24 \in Right(x, 24) <=> i - 24 \in Places /\ (i - 24) + 24 \in x
    BY Ones
  <2>3. i \in Places => (i - 24) + 24 = i /\ (i - 24 \in Places <=> i \notin 0 .. 23)
    BY DEF Places
  <2> QED BY <1>1, <1>2, <2>1, <2>2, <2>3, Ones
<1>5. ASSUME NEW i PROVE i \in Left(lo, 8) <=> i \in Left(x, 8)
  <2>1. /\ i \in Left(lo, 8) <=> i \in Places /\ i - 8 \in lo
        /\ i \in Left(x, 8) <=> i \in Places /\ i - 8 \in x
    BY <1>1, Ones
  <2>2. i \in Places /\ i - 8 \in Places => i - 8 \in 0 .. 23
    BY DEF Places
  <2> QED BY <1>1, <1>2, <2>1, <2>2
<1>6. ASSUME NEW i PROVE i \in x <=> i \in SymDiff(LowByte(x), hi)
  <2>1. i \in Places => (i \in 0 .. 7 <=> i \notin 8 .. 31)
    BY DEF Places
  <2> QED BY <1>1, <1>3, <2>1, Ones
<1>7. ASSUME NEW i PROVE i \in Right(hi, 8) <=> i \in Right(x, 8)
  <2>1. /\ i \in Right(hi, 8) <=> i \in Places /\ i + 8 \in hi
        /\ i \in Right(x, 8) <=> i \in Places /\ i + 8 \in x
    BY <1>1, Ones
  <2>2. i \in Places /\ i + 8 \in Places => i + 8 \in 8 .. 31
    BY DEF Places
  <2> QED BY <1>1, <1>3, <2>1, <2>2
<1>8. Right(x, 24) \in Octets
  <2>1. ASSUME NEW i \in Right(x, 24) PROVE i \in 0 .. 7
    <3>1. i \in Places /\ i + 24 \in Places
      BY <1>1, Ones
    <3> QED BY <3>1 DEF Places
  <2> QED BY <2>1 DEF Octets
<1>9. x = SymDiff(Left(Right(x, 24), 24), lo)
  BY <1>4
<1>10. x = SymDiff(LowByte(x), hi)
  BY <1>6
<1>11. Left(lo, 8) = Left(x, 8)
  BY <1>5
<1>12. Right(hi, 8) = Right(x, 8)
  BY <1>7
<1> QED BY <1>a, <1>8, <1>9, <1>10, <1>11, <1>12 DEF lo, hi

\* The highest byte of a word goes into the CRC, and the rest moves up.
LEMMA StmStep ==
  ASSUME NEW c \in Words, NEW w \in Words
  PROVE  /\ StmEight(SymDiff(c, w)) = SymDiff(StmByte(c, LowByte(Right(w, 24))), Left(w, 8))
         /\ StmByte(c, LowByte(Right(w, 24))) \in Words
<1> DEFINE x == SymDiff(c, w)
           hi == Left(Right(x, 24), 24)
           lo == x \cap 0 .. 23
           b == Right(w, 24)
<1>1. x \in Words /\ hi \in Words
  BY WordOps
<1>2. /\ x = SymDiff(hi, lo) /\ Left(lo, 8) = Left(x, 8) /\ lo \in SUBSET (0 .. 23)
      /\ Right(x, 24) \in Octets
  BY <1>1, Split
<1>3. lo \in Words
  BY <1>2 DEF Words, Places
<1>4. StmEight(x) = SymDiff(StmEight(hi), Left(x, 8))
  <2> HIDE DEF x, hi, lo
  <2>1. StmEight(SymDiff(hi, lo)) = SymDiff(StmEight(hi), StmEight(lo))
    BY <1>1, <1>3, EightLinear
  <2>2. StmEight(lo) = Left(x, 8)
    BY <1>2, EightShift
  <2> QED BY <1>2, <2>1, <2>2
<1>5. StmEight(hi) = crc32_stm_tab[Right(x, 24)]
  BY <1>2, Tables
<1>6. /\ Right(x, 24) = SymDiff(Right(c, 24), b)
      /\ Left(x, 8) = SymDiff(Left(c, 8), Left(w, 8))
  BY ShiftsLinear
<1>7. LowByte(b) = b
  <2>1. b \in Octets
    BY Split
  <2> QED BY <2>1 DEF LowByte, Octets
<1>8. StmByte(c, b) = SymDiff(Left(c, 8), StmEight(hi))
  BY <1>5, <1>6 DEF StmByte
<1>9. StmByte(c, b) \in Words
  <2>1. StmEight(hi) \in Words
    BY <1>1, EightTypes
  <2>2. Left(c, 8) \in Words
    BY WordOps
  <2>3. SymDiff(Left(c, 8), StmEight(hi)) \in Words
    BY <2>1, <2>2, WordOps
  <2> QED BY <1>8, <2>3
<1>10. SymDiff(StmEight(hi), SymDiff(Left(c, 8), Left(w, 8)))
         = SymDiff(SymDiff(Left(c, 8), StmEight(hi)), Left(w, 8))
  <2>1. \A p, q, r : SymDiff(p, SymDiff(q, r)) = SymDiff(SymDiff(q, p), r)
    BY DEF SymDiff
  <2> QED BY <2>1
<1> QED BY <1>4, <1>6, <1>7, <1>8, <1>9, <1>10

\* The lowest byte of a word goes into the CRC, and the rest moves down.
LEMMA IeeeStep ==
  ASSUME NEW c \in Words, NEW w \in Words
  PROVE  /\ IeeeEight(SymDiff(c, w)) = SymDiff(IeeeByte(c, LowByte(w)), Right(w, 8))
         /\ IeeeByte(c, LowByte(w)) \in Words
<1> DEFINE x == SymDiff(c, w)
           hi == x \cap 8 .. 31
           lo == LowByte(x)
           b == LowByte(w)
<1>1. x \in Words /\ lo \in Words /\ lo \in Octets /\ b \in Octets /\ b \in Words
  BY WordOps
<1>2. x = SymDiff(lo, hi) /\ Right(hi, 8) = Right(x, 8) /\ hi \in SUBSET (8 .. 31)
  BY <1>1, Split
<1>3. hi \in Words
  BY <1>2 DEF Words, Places
<1>4. IeeeEight(x) = SymDiff(IeeeEight(lo), Right(x, 8))
  <2> HIDE DEF x, hi, lo
  <2>1. IeeeEight(SymDiff(lo, hi)) = SymDiff(IeeeEight(lo), IeeeEight(hi))
    BY <1>1, <1>3, EightLinear
  <2>2. IeeeEight(hi) = Right(x, 8)
    BY <1>2, EightShift
  <2> QED BY <1>2, <2>1, <2>2
<1>5. IeeeEight(lo) = crc32_IEEE8023_lut[lo]
  BY <1>1, Tables
<1>6. /\ lo = SymDiff(LowByte(c), LowByte(w))
      /\ Right(x, 8) = SymDiff(Right(c, 8), Right(w, 8))
      /\ LowByte(SymDiff(c, b)) = SymDiff(LowByte(c), LowByte(b))
  BY <1>1, ShiftsLinear
<1>7. LowByte(b) = b
  BY <1>1 DEF LowByte, Octets
<1>8. IeeeByte(c, b) = SymDiff(IeeeEight(lo), Right(c, 8))
  BY <1>5, <1>6, <1>7 DEF IeeeByte
<1>9. IeeeByte(c, b) \in Words
  BY <1>1, <1>8, WordOps, EightTypes
<1>10. SymDiff(IeeeEight(lo), SymDiff(Right(c, 8), Right(w, 8)))
         = SymDiff(SymDiff(IeeeEight(lo), Right(c, 8)), Right(w, 8))
  BY Xor
<1> QED BY <1>4, <1>6, <1>8, <1>9, <1>10

\* The places of a byte in the word it is taken of.
LEMMA ByteOf ==
  ASSUME NEW a \in Words, NEW n \in Nat, NEW i \in 0 .. 7
  PROVE  i \in LowByte(Right(a, n)) <=> i + n \in a
<1>1. i \in Places
  BY DEF Places
<1>2. i \in LowByte(Right(a, n)) <=> i \in Right(a, n)
  BY Ones
<1>3. i \in Right(a, n) <=> i + n \in a
  BY <1>1, Ones
<1> QED BY <1>2, <1>3

\* Four bytes from the table, the highest first.
LEMMA StmWord ==
  ASSUME NEW c \in Words, NEW w \in Words
  PROVE  /\ crc32_stm_update_word_tbl(c, w) = StmEight(StmEight(StmEight(StmEight(SymDiff(c, w)))))
         /\ crc32_stm_update_word_tbl(c, w) \in Words
<1> DEFINE w1 == Left(w, 8)
           w2 == Left(w1, 8)
           w3 == Left(w2, 8)
           c1 == StmByte(c, LowByte(Right(w, 24)))
           c2 == StmByte(c1, LowByte(Right(w1, 24)))
           c3 == StmByte(c2, LowByte(Right(w2, 24)))
           c4 == StmByte(c3, LowByte(Right(w3, 24)))
<1>1. w1 \in Words /\ w2 \in Words /\ w3 \in Words
  BY WordOps
<1>2. StmEight(SymDiff(c, w)) = SymDiff(c1, w1) /\ c1 \in Words
  BY StmStep
<1>3. StmEight(SymDiff(c1, w1)) = SymDiff(c2, w2) /\ c2 \in Words
  <2> HIDE DEF w1, c1
  <2> QED BY <1>1, <1>2, StmStep
<1>4. StmEight(SymDiff(c2, w2)) = SymDiff(c3, w3) /\ c3 \in Words
  <2> HIDE DEF w2, c2
  <2> QED BY <1>1, <1>3, StmStep
<1>5. StmEight(SymDiff(c3, w3)) = SymDiff(c4, Left(w3, 8)) /\ c4 \in Words
  <2> HIDE DEF w3, c3
  <2> QED BY <1>1, <1>4, StmStep
<1>6. \A i : i \in Words => (i = {} => SymDiff(c4, i) = c4)
  BY DEF SymDiff
<1>7. Left(w3, 8) = {}
  <2>1. ASSUME NEW i \in Left(w3, 8) PROVE FALSE
    <3>1. i \in Places /\ i - 8 \in w3
      BY <1>1, <2>1, Ones
    <3>2. (i - 8) - 8 \in w2
      BY <1>1, <3>1, Ones
    <3>3. ((i - 8) - 8) - 8 \in w1
      BY <1>1, <3>2, Ones
    <3>4. (((i - 8) - 8) - 8) - 8 \in Places
      BY <3>3, Ones
    <3> QED BY <3>1, <3>4 DEF Places
  <2> QED BY <2>1
<1>8. StmEight(StmEight(StmEight(StmEight(SymDiff(c, w))))) = c4
  <2>1. Left(w3, 8) \in Words
    BY WordOps
  <2> HIDE DEF c1, c2, c3, c4, w1, w2, w3
  <2> QED BY <1>2, <1>3, <1>4, <1>5, <1>6, <1>7, <2>1
\* The bytes of w as they come.
<1>9. /\ LowByte(Right(w1, 24)) = LowByte(Right(w, 16))
      /\ LowByte(Right(w2, 24)) = LowByte(Right(w, 8))
      /\ LowByte(Right(w3, 24)) = LowByte(Right(w, 0))
  <2>1. ASSUME NEW i PROVE /\ i \in LowByte(Right(w1, 24)) <=> i \in LowByte(Right(w, 16))
                           /\ i \in LowByte(Right(w2, 24)) <=> i \in LowByte(Right(w, 8))
                           /\ i \in LowByte(Right(w3, 24)) <=> i \in LowByte(Right(w, 0))
    <3>1. CASE i \notin 0 .. 7
      BY <3>1, Ones
    <3>2. CASE i \in 0 .. 7
      <4>1. /\ i \in Places /\ i + 24 \in Places /\ i + 16 \in Places /\ i + 8 \in Places
            /\ i + 0 = i /\ (i + 24) - 8 = i + 16 /\ (i + 16) - 8 = i + 8 /\ (i + 8) - 8 = i
        BY <3>2 DEF Places
      <4>2. /\ i \in LowByte(Right(w1, 24)) <=> i + 24 \in w1
            /\ i \in LowByte(Right(w2, 24)) <=> i + 24 \in w2
            /\ i \in LowByte(Right(w3, 24)) <=> i + 24 \in w3
        <5> HIDE DEF w1, w2, w3
        <5> QED BY <1>1, <3>2, ByteOf
      <4>3. /\ i \in LowByte(Right(w, 16)) <=> i + 16 \in w
            /\ i \in LowByte(Right(w, 8)) <=> i + 8 \in w
            /\ i \in LowByte(Right(w, 0)) <=> i \in w
        BY <3>2, <4>1, ByteOf
      <4>4. /\ i + 24 \in w1 <=> i + 16 \in w
            /\ i + 16 \in w1 <=> i + 8 \in w
            /\ i + 8 \in w1 <=> i \in w
        BY <4>1, Ones
      <4>5. /\ i + 24 \in w2 <=> i + 16 \in w1
            /\ i + 16 \in w2 <=> i + 8 \in w1
        BY <1>1, <4>1, Ones
      <4>6. i + 24 \in w3 <=> i + 16 \in w2
        BY <1>1, <4>1, Ones
      <4> QED BY <4>2, <4>3, <4>4, <4>5, <4>6
    <3> QED BY <3>1, <3>2
  <2>2. LowByte(Right(w1, 24)) = LowByte(Right(w, 16))
    BY <2>1
  <2>3. LowByte(Right(w2, 24)) = LowByte(Right(w, 8))
    BY <2>1
  <2>4. LowByte(Right(w3, 24)) = LowByte(Right(w, 0))
    BY <2>1
  <2> QED BY <2>2, <2>3, <2>4
<1>10. crc32_stm_update_word_tbl(c, w) = c4
  <2>1. 8 * 3 = 24 /\ 8 * 2 = 16 /\ 8 * 1 = 8 /\ 8 * 0 = 0
    OBVIOUS
  <2>2. crc32_stm_update_word_tbl(c, w)
          = StmByte(StmByte(StmByte(StmByte(c, LowByte(Right(w, 8 * 3))), LowByte(Right(w, 8 * 2))),
                            LowByte(Right(w, 8 * 1))), LowByte(Right(w, 8 * 0)))
    BY DEF crc32_stm_update_word_tbl
  <2> QED BY <1>9, <2>1, <2>2
<1> QED BY <1>5, <1>8, <1>10

\* Four bytes from the table, the lowest first.
LEMMA IeeeWordIs ==
  ASSUME NEW c \in Words, NEW w \in Words
  PROVE  /\ IeeeWord(c, w) = IeeeEight(IeeeEight(IeeeEight(IeeeEight(SymDiff(c, w)))))
         /\ IeeeWord(c, w) \in Words
<1> DEFINE w1 == Right(w, 8)
           w2 == Right(w1, 8)
           w3 == Right(w2, 8)
           c1 == IeeeByte(c, LowByte(w))
           c2 == IeeeByte(c1, LowByte(w1))
           c3 == IeeeByte(c2, LowByte(w2))
           c4 == IeeeByte(c3, LowByte(w3))
<1>1. w1 \in Words /\ w2 \in Words /\ w3 \in Words
  BY WordOps
<1>2. IeeeEight(SymDiff(c, w)) = SymDiff(c1, w1) /\ c1 \in Words
  BY IeeeStep
<1>3. IeeeEight(SymDiff(c1, w1)) = SymDiff(c2, w2) /\ c2 \in Words
  <2> HIDE DEF w1, c1
  <2> QED BY <1>1, <1>2, IeeeStep
<1>4. IeeeEight(SymDiff(c2, w2)) = SymDiff(c3, w3) /\ c3 \in Words
  <2> HIDE DEF w2, c2
  <2> QED BY <1>1, <1>3, IeeeStep
<1>5. IeeeEight(SymDiff(c3, w3)) = SymDiff(c4, Right(w3, 8)) /\ c4 \in Words
  <2> HIDE DEF w3, c3
  <2> QED BY <1>1, <1>4, IeeeStep
<1>6. \A i : i \in Words => (i = {} => SymDiff(c4, i) = c4)
  BY DEF SymDiff
<1>7. Right(w3, 8) = {}
  <2>1. ASSUME NEW i \in Right(w3, 8) PROVE FALSE
    <3>1. i \in Places /\ i + 8 \in w3
      BY <1>1, <2>1, Ones
    <3>2. (i + 8) + 8 \in w2
      BY <1>1, <3>1, Ones
    <3>3. ((i + 8) + 8) + 8 \in w1
      BY <1>1, <3>2, Ones
    <3>4. (((i + 8) + 8) + 8) + 8 \in w
      BY <3>3, Ones
    <3>5. (((i + 8) + 8) + 8) + 8 \in Places
      BY <3>4, Ones
    <3> QED BY <3>1, <3>5 DEF Places
  <2> QED BY <2>1
<1>8. IeeeEight(IeeeEight(IeeeEight(IeeeEight(SymDiff(c, w))))) = c4
  <2>1. Right(w3, 8) \in Words
    BY WordOps
  <2> HIDE DEF c1, c2, c3, c4, w1, w2, w3
  <2> QED BY <1>2, <1>3, <1>4, <1>5, <1>6, <1>7, <2>1
<1>9. /\ LowByte(w) = LowByte(Right(w, 0)) /\ LowByte(w1) = LowByte(Right(w, 8))
      /\ LowByte(w2) = LowByte(Right(w, 16)) /\ LowByte(w3) = LowByte(Right(w, 24))
  <2>1. ASSUME NEW i PROVE /\ i \in LowByte(w) <=> i \in LowByte(Right(w, 0))
                           /\ i \in LowByte(w2) <=> i \in LowByte(Right(w, 16))
                           /\ i \in LowByte(w3) <=> i \in LowByte(Right(w, 24))
    <3>1. CASE i \notin 0 .. 7
      BY <3>1, Ones
    <3>2. CASE i \in 0 .. 7
      <4>1. /\ i \in Places /\ i + 8 \in Places /\ i + 16 \in Places
            /\ i + 0 = i /\ (i + 8) + 8 = i + 16 /\ (i + 16) + 8 = i + 24
        BY <3>2 DEF Places
      <4>2. /\ i \in LowByte(Right(w, 0)) <=> i \in w
            /\ i \in LowByte(Right(w, 16)) <=> i + 16 \in w
            /\ i \in LowByte(Right(w, 24)) <=> i + 24 \in w
        BY <3>2, <4>1, Ones
      <4>3. /\ i \in LowByte(w) <=> i \in w
            /\ i \in LowByte(w2) <=> i + 8 \in w1
            /\ i \in LowByte(w3) <=> i + 8 \in w2
        BY <1>1, <3>2, <4>1, Ones
      <4>4. i + 8 \in w1 <=> i + 16 \in w
        BY <4>1, Ones
      <4>5. i + 8 \in w2 <=> i + 16 \in w1
        BY <1>1, <4>1, Ones
      <4>6. i + 16 \in w1 <=> i + 24 \in w
        BY <4>1, Ones
      <4> QED BY <4>2, <4>3, <4>4, <4>5, <4>6
    <3> QED BY <3>1, <3>2
  <2>2. LowByte(w) = LowByte(Right(w, 0))
    BY <2>1
  <2>3. LowByte(w2) = LowByte(Right(w, 16))
    BY <2>1
  <2>4. LowByte(w3) = LowByte(Right(w, 24))
    BY <2>1
  <2> QED BY <2>2, <2>3, <2>4
<1>10. IeeeWord(c, w) = c4
  <2>1. 8 * 3 = 24 /\ 8 * 2 = 16 /\ 8 * 1 = 8 /\ 8 * 0 = 0
    OBVIOUS
  <2>2. IeeeWord(c, w)
          = IeeeByte(IeeeByte(IeeeByte(IeeeByte(c, LowByte(Right(w, 8 * 0))),
                       LowByte(Right(w, 8 * 1))), LowByte(Right(w, 8 * 2))),
                     LowByte(Right(w, 8 * 3)))
    BY DEF IeeeWord
  <2> QED BY <1>9, <2>1, <2>2
<1> QED BY <1>5, <1>8, <1>10

----------------------------------------------------------------------------
(* Words one after the other                                               *)

\* Bytes make a word.
LEMMA WordTypes == \A bytes, i : WordAt(bytes, i) \in Words
BY DEF WordAt, Words, Left

StmWhole(x) == StmEight(StmEight(StmEight(StmEight(x))))
IeeeWhole(x) == IeeeEight(IeeeEight(IeeeEight(IeeeEight(x))))

\* And thirty-two rounds a word of a word.
LEMMA WholeTypes == \A x \in Words : StmWhole(x) \in Words /\ IeeeWhole(x) \in Words
BY EightTypes DEF StmWhole, IeeeWhole

\* f is the register of the STM32's unit behind each of the first n words.
StmFolds(f, c, bytes, n) ==
  /\ f \in [0 .. n -> Words] /\ f[0] = c
  /\ \A i \in 1 .. n : f[i] = StmWhole(SymDiff(f[i - 1], WordAt(bytes, i - 1)))

IeeeFolds(f, c, bytes, n) ==
  /\ f \in [0 .. n -> Words] /\ f[0] = c
  /\ \A i \in 1 .. n : f[i] = IeeeWhole(SymDiff(f[i - 1], WordAt(bytes, i - 1)))

\* There are such registers.
LEMMA StmFoldExists ==
  ASSUME NEW c \in Words, NEW bytes, NEW n \in Nat
  PROVE  \E f : StmFolds(f, c, bytes, n)
<1> DEFINE G == [i \in 1 .. n |-> [x \in Words |-> StmWhole(SymDiff(x, WordAt(bytes, i - 1)))]]
<1>1. PICK g \in [0 .. n -> Words] : TakesSteps(g, c, G, n)
  <2>1. G \in [1 .. n -> [Words -> Words]]
    BY WordOps, WordTypes, WholeTypes
  <2> HIDE DEF G
  <2> QED BY <2>1, Recursion
<1>2. \A i \in 1 .. n : G[i][g[i - 1]] = StmWhole(SymDiff(g[i - 1], WordAt(bytes, i - 1)))
  <2>1. \A i \in 1 .. n : i - 1 \in 0 .. n
    OBVIOUS
  <2> QED BY <2>1
<1> HIDE DEF G
<1> QED BY <1>1, <1>2 DEF TakesSteps, StmFolds

\* The same of the other checksum.
LEMMA IeeeFoldExists ==
  ASSUME NEW c \in Words, NEW bytes, NEW n \in Nat
  PROVE  \E f : IeeeFolds(f, c, bytes, n)
<1> DEFINE G == [i \in 1 .. n |-> [x \in Words |-> IeeeWhole(SymDiff(x, WordAt(bytes, i - 1)))]]
<1>1. PICK g \in [0 .. n -> Words] : TakesSteps(g, c, G, n)
  <2>1. G \in [1 .. n -> [Words -> Words]]
    BY WordOps, WordTypes, WholeTypes
  <2> HIDE DEF G
  <2> QED BY <2>1, Recursion
<1>2. \A i \in 1 .. n : G[i][g[i - 1]] = IeeeWhole(SymDiff(g[i - 1], WordAt(bytes, i - 1)))
  <2>1. \A i \in 1 .. n : i - 1 \in 0 .. n
    OBVIOUS
  <2> QED BY <2>1
<1> HIDE DEF G
<1> QED BY <1>1, <1>2 DEF TakesSteps, IeeeFolds

\* Two functions that begin alike and go on alike are the same.
LEMMA SameSteps ==
  ASSUME NEW n \in Nat, NEW f, NEW g, f[0] = g[0],
         \A i \in 1 .. n : f[i - 1] = g[i - 1] => f[i] = g[i]
  PROVE  \A i \in 0 .. n : f[i] = g[i]
<1> DEFINE T == {i \in 0 .. n : f[i] = g[i]}
<1>1. 0 \in T
  OBVIOUS
<1>2. ASSUME NEW i \in 1 .. n, i - 1 \in T PROVE i \in T
  BY <1>2
<1> HIDE DEF T
<1>3. \A i \in 0 .. n : i \in T
  BY <1>1, <1>2, UpTo
<1> QED BY <1>3 DEF T

\* crc32_calc_raw does with the table what the rounds do.
LEMMA CalcRawIs ==
  ASSUME NEW c \in Words, NEW bytes, NEW n \in Nat, NEW f, StmFolds(f, c, bytes, n)
  PROVE  crc32_calc_raw(c, bytes, n) = f[n]
<1> DEFINE P(g) == g = [i \in 0 .. n |->
                          IF i = 0 THEN c
                          ELSE crc32_stm_update_word_tbl(g[i - 1], WordAt(bytes, i - 1))]
           after == CHOOSE g : P(g)
<1>1. f \in [0 .. n -> Words] /\ f[0] = c
  BY DEF StmFolds
<1>2. ASSUME NEW i \in 1 .. n
      PROVE  f[i] = crc32_stm_update_word_tbl(f[i - 1], WordAt(bytes, i - 1))
  <2>1. f[i - 1] \in Words
    BY <1>1
  <2>2. f[i] = StmWhole(SymDiff(f[i - 1], WordAt(bytes, i - 1)))
    BY DEF StmFolds
  <2> QED BY <2>1, <2>2, WordTypes, StmWord DEF StmWhole
<1>3. P(f)
  <2>1. f = [i \in 0 .. n |-> f[i]]
    BY <1>1
  <2>2. \A i \in 0 .. n : i # 0 => i \in 1 .. n
    OBVIOUS
  <2>3. \A i \in 0 .. n : f[i] = IF i = 0 THEN c
          ELSE crc32_stm_update_word_tbl(f[i - 1], WordAt(bytes, i - 1))
    BY <1>1, <1>2, <2>2
  <2> QED BY <2>1, <2>3, Zenon
<1>4. P(after)
  BY <1>3
<1>5. crc32_calc_raw(c, bytes, n) = after[n]
  BY DEF crc32_calc_raw
<1> HIDE DEF after
<1>6. after[0] = f[0]
  BY <1>1, <1>4
<1>7. ASSUME NEW i \in 1 .. n, after[i - 1] = f[i - 1] PROVE after[i] = f[i]
  <2>1. after[i] = crc32_stm_update_word_tbl(after[i - 1], WordAt(bytes, i - 1))
    BY <1>4
  <2> QED BY <1>2, <1>7, <2>1
<1>8. after[n] = f[n]
  BY <1>6, <1>7, SameSteps
<1> QED BY <1>5, <1>8

\* Rounds, for the thirty-two of a word.
LEMMA StmWholeIs == ASSUME NEW c \in Words PROVE Rounds(StmRound, c, 32) = StmWhole(c)
<1> PICK n \in Nat : n = 32
  OBVIOUS
<1>1. PICK f \in [0 .. n -> Words] :
        /\ f[0] = c /\ \A i \in 1 .. n : f[i] = StmRound(f[i - 1])
        /\ Rounds(StmRound, c, n) = f[n]
  BY StmRounds, Zenon
<1>2. f[32] = StmWhole(f[0])
  BY <1>1, StmThirtyTwo DEF StmWhole
<1> QED BY <1>1, <1>2

\* The serial algorithm, word after word.
LEMMA SerialStmSteps ==
  ASSUME NEW bytes, NEW n \in Nat, NEW f, StmFolds(f, Places, bytes, n)
  PROVE  LET after[i \in 0 .. n] ==
               IF i = 0 THEN Places
               ELSE Rounds(StmRound, SymDiff(after[i - 1], WordAt(bytes, i - 1)), 32)
         IN  after[n] = f[n]
<1> DEFINE P(g) == g = [i \in 0 .. n |->
                          IF i = 0 THEN Places
                          ELSE Rounds(StmRound, SymDiff(g[i - 1], WordAt(bytes, i - 1)), 32)]
           after == CHOOSE g : P(g)
<1>1. SUFFICES after[n] = f[n]
  OBVIOUS
<1>2. f \in [0 .. n -> Words] /\ f[0] = Places
  BY DEF StmFolds
<1>3. ASSUME NEW i \in 1 .. n
      PROVE  f[i] = Rounds(StmRound, SymDiff(f[i - 1], WordAt(bytes, i - 1)), 32)
  <2>1. SymDiff(f[i - 1], WordAt(bytes, i - 1)) \in Words
    <3>1. i - 1 \in 0 .. n
      OBVIOUS
    <3> QED BY <1>2, <3>1, WordOps, WordTypes
  <2>2. f[i] = StmWhole(SymDiff(f[i - 1], WordAt(bytes, i - 1)))
    BY DEF StmFolds
  <2> QED BY <2>1, <2>2, StmWholeIs
<1>4. P(f)
  <2>1. f = [i \in 0 .. n |-> f[i]]
    BY <1>2
  <2>2. \A i \in 0 .. n : i # 0 => i \in 1 .. n
    OBVIOUS
  <2>3. \A i \in 0 .. n : f[i] = IF i = 0 THEN Places
          ELSE Rounds(StmRound, SymDiff(f[i - 1], WordAt(bytes, i - 1)), 32)
    BY <1>2, <1>3, <2>2
  <2> QED BY <2>1, <2>3, Zenon
<1>5. P(after)
  BY <1>4
<1> HIDE DEF after
<1>6. after[0] = f[0]
  BY <1>2, <1>5
<1>7. ASSUME NEW i \in 1 .. n, after[i - 1] = f[i - 1] PROVE after[i] = f[i]
  <2>1. after[i] = Rounds(StmRound, SymDiff(after[i - 1], WordAt(bytes, i - 1)), 32)
    BY <1>5
  <2> QED BY <1>3, <1>7, <2>1
<1> QED BY <1>6, <1>7, SameSteps

\* And its result.
LEMMA SerialStmIs ==
  ASSUME NEW bytes, Len(bytes) \div 4 \in Nat, NEW f, StmFolds(f, Places, bytes, Len(bytes) \div 4)
  PROVE  SerialStm(bytes) = f[Len(bytes) \div 4]
BY SerialStmSteps, Zenon DEF SerialStm

\* The same three of the other checksum.
LEMMA IeeeWholeIs == ASSUME NEW c \in Words PROVE Rounds(IeeeRound, c, 32) = IeeeWhole(c)
<1> PICK n \in Nat : n = 32
  OBVIOUS
<1>1. PICK f \in [0 .. n -> Words] :
        /\ f[0] = c /\ \A i \in 1 .. n : f[i] = IeeeRound(f[i - 1])
        /\ Rounds(IeeeRound, c, n) = f[n]
  BY IeeeRounds, Zenon
<1>2. f[32] = IeeeWhole(f[0])
  BY <1>1, IeeeThirtyTwo DEF IeeeWhole
<1> QED BY <1>1, <1>2

\* The serial algorithm, word after word.
LEMMA SerialIeeeSteps ==
  ASSUME NEW bytes, NEW n \in Nat, NEW f, IeeeFolds(f, Places, bytes, n)
  PROVE  LET after[i \in 0 .. n] ==
               IF i = 0 THEN Places
               ELSE Rounds(IeeeRound, SymDiff(after[i - 1], WordAt(bytes, i - 1)), 32)
         IN  after[n] = f[n]
<1> DEFINE P(g) == g = [i \in 0 .. n |->
                          IF i = 0 THEN Places
                          ELSE Rounds(IeeeRound, SymDiff(g[i - 1], WordAt(bytes, i - 1)), 32)]
           after == CHOOSE g : P(g)
<1>1. SUFFICES after[n] = f[n]
  OBVIOUS
<1>2. f \in [0 .. n -> Words] /\ f[0] = Places
  BY DEF IeeeFolds
<1>3. ASSUME NEW i \in 1 .. n
      PROVE  f[i] = Rounds(IeeeRound, SymDiff(f[i - 1], WordAt(bytes, i - 1)), 32)
  <2>1. SymDiff(f[i - 1], WordAt(bytes, i - 1)) \in Words
    <3>1. i - 1 \in 0 .. n
      OBVIOUS
    <3> QED BY <1>2, <3>1, WordOps, WordTypes
  <2>2. f[i] = IeeeWhole(SymDiff(f[i - 1], WordAt(bytes, i - 1)))
    BY DEF IeeeFolds
  <2> QED BY <2>1, <2>2, IeeeWholeIs
<1>4. P(f)
  <2>1. f = [i \in 0 .. n |-> f[i]]
    BY <1>2
  <2>2. \A i \in 0 .. n : i # 0 => i \in 1 .. n
    OBVIOUS
  <2>3. \A i \in 0 .. n : f[i] = IF i = 0 THEN Places
          ELSE Rounds(IeeeRound, SymDiff(f[i - 1], WordAt(bytes, i - 1)), 32)
    BY <1>2, <1>3, <2>2
  <2> QED BY <2>1, <2>3, Zenon
<1>5. P(after)
  BY <1>4
<1> HIDE DEF after
<1>6. after[0] = f[0]
  BY <1>2, <1>5
<1>7. ASSUME NEW i \in 1 .. n, after[i - 1] = f[i - 1] PROVE after[i] = f[i]
  <2>1. after[i] = Rounds(IeeeRound, SymDiff(after[i - 1], WordAt(bytes, i - 1)), 32)
    BY <1>5
  <2> QED BY <1>3, <1>7, <2>1
<1> QED BY <1>6, <1>7, SameSteps

\* And its result.
LEMMA SerialIeeeIs ==
  ASSUME NEW bytes, Len(bytes) \div 4 \in Nat, NEW f, IeeeFolds(f, Places, bytes, Len(bytes) \div 4)
  PROVE  SerialIeee(bytes) = Places \ f[Len(bytes) \div 4]
BY SerialIeeeSteps, Zenon DEF SerialIeee

\* crc32_IEEE8023_raw does with the table what the rounds do.
LEMMA IeeeRawIs ==
  ASSUME NEW c \in Words, NEW bytes, NEW n \in Nat, NEW f, IeeeFolds(f, Places \ c, bytes, n)
  PROVE  crc32_IEEE8023_raw(c, bytes, n) = Places \ f[n]
<1> DEFINE P(g) == g = [i \in 0 .. n |->
                          IF i = 0 THEN Places \ c
                          ELSE IeeeWord(g[i - 1], WordAt(bytes, i - 1))]
           after == CHOOSE g : P(g)
<1>1. f \in [0 .. n -> Words] /\ f[0] = Places \ c
  BY DEF IeeeFolds
<1>2. ASSUME NEW i \in 1 .. n
      PROVE  f[i] = IeeeWord(f[i - 1], WordAt(bytes, i - 1))
  <2>1. f[i - 1] \in Words
    BY <1>1
  <2>2. f[i] = IeeeWhole(SymDiff(f[i - 1], WordAt(bytes, i - 1)))
    BY DEF IeeeFolds
  <2> QED BY <2>1, <2>2, WordTypes, IeeeWordIs DEF IeeeWhole
<1>3. P(f)
  <2>1. f = [i \in 0 .. n |-> f[i]]
    BY <1>1
  <2>2. \A i \in 0 .. n : i # 0 => i \in 1 .. n
    OBVIOUS
  <2>3. \A i \in 0 .. n : f[i] = IF i = 0 THEN Places \ c
          ELSE IeeeWord(f[i - 1], WordAt(bytes, i - 1))
    BY <1>1, <1>2, <2>2
  <2> QED BY <2>1, <2>3, Zenon
<1>4. P(after)
  BY <1>3
<1>5. crc32_IEEE8023_raw(c, bytes, n) = Places \ after[n]
  BY DEF crc32_IEEE8023_raw
<1> HIDE DEF after
<1>6. after[0] = f[0]
  BY <1>1, <1>4
<1>7. ASSUME NEW i \in 1 .. n, after[i - 1] = f[i - 1] PROVE after[i] = f[i]
  <2>1. after[i] = IeeeWord(after[i - 1], WordAt(bytes, i - 1))
    <3>1. i \in 0 .. n /\ i # 0
      OBVIOUS
    <3>2. \A k \in 0 .. n : after[k] = IF k = 0 THEN Places \ c
                                       ELSE IeeeWord(after[k - 1], WordAt(bytes, k - 1))
      BY <1>4, Zenon
    <3> QED BY <3>1, <3>2
  <2> QED BY <1>2, <1>7, <2>1
<1>8. after[n] = f[n]
  BY <1>6, <1>7, SameSteps
<1> QED BY <1>5, <1>8

(***************************************************************************)
(* Both checksums, taken four bytes at a time from their tables, are what  *)
(* the serial algorithms of the comments compute, for every input.         *)
(***************************************************************************)
THEOREM TablesAreSerial ==
  ASSUME NEW bytes, Len(bytes) \in Nat
  PROVE  crc32_calc(bytes) = SerialStm(bytes) /\ crc32_IEEE8023_of(bytes) = SerialIeee(bytes)
<1>1. Len(bytes) \div 4 \in Nat /\ Places \in Words /\ {} \in Words /\ Places \ {} = Places
  BY DEF Words
<1>2. crc32_calc(bytes) = SerialStm(bytes)
  <2>1. PICK f : StmFolds(f, Places, bytes, Len(bytes) \div 4)
    BY <1>1, StmFoldExists
  <2>2. crc32_calc_raw(Places, bytes, Len(bytes) \div 4) = f[Len(bytes) \div 4]
    BY <1>1, <2>1, CalcRawIs
  <2> QED BY <1>1, <2>1, <2>2, SerialStmIs DEF crc32_calc, UINT32_MAX_WORD
<1>3. crc32_IEEE8023_of(bytes) = SerialIeee(bytes)
  <2>1. PICK f : IeeeFolds(f, Places, bytes, Len(bytes) \div 4)
    BY <1>1, IeeeFoldExists
  <2>2. crc32_IEEE8023_raw({}, bytes, Len(bytes) \div 4) = Places \ f[Len(bytes) \div 4]
    BY <1>1, <2>1, IeeeRawIs
  <2> QED BY <1>1, <2>1, <2>2, SerialIeeeIs DEF crc32_IEEE8023_of
<1> QED BY <1>2, <1>3

----------------------------------------------------------------------------
(* A CRC in parts, and of two files that differ                            *)

SameWords(s, t, n) == \A i \in 0 .. (n - 1) : WordAt(s, i) = WordAt(t, i)

\* The first n steps of f.
BeginsWith(f, c, bytes, n) ==
  f[0] = c /\ \A i \in 1 .. n : f[i] = StmWhole(SymDiff(f[i - 1], WordAt(bytes, i - 1)))

\* Registers for m words are registers for fewer.
LEMMA Begins ==
  ASSUME NEW f, NEW c, NEW bytes, NEW m \in Nat, NEW n \in Nat, n <= m, StmFolds(f, c, bytes, m)
  PROVE  BeginsWith(f, c, bytes, n)
BY DEF StmFolds, BeginsWith

\* Registers that take in the same words are the same.
LEMMA SameFold ==
  ASSUME NEW c, NEW s, NEW t, NEW n \in Nat, NEW f, NEW g,
         BeginsWith(f, c, s, n), BeginsWith(g, c, t, n), SameWords(s, t, n)
  PROVE  \A i \in 0 .. n : f[i] = g[i]
<1>1. f[0] = g[0]
  BY DEF BeginsWith
<1>2. ASSUME NEW i \in 1 .. n, f[i - 1] = g[i - 1] PROVE f[i] = g[i]
  <2>1. i - 1 \in 0 .. (n - 1)
    OBVIOUS
  <2>2. /\ f[i] = StmWhole(SymDiff(f[i - 1], WordAt(s, i - 1)))
        /\ g[i] = StmWhole(SymDiff(g[i - 1], WordAt(t, i - 1)))
    BY DEF BeginsWith
  <2>3. WordAt(s, i - 1) = WordAt(t, i - 1)
    BY <2>1 DEF SameWords
  <2> QED BY <1>2, <2>2, <2>3
<1> QED BY <1>1, <1>2, SameSteps

\* The CRC of a beginning goes on with the rest.
LEMMA InParts ==
  ASSUME NEW c \in Words, NEW bytes, NEW o \in Nat, NEW n \in Nat, NEW head, NEW data,
         SameWords(head, bytes, o),
         \A i \in 0 .. (n - 1) : WordAt(data, i) = WordAt(bytes, o + i)
  PROVE  crc32_calc_raw(crc32_calc_raw(c, head, o), data, n) = crc32_calc_raw(c, bytes, o + n)
<1>1. PICK f : StmFolds(f, c, bytes, o + n)
  <2>1. o + n \in Nat
    OBVIOUS
  <2> QED BY <2>1, StmFoldExists
<1>2. PICK g : StmFolds(g, c, head, o)
  BY StmFoldExists
<1>3. g[o] = f[o] /\ f[o] \in Words
  <2>1. BeginsWith(f, c, bytes, o)
    <3>1. o <= o + n /\ o + n \in Nat
      OBVIOUS
    <3> QED BY <1>1, <3>1, Begins
  <2>2. BeginsWith(g, c, head, o)
    BY <1>2, Begins
  <2>4. \A i \in 0 .. o : g[i] = f[i]
    BY <2>1, <2>2, SameFold
  <2> QED BY <1>1, <2>4 DEF StmFolds
<1>4. PICK h : StmFolds(h, f[o], data, n)
  BY <1>3, StmFoldExists
<1>5. h[n] = f[o + n]
  <2> DEFINE T == {i \in 0 .. n : h[i] = f[o + i]}
  <2>1. 0 \in T
    BY <1>4 DEF StmFolds
  <2>2. ASSUME NEW i \in 1 .. n, i - 1 \in T PROVE i \in T
    <3>1. /\ o + i \in 1 .. (o + n) /\ (o + i) - 1 = o + (i - 1) /\ i - 1 \in 0 .. (n - 1)
      OBVIOUS
    <3>2. /\ h[i] = StmWhole(SymDiff(h[i - 1], WordAt(data, i - 1)))
          /\ f[o + i] = StmWhole(SymDiff(f[o + (i - 1)], WordAt(bytes, o + (i - 1))))
      BY <1>1, <1>4, <3>1 DEF StmFolds
    <3>3. h[i] = f[o + i]
      BY <2>2, <3>1, <3>2
    <3> QED BY <3>3
  <2> HIDE DEF T
  <2>3. \A i \in 0 .. n : i \in T
    BY <2>1, <2>2, UpTo
  <2>4. n \in T
    BY <2>3
  <2> QED BY <2>4 DEF T
<1>6. crc32_calc_raw(c, head, o) = f[o]
  BY <1>2, <1>3, CalcRawIs
<1>7. crc32_calc_raw(f[o], data, n) = h[n]
  BY <1>3, <1>4, CalcRawIs
<1>8. crc32_calc_raw(c, bytes, o + n) = f[o + n]
  BY <1>1, CalcRawIs
<1> QED BY <1>5, <1>6, <1>7, <1>8

\* The CRC is a word.
LEMMA CalcTypes ==
  ASSUME NEW c \in Words, NEW bytes, NEW n \in Nat
  PROVE  crc32_calc_raw(c, bytes, n) \in Words
<1>1. PICK f : StmFolds(f, c, bytes, n)
  BY StmFoldExists
<1>2. f[n] \in Words
  BY <1>1 DEF StmFolds
<1> QED BY <1>1, <1>2, CalcRawIs

\* The polynomial has a one in the place that a shift leaves empty.
LEMMA PolyIsOdd == 0 \in STM_POLY
<1> DEFINE bytes == <<\hB7, \h1D, \hC1, \h04>>
<1>1. STM_POLY = WordAt(bytes, 0)
  BY DEF STM_POLY, Const
<1>2. bytes[4 * 0 + 0 + 1] = 183
  OBVIOUS
<1>3. 0 \in BitsOf[183]
  <2>1. (183 \div 2 ^ 0) % 2 = 1
    <3>1. 2 ^ 0 = 1
      OBVIOUS
    <3>2. 183 \div 1 = 183 /\ 183 % 2 = 1
      OBVIOUS
    <3> QED BY <3>1, <3>2
  <2> QED BY <2>1 DEF BitsOf
<1> HIDE DEF bytes
<1>4. 0 \in Left(BitsOf[bytes[4 * 0 + 0 + 1]], 8 * 0)
  <2>1. 0 = 0 + 8 * 0 /\ 0 \in Places
    BY DEF Places
  <2> QED BY <1>2, <1>3, <2>1 DEF Left
<1>5. 0 \in 0 .. 3
  OBVIOUS
<1> QED BY <1>1, <1>4, <1>5 DEF WordAt

\* So no two words become one in a round.
LEMMA RoundInjective ==
  ASSUME NEW a \in Words, NEW b \in Words, a # b
  PROVE  StmRound(a) # StmRound(b)
<1> DEFINE x == SymDiff(a, b)
<1>1. x \in Words /\ x # {}
  BY WordOps DEF SymDiff
<1>2. StmRound(x) # {}
  <2> HIDE DEF x
  <2>1. CASE 31 \in x
    <3>1. 0 \notin Left(x, 1)
      <4>1. 0 - 1 \notin Places
        BY DEF Places
      <4>2. 0 - 1 \notin x
        BY <1>1, <4>1, Ones
      <4> QED BY <1>1, <4>2, Ones
    <3>2. 0 \in StmRound(x)
      BY <2>1, <3>1, PolyIsOdd DEF StmRound, SymDiff
    <3> QED BY <3>2
  <2>2. CASE 31 \notin x
    <3>1. PICK i \in x : TRUE
      BY <1>1
    <3>2. i \in Places /\ i # 31
      BY <1>1, <2>2, Ones
    <3>3. i + 1 \in Places /\ (i + 1) - 1 = i
      BY <3>2 DEF Places
    <3>4. i + 1 \in Left(x, 1)
      BY <1>1, <3>3, Ones
    <3> QED BY <2>2, <3>4 DEF StmRound
  <2> QED BY <2>1, <2>2
<1>3. StmRound(x) = SymDiff(StmRound(a), StmRound(b))
  BY Linear
<1>4. StmRound(a) = StmRound(b) => SymDiff(StmRound(a), StmRound(b)) = {}
  BY DEF SymDiff
<1> QED BY <1>2, <1>3, <1>4

\* Nor in the rounds of a word.
LEMMA WholeInjective ==
  ASSUME NEW a \in Words, NEW b \in Words, a # b
  PROVE  StmWhole(a) # StmWhole(b)
<1>1. \A c, d \in Words : c # d => StmEight(c) # StmEight(d)
  BY RoundInjective, RoundTypes DEF StmEight
<1> QED BY <1>1, EightTypes DEF StmWhole

\* Files that differ in one word have different CRCs.
LEMMA OneWordOff ==
  ASSUME NEW c \in Words, NEW s, NEW t, NEW n \in Nat, NEW k \in 0 .. (n - 1),
         WordAt(s, k) # WordAt(t, k),
         \A i \in 0 .. (n - 1) : i # k => WordAt(s, i) = WordAt(t, i)
  PROVE  crc32_calc_raw(c, s, n) # crc32_calc_raw(c, t, n)
<1>1. PICK f : StmFolds(f, c, s, n)
  BY StmFoldExists
<1>2. PICK g : StmFolds(g, c, t, n)
  BY StmFoldExists
<1>3. f[k] = g[k]
  <2>1. SameWords(s, t, k)
    BY DEF SameWords
  <2>2. k <= n /\ k \in Nat
    OBVIOUS
  <2>3. BeginsWith(f, c, s, k) /\ BeginsWith(g, c, t, k)
    BY <1>1, <1>2, <2>2, Begins
  <2>4. \A i \in 0 .. k : f[i] = g[i]
    BY <2>1, <2>2, <2>3, SameFold
  <2> QED BY <2>2, <2>4
<1> DEFINE T == {i \in 0 .. n : i > k => f[i] # g[i]}
<1>4. 0 \in T
  OBVIOUS
<1>5. ASSUME NEW i \in 1 .. n, i - 1 \in T PROVE i \in T
  <2> SUFFICES ASSUME i > k PROVE f[i] # g[i]
    OBVIOUS
  <2> DEFINE v == WordAt(s, i - 1)
             w == WordAt(t, i - 1)
  <2>1. /\ f[i] = StmWhole(SymDiff(f[i - 1], v)) /\ g[i] = StmWhole(SymDiff(g[i - 1], w))
        /\ f[i - 1] \in Words /\ g[i - 1] \in Words
    <3>1. i - 1 \in 0 .. n
      OBVIOUS
    <3> QED BY <1>1, <1>2, <3>1 DEF StmFolds
  <2>2. SymDiff(f[i - 1], v) # SymDiff(g[i - 1], w)
    <3>1. CASE i - 1 = k
      <4>1. f[i - 1] = g[i - 1] /\ v # w
        BY <1>3, <3>1
      <4> HIDE DEF v, w
      <4> QED BY <4>1 DEF SymDiff
    <3>2. CASE i - 1 > k
      <4>1. f[i - 1] # g[i - 1] /\ v = w
        BY <1>5, <3>2
      <4> HIDE DEF v, w
      <4> QED BY <4>1 DEF SymDiff
    <3> QED BY <3>1, <3>2
  <2>3. v \in Words /\ w \in Words
    BY WordTypes
  <2> HIDE DEF v, w
  <2> QED BY <2>1, <2>2, <2>3, WholeInjective, WordOps
<1> HIDE DEF T
<1>6. \A i \in 0 .. n : i \in T
  BY <1>4, <1>5, UpTo
<1>7. f[n] # g[n]
  BY <1>6 DEF T
<1> QED BY <1>1, <1>2, <1>7, CalcRawIs

\* A byte is its bits.
LEMMA ByteIsBits ==
  ASSUME NEW a \in 0 .. 255, NEW b \in 0 .. 255, BitsOf[a] = BitsOf[b]
  PROVE  a = b
<1>1. \A x \in 0 .. 255 : \A i \in 0 .. 7 : i \in BitsOf[x] <=> (x \div 2 ^ i) % 2 = 1
  BY DEF BitsOf
<1>2. \A i \in 0 .. 7 : (a \div 2 ^ i) % 2 = 1 <=> (b \div 2 ^ i) % 2 = 1
  BY <1>1
<1>3. /\ 2 ^ 0 = 1 /\ 2 ^ 1 = 2 /\ 2 ^ 2 = 4 /\ 2 ^ 3 = 8
      /\ 2 ^ 4 = 16 /\ 2 ^ 5 = 32 /\ 2 ^ 6 = 64 /\ 2 ^ 7 = 128
  OBVIOUS
<1> DEFINE bit(x, p) == (x \div p) % 2 = 1
<1>4. \A i \in 0 .. 7 : bit(a, 2 ^ i) <=> bit(b, 2 ^ i)
  BY <1>2
<1> HIDE DEF bit
<1>5. /\ 0 \in 0 .. 7 /\ 1 \in 0 .. 7 /\ 2 \in 0 .. 7 /\ 3 \in 0 .. 7
      /\ 4 \in 0 .. 7 /\ 5 \in 0 .. 7 /\ 6 \in 0 .. 7 /\ 7 \in 0 .. 7
  OBVIOUS
<1>6. /\ bit(a, 1) <=> bit(b, 1)
      /\ bit(a, 2) <=> bit(b, 2)
      /\ bit(a, 4) <=> bit(b, 4)
      /\ bit(a, 8) <=> bit(b, 8)
      /\ bit(a, 16) <=> bit(b, 16)
      /\ bit(a, 32) <=> bit(b, 32)
      /\ bit(a, 64) <=> bit(b, 64)
      /\ bit(a, 128) <=> bit(b, 128)
  <2>1. bit(a, 1) <=> bit(b, 1)
    <3>1. bit(a, 2 ^ 0) <=> bit(b, 2 ^ 0)
      BY <1>4, <1>5
    <3> QED BY <1>3, <3>1
  <2>2. bit(a, 2) <=> bit(b, 2)
    <3>1. bit(a, 2 ^ 1) <=> bit(b, 2 ^ 1)
      BY <1>4, <1>5
    <3> QED BY <1>3, <3>1
  <2>3. bit(a, 4) <=> bit(b, 4)
    <3>1. bit(a, 2 ^ 2) <=> bit(b, 2 ^ 2)
      BY <1>4, <1>5
    <3> QED BY <1>3, <3>1
  <2>4. bit(a, 8) <=> bit(b, 8)
    <3>1. bit(a, 2 ^ 3) <=> bit(b, 2 ^ 3)
      BY <1>4, <1>5
    <3> QED BY <1>3, <3>1
  <2>5. bit(a, 16) <=> bit(b, 16)
    <3>1. bit(a, 2 ^ 4) <=> bit(b, 2 ^ 4)
      BY <1>4, <1>5
    <3> QED BY <1>3, <3>1
  <2>6. bit(a, 32) <=> bit(b, 32)
    <3>1. bit(a, 2 ^ 5) <=> bit(b, 2 ^ 5)
      BY <1>4, <1>5
    <3> QED BY <1>3, <3>1
  <2>7. bit(a, 64) <=> bit(b, 64)
    <3>1. bit(a, 2 ^ 6) <=> bit(b, 2 ^ 6)
      BY <1>4, <1>5
    <3> QED BY <1>3, <3>1
  <2>8. bit(a, 128) <=> bit(b, 128)
    <3>1. bit(a, 2 ^ 7) <=> bit(b, 2 ^ 7)
      BY <1>4, <1>5
    <3> QED BY <1>3, <3>1
  <2> QED BY <2>1, <2>2, <2>3, <2>4, <2>5, <2>6, <2>7, <2>8
<1>7. \A x \in Int : (x % 2 = 1) <=> ~(x % 2 = 0)
  OBVIOUS
<1>8. /\ a % 2 = b % 2 /\ (a \div 2) % 2 = (b \div 2) % 2
      /\ (a \div 4) % 2 = (b \div 4) % 2 /\ (a \div 8) % 2 = (b \div 8) % 2
      /\ (a \div 16) % 2 = (b \div 16) % 2 /\ (a \div 32) % 2 = (b \div 32) % 2
      /\ (a \div 64) % 2 = (b \div 64) % 2 /\ (a \div 128) % 2 = (b \div 128) % 2
  <2>1. a \div 1 = a /\ b \div 1 = b
    OBVIOUS
  <2> QED BY <1>6, <2>1, SMTT(30) DEF bit
<1> QED BY <1>8, SMTT(60)

\* The i-th word of s and the j-th of t, byte by byte.
BytesAt(s, i) == \A k \in 0 .. 3 : s[4 * i + k + 1] \in 0 .. 255
SameBytes(s, i, t, j) == \A k \in 0 .. 3 : s[4 * i + k + 1] = t[4 * j + k + 1]

\* A word is its four bytes, wherever they lie.
LEMMA WordMoves ==
  ASSUME NEW s, NEW t, NEW i, NEW j, SameBytes(s, i, t, j)
  PROVE  WordAt(s, i) = WordAt(t, j)
<1> DEFINE u(k) == Left(BitsOf[s[4 * i + k + 1]], 8 * k)
           v(k) == Left(BitsOf[t[4 * j + k + 1]], 8 * k)
<1>1. \A k \in 0 .. 3 : u(k) = v(k)
  BY DEF SameBytes
<1>2. WordAt(s, i) = UNION {u(k) : k \in 0 .. 3} /\ WordAt(t, j) = UNION {v(k) : k \in 0 .. 3}
  BY Zenon DEF WordAt
<1> HIDE DEF u, v
<1>3. {u(k) : k \in 0 .. 3} = {v(k) : k \in 0 .. 3}
  BY <1>1
<1> QED BY <1>2, <1>3

\* No two bytes of a word share a place.
LEMMA WordIsBytes ==
  ASSUME NEW s, NEW t, NEW i, NEW j, BytesAt(s, i), BytesAt(t, j), WordAt(s, i) = WordAt(t, j)
  PROVE  SameBytes(s, i, t, j)
<1> DEFINE u(k) == BitsOf[s[4 * i + k + 1]]
           v(k) == BitsOf[t[4 * j + k + 1]]
<1>1. \A x \in 0 .. 255 : BitsOf[x] \in SUBSET (0 .. 7)
  BY DEF BitsOf
<1>2. \A k \in 0 .. 3 : u(k) \in SUBSET (0 .. 7) /\ v(k) \in SUBSET (0 .. 7)
  BY <1>1 DEF BytesAt
<1>3. /\ WordAt(s, i) = UNION {Left(u(k), 8 * k) : k \in 0 .. 3}
      /\ WordAt(t, j) = UNION {Left(v(k), 8 * k) : k \in 0 .. 3}
  BY Zenon DEF WordAt
<1>4. ASSUME NEW k \in 0 .. 3 PROVE s[4 * i + k + 1] = t[4 * j + k + 1]
  <2> HIDE DEF u, v
  <2>1. ASSUME NEW b \in 0 .. 7 PROVE b \in u(k) <=> b \in v(k)
    <3> DEFINE x == b + 8 * k
    <3>1. x \in Places
      BY DEF Places
    <3>2. \A m \in 0 .. 3 : x - 8 * m \in 0 .. 7 => m = k
      OBVIOUS
    <3>3. x - 8 * k = b
      OBVIOUS
    <3>4. \A m \in 0 .. 3 : /\ x \in Left(u(m), 8 * m) <=> x - 8 * m \in u(m)
                            /\ x \in Left(v(m), 8 * m) <=> x - 8 * m \in v(m)
      <4> SUFFICES ASSUME NEW m \in 0 .. 3
                   PROVE  /\ x \in Left(u(m), 8 * m) <=> x - 8 * m \in u(m)
                          /\ x \in Left(v(m), 8 * m) <=> x - 8 * m \in v(m)
        OBVIOUS
      <4>1. u(m) \in Words /\ v(m) \in Words
        <5>1. \A y \in 0 .. 7 : y \in Places
          BY DEF Places
        <5> QED BY <1>2, <5>1 DEF Words
      <4>2. 8 * m \in Nat
        OBVIOUS
      <4> HIDE DEF x
      <4> QED BY <3>1, <4>1, <4>2, Ones
    <3>5. x \in WordAt(s, i) <=> b \in u(k)
      <4>1. x \in WordAt(s, i) <=> \E m \in 0 .. 3 : x \in Left(u(m), 8 * m)
        BY <1>3
      <4>2. \A m \in 0 .. 3 : x \in Left(u(m), 8 * m) => m = k
        BY <1>2, <3>2, <3>4
      <4>3. x \in Left(u(k), 8 * k) <=> b \in u(k)
        BY <3>3, <3>4
      <4> HIDE DEF x
      <4> QED BY <4>1, <4>2, <4>3
    <3>6. x \in WordAt(t, j) <=> b \in v(k)
      <4>1. x \in WordAt(t, j) <=> \E m \in 0 .. 3 : x \in Left(v(m), 8 * m)
        BY <1>3
      <4>2. \A m \in 0 .. 3 : x \in Left(v(m), 8 * m) => m = k
        BY <1>2, <3>2, <3>4
      <4>3. x \in Left(v(k), 8 * k) <=> b \in v(k)
        BY <3>3, <3>4
      <4> HIDE DEF x
      <4> QED BY <4>1, <4>2, <4>3
    <3> HIDE DEF x
    <3> QED BY <3>5, <3>6
  <2>2. u(k) = v(k)
    <3>1. u(k) \subseteq 0 .. 7 /\ v(k) \subseteq 0 .. 7
      BY <1>2
    <3> QED BY <2>1, <3>1
  <2> QED BY <2>2, ByteIsBits DEF u, v, BytesAt
<1> QED BY <1>4 DEF SameBytes
=============================================================================
